----------------------------- MODULE SWEProofs ------------------------------
(***************************************************************************)
(* The evaluation of a suite is monotone on repository tasks whose tests   *)
(* are steady, credit is earned, the report of repeated evaluations agrees *)
(* with itself, and the exit code of a command tells what was done: for    *)
(* any tasks, patches, verdicts and numbers of evaluations.                *)
(*                                                                         *)
(* Monotone speaks of the rows of finished tasks.  It is kept because the  *)
(* row of the current task becomes monotone guard by guard, and a guard    *)
(* succeeds because a result that passed carries a patch that can pass:    *)
(* with a steady task it will pass again.                                  *)
(***************************************************************************)
EXTENDS CodingCommand, FiniteSetTheorems, SequenceLemmas

Running == pc \notin {"done", "aborted"}

(* A passed result of a task has a patch that can pass, and is marked as   *)
(* verified if the guards will ask for that.                               *)
Sound(task, result) ==
  result.passed => /\ result.files \in Patches
                   /\ "passed" \in Verdicts[task][result.files]
                   /\ task \in RepoTasks => result.exact

Eligible(task) == task \in RepoTasks /\ Steady(task)

SingleKeeps(r) == r["baseline"].passed => r["cgr_single"].passed
MultiKeeps(r) == r["cgr_single"].passed => r["cgr_multi"].passed

RowsInv ==
  \A i \in DOMAIN rows :
    Eligible(tasks[i]) => SingleKeeps(rows[i]) /\ MultiKeeps(rows[i])

RowInv ==
  /\ \A m \in Modes : Sound(Task, row[m])
  /\ mode = "cgr_multi" /\ Eligible(Task) => SingleKeeps(row)
  /\ pc \in {"guardBaseline", "record"} /\ Eligible(Task) => MultiKeeps(row)

PlaceInv ==
  /\ pc \in {"guardBaseline", "record"} => mode = "cgr_multi"
  /\ pc = "verify" => patch \in Patches

IInv ==
  /\ TypeOK
  /\ RowsInv
  /\ Running => Len(rows) < Len(tasks) /\ PlaceInv /\ RowInv

(* What is assumed of the constants.                                       *)
USE RepoAssumption, PatchAssumption, VerdictAssumption, SuitesAssumption

LEMMA ModesAre == Modes = {"baseline", "cgr_single", "cgr_multi"}
  BY DEF Modes

(* NoResult and EmptyRow have the types of a result and a row.             *)
LEMMA EmptyTypes ==
  NoResult \in Result /\ EmptyRow \in [Modes -> Result]
  BY DEF NoResult, EmptyRow, Result

(* Updating the result of one mode.                                        *)
LEMMA RowUpdate ==
  ASSUME NEW r \in [Modes -> Result], NEW m \in Modes, NEW x \in Result
  PROVE  /\ [r EXCEPT ![m] = x] \in [Modes -> Result]
         /\ [r EXCEPT ![m] = x][m] = x
         /\ \A n \in Modes : n # m => [r EXCEPT ![m] = x][n] = r[n]
  OBVIOUS

(* While a suite runs there is a current task.                             *)
LEMMA TaskInTasks ==
  ASSUME TypeOK, Len(rows) < Len(tasks)
  PROVE  Task \in Tasks
  BY DEF TypeOK, Task

LEMMA InitInv == Init => IInv
<1> SUFFICES ASSUME Init PROVE IInv
  OBVIOUS
<1>1. tasks \in Seq(Tasks)
  BY DEF Init
<1>2. TypeOK
  BY <1>1, EmptyTypes DEF Init, TypeOK, Places, Modes
<1>3. RowsInv
  BY DEF Init, RowsInv
<1>4. Running => Len(rows) < Len(tasks)
  BY <1>1 DEF Init, Running
<1>5. PlaceInv /\ RowInv
  BY DEF Init, PlaceInv, RowInv, EmptyRow, NoResult, Sound, Modes
<1> QED
  BY <1>2, <1>3, <1>4, <1>5 DEF IInv

-----------------------------------------------------------------------------
(* A case that ends with a sound result keeps the invariant.               *)
LEMMA CaseEndsInv ==
  ASSUME IInv, Running, NEW result \in Result, Sound(Task, result),
         pc \notin {"guardBaseline", "record"}, CaseEnds(result)
  PROVE  IInv'
<1>1. TypeOK /\ RowsInv /\ Len(rows) < Len(tasks) /\ PlaceInv /\ RowInv
  BY DEF IInv
<1>2. tasks' = tasks /\ rows' = rows /\ Task' = Task /\ patch' = NoPatch
  BY DEF CaseEnds, Task
<1>3. row \in [Modes -> Result] /\ mode \in Modes
  BY <1>1 DEF TypeOK
<1>4. row' = [row EXCEPT ![mode] = result]
  BY DEF CaseEnds
<1>5. /\ row' \in [Modes -> Result] /\ row'[mode] = result
      /\ \A n \in Modes : n # mode => row'[n] = row[n]
  BY <1>3, <1>4, RowUpdate
<1>6. /\ mode' \in Modes
      /\ \/ mode = "baseline" /\ mode' = "cgr_single" /\ pc' = "ask"
         \/ mode # "baseline" /\ mode' = mode /\ pc' = "guard"
  BY <1>3 DEF CaseEnds, Modes
<1>7. TypeOK'
  BY <1>1, <1>2, <1>5, <1>6 DEF TypeOK, Places
<1>8. RowsInv'
  BY <1>1, <1>2 DEF RowsInv, Eligible, Steady
<1>9. PlaceInv'
  BY <1>6 DEF PlaceInv
<1>10. (\A m \in Modes : Sound(Task, row[m]))'
  <2> SUFFICES ASSUME NEW m \in Modes PROVE Sound(Task, row'[m])
    BY <1>2 DEF Sound
  <2>1. CASE m = mode
    BY <2>1, <1>5
  <2>2. CASE m # mode
    BY <2>2, <1>5, <1>1 DEF RowInv
  <2> QED
    BY <2>1, <2>2
<1>11. (mode = "cgr_multi" /\ Eligible(Task) => SingleKeeps(row))'
  <2> SUFFICES ASSUME mode' = "cgr_multi", Eligible(Task)
               PROVE  row'["baseline"].passed => row'["cgr_single"].passed
    BY <1>2 DEF Eligible, Steady, SingleKeeps
  <2>1. mode = "cgr_multi"
    BY <1>6
  <2>2. row'["baseline"] = row["baseline"]
        /\ row'["cgr_single"] = row["cgr_single"]
    BY <2>1, <1>5, ModesAre
  <2> QED
    BY <2>1, <2>2, <1>1 DEF RowInv, SingleKeeps
<1>12. RowInv'
  BY <1>6, <1>10, <1>11 DEF RowInv
<1> QED
  BY <1>1, <1>2, <1>7, <1>8, <1>9, <1>12 DEF IInv

(* What taking over a weaker mode's patch does to the row.                 *)
LEMMA FallsBackRow ==
  ASSUME TypeOK, Task \in Tasks, NEW f \in Modes, NEW next \in Places,
         \A m \in Modes : Sound(Task, row[m]),
         FallsBack(row[f], next)
  PROVE  /\ row' \in [Modes -> Result]
         /\ \A n \in Modes : n # mode => row'[n] = row[n]
         /\ \A m \in Modes : Sound(Task, row'[m])
         /\ row[mode].passed => row'[mode].passed
         /\ pc' \in {next, "aborted"}
         /\ pc' # "aborted" /\ Eligible(Task) /\ row[f].passed
              => row'[mode].passed
<1>1. row \in [Modes -> Result] /\ mode \in Modes
  BY DEF TypeOK
<1>2. CASE ~ Applicable(row[f]) /\ pc' = next /\ UNCHANGED row
  <2>1. Eligible(Task) /\ row[f].passed => row[mode].passed
    <3> SUFFICES ASSUME Eligible(Task), row[f].passed, ~ row[mode].passed
                 PROVE  FALSE
      BY <1>1 DEF Result
    <3>1. row[f].files \in Patches /\ row[f].exact
      BY DEF Sound, Eligible
    <3> QED
      BY <1>2, <3>1 DEF Applicable, Eligible
  <2> QED
    BY <1>1, <1>2, <2>1
<1>3. CASE Applicable(row[f]) /\ Adopts(row[f], next)
  <2>1. PICK verdict \in Verdicts[Task][row[f].files] :
          /\ row' = IF verdict = "passed"
                THEN [row EXCEPT ![mode] = [passed |-> TRUE,
                        files |-> row[f].files, exact |-> TRUE]]
                ELSE row
          /\ pc' = IF verdict = "raised" THEN "aborted" ELSE next
    BY <1>3 DEF Adopts
  <2>2. /\ row[f].files \in Patches
        /\ "passed" \in Verdicts[Task][row[f].files]
        /\ ~ row[mode].passed
    BY <1>3 DEF Applicable, Sound
  <2> DEFINE taken == [passed |-> TRUE, files |-> row[f].files, exact |-> TRUE]
  <2>3. taken \in Result /\ Sound(Task, taken)
    BY <2>2 DEF Result, Sound
  <2>4. CASE verdict = "passed"
    <3>1. row' = [row EXCEPT ![mode] = taken] /\ pc' = next
      BY <2>1, <2>4
    <3>2. taken.passed
      OBVIOUS
    <3> HIDE DEF taken
    <3>3. /\ row' \in [Modes -> Result] /\ row'[mode] = taken
          /\ \A n \in Modes : n # mode => row'[n] = row[n]
      BY <1>1, <2>3, <3>1, RowUpdate
    <3>4. \A m \in Modes : Sound(Task, row'[m])
      BY <2>3, <3>3
    <3> QED
      BY <3>1, <3>2, <3>3, <3>4
  <2>5. CASE verdict # "passed"
    <3>1. row' = row /\ pc' \in {next, "aborted"}
      BY <2>1, <2>5
    <3>2. ~ Eligible(Task)
      BY <2>1, <2>2, <2>5 DEF Eligible, Steady
    <3> QED
      BY <1>1, <3>1, <3>2
  <2> QED
    BY <2>4, <2>5
<1> QED
  BY <1>2, <1>3 DEF FallsBack

-----------------------------------------------------------------------------
LEMMA AnswersInv ==
  ASSUME IInv, NEW p \in Patches, Answers(p)
  PROVE  IInv'
<1>1. Running
  BY DEF Answers, Running
<1>2. TypeOK /\ RowsInv /\ Len(rows) < Len(tasks) /\ PlaceInv /\ RowInv
  BY <1>1 DEF IInv
<1>3. UNCHANGED <<tasks, rows, row, mode>> /\ patch' = p /\ pc' = "verify"
  BY DEF Answers
<1>4. Task' = Task
  BY <1>3 DEF Task
<1>5. TypeOK'
  BY <1>2, <1>3 DEF TypeOK, Places
<1>6. RowsInv' /\ PlaceInv'
  BY <1>2, <1>3 DEF RowsInv, PlaceInv, Eligible, Steady
<1>7. RowInv'
  BY <1>2, <1>3, <1>4 DEF RowInv, Sound, Eligible, Steady, SingleKeeps
<1> QED
  BY <1>2, <1>3, <1>5, <1>6, <1>7 DEF IInv

LEMMA AnswersUnreadablyInv ==
  ASSUME IInv, AnswersUnreadably
  PROVE  IInv'
<1>1. Running
  BY DEF AnswersUnreadably, Running
<1>2. TypeOK /\ RowsInv /\ Len(rows) < Len(tasks) /\ PlaceInv /\ RowInv
  BY <1>1 DEF IInv
<1>3. UNCHANGED <<tasks, rows, row, mode, patch>> /\ pc' = "retry"
  BY DEF AnswersUnreadably
<1>4. Task' = Task
  BY <1>3 DEF Task
<1>5. TypeOK'
  BY <1>2, <1>3 DEF TypeOK, Places
<1>6. RowsInv' /\ PlaceInv'
  BY <1>2, <1>3 DEF RowsInv, PlaceInv, Eligible, Steady
<1>7. RowInv'
  BY <1>2, <1>3, <1>4 DEF RowInv, Sound, Eligible, Steady, SingleKeeps
<1> QED
  BY <1>2, <1>3, <1>5, <1>6, <1>7 DEF IInv

LEMMA RaisesInv ==
  ASSUME IInv, Raises
  PROVE  IInv'
<1>1. Running /\ pc \notin {"guardBaseline", "record"} /\ CaseEnds(NoResult)
  BY DEF Raises, Running
<1>2. NoResult \in Result /\ Sound(Task, NoResult)
  BY EmptyTypes DEF NoResult, Sound
<1> QED
  BY <1>1, <1>2, CaseEndsInv

LEMMA VerifiesInv ==
  ASSUME IInv, NEW verdict \in Verdict, Verifies(verdict)
  PROVE  IInv'
<1> DEFINE result == IF verdict = "raised" THEN NoResult
                     ELSE [passed |-> verdict = "passed", files |-> patch,
                           exact |-> verdict = "passed" /\ Task \in RepoTasks]
<1>1. /\ Running /\ pc \notin {"guardBaseline", "record"}
      /\ CaseEnds(result) /\ verdict \in Verdicts[Task][patch]
  BY DEF Verifies, Running
<1>2. patch \in Patches
  BY <1>1 DEF IInv, PlaceInv, Verifies
<1>3. result \in Result
  BY <1>2, EmptyTypes DEF Result
<1>4. Sound(Task, result)
  BY <1>1, <1>2 DEF Sound, NoResult
<1> HIDE DEF result
<1> QED
  BY <1>1, <1>3, <1>4, CaseEndsInv

LEMMA GuardSingleInv ==
  ASSUME IInv, GuardSingle
  PROVE  IInv'
<1>1. /\ pc = "guard" /\ mode = "cgr_single" /\ mode' = "cgr_multi"
      /\ FallsBack(row["baseline"], "ask")
      /\ UNCHANGED <<tasks, rows, patch>>
  BY DEF GuardSingle
<1>2. TypeOK /\ RowsInv /\ Len(rows) < Len(tasks) /\ PlaceInv /\ RowInv
  BY <1>1 DEF IInv, Running
<1>3. Task \in Tasks /\ Task' = Task
  BY <1>1, <1>2, TaskInTasks DEF Task
<1>4. /\ row' \in [Modes -> Result]
      /\ \A n \in Modes : n # mode => row'[n] = row[n]
      /\ \A m \in Modes : Sound(Task, row'[m])
      /\ pc' \in {"ask", "aborted"}
      /\ pc' # "aborted" /\ Eligible(Task) /\ row["baseline"].passed
           => row'[mode].passed
  BY <1>1, <1>2, <1>3, FallsBackRow DEF RowInv, Modes, Places
<1>5. TypeOK'
  BY <1>1, <1>2, <1>4 DEF TypeOK, Places, Modes
<1>6. RowsInv'
  BY <1>1, <1>2 DEF RowsInv, Eligible, Steady
<1>7. Running' => PlaceInv'
  BY <1>4 DEF PlaceInv
<1>8. Running' => RowInv'
  <2> SUFFICES ASSUME Running' PROVE RowInv'
    OBVIOUS
  <2>1. pc' = "ask"
    BY <1>4 DEF Running
  <2>2. row'["baseline"] = row["baseline"]
    BY <1>1, <1>4, ModesAre
  <2>3. Eligible(Task) => SingleKeeps(row')
    BY <1>1, <1>4, <2>1, <2>2 DEF SingleKeeps
  <2> QED
    BY <1>3, <1>4, <2>1, <2>3 DEF RowInv, Sound, Eligible, Steady, SingleKeeps
<1> QED
  BY <1>1, <1>2, <1>5, <1>6, <1>7, <1>8 DEF IInv

LEMMA GuardMultiInv ==
  ASSUME IInv, GuardMulti
  PROVE  IInv'
<1>1. /\ pc = "guard" /\ mode = "cgr_multi" /\ mode' = mode
      /\ FallsBack(row["cgr_single"], "guardBaseline")
      /\ UNCHANGED <<tasks, rows, patch>>
  BY DEF GuardMulti
<1>2. TypeOK /\ RowsInv /\ Len(rows) < Len(tasks) /\ PlaceInv /\ RowInv
  BY <1>1 DEF IInv, Running
<1>3. Task \in Tasks /\ Task' = Task
  BY <1>1, <1>2, TaskInTasks DEF Task
<1>4. /\ row' \in [Modes -> Result]
      /\ \A n \in Modes : n # mode => row'[n] = row[n]
      /\ \A m \in Modes : Sound(Task, row'[m])
      /\ pc' \in {"guardBaseline", "aborted"}
      /\ pc' # "aborted" /\ Eligible(Task) /\ row["cgr_single"].passed
           => row'[mode].passed
  BY <1>1, <1>2, <1>3, FallsBackRow DEF RowInv, Modes, Places
<1>5. TypeOK'
  BY <1>1, <1>2, <1>4 DEF TypeOK, Places
<1>6. RowsInv'
  BY <1>1, <1>2 DEF RowsInv, Eligible, Steady
<1>7. PlaceInv'
  BY <1>1, <1>4 DEF PlaceInv
<1>8. Running' => RowInv'
  <2> SUFFICES ASSUME Running' PROVE RowInv'
    OBVIOUS
  <2>1. pc' = "guardBaseline"
    BY <1>4 DEF Running
  <2>2. /\ row'["baseline"] = row["baseline"]
        /\ row'["cgr_single"] = row["cgr_single"]
    BY <1>1, <1>4, ModesAre
  <2>3. Eligible(Task) => SingleKeeps(row') /\ MultiKeeps(row')
    BY <1>1, <1>2, <1>4, <2>1, <2>2 DEF RowInv, SingleKeeps, MultiKeeps
  <2> QED
    BY <1>3, <1>4, <2>3
    DEF RowInv, Sound, Eligible, Steady, SingleKeeps, MultiKeeps
<1> QED
  BY <1>1, <1>2, <1>5, <1>6, <1>7, <1>8 DEF IInv

LEMMA GuardMultiBaselineInv ==
  ASSUME IInv, GuardMultiBaseline
  PROVE  IInv'
<1>1. /\ pc = "guardBaseline" /\ mode' = mode
      /\ FallsBack(row["baseline"], "record")
      /\ UNCHANGED <<tasks, rows, patch>>
  BY DEF GuardMultiBaseline
<1>2. TypeOK /\ RowsInv /\ Len(rows) < Len(tasks) /\ PlaceInv /\ RowInv
  BY <1>1 DEF IInv, Running
<1>3. Task \in Tasks /\ Task' = Task /\ mode = "cgr_multi"
  BY <1>1, <1>2, TaskInTasks DEF Task, PlaceInv
<1>4. /\ row' \in [Modes -> Result]
      /\ \A n \in Modes : n # mode => row'[n] = row[n]
      /\ \A m \in Modes : Sound(Task, row'[m])
      /\ row[mode].passed => row'[mode].passed
      /\ pc' \in {"record", "aborted"}
  BY <1>1, <1>2, <1>3, FallsBackRow DEF RowInv, Modes, Places
<1>5. TypeOK'
  BY <1>1, <1>2, <1>4 DEF TypeOK, Places
<1>6. RowsInv'
  BY <1>1, <1>2 DEF RowsInv, Eligible, Steady
<1>7. PlaceInv'
  BY <1>1, <1>3, <1>4 DEF PlaceInv
<1>8. RowInv'
  <2>1. /\ row'["baseline"] = row["baseline"]
        /\ row'["cgr_single"] = row["cgr_single"]
    BY <1>3, <1>4, ModesAre
  <2>2. Eligible(Task) => SingleKeeps(row') /\ MultiKeeps(row')
    BY <1>1, <1>2, <1>3, <1>4, <2>1 DEF RowInv, SingleKeeps, MultiKeeps
  <2> QED
    BY <1>3, <1>4, <2>2
    DEF RowInv, Sound, Eligible, Steady, SingleKeeps, MultiKeeps
<1> QED
  BY <1>1, <1>2, <1>5, <1>6, <1>7, <1>8 DEF IInv

LEMMA RecordsInv ==
  ASSUME IInv, Records
  PROVE  IInv'
<1>1. /\ pc = "record" /\ rows' = Append(rows, row) /\ row' = EmptyRow
      /\ mode' = "baseline" /\ UNCHANGED <<tasks, patch>>
      /\ pc' = IF Len(rows') = Len(tasks) THEN "done" ELSE "ask"
  BY DEF Records
<1>2. TypeOK /\ RowsInv /\ Len(rows) < Len(tasks) /\ PlaceInv /\ RowInv
  BY <1>1 DEF IInv, Running
<1>3. /\ tasks \in Seq(Tasks) /\ rows \in Seq([Modes -> Result])
      /\ row \in [Modes -> Result]
  BY <1>2 DEF TypeOK
<1>4. /\ rows' \in Seq([Modes -> Result]) /\ Len(rows') = Len(rows) + 1
      /\ \A i \in DOMAIN rows : rows'[i] = rows[i]
      /\ rows'[Len(rows) + 1] = row
      /\ DOMAIN rows' = 1 .. Len(rows) + 1 /\ DOMAIN rows = 1 .. Len(rows)
      /\ Len(rows) \in Nat /\ Len(tasks) \in Nat
  BY <1>1, <1>3
<1>5. TypeOK'
  BY <1>1, <1>2, <1>4, EmptyTypes DEF TypeOK, Places, Modes
<1>6. RowsInv'
  <2> SUFFICES ASSUME NEW i \in DOMAIN rows', Eligible(tasks[i])
               PROVE  SingleKeeps(rows'[i]) /\ MultiKeeps(rows'[i])
    BY <1>1 DEF RowsInv, Eligible, Steady
  <2>1. CASE i \in DOMAIN rows
    BY <2>1, <1>2, <1>4 DEF RowsInv
  <2>2. CASE i = Len(rows) + 1
    BY <2>2, <1>1, <1>2, <1>4 DEF RowInv, PlaceInv, Task
  <2> QED
    BY <1>4, <2>1, <2>2
<1>7. PlaceInv' /\ RowInv'
  <2>1. mode' = "baseline" /\ pc' \in {"ask", "done"} /\ row' = EmptyRow
    BY <1>1
  <2>2. \A task : \A m \in Modes : Sound(task, EmptyRow[m])
    BY DEF Sound, EmptyRow, NoResult
  <2>3. (\A m \in Modes : Sound(Task, row[m]))'
    BY <2>1, <2>2 DEF Sound
  <2> QED
    BY <2>1, <2>3 DEF RowInv, PlaceInv
<1>8. Running' => Len(rows') < Len(tasks')
  BY <1>1, <1>2, <1>4 DEF Running
<1> QED
  BY <1>5, <1>6, <1>7, <1>8 DEF IInv

LEMMA StutterInv ==
  ASSUME IInv, UNCHANGED sweVars
  PROVE  IInv'
  BY DEF IInv, sweVars, TypeOK, Running, RowsInv, PlaceInv, RowInv, Task,
         Sound, Eligible, Steady, SingleKeeps, MultiKeeps

LEMMA NextInv ==
  ASSUME IInv, [SuiteNext]_sweVars
  PROVE  IInv'
  BY AnswersInv, AnswersUnreadablyInv, RaisesInv, VerifiesInv,
     GuardSingleInv, GuardMultiInv, GuardMultiBaselineInv, RecordsInv,
     StutterInv
  DEF SuiteNext, Case, Guard

(***************************************************************************)
(* Repository tasks with steady tests are solved by a boosted mode when a  *)
(* weaker mode solved them: the guards of run_suite (swe_ab_runner.py:52)  *)
(* never lose a verified patch.                                            *)
(***************************************************************************)
THEOREM SuiteIsMonotone == Spec => []Monotone
<1>1. IInv => Monotone
  BY DEF IInv, RowsInv, Monotone, Eligible, SingleKeeps, MultiKeeps, Solved
<1> QED
  BY <1>1, InitInv, NextInv, PTL DEF Spec

-----------------------------------------------------------------------------
(* A passed result of a mode is never replaced, and a new one is earned.   *)
LEMMA CaseEarns ==
  ASSUME TypeOK, NEW result \in Result, CaseEnds(result),
         ~ row[mode].passed,
         result.passed => result.files = patch /\ pc = "verify"
  PROVE  CreditStep
<1>1. row' = [row EXCEPT ![mode] = result] /\ row \in [Modes -> Result] /\ mode \in Modes
  BY DEF CaseEnds, TypeOK
<1>2. /\ row'[mode] = result
      /\ \A n \in Modes : n # mode => row'[n] = row[n]
  BY <1>1, RowUpdate
<1> QED
  BY <1>2 DEF CreditStep, Earned

LEMMA FallbackEarns ==
  ASSUME TypeOK, NEW f \in Weaker(mode), NEW next, FallsBack(row[f], next)
  PROVE  CreditStep
<1>1. row \in [Modes -> Result] /\ mode \in Modes
  BY DEF TypeOK
<1>2. CASE UNCHANGED row
  BY <1>2 DEF CreditStep
<1>3. CASE Applicable(row[f]) /\ row' # row
  <2> DEFINE taken == [passed |-> TRUE, files |-> row[f].files, exact |-> TRUE]
  <2>1. row' = [row EXCEPT ![mode] = taken]
    BY <1>3 DEF FallsBack, Adopts
  <2>2. row'[mode] = taken /\ \A n \in Modes : n # mode => row'[n] = row[n]
    BY <1>1, <2>1
  <2>3. taken.files = row[f].files
    OBVIOUS
  <2> HIDE DEF taken
  <2>4. Earned(mode) /\ ~ row[mode].passed
    BY <1>3, <2>2, <2>3 DEF Applicable, Earned
  <2> QED
    BY <2>2, <2>4 DEF CreditStep
<1> QED
  BY <1>2, <1>3 DEF FallsBack

(* The result of a mode is empty until its case has ended.                 *)
PendingInv ==
  /\ pc = "done" => row = EmptyRow /\ Len(rows) = Len(tasks)
  /\ pc \in {"ask", "retry", "verify"} => ~ row[mode].passed
  /\ mode # "cgr_multi" => ~ row["cgr_multi"].passed
  /\ mode = "baseline" => ~ row["cgr_single"].passed
  /\ pc \in {"guard", "guardBaseline"} => mode # "baseline"

LEMMA SuiteCredit ==
  ASSUME IInv, PendingInv, SuiteNext
  PROVE  PendingInv' /\ CreditStep
<1>1. TypeOK /\ row \in [Modes -> Result] /\ mode \in Modes
  BY DEF IInv, TypeOK
<1>2. ASSUME NEW result \in Result, CaseEnds(result), ~ row[mode].passed,
             pc \in {"ask", "retry", "verify"},
             result.passed => result.files = patch /\ pc = "verify"
      PROVE  PendingInv' /\ CreditStep
  <2>1. CreditStep
    BY <1>1, <1>2, CaseEarns
  <2>2. /\ row' = [row EXCEPT ![mode] = result]
        /\ \/ mode = "baseline" /\ mode' = "cgr_single" /\ pc' = "ask"
           \/ mode # "baseline" /\ mode' = mode /\ pc' = "guard"
    BY <1>2 DEF CaseEnds
  <2>3. \A n \in Modes : n # mode => row'[n] = row[n]
    BY <1>1, <2>2, RowUpdate
  <2>4. PendingInv'
    BY <1>1, <2>2, <2>3, ModesAre DEF PendingInv
  <2> QED
    BY <2>1, <2>4
<1>3. ASSUME NEW p \in Patches, Answers(p)
      PROVE  PendingInv' /\ CreditStep
  BY <1>3 DEF Answers, PendingInv, CreditStep
<1>4. CASE AnswersUnreadably
  BY <1>4 DEF AnswersUnreadably, PendingInv, CreditStep
<1>5. CASE Raises
  BY <1>2, <1>5, EmptyTypes DEF Raises, NoResult, PendingInv
<1>6. ASSUME NEW verdict \in Verdict, Verifies(verdict)
      PROVE  PendingInv' /\ CreditStep
  <2> DEFINE result == IF verdict = "raised" THEN NoResult
                       ELSE [passed |-> verdict = "passed", files |-> patch,
                             exact |-> verdict = "passed" /\ Task \in RepoTasks]
  <2>1. pc = "verify" /\ CaseEnds(result)
    BY <1>6 DEF Verifies
  <2>2. patch \in Patches
    BY <2>1 DEF IInv, Running, PlaceInv
  <2>3. result \in Result /\ (result.passed => result.files = patch)
    BY <2>2, EmptyTypes DEF Result, NoResult
  <2> HIDE DEF result
  <2> QED
    BY <1>2, <2>1, <2>3 DEF PendingInv
<1>7. ASSUME NEW f \in Weaker(mode), NEW next \in Places, FallsBack(row[f], next),
             Task \in Tasks, \A m \in Modes : Sound(Task, row[m])
      PROVE  /\ CreditStep /\ pc' \in {next, "aborted"}
             /\ \A n \in Modes : n # mode => row'[n] = row[n]
  <2>1. f \in Modes
    BY <1>1, ModesAre DEF Weaker
  <2> QED
    BY <1>1, <1>7, <2>1, FallbackEarns, FallsBackRow
<1>8. Running => Task \in Tasks /\ \A m \in Modes : Sound(Task, row[m])
  BY <1>1, TaskInTasks DEF IInv, RowInv
<1>9. CASE GuardSingle
  <2>1. /\ pc = "guard" /\ mode = "cgr_single" /\ mode' = "cgr_multi"
        /\ FallsBack(row["baseline"], "ask")
    BY <1>9 DEF GuardSingle
  <2>2. Running /\ "ask" \in Places /\ "baseline" \in Weaker(mode)
    BY <2>1 DEF Running, Places, Weaker
  <2>3. /\ CreditStep /\ pc' \in {"ask", "aborted"}
        /\ row'["cgr_multi"] = row["cgr_multi"]
    BY <1>7, <1>8, <2>1, <2>2, ModesAre
  <2> QED
    BY <2>1, <2>3 DEF PendingInv
<1>10. CASE GuardMulti
  <2>1. /\ pc = "guard" /\ mode = "cgr_multi" /\ mode' = mode
        /\ FallsBack(row["cgr_single"], "guardBaseline")
    BY <1>10 DEF GuardMulti
  <2>2. Running /\ "guardBaseline" \in Places /\ "cgr_single" \in Weaker(mode)
    BY <2>1 DEF Running, Places, Weaker
  <2>3. CreditStep /\ pc' \in {"guardBaseline", "aborted"}
    BY <1>7, <1>8, <2>1, <2>2
  <2> QED
    BY <2>1, <2>3 DEF PendingInv
<1>11. CASE GuardMultiBaseline
  <2>1. /\ pc = "guardBaseline" /\ mode' = mode
        /\ FallsBack(row["baseline"], "record")
    BY <1>11 DEF GuardMultiBaseline
  <2>2. Running /\ mode = "cgr_multi"
    BY <2>1 DEF IInv, Running, PlaceInv
  <2>3. "record" \in Places /\ "baseline" \in Weaker(mode)
    BY <2>2 DEF Places, Weaker
  <2>4. CreditStep /\ pc' \in {"record", "aborted"}
    BY <1>7, <1>8, <2>1, <2>2, <2>3
  <2> QED
    BY <2>1, <2>2, <2>4 DEF PendingInv
<1>12. CASE Records
  <2>1. /\ rows' = Append(rows, row) /\ row' = EmptyRow /\ mode' = "baseline"
        /\ tasks' = tasks
        /\ pc' = IF Len(rows') = Len(tasks) THEN "done" ELSE "ask"
    BY <1>12 DEF Records
  <2>2. rows \in Seq([Modes -> Result]) /\ row \in [Modes -> Result]
    BY <1>1 DEF TypeOK
  <2>3. rows' # rows
    BY <2>1, <2>2
  <2>4. \A m \in Modes : ~ EmptyRow[m].passed
    BY DEF EmptyRow, NoResult
  <2> QED
    BY <2>1, <2>3, <2>4, ModesAre DEF PendingInv, CreditStep
<1> QED
  BY <1>3, <1>4, <1>5, <1>6, <1>9, <1>10, <1>11, <1>12 DEF SuiteNext, Case, Guard


-----------------------------------------------------------------------------
(* Repeated evaluations of the same tasks, each of which is monotone.      *)
V1Inv ==
  /\ runs \in Nat
  /\ evaluations \in Seq(Seq([Modes -> Result])) /\ Len(evaluations) <= runs
  /\ \A e \in DOMAIN evaluations :
       /\ Len(evaluations[e]) = Len(tasks)
       /\ \A i \in Positions : Eligible(tasks[i]) =>
            SingleKeeps(evaluations[e][i]) /\ MultiKeeps(evaluations[e][i])

LEMMA StartsInv ==
  ASSUME NEW list \in Seq(Tasks), Starts(list)
  PROVE  IInv' /\ PendingInv'
<1>1. /\ tasks' = list /\ rows' = << >> /\ row' = EmptyRow /\ mode' = "baseline"
      /\ pc' = (IF list = << >> THEN "done" ELSE "ask") /\ patch' = NoPatch
  BY DEF Starts
<1>2. Len(list) \in Nat /\ (list = << >> <=> Len(list) = 0)
  BY EmptySeq, LenProperties
<1>3. \A m \in Modes : EmptyRow[m] = NoResult
  BY DEF EmptyRow
<1>4. TypeOK'
  BY <1>1, <1>2, EmptyTypes, EmptySeq DEF TypeOK, Places, Modes
<1>5. RowsInv'
  BY <1>1, EmptySeq DEF RowsInv
<1>6. Running' => Len(rows') < Len(tasks')
  BY <1>1, <1>2, EmptySeq DEF Running
<1>7. PlaceInv'
  BY <1>1 DEF PlaceInv
<1>8. (\A m \in Modes : Sound(Task, row[m]))'
  BY <1>1, <1>3 DEF Sound, NoResult
<1>9. RowInv'
  BY <1>1, <1>8 DEF RowInv
<1>10. PendingInv'
  BY <1>1, <1>2, <1>3, ModesAre, EmptySeq DEF PendingInv, NoResult
<1> QED
  BY <1>4, <1>5, <1>6, <1>7, <1>9, <1>10 DEF IInv

LEMMA CollectsInv ==
  ASSUME IInv, PendingInv, V1Inv, Collects
  PROVE  V1Inv' /\ tasks' = tasks
<1>1. /\ pc = "done" /\ Len(evaluations) < runs /\ runs' = runs
      /\ evaluations' = Append(evaluations, rows)
      /\ tasks' = tasks
  BY DEF Collects, Starts, sweVars
<1>2. /\ runs \in Nat /\ evaluations \in Seq(Seq([Modes -> Result]))
      /\ rows \in Seq([Modes -> Result]) /\ Len(rows) = Len(tasks)
      /\ tasks \in Seq(Tasks)
  BY <1>1 DEF V1Inv, IInv, TypeOK, PendingInv
<1>3. /\ evaluations' \in Seq(Seq([Modes -> Result]))
      /\ Len(evaluations') = Len(evaluations) + 1 /\ Len(evaluations) \in Nat
      /\ DOMAIN evaluations = 1 .. Len(evaluations)
      /\ DOMAIN evaluations' = 1 .. Len(evaluations) + 1
      /\ \A e \in 1 .. Len(evaluations) : evaluations'[e] = evaluations[e]
      /\ evaluations'[Len(evaluations) + 1] = rows
  BY <1>1, <1>2, AppendProperties, LenProperties
<1>4. \A i \in Positions : Eligible(tasks[i]) =>
        SingleKeeps(rows[i]) /\ MultiKeeps(rows[i])
  <2>1. DOMAIN rows = Positions
    BY <1>2, LenProperties DEF Positions
  <2> QED
    BY <2>1 DEF IInv, RowsInv
<1>5. ASSUME NEW e \in DOMAIN evaluations'
      PROVE  /\ Len(evaluations'[e]) = Len(tasks)
             /\ \A i \in Positions : Eligible(tasks[i]) =>
                  /\ SingleKeeps(evaluations'[e][i])
                  /\ MultiKeeps(evaluations'[e][i])
  <2>1. CASE e \in 1 .. Len(evaluations)
    BY <1>3, <2>1 DEF V1Inv
  <2>2. CASE e = Len(evaluations) + 1
    BY <1>2, <1>3, <1>4, <2>2
  <2> QED
    BY <1>3, <2>1, <2>2
<1>6. Positions' = Positions
  BY <1>1 DEF Positions
<1>7. Len(evaluations') <= runs'
  BY <1>1, <1>2, <1>3
<1> QED
  BY <1>1, <1>2, <1>3, <1>5, <1>6, <1>7 DEF V1Inv, Eligible, Steady

LEMMA V1Unchanged ==
  ASSUME V1Inv, UNCHANGED v1Vars, UNCHANGED tasks
  PROVE  V1Inv'
BY DEF V1Inv, v1Vars, Positions, Eligible, Steady, SingleKeeps, MultiKeeps

LEMMA SameTasks ==
  ASSUME SuiteNext
  PROVE  tasks' = tasks
BY DEF SuiteNext, Case, Guard, Answers, AnswersUnreadably, Raises, Verifies,
       CaseEnds, GuardSingle, GuardMulti, GuardMultiBaseline, Records

LEMMA SweStutters ==
  ASSUME IInv, PendingInv, UNCHANGED sweVars
  PROVE  IInv' /\ PendingInv' /\ CreditStep
BY StutterInv DEF sweVars, PendingInv, CreditStep

LEMMA V1Steps ==
  ASSUME IInv, PendingInv, V1Inv, V1Next
  PROVE  IInv' /\ PendingInv' /\ V1Inv' /\ CreditStep /\ tasks' = tasks
<1>1. CASE Evaluates
  <2>1. SuiteNext /\ UNCHANGED v1Vars
    BY <1>1 DEF Evaluates
  <2> QED
    BY <2>1, NextInv, SuiteCredit, SameTasks, V1Unchanged
<1>2. CASE Collects
  <2>1. V1Inv' /\ tasks' = tasks
    BY <1>2, CollectsInv
  <2>2. CASE Starts(tasks)
    <3>1. tasks \in Seq(Tasks)
      BY DEF IInv, TypeOK
    <3>2. row' = row
      BY <1>2, <2>2 DEF Collects, PendingInv, Starts
    <3> QED
      BY <2>1, <2>2, <3>1, <3>2, StartsInv DEF CreditStep
  <2>3. CASE UNCHANGED sweVars
    BY <2>1, <2>3, SweStutters
  <2> QED
    BY <1>2, <2>2, <2>3 DEF Collects
<1> QED
  BY <1>1, <1>2 DEF V1Next

-----------------------------------------------------------------------------
(* The report.                                                             *)
LEMMA ListedIs ==
  ASSUME NEW i \in Positions, NEW m \in Modes \ {"baseline"}, NEW improved \in BOOLEAN
  PROVE  <<i, m>> \in PairChanges(improved) <=>
           \E e \in DOMAIN evaluations : Changes(evaluations[e], i, m, improved)
<1>1. <<i, m>> \in Positions \X (Modes \ {"baseline"}) /\ <<i, m>>[1] = i /\ <<i, m>>[2] = m
  OBVIOUS
<1> QED
  BY <1>1 DEF PairChanges

(* A mode that solves whatever another solves counts as many passes.       *)
LEMMA MorePasses ==
  ASSUME TypeOK, V1Inv, NEW m, NEW n,
         \A e \in DOMAIN evaluations :
           Passes(evaluations[e], m) \subseteq Passes(evaluations[e], n)
  PROVE  /\ PassCount(m) \in Nat /\ PassCount(n) \in Nat
         /\ PassCount(m) <= PassCount(n)
<1> DEFINE Places2 == (DOMAIN evaluations) \X Positions
           Of(k) == {pass \in Places2 : pass[2] \in Passes(evaluations[pass[1]], k)}
<1>1. /\ Len(evaluations) \in Nat /\ DOMAIN evaluations = 1 .. Len(evaluations)
      /\ Len(tasks) \in Nat
  BY LenProperties DEF V1Inv, TypeOK
<1>2. IsFiniteSet(DOMAIN evaluations) /\ IsFiniteSet(Positions)
  BY <1>1, FS_Interval DEF Positions
<1>3. IsFiniteSet(Places2)
  BY <1>2, FS_Product
<1>4. Of(m) \in SUBSET Of(n) /\ Of(m) \in SUBSET Places2 /\ Of(n) \in SUBSET Places2
  OBVIOUS
<1>5. PassCount(m) = Cardinality(Of(m)) /\ PassCount(n) = Cardinality(Of(n))
  BY DEF PassCount
<1> HIDE DEF Of, Places2
<1>6. IsFiniteSet(Of(m)) /\ IsFiniteSet(Of(n))
  BY <1>3, <1>4, FS_Subset
<1>7. Cardinality(Of(m)) <= Cardinality(Of(n))
  BY <1>4, <1>6, FS_Subset
<1> QED
  BY <1>5, <1>6, <1>7, FS_CardinalityType

LEMMA BestModeIs ==
  ASSUME NEW i
  PROVE  LET solves(m) == i \in Passes(evaluations[1], m)
         IN  BestMode(i) = IF solves("cgr_multi") THEN "cgr_multi"
                           ELSE IF solves("cgr_single") THEN "cgr_single"
                           ELSE IF solves("baseline") THEN "baseline" ELSE "none"
<1> DEFINE solves(m) == i \in Passes(evaluations[1], m)
           solving == {k \in DOMAIN Preferred : solves(Preferred[k])}
<1>1. /\ DOMAIN Preferred = {1, 2, 3} /\ Preferred[1] = "cgr_multi"
      /\ Preferred[2] = "cgr_single" /\ Preferred[3] = "baseline"
  BY DEF Preferred
<1>2. BestMode(i) = IF solving = {} THEN "none" ELSE Preferred[Min(solving)]
  BY DEF BestMode
<1>3. /\ 1 \in solving <=> solves("cgr_multi")
      /\ 2 \in solving <=> solves("cgr_single")
      /\ 3 \in solving <=> solves("baseline")
      /\ solving \subseteq {1, 2, 3}
  BY <1>1
<1> HIDE DEF solving, solves
<1>4. ASSUME NEW k \in solving, \A j \in solving : k <= j
      PROVE  Min(solving) = k
  <2>1. /\ Min(solving) \in solving
        /\ \A j \in solving : Min(solving) <= j
    BY <1>4 DEF Min
  <2>2. solving \subseteq Int
    BY <1>3
  <2>3. /\ Min(solving) \in Int /\ k \in Int
        /\ Min(solving) <= k /\ k <= Min(solving)
    BY <1>4, <2>1, <2>2
  <2> QED
    BY <2>3
<1>5. /\ 1 \in solving => Min(solving) = 1
      /\ 1 \notin solving /\ 2 \in solving => Min(solving) = 2
      /\ 1 \notin solving /\ 2 \notin solving /\ 3 \in solving => Min(solving) = 3
      /\ 1 \notin solving /\ 2 \notin solving /\ 3 \notin solving => solving = {}
  <2>1. 1 \in solving => Min(solving) = 1
    BY <1>3, <1>4
  <2>2. 1 \notin solving /\ 2 \in solving => Min(solving) = 2
    BY <1>3, <1>4
  <2>3. 1 \notin solving /\ 2 \notin solving /\ 3 \in solving => Min(solving) = 3
    BY <1>3, <1>4
  <2> QED
    BY <1>3, <2>1, <2>2, <2>3
<1>6. BestMode(i) = IF solves("cgr_multi") THEN "cgr_multi"
                    ELSE IF solves("cgr_single") THEN "cgr_single"
                    ELSE IF solves("baseline") THEN "baseline" ELSE "none"
  <2>1. CASE 1 \in solving
    BY <1>1, <1>2, <1>3, <1>5, <2>1
  <2>2. CASE 1 \notin solving /\ 2 \in solving
    BY <1>1, <1>2, <1>3, <1>5, <2>2
  <2>3. CASE 1 \notin solving /\ 2 \notin solving /\ 3 \in solving
    BY <1>1, <1>2, <1>3, <1>5, <2>3
  <2>4. CASE 1 \notin solving /\ 2 \notin solving /\ 3 \notin solving
    BY <1>2, <1>3, <1>5, <2>4
  <2> QED
    BY <2>1, <2>2, <2>3, <2>4
<1> QED
  BY <1>6 DEF solves

LEMMA ReportIsRight ==
  ASSUME TypeOK, V1Inv
  PROVE  ReportAgrees
<1> SUFFICES ASSUME Complete, NEW m \in Modes \ {"baseline"}
             PROVE  LET listed(improved) ==
                          {i \in Positions : <<i, m>> \in PairChanges(improved)}
                    IN  /\ PassCount(m) < PassCount("baseline") => listed(FALSE) # {}
                        /\ PassCount(m) > PassCount("baseline") => listed(TRUE) # {}
                        /\ Regressed(m) \subseteq listed(FALSE)
                        /\ \A i \in Positions \ (listed(FALSE) \cup listed(TRUE)) :
                             PerTask(i, m) = PerTask(i, "baseline")
                        /\ {i \in Positions : BestMode(i) = "baseline"}
                             \subseteq listed(FALSE)
  BY DEF ReportAgrees
<1> DEFINE listed(improved) == {i \in Positions : <<i, m>> \in PairChanges(improved)}
<1>1. 1 \in DOMAIN evaluations
  BY LenProperties DEF V1Inv, Complete
<1>2. \A i \in Positions : i \in listed(FALSE) <=> \E e \in DOMAIN evaluations :
        i \in Passes(evaluations[e], "baseline") /\ i \notin Passes(evaluations[e], m)
  BY ListedIs DEF Changes
<1>3. \A i \in Positions : i \in listed(TRUE) <=> \E e \in DOMAIN evaluations :
        i \in Passes(evaluations[e], m) /\ i \notin Passes(evaluations[e], "baseline")
  BY ListedIs DEF Changes
<1>4. listed(FALSE) \subseteq Positions /\ listed(TRUE) \subseteq Positions
  OBVIOUS
<1> HIDE DEF listed
<1>5. \A e, n : Passes(evaluations[e], n) \subseteq Positions
  BY DEF Passes
<1>6. PassCount(m) < PassCount("baseline") => listed(FALSE) # {}
  <2> SUFFICES ASSUME listed(FALSE) = {} PROVE ~ (PassCount(m) < PassCount("baseline"))
    OBVIOUS
  <2>1. \A e \in DOMAIN evaluations :
          Passes(evaluations[e], "baseline") \subseteq Passes(evaluations[e], m)
    BY <1>2, <1>5
  <2> QED
    BY <2>1, MorePasses
<1>7. PassCount(m) > PassCount("baseline") => listed(TRUE) # {}
  <2> SUFFICES ASSUME listed(TRUE) = {} PROVE ~ (PassCount(m) > PassCount("baseline"))
    OBVIOUS
  <2>1. \A e \in DOMAIN evaluations :
          Passes(evaluations[e], m) \subseteq Passes(evaluations[e], "baseline")
    BY <1>3, <1>5
  <2> QED
    BY <2>1, MorePasses
<1>8. Regressed(m) \subseteq listed(FALSE)
  BY <1>1, <1>2, <1>5 DEF Regressed
<1>9. ASSUME NEW i \in Positions \ (listed(FALSE) \cup listed(TRUE))
      PROVE  PerTask(i, m) = PerTask(i, "baseline")
  <2>1. \A e \in DOMAIN evaluations :
          i \in Passes(evaluations[e], m) <=> i \in Passes(evaluations[e], "baseline")
    BY <1>2, <1>3, <1>9
  <2>2. {e \in DOMAIN evaluations : i \in Passes(evaluations[e], m)}
          = {e \in DOMAIN evaluations : i \in Passes(evaluations[e], "baseline")}
    BY <2>1
  <2> QED
    BY <2>2 DEF PerTask
<1>10. ASSUME NEW i \in Positions, BestMode(i) = "baseline"
       PROVE  i \in listed(FALSE)
  <2>1. /\ i \notin Passes(evaluations[1], "cgr_multi")
        /\ i \notin Passes(evaluations[1], "cgr_single")
        /\ i \in Passes(evaluations[1], "baseline")
    BY <1>10, BestModeIs
  <2>2. m \in {"cgr_single", "cgr_multi"}
    BY ModesAre
  <2> QED
    BY <1>1, <1>2, <2>1, <2>2
<1> QED
  BY <1>6, <1>7, <1>8, <1>9, <1>10 DEF listed

LEMMA NoneRegressed ==
  ASSUME TypeOK, V1Inv
  PROVE  NoRegressionReported
<1> SUFFICES ASSUME Complete, \A i \in Positions : Eligible(tasks[i])
             PROVE  /\ PairChanges(FALSE) = {}
                    /\ NotMonotonic = {}
                    /\ \A i \in Positions : BestMode(i) \in {"cgr_multi", "none"}
                    /\ PassCount("baseline") <= PassCount("cgr_single")
                    /\ PassCount("cgr_single") <= PassCount("cgr_multi")
  BY DEF NoRegressionReported, Eligible
<1>1. 1 \in DOMAIN evaluations
  BY LenProperties DEF V1Inv, Complete
<1>2. \A e \in DOMAIN evaluations :
        /\ Passes(evaluations[e], "baseline") \subseteq Passes(evaluations[e], "cgr_single")
        /\ Passes(evaluations[e], "cgr_single") \subseteq Passes(evaluations[e], "cgr_multi")
  BY DEF V1Inv, Passes, SingleKeeps, MultiKeeps
<1>3. PairChanges(FALSE) = {}
  <2>1. ASSUME NEW pair \in Positions \X (Modes \ {"baseline"}),
               NEW e \in DOMAIN evaluations,
               Changes(evaluations[e], pair[1], pair[2], FALSE)
        PROVE  FALSE
    <3>1. pair[2] \in {"cgr_single", "cgr_multi"}
      BY ModesAre
    <3> QED
      BY <1>2, <2>1, <3>1 DEF Changes
  <2> QED
    BY <2>1 DEF PairChanges
<1>4. NotMonotonic = {}
  BY <1>1, <1>2 DEF NotMonotonic
<1>5. ASSUME NEW i \in Positions
      PROVE  BestMode(i) \in {"cgr_multi", "none"}
  BY <1>1, <1>2, BestModeIs
<1> QED
  BY <1>2, <1>3, <1>4, <1>5, MorePasses

-----------------------------------------------------------------------------
(* The commands.  What is left to do tells which tasks are selected.       *)
Limited ==
  IF options.maxTasks = NotGiven THEN Suite
  ELSE SubSeq(Suite, 1, Min({options.maxTasks, Len(Suite)}))

Found == IF options.taskId = NotGiven THEN Suite ELSE <<options.taskId>>

LimitOK == options.maxTasks # NotGiven => options.maxTasks > 0

SelectionInv ==
  \/ todo = Work /\ tasks = Suite
  \/ /\ todo = Tail(Work)
     /\ \/ command = "hard" /\ tasks = Limited /\ LimitOK
        \/ command # "hard" /\ tasks = Found
  \/ todo = Tail(Tail(Work)) /\ tasks = Asked /\ LimitOK

TypedInv ==
  /\ command \in Commands /\ options \in Options
  /\ command = "hard" => ~ options.reference
  /\ checked \in Seq(BOOLEAN)

CommandInv ==
  /\ TypedInv /\ SelectionInv
  /\ Head(todo) # "evaluate" => row = EmptyRow /\ evaluations = << >>

AllInv == IInv /\ PendingInv /\ V1Inv /\ CommandInv

LEMMA WorkIs ==
  ASSUME TypedInv
  PROVE  /\ Head(Work) = (IF command = "hard" THEN "limit" ELSE "find")
         /\ Head(Tail(Work)) = (IF command = "hard" THEN "find" ELSE "limit")
         /\ Head(Tail(Tail(Work))) =
              (IF options.reference THEN "check" ELSE "evaluate")
         /\ Head(Tail(Tail(Work))) \notin {"limit", "find"}
<1>1. options.reference \in BOOLEAN
  BY DEF TypedInv, Options
<1>2. CASE command = "hard"
  <2>1. Work = <<"limit", "find", "evaluate">> /\ ~ options.reference
    BY <1>2 DEF Work, TypedInv
  <2> QED
    BY <1>2, <2>1
<1>3. CASE command # "hard" /\ options.reference
  <2>1. Work = <<"find", "limit", "check">>
    BY <1>3 DEF Work
  <2> QED
    BY <1>3, <2>1
<1>4. CASE command # "hard" /\ ~ options.reference
  <2>1. Work = <<"find", "limit", "evaluate">>
    BY <1>4 DEF Work
  <2> QED
    BY <1>4, <2>1
<1> QED
  BY <1>1, <1>2, <1>3, <1>4

LEMMA MinOfTwo ==
  ASSUME NEW a \in Int, NEW b \in Int
  PROVE  Min({a, b}) = IF a <= b THEN a ELSE b
<1>1. CASE a <= b
  <2>1. a \in {a, b} /\ \A y \in {a, b} : a <= y
    BY <1>1
  <2>2. /\ Min({a, b}) \in {a, b}
        /\ \A y \in {a, b} : Min({a, b}) <= y
    BY <2>1 DEF Min
  <2>3. Min({a, b}) \in Int /\ Min({a, b}) <= a
        /\ (Min({a, b}) = a \/ Min({a, b}) = b)
    BY <2>2
  <2> QED
    BY <1>1, <2>3
<1>2. CASE ~ (a <= b)
  <2>1. b \in {a, b} /\ \A y \in {a, b} : b <= y
    BY <1>2
  <2>2. /\ Min({a, b}) \in {a, b}
        /\ \A y \in {a, b} : Min({a, b}) <= y
    BY <2>1 DEF Min
  <2>3. Min({a, b}) \in Int /\ Min({a, b}) <= b
        /\ (Min({a, b}) = a \/ Min({a, b}) = b)
    BY <2>2
  <2> QED
    BY <1>2, <2>3
<1> QED
  BY <1>1, <1>2

(* The first tasks of a list.                                              *)
LEMMA FirstTasks ==
  ASSUME NEW list \in Seq(Tasks), NEW n \in Int, n > 0
  PROVE  SubSeq(list, 1, Min({n, Len(list)})) \in Seq(Tasks)
<1>1. Len(list) \in Nat /\ \A i \in 1 .. Len(list) : list[i] \in Tasks
  BY LenProperties
<1>2. PICK k \in Int : k = Min({n, Len(list)}) /\ k <= Len(list)
  BY <1>1, MinOfTwo
<1>3. \A i \in 1 .. k : list[i] \in Tasks
  BY <1>1, <1>2
<1>4. SubSeq(list, 1, k) \in Seq(Tasks)
  BY <1>3, SubSeqProperties
<1> QED
  BY <1>2, <1>4

LEMMA OneTask ==
  ASSUME NEW n \in Int, n > 0, NEW task \in Tasks
  PROVE  SubSeq(<<task>>, 1, Min({n, Len(<<task>>)})) = <<task>>
<1>1. <<task>> \in Seq(Tasks) /\ Len(<<task>>) = 1
  OBVIOUS
<1>2. Min({n, 1}) = 1
  BY MinOfTwo
<1> QED
  BY <1>1, <1>2, SubSeqFull

LEMMA SuiteIs ==
  ASSUME TypedInv
  PROVE  Suite \in Seq(Tasks) /\ Suite # << >>
BY SuiteOfAssumption, SuitesAssumption DEF TypedInv, Suite

LEMMA LimitIs ==
  ASSUME TypedInv, options.maxTasks # NotGiven
  PROVE  options.maxTasks \in Int
BY OptionAssumption DEF TypedInv, Options

LEMMA TaskIdIs ==
  ASSUME TypedInv, options.taskId # NotGiven, NEW list \in Seq(Tasks)
  PROVE  /\ Matching = (IF options.taskId \in ToSet(tasks)
                          THEN <<options.taskId>> ELSE << >>)
         /\ options.taskId \in ToSet(list) => options.taskId \in Tasks
<1>1. \A i \in DOMAIN list : list[i] \in Tasks
  BY LenProperties
<1> QED
  BY <1>1 DEF Matching, ToSet

LEMMA StageIs ==
  ASSUME TypedInv, SelectionInv
  PROVE  /\ Head(todo) = "limit" =>
              \/ command = "hard" /\ todo = Work /\ tasks = Suite
              \/ command # "hard" /\ todo = Tail(Work) /\ tasks = Found
         /\ Head(todo) = "find" =>
              \/ /\ command = "hard" /\ todo = Tail(Work)
                 /\ tasks = Limited /\ LimitOK
              \/ command # "hard" /\ todo = Work /\ tasks = Suite
         /\ Head(todo) \in {"check", "evaluate"} =>
              /\ todo = Tail(Tail(Work)) /\ tasks = Asked /\ LimitOK
              /\ Head(todo) = "check" <=> options.reference
<1>1. CASE todo = Work /\ tasks = Suite
  BY <1>1, WorkIs
<1>2. CASE /\ todo = Tail(Work)
           /\ \/ command = "hard" /\ tasks = Limited /\ LimitOK
              \/ command # "hard" /\ tasks = Found
  BY <1>2, WorkIs
<1>3. CASE todo = Tail(Tail(Work)) /\ tasks = Asked /\ LimitOK
  BY <1>3, WorkIs
<1> QED
  BY <1>1, <1>2, <1>3 DEF SelectionInv

LEMMA TypedSame ==
  ASSUME UNCHANGED typed
  PROVE  /\ UNCHANGED <<command, options>>
         /\ Suite' = Suite /\ Work' = Work /\ Limited' = Limited
         /\ Found' = Found /\ Asked' = Asked /\ (LimitOK' <=> LimitOK)
BY DEF typed, Suite, Work, Limited, Found, Asked, LimitOK

(* Selecting starts over with another list.                                *)
LEMMA SelectsKeeps ==
  ASSUME AllInv, NEW list \in Seq(Tasks), Selects(list), exit = -1,
         Head(todo) \in {"limit", "find"}, SelectionInv'
  PROVE  AllInv' /\ ExitTellsTheRun' /\ CreditStep
<1>1. /\ Starts(list) /\ UNCHANGED <<runs, evaluations>>
      /\ UNCHANGED typed /\ UNCHANGED <<checked, exit>>
  BY DEF Selects, v1Vars
<1>2. IInv' /\ PendingInv'
  BY <1>1, StartsInv
<1>3. row = EmptyRow /\ evaluations = << >>
  BY DEF AllInv, CommandInv
<1>4. row' = EmptyRow
  BY <1>1 DEF Starts
<1>5. V1Inv'
  BY <1>1, <1>3, EmptySeq DEF AllInv, V1Inv
<1>6. CommandInv'
  <2>1. TypedInv'
    BY <1>1, TypedSame DEF AllInv, CommandInv, TypedInv, Options, Suite
  <2> QED
    BY <1>1, <1>3, <1>4, <2>1 DEF CommandInv
<1>7. ExitTellsTheRun'
  BY <1>1 DEF ExitTellsTheRun
<1>8. CreditStep
  BY <1>3, <1>4 DEF CreditStep
<1> QED
  BY <1>2, <1>5, <1>6, <1>7, <1>8 DEF AllInv

LEMMA SelectionSame ==
  ASSUME AllInv, UNCHANGED tasks, UNCHANGED typed, UNCHANGED todo
  PROVE  SelectionInv'
BY TypedSame DEF AllInv, CommandInv, SelectionInv

(* The list that is left after a selection.                                *)
LEMMA SelectionOf ==
  ASSUME AllInv, NEW list, Selects(list), Head(todo) \in {"limit", "find"},
         Head(todo) = "limit" => LimitOK,
         list = (IF Head(todo) = "limit" /\ command = "hard" THEN Limited
                 ELSE IF Head(todo) = "find" /\ command # "hard" THEN Found
                 ELSE Asked)
  PROVE  SelectionInv'
<1>1. tasks' = list /\ todo' = Tail(todo) /\ UNCHANGED typed
  BY DEF Selects, Starts
<1>2. TypedInv /\ SelectionInv
  BY DEF AllInv, CommandInv
<1>3. CASE Head(todo) = "limit" /\ command = "hard"
  BY <1>1, <1>2, <1>3, StageIs, TypedSame DEF SelectionInv
<1>4. CASE Head(todo) = "limit" /\ command # "hard"
  BY <1>1, <1>2, <1>4, StageIs, TypedSame DEF SelectionInv
<1>5. CASE Head(todo) = "find" /\ command = "hard"
  BY <1>1, <1>2, <1>5, StageIs, TypedSame DEF SelectionInv
<1>6. CASE Head(todo) = "find" /\ command # "hard"
  BY <1>1, <1>2, <1>6, StageIs, TypedSame DEF SelectionInv
<1> QED
  BY <1>3, <1>4, <1>5, <1>6

(* Nothing but the exit code changes.                                      *)
LEMMA ExitsKeeps ==
  ASSUME AllInv, NEW code, Exits(code)
  PROVE  AllInv' /\ CreditStep
<1>1. /\ UNCHANGED sweVars /\ UNCHANGED v1Vars
      /\ UNCHANGED typed /\ UNCHANGED <<todo, checked>>
  BY DEF Exits, allVars
<1>2. IInv' /\ PendingInv' /\ CreditStep
  BY <1>1, SweStutters DEF AllInv
<1>3. UNCHANGED tasks /\ row' = row /\ evaluations' = evaluations
  BY <1>1 DEF sweVars, v1Vars
<1>4. V1Inv'
  BY <1>1, <1>3, V1Unchanged DEF AllInv
<1>5. SelectionInv'
  BY <1>1, <1>3, SelectionSame
<1>6. TypedInv'
  BY <1>1, TypedSame DEF AllInv, CommandInv, TypedInv, Options, Suite
<1>7. CommandInv'
  BY <1>1, <1>3, <1>5, <1>6 DEF AllInv, CommandInv
<1> QED
  BY <1>2, <1>4, <1>7 DEF AllInv

(* What Exits leaves as it was.                                            *)
LEMMA ExitsSame ==
  ASSUME NEW code, Exits(code)
  PROVE  /\ exit' = code
         /\ UNCHANGED <<tasks, command, options, todo, checked, runs, evaluations>>
         /\ Asked' = Asked /\ Suite' = Suite /\ (Complete' <=> Complete)
BY DEF Exits, allVars, sweVars, v1Vars, typed, Asked, Suite, Complete

LEMMA ExitsWithOne ==
  ASSUME AllInv, Exits(1),
         Head(todo) = "find" =>
           \/ options.taskId \notin ToSet(Suite)
           \/ command = "hard" /\ options.maxTasks # NotGiven
  PROVE  AllInv' /\ ExitTellsTheRun' /\ CreditStep
<1>1. exit' = 1 /\ UNCHANGED <<command, options, todo>> /\ Suite' = Suite
  BY ExitsSame
<1>2. ExitTellsTheRun'
  BY <1>1 DEF ExitTellsTheRun, ToSet
<1> QED
  BY <1>2, ExitsKeeps

LEMMA LimitKeeps ==
  ASSUME AllInv, Limit
  PROVE  AllInv' /\ ExitTellsTheRun' /\ CreditStep
<1>1. TypedInv /\ SelectionInv /\ tasks \in Seq(Tasks) /\ Head(todo) = "limit" /\ exit = -1
  BY DEF AllInv, CommandInv, IInv, TypeOK, Limit, Doing
<1>2. \/ command = "hard" /\ tasks = Suite
      \/ command # "hard" /\ tasks = Found
  BY <1>1, StageIs
<1>3. CASE options.maxTasks = NotGiven /\ Selects(tasks)
  <2>1. LimitOK /\ tasks = (IF command = "hard" THEN Limited ELSE Asked)
    BY <1>2, <1>3 DEF Limited, Found, Asked, LimitOK
  <2>2. SelectionInv'
    BY <1>1, <1>3, <2>1, SelectionOf
  <2> QED
    BY <1>1, <1>3, <2>2, SelectsKeeps
<1>4. CASE /\ options.maxTasks # NotGiven /\ options.maxTasks > 0
           /\ Selects(SubSeq(tasks, 1, Min({options.maxTasks, Len(tasks)})))
  <2> DEFINE list == SubSeq(tasks, 1, Min({options.maxTasks, Len(tasks)}))
  <2>1. options.maxTasks \in Int /\ LimitOK
    BY <1>1, <1>4, LimitIs DEF LimitOK
  <2>2. list \in Seq(Tasks)
    BY <1>1, <1>4, <2>1, FirstTasks
  <2>3. list = (IF command = "hard" THEN Limited ELSE Asked)
    <3>1. CASE command = "hard" \/ options.taskId = NotGiven
      BY <1>2, <1>4, <3>1 DEF Limited, Found, Asked
    <3>2. CASE command # "hard" /\ options.taskId # NotGiven
      <4>1. tasks = <<options.taskId>> /\ Asked = <<options.taskId>>
        BY <1>2, <3>2 DEF Found, Asked
      <4>2. options.taskId \in Tasks
        BY <1>1, <4>1
      <4> QED
        BY <1>4, <2>1, <3>2, <4>1, <4>2, OneTask
    <3> QED
      BY <3>1, <3>2
  <2> HIDE DEF list
  <2>4. Selects(list)
    BY <1>4 DEF list
  <2>5. SelectionInv'
    BY <1>1, <2>1, <2>3, <2>4, SelectionOf
  <2> QED
    BY <1>1, <2>2, <2>4, <2>5, SelectsKeeps
<1>5. CASE Exits(1)
  BY <1>1, <1>5, ExitsWithOne
<1> QED
  BY <1>3, <1>4, <1>5 DEF Limit

LEMMA FindsKeeps ==
  ASSUME AllInv, Finds
  PROVE  AllInv' /\ ExitTellsTheRun' /\ CreditStep
<1>1. TypedInv /\ SelectionInv /\ tasks \in Seq(Tasks) /\ Head(todo) = "find" /\ exit = -1
  BY DEF AllInv, CommandInv, IInv, TypeOK, Finds, Doing
<1>2. \/ command = "hard" /\ tasks = Limited
      \/ command # "hard" /\ tasks = Suite
  BY <1>1, StageIs
<1>3. CASE options.taskId = NotGiven /\ Selects(tasks)
  <2>1. tasks = (IF command # "hard" THEN Found ELSE Asked)
    BY <1>2, <1>3 DEF Limited, Found, Asked
  <2>2. SelectionInv'
    BY <1>1, <1>3, <2>1, SelectionOf
  <2> QED
    BY <1>1, <1>3, <2>2, SelectsKeeps
<1>4. CASE options.taskId # NotGiven /\ Matching # << >> /\ Selects(Matching)
  <2>1. Matching = <<options.taskId>> /\ options.taskId \in Tasks
    BY <1>1, <1>4, TaskIdIs
  <2>2. Matching = (IF command # "hard" THEN Found ELSE Asked)
    BY <1>4, <2>1 DEF Found, Asked
  <2>3. Matching \in Seq(Tasks)
    BY <2>1
  <2>4. SelectionInv'
    BY <1>1, <1>4, <2>2, SelectionOf
  <2> QED
    BY <1>1, <1>4, <2>3, <2>4, SelectsKeeps
<1>5. CASE options.taskId # NotGiven /\ Matching = << >> /\ Exits(1)
  <2>1. options.taskId \notin ToSet(tasks)
    BY <1>1, <1>5, TaskIdIs
  <2>2. \/ options.taskId \notin ToSet(Suite)
        \/ command = "hard" /\ options.maxTasks # NotGiven
    BY <1>2, <2>1 DEF Limited
  <2> QED
    BY <1>5, <2>2, ExitsWithOne
<1> QED
  BY <1>3, <1>4, <1>5 DEF Finds

LEMMA ChecksKeeps ==
  ASSUME AllInv, NEW passed \in BOOLEAN, ChecksReference(passed)
  PROVE  AllInv' /\ ExitTellsTheRun' /\ CreditStep
<1>1. /\ UNCHANGED sweVars /\ UNCHANGED v1Vars /\ UNCHANGED typed
      /\ UNCHANGED <<todo, exit>> /\ exit = -1
      /\ checked' = Append(checked, passed)
  BY DEF ChecksReference, allVars, Doing
<1>2. IInv' /\ PendingInv' /\ CreditStep
  BY <1>1, SweStutters DEF AllInv
<1>3. UNCHANGED tasks /\ row' = row /\ evaluations' = evaluations
  BY <1>1 DEF sweVars, v1Vars
<1>4. V1Inv'
  BY <1>1, <1>3, V1Unchanged DEF AllInv
<1>5. SelectionInv'
  BY <1>1, <1>3, SelectionSame
<1>6. checked' \in Seq(BOOLEAN)
  BY <1>1, AppendProperties DEF AllInv, CommandInv, TypedInv
<1>7. TypedInv'
  BY <1>1, <1>6, TypedSame DEF AllInv, CommandInv, TypedInv, Options, Suite
<1>8. CommandInv'
  BY <1>1, <1>3, <1>5, <1>7 DEF AllInv, CommandInv
<1>9. ExitTellsTheRun'
  BY <1>1 DEF ExitTellsTheRun
<1> QED
  BY <1>2, <1>4, <1>8, <1>9 DEF AllInv

LEMMA EvaluatesKeeps ==
  ASSUME AllInv, EvaluatesTasks
  PROVE  AllInv' /\ ExitTellsTheRun' /\ CreditStep
<1>1. V1Next /\ UNCHANGED typed /\ UNCHANGED <<todo, checked, exit>> /\ exit = -1
      /\ Head(todo) = "evaluate"
  BY DEF EvaluatesTasks, commandVars, Doing
<1>2. IInv' /\ PendingInv' /\ V1Inv' /\ CreditStep /\ tasks' = tasks
  BY <1>1, V1Steps DEF AllInv
<1>3. SelectionInv'
  BY <1>1, <1>2, SelectionSame
<1>4. TypedInv'
  BY <1>1, TypedSame DEF AllInv, CommandInv, TypedInv, Options, Suite
<1>5. CommandInv'
  BY <1>1, <1>3, <1>4 DEF CommandInv
<1>6. ExitTellsTheRun'
  BY <1>1 DEF ExitTellsTheRun
<1> QED
  BY <1>2, <1>5, <1>6 DEF AllInv

LEMMA ReportsReferenceKeeps ==
  ASSUME AllInv, ReportsReference
  PROVE  AllInv' /\ ExitTellsTheRun' /\ CreditStep
<1> DEFINE code == IF \A i \in DOMAIN checked : checked[i] THEN 0 ELSE 1
<1>1. /\ Head(todo) = "check" /\ Len(checked) = Len(tasks) /\ Exits(code)
      /\ TypedInv /\ SelectionInv
  BY DEF ReportsReference, Doing, AllInv, CommandInv
<1>2. tasks = Asked /\ LimitOK /\ options.reference
  BY <1>1, StageIs
<1>3. code = 0 => FALSE \notin ToSet(checked)
  <2>1. ASSUME NEW i \in DOMAIN checked, checked[i] = FALSE
        PROVE  code = 1
    BY <2>1, Zenon
  <2>2. FALSE \in ToSet(checked) => \E i \in DOMAIN checked : checked[i] = FALSE
    BY Zenon DEF ToSet
  <2>3. FALSE \in ToSet(checked) => code = 1
    BY <2>1, <2>2, Zenon
  <2>4. code = 1 => code # 0
    OBVIOUS
  <2> QED
    BY <2>3, <2>4, Zenon
<1> HIDE DEF code
<1>4. ExitTellsTheRun'
  BY <1>1, <1>2, <1>3, ExitsSame DEF ExitTellsTheRun, LimitOK
<1> QED
  BY <1>1, <1>4, ExitsKeeps

LEMMA ReportsKeeps ==
  ASSUME AllInv, Reports
  PROVE  AllInv' /\ ExitTellsTheRun' /\ CreditStep
<1>1. /\ Head(todo) = "evaluate" /\ Complete /\ Exits(0)
      /\ TypedInv /\ SelectionInv
  BY DEF Reports, Doing, AllInv, CommandInv
<1>2. tasks = Asked /\ LimitOK /\ ~ options.reference
  BY <1>1, StageIs
<1>3. \A e \in DOMAIN evaluations : Len(evaluations[e]) = Len(Asked)
  BY <1>2 DEF AllInv, V1Inv
<1>4. ExitTellsTheRun'
  BY <1>1, <1>2, <1>3, ExitsSame DEF ExitTellsTheRun, LimitOK
<1> QED
  BY <1>1, <1>4, ExitsKeeps

LEMMA CommandSteps ==
  ASSUME AllInv, ExitTellsTheRun, [CommandNext]_allCommandVars
  PROVE  AllInv' /\ ExitTellsTheRun' /\ CreditStep
<1>1. CASE Limit
  BY <1>1, LimitKeeps
<1>2. CASE Finds
  BY <1>2, FindsKeeps
<1>3. ASSUME NEW passed \in BOOLEAN, ChecksReference(passed)
      PROVE  AllInv' /\ ExitTellsTheRun' /\ CreditStep
  BY <1>3, ChecksKeeps
<1>4. CASE CheckRaises
  BY <1>4, ExitsWithOne DEF CheckRaises, Doing
<1>5. CASE ReportsReference
  BY <1>5, ReportsReferenceKeeps
<1>6. CASE EvaluatesTasks
  BY <1>6, EvaluatesKeeps
<1>7. CASE EvaluationRaises
  BY <1>7, ExitsWithOne DEF EvaluationRaises, Doing
<1>8. CASE Reports
  BY <1>8, ReportsKeeps
<1>9. CASE UNCHANGED allCommandVars
  <2>1. /\ UNCHANGED sweVars /\ UNCHANGED v1Vars
        /\ UNCHANGED typed /\ UNCHANGED <<todo, checked, exit>>
    BY <1>9 DEF allCommandVars, allVars, commandVars
  <2>2. Exits(exit)
    BY <2>1 DEF Exits, allVars
  <2>3. AllInv' /\ CreditStep
    BY <2>2, ExitsKeeps
  <2>4. ExitTellsTheRun'
    BY <2>2, ExitsSame DEF ExitTellsTheRun
  <2> QED
    BY <2>3, <2>4
<1> QED
  BY <1>1, <1>2, <1>3, <1>4, <1>5, <1>6, <1>7, <1>8, <1>9 DEF CommandNext

LEMMA CommandStarts ==
  ASSUME CommandInit
  PROVE  AllInv /\ ExitTellsTheRun
<1>1. /\ Init /\ runs \in Nat /\ evaluations = << >>
      /\ command \in Commands /\ options \in Options /\ tasks = Suite
      /\ command = "hard" => ~ options.reference
      /\ todo = Work /\ checked = << >> /\ exit = -1
  BY RunsAssumption DEF CommandInit, V1Init
<1>2. IInv
  BY <1>1, InitInv
<1>3. TypedInv /\ SelectionInv
  BY <1>1 DEF TypedInv, SelectionInv
<1>4. row = EmptyRow /\ \A m \in Modes : ~ row[m].passed
  BY <1>1 DEF Init, EmptyRow, NoResult
<1>5. PendingInv
  <2>1. Suite # << >> /\ Suite \in Seq(Tasks)
    BY <1>3, SuiteIs
  <2>2. pc = "ask" /\ mode = "baseline"
    BY <1>1, <2>1 DEF Init
  <2> QED
    BY <1>4, <2>2, ModesAre DEF PendingInv
<1>6. V1Inv
  BY <1>1, EmptySeq DEF V1Inv
<1>7. CommandInv
  BY <1>1, <1>3, <1>4 DEF CommandInv
<1>8. ExitTellsTheRun
  BY <1>1 DEF ExitTellsTheRun
<1> QED
  BY <1>2, <1>5, <1>6, <1>7, <1>8 DEF AllInv

LEMMA AllHolds == CommandSpec => [](AllInv /\ ExitTellsTheRun)
<1>1. CommandInit => AllInv /\ ExitTellsTheRun
  BY CommandStarts
<1>2. AllInv /\ ExitTellsTheRun /\ [CommandNext]_allCommandVars
        => (AllInv /\ ExitTellsTheRun)'
  BY CommandSteps
<1> QED
  BY <1>1, <1>2, PTL DEF CommandSpec

-----------------------------------------------------------------------------
(* Whatever is typed, models answer and tests say, a result becomes a      *)
(* passed one by the patch of its own mode, or on a repository task by the *)
(* one a weaker mode solved it with, and it stays passed.                  *)
THEOREM CreditsAreEarned == CommandSpec => CreditIsEarned
<1>1. CommandSpec => [](AllInv /\ ExitTellsTheRun)
  BY AllHolds
<1>2. AllInv /\ ExitTellsTheRun /\ [CommandNext]_allCommandVars => [CreditStep]_sweVars
  BY CommandSteps
<1> QED
  BY <1>1, <1>2, PTL DEF CommandSpec, CreditIsEarned

(* The lists of the report agree with its rates, for any suite, any number *)
(* of evaluations and whatever comes of them.                              *)
THEOREM ReportsAgree == CommandSpec => []ReportAgrees
<1>1. AllInv => ReportAgrees
  BY ReportIsRight DEF AllInv, IInv
<1> QED
  BY <1>1, AllHolds, PTL

(* However often a suite of repository tasks with steady tests is          *)
(* evaluated, the report has no regression and nothing that is not         *)
(* monotonic.                                                              *)
THEOREM NoRegressions == CommandSpec => []NoRegressionReported
<1>1. AllInv => NoRegressionReported
  BY NoneRegressed DEF AllInv, IInv
<1> QED
  BY <1>1, AllHolds, PTL

(* The exit code of each of the commands tells whether what was asked for  *)
(* has been done.                                                          *)
THEOREM ExitsTellTheRun == CommandSpec => []ExitTellsTheRun
BY AllHolds, PTL

(* The same holds of the evaluations that the commands make, one after     *)
(* another.                                                                *)
THEOREM CommandsAreMonotone == CommandSpec => []Monotone
<1>1. AllInv => Monotone
  BY DEF AllInv, IInv, RowsInv, Monotone, Eligible, SingleKeeps, MultiKeeps, Solved
<1> QED
  BY <1>1, AllHolds, PTL
=============================================================================
