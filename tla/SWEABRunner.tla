---------------------------- MODULE SWEABRunner -----------------------------
(***************************************************************************)
(* Evaluates every task of a suite three times: with the bare model, with  *)
(* the single-model agent and with the multi-model agent.  A boosted mode  *)
(* that fails on a repository task takes over the verified patch of a      *)
(* weaker one.                                                             *)
(*                                                                         *)
(* A step ends where the runner waits: for a model or an agent, which may  *)
(* answer with any patch, with a text that is none, or raise; and for the  *)
(* tests, which run in a subprocess with a timeout, so that one patch may  *)
(* get another verdict the next time.                                      *)
(***************************************************************************)
EXTENDS Naturals, Sequences, FiniteSets

CONSTANTS
  Tasks,
  RepoTasks,                    \* the tasks with allowed_files_to_edit
  Patches,                      \* contents of CodingPatch.files
  NoPatch,
  Verdicts,                     \* what verifying each patch may come to
  Suites                        \* the task lists run_suite is called with

Verdict == {"passed", "failed", "raised"}
Modes == {"baseline", "cgr_single", "cgr_multi"}

ASSUME RepoAssumption == RepoTasks \subseteq Tasks
ASSUME PatchAssumption == NoPatch \notin Patches
ASSUME VerdictAssumption ==
         Verdicts \in [Tasks -> [Patches -> (SUBSET Verdict) \ {{}}]]
ASSUME SuitesAssumption == Suites \subseteq Seq(Tasks)

(* exact stands for final_exact_repo_verification_passed being True.       *)
Result ==
  [passed : BOOLEAN, files : Patches \cup {NoPatch}, exact : BOOLEAN]
Places == {"ask", "retry", "verify", "guard", "guardBaseline", "record",
           "done", "aborted"}
NoResult == [passed |-> FALSE, files |-> NoPatch, exact |-> FALSE]

VARIABLES
  tasks,               \* the suite
  rows,                \* Seq([Modes -> Result]), for the tasks done
  row,                 \* the results of the current task
  mode,                \* which mode is being run
  pc,                  \* what it does next for this task and mode
  patch                \* the patch to verify

sweVars == <<tasks, rows, row, mode, pc, patch>>

Task == tasks[Len(rows) + 1]
EmptyRow == [m \in Modes |-> NoResult]

-----------------------------------------------------------------------------
(* _run_case: ask for a patch, verify it, and turn an exception into a     *)
(* failed result.                                                          *)

CaseEnds(result) ==
  /\ row' = [row EXCEPT ![mode] = result]
  /\ patch' = NoPatch
  /\ \/ mode = "baseline" /\ mode' = "cgr_single" /\ pc' = "ask"
     \/ mode # "baseline" /\ pc' = "guard" /\ UNCHANGED mode
  /\ UNCHANGED <<tasks, rows>>

Answers(p) ==
  /\ pc \in {"ask", "retry"}
  /\ patch' = p
  /\ pc' = "verify"
  /\ UNCHANGED <<tasks, rows, row, mode>>

(* Mutant: there is no limit to asking again.                              *)
AnswersUnreadablyAgain ==
  /\ pc \in {"ask", "retry"} /\ mode = "baseline"
  /\ pc' = IF pc = "ask" THEN "retry" ELSE "ask"
  /\ UNCHANGED <<tasks, rows, row, mode, patch>>

(* The baseline asks once more for text it cannot read; agents do that     *)
(* themselves.                                                             *)
AnswersUnreadably ==
  /\ pc = "ask" /\ mode = "baseline"
  /\ pc' = "retry"
  /\ UNCHANGED <<tasks, rows, row, mode, patch>>

(* An unregistered plugin, a failed execution or a second bad answer.      *)
Raises ==
  /\ pc \in {"ask", "retry"}
  /\ CaseEnds(NoResult)

Verifies(verdict) ==
  /\ pc = "verify"
  /\ verdict \in Verdicts[Task][patch]
  /\ CaseEnds(IF verdict = "raised" THEN NoResult
              ELSE [passed |-> verdict = "passed", files |-> patch,
                    exact |-> verdict = "passed" /\ Task \in RepoTasks])

-----------------------------------------------------------------------------
(* _apply_verified_fallback.                                               *)

(* Mutant: the test for a repository task is lost.                         *)
ApplicableToAny(fallback) ==
  /\ ~ row[mode].passed
  /\ fallback.passed /\ fallback.files # NoPatch

Applicable(fallback) ==
  /\ ~ row[mode].passed /\ Task \in RepoTasks
  /\ fallback.passed /\ fallback.files # NoPatch
  /\ fallback.exact

(* The patch of the weaker mode is verified again, outside of any try.     *)
Adopts(fallback, next) ==
  \E verdict \in Verdicts[Task][fallback.files] :
    /\ row' = IF verdict = "passed"
                THEN [row EXCEPT ![mode] = [passed |-> TRUE,
                        files |-> fallback.files, exact |-> TRUE]]
                ELSE row
    /\ pc' = IF verdict = "raised" THEN "aborted" ELSE next

FallsBack(fallback, next) ==
  \/ Applicable(fallback) /\ Adopts(fallback, next)
  \/ ~ Applicable(fallback) /\ pc' = next /\ UNCHANGED row

(* Mutant: a mode that raised has no result to repair.                     *)
GuardSingleWithFiles ==
  /\ pc = "guard" /\ mode = "cgr_single"
  /\ \/ row[mode].files # NoPatch /\ FallsBack(row["baseline"], "ask")
     \/ row[mode].files = NoPatch /\ pc' = "ask" /\ UNCHANGED row
  /\ mode' = "cgr_multi"
  /\ UNCHANGED <<tasks, rows, patch>>

GuardSingle ==
  /\ pc = "guard" /\ mode = "cgr_single"
  /\ FallsBack(row["baseline"], "ask")
  /\ mode' = "cgr_multi"
  /\ UNCHANGED <<tasks, rows, patch>>

(* Mutant: the single-model result is not considered.                      *)
GuardMultiSkipped ==
  /\ pc = "guard" /\ mode = "cgr_multi"
  /\ pc' = "guardBaseline"
  /\ UNCHANGED <<tasks, rows, row, mode, patch>>

GuardMulti ==
  /\ pc = "guard" /\ mode = "cgr_multi"
  /\ FallsBack(row["cgr_single"], "guardBaseline")
  /\ UNCHANGED <<tasks, rows, mode, patch>>

GuardMultiBaseline ==
  /\ pc = "guardBaseline"
  /\ FallsBack(row["baseline"], "record")
  /\ UNCHANGED <<tasks, rows, mode, patch>>

Records ==
  /\ pc = "record"
  /\ rows' = Append(rows, row)
  /\ row' = EmptyRow
  /\ mode' = "baseline"
  /\ pc' = IF Len(rows') = Len(tasks) THEN "done" ELSE "ask"
  /\ UNCHANGED <<tasks, patch>>

-----------------------------------------------------------------------------
Starts(suite) ==
  /\ tasks' = suite
  /\ rows' = << >>
  /\ row' = EmptyRow
  /\ mode' = "baseline"
  /\ pc' = IF suite = << >> THEN "done" ELSE "ask"
  /\ patch' = NoPatch

Init ==
  /\ tasks \in Suites
  /\ rows = << >>
  /\ row = EmptyRow
  /\ mode = "baseline"
  /\ pc = IF tasks = << >> THEN "done" ELSE "ask"
  /\ patch = NoPatch

Case ==
  \/ \E p \in Patches : Answers(p)
  \/ AnswersUnreadably
  \/ Raises
  \/ \E verdict \in Verdict : Verifies(verdict)

Guard == GuardSingle \/ GuardMulti \/ GuardMultiBaseline

SuiteNext == Case \/ Guard \/ Records

Spec == Init /\ [][SuiteNext]_sweVars

TypeOK ==
  /\ tasks \in Seq(Tasks)
  /\ rows \in Seq([Modes -> Result]) /\ Len(rows) <= Len(tasks)
  /\ row \in [Modes -> Result]
  /\ mode \in Modes
  /\ pc \in Places
  /\ patch \in Patches \cup {NoPatch}

-----------------------------------------------------------------------------
(***************************************************************************)
(* A repository task whose tests always agree is solved by the single mode *)
(* if the baseline solved it, and by the multi mode if the single mode did *)
(* (the guards of run_suite; test_repo_v0_benchmark.py tries them one by   *)
(* one).                                                                   *)
(***************************************************************************)
Steady(task) ==
  \A p \in Patches : \A v, w \in Verdicts[task][p] : v = w

Solved(i, m) == rows[i][m].passed

Monotone ==
  \A i \in DOMAIN rows :
    tasks[i] \in RepoTasks /\ Steady(tasks[i]) =>
      /\ Solved(i, "baseline") => Solved(i, "cgr_single")
      /\ Solved(i, "cgr_single") => Solved(i, "cgr_multi")

(***************************************************************************)
(* Credit is earned: a result becomes a passed one by the patch its own    *)
(* mode answered and had verified, never when the model raised; or, for a  *)
(* repository task only, by the patch of a weaker mode that solved the     *)
(* task itself; and it is not lost again.                                  *)
(***************************************************************************)
Weaker(m) == CASE m = "baseline" -> {}
               [] m = "cgr_single" -> {"baseline"}
               [] m = "cgr_multi" -> {"baseline", "cgr_single"}

Earned(m) ==
  \/ m = mode /\ pc = "verify" /\ row'[m].files = patch
  \/ /\ Task \in RepoTasks
     /\ \E w \in Weaker(m) : row[w].passed /\ row[w].files = row'[m].files

CreditStep ==
  rows' = rows =>
    \A m \in Modes : /\ row[m].passed => row'[m] = row[m]
                     /\ row'[m].passed /\ ~ row[m].passed => Earned(m)

CreditIsEarned == [][CreditStep]_sweVars
=============================================================================
