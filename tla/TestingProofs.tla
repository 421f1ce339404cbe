---------------------------- MODULE TestingProofs ----------------------------
(***************************************************************************)
(* A patch that passes has earned it, for any files, tests, texts and      *)
(* numbers of commands; and where the analyzer that may reject a patch     *)
(* before its tests are run is wrong about a program, however long, it is  *)
(* for a known reason.                                                     *)
(*                                                                         *)
(* PassIsEarned speaks of what the stages ran.  It is kept because a stage *)
(* is begun in an empty directory and only behind a stage that passed,     *)
(* and a run goes on only as long as its commands end as expected.  What   *)
(* the tests mean is kept since rewriting keeps it, where their text is of *)
(* simple equations, and what a run tells of hidden tests is found line by *)
(* line.                                                                   *)
(***************************************************************************)
EXTENDS PatchTesting, CartMutation, SequenceLemmas

Contents == {"absent", "patch", "task", "command"}
Record ==
  [outcome : {"expected", "other", "timeout"}, found : [Files -> Contents],
   returned : {"want", "wrong", "unknown"}]

TypeInv ==
  /\ commands \in [Stages -> Nat]
  /\ pc \in {"idle", "write", "compile", "write_tests", "run", "done"}
  /\ stage \in Stages
  /\ disk \in [Files -> Contents]
  /\ ran \in [Stages -> Seq(Record)]

AllExpected(s) == \A i \in DOMAIN ran[s] : ran[s][i].outcome = "expected"
Passed(s) == Len(ran[s]) = commands[s] /\ AllExpected(s)

(* The directory as the stage has it so far.                               *)
DiskInv ==
  /\ pc \in {"idle", "write"} => disk = Absent
  /\ pc \in {"compile", "write_tests"} =>
       disk = [f \in Files |-> IF f \in overlay THEN "patch" ELSE "absent"]
  /\ pc = "run" /\ ran[stage] = << >> => disk = Expected(stage)

StageInv ==
  /\ pc = "idle" => stage = "visible"
  /\ pc # "done" => verdict = "none"
  /\ pc \notin {"idle", "done"} => HasContract(stage)
  /\ pc \in {"idle", "write", "compile", "write_tests"} => ran[stage] = << >>
  /\ pc = "run" => AllExpected(stage)
  /\ stage = "visible" => ran["hidden"] = << >>
  /\ stage = "hidden" => Passed("visible") /\ HasContract("visible")

FoundInv == \A s \in Stages : ran[s] # << >> => ran[s][1].found = Expected(s)

IInv == TypeInv /\ DiskInv /\ StageInv /\ FoundInv /\ PassIsEarned

LEMMA StagesAre == Stages = {"visible", "hidden"}
  BY DEF Stages

LEMMA InitInv == Init => IInv
<1> SUFFICES ASSUME Init PROVE IInv
  OBVIOUS
<1>1. TypeInv
  BY DEF Init, TypeInv, Absent, Contents, Stages
<1>2. DiskInv /\ StageInv /\ FoundInv
  BY DEF Init, DiskInv, StageInv, FoundInv, Stages
<1>3. PassIsEarned
  BY DEF Init, PassIsEarned, Stages
<1> QED
  BY <1>1, <1>2, <1>3 DEF IInv

-----------------------------------------------------------------------------
(* Steps before the first command of a stage change nothing that was run.  *)
LEMMA Quiet ==
  ASSUME IInv, UNCHANGED <<taskVars, ran>>, verdict' # "passed"
  PROVE  FoundInv' /\ PassIsEarned'
<1>1. UNCHANGED <<overlay, tests, commands, ran>>
  BY DEF taskVars
<1> QED
  BY <1>1 DEF IInv, FoundInv, PassIsEarned, HasContract, Expected

LEMMA RaisesInv == ASSUME IInv, Raises PROVE IInv'
<1>1. /\ pc' = "done" /\ verdict' = "raised" /\ disk' = Absent
      /\ UNCHANGED <<taskVars, ran, stage>>
  BY DEF Raises
<1>2. FoundInv' /\ PassIsEarned'
  BY <1>1, Quiet
<1>3. TypeInv' /\ DiskInv'
  BY <1>1 DEF IInv, TypeInv, DiskInv, taskVars, Absent, Contents
<1>4. StageInv'
  BY <1>1 DEF IInv, StageInv, taskVars, Passed, AllExpected, HasContract
<1> QED
  BY <1>2, <1>3, <1>4 DEF IInv

LEMMA BeginsInv == ASSUME IInv, Begins PROVE IInv'
<1>1. /\ pc = "idle" /\ verdict = "none" /\ stage = "visible"
      /\ pc' = IF HasContract("visible") THEN "write" ELSE "done"
      /\ UNCHANGED <<taskVars, ran, stage, disk, verdict>>
  BY DEF Begins, IInv, StageInv
<1>2. FoundInv' /\ PassIsEarned'
  BY <1>1, Quiet
<1>3. TypeInv' /\ DiskInv'
  BY <1>1 DEF IInv, TypeInv, DiskInv, taskVars, Absent
<1>4. StageInv'
  BY <1>1 DEF IInv, StageInv, taskVars, HasContract
<1> QED
  BY <1>2, <1>3, <1>4 DEF IInv

LEMMA WritesFilesInv == ASSUME IInv, WritesFiles PROVE IInv'
<1>1. /\ pc = "write" /\ pc' = "compile" /\ verdict = "none" /\ disk = Absent
      /\ disk' = [f \in Files |-> IF f \in overlay THEN "patch" ELSE disk[f]]
      /\ UNCHANGED <<taskVars, ran, stage, verdict>>
  BY DEF WritesFiles, IInv, StageInv, DiskInv
<1>2. FoundInv' /\ PassIsEarned'
  BY <1>1, Quiet
<1>3. TypeInv' /\ DiskInv'
  BY <1>1 DEF IInv, TypeInv, DiskInv, taskVars, Absent, Contents
<1>4. StageInv'
  BY <1>1 DEF IInv, StageInv, taskVars, HasContract, Passed, AllExpected
<1> QED
  BY <1>2, <1>3, <1>4 DEF IInv

LEMMA WritesTestsInv == ASSUME IInv, NEW says \in Texts, WritesTests(says) PROVE IInv'
<1>1. /\ pc = "write_tests" /\ pc' = "run" /\ verdict = "none"
      /\ disk = [f \in Files |-> IF f \in overlay THEN "patch" ELSE "absent"]
      /\ disk' = [f \in Files |-> IF f \in tests[stage] THEN "task" ELSE disk[f]]
      /\ UNCHANGED <<taskVars, ran, stage, verdict>>
  BY DEF WritesTests, IInv, StageInv, DiskInv
<1>2. FoundInv' /\ PassIsEarned'
  BY <1>1, Quiet
<1>3. disk' = Expected(stage)
  BY <1>1 DEF Expected
<1>4. TypeInv' /\ DiskInv'
  BY <1>1, <1>3 DEF IInv, TypeInv, DiskInv, taskVars, Contents, Expected
<1>5. StageInv'
  BY <1>1 DEF IInv, StageInv, taskVars, HasContract, Passed, AllExpected
<1> QED
  BY <1>2, <1>4, <1>5 DEF IInv

-----------------------------------------------------------------------------
(* What the end of a run does, which never passes a stage that did not.    *)
LEMMA ReturnsInv ==
  ASSUME IInv, NEW passed \in BOOLEAN, NEW lines, RunReturns(passed, lines),
         UNCHANGED taskVars, ran' \in [Stages -> Seq(Record)], FoundInv',
         HasContract(stage), pc # "done",
         \A s \in Stages : s # stage => ran'[s] = ran[s],
         passed => ran' = ran /\ Passed(stage)
  PROVE  IInv'
<1>1. /\ TypeInv /\ StageInv /\ PassIsEarned /\ verdict = "none" /\ stage \in Stages
      /\ UNCHANGED <<overlay, tests, commands>>
  BY DEF IInv, taskVars, StageInv, TypeInv
<1>2. disk' = Absent
  BY DEF RunReturns
<1>3. \/ /\ passed /\ stage = "visible" /\ HasContract("hidden")
         /\ stage' = "hidden" /\ pc' = "write" /\ verdict' = verdict
      \/ /\ pc' = "done" /\ stage' = stage
         /\ verdict' = IF passed THEN "passed" ELSE "failed"
         /\ passed /\ stage = "visible" => ~ HasContract("hidden")
  BY DEF RunReturns
<1>4. TypeInv'
  BY <1>1, <1>2, <1>3 DEF TypeInv, Absent, Contents, Stages
<1>5. DiskInv'
  BY <1>2, <1>3 DEF DiskInv
<1>6. CASE pc' = "write"
  <2>1. /\ passed /\ stage = "visible" /\ stage' = "hidden" /\ verdict' = "none"
        /\ ran' = ran /\ Passed("visible") /\ HasContract("visible") /\ HasContract("hidden")
    BY <1>1, <1>3, <1>6
  <2>2. ran["hidden"] = << >>
    BY <1>1, <2>1 DEF StageInv
  <2>3. StageInv'
    BY <1>1, <1>6, <2>1, <2>2 DEF StageInv, HasContract, Passed, AllExpected
  <2>4. PassIsEarned'
    BY <1>1, <2>1, <2>2 DEF FoundInv, PassIsEarned
  <2> QED
    BY <1>4, <1>5, <2>3, <2>4 DEF IInv
<1>7. CASE pc' = "done"
  <2>1. /\ stage' = stage /\ verdict' = IF passed THEN "passed" ELSE "failed"
        /\ passed /\ stage = "visible" => ~ HasContract("hidden")
    BY <1>3, <1>7
  <2>2. stage = "visible" => ran'["hidden"] = << >>
    BY <1>1 DEF StageInv, Stages
  <2>3. stage = "hidden" => /\ Passed("visible") /\ HasContract("visible")
                            /\ ran'["visible"] = ran["visible"]
    BY <1>1 DEF StageInv, Stages
  <2>4. StageInv'
    BY <1>1, <1>7, <2>1, <2>2, <2>3 DEF StageInv, HasContract, Passed, AllExpected
  <2>5. ran'["hidden"] # << >> => Passed("visible")'
    BY <1>1, <2>2, <2>3 DEF Stages, Passed, AllExpected
  <2>6. verdict' = "passed" => Passed("visible")' /\ HasContract("visible")
                                /\ (HasContract("hidden") => Passed("hidden")')
    BY <1>1, <2>1, <2>3 DEF Stages, Passed, AllExpected
  <2>7. PassIsEarned'
    BY <1>1, <2>5, <2>6 DEF FoundInv, PassIsEarned, Passed, AllExpected, HasContract
  <2> QED
    BY <1>4, <1>5, <2>4, <2>7 DEF IInv
<1> QED
  BY <1>3, <1>6, <1>7

LEMMA CompilesInv == ASSUME IInv, NEW succeeds \in BOOLEAN, Compiles(succeeds) PROVE IInv'
<1>1. /\ pc = "compile" /\ UNCHANGED <<taskVars, ran>> /\ HasContract(stage)
  BY DEF Compiles, IInv, StageInv
<1>2. CASE pc' = "write_tests" /\ UNCHANGED <<stage, given, written, disk, messages, kept, verdict>>
  <2>1. verdict' # "passed"
    BY <1>1, <1>2 DEF IInv, StageInv
  <2>2. FoundInv' /\ PassIsEarned'
    BY <1>1, <2>1, Quiet
  <2>3. TypeInv' /\ DiskInv'
    BY <1>1, <1>2 DEF IInv, TypeInv, DiskInv, taskVars
  <2>4. StageInv'
    BY <1>1, <1>2 DEF IInv, StageInv, taskVars, HasContract, Passed, AllExpected
  <2> QED
    BY <2>2, <2>3, <2>4 DEF IInv
<1>3. CASE RunReturns(FALSE, SyntaxErrorOutput)
  <2>1. FoundInv' /\ ran' = ran /\ ran \in [Stages -> Seq(Record)]
    BY <1>1 DEF IInv, FoundInv, Expected, taskVars, TypeInv
  <2> QED
    BY <1>1, <1>3, <2>1, ReturnsInv
<1> QED
  BY <1>2, <1>3 DEF Compiles

-----------------------------------------------------------------------------
(* What a command adds to the outcomes of its stage.                       *)
LEMMA Recorded ==
  ASSUME IInv, pc = "run", NEW outcome \in {"expected", "other", "timeout"},
         NEW returned \in {"want", "wrong", "unknown"}, Records(outcome, returned),
         UNCHANGED taskVars
  PROVE  /\ ran' \in [Stages -> Seq(Record)] /\ FoundInv' /\ ran'[stage] # << >>
         /\ \A s \in Stages : s # stage => ran'[s] = ran[s]
         /\ outcome = "expected" =>
              \A i \in DOMAIN ran'[stage] : ran'[stage][i].outcome = "expected"
<1> DEFINE r == [outcome |-> outcome, found |-> disk, returned |-> returned]
<1>1. /\ stage \in Stages /\ ran \in [Stages -> Seq(Record)] /\ r \in Record
      /\ ran[stage] \in Seq(Record)
  BY DEF IInv, TypeInv, Record
<1>2. /\ ran' = [ran EXCEPT ![stage] = Append(@, r)]
      /\ ran'[stage] = Append(ran[stage], r)
      /\ \A s \in Stages : s # stage => ran'[s] = ran[s]
  BY <1>1 DEF Records
<1> HIDE DEF r
<1>3. Append(ran[stage], r) \in Seq(Record)
  BY <1>1
<1>4. ran' \in [Stages -> Seq(Record)]
  BY <1>1, <1>2, <1>3
<1>5. ran'[stage] # << >>
  BY <1>1, <1>2
<1>6. ran'[stage][1].found = Expected(stage)
  <2>1. CASE ran[stage] = << >>
    <3>1. ran'[stage][1] = r /\ r.found = disk
      BY <1>1, <1>2, <2>1 DEF r
    <3> QED
      BY <2>1, <3>1 DEF IInv, DiskInv
  <2>2. CASE ran[stage] # << >>
    <3>1. ran'[stage][1] = ran[stage][1]
      BY <1>1, <1>2, <2>2
    <3> QED
      BY <1>1, <2>2, <3>1 DEF IInv, FoundInv
  <2> QED
    BY <2>1, <2>2
<1>7. FoundInv'
  <2> SUFFICES ASSUME NEW s \in Stages, ran'[s] # << >>
               PROVE  ran'[s][1].found = Expected(s)'
    BY DEF FoundInv
  <2>1. Expected(s)' = Expected(s)
    BY DEF Expected, taskVars
  <2> QED
    BY <1>2, <1>6, <2>1 DEF IInv, FoundInv
<1>8. ASSUME outcome = "expected", NEW i \in DOMAIN ran'[stage]
      PROVE  ran'[stage][i].outcome = "expected"
  <2>1. r.outcome = "expected" /\ AllExpected(stage)
    BY <1>8 DEF r, IInv, StageInv
  <2>2. \/ ran'[stage][i] = r
        \/ i \in DOMAIN ran[stage] /\ ran'[stage][i] = ran[stage][i]
    <3>1. i \in 1 .. Len(ran[stage]) + 1 /\ Len(ran[stage]) \in Nat
      BY <1>1, <1>2, <1>8
    <3>2. CASE i = Len(ran[stage]) + 1
      BY <1>1, <1>2, <3>2
    <3>3. CASE i \in 1 .. Len(ran[stage])
      <4>1. ran'[stage][i] = ran[stage][i]
        BY <1>1, <1>2, <3>3
      <4> QED
        BY <1>1, <3>3, <4>1
    <3> QED
      BY <3>1, <3>2, <3>3
  <2> QED
    BY <2>1, <2>2 DEF AllExpected
<1> QED
  BY <1>2, <1>4, <1>5, <1>7, <1>8

LEMMA RaisedRunsAre ==
  ASSUME NEW says, NEW run \in RaisedRuns(says)
  PROVE  /\ run.returned = "unknown"
         /\ \E k \in Calling(says) : run.output = RaisedOutput(Statements(says)[k])
  BY DEF RaisedRuns

LEMMA EndsReturn == \A run \in Ends : run.returned \in {"want", "wrong", "unknown"}
<1>1. \A run \in Runs : run.returned \in {"want", "wrong"}
  BY DEF Runs, RunOf
<1> QED
  BY <1>1, RaisedRunsAre DEF Ends

LEMMA CommandSucceedsInv ==
  ASSUME IInv, NEW run \in Ends, NEW prints, NEW changed \in SUBSET Files,
         CommandSucceeds(run, prints, changed)
  PROVE  IInv'
<1>1. /\ pc = "run" /\ verdict = "none" /\ HasContract(stage) /\ stage \in Stages
      /\ Records("expected", run.returned) /\ run.returned \in {"want", "wrong", "unknown"}
      /\ UNCHANGED <<overlay, tests, commands, pc, stage, verdict>>
      /\ disk' = [f \in Files |-> IF f \in changed THEN "command" ELSE disk[f]]
  BY EndsReturn DEF CommandSucceeds, MoreToRun, IInv, StageInv, TypeInv, taskVars
<1>2. /\ ran' \in [Stages -> Seq(Record)] /\ FoundInv' /\ ran'[stage] # << >>
      /\ \A s \in Stages : s # stage => ran'[s] = ran[s]
      /\ AllExpected(stage)'
  BY <1>1, Recorded DEF taskVars, AllExpected
<1>3. TypeInv'
  BY <1>1, <1>2 DEF IInv, TypeInv, Contents
<1>4. DiskInv'
  BY <1>1, <1>2 DEF DiskInv
<1>5. StageInv'
  BY <1>1, <1>2 DEF IInv, StageInv, HasContract, Passed, AllExpected, Stages
<1>6. ran'["hidden"] # << >> => Passed("visible")'
  BY <1>1, <1>2 DEF IInv, StageInv, Passed, AllExpected, Stages
<1>7. PassIsEarned'
  BY <1>1, <1>2, <1>6 DEF PassIsEarned, FoundInv, Passed, AllExpected
<1> QED
  BY <1>2, <1>3, <1>4, <1>5, <1>7 DEF IInv

LEMMA CommandFailsInv ==
  ASSUME IInv, NEW run \in Ends, NEW prints, CommandFails(run, prints)
  PROVE  IInv'
<1>1. /\ pc = "run" /\ HasContract(stage) /\ UNCHANGED taskVars
      /\ Records("other", run.returned) /\ run.returned \in {"want", "wrong", "unknown"}
      /\ RunReturns(FALSE, messages \o <<ExitNote>> \o prints \o run.output)
  BY EndsReturn DEF CommandFails, MoreToRun, IInv, StageInv
<1> QED
  BY <1>1, Recorded, ReturnsInv

LEMMA CommandTimesOutInv ==
  ASSUME IInv, NEW prints, CommandTimesOut(prints)
  PROVE  IInv'
<1>1. /\ pc = "run" /\ HasContract(stage) /\ UNCHANGED taskVars
      /\ Records("timeout", "unknown")
      /\ RunReturns(FALSE, messages \o <<Note>> \o prints)
  BY DEF CommandTimesOut, MoreToRun, IInv, StageInv
<1> QED
  BY <1>1, Recorded, ReturnsInv

LEMMA RunPassesInv == ASSUME IInv, RunPasses PROVE IInv'
<1>1. /\ pc = "run" /\ HasContract(stage) /\ RunReturns(TRUE, messages)
      /\ Passed(stage) /\ UNCHANGED <<taskVars, ran>> /\ ran \in [Stages -> Seq(Record)]
  BY DEF RunPasses, IInv, StageInv, TypeInv, Passed
<1>2. FoundInv'
  BY <1>1 DEF IInv, FoundInv, Expected, taskVars
<1> QED
  BY <1>1, <1>2, ReturnsInv

-----------------------------------------------------------------------------
LEMMA NextInv == ASSUME IInv, [Next]_testingVars PROVE IInv'
<1>1. ASSUME WritingRaises \/ CommandRaises PROVE IInv'
  BY <1>1, RaisesInv DEF WritingRaises, CommandRaises
<1>2. ASSUME NEW prints \in Prints, NEW run \in Ends,
             \/ CommandFails(run, prints)
             \/ \E changed \in SUBSET Files : CommandSucceeds(run, prints, changed)
      PROVE  IInv'
  BY <1>2, CommandFailsInv, CommandSucceedsInv
<1>3. ASSUME UNCHANGED testingVars PROVE IInv'
  BY <1>3 DEF testingVars, taskVars, IInv, TypeInv, DiskInv, StageInv, FoundInv, PassIsEarned,
              Passed, AllExpected, HasContract, Expected
<1> QED
  BY <1>1, <1>2, <1>3, BeginsInv, WritesFilesInv, WritesTestsInv, CompilesInv,
     CommandTimesOutInv, RunPassesInv DEF Next

(***************************************************************************)
(* A patch passes only when every command of the task ended as expected,   *)
(* the visible ones before the hidden ones, in directories that held the   *)
(* patch and the task's own tests (verify_patch, PythonTestRunner.run).    *)
(***************************************************************************)
THEOREM PassesAreEarned == Spec => []PassIsEarned
<1>1. IInv => PassIsEarned
  BY DEF IInv
<1> QED
  BY InitInv, NextInv, <1>1, PTL DEF Spec

-----------------------------------------------------------------------------
(***************************************************************************)
(* Texts of equations.  _enhance_simple_equality_asserts makes three lines *)
(* of each, which Python reads as three statements that fail where the one *)
(* fails that they stand for.                                              *)
(***************************************************************************)
LEMMA PartsAre ==
  ASSUME NEW s, IsSequence(s), NEW cuts \in SUBSET (DOMAIN s),
         NEW m \in Nat, NEW c, Cardinality(cuts) = m,
         c[0] = 0, c[m + 1] = Len(s) + 1,
         \A k \in 1 .. m : c[k] \in cuts /\ Rank(cuts, c[k]) = k
  PROVE  /\ IsSequence(PartsBetween(s, cuts)) /\ Len(PartsBetween(s, cuts)) = m + 1
         /\ \A k \in 1 .. m + 1 :
              PartsBetween(s, cuts)[k] = SubSeq(s, c[k - 1] + 1, c[k] - 1)
<1> DEFINE Cut(k) == CASE k = 0 -> 0
                       [] k \in 1 .. Cardinality(cuts) -> Nth(cuts, k)
                       [] OTHER -> Len(s) + 1
           part(k) == SubSeq(s, Cut(k - 1) + 1, Cut(k) - 1)
           parts == PartsBetween(s, cuts)
           T == {part(k) : k \in 1 .. m + 1}
<1>1. parts = [k \in 1 .. Cardinality(cuts) + 1 |-> part(k)]
  BY DEF PartsBetween
<1>2. ASSUME NEW k \in 1 .. m PROVE Nth(cuts, k) = c[k]
  <2>1. Len(s) \in Nat /\ DOMAIN s = 1 .. Len(s)
    BY SequenceProperties
  <2>2. Nth(cuts, Rank(cuts, c[k])) = c[k]
    BY <2>1, NthIs
  <2> QED
    BY <2>2
<1>3. \A k \in 0 .. m + 1 : Cut(k) = c[k]
  <2>1. \A k \in 0 .. m + 1 : k = 0 \/ k \in 1 .. m \/ k = m + 1
    OBVIOUS
  <2>2. m + 1 # 0 /\ m + 1 \notin 1 .. m /\ 0 \notin 1 .. m
    OBVIOUS
  <2> QED
    BY <1>2, <2>1, <2>2
<1>4. \A k \in 1 .. m + 1 : part(k) = SubSeq(s, c[k - 1] + 1, c[k] - 1)
  <2> HIDE DEF Cut
  <2>1. \A k \in 1 .. m + 1 : k - 1 \in 0 .. m + 1 /\ k \in 0 .. m + 1
    OBVIOUS
  <2> QED
    BY <1>3, <2>1
<1> HIDE DEF part, parts
<1>5. parts = [k \in 1 .. m + 1 |-> part(k)] /\ m + 1 \in Nat
  BY <1>1
<1>6. parts \in [1 .. m + 1 -> T]
  BY <1>5
<1> HIDE DEF T
<1>7. parts \in Seq(T) /\ Len(parts) = m + 1
  BY <1>5, <1>6, FunctionIsSeq
<1>8. IsSequence(parts)
  BY <1>7, SeqIsSequence
<1>9. \A k \in 1 .. m + 1 : parts[k] = SubSeq(s, c[k - 1] + 1, c[k] - 1)
  BY <1>4, <1>5
<1> QED
  BY <1>7, <1>8, <1>9 DEF parts

LEMMA SomeParts ==
  ASSUME NEW s, IsSequence(s), NEW cuts \in SUBSET (DOMAIN s)
  PROVE  /\ IsSequence(PartsBetween(s, cuts))
         /\ Len(PartsBetween(s, cuts)) \in Nat /\ Len(PartsBetween(s, cuts)) >= 1
<1>1. PICK m, c : CutsAre(s, cuts, m, c)
  BY CutsIncrease
<1>2. /\ m \in Nat /\ Cardinality(cuts) = m /\ c[0] = 0 /\ c[m + 1] = Len(s) + 1
      /\ \A k \in 1 .. m : c[k] \in cuts /\ Rank(cuts, c[k]) = k
  BY <1>1 DEF CutsAre
<1>3. IsSequence(PartsBetween(s, cuts)) /\ Len(PartsBetween(s, cuts)) = m + 1
  BY <1>2, PartsAre
<1> QED
  BY <1>2, <1>3

LEMMA CountIs ==
  ASSUME NEW s, IsSequence(s), NEW i \in 0 .. Len(s), NEW ts
  PROVE  Count(SubSeq(s, 1, i), ts) = Rank({j \in DOMAIN s : s[j] \in ts}, i)
<1> DEFINE t == SubSeq(s, 1, i)
<1>1. Len(s) \in Nat /\ DOMAIN s = 1 .. Len(s)
  BY SequenceProperties
<1>2. IsSequence(t) /\ Len(t) = i /\ \A j \in 1 .. i : t[j] = s[j]
  <2>1. /\ IsSequence(t) /\ Len(t) = IF 1 <= i THEN i - 1 + 1 ELSE 0
        /\ \A j \in 1 .. i - 1 + 1 : t[j] = s[1 + j - 1]
    BY <1>1, SubSequence
  <2> HIDE DEF t
  <2> QED
    BY <1>1, <2>1
<1> HIDE DEF t
<1>3. DOMAIN t = 1 .. i
  BY <1>2, SequenceProperties
<1>4. {j \in DOMAIN t : t[j] \in ts} = {j \in {p \in DOMAIN s : s[p] \in ts} : j <= i}
  BY <1>1, <1>2, <1>3
<1> QED
  BY <1>4 DEF Count, Rank, t

LEMMA DepthIs ==
  ASSUME NEW s, IsSequence(s), NEW i \in 0 .. Len(s)
  PROVE  Depth(s, i + 1) = Rank({j \in DOMAIN s : s[j] \in {"(", "open"}}, i)
                             - Rank({j \in DOMAIN s : s[j] \in {")", "close"}}, i)
<1>1. (i + 1) - 1 = i
  BY SequenceProperties
<1> QED
  BY <1>1, CountIs DEF Depth

(* No brackets, no depth; and no separators, one part.                     *)
LEMMA NoDepth ==
  ASSUME NEW s, IsSequence(s), NEW i \in 0 .. Len(s),
         \A j \in 1 .. i : s[j] \notin {"(", "open", ")", "close"}
  PROVE  Depth(s, i + 1) = 0
<1> DEFINE opens == {j \in DOMAIN s : s[j] \in {"(", "open"}}
           closes == {j \in DOMAIN s : s[j] \in {")", "close"}}
<1>1. Len(s) \in Nat /\ DOMAIN s = 1 .. Len(s)
  BY SequenceProperties
<1>2. {j \in opens : j <= i} = {} /\ {j \in closes : j <= i} = {}
  BY <1>1
<1>3. Rank(opens, i) = 0 /\ Rank(closes, i) = 0
  BY <1>2, FS_EmptySet DEF Rank
<1>4. Depth(s, i + 1) = Rank(opens, i) - Rank(closes, i)
  BY DepthIs
<1> HIDE DEF opens, closes
<1> QED
  BY <1>3, <1>4

LEMMA OnePart ==
  ASSUME NEW s, IsSequence(s), NEW separators,
         \A i \in DOMAIN s : s[i] \notin separators
  PROVE  Parts(s, separators) = <<s>>
<1> DEFINE cuts == {i \in DOMAIN s : s[i] \in separators /\ Depth(s, i) = 0}
<1>1. Len(s) \in Nat /\ DOMAIN s = 1 .. Len(s)
  BY SequenceProperties
<1>2. cuts = {} /\ Cardinality({}) = 0
  BY FS_EmptySet
<1>3. PICK m \in Nat : m = 0
  OBVIOUS
<1>4. /\ IsSequence(PartsBetween(s, {})) /\ Len(PartsBetween(s, {})) = 1
      /\ PartsBetween(s, {})[1] = SubSeq(s, 0 + 1, (Len(s) + 1) - 1)
  <2> DEFINE c == [k \in 0 .. 1 |-> IF k = 0 THEN 0 ELSE Len(s) + 1]
  <2>1. c[0] = 0 /\ c[1] = Len(s) + 1
    OBVIOUS
  <2> HIDE DEF c
  <2>2. /\ {} \in SUBSET (DOMAIN s) /\ Cardinality({}) = m /\ c[m + 1] = Len(s) + 1
        /\ \A k \in 1 .. m : c[k] \in {} /\ Rank({}, c[k]) = k
    BY <1>2, <1>3, <2>1
  <2>3. /\ IsSequence(PartsBetween(s, {})) /\ Len(PartsBetween(s, {})) = m + 1
        /\ \A k \in 1 .. m + 1 :
             PartsBetween(s, {})[k] = SubSeq(s, c[k - 1] + 1, c[k] - 1)
    BY <2>1, <2>2, PartsAre
  <2>4. 1 \in 1 .. m + 1 /\ 1 - 1 = 0 /\ m + 1 = 1
    BY <1>3
  <2> QED
    BY <2>1, <2>3, <2>4
<1>5. SubSeq(s, 0 + 1, (Len(s) + 1) - 1) = s
  <2> DEFINE t == SubSeq(s, 0 + 1, (Len(s) + 1) - 1)
  <2>1. /\ IsSequence(t) /\ Len(t) = Len(s) /\ \A i \in 1 .. Len(s) : t[i] = s[i]
    <3>1. 0 + 1 = 1 /\ (Len(s) + 1) - 1 = Len(s)
      BY <1>1
    <3>2. /\ IsSequence(t) /\ Len(t) = IF 1 <= Len(s) THEN Len(s) - 1 + 1 ELSE 0
          /\ \A i \in 1 .. Len(s) - 1 + 1 : t[i] = s[1 + i - 1]
      BY <1>1, <3>1, SubSequence
    <3> HIDE DEF t
    <3> QED
      BY <1>1, <3>2
  <2> HIDE DEF t
  <2>2. DOMAIN t = 1 .. Len(s)
    BY <2>1, SequenceProperties
  <2>3. s = [i \in 1 .. Len(s) |-> s[i]] /\ t = [i \in 1 .. Len(s) |-> t[i]]
    BY <1>1, <2>1, <2>2, SequenceIsFunction
  <2>4. t = s
    BY <2>1, <2>3
  <2> QED
    BY <2>4 DEF t
<1>6. PartsBetween(s, {}) = <<s>>
  <2> DEFINE q == PartsBetween(s, {})
  <2>1. IsSequence(q) /\ Len(q) = 1 /\ q[1] = s
    BY <1>4, <1>5
  <2> HIDE DEF q
  <2>2. DOMAIN q = 1 .. 1
    BY <2>1, SequenceProperties
  <2>3. q = [k \in 1 .. 1 |-> q[k]]
    BY <2>1, <2>2, SequenceIsFunction
  <2>4. q = <<s>>
    BY <2>1, <2>3
  <2> QED
    BY <2>4 DEF q
<1> QED
  BY <1>2, <1>6 DEF Parts

LEMMA TwoParts ==
  ASSUME NEW s, IsSequence(s), NEW separators, NEW p \in DOMAIN s,
         s[p] \in separators, \A i \in DOMAIN s : s[i] \in separators => i = p,
         \A j \in 1 .. p - 1 : s[j] \notin {"(", "open", ")", "close"}
  PROVE  /\ IsSequence(Parts(s, separators)) /\ Len(Parts(s, separators)) = 2
         /\ Parts(s, separators)[1] = SubSeq(s, 1, p - 1)
         /\ Parts(s, separators)[2] = SubSeq(s, p + 1, Len(s))
<1> DEFINE cuts == {i \in DOMAIN s : s[i] \in separators /\ Depth(s, i) = 0}
<1>1. Len(s) \in Nat /\ DOMAIN s = 1 .. Len(s)
  BY SequenceProperties
<1>2. Depth(s, p) = 0
  <2>1. p - 1 \in 0 .. Len(s) /\ (p - 1) + 1 = p
    BY <1>1
  <2>2. Depth(s, (p - 1) + 1) = 0
    BY <2>1, NoDepth
  <2> QED
    BY <2>1, <2>2
<1>3. cuts = {p} /\ Cardinality({p}) = 1
  BY <1>2, FS_Singleton
<1>4. PICK m \in Nat : m = 1
  OBVIOUS
<1>5. p \in Nat /\ Rank({p}, p) = 1
  <2>1. {j \in {p} : j <= p} = {p} /\ p \in Nat
    BY <1>1
  <2> QED
    BY <1>3, <2>1 DEF Rank
<1> DEFINE c == [k \in 0 .. 2 |-> CASE k = 0 -> 0 [] k = 1 -> p [] OTHER -> Len(s) + 1]
<1>6. c[0] = 0 /\ c[1] = p /\ c[2] = Len(s) + 1
  OBVIOUS
<1> HIDE DEF c
<1>7. /\ {p} \in SUBSET (DOMAIN s) /\ Cardinality({p}) = m /\ c[m + 1] = Len(s) + 1
      /\ \A k \in 1 .. m : c[k] \in {p} /\ Rank({p}, c[k]) = k
  <2>1. m + 1 = 2 /\ \A k \in 1 .. m : k = 1
    BY <1>4
  <2> QED
    BY <1>3, <1>4, <1>5, <1>6, <2>1
<1>8. /\ IsSequence(PartsBetween(s, {p})) /\ Len(PartsBetween(s, {p})) = m + 1
      /\ \A k \in 1 .. m + 1 :
           PartsBetween(s, {p})[k] = SubSeq(s, c[k - 1] + 1, c[k] - 1)
  <2>1. PICK q \in SUBSET (DOMAIN s) : q = {p}
    BY <1>7
  <2>2. /\ Cardinality(q) = m /\ c[m + 1] = Len(s) + 1 /\ c[0] = 0
        /\ \A k \in 1 .. m : c[k] \in q /\ Rank(q, c[k]) = k
    BY <1>6, <1>7, <2>1
  <2>3. /\ IsSequence(PartsBetween(s, q)) /\ Len(PartsBetween(s, q)) = m + 1
        /\ \A k \in 1 .. m + 1 :
             PartsBetween(s, q)[k] = SubSeq(s, c[k - 1] + 1, c[k] - 1)
    BY <2>2, PartsAre
  <2> QED
    BY <2>1, <2>3
<1>9. /\ m + 1 = 2 /\ 1 \in 1 .. m + 1 /\ 2 \in 1 .. m + 1 /\ 1 - 1 = 0 /\ 2 - 1 = 1
      /\ 0 + 1 = 1 /\ (Len(s) + 1) - 1 = Len(s)
  BY <1>1, <1>4
<1>10. PartsBetween(s, {p})[1] = SubSeq(s, 0 + 1, p - 1)
  BY <1>6, <1>8, <1>9
<1>11. PartsBetween(s, {p})[2] = SubSeq(s, p + 1, (Len(s) + 1) - 1)
  BY <1>6, <1>8, <1>9
<1>12. Parts(s, separators) = PartsBetween(s, {p})
  BY <1>3 DEF Parts
<1> QED
  BY <1>8, <1>9, <1>10, <1>11, <1>12

(* Assertions that two plain operands are equal.                           *)
Plain == {"call", "braces", "want", "name", "message", "true"}
Equation(a, b) == <<"assert", a, "==", b>>

LEMMA EquationProperties ==
  ASSUME NEW a, NEW b
  PROVE  /\ IsSequence(Equation(a, b)) /\ Len(Equation(a, b)) = 4
         /\ DOMAIN Equation(a, b) = 1 .. 4
         /\ Equation(a, b)[1] = "assert" /\ Equation(a, b)[2] = a
         /\ Equation(a, b)[3] = "==" /\ Equation(a, b)[4] = b
BY DEF IsSequence, Equation

LEMMA EquationIsRewritten ==
  ASSUME NEW a \in Plain, NEW b \in Plain PROVE IsRewritten(Equation(a, b))
<1> DEFINE line == Equation(a, b)
<1>1. /\ Len(line) = 4 /\ line[1] = "assert" /\ line[2] = a /\ line[3] = "==" /\ line[4] = b
  BY EquationProperties
<1> HIDE DEF line
<1>2. LooksLikeEquality(line)
  <2>1. 3 \in 3 .. Len(line) - 1
    BY <1>1
  <2> QED
    BY <1>1, <2>1 DEF LooksLikeEquality
<1>3. ~ Contains(line, "and")
  <2>1. \A i \in 1 .. 4 : i = 1 \/ i = 2 \/ i = 3 \/ i = 4
    OBVIOUS
  <2>2. a # "and" /\ b # "and"
    BY DEF Plain
  <2> QED
    BY <1>1, <2>1, <2>2 DEF Contains
<1>4. ~ \E i \in 1 .. Len(line) - 2 :
          line[i] = "==" /\ line[i + 1] = "name" /\ line[i + 2] = ","
  <2>1. \A i \in 1 .. Len(line) - 2 : i = 1 \/ i = 2
    BY <1>1
  <2>2. b # "," /\ a # "=="
    BY DEF Plain
  <2>3. 2 + 1 = 3
    OBVIOUS
  <2> QED
    BY <1>1, <2>1, <2>2, <2>3
<1> QED
  BY <1>2, <1>3, <1>4 DEF IsRewritten, line

(* The line break before it, and the three lines it becomes.               *)
BlockOf(s, a, b) ==
  /\ IsSequence(s) /\ Len(s) = 15
  /\ s[1] = "newline" /\ s[2] = "actual=" /\ s[3] = a
  /\ s[4] = "newline" /\ s[5] = "expected=" /\ s[6] = b
  /\ s[7] = "newline" /\ s[8] = "assert" /\ s[9] = "actual"
  /\ s[10] = "==" /\ s[11] = "expected" /\ s[12] = ","
  /\ s[13] = "open" /\ s[14] = a /\ s[15] = "close"

LEMMA RewrittenEquation ==
  ASSUME NEW a \in Plain, NEW b \in Plain
  PROVE  BlockOf(<<"newline">> \o Rewritten(Equation(a, b)), a, b)
<1> DEFINE line == Equation(a, b)
           I == {i \in 3 .. Len(line) : line[i] = "=="}
           left == SubSeq(line, 2, 3 - 1)
           right == SubSeq(line, 3 + 1, Len(line))
           middle == <<"newline", "assert", "actual", "==", "expected", ",", "open">>
           u1 == <<"actual=">> \o left
           u2 == u1 \o <<"newline", "expected=">>
           u3 == u2 \o right
           u4 == u3 \o middle
           u5 == u4 \o left
           u6 == u5 \o <<"close">>
           u7 == <<"newline">> \o u6
<1>1. /\ IsSequence(line) /\ Len(line) = 4 /\ line[1] = "assert" /\ line[2] = a
      /\ line[3] = "==" /\ line[4] = b
  BY EquationProperties
<1>2. Min(I) = 3
  <2>1. 3 \in I /\ I \in SUBSET Nat /\ \A i \in I : 3 <= i
    BY <1>1
  <2> HIDE DEF I
  <2> QED
    BY <2>1, MinIs
<1>3. Rewritten(line) = u6
  BY <1>2 DEF Rewritten
<1>4. left = <<a>>
  <2>1. 2 \in 1 .. Len(line) /\ 3 - 1 = 2
    BY <1>1
  <2> HIDE DEF line
  <2>2. SubSeq(line, 2, 2) = <<line[2]>>
    BY <1>1, <2>1, OneToken
  <2> QED
    BY <1>1, <2>1, <2>2
<1>5. right = <<b>>
  <2>1. 4 \in 1 .. Len(line) /\ 3 + 1 = 4 /\ Len(line) = 4
    BY <1>1
  <2> HIDE DEF line
  <2>2. SubSeq(line, 4, 4) = <<line[4]>>
    BY <1>1, <2>1, OneToken
  <2> QED
    BY <1>1, <2>1, <2>2
<1>6. /\ IsSequence(middle) /\ Len(middle) = 7
      /\ IsSequence(<<"newline", "expected=">>) /\ Len(<<"newline", "expected=">>) = 2
  <2>1. \A p, q : IsSequence(<<p, q>>) /\ Len(<<p, q>>) = 2
    BY DEF IsSequence
  <2>2. \A p, q, r, t, v, w, x : /\ IsSequence(<<p, q, r, t, v, w, x>>)
                                 /\ Len(<<p, q, r, t, v, w, x>>) = 7
    BY DEF IsSequence
  <2> QED
    BY <2>1, <2>2
<1> HIDE DEF left, right, line
<1>7. IsSequence(u1) /\ Len(u1) = 2 /\ u1[1] = "actual=" /\ u1[2] = a
  <2>1. /\ IsSequence(<<"actual=">>) /\ Len(<<"actual=">>) = 1
        /\ IsSequence(left) /\ Len(left) = 1 /\ left[1] = a
    BY <1>4, ShortSequences
  <2>2. /\ IsSequence(u1) /\ Len(u1) = Len(<<"actual=">>) + Len(left)
        /\ \A i \in 1 .. Len(<<"actual=">>) + Len(left) :
             u1[i] = IF i <= Len(<<"actual=">>) THEN <<"actual=">>[i]
                     ELSE left[i - Len(<<"actual=">>)]
    BY <2>1, ConcatIsSequence
  <2> HIDE DEF u1
  <2>3. Len(<<"actual=">>) + Len(left) = 2
    BY <2>1
  <2>4. /\ u1[1] = <<"actual=">>[1] /\ u1[2] = left[2 - 1]
    BY <2>1, <2>2, <2>3
  <2> QED
    BY <2>1, <2>2, <2>3, <2>4
<1> HIDE DEF u1
<1>8. /\ IsSequence(u2) /\ Len(u2) = 4 /\ u2[1] = "actual=" /\ u2[2] = a
      /\ u2[3] = "newline" /\ u2[4] = "expected="
  <2> DEFINE v == <<"newline", "expected=">>
  <2>1. IsSequence(v) /\ Len(v) = 2 /\ v[1] = "newline" /\ v[2] = "expected="
    BY <1>6
  <2>2. u2 = u1 \o v
    OBVIOUS
  <2> HIDE DEF v, u2
  <2>3. /\ IsSequence(u2) /\ Len(u2) = Len(u1) + Len(v)
        /\ \A i \in 1 .. Len(u1) + Len(v) :
             u2[i] = IF i <= Len(u1) THEN u1[i] ELSE v[i - Len(u1)]
    BY <1>7, <2>1, <2>2, ConcatIsSequence
  <2> QED
    BY <1>7, <2>1, <2>3
<1> HIDE DEF u2
<1>9. /\ IsSequence(u3) /\ Len(u3) = 5 /\ u3[1] = "actual=" /\ u3[2] = a
      /\ u3[3] = "newline" /\ u3[4] = "expected=" /\ u3[5] = b
  <2>1. IsSequence(right) /\ Len(right) = 1 /\ right[1] = b
    BY <1>5, ShortSequences
  <2> HIDE DEF u3
  <2>3. /\ IsSequence(u3) /\ Len(u3) = Len(u2) + Len(right)
        /\ \A i \in 1 .. Len(u2) + Len(right) :
             u3[i] = IF i <= Len(u2) THEN u2[i] ELSE right[i - Len(u2)]
    BY <1>8, <2>1, ConcatIsSequence DEF u3
  <2> QED
    BY <1>8, <2>1, <2>3
<1> HIDE DEF u3
<1>10. /\ IsSequence(u4) /\ Len(u4) = 12 /\ u4[1] = "actual=" /\ u4[2] = a
       /\ u4[3] = "newline" /\ u4[4] = "expected=" /\ u4[5] = b
       /\ u4[6] = "newline" /\ u4[7] = "assert" /\ u4[8] = "actual"
       /\ u4[9] = "==" /\ u4[10] = "expected" /\ u4[11] = "," /\ u4[12] = "open"
  <2>1. /\ middle[1] = "newline" /\ middle[2] = "assert" /\ middle[3] = "actual"
        /\ middle[4] = "==" /\ middle[5] = "expected" /\ middle[6] = "," /\ middle[7] = "open"
    OBVIOUS
  <2> HIDE DEF u4, middle
  <2>3. /\ IsSequence(u4) /\ Len(u4) = Len(u3) + Len(middle)
        /\ \A i \in 1 .. Len(u3) + Len(middle) :
             u4[i] = IF i <= Len(u3) THEN u3[i] ELSE middle[i - Len(u3)]
    BY <1>6, <1>9, ConcatIsSequence DEF u4
  <2>4. Len(u4) = 12 /\ \A i \in 1 .. 12 : u4[i] = IF i <= 5 THEN u3[i] ELSE middle[i - 5]
    BY <1>6, <1>9, <2>3
  <2>5. /\ u4[1] = u3[1] /\ u4[2] = u3[2] /\ u4[3] = u3[3] /\ u4[4] = u3[4] /\ u4[5] = u3[5]
    BY <2>4
  <2>6. /\ u4[6] = middle[1] /\ u4[7] = middle[2] /\ u4[8] = middle[3] /\ u4[9] = middle[4]
        /\ u4[10] = middle[5] /\ u4[11] = middle[6] /\ u4[12] = middle[7]
    BY <2>4
  <2> QED
    BY <1>9, <2>1, <2>3, <2>4, <2>5, <2>6
<1> HIDE DEF u4
<1>11. /\ IsSequence(u5) /\ Len(u5) = 13 /\ \A i \in 1 .. 12 : u5[i] = u4[i]
       /\ u5[13] = a
  <2>1. IsSequence(left) /\ Len(left) = 1 /\ left[1] = a
    BY <1>4, ShortSequences
  <2> HIDE DEF u5
  <2>3. /\ IsSequence(u5) /\ Len(u5) = Len(u4) + Len(left)
        /\ \A i \in 1 .. Len(u4) + Len(left) :
             u5[i] = IF i <= Len(u4) THEN u4[i] ELSE left[i - Len(u4)]
    BY <1>10, <2>1, ConcatIsSequence DEF u5
  <2>4. Len(u5) = 13 /\ \A i \in 1 .. 13 : u5[i] = IF i <= 12 THEN u4[i] ELSE left[i - 12]
    <3>0. Len(u4) = 12 /\ Len(left) = 1
      BY <1>10, <2>1, Zenon
    <3>1. Len(u4) = 12 /\ Len(u4) + Len(left) = 13
      BY <3>0
    <3> QED
      BY <2>3, <3>1
  <2>5. u5[13] = left[1]
    BY <2>4
  <2>6. \A i \in 1 .. 12 : u5[i] = u4[i]
    BY <2>4
  <2> QED
    BY <2>1, <2>3, <2>4, <2>5, <2>6
<1> HIDE DEF u5
<1>12. /\ IsSequence(u6) /\ Len(u6) = 14 /\ \A i \in 1 .. 13 : u6[i] = u5[i]
       /\ u6[14] = "close"
  <2> DEFINE v == <<"close">>
  <2>1. IsSequence(v) /\ Len(v) = 1 /\ v[1] = "close"
    BY ShortSequences
  <2>2. u6 = u5 \o v
    OBVIOUS
  <2> HIDE DEF u6, v
  <2>3. /\ IsSequence(u6) /\ Len(u6) = Len(u5) + Len(v)
        /\ \A i \in 1 .. Len(u5) + Len(v) :
             u6[i] = IF i <= Len(u5) THEN u5[i] ELSE v[i - Len(u5)]
    BY <1>11, <2>1, <2>2, ConcatIsSequence
  <2> QED
    BY <1>11, <2>1, <2>3
<1> HIDE DEF u6
<1>13. /\ IsSequence(u7) /\ Len(u7) = 15 /\ u7[1] = "newline"
       /\ \A i \in 2 .. 15 : u7[i] = u6[i - 1]
  <2> DEFINE v == <<"newline">>
  <2>1. IsSequence(v) /\ Len(v) = 1 /\ v[1] = "newline"
    BY ShortSequences
  <2>2. u7 = v \o u6
    OBVIOUS
  <2> HIDE DEF u7, v
  <2>3. /\ IsSequence(u7) /\ Len(u7) = Len(v) + Len(u6)
        /\ \A i \in 1 .. Len(v) + Len(u6) :
             u7[i] = IF i <= Len(v) THEN v[i] ELSE u6[i - Len(v)]
    <3>1. IsSequence(u6) /\ IsSequence(v)
      BY <1>12, <2>1
    <3>2. /\ IsSequence(v \o u6) /\ Len(v \o u6) = Len(v) + Len(u6)
          /\ \A i \in 1 .. Len(v) + Len(u6) :
               (v \o u6)[i] = IF i <= Len(v) THEN v[i] ELSE u6[i - Len(v)]
      BY <3>1, ConcatIsSequence
    <3> QED
      BY <2>2, <3>2
  <2>4. Len(u7) = 15 /\ \A i \in 1 .. 15 : u7[i] = IF i <= 1 THEN v[i] ELSE u6[i - 1]
    BY <1>12, <2>1, <2>3
  <2>5. u7[1] = v[1] /\ \A i \in 2 .. 15 : u7[i] = u6[i - 1]
    BY <2>4
  <2> QED
    BY <2>1, <2>3, <2>4, <2>5
<1> HIDE DEF u7
<1>14. \A i \in 2 .. 13 : u7[i] = u4[i - 1]
  <2>1. \A i \in 2 .. 13 : i - 1 \in 1 .. 12 /\ i - 1 \in 1 .. 13 /\ i \in 2 .. 15
    OBVIOUS
  <2> QED
    BY <1>11, <1>12, <1>13, <2>1
<1>15. /\ u7[2] = u4[1] /\ u7[3] = u4[2] /\ u7[4] = u4[3] /\ u7[5] = u4[4]
       /\ u7[6] = u4[5] /\ u7[7] = u4[6] /\ u7[8] = u4[7] /\ u7[9] = u4[8]
       /\ u7[10] = u4[9] /\ u7[11] = u4[10] /\ u7[12] = u4[11] /\ u7[13] = u4[12]
  BY <1>14
<1>16. u7[14] = u5[13] /\ u7[15] = u6[14]
  BY <1>12, <1>13
<1>17. <<"newline">> \o Rewritten(line) = u7
  BY <1>3 DEF u7
<1>18. /\ IsSequence(u7) /\ Len(u7) = 15
       /\ u7[1] = "newline" /\ u7[2] = "actual=" /\ u7[3] = a
       /\ u7[4] = "newline" /\ u7[5] = "expected=" /\ u7[6] = b
       /\ u7[7] = "newline" /\ u7[8] = "assert" /\ u7[9] = "actual"
       /\ u7[10] = "==" /\ u7[11] = "expected" /\ u7[12] = ","
       /\ u7[13] = "open" /\ u7[14] = a /\ u7[15] = "close"
  BY <1>10, <1>11, <1>12, <1>13, <1>15, <1>16, ZenonT(40)
<1>19. BlockOf(u7, a, b)
  BY <1>18 DEF BlockOf
<1> QED
  BY <1>17, <1>19 DEF line

(* What becomes of a text of n equations, L[k] == R[k]: n blocks of three  *)
(* lines, where a line break stands before each but the first.             *)
Equations(text, n, L, R) ==
  /\ n \in Nat /\ n >= 1
  /\ IsSequence(Lines(text)) /\ Len(Lines(text)) = n
  /\ \A k \in 1 .. n : /\ L[k] \in Plain /\ R[k] \in Plain
                       /\ Lines(text)[k] = Equation(L[k], R[k])

Block(s, b, x, y) ==
  /\ s[b + 1] = "actual=" /\ s[b + 2] = x /\ s[b + 3] = "newline"
  /\ s[b + 4] = "expected=" /\ s[b + 5] = y /\ s[b + 6] = "newline"
  /\ s[b + 7] = "assert" /\ s[b + 8] = "actual" /\ s[b + 9] = "=="
  /\ s[b + 10] = "expected" /\ s[b + 11] = "," /\ s[b + 12] = "open"
  /\ s[b + 13] = x /\ s[b + 14] = "close"

Layout(s, n, L, R) ==
  /\ IsSequence(s) /\ Len(s) = 15 * n - 1
  /\ \A k \in 1 .. n : /\ Block(s, 15 * (k - 1), L[k], R[k])
                       /\ k > 1 => s[15 * (k - 1)] = "newline"

LEMMA EnhancedLayout ==
  ASSUME NEW text, NEW n, NEW L, NEW R, Equations(text, n, L, R)
  PROVE  Layout(Enhanced(text), n, L, R)
<1> DEFINE lines == Lines(text)
           new == [k \in DOMAIN lines |->
                     IF IsRewritten(lines[k]) THEN Rewritten(lines[k]) ELSE lines[k]]
           blocks == [k \in DOMAIN new |-> <<"newline">> \o new[k]]
           F == FlattenSeq(blocks)
           E == Tail(F)
           block(k) == <<"newline">> \o Rewritten(Equation(L[k], R[k]))
           T == {block(k) : k \in 1 .. n}
<1>1. Enhanced(text) = E
  BY DEF Enhanced
<1>2. n \in Nat /\ n >= 1 /\ DOMAIN lines = 1 .. n
  BY SequenceProperties DEF Equations
<1>3. ASSUME NEW k \in 1 .. n
      PROVE  /\ IsRewritten(lines[k]) /\ lines[k] = Equation(L[k], R[k])
             /\ L[k] \in Plain /\ R[k] \in Plain
  <2>1. L[k] \in Plain /\ R[k] \in Plain /\ lines[k] = Equation(L[k], R[k])
    BY DEF Equations
  <2> QED
    BY <2>1, EquationIsRewritten
<1> HIDE DEF lines
<1>4. DOMAIN blocks = 1 .. n /\ \A k \in 1 .. n : blocks[k] = block(k)
  BY <1>2, <1>3
<1> HIDE DEF block
<1>5. blocks = [k \in 1 .. n |-> block(k)]
  <2>1. blocks = [k \in DOMAIN blocks |-> blocks[k]]
    OBVIOUS
  <2> HIDE DEF blocks
  <2> QED
    BY <1>4, <2>1
<1> HIDE DEF blocks
<1>6. IsSequence(blocks) /\ Len(blocks) = n
  <2>1. blocks \in [1 .. n -> T]
    BY <1>5
  <2> HIDE DEF T
  <2>2. blocks \in Seq(T) /\ Len(blocks) = n
    BY <1>2, <2>1, FunctionIsSeq
  <2> QED
    BY <2>2, SeqIsSequence
<1>7. ASSUME NEW k \in 1 .. n PROVE BlockOf(block(k), L[k], R[k])
  BY <1>3, RewrittenEquation DEF block
<1>8. /\ IsSequence(F) /\ Len(F) = 15 * n
      /\ \A k \in 1 .. n, o \in 1 .. 15 : F[15 * (k - 1) + o] = block(k)[o]
  <2>1. \A k \in 1 .. n : IsSequence(blocks[k]) /\ Len(blocks[k]) = 15
    <3>1. ASSUME NEW k \in 1 .. n PROVE IsSequence(block(k)) /\ Len(block(k)) = 15
      BY <1>7, Zenon DEF BlockOf
    <3> QED
      BY <1>4, <3>1
  <2>2. /\ IsSequence(F) /\ Len(F) = 15 * n
        /\ \A k \in 1 .. n, o \in 1 .. 15 : F[15 * (k - 1) + o] = blocks[k][o]
    <3> HIDE DEF F
    <3>1. /\ IsSequence(FlattenSeq(blocks)) /\ Len(FlattenSeq(blocks)) = 15 * n
          /\ \A k \in 1 .. n, o \in 1 .. 15 :
               FlattenSeq(blocks)[15 * (k - 1) + o] = blocks[k][o]
      <4>1. n \in Nat /\ n >= 1 /\ IsSequence(blocks) /\ Len(blocks) = n
        BY <1>2, <1>6
      <4>2. IsSequence(FlattenSeq(blocks)) /\ Len(FlattenSeq(blocks)) = 15 * n
        BY <4>1, <2>1, FlattenBlocks
      <4>3. ASSUME NEW k \in 1 .. n, NEW o \in 1 .. 15
            PROVE  FlattenSeq(blocks)[15 * (k - 1) + o] = blocks[k][o]
        BY <4>1, <2>1, FlattenBlocks, ZenonT(40)
      <4> QED
        BY <4>2, <4>3
    <3> QED
      BY <3>1 DEF F
  <2> HIDE DEF F
  <2> QED
    BY <1>4, <2>2
<1> HIDE DEF F
<1>9. /\ IsSequence(E) /\ Len(E) = 15 * n - 1
      /\ \A i \in 1 .. 15 * n - 1 : E[i] = F[i + 1]
  <2>1. 15 * n >= 1
    BY <1>2
  <2> QED
    BY <1>8, <2>1, TailIs
<1> HIDE DEF E
<1>10. ASSUME NEW k \in 1 .. n, NEW o \in 1 .. 14
       PROVE  E[15 * (k - 1) + o] = block(k)[o + 1]
  <2>1. /\ 15 * (k - 1) + o \in 1 .. 15 * n - 1 /\ o + 1 \in 1 .. 15
        /\ (15 * (k - 1) + o) + 1 = 15 * (k - 1) + (o + 1)
    BY <1>2
  <2> QED
    BY <1>8, <1>9, <2>1
<1>11. ASSUME NEW k \in 1 .. n, k > 1 PROVE E[15 * (k - 1)] = block(k)[1]
  <2>1. /\ 15 * (k - 1) \in 1 .. 15 * n - 1 /\ 1 \in 1 .. 15
    BY <1>2, <1>11
  <2> QED
    BY <1>8, <1>9, <2>1
<1>12. ASSUME NEW k \in 1 .. n
       PROVE  /\ Block(E, 15 * (k - 1), L[k], R[k])
              /\ k > 1 => E[15 * (k - 1)] = "newline"
  <2> DEFINE b == block(k)
  <2>1. /\ E[15 * (k - 1) + 1] = b[2] /\ E[15 * (k - 1) + 2] = b[3]
        /\ E[15 * (k - 1) + 3] = b[4] /\ E[15 * (k - 1) + 4] = b[5]
        /\ E[15 * (k - 1) + 5] = b[6] /\ E[15 * (k - 1) + 6] = b[7]
        /\ E[15 * (k - 1) + 7] = b[8] /\ E[15 * (k - 1) + 8] = b[9]
        /\ E[15 * (k - 1) + 9] = b[10] /\ E[15 * (k - 1) + 10] = b[11]
        /\ E[15 * (k - 1) + 11] = b[12] /\ E[15 * (k - 1) + 12] = b[13]
        /\ E[15 * (k - 1) + 13] = b[14] /\ E[15 * (k - 1) + 14] = b[15]
    <3>1. \A o \in 1 .. 14 : E[15 * (k - 1) + o] = b[o + 1]
      BY <1>10
    <3> HIDE DEF b
    <3> QED
      BY <3>1
  <2>2. k > 1 => E[15 * (k - 1)] = b[1]
    BY <1>11
  <2>3. BlockOf(b, L[k], R[k])
    BY <1>7
  <2> HIDE DEF b
  <2>4. /\ b[1] = "newline" /\ b[2] = "actual=" /\ b[3] = L[k]
        /\ b[4] = "newline" /\ b[5] = "expected=" /\ b[6] = R[k]
        /\ b[7] = "newline" /\ b[8] = "assert" /\ b[9] = "actual"
        /\ b[10] = "==" /\ b[11] = "expected" /\ b[12] = ","
        /\ b[13] = "open" /\ b[14] = L[k] /\ b[15] = "close"
    BY <2>3, Zenon DEF BlockOf
  <2>5. Block(E, 15 * (k - 1), L[k], R[k])
    <3> DEFINE p == 15 * (k - 1)
    <3>1. /\ E[p + 1] = b[2] /\ E[p + 2] = b[3] /\ E[p + 3] = b[4] /\ E[p + 4] = b[5]
          /\ E[p + 5] = b[6] /\ E[p + 6] = b[7] /\ E[p + 7] = b[8] /\ E[p + 8] = b[9]
          /\ E[p + 9] = b[10] /\ E[p + 10] = b[11] /\ E[p + 11] = b[12]
          /\ E[p + 12] = b[13] /\ E[p + 13] = b[14] /\ E[p + 14] = b[15]
      BY <2>1
    <3> HIDE DEF p
    <3>2. Block(E, p, L[k], R[k])
      BY <2>4, <3>1, ZenonT(40) DEF Block
    <3> QED
      BY <3>2 DEF p
  <2> QED
    BY <2>2, <2>4, <2>5
<1>13. Layout(E, n, L, R)
  BY <1>9, <1>12, Zenon DEF Layout
<1> QED
  BY <1>1, <1>13

(* Which tokens stand where.                                               *)
LEMMA LayoutTokens ==
  ASSUME NEW s, NEW n \in Nat, n >= 1, NEW L, NEW R, Layout(s, n, L, R),
         \A k \in 1 .. n : L[k] \in Plain /\ R[k] \in Plain,
         NEW p \in 1 .. 15 * n - 1
  PROVE  /\ s[p] \in {"(", "open"} <=> p % 15 = 12
         /\ s[p] \in {")", "close"} <=> p % 15 = 14
         /\ s[p] \in {"newline", ";"} <=> p % 15 \in {0, 3, 6}
<1>1. PICK k \in 1 .. n, o \in 1 .. 15 : p = 15 * (k - 1) + o
  <2>1. p \in 1 .. 15 * n
    OBVIOUS
  <2> QED
    BY <2>1, PlaceInBlock
<1>2. L[k] \in Plain /\ R[k] \in Plain
  OBVIOUS
<1>3. ASSUME NEW a, a \in Plain
      PROVE  /\ a \notin {"(", "open"} /\ a \notin {")", "close"} /\ a \notin {"newline", ";"}
  BY <1>3 DEF Plain
<1>4. p % 15 = IF o = 15 THEN 0 ELSE o
  BY <1>1
<1> DEFINE b == 15 * (k - 1)
<1>5. /\ s[b + 1] = "actual=" /\ s[b + 2] = L[k] /\ s[b + 3] = "newline"
      /\ s[b + 4] = "expected=" /\ s[b + 5] = R[k] /\ s[b + 6] = "newline"
      /\ s[b + 7] = "assert" /\ s[b + 8] = "actual" /\ s[b + 9] = "=="
      /\ s[b + 10] = "expected" /\ s[b + 11] = "," /\ s[b + 12] = "open"
      /\ s[b + 13] = L[k] /\ s[b + 14] = "close"
  <2>1. Block(s, b, L[k], R[k])
    BY DEF Layout
  <2> HIDE DEF b
  <2> QED
    BY <2>1, Zenon DEF Block
<1> DEFINE Kind(t) == IF t \in {"(", "open"} THEN 1 ELSE IF t \in {")", "close"} THEN 2
                      ELSE IF t \in {"newline", ";"} THEN 3 ELSE 0
<1>6. /\ Kind("actual=") = 0 /\ Kind("newline") = 3 /\ Kind("expected=") = 0
      /\ Kind("assert") = 0 /\ Kind("actual") = 0 /\ Kind("==") = 0
      /\ Kind("expected") = 0 /\ Kind(",") = 0 /\ Kind("open") = 1 /\ Kind("close") = 2
      /\ Kind(L[k]) = 0 /\ Kind(R[k]) = 0
  BY <1>2, <1>3
<1>7. \A t : /\ t \in {"(", "open"} <=> Kind(t) = 1
             /\ t \in {")", "close"} <=> Kind(t) = 2
             /\ t \in {"newline", ";"} <=> Kind(t) = 3
  <2> SUFFICES ASSUME NEW t
               PROVE  /\ t \in {"(", "open"} <=> Kind(t) = 1
                      /\ t \in {")", "close"} <=> Kind(t) = 2
                      /\ t \in {"newline", ";"} <=> Kind(t) = 3
    OBVIOUS
  <2>1. /\ t \in {"(", "open"} => t \notin {")", "close"} /\ t \notin {"newline", ";"}
        /\ t \in {")", "close"} => t \notin {"newline", ";"}
    OBVIOUS
  <2>2. t \in {"(", "open"} => Kind(t) = 1
    OBVIOUS
  <2>3. t \in {")", "close"} => Kind(t) = 2
    BY <2>1
  <2>4. t \in {"newline", ";"} => Kind(t) = 3
    BY <2>1
  <2>5. t \notin {"(", "open"} /\ t \notin {")", "close"} /\ t \notin {"newline", ";"} => Kind(t) = 0
    OBVIOUS
  <2> HIDE DEF Kind
  <2>6. 1 # 2 /\ 1 # 3 /\ 2 # 3 /\ 0 # 1 /\ 0 # 2 /\ 0 # 3
    OBVIOUS
  <2> QED
    BY <2>2, <2>3, <2>4, <2>5, <2>6, Zenon
<1> HIDE DEF Kind, b
<1>8. Kind(s[p]) = IF o = 12 THEN 1 ELSE IF o = 14 THEN 2
                   ELSE IF o \in {3, 6, 15} THEN 3 ELSE 0
  <2>1. CASE o = 15
    <3>1. k + 1 \in 1 .. n /\ k + 1 > 1 /\ p = 15 * ((k + 1) - 1)
      BY <1>1, <2>1
    <3>2. s[p] = "newline"
      BY <3>1 DEF Layout
    <3>3. Kind(s[p]) = 3
      BY <1>6, <3>2, Zenon
    <3>4. o # 12 /\ o # 14 /\ o \in {3, 6, 15}
      BY <2>1
    <3> QED
      BY <3>3, <3>4
  <2>2. CASE o \in 1 .. 7
    <3>1. \/ o = 1 \/ o = 2 \/ o = 3 \/ o = 4 \/ o = 5 \/ o = 6 \/ o = 7
      BY <2>2
    <3>2. s[p] = s[b + o]
      BY <1>1 DEF b
    <3>3. /\ Kind(s[b + 1]) = 0 /\ Kind(s[b + 2]) = 0 /\ Kind(s[b + 3]) = 3
          /\ Kind(s[b + 4]) = 0 /\ Kind(s[b + 5]) = 0 /\ Kind(s[b + 6]) = 3
          /\ Kind(s[b + 7]) = 0
      BY <1>5, <1>6, Zenon
    <3> QED
      BY <3>1, <3>2, <3>3
  <2>3. CASE o \in 8 .. 14
    <3>1. \/ o = 8 \/ o = 9 \/ o = 10 \/ o = 11 \/ o = 12 \/ o = 13 \/ o = 14
      BY <2>3
    <3>2. s[p] = s[b + o]
      BY <1>1 DEF b
    <3>3. /\ Kind(s[b + 8]) = 0 /\ Kind(s[b + 9]) = 0 /\ Kind(s[b + 10]) = 0
          /\ Kind(s[b + 11]) = 0 /\ Kind(s[b + 12]) = 1 /\ Kind(s[b + 13]) = 0
          /\ Kind(s[b + 14]) = 2
      BY <1>5, <1>6, Zenon
    <3> QED
      BY <3>1, <3>2, <3>3
  <2> QED
    BY <2>1, <2>2, <2>3
<1>9. /\ Kind(s[p]) = 1 <=> p % 15 = 12
      /\ Kind(s[p]) = 2 <=> p % 15 = 14
      /\ Kind(s[p]) = 3 <=> p % 15 \in {0, 3, 6}
  BY <1>4, <1>8
<1> QED
  BY <1>7, <1>9

(* The only brackets are the quotes of the messages.                       *)
LEMMA LayoutDepth ==
  ASSUME NEW s, NEW n \in Nat, n >= 1, NEW L, NEW R, Layout(s, n, L, R),
         \A k \in 1 .. n : L[k] \in Plain /\ R[k] \in Plain,
         NEW i \in 0 .. 15 * n - 1
  PROVE  Depth(s, i + 1) = ((i + 3) \div 15) - ((i + 1) \div 15)
<1> DEFINE opens == {j \in DOMAIN s : s[j] \in {"(", "open"}}
           closes == {j \in DOMAIN s : s[j] \in {")", "close"}}
<1>1. PICK m \in Nat : m = 15 * n - 1
  OBVIOUS
<1>2. IsSequence(s) /\ Len(s) = m /\ DOMAIN s = 1 .. m
  BY <1>1, SequenceProperties DEF Layout
<1>3. \A j \in 1 .. m : /\ s[j] \in {"(", "open"} <=> j % 15 = 12
                        /\ s[j] \in {")", "close"} <=> j % 15 = 14
  BY <1>1, LayoutTokens
<1>4. /\ opens \in SUBSET (1 .. m) /\ closes \in SUBSET (1 .. m)
      /\ \A j \in 1 .. m : (j \in opens <=> j % 15 = 12) /\ (j \in closes <=> j % 15 = 14)
  BY <1>2, <1>3
<1>5. i \in 0 .. m
  BY <1>1
<1>6. Depth(s, i + 1) = Rank(opens, i) - Rank(closes, i)
  BY <1>2, <1>5, DepthIs
<1> HIDE DEF opens, closes
<1>7. Rank(opens, i) = (i + 3) \div 15
  <2> DEFINE f == [j \in 0 .. m |-> (j + 3) \div 15]
  <2>1. f \in [0 .. m -> Nat] /\ f[0] = 0
    OBVIOUS
  <2>2. ASSUME NEW j \in 1 .. m PROVE f[j] = f[j - 1] + IF j \in opens THEN 1 ELSE 0
    <3>1. j - 1 \in 0 .. m /\ j \in 0 .. m
      OBVIOUS
    <3>2. (j + 3) \div 15 = (((j - 1) + 3) \div 15) + IF j % 15 = 12 THEN 1 ELSE 0
      OBVIOUS
    <3> QED
      BY <1>4, <3>1, <3>2
  <2> HIDE DEF f
  <2>3. \A j \in 0 .. m : Rank(opens, j) = f[j]
    BY <1>4, <2>1, <2>2, RankIs
  <2> QED
    BY <1>5, <2>3 DEF f
<1>8. Rank(closes, i) = (i + 1) \div 15
  <2> DEFINE f == [j \in 0 .. m |-> (j + 1) \div 15]
  <2>1. f \in [0 .. m -> Nat] /\ f[0] = 0
    OBVIOUS
  <2>2. ASSUME NEW j \in 1 .. m PROVE f[j] = f[j - 1] + IF j \in closes THEN 1 ELSE 0
    <3>1. j - 1 \in 0 .. m /\ j \in 0 .. m
      OBVIOUS
    <3>2. (j + 1) \div 15 = (((j - 1) + 1) \div 15) + IF j % 15 = 14 THEN 1 ELSE 0
      OBVIOUS
    <3> QED
      BY <1>4, <3>1, <3>2
  <2> HIDE DEF f
  <2>3. \A j \in 0 .. m : Rank(closes, j) = f[j]
    BY <1>4, <2>1, <2>2, RankIs
  <2> QED
    BY <1>5, <2>3 DEF f
<1> QED
  BY <1>6, <1>7, <1>8

(* Where the lines end, each of which is a statement.                      *)
Message(x) == <<"assert", "actual", "==", "expected", ",", "open", x, "close">>

Triples(sts, n, L, R) ==
  /\ n \in Nat /\ n >= 1
  /\ IsSequence(sts) /\ Len(sts) = 3 * n
  /\ \A k \in 1 .. n : /\ L[k] \in Plain /\ R[k] \in Plain
                       /\ sts[3 * (k - 1) + 1] = <<"actual=", L[k]>>
                       /\ sts[3 * (k - 1) + 2] = <<"expected=", R[k]>>
                       /\ sts[3 * (k - 1) + 3] = Message(L[k])

LEMMA LayoutStatements ==
  ASSUME NEW s, NEW n \in Nat, n >= 1, NEW L, NEW R, Layout(s, n, L, R),
         \A k \in 1 .. n : L[k] \in Plain /\ R[k] \in Plain
  PROVE  Triples(Statements(s), n, L, R)
<1> DEFINE cuts == {i \in DOMAIN s : s[i] \in {"newline", ";"} /\ Depth(s, i) = 0}
           f == [j \in 0 .. 15 * n - 1 |->
                   3 * (j \div 15) + (IF j % 15 >= 6 THEN 2 ELSE IF j % 15 >= 3 THEN 1 ELSE 0)]
           c == [j \in 0 .. 3 * n |-> 15 * (j \div 3) + 3 * (j % 3)]
           parts == PartsBetween(s, cuts)
<1>1. PICK m \in Nat : m = 15 * n - 1
  OBVIOUS
<1>2. IsSequence(s) /\ Len(s) = m /\ DOMAIN s = 1 .. m
  <2>1. IsSequence(s) /\ Len(s) = 15 * n - 1
    BY Zenon DEF Layout
  <2> QED
    BY <1>1, <2>1, SequenceProperties
<1>3. ASSUME NEW i \in 1 .. m PROVE i \in cuts <=> i % 15 \in {0, 3, 6}
  <2>1. s[i] \in {"newline", ";"} <=> i % 15 \in {0, 3, 6}
    BY <1>1, LayoutTokens
  <2>2. Depth(s, i) = ((i + 2) \div 15) - (i \div 15)
    <3>1. PICK j \in 0 .. 15 * n - 1 : i = j + 1
      <4>1. i - 1 \in 0 .. 15 * n - 1 /\ i = (i - 1) + 1
        BY <1>1
      <4> QED
        BY <4>1
    <3>2. Depth(s, j + 1) = ((j + 3) \div 15) - ((j + 1) \div 15)
      BY LayoutDepth
    <3>3. j + 3 = i + 2
      BY <3>1
    <3> QED
      BY <3>1, <3>2, <3>3
  <2>3. i % 15 \in {0, 3, 6} => ((i + 2) \div 15) - (i \div 15) = 0
    OBVIOUS
  <2> QED
    BY <1>2, <2>1, <2>2, <2>3
<1>4. cuts \in SUBSET (DOMAIN s) /\ cuts \in SUBSET (1 .. m)
  BY <1>2
<1> HIDE DEF cuts
<1>5. \A j \in 0 .. m : Rank(cuts, j) = f[j]
  <2>1. f \in [0 .. m -> Nat] /\ f[0] = 0
    BY <1>1
  <2>2. ASSUME NEW j \in 1 .. m PROVE f[j] = f[j - 1] + IF j \in cuts THEN 1 ELSE 0
    <3>1. j - 1 \in 0 .. 15 * n - 1 /\ j \in 0 .. 15 * n - 1
      BY <1>1
    <3>2. f[j] = f[j - 1] + IF j % 15 \in {0, 3, 6} THEN 1 ELSE 0
      BY <3>1
    <3> QED
      BY <1>3, <3>2
  <2> HIDE DEF f
  <2> QED
    BY <1>4, <2>1, <2>2, RankIs
<1>6. PICK d \in Nat : d = 3 * n - 1 /\ d + 1 = 3 * n
  <2>1. 3 * n - 1 \in Nat /\ (3 * n - 1) + 1 = 3 * n
    OBVIOUS
  <2> QED
    BY <2>1
<1>7. Cardinality(cuts) = d
  <2>1. Rank(cuts, m) = Cardinality(cuts)
    BY <1>4, RankProperties
  <2>2. f[m] = 3 * n - 1
    BY <1>1
  <2> HIDE DEF f
  <2> QED
    BY <1>5, <1>6, <2>1, <2>2
<1>8. /\ c[0] = 0 /\ c[d + 1] = Len(s) + 1
  BY <1>1, <1>2, <1>6
<1>9. ASSUME NEW j \in 1 .. d PROVE c[j] \in cuts /\ Rank(cuts, c[j]) = j
  <2>1. /\ c[j] = 15 * (j \div 3) + 3 * (j % 3) /\ j \in 1 .. 3 * n - 1
    BY <1>6
  <2>2. c[j] \in 1 .. m /\ c[j] % 15 = 3 * (j % 3) /\ c[j] \div 15 = j \div 3
    <3>1. PICK q \in Nat, r \in 0 .. 2 : q = j \div 3 /\ r = j % 3 /\ j = 3 * q + r
      OBVIOUS
    <3>2. c[j] = 15 * q + 3 * r /\ 3 * q + r \in 1 .. 3 * n - 1
      BY <2>1, <3>1
    <3>3. /\ 15 * q + 3 * r \in 1 .. 15 * n - 1 /\ (15 * q + 3 * r) % 15 = 3 * r
          /\ (15 * q + 3 * r) \div 15 = q
      BY <3>2
    <3> HIDE DEF c
    <3> QED
      BY <1>1, <3>1, <3>2, <3>3
  <2> HIDE DEF c
  <2>3. c[j] % 15 \in {0, 3, 6}
    BY <2>1, <2>2
  <2>4. f[c[j]] = j
    BY <1>1, <2>1, <2>2
  <2> HIDE DEF f
  <2> QED
    BY <1>3, <1>5, <2>2, <2>3, <2>4
<1>10. /\ IsSequence(parts) /\ Len(parts) = d + 1
       /\ \A k \in 1 .. d + 1 : parts[k] = SubSeq(s, c[k - 1] + 1, c[k] - 1)
  <2> HIDE DEF c
  <2> QED
    BY <1>2, <1>4, <1>7, <1>8, <1>9, PartsAre, ZenonT(40)
<1>11. Statements(s) = parts
  BY DEF Statements, Parts, cuts
<1> HIDE DEF parts
<1>12. ASSUME NEW k \in 1 .. n
       PROVE  /\ parts[3 * (k - 1) + 1] = SubSeq(s, 15 * (k - 1) + 1, 15 * (k - 1) + 2)
              /\ parts[3 * (k - 1) + 2] = SubSeq(s, 15 * (k - 1) + 4, 15 * (k - 1) + 5)
              /\ parts[3 * (k - 1) + 3] = SubSeq(s, 15 * (k - 1) + 7, 15 * (k - 1) + 14)
  <2>1. /\ 3 * (k - 1) + 1 \in 1 .. d + 1 /\ 3 * (k - 1) + 2 \in 1 .. d + 1
        /\ 3 * (k - 1) + 3 \in 1 .. d + 1
        /\ (3 * (k - 1) + 1) - 1 = 3 * (k - 1) /\ (3 * (k - 1) + 2) - 1 = 3 * (k - 1) + 1
        /\ (3 * (k - 1) + 3) - 1 = 3 * (k - 1) + 2
    BY <1>6
  <2>2. /\ c[3 * (k - 1)] = 15 * (k - 1) /\ c[3 * (k - 1) + 1] = 15 * (k - 1) + 3
        /\ c[3 * (k - 1) + 2] = 15 * (k - 1) + 6 /\ c[3 * (k - 1) + 3] = 15 * (k - 1) + 15
    OBVIOUS
  <2> HIDE DEF c
  <2>3. /\ (15 * (k - 1) + 3) - 1 = 15 * (k - 1) + 2
        /\ (15 * (k - 1) + 3) + 1 = 15 * (k - 1) + 4
        /\ (15 * (k - 1) + 6) - 1 = 15 * (k - 1) + 5
        /\ (15 * (k - 1) + 6) + 1 = 15 * (k - 1) + 7
        /\ (15 * (k - 1) + 15) - 1 = 15 * (k - 1) + 14
    OBVIOUS
  <2> QED
    BY <1>10, <2>1, <2>2, <2>3, ZenonT(40)
<1> HIDE DEF c, f
<1>13. ASSUME NEW k \in 1 .. n
       PROVE  /\ parts[3 * (k - 1) + 1] = <<"actual=", L[k]>>
              /\ parts[3 * (k - 1) + 2] = <<"expected=", R[k]>>
              /\ parts[3 * (k - 1) + 3] = Message(L[k])
  <2>1. PICK b \in Nat : b = 15 * (k - 1) /\ b + 14 <= Len(s)
    <3>1. 15 * (k - 1) \in Nat /\ 15 * (k - 1) + 14 <= Len(s)
      BY <1>1, <1>2
    <3> QED
      BY <3>1
  <2>2. Block(s, b, L[k], R[k])
    BY <2>1 DEF Layout
  <2>3. /\ s[b + 1] = "actual=" /\ s[b + 2] = L[k]
        /\ s[b + 4] = "expected=" /\ s[b + 5] = R[k]
        /\ s[b + 7] = "assert" /\ s[b + 8] = "actual" /\ s[b + 9] = "=="
        /\ s[b + 10] = "expected" /\ s[b + 11] = "," /\ s[b + 12] = "open"
        /\ s[b + 13] = L[k] /\ s[b + 14] = "close"
    BY <2>2, Zenon DEF Block
  <2>4. SubSeq(s, b + 1, b + 2) = <<s[b + 1], s[b + 2]>>
    <3>1. b + 1 \in Nat /\ b + 2 <= Len(s) /\ b + 2 = (b + 1) + 1 /\ b + 1 >= 1
      BY <1>2, <2>1
    <3> QED
      BY <1>2, <3>1, TwoTokens
  <2>5. SubSeq(s, b + 4, b + 5) = <<s[b + 4], s[b + 5]>>
    <3>1. b + 4 \in Nat /\ b + 5 <= Len(s) /\ b + 5 = (b + 4) + 1 /\ b + 4 >= 1
      BY <1>2, <2>1
    <3> QED
      BY <1>2, <3>1, TwoTokens
  <2>6. SubSeq(s, b + 7, b + 14)
          = <<s[b + 7], s[b + 8], s[b + 9], s[b + 10], s[b + 11], s[b + 12], s[b + 13], s[b + 14]>>
    <3> DEFINE t == SubSeq(s, b + 7, b + 14)
    <3>1. b + 7 \in Nat /\ b + 14 \in Nat /\ b + 14 <= Len(s) /\ 1 <= b + 7
      BY <1>2, <2>1
    <3>2. /\ IsSequence(t)
          /\ Len(t) = IF b + 7 <= b + 14 THEN (b + 14) - (b + 7) + 1 ELSE 0
          /\ \A i \in 1 .. (b + 14) - (b + 7) + 1 : t[i] = s[(b + 7) + i - 1]
      BY <1>2, <3>1, SubSequence
    <3> HIDE DEF t
    <3>3. Len(t) = 8 /\ \A i \in 1 .. 8 : t[i] = s[b + (6 + i)]
      BY <3>2
    <3>4. /\ t[1] = s[b + 7] /\ t[2] = s[b + 8] /\ t[3] = s[b + 9] /\ t[4] = s[b + 10]
          /\ t[5] = s[b + 11] /\ t[6] = s[b + 12] /\ t[7] = s[b + 13] /\ t[8] = s[b + 14]
      BY <3>3
    <3>5. t = <<t[1], t[2], t[3], t[4], t[5], t[6], t[7], t[8]>>
      BY <3>2, <3>3, ShortSequences
    <3> QED
      BY <3>4, <3>5 DEF t
  <2>7. /\ parts[3 * (k - 1) + 1] = SubSeq(s, b + 1, b + 2)
        /\ parts[3 * (k - 1) + 2] = SubSeq(s, b + 4, b + 5)
        /\ parts[3 * (k - 1) + 3] = SubSeq(s, b + 7, b + 14)
    BY <1>12, <2>1
  <2> QED
    BY <2>3, <2>4, <2>5, <2>6, <2>7 DEF Message
<1>14. IsSequence(parts) /\ Len(parts) = 3 * n
  BY <1>6, <1>10
<1>15. Triples(parts, n, L, R)
  BY <1>13, <1>14, Zenon DEF Triples
<1> QED
  BY <1>11, <1>15

LEMMA TokenInPart ==
  ASSUME NEW s, IsSequence(s), NEW cuts \in SUBSET (DOMAIN s), NEW i \in DOMAIN s,
         i \notin cuts
  PROVE  \E k \in 1 .. Len(PartsBetween(s, cuts)) :
           \E o \in 1 .. Len(PartsBetween(s, cuts)[k]) : PartsBetween(s, cuts)[k][o] = s[i]
<1>1. PICK l \in Nat : l = Len(s) /\ DOMAIN s = 1 .. l
  BY SequenceProperties
<1>2. PICK m \in Nat : m = Cardinality(cuts)
  BY <1>1, RankProperties
<1> DEFINE c == [k \in 0 .. m + 1 |-> CASE k = 0 -> 0 [] k = m + 1 -> l + 1
                                         [] OTHER -> Nth(cuts, k)]
<1>3. /\ c[0] = 0 /\ c[m + 1] = Len(s) + 1
      /\ \A k \in 1 .. m : c[k] = Nth(cuts, k)
  <2>1. m + 1 # 0 /\ \A k \in 1 .. m : k # 0 /\ k # m + 1 /\ k \in 0 .. m + 1
    OBVIOUS
  <2> QED
    BY <1>1, <2>1
<1> HIDE DEF c
<1>4. \A k \in 1 .. m : c[k] \in cuts /\ Rank(cuts, c[k]) = k
  <2>1. \A k \in 1 .. m : Nth(cuts, k) \in cuts /\ Rank(cuts, Nth(cuts, k)) = k
    <3>1. cuts \in SUBSET (1 .. l)
      BY <1>1
    <3> QED
      BY <1>2, <3>1, NthIsAPlace
  <2> QED
    BY <1>3, <2>1
<1> DEFINE parts == PartsBetween(s, cuts)
<1>5. /\ Len(parts) = m + 1
      /\ \A k \in 1 .. m + 1 : parts[k] = SubSeq(s, c[k - 1] + 1, c[k] - 1)
  <2>1. Cardinality(cuts) = m /\ c[0] = 0 /\ c[m + 1] = Len(s) + 1
    BY <1>2, <1>3
  <2>2. /\ Len(PartsBetween(s, cuts)) = m + 1
        /\ \A k \in 1 .. m + 1 :
             PartsBetween(s, cuts)[k] = SubSeq(s, c[k - 1] + 1, c[k] - 1)
    BY <1>4, <2>1, PartsAre
  <2> QED
    BY <2>2
<1> HIDE DEF parts
<1>6. PICK r \in 0 .. m : r = Rank(cuts, i)
  <2>1. cuts \in SUBSET (1 .. l) /\ i \in 0 .. l
    BY <1>1
  <2>2. Rank(cuts, i) \in 0 .. Cardinality(cuts)
    BY <2>1, RankProperties
  <2> QED
    BY <1>2, <2>2
<1>7. c[r] \in Nat /\ c[r] < i /\ i \in 1 .. l
  <2>1. CASE r = 0
    BY <1>1, <1>3, <2>1
  <2>2. CASE r \in 1 .. m
    <3>1. c[r] \in cuts /\ Rank(cuts, c[r]) = Rank(cuts, i) /\ c[r] \in 1 .. l
      BY <1>1, <1>4, <1>6, <2>2
    <3>2. ~ (i < c[r])
      <4>1. ASSUME i < c[r] PROVE FALSE
        <5>1. Rank(cuts, i) < Rank(cuts, c[r])
          <6>1. i \in 0 .. l /\ c[r] \in 0 .. l /\ i <= c[r]
            BY <1>1, <3>1, <4>1
          <6> QED
            BY <1>1, <3>1, <4>1, <6>1, RankIsMonotone
        <5> QED
          BY <1>6, <3>1, <5>1
      <4> QED
        BY <4>1
    <3> QED
      BY <1>1, <3>1, <3>2
  <2> QED
    BY <2>1, <2>2
<1>8. c[r + 1] \in Nat /\ i < c[r + 1] /\ c[r + 1] - 1 <= l
  <2>1. CASE r = m
    BY <1>1, <1>3, <2>1
  <2>2. CASE r # m
    <3>1. r + 1 \in 1 .. m
      BY <2>2
    <3>2. c[r + 1] \in cuts /\ Rank(cuts, c[r + 1]) = Rank(cuts, i) + 1 /\ c[r + 1] \in 1 .. l
      BY <1>1, <1>4, <1>6, <3>1
    <3>3. ~ (c[r + 1] <= i)
      <4>1. ASSUME c[r + 1] <= i PROVE FALSE
        <5>1. i \in 0 .. l /\ c[r + 1] \in 0 .. l
          BY <1>1, <3>2
        <5>2. Rank(cuts, c[r + 1]) <= Rank(cuts, i)
          BY <1>1, <4>1, <5>1, RankIsMonotone
        <5> QED
          BY <1>6, <3>2, <5>2
      <4> QED
        BY <4>1
    <3> QED
      BY <1>1, <3>2, <3>3
  <2> QED
    BY <2>1, <2>2
<1> DEFINE a == c[r] + 1
           b == c[r + 1] - 1
           o == i - c[r]
<1>9. /\ a \in Nat /\ b \in Nat /\ 1 <= a /\ b <= l /\ a <= b
      /\ o \in 1 .. b - a + 1 /\ a + o - 1 = i
  BY <1>7, <1>8
<1>10. r + 1 \in 1 .. m + 1 /\ (r + 1) - 1 = r
  OBVIOUS
<1>11. parts[r + 1] = SubSeq(s, a, b)
  BY <1>5, <1>10
<1> HIDE DEF a, b, o
<1>12. Len(SubSeq(s, a, b)) = b - a + 1 /\ SubSeq(s, a, b)[o] = s[i]
  BY <1>1, <1>9, SubSequence
<1> QED
  BY <1>5, <1>9, <1>10, <1>11, <1>12 DEF parts

(* The statements of equations are their lines.                            *)
LEMMA StatementsAreLines ==
  ASSUME NEW text, IsSequence(text), NEW n, NEW L, NEW R, Equations(text, n, L, R)
  PROVE  Statements(text) = Lines(text)
<1> DEFINE cuts == {i \in DOMAIN text : text[i] = "newline"}
           ends == {i \in DOMAIN text : text[i] \in {"newline", ";"} /\ Depth(text, i) = 0}
<1>1. /\ cuts \in SUBSET (DOMAIN text) /\ Lines(text) = PartsBetween(text, cuts)
      /\ Statements(text) = PartsBetween(text, ends)
  BY DEF Lines, Statements, Parts
<1>2. ASSUME NEW i \in DOMAIN text, i \notin cuts
      PROVE  text[i] \notin {"(", "open", ")", "close", ";"}
  <2>1. PICK k \in 1 .. Len(Lines(text)) :
          \E o \in 1 .. Len(Lines(text)[k]) : Lines(text)[k][o] = text[i]
    <3> HIDE DEF cuts
    <3>1. \E k \in 1 .. Len(PartsBetween(text, cuts)) :
            \E o \in 1 .. Len(PartsBetween(text, cuts)[k]) :
              PartsBetween(text, cuts)[k][o] = text[i]
      BY <1>1, <1>2, TokenInPart
    <3> QED
      BY <1>1, <3>1
  <2>2. PICK o \in 1 .. Len(Lines(text)[k]) : Lines(text)[k][o] = text[i]
    BY <2>1
  <2>3. /\ L[k] \in Plain /\ R[k] \in Plain /\ Lines(text)[k] = Equation(L[k], R[k])
    BY DEF Equations
  <2>4. text[i] \in {"assert", "==", L[k], R[k]}
    <3>0. Len(Lines(text)[k]) = 4
      BY <2>3, EquationProperties
    <3>1. o \in 1 .. 4
      BY <3>0
    <3>2. o = 1 \/ o = 2 \/ o = 3 \/ o = 4
      BY <3>1
    <3>3. text[i] = Equation(L[k], R[k])[o]
      BY <2>2, <2>3
    <3> QED
      BY <3>2, <3>3, EquationProperties
  <2> QED
    BY <2>3, <2>4 DEF Plain
<1>3. ASSUME NEW i \in DOMAIN text
      PROVE  text[i] \notin {"(", "open", ")", "close"} /\ text[i] # ";"
  BY <1>2
<1>4. ASSUME NEW i \in DOMAIN text PROVE Depth(text, i) = 0
  <2>1. Len(text) \in Nat /\ DOMAIN text = 1 .. Len(text)
    BY SequenceProperties
  <2>2. PICK j \in 0 .. Len(text) : i = j + 1 /\ 1 .. j \subseteq DOMAIN text
    <3>1. i - 1 \in 0 .. Len(text) /\ i = (i - 1) + 1 /\ 1 .. i - 1 \subseteq DOMAIN text
      BY <2>1
    <3> QED
      BY <3>1
  <2>3. \A x \in 1 .. j : text[x] \notin {"(", "open", ")", "close"}
    BY <1>3, <2>2
  <2>4. Depth(text, j + 1) = 0
    BY <2>3, NoDepth
  <2> QED
    BY <2>2, <2>4
<1>5. ends = cuts
  BY <1>3, <1>4
<1> QED
  BY <1>1, <1>5

(* What an expression of one or two operands comes to.                     *)
Unjoined(e) ==
  /\ e[1] # "not"
  /\ \A i \in DOMAIN e : e[i] \notin {","} /\ e[i] \notin {"and"} /\ e[i] \notin {"or"}

LEMMA FirstDecides ==
  ASSUME NEW answers, DOMAIN answers = 1 .. 1, Len(answers) = 1
  PROVE  /\ Decides(answers, LAMBDA v : v = "false") = answers[1]
         /\ Decides(answers, LAMBDA v : v # "false") = answers[1]
<1>1. /\ {k \in DOMAIN answers : answers[k] = "false" \/ k = Len(answers)} = {1}
      /\ {k \in DOMAIN answers : answers[k] # "false" \/ k = Len(answers)} = {1}
  OBVIOUS
<1>2. Min({1}) = 1
  BY MinIs
<1> QED
  BY <1>1, <1>2 DEF Decides

LEMMA ValueIsComparison ==
  ASSUME NEW e, IsSequence(e), NEW bound, Unjoined(e)
  PROVE  Value(e, bound) = Comparison(e, bound)
<1> DEFINE commas == Parts(e, {","})
           ands == Parts(e, {"and"})
           ors == Parts(e, {"or"})
           negations == [k \in DOMAIN ands |-> Negation(ands[k], bound)]
           conjunctions == [k \in DOMAIN ors |-> Conjunction(ors[k], bound)]
<1>1. commas = <<e>> /\ ands = <<e>> /\ ors = <<e>>
  BY OnePart, Zenon DEF Unjoined
<1>2. Negation(e, bound) = Comparison(e, bound)
  <2>1. Head(e) = e[1]
    OBVIOUS
  <2> QED
    BY <2>1, Zenon DEF Negation, Unjoined
<1>3. Conjunction(e, bound) = Decides(negations, LAMBDA v : v = "false")
  BY Zenon DEF Conjunction
<1>4. Disjunction(e, bound) = Decides(conjunctions, LAMBDA v : v # "false")
  BY Zenon DEF Disjunction
<1>5. Value(e, bound) = IF Len(commas) > 1 THEN "tuple" ELSE Disjunction(e, bound)
  BY Zenon DEF Value
<1> HIDE DEF commas, ands, ors
<1>6. /\ Len(<<e>>) = 1 /\ DOMAIN <<e>> = 1 .. 1 /\ <<e>>[1] = e
  BY ShortSequences
<1>7. /\ DOMAIN negations = 1 .. 1 /\ Len(negations) = 1
      /\ negations[1] = Negation(e, bound)
      /\ DOMAIN conjunctions = 1 .. 1 /\ Len(conjunctions) = 1
      /\ conjunctions[1] = Conjunction(e, bound)
      /\ ~ Len(commas) > 1
  BY <1>1, <1>6
<1> HIDE DEF negations, conjunctions
<1>8. /\ Conjunction(e, bound) = negations[1]
      /\ Disjunction(e, bound) = conjunctions[1]
  BY <1>3, <1>4, <1>7, FirstDecides
<1> QED
  BY <1>2, <1>5, <1>7, <1>8

LEMMA OperandsJoinNothing ==
  /\ \A x \in Operands : /\ x \notin {"=="} /\ x \notin {"(", "open", ")", "close"}
                         /\ Unjoined(<<x>>)
  /\ \A x, y \in Operands : Unjoined(<<x, "==", y>>)
<1>1. \A x \in Operands : /\ x \notin {"=="} /\ x \notin {"(", "open", ")", "close"}
                         /\ x \notin {","}
  BY DEF Operands, Calls
<1>2. \A x \in Operands : x # "not" /\ x \notin {"and"} /\ x \notin {"or"}
  BY Zenon DEF Operands, Calls
<1>3. "==" # "not" /\ "==" \notin {"and"} /\ "==" \notin {"or"} /\ "==" \notin {","}
  BY Zenon
<1>4. ASSUME NEW x \in Operands PROVE Unjoined(<<x>>)
  <2>1. <<x>>[1] = x /\ \A i \in DOMAIN <<x>> : <<x>>[i] = x
    BY ShortSequences
  <2> QED
    BY <1>1, <1>2, <2>1, Zenon DEF Unjoined
<1>5. ASSUME NEW x \in Operands, NEW y \in Operands PROVE Unjoined(<<x, "==", y>>)
  <2> DEFINE e == <<x, "==", y>>
  <2>1. e[1] = x /\ \A i \in DOMAIN e : e[i] = x \/ e[i] = y \/ e[i] = "=="
    <3>1. DOMAIN e = 1 .. 3 /\ e[1] = x /\ e[2] = "==" /\ e[3] = y
      BY ShortSequences
    <3> HIDE DEF e
    <3>2. \A i \in 1 .. 3 : i = 1 \/ i = 2 \/ i = 3
      OBVIOUS
    <3> QED
      BY <3>1, <3>2
  <2> HIDE DEF e
  <2>2. Unjoined(e)
    BY <1>1, <1>2, <1>3, <2>1, Zenon DEF Unjoined
  <2> QED
    BY <2>2 DEF e
<1> QED
  BY <1>1, <1>4, <1>5

LEMMA OperandIs ==
  ASSUME NEW x \in Operands, NEW bound PROVE Operand(<<x>>, bound) = ValueOf(x, bound)
<1> DEFINE I == {i \in DOMAIN <<x>> : <<x>>[i] \in Operands}
<1>1. 1 \in I /\ I \in SUBSET Nat /\ \A i \in I : 1 <= i
  OBVIOUS
<1>2. Operand(<<x>>, bound) = ValueOf(<<x>>[Min(I)], bound)
  BY DEF Operand
<1> HIDE DEF I
<1>3. Min(I) = 1
  BY <1>1, MinIs
<1> QED
  BY <1>2, <1>3

LEMMA SingleValue ==
  ASSUME NEW x \in Operands, NEW bound PROVE Value(<<x>>, bound) = ValueOf(x, bound)
<1>1. x \notin {"=="} /\ Unjoined(<<x>>)
  BY OperandsJoinNothing
<1>2. IsSequence(<<x>>) /\ Len(<<x>>) = 1 /\ DOMAIN <<x>> = 1 .. 1 /\ <<x>>[1] = x
  BY ShortSequences
<1>3. Value(<<x>>, bound) = Comparison(<<x>>, bound)
  BY <1>1, <1>2, ValueIsComparison
<1>4. Parts(<<x>>, {"=="}) = <<<<x>>>>
  <2>1. \A i \in DOMAIN <<x>> : <<x>>[i] \notin {"=="}
    BY <1>1, <1>2
  <2> QED
    BY <1>2, <2>1, OnePart
<1> DEFINE sides == [k \in DOMAIN <<<<x>>>> |-> Operand(<<<<x>>>>[k], bound)]
<1>5. Len(sides) = 1 /\ sides[1] = ValueOf(x, bound)
  BY OperandIs
<1>6. Comparison(<<x>>, bound) = sides[1]
  BY <1>4, <1>5 DEF Comparison
<1> QED
  BY <1>3, <1>5, <1>6

LEMMA EqualityValue ==
  ASSUME NEW x \in Operands, NEW y \in Operands, NEW bound
  PROVE  Value(<<x, "==", y>>, bound) = Truth(ValueOf(x, bound) = ValueOf(y, bound))
<1> DEFINE e == <<x, "==", y>>
           parts == Parts(e, {"=="})
           sides == [k \in DOMAIN parts |-> Operand(parts[k], bound)]
<1>1. /\ x \notin {"=="} /\ x \notin {"(", "open", ")", "close"} /\ y \notin {"=="}
      /\ Unjoined(e)
  BY OperandsJoinNothing
<1>2. /\ IsSequence(e) /\ Len(e) = 3 /\ DOMAIN e = 1 .. 3
      /\ e[1] = x /\ e[2] = "==" /\ e[3] = y
  BY ShortSequences
<1> HIDE DEF e
<1>3. \A i \in 1 .. 3 : i = 1 \/ i = 2 \/ i = 3
  OBVIOUS
<1>4. Value(e, bound) = Comparison(e, bound)
  BY <1>1, <1>2, ValueIsComparison
<1>5. IsSequence(parts) /\ Len(parts) = 2 /\ parts[1] = <<x>> /\ parts[2] = <<y>>
  <2>1. /\ 2 \in DOMAIN e /\ e[2] \in {"=="} /\ \A i \in DOMAIN e : e[i] \in {"=="} => i = 2
        /\ \A j \in 1 .. 2 - 1 : e[j] \notin {"(", "open", ")", "close"}
    BY <1>1, <1>2, <1>3
  <2>2. /\ IsSequence(parts) /\ Len(parts) = 2
        /\ parts[1] = SubSeq(e, 1, 2 - 1) /\ parts[2] = SubSeq(e, 2 + 1, Len(e))
    BY <1>2, <2>1, TwoParts
  <2>3. SubSeq(e, 1, 1) = <<e[1]>> /\ SubSeq(e, 3, 3) = <<e[3]>>
    BY <1>2, OneToken
  <2> QED
    BY <1>2, <2>2, <2>3
<1>6. Comparison(e, bound)
        = IF Len(sides) = 1 THEN sides[1]
          ELSE Truth(\A k \in 1 .. Len(sides) - 1 : sides[k] = sides[k + 1])
  BY DEF Comparison
<1>7. Len(sides) = 2 /\ sides[1] = ValueOf(x, bound) /\ sides[2] = ValueOf(y, bound)
  <2>1. DOMAIN parts = 1 .. 2
    BY <1>5, SequenceProperties
  <2> HIDE DEF parts
  <2>2. Operand(<<x>>, bound) = ValueOf(x, bound) /\ Operand(<<y>>, bound) = ValueOf(y, bound)
    BY OperandIs
  <2> QED
    BY <1>5, <2>1, <2>2
<1> HIDE DEF sides
<1>8. (\A k \in 1 .. Len(sides) - 1 : sides[k] = sides[k + 1])
        <=> ValueOf(x, bound) = ValueOf(y, bound)
  BY <1>7
<1> QED
  BY <1>4, <1>6, <1>7, <1>8 DEF e, Truth

(* What a plain operand evaluates to.                                      *)
PlainValue(x, returned) ==
  CASE x \in Calls            -> returned
    [] x \in {"want", "name"} -> "want"
    [] OTHER                  -> x

LEMMA PlainValueIs ==
  ASSUME NEW x \in Plain, NEW bound PROVE ValueOf(x, bound) = PlainValue(x, bound.returned)
<1>1. x \notin {"actual", "expected"}
  BY DEF Plain
<1> QED
  BY <1>1 DEF ValueOf, PlainValue

LEMMA PlainIsOperand ==
  Plain \subseteq Operands /\ "actual" \in Operands /\ "expected" \in Operands
BY DEF Plain, Operands, Calls

LEMMA StatementsAreTriples ==
  ASSUME NEW text, NEW n, NEW L, NEW R, Equations(text, n, L, R)
  PROVE  Triples(Statements(Enhanced(text)), n, L, R)
<1>1. n \in Nat /\ n >= 1 /\ \A k \in 1 .. n : L[k] \in Plain /\ R[k] \in Plain
  BY DEF Equations
<1>2. Layout(Enhanced(text), n, L, R)
  BY EnhancedLayout
<1> QED
  BY <1>1, <1>2, LayoutStatements

LEMMA HeadAndTail ==
  /\ \A a, b : Head(<<a, b>>) = a /\ Tail(<<a, b>>) = <<b>>
  /\ \A a, b, c, d : Head(<<a, b, c, d>>) = a /\ Tail(<<a, b, c, d>>) = <<b, c, d>>
  /\ \A x : /\ Head(Message(x)) = "assert"
            /\ Tail(Message(x)) = <<"actual", "==", "expected", ",", "open", x, "close">>
<1>1. ASSUME NEW s, IsSequence(s), Len(s) >= 1 PROVE Head(s) = s[1]
  OBVIOUS
<1>2. ASSUME NEW a, NEW b PROVE Head(<<a, b>>) = a /\ Tail(<<a, b>>) = <<b>>
  <2> DEFINE s == <<a, b>>
             t == Tail(s)
  <2>1. IsSequence(s) /\ Len(s) = 2 /\ s[1] = a /\ s[2] = b
    BY DEF IsSequence
  <2> HIDE DEF s
  <2>2. IsSequence(t) /\ Len(t) = 1 /\ t[1] = b
    BY <2>1, TailIs
  <2>3. t = <<b>>
    BY <2>2, ShortSequences
  <2> QED
    BY <2>1, <2>3 DEF s
<1>3. ASSUME NEW a, NEW b, NEW c, NEW d
      PROVE  Head(<<a, b, c, d>>) = a /\ Tail(<<a, b, c, d>>) = <<b, c, d>>
  <2> DEFINE s == <<a, b, c, d>>
             t == Tail(s)
  <2>1. IsSequence(s) /\ Len(s) = 4 /\ s[1] = a /\ s[2] = b /\ s[3] = c /\ s[4] = d
    BY DEF IsSequence
  <2> HIDE DEF s
  <2>2. IsSequence(t) /\ Len(t) = 3 /\ t[1] = b /\ t[2] = c /\ t[3] = d
    BY <2>1, TailIs
  <2>3. t = <<b, c, d>>
    BY <2>2, ShortSequences
  <2> QED
    BY <2>1, <2>3 DEF s
<1>4. ASSUME NEW x
      PROVE  /\ Head(Message(x)) = "assert"
             /\ Tail(Message(x)) = <<"actual", "==", "expected", ",", "open", x, "close">>
  <2> DEFINE s == Message(x)
             t == Tail(s)
  <2>1. IsSequence(s) /\ Len(s) = 8
    <3>1. \A a, b, c, d, e, f, g, h : /\ IsSequence(<<a, b, c, d, e, f, g, h>>)
                                      /\ Len(<<a, b, c, d, e, f, g, h>>) = 8
      BY DEF IsSequence
    <3> QED
      BY <3>1 DEF Message
  <2>2. /\ s[1] = "assert" /\ s[2] = "actual" /\ s[3] = "==" /\ s[4] = "expected"
        /\ s[5] = "," /\ s[6] = "open" /\ s[7] = x /\ s[8] = "close"
    BY DEF Message
  <2> HIDE DEF s
  <2>3. IsSequence(t) /\ Len(t) = 7 /\ \A i \in 1 .. 7 : t[i] = s[i + 1]
    <3>0. IsSequence(s) /\ Len(s) >= 1
      BY <2>1
    <3>1. /\ IsSequence(t) /\ Len(t) = Len(s) - 1
          /\ \A i \in 1 .. Len(s) - 1 : t[i] = s[i + 1]
      BY <3>0, TailIs
    <3> HIDE DEF t
    <3> QED
      BY <2>1, <3>1
  <2> HIDE DEF t
  <2>4. /\ t[1] = "actual" /\ t[2] = "==" /\ t[3] = "expected" /\ t[4] = ","
        /\ t[5] = "open" /\ t[6] = x /\ t[7] = "close"
    <3>1. /\ t[1] = s[2] /\ t[2] = s[3] /\ t[3] = s[4] /\ t[4] = s[5]
          /\ t[5] = s[6] /\ t[6] = s[7] /\ t[7] = s[8]
      BY <2>3
    <3> QED
      BY <2>2, <3>1, Zenon
  <2>5. t = <<t[1], t[2], t[3], t[4], t[5], t[6], t[7]>>
    BY <2>3, ShortSequences
  <2>6. Head(s) = s[1]
    OBVIOUS
  <2>7. Tail(s) = <<"actual", "==", "expected", ",", "open", x, "close">>
    BY <2>4, <2>5 DEF t
  <2> QED
    BY <2>2, <2>6, <2>7 DEF s
<1> QED
  BY <1>2, <1>3, <1>4

LEMMA TripleHeads ==
  ASSUME NEW sts, NEW n, NEW L, NEW R, Triples(sts, n, L, R), NEW j \in 1 .. 3 * n
  PROVE  /\ Head(sts[j]) = "actual=" <=> j % 3 = 1
         /\ Head(sts[j]) = "expected=" <=> j % 3 = 2
         /\ Head(sts[j]) = "assert" <=> j % 3 = 0
<1>1. n \in Nat
  BY Zenon DEF Triples
<1>2. PICK k \in 1 .. n, o \in 1 .. 3 : j = 3 * (k - 1) + o
  <2> DEFINE q == ((j - 1) \div 3) + 1
             p == ((j - 1) % 3) + 1
  <2>1. q \in 1 .. n /\ p \in 1 .. 3 /\ j = 3 * (q - 1) + p
    BY <1>1
  <2> QED
    BY <2>1
<1>3. /\ sts[3 * (k - 1) + 1] = <<"actual=", L[k]>>
      /\ sts[3 * (k - 1) + 2] = <<"expected=", R[k]>>
      /\ sts[3 * (k - 1) + 3] = Message(L[k])
  BY Zenon DEF Triples
<1>4. /\ Head(sts[3 * (k - 1) + 1]) = "actual="
      /\ Head(sts[3 * (k - 1) + 2]) = "expected="
      /\ Head(sts[3 * (k - 1) + 3]) = "assert"
  BY <1>3, HeadAndTail, Zenon
<1>5. "actual=" # "expected=" /\ "actual=" # "assert" /\ "expected=" # "assert"
  OBVIOUS
<1>6. CASE o = 1
  <2>1. Head(sts[j]) = "actual=" /\ j % 3 = 1
    BY <1>1, <1>2, <1>4, <1>6
  <2> QED
    BY <1>5, <2>1
<1>7. CASE o = 2
  <2>1. Head(sts[j]) = "expected=" /\ j % 3 = 2
    BY <1>1, <1>2, <1>4, <1>7
  <2> QED
    BY <1>5, <2>1
<1>8. CASE o = 3
  <2>1. Head(sts[j]) = "assert" /\ j % 3 = 0
    BY <1>1, <1>2, <1>4, <1>8
  <2> QED
    BY <1>5, <2>1
<1>9. o = 1 \/ o = 2 \/ o = 3
  OBVIOUS
<1> QED
  BY <1>6, <1>7, <1>8, <1>9

LEMMA BoundReturned ==
  \A sts, k, returned : Bound(sts, k, returned).returned = returned
BY DEF Bound

(* A message has the values of the two lines before it.                    *)
LEMMA BoundIs ==
  ASSUME NEW sts, NEW n, NEW L, NEW R, Triples(sts, n, L, R), NEW k \in 1 .. n, NEW returned
  PROVE  /\ Bound(sts, 3 * k, returned).actual = PlainValue(L[k], returned)
         /\ Bound(sts, 3 * k, returned).expected = PlainValue(R[k], returned)
<1> DEFINE unset == [returned |-> returned, actual |-> "unset", expected |-> "unset"]
           A == {j \in 1 .. 3 * k - 1 : Head(sts[j]) = "actual="}
           B == {j \in 1 .. 3 * k - 1 : Head(sts[j]) = "expected="}
           a == IF A = {} THEN "unset" ELSE Value(Tail(sts[Max(A)]), unset)
           b == IF B = {} THEN "unset" ELSE Value(Tail(sts[Max(B)]), unset)
<1>1. Bound(sts, 3 * k, returned) = [[unset EXCEPT !.actual = a] EXCEPT !.expected = b]
  BY DEF Bound
<1>2. unset.returned = returned
  OBVIOUS
<1> HIDE DEF unset
<1>3. /\ n \in Nat /\ L[k] \in Plain /\ R[k] \in Plain
      /\ sts[3 * (k - 1) + 1] = <<"actual=", L[k]>>
      /\ sts[3 * (k - 1) + 2] = <<"expected=", R[k]>>
  BY Zenon DEF Triples
<1>4. \A j \in 1 .. 3 * k - 1 : /\ Head(sts[j]) = "actual=" <=> j % 3 = 1
                                /\ Head(sts[j]) = "expected=" <=> j % 3 = 2
  <2>1. \A j \in 1 .. 3 * k - 1 : j \in 1 .. 3 * n
    BY <1>3
  <2> QED
    BY <2>1, TripleHeads
<1>5. Max(A) = 3 * (k - 1) + 1
  <2>1. \A j : j \in A <=> j \in 1 .. 3 * k - 1 /\ j % 3 = 1
    BY <1>4
  <2> HIDE DEF A
  <2>2. A \in SUBSET Nat /\ 3 * (k - 1) + 1 \in A /\ \A j \in A : j <= 3 * (k - 1) + 1
    BY <1>3, <2>1
  <2> QED
    BY <2>2, MaxIs
<1>6. Max(B) = 3 * (k - 1) + 2
  <2>1. \A j : j \in B <=> j \in 1 .. 3 * k - 1 /\ j % 3 = 2
    BY <1>4
  <2> HIDE DEF B
  <2>2. B \in SUBSET Nat /\ 3 * (k - 1) + 2 \in B /\ \A j \in B : j <= 3 * (k - 1) + 2
    BY <1>3, <2>1
  <2> QED
    BY <2>2, MaxIs
<1>7. A # {} /\ B # {}
  <2>1. /\ 3 * (k - 1) + 1 \in 1 .. 3 * k - 1 /\ (3 * (k - 1) + 1) % 3 = 1
        /\ 3 * (k - 1) + 2 \in 1 .. 3 * k - 1 /\ (3 * (k - 1) + 2) % 3 = 2
    BY <1>3
  <2> QED
    BY <1>4, <2>1
<1> HIDE DEF A, B
<1>8. a = PlainValue(L[k], returned)
  <2>1. Tail(sts[Max(A)]) = <<L[k]>>
    BY <1>3, <1>5, HeadAndTail
  <2>2. Value(<<L[k]>>, unset) = PlainValue(L[k], returned)
    BY <1>2, <1>3, SingleValue, PlainIsOperand, PlainValueIs
  <2> QED
    BY <1>7, <2>1, <2>2
<1>9. b = PlainValue(R[k], returned)
  <2>1. Tail(sts[Max(B)]) = <<R[k]>>
    BY <1>3, <1>6, HeadAndTail
  <2>2. Value(<<R[k]>>, unset) = PlainValue(R[k], returned)
    BY <1>2, <1>3, SingleValue, PlainIsOperand, PlainValueIs
  <2> QED
    BY <1>7, <2>1, <2>2
<1> HIDE DEF a, b
<1>10. Bound(sts, 3 * k, returned).actual = a /\ Bound(sts, 3 * k, returned).expected = b
  BY <1>1 DEF unset
<1> QED
  BY <1>8, <1>9, <1>10

(* What the assertions of both texts compare.                              *)
LEMMA ConditionOfEquation ==
  ASSUME NEW a \in Plain, NEW b \in Plain
  PROVE  Condition(Equation(a, b)) = <<a, "==", b>>
<1>0. Tail(<<"assert", a, "==", b>>) = <<a, "==", b>>
  <2>1. \A u, v, x, y : Tail(<<u, v, x, y>>) = <<v, x, y>>
    BY HeadAndTail
  <2> QED
    BY <2>1
<1> DEFINE s == <<a, "==", b>>
<1>1. Tail(Equation(a, b)) = s
  BY <1>0, Zenon DEF Equation
<1>2. IsSequence(s)
  BY ShortSequences
<1>3. \A i \in DOMAIN s : s[i] \notin {","}
  BY OperandsJoinNothing, PlainIsOperand, Zenon DEF Unjoined
<1> HIDE DEF s
<1>4. Parts(s, {","}) = <<s>>
  BY <1>2, <1>3, OnePart
<1>5. <<s>>[1] = s
  OBVIOUS
<1>6. Condition(Equation(a, b)) = s
  BY <1>1, <1>4, <1>5 DEF Condition
<1> QED
  BY <1>6 DEF s

LEMMA ConditionOfMessage ==
  ASSUME NEW x \in Plain PROVE Condition(Message(x)) = <<"actual", "==", "expected">>
<1> DEFINE s == Tail(Message(x))
           c == SubSeq(s, 1, 3)
<1> HIDE DEF c
<1>1. s = <<"actual", "==", "expected", ",", "open", x, "close">>
  BY HeadAndTail
<1>2. IsSequence(s) /\ Len(s) = 7 /\ DOMAIN s = 1 .. 7
  <2>1. \A a, b, d, e, f, g, h : /\ IsSequence(<<a, b, d, e, f, g, h>>)
                                 /\ Len(<<a, b, d, e, f, g, h>>) = 7
                                 /\ DOMAIN <<a, b, d, e, f, g, h>> = 1 .. 7
    BY DEF IsSequence
  <2> HIDE DEF s
  <2> QED
    BY <1>1, <2>1
<1> HIDE DEF s
<1>3. /\ s[1] = "actual" /\ s[2] = "==" /\ s[3] = "expected" /\ s[4] = ","
      /\ s[5] = "open" /\ s[6] = x /\ s[7] = "close"
  BY <1>1
<1>4. x # ","
  BY DEF Plain
<1>5. \A i \in DOMAIN s : s[i] \in {","} => i = 4
  <2>1. \A i \in 1 .. 7 : i = 1 \/ i = 2 \/ i = 3 \/ i = 4 \/ i = 5 \/ i = 6 \/ i = 7
    OBVIOUS
  <2>2. \A i \in 1 .. 7 : i # 4 => s[i] # ","
    BY <1>3, <1>4, <2>1
  <2> QED
    BY <1>2, <2>2
<1>6. \A j \in 1 .. 3 : s[j] \notin {"(", "open", ")", "close"}
  <2> SUFFICES ASSUME NEW j \in 1 .. 3 PROVE s[j] \notin {"(", "open", ")", "close"}
    OBVIOUS
  <2>1. j = 1 \/ j = 2 \/ j = 3
    OBVIOUS
  <2> QED
    BY <1>3, <2>1
<1>7. PICK p \in DOMAIN s : p = 4
  BY <1>2
<1>8. Parts(s, {","})[1] = SubSeq(s, 1, p - 1)
  <2>1. s[p] \in {","} /\ \A i \in DOMAIN s : s[i] \in {","} => i = p
    BY <1>3, <1>5, <1>7
  <2>2. \A j \in 1 .. p - 1 : s[j] \notin {"(", "open", ")", "close"}
    BY <1>6, <1>7
  <2> QED
    BY <1>2, <2>1, <2>2, TwoParts
<1>9. Parts(s, {","})[1] = c
  <2>1. p - 1 = 3
    BY <1>7
  <2> QED
    BY <1>8, <2>1 DEF c
<1>10. c = <<s[1], s[2], s[3]>>
  <2>1. PICK u \in Nat, v \in Nat : u = 1 /\ v = 3
    OBVIOUS
  <2>2. u >= 1 /\ v = u + 2 /\ v <= Len(s) /\ u + 1 = 2
    BY <1>2, <2>1
  <2>3. SubSeq(s, u, v) = <<s[u], s[u + 1], s[v]>>
    BY <1>2, <2>2, ThreeTokens
  <2> QED
    BY <2>1, <2>2, <2>3, Zenon DEF c
<1>11. c = <<"actual", "==", "expected">>
  BY <1>3, <1>10, Zenon
<1> QED
  BY <1>9, <1>11 DEF Condition, s

(* Both say the same of what is returned.                                  *)
LEMMA MessageValue ==
  ASSUME NEW sts, NEW n, NEW L, NEW R, Triples(sts, n, L, R), NEW k \in 1 .. n, NEW returned
  PROVE  Value(Condition(sts[3 * k]), Bound(sts, 3 * k, returned))
           = Truth(PlainValue(L[k], returned) = PlainValue(R[k], returned))
<1> DEFINE bound == Bound(sts, 3 * k, returned)
<1>1. /\ n \in Nat /\ L[k] \in Plain /\ R[k] \in Plain
      /\ sts[3 * (k - 1) + 3] = Message(L[k])
  BY Zenon DEF Triples
<1>2. sts[3 * k] = Message(L[k])
  BY <1>1
<1>3. /\ bound.actual = PlainValue(L[k], returned)
      /\ bound.expected = PlainValue(R[k], returned)
  BY BoundIs
<1> HIDE DEF bound
<1>4. ValueOf("actual", bound) = bound.actual /\ ValueOf("expected", bound) = bound.expected
  BY DEF ValueOf, Calls
<1>5. Value(<<"actual", "==", "expected">>, bound)
        = Truth(ValueOf("actual", bound) = ValueOf("expected", bound))
  BY PlainIsOperand, EqualityValue
<1>6. Condition(sts[3 * k]) = <<"actual", "==", "expected">>
  BY <1>1, <1>2, ConditionOfMessage
<1> QED
  BY <1>3, <1>4, <1>5, <1>6 DEF bound

LEMMA EquationValue ==
  ASSUME NEW sts, NEW k, NEW returned, NEW a \in Plain, NEW b \in Plain,
         sts[k] = Equation(a, b)
  PROVE  Value(Condition(sts[k]), Bound(sts, k, returned))
           = Truth(PlainValue(a, returned) = PlainValue(b, returned))
<1> DEFINE bound == Bound(sts, k, returned)
<1>1. bound.returned = returned
  BY BoundReturned
<1> HIDE DEF bound
<1>2. Value(<<a, "==", b>>, bound) = Truth(ValueOf(a, bound) = ValueOf(b, bound))
  BY PlainIsOperand, EqualityValue
<1>3. ValueOf(a, bound) = PlainValue(a, returned) /\ ValueOf(b, bound) = PlainValue(b, returned)
  BY <1>1, PlainValueIs
<1> QED
  BY <1>2, <1>3, ConditionOfEquation DEF bound

(* So they fail at the same places.                                        *)
LEMMA TruthIs == \A b \in BOOLEAN : Truth(b) = "false" <=> ~ b
BY DEF Truth

LEMMA FailingMessages ==
  ASSUME NEW text, NEW n, NEW L, NEW R, Equations(text, n, L, R), NEW returned, NEW j
  PROVE  j \in Failing(Enhanced(text), returned)
           <=> \E k \in 1 .. n : j = 3 * k /\ PlainValue(L[k], returned) # PlainValue(R[k], returned)
<1> DEFINE sts == Statements(Enhanced(text))
<1>1. j \in Failing(Enhanced(text), returned)
        <=> /\ j \in DOMAIN sts /\ Head(sts[j]) = "assert"
            /\ Value(Condition(sts[j]), Bound(sts, j, returned)) = "false"
  BY DEF Failing
<1>2. Triples(sts, n, L, R)
  BY StatementsAreTriples
<1> HIDE DEF sts
<1>3. n \in Nat /\ IsSequence(sts) /\ Len(sts) = 3 * n
  BY <1>2, Zenon DEF Triples
<1>4. DOMAIN sts = 1 .. 3 * n
  BY <1>3, SequenceProperties
<1>5. ASSUME NEW k \in 1 .. n
      PROVE  /\ 3 * k \in DOMAIN sts /\ Head(sts[3 * k]) = "assert"
             /\ Value(Condition(sts[3 * k]), Bound(sts, 3 * k, returned)) = "false"
                  <=> PlainValue(L[k], returned) # PlainValue(R[k], returned)
  <2>1. 3 * k \in 1 .. 3 * n /\ (3 * k) % 3 = 0
    BY <1>3
  <2>2. Head(sts[3 * k]) = "assert"
    BY <1>2, <2>1, TripleHeads
  <2>3. Value(Condition(sts[3 * k]), Bound(sts, 3 * k, returned))
          = Truth(PlainValue(L[k], returned) = PlainValue(R[k], returned))
    BY <1>2, MessageValue
  <2> DEFINE same == PlainValue(L[k], returned) = PlainValue(R[k], returned)
  <2>4. Truth(same) = "false" <=> ~ same
    <3>1. same \in BOOLEAN
      OBVIOUS
    <3> HIDE DEF same
    <3> QED
      BY <3>1, TruthIs
  <2> QED
    BY <1>4, <2>1, <2>2, <2>3, <2>4
<1>6. ASSUME j \in DOMAIN sts, Head(sts[j]) = "assert" PROVE \E k \in 1 .. n : j = 3 * k
  <2>1. j \in 1 .. 3 * n
    BY <1>4, <1>6
  <2>2. j % 3 = 0
    BY <1>2, <1>6, <2>1, TripleHeads
  <2>3. j \div 3 \in 1 .. n /\ j = 3 * (j \div 3)
    BY <1>3, <2>1, <2>2
  <2> QED
    BY <2>3
<1> QED
  BY <1>1, <1>5, <1>6

LEMMA FailingEquations ==
  ASSUME NEW text, IsSequence(text), NEW n, NEW L, NEW R, Equations(text, n, L, R),
         NEW returned, NEW k
  PROVE  k \in Failing(text, returned)
           <=> k \in 1 .. n /\ PlainValue(L[k], returned) # PlainValue(R[k], returned)
<1> DEFINE sts == Statements(text)
<1>1. k \in Failing(text, returned)
        <=> /\ k \in DOMAIN sts /\ Head(sts[k]) = "assert"
            /\ Value(Condition(sts[k]), Bound(sts, k, returned)) = "false"
  BY DEF Failing
<1>2. sts = Lines(text)
  BY StatementsAreLines
<1> HIDE DEF sts
<1>3. /\ n \in Nat /\ IsSequence(sts) /\ Len(sts) = n
      /\ \A i \in 1 .. n : L[i] \in Plain /\ R[i] \in Plain /\ sts[i] = Equation(L[i], R[i])
  BY <1>2, Zenon DEF Equations
<1>4. DOMAIN sts = 1 .. n
  BY <1>3, SequenceProperties
<1>5. ASSUME k \in 1 .. n
      PROVE  /\ Head(sts[k]) = "assert"
             /\ Value(Condition(sts[k]), Bound(sts, k, returned)) = "false"
                  <=> PlainValue(L[k], returned) # PlainValue(R[k], returned)
  <2>1. L[k] \in Plain /\ R[k] \in Plain /\ sts[k] = Equation(L[k], R[k])
    BY <1>3, <1>5
  <2>2. Head(Equation(L[k], R[k])) = "assert"
    <3>1. \A a, b, c, d : Head(<<a, b, c, d>>) = a
      BY HeadAndTail
    <3> QED
      BY <3>1 DEF Equation
  <2>3. Value(Condition(sts[k]), Bound(sts, k, returned))
          = Truth(PlainValue(L[k], returned) = PlainValue(R[k], returned))
    BY <2>1, EquationValue
  <2> DEFINE same == PlainValue(L[k], returned) = PlainValue(R[k], returned)
  <2>4. Truth(same) = "false" <=> ~ same
    <3>1. same \in BOOLEAN
      OBVIOUS
    <3> HIDE DEF same
    <3> QED
      BY <3>1, TruthIs
  <2> QED
    BY <2>1, <2>2, <2>3, <2>4
<1> QED
  BY <1>1, <1>4, <1>5

(* The rewritten text can be read.                                         *)
LEMMA TriplesCanBeRead ==
  ASSUME NEW sts, NEW n, NEW L, NEW R, Triples(sts, n, L, R), NEW j \in DOMAIN sts,
         NEW i \in DOMAIN sts[j]
  PROVE  (sts[j][i] \in Keywords => i = 1) /\ sts[j][i] # "quoted"
<1>1. n \in Nat /\ IsSequence(sts) /\ Len(sts) = 3 * n
  BY Zenon DEF Triples
<1>2. j \in 1 .. 3 * n
  BY <1>1, SequenceProperties
<1>3. PICK k \in 1 .. n, o \in 1 .. 3 : j = 3 * (k - 1) + o
  BY <1>1, <1>2, PlaceInTriple
<1>4. /\ L[k] \in Plain /\ R[k] \in Plain
      /\ sts[3 * (k - 1) + 1] = <<"actual=", L[k]>>
      /\ sts[3 * (k - 1) + 2] = <<"expected=", R[k]>>
      /\ sts[3 * (k - 1) + 3] = Message(L[k])
  BY Zenon DEF Triples
<1>5. \A x \in Plain : x \notin Keywords /\ x # "quoted"
  BY DEF Plain, Keywords
<1>6. \A a \in Keywords, x \in Plain : \A u \in DOMAIN <<a, x>> :
        (<<a, x>>[u] \in Keywords => u = 1) /\ <<a, x>>[u] # "quoted"
  <2> SUFFICES ASSUME NEW a \in Keywords, NEW x \in Plain, NEW u \in 1 .. 2
               PROVE  (<<a, x>>[u] \in Keywords => u = 1) /\ <<a, x>>[u] # "quoted"
    OBVIOUS
  <2>1. u = 1 \/ u = 2
    OBVIOUS
  <2>2. a # "quoted"
    BY DEF Keywords
  <2> QED
    BY <1>5, <2>1, <2>2
<1>7. \A x \in Plain : \A u \in DOMAIN Message(x) :
        (Message(x)[u] \in Keywords => u = 1) /\ Message(x)[u] # "quoted"
  <2> SUFFICES ASSUME NEW x \in Plain, NEW u \in 1 .. 8
               PROVE  (Message(x)[u] \in Keywords => u = 1) /\ Message(x)[u] # "quoted"
    <3>1. \A a, b, c, d, e, f, g, h : DOMAIN <<a, b, c, d, e, f, g, h>> = 1 .. 8
      OBVIOUS
    <3>2. \A x : DOMAIN Message(x) = 1 .. 8
      BY <3>1, Zenon DEF Message
    <3> QED
      BY <3>2
  <2>1. u = 1 \/ u = 2 \/ u = 3 \/ u = 4 \/ u = 5 \/ u = 6 \/ u = 7 \/ u = 8
    OBVIOUS
  <2> DEFINE s == Message(x)
  <2>2. /\ s[1] = "assert" /\ s[2] = "actual" /\ s[3] = "==" /\ s[4] = "expected"
        /\ s[5] = "," /\ s[6] = "open" /\ s[7] = x /\ s[8] = "close"
    BY DEF Message
  <2> HIDE DEF s
  <2>3. \A t \in {"actual", "==", "expected", ",", "open", "close"} :
          t \notin Keywords /\ t # "quoted"
    BY DEF Keywords
  <2>4. s[1] # "quoted" /\ \A v \in {2, 3, 4, 5, 6, 7, 8} : s[v] \notin Keywords /\ s[v] # "quoted"
    BY <1>5, <2>2, <2>3
  <2> QED
    BY <2>1, <2>4 DEF s
<1>8. "actual=" \in Keywords /\ "expected=" \in Keywords
  BY DEF Keywords
<1>9. o = 1 \/ o = 2 \/ o = 3
  OBVIOUS
<1>10. CASE o = 1
  BY <1>3, <1>4, <1>6, <1>8, <1>10
<1>11. CASE o = 2
  BY <1>3, <1>4, <1>6, <1>8, <1>11
<1>12. CASE o = 3
  BY <1>3, <1>4, <1>7, <1>12
<1> QED
  BY <1>9, <1>10, <1>11, <1>12

LEMMA EnhancedCanBeRead ==
  ASSUME NEW text, NEW n, NEW L, NEW R, Equations(text, n, L, R)
  PROVE  SyntaxOK(Enhanced(text))
<1> DEFINE s == Enhanced(text)
           sts == Statements(s)
<1>1. n \in Nat /\ n >= 1 /\ \A k \in 1 .. n : L[k] \in Plain /\ R[k] \in Plain
  BY Zenon DEF Equations
<1>2. Layout(s, n, L, R)
  BY EnhancedLayout
<1>3. Triples(sts, n, L, R)
  BY StatementsAreTriples
<1>4. \A j \in DOMAIN sts : \A i \in DOMAIN sts[j] :
        (sts[j][i] \in Keywords => i = 1) /\ sts[j][i] # "quoted"
  <2> HIDE DEF sts
  <2> QED
    BY <1>3, TriplesCanBeRead
<1>5. Depth(s, Len(s) + 1) = 0
  <2> HIDE DEF s
  <2>1. Len(s) = 15 * n - 1
    BY <1>2, Zenon DEF Layout
  <2>2. PICK i \in 0 .. 15 * n - 1 : i = 15 * n - 1
    BY <1>1
  <2>3. Depth(s, i + 1) = ((i + 3) \div 15) - ((i + 1) \div 15)
    BY <1>1, <1>2, LayoutDepth
  <2>4. (i + 3) \div 15 = n /\ (i + 1) \div 15 = n
    BY <1>1, <2>2
  <2>5. Depth(s, i + 1) = 0
    BY <1>1, <2>3, <2>4
  <2> QED
    BY <2>1, <2>2, <2>5
<1> HIDE DEF s
<1>6. SyntaxOK(s)
  <2> HIDE DEF sts
  <2>1. \A k \in DOMAIN Statements(s) : \A i \in DOMAIN Statements(s)[k] :
          /\ Statements(s)[k][i] \in Keywords => i = 1 \/ Quoted(Statements(s)[k], i)
          /\ Statements(s)[k][i] = "quoted" => ~ Quoted(Statements(s)[k], i)
    BY <1>4 DEF sts
  <2> QED
    BY <1>5, <2>1 DEF SyntaxOK
<1> QED
  BY <1>6 DEF s

(***************************************************************************)
(* A text of equations of plain operands has the outcomes it had, once it  *)
(* is rewritten, however many lines there are.                             *)
(***************************************************************************)
THEOREM EquationsKeepOutcomes ==
  ASSUME NEW text, IsSequence(text), SyntaxOK(text), NEW n, NEW L, NEW R,
         Equations(text, n, L, R), NEW returned
  PROVE  Holds(Enhanced(text), returned) <=> Holds(text, returned)
<1>1. SyntaxOK(Enhanced(text))
  BY EnhancedCanBeRead
<1>2. \A j : j \in Failing(Enhanced(text), returned)
           <=> \E k \in 1 .. n : j = 3 * k /\ PlainValue(L[k], returned) # PlainValue(R[k], returned)
  BY FailingMessages
<1>3. \A k : k \in Failing(text, returned)
           <=> k \in 1 .. n /\ PlainValue(L[k], returned) # PlainValue(R[k], returned)
  BY FailingEquations
<1>4. Failing(Enhanced(text), returned) = {} <=> Failing(text, returned) = {}
  BY <1>2, <1>3
<1> QED
  BY <1>1, <1>4 DEF Holds

-----------------------------------------------------------------------------
(* What the tests say.  The text of the files is the one that was given,   *)
(* or the rewritten one, until the directory is gone; so the outcome of a  *)
(* command is the one of the given text wherever rewriting keeps it.       *)
RewritingKeepsOutcomes ==
  \A text \in Texts, returned \in {"want", "wrong"} :
    Holds(Enhanced(text), returned) <=> Holds(text, returned)

(* A text of which no line is rewritten stays as it is.                    *)
Untouched(text) == \A i \in DOMAIN Lines(text) : ~ IsRewritten(Lines(text)[i])

LEMMA UntouchedIsKept ==
  ASSUME NEW text, IsSequence(text), Untouched(text)
  PROVE  Enhanced(text) = text
<1> DEFINE cuts == {i \in DOMAIN text : text[i] = "newline"}
           lines == Lines(text)
           new == [k \in DOMAIN lines |->
                     IF IsRewritten(lines[k]) THEN Rewritten(lines[k]) ELSE lines[k]]
           blocks == [k \in DOMAIN new |-> <<"newline">> \o new[k]]
           s == <<"newline">> \o text
<1>1. PICK l \in Nat : l = Len(text) /\ DOMAIN text = 1 .. l
  BY SequenceProperties
<1>2. lines = PartsBetween(text, cuts) /\ cuts \in SUBSET (DOMAIN text)
      /\ \A i \in cuts : text[i] = "newline"
  BY DEF Lines
<1>3. Enhanced(text) = Tail(FlattenSeq(blocks))
  BY DEF Enhanced
<1> HIDE DEF cuts
<1>4. PICK m, c : CutsAre(text, cuts, m, c)
  BY <1>2, CutsIncrease
<1>5. /\ m \in Nat /\ Cardinality(cuts) = m /\ c[0] = 0 /\ c[m + 1] = Len(text) + 1
      /\ \A k \in 1 .. m : c[k] \in cuts /\ Rank(cuts, c[k]) = k
      /\ \A k \in 1 .. m + 1 : c[k - 1] \in Nat /\ c[k] \in Nat /\ c[k - 1] < c[k]
      /\ \A k \in 0 .. m + 1 : c[k] \in 0 .. Len(text) + 1
  BY <1>4 DEF CutsAre
<1>6. /\ IsSequence(lines) /\ Len(lines) = m + 1
      /\ \A k \in 1 .. m + 1 : lines[k] = SubSeq(text, c[k - 1] + 1, c[k] - 1)
  <2>1. /\ m \in Nat /\ Cardinality(cuts) = m /\ c[0] = 0 /\ c[m + 1] = Len(text) + 1
        /\ \A k \in 1 .. m : c[k] \in cuts /\ Rank(cuts, c[k]) = k
    BY <1>5
  <2>2. /\ IsSequence(PartsBetween(text, cuts)) /\ Len(PartsBetween(text, cuts)) = m + 1
        /\ \A k \in 1 .. m + 1 :
             PartsBetween(text, cuts)[k] = SubSeq(text, c[k - 1] + 1, c[k] - 1)
    BY <1>2, <2>1, PartsAre
  <2> HIDE DEF lines
  <2> QED
    BY <1>2, <2>2
<1>7. DOMAIN lines = 1 .. m + 1
  BY <1>6, SequenceProperties
<1>8. blocks = [k \in 1 .. m + 1 |-> <<"newline">> \o lines[k]]
  <2>1. \A k \in 1 .. m + 1 : ~ IsRewritten(lines[k])
    BY <1>7 DEF Untouched
  <2>2. new = [k \in 1 .. m + 1 |-> lines[k]]
    BY <1>7, <2>1
  <2> HIDE DEF new, lines
  <2> QED
    BY <2>2
<1> HIDE DEF lines, new, blocks
<1>9. /\ IsSequence(s) /\ Len(s) = l + 1 /\ s[1] = "newline"
      /\ \A i \in 1 .. l : s[i + 1] = text[i]
  <2> DEFINE v == <<"newline">>
  <2>1. IsSequence(v) /\ Len(v) = 1 /\ v[1] = "newline"
    BY ShortSequences
  <2> HIDE DEF v
  <2>2. /\ IsSequence(v \o text) /\ Len(v \o text) = Len(v) + Len(text)
        /\ \A i \in 1 .. Len(v) + Len(text) :
             (v \o text)[i] = IF i <= Len(v) THEN v[i] ELSE text[i - Len(v)]
    BY <2>1, ConcatIsSequence
  <2> DEFINE u == v \o text
  <2> HIDE DEF u
  <2>3. /\ IsSequence(u) /\ Len(u) = 1 + l
        /\ \A i \in 1 .. 1 + l : u[i] = IF i <= 1 THEN v[i] ELSE text[i - 1]
    BY <1>1, <2>1, <2>2 DEF u
  <2>4. Len(u) = l + 1 /\ u[1] = "newline" /\ \A i \in 1 .. l : u[i + 1] = text[i]
    BY <2>1, <2>3
  <2> QED
    BY <2>3, <2>4 DEF u, v
<1> HIDE DEF s
<1>10. ASSUME NEW k \in 1 .. m + 1
      PROVE  /\ IsSequence(blocks[k]) /\ c[k - 1] + Len(blocks[k]) = c[k]
             /\ \A o \in 1 .. Len(blocks[k]) : blocks[k][o] = s[c[k - 1] + o]
  <2> DEFINE v == <<"newline">>
             b == v \o lines[k]
  <2>1. IsSequence(v) /\ Len(v) = 1 /\ v[1] = "newline"
    BY ShortSequences
  <2>2. blocks[k] = b
    BY <1>8
  <2> HIDE DEF v
  <2>3. PICK p \in Nat, q \in Nat : p = c[k - 1] /\ q = c[k] /\ p < q /\ q <= l + 1
    <3>1. c[k - 1] \in Nat /\ c[k] \in Nat /\ c[k - 1] < c[k]
      BY <1>5
    <3>2. k \in 0 .. m + 1
      OBVIOUS
    <3>3. c[k] <= l + 1
      BY <1>1, <1>5, <3>2
    <3> QED
      BY <3>1, <3>3
  <2>4. /\ IsSequence(lines[k]) /\ Len(lines[k]) = q - p - 1
        /\ \A i \in 1 .. q - p - 1 : lines[k][i] = text[p + i]
    <3> DEFINE x == p + 1
               y == q - 1
    <3>1. lines[k] = SubSeq(text, x, y)
      BY <1>6, <2>3
    <3>2. x \in Nat /\ y \in Nat /\ 1 <= x /\ y <= Len(text)
      BY <1>1, <2>3
    <3> HIDE DEF x, y
    <3>3. IsSequence(SubSeq(text, x, y))
      BY <3>2, SubSequence
    <3>4. Len(SubSeq(text, x, y)) = IF x <= y THEN y - x + 1 ELSE 0
      BY <3>2, SubSequence
    <3>5. ASSUME NEW i \in 1 .. y - x + 1 PROVE SubSeq(text, x, y)[i] = text[x + i - 1]
      BY <3>2, SubSequence
    <3>6. y - x + 1 = q - p - 1 /\ (IF x <= y THEN y - x + 1 ELSE 0) = q - p - 1
      BY <2>3 DEF x, y
    <3>7. \A i \in 1 .. q - p - 1 : x + i - 1 = p + i
      BY <2>3 DEF x
    <3> QED
      BY <3>1, <3>3, <3>4, <3>5, <3>6, <3>7
  <2>5. /\ IsSequence(b) /\ Len(b) = Len(v) + Len(lines[k])
        /\ \A i \in 1 .. Len(v) + Len(lines[k]) :
             b[i] = IF i <= Len(v) THEN v[i] ELSE lines[k][i - Len(v)]
    BY <2>1, <2>4, ConcatIsSequence
  <2> HIDE DEF b
  <2>6. /\ Len(b) = q - p
        /\ \A i \in 1 .. q - p : b[i] = IF i <= 1 THEN v[i] ELSE lines[k][i - 1]
    BY <2>1, <2>3, <2>4, <2>5, SMTT(30)
  <2>7. s[p + 1] = "newline"
    <3>1. CASE k = 1
      <4>1. p = 0
        BY <1>5, <2>3, <3>1
      <4> QED
        BY <1>9, <4>1
    <3>2. CASE k # 1
      <4>1. k - 1 \in 1 .. m
        BY <1>5, <3>2
      <4>2. p \in cuts
        BY <1>5, <2>3, <4>1
      <4>3. p \in 1 .. l /\ text[p] = "newline"
        BY <1>1, <1>2, <4>2
      <4> QED
        BY <1>9, <4>3
    <3> QED
      BY <3>1, <3>2
  <2>8. ASSUME NEW o \in 1 .. q - p PROVE b[o] = s[p + o]
    <3>1. CASE o = 1
      <4>1. b[1] = "newline"
        BY <2>1, <2>3, <2>6
      <4> QED
        BY <2>7, <3>1, <4>1
    <3>2. CASE o # 1
      <4>1. o - 1 \in 1 .. q - p - 1 /\ ~ (o <= 1) /\ p + (o - 1) \in 1 .. l
            /\ (p + (o - 1)) + 1 = p + o
        BY <2>3, <3>2
      <4>2. b[o] = lines[k][o - 1]
        BY <2>6, <4>1
      <4>3. lines[k][o - 1] = text[p + (o - 1)]
        BY <2>4, <4>1
      <4>4. s[p + o] = text[p + (o - 1)]
        BY <1>9, <4>1
      <4> QED
        BY <4>2, <4>3, <4>4
    <3> QED
      BY <3>1, <3>2
  <2>9. p + Len(b) = q /\ \A o \in 1 .. Len(b) : b[o] = s[p + o]
    BY <2>3, <2>6, <2>8
  <2> QED
    BY <2>2, <2>3, <2>5, <2>9
<1>11. FlattenSeq(blocks) = s
  <2> DEFINE n == m + 1
  <2>1. n \in Nat /\ n >= 1 /\ c[n] = Len(s)
    BY <1>1, <1>5, <1>9
  <2>2. IsSequence(blocks) /\ Len(blocks) = n
    <3> DEFINE T == {blocks[k] : k \in 1 .. n}
    <3>1. blocks \in [1 .. n -> T]
      BY <1>8
    <3> HIDE DEF T
    <3>2. blocks \in Seq(T) /\ Len(blocks) = n
      BY <2>1, <3>1, FunctionIsSeq
    <3> QED
      BY <3>2, SeqIsSequence
  <2>3. \A k \in 0 .. n : c[k] \in 0 .. Len(s)
    BY <1>1, <1>5, <1>9
  <2>4. \A k \in 1 .. n : /\ IsSequence(blocks[k]) /\ c[k - 1] + Len(blocks[k]) = c[k]
                          /\ \A o \in 1 .. Len(blocks[k]) : blocks[k][o] = s[c[k - 1] + o]
    BY <1>10
  <2> HIDE DEF n
  <2>5. Pieces(blocks, n, s, c)
    BY <1>5, <1>9, <2>1, <2>2, <2>3, <2>4 DEF Pieces
  <2> QED
    BY <2>5, FlattenPieces
<1>12. Tail(s) = text
  <2> DEFINE t == Tail(s)
  <2>1. IsSequence(s) /\ Len(s) >= 1
    BY <1>9
  <2>2. IsSequence(t) /\ Len(t) = Len(s) - 1 /\ \A i \in 1 .. Len(s) - 1 : t[i] = s[i + 1]
    BY <2>1, TailIs
  <2> HIDE DEF t
  <2>3. Len(t) = l /\ \A i \in 1 .. l : t[i] = text[i]
    BY <1>9, <2>2
  <2>4. DOMAIN t = 1 .. l
    BY <2>2, <2>3, SequenceProperties
  <2>5. t = [i \in 1 .. l |-> t[i]] /\ text = [i \in 1 .. l |-> text[i]]
    BY <1>1, <2>2, <2>4, SequenceIsFunction
  <2>6. t = text
    BY <2>3, <2>5
  <2> QED
    BY <2>6 DEF t
<1> QED
  BY <1>3, <1>11, <1>12

EquationsOnly(text) ==
  \A i \in DOMAIN Lines(text) :
    \E a \in Plain, b \in Plain : Lines(text)[i] = Equation(a, b)

LEMMA EquationsOnlyAre ==
  ASSUME NEW text, IsSequence(text), EquationsOnly(text)
  PROVE  \E n, L, R : Equations(text, n, L, R)
<1> DEFINE cuts == {i \in DOMAIN text : text[i] = "newline"}
<1>1. Lines(text) = PartsBetween(text, cuts) /\ cuts \in SUBSET (DOMAIN text)
  BY DEF Lines
<1> HIDE DEF cuts
<1>2. PICK n \in Nat : n = Len(Lines(text)) /\ n >= 1 /\ IsSequence(Lines(text))
  BY <1>1, SomeParts
<1> DEFINE Sides(k) == CHOOSE p \in Plain \X Plain : Lines(text)[k] = Equation(p[1], p[2])
           L == [k \in 1 .. n |-> Sides(k)[1]]
           R == [k \in 1 .. n |-> Sides(k)[2]]
<1>3. ASSUME NEW k \in 1 .. n
      PROVE  L[k] \in Plain /\ R[k] \in Plain /\ Lines(text)[k] = Equation(L[k], R[k])
  <2>1. DOMAIN Lines(text) = 1 .. n
    BY <1>2, SequenceProperties
  <2>2. PICK a \in Plain, b \in Plain : Lines(text)[k] = Equation(a, b)
    BY <2>1 DEF EquationsOnly
  <2>3. <<a, b>> \in Plain \X Plain /\ <<a, b>>[1] = a /\ <<a, b>>[2] = b
    OBVIOUS
  <2>4. \E p \in Plain \X Plain : Lines(text)[k] = Equation(p[1], p[2])
    BY <2>2, <2>3, Zenon
  <2>5. Sides(k) \in Plain \X Plain /\ Lines(text)[k] = Equation(Sides(k)[1], Sides(k)[2])
    BY <2>4, Zenon
  <2> HIDE DEF Sides
  <2>6. L[k] = Sides(k)[1] /\ R[k] = Sides(k)[2]
    OBVIOUS
  <2> QED
    BY <2>5, <2>6
<1> HIDE DEF L, R
<1>4. Equations(text, n, L, R)
  BY <1>2, <1>3 DEF Equations
<1> QED
  BY <1>4

OtherTextsKeepOutcomes ==
  \A text \in Texts, returned \in {"want", "wrong"} :
    ~ EquationsOnly(text) /\ ~ Untouched(text)
      => (Holds(Enhanced(text), returned) <=> Holds(text, returned))

LEMMA TextsKeepOutcomes == ASSUME OtherTextsKeepOutcomes PROVE RewritingKeepsOutcomes
<1> SUFFICES ASSUME NEW text \in Texts, NEW returned \in {"want", "wrong"}
             PROVE  Holds(Enhanced(text), returned) <=> Holds(text, returned)
  BY DEF RewritingKeepsOutcomes
<1>1. CASE EquationsOnly(text)
  <2>1. IsSequence(text) /\ SyntaxOK(text)
    BY TextAssumption, SeqIsSequence
  <2>2. PICK n, L, R : Equations(text, n, L, R)
    BY <1>1, <2>1, EquationsOnlyAre
  <2> QED
    BY <2>1, <2>2, EquationsKeepOutcomes
<1>2. CASE Untouched(text)
  <2>1. IsSequence(text)
    BY TextAssumption, SeqIsSequence
  <2>2. Enhanced(text) = text
    BY <1>2, <2>1, UntouchedIsKept
  <2> QED
    BY <2>2
<1>3. CASE ~ EquationsOnly(text) /\ ~ Untouched(text)
  BY <1>3 DEF OtherTextsKeepOutcomes
<1> QED
  BY <1>1, <1>2, <1>3

MeaningInv ==
  /\ pc = "run" => given \in Texts /\ written \in {given, Enhanced(given)}
  /\ \A i \in DOMAIN ran[stage] : RanTests(i) =>
       /\ given \in Texts /\ ran[stage][i].returned \in {"want", "wrong"}
       /\ Holds(given, ran[stage][i].returned) <=> ran[stage][i].outcome = "expected"

LEMMA MeaningIsKept == ASSUME IInv, MeaningInv PROVE TestsKeepTheirMeaning
<1> SUFFICES ASSUME NEW i \in DOMAIN ran[stage], RanTests(i)
             PROVE  \E run \in Runs :
                      /\ run.says = given /\ run.returned = ran[stage][i].returned
                      /\ run.holds = (ran[stage][i].outcome = "expected")
  BY DEF TestsKeepTheirMeaning
<1> DEFINE returned == ran[stage][i].returned
<1>1. /\ given \in Texts /\ returned \in {"want", "wrong"}
      /\ Holds(given, returned) <=> ran[stage][i].outcome = "expected"
  BY DEF MeaningInv
<1>2. RunOf(given, returned) \in Runs
  BY <1>1 DEF Runs
<1>3. /\ RunOf(given, returned).says = given
      /\ RunOf(given, returned).returned = returned
      /\ RunOf(given, returned).holds = Holds(given, returned)
  BY DEF RunOf
<1>4. Holds(given, returned) = (ran[stage][i].outcome = "expected")
  BY <1>1 DEF Holds
<1> QED
  BY <1>2, <1>3, <1>4

(* A command that ran the tests of unchanged files.                        *)
LEMMA EndsAre ==
  ASSUME NEW run \in Ends
  PROVE  \/ run.returned = "unknown"
         \/ /\ run.returned \in {"want", "wrong"}
            /\ run.holds <=> Holds(written, run.returned)
<1>1. CASE run \in Runs /\ run.says = written
  <2>1. PICK says \in Texts \cup {Enhanced(t) : t \in Texts}, returned \in {"want", "wrong"} :
          run = RunOf(says, returned)
    BY <1>1 DEF Runs
  <2>2. run.says = says /\ run.returned = returned /\ run.holds = Holds(says, returned)
    BY <2>1 DEF RunOf
  <2> QED
    BY <1>1, <2>2
<1>2. CASE run.returned = "unknown"
  BY <1>2
<1> QED
  BY <1>1, <1>2, RaisedRunsAre DEF Ends

(* A command adds its outcome to those of the stage.                       *)
LEMMA RecordedOutcomes ==
  ASSUME IInv, MeaningInv, pc = "run", NEW outcome, NEW returned,
         Records(outcome, returned),
         returned # "unknown" =>
           /\ returned \in {"want", "wrong"}
           /\ Holds(given, returned) <=> outcome = "expected"
  PROVE  /\ \A s \in Stages : s # stage => ran'[s] = ran[s]
         /\ \A i \in DOMAIN ran'[stage] : ran'[stage][i].returned # "unknown" =>
              /\ given \in Texts /\ ran'[stage][i].returned \in {"want", "wrong"}
              /\ Holds(given, ran'[stage][i].returned)
                   <=> ran'[stage][i].outcome = "expected"
<1> DEFINE r == [outcome |-> outcome, found |-> disk, returned |-> returned]
<1>1. /\ stage \in Stages /\ ran[stage] \in Seq(Record) /\ given \in Texts
      /\ ran'[stage] = Append(ran[stage], r)
      /\ \A s \in Stages : s # stage => ran'[s] = ran[s]
  BY DEF IInv, TypeInv, Records, MeaningInv
<1>2. r.outcome = outcome /\ r.returned = returned
  OBVIOUS
<1> HIDE DEF r
<1>3. PICK n \in Nat : n = Len(ran[stage]) /\ DOMAIN ran[stage] = 1 .. n
  BY <1>1, LenProperties
<1>4. DOMAIN ran'[stage] = 1 .. n + 1 /\ ran'[stage][n + 1] = r
      /\ \A i \in 1 .. n : ran'[stage][i] = ran[stage][i]
  BY <1>1, <1>3
<1>5. ASSUME NEW i \in 1 .. n + 1, ran'[stage][i].returned # "unknown"
      PROVE  /\ ran'[stage][i].returned \in {"want", "wrong"}
             /\ Holds(given, ran'[stage][i].returned)
                  <=> ran'[stage][i].outcome = "expected"
  <2>1. CASE i = n + 1
    BY <1>2, <1>4, <1>5, <2>1
  <2>2. CASE i \in 1 .. n
    BY <1>3, <1>4, <1>5, <2>2 DEF MeaningInv, RanTests
  <2> QED
    BY <1>3, <2>1, <2>2
<1> QED
  BY <1>1, <1>4, <1>5

(* When a run ends the outcomes stay, or the other stage begins.           *)
LEMMA MeaningReturns ==
  ASSUME IInv, pc # "done", NEW passed \in BOOLEAN, NEW lines, RunReturns(passed, lines),
         pc # "idle",
         \A s \in Stages : s # stage => ran'[s] = ran[s],
         \A i \in DOMAIN ran'[stage] : ran'[stage][i].returned # "unknown" =>
           /\ given \in Texts /\ ran'[stage][i].returned \in {"want", "wrong"}
           /\ Holds(given, ran'[stage][i].returned) <=> ran'[stage][i].outcome = "expected"
  PROVE  MeaningInv'
<1>1. \/ stage = "visible" /\ stage' = "hidden" /\ pc' = "write"
      \/ pc' = "done" /\ UNCHANGED <<stage, given, written>>
  BY DEF RunReturns
<1>2. CASE stage = "visible" /\ stage' = "hidden" /\ pc' = "write"
  <2>1. ran'[stage'] = << >>
    BY <1>2 DEF IInv, StageInv, Stages
  <2> QED
    BY <1>2, <2>1 DEF MeaningInv
<1>3. CASE pc' = "done" /\ UNCHANGED <<stage, given, written>>
  BY <1>3 DEF MeaningInv, RanTests
<1> QED
  BY <1>1, <1>2, <1>3

LEMMA MeaningStep ==
  ASSUME IInv, MeaningInv, RewritingKeepsOutcomes, [Next]_testingVars
  PROVE  MeaningInv'
<1>1. \A i \in DOMAIN ran[stage] : ran[stage][i].returned # "unknown" =>
        /\ given \in Texts /\ ran[stage][i].returned \in {"want", "wrong"}
        /\ Holds(given, ran[stage][i].returned) <=> ran[stage][i].outcome = "expected"
  BY DEF MeaningInv, RanTests
<1>2. ASSUME UNCHANGED <<stage, given, ran>>, pc' # "run" \/ UNCHANGED <<pc, written>>
      PROVE  MeaningInv'
  BY <1>2 DEF MeaningInv, RanTests
<1>3. ASSUME Begins \/ WritingRaises \/ WritesFiles \/ CommandRaises PROVE MeaningInv'
  BY <1>2, <1>3 DEF Begins, WritingRaises, WritesFiles, CommandRaises, Raises
<1>4. ASSUME NEW says \in Texts, WritesTests(says) PROVE MeaningInv'
  <2>1. ran'[stage'] = << >> /\ given' = says /\ written' \in {says, Enhanced(says)}
    BY <1>4 DEF WritesTests, IInv, StageInv
  <2> QED
    BY <2>1 DEF MeaningInv
<1>5. ASSUME NEW succeeds \in BOOLEAN, Compiles(succeeds) PROVE MeaningInv'
  <2>1. pc = "compile" /\ ran' = ran
    BY <1>5 DEF Compiles
  <2>2. CASE pc' = "write_tests" /\ UNCHANGED <<stage, given>>
    BY <1>2, <2>1, <2>2
  <2>3. CASE RunReturns(FALSE, SyntaxErrorOutput)
    BY <1>1, <2>1, <2>3, MeaningReturns
  <2> QED
    BY <1>5, <2>2, <2>3 DEF Compiles
<1>6. ASSUME RunPasses PROVE MeaningInv'
  <2>1. pc = "run" /\ ran' = ran /\ RunReturns(TRUE, messages)
    BY <1>6 DEF RunPasses
  <2> QED
    BY <1>1, <2>1, MeaningReturns
<1>7. ASSUME NEW prints, CommandTimesOut(prints) PROVE MeaningInv'
  <2>1. /\ pc = "run" /\ Records("timeout", "unknown")
        /\ RunReturns(FALSE, messages \o <<Note>> \o prints)
    BY <1>7 DEF CommandTimesOut, MoreToRun
  <2> QED
    BY <2>1, RecordedOutcomes, MeaningReturns
<1>8. ASSUME NEW prints, NEW run \in Ends, CommandFails(run, prints) PROVE MeaningInv'
  <2>1. /\ pc = "run" /\ ~ run.holds /\ Records("other", run.returned)
        /\ RunReturns(FALSE, messages \o <<ExitNote>> \o prints \o run.output)
    BY <1>8 DEF CommandFails, MoreToRun
  <2>2. run.returned # "unknown" =>
          run.returned \in {"want", "wrong"} /\ ~ Holds(given, run.returned)
    BY <2>1, EndsAre DEF MeaningInv, RewritingKeepsOutcomes
  <2> QED
    BY <2>1, <2>2, RecordedOutcomes, MeaningReturns
<1>9. ASSUME NEW prints, NEW run \in Ends, NEW changed,
             CommandSucceeds(run, prints, changed)
      PROVE  MeaningInv'
  <2>1. /\ pc = "run" /\ run.holds /\ Records("expected", run.returned)
        /\ UNCHANGED <<pc, stage, given, written>>
    BY <1>9 DEF CommandSucceeds, MoreToRun
  <2>2. run.returned # "unknown" =>
          run.returned \in {"want", "wrong"} /\ Holds(given, run.returned)
    BY <2>1, EndsAre DEF MeaningInv, RewritingKeepsOutcomes
  <2> QED
    BY <2>1, <2>2, RecordedOutcomes DEF MeaningInv, RanTests
<1>10. ASSUME UNCHANGED testingVars PROVE MeaningInv'
  BY <1>2, <1>10 DEF testingVars
<1> QED
  BY <1>3, <1>4, <1>5, <1>6, <1>7, <1>8, <1>9, <1>10 DEF Next

(***************************************************************************)
(* A command that runs the tests ends as the tests say that were given, in *)
(* whatever stage and for whatever files: where the text is of equations   *)
(* of plain operands, however many, since _enhance_simple_equality_asserts *)
(* keeps their outcomes; where it leaves all lines alone; and for any      *)
(* other text whose outcomes it keeps.                                     *)
(***************************************************************************)
THEOREM OutcomesAreThoseOfTheTests ==
  ASSUME OtherTextsKeepOutcomes PROVE Spec => []TestsKeepTheirMeaning
<1>1. Init => MeaningInv
  BY DEF Init, MeaningInv, Stages
<1>2. IInv /\ MeaningInv /\ [Next]_testingVars => MeaningInv'
  BY MeaningStep, TextsKeepOutcomes
<1>3. IInv /\ MeaningInv => TestsKeepTheirMeaning
  BY MeaningIsKept
<1> QED
  BY InitInv, NextInv, <1>1, <1>2, <1>3, PTL DEF Spec

-----------------------------------------------------------------------------
(* What is told of hidden tests.  A line is discreet unless it has a       *)
(* marker and quotes the source without starting with "assert ".           *)
Discreet(lines) ==
  /\ IsSequence(lines)
  /\ \A i \in DOMAIN lines :
       "marked" \in lines[i].is /\ "source" \in lines[i].is => "assert" \in lines[i].is

PrintsAreDiscreet == \A prints \in Prints : Discreet(prints)

HiddenInv ==
  /\ Discreet(messages)
  /\ pc = "run" /\ ~ CanShow(stage) => written \in Texts
  /\ kept = [s \in Stages |-> kept[s]]
  /\ stage = "visible" => kept["hidden"] = << >>
  /\ HiddenSourceStaysHidden

LEMMA ConcatIsDiscreet ==
  ASSUME NEW a, Discreet(a), NEW b, Discreet(b)
  PROVE  Discreet(a \o b)
<1> DEFINE c == a \o b
<1>1. PICK n \in Nat : n = Len(a) /\ DOMAIN a = 1 .. n
  BY SequenceProperties DEF Discreet
<1>2. PICK m \in Nat : m = Len(b) /\ DOMAIN b = 1 .. m
  BY SequenceProperties DEF Discreet
<1>3. /\ IsSequence(c) /\ DOMAIN c = 1 .. n + m
      /\ \A i \in 1 .. n + m : c[i] = IF i <= n THEN a[i] ELSE b[i - n]
  BY <1>1, <1>2, ConcatIsSequence DEF Discreet
<1> HIDE DEF c
<1>4. ASSUME NEW i \in 1 .. n + m,
             "marked" \in c[i].is /\ "source" \in c[i].is
      PROVE  "assert" \in c[i].is
  <2>1. CASE i <= n
    <3>1. i \in DOMAIN a /\ c[i] = a[i]
      BY <1>1, <1>3, <2>1
    <3> QED
      BY <1>4, <3>1 DEF Discreet
  <2>2. CASE ~ (i <= n)
    <3>1. i - n \in DOMAIN b /\ c[i] = b[i - n]
      BY <1>1, <1>2, <1>3, <2>2
    <3> QED
      BY <1>4, <3>1 DEF Discreet
  <2> QED
    BY <2>1, <2>2
<1> QED
  BY <1>3, <1>4 DEF c, Discreet

LEMMA ShortIsDiscreet ==
  /\ Discreet(<< >>)
  /\ \A line : ("marked" \in line.is /\ "source" \in line.is => "assert" \in line.is)
       => Discreet(<<line>>)
<1>1. Discreet(<< >>)
  BY DEF Discreet, IsSequence
<1>2. ASSUME NEW line,
             "marked" \in line.is /\ "source" \in line.is => "assert" \in line.is
      PROVE  Discreet(<<line>>)
  BY <1>2 DEF Discreet, IsSequence
<1> QED
  BY <1>1, <1>2

LEMMA OutputIsDiscreet ==
  /\ Discreet(SyntaxErrorOutput) /\ Discreet(<<Note>>) /\ Discreet(<<ExitNote>>)
  /\ \A left, bound : Discreet(MessageOutput(left, bound))
  /\ \A text, returned : Discreet(FailureOutput(text, returned))
<1>1. Discreet(SyntaxErrorOutput) /\ Discreet(<<Note>>) /\ Discreet(<<ExitNote>>)
  BY ShortIsDiscreet DEF SyntaxErrorOutput, Note, ExitNote
<1>2. ASSUME NEW left, NEW bound PROVE Discreet(MessageOutput(left, bound))
  <2>1. CASE Contains(left, "braces")
    BY <2>1, ShortIsDiscreet DEF MessageOutput
  <2>2. CASE ~ Contains(left, "braces")
    <3> DEFINE l1 == [says |-> <<"AssertionError: Expression:">>, is |-> {"marked"}]
               l2 == [says |-> left, is |-> {"source"}]
               l3 == Heading("Expected:")
               l4 == Printed(<<bound.expected>>)
               l5 == Heading("Got:")
               l6 == Printed(<<bound.actual>>)
    <3>1. MessageOutput(left, bound) = <<l1, l2, l3, l4, l5, l6>>
      BY <2>2 DEF MessageOutput
    <3>3. /\ l1.is = {"marked"} /\ l2.is = {"source"}
          /\ l3.is = {} /\ l4.is = {} /\ l5.is = {} /\ l6.is = {}
      BY DEF Heading, Printed
    <3> HIDE DEF l1, l2, l3, l4, l5, l6
    <3>2. Discreet(<<l1, l2, l3, l4, l5, l6>>)
      BY <3>3 DEF Discreet, IsSequence
    <3> QED
      BY <3>1, <3>2
  <2> QED
    BY <2>1, <2>2
<1>3. ASSUME NEW text, NEW returned PROVE Discreet(FailureOutput(text, returned))
  <2>1. CASE ~ SyntaxOK(text)
    BY <1>1, <2>1 DEF FailureOutput
  <2>2. CASE SyntaxOK(text)
    <3>1. PICK st, left, bound :
            FailureOutput(text, returned) =
              <<[says |-> st, is |-> {"assert", "source"}]>> \o
                IF Contains(st, "open") THEN MessageOutput(left, bound)
                ELSE <<Heading("AssertionError")>>
      BY <2>2 DEF FailureOutput
    <3>2. Discreet(<<[says |-> st, is |-> {"assert", "source"}]>>)
      BY ShortIsDiscreet
    <3>3. Discreet(<<Heading("AssertionError")>>)
      BY ShortIsDiscreet DEF Heading
    <3> QED
      BY <1>2, <3>1, <3>2, <3>3, ConcatIsDiscreet
  <2> QED
    BY <2>1, <2>2
<1> QED
  BY <1>1, <1>2, <1>3

LEMMA RaisedIsDiscreet ==
  ASSUME NEW st
  PROVE  /\ IsSequence(RaisedOutput(st))
         /\ Head(st) # "expected=" => Discreet(RaisedOutput(st))
<1> DEFINE l1 == [says |-> st,
                  is |-> {"source"} \cup (IF Head(st) = "assert" THEN {"assert"} ELSE {})
                                    \cup (IF Head(st) = "expected=" THEN {"marked"} ELSE {})]
           l2 == [says |-> <<"TypeError:">>, is |-> {"marked"}]
<1>1. /\ RaisedOutput(st) = <<l1, l2>>
      /\ Head(st) # "expected=" => "marked" \notin l1.is
      /\ "source" \notin l2.is
  BY DEF RaisedOutput
<1> HIDE DEF l1, l2
<1>2. IsSequence(<<l1, l2>>)
  BY DEF IsSequence
<1>3. ASSUME Head(st) # "expected=" PROVE Discreet(<<l1, l2>>)
  BY <1>1, <1>2, <1>3 DEF Discreet
<1> QED
  BY <1>1, <1>2, <1>3

LEMMA EndsAreSequences == ASSUME NEW run \in Ends PROVE IsSequence(run.output)
<1>1. CASE run \in Runs
  <2>1. PICK says, returned : run = RunOf(says, returned)
    BY <1>1 DEF Runs
  <2> QED
    BY <2>1, ShortIsDiscreet, OutputIsDiscreet DEF RunOf, Discreet
<1>2. CASE run.output = << >>
  BY <1>2, ShortIsDiscreet DEF Discreet
<1>3. CASE run \in RaisedRuns(written)
  BY <1>3, RaisedRunsAre, RaisedIsDiscreet
<1> QED
  BY <1>1, <1>2, <1>3 DEF Ends

(* Tests that are as they were given, for rewritten ones are not.          *)
LEMMA EndsAreDiscreet ==
  ASSUME written \in Texts, NEW run \in Ends PROVE Discreet(run.output)
<1>1. CASE run \in Runs
  <2>1. PICK says, returned : run = RunOf(says, returned)
    BY <1>1 DEF Runs
  <2> QED
    BY <2>1, ShortIsDiscreet, OutputIsDiscreet DEF RunOf
<1>2. CASE run.output = << >>
  BY <1>2, ShortIsDiscreet
<1>3. CASE run \in RaisedRuns(written)
  BY <1>3, RaisedRunsAre, RaisedIsDiscreet, OwnNamesAssumption
<1> QED
  BY <1>1, <1>2, <1>3 DEF Ends

(* The safe summary leaves out all lines that quote the source.            *)
LEMMA SummaryHidesSource ==
  ASSUME NEW lines, Discreet(lines), NEW i \in DOMAIN SafeSummary(lines)
  PROVE  "source" \notin SafeSummary(lines)[i].is
<1> DEFINE S == {lines[j] : j \in DOMAIN lines}
           places == {j \in DOMAIN lines : /\ "marked" \in lines[j].is
                                           /\ "assert" \notin lines[j].is}
           safe == Selected(lines, places)
<1>1. lines \in Seq(S) /\ places \in SUBSET (DOMAIN lines)
  BY DEF Discreet, IsSequence
<1>2. \A j \in places : "source" \notin lines[j].is
  BY DEF Discreet
<1>3. SafeSummary(lines) = IF safe = << >> THEN <<Note>> ELSE safe
  BY DEF SafeSummary
<1> HIDE DEF S, places
<1>4. \A k \in DOMAIN safe : \E j \in places : safe[k] = lines[j]
  BY <1>1, SelectedProperties
<1> HIDE DEF safe
<1>5. CASE safe = << >>
  BY <1>3, <1>5 DEF Note
<1>6. CASE safe # << >>
  BY <1>2, <1>3, <1>4, <1>6
<1> QED
  BY <1>5, <1>6

LEMMA HiddenReturns ==
  ASSUME IInv, HiddenInv, pc # "done", NEW passed \in BOOLEAN, NEW lines,
         ~ CanShow(stage) => Discreet(lines),
         RunReturns(passed, lines), UNCHANGED tests
  PROVE  HiddenInv'
<1>1. /\ stage \in Stages /\ verdict = "none" /\ messages' = << >>
      /\ kept' = [kept EXCEPT ![stage] = IF stage = "hidden" /\ ~ passed
                                           THEN SafeSummary(lines) ELSE lines]
  BY DEF RunReturns, Tells, IInv, TypeInv, StageInv
<1>2. Discreet(messages')
  BY <1>1, ShortIsDiscreet
<1>3. /\ kept' = [s \in Stages |-> kept'[s]]
      /\ stage = "hidden" /\ ~ passed => kept'["hidden"] = SafeSummary(lines)
      /\ stage = "visible" => kept'["hidden"] = << >>
  BY <1>1 DEF HiddenInv, Stages
<1>4. \/ verdict' # "failed"
      \/ stage = "visible"
      \/ stage = "hidden" /\ ~ passed
  BY <1>1 DEF RunReturns, Stages
<1>5. stage' = "visible" => stage = "visible"
  BY DEF RunReturns
<1>6. CanShow("hidden")' = CanShow("hidden")
  BY DEF CanShow
<1>7. HiddenSourceStaysHidden'
  BY <1>3, <1>4, <1>6, SummaryHidesSource DEF HiddenSourceStaysHidden
<1>8. pc' # "run"
  BY DEF RunReturns
<1> QED
  BY <1>2, <1>3, <1>5, <1>7, <1>8, StagesAre, <1>1 DEF HiddenInv

LEMMA HiddenStep ==
  ASSUME IInv, HiddenInv, PrintsAreDiscreet, [Next]_testingVars
  PROVE  HiddenInv'
<1>1. ASSUME UNCHANGED <<tests, stage, messages, kept>>,
             verdict' # "failed" \/ verdict' = verdict,
             \/ pc' # "run"
             \/ UNCHANGED <<pc, written>>
             \/ ~ CanShow(stage) => written' \in Texts
      PROVE  HiddenInv'
  BY <1>1 DEF HiddenInv, HiddenSourceStaysHidden, CanShow
<1>2. Discreet(messages) /\ \A prints \in Prints : Discreet(prints)
  BY DEF HiddenInv, PrintsAreDiscreet
<1>3. ASSUME \/ Begins \/ WritingRaises \/ WritesFiles \/ CommandRaises
             \/ \E says \in Texts : WritesTests(says)
      PROVE  HiddenInv'
  BY <1>1, <1>3 DEF Begins, WritingRaises, WritesFiles, CommandRaises, Raises, WritesTests,
                    taskVars
<1>4. ASSUME NEW succeeds \in BOOLEAN, Compiles(succeeds) PROVE HiddenInv'
  <2>1. UNCHANGED tests
    BY <1>4 DEF Compiles, taskVars
  <2>2. CASE pc' = "write_tests" /\ UNCHANGED <<stage, messages, kept, verdict>>
    BY <1>1, <2>1, <2>2
  <2>3. CASE pc = "compile" /\ RunReturns(FALSE, SyntaxErrorOutput)
    BY <2>1, <2>3, OutputIsDiscreet, HiddenReturns
  <2> QED
    BY <1>4, <2>2, <2>3 DEF Compiles
<1>5. ASSUME RunPasses PROVE HiddenInv'
  BY <1>2, <1>5, HiddenReturns DEF RunPasses, taskVars
<1>6. ASSUME NEW prints \in Prints, CommandTimesOut(prints) PROVE HiddenInv'
  <2>1. Discreet(messages \o <<Note>> \o prints)
    BY <1>2, OutputIsDiscreet, ConcatIsDiscreet
  <2> QED
    BY <1>6, <2>1, HiddenReturns DEF CommandTimesOut, MoreToRun, taskVars
<1>7. ASSUME NEW prints \in Prints, NEW run \in Ends, pc = "run" PROVE
        /\ Discreet(messages \o <<ExitNote>> \o prints)
        /\ ~ CanShow(stage) => Discreet(messages \o <<ExitNote>> \o prints \o run.output)
  <2>1. Discreet(messages \o <<ExitNote>>)
    BY <1>2, OutputIsDiscreet, ConcatIsDiscreet
  <2>2. Discreet(messages \o <<ExitNote>> \o prints)
    BY <1>2, <2>1, ConcatIsDiscreet
  <2> QED
    BY <1>7, <2>2, EndsAreDiscreet, ConcatIsDiscreet DEF HiddenInv
<1>8. ASSUME NEW prints \in Prints, NEW run \in Ends, CommandFails(run, prints)
      PROVE  HiddenInv'
  BY <1>7, <1>8, HiddenReturns DEF CommandFails, MoreToRun, taskVars
<1>9. ASSUME NEW prints \in Prints, NEW run \in Ends, NEW changed \in SUBSET Files,
             CommandSucceeds(run, prints, changed)
      PROVE  HiddenInv'
  <2>1. /\ messages' = messages \o <<ExitNote>> \o prints /\ pc = "run"
        /\ UNCHANGED <<tests, pc, stage, written, kept, verdict>>
    BY <1>9 DEF CommandSucceeds, MoreToRun, taskVars
  <2> QED
    BY <1>7, <2>1 DEF HiddenInv, HiddenSourceStaysHidden, CanShow
<1>10. ASSUME UNCHANGED testingVars PROVE HiddenInv'
  BY <1>1, <1>10 DEF testingVars, taskVars
<1> QED
  BY <1>3, <1>4, <1>5, <1>6, <1>8, <1>9, <1>10 DEF Next

(***************************************************************************)
(* What safe_hidden_failure_summary tells of a hidden failure quotes no    *)
(* source of the hidden tests, for any tests, files and texts, where a     *)
(* name of theirs says that they are hidden and the commands themselves    *)
(* print no line that is marked and quotes it.                             *)
(***************************************************************************)
THEOREM HiddenSourceIsKept ==
  ASSUME PrintsAreDiscreet PROVE Spec => []HiddenSourceStaysHidden
<1>1. Init => HiddenInv
  BY ShortIsDiscreet DEF Init, HiddenInv, HiddenSourceStaysHidden, Stages
<1>2. IInv /\ HiddenInv /\ [Next]_testingVars => HiddenInv'
  BY HiddenStep
<1>3. HiddenInv => HiddenSourceStaysHidden
  BY DEF HiddenInv
<1> QED
  BY InitInv, NextInv, <1>1, <1>2, <1>3, PTL DEF Spec

-----------------------------------------------------------------------------
(* What is told of visible tests.  The lines before a failure have no      *)
(* headings of values, and a failed equality prints seven lines, of which  *)
(* the last four are the values expected and got with their headings.      *)
Unheaded(lines) ==
  /\ IsSequence(lines)
  /\ \A i \in DOMAIN lines : lines[i].says # <<"Expected:">> /\ lines[i].says # <<"Got:">>

EqualityOutput ==
  <<[says |-> <<"assert", "actual", "==", "expected", ",", "open", "call", "close">>,
     is |-> {"assert", "source"}],
    [says |-> <<"AssertionError: Expression:">>, is |-> {"marked"}],
    [says |-> <<"call">>, is |-> {"source"}],
    Heading("Expected:"), Printed(<<"want">>), Heading("Got:"), Printed(<<"wrong">>)>>

LEMMA EqualityOutputIs ==
  /\ IsSequence(EqualityOutput) /\ Len(EqualityOutput) = 7
  /\ EqualityOutput[1].says # <<"Expected:">> /\ EqualityOutput[1].says # <<"Got:">>
  /\ EqualityOutput[2].says = <<"AssertionError: Expression:">>
  /\ EqualityOutput[3].says = <<"call">> /\ EqualityOutput[4].says = <<"Expected:">>
  /\ EqualityOutput[5].says = <<"want">> /\ EqualityOutput[6].says = <<"Got:">> /\ EqualityOutput[7].says = <<"wrong">>
<1>1. \A a, b, c, d, e, f, g : /\ IsSequence(<<a, b, c, d, e, f, g>>)
                               /\ Len(<<a, b, c, d, e, f, g>>) = 7
  BY DEF IsSequence
<1>2. IsSequence(EqualityOutput) /\ Len(EqualityOutput) = 7
  BY <1>1 DEF EqualityOutput
<1>3. Len(EqualityOutput[1].says) = 8 /\ Len(<<"Expected:">>) = 1 /\ Len(<<"Got:">>) = 1
  BY DEF EqualityOutput
<1> QED
  BY <1>2, <1>3 DEF EqualityOutput, Heading, Printed

LEMMA LinesBefore ==
  ASSUME NEW before, Unheaded(before)
  PROVE  LET lines == before \o EqualityOutput IN
         /\ IsSequence(lines) /\ Len(before) \in Nat
         /\ Len(lines) = Len(before) + 7 /\ DOMAIN lines = 1 .. Len(before) + 7
         /\ \A i \in 1 .. Len(before) :
              lines[i].says # <<"Expected:">> /\ lines[i].says # <<"Got:">>
         /\ \A k \in 1 .. 7 : lines[Len(before) + k] = EqualityOutput[k]
<1> DEFINE lines == before \o EqualityOutput
<1>1. PICK n \in Nat : n = Len(before) /\ DOMAIN before = 1 .. n
  BY SequenceProperties DEF Unheaded
<1>2. /\ IsSequence(lines) /\ Len(lines) = n + 7 /\ DOMAIN lines = 1 .. n + 7
      /\ \A i \in 1 .. n + 7 : lines[i] = IF i <= n THEN before[i] ELSE EqualityOutput[i - n]
  <2>1. IsSequence(before) /\ IsSequence(EqualityOutput) /\ Len(EqualityOutput) = 7
    BY EqualityOutputIs DEF Unheaded
  <2> HIDE DEF lines
  <2>2. /\ IsSequence(lines) /\ Len(lines) = Len(before) + Len(EqualityOutput)
        /\ DOMAIN lines = 1 .. Len(before) + Len(EqualityOutput)
        /\ \A i \in 1 .. Len(before) + Len(EqualityOutput) :
             lines[i] = IF i <= Len(before) THEN before[i] ELSE EqualityOutput[i - Len(before)]
    BY <2>1, ConcatIsSequence DEF lines
  <2> QED
    BY <1>1, <2>1, <2>2
<1> HIDE DEF lines
<1>3. ASSUME NEW k \in 1 .. 7 PROVE lines[n + k] = EqualityOutput[k]
  <2>1. n + k \in 1 .. n + 7 /\ ~ (n + k <= n) /\ (n + k) - n = k
    OBVIOUS
  <2> QED
    BY <1>2, <2>1
<1>4. ASSUME NEW i \in 1 .. n
      PROVE  lines[i].says # <<"Expected:">> /\ lines[i].says # <<"Got:">>
  <2>1. lines[i] = before[i]
    BY <1>2
  <2> QED
    BY <1>1, <2>1 DEF Unheaded
<1> QED
  BY <1>1, <1>2, <1>3, <1>4 DEF lines

(* The block of values is the one of the failure.                          *)
LEMMA ContextIs ==
  ASSUME NEW lines, NEW n \in Nat, Len(lines) = n + 7, DOMAIN lines = 1 .. n + 7,
         \A j \in 1 .. n : lines[j].says # <<"Expected:">> /\ lines[j].says # <<"Got:">>,
         \A k \in 1 .. 7 : lines[n + k] = EqualityOutput[k]
  PROVE  ExpectedGotContext(lines)
           = <<Heading("Expression:"), EqualityOutput[3], EqualityOutput[4], EqualityOutput[5], Heading("Got:"), EqualityOutput[7]>>
<1> DEFINE Got(i) == SelectInSubSeq(lines, i + 2, IF i + 5 <= Len(lines) THEN i + 5 ELSE Len(lines),
                                    LAMBDA line : line.says = <<"Got:">>)
           blocks == {i \in DOMAIN lines :
                        /\ Says(lines, i, "Expected:")
                        /\ Got(i) # 0 /\ Got(i) < Len(lines)}
           i == Min(blocks)
<1>1. ExpectedGotContext(lines)
        = IF blocks = {} THEN << >>
          ELSE (IF i > 1 /\ ~ Says(lines, i - 1, "AssertionError: Expression:")
                  THEN <<Heading("Expression:"), lines[i - 1]>> ELSE << >>)
               \o <<lines[i], lines[i + 1], Heading("Got:"), lines[Got(i) + 1]>>
  BY DEF ExpectedGotContext
<1>3. /\ lines[n + 1] = EqualityOutput[1] /\ lines[n + 2] = EqualityOutput[2] /\ lines[n + 3] = EqualityOutput[3]
      /\ lines[n + 4] = EqualityOutput[4] /\ lines[n + 5] = EqualityOutput[5] /\ lines[n + 6] = EqualityOutput[6]
      /\ lines[n + 7] = EqualityOutput[7]
  OBVIOUS
<1> HIDE DEF Got, blocks, i
<1>4. \A j \in 1 .. n + 7 : \/ j \in 1 .. n \/ j = n + 1 \/ j = n + 2 \/ j = n + 3
                            \/ j = n + 4 \/ j = n + 5 \/ j = n + 6 \/ j = n + 7
  OBVIOUS
<1>5. /\ <<"AssertionError: Expression:">> # <<"Expected:">> /\ <<"call">> # <<"Expected:">>
      /\ <<"want">> # <<"Expected:">> /\ <<"Got:">> # <<"Expected:">>
      /\ <<"wrong">> # <<"Expected:">> /\ <<"wrong">> # <<"Got:">>
      /\ <<"call">> # <<"AssertionError: Expression:">>
  OBVIOUS
<1>6. \A j \in 1 .. n + 7 : Says(lines, j, "Expected:") <=> j = n + 4
  <2>1. ASSUME NEW j \in 1 .. n PROVE ~ Says(lines, j, "Expected:") /\ j # n + 4
    BY DEF Says
  <2>2. Says(lines, n + 4, "Expected:")
    <3>1. n + 4 \in 1 .. n + 7
      OBVIOUS
    <3> QED
      BY <1>3, <3>1, EqualityOutputIs DEF Says
  <2>3. /\ ~ Says(lines, n + 1, "Expected:") /\ ~ Says(lines, n + 2, "Expected:")
        /\ ~ Says(lines, n + 3, "Expected:") /\ ~ Says(lines, n + 5, "Expected:")
        /\ ~ Says(lines, n + 6, "Expected:") /\ ~ Says(lines, n + 7, "Expected:")
    BY <1>3, <1>5, EqualityOutputIs DEF Says
  <2> QED
    BY <1>4, <2>1, <2>2, <2>3
<1>7. Got(n + 4) = n + 6
  <2> DEFINE I == {j \in (n + 4) + 2 .. (IF (n + 4) + 5 <= Len(lines) THEN (n + 4) + 5 ELSE Len(lines)) :
                     lines[j].says = <<"Got:">>}
  <2>1. \A j : j \in I <=> j = n + 6
    <3>1. ~ ((n + 4) + 5 <= Len(lines)) /\ \A j : j \in (n + 4) + 2 .. Len(lines) <=> j = n + 6 \/ j = n + 7
      OBVIOUS
    <3> QED
      BY <1>3, <1>5, <3>1, EqualityOutputIs
  <2>2. Got(n + 4) = IF I # {} THEN Min(I) ELSE 0
    BY DEF SelectInSubSeq, Got
  <2> HIDE DEF I
  <2>3. Min(I) = n + 6
    BY <2>1, MinIs
  <2> QED
    BY <2>1, <2>2, <2>3
<1>8. \A j : j \in blocks <=> j = n + 4
  BY <1>6, <1>7, SMTT(30) DEF blocks
<1>9. i = n + 4
  BY <1>8, MinIs DEF i
<1>10. ~ Says(lines, i - 1, "AssertionError: Expression:")
  <2>1. i - 1 = n + 3
    BY <1>9
  <2> QED
    BY <1>3, <1>5, <2>1, EqualityOutputIs DEF Says
<1>11. /\ i > 1 /\ lines[i - 1] = EqualityOutput[3] /\ lines[i] = EqualityOutput[4] /\ lines[i + 1] = EqualityOutput[5]
       /\ lines[Got(i) + 1] = EqualityOutput[7] /\ blocks # {}
  <2>1. i > 1 /\ i - 1 = n + 3 /\ i + 1 = n + 5 /\ Got(i) + 1 = n + 7
    BY <1>7, <1>9
  <2> QED
    BY <1>3, <1>8, <1>9, <2>1
<1>12. ExpectedGotContext(lines)
         = <<Heading("Expression:"), lines[i - 1]>>
           \o <<lines[i], lines[i + 1], Heading("Got:"), lines[Got(i) + 1]>>
  BY <1>1, <1>10, <1>11 DEF blocks, i, Got
<1>13. ASSUME NEW p, NEW q, NEW u, NEW v, NEW w, NEW x
       PROVE  <<p, q>> \o <<u, v, w, x>> = <<p, q, u, v, w, x>>
  <2>1. /\ IsSequence(<<p, q>>) /\ IsSequence(<<u, v, w, x>>)
        /\ Len(<<p, q>>) = 2 /\ Len(<<u, v, w, x>>) = 4
    BY DEF IsSequence
  <2> DEFINE s == <<p, q>> \o <<u, v, w, x>>
  <2>2. /\ IsSequence(s) /\ Len(s) = 6 /\ DOMAIN s = 1 .. 6
        /\ \A k \in 1 .. 6 : s[k] = IF k <= 2 THEN <<p, q>>[k] ELSE <<u, v, w, x>>[k - 2]
    <3>1. /\ IsSequence(s) /\ Len(s) = 2 + 4 /\ DOMAIN s = 1 .. 2 + 4
          /\ \A k \in 1 .. 2 + 4 : s[k] = IF k <= 2 THEN <<p, q>>[k] ELSE <<u, v, w, x>>[k - 2]
      BY <2>1, ConcatIsSequence
    <3> HIDE DEF s
    <3> QED
      BY <3>1
  <2> HIDE DEF s
  <2>3. s[1] = p /\ s[2] = q /\ s[3] = u /\ s[4] = v /\ s[5] = w /\ s[6] = x
    BY <2>2
  <2>4. s = [k \in 1 .. 6 |-> s[k]]
    BY <2>2 DEF IsSequence
  <2>5. s = <<p, q, u, v, w, x>>
    BY <2>2, <2>3, <2>4
  <2> QED
    BY <2>5 DEF s
<1> QED
  BY <1>11, <1>12, <1>13

(* It comes first in the summary, and as its lines differ dict.fromkeys    *)
(* keeps all of them; so the values are read from it.                      *)
LEMMA ExplainsEquality ==
  ASSUME NEW before, Unheaded(before)
  PROVE  ExtractExpectedGot(Summarize(before \o EqualityOutput))
           = [expected |-> "want", got |-> "wrong"]
<1> DEFINE lines == before \o EqualityOutput
           context == ExpectedGotContext(lines)
           all == context \o Signals(lines) \o lines
           says == [i \in DOMAIN all |-> all[i].says]
           places == {i \in DOMAIN all : \A j \in 1 .. i - 1 : says[j] # says[i]}
           new == Selected(says, places)
           S == {says[i] : i \in DOMAIN says}
<1>1. Summarize(lines) = new
  BY DEF Summarize, Deduplicated
<1>2. /\ IsSequence(lines)
      /\ context = <<Heading("Expression:"), EqualityOutput[3], EqualityOutput[4],
                     EqualityOutput[5], Heading("Got:"), EqualityOutput[7]>>
  BY LinesBefore, ContextIs
<1>3. IsSequence(context) /\ Len(context) = 6
  <2>1. \A a, b, c, d, e, f : IsSequence(<<a, b, c, d, e, f>>) /\ Len(<<a, b, c, d, e, f>>) = 6
    BY DEF IsSequence
  <2> QED
    BY <1>2, <2>1
<1>4. IsSequence(Signals(lines))
  <2> DEFINE T == {lines[i] : i \in DOMAIN lines}
             signals == {i \in DOMAIN lines : HasSignal(lines[i])}
  <2>1. lines \in Seq(T) /\ signals \in SUBSET (DOMAIN lines)
    BY <1>2 DEF IsSequence
  <2>2. Signals(lines) = Selected(lines, signals)
    BY DEF Signals
  <2> HIDE DEF T, signals, lines
  <2>3. Selected(lines, signals) \in Seq(T)
    BY <2>1, SelectedProperties
  <2> QED
    BY <2>2, <2>3, SeqIsSequence
<1> HIDE DEF lines, context
<1>5. /\ IsSequence(all) /\ Len(all) \in Nat /\ Len(all) >= 6
      /\ \A k \in 1 .. 6 : all[k] = context[k]
  <2> DEFINE front == context \o Signals(lines)
  <2>1. Len(Signals(lines)) \in Nat /\ Len(lines) \in Nat
    BY <1>2, <1>4, SequenceProperties
  <2>2. /\ IsSequence(front) /\ Len(front) = 6 + Len(Signals(lines))
        /\ \A i \in 1 .. 6 + Len(Signals(lines)) :
             front[i] = IF i <= 6 THEN context[i] ELSE Signals(lines)[i - 6]
    <3>1. /\ IsSequence(front) /\ Len(front) = Len(context) + Len(Signals(lines))
          /\ \A i \in 1 .. Len(context) + Len(Signals(lines)) :
               front[i] = IF i <= Len(context) THEN context[i]
                          ELSE Signals(lines)[i - Len(context)]
      BY <1>3, <1>4, ConcatIsSequence
    <3> HIDE DEF front
    <3> QED
      BY <1>3, <3>1
  <2> HIDE DEF front
  <2>3. /\ IsSequence(front \o lines) /\ Len(front \o lines) = Len(front) + Len(lines)
        /\ \A i \in 1 .. Len(front) + Len(lines) :
             (front \o lines)[i] = IF i <= Len(front) THEN front[i] ELSE lines[i - Len(front)]
    BY <1>2, <2>2, ConcatIsSequence
  <2>4. all = front \o lines
    BY DEF front
  <2> HIDE DEF all
  <2> QED
    BY <2>1, <2>2, <2>3, <2>4
<1>6. /\ all[1].says = <<"Expression:">> /\ all[2].says = <<"call">>
      /\ all[3].says = <<"Expected:">> /\ all[4].says = <<"want">>
      /\ all[5].says = <<"Got:">> /\ all[6].says = <<"wrong">>
  <2> HIDE DEF all
  <2>1. /\ context[1] = Heading("Expression:") /\ context[2] = EqualityOutput[3]
        /\ context[3] = EqualityOutput[4] /\ context[4] = EqualityOutput[5]
        /\ context[5] = Heading("Got:") /\ context[6] = EqualityOutput[7]
    BY <1>2
  <2>2. /\ all[1] = context[1] /\ all[2] = context[2] /\ all[3] = context[3]
        /\ all[4] = context[4] /\ all[5] = context[5] /\ all[6] = context[6]
    BY <1>5
  <2>3. Heading("Expression:").says = <<"Expression:">> /\ Heading("Got:").says = <<"Got:">>
    BY DEF Heading
  <2> QED
    BY <2>1, <2>2, <2>3, EqualityOutputIs
<1> HIDE DEF all
<1>7. PICK n \in Nat : n = Len(all) /\ n >= 6 /\ DOMAIN all = 1 .. n
  BY <1>5, SequenceProperties
<1>8. /\ DOMAIN says = 1 .. n
      /\ says[1] = <<"Expression:">> /\ says[2] = <<"call">> /\ says[3] = <<"Expected:">>
      /\ says[4] = <<"want">> /\ says[5] = <<"Got:">> /\ says[6] = <<"wrong">>
  BY <1>6, <1>7
<1>9. says \in Seq(S)
  <2>1. says \in [1 .. n -> S]
    BY <1>8
  <2> QED
    BY <2>1, FunctionIsSeq
<1> HIDE DEF says
<1>10. 1 .. 6 \subseteq places /\ places \in SUBSET (DOMAIN says)
  <2>1. ASSUME NEW i \in 1 .. 6, NEW j \in 1 .. i - 1 PROVE says[j] # says[i]
    <3>1. \/ i = 1 \/ i = 2 \/ i = 3 \/ i = 4 \/ i = 5 \/ i = 6
      OBVIOUS
    <3>2. \/ j = 1 \/ j = 2 \/ j = 3 \/ j = 4 \/ j = 5
      OBVIOUS
    <3>3. j < i
      OBVIOUS
    <3> QED
      BY <1>8, <3>1, <3>2, <3>3
  <2>2. 1 .. 6 \subseteq DOMAIN all
    BY <1>7
  <2> QED
    BY <1>7, <1>8, <2>1, <2>2
<1> HIDE DEF places, S
<1>11. Len(new) >= 6 /\ \A k \in 1 .. 6 : new[k] = says[k]
  BY <1>9, <1>10, SelectedFirst
<1>12. Len(new) \in Nat
  BY <1>9, <1>10, SelectedProperties, LenProperties
<1> HIDE DEF new
<1>13. /\ new[1] = <<"Expression:">> /\ new[2] = <<"call">> /\ new[3] = <<"Expected:">>
       /\ new[4] = <<"want">> /\ new[5] = <<"Got:">> /\ new[6] = <<"wrong">>
  BY <1>8, <1>11
<1>14. SelectInSeq(new, LAMBDA line : line = <<"Expected:">>) = 3
  <2> DEFINE I == {i \in 1 .. Len(new) : new[i] = <<"Expected:">>}
  <2>1. 3 \in I /\ 1 \notin I /\ 2 \notin I /\ I \in SUBSET Nat
    BY <1>11, <1>12, <1>13
  <2>2. SelectInSeq(new, LAMBDA line : line = <<"Expected:">>) = IF I # {} THEN Min(I) ELSE 0
    BY DEF SelectInSeq
  <2>3. \A i \in I : i >= 1
    OBVIOUS
  <2> HIDE DEF I
  <2>4. \A i \in I : 3 <= i
    BY <2>1, <2>3
  <2> QED
    BY <2>1, <2>2, <2>4, MinIs
<1>15. SelectInSubSeq(new, 3 + 2, Len(new) - 1, LAMBDA line : line = <<"Got:">>) = 5
  <2> DEFINE I == {i \in 3 + 2 .. Len(new) - 1 : new[i] = <<"Got:">>}
  <2>1. 5 \in I /\ I \in SUBSET Nat /\ \A i \in I : 5 <= i
    BY <1>11, <1>12, <1>13
  <2>2. SelectInSubSeq(new, 3 + 2, Len(new) - 1, LAMBDA line : line = <<"Got:">>)
          = IF I # {} THEN Min(I) ELSE 0
    BY DEF SelectInSubSeq
  <2> HIDE DEF I
  <2> QED
    BY <2>1, <2>2, MinIs
<1>16. Literal(new, 4) = "want" /\ Literal(new, 6) = "wrong"
  <2>1. 4 \in DOMAIN new /\ 6 \in DOMAIN new
    <3>1. DOMAIN new = 1 .. Len(new)
      BY <1>9, <1>10, SelectedProperties, LenProperties DEF new
    <3> QED
      BY <1>11, <1>12, <3>1
  <2> QED
    BY <1>13, <2>1 DEF Literal, Literals
<1>17. ExtractExpectedGot(new) = [expected |-> Literal(new, 4), got |-> Literal(new, 6)]
  <2> DEFINE e == SelectInSeq(new, LAMBDA line : line = <<"Expected:">>)
             g == SelectInSubSeq(new, e + 2, Len(new) - 1, LAMBDA line : line = <<"Got:">>)
  <2>1. ExtractExpectedGot(new)
          = IF e = 0 \/ g = 0 THEN [expected |-> "none", got |-> "none"]
            ELSE [expected |-> IF g = e + 2 THEN Literal(new, e + 1) ELSE "none",
                  got |-> Literal(new, g + 1)]
    BY DEF ExtractExpectedGot
  <2>2. e = 3 /\ g = 5
    BY <1>14, <1>15
  <2> HIDE DEF e, g
  <2> QED
    BY <2>1, <2>2
<1> QED
  BY <1>1, <1>16, <1>17 DEF lines

(* A text of equalities of a call with a literal.                          *)
EqualitiesOnly(text) ==
  \A i \in DOMAIN Lines(text) : Lines(text)[i] = <<"assert", "call", "==", "want">>

(* What the first message of a text of equalities prints, when the code    *)
(* under test returns what is wrong.                                       *)
LEMMA MessagePrints ==
  ASSUME NEW bound, bound.expected = "want", bound.actual = "wrong"
  PROVE  LET st == Message("call")
             left == SubSeq(st, SelectInSeq(st, LAMBDA t : t = "open") + 1, Len(st) - 1)
         IN  /\ Contains(st, "open")
             /\ <<[says |-> st, is |-> {"assert", "source"}]>> \o MessageOutput(left, bound)
                  = EqualityOutput
<1> DEFINE st == Message("call")
           left == SubSeq(st, SelectInSeq(st, LAMBDA t : t = "open") + 1, Len(st) - 1)
<1> HIDE DEF left
<1>1. IsSequence(st) /\ Len(st) = 8
  <2>1. \A a, b, c, d, e, f, g, h : /\ IsSequence(<<a, b, c, d, e, f, g, h>>)
                                    /\ Len(<<a, b, c, d, e, f, g, h>>) = 8
    BY DEF IsSequence
  <2> QED
    BY <2>1 DEF Message
<1>2. /\ st[1] = "assert" /\ st[2] = "actual" /\ st[3] = "==" /\ st[4] = "expected"
      /\ st[5] = "," /\ st[6] = "open" /\ st[7] = "call" /\ st[8] = "close"
  BY DEF Message
<1>3. st = <<"assert", "actual", "==", "expected", ",", "open", "call", "close">>
  BY DEF Message
<1> HIDE DEF st
<1>4. SelectInSeq(st, LAMBDA t : t = "open") = 6
  <2>1. \A i \in 1 .. 5 : i = 1 \/ i = 2 \/ i = 3 \/ i = 4 \/ i = 5
    OBVIOUS
  <2>2. \A i \in 1 .. 5 : st[i] # "open"
    BY <1>2, <2>1
  <2>0. PICK n \in Nat : n = 8
    OBVIOUS
  <2>3. PICK p \in 1 .. n : p = 6
    BY <2>0
  <2>4. Len(st) = n /\ st[p] = "open" /\ p - 1 = 5
    <3>1. Len(st) = n
      BY <1>1, <2>0
    <3>2. st[p] = "open"
      BY <1>2, <2>3
    <3>3. p - 1 = 5
      BY <2>3
    <3> QED
      BY <3>1, <3>2, <3>3
  <2> DEFINE I == {i \in 1 .. Len(st) : st[i] = "open"}
  <2>5. SelectInSeq(st, LAMBDA t : t = "open") = IF I # {} THEN Min(I) ELSE 0
    BY DEF SelectInSeq
  <2>6. \A i : i \in I <=> i \in 1 .. n /\ st[i] = "open"
    BY <2>4
  <2> HIDE DEF I
  <2>7. p \in I /\ I \in SUBSET Nat
    BY <2>4, <2>6
  <2>8. \A i \in I : p <= i
    <3>1. \A i \in 1 .. n : p <= i \/ i \in 1 .. 5
      BY <2>4
    <3> QED
      BY <2>2, <2>6, <3>1
  <2>9. Min(I) = p
    BY <2>7, <2>8, MinIs
  <2> QED
    BY <2>3, <2>5, <2>7, <2>9
<1>5. left = <<"call">>
  <2>1. PICK k \in 1 .. Len(st) : k = 7
    BY <1>1
  <2>2. SubSeq(st, k, k) = <<st[k]>>
    BY <1>1, OneToken
  <2>3. SelectInSeq(st, LAMBDA t : t = "open") + 1 = k /\ Len(st) - 1 = k
    BY <1>1, <1>4, <2>1
  <2>4. left = SubSeq(st, k, k)
    BY <2>3, Zenon DEF left
  <2> QED
    BY <1>2, <2>1, <2>2, <2>4, Zenon
<1>6. Contains(st, "open")
  <2>1. 6 \in 1 .. Len(st)
    BY <1>1
  <2> QED
    BY <1>2, <2>1 DEF Contains
<1>7. ~ Contains(left, "braces")
  <2>1. Len(left) = 1 /\ left[1] = "call"
    BY <1>5
  <2> QED
    BY <2>1 DEF Contains
<1>8. MessageOutput(left, bound)
        = <<[says |-> <<"AssertionError: Expression:">>, is |-> {"marked"}],
            [says |-> <<"call">>, is |-> {"source"}],
            Heading("Expected:"), Printed(<<"want">>), Heading("Got:"), Printed(<<"wrong">>)>>
  BY <1>5, <1>7, Zenon DEF MessageOutput
<1>10. <<[says |-> st, is |-> {"assert", "source"}]>> \o MessageOutput(left, bound)
         = EqualityOutput
  <2> DEFINE e == [says |-> st, is |-> {"assert", "source"}]
             f == [says |-> <<"AssertionError: Expression:">>, is |-> {"marked"}]
             g == [says |-> <<"call">>, is |-> {"source"}]
  <2>1. MessageOutput(left, bound)
          = <<f, g, Heading("Expected:"), Printed(<<"want">>), Heading("Got:"), Printed(<<"wrong">>)>>
    BY <1>8
  <2>2. EqualityOutput
          = <<e, f, g, Heading("Expected:"), Printed(<<"want">>), Heading("Got:"), Printed(<<"wrong">>)>>
    BY <1>3, Zenon DEF EqualityOutput
  <2> HIDE DEF e, f, g
  <2>3. <<e>> \o <<f, g, Heading("Expected:"), Printed(<<"want">>), Heading("Got:"), Printed(<<"wrong">>)>>
          = <<e, f, g, Heading("Expected:"), Printed(<<"want">>), Heading("Got:"), Printed(<<"wrong">>)>>
    <3> DEFINE u == Heading("Expected:")
               v == Printed(<<"want">>)
               w == Heading("Got:")
               x == Printed(<<"wrong">>)
    <3> HIDE DEF u, v, w, x
    <3>1. <<e>> \o <<f, g, u, v, w, x>> = <<e, f, g, u, v, w, x>>
      BY OneBeforeSix
    <3> QED
      BY <3>1 DEF u, v, w, x
  <2>4. <<e>> \o MessageOutput(left, bound) = EqualityOutput
    BY <2>1, <2>2, <2>3, Zenon
  <2> QED
    BY <2>4 DEF e
<1> QED
  BY <1>6, <1>10 DEF st, left

LEMMA EqualitiesAreEquations ==
  ASSUME NEW text, IsSequence(text), EqualitiesOnly(text)
  PROVE  \E n : Equations(text, n, [k \in 1 .. n |-> "call"], [k \in 1 .. n |-> "want"])
<1> DEFINE cuts == {i \in DOMAIN text : text[i] = "newline"}
<1>1. Lines(text) = PartsBetween(text, cuts) /\ cuts \in SUBSET (DOMAIN text)
  BY DEF Lines
<1> HIDE DEF cuts
<1>2. PICK n \in Nat : n = Len(Lines(text)) /\ n >= 1 /\ IsSequence(Lines(text))
  BY <1>1, SomeParts
<1>3. \A k \in 1 .. n : Lines(text)[k] = Equation("call", "want")
  <2>1. DOMAIN Lines(text) = 1 .. n
    BY <1>2, SequenceProperties
  <2> QED
    BY <2>1, Zenon DEF EqualitiesOnly, Equation
<1> DEFINE L == [k \in 1 .. n |-> "call"]
           R == [k \in 1 .. n |-> "want"]
<1>4. \A k \in 1 .. n : L[k] = "call" /\ R[k] = "want"
  OBVIOUS
<1>5. "call" \in Plain /\ "want" \in Plain
  BY DEF Plain
<1> HIDE DEF L, R
<1>6. Equations(text, n, L, R)
  BY <1>2, <1>3, <1>4, <1>5 DEF Equations
<1> QED
  BY <1>6 DEF L, R

(* The text of equalities of a call with a literal holds when the call     *)
(* returns what is wanted, and else prints both sides of the first one.    *)
LEMMA EqualitiesAreRewritten ==
  ASSUME NEW text, IsSequence(text), EqualitiesOnly(text)
  PROVE  /\ Holds(Enhanced(text), "want")
         /\ FailureOutput(Enhanced(text), "wrong") = EqualityOutput
<1>1. PICK n : Equations(text, n, [k \in 1 .. n |-> "call"], [k \in 1 .. n |-> "want"])
  BY EqualitiesAreEquations
<1> DEFINE L == [k \in 1 .. n |-> "call"]
           R == [k \in 1 .. n |-> "want"]
           E == Enhanced(text)
           sts == Statements(E)
           bound == Bound(sts, 3, "wrong")
<1>2. \A k \in 1 .. n : L[k] = "call" /\ R[k] = "want"
  OBVIOUS
<1>3. Equations(text, n, L, R)
  BY <1>1
<1> HIDE DEF L, R
<1>4. SyntaxOK(E)
  BY <1>3, EnhancedCanBeRead
<1>5. Triples(sts, n, L, R)
  BY <1>3, StatementsAreTriples
<1>6. n \in Nat /\ n >= 1
  BY <1>3, Zenon DEF Equations
<1>7. /\ PlainValue("call", "want") = "want" /\ PlainValue("call", "wrong") = "wrong"
      /\ \A returned : PlainValue("want", returned) = "want"
  BY DEF PlainValue, Calls
<1>8. Failing(E, "want") = {}
  <2>1. \A j : j \in Failing(E, "want")
          <=> \E k \in 1 .. n : j = 3 * k /\ PlainValue(L[k], "want") # PlainValue(R[k], "want")
    BY <1>3, FailingMessages
  <2> HIDE DEF E
  <2> QED
    BY <1>2, <1>7, <2>1
<1>9. Min(Failing(E, "wrong")) = 3
  <2>1. \A j : j \in Failing(E, "wrong")
          <=> \E k \in 1 .. n : j = 3 * k /\ PlainValue(L[k], "wrong") # PlainValue(R[k], "wrong")
    BY <1>3, FailingMessages
  <2> DEFINE F == Failing(E, "wrong")
  <2>2. \A k \in 1 .. n : PlainValue(L[k], "wrong") # PlainValue(R[k], "wrong")
    BY <1>2, <1>7
  <2>3. \A j : j \in F <=> \E k \in 1 .. n : j = 3 * k
    BY <2>1, <2>2
  <2> HIDE DEF F
  <2>4. F \in SUBSET Nat /\ 3 \in F /\ \A j \in F : 3 <= j
    BY <1>6, <2>3
  <2>5. Min(F) = 3
    BY <2>4, MinIs
  <2> QED
    BY <2>5 DEF F
<1> HIDE DEF E
<1>10. sts[3] = Message("call") /\ bound.actual = "wrong" /\ bound.expected = "want"
  <2>1. PICK k \in 1 .. n : k = 1
    BY <1>6
  <2>2. 3 * k = 3 /\ 3 * (k - 1) + 3 = 3
    BY <2>1
  <2> HIDE DEF sts
  <2>3. /\ Bound(sts, 3 * k, "wrong").actual = PlainValue(L[k], "wrong")
        /\ Bound(sts, 3 * k, "wrong").expected = PlainValue(R[k], "wrong")
    BY <1>5, BoundIs
  <2>4. sts[3 * (k - 1) + 3] = Message(L[k])
    BY <1>5, Zenon DEF Triples
  <2> QED
    BY <1>2, <1>7, <2>2, <2>3, <2>4, Zenon DEF bound
<1>11. Holds(E, "want")
  BY <1>4, <1>8 DEF Holds
<1> DEFINE st == Message("call")
           left == SubSeq(st, SelectInSeq(st, LAMBDA t : t = "open") + 1, Len(st) - 1)
<1>12. /\ Contains(st, "open")
       /\ <<[says |-> st, is |-> {"assert", "source"}]>> \o MessageOutput(left, bound)
            = EqualityOutput
  <2> HIDE DEF bound, sts
  <2> QED
    BY <1>10, MessagePrints
<1>13. FailureOutput(E, "wrong")
         = <<[says |-> st, is |-> {"assert", "source"}]>> \o MessageOutput(left, bound)
  BY <1>4, <1>9, <1>10, <1>12, Zenon DEF FailureOutput
<1> QED
  BY <1>11, <1>12, <1>13 DEF E

PrintsHaveNoHeadings == \A prints \in Prints : Unheaded(prints)

ExplainInv ==
  /\ Unheaded(messages)
  /\ kept = [s \in Stages |-> kept[s]]
  /\ pc = "run" => given \in Texts /\ written = IF CanShow(stage) THEN Enhanced(given) ELSE given
  /\ FailureIsExplained

LEMMA ConcatIsUnheaded ==
  ASSUME NEW a, Unheaded(a), NEW b, Unheaded(b)
  PROVE  Unheaded(a \o b)
<1> DEFINE c == a \o b
<1>1. PICK n \in Nat : n = Len(a) /\ DOMAIN a = 1 .. n
  BY SequenceProperties DEF Unheaded
<1>2. PICK m \in Nat : m = Len(b) /\ DOMAIN b = 1 .. m
  BY SequenceProperties DEF Unheaded
<1>3. /\ IsSequence(c) /\ DOMAIN c = 1 .. n + m
      /\ \A i \in 1 .. n + m : c[i] = IF i <= n THEN a[i] ELSE b[i - n]
  BY <1>1, <1>2, ConcatIsSequence DEF Unheaded
<1> HIDE DEF c
<1>4. \A i \in 1 .. n + m : \/ i \in DOMAIN a /\ c[i] = a[i]
                            \/ i - n \in DOMAIN b /\ c[i] = b[i - n]
  BY <1>1, <1>2, <1>3
<1> QED
  BY <1>3, <1>4 DEF c, Unheaded

LEMMA NotesAreUnheaded == Unheaded(<< >>) /\ Unheaded(<<Note>>) /\ Unheaded(<<ExitNote>>)
<1>1. Unheaded(<< >>)
  BY DEF Unheaded, IsSequence
<1>2. ASSUME NEW line, line.says # <<"Expected:">>, line.says # <<"Got:">>
      PROVE  Unheaded(<<line>>)
  BY <1>2 DEF Unheaded, IsSequence
<1>3. /\ Note.says # <<"Expected:">> /\ Note.says # <<"Got:">>
      /\ ExitNote.says # <<"Expected:">> /\ ExitNote.says # <<"Got:">>
  BY DEF Note, ExitNote
<1> HIDE DEF Note, ExitNote
<1> QED
  BY <1>1, <1>2, <1>3

LEMMA SummaryIsNotEmpty == \A lines : SafeSummary(lines) # << >>
<1>1. \A safe : (IF safe = << >> THEN <<Note>> ELSE safe) # << >>
  OBVIOUS
<1> QED
  BY <1>1 DEF SafeSummary

(* The last outcome of the stage, when a run ends.                         *)
LEMMA ExplainReturns ==
  ASSUME IInv, ExplainInv, pc \notin {"idle", "done"}, NEW passed \in BOOLEAN, NEW lines,
         RunReturns(passed, lines), UNCHANGED taskVars,
         ~ passed => lines # << >>,
         ~ passed /\ stage = "visible" /\ CanShow(stage) /\ ran'[stage] # << >>
           /\ ran'[stage][Len(ran'[stage])].returned # "unknown" /\ EqualitiesOnly(given)
           => ExtractExpectedGot(Summarize(lines))
                = [expected |-> "want", got |-> ran'[stage][Len(ran'[stage])].returned]
  PROVE  ExplainInv'
<1>1. /\ stage \in Stages /\ verdict = "none" /\ messages' = << >> /\ tests' = tests
      /\ kept' = [kept EXCEPT ![stage] = IF stage = "hidden" /\ ~ passed
                                           THEN SafeSummary(lines) ELSE lines]
  BY DEF RunReturns, Tells, IInv, TypeInv, StageInv, taskVars
<1>2. /\ kept' = [s \in Stages |-> kept'[s]]
      /\ kept'[stage] = IF stage = "hidden" /\ ~ passed THEN SafeSummary(lines) ELSE lines
  BY <1>1 DEF ExplainInv
<1>3. pc' # "run" /\ Unheaded(messages')
  BY <1>1, NotesAreUnheaded DEF RunReturns
<1>4. verdict' = "failed" => ~ passed /\ stage' = stage /\ given' = given
  BY <1>1 DEF RunReturns
<1>5. FailureIsExplained'
  <2> SUFFICES ASSUME verdict' = "failed" PROVE FailureIsExplained'
    BY DEF FailureIsExplained
  <2>1. kept'[stage'] # << >>
    BY <1>2, <1>4, SummaryIsNotEmpty
  <2>2. ASSUME stage' = "visible", CanShow(stage)', ran'[stage'] # << >>,
               RanTests(Len(ran[stage]))',
               \A i \in DOMAIN Lines(given)' :
                  Lines(given)'[i] = <<"assert", "call", "==", "want">>
        PROVE  ExtractExpectedGot(Summarize(kept'[stage']))
                 = [expected |-> "want", got |-> ran'[stage'][Len(ran'[stage'])].returned]
    <3>1. CanShow(stage) /\ EqualitiesOnly(given)
      BY <1>1, <1>4, <2>2 DEF CanShow, EqualitiesOnly
    <3>2. kept'[stage'] = lines
      BY <1>2, <1>4, <2>2
    <3> QED
      BY <1>4, <2>2, <3>1, <3>2 DEF RanTests
  <2> QED
    BY <2>1, <2>2 DEF FailureIsExplained
<1> QED
  BY <1>2, <1>3, <1>5 DEF ExplainInv

LEMMA LastOutcome ==
  ASSUME IInv, NEW outcome, NEW returned, Records(outcome, returned)
  PROVE  ran'[stage] # << >> => ran'[stage][Len(ran'[stage])].returned = returned
<1> DEFINE r == [outcome |-> outcome, found |-> disk, returned |-> returned]
<1>1. ran[stage] \in Seq(Record) /\ ran'[stage] = Append(ran[stage], r)
  BY DEF IInv, TypeInv, Records
<1>2. r.returned = returned
  OBVIOUS
<1> HIDE DEF r
<1>3. ran'[stage][Len(ran'[stage])] = r
  BY <1>1
<1> QED
  BY <1>2, <1>3

LEMMA FailedEnds ==
  ASSUME NEW run \in Ends, ~ run.holds, run.returned # "unknown"
  PROVE  /\ run.returned \in {"want", "wrong"} /\ ~ Holds(written, run.returned)
         /\ run.output = FailureOutput(written, run.returned)
<1>1. run \in Runs /\ run.says = written
  BY RaisedRunsAre DEF Ends
<1>2. PICK says \in Texts \cup {Enhanced(t) : t \in Texts}, returned \in {"want", "wrong"} :
        run = RunOf(says, returned)
  BY <1>1 DEF Runs
<1>3. /\ run.says = says /\ run.returned = returned /\ run.holds = Holds(says, returned)
      /\ run.output = IF Holds(says, returned) THEN << >> ELSE FailureOutput(says, returned)
  BY <1>2 DEF RunOf
<1> QED
  BY <1>1, <1>2, <1>3

LEMMA ConcatIsNotEmpty ==
  ASSUME NEW a, Unheaded(a), NEW line, Unheaded(<<line>>), NEW b, IsSequence(b)
  PROVE  a \o <<line>> \o b # << >>
<1> DEFINE c == a \o <<line>>
<1>1. IsSequence(a) /\ IsSequence(<<line>>) /\ Len(<<line>>) = 1
  BY DEF Unheaded
<1>2. IsSequence(c) /\ Len(c) = Len(a) + 1 /\ Len(a) \in Nat
  BY <1>1, ConcatIsSequence, SequenceProperties
<1> HIDE DEF c
<1>3. Len(c \o b) = Len(c) + Len(b) /\ Len(b) \in Nat
  BY <1>2, ConcatIsSequence, SequenceProperties
<1>4. Len(c \o b) > 0
  BY <1>2, <1>3
<1>5. c \o b # << >>
  BY <1>4
<1> QED
  BY <1>5 DEF c

LEMMA ExplainStep ==
  ASSUME IInv, ExplainInv, PrintsHaveNoHeadings,
         [Next]_testingVars
  PROVE  ExplainInv'
<1>1. ASSUME UNCHANGED <<messages, kept>>, verdict' # "failed",
             pc' # "run" \/ UNCHANGED <<pc, stage, given, written, tests>>
      PROVE  ExplainInv'
  BY <1>1 DEF ExplainInv, FailureIsExplained, CanShow
<1>2. ASSUME UNCHANGED testingVars PROVE ExplainInv'
  BY <1>2 DEF testingVars, taskVars, ExplainInv, FailureIsExplained, CanShow, RanTests
<1>3. pc # "done" => verdict = "none"
  BY DEF IInv, StageInv
<1>4. /\ Unheaded(messages) /\ \A prints \in Prints : Unheaded(prints)
      /\ Unheaded(<<Note>>) /\ Unheaded(<<ExitNote>>)
  BY NotesAreUnheaded DEF ExplainInv, PrintsHaveNoHeadings
<1>5. ASSUME Begins \/ WritingRaises \/ WritesFiles \/ CommandRaises PROVE ExplainInv'
  BY <1>1, <1>3, <1>5 DEF Begins, WritingRaises, WritesFiles, CommandRaises, Raises, MoreToRun
<1>6. ASSUME NEW says \in Texts, WritesTests(says) PROVE ExplainInv'
  <2>1. /\ pc = "write_tests" /\ given' = says /\ UNCHANGED <<tests, stage, messages, kept, verdict>>
        /\ written' = IF CanShow(stage) THEN Enhanced(says) ELSE says
    BY <1>6 DEF WritesTests, taskVars
  <2> QED
    BY <1>3, <2>1 DEF ExplainInv, FailureIsExplained, CanShow
<1>7. ASSUME NEW succeeds \in BOOLEAN, Compiles(succeeds) PROVE ExplainInv'
  <2>1. pc = "compile" /\ ran' = ran /\ ran[stage] = << >> /\ UNCHANGED taskVars
    BY <1>7 DEF Compiles, IInv, StageInv
  <2>2. CASE pc' = "write_tests" /\ UNCHANGED <<messages, kept, verdict>>
    BY <1>1, <1>3, <2>1, <2>2
  <2>3. CASE RunReturns(FALSE, SyntaxErrorOutput)
    <3>1. SyntaxErrorOutput # << >>
      BY DEF SyntaxErrorOutput
    <3>2. ran'[stage] = << >>
      BY <2>1
    <3> QED
      BY <2>1, <2>3, <3>1, <3>2, ExplainReturns
  <2> QED
    BY <1>7, <2>2, <2>3 DEF Compiles
<1>8. ASSUME RunPasses PROVE ExplainInv'
  <2>1. pc = "run" /\ RunReturns(TRUE, messages) /\ UNCHANGED taskVars
    BY <1>8 DEF RunPasses
  <2> QED
    BY <2>1, ExplainReturns
<1>9. ASSUME NEW prints \in Prints, CommandTimesOut(prints) PROVE ExplainInv'
  <2> DEFINE lines == messages \o <<Note>> \o prints
  <2>1. /\ pc = "run" /\ Records("timeout", "unknown") /\ UNCHANGED taskVars
        /\ RunReturns(FALSE, lines)
    BY <1>9 DEF CommandTimesOut, MoreToRun
  <2>2. ran'[stage] # << >> => ran'[stage][Len(ran'[stage])].returned = "unknown"
    BY <2>1, LastOutcome
  <2>3. lines # << >>
    BY <1>4, ConcatIsNotEmpty DEF Unheaded
  <2> HIDE DEF lines
  <2> QED
    BY <2>1, <2>2, <2>3, ExplainReturns
<1>10. ASSUME NEW prints \in Prints, NEW run \in Ends, CommandFails(run, prints)
       PROVE  ExplainInv'
  <2> DEFINE before == messages \o <<ExitNote>> \o prints
             lines == before \o run.output
  <2>1. /\ pc = "run" /\ Records("other", run.returned) /\ UNCHANGED taskVars /\ ~ run.holds
        /\ RunReturns(FALSE, lines)
    BY <1>10 DEF CommandFails, MoreToRun
  <2>2. ran'[stage] # << >> => ran'[stage][Len(ran'[stage])].returned = run.returned
    BY <2>1, LastOutcome
  <2>3. Unheaded(before) /\ before # << >>
    <3>1. Unheaded(messages \o <<ExitNote>>)
      BY <1>4, ConcatIsUnheaded
    <3>2. Unheaded(before)
      BY <1>4, <3>1, ConcatIsUnheaded
    <3>3. before # << >>
      BY <1>4, ConcatIsNotEmpty DEF Unheaded
    <3> QED
      BY <3>2, <3>3
  <2> HIDE DEF before
  <2>4. lines # << >>
    <3>1. IsSequence(run.output)
      BY EndsAreSequences
    <3>2. /\ IsSequence(before) /\ Len(before) \in Nat /\ DOMAIN before = 1 .. Len(before)
          /\ Len(run.output) \in Nat /\ Len(lines) = Len(before) + Len(run.output)
      BY <2>3, <3>1, SequenceProperties, ConcatIsSequence DEF Unheaded
    <3>3. Len(before) # 0
      BY <2>3, <3>2, EmptySeq DEF IsSequence
    <3> HIDE DEF lines
    <3> QED
      BY <3>2, <3>3
  <2>5. ASSUME CanShow(stage), run.returned # "unknown", EqualitiesOnly(given)
        PROVE  ExtractExpectedGot(Summarize(lines))
                 = [expected |-> "want", got |-> run.returned]
    <3>1. /\ given \in Texts /\ written = Enhanced(given)
          /\ run.returned \in {"want", "wrong"} /\ ~ Holds(written, run.returned)
          /\ run.output = FailureOutput(written, run.returned)
      BY <2>1, <2>5, FailedEnds DEF ExplainInv
    <3>2. run.returned = "wrong" /\ run.output = EqualityOutput
      <4>1. IsSequence(given)
        BY <3>1, TextAssumption, SeqIsSequence
      <4> QED
        BY <2>5, <3>1, <4>1, EqualitiesAreRewritten
    <3> QED
      BY <2>3, <3>2, ExplainsEquality
  <2> HIDE DEF lines
  <2> QED
    BY <2>1, <2>2, <2>4, <2>5, ExplainReturns
<1>11. ASSUME NEW prints \in Prints, NEW run \in Ends, NEW changed,
              CommandSucceeds(run, prints, changed)
       PROVE  ExplainInv'
  <2>1. /\ pc = "run" /\ messages' = messages \o <<ExitNote>> \o prints
        /\ UNCHANGED <<pc, tests, stage, given, written, kept, verdict>>
    BY <1>11 DEF CommandSucceeds, MoreToRun, taskVars
  <2>2. Unheaded(messages \o <<ExitNote>> \o prints)
    BY <1>4, ConcatIsUnheaded
  <2> QED
    BY <1>3, <2>1, <2>2 DEF ExplainInv, FailureIsExplained, CanShow
<1> QED
  BY <1>2, <1>5, <1>6, <1>7, <1>8, <1>9, <1>10, <1>11 DEF Next

(***************************************************************************)
(* A failure has a message; and of visible equalities of a call with a     *)
(* literal the summary that the repair is given has what was expected and  *)
(* got, whatever was printed before (_expected_got_context_lines,          *)
(* summarize_python_test_failure, _extract_expected_got_values).           *)
(***************************************************************************)
THEOREM FailuresAreExplained ==
  ASSUME PrintsHaveNoHeadings PROVE Spec => []FailureIsExplained
<1>1. Init => ExplainInv
  BY NotesAreUnheaded DEF Init, ExplainInv, FailureIsExplained
<1>2. IInv /\ ExplainInv /\ [Next]_testingVars => ExplainInv'
  BY ExplainStep
<1>3. ExplainInv => FailureIsExplained
  BY DEF ExplainInv
<1> QED
  BY InitInv, NextInv, <1>1, <1>2, <1>3, PTL DEF Spec

-----------------------------------------------------------------------------
(***************************************************************************)
(* The analyzer of in-place mutation.  It is right about a mutation where  *)
(* it is right about what refers to the argument and its items, and of the *)
(* names that are not stale an environment knows what they refer to.       *)
(***************************************************************************)
Shares == [level : 0 .. 1, shared : 0 .. 2]

CartTypeInv ==
  /\ values \in [Names -> Values]
  /\ scopes \in Seq([Names -> Provenances]) /\ Len(scopes) \in Nat \ {0}
  /\ stale \in Seq(SUBSET Names) /\ Len(stale) = Len(scopes)
  /\ mutated \in BOOLEAN /\ detected \in BOOLEAN
  /\ misled \in BOOLEAN /\ overlooked \in BOOLEAN

IsArgument(value) == value.level = 0 /\ value.shared = 0
IsItem(value) == value.level = 1 /\ value.shared \in 0 .. 1

Knows(provenance, value) ==
  /\ provenance = "original_collection" <=> IsArgument(value)
  /\ provenance = "original_element" <=> IsItem(value)
  /\ provenance \notin Original => value.shared = 2

ScopesInv ==
  \A i \in DOMAIN scopes, n \in Names :
    n \notin stale[i] => Knows(scopes[i][n], values[n])

CartInv == CartTypeInv /\ ScopesInv /\ FalseAlarmHasCause /\ MissHasCause

LEMMA CartInitInv == CartInit => CartInv
<1> SUFFICES ASSUME CartInit PROVE CartInv
  OBVIOUS
<1>1. /\ values \in [Names -> Values]
      /\ \A n \in Names : values[n] = IF n = items THEN [level |-> 0, shared |-> 0]
                                                  ELSE Unbound
  BY DEF CartInit, Values
<1>2. PICK env \in [Names -> Provenances] :
        /\ scopes = <<env>>
        /\ \A n \in Names : env[n] = IF n = items THEN "original_collection"
                                                  ELSE "unknown"
  <2>1. [n \in Names |-> IF n = items THEN "original_collection" ELSE "unknown"]
          \in [Names -> Provenances]
    BY DEF Provenances
  <2> QED
    BY <2>1 DEF CartInit
<1>3. CartTypeInv
  <2>1. scopes \in Seq([Names -> Provenances]) /\ Len(scopes) \in Nat \ {0}
        /\ Len(scopes) = 1
    BY <1>2
  <2>2. stale \in Seq(SUBSET Names) /\ Len(stale) = 1
    BY DEF CartInit
  <2>3. /\ mutated \in BOOLEAN /\ detected \in BOOLEAN
        /\ misled \in BOOLEAN /\ overlooked \in BOOLEAN
    BY DEF CartInit
  <2> QED
    BY <1>1, <2>1, <2>2, <2>3 DEF CartTypeInv
<1>4. ScopesInv
  <2>1. Knows("original_collection", [level |-> 0, shared |-> 0])
    BY DEF Knows, IsArgument, IsItem, Original
  <2>2. Knows("unknown", Unbound)
    BY DEF Knows, IsArgument, IsItem, Original, Unbound
  <2> QED
    BY <1>1, <1>2, <2>1, <2>2 DEF ScopesInv
<1> QED
  BY <1>3, <1>4 DEF CartInv, CartInit, FalseAlarmHasCause, MissHasCause

-----------------------------------------------------------------------------
LEMMA SharesAreValues == Shares \subseteq Values
BY DEF Shares, Values

LEMMA PathHasValue ==
  ASSUME CartTypeInv, NEW path \in Paths, HasValue(path)
  PROVE  /\ path.name \in Names /\ path.indexed \in BOOLEAN
         /\ values[path.name] \in Shares /\ ValueAt(path) \in Shares
         /\ path.indexed => /\ values[path.name].level = 0
                            /\ ValueAt(path).level = 1
                            /\ ValueAt(path).shared = values[path.name].shared
         /\ ~ path.indexed => ValueAt(path) = values[path.name]
<1>1. path.name \in Names /\ path.indexed \in BOOLEAN
  BY DEF Paths
<1>2. values[path.name] \in Shares
  BY <1>1 DEF HasValue, IsBound, CartTypeInv, Values, Shares
<1>3. CASE ~ path.indexed
  BY <1>1, <1>2, <1>3 DEF ValueAt
<1>4. CASE path.indexed
  <2>1. values[path.name].level = 0
    BY <1>4 DEF HasValue
  <2>2. ValueAt(path) = [values[path.name] EXCEPT !.level = 1]
    BY <1>4 DEF ValueAt
  <2>3. /\ ValueAt(path) \in Shares /\ ValueAt(path).level = 1
        /\ ValueAt(path).shared = values[path.name].shared
    BY <1>2, <2>2 DEF Shares
  <2> QED
    BY <1>1, <1>2, <1>4, <2>1, <2>3
<1> QED
  BY <1>3, <1>4

LEMMA PathIsOfAProvenance ==
  ASSUME NEW path \in Paths, NEW env \in [Names -> Provenances]
  PROVE  PathProvenance(path, env) \in Provenances
<1>1. path.name \in Names /\ env[path.name] \in Provenances
  BY DEF Paths
<1> QED
  BY <1>1 DEF PathProvenance, Element, Provenances

(* What an environment that knows a variable thinks of its item is right.  *)
LEMMA PathIsKnown ==
  ASSUME CartTypeInv, NEW path \in Paths, HasValue(path),
         NEW env \in [Names -> Provenances],
         Knows(env[path.name], values[path.name])
  PROVE  Knows(PathProvenance(path, env), ValueAt(path))
<1>1. CASE ~ path.indexed
  BY <1>1, PathHasValue DEF PathProvenance
<1>2. CASE path.indexed
  <2> DEFINE v == values[path.name]
             p == env[path.name]
  <2>1. /\ v \in Shares /\ v.level = 0 /\ ValueAt(path).level = 1
        /\ ValueAt(path).shared = v.shared
        /\ PathProvenance(path, env) = Element(p)
    BY <1>2, PathHasValue DEF PathProvenance
  <2>2. CASE p = "original_collection"
    BY <2>1, <2>2 DEF Knows, IsArgument, IsItem, Element, Original
  <2>3. CASE p # "original_collection"
    <3>1. v.shared = 2 /\ p \notin Original
      BY <2>1, <2>3 DEF Knows, IsItem, Original
    <3>2. Element(p) \notin Original
      BY <3>1 DEF Element, Original
    <3> QED
      BY <2>1, <3>1, <3>2 DEF Knows, IsArgument, IsItem, Original
  <2> QED
    BY <2>2, <2>3
<1> QED
  BY <1>1, <1>2

LEMMA KnownOriginals ==
  ASSUME NEW value \in Shares, NEW provenance, Knows(provenance, value)
  PROVE  provenance \in Original <=> IsOriginal(value)
BY DEF Shares, Knows, IsArgument, IsItem, Original, IsOriginal

(* What is thought of a copy is right when what is thought of the original *)
(* is, unless it shares the items of the argument.                         *)
LEMMA CopyIsKnown ==
  ASSUME NEW copy \in Copies, NEW value \in Shares, MakesSense(copy, value),
         NEW source \in Provenances,
         copy \in {"plain", "list", "each"} => Knows(source, value),
         copy \in {"list", "each"} => source # "original_collection"
  PROVE  Knows(Provenance(copy, source), Copied(copy, value))
<1>1. value.level \in 0 .. 1 /\ value.shared \in 0 .. 2
  BY DEF Shares
<1>2. CASE copy = "plain"
  BY <1>2 DEF Copied, Provenance
<1>3. ASSUME Copied(copy, value) = [value EXCEPT !.shared = 2],
             Provenance(copy, source) \notin Original
      PROVE  Knows(Provenance(copy, source), Copied(copy, value))
  <2>1. Copied(copy, value).shared = 2
    BY <1>3 DEF Shares
  <2> QED
    BY <1>3, <2>1 DEF Knows, IsArgument, IsItem, Original
<1>4. CASE copy \in {"list", "each"}
  <2>1. value.level = 0
    BY <1>4 DEF MakesSense
  <2>2. value.shared = 2 /\ source \notin Original
    BY <1>4, <2>1 DEF Knows, IsItem, Original
  <2>3. Copied(copy, value) = [value EXCEPT !.shared = 2]
    BY <1>4, <2>1, <2>2 DEF Copied, Highest
  <2>4. Provenance(copy, source) \notin Original
    BY <1>4, <2>2 DEF Provenance, Original
  <2> QED
    BY <1>3, <2>3, <2>4
<1>5. CASE copy \in {"dict", "copy"}
  <2>1. value.level = 1 /\ Highest(value.shared, value.level + 1) = 2
    BY <1>1, <1>5 DEF MakesSense, Highest
  <2>2. Copied(copy, value) = [value EXCEPT !.shared = 2]
    BY <1>5, <2>1 DEF Copied
  <2>3. Provenance(copy, source) \notin Original
    BY <1>5 DEF Provenance, Original
  <2> QED
    BY <1>3, <2>2, <2>3
<1>6. CASE copy \notin {"plain", "list", "each", "dict", "copy"}
  <2>1. Copied(copy, value) = [value EXCEPT !.shared = 2]
    BY <1>6 DEF Copied
  <2>2. Provenance(copy, source) \notin Original
    BY <1>6 DEF Provenance, Original
  <2> QED
    BY <1>3, <2>1, <2>2
<1> QED
  BY <1>2, <1>4, <1>5, <1>6

LEMMA CopyTypes ==
  ASSUME NEW copy \in Copies, NEW value \in Shares, NEW source \in Provenances
  PROVE  /\ Copied(copy, value) \in Shares
         /\ Copied(copy, value).level = value.level
         /\ Provenance(copy, source) \in Provenances
<1>1. Provenance(copy, source) \in Provenances
  BY DEF Provenance, Provenances
<1>2. ASSUME NEW shared \in 0 .. 2
      PROVE  /\ [value EXCEPT !.shared = shared] \in Shares
             /\ [value EXCEPT !.shared = shared].level = value.level
  BY DEF Shares
<1>3. Highest(value.shared, value.level + 1) \in 0 .. 2
  BY DEF Shares, Highest
<1>4. CASE Copied(copy, value) = value
  BY <1>1, <1>4
<1>5. CASE Copied(copy, value) = [value EXCEPT !.shared = 2]
  BY <1>1, <1>2, <1>5
<1>6. CASE Copied(copy, value)
             = [value EXCEPT !.shared = Highest(value.shared, value.level + 1)]
  BY <1>1, <1>2, <1>3, <1>6
<1> QED
  BY <1>4, <1>5, <1>6 DEF Copied

(* The environment of the innermost block.                                 *)
LEMMA EnvIsKnown ==
  ASSUME CartTypeInv
  PROVE  /\ Env = scopes[Len(scopes)] /\ Env \in [Names -> Provenances]
         /\ Last(stale) = stale[Len(scopes)] /\ Last(stale) \in SUBSET Names
         /\ Len(scopes) \in DOMAIN scopes
         /\ ScopesInv => \A n \in Names : n \notin Last(stale) =>
                                            Knows(Env[n], values[n])
<1>1. Len(scopes) \in DOMAIN scopes /\ Len(scopes) \in DOMAIN stale
  BY DEF CartTypeInv
<1>2. /\ scopes[Len(scopes)] \in [Names -> Provenances]
      /\ stale[Len(scopes)] \in SUBSET Names
  BY <1>1 DEF CartTypeInv
<1>3. Env = scopes[Len(scopes)] /\ Last(stale) = stale[Len(scopes)]
  BY DEF Env, Last, CartTypeInv
<1> QED
  BY <1>1, <1>2, <1>3 DEF ScopesInv

(* What is copied, and what the analyzer thinks of it.                     *)
LEMMA ThoughtIsRight ==
  ASSUME CartInv, NEW copy \in Copies, NEW path \in Paths,
         HasValue(path), MakesSense(copy, ValueAt(path))
  PROVE  /\ Copied(copy, ValueAt(path)) \in Shares
         /\ Copied(copy, ValueAt(path)).level = ValueAt(path).level
         /\ ThinksOf(copy, path) \in Provenances
         /\ ~ Doubtful(copy, path, {"list", "each"})
            => Knows(ThinksOf(copy, path), Copied(copy, ValueAt(path)))
<1> DEFINE v == ValueAt(path)
           p == PathProvenance(path, Env)
<1>1. /\ v \in Shares /\ p \in Provenances /\ path.name \in Names
      /\ path.name \notin Last(stale) => Knows(p, v)
  BY EnvIsKnown, PathHasValue, PathIsKnown, PathIsOfAProvenance DEF CartInv
<1>2. ThinksOf(copy, path) = Provenance(copy, p)
  BY DEF ThinksOf
<1>3. ~ Doubtful(copy, path, {"list", "each"})
      => /\ copy \in {"plain", "list", "each"} => Knows(p, v)
         /\ copy \in {"list", "each"} => p # "original_collection"
  BY <1>1 DEF Doubtful
<1> HIDE DEF v, p
<1> QED
  BY <1>1, <1>2, <1>3, CopyIsKnown, CopyTypes DEF v

-----------------------------------------------------------------------------
(* A change that is looked for where it is made is seen there, unless its  *)
(* name is stale; and one that is seen is one, unless its name is stale.   *)
LEMMA ChangesInv ==
  ASSUME CartInv, NEW path \in Paths, HasValue(path), NEW places,
         places = {} \/ places = DOMAIN scopes \/ places = {Len(scopes)},
         Changes(path, places)
  PROVE  /\ FalseAlarmHasCause' /\ MissHasCause'
         /\ mutated' \in BOOLEAN /\ detected' \in BOOLEAN
         /\ misled' \in BOOLEAN /\ overlooked' \in BOOLEAN
<1> DEFINE original == IsOriginal(ValueAt(path))
           sees(i) == PathProvenance(path, scopes[i]) \in Original
<1>1. /\ mutated' <=> mutated \/ original
      /\ detected' <=> detected \/ \E i \in places : sees(i)
      /\ misled' <=> \/ misled
                     \/ \E i \in places : sees(i) /\ path.name \in stale[i]
      /\ overlooked' <=> \/ overlooked
                         \/ /\ original
                            /\ places = {} \/ path.name \in Last(stale)
  BY DEF Changes, CartInv, CartTypeInv
<1>2. /\ mutated' \in BOOLEAN /\ detected' \in BOOLEAN
      /\ misled' \in BOOLEAN /\ overlooked' \in BOOLEAN
  BY DEF Changes, CartInv, CartTypeInv
<1>3. ASSUME NEW i \in DOMAIN scopes, path.name \notin stale[i]
      PROVE  sees(i) <=> original
  <2>1. path.name \in Names /\ ValueAt(path) \in Shares
    BY PathHasValue DEF CartInv
  <2>2. scopes[i] \in [Names -> Provenances]
    BY DEF CartInv, CartTypeInv
  <2>3. Knows(scopes[i][path.name], values[path.name])
    BY <1>3, <2>1 DEF CartInv, ScopesInv
  <2>4. Knows(PathProvenance(path, scopes[i]), ValueAt(path))
    BY <2>2, <2>3, PathIsKnown DEF CartInv
  <2> QED
    BY <2>1, <2>4, KnownOriginals
<1>4. /\ Len(scopes) \in DOMAIN scopes /\ Last(stale) = stale[Len(scopes)]
      /\ places \subseteq DOMAIN scopes
      /\ places # {} => Len(scopes) \in places
  BY EnvIsKnown DEF CartInv
<1> HIDE DEF original, sees
<1>5. detected' => mutated' \/ misled'
  BY <1>1, <1>3, <1>4 DEF CartInv, FalseAlarmHasCause
<1>6. mutated' => detected' \/ overlooked'
  BY <1>1, <1>3, <1>4 DEF CartInv, MissHasCause
<1> QED
  BY <1>2, <1>5, <1>6 DEF FalseAlarmHasCause, MissHasCause

LEMMA VerdictsStay ==
  ASSUME CartInv, UNCHANGED verdicts
  PROVE  /\ FalseAlarmHasCause' /\ MissHasCause'
         /\ mutated' \in BOOLEAN /\ detected' \in BOOLEAN
         /\ misled' \in BOOLEAN /\ overlooked' \in BOOLEAN
BY DEF verdicts, CartInv, CartTypeInv, FalseAlarmHasCause, MissHasCause

(* What is looked for binds nothing.                                       *)
LEMMA LooksInv ==
  ASSUME CartInv, NEW path \in Paths,
         Stores(path) \/ CallsListed(path) \/ CallsUnlisted(path)
  PROVE  CartInv'
<1>1. PICK places : /\ HasValue(path) /\ Changes(path, places)
                    /\ \/ places = {} \/ places = DOMAIN scopes
                       \/ places = {Len(scopes)}
  BY DEF Stores, CallsListed, CallsUnlisted
<1>2. UNCHANGED <<values, scopes, stale>>
  BY DEF Stores, CallsListed, CallsUnlisted
<1> QED
  BY <1>1, <1>2, ChangesInv DEF CartInv, CartTypeInv, ScopesInv

-----------------------------------------------------------------------------
LEMMA Rebound ==
  ASSUME NEW old \in [Names -> Provenances], NEW n \in Names, NEW t \in Provenances
  PROVE  \E env \in [Names -> Provenances] :
           /\ env = [old EXCEPT ![n] = t]
           /\ env[n] = t /\ \A m \in Names : m # n => env[m] = old[m]
<1> DEFINE new == [old EXCEPT ![n] = t]
<1>1. /\ new \in [Names -> Provenances]
      /\ new[n] = t /\ \A m \in Names : m # n => new[m] = old[m]
  OBVIOUS
<1> QED
  BY <1>1, Zenon

(* The environments when a name is bound, and where it is stale.           *)
BoundAnew(n, t, doubtful, top) ==
  /\ scopes'[top][n] = t
  /\ \A i \in 1 .. top, m \in Names :
       i # top \/ m # n => scopes'[i][m] = scopes[i][m]
  /\ \A i \in 1 .. top :
       stale'[i] = IF i = top /\ ~ doubtful THEN stale[i] \ {n}
                                            ELSE stale[i] \cup {n}

LEMMA BindsScopes ==
  ASSUME CartTypeInv, NEW n \in Names, NEW t \in Provenances,
         NEW doubtful \in BOOLEAN, Binds(n, t, doubtful), NEW top, top = Len(scopes)
  PROVE  /\ scopes' \in Seq([Names -> Provenances]) /\ top \in Nat \ {0}
         /\ DOMAIN scopes = 1 .. top /\ DOMAIN scopes' = 1 .. top
         /\ Len(scopes') = top /\ stale' \in Seq(SUBSET Names) /\ Len(stale') = top
         /\ BoundAnew(n, t, doubtful, top)
<1>1. /\ scopes \in Seq([Names -> Provenances]) /\ top \in Nat \ {0}
      /\ stale \in Seq(SUBSET Names) /\ Len(stale) = top
      /\ DOMAIN scopes = 1 .. top /\ DOMAIN stale = 1 .. top
  BY DEF CartTypeInv
<1>2. PICK old \in [Names -> Provenances] : old = scopes[top]
  BY <1>1
<1>3. PICK env \in [Names -> Provenances] :
        /\ env = [old EXCEPT ![n] = t]
        /\ env[n] = t /\ \A m \in Names : m # n => env[m] = old[m]
  BY Rebound
<1>4. scopes' = [scopes EXCEPT ![top] = env]
  BY <1>2, <1>3 DEF Binds
<1>5. /\ scopes' \in Seq([Names -> Provenances]) /\ Len(scopes') = top
      /\ DOMAIN scopes' = 1 .. top /\ scopes'[top] = env
      /\ \A i \in 1 .. top : i # top => scopes'[i] = scopes[i]
  BY <1>1, <1>4
<1>6. \A i \in 1 .. top, m \in Names :
        i # top \/ m # n => scopes'[i][m] = scopes[i][m]
  BY <1>2, <1>3, <1>5
<1>7. stale' = [i \in 1 .. top |->
                  IF i = top /\ ~ doubtful THEN stale[i] \ {n}
                                           ELSE stale[i] \cup {n}]
  BY <1>1 DEF Binds
<1>8. stale' \in [1 .. top -> SUBSET Names]
  <2>1. \A i \in 1 .. top : stale[i] \in SUBSET Names
    BY <1>1
  <2> QED
    BY <1>7, <2>1
<1>9. stale' \in Seq(SUBSET Names) /\ Len(stale') = top
  BY <1>1, <1>8, FunctionIsSeq
<1>10. BoundAnew(n, t, doubtful, top)
  BY <1>1, <1>3, <1>5, <1>6, <1>7 DEF BoundAnew
<1> QED
  BY <1>1, <1>5, <1>9, <1>10

(* A name that is bound again: where it is not looked at, or in doubt, it  *)
(* is stale; elsewhere what is thought of it has to be right.              *)
LEMMA BindsInv ==
  ASSUME CartInv, NEW n \in Names, NEW t \in Provenances, NEW doubtful \in BOOLEAN,
         Binds(n, t, doubtful),
         values' \in [Names -> Values],
         \A m \in Names : m # n => values'[m] = values[m],
         ~ doubtful => Knows(t, values'[n]),
         FalseAlarmHasCause', MissHasCause',
         mutated' \in BOOLEAN, detected' \in BOOLEAN,
         misled' \in BOOLEAN, overlooked' \in BOOLEAN
  PROVE  CartInv'
<1>1. PICK top : top = Len(scopes)
  OBVIOUS
<1>2. /\ scopes' \in Seq([Names -> Provenances]) /\ top \in Nat \ {0}
      /\ DOMAIN scopes = 1 .. top /\ DOMAIN scopes' = 1 .. top
      /\ Len(scopes') = top /\ stale' \in Seq(SUBSET Names) /\ Len(stale') = top
  BY <1>1, BindsScopes DEF CartInv
<1>3. BoundAnew(n, t, doubtful, top)
  BY <1>1, BindsScopes DEF CartInv
<1>4. ScopesInv'
  <2> SUFFICES ASSUME NEW i \in 1 .. top, NEW m \in Names, m \notin stale'[i]
               PROVE  Knows(scopes'[i][m], values'[m])
    BY <1>2 DEF ScopesInv
  <2>1. CASE m = n
    <3>1. i = top /\ ~ doubtful
      BY <1>3, <2>1 DEF BoundAnew
    <3> QED
      BY <1>2, <1>3, <2>1, <3>1 DEF BoundAnew
  <2>2. CASE m # n
    <3>1. m \notin stale[i]
      BY <1>3, <2>2 DEF BoundAnew
    <3>2. Knows(scopes[i][m], values[m])
      BY <1>2, <3>1 DEF CartInv, ScopesInv
    <3> QED
      BY <1>3, <2>2, <3>2 DEF BoundAnew
  <2> QED
    BY <2>1, <2>2
<1>5. CartTypeInv'
  BY <1>2 DEF CartTypeInv
<1> QED
  BY <1>4, <1>5 DEF CartInv

LEMMA AssignInv ==
  ASSUME CartInv, NEW n \in Names, NEW copy \in Copies, NEW path \in Paths,
         Assign(n, copy, path)
  PROVE  CartInv'
<1>1. PICK v, t, doubtful :
        /\ v = Copied(copy, ValueAt(path)) /\ t = ThinksOf(copy, path)
        /\ doubtful = Doubtful(copy, path, {"list", "each"})
  OBVIOUS
<1>2. /\ v \in Shares /\ t \in Provenances /\ doubtful \in BOOLEAN
      /\ ~ doubtful => Knows(t, v)
      /\ values' = [values EXCEPT ![n] = v]
      /\ Binds(n, t, doubtful) /\ UNCHANGED verdicts
  BY <1>1, ThoughtIsRight DEF Assign, Doubtful
<1>3. /\ values' \in [Names -> Values] /\ values'[n] = v
      /\ \A m \in Names : m # n => values'[m] = values[m]
  BY <1>2 DEF CartInv, CartTypeInv, Values, Shares
<1> QED
  BY <1>2, <1>3, BindsInv, VerdictsStay

LEMMA AnnotatesInv ==
  ASSUME CartInv, NEW n \in Names, Annotates(n)
  PROVE  CartInv'
<1>1. /\ Binds(n, "local_value", TRUE) /\ UNCHANGED <<values, verdicts>>
      /\ "local_value" \in Provenances /\ values \in [Names -> Values]
  BY DEF Annotates, Provenances, CartInv, CartTypeInv
<1> QED
  BY <1>1, BindsInv, VerdictsStay

LEMMA AugmentsInv ==
  ASSUME CartInv, NEW n \in Names, NEW provenance \in Augmented(n),
         Augments(n, provenance)
  PROVE  CartInv'
<1>1. PICK path : path = [name |-> n, indexed |-> FALSE]
  OBVIOUS
<1>2. /\ path \in Paths /\ HasValue(path) /\ Changes(path, {})
      /\ Binds(n, provenance, TRUE) /\ UNCHANGED values
  BY <1>1 DEF Augments, Paths, HasValue
<1>3. provenance \in Provenances
  <2>1. Env \in [Names -> Provenances]
    BY EnvIsKnown DEF CartInv
  <2>2. "local_value" \in Provenances
    BY DEF Provenances
  <2> QED
    BY <2>1, <2>2, PathIsOfAProvenance DEF Augmented
<1>4. values \in [Names -> Values]
  BY DEF CartInv, CartTypeInv
<1> QED
  BY <1>2, <1>3, <1>4, BindsInv, ChangesInv

-----------------------------------------------------------------------------
(* A block is entered with an environment that knows the names that are    *)
(* not stale in it; what was bound anew is stale in those around it.       *)
LEMMA EntersInv ==
  ASSUME CartInv, NEW env \in [Names -> Provenances], Enters(env),
         NEW low \in Seq(SUBSET Names), NEW new \in SUBSET Names,
         Len(low) = Len(scopes), stale' = Append(low, new),
         values' \in [Names -> Values],
         \A i \in DOMAIN scopes, m \in Names :
           m \notin low[i] => m \notin stale[i] /\ values'[m] = values[m],
         \A m \in Names : m \notin new => Knows(env[m], values'[m])
  PROVE  CartInv'
<1> DEFINE top == Len(scopes)
<1>1. /\ scopes \in Seq([Names -> Provenances]) /\ top \in Nat \ {0}
      /\ DOMAIN scopes = 1 .. top
      /\ scopes' = Append(scopes, env) /\ UNCHANGED verdicts
  BY DEF CartInv, CartTypeInv, Enters
<1>2. /\ scopes' \in Seq([Names -> Provenances]) /\ Len(scopes') = top + 1
      /\ DOMAIN scopes' = 1 .. top + 1 /\ scopes'[top + 1] = env
      /\ \A i \in 1 .. top : scopes'[i] = scopes[i]
  BY <1>1
<1>3. /\ stale' \in Seq(SUBSET Names) /\ Len(stale') = top + 1
      /\ stale'[top + 1] = new /\ \A i \in 1 .. top : stale'[i] = low[i]
  BY <1>1
<1>4. ScopesInv'
  <2> SUFFICES ASSUME NEW i \in 1 .. top + 1, NEW m \in Names, m \notin stale'[i]
               PROVE  Knows(scopes'[i][m], values'[m])
    BY <1>2 DEF ScopesInv
  <2>1. CASE i = top + 1
    BY <1>2, <1>3, <2>1
  <2>2. CASE i # top + 1
    <3>1. i \in 1 .. top /\ m \notin low[i]
      BY <1>1, <1>3, <2>2
    <3>2. m \notin stale[i] /\ values'[m] = values[m]
      BY <1>1, <3>1
    <3> QED
      BY <1>1, <1>2, <3>1, <3>2 DEF CartInv, ScopesInv
  <2> QED
    BY <2>1, <2>2
<1>5. CartTypeInv'
  BY <1>1, <1>2, <1>3, VerdictsStay DEF CartTypeInv
<1> QED
  BY <1>1, <1>4, <1>5, VerdictsStay DEF CartInv

LEMMA EntersBlockInv == ASSUME CartInv, EntersBlock \/ EntersUnseen PROVE CartInv'
<1>1. /\ values' = values /\ values \in [Names -> Values]
      /\ stale \in Seq(SUBSET Names) /\ Len(stale) = Len(scopes)
  BY DEF EntersBlock, EntersUnseen, CartInv, CartTypeInv
<1>2. CASE EntersBlock
  <2>1. /\ Env \in [Names -> Provenances] /\ Last(stale) \in SUBSET Names
        /\ \A m \in Names : m \notin Last(stale) => Knows(Env[m], values[m])
    BY EnvIsKnown DEF CartInv
  <2>2. Enters(Env) /\ stale' = Append(stale, Last(stale))
    BY <1>2 DEF EntersBlock
  <2> QED
    BY <1>1, <2>1, <2>2, EntersInv
<1>3. CASE EntersUnseen
  <2>1. [n \in Names |-> "unknown"] \in [Names -> Provenances]
    BY DEF Provenances
  <2>2. Enters([n \in Names |-> "unknown"]) /\ stale' = Append(stale, Names)
    BY <1>3 DEF EntersUnseen
  <2> QED
    BY <1>1, <2>1, <2>2, EntersInv
<1> QED
  BY <1>2, <1>3

(* The variable of a loop over the argument is an item of it, also when    *)
(* the loop is over a list that shares the items.                          *)
LEMMA LoopVariableIsKnown ==
  ASSUME CartInv, NEW copy \in Copies, NEW path \in Paths,
         HasValue(path), MakesSense(copy, ValueAt(path)), ValueAt(path).level = 0,
         NEW item, item = [Copied(copy, ValueAt(path)) EXCEPT !.level = 1]
  PROVE  /\ item \in Shares
         /\ LoopVariable(ThinksOf(copy, path)) \in Provenances
         /\ ~ Doubtful(copy, path, {"list"})
            => Knows(LoopVariable(ThinksOf(copy, path)), item)
<1> DEFINE v == Copied(copy, ValueAt(path))
           t == ThinksOf(copy, path)
<1>1. /\ v \in Shares /\ v.level = 0 /\ t \in Provenances
      /\ ~ Doubtful(copy, path, {"list", "each"}) => Knows(t, v)
  BY ThoughtIsRight
<1>2. item \in Shares /\ item.level = 1 /\ item.shared = v.shared
  BY <1>1 DEF Shares
<1>3. LoopVariable(t) \in Provenances
  BY DEF LoopVariable, Provenances
<1>4. CASE ~ Doubtful(copy, path, {"list", "each"})
  <2>1. Knows(t, v)
    BY <1>1, <1>4
  <2>2. ASSUME t = "original_collection" PROVE Knows(LoopVariable(t), item)
    BY <1>2, <2>1, <2>2
       DEF LoopVariable, Knows, IsArgument, IsItem, Original
  <2>3. ASSUME t # "original_collection" PROVE Knows(LoopVariable(t), item)
    <3>1. v.shared = 2 /\ t \notin Original
      BY <1>1, <2>1, <2>3 DEF Knows, IsItem, Original
    <3>2. LoopVariable(t) \notin Original
      BY <2>3 DEF LoopVariable, Original
    <3> QED
      BY <1>2, <3>1, <3>2 DEF Knows, IsArgument, IsItem, Original
  <2> QED
    BY <1>2, <1>3, <2>2, <2>3
<1>5. CASE /\ Doubtful(copy, path, {"list", "each"})
           /\ ~ Doubtful(copy, path, {"list"})
  <2>1. /\ copy = "each" /\ path.name \notin Last(stale)
        /\ PathProvenance(path, Env) = "original_collection"
    BY <1>5 DEF Doubtful
  <2>2. Knows(PathProvenance(path, Env), ValueAt(path))
    BY <2>1, EnvIsKnown, PathHasValue, PathIsKnown DEF CartInv
  <2>3. /\ ValueAt(path) \in Shares
        /\ ValueAt(path).level = 0 /\ ValueAt(path).shared = 0
    BY <2>1, <2>2, PathHasValue DEF Knows, IsArgument, CartInv
  <2>4. v.shared = 1
    BY <2>1, <2>3 DEF Copied, Highest, Shares
  <2>5. LoopVariable(t) = "original_element"
    BY <2>1 DEF ThinksOf, Provenance, LoopVariable
  <2>6. Knows(LoopVariable(t), item)
    BY <1>2, <2>4, <2>5 DEF Knows, IsArgument, IsItem, Original
  <2> QED
    BY <1>2, <1>3, <2>6
<1> QED
  BY <1>2, <1>3, <1>4, <1>5

LEMMA EntersForInv ==
  ASSUME CartInv, NEW n \in Names, NEW copy \in Copies, NEW path \in Paths,
         EntersFor(n, copy, path)
  PROVE  CartInv'
<1>1. PICK item, t, doubtful :
        /\ item = [Copied(copy, ValueAt(path)) EXCEPT !.level = 1]
        /\ t = LoopVariable(ThinksOf(copy, path))
        /\ doubtful = Doubtful(copy, path, {"list"})
  OBVIOUS
<1>2. /\ item \in Shares /\ t \in Provenances
      /\ (~ doubtful) => Knows(t, item)
  BY <1>1, LoopVariableIsKnown DEF EntersFor
<1>3. /\ values' = [values EXCEPT ![n] = item]
       /\ Enters([Env EXCEPT ![n] = t])
  BY <1>1 DEF EntersFor
<1>4. PICK low, new :
        /\ low = [i \in DOMAIN stale |-> stale[i] \cup {n}]
        /\ new = IF doubtful THEN Last(stale) \cup {n} ELSE Last(stale) \ {n}
  OBVIOUS
<1>5. stale' = Append(low, new)
  BY <1>1, <1>4 DEF EntersFor
<1>6. /\ values \in [Names -> Values] /\ Len(scopes) \in Nat \ {0}
      /\ stale \in Seq(SUBSET Names) /\ Len(stale) = Len(scopes)
      /\ DOMAIN stale = 1 .. Len(scopes) /\ DOMAIN scopes = 1 .. Len(scopes)
      /\ Env \in [Names -> Provenances] /\ Last(stale) \in SUBSET Names
      /\ \A m \in Names : m \notin Last(stale) => Knows(Env[m], values[m])
  BY EnvIsKnown DEF CartInv, CartTypeInv
<1>7. /\ low \in Seq(SUBSET Names) /\ Len(low) = Len(scopes)
      /\ \A i \in 1 .. Len(scopes) : low[i] = stale[i] \cup {n}
  <2>1. \A i \in 1 .. Len(scopes) : stale[i] \cup {n} \in SUBSET Names
    BY <1>6
  <2>2. low \in [1 .. Len(scopes) -> SUBSET Names]
    BY <1>4, <1>6, <2>1
  <2>3. low \in Seq(SUBSET Names) /\ Len(low) = Len(scopes)
    BY <1>6, <2>2, FunctionIsSeq
  <2> QED
    BY <1>4, <1>6, <2>3
<1>8. new \in SUBSET Names
      /\ \A m \in Names : m \notin new => IF m = n THEN ~ doubtful
                                                  ELSE m \notin Last(stale)
  BY <1>4, <1>6
<1>9. /\ values' \in [Names -> Values] /\ values'[n] = item
      /\ \A m \in Names : m # n => values'[m] = values[m]
  <2>1. item \in Values
    BY <1>2, SharesAreValues
  <2> QED
    BY <1>6, <1>3, <2>1
<1>10. PICK env \in [Names -> Provenances] :
        /\ env = [Env EXCEPT ![n] = t]
        /\ env[n] = t /\ \A m \in Names : m # n => env[m] = Env[m]
  <2>1. PICK old \in [Names -> Provenances] : old = Env
    BY <1>6
  <2>2. t \in Provenances
    BY <1>2
  <2> QED
    BY <2>1, <2>2, Rebound
<1>11. ASSUME NEW m \in Names, m \notin new PROVE Knows(env[m], values'[m])
  <2>1. CASE m = n
    <3>1. ~ doubtful => Knows(t, item)
      BY <1>2
    <3> QED
      BY <1>8, <1>9, <1>10, <1>11, <2>1, <3>1
  <2>2. CASE m # n
    BY <1>6, <1>8, <1>9, <1>10, <1>11, <2>2
  <2> QED
    BY <2>1, <2>2
<1>12. \A i \in DOMAIN scopes, m \in Names :
         m \notin low[i] => m \notin stale[i] /\ values'[m] = values[m]
  BY <1>6, <1>7, <1>9
<1>13. Enters(env)
  BY <1>10, <1>3
<1> QED
  BY <1>5, <1>7, <1>8, <1>9, <1>11, <1>12, <1>13, EntersInv

(* Behind a block the environment of the one around it counts again.       *)
LEMMA LeavesInv == ASSUME CartInv, Leaves PROVE CartInv'
<1>1. PICK k \in Nat \ {0} :
        /\ scopes \in Seq([Names -> Provenances]) /\ stale \in Seq(SUBSET Names)
        /\ Len(scopes) = k + 1 /\ Len(stale) = k + 1
        /\ DOMAIN scopes = 1 .. k + 1
  <2>1. /\ Len(scopes) \in Nat /\ Len(scopes) > 1
        /\ scopes \in Seq([Names -> Provenances]) /\ stale \in Seq(SUBSET Names)
        /\ Len(stale) = Len(scopes)
    BY DEF CartInv, CartTypeInv, Leaves
  <2>2. /\ Len(scopes) - 1 \in Nat \ {0} /\ Len(scopes) = (Len(scopes) - 1) + 1
        /\ DOMAIN scopes = 1 .. Len(scopes)
    BY <2>1
  <2> QED
    BY <2>1, <2>2
<1>2. /\ scopes' = SubSeq(scopes, 1, k) /\ stale' = SubSeq(stale, 1, k)
      /\ UNCHANGED values /\ UNCHANGED verdicts
  BY <1>1 DEF Leaves, Front
<1>3. /\ scopes' \in Seq([Names -> Provenances]) /\ Len(scopes') = k
      /\ DOMAIN scopes' = 1 .. k /\ \A i \in 1 .. k : scopes'[i] = scopes[i]
  BY <1>1, <1>2
<1>4. /\ stale' \in Seq(SUBSET Names) /\ Len(stale') = k
      /\ \A i \in 1 .. k : stale'[i] = stale[i]
  BY <1>1, <1>2
<1>5. CartTypeInv'
  BY <1>2, <1>3, <1>4, VerdictsStay DEF CartInv, CartTypeInv
<1>6. ScopesInv'
  BY <1>1, <1>2, <1>3, <1>4 DEF CartInv, ScopesInv
<1> QED
  BY <1>2, <1>5, <1>6, VerdictsStay DEF CartInv

-----------------------------------------------------------------------------
LEMMA CartNextInv == ASSUME CartInv, [CartNext]_cartVars PROVE CartInv'
<1>1. ASSUME NEW n \in Names, NEW copy \in Copies, NEW path \in Paths,
             Assign(n, copy, path) \/ EntersFor(n, copy, path)
      PROVE  CartInv'
  BY <1>1, AssignInv, EntersForInv
<1>2. ASSUME NEW path \in Paths,
             Stores(path) \/ CallsListed(path) \/ CallsUnlisted(path)
      PROVE  CartInv'
  BY <1>2, LooksInv
<1>3. ASSUME NEW n \in Names,
             \/ Annotates(n)
             \/ \E provenance \in Augmented(n) : Augments(n, provenance)
      PROVE  CartInv'
  BY <1>3, AnnotatesInv, AugmentsInv
<1>4. ASSUME UNCHANGED cartVars PROVE CartInv'
  BY <1>4, VerdictsStay DEF cartVars, CartInv, CartTypeInv, ScopesInv
<1> QED
  BY <1>1, <1>2, <1>3, <1>4, EntersBlockInv, LeavesInv DEF CartNext

LEMMA AnalyzerInv == CartSpec => []CartInv
<1>1. CartInv /\ [CartNext]_cartVars => CartInv'
  BY CartNextInv
<1> QED
  BY CartInitInv, <1>1, PTL DEF CartSpec

(***************************************************************************)
(* However long a candidate is, and however deep its blocks: if it is      *)
(* rejected for mutating its argument (check_cart_total_contract) and does *)
(* not, the alarm went off at a name that was bound where the analyzer did *)
(* not look, or that it took a shared list for a copy.                     *)
(***************************************************************************)
THEOREM AlarmsHaveACause == CartSpec => []FalseAlarmHasCause
<1>1. CartInv => FalseAlarmHasCause
  BY DEF CartInv
<1> QED
  BY AnalyzerInv, <1>1, PTL

(***************************************************************************)
(* One that mutates its argument and is not noticed did so at such a name, *)
(* by a method beside MUTATING_METHODS, by an augmented assignment to a    *)
(* name, or in a block the analyzer does not enter.                        *)
(***************************************************************************)
THEOREM MissesHaveACause == CartSpec => []MissHasCause
<1>1. CartInv => MissHasCause
  BY DEF CartInv
<1> QED
  BY AnalyzerInv, <1>1, PTL
=============================================================================
