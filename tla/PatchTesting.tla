---------------------------- MODULE PatchTesting -----------------------------
(***************************************************************************)
(* verify_patch: the files of a patch are tried with the visible tests of  *)
(* the task, then with its hidden ones.  Each of the two is a run of       *)
(* PythonTestRunner in a temporary directory of its own, with the visible  *)
(* tests rewritten for better messages.  Commands are subprocesses that    *)
(* run the tests: they may change the files of the directory, fail, time   *)
(* out, or not start at all.                                               *)
(***************************************************************************)
EXTENDS FailureReport

CONSTANTS
  Files,                        \* names of files
  HiddenNames,                  \* those with "hidden" in them
  MaxCommands,                  \* bound: commands of a stage
  Texts,                        \* what the tests of a stage may say
  Prints                        \* what a command may print before it ends

Stages == {"visible", "hidden"}
Line == [says : Seq(STRING), is : SUBSET Traits]

ASSUME NameAssumption == HiddenNames \subseteq Files
ASSUME TextAssumption == \A text \in Texts : text \in Seq(Tokens) /\ SyntaxOK(text)

(* The names of a rewritten equality, __cgr_actual and __cgr_expected, are *)
(* not names of the tests.                                                 *)
ASSUME OwnNamesAssumption ==
  \A text \in Texts : \A k \in Calling(text) :
    Head(Statements(text)[k]) \notin {"actual=", "expected="}

VARIABLES
  overlay,                      \* files of the task and the patch
  tests,                        \* test files of each stage
  commands,                     \* how many commands each stage has
  pc, stage,
  given,                        \* what the tests of the stage say
  written,                      \* and what their files say
  disk,                         \* whose content a file of the directory has
  ran,                          \* what each stage ran, and what it found
  messages,                     \* lines of the run
  kept,                         \* lines that are told of each stage
  verdict

taskVars == <<overlay, tests, commands>>
testingVars == <<taskVars, pc, stage, given, written, disk, ran, messages, kept, verdict>>

Absent == [f \in Files |-> "absent"]

(* _can_show_test_source                                                   *)
CanShow(s) == tests[s] \cap HiddenNames = {}

(* The ways tests can run to their end: the text of their files, what the  *)
(* code under test returns to them, whether all assertions hold, and what  *)
(* a failure prints.                                                       *)
RunOf(says, returned) ==
  LET holds == Holds(says, returned)
  IN  [says |-> says, returned |-> returned, holds |-> holds,
       output |-> IF holds THEN << >> ELSE FailureOutput(says, returned)]

Runs == {RunOf(says, returned) : says \in Texts \cup {Enhanced(t) : t \in Texts},
                                 returned \in {"want", "wrong"}}

HasContract(s) == tests[s] # {} /\ commands[s] > 0

Init ==
  /\ overlay \in SUBSET Files
  /\ tests \in [Stages -> SUBSET Files]
  /\ commands \in [Stages -> 0 .. MaxCommands]
  /\ pc = "idle" /\ stage = "visible" /\ given = << >> /\ written = << >>
  /\ disk = Absent
  /\ ran = [s \in Stages |-> << >>]
  /\ messages = << >> /\ kept = [s \in Stages |-> << >>]
  /\ verdict = "none"

Begins ==
  /\ pc = "idle"
  /\ pc' = IF HasContract("visible") THEN "write" ELSE "done"
  /\ UNCHANGED <<taskVars, stage, given, written, disk, ran, messages, kept, verdict>>

Raises ==
  /\ pc' = "done" /\ verdict' = "raised"
  /\ disk' = Absent
  /\ UNCHANGED <<taskVars, stage, given, written, ran, messages, kept>>

(* A name that leaves the directory, or a file where a directory is to be; *)
(* or a file of the patch whose text compile() refuses otherwise than with *)
(* a SyntaxError, for a null byte or too deep a nesting.                   *)
WritingRaises ==
  /\ pc \in {"write", "compile", "write_tests"}
  /\ pc = "compile" => overlay # {}
  /\ Raises

WritesFiles ==
  /\ pc = "write"
  /\ disk' = [f \in Files |-> IF f \in overlay THEN "patch" ELSE disk[f]]
  /\ pc' = "compile"
  /\ UNCHANGED <<taskVars, stage, given, written, ran, messages, kept, verdict>>

Tells(passed, lines) ==
  kept' = [kept EXCEPT ![stage] = IF stage = "hidden" /\ ~ passed
                                    THEN SafeSummary(lines) ELSE lines]

(* The directory is removed; verify_patch goes on.                         *)
RunReturns(passed, lines) ==
  /\ disk' = Absent
  /\ Tells(passed, lines)
  /\ messages' = << >>
  /\ IF passed /\ stage = "visible" /\ HasContract("hidden")
       THEN stage' = "hidden" /\ pc' = "write" /\ given' = << >> /\ written' = << >> /\ UNCHANGED verdict
       ELSE /\ pc' = "done" /\ verdict' = IF passed THEN "passed" ELSE "failed"
            /\ UNCHANGED <<stage, given, written>>

(* Only the files of the patch are compiled, not those of the tests.       *)
Compiles(succeeds) ==
  /\ pc = "compile"
  /\ \/ /\ succeeds /\ pc' = "write_tests"
        /\ UNCHANGED <<stage, given, written, disk, messages, kept, verdict>>
     \/ ~ succeeds /\ overlay # {} /\ RunReturns(FALSE, SyntaxErrorOutput)
  /\ UNCHANGED <<taskVars, ran>>

(* Mutant: a test file does not replace a file of the patch.               *)
WritesMissingTests(says) ==
  /\ pc = "write_tests"
  /\ given' = says
  /\ written' = IF CanShow(stage) THEN Enhanced(says) ELSE says
  /\ disk' = [f \in Files |-> IF f \in tests[stage] /\ disk[f] = "absent"
                                THEN "task" ELSE disk[f]]
  /\ pc' = "run"
  /\ UNCHANGED <<taskVars, stage, ran, messages, kept, verdict>>

WritesTests(says) ==
  /\ pc = "write_tests"
  /\ given' = says
  /\ written' = IF CanShow(stage) THEN Enhanced(says) ELSE says
  /\ disk' = [f \in Files |-> IF f \in tests[stage] THEN "task" ELSE disk[f]]
  /\ pc' = "run"
  /\ UNCHANGED <<taskVars, stage, ran, messages, kept, verdict>>

(* A stage starts from the files of the patch and the tests of the task,   *)
(* which win; nothing else is there.                                       *)
Expected(s) ==
  [f \in Files |-> IF f \in tests[s] THEN "task"
                   ELSE IF f \in overlay THEN "patch" ELSE "absent"]

(* Nothing in the directory was changed since the tests were written.      *)
Intact == disk = Expected(stage)

(* The ways they can end where the code under test raises.                 *)
RaisedRuns(says) ==
  {[says |-> says, returned |-> "unknown", holds |-> FALSE,
    output |-> RaisedOutput(Statements(says)[k])] :
     k \in IF SyntaxOK(says) THEN Calling(says) ELSE {}}

(* How a command may end; any way, once files have been changed.           *)
Ends ==
  IF Intact THEN {run \in Runs : run.says = written} \cup RaisedRuns(written)
  ELSE {[says |-> written, returned |-> "unknown", holds |-> holds, output |-> << >>] :
          holds \in BOOLEAN}

Records(outcome, returned) ==
  ran' = [ran EXCEPT ![stage] =
            Append(@, [outcome |-> outcome, found |-> disk, returned |-> returned])]

MoreToRun == pc = "run" /\ Len(ran[stage]) < commands[stage]

CommandSucceeds(run, prints, changed) ==
  /\ MoreToRun /\ run.holds
  /\ Records("expected", run.returned)
  /\ messages' = messages \o <<ExitNote>> \o prints
  /\ disk' = [f \in Files |-> IF f \in changed THEN "command" ELSE disk[f]]
  /\ UNCHANGED <<taskVars, pc, stage, given, written, kept, verdict>>

(* An exit code that was not expected.                                     *)
CommandFails(run, prints) ==
  /\ MoreToRun /\ ~ run.holds
  /\ Records("other", run.returned)
  /\ RunReturns(FALSE, messages \o <<ExitNote>> \o prints \o run.output)
  /\ UNCHANGED taskVars

CommandTimesOut(prints) ==
  /\ MoreToRun
  /\ Records("timeout", "unknown")
  /\ RunReturns(FALSE, messages \o <<Note>> \o prints)
  /\ UNCHANGED taskVars

(* A program that does not exist; or one whose own subprocesses, which a   *)
(* timeout does not end, keep the directory from being removed.            *)
CommandRaises == MoreToRun /\ Raises

RunPasses ==
  /\ pc = "run" /\ Len(ran[stage]) = commands[stage]
  /\ RunReturns(TRUE, messages)
  /\ UNCHANGED <<taskVars, ran>>

Next ==
  \/ Begins \/ WritingRaises \/ WritesFiles \/ RunPasses \/ CommandRaises
  \/ \E succeeds \in BOOLEAN : Compiles(succeeds)
  \/ \E says \in Texts : WritesTests(says)
  \/ \E prints \in Prints :
       \/ CommandTimesOut(prints)
       \/ \E run \in Ends :
            \/ CommandFails(run, prints)
            \/ \E changed \in SUBSET Files : CommandSucceeds(run, prints, changed)

Spec == Init /\ [][Next]_testingVars

-----------------------------------------------------------------------------
TestingTypeOK ==
  /\ overlay \subseteq Files
  /\ tests \in [Stages -> SUBSET Files]
  /\ commands \in [Stages -> 0 .. MaxCommands]
  /\ pc \in {"idle", "write", "compile", "write_tests", "run", "done"}
  /\ stage \in Stages /\ given \in Texts \cup {<< >>} /\ written \in Seq(Tokens)
  /\ disk \in [Files -> {"absent", "patch", "task", "command"}]
  /\ \A s \in Stages :
       /\ Len(ran[s]) <= commands[s]
       /\ \A i \in DOMAIN ran[s] :
            /\ ran[s][i].outcome \in {"expected", "other", "timeout"}
            /\ ran[s][i].returned \in {"want", "wrong", "unknown"}
  /\ messages \in Seq(Line) /\ kept \in [Stages -> Seq(Line)]
  /\ verdict \in {"none", "passed", "failed", "raised"}

(***************************************************************************)
(* A patch passes only when all commands of the task ended as expected,    *)
(* the visible ones before the hidden ones, and each stage found the       *)
(* task's own tests and nothing that the other stage left behind.          *)
(***************************************************************************)
PassIsEarned ==
  /\ \A s \in Stages : ran[s] # << >> => ran[s][1].found = Expected(s)
  /\ LET AllOf(s) == /\ Len(ran[s]) = commands[s]
                     /\ \A i \in DOMAIN ran[s] : ran[s][i].outcome = "expected"
     IN  /\ ran["hidden"] # << >> => AllOf("visible")
         /\ verdict = "passed" =>
              /\ AllOf("visible") /\ HasContract("visible")
              /\ HasContract("hidden") => AllOf("hidden")

(* A run of the tests of this stage, unaltered by commands, in which the   *)
(* code under test returned.                                               *)
RanTests(i) == ran[stage][i].returned # "unknown"

(***************************************************************************)
(* A command that runs the tests ends as the tests say that were given,    *)
(* whatever was done to their text for better messages: with success if    *)
(* all their assertions hold of the code of the patch, else with failure.  *)
(***************************************************************************)
TestsKeepTheirMeaning ==
  \A i \in DOMAIN ran[stage] :
    RanTests(i) => \E run \in Runs :
                     /\ run.says = given /\ run.returned = ran[stage][i].returned
                     /\ run.holds = (ran[stage][i].outcome = "expected")

(***************************************************************************)
(* A failure has a message, of which the callers show the last line.  And  *)
(* when a visible equality of a call with a literal failed, the summary    *)
(* the repair is given still pairs both values with their headings, so     *)
(* that the hints are made of what was expected and what was returned.     *)
(***************************************************************************)
FailureIsExplained ==
  verdict = "failed" =>
    /\ kept[stage] # << >>
    /\ LET last == ran[stage][Len(ran[stage])]
       IN  (/\ stage = "visible" /\ CanShow(stage)
            /\ ran[stage] # << >> /\ RanTests(Len(ran[stage]))
            /\ \A i \in DOMAIN Lines(given) : Lines(given)[i] = <<"assert", "call", "==", "want">>)
           => ExtractExpectedGot(Summarize(kept[stage]))
                = [expected |-> "want", got |-> last.returned]

(***************************************************************************)
(* What is told of a hidden failure does not quote the source of the       *)
(* hidden tests, as safe_hidden_failure_summary says, if a name of theirs  *)
(* has "hidden" in it, as that of all hidden tests of the suites has.      *)
(* Other tests are rewritten, and a right side that raises is then quoted  *)
(* as __cgr_expected = ..., which has a marker.                            *)
(***************************************************************************)
HiddenSourceStaysHidden ==
  verdict = "failed" /\ ~ CanShow("hidden") =>
    \A i \in DOMAIN kept["hidden"] : "source" \notin kept["hidden"][i].is
=============================================================================
