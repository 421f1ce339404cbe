--------------------------- MODULE CodingCommand ----------------------------
(***************************************************************************)
(* The commands that run the coding suites.  Each selects the tasks of its *)
(* suite by id and by number, then evaluates them or, where it has the     *)
(* option, checks the reference solutions that come with them.  Any        *)
(* exception is printed, and makes the exit code 1.                        *)
(*                                                                         *)
(* cgr-coding-ab-hard limits the tasks before it looks for the one that    *)
(* was asked for and evaluates them once; cgr-coding-ab-v1 and             *)
(* cgr-coding-ab-repo-v0 look first, and evaluate as often as they are     *)
(* told.                                                                   *)
(***************************************************************************)
EXTENDS CodingV1Runner, SequencesExt

CONSTANTS
  SuiteOf,                      \* the suite of each of the commands
  Limits,                       \* what may be given as --max-tasks
  Absent,                       \* an id that no suite has
  MaxRows,                      \* bound: tasks evaluated, repetitions counted
  NotGiven                      \* the option is not used

Commands == {"hard", "v1", "repo"}

ASSUME SuiteOfAssumption == SuiteOf \in [Commands -> Suites \ {<< >>}]
(* test_coding_v1.py:35, test_hard_coding_suite.py:22 and                  *)
(* test_repo_v0_benchmark.py:56 count the ids of the suites.               *)
ASSUME TaskIdsAssumption == \A c \in Commands : IsInjective(SuiteOf[c])
ASSUME OptionAssumption ==
         /\ MaxRows \in Nat /\ Limits \subseteq Int /\ NotGiven \notin Limits
         /\ Absent \notin Tasks /\ NotGiven \notin Tasks \cup {Absent}

VARIABLES
  command, options,             \* what was typed
  todo,                         \* what the command has still to do
  checked,                      \* whether each reference checked so far passed
  exit                          \* the exit code, -1 before the end

typed == <<command, options>>
commandVars == <<typed, todo, checked, exit>>
allCommandVars == <<allVars, commandVars>>

Suite == SuiteOf[command]

Options ==
  [taskId : ToSet(Suite) \cup {Absent, NotGiven},
   maxTasks : Limits \cup {NotGiven},
   reference : BOOLEAN]

Work ==
  CASE command = "hard" -> <<"limit", "find", "evaluate">>
    [] command # "hard" /\ options.reference -> <<"find", "limit", "check">>
    [] OTHER -> <<"find", "limit", "evaluate">>

(* The tasks that are asked for.                                           *)
Asked ==
  CASE options.taskId # NotGiven -> <<options.taskId>>
    [] options.taskId = NotGiven /\ options.maxTasks # NotGiven ->
         SubSeq(Suite, 1, Min({options.maxTasks, Len(Suite)}))
    [] OTHER -> Suite

CommandInit ==
  /\ V1Init
  /\ command \in Commands
  /\ options \in Options
  /\ tasks = Suite
  /\ command = "hard" => runs = 1 /\ ~ options.reference
  /\ runs * Len(Asked) <= MaxRows
  /\ todo = Work
  /\ checked = << >>
  /\ exit = -1

Doing(step) == exit = -1 /\ Head(todo) = step

(* return 0, or print the exception and return 1.                          *)
Exits(code) ==
  /\ exit' = code
  /\ UNCHANGED <<allVars, typed, todo, checked>>

Selects(list) ==
  /\ Starts(list)
  /\ todo' = Tail(todo)
  /\ UNCHANGED <<v1Vars, typed, checked, exit>>

Limit ==
  /\ Doing("limit")
  /\ \/ options.maxTasks = NotGiven /\ Selects(tasks)
     \/ /\ options.maxTasks # NotGiven
        /\ IF options.maxTasks > 0
             THEN Selects(SubSeq(tasks, 1, Min({options.maxTasks, Len(tasks)})))
             ELSE Exits(1)

(* One task at most, as the ids of a suite differ.                         *)
Matching ==
  IF options.taskId \in ToSet(tasks) THEN <<options.taskId>> ELSE << >>

(* Mutant: a selection without a task is let through.                      *)
FindsAny ==
  /\ Doing("find")
  /\ IF options.taskId = NotGiven THEN Selects(tasks) ELSE Selects(Matching)

Finds ==
  /\ Doing("find")
  /\ \/ options.taskId = NotGiven /\ Selects(tasks)
     \/ /\ options.taskId # NotGiven
        /\ IF Matching # << >> THEN Selects(Matching) ELSE Exits(1)

(* The files of the reference solution are tried with the scoring tests.   *)
ChecksReference(passed) ==
  /\ Doing("check") /\ Len(checked) < Len(tasks)
  /\ checked' = Append(checked, passed)
  /\ UNCHANGED <<allVars, typed, todo, exit>>

CheckRaises ==
  /\ Doing("check") /\ Len(checked) < Len(tasks)
  /\ Exits(1)

ReportsReference ==
  /\ Doing("check") /\ Len(checked) = Len(tasks)
  /\ Exits(IF \A i \in DOMAIN checked : checked[i] THEN 0 ELSE 1)

EvaluatesTasks ==
  /\ Doing("evaluate") /\ runs > 0
  /\ V1Next
  /\ UNCHANGED commandVars

(* Where an evaluation begins the providers are configured.                *)
Beginning == rows = << >> /\ mode = "baseline" /\ pc = "ask"

EvaluationRaises ==
  /\ Doing("evaluate")
  /\ runs = 0 \/ Beginning \/ pc = "aborted"
  /\ Exits(1)

Reports ==
  /\ Doing("evaluate") /\ Complete
  /\ Exits(0)

CommandNext ==
  \/ Limit \/ Finds
  \/ \E passed \in BOOLEAN : ChecksReference(passed)
  \/ CheckRaises \/ ReportsReference
  \/ EvaluatesTasks \/ EvaluationRaises \/ Reports

CommandSpec == CommandInit /\ [][CommandNext]_allCommandVars

(* Every call of a model or a test command returns or raises: both have a  *)
(* timeout.                                                                *)
FairCommandSpec == CommandSpec /\ WF_allCommandVars(CommandNext)

CommandTypeOK ==
  /\ command \in Commands /\ options \in Options
  /\ todo \in Seq({"limit", "find", "check", "evaluate"})
  /\ checked \in Seq(BOOLEAN)
  /\ exit \in {-1, 0, 1}

-----------------------------------------------------------------------------
(***************************************************************************)
(* The exit code tells the run: it is 0 only if the tasks that were asked  *)
(* for, and no others, were all evaluated as often as was asked or all had *)
(* references that passed; and a task of the suite is never called         *)
(* unknown, except by the command that limits the tasks first.             *)
(***************************************************************************)
ExitTellsTheRun ==
  /\ exit = 0 =>
       /\ tasks = Asked
       /\ options.maxTasks # NotGiven => options.maxTasks > 0
       /\ IF options.reference
            THEN Len(checked) = Len(Asked) /\ FALSE \notin ToSet(checked)
            ELSE Complete /\ \A e \in DOMAIN evaluations :
                               Len(evaluations[e]) = Len(Asked)
  /\ exit = 1 /\ Head(todo) = "find" =>
       \/ options.taskId \notin ToSet(Suite)
       \/ command = "hard" /\ options.maxTasks # NotGiven

(* A command ends, whatever models and tests do.                           *)
CommandEnds == <>(exit # -1)
=============================================================================
