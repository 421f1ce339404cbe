--------------------------- MODULE CodingV1Runner ---------------------------
(***************************************************************************)
(* Repeats the evaluation of a suite and reports how the modes compare.    *)
(* Rates are compared by the number of tasks they count: all of them have  *)
(* the same denominator.                                                   *)
(***************************************************************************)
EXTENDS SWEABRunner, FiniteSetsExt

CONSTANT Runs                   \* how often a suite is to be evaluated

ASSUME RunsAssumption == Runs \subseteq Nat

VARIABLES
  runs,                         \* argument of run
  evaluations                   \* Seq of the rows of each evaluation

v1Vars == <<runs, evaluations>>
allVars == <<sweVars, v1Vars>>

V1Init ==
  /\ Init
  /\ runs \in Runs
  /\ evaluations = << >>

Evaluates ==
  /\ SuiteNext
  /\ UNCHANGED v1Vars

Collects ==
  /\ pc = "done" /\ Len(evaluations) < runs
  /\ evaluations' = Append(evaluations, rows)
  /\ IF Len(evaluations') < runs THEN Starts(tasks) ELSE UNCHANGED sweVars
  /\ UNCHANGED runs

V1Next == Evaluates \/ Collects

V1TypeOK ==
  /\ runs \in Nat
  /\ evaluations \in Seq(Seq([Modes -> Result]))

-----------------------------------------------------------------------------
(* The report.                                                             *)

Positions == 1 .. Len(tasks)

Passes(evaluation, m) == {i \in Positions : evaluation[i][m].passed}

(* pass_rates times the number of runs and tasks.                          *)
PassCount(m) ==
  Cardinality({pass \in (DOMAIN evaluations) \X Positions :
                 pass[2] \in Passes(evaluations[pass[1]], m)})

(* _summary looks at the first evaluation only.                            *)
Regressed(m) == Passes(evaluations[1], "baseline") \ Passes(evaluations[1], m)
NotMonotonic ==
  Passes(evaluations[1], "cgr_single") \ Passes(evaluations[1], "cgr_multi")

(* Whether a boosted mode did better than the baseline, or worse.          *)
Changes(evaluation, i, m, improved) ==
  IF improved THEN i \in Passes(evaluation, m) \ Passes(evaluation, "baseline")
              ELSE i \in Passes(evaluation, "baseline") \ Passes(evaluation, m)

(* Mutant: the first evaluation stands for all.                            *)
PairChangesFirst(improved) ==
  {pair \in Positions \X (Modes \ {"baseline"}) :
     Changes(evaluations[1], pair[1], pair[2], improved)}

(* _pair_changes: the tasks a boosted mode did better, or worse, in at     *)
(* least one evaluation.                                                   *)
PairChanges(improved) ==
  {pair \in Positions \X (Modes \ {"baseline"}) :
     \E e \in DOMAIN evaluations :
       Changes(evaluations[e], pair[1], pair[2], improved)}

(* per_task times the number of runs: the runs in which a mode solved it.  *)
PerTask(i, m) == Cardinality({e \in DOMAIN evaluations : i \in Passes(evaluations[e], m)})

Preferred == <<"cgr_multi", "cgr_single", "baseline">>

(* best_mode_by_task, of the first evaluation.                             *)
BestMode(i) ==
  LET solving == {k \in DOMAIN Preferred : i \in Passes(evaluations[1], Preferred[k])}
  IN  IF solving = {} THEN "none" ELSE Preferred[Min(solving)]

-----------------------------------------------------------------------------
Complete == Len(evaluations) = runs /\ runs > 0

(***************************************************************************)
(* The lists of the report agree with its rates: a mode whose mean rate is *)
(* below (above) the baseline's has a task among the regressions           *)
(* (improvements), and so has a task that the summary of the first         *)
(* evaluation names; the tasks that are in neither list have the rate of   *)
(* the baseline, and where the baseline is the best mode both boosted ones *)
(* regressed.                                                              *)
(***************************************************************************)
ReportAgrees ==
  Complete =>
    \A m \in Modes \ {"baseline"} :
      LET listed(improved) == {i \in Positions : <<i, m>> \in PairChanges(improved)}
      IN  /\ PassCount(m) < PassCount("baseline") => listed(FALSE) # {}
          /\ PassCount(m) > PassCount("baseline") => listed(TRUE) # {}
          /\ Regressed(m) \subseteq listed(FALSE)
          /\ \A i \in Positions \ (listed(FALSE) \cup listed(TRUE)) :
               PerTask(i, m) = PerTask(i, "baseline")
          /\ {i \in Positions : BestMode(i) = "baseline"} \subseteq listed(FALSE)

(***************************************************************************)
(* The report of a suite of repository tasks with steady tests shows no    *)
(* regression and no task that is not monotonic                            *)
(* (test_repo_v0_benchmark.py:1672), however often it is evaluated.        *)
(***************************************************************************)
NoRegressionReported ==
  Complete /\ (\A i \in Positions : tasks[i] \in RepoTasks /\ Steady(tasks[i])) =>
    /\ PairChanges(FALSE) = {}
    /\ NotMonotonic = {}
    /\ \A i \in Positions : BestMode(i) \in {"cgr_multi", "none"}
    /\ PassCount("baseline") <= PassCount("cgr_single")
    /\ PassCount("cgr_single") <= PassCount("cgr_multi")
=============================================================================
