--------------------------- MODULE BoosterEngine ----------------------------
(***************************************************************************)
(* The booster engine asks a model for several answers to a task, has each *)
(* of them criticised, repairs the weak ones and selects the best.  Each   *)
(* answer is scored by what the task provides: tests, an expected output,  *)
(* required keys or nothing.                                               *)
(*                                                                         *)
(* compare solves the task once directly and then boosted, by one model    *)
(* and, when there is a critic, by two.  The engine keeps nothing between  *)
(* solves.  A step here goes from one answer of a model to the next.       *)
(* Scores are given in tenths.                                             *)
(***************************************************************************)
EXTENDS Naturals, Sequences, FiniteSets

CONSTANTS
  Texts,                        \* what models answer
  NoText,                       \* the output of a solve that failed
  Patches,                      \* texts that are JSON patches
  Right,                        \* texts that meet the task's expectation
  Verdicts,                     \* what running the tests may come to
  Tasks,                        \* tasks, with what each provides
  Plans,                        \* the modes that are solved one by one
  MaxCandidates, MaxRepairAttempts

Modes == {"baseline", "single", "multi"}
Task == [coding : {TRUE}, provides : {"tests", "output", "nothing"}]
        \cup [coding : {FALSE}, provides : {"keys", "output", "nothing"}]

ASSUME TextsAssumption ==
         /\ NoText \notin Texts
         /\ Patches \subseteq Texts /\ Right \subseteq Texts
         /\ Verdicts \in
              [Texts -> (SUBSET {"passed", "failed", "raised"}) \ {{}}]
ASSUME TasksAssumption == Tasks \subseteq Task /\ Plans \subseteq Seq(Modes)
ASSUME LimitsAssumption ==
         /\ MaxCandidates \in Nat \ {0} /\ MaxRepairAttempts \in Nat

VARIABLES
  task,
  critic,                       \* whether there is a critic capability
  remaining,                    \* the modes still to be solved
  mode,                         \* the one being solved
  pc,                           \* what solve waits for
  candidates,                   \* Seq(Candidate)
  index,                        \* the candidate whose turn it is
  repairs,                      \* number of repairs begun
  results                       \* Seq(Result)

boosterVars ==
  <<task, critic, remaining, mode, pc, candidates, index, repairs, results>>

Candidate ==
  [text : Texts, score : {0, 5, 7, 10}, verified : BOOLEAN,
   critiqued : BOOLEAN, repairOf : Nat]

Result ==
  [mode : Modes, output : Texts \cup {NoText}, score : {0, 5, 7, 10},
   passed : BOOLEAN, error : BOOLEAN, candidates : Seq(Candidate)]

-----------------------------------------------------------------------------
Judged(passed) == <<IF passed THEN 10 ELSE 0, passed>>

(* _score_candidate: the scores a text may get, unless testing it raises.  *)
Scores(text) ==
  CASE task.coding /\ text \notin Patches -> {<<0, FALSE>>}
    [] task.coding /\ text \in Patches /\ task.provides = "tests" ->
         {Judged(verdict = "passed") : verdict \in Verdicts[text] \ {"raised"}}
    [] task.coding /\ text \in Patches /\ task.provides = "nothing" ->
         {<<7, TRUE>>}
    [] ~ task.coding /\ task.provides = "nothing" -> {<<5, FALSE>>}
    [] OTHER -> {Judged(text \in Right)}

ScoringRaises(text) ==
  /\ task.coding /\ text \in Patches /\ task.provides = "tests"
  /\ "raised" \in Verdicts[text]

Answered(text, score, repairOf) ==
  candidates' = Append(candidates,
    [text |-> text, score |-> score[1], verified |-> score[2],
     critiqued |-> repairOf # 0, repairOf |-> repairOf])

(* solve returns, and compare goes on to the next mode.                    *)
SolveReturns(result) ==
  /\ results' = Append(results, result)
  /\ pc' = "idle"
  /\ UNCHANGED <<task, critic, remaining, mode, index, repairs>>

Failure ==
  [mode |-> mode, output |-> NoText, score |-> 0, passed |-> FALSE,
   error |-> TRUE, candidates |-> candidates]

-----------------------------------------------------------------------------
(* The next mode is solved; two models need a critic capability.           *)
BeginsMode ==
  /\ pc = "idle" /\ remaining # << >>
  /\ mode' = Head(remaining)
  /\ remaining' = Tail(remaining)
  /\ pc' = IF Head(remaining) = "multi" /\ ~ critic THEN "stopped" ELSE "generate"
  /\ candidates' = << >>
  /\ index' = 1
  /\ repairs' = 0
  /\ UNCHANGED <<task, critic, results>>

Stopped ==
  /\ pc = "stopped"
  /\ SolveReturns(Failure)
  /\ UNCHANGED candidates

Generates(text, score) ==
  /\ pc = "generate"
  /\ score \in Scores(text)
  /\ Answered(text, score, 0)
  /\ pc' = CASE mode = "baseline" -> "select"
             [] mode # "baseline" /\ Len(candidates') < MaxCandidates -> pc
             [] mode # "baseline" /\ Len(candidates') = MaxCandidates -> "critique"
  /\ UNCHANGED <<task, critic, remaining, mode, index, repairs, results>>

(* The loop goes over a copy of the generated candidates.                  *)
Continues ==
  /\ index' = index + 1
  /\ pc' = IF index < MaxCandidates THEN "critique" ELSE "select"

(* Mutant: a verified candidate is taken for a good one.                   *)
UnverifiedIsWeak == ~ candidates[index].verified

Weak == candidates[index].score < 10

(* Every candidate is criticised, also one that needs no repair.           *)
Critiques ==
  /\ pc = "critique"
  /\ candidates' = [candidates EXCEPT ![index] = [@ EXCEPT !.critiqued = TRUE]]
  /\ \/ /\ Weak /\ repairs < MaxRepairAttempts
        /\ repairs' = repairs + 1
        /\ pc' = "repair"
        /\ UNCHANGED index
     \/ /\ ~ Weak \/ repairs >= MaxRepairAttempts
        /\ Continues
        /\ UNCHANGED repairs
  /\ UNCHANGED <<task, critic, remaining, mode, results>>

Repairs(text, score) ==
  /\ pc = "repair"
  /\ score \in Scores(text)
  /\ Answered(text, score, index)
  /\ Continues
  /\ UNCHANGED <<task, critic, remaining, mode, repairs, results>>

(* The model raises, reports a failure or answers without a text, or       *)
(* running the tests on its answer raises: solve returns no output.        *)
Fails ==
  /\ pc \in {"generate", "critique", "repair"}
  /\ SolveReturns(Failure)
  /\ UNCHANGED candidates

ScoringFails(text) ==
  /\ pc \in {"generate", "repair"}
  /\ ScoringRaises(text)
  /\ SolveReturns(Failure)
  /\ UNCHANGED candidates

(* Mutant: only generated candidates are compared.                         *)
BestGenerated(i) ==
  /\ \A j \in DOMAIN candidates :
       candidates[j].repairOf = 0 => candidates[j].score <= candidates[i].score
  /\ \A j \in 1 .. i - 1 : candidates[j].score < candidates[i].score

(* max keeps the first of equals.                                          *)
Best(i) ==
  /\ \A j \in DOMAIN candidates : candidates[j].score <= candidates[i].score
  /\ \A j \in 1 .. i - 1 : candidates[j].score < candidates[i].score

Selects ==
  /\ pc = "select"
  /\ \E i \in DOMAIN candidates :
       /\ Best(i)
       /\ SolveReturns([mode |-> mode, output |-> candidates[i].text,
                score |-> candidates[i].score,
                passed |-> candidates[i].verified, error |-> FALSE,
                candidates |-> candidates])
  /\ UNCHANGED candidates

BoosterInit ==
  /\ task \in Tasks
  /\ critic \in BOOLEAN
  /\ remaining \in Plans
  /\ mode = "baseline"
  /\ pc = "idle"
  /\ candidates = << >>
  /\ index = 1
  /\ repairs = 0
  /\ results = << >>

BoosterNext ==
  \/ BeginsMode \/ Stopped \/ Critiques \/ Fails \/ Selects
  \/ \E text \in Texts :
       \/ ScoringFails(text)
       \/ \E score \in Scores(text) :
            Generates(text, score) \/ Repairs(text, score)

BoosterSpec == BoosterInit /\ [][BoosterNext]_boosterVars

-----------------------------------------------------------------------------
BoosterTypeOK ==
  /\ task \in Task /\ critic \in BOOLEAN
  /\ remaining \in Seq(Modes) /\ mode \in Modes
  /\ pc \in {"idle", "stopped", "generate", "critique", "repair", "select"}
  /\ candidates \in Seq(Candidate)
  /\ index \in 1 .. MaxCandidates + 1
  /\ repairs \in 0 .. MaxRepairAttempts
  /\ results \in Seq(Result)

Generated(r) == {i \in DOMAIN r.candidates : r.candidates[i].repairOf = 0}
RepairsOf(r, i) == {j \in DOMAIN r.candidates : r.candidates[j].repairOf = i}

(* A solve that does not fail gives a verified answer exactly when one of  *)
(* its candidates or their repairs was verified, although it goes by the   *)
(* score alone and an open task scores a verified answer below the rest.   *)
SelectionIsVerified ==
  \A k \in DOMAIN results :
    LET r == results[k]
        verified == {i \in DOMAIN r.candidates : r.candidates[i].verified}
    IN  ~ r.error =>
          /\ r.passed <=> verified # {}
          /\ \E i \in DOMAIN r.candidates :
               /\ r.candidates[i].text = r.output
               /\ r.passed => i \in verified

(* Repairs go to the first weak candidates, one each, as many as allowed;  *)
(* a repair is not repaired, and every candidate has been criticised.      *)
FirstWeakAreRepaired ==
  \A k \in DOMAIN results :
    LET r == results[k]
        weak == {i \in Generated(r) : r.candidates[i].score < 10}
        before(i) == {j \in weak : j < i}
    IN  ~ r.error /\ r.mode # "baseline" =>
          /\ Cardinality(Generated(r)) = MaxCandidates
          /\ \A i \in DOMAIN r.candidates :
               /\ r.candidates[i].critiqued
               /\ Cardinality(RepairsOf(r, i)) =
                    IF i \in weak /\ Cardinality(before(i)) < MaxRepairAttempts
                      THEN 1 ELSE 0
=============================================================================
