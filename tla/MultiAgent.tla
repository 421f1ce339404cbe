----------------------------- MODULE MultiAgent -----------------------------
(***************************************************************************)
(* The multi-model coding agent: a draft, a critique by another model, and *)
(* a number of repairs; when none of them passes, a single-model agent is  *)
(* run on the same task as a fallback.                                     *)
(*                                                                         *)
(* The prompts are left out: the critique and what is known of failures    *)
(* only matter for what the model answers, which is open here.             *)
(***************************************************************************)
EXTENDS PatchVerification, Sequences, FiniteSets

CONSTANT MaxRepairs             \* max_repair_attempts

ASSUME RepairsAssumption == MaxRepairs \in Nat \ {0}

NoTrace == [attempts |-> 0]

VARIABLES
  pc,                           \* what the agent waits for, or how it ended
  retried,                      \* whether the text was sent back already
  candidates,                   \* Seq(Candidate)
  selected,                     \* the candidate that is selected so far
  passed,                       \* whether it passed
  known,                        \* the candidates known to fail
  rejected,                     \* those a guard rejected
  repeated,                     \* how often a known failure came again
  prompts,                      \* how many repairs were asked for
  attempt,                      \* number of the next repair
  fallback,                     \* what became of the fallback
  exact,                        \* verdict on the patch that is returned
  trace,                        \* what the result tells of the run
  singlePc, singleRetried,      \* the single-model agent of the fallback
  singleCandidates, singleSelected, singleExact, singleTrace

listVars == <<candidates, selected, passed, known, rejected, repeated>>
resultVars == <<fallback, exact, trace>>
searchVars == <<retried, listVars, prompts, attempt, resultVars>>
singleVars == <<singlePc, singleRetried, singleCandidates, singleSelected,
                singleExact, singleTrace>>
multiVars == <<tested, pc, searchVars, singleVars>>

Single == INSTANCE SingleAgent
            WITH pc <- singlePc, retried <- singleRetried,
                 candidates <- singleCandidates, selected <- singleSelected,
                 exact <- singleExact, trace <- singleTrace

Patch == candidates[selected].patch
SinglePatch == singleCandidates[singleSelected].patch
KnownPatches == {candidates[i].patch : i \in known}
This == Len(candidates) + 1     \* the candidate being added

Places == {"idle", "draft", "critique", "revise", "repair", "fallback",
           "verify", "returned", "raised"}

Init ==
  /\ tested \in BOOLEAN
  /\ pc = "idle"
  /\ retried = FALSE
  /\ candidates = << >>
  /\ selected = 0
  /\ passed = FALSE
  /\ known = {}
  /\ rejected = {}
  /\ repeated = 0
  /\ prompts = 0
  /\ attempt = 1
  /\ fallback = "none"
  /\ exact = "none"
  /\ trace = NoTrace
  /\ Single!Init

Tries(p, ok) == candidates' = Append(candidates, [patch |-> p, passed |-> ok])

Execute ==
  /\ pc = "idle"
  /\ pc' = "draft"
  /\ UNCHANGED <<searchVars, singleVars>>

AsksForPatch == pc \in {"draft", "revise", "repair"}

(* Mutant: a bad text is sent back until a patch comes.                    *)
GarblesAgain ==
  /\ AsksForPatch
  /\ retried' = ~ retried
  /\ UNCHANGED <<pc, listVars, prompts, attempt, resultVars, singleVars>>

(* _normalize_with_retry.                                                  *)
Garbles ==
  /\ AsksForPatch /\ ~ retried
  /\ retried' = TRUE
  /\ UNCHANGED <<pc, listVars, prompts, attempt, resultVars, singleVars>>

(* A model that raises, or a second bad text: nothing catches it.          *)
Raises ==
  /\ AsksForPatch \/ pc = "critique"
  /\ pc' = "raised"
  /\ UNCHANGED <<searchVars, singleVars>>

(* A draft that passed is returned without a critique.                     *)
Draft(p, verdict) ==
  /\ pc = "draft"
  /\ verdict \in JudgeDraft(p) \ {"raised"}
  /\ Tries(p, verdict = "passed")
  /\ selected' = 1
  /\ passed' = (verdict = "passed")
  /\ known' = IF verdict = "failed" THEN {1} ELSE {}
  /\ rejected' = IF p \in Rejected THEN {1} ELSE {}
  /\ pc' = IF verdict = "passed" THEN "verify" ELSE "critique"
  /\ retried' = FALSE
  /\ UNCHANGED <<repeated, prompts, attempt, resultVars, singleVars>>

(* Only a draft that was judged is repaired in the loop.                   *)
Critique ==
  /\ pc = "critique"
  /\ pc' = IF known = {} THEN "revise" ELSE "repair"
  /\ prompts' = prompts + 1
  /\ UNCHANGED <<retried, listVars, attempt, resultVars, singleVars>>

Revise(p) ==
  /\ pc = "revise"
  /\ Tries(p, FALSE)
  /\ selected' = This
  /\ pc' = "verify"
  /\ retried' = FALSE
  /\ UNCHANGED <<passed, known, rejected, repeated, prompts, attempt,
                 resultVars, singleVars>>

(* Mutant: no fallback after a repetition.                                 *)
ContinuesToVerify ==
  /\ attempt' = attempt + 1
  /\ retried' = FALSE
  /\ pc' = CASE attempt < MaxRepairs -> "repair"
             [] attempt = MaxRepairs /\ (passed' \/ repeated' # 0) -> "verify"
             [] attempt = MaxRepairs /\ ~ passed' /\ repeated' = 0 -> "fallback"
  /\ prompts' = IF pc' = "repair" THEN prompts + 1 ELSE prompts
  /\ UNCHANGED <<resultVars, singleVars>>

(* What follows a repair: the next one, or the end of the loop.            *)
Continues ==
  /\ attempt' = attempt + 1
  /\ retried' = FALSE
  /\ pc' = CASE attempt < MaxRepairs -> "repair"
             [] attempt = MaxRepairs /\ passed' -> "verify"
             [] attempt = MaxRepairs /\ ~ passed' -> "fallback"
  /\ prompts' = IF pc' = "repair" THEN prompts + 1 ELSE prompts
  /\ UNCHANGED <<resultVars, singleVars>>

(* Mutant: a repetition is not entered among the known failures.           *)
RepeatsUnentered(p) ==
  /\ pc = "repair" /\ p \in KnownPatches
  /\ Tries(p, FALSE)
  /\ repeated' = repeated + 1
  /\ UNCHANGED <<selected, passed, known, rejected>>
  /\ Continues

Repeats(p) ==
  /\ pc = "repair" /\ p \in KnownPatches
  /\ Tries(p, FALSE)
  /\ known' = known \cup {This}
  /\ repeated' = repeated + 1
  /\ UNCHANGED <<selected, passed, rejected>>
  /\ Continues

(* A guard rejected the repair: it is not a choice for select_patch.       *)
RejectsRepair(p) ==
  /\ pc = "repair" /\ p \notin KnownPatches
  /\ p \in Rejected \cup Uncovered
  /\ Tries(p, FALSE)
  /\ known' = known \cup {This}
  /\ rejected' = rejected \cup {This}
  /\ UNCHANGED <<selected, passed, repeated>>
  /\ Continues

(* Mutants: the flag is that of the last repair; a failure is forgotten.   *)
TestsRepairForgetting(p, verdict) ==
  /\ pc = "repair" /\ p \notin KnownPatches \cup Rejected
  /\ verdict \in VerifyPatch(p) \ {"raised"}
  /\ LET ok == verdict = "passed"
     IN  /\ Tries(p, ok)
         /\ selected' = IF PrefersRepaired(Patch, passed, p, ok)
                          THEN This ELSE selected
         /\ passed' = ok
         /\ known' = IF ok THEN known ELSE known \cup {This}
  /\ UNCHANGED <<rejected, repeated>>
  /\ Continues

TestsRepairUnrecorded(p, verdict) ==
  /\ pc = "repair" /\ p \notin KnownPatches \cup Rejected
  /\ verdict \in VerifyPatch(p) \ {"raised"}
  /\ LET ok == verdict = "passed"
     IN  /\ Tries(p, ok)
         /\ selected' = IF PrefersRepaired(Patch, passed, p, ok)
                          THEN This ELSE selected
         /\ passed' = (passed \/ ok)
  /\ UNCHANGED <<known, rejected, repeated>>
  /\ Continues

(* The loop goes on after a repair that passed.                            *)
TestsRepair(p, verdict) ==
  /\ pc = "repair" /\ p \notin KnownPatches \cup Rejected
  /\ verdict \in VerifyPatch(p) \ {"raised"}
  /\ LET ok == verdict = "passed"
     IN  /\ Tries(p, ok)
         /\ selected' = IF PrefersRepaired(Patch, passed, p, ok)
                          THEN This ELSE selected
         /\ passed' = (passed \/ ok)
         /\ known' = IF ok THEN known ELSE known \cup {This}
  /\ UNCHANGED <<rejected, repeated>>
  /\ Continues

JudgeRaises(p) ==
  /\ \/ pc = "draft" /\ "raised" \in JudgeDraft(p)
     \/ /\ pc = "repair" /\ p \notin KnownPatches \cup Rejected
        /\ "raised" \in VerifyPatch(p)
  /\ pc' = "raised"
  /\ UNCHANGED <<searchVars, singleVars>>

(* _run_single_fallback.                                                   *)
FallbackRuns ==
  /\ pc = "fallback"
  /\ Single!Next
  /\ UNCHANGED <<pc, searchVars>>

(* The patch of the fallback is tested, but no guard looks at it.          *)
FallbackReturns(verdict) ==
  /\ pc = "fallback" /\ singlePc = "returned"
  /\ verdict \in VerifyPatch(SinglePatch) \ {"raised"}
  /\ LET ok == verdict = "passed"
     IN  /\ Tries(SinglePatch, ok)
         /\ selected' = IF PrefersRepaired(Patch, FALSE, SinglePatch, ok)
                          THEN This ELSE selected
         /\ passed' = ok
  /\ fallback' = verdict
  /\ pc' = "verify"
  /\ UNCHANGED <<retried, known, rejected, repeated, prompts, attempt, exact,
                 trace, singleVars>>

(* Any exception of the fallback is caught.                                *)
FallbackRaises ==
  /\ pc = "fallback"
  /\ \/ singlePc = "raised"
     \/ singlePc = "returned" /\ "raised" \in VerifyPatch(SinglePatch)
  /\ fallback' = "raised"
  /\ pc' = "verify"
  /\ UNCHANGED <<retried, listVars, prompts, attempt, exact, trace,
                 singleVars>>

(* _trace, without the texts.                                              *)
Trace(verdict) ==
  [attempts     |-> Len(candidates),
   repairs      |-> prompts,
   selected     |-> selected,
   scores       |-> [i \in DOMAIN candidates |-> candidates[i].passed],
   known        |-> known,
   rejected     |-> rejected,
   repeated     |-> repeated,
   guardApplied |-> fallback # "none",
   fallbackUsed |-> fallback = "passed",
   exact        |-> verdict]

(* The last verification only tells the caller; it chooses nothing.        *)
Verify(verdict) ==
  /\ pc = "verify"
  /\ verdict \in VerifyPatch(Patch)
  /\ pc' = IF verdict = "raised" THEN "raised" ELSE "returned"
  /\ exact' = IF verdict = "raised" THEN exact ELSE verdict
  /\ trace' = IF verdict = "raised" THEN NoTrace ELSE Trace(verdict)
  /\ UNCHANGED <<retried, listVars, prompts, attempt, fallback, singleVars>>

Next ==
  /\ UNCHANGED tested
  /\ \/ Execute \/ Garbles \/ Raises \/ Critique
     \/ \E p \in Patches :
          \/ Revise(p) \/ Repeats(p) \/ RejectsRepair(p) \/ JudgeRaises(p)
          \/ \E verdict \in Verdict : Draft(p, verdict) \/ TestsRepair(p, verdict)
     \/ FallbackRuns \/ FallbackRaises
     \/ \E verdict \in Verdict : FallbackReturns(verdict) \/ Verify(verdict)

Spec == Init /\ [][Next]_multiVars

(* Models and tests have timeouts: each of them answers or raises.         *)
FairSpec == Spec /\ WF_multiVars(Next)

TypeOK ==
  /\ tested \in BOOLEAN
  /\ pc \in Places
  /\ retried \in BOOLEAN
  /\ candidates \in Seq(Candidate)
  /\ selected \in 0 .. Len(candidates)
  /\ passed \in BOOLEAN
  /\ known \subseteq DOMAIN candidates
  /\ rejected \subseteq known
  /\ repeated \in 0 .. MaxRepairs
  /\ prompts \in 0 .. MaxRepairs
  /\ attempt \in 1 .. MaxRepairs + 1
  /\ fallback \in Verdict
  /\ exact \in Verdict \ {"raised"}
  /\ trace \in {NoTrace, Trace(exact)}
  /\ Single!TypeOK

(* A patch that was found wrong is not found right by a later repair of    *)
(* the same run, though its tests may be shaky: an exact repetition is     *)
(* rejected before it is tested.  (The fallback starts afresh.)            *)
KnownFailuresStayOut ==
  \A i, j \in DOMAIN candidates :
    /\ i < j /\ j <= MaxRepairs + 1
    /\ candidates[i].patch = candidates[j].patch
    /\ ~ candidates[i].passed
    => ~ candidates[j].passed

(* Unless it fails, the agent returns one of the patches it tried, and one *)
(* that passed if any did, whether drafts, repairs or the fallback's.      *)
Search ==
  INSTANCE PatchSearch
    WITH Nothing <- "nothing", Failure <- "failure",
         tried <- {candidates[i] : i \in DOMAIN candidates},
         given <- CASE pc = "returned" -> Patch
                    [] pc = "raised" -> "failure"
                    [] OTHER -> "nothing"

SearchSpec == Search!Spec

(* The single-model agent of the fallback keeps the same promise.          *)
SingleSearch ==
  INSTANCE PatchSearch
    WITH Nothing <- "nothing", Failure <- "failure",
         tried <- {singleCandidates[i] : i \in DOMAIN singleCandidates},
         given <- CASE singlePc = "returned" -> SinglePatch
                    [] singlePc = "raised" -> "failure"
                    [] OTHER -> "nothing"

SingleSearchSpec == SingleSearch!Spec

(* The trace tells the run: every repair asked for is a candidate; the     *)
(* score of the selected one is the best; with tests, the known failures   *)
(* are exactly the draft and repairs that failed, and repetitions are      *)
(* those of an earlier one; the guard is said to apply exactly when none   *)
(* of them passed, and the fallback to be used when it was selected for    *)
(* having passed.                                                          *)
TraceTellsTheRun ==
  trace # NoTrace =>
    LET own == {i \in DOMAIN trace.scores : i <= MaxRepairs + 1}
        failed == {i \in own : ~ trace.scores[i]}
    IN  /\ trace.repairs = Cardinality(own) - 1
        /\ (\E i \in DOMAIN trace.scores : trace.scores[i])
             => trace.scores[trace.selected]
        /\ tested =>
             /\ trace.known = failed
             /\ trace.repeated =
                  Cardinality({j \in own : \E i \in failed :
                    i < j /\ candidates[i].patch = candidates[j].patch})
             /\ trace.guardApplied <=> (own = failed)
        /\ trace.fallbackUsed =>
             trace.selected \notin own /\ trace.scores[trace.selected]

(* However often models answer unreadably, the agent returns or raises:    *)
(* texts are sent back once and repairs are bounded.                       *)
AgentEnds == <>(pc \in {"returned", "raised"})

(* What the documentation calls the monotonic single-path fallback: an     *)
(* agent that returns a patch of a task with tests either tried one that   *)
(* passed, or tried the single path too.  (If a model raises after the     *)
(* draft, it raises without trying the single path.)                       *)
MonotonicFallback ==
  tested /\ pc = "returned" =>
    (\E i \in DOMAIN candidates : candidates[i].passed) \/ singlePc # "idle"
=============================================================================
