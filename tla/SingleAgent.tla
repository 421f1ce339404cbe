----------------------------- MODULE SingleAgent ----------------------------
(***************************************************************************)
(* The single-model coding agent: ask for a patch, and if it is judged     *)
(* wrong ask for a repair once, then return the better of the two.         *)
(*                                                                         *)
(* The agent waits for the model, whose answer may be a patch, a text that *)
(* is none, or an exception, and for the tests.  A text that is no patch   *)
(* is sent back once; what can be saved of either text as a raw Python     *)
(* file is a patch like any other here.                                    *)
(***************************************************************************)
EXTENDS PatchVerification, Sequences

NoTrace == [attempts |-> 0]

VARIABLES
  pc,                           \* what the agent waits for, or how it ended
  retried,                      \* whether the text was sent back already
  candidates,                   \* Seq(Candidate)
  selected,                     \* the candidate that is selected so far
  exact,                        \* verdict on the patch that is returned
  trace                         \* what the result tells of the run

agentVars == <<tested, pc, retried, candidates, selected, exact, trace>>

Patch == candidates[selected].patch

Places == {"idle", "draft", "repair", "verify", "returned", "raised"}

Init ==
  /\ tested \in BOOLEAN
  /\ pc = "idle"
  /\ retried = FALSE
  /\ candidates = << >>
  /\ selected = 0
  /\ exact = "none"
  /\ trace = NoTrace

Execute ==
  /\ pc = "idle"
  /\ pc' = "draft"
  /\ UNCHANGED <<retried, candidates, selected, exact, trace>>

(* _normalize_with_retry.                                                  *)
Garbles ==
  /\ pc \in {"draft", "repair"} /\ ~ retried
  /\ retried' = TRUE
  /\ UNCHANGED <<pc, candidates, selected, exact, trace>>

Raises ==
  /\ pc \in {"draft", "repair"}
  /\ pc' = "raised"
  /\ UNCHANGED <<retried, candidates, selected, exact, trace>>

Draft(p, verdict) ==
  /\ pc = "draft"
  /\ verdict \in JudgeDraft(p) \ {"raised"}
  /\ candidates' = <<[patch |-> p, passed |-> verdict = "passed"]>>
  /\ selected' = 1
  /\ pc' = IF verdict = "failed" THEN "repair" ELSE "verify"
  /\ retried' = FALSE
  /\ UNCHANGED <<exact, trace>>

(* Without tests a repair never counts as passed.                          *)
Repair(p, verdict) ==
  /\ pc = "repair"
  /\ verdict \in JudgeRepair(p) \ {"raised"}
  /\ LET passed == verdict = "passed"
     IN  /\ candidates' = Append(candidates, [patch |-> p, passed |-> passed])
         /\ selected' = IF PrefersRepaired(Patch, FALSE, p, passed)
                          THEN 2 ELSE selected
  /\ pc' = "verify"
  /\ retried' = FALSE
  /\ UNCHANGED <<exact, trace>>

(* Running the tests raised: nothing catches it.                           *)
JudgeRaises(p) ==
  /\ \/ pc = "draft" /\ "raised" \in JudgeDraft(p)
     \/ pc = "repair" /\ "raised" \in JudgeRepair(p)
  /\ pc' = "raised"
  /\ UNCHANGED <<retried, candidates, selected, exact, trace>>

(* _trace, without the texts.  Every candidate that failed is called       *)
(* rejected before tests, by whatever it failed.                           *)
Trace(verdict) ==
  [attempts |-> Len(candidates),
   repairs  |-> Len(candidates) - 1,
   selected |-> selected,
   scores   |-> [i \in DOMAIN candidates |-> candidates[i].passed],
   rejected |-> {i \in DOMAIN candidates : ~ candidates[i].passed},
   exact    |-> verdict]

(* The last verification only tells the caller; it chooses nothing.        *)
Verify(verdict) ==
  /\ pc = "verify"
  /\ verdict \in VerifyPatch(Patch)
  /\ pc' = IF verdict = "raised" THEN "raised" ELSE "returned"
  /\ exact' = IF verdict = "raised" THEN exact ELSE verdict
  /\ trace' = IF verdict = "raised" THEN NoTrace ELSE Trace(verdict)
  /\ UNCHANGED <<retried, candidates, selected>>

Next ==
  /\ UNCHANGED tested
  /\ \/ Execute \/ Garbles \/ Raises
     \/ \E p \in Patches :
          \/ JudgeRaises(p)
          \/ \E verdict \in Verdict : Draft(p, verdict) \/ Repair(p, verdict)
     \/ \E verdict \in Verdict : Verify(verdict)

Spec == Init /\ [][Next]_agentVars

TypeOK ==
  /\ pc \in Places
  /\ retried \in BOOLEAN
  /\ candidates \in Seq(Candidate)
  /\ selected \in 0 .. Len(candidates)
  /\ exact \in Verdict \ {"raised"}
  /\ trace \in {NoTrace, Trace(exact)}
=============================================================================
