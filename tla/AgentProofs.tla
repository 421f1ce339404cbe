----------------------------- MODULE AgentProofs -----------------------------
(***************************************************************************)
(* The coding agents give the best of what they tried, for any patches,    *)
(* verdicts and number of repairs; a patch known to fail does not pass     *)
(* later; and the trace of the multi-model agent is true.                  *)
(***************************************************************************)
EXTENDS MultiAgent, FiniteSetTheorems, TLAPS

USE RepairsAssumption

LEMMA IntervalSize ==
  ASSUME NEW n \in Nat
  PROVE  Cardinality(1 .. n) = n
<1>1. n < 1 <=> n = 0
  OBVIOUS
<1>2. Cardinality(1 .. n) = IF 1 > n THEN 0 ELSE n - 1 + 1
  BY FS_Interval
<1> QED
  BY <1>1, <1>2

(* The best of a list of candidates is one that passed if any did.         *)
IsBest(list, best) ==
  /\ best \in DOMAIN list
  /\ (\E i \in DOMAIN list : list[i].passed) => list[best].passed

LEMMA Appended ==
  ASSUME NEW list \in Seq(Candidate), NEW p \in Patches, NEW ok \in BOOLEAN,
         NEW longer, longer = Append(list, [patch |-> p, passed |-> ok])
  PROVE  /\ longer \in Seq(Candidate) /\ Len(longer) = Len(list) + 1
         /\ Len(list) \in Nat
         /\ DOMAIN list = 1 .. Len(list) /\ DOMAIN longer = 1 .. Len(list) + 1
         /\ \A i \in DOMAIN list : longer[i] = list[i]
         /\ longer[Len(list) + 1] = [patch |-> p, passed |-> ok]
<1>1. [patch |-> p, passed |-> ok] \in Candidate
  BY DEF Candidate
<1> QED
  BY <1>1

(* select_patch prefers the one of two that passed.                        *)
LEMMA BestOfMore ==
  ASSUME NEW list \in Seq(Candidate), NEW p \in Patches, NEW ok \in BOOLEAN,
         NEW best, IsBest(list, best),
         NEW chosen, chosen = best \/ chosen = Len(list) + 1,
         ok /\ ~ list[best].passed => chosen = Len(list) + 1,
         ~ ok /\ list[best].passed => chosen = best
  PROVE  LET longer == Append(list, [patch |-> p, passed |-> ok])
         IN  IsBest(longer, chosen) /\ (longer[chosen].passed <=> list[best].passed \/ ok)
<1> DEFINE longer == Append(list, [patch |-> p, passed |-> ok])
<1>1. /\ Len(list) \in Nat
      /\ DOMAIN list = 1 .. Len(list) /\ DOMAIN longer = 1 .. Len(list) + 1
      /\ \A i \in DOMAIN list : longer[i] = list[i]
      /\ longer[Len(list) + 1].passed = ok
  BY Appended
<1> HIDE DEF longer
<1>2. /\ best \in DOMAIN list /\ best \in 1 .. Len(list)
      /\ longer[best].passed = list[best].passed
  BY <1>1 DEF IsBest
<1>3. longer[chosen].passed <=> list[best].passed \/ ok
  BY <1>1, <1>2
<1>4. ASSUME NEW i \in DOMAIN longer, longer[i].passed PROVE list[best].passed \/ ok
  <2>1. CASE i \in DOMAIN list
    BY <1>1, <1>4, <2>1 DEF IsBest
  <2>2. CASE i = Len(list) + 1
    BY <1>1, <1>4, <2>2
  <2> QED
    BY <1>1, <1>4, <2>1, <2>2
<1> QED
  BY <1>1, <1>2, <1>3, <1>4 DEF IsBest

-----------------------------------------------------------------------------
(* The single-model agent.                                                 *)
SingleInv ==
  /\ tested \in BOOLEAN
  /\ singlePc \in Single!Places
  /\ singleCandidates \in Seq(Candidate)
  /\ singlePc \in {"idle", "draft"} => singleCandidates = << >>
  /\ singlePc = "repair" =>
       /\ Len(singleCandidates) = 1 /\ singleSelected = 1
       /\ ~ singleCandidates[1].passed
  /\ singlePc \in {"verify", "returned"} => IsBest(singleCandidates, singleSelected)

LEMMA JudgedDraft ==
  ASSUME NEW p \in Patches, tested \in BOOLEAN, NEW verdict \in JudgeDraft(p)
  PROVE  /\ verdict \in Verdict
         /\ tested /\ verdict # "raised" => verdict \in {"passed", "failed"}
BY TestAssumption DEF JudgeDraft, VerifyPatch, Verdict

(* Steps of a search, by the list of what was tried.                       *)
LEMMA SingleTries ==
  ASSUME SingleInv, NEW p \in Patches, NEW ok \in BOOLEAN,
         singleCandidates' = Append(singleCandidates, [patch |-> p, passed |-> ok]),
         singlePc \notin {"returned", "raised"}, singlePc' \notin {"returned", "raised"}
  PROVE  SingleSearch!Try
<1> DEFINE tried == {singleCandidates[i] : i \in DOMAIN singleCandidates}
<1>1. tried' = tried \cup {[patch |-> p, passed |-> ok]}
  BY Appended DEF SingleInv
<1> QED
  BY <1>1 DEF SingleSearch!Try

LEMMA SingleDraftInv ==
  ASSUME SingleInv, NEW p \in Patches, NEW verdict \in Verdict,
         tested' = tested, Single!Draft(p, verdict)
  PROVE  SingleInv' /\ SingleSearch!Try
<1>1. /\ singlePc = "draft" /\ singleCandidates = << >>
      /\ singleCandidates' = <<[patch |-> p, passed |-> verdict = "passed"]>>
      /\ singleSelected' = 1
      /\ singlePc' = IF verdict = "failed" THEN "repair" ELSE "verify"
  BY DEF Single!Draft, SingleInv
<1>2. singleCandidates' = Append(singleCandidates, [patch |-> p, passed |-> verdict = "passed"])
  BY <1>1
<1>3. SingleSearch!Try
  BY <1>1, <1>2, SingleTries
<1>4. /\ singleCandidates' \in Seq(Candidate) /\ Len(singleCandidates') = 1
      /\ singleCandidates'[1].passed = (verdict = "passed")
      /\ DOMAIN singleCandidates' = {1}
  BY <1>1 DEF Candidate
<1>5. SingleInv'
  BY <1>1, <1>4 DEF SingleInv, Single!Places, IsBest
<1> QED
  BY <1>3, <1>5

LEMMA SingleRepairInv ==
  ASSUME SingleInv, NEW p \in Patches, NEW verdict \in Verdict,
         tested' = tested, Single!Repair(p, verdict)
  PROVE  SingleInv' /\ SingleSearch!Try
<1> DEFINE ok == verdict = "passed"
<1> ok \in BOOLEAN
  OBVIOUS
<1>1. /\ singlePc = "repair" /\ singlePc' = "verify"
      /\ Len(singleCandidates) = 1 /\ singleSelected = 1 /\ ~ singleCandidates[1].passed
      /\ singleCandidates \in Seq(Candidate)
      /\ singleCandidates' = Append(singleCandidates, [patch |-> p, passed |-> ok])
      /\ singleSelected' \in {1, 2} /\ (ok => singleSelected' = 2)
  BY DEF Single!Repair, SingleInv, Single!Patch, Single!PrefersRepaired
<1>2. SingleSearch!Try
  BY <1>1, SingleTries
<1>3. IsBest(singleCandidates, 1)
  BY <1>1 DEF IsBest, Candidate
<1>4. IsBest(singleCandidates', singleSelected')
  <2>1. Len(singleCandidates) + 1 = 2
    BY <1>1
  <2> QED
    BY <1>1, <1>3, <2>1, BestOfMore
<1>5. SingleInv'
  BY <1>1, <1>4, Appended DEF SingleInv, Single!Places
<1> QED
  BY <1>2, <1>5

LEMMA SingleVerifyInv ==
  ASSUME SingleInv, NEW verdict \in Verdict, tested' = tested, Single!Verify(verdict)
  PROVE  SingleInv' /\ SingleSearch!Next
<1>1. /\ singlePc = "verify" /\ IsBest(singleCandidates, singleSelected)
      /\ singlePc' = IF verdict = "raised" THEN "raised" ELSE "returned"
      /\ UNCHANGED <<singleCandidates, singleSelected>>
  BY DEF Single!Verify, SingleInv
<1>2. SingleInv'
  BY <1>1 DEF SingleInv, Single!Places
<1>3. CASE singlePc' = "raised"
  <2>1. SingleSearch!Fail
    BY <1>1, <1>3 DEF SingleSearch!Fail
  <2> QED
    BY <1>2, <2>1 DEF SingleSearch!Next
<1>4. CASE singlePc' = "returned"
  <2>1. SingleSearch!Give
    BY <1>1, <1>4 DEF SingleSearch!Give, IsBest, SinglePatch
  <2> QED
    BY <1>2, <2>1 DEF SingleSearch!Next
<1> QED
  BY <1>1, <1>3, <1>4

LEMMA SingleStep ==
  ASSUME SingleInv, Single!Next
  PROVE  SingleInv' /\ [SingleSearch!Next]_(SingleSearch!searchVars)
<1>1. tested' = tested
  BY DEF Single!Next
<1>2. CASE Single!Execute \/ Single!Garbles
  <2>1. /\ singlePc \notin {"verify", "returned", "raised"}
        /\ singlePc' = singlePc \/ (singlePc = "idle" /\ singlePc' = "draft")
        /\ UNCHANGED <<singleCandidates, singleSelected>>
    BY <1>2 DEF Single!Execute, Single!Garbles
  <2>2. SingleInv'
    BY <1>1, <2>1 DEF SingleInv, Single!Places
  <2>3. UNCHANGED SingleSearch!searchVars
    BY <2>1 DEF SingleSearch!searchVars
  <2> QED
    BY <2>2, <2>3
<1>3. CASE Single!Raises \/ \E p \in Patches : Single!JudgeRaises(p)
  <2>1. /\ singlePc \in {"draft", "repair"} /\ singlePc' = "raised"
        /\ UNCHANGED <<singleCandidates, singleSelected>>
    BY <1>3 DEF Single!Raises, Single!JudgeRaises
  <2>2. SingleInv'
    BY <1>1, <2>1 DEF SingleInv, Single!Places
  <2>3. SingleSearch!Fail
    BY <2>1 DEF SingleSearch!Fail
  <2> QED
    BY <2>2, <2>3 DEF SingleSearch!Next
<1>4. ASSUME NEW p \in Patches, NEW verdict \in Verdict,
             Single!Draft(p, verdict) \/ Single!Repair(p, verdict)
      PROVE  SingleInv' /\ SingleSearch!Next
  BY <1>1, <1>4, SingleDraftInv, SingleRepairInv DEF SingleSearch!Next
<1>5. ASSUME NEW verdict \in Verdict, Single!Verify(verdict)
      PROVE  SingleInv' /\ SingleSearch!Next
  BY <1>1, <1>5, SingleVerifyInv
<1> QED
  BY <1>2, <1>3, <1>4, <1>5 DEF Single!Next, Single!Verdict, Verdict

-----------------------------------------------------------------------------
(* The multi-model agent.  Own candidates are all but that of the fallback.*)
Own == {i \in DOMAIN candidates : i <= MaxRepairs + 1}
OwnFailures == {i \in Own : ~ candidates[i].passed}
Repetitions == {j \in Own : \E i \in OwnFailures :
                  i < j /\ candidates[i].patch = candidates[j].patch}

TypeInv ==
  /\ SingleInv
  /\ pc \in Places
  /\ candidates \in Seq(Candidate)
  /\ passed \in BOOLEAN
  /\ prompts \in Nat /\ attempt \in Nat

(* How many candidates there are, and what is known of the selected one.   *)
PlaceInv ==
  /\ pc \in {"idle", "draft"} =>
       candidates = << >> /\ prompts = 0 /\ attempt = 1 /\ repeated = 0
  /\ pc \in {"critique", "revise"} =>
       /\ Len(candidates) = 1 /\ attempt = 1 /\ ~ passed /\ repeated = 0
       /\ prompts = IF pc = "critique" THEN 0 ELSE 1
  /\ pc = "repair" =>
       Len(candidates) = attempt /\ attempt <= MaxRepairs /\ prompts = attempt
  /\ pc = "fallback" =>
       Len(candidates) = MaxRepairs + 1 /\ prompts = MaxRepairs /\ ~ passed
  /\ pc = "verify" =>
       IF Len(candidates) <= MaxRepairs + 1 THEN prompts = Len(candidates) - 1
       ELSE prompts = MaxRepairs /\ Len(candidates) = MaxRepairs + 2
  /\ pc # "verify" => fallback = "none" \/ pc \in {"returned", "raised"}

BestInv ==
  /\ pc \in {"critique", "revise", "repair", "fallback", "verify", "returned"} =>
       IsBest(candidates, selected)
  /\ pc \in {"critique", "revise", "repair", "fallback"} =>
       (passed <=> candidates[selected].passed)

(* The known failures and the repetitions are entered, in the loop, and    *)
(* with tests wherever the loop ends.                                      *)
KnownInv ==
  /\ pc = "critique" => known = {} \/ known = {1}
  /\ pc = "revise" => ~ tested
  /\ pc \in {"repair", "fallback"} \/ (tested /\ pc \in {"critique", "verify"}) =>
       known = OwnFailures /\ repeated = Cardinality(Repetitions)

FallbackInv ==
  pc = "verify" =>
    /\ fallback = "passed" => selected = MaxRepairs + 2 /\ candidates[selected].passed
    /\ tested => /\ fallback # "none" <=> Own = OwnFailures
                 /\ fallback # "none" => singlePc # "idle"

TraceInv ==
  /\ pc # "returned" => trace = NoTrace
  /\ TraceTellsTheRun

IInv ==
  /\ TypeInv /\ PlaceInv /\ BestInv /\ KnownInv /\ FallbackInv /\ TraceInv
  /\ KnownFailuresStayOut /\ MonotonicFallback

-----------------------------------------------------------------------------
LEMMA InitInv == Init => IInv /\ Search!Init /\ SingleSearch!Init
<1> SUFFICES ASSUME Init PROVE IInv /\ Search!Init /\ SingleSearch!Init
  OBVIOUS
<1>1. SingleInv /\ SingleSearch!Init
  BY DEF Init, Single!Init, SingleInv, Single!Places, SingleSearch!Init
<1>2. TypeInv /\ PlaceInv
  <2>1. TypeInv
    <3>1. /\ pc = "idle" /\ candidates = << >> /\ passed = FALSE
          /\ prompts = 0 /\ attempt = 1
      BY DEF Init
    <3>2. pc \in Places /\ passed \in BOOLEAN
      BY <3>1 DEF Places
    <3>3. prompts \in Nat /\ attempt \in Nat
      BY <3>1
    <3>4. candidates \in Seq(Candidate)
      BY <3>1
    <3>5. SingleInv
      BY <1>1
    <3> QED
      BY <3>2, <3>3, <3>4, <3>5 DEF TypeInv
  <2>2. PlaceInv
    BY DEF Init, PlaceInv
  <2> QED
    BY <2>1, <2>2
<1>3. BestInv /\ KnownInv /\ FallbackInv /\ TraceInv
  BY DEF Init, BestInv, KnownInv, FallbackInv, TraceInv, TraceTellsTheRun
<1>4. KnownFailuresStayOut /\ MonotonicFallback /\ Search!Init
  BY DEF Init, KnownFailuresStayOut, MonotonicFallback, Search!Init
<1> QED
  BY <1>1, <1>2, <1>3, <1>4 DEF IInv

(* Before the agent returns there is no trace.                             *)
LEMMA NoTraceYet ==
  ASSUME TraceInv, trace' = trace, pc # "returned", pc' # "returned"
  PROVE  TraceInv' /\ MonotonicFallback'
BY DEF TraceInv, TraceTellsTheRun, MonotonicFallback

LEMMA SameList ==
  ASSUME UNCHANGED candidates
  PROVE  /\ UNCHANGED <<Own, OwnFailures, Repetitions>>
         /\ KnownFailuresStayOut' <=> KnownFailuresStayOut
BY DEF Own, OwnFailures, Repetitions, KnownFailuresStayOut

(* Steps that leave the lists alone, and the agent waiting for a patch, or *)
(* end it with an exception.                                               *)
LEMMA QuietInv ==
  ASSUME IInv, tested' = tested, SingleInv', UNCHANGED <<listVars, exact, trace>>,
         \/ UNCHANGED <<pc, prompts, attempt, fallback>> /\ pc \notin {"verify", "returned"}
         \/ pc' = "raised" /\ pc # "returned" /\ UNCHANGED <<prompts, attempt>>
         \/ pc = "idle" /\ pc' = "draft" /\ UNCHANGED <<prompts, attempt, fallback>>
  PROVE  IInv'
<1>1. /\ UNCHANGED <<candidates, selected, passed, known, repeated>> /\ trace' = trace
      /\ UNCHANGED <<prompts, attempt>> /\ pc # "returned" /\ pc' # "returned"
  BY DEF listVars
<1>2. /\ UNCHANGED <<Own, OwnFailures, Repetitions>> /\ KnownFailuresStayOut'
      /\ TraceInv' /\ MonotonicFallback'
  BY <1>1, SameList, NoTraceYet DEF IInv
<1>3. TypeInv'
  BY <1>1 DEF IInv, TypeInv, Places
<1>4. PlaceInv'
  BY <1>1 DEF IInv, PlaceInv
<1>5. BestInv' /\ KnownInv' /\ FallbackInv'
  BY <1>1, <1>2 DEF IInv, BestInv, KnownInv, FallbackInv
<1> QED
  BY <1>2, <1>3, <1>4, <1>5 DEF IInv

LEMMA CritiqueInv == ASSUME IInv, tested' = tested, Critique PROVE IInv'
<1>1. /\ pc = "critique" /\ pc' = IF known = {} THEN "revise" ELSE "repair"
      /\ prompts' = prompts + 1 /\ UNCHANGED <<attempt, fallback, exact>>
      /\ UNCHANGED <<candidates, selected, passed, known, repeated>> /\ trace' = trace
      /\ UNCHANGED singleVars
  BY DEF Critique, listVars, resultVars
<1>2. /\ UNCHANGED <<Own, OwnFailures, Repetitions>> /\ KnownFailuresStayOut'
      /\ TraceInv' /\ MonotonicFallback'
  BY <1>1, SameList, NoTraceYet DEF IInv
<1>3. /\ Len(candidates) = 1 /\ attempt = 1 /\ ~ passed /\ prompts = 0 /\ repeated = 0
      /\ IsBest(candidates, selected) /\ ~ candidates[selected].passed
      /\ fallback = "none"
  BY <1>1 DEF IInv, PlaceInv, BestInv
<1>4. TypeInv'
  BY <1>1 DEF IInv, TypeInv, SingleInv, Places, singleVars
<1>5. PlaceInv' /\ BestInv' /\ FallbackInv'
  BY <1>1, <1>3 DEF PlaceInv, BestInv, FallbackInv
<1>6. candidates \in Seq(Candidate) /\ candidates[1] = candidates[selected]
  BY <1>3 DEF IInv, TypeInv, IsBest
<1>7. OwnFailures = {1} /\ Repetitions = {}
  BY <1>3, <1>6 DEF Own, OwnFailures, Repetitions
<1>8. KnownInv'
  <2>1. known = {} => ~ tested
    BY <1>1, <1>7 DEF IInv, KnownInv
  <2>2. known # {} => known = {1}
    BY <1>1 DEF IInv, KnownInv
  <2>3. Cardinality(Repetitions) = 0
    BY <1>7, FS_EmptySet
  <2> QED
    BY <1>1, <1>2, <1>3, <1>7, <2>1, <2>2, <2>3 DEF KnownInv
<1> QED
  BY <1>2, <1>4, <1>5, <1>8 DEF IInv

-----------------------------------------------------------------------------
(* What a new candidate changes.                                           *)
LEMMA Adds ==
  ASSUME TypeInv, NEW p \in Patches, NEW ok \in BOOLEAN, Tries(p, ok)
  PROVE  /\ candidates' \in Seq(Candidate) /\ Len(candidates') = This
         /\ Len(candidates) \in Nat /\ This = Len(candidates) + 1
         /\ DOMAIN candidates = 1 .. Len(candidates) /\ DOMAIN candidates' = 1 .. This
         /\ \A i \in 1 .. Len(candidates) : candidates'[i] = candidates[i]
         /\ candidates'[This].patch = p /\ candidates'[This].passed = ok
<1>1. /\ candidates \in Seq(Candidate)
      /\ candidates' = Append(candidates, [patch |-> p, passed |-> ok])
  BY DEF TypeInv, Tries
<1>2. [patch |-> p, passed |-> ok] \in Candidate
  BY DEF Candidate
<1> QED
  BY <1>1, <1>2 DEF This

LEMMA FiniteOwn ==
  ASSUME TypeInv
  PROVE  /\ IsFiniteSet(Own) /\ IsFiniteSet(Repetitions)
         /\ This \notin Own /\ This \notin Repetitions
<1>1. candidates \in Seq(Candidate)
  BY DEF TypeInv
<1>2. IsFiniteSet(1 .. Len(candidates))
  BY <1>1, FS_Interval
<1>3. Own \subseteq 1 .. Len(candidates) /\ Repetitions \subseteq 1 .. Len(candidates)
  BY <1>1 DEF Own, Repetitions
<1>4. IsFiniteSet(Own)
  BY <1>2, <1>3, FS_Subset
<1>5. IsFiniteSet(Repetitions)
  BY <1>2, <1>3, FS_Subset
<1>6. This \notin 1 .. Len(candidates)
  BY <1>1 DEF This
<1> QED
  BY <1>3, <1>4, <1>5, <1>6

(* A candidate of the agent's own.                                         *)
LEMMA AddsOwn ==
  ASSUME TypeInv, KnownFailuresStayOut,
         NEW p \in Patches, NEW ok \in BOOLEAN, Tries(p, ok),
         Len(candidates) <= MaxRepairs,
         ok => \A i \in OwnFailures : candidates[i].patch # p
  PROVE  /\ Own' = Own \cup {This} /\ This \notin Own
         /\ OwnFailures' = IF ok THEN OwnFailures ELSE OwnFailures \cup {This}
         /\ Repetitions' = IF \E i \in OwnFailures : candidates[i].patch = p
                             THEN Repetitions \cup {This} ELSE Repetitions
         /\ KnownFailuresStayOut'
<1>1. /\ Len(candidates) \in Nat /\ This = Len(candidates) + 1
      /\ DOMAIN candidates = 1 .. Len(candidates) /\ DOMAIN candidates' = 1 .. This
      /\ \A i \in 1 .. Len(candidates) : candidates'[i] = candidates[i]
      /\ candidates'[This].patch = p /\ candidates'[This].passed = ok
  BY Adds
<1>2. /\ Own = 1 .. Len(candidates) /\ Own' = 1 .. This
  BY <1>1 DEF Own
<1>3. /\ Own' = Own \cup {This} /\ This \notin Own
      /\ \A i \in Own : candidates'[i] = candidates[i] /\ i < This
  BY <1>1, <1>2
<1>4. OwnFailures' = IF ok THEN OwnFailures ELSE OwnFailures \cup {This}
  BY <1>1, <1>3 DEF OwnFailures
<1>5. \A i \in OwnFailures : i \in Own
  BY DEF OwnFailures
<1>6. ASSUME NEW j \in Own PROVE j \in Repetitions' <=> j \in Repetitions
  <2>1. \A i \in Own : ~ candidates'[i].passed <=> ~ candidates[i].passed
    BY <1>3
  <2>2. j \in Repetitions' <=> \E i \in Own : i \in OwnFailures' /\ i < j
                                 /\ candidates'[i].patch = candidates'[j].patch
    BY <1>1, <1>2, <1>3, <1>4, <1>5, <1>6 DEF Repetitions
  <2> QED
    BY <1>3, <1>4, <1>5, <2>2 DEF Repetitions
<1>7. This \in Repetitions' <=> \E i \in OwnFailures : candidates[i].patch = p
  BY <1>1, <1>3, <1>4, <1>5 DEF Repetitions
<1>8. Repetitions \subseteq Own /\ Repetitions' \subseteq Own'
  BY DEF Repetitions
<1>9. Repetitions' = IF \E i \in OwnFailures : candidates[i].patch = p
                       THEN Repetitions \cup {This} ELSE Repetitions
  <2>1. ASSUME NEW j PROVE j \in Repetitions' => j \in Repetitions \/ j = This
    BY <1>3, <1>6, <1>8
  <2>2. ASSUME NEW j, j \in Repetitions PROVE j \in Repetitions'
    BY <1>6, <1>8, <2>2
  <2>3. CASE \E i \in OwnFailures : candidates[i].patch = p
    <3>1. This \in Repetitions'
      BY <1>7, <2>3
    <3>2. Repetitions' = Repetitions \cup {This}
      BY <2>1, <2>2, <3>1
    <3> QED
      BY <2>3, <3>2
  <2>4. CASE ~ \E i \in OwnFailures : candidates[i].patch = p
    <3>1. This \notin Repetitions'
      BY <1>7, <2>4
    <3>2. Repetitions' = Repetitions
      BY <2>1, <2>2, <3>1
    <3> QED
      BY <2>4, <3>2
  <2> QED
    BY <2>3, <2>4
<1>10. KnownFailuresStayOut'
  <2> SUFFICES ASSUME NEW i \in DOMAIN candidates', NEW j \in DOMAIN candidates',
                      i < j, j <= MaxRepairs + 1,
                      candidates'[i].patch = candidates'[j].patch, ~ candidates'[i].passed
               PROVE  ~ candidates'[j].passed
    BY DEF KnownFailuresStayOut
  <2>1. i \in Own /\ i \in 1 .. Len(candidates) /\ candidates'[i] = candidates[i]
    BY <1>1, <1>2
  <2>2. CASE j = This
    <3>1. i \in OwnFailures /\ candidates[i].patch = p
      BY <1>1, <2>1, <2>2 DEF OwnFailures
    <3> QED
      BY <1>1, <2>2, <3>1
  <2>3. CASE j # This
    <3>1. j \in 1 .. Len(candidates) /\ candidates'[j] = candidates[j]
      BY <1>1, <2>3
    <3> QED
      BY <1>1, <2>1, <3>1 DEF KnownFailuresStayOut
  <2> QED
    BY <2>2, <2>3
<1> QED
  BY <1>3, <1>4, <1>9, <1>10

(* The candidate of the fallback.                                          *)
LEMMA AddsOther ==
  ASSUME TypeInv, KnownFailuresStayOut,
         NEW p \in Patches, NEW ok \in BOOLEAN, Tries(p, ok),
         Len(candidates) = MaxRepairs + 1
  PROVE  UNCHANGED <<Own, OwnFailures, Repetitions>> /\ KnownFailuresStayOut'
<1>1. /\ Len(candidates) \in Nat /\ This = Len(candidates) + 1
      /\ DOMAIN candidates = 1 .. Len(candidates) /\ DOMAIN candidates' = 1 .. This
      /\ \A i \in 1 .. Len(candidates) : candidates'[i] = candidates[i]
  BY Adds
<1>2. Own = 1 .. Len(candidates) /\ Own' = Own
  BY <1>1 DEF Own
<1>3. OwnFailures' = OwnFailures /\ \A i \in OwnFailures : i \in Own
  BY <1>1, <1>2 DEF OwnFailures
<1>4. Repetitions' = Repetitions
  BY <1>1, <1>2, <1>3 DEF Repetitions
<1>5. KnownFailuresStayOut'
  BY <1>1 DEF KnownFailuresStayOut
<1> QED
  BY <1>2, <1>3, <1>4, <1>5

(* A candidate is one more that the search has tried.                      *)
LEMMA SearchTries ==
  ASSUME TypeInv, NEW p \in Patches, NEW ok \in BOOLEAN, Tries(p, ok),
         pc \notin {"returned", "raised"}, pc' \notin {"returned", "raised"}
  PROVE  Search!Try
<1> DEFINE tried == {candidates[i] : i \in DOMAIN candidates}
<1>1. candidates \in Seq(Candidate) /\ candidates' = Append(candidates, [patch |-> p, passed |-> ok])
  BY DEF TypeInv, Tries
<1>2. tried' = tried \cup {[patch |-> p, passed |-> ok]}
  BY <1>1, Appended
<1> QED
  BY <1>2 DEF Search!Try

LEMMA SameSingle ==
  ASSUME SingleInv, tested' = tested, UNCHANGED singleVars
  PROVE  SingleInv' /\ UNCHANGED SingleSearch!searchVars
<1>1. UNCHANGED <<singlePc, singleCandidates, singleSelected>>
  BY DEF singleVars
<1> QED
  BY <1>1 DEF SingleInv, SingleSearch!searchVars, SinglePatch

(* The draft.                                                              *)
LEMMA DraftInv ==
  ASSUME IInv, NEW p \in Patches, NEW verdict \in Verdict,
         tested' = tested, Draft(p, verdict)
  PROVE  IInv' /\ Search!Try
<1> DEFINE ok == verdict = "passed"
<1> ok \in BOOLEAN
  OBVIOUS
<1>1. /\ pc = "draft" /\ verdict \in JudgeDraft(p) /\ verdict # "raised"
      /\ Tries(p, ok) /\ selected' = 1
      /\ known' = IF verdict = "failed" THEN {1} ELSE {}
      /\ pc' = IF ok THEN "verify" ELSE "critique"
      /\ UNCHANGED <<repeated, prompts, attempt, fallback>> /\ trace' = trace
      /\ UNCHANGED singleVars
  BY DEF Draft, resultVars
<1>2. passed' \in BOOLEAN /\ (passed' <=> ok)
  BY DEF Draft
<1>3. /\ candidates = << >> /\ prompts = 0 /\ attempt = 1 /\ repeated = 0
      /\ fallback = "none" /\ Len(candidates) = 0 /\ This = 1
  BY <1>1 DEF IInv, PlaceInv, This
<1>4. TypeInv /\ KnownFailuresStayOut /\ TraceInv
  BY DEF IInv
<1> HIDE DEF ok
<1>5. /\ candidates' \in Seq(Candidate) /\ Len(candidates') = 1
      /\ DOMAIN candidates' = {1} /\ (candidates'[1].passed <=> ok)
  <2>1. /\ candidates' \in Seq(Candidate) /\ Len(candidates') = This
        /\ DOMAIN candidates' = 1 .. This /\ candidates'[This].passed = ok
    BY <1>1, <1>4, Adds
  <2> QED
    BY <1>3, <2>1
<1>6. Own = {} /\ OwnFailures = {} /\ Repetitions = {}
  BY <1>3 DEF Own, OwnFailures, Repetitions
<1>7. /\ Own' = {1} /\ OwnFailures' = (IF ok THEN {} ELSE {1})
      /\ Repetitions' = {} /\ KnownFailuresStayOut'
  <2>1. /\ Len(candidates) <= MaxRepairs
        /\ \A i \in OwnFailures : candidates[i].patch # p
        /\ ~ \E i \in OwnFailures : candidates[i].patch = p
    BY <1>3, <1>6
  <2>2. /\ Own' = Own \cup {This}
        /\ OwnFailures' = IF ok THEN OwnFailures ELSE OwnFailures \cup {This}
        /\ Repetitions' = Repetitions /\ KnownFailuresStayOut'
    BY <1>1, <1>4, <2>1, AddsOwn
  <2> QED
    BY <1>3, <1>6, <2>2
<1>8. TypeInv'
  <2>1. SingleInv'
    BY <1>1, <1>4, SameSingle DEF TypeInv
  <2>2. pc' \in Places
    BY <1>1 DEF Places
  <2> QED
    BY <1>1, <1>2, <1>3, <1>5, <2>1, <2>2 DEF TypeInv
<1>9. PlaceInv' /\ BestInv'
  BY <1>1, <1>2, <1>3, <1>5 DEF PlaceInv, BestInv, IsBest
<1>10. KnownInv'
  <2>1. tested => ok \/ verdict = "failed"
    BY <1>1, <1>4, JudgedDraft DEF TypeInv, SingleInv, ok
  <2>2. verdict = "failed" => ~ ok
    BY DEF ok
  <2>3. Cardinality(Repetitions') = 0
    BY <1>7, FS_EmptySet
  <2> QED
    BY <1>1, <1>3, <1>7, <2>1, <2>2, <2>3 DEF KnownInv
<1>11. FallbackInv'
  BY <1>1, <1>3, <1>7 DEF FallbackInv
<1>12. TraceInv' /\ MonotonicFallback'
  BY <1>1, <1>4, NoTraceYet
<1>13. Search!Try
  BY <1>1, <1>4, SearchTries
<1> QED
  BY <1>7, <1>8, <1>9, <1>10, <1>11, <1>12, <1>13 DEF IInv

(* The revision, of a draft that was not judged.                           *)
LEMMA ReviseInv ==
  ASSUME IInv, NEW p \in Patches, tested' = tested, Revise(p)
  PROVE  IInv' /\ Search!Try
<1>1. /\ pc = "revise" /\ pc' = "verify" /\ Tries(p, FALSE) /\ selected' = This
      /\ UNCHANGED <<passed, known, repeated, prompts, attempt, fallback>>
      /\ trace' = trace /\ UNCHANGED singleVars
  BY DEF Revise, resultVars
<1>2. TypeInv /\ KnownFailuresStayOut /\ TraceInv
  BY DEF IInv
<1>3. /\ Len(candidates) = 1 /\ ~ tested /\ prompts = 1 /\ This = 2
      /\ fallback = "none"
  <2>1. Len(candidates) = 1 /\ prompts = 1 /\ fallback = "none"
    BY <1>1 DEF IInv, PlaceInv
  <2>2. ~ tested
    BY <1>1 DEF IInv, KnownInv
  <2> QED
    BY <2>1, <2>2 DEF This
<1>4. IsBest(candidates, selected) /\ ~ candidates[selected].passed
  BY <1>1 DEF IInv, BestInv, PlaceInv
<1>5. candidates' \in Seq(Candidate) /\ Len(candidates') = 2
  BY <1>1, <1>2, <1>3, Adds
<1>6. IsBest(candidates', selected')
  BY <1>1, <1>2, <1>4, BestOfMore DEF TypeInv, Tries, This
<1>7. KnownFailuresStayOut'
  <2>1. Len(candidates) <= MaxRepairs
    BY <1>3
  <2> QED
    BY <1>1, <1>2, <2>1, AddsOwn
<1>8. TypeInv'
  <2>1. SingleInv'
    BY <1>1, <1>2, SameSingle DEF TypeInv
  <2>2. pc' \in Places
    BY <1>1 DEF Places
  <2> QED
    BY <1>1, <1>2, <1>5, <2>1, <2>2 DEF TypeInv
<1>9. PlaceInv' /\ BestInv' /\ KnownInv' /\ FallbackInv'
  BY <1>1, <1>3, <1>5, <1>6 DEF PlaceInv, BestInv, KnownInv, FallbackInv
<1>10. TraceInv' /\ MonotonicFallback'
  BY <1>1, <1>2, NoTraceYet
<1>11. Search!Try
  BY <1>1, <1>2, SearchTries
<1> QED
  BY <1>7, <1>8, <1>9, <1>10, <1>11 DEF IInv

-----------------------------------------------------------------------------
(* A repair, whichever way it was judged: a repetition is one of a known   *)
(* failure, and is one itself.                                             *)
LEMMA ContinuesInv ==
  ASSUME IInv, tested' = tested, pc = "repair", Continues,
         NEW p \in Patches, NEW ok \in BOOLEAN, Tries(p, ok),
         ok => p \notin KnownPatches,
         IsBest(candidates', selected'), passed' \in BOOLEAN,
         passed' <=> candidates'[selected'].passed,
         known' = (IF ok THEN known ELSE known \cup {This}),
         repeated' = (IF p \in KnownPatches THEN repeated + 1 ELSE repeated)
  PROVE  IInv' /\ Search!Try
<1>1. /\ Len(candidates) = attempt /\ attempt <= MaxRepairs /\ prompts = attempt
      /\ fallback = "none" /\ attempt \in Nat
      /\ known = OwnFailures /\ repeated = Cardinality(Repetitions)
  BY DEF IInv, TypeInv, PlaceInv, KnownInv
<1>2. /\ attempt' = attempt + 1 /\ pc' \in {"repair", "verify", "fallback"}
      /\ pc' = "repair" <=> attempt < MaxRepairs
      /\ pc' = "verify" => passed' 
      /\ pc' = "fallback" => ~ passed'
      /\ prompts' = IF pc' = "repair" THEN prompts + 1 ELSE prompts
      /\ fallback' = fallback /\ trace' = trace
      /\ UNCHANGED singleVars
  BY <1>1 DEF Continues, resultVars
<1>3. TypeInv /\ KnownFailuresStayOut /\ TraceInv
  BY DEF IInv
<1>4. /\ candidates' \in Seq(Candidate) /\ Len(candidates') = attempt + 1
      /\ DOMAIN candidates' = 1 .. attempt + 1
  BY <1>1, <1>3, Adds
<1>5. p \in KnownPatches <=> \E i \in OwnFailures : candidates[i].patch = p
  BY <1>1 DEF KnownPatches
<1>6. /\ Own' = Own \cup {This} /\ This \notin Own
      /\ OwnFailures' = (IF ok THEN OwnFailures ELSE OwnFailures \cup {This})
      /\ Repetitions' = IF p \in KnownPatches
                          THEN Repetitions \cup {This} ELSE Repetitions
      /\ KnownFailuresStayOut'
  BY <1>1, <1>3, <1>5, AddsOwn
<1>7. repeated' = Cardinality(Repetitions')
  BY <1>1, <1>3, <1>6, FiniteOwn, FS_AddElement
<1>8. TypeInv'
  <2>1. SingleInv'
    BY <1>2, <1>3, SameSingle DEF TypeInv
  <2>2. pc' \in Places
    BY <1>2 DEF Places
  <2>3. prompts' \in Nat /\ attempt' \in Nat
    BY <1>1, <1>2
  <2> QED
    BY <1>4, <2>1, <2>2, <2>3 DEF TypeInv
<1>9. PlaceInv'
  BY <1>1, <1>2, <1>4 DEF PlaceInv
<1>10. BestInv' /\ KnownInv'
  BY <1>1, <1>2, <1>6, <1>7 DEF BestInv, KnownInv
<1>11. FallbackInv'
  <2>1. pc' = "verify" => Own' # OwnFailures'
    <3>1. selected' \in DOMAIN candidates' /\ selected' <= MaxRepairs + 1
      BY <1>1, <1>4 DEF IsBest
    <3> QED
      BY <1>2, <3>1 DEF Own, OwnFailures
  <2> QED
    BY <1>1, <1>2, <2>1 DEF FallbackInv
<1>12. TraceInv' /\ MonotonicFallback'
  BY <1>2, <1>3, NoTraceYet
<1>13. Search!Try
  BY <1>2, <1>3, SearchTries
<1> QED
  BY <1>6, <1>8, <1>9, <1>10, <1>11, <1>12, <1>13 DEF IInv

(* A repair that is rejected leaves the best of the earlier ones selected. *)
LEMMA RejectedInv ==
  ASSUME IInv, NEW p \in Patches, tested' = tested, Repeats(p) \/ RejectsRepair(p)
  PROVE  IInv' /\ Search!Try
<1>1. /\ pc = "repair" /\ Tries(p, FALSE) /\ known' = known \cup {This}
      /\ UNCHANGED <<selected, passed>> /\ Continues
      /\ repeated' = IF p \in KnownPatches THEN repeated + 1 ELSE repeated
  BY DEF Repeats, RejectsRepair
<1>2. /\ IsBest(candidates, selected) /\ passed \in BOOLEAN
      /\ passed <=> candidates[selected].passed
      /\ candidates \in Seq(Candidate)
  BY <1>1 DEF IInv, BestInv, TypeInv
<1>3. IsBest(candidates', selected) /\ (candidates'[selected].passed <=> passed)
  BY <1>1, <1>2, BestOfMore DEF Tries
<1> QED
  BY <1>1, <1>2, <1>3, ContinuesInv

LEMMA TestsRepairInv ==
  ASSUME IInv, NEW p \in Patches, NEW verdict \in Verdict,
         tested' = tested, TestsRepair(p, verdict)
  PROVE  IInv' /\ Search!Try
<1> DEFINE ok == verdict = "passed"
<1> ok \in BOOLEAN
  OBVIOUS
<1>1. /\ pc = "repair" /\ Tries(p, ok) /\ p \notin KnownPatches
      /\ known' = IF ok THEN known ELSE known \cup {This}
      /\ repeated' = repeated /\ Continues
      /\ selected' = IF PrefersRepaired(Patch, passed, p, ok) THEN This ELSE selected
  BY DEF TestsRepair
<1>2. passed' \in BOOLEAN /\ (passed' <=> passed \/ ok)
  BY DEF TestsRepair, IInv, TypeInv
<1>3. /\ IsBest(candidates, selected) /\ passed \in BOOLEAN
      /\ passed <=> candidates[selected].passed
      /\ candidates \in Seq(Candidate)
  BY <1>1 DEF IInv, BestInv, TypeInv
<1>4. /\ selected' = selected \/ selected' = Len(candidates) + 1
      /\ ok /\ ~ passed => selected' = Len(candidates) + 1
      /\ ~ ok /\ passed => selected' = selected
  BY <1>1, <1>3 DEF PrefersRepaired, This
<1>5. IsBest(candidates', selected') /\ (candidates'[selected'].passed <=> passed \/ ok)
  <2>1. /\ ok /\ ~ candidates[selected].passed => selected' = Len(candidates) + 1
        /\ ~ ok /\ candidates[selected].passed => selected' = selected
    BY <1>3, <1>4
  <2>2. candidates' = Append(candidates, [patch |-> p, passed |-> ok])
    BY <1>1 DEF Tries
  <2> HIDE DEF ok
  <2>3. /\ IsBest(candidates', selected')
        /\ candidates'[selected'].passed <=> candidates[selected].passed \/ ok
    BY <1>3, <1>4, <2>1, <2>2, BestOfMore
  <2> QED
    BY <1>3, <2>3
<1> QED
  BY <1>1, <1>2, <1>5, ContinuesInv

-----------------------------------------------------------------------------
(* When the fallback is run, no candidate passed.                          *)
LEMMA InFallback ==
  ASSUME IInv, pc = "fallback"
  PROVE  /\ Len(candidates) = MaxRepairs + 1 /\ prompts = MaxRepairs
         /\ IsBest(candidates, selected) /\ ~ candidates[selected].passed
         /\ known = OwnFailures /\ repeated = Cardinality(Repetitions)
         /\ Own = OwnFailures
<1>1. /\ Len(candidates) = MaxRepairs + 1 /\ prompts = MaxRepairs
      /\ IsBest(candidates, selected) /\ ~ candidates[selected].passed
      /\ known = OwnFailures /\ repeated = Cardinality(Repetitions)
  BY DEF IInv, PlaceInv, BestInv, KnownInv
<1>2. \A i \in Own : ~ candidates[i].passed
  BY <1>1 DEF IsBest, Own
<1> QED
  BY <1>1, <1>2 DEF OwnFailures

LEMMA FallbackReturnsInv ==
  ASSUME IInv, NEW verdict \in Verdict, tested' = tested, FallbackReturns(verdict)
  PROVE  IInv' /\ Search!Try
<1> DEFINE ok == verdict = "passed"
<1> ok \in BOOLEAN
  OBVIOUS
<1>1. /\ pc = "fallback" /\ singlePc = "returned" /\ pc' = "verify"
      /\ verdict \in VerifyPatch(SinglePatch) /\ verdict # "raised"
      /\ Tries(SinglePatch, ok) /\ fallback' = verdict
      /\ selected' = IF PrefersRepaired(Patch, FALSE, SinglePatch, ok)
                       THEN This ELSE selected
      /\ UNCHANGED <<known, repeated, prompts, attempt>> /\ trace' = trace
      /\ UNCHANGED singleVars
  BY DEF FallbackReturns
<1>2. TypeInv /\ KnownFailuresStayOut /\ TraceInv
  BY DEF IInv
<1>3. SinglePatch \in Patches
  <2>1. singleCandidates \in Seq(Candidate) /\ singleSelected \in DOMAIN singleCandidates
    BY <1>1, <1>2 DEF TypeInv, SingleInv, IsBest
  <2>2. singleCandidates[singleSelected] \in Candidate
    BY <2>1
  <2> QED
    BY <2>2 DEF SinglePatch, Candidate
<1>4. /\ Len(candidates) = MaxRepairs + 1 /\ prompts = MaxRepairs
      /\ IsBest(candidates, selected) /\ ~ candidates[selected].passed
      /\ known = OwnFailures /\ repeated = Cardinality(Repetitions)
      /\ Own = OwnFailures
  BY <1>1, InFallback
<1>5. candidates' \in Seq(Candidate) /\ Len(candidates') = MaxRepairs + 2
      /\ This = MaxRepairs + 2
  <2>1. candidates' \in Seq(Candidate) /\ Len(candidates') = This
    BY <1>1, <1>2, <1>3, Adds
  <2>2. This = MaxRepairs + 2
    BY <1>4 DEF This
  <2> QED
    BY <2>1, <2>2
<1>6. UNCHANGED <<Own, OwnFailures, Repetitions>> /\ KnownFailuresStayOut'
  BY <1>1, <1>2, <1>3, <1>4, AddsOther
<1>7. /\ selected' = selected \/ selected' = Len(candidates) + 1
      /\ ok => selected' = Len(candidates) + 1
  BY <1>1 DEF PrefersRepaired, This
<1>8. IsBest(candidates', selected') /\ (candidates'[selected'].passed <=> ok)
  <2>1. /\ ok /\ ~ candidates[selected].passed => selected' = Len(candidates) + 1
        /\ ~ ok /\ candidates[selected].passed => selected' = selected
    BY <1>4, <1>7
  <2>2. /\ candidates' = Append(candidates, [patch |-> SinglePatch, passed |-> ok])
        /\ candidates \in Seq(Candidate)
    BY <1>1, <1>2 DEF Tries, TypeInv
  <2> HIDE DEF ok
  <2>3. /\ IsBest(candidates', selected')
        /\ candidates'[selected'].passed <=> candidates[selected].passed \/ ok
    BY <1>3, <1>4, <1>7, <2>1, <2>2, BestOfMore
  <2> QED
    BY <1>4, <2>3
<1>9. tested => verdict \in {"passed", "failed"}
  BY <1>1, <1>3, TestAssumption DEF VerifyPatch
<1>10. TypeInv'
  <2>1. SingleInv'
    BY <1>1, <1>2, SameSingle DEF TypeInv
  <2>2. pc' \in Places
    BY <1>1 DEF Places
  <2>3. passed' \in BOOLEAN
    BY DEF FallbackReturns
  <2> QED
    BY <1>1, <1>2, <1>5, <2>1, <2>2, <2>3 DEF TypeInv
<1>11. PlaceInv' /\ BestInv' /\ KnownInv'
  <2>1. PlaceInv'
    BY <1>1, <1>4, <1>5 DEF PlaceInv
  <2>2. BestInv' /\ KnownInv'
    BY <1>1, <1>4, <1>6, <1>8 DEF BestInv, KnownInv
  <2> QED
    BY <2>1, <2>2
<1>12. FallbackInv'
  <2>1. ok => selected' = MaxRepairs + 2 /\ candidates'[selected'].passed
    BY <1>4, <1>7, <1>8
  <2>2. singlePc' # "idle"
    BY <1>1 DEF singleVars
  <2> QED
    BY <1>1, <1>4, <1>6, <1>9, <2>1, <2>2 DEF FallbackInv
<1>13. TraceInv' /\ MonotonicFallback'
  BY <1>1, <1>2, NoTraceYet
<1>14. Search!Try
  BY <1>1, <1>2, <1>3, SearchTries
<1> QED
  BY <1>6, <1>10, <1>11, <1>12, <1>13, <1>14 DEF IInv

LEMMA FallbackRaisesInv ==
  ASSUME IInv, tested' = tested, FallbackRaises
  PROVE  IInv'
<1>1. /\ pc = "fallback" /\ singlePc # "idle" /\ pc' = "verify" /\ fallback' = "raised"
      /\ UNCHANGED <<candidates, selected, passed, known, repeated>>
      /\ UNCHANGED <<prompts, attempt>> /\ trace' = trace
      /\ UNCHANGED singleVars
  BY DEF FallbackRaises, listVars
<1>2. TypeInv /\ KnownFailuresStayOut /\ TraceInv
  BY DEF IInv
<1>3. /\ Len(candidates) = MaxRepairs + 1 /\ prompts = MaxRepairs
      /\ IsBest(candidates, selected)
      /\ known = OwnFailures /\ repeated = Cardinality(Repetitions)
      /\ Own = OwnFailures
  BY <1>1, InFallback
<1>4. UNCHANGED <<Own, OwnFailures, Repetitions>> /\ KnownFailuresStayOut'
  BY <1>1, <1>2, SameList
<1>5. TypeInv'
  <2>1. SingleInv'
    BY <1>1, <1>2, SameSingle DEF TypeInv
  <2>2. pc' \in Places
    BY <1>1 DEF Places
  <2> QED
    BY <1>1, <1>2, <2>1, <2>2 DEF TypeInv
<1>6. PlaceInv' /\ BestInv' /\ KnownInv'
  BY <1>1, <1>3, <1>4 DEF PlaceInv, BestInv, KnownInv
<1>7. FallbackInv'
  BY <1>1, <1>3, <1>4 DEF FallbackInv, singleVars
<1>8. TraceInv' /\ MonotonicFallback'
  BY <1>1, <1>2, NoTraceYet
<1> QED
  BY <1>4, <1>5, <1>6, <1>7, <1>8 DEF IInv

-----------------------------------------------------------------------------
LEMMA TraceOfVerified ==
  ASSUME IInv, pc = "verify", NEW verdict \in Verdict, tested' = tested,
         candidates' = candidates, trace' = Trace(verdict)
  PROVE  TraceTellsTheRun'
<1> DEFINE own == {i \in DOMAIN trace'.scores : i <= MaxRepairs + 1}
           failed == {i \in own : ~ trace'.scores[i]}
<1>1. /\ trace'.repairs = prompts /\ trace'.selected = selected
      /\ trace'.known = known /\ trace'.repeated = repeated
      /\ trace'.scores = [i \in DOMAIN candidates |-> candidates[i].passed]
      /\ trace'.guardApplied <=> fallback # "none"
      /\ trace'.fallbackUsed <=> fallback = "passed"
  BY DEF Trace
<1>2. own = Own /\ failed = OwnFailures
  BY <1>1 DEF Own, OwnFailures
<1>3. Cardinality(Own) = prompts + 1 /\ prompts \in Nat
  <2>1. candidates \in Seq(Candidate) /\ prompts \in Nat
    BY DEF IInv, TypeInv
  <2>2. CASE Len(candidates) <= MaxRepairs + 1
    <3>1. Own = 1 .. Len(candidates) /\ prompts = Len(candidates) - 1
      BY <2>1, <2>2 DEF Own, IInv, PlaceInv
    <3>2. Len(candidates) \in Nat
      BY <2>1
    <3>3. Cardinality(1 .. Len(candidates)) = Len(candidates)
      BY <3>2, IntervalSize
    <3> QED
      BY <2>1, <3>1, <3>2, <3>3
  <2>3. CASE ~ (Len(candidates) <= MaxRepairs + 1)
    <3>1. Own = 1 .. MaxRepairs + 1 /\ prompts = MaxRepairs
      BY <2>1, <2>3 DEF Own, IInv, PlaceInv
    <3>2. Cardinality(1 .. MaxRepairs + 1) = MaxRepairs + 1
      BY FS_Interval
    <3> QED
      BY <3>1, <3>2
  <2> QED
    BY <2>1, <2>2, <2>3
<1>4. (\E i \in DOMAIN trace'.scores : trace'.scores[i]) => trace'.scores[selected]
  BY <1>1 DEF IInv, BestInv, IsBest
<1>5. tested' => /\ trace'.known = failed
                 /\ trace'.repeated = Cardinality({j \in own : \E i \in failed :
                      i < j /\ candidates'[i].patch = candidates'[j].patch})
                 /\ trace'.guardApplied <=> (own = failed)
  <2>1. tested => /\ known = OwnFailures /\ repeated = Cardinality(Repetitions)
                  /\ fallback # "none" <=> Own = OwnFailures
    BY DEF IInv, KnownInv, FallbackInv
  <2>2. {j \in own : \E i \in failed :
           i < j /\ candidates'[i].patch = candidates'[j].patch} = Repetitions
    BY <1>2 DEF Repetitions
  <2> QED
    BY <1>1, <1>2, <2>1, <2>2
<1>6. trace'.fallbackUsed => selected \notin own /\ trace'.scores[selected]
  <2>1. fallback = "passed" => selected = MaxRepairs + 2 /\ candidates[selected].passed
    BY DEF IInv, FallbackInv
  <2>2. selected \in DOMAIN candidates
    BY DEF IInv, BestInv, IsBest
  <2> QED
    BY <1>1, <1>2, <2>1, <2>2 DEF Own
<1> HIDE DEF own, failed
<1>7. prompts = Cardinality(own) - 1
  BY <1>2, <1>3
<1>8. TraceTellsTheRun' <=>
        (trace' # NoTrace =>
          /\ trace'.repairs = Cardinality(own) - 1
          /\ (\E i \in DOMAIN trace'.scores : trace'.scores[i])
               => trace'.scores[trace'.selected]
          /\ tested' => /\ trace'.known = failed
                        /\ trace'.repeated = Cardinality({j \in own : \E i \in failed :
                             i < j /\ candidates'[i].patch = candidates'[j].patch})
                        /\ trace'.guardApplied <=> (own = failed)
          /\ trace'.fallbackUsed =>
               trace'.selected \notin own /\ trace'.scores[trace'.selected])
  BY DEF TraceTellsTheRun, own, failed
<1> QED
  BY <1>1, <1>4, <1>5, <1>6, <1>7, <1>8

LEMMA VerifyInv ==
  ASSUME IInv, NEW verdict \in Verdict, tested' = tested, Verify(verdict)
  PROVE  IInv' /\ Search!Next
<1>1. /\ pc = "verify" /\ pc' = IF verdict = "raised" THEN "raised" ELSE "returned"
      /\ trace' = IF verdict = "raised" THEN NoTrace ELSE Trace(verdict)
      /\ UNCHANGED <<candidates, selected, passed, known, repeated>>
      /\ UNCHANGED <<prompts, attempt, fallback>>
      /\ UNCHANGED singleVars
  BY DEF Verify, listVars
<1>2. TypeInv /\ KnownFailuresStayOut /\ IsBest(candidates, selected)
  BY <1>1 DEF IInv, BestInv
<1>3. UNCHANGED <<Own, OwnFailures, Repetitions>> /\ KnownFailuresStayOut'
  BY <1>1, <1>2, SameList
<1>4. TypeInv'
  <2>1. SingleInv'
    BY <1>1, <1>2, SameSingle DEF TypeInv
  <2>2. pc' \in Places
    BY <1>1 DEF Places
  <2> QED
    BY <1>1, <1>2, <2>1, <2>2 DEF TypeInv
<1>5. PlaceInv' /\ BestInv' /\ KnownInv' /\ FallbackInv'
  BY <1>1, <1>2 DEF PlaceInv, BestInv, KnownInv, FallbackInv
<1>6. TraceInv'
  <2>1. CASE verdict = "raised"
    BY <1>1, <2>1 DEF TraceInv, TraceTellsTheRun
  <2>2. CASE verdict # "raised"
    <3>1. trace' = Trace(verdict) /\ pc' = "returned"
      BY <1>1, <2>2
    <3>2. TraceTellsTheRun'
      BY <1>1, <3>1, TraceOfVerified
    <3> QED
      BY <3>1, <3>2 DEF TraceInv
  <2> QED
    BY <2>1, <2>2
<1>7. MonotonicFallback'
  <2> SUFFICES ASSUME tested, pc' = "returned", singlePc' = "idle"
               PROVE  \E i \in DOMAIN candidates' : candidates'[i].passed
    BY DEF MonotonicFallback
  <2>1. Own # OwnFailures
    BY <1>1 DEF IInv, FallbackInv, singleVars
  <2>2. PICK i \in Own : candidates[i].passed
    BY <2>1 DEF OwnFailures
  <2> QED
    BY <1>1, <2>2 DEF Own
<1>8. Search!Next
  <2>1. CASE verdict = "raised"
    <3>1. Search!Fail
      BY <1>1, <2>1 DEF Search!Fail
    <3> QED
      BY <3>1 DEF Search!Next
  <2>2. CASE verdict # "raised"
    <3>1. Search!Give
      BY <1>1, <1>2, <2>2 DEF Search!Give, IsBest, Patch
    <3> QED
      BY <3>1 DEF Search!Next
  <2> QED
    BY <2>1, <2>2
<1> QED
  BY <1>3, <1>4, <1>5, <1>6, <1>7, <1>8 DEF IInv

-----------------------------------------------------------------------------
(* The steps that end the run with an exception fail the search; those     *)
(* that neither add a candidate nor end the run leave it as it is.         *)
LEMMA RaisesInv ==
  ASSUME IInv, tested' = tested,
         Raises \/ \E p \in Patches : JudgeRaises(p)
  PROVE  IInv' /\ Search!Fail
<1>1. /\ pc \in {"draft", "revise", "repair", "critique"} /\ pc' = "raised"
      /\ UNCHANGED searchVars /\ UNCHANGED singleVars
  BY DEF Raises, JudgeRaises, AsksForPatch
<1>2. SingleInv'
  BY <1>1, SameSingle DEF IInv, TypeInv
<1>3. UNCHANGED <<listVars, exact, trace>> /\ UNCHANGED <<prompts, attempt>>
  BY <1>1 DEF searchVars, resultVars
<1>4. IInv'
  BY <1>1, <1>2, <1>3, QuietInv
<1>5. Search!Fail
  BY <1>1, <1>3 DEF Search!Fail, listVars
<1> QED
  BY <1>4, <1>5

LEMMA QuietSteps ==
  ASSUME IInv, tested' = tested,
         Execute \/ Garbles \/ Critique \/ FallbackRuns \/ FallbackRaises
  PROVE  IInv' /\ UNCHANGED Search!searchVars
<1>1. /\ candidates' = candidates
      /\ pc \notin {"returned", "raised"} /\ pc' \notin {"returned", "raised"}
  BY DEF Execute, Garbles, Critique, FallbackRuns, FallbackRaises, AsksForPatch,
         searchVars, listVars
<1>2. UNCHANGED Search!searchVars
  BY <1>1 DEF Search!searchVars
<1>3. CASE Execute \/ Garbles
  <2>1. /\ UNCHANGED <<listVars, exact, trace>> /\ UNCHANGED <<prompts, attempt, fallback>>
        /\ UNCHANGED singleVars
        /\ \/ pc = "idle" /\ pc' = "draft"
           \/ pc' = pc /\ pc \in {"draft", "revise", "repair"}
    BY <1>3 DEF Execute, Garbles, AsksForPatch, searchVars, resultVars
  <2>2. SingleInv'
    BY <2>1, SameSingle DEF IInv, TypeInv
  <2> QED
    BY <1>2, <2>1, <2>2, QuietInv
<1>4. CASE FallbackRuns
  <2>1. /\ UNCHANGED <<listVars, exact, trace>> /\ UNCHANGED <<prompts, attempt, fallback>>
        /\ pc' = pc /\ pc = "fallback" /\ Single!Next
    BY <1>4 DEF FallbackRuns, searchVars, resultVars
  <2>2. SingleInv'
    BY <2>1, SingleStep DEF IInv, TypeInv
  <2> QED
    BY <1>2, <2>1, <2>2, QuietInv
<1> QED
  BY <1>2, <1>3, <1>4, CritiqueInv, FallbackRaisesInv

(* The fallback is a run of the single-model agent.                        *)
LEMMA SingleSteps ==
  ASSUME IInv, Next
  PROVE  [SingleSearch!Next]_(SingleSearch!searchVars)
<1>1. CASE FallbackRuns
  BY <1>1, SingleStep DEF FallbackRuns, IInv, TypeInv
<1>2. CASE UNCHANGED singleVars
  BY <1>2, SameSingle DEF IInv, TypeInv, Next
<1> QED
  BY <1>1, <1>2 DEF Next, Execute, Garbles, Raises, Critique, Revise, Repeats,
       RejectsRepair, JudgeRaises, Draft, TestsRepair, FallbackRaises,
       FallbackReturns, Verify, Continues

LEMMA NextInv ==
  ASSUME IInv, Next
  PROVE  IInv' /\ [Search!Next]_(Search!searchVars)
<1>1. tested' = tested
  BY DEF Next
<1>2. CASE Execute \/ Garbles \/ Critique \/ FallbackRuns \/ FallbackRaises
  BY <1>1, <1>2, QuietSteps
<1>3. CASE Raises \/ \E p \in Patches : JudgeRaises(p)
  BY <1>1, <1>3, RaisesInv DEF Search!Next
<1>4. ASSUME NEW p \in Patches, Revise(p) \/ Repeats(p) \/ RejectsRepair(p)
      PROVE  IInv' /\ Search!Next
  BY <1>1, <1>4, ReviseInv, RejectedInv DEF Search!Next
<1>5. ASSUME NEW p \in Patches, NEW verdict \in Verdict,
             Draft(p, verdict) \/ TestsRepair(p, verdict)
      PROVE  IInv' /\ Search!Next
  BY <1>1, <1>5, DraftInv, TestsRepairInv DEF Search!Next
<1>6. ASSUME NEW verdict \in Verdict, FallbackReturns(verdict) \/ Verify(verdict)
      PROVE  IInv' /\ Search!Next
  BY <1>1, <1>6, FallbackReturnsInv, VerifyInv DEF Search!Next
<1> QED
  BY <1>2, <1>3, <1>4, <1>5, <1>6 DEF Next

LEMMA StutterInv == ASSUME IInv, UNCHANGED multiVars
  PROVE IInv' /\ UNCHANGED Search!searchVars /\ UNCHANGED SingleSearch!searchVars
<1>1. /\ UNCHANGED <<tested, pc, candidates, selected, passed, known, repeated>>
      /\ UNCHANGED <<prompts, attempt, fallback, trace>> /\ UNCHANGED singleVars
      /\ singlePc' = singlePc
  BY DEF multiVars, searchVars, listVars, resultVars, singleVars
<1>2. SingleInv' /\ UNCHANGED SingleSearch!searchVars
  BY <1>1, SameSingle DEF IInv, TypeInv
<1>3. UNCHANGED <<Own, OwnFailures, Repetitions>> /\ KnownFailuresStayOut'
  BY <1>1, SameList DEF IInv
<1>4. TypeInv' /\ PlaceInv' /\ BestInv'
  BY <1>1, <1>2 DEF IInv, TypeInv, PlaceInv, BestInv
<1>5. KnownInv' /\ FallbackInv' /\ MonotonicFallback'
  BY <1>1, <1>3 DEF IInv, KnownInv, FallbackInv, MonotonicFallback
<1>6. TraceInv'
  BY <1>1 DEF IInv, TraceInv, TraceTellsTheRun
<1>7. UNCHANGED Search!searchVars
  BY <1>1 DEF Search!searchVars, Patch
<1> QED
  BY <1>2, <1>3, <1>4, <1>5, <1>6, <1>7 DEF IInv

LEMMA Inductive == Spec => []IInv
<1>1. Init => IInv
  BY InitInv
<1>2. IInv /\ [Next]_multiVars => IInv'
  BY NextInv, StutterInv
<1> QED
  BY <1>1, <1>2, PTL DEF Spec

-----------------------------------------------------------------------------
(* A patch known to fail does not pass later in the same run: repetitions  *)
(* are found by what is known of failures (MultiModelCodingAgent._run).    *)
THEOREM FailuresStayOut == Spec => []KnownFailuresStayOut
<1>1. IInv => KnownFailuresStayOut
  BY DEF IInv
<1> QED
  BY <1>1, Inductive, PTL

(* A patch is only returned if one passed, or the single path was tried.   *)
THEOREM FallbackIsMonotonic == Spec => []MonotonicFallback
<1>1. IInv => MonotonicFallback
  BY DEF IInv
<1> QED
  BY <1>1, Inductive, PTL

(* The trace counts the repairs, names the failures and the repetitions,   *)
(* and says truly whether the guard applied and the fallback was used.     *)
THEOREM TraceIsTrue == Spec => []TraceTellsTheRun
<1>1. IInv => TraceTellsTheRun
  BY DEF IInv, TraceInv
<1> QED
  BY <1>1, Inductive, PTL

(* The multi-model agent implements the search: it gives one of the        *)
(* patches it tried, and one that passed if any did.                       *)
THEOREM AgentSearches == Spec => SearchSpec
<1>1. Init => Search!Init
  BY InitInv
<1>2. IInv /\ [Next]_multiVars => [Search!Next]_(Search!searchVars)
  BY NextInv, StutterInv
<1> QED
  BY <1>1, <1>2, Inductive, PTL DEF Spec, SearchSpec, Search!Spec

(* So does the single-model agent that is its fallback.                    *)
THEOREM FallbackSearches == Spec => SingleSearchSpec
<1>1. Init => SingleSearch!Init
  BY InitInv
<1>2. IInv /\ [Next]_multiVars => [SingleSearch!Next]_(SingleSearch!searchVars)
  BY SingleSteps, StutterInv
<1> QED
  BY <1>1, <1>2, Inductive, PTL DEF Spec, SingleSearchSpec, SingleSearch!Spec
=============================================================================
