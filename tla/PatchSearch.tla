---------------------------- MODULE PatchSearch -----------------------------
(***************************************************************************)
(* What a coding agent promises: it tries patches one after the other and  *)
(* in the end gives one it tried, one that passed if any did, or it fails. *)
(***************************************************************************)
CONSTANTS Patches, Nothing, Failure

VARIABLES
  tried,                        \* the patches tried, with whether they passed
  given                         \* a patch, Nothing yet, or Failure

searchVars == <<tried, given>>

Init ==
  /\ tried = {}
  /\ given = Nothing

Try ==
  /\ given = Nothing
  /\ \E p \in Patches, passed \in BOOLEAN :
       tried' = tried \cup {[patch |-> p, passed |-> passed]}
  /\ UNCHANGED given

Give ==
  /\ given = Nothing
  /\ \E c \in tried :
       /\ given' = c.patch
       /\ (\E d \in tried : d.passed) => c.passed
  /\ UNCHANGED tried

Fail ==
  /\ given = Nothing
  /\ given' = Failure
  /\ UNCHANGED tried

Next == Try \/ Give \/ Fail

Spec == Init /\ [][Next]_searchVars
=============================================================================
