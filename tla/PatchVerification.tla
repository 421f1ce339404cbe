------------------------- MODULE PatchVerification --------------------------
(***************************************************************************)
(* How the coding agents judge a patch and choose between two.             *)
(*                                                                         *)
(* A patch is first looked at by guards, which search its text for         *)
(* patterns known to be wrong, and then tried with the visible and the     *)
(* hidden tests.  Tests run in a subprocess with a timeout: a patch may    *)
(* have more than one possible verdict.                                    *)
(***************************************************************************)
EXTENDS Naturals

CONSTANTS
  Patches,                      \* contents of CodingPatch.files
  Size,                         \* _patch_size
  Rejected,                     \* patches that a guard rejects
  Uncovered,                    \* patches a guard of repairs may reject
  Verdicts                      \* what running the tests on each may come to

Verdict == {"passed", "failed", "raised", "none"}

ASSUME SizeAssumption == Size \in [Patches -> Nat]
ASSUME GuardAssumption == Rejected \subseteq Patches /\ Uncovered \subseteq Patches
ASSUME TestAssumption ==
         Verdicts \in [Patches -> (SUBSET {"passed", "failed", "raised"}) \ {{}}]

VARIABLE tested                 \* whether the task comes with visible tests

(* verify_patch: "none" when there is no verification contract.            *)
VerifyPatch(p) == IF tested THEN Verdicts[p] ELSE {"none"}

(* The verdict on a draft: the first guard that objects, or the tests.     *)
JudgeDraft(p) == IF p \in Rejected THEN {"failed"} ELSE VerifyPatch(p)

(* The verdict on a repair, which must also keep the examples, and the     *)
(* formats that the failures so far gave a hint of.                        *)
JudgeRepair(p) ==
  JudgeDraft(p) \cup (IF p \in Uncovered THEN {"failed"} ELSE {})

(* Mutant: the smaller patch is taken, passed or not.                      *)
PrefersSmaller(original, originalPassed, repaired, repairedPassed) ==
  Size[repaired] < Size[original]

(* select_patch: whether the repaired patch is taken, because it passed,   *)
(* or as the smaller one when that does not decide.                        *)
PrefersRepaired(original, originalPassed, repaired, repairedPassed) ==
  IF originalPassed # repairedPassed
    THEN repairedPassed
    ELSE Size[repaired] < Size[original]

Candidate == [patch : Patches, passed : BOOLEAN]
=============================================================================
