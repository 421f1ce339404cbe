--------------------------- MODULE MCCartMutation ----------------------------
(***************************************************************************)
(* Programs over the argument and two variables.  Three of the copies,     *)
(* copy, each_copy and each_deepcopy, are left to the proofs: to the       *)
(* analyzer copy is dict and the other two are each_dict, and a copy of an *)
(* item, shallow or deep, shares nothing that a program here can change.   *)
(***************************************************************************)
EXTENDS CartMutation

CONSTANTS a, b

MCNames == {items, a, b}
(* A verdict stands, and so does its cause: behind the first one neither   *)
(* property can fail any more, and programs are not written further.       *)
MCUndecided == ~ ((mutated \/ misled) /\ (detected \/ overlooked))

MCSymmetry == Permutations({a, b})
=============================================================================
