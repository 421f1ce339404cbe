---------------------------- MODULE MCMultiAgent ----------------------------
(***************************************************************************)
(* A patch that is right, a smaller one that is wrong, one whose tests may *)
(* time out or fail to start, and one that passes its tests although a     *)
(* guard of repairs may reject it.                                         *)
(***************************************************************************)
EXTENDS MultiAgent

CONSTANTS good, bad, shaky, hinted

MCVerdicts ==
  [p \in Patches |->
     CASE p = bad   -> {"failed"}
       [] p = shaky -> {"passed", "failed", "raised"}
       [] OTHER     -> {"passed"}]

MCSize == [p \in Patches |-> IF p = bad THEN 0 ELSE IF p = good THEN 2 ELSE 1]
=============================================================================
