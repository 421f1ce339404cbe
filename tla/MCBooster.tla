----------------------------- MODULE MCBooster ------------------------------
(***************************************************************************)
(* A right and a wrong patch, a patch with shaky tests and a text that is  *)
(* no patch, solved directly and boosted, with a critic or without.        *)
(***************************************************************************)
EXTENDS BoosterEngine

CONSTANTS right, wrong, shaky, prose

MCVerdicts ==
  [text \in Texts |->
     CASE text = right -> {"passed"}
       [] text = shaky -> {"passed", "failed", "raised"}
       [] OTHER        -> {"failed"}]

MCPlans == {<<"baseline", "single">>, <<"multi">>}
=============================================================================
