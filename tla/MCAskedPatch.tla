---------------------------- MODULE MCAskedPatch -----------------------------
(***************************************************************************)
(* Tasks of one file and of two; a mapping of each kind that validation    *)
(* tells apart; both providers.                                            *)
(***************************************************************************)
EXTENDS AskedPatch, TLC

CONSTANTS f, g

MCAllowed == {{f}, {f, g}}

MCMappings ==
  {<< >>, f :> "module", f :> "prose", f :> "blank", g :> "module",
   Unknown :> "module", Placeholder :> "module", Placeholder :> "prose",
   f :> "module" @@ g :> "prose", f :> "module" @@ Unknown :> "module"}
=============================================================================
