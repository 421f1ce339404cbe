----------------------------- MODULE MCLearning -----------------------------
(***************************************************************************)
(* Two plugins of one capability, the memory ahead of a handler that may   *)
(* raise, and executions that nest in plugins and in that handler.  No     *)
(* plugin has the other capability.                                        *)
(***************************************************************************)
EXTENDS LearningKernel

CONSTANTS a, b, h, m, A, B, cap, other

MCPlugins == {a, b}
MCIds == {A, B}
MCId == [p \in MCPlugins |-> IF p = a THEN A ELSE B]
MCSupports == [p \in MCPlugins |-> {cap}]
MCPermitted ==
  [caller \in Callers |->
     CASE caller = "client" -> {"register", "route"}
       [] caller = "execute" -> {"route", "unregister"}
       [] caller = "handle" -> {"route"}
       [] OTHER -> {}]
MCSubscribers ==
  {[type \in EventTypes |->
      IF type \in {"completed", "failed"} THEN <<m, h>> ELSE << >>]}
MCUnavailable == {{}, {a}}
=============================================================================
