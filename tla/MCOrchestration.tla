-------------------------- MODULE MCOrchestration ---------------------------
(***************************************************************************)
(* Two plugins that share an id, of which one does not support the         *)
(* capability, and one with another id.  Plugins and handlers fail, and a  *)
(* handler unregisters plugins and registers others while an engine runs.  *)
(***************************************************************************)
EXTENDS Orchestration

CONSTANTS a1, a2, b, h, A, B, cap

MCPlugins == {a1, a2, b}
MCIds == {A, B}
MCId == [p \in MCPlugins |-> IF p = b THEN B ELSE A]
MCSupports == [p \in MCPlugins |-> IF p = a2 THEN {} ELSE {cap}]

Nobody == [caller \in Callers |-> {}]

MCPermitted ==
  [Nobody EXCEPT !["client"] = {"register"}, !["handle"] = {"register", "unregister"}]

MCSubscribers ==
  {[type \in EventTypes |->
      IF type \in {"started", "completed"} THEN <<h>> ELSE << >>]}

MCTasks == <<cap, cap>>
=============================================================================
