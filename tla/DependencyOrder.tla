-------------------------- MODULE DependencyOrder ---------------------------
(***************************************************************************)
(* What running a workflow promises: nodes are attempted one at a time,    *)
(* none twice and none before its predecessors, until all were attempted   *)
(* or a failure ends the run.                                              *)
(***************************************************************************)
EXTENDS FiniteSets

VARIABLES
  plan,          \* the workflow: its nodes, and its edges as pairs of nodes
  attempted,     \* the nodes this run attempted so far
  active         \* whether a run is in progress

orderVars == <<plan, attempted, active>>

NoPlan == [nodes |-> {}, edges |-> {}]

Init ==
  /\ active = FALSE
  /\ attempted = {}
  /\ plan = NoPlan

(* A run starts if every set of nodes has one with no predecessor in it.   *)
Start ==
  /\ ~ active
  /\ active' = TRUE
  /\ attempted' = {}
  /\ \A nodes \in (SUBSET plan'.nodes) \ {{}} : \E node \in nodes :
       \A other \in nodes : <<other, node>> \notin plan'.edges

Attemptable(node) ==
  /\ node \in plan.nodes \ attempted
  /\ \A edge \in plan.edges : edge[2] = node => edge[1] \in attempted

Attempt ==
  /\ active
  /\ \E node \in plan.nodes :
       Attemptable(node) /\ attempted' = attempted \cup {node}
  /\ UNCHANGED <<plan, active>>

EndRun ==
  /\ active' = FALSE
  /\ attempted' = {}
  /\ plan' = NoPlan

FailAttempt ==
  /\ active
  /\ \E node \in plan.nodes : Attemptable(node)
  /\ EndRun

Finish ==
  /\ active
  /\ attempted = plan.nodes
  /\ EndRun

Next == Start \/ Attempt \/ FailAttempt \/ Finish

Spec == Init /\ [][Next]_orderVars
=============================================================================
