---------------------------- MODULE GraphExecutor ---------------------------
(***************************************************************************)
(* Runs the nodes of a capability graph one after the other through the    *)
(* kernel, in the topological order the graph has when the run starts.     *)
(*                                                                         *)
(* Executing a node is one step with any of the outcomes execute_capability*)
(* has: a result with status SUCCESS, a result with another status, or an  *)
(* exception.  The graph is mutable and the plugins of its nodes may hold  *)
(* it: nodes and edges can be added between any two steps of a run.        *)
(***************************************************************************)
EXTENDS CapabilityGraph

CONSTANTS
  OfferedEdges,                 \* the edges user code may add
  MaxEdges                      \* bound: how many of them it adds

ASSUME EdgesAssumption == OfferedEdges \subseteq Edge /\ MaxEdges \in Nat

Outcomes == {"success", "failed", "raised"}

VARIABLES
  phase,                        \* "idle", "sorting", "running" or "returned"
  stopOnFailure,                \* argument of the run
  plan,                         \* auxiliary: the graph the order was made of
  position,                     \* place in ordered of the next node
  result                        \* GraphExecutionResult of the run, so far

runVars == <<phase, stopOnFailure, plan, position, result>>
allVars == <<graphVars, sortVars, runVars>>

(* failed_node_id is a set here, empty for None.                           *)
EmptyResult ==
  [succeeded |-> TRUE, executed |-> << >>, failed |-> {}, successes |-> {}]

EmptyPlan == [nodes |-> {}, edges |-> {}]

NodeSet == {nodes[i] : i \in DOMAIN nodes}

Execute(stop) ==
  /\ phase = "idle"
  /\ StartSort
  /\ phase' = "sorting"
  /\ stopOnFailure' = stop
  /\ UNCHANGED <<graphVars, plan, position, result>>

Sorts ==
  /\ phase = "sorting"
  /\ OrderNext
  /\ UNCHANGED <<graphVars, runVars>>

Begins ==
  /\ phase = "sorting" /\ ready = {}
  /\ Len(ordered) = Len(nodes)
  /\ phase' = "running"
  /\ plan' = [nodes |-> NodeSet,
              edges |-> {<<edges[k].source, edges[k].target>> :
                           k \in DOMAIN edges}]
  /\ UNCHANGED <<graphVars, sortVars, stopOnFailure, position, result>>

Stops(outcome) == outcome # "success" /\ stopOnFailure

(* Mutant: the status of a result is not looked at.                        *)
AfterAnyResult(node, outcome) ==
  [succeeded |-> result.succeeded /\ outcome # "raised",
   executed  |-> IF outcome = "raised" THEN result.executed
                 ELSE Append(result.executed, node),
   failed    |-> IF Stops(outcome) THEN {node} ELSE {},
   successes |-> IF outcome = "success" THEN result.successes \cup {node}
                 ELSE result.successes]

(* A node that raised is not among the executed ones.                      *)
After(node, outcome) ==
  [succeeded |-> result.succeeded /\ outcome = "success",
   executed  |-> IF outcome = "raised" THEN result.executed
                 ELSE Append(result.executed, node),
   failed    |-> IF Stops(outcome) THEN {node} ELSE {},
   successes |-> IF outcome = "success" THEN result.successes \cup {node}
                 ELSE result.successes]

RunNode(outcome) ==
  /\ phase = "running" /\ position <= Len(ordered)
  /\ result' = After(ordered[position], outcome)
  /\ position' = position + 1
  /\ phase' = IF Stops(outcome) THEN "returned" ELSE "running"
  /\ UNCHANGED <<graphVars, sortVars, stopOnFailure, plan>>

Ends ==
  /\ phase = "running" /\ position > Len(ordered)
  /\ phase' = "returned"
  /\ UNCHANGED <<graphVars, sortVars, stopOnFailure, plan, position, result>>

Reset ==
  /\ indegrees' = [node \in Nodes |-> 0] /\ ready' = {} /\ ordered' = << >>
  /\ phase' = "idle"
  /\ stopOnFailure' = TRUE
  /\ plan' = EmptyPlan
  /\ position' = 1
  /\ result' = EmptyResult
  /\ UNCHANGED graphVars

(* The caller has the result, and the locals of the run are gone.          *)
Leaves == phase = "returned" /\ Reset

(* Mutant: the sort is tried again.                                        *)
RefusesAndRetries ==
  /\ phase = "sorting" /\ ready = {}
  /\ Len(ordered) # Len(nodes)
  /\ StartSort
  /\ UNCHANGED <<graphVars, runVars>>

(* The order lacks the nodes on and behind a cycle: a ValueError.          *)
Refuses ==
  /\ phase = "sorting" /\ ready = {}
  /\ Len(ordered) # Len(nodes)
  /\ Reset

(* User code builds the graph, and may go on while a node is executed.     *)
Builds ==
  /\ phase \in {"idle", "running"}
  /\ \/ \E node \in Nodes : AddNode(node)
     \/ /\ Len(edges) < MaxEdges
        /\ \E edge \in OfferedEdges : AddEdge(edge)
  /\ UNCHANGED <<sortVars, runVars>>

Init ==
  /\ nodes = << >> /\ edges = << >>
  /\ indegrees = [node \in Nodes |-> 0] /\ ready = {} /\ ordered = << >>
  /\ phase = "idle"
  /\ stopOnFailure = TRUE
  /\ plan = EmptyPlan
  /\ position = 1
  /\ result = EmptyResult

Runs ==
  \/ Sorts \/ Refuses \/ Begins \/ Ends \/ Leaves
  \/ \E outcome \in Outcomes : RunNode(outcome)

Next == Builds \/ (\E stop \in BOOLEAN : Execute(stop)) \/ Runs

Spec == Init /\ [][Next]_allVars

(* Every plugin returns or raises; the executor itself never waits.        *)
FairSpec == Spec /\ WF_allVars(Runs)

TypeOK ==
  /\ nodes \in Seq(Nodes) /\ edges \in Seq(Edge)
  /\ indegrees \in [Nodes -> Nat]
  /\ ready \subseteq Nodes /\ ordered \in Seq(Nodes)
  /\ phase \in {"idle", "sorting", "running", "returned"}
  /\ stopOnFailure \in BOOLEAN
  /\ plan \in [nodes : SUBSET Nodes, edges : SUBSET (Nodes \X Nodes)]
  /\ position \in Nat \ {0}
  /\ result \in [succeeded : BOOLEAN, executed : Seq(Nodes),
                 failed : SUBSET Nodes, successes : SUBSET Nodes]

-----------------------------------------------------------------------------
(***************************************************************************)
(* Kahn's algorithm refuses exactly the graphs with a cycle: it runs out   *)
(* of ready nodes early if and only if some nodes all have a predecessor   *)
(* among themselves.                                                       *)
(***************************************************************************)
HasEdge(source, target) == EdgesBetween(source, target) # {}

Cyclic ==
  \E some \in (SUBSET NodeSet) \ {{}} :
    \A node \in some : \E other \in some : HasEdge(other, node)

RefusesCyclesOnly ==
  phase = "sorting" /\ ready = {} => (Len(ordered) # Len(nodes) <=> Cyclic)

(***************************************************************************)
(* The result says what happened: a run that succeeded executed the whole  *)
(* order successfully, and one that stopped at a node executed with        *)
(* success exactly what the order has before that node, so no node ran     *)
(* behind a failure.                                                       *)
(***************************************************************************)
Before(node) ==
  {ordered[i] : i \in 1 .. PositionIn(ordered, node) - 1}

ResultTellsTheRun ==
  phase = "returned" =>
    /\ result.succeeded =>
         result.executed = ordered /\ result.successes = plan.nodes
    /\ \A node \in result.failed : result.successes = Before(node)
    /\ stopOnFailure /\ result.failed = {} => result.succeeded

(***************************************************************************)
(* Each run attempts nodes in an order their edges allow, and the graph it *)
(* was started with, whatever is added to it during the run.               *)
(***************************************************************************)
Attempted == {ordered[i] : i \in 1 .. position - 1}

Order == INSTANCE DependencyOrder
           WITH active <- phase = "running",
                attempted <- IF phase = "running" THEN Attempted ELSE {},
                plan <- IF phase = "running" THEN plan ELSE EmptyPlan

RunsInDependencyOrder == Order!Spec

(***************************************************************************)
(* A run that was started ends.                                            *)
(***************************************************************************)
RunsEnd == phase # "idle" ~> phase = "idle"
=============================================================================
