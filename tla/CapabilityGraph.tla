--------------------------- MODULE CapabilityGraph --------------------------
(***************************************************************************)
(* A workflow graph that is built by adding nodes and edges, and Kahn's    *)
(* algorithm, which orders it: of the nodes with no unordered predecessor  *)
(* the one inserted first goes next.                                       *)
(***************************************************************************)
EXTENDS Naturals, Sequences, FiniteSets, SequencesExt

CONSTANTS
  Nodes,                        \* node ids
  Labels                        \* edges with the same ends differ by these

Edge == {edge \in [source : Nodes, target : Nodes, label : Labels] :
           edge.source # edge.target}

VARIABLES
  nodes,                        \* Seq(Nodes): the ids in insertion order
  edges,                        \* Seq(Edge)
  indegrees,                    \* [Nodes -> Nat], while an order is computed
  ready,                        \* the heap: nodes whose indegree reached 0
  ordered                       \* the order so far

graphVars == <<nodes, edges>>
sortVars == <<indegrees, ready, ordered>>

HasNode(node) == \E i \in DOMAIN nodes : nodes[i] = node

PositionIn(list, node) == CHOOSE i \in DOMAIN list : list[i] = node

(* A node that exists, an edge that exists and an edge whose ends do not   *)
(* exist are refused with a ValueError that changes nothing.               *)
AddNode(node) ==
  /\ ~ HasNode(node)
  /\ nodes' = Append(nodes, node)
  /\ UNCHANGED edges

AddEdge(edge) ==
  /\ HasNode(edge.source) /\ HasNode(edge.target)
  /\ \A k \in DOMAIN edges : edges[k] # edge
  /\ edges' = Append(edges, edge)
  /\ UNCHANGED nodes

-----------------------------------------------------------------------------
(* _topological_node_ids.                                                  *)

EdgesInto(node) == {k \in DOMAIN edges : edges[k].target = node}

EdgesBetween(source, target) ==
  {k \in DOMAIN edges : edges[k].source = source /\ edges[k].target = target}

(* Mutant: parallel edges count once.                                      *)
StartSortIgnoringParallel ==
  /\ indegrees' = [node \in Nodes |->
                     Cardinality({edges[k].source : k \in EdgesInto(node)})]
  /\ ready' = {node \in Nodes : HasNode(node) /\ indegrees'[node] = 0}
  /\ ordered' = << >>

StartSort ==
  /\ indegrees' = [node \in Nodes |-> Cardinality(EdgesInto(node))]
  /\ ready' = {node \in Nodes : HasNode(node) /\ indegrees'[node] = 0}
  /\ ordered' = << >>

(* heappop: the ready node that was inserted first.                        *)
First(node) ==
  /\ node \in ready
  /\ \A other \in ready : PositionIn(nodes, node) <= PositionIn(nodes, other)

(* Mutant: the order is built from its end.                                *)
OrderNextReversed ==
  \E node \in ready :
    /\ First(node)
    /\ ordered' = <<node>> \o ordered
    /\ indegrees' = [other \in Nodes |->
         indegrees[other] - Cardinality(EdgesBetween(node, other))]
    /\ ready' = (ready \ {node}) \cup
         {other \in Nodes : /\ EdgesBetween(node, other) # {}
                            /\ indegrees'[other] = 0}

OrderNext ==
  \E node \in ready :
    /\ First(node)
    /\ ordered' = Append(ordered, node)
    /\ indegrees' = [other \in Nodes |->
         indegrees[other] - Cardinality(EdgesBetween(node, other))]
    /\ ready' = (ready \ {node}) \cup
         {other \in Nodes : /\ EdgesBetween(node, other) # {}
                            /\ indegrees'[other] = 0}
=============================================================================
