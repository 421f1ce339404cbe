--------------------------- MODULE EngineProofs -----------------------------
(***************************************************************************)
(* The two engines that work through a list of their own.  The executor:   *)
(* a graph is refused exactly when it has a cycle, and a run attempts its  *)
(* nodes in an order their edges allow and tells truly what happened, for  *)
(* any nodes, edges, outcomes and additions during the run.  The booster:  *)
(* repairs go to the first weak candidates and a solve's answer is a       *)
(* verified one if there is any, for any tasks, texts, scores and limits.  *)
(***************************************************************************)
EXTENDS GraphExecutor, BoosterEngine, FiniteSetTheorems, SequenceLemmas

USE EdgesAssumption

Distinct(list) == \A i, j \in DOMAIN list : list[i] = list[j] => i = j

Done == {ordered[i] : i \in DOMAIN ordered}

(* The edges into a node that the order has not come to yet.               *)
Pending(node) == {k \in EdgesInto(node) : edges[k].source \notin Done}

GraphInv ==
  /\ nodes \in Seq(Nodes) /\ edges \in Seq(Edge)
  /\ IsFiniteSet(NodeSet) /\ Cardinality(NodeSet) = Len(nodes)
  /\ \A k \in DOMAIN edges :
       edges[k].source \in NodeSet /\ edges[k].target \in NodeSet

(* Whatever the order holds has all its predecessors before it, and what   *)
(* is ready has all of them in the order.                                  *)
SortInv ==
  phase = "sorting" =>
    /\ ordered \in Seq(Nodes) /\ Distinct(ordered)
    /\ Cardinality(Done) = Len(ordered)
    /\ Done \subseteq NodeSet
    /\ indegrees = [node \in Nodes |-> Cardinality(Pending(node))]
    /\ ready = {node \in NodeSet \ Done : Pending(node) = {}}
    /\ \A j \in DOMAIN ordered : \A k \in EdgesInto(ordered[j]) :
         \E i \in 1 .. j - 1 : ordered[i] = edges[k].source

(* The order is one of the planned graph.                                  *)
PlanInv ==
  phase \in {"running", "returned"} =>
    /\ ordered \in Seq(Nodes) /\ Distinct(ordered)
    /\ plan.nodes = Done
    /\ \A j \in DOMAIN ordered : \A edge \in plan.edges :
         edge[2] = ordered[j] => \E i \in 1 .. j - 1 : ordered[i] = edge[1]

(* How far the run is, and what its result says of it.                     *)
ResultInv ==
  /\ phase \in {"idle", "sorting"} => position = 1 /\ result = EmptyResult
  /\ phase \in {"running", "returned"} =>
       /\ position \in 1 .. Len(ordered) + 1
       /\ result.executed \in Seq(Nodes) /\ result.succeeded \in BOOLEAN
       /\ result.succeeded =>
            /\ Len(result.executed) = position - 1
            /\ \A i \in 1 .. position - 1 : result.executed[i] = ordered[i]
            /\ result.successes = Attempted
  /\ phase = "running" =>
       result.failed = {} /\ (stopOnFailure => result.succeeded)
  /\ phase = "returned" =>
       IF result.failed = {}
         THEN position = Len(ordered) + 1 /\ (stopOnFailure => result.succeeded)
         ELSE /\ position - 1 \in DOMAIN ordered
              /\ result.failed = {ordered[position - 1]}
              /\ result.successes = {ordered[i] : i \in 1 .. position - 2}
              /\ ~ result.succeeded

IInv == GraphInv /\ SortInv /\ PlanInv /\ ResultInv

-----------------------------------------------------------------------------
(* A list that gets one more element.                                      *)
LEMMA OneMore ==
  ASSUME NEW S, NEW list \in Seq(S), NEW x \in S
  PROVE  LET longer == Append(list, x)
         IN  /\ longer \in Seq(S) /\ Len(longer) = Len(list) + 1 /\ Len(list) \in Nat
             /\ DOMAIN list = 1 .. Len(list) /\ DOMAIN longer = 1 .. Len(list) + 1
             /\ \A i \in 1 .. Len(list) : longer[i] = list[i]
             /\ longer[Len(list) + 1] = x
             /\ {longer[i] : i \in DOMAIN longer} = {list[i] : i \in DOMAIN list} \cup {x}
<1> DEFINE longer == Append(list, x)
<1>1. /\ longer \in Seq(S) /\ Len(longer) = Len(list) + 1 /\ Len(list) \in Nat
      /\ DOMAIN list = 1 .. Len(list) /\ DOMAIN longer = 1 .. Len(list) + 1
      /\ \A i \in 1 .. Len(list) : longer[i] = list[i]
      /\ longer[Len(list) + 1] = x
  OBVIOUS
<1> HIDE DEF longer
<1>2. {longer[i] : i \in DOMAIN longer} = {list[i] : i \in DOMAIN list} \cup {x}
  BY <1>1
<1> QED
  BY <1>1, <1>2 DEF longer

(* A list whose elements come after their predecessors orders every set of *)
(* them: one has no predecessor in the set.                                *)
LEMMA FirstOfSome ==
  ASSUME NEW list \in Seq(Nodes), NEW some, some # {},
         \A node \in some : \E j \in DOMAIN list : list[j] = node
  PROVE  \E j \in DOMAIN list :
           list[j] \in some /\ \A i \in 1 .. j - 1 : list[i] \notin some
<1> DEFINE places == {j \in DOMAIN list : list[j] \in some}
<1>1. places \in SUBSET Nat /\ places # {}
  OBVIOUS
<1> HIDE DEF places
<1>2. PICK j \in places : \A i \in places : j <= i
  BY <1>1, LeastOfNaturals
<1>3. j \in DOMAIN list /\ list[j] \in some /\ j \in Nat
  BY DEF places
<1>4. \A i \in 1 .. j - 1 : i \in DOMAIN list /\ ~ (j <= i)
  BY <1>3
<1> QED
  BY <1>2, <1>3, <1>4 DEF places

LEMMA InitInv == Init => IInv /\ Order!Init
<1> SUFFICES ASSUME Init PROVE IInv /\ Order!Init
  OBVIOUS
<1>1. /\ nodes = << >> /\ edges = << >> /\ phase = "idle" /\ position = 1
      /\ result = EmptyResult
  BY DEF Init
<1>2. NodeSet = {} /\ Len(nodes) = 0
  BY <1>1 DEF NodeSet
<1>3. GraphInv
  BY <1>1, <1>2, FS_EmptySet DEF GraphInv
<1>4. SortInv /\ PlanInv /\ ResultInv
  BY <1>1 DEF SortInv, PlanInv, ResultInv
<1>5. Order!Init
  BY <1>1 DEF Order!Init, Order!NoPlan, EmptyPlan
<1> QED
  BY <1>3, <1>4, <1>5 DEF IInv

-----------------------------------------------------------------------------
(* Building the graph, which a run under way does not look at.             *)
LEMMA AddNodeInv ==
  ASSUME GraphInv, NEW node \in Nodes, AddNode(node)
  PROVE  GraphInv'
<1>1. /\ nodes' = Append(nodes, node) /\ edges' = edges
      /\ node \notin NodeSet /\ nodes \in Seq(Nodes) /\ edges \in Seq(Edge)
      /\ IsFiniteSet(NodeSet) /\ Cardinality(NodeSet) = Len(nodes)
  BY DEF AddNode, HasNode, NodeSet, GraphInv
<1>2. /\ nodes' \in Seq(Nodes) /\ Len(nodes') = Len(nodes) + 1
      /\ NodeSet' = NodeSet \cup {node}
  BY <1>1, OneMore DEF NodeSet
<1>3. IsFiniteSet(NodeSet') /\ Cardinality(NodeSet') = Len(nodes')
  <2>1. /\ IsFiniteSet(NodeSet \cup {node})
        /\ Cardinality(NodeSet \cup {node}) = Len(nodes) + 1
    BY <1>1, FS_AddElement
  <2> QED
    BY <1>2, <2>1
<1> QED
  BY <1>1, <1>2, <1>3 DEF GraphInv

LEMMA AddEdgeInv ==
  ASSUME GraphInv, NEW edge \in OfferedEdges, AddEdge(edge)
  PROVE  GraphInv'
<1>1. /\ edges' = Append(edges, edge) /\ nodes' = nodes /\ NodeSet' = NodeSet
      /\ edge \in Edge /\ edges \in Seq(Edge)
      /\ edge.source \in NodeSet /\ edge.target \in NodeSet
  BY DEF AddEdge, HasNode, NodeSet, GraphInv
<1>2. /\ edges' \in Seq(Edge) /\ Len(edges) \in Nat
      /\ DOMAIN edges = 1 .. Len(edges) /\ DOMAIN edges' = 1 .. Len(edges) + 1
      /\ \A k \in 1 .. Len(edges) : edges'[k] = edges[k]
      /\ edges'[Len(edges) + 1] = edge
  BY <1>1, OneMore
<1>3. ASSUME NEW k \in DOMAIN edges'
      PROVE  edges'[k].source \in NodeSet /\ edges'[k].target \in NodeSet
  <2>1. CASE k \in DOMAIN edges
    BY <1>2, <2>1 DEF GraphInv
  <2>2. CASE k = Len(edges) + 1
    BY <1>1, <1>2, <2>2
  <2> QED
    BY <1>2, <2>1, <2>2
<1> QED
  BY <1>1, <1>2, <1>3 DEF GraphInv

LEMMA SameRun ==
  ASSUME PlanInv, ResultInv, UNCHANGED <<sortVars, runVars>>
  PROVE  PlanInv' /\ ResultInv' /\ UNCHANGED Order!orderVars
<1>1. UNCHANGED <<indegrees, ready, ordered>>
      /\ UNCHANGED <<phase, stopOnFailure, plan, position, result>>
  BY DEF sortVars, runVars
<1>2. Done' = Done /\ Attempted' = Attempted
  BY <1>1 DEF Done, Attempted
<1> QED
  BY <1>1, <1>2 DEF PlanInv, ResultInv, Order!orderVars

LEMMA BuildsInv ==
  ASSUME IInv, Builds
  PROVE  IInv' /\ UNCHANGED Order!orderVars
<1>1. GraphInv'
  BY AddNodeInv, AddEdgeInv DEF Builds, IInv
<1>2. PlanInv' /\ ResultInv' /\ UNCHANGED Order!orderVars
  BY SameRun DEF Builds, IInv
<1>3. SortInv'
  BY DEF Builds, SortInv, runVars
<1> QED
  BY <1>1, <1>2, <1>3 DEF IInv

-----------------------------------------------------------------------------
LEMMA SameGraph ==
  ASSUME GraphInv, UNCHANGED graphVars
  PROVE  GraphInv' /\ UNCHANGED <<nodes, edges, NodeSet>>
<1>1. nodes' = nodes /\ edges' = edges
  BY DEF graphVars
<1> QED
  BY <1>1 DEF GraphInv, NodeSet

LEMMA FiniteEdges ==
  ASSUME GraphInv, NEW some \in SUBSET (DOMAIN edges)
  PROVE  IsFiniteSet(some)
<1>1. Len(edges) \in Nat /\ DOMAIN edges = 1 .. Len(edges)
  BY DEF GraphInv
<1>2. IsFiniteSet(1 .. Len(edges))
  BY <1>1, FS_Interval
<1> QED
  BY <1>1, <1>2, FS_Subset

LEMMA ExecuteInv ==
  ASSUME IInv, NEW stop \in BOOLEAN, Execute(stop)
  PROVE  IInv' /\ UNCHANGED Order!orderVars
<1>1. /\ phase = "idle" /\ phase' = "sorting"
      /\ ordered' = << >> /\ UNCHANGED <<graphVars, position, result>>
      /\ indegrees' = [node \in Nodes |-> Cardinality(EdgesInto(node))]
      /\ ready' = {node \in Nodes : HasNode(node) /\ indegrees'[node] = 0}
  BY DEF Execute, StartSort
<1>2. GraphInv /\ GraphInv' /\ UNCHANGED <<nodes, edges, NodeSet>>
  BY <1>1, SameGraph DEF IInv
<1>3. Done' = {} /\ \A node : Pending(node)' = EdgesInto(node)
  BY <1>1, <1>2 DEF Done, Pending, EdgesInto
<1>4. \A node : IsFiniteSet(EdgesInto(node))
  BY <1>2, FiniteEdges DEF EdgesInto
<1>5. ready' = {node \in NodeSet' \ Done' : Pending(node)' = {}}
  <2>1. \A node \in Nodes : HasNode(node) <=> node \in NodeSet
    BY DEF HasNode, NodeSet
  <2>2. \A node \in Nodes : indegrees'[node] = 0 <=> EdgesInto(node) = {}
    BY <1>1, <1>4, FS_EmptySet
  <2>3. NodeSet \subseteq Nodes
    BY <1>2 DEF NodeSet, GraphInv
  <2> QED
    BY <1>1, <1>2, <1>3, <2>1, <2>2, <2>3
<1>6. SortInv'
  <2>1. Cardinality(Done') = 0 /\ Len(ordered') = 0 /\ DOMAIN ordered' = {}
    BY <1>1, <1>3, FS_EmptySet
  <2>2. ordered' \in Seq(Nodes) /\ Distinct(ordered')
    BY <1>1 DEF Distinct
  <2>3. indegrees' = [node \in Nodes |-> Cardinality(Pending(node)')]
    BY <1>1, <1>3
  <2> QED
    BY <1>3, <1>5, <2>1, <2>2, <2>3 DEF SortInv
<1>7. PlanInv' /\ ResultInv'
  BY <1>1 DEF IInv, PlanInv, ResultInv
<1>8. UNCHANGED Order!orderVars
  BY <1>1 DEF Order!orderVars
<1> QED
  BY <1>2, <1>6, <1>7, <1>8 DEF IInv

(* The edges from the node that is ordered next no longer count.           *)
LEMMA Ordered ==
  ASSUME GraphInv, SortInv, phase = "sorting", UNCHANGED graphVars,
         NEW node \in ready, ordered' = Append(ordered, node)
  PROVE  /\ Done' = Done \cup {node} /\ node \notin Done /\ node \in NodeSet
         /\ \A other : /\ IsFiniteSet(Pending(other)')
                       /\ Pending(other)' = Pending(other) \ EdgesBetween(node, other)
                       /\ Cardinality(Pending(other)') =
                            Cardinality(Pending(other))
                              - Cardinality(EdgesBetween(node, other))
<1>1. node \in NodeSet /\ node \notin Done /\ ordered \in Seq(Nodes)
  BY DEF SortInv
<1>2. node \in Nodes
  BY <1>1 DEF NodeSet, GraphInv
<1>3. Done' = Done \cup {node}
  BY <1>1, <1>2, OneMore DEF Done
<1>4. edges' = edges
  BY DEF graphVars
<1>5. ASSUME NEW other
      PROVE  /\ IsFiniteSet(Pending(other)')
             /\ Pending(other)' = Pending(other) \ EdgesBetween(node, other)
             /\ Cardinality(Pending(other)') =
                  Cardinality(Pending(other)) - Cardinality(EdgesBetween(node, other))
  <2>1. /\ Pending(other)' = Pending(other) \ EdgesBetween(node, other)
        /\ Pending(other) \cap EdgesBetween(node, other) = EdgesBetween(node, other)
    BY <1>1, <1>3, <1>4 DEF Pending, EdgesInto, EdgesBetween
  <2>2. IsFiniteSet(Pending(other))
    BY FiniteEdges DEF Pending, EdgesInto
  <2> QED
    BY <2>1, <2>2, FS_Difference
<1> QED
  BY <1>1, <1>3, <1>5

LEMMA SortsInv ==
  ASSUME IInv, Sorts
  PROVE  IInv' /\ UNCHANGED Order!orderVars
<1>1. /\ phase = "sorting" /\ phase' = phase /\ OrderNext
      /\ UNCHANGED <<graphVars, plan, position, result>>
  BY DEF Sorts, runVars
<1>2. PICK node \in ready :
        /\ ordered' = Append(ordered, node)
        /\ indegrees' = [other \in Nodes |->
             indegrees[other] - Cardinality(EdgesBetween(node, other))]
        /\ ready' = (ready \ {node}) \cup
             {other \in Nodes : EdgesBetween(node, other) # {} /\ indegrees'[other] = 0}
  BY <1>1 DEF OrderNext
<1>3. GraphInv /\ GraphInv' /\ SortInv /\ UNCHANGED <<nodes, edges, NodeSet>>
  BY <1>1, SameGraph DEF IInv
<1>4. /\ Done' = Done \cup {node} /\ node \notin Done /\ node \in NodeSet
      /\ \A other : /\ IsFiniteSet(Pending(other)')
                    /\ Pending(other)' = Pending(other) \ EdgesBetween(node, other)
                    /\ Cardinality(Pending(other)') =
                         Cardinality(Pending(other))
                           - Cardinality(EdgesBetween(node, other))
  BY <1>1, <1>2, <1>3, Ordered
<1>5. /\ ordered \in Seq(Nodes) /\ Distinct(ordered)
      /\ Cardinality(Done) = Len(ordered) /\ Done \subseteq NodeSet
      /\ indegrees = [other \in Nodes |-> Cardinality(Pending(other))]
      /\ ready = {other \in NodeSet \ Done : Pending(other) = {}}
      /\ \A j \in DOMAIN ordered : \A k \in EdgesInto(ordered[j]) :
           \E i \in 1 .. j - 1 : ordered[i] = edges[k].source
  BY <1>1, <1>3 DEF SortInv
<1>6. NodeSet \subseteq Nodes
  BY <1>3 DEF NodeSet, GraphInv
<1>7. /\ ordered' \in Seq(Nodes) /\ Len(ordered') = Len(ordered) + 1
      /\ DOMAIN ordered = 1 .. Len(ordered) /\ Len(ordered) \in Nat
      /\ DOMAIN ordered' = 1 .. Len(ordered) + 1
      /\ \A i \in 1 .. Len(ordered) : ordered'[i] = ordered[i]
      /\ ordered'[Len(ordered) + 1] = node
  BY <1>2, <1>4, <1>5, <1>6, OneMore
<1>8. Distinct(ordered')
  <2>1. \A i \in 1 .. Len(ordered) : ordered[i] # node
    BY <1>4, <1>7 DEF Done
  <2>2. ASSUME NEW i \in DOMAIN ordered', NEW j \in DOMAIN ordered',
               ordered'[i] = ordered'[j]
        PROVE  i = j
    <3>1. CASE i \in 1 .. Len(ordered) /\ j \in 1 .. Len(ordered)
      BY <1>5, <1>7, <2>2, <3>1 DEF Distinct
    <3>2. CASE i = Len(ordered) + 1 /\ j \in 1 .. Len(ordered)
      BY <1>7, <2>1, <2>2, <3>2
    <3>3. CASE i \in 1 .. Len(ordered) /\ j = Len(ordered) + 1
      BY <1>7, <2>1, <2>2, <3>3
    <3> QED
      BY <1>7, <3>1, <3>2, <3>3
  <2> QED
    BY <2>2 DEF Distinct
<1>9. Cardinality(Done') = Len(ordered')
  <2>1. IsFiniteSet(Done)
    BY <1>3, <1>5, FS_Subset DEF GraphInv
  <2>2. Cardinality(Done \cup {node}) = Cardinality(Done) + 1
    BY <1>4, <2>1, FS_AddElement
  <2> QED
    BY <1>4, <1>5, <1>7, <2>2
<1>10. indegrees' = [other \in Nodes |-> Cardinality(Pending(other)')]
  BY <1>2, <1>4, <1>5
<1>11. ready' = {other \in NodeSet \ Done' : Pending(other)' = {}}
  <2>1. \A other \in Nodes : indegrees'[other] = 0 <=> Pending(other)' = {}
    BY <1>4, <1>10, FS_EmptySet
  <2>2. ASSUME NEW other, EdgesBetween(node, other) # {}
        PROVE  other \in NodeSet \ Done'
    <3>1. PICK k \in DOMAIN edges : edges[k].source = node /\ edges[k].target = other
      BY <2>2 DEF EdgesBetween
    <3>2. other \in NodeSet /\ other # node
      BY <1>3, <3>1 DEF GraphInv, Edge
    <3>3. other \notin Done
      <4> SUFFICES ASSUME NEW j \in DOMAIN ordered, ordered[j] = other PROVE FALSE
        BY DEF Done
      <4>1. k \in EdgesInto(ordered[j])
        BY <3>1 DEF EdgesInto
      <4>2. PICK i \in 1 .. j - 1 : ordered[i] = node
        BY <1>5, <3>1, <4>1
      <4>3. i \in DOMAIN ordered
        BY <1>7
      <4> QED
        BY <1>4, <4>2, <4>3 DEF Done
    <3> QED
      BY <1>4, <3>2, <3>3
  <2>3. ASSUME NEW other \in ready' PROVE other \in NodeSet \ Done' /\ Pending(other)' = {}
    <3>1. CASE other \in ready \ {node}
      BY <1>4, <1>5, <3>1
    <3>2. CASE other \in Nodes /\ EdgesBetween(node, other) # {} /\ indegrees'[other] = 0
      BY <2>1, <2>2, <3>2
    <3> QED
      BY <1>2, <3>1, <3>2
  <2>4. ASSUME NEW other \in NodeSet \ Done', Pending(other)' = {} PROVE other \in ready'
    <3>1. CASE EdgesBetween(node, other) = {}
      <4>1. Pending(other) = {}
        BY <1>4, <2>4, <3>1
      <4> QED
        BY <1>2, <1>4, <1>5, <2>4, <4>1
    <3>2. CASE EdgesBetween(node, other) # {}
      BY <1>2, <1>6, <2>1, <2>4, <3>2
    <3> QED
      BY <3>1, <3>2
  <2> QED
    BY <2>3, <2>4
<1>12. ASSUME NEW j \in DOMAIN ordered', NEW k \in EdgesInto(ordered'[j])
       PROVE  \E i \in 1 .. j - 1 : ordered'[i] = edges[k].source
  <2>1. CASE j = Len(ordered) + 1
    <3>1. k \in EdgesInto(node) /\ Pending(node) = {}
      BY <1>5, <1>7, <1>12, <2>1
    <3>2. edges[k].source \in Done
      BY <3>1 DEF Pending
    <3> QED
      BY <1>7, <2>1, <3>2 DEF Done
  <2>2. CASE j \in DOMAIN ordered
    <3>1. k \in EdgesInto(ordered[j])
      BY <1>7, <1>12, <2>2
    <3>2. PICK i \in 1 .. j - 1 : ordered[i] = edges[k].source
      BY <1>5, <2>2, <3>1
    <3>3. ordered'[i] = ordered[i]
      BY <1>7, <2>2
    <3> QED
      BY <3>2, <3>3
  <2> QED
    BY <1>7, <2>1, <2>2
<1>13. SortInv'
  <2>1. Done' \subseteq NodeSet'
    BY <1>3, <1>4, <1>5
  <2>2. \A other : EdgesInto(other)' = EdgesInto(other)
    BY <1>3 DEF EdgesInto
  <2> QED
    BY <1>3, <1>7, <1>8, <1>9, <1>10, <1>11, <1>12, <2>1, <2>2 DEF SortInv
<1>14. PlanInv' /\ ResultInv'
  BY <1>1 DEF IInv, PlanInv, ResultInv
<1>15. UNCHANGED Order!orderVars
  BY <1>1 DEF Order!orderVars
<1> QED
  BY <1>3, <1>13, <1>14, <1>15 DEF IInv

-----------------------------------------------------------------------------
(* When no node is ready, the order is complete or there is a cycle.       *)
LEMMA Refused == IInv => RefusesCyclesOnly
<1> SUFFICES ASSUME IInv, phase = "sorting", ready = {}
             PROVE  Len(ordered) # Len(nodes) <=> Cyclic
  BY DEF RefusesCyclesOnly
<1>1. /\ ordered \in Seq(Nodes) /\ Cardinality(Done) = Len(ordered)
      /\ Done \subseteq NodeSet
      /\ ready = {node \in NodeSet \ Done : Pending(node) = {}}
      /\ \A j \in DOMAIN ordered : \A k \in EdgesInto(ordered[j]) :
           \E i \in 1 .. j - 1 : ordered[i] = edges[k].source
  BY DEF IInv, SortInv
<1>2. IsFiniteSet(NodeSet) /\ Cardinality(NodeSet) = Len(nodes)
  BY DEF IInv, GraphInv
<1>3. ASSUME Len(ordered) # Len(nodes) PROVE Cyclic
  <2> DEFINE some == NodeSet \ Done
  <2>1. some \in (SUBSET NodeSet) \ {{}}
    <3>1. Done # NodeSet
      BY <1>1, <1>2, <1>3
    <3> QED
      BY <1>1, <3>1
  <2>2. ASSUME NEW node \in some PROVE \E other \in some : HasEdge(other, node)
    <3>1. PICK k \in Pending(node) : TRUE
      BY <1>1, <2>2
    <3>2. /\ k \in EdgesBetween(edges[k].source, node)
          /\ edges[k].source \in some
      BY <3>1 DEF Pending, EdgesInto, EdgesBetween, IInv, GraphInv
    <3> QED
      BY <3>2 DEF HasEdge
  <2> QED
    BY <2>1, <2>2 DEF Cyclic
<1>4. ASSUME Len(ordered) = Len(nodes), Cyclic PROVE FALSE
  <2>1. Done = NodeSet
    BY <1>1, <1>2, <1>4, FS_Subset
  <2>2. PICK some \in (SUBSET NodeSet) \ {{}} :
          \A node \in some : \E other \in some : HasEdge(other, node)
    BY <1>4 DEF Cyclic
  <2>3. \A node \in some : \E j \in DOMAIN ordered : ordered[j] = node
    BY <2>1, <2>2 DEF Done
  <2>4. PICK j \in DOMAIN ordered :
          ordered[j] \in some /\ \A i \in 1 .. j - 1 : ordered[i] \notin some
    BY <1>1, <2>2, <2>3, FirstOfSome
  <2>5. PICK other \in some : HasEdge(other, ordered[j])
    BY <2>2, <2>4
  <2>6. PICK k \in EdgesInto(ordered[j]) : edges[k].source = other
    BY <2>5 DEF HasEdge, EdgesBetween, EdgesInto
  <2> QED
    BY <1>1, <2>4, <2>6
<1> QED
  BY <1>3, <1>4

LEMMA BeginsInv ==
  ASSUME IInv, Begins
  PROVE  IInv' /\ Order!Start
<1>1. /\ phase = "sorting" /\ phase' = "running" /\ ready = {}
      /\ Len(ordered) = Len(nodes) /\ ordered' = ordered
      /\ plan'.nodes = NodeSet
      /\ plan'.edges = {<<edges[k].source, edges[k].target>> : k \in DOMAIN edges}
      /\ UNCHANGED <<graphVars, stopOnFailure, position, result>>
  BY DEF Begins, sortVars
<1>2. GraphInv /\ GraphInv'
  BY <1>1, SameGraph DEF IInv
<1>3. /\ ordered \in Seq(Nodes) /\ Distinct(ordered) /\ Done = NodeSet
      /\ \A j \in DOMAIN ordered : \A k \in EdgesInto(ordered[j]) :
           \E i \in 1 .. j - 1 : ordered[i] = edges[k].source
  BY <1>1, <1>2, FS_Subset DEF IInv, SortInv, GraphInv
<1>4. ASSUME NEW j \in DOMAIN ordered, NEW edge \in plan'.edges, edge[2] = ordered[j]
      PROVE  \E i \in 1 .. j - 1 : ordered[i] = edge[1]
  <2>1. PICK k \in DOMAIN edges : edge = <<edges[k].source, edges[k].target>>
    BY <1>1
  <2>2. k \in EdgesInto(ordered[j]) /\ edge[1] = edges[k].source
    BY <1>4, <2>1 DEF EdgesInto
  <2> QED
    BY <1>3, <2>2
<1>5. Done' = NodeSet
  BY <1>1, <1>3 DEF Done
<1>6. PlanInv'
  BY <1>1, <1>3, <1>4, <1>5 DEF PlanInv
<1>7. position = 1 /\ result = EmptyResult
  BY <1>1 DEF IInv, ResultInv
<1>8. Attempted' = {}
  BY <1>1, <1>7 DEF Attempted
<1>9. ResultInv' /\ SortInv'
  <2>1. /\ result.executed = << >> /\ result.succeeded = TRUE
        /\ result.successes = {} /\ result.failed = {}
    BY <1>7 DEF EmptyResult
  <2>2. Len(ordered) \in Nat /\ 1 .. position - 1 = {} /\ 1 \in 1 .. Len(ordered) + 1
    BY <1>3, <1>7
  <2>3. << >> \in Seq(Nodes) /\ Len(<< >>) = position - 1
    BY <1>7
  <2>4. SortInv'
    BY <1>1 DEF SortInv
  <2>5. result'.succeeded => /\ Len(result'.executed) = position' - 1
                             /\ result'.successes = Attempted'
    BY <1>1, <1>8, <2>1, <2>3
  <2> QED
    BY <1>1, <1>7, <2>1, <2>2, <2>3, <2>4, <2>5 DEF ResultInv
<1>10. ASSUME NEW some \in (SUBSET plan'.nodes) \ {{}}
       PROVE  \E node \in some : \A other \in some : <<other, node>> \notin plan'.edges
  <2>1. \A node \in some : \E j \in DOMAIN ordered : ordered[j] = node
    BY <1>1, <1>3 DEF Done
  <2>2. PICK j \in DOMAIN ordered :
          ordered[j] \in some /\ \A i \in 1 .. j - 1 : ordered[i] \notin some
    BY <1>3, <2>1, FirstOfSome
  <2>3. ASSUME NEW other \in some, <<other, ordered[j]>> \in plan'.edges PROVE FALSE
    BY <1>4, <2>2, <2>3
  <2> QED
    BY <2>2, <2>3
<1>11. Order!Start
  BY <1>1, <1>8, <1>10 DEF Order!Start
<1> QED
  BY <1>2, <1>6, <1>9, <1>11 DEF IInv

-----------------------------------------------------------------------------
(* The node a run is at may be attempted: its predecessors have been.      *)
LEMMA MayAttempt ==
  ASSUME IInv, phase = "running", position <= Len(ordered)
  PROVE  /\ Len(ordered) \in Nat /\ position \in DOMAIN ordered /\ position \in Nat
         /\ DOMAIN ordered = 1 .. Len(ordered)
         /\ ordered[position] \in Nodes /\ ordered[position] \in plan.nodes
         /\ Order!Attemptable(ordered[position])
<1>1. /\ ordered \in Seq(Nodes) /\ Distinct(ordered) /\ plan.nodes = Done
      /\ \A j \in DOMAIN ordered : \A edge \in plan.edges :
           edge[2] = ordered[j] => \E i \in 1 .. j - 1 : ordered[i] = edge[1]
  BY DEF IInv, PlanInv
<1>2. /\ Len(ordered) \in Nat /\ DOMAIN ordered = 1 .. Len(ordered)
      /\ position \in DOMAIN ordered /\ position \in Nat
  BY <1>1 DEF IInv, ResultInv
<1>3. ordered[position] \in Nodes /\ ordered[position] \in plan.nodes
  BY <1>1, <1>2 DEF Done
<1>4. ordered[position] \notin Attempted
  <2> SUFFICES ASSUME NEW i \in 1 .. position - 1, ordered[i] = ordered[position]
               PROVE  FALSE
    BY DEF Attempted
  <2>1. i \in DOMAIN ordered /\ i # position
    BY <1>2
  <2> QED
    BY <1>1, <1>2, <2>1 DEF Distinct
<1>5. \A edge \in plan.edges : edge[2] = ordered[position] => edge[1] \in Attempted
  BY <1>1, <1>2 DEF Attempted
<1>6. Order!Attemptable(ordered[position])
  BY <1>3, <1>4, <1>5 DEF Order!Attemptable
<1> QED
  BY <1>2, <1>3, <1>6

LEMMA RunNodeInv ==
  ASSUME IInv, NEW outcome \in Outcomes, RunNode(outcome)
  PROVE  IInv' /\ Order!Next
<1> DEFINE node == ordered[position]
<1>1. /\ phase = "running" /\ position <= Len(ordered) /\ position' = position + 1
      /\ phase' = (IF Stops(outcome) THEN "returned" ELSE "running")
      /\ result' = After(node, outcome)
      /\ UNCHANGED <<graphVars, ordered, stopOnFailure, plan>>
  BY DEF RunNode, sortVars
<1>2. /\ Len(ordered) \in Nat /\ position \in DOMAIN ordered /\ position \in Nat
      /\ DOMAIN ordered = 1 .. Len(ordered)
      /\ node \in Nodes /\ node \in plan.nodes /\ Order!Attemptable(node)
  BY <1>1, MayAttempt
<1> HIDE DEF node
<1>3. Attempted' = Attempted \cup {node} /\ Done' = Done
  BY <1>1, <1>2 DEF Attempted, Done, node
<1>4. GraphInv'
  BY <1>1, SameGraph DEF IInv
<1>5. SortInv'
  BY <1>1 DEF SortInv
<1>6. PlanInv'
  BY <1>1, <1>3 DEF IInv, PlanInv
<1>7. /\ result.executed \in Seq(Nodes) /\ result.succeeded \in BOOLEAN
      /\ result.succeeded =>
           /\ Len(result.executed) = position - 1
           /\ \A i \in 1 .. position - 1 : result.executed[i] = ordered[i]
           /\ result.successes = Attempted
      /\ result.failed = {} /\ (stopOnFailure => result.succeeded)
  BY <1>1 DEF IInv, ResultInv
<1>8. /\ result'.succeeded \in BOOLEAN
      /\ result'.succeeded <=> result.succeeded /\ outcome = "success"
      /\ result'.executed = IF outcome = "raised" THEN result.executed
                            ELSE Append(result.executed, node)
      /\ result'.failed = IF Stops(outcome) THEN {node} ELSE {}
      /\ result'.successes = IF outcome = "success" THEN result.successes \cup {node}
                             ELSE result.successes
  BY <1>1, <1>7 DEF After
<1>9. result'.executed \in Seq(Nodes)
  BY <1>2, <1>7, <1>8
<1>10. result'.succeeded => 
         /\ Len(result'.executed) = position
         /\ \A i \in 1 .. position : result'.executed[i] = ordered[i]
         /\ result'.successes = Attempted'
  <2> SUFFICES ASSUME result.succeeded, outcome = "success"
               PROVE  /\ Len(result'.executed) = position
                      /\ \A i \in 1 .. position : result'.executed[i] = ordered[i]
                      /\ result'.successes = Attempted'
    BY <1>8
  <2>1. result'.executed = Append(result.executed, node)
    BY <1>8
  <2>2. /\ Len(result'.executed) = Len(result.executed) + 1
        /\ \A i \in 1 .. Len(result.executed) : result'.executed[i] = result.executed[i]
        /\ result'.executed[Len(result.executed) + 1] = node
    BY <1>2, <1>7, <2>1, OneMore
  <2>3. Len(result.executed) = position - 1
    BY <1>7
  <2> QED
    BY <1>2, <1>3, <1>7, <1>8, <2>2, <2>3 DEF node
<1>11. ResultInv'
  <2>1. CASE ~ Stops(outcome)
    <3>1. phase' = "running" /\ result'.failed = {}
      BY <1>1, <1>8, <2>1
    <3>2. stopOnFailure => result'.succeeded
      BY <1>7, <1>8, <2>1 DEF Stops
    <3> QED
      BY <1>1, <1>2, <1>8, <1>9, <1>10, <3>1, <3>2 DEF ResultInv
  <2>2. CASE Stops(outcome)
    <3>1. phase' = "returned" /\ result'.failed = {node} /\ ~ result'.succeeded
      BY <1>1, <1>8, <2>2 DEF Stops
    <3>2. result'.successes = Attempted
      BY <1>7, <1>8, <2>2 DEF Stops
    <3>3. position' - 1 = position /\ position' - 2 = position - 1
      BY <1>1, <1>2
    <3>4. result'.successes = {ordered'[i] : i \in 1 .. position' - 2}
      BY <1>1, <3>2, <3>3 DEF Attempted
    <3>5. position' - 1 \in DOMAIN ordered' /\ ordered'[position' - 1] = node
      BY <1>1, <1>2, <3>3 DEF node
    <3>6. position' \in 1 .. Len(ordered') + 1
      BY <1>1, <1>2
    <3> QED
      BY <1>8, <1>9, <3>1, <3>4, <3>5, <3>6 DEF ResultInv
  <2> QED
    BY <2>1, <2>2
<1>12. Order!Next
  <2>1. CASE ~ Stops(outcome)
    <3>1. phase' = "running"
      BY <1>1, <2>1
    <3>2. Order!Attempt
      BY <1>1, <1>2, <1>3, <3>1 DEF Order!Attempt
    <3> QED
      BY <3>2 DEF Order!Next
  <2>2. CASE Stops(outcome)
    <3>1. phase' = "returned"
      BY <1>1, <2>2
    <3>2. Order!FailAttempt
      BY <1>1, <1>2, <3>1 DEF Order!FailAttempt, Order!EndRun, Order!NoPlan, EmptyPlan
    <3> QED
      BY <3>2 DEF Order!Next
  <2> QED
    BY <2>1, <2>2
<1> QED
  BY <1>4, <1>5, <1>6, <1>11, <1>12 DEF IInv

LEMMA EndsInv ==
  ASSUME IInv, Ends
  PROVE  IInv' /\ Order!Finish
<1>1. /\ phase = "running" /\ phase' = "returned" /\ position > Len(ordered)
      /\ UNCHANGED <<graphVars, ordered, stopOnFailure, plan, position, result>>
  BY DEF Ends, sortVars
<1>2. GraphInv' /\ SortInv'
  BY <1>1, SameGraph DEF IInv, SortInv
<1>3. Attempted' = Attempted /\ Done' = Done
  BY <1>1 DEF Attempted, Done
<1>4. ordered \in Seq(Nodes) /\ position = Len(ordered) + 1
  BY <1>1 DEF IInv, PlanInv, ResultInv
<1>5. PlanInv'
  BY <1>1, <1>3 DEF IInv, PlanInv
<1>6. ResultInv'
  BY <1>1, <1>3, <1>4 DEF IInv, ResultInv
<1>7. Attempted = plan.nodes
  <2>1. 1 .. position - 1 = DOMAIN ordered
    BY <1>4
  <2> QED
    BY <1>1, <2>1 DEF Attempted, Done, IInv, PlanInv
<1>8. Order!Finish
  BY <1>1, <1>7 DEF Order!Finish, Order!EndRun, Order!NoPlan, EmptyPlan
<1> QED
  BY <1>2, <1>5, <1>6, <1>8 DEF IInv

LEMMA ResetInv ==
  ASSUME IInv, Leaves \/ Refuses
  PROVE  IInv' /\ UNCHANGED Order!orderVars
<1>1. /\ phase # "running" /\ phase' = "idle" /\ position' = 1 /\ result' = EmptyResult
      /\ UNCHANGED graphVars
  BY DEF Leaves, Refuses, Reset
<1>2. GraphInv'
  BY <1>1, SameGraph DEF IInv
<1>3. SortInv' /\ PlanInv' /\ ResultInv'
  BY <1>1 DEF SortInv, PlanInv, ResultInv
<1>4. UNCHANGED Order!orderVars
  BY <1>1 DEF Order!orderVars
<1> QED
  BY <1>2, <1>3, <1>4 DEF IInv

LEMMA StutterInv ==
  ASSUME IInv, UNCHANGED allVars
  PROVE  IInv' /\ UNCHANGED Order!orderVars
<1>1. UNCHANGED graphVars /\ UNCHANGED <<sortVars, runVars>>
  BY DEF allVars
<1>2. GraphInv' /\ UNCHANGED <<nodes, edges, NodeSet>>
  BY <1>1, SameGraph DEF IInv
<1>3. PlanInv' /\ ResultInv' /\ UNCHANGED Order!orderVars
  BY <1>1, SameRun DEF IInv
<1>4. SortInv'
  <2>1. UNCHANGED <<indegrees, ready, ordered, phase>>
    BY <1>1 DEF sortVars, runVars
  <2>2. /\ Done' = Done
        /\ \A node : EdgesInto(node)' = EdgesInto(node) /\ Pending(node)' = Pending(node)
    BY <1>2, <2>1 DEF Done, EdgesInto, Pending
  <2> QED
    BY <1>2, <2>1, <2>2 DEF IInv, SortInv
<1> QED
  BY <1>2, <1>3, <1>4 DEF IInv

LEMMA NextInv ==
  ASSUME IInv, [Next]_allVars
  PROVE  IInv' /\ [Order!Next]_(Order!orderVars)
<1>1. CASE Builds \/ \E stop \in BOOLEAN : Execute(stop)
  BY <1>1, BuildsInv, ExecuteInv
<1>2. CASE Sorts \/ Refuses \/ Leaves
  BY <1>2, SortsInv, ResetInv
<1>3. CASE Begins \/ Ends
  BY <1>3, BeginsInv, EndsInv DEF Order!Next
<1>4. CASE \E outcome \in Outcomes : RunNode(outcome)
  BY <1>4, RunNodeInv
<1> QED
  BY <1>1, <1>2, <1>3, <1>4, StutterInv DEF Next, Runs

LEMMA Inductive == Spec => []IInv
<1>1. Init => IInv
  BY InitInv
<1>2. IInv /\ [Next]_allVars => IInv'
  BY NextInv
<1> QED
  BY <1>1, <1>2, PTL DEF Spec

-----------------------------------------------------------------------------
LEMMA ResultIsTrue == IInv => ResultTellsTheRun
<1> SUFFICES ASSUME IInv, phase = "returned"
             PROVE  /\ result.succeeded =>
                         result.executed = ordered /\ result.successes = plan.nodes
                    /\ \A node \in result.failed : result.successes = Before(node)
                    /\ stopOnFailure /\ result.failed = {} => result.succeeded
  BY DEF ResultTellsTheRun
<1>1. /\ ordered \in Seq(Nodes) /\ Distinct(ordered) /\ plan.nodes = Done
      /\ position \in 1 .. Len(ordered) + 1
      /\ result.executed \in Seq(Nodes)
      /\ result.succeeded =>
           /\ Len(result.executed) = position - 1
           /\ \A i \in 1 .. position - 1 : result.executed[i] = ordered[i]
           /\ result.successes = Attempted
  BY DEF IInv, PlanInv, ResultInv
<1>2. CASE result.failed = {}
  <2>1. position = Len(ordered) + 1 /\ (stopOnFailure => result.succeeded)
    BY <1>2 DEF IInv, ResultInv
  <2>2. 1 .. position - 1 = DOMAIN ordered
    BY <1>1, <2>1
  <2>3. result.succeeded => result.executed = ordered
    <3>1. SUFFICES ASSUME result.succeeded PROVE result.executed = ordered
      OBVIOUS
    <3>2. /\ Len(result.executed) = Len(ordered)
          /\ \A i \in 1 .. Len(result.executed) : result.executed[i] = ordered[i]
      BY <1>1, <2>1, <3>1
    <3> QED
      BY <1>1, <3>2, SeqEqual
  <2> QED
    BY <1>1, <1>2, <2>1, <2>2, <2>3 DEF Attempted, Done
<1>3. CASE result.failed # {}
  <2>1. /\ position - 1 \in DOMAIN ordered
        /\ result.failed = {ordered[position - 1]}
        /\ result.successes = {ordered[i] : i \in 1 .. position - 2}
        /\ ~ result.succeeded
    BY <1>3 DEF IInv, ResultInv
  <2>2. PositionIn(ordered, ordered[position - 1]) = position - 1
    BY <1>1, <2>1 DEF PositionIn, Distinct
  <2>3. position - 1 - 1 = position - 2
    BY <1>1
  <2> QED
    BY <1>3, <2>1, <2>2, <2>3 DEF Before
<1> QED
  BY <1>2, <1>3

(* A graph is refused if and only if it has a cycle                        *)
(* (CapabilityGraph._topological_node_ids).                                *)
THEOREM OnlyCyclesAreRefused == Spec => []RefusesCyclesOnly
BY Refused, Inductive, PTL

(* The result of a run tells which nodes succeeded, and that none was run  *)
(* behind the failure it stopped at (CapabilityGraphExecutor.execute).     *)
THEOREM RunsAreToldTruly == Spec => []ResultTellsTheRun
BY ResultIsTrue, Inductive, PTL

(* Runs attempt the nodes of the graph they were started with, each after  *)
(* its predecessors: the executor implements the dependency order.         *)
THEOREM RunsFollowTheOrder == Spec => RunsInDependencyOrder
<1>1. Init => Order!Init
  BY InitInv
<1>2. IInv /\ [Next]_allVars => [Order!Next]_(Order!orderVars)
  BY NextInv
<1> QED
  BY <1>1, <1>2, Inductive, PTL DEF Spec, RunsInDependencyOrder, Order!Spec

-----------------------------------------------------------------------------
(* The score of a candidate is one its text may get.                       *)
Scored(c) == <<c.score, c.verified>> \in Scores(c.text)

(* What an ended solve says of its candidates, as both properties do.      *)
RepairsIn(cs, i) == {j \in DOMAIN cs : cs[j].repairOf = i}
WeakIn(cs) == {i \in 1 .. MaxCandidates : cs[i].score < 10}
WeakBefore(cs, i) == {j \in WeakIn(cs) : j < i}

(* Whether the i-th candidate is repaired.                                 *)
GetsRepair(cs, i) ==
  i \in WeakIn(cs) /\ Cardinality(WeakBefore(cs, i)) < MaxRepairAttempts

(* The candidates in front of the i-th were criticised, and repaired if    *)
(* they get a repair.                                                      *)
DoneBefore(cs, i) ==
  /\ Len(cs) >= MaxCandidates
  /\ \A j \in DOMAIN cs :
       IF j <= MaxCandidates THEN cs[j].repairOf = 0 /\ (j < i => cs[j].critiqued)
                             ELSE cs[j].repairOf \in 1 .. i - 1 /\ cs[j].critiqued
  /\ \A j \in 1 .. i - 1 :
       Cardinality(RepairsIn(cs, j)) = IF GetsRepair(cs, j) THEN 1 ELSE 0

Begun(cs, i) ==
  LET weak == Cardinality(WeakBefore(cs, i))
  IN  IF weak < MaxRepairAttempts THEN weak ELSE MaxRepairAttempts

PlaceInv ==
  /\ pc = "generate" =>
       /\ index = 1 /\ repairs = 0
       /\ Len(candidates) < IF mode = "baseline" THEN 1 ELSE MaxCandidates
       /\ \A i \in DOMAIN candidates : candidates[i].repairOf = 0
  /\ pc \in {"critique", "repair"} => mode # "baseline" /\ index <= MaxCandidates
  /\ pc \in {"critique", "repair", "select"} /\ mode # "baseline" =>
       DoneBefore(candidates, index)
  /\ pc = "critique" => repairs = Begun(candidates, index)
  /\ pc = "repair" =>
       /\ GetsRepair(candidates, index) /\ candidates[index].critiqued
       /\ repairs = Cardinality(WeakBefore(candidates, index)) + 1
  /\ pc = "select" /\ mode # "baseline" => index = MaxCandidates + 1

ScoredInv ==
  /\ \A i \in DOMAIN candidates : Scored(candidates[i])
  /\ \A k \in DOMAIN results : \A i \in DOMAIN results[k].candidates :
       Scored(results[k].candidates[i])

BoosterInv ==
  /\ BoosterTypeOK /\ PlaceInv /\ ScoredInv
  /\ SelectionIsVerified /\ FirstWeakAreRepaired

USE LimitsAssumption

-----------------------------------------------------------------------------
(* By what the task provides, the scores that tell a verified answer from  *)
(* another one.                                                            *)
LEMMA ScoresByTask ==
  ASSUME task \in Task, NEW text \in Texts, NEW score \in Scores(text)
  PROVE  /\ score[1] \in {0, 5, 7, 10} /\ score[2] \in BOOLEAN
         /\ score = <<score[1], score[2]>>
         /\ task.coding => (score[2] => score[1] >= 7) /\ (~ score[2] => score[1] = 0)
         /\ ~ task.coding /\ task.provides = "nothing" => ~ score[2]
         /\ ~ task.coding /\ task.provides # "nothing" =>
              (score[2] => score[1] = 10) /\ (~ score[2] => score[1] = 0)
<1>1. ASSUME NEW passed \in BOOLEAN, score = Judged(passed)
      PROVE  /\ score = <<score[1], score[2]>>
             /\ score[1] \in {0, 10} /\ score[2] \in BOOLEAN
             /\ (score[2] => score[1] = 10) /\ (~ score[2] => score[1] = 0)
  <2>1. CASE passed = TRUE
    <3>1. score = <<10, TRUE>>
      BY <1>1, <2>1 DEF Judged
    <3> QED
      BY <3>1
  <2>2. CASE passed = FALSE
    <3>1. score = <<0, FALSE>>
      BY <1>1, <2>2 DEF Judged
    <3> QED
      BY <3>1
  <2> QED
    BY <2>1, <2>2
<1>2. task.coding \in BOOLEAN
  BY DEF Task
<1>3. ASSUME score = Judged(text \in Right)
      PROVE  \E passed \in BOOLEAN : score = Judged(passed)
  <2>1. CASE text \in Right
    <3>1. (text \in Right) = TRUE
      BY <2>1
    <3> QED
      BY <1>3, <3>1
  <2>2. CASE text \notin Right
    <3>1. (text \in Right) = FALSE
      BY <2>2
    <3> QED
      BY <1>3, <3>1
  <2> QED
    BY <2>1, <2>2
<1>4. CASE task.coding
  <2>1. CASE text \notin Patches
    <3>1. score = <<0, FALSE>>
      BY <1>4, <2>1 DEF Scores
    <3> QED
      BY <1>4, <3>1
  <2>2. CASE text \in Patches /\ task.provides = "tests"
    <3>1. PICK verdict : score = Judged(verdict = "passed")
      BY <1>4, <2>2 DEF Scores
    <3>2. PICK passed \in BOOLEAN : score = Judged(passed)
      BY <3>1
    <3> QED
      BY <1>1, <1>4, <3>2
  <2>3. CASE text \in Patches /\ task.provides = "nothing"
    <3>1. score = <<7, TRUE>>
      BY <1>4, <2>3 DEF Scores
    <3> QED
      BY <1>4, <3>1
  <2>4. CASE text \in Patches /\ task.provides \notin {"tests", "nothing"}
    <3>1. score = Judged(text \in Right)
      BY <1>4, <2>4 DEF Scores
    <3>2. PICK passed \in BOOLEAN : score = Judged(passed)
      BY <1>3, <3>1
    <3> QED
      BY <1>1, <1>4, <3>2
  <2> QED
    BY <2>1, <2>2, <2>3, <2>4
<1>5. CASE ~ task.coding /\ task.provides = "nothing"
  <2>1. score = <<5, FALSE>>
    BY <1>5 DEF Scores
  <2> QED
    BY <1>5, <2>1
<1>6. CASE ~ task.coding /\ task.provides # "nothing"
  <2>1. score = Judged(text \in Right)
    BY <1>6 DEF Scores
  <2>2. PICK passed \in BOOLEAN : score = Judged(passed)
    BY <1>3, <2>1
  <2> QED
    BY <1>1, <1>6, <2>2
<1> QED
  BY <1>2, <1>4, <1>5, <1>6

(* In one task a verified answer scores higher than one that is not.       *)
LEMMA VerifiedIsHigher ==
  ASSUME task \in Task, NEW c \in Candidate, NEW d \in Candidate,
         Scored(c), Scored(d), c.verified, ~ d.verified
  PROVE  d.score < c.score
<1> DEFINE s == <<c.score, c.verified>>
           t == <<d.score, d.verified>>
<1>1. /\ c.text \in Texts /\ d.text \in Texts
      /\ s \in Scores(c.text) /\ t \in Scores(d.text)
  BY DEF Candidate, Scored
<1>2. s[1] = c.score /\ s[2] /\ t[1] = d.score /\ ~ t[2]
  OBVIOUS
<1> HIDE DEF s, t
<1>3. task.coding \in BOOLEAN
  BY DEF Task
<1> QED
  BY <1>1, <1>2, <1>3, ScoresByTask

-----------------------------------------------------------------------------
(* What the properties say of one result.                                  *)
Verified(r) == {i \in DOMAIN r.candidates : r.candidates[i].verified}

SelectsVerified(r) ==
  ~ r.error => /\ r.passed <=> Verified(r) # {}
               /\ \E i \in DOMAIN r.candidates :
                    /\ r.candidates[i].text = r.output
                    /\ r.passed => i \in Verified(r)

RepairsFirstWeak(r) ==
  LET weak == {i \in Generated(r) : r.candidates[i].score < 10}
      before(i) == {j \in weak : j < i}
  IN  ~ r.error /\ r.mode # "baseline" =>
        /\ Cardinality(Generated(r)) = MaxCandidates
        /\ \A i \in DOMAIN r.candidates :
             /\ r.candidates[i].critiqued
             /\ Cardinality(RepairsOf(r, i)) =
                  IF i \in weak /\ Cardinality(before(i)) < MaxRepairAttempts
                    THEN 1 ELSE 0

ScoredResult(r) == \A i \in DOMAIN r.candidates : Scored(r.candidates[i])

LEMMA OfResults ==
  /\ SelectionIsVerified <=> \A k \in DOMAIN results : SelectsVerified(results[k])
  /\ FirstWeakAreRepaired <=> \A k \in DOMAIN results : RepairsFirstWeak(results[k])
BY DEF SelectionIsVerified, FirstWeakAreRepaired, SelectsVerified, RepairsFirstWeak, Verified

(* The end of a solve: nothing but its result has to be looked at.         *)
LEMMA ReturnsInv ==
  ASSUME BoosterInv, NEW r \in Result, SolveReturns(r), UNCHANGED candidates,
         ScoredResult(r), SelectsVerified(r), RepairsFirstWeak(r)
  PROVE  BoosterInv'
<1>1. /\ results' = Append(results, r) /\ pc' = "idle"
      /\ UNCHANGED <<task, critic, remaining, mode, index, repairs, candidates>>
  BY DEF SolveReturns
<1>2. PICK n \in Nat : /\ results \in Seq(Result) /\ n = Len(results)
                       /\ DOMAIN results = 1 .. n
  BY DEF BoosterInv, BoosterTypeOK
<1>3. /\ results' \in Seq(Result) /\ DOMAIN results' = 1 .. n + 1
      /\ \A k \in 1 .. n + 1 : \/ results'[k] = r
                               \/ k \in DOMAIN results /\ results'[k] = results[k]
  BY <1>1, <1>2
<1>4. BoosterTypeOK'
  BY <1>1, <1>3 DEF BoosterInv, BoosterTypeOK
<1>5. PlaceInv'
  BY <1>1 DEF PlaceInv
<1>6. ScoredInv'
  <2>1. \A text : Scores(text)' = Scores(text)
    BY <1>1 DEF Scores
  <2>2. (\A i \in DOMAIN candidates : Scored(candidates[i]))'
    <3> SUFFICES ASSUME NEW i \in DOMAIN candidates' PROVE Scored(candidates[i])'
      OBVIOUS
    <3>1. Scored(candidates[i])
      BY <1>1 DEF BoosterInv, ScoredInv
    <3> QED
      BY <1>1, <2>1, <3>1 DEF Scored
  <2>3. ASSUME NEW k \in DOMAIN results', NEW i \in DOMAIN results'[k].candidates
        PROVE  Scored(results[k].candidates[i])'
    <3>1. \/ results'[k] = r
          \/ k \in DOMAIN results /\ results'[k] = results[k]
      BY <1>3, <2>3
    <3>2. Scored(results'[k].candidates[i])
      BY <2>3, <3>1 DEF BoosterInv, ScoredInv, ScoredResult
    <3> QED
      BY <2>1, <3>2 DEF Scored
  <2> QED
    BY <2>2, <2>3 DEF ScoredInv
<1>7. \A k \in DOMAIN results' : SelectsVerified(results'[k]) /\ RepairsFirstWeak(results'[k])
  <2> SUFFICES ASSUME NEW k \in DOMAIN results'
               PROVE  SelectsVerified(results'[k]) /\ RepairsFirstWeak(results'[k])
    OBVIOUS
  <2>1. \/ results'[k] = r
        \/ k \in DOMAIN results /\ results'[k] = results[k]
    BY <1>3
  <2> QED
    BY <2>1, OfResults DEF BoosterInv
<1>8. SelectionIsVerified' /\ FirstWeakAreRepaired'
  BY <1>7 DEF SelectionIsVerified, FirstWeakAreRepaired, SelectsVerified, RepairsFirstWeak,
              Verified, Generated, RepairsOf
<1> QED
  BY <1>4, <1>5, <1>6, <1>8 DEF BoosterInv

(* A solve that fails selects nothing.                                     *)
LEMMA FailureInv ==
  ASSUME BoosterInv, SolveReturns(Failure), UNCHANGED candidates
  PROVE  BoosterInv'
<1>1. Failure \in Result /\ Failure.error = TRUE /\ Failure.candidates = candidates
  BY DEF Failure, Result, BoosterInv, BoosterTypeOK
<1>2. ScoredResult(Failure)
  BY <1>1 DEF ScoredResult, BoosterInv, ScoredInv
<1>3. SelectsVerified(Failure) /\ RepairsFirstWeak(Failure)
  BY <1>1 DEF SelectsVerified, RepairsFirstWeak
<1> QED
  BY <1>1, <1>2, <1>3, ReturnsInv

-----------------------------------------------------------------------------
(* The counts of an ended solve, from how far its candidates were repaired. *)
LEMMA WeakIsFinite ==
  ASSUME NEW cs, NEW i
  PROVE  /\ IsFiniteSet(WeakBefore(cs, i)) /\ Cardinality(WeakBefore(cs, i)) \in Nat
<1>1. IsFiniteSet(1 .. MaxCandidates)
  BY FS_Interval
<1>2. WeakBefore(cs, i) \subseteq 1 .. MaxCandidates
  BY DEF WeakBefore, WeakIn
<1>3. IsFiniteSet(WeakBefore(cs, i))
  BY <1>1, <1>2, FS_Subset
<1> QED
  BY <1>3, FS_CardinalityType

(* What is weak in front of the next candidate.                            *)
LEMMA WeakBeforeNext ==
  ASSUME NEW cs, NEW i \in 1 .. MaxCandidates
  PROVE  Cardinality(WeakBefore(cs, i + 1)) =
           Cardinality(WeakBefore(cs, i)) + IF i \in WeakIn(cs) THEN 1 ELSE 0
<1>1. \A j \in WeakIn(cs) : j \in Nat
  BY DEF WeakIn
<1>2. CASE i \in WeakIn(cs)
  <2>1. WeakBefore(cs, i + 1) = WeakBefore(cs, i) \cup {i}
    <3>1. \A j \in WeakIn(cs) : j < i + 1 <=> j < i \/ j = i
      BY <1>1
    <3> QED
      BY <1>2, <3>1 DEF WeakBefore
  <2>2. i \notin WeakBefore(cs, i)
    BY DEF WeakBefore
  <2> QED
    BY <1>2, <2>1, <2>2, WeakIsFinite, FS_AddElement
<1>3. CASE i \notin WeakIn(cs)
  <2>1. WeakBefore(cs, i + 1) = WeakBefore(cs, i)
    BY <1>1, <1>3 DEF WeakBefore
  <2> QED
    BY <1>3, <2>1, WeakIsFinite
<1> QED
  BY <1>2, <1>3

(* Candidates of which only whether they were criticised, or those behind  *)
(* the generated ones, differ.                                             *)
LEMMA SameWeak ==
  ASSUME NEW cs, NEW ds, \A j \in 1 .. MaxCandidates : ds[j].score = cs[j].score
  PROVE  /\ WeakIn(ds) = WeakIn(cs)
         /\ \A i : /\ WeakBefore(ds, i) = WeakBefore(cs, i)
                   /\ GetsRepair(ds, i) <=> GetsRepair(cs, i)
                   /\ Begun(ds, i) = Begun(cs, i)
<1>1. WeakIn(ds) = WeakIn(cs)
  BY DEF WeakIn
<1>2. \A i : WeakBefore(ds, i) = WeakBefore(cs, i)
  BY <1>1 DEF WeakBefore
<1> QED
  BY <1>1, <1>2 DEF GetsRepair, Begun

(* Once all generated candidates are done, the result can be told.         *)
LEMMA AllAreDone ==
  ASSUME NEW r \in Result, DoneBefore(r.candidates, MaxCandidates + 1)
  PROVE  RepairsFirstWeak(r)
<1> DEFINE cs == r.candidates
           weak == {i \in Generated(r) : cs[i].score < 10}
           before(i) == {j \in weak : j < i}
<1>1. PICK n \in Nat : /\ n = Len(cs) /\ DOMAIN cs = 1 .. n /\ n >= MaxCandidates
                       /\ MaxCandidates \in Nat
  BY DEF Result, DoneBefore
<1>2. \A j \in 1 .. n :
        IF j <= MaxCandidates THEN cs[j].repairOf = 0 /\ cs[j].critiqued
                              ELSE cs[j].repairOf \in 1 .. MaxCandidates /\ cs[j].critiqued
  BY <1>1 DEF DoneBefore
<1>3. Generated(r) = 1 .. MaxCandidates
  BY <1>1, <1>2 DEF Generated
<1>4. Cardinality(Generated(r)) = MaxCandidates
  <2>1. MaxCandidates \in Nat /\ MaxCandidates >= 1
    BY DEF LimitsAssumption
  <2>2. Cardinality(1 .. MaxCandidates) = MaxCandidates
    <3> HIDE DEF cs, weak, before
    <3> QED
      BY <2>1, FS_Interval
  <2> QED
    BY <1>3, <2>2
<1>5. weak = WeakIn(cs) /\ \A i : before(i) = WeakBefore(cs, i)
  BY <1>3 DEF WeakIn, WeakBefore
<1>6. ASSUME NEW i \in DOMAIN cs
      PROVE  Cardinality(RepairsOf(r, i)) =
               IF i \in weak /\ Cardinality(before(i)) < MaxRepairAttempts THEN 1 ELSE 0
  <2>1. RepairsOf(r, i) = RepairsIn(cs, i)
    BY DEF RepairsOf, RepairsIn
  <2>2. CASE i <= MaxCandidates
    <3>1. i \in 1 .. (MaxCandidates + 1) - 1
      BY <1>1, <2>2
    <3>2. Cardinality(RepairsIn(cs, i)) = IF GetsRepair(cs, i) THEN 1 ELSE 0
      BY <3>1 DEF DoneBefore
    <3> QED
      BY <1>5, <2>1, <3>2 DEF GetsRepair
  <2>3. CASE ~ (i <= MaxCandidates)
    <3>1. RepairsIn(cs, i) = {}
      BY <1>1, <1>2, <2>3 DEF RepairsIn
    <3>2. i \notin weak
      BY <1>1, <1>3, <2>3
    <3> QED
      BY <2>1, <3>1, <3>2, FS_EmptySet
  <2> QED
    BY <2>2, <2>3
<1> QED
  BY <1>1, <1>2, <1>4, <1>6 DEF RepairsFirstWeak

-----------------------------------------------------------------------------
LEMMA BoosterInitInv == BoosterInit => BoosterInv
<1> SUFFICES ASSUME BoosterInit PROVE BoosterInv
  OBVIOUS
<1>1. candidates = << >> /\ results = << >> /\ pc = "idle"
  BY DEF BoosterInit
<1>2. BoosterTypeOK
  <2>1. task \in Task /\ critic \in BOOLEAN /\ remaining \in Seq(Modes)
    BY TasksAssumption DEF BoosterInit
  <2>2. /\ mode \in Modes /\ index \in 1 .. MaxCandidates + 1
        /\ repairs \in 0 .. MaxRepairAttempts
        /\ candidates \in Seq(Candidate) /\ results \in Seq(Result)
    BY <1>1 DEF BoosterInit, Modes
  <2> QED
    BY <1>1, <2>1, <2>2 DEF BoosterTypeOK
<1>3. PlaceInv
  BY <1>1 DEF PlaceInv
<1>4. ScoredInv /\ SelectionIsVerified /\ FirstWeakAreRepaired
  BY <1>1 DEF ScoredInv, SelectionIsVerified, FirstWeakAreRepaired
<1> QED
  BY <1>2, <1>3, <1>4 DEF BoosterInv

(* Steps that are not the end of a solve.                                  *)
LEMMA KeepsResults ==
  ASSUME BoosterInv, UNCHANGED <<task, results>>, BoosterTypeOK', PlaceInv',
         \A i \in DOMAIN candidates' : Scored(candidates'[i])
  PROVE  BoosterInv'
<1>1. \A text : Scores(text)' = Scores(text)
  BY DEF Scores
<1>2. (\A i \in DOMAIN candidates : Scored(candidates[i]))'
  BY <1>1 DEF Scored
<1>3. (\A k \in DOMAIN results : \A i \in DOMAIN results[k].candidates :
         Scored(results[k].candidates[i]))'
  <2> SUFFICES ASSUME NEW k \in DOMAIN results', NEW i \in DOMAIN results'[k].candidates
               PROVE  Scored(results[k].candidates[i])'
    OBVIOUS
  <2>1. Scored(results[k].candidates[i])
    BY DEF BoosterInv, ScoredInv
  <2> QED
    BY <1>1, <2>1 DEF Scored
<1>4. \A k \in DOMAIN results' : SelectsVerified(results'[k]) /\ RepairsFirstWeak(results'[k])
  BY OfResults DEF BoosterInv
<1>5. SelectionIsVerified' /\ FirstWeakAreRepaired'
  BY <1>4 DEF SelectionIsVerified, FirstWeakAreRepaired, SelectsVerified, RepairsFirstWeak,
              Verified, Generated, RepairsOf
<1> QED
  BY <1>2, <1>3, <1>5 DEF BoosterInv, ScoredInv

LEMMA BeginsModeInv == ASSUME BoosterInv, BeginsMode PROVE BoosterInv'
<1>1. /\ candidates' = << >> /\ index' = 1 /\ repairs' = 0
      /\ pc' \in {"stopped", "generate"}
      /\ mode' = Head(remaining) /\ remaining' = Tail(remaining)
      /\ remaining # << >> /\ UNCHANGED <<task, critic, results>>
  BY DEF BeginsMode
<1>2. BoosterTypeOK'
  <2>1. remaining \in Seq(Modes)
    BY DEF BoosterInv, BoosterTypeOK
  <2>2. mode' \in Modes /\ remaining' \in Seq(Modes)
    BY <1>1, <2>1
  <2>3. candidates' \in Seq(Candidate) /\ index' \in 1 .. MaxCandidates + 1
        /\ repairs' \in 0 .. MaxRepairAttempts
    BY <1>1
  <2> QED
    BY <1>1, <2>2, <2>3 DEF BoosterInv, BoosterTypeOK
<1>3. PlaceInv'
  BY <1>1 DEF PlaceInv
<1>4. \A i \in DOMAIN candidates' : Scored(candidates'[i])
  BY <1>1
<1> QED
  BY <1>1, <1>2, <1>3, <1>4, KeepsResults

(* What an answer adds to the candidates.                                  *)
LEMMA AnswerAdded ==
  ASSUME BoosterInv, NEW text \in Texts, NEW score \in Scores(text),
         NEW repairOf \in Nat, Answered(text, score, repairOf)
  PROVE  /\ candidates' \in Seq(Candidate)
         /\ Len(candidates') = Len(candidates) + 1 /\ Len(candidates) \in Nat
         /\ DOMAIN candidates' = 1 .. Len(candidates) + 1
         /\ DOMAIN candidates = 1 .. Len(candidates)
         /\ candidates'[Len(candidates) + 1].repairOf = repairOf
         /\ candidates'[Len(candidates) + 1].critiqued <=> repairOf # 0
         /\ \A j \in DOMAIN candidates : candidates'[j] = candidates[j]
         /\ \A j \in DOMAIN candidates' : Scored(candidates'[j])
<1> DEFINE c == [text |-> text, score |-> score[1], verified |-> score[2],
                 critiqued |-> repairOf # 0, repairOf |-> repairOf]
<1>1. candidates \in Seq(Candidate) /\ task \in Task
  BY DEF BoosterInv, BoosterTypeOK
<1>2. score[1] \in {0, 5, 7, 10} /\ score[2] \in BOOLEAN /\ score = <<score[1], score[2]>>
  BY <1>1, ScoresByTask
<1>3. c \in Candidate
  <2>1. (repairOf # 0) \in BOOLEAN
    OBVIOUS
  <2> QED
    BY <1>2, <2>1 DEF Candidate
<1>4. Scored(c)
  BY <1>2 DEF Scored
<1>5. c.repairOf = repairOf /\ (c.critiqued <=> repairOf # 0)
  OBVIOUS
<1>6. candidates' = Append(candidates, c)
  BY DEF Answered
<1> HIDE DEF c
<1>7. /\ candidates' \in Seq(Candidate)
      /\ Len(candidates') = Len(candidates) + 1 /\ Len(candidates) \in Nat
      /\ DOMAIN candidates' = 1 .. Len(candidates) + 1
      /\ DOMAIN candidates = 1 .. Len(candidates)
      /\ candidates'[Len(candidates) + 1] = c
      /\ \A j \in DOMAIN candidates : candidates'[j] = candidates[j]
  BY <1>1, <1>3, <1>6
<1>8. \A j \in DOMAIN candidates' : Scored(candidates'[j])
  <2> SUFFICES ASSUME NEW j \in DOMAIN candidates' PROVE Scored(candidates'[j])
    OBVIOUS
  <2>1. CASE j \in DOMAIN candidates
    BY <1>7, <2>1 DEF BoosterInv, ScoredInv
  <2>2. CASE j = Len(candidates) + 1
    BY <1>4, <1>7, <2>2
  <2> QED
    BY <1>7, <2>1, <2>2
<1> QED
  BY <1>5, <1>7, <1>8

LEMMA GeneratesInv ==
  ASSUME BoosterInv, NEW text \in Texts, NEW score \in Scores(text), Generates(text, score)
  PROVE  BoosterInv'
<1> DEFINE n == Len(candidates)
<1>1. /\ pc = "generate" /\ Answered(text, score, 0)
      /\ UNCHANGED <<task, critic, remaining, mode, index, repairs, results>>
      /\ pc' = CASE mode = "baseline" -> "select"
                 [] mode # "baseline" /\ Len(candidates') < MaxCandidates -> pc
                 [] mode # "baseline" /\ Len(candidates') = MaxCandidates -> "critique"
  BY DEF Generates
<1>2. /\ candidates' \in Seq(Candidate) /\ Len(candidates') = n + 1 /\ n \in Nat
      /\ DOMAIN candidates' = 1 .. n + 1
      /\ candidates'[n + 1].repairOf = 0
      /\ \A j \in 1 .. n : candidates'[j] = candidates[j]
      /\ \A j \in DOMAIN candidates' : Scored(candidates'[j])
  BY <1>1, AnswerAdded
<1>3. /\ index = 1 /\ repairs = 0 /\ n < IF mode = "baseline" THEN 1 ELSE MaxCandidates
      /\ \A j \in 1 .. n : candidates[j].repairOf = 0
  <2>1. DOMAIN candidates = 1 .. n
    BY <1>1, AnswerAdded
  <2> QED
    BY <1>1, <2>1 DEF BoosterInv, PlaceInv
<1> HIDE DEF n
<1>4. \A j \in 1 .. n + 1 : candidates'[j].repairOf = 0
  BY <1>2, <1>3
<1>5. \/ mode = "baseline" /\ pc' = "select"
      \/ mode # "baseline" /\ pc' = "generate" /\ n + 1 < MaxCandidates
      \/ mode # "baseline" /\ pc' = "critique" /\ n + 1 = MaxCandidates
  <2>1. mode # "baseline" => n + 1 < MaxCandidates \/ n + 1 = MaxCandidates
    BY <1>2, <1>3
  <2> QED
    BY <1>1, <1>2, <2>1
<1>6. BoosterTypeOK'
  BY <1>1, <1>2, <1>5 DEF BoosterInv, BoosterTypeOK
<1>7. PlaceInv'
  <2>1. CASE pc' = "select"
    BY <1>1, <1>5, <2>1 DEF PlaceInv
  <2>2. CASE pc' = "generate"
    BY <1>1, <1>2, <1>3, <1>4, <1>5, <2>2 DEF PlaceInv
  <2>3. CASE pc' = "critique"
    <3>1. mode' # "baseline" /\ index' = 1 /\ repairs' = 0 /\ n + 1 = MaxCandidates
      BY <1>1, <1>3, <1>5, <2>3
    <3>2. DoneBefore(candidates', 1)
      BY <1>2, <1>4, <3>1 DEF DoneBefore
    <3>3. WeakBefore(candidates', 1) = {}
      BY DEF WeakBefore, WeakIn
    <3>4. Begun(candidates', 1) = 0
      BY <3>3, FS_EmptySet DEF Begun
    <3>5. PlaceInv' <=> /\ mode' # "baseline" /\ index' <= MaxCandidates
                        /\ DoneBefore(candidates', index')
                        /\ repairs' = Begun(candidates', index')
      BY <2>3, <3>1 DEF PlaceInv, DoneBefore, Begun, RepairsIn, GetsRepair, WeakBefore, WeakIn
    <3> QED
      BY <3>1, <3>2, <3>4, <3>5
  <2> QED
    BY <1>5, <2>1, <2>2, <2>3
<1> QED
  BY <1>1, <1>2, <1>6, <1>7, KeepsResults

-----------------------------------------------------------------------------
(* The next candidate's turn: this one was criticised, and repaired or not *)
(* as it should.                                                           *)
LEMMA Advances ==
  ASSUME NEW cs \in Seq(Candidate), NEW i \in 1 .. MaxCandidates,
         Len(cs) >= MaxCandidates,
         \A j \in DOMAIN cs :
           IF j <= MaxCandidates THEN cs[j].repairOf = 0 /\ (j <= i => cs[j].critiqued)
                                 ELSE cs[j].repairOf \in 1 .. i /\ cs[j].critiqued,
         \A j \in 1 .. i : Cardinality(RepairsIn(cs, j)) = IF GetsRepair(cs, j) THEN 1 ELSE 0
  PROVE  DoneBefore(cs, i + 1)
<1>1. \A j : j \in Nat => (j < i + 1 <=> j <= i)
  OBVIOUS
<1>2. (i + 1) - 1 = i
  OBVIOUS
<1> QED
  BY <1>1, <1>2 DEF DoneBefore

(* How many repairs were begun when it is the next one's turn.             *)
LEMMA BegunNext ==
  ASSUME NEW cs, NEW i \in 1 .. MaxCandidates
  PROVE  Begun(cs, i + 1) = IF GetsRepair(cs, i) THEN Cardinality(WeakBefore(cs, i)) + 1
                                                 ELSE Begun(cs, i)
<1>1. /\ Cardinality(WeakBefore(cs, i)) \in Nat
      /\ Cardinality(WeakBefore(cs, i + 1)) =
           Cardinality(WeakBefore(cs, i)) + IF i \in WeakIn(cs) THEN 1 ELSE 0
  BY WeakIsFinite, WeakBeforeNext
<1> QED
  BY <1>1 DEF Begun, GetsRepair

(* The places where the next turn leads to.                                *)
LEMMA ContinuesInv ==
  ASSUME BoosterInv, pc \in {"critique", "repair"}, Continues,
         UNCHANGED <<task, critic, remaining, mode, results>>,
         candidates' \in Seq(Candidate),
         \A j \in DOMAIN candidates' : Scored(candidates'[j]),
         repairs' \in 0 .. MaxRepairAttempts,
         DoneBefore(candidates', index + 1), repairs' = Begun(candidates', index + 1)
  PROVE  BoosterInv'
<1>1. /\ index \in 1 .. MaxCandidates /\ mode # "baseline"
      /\ index' = index + 1
      /\ pc' = IF index < MaxCandidates THEN "critique" ELSE "select"
  BY DEF BoosterInv, BoosterTypeOK, PlaceInv, Continues
<1>2. BoosterTypeOK'
  BY <1>1 DEF BoosterInv, BoosterTypeOK
<1>3. DoneBefore(candidates, index)' /\ (repairs = Begun(candidates, index))'
  BY <1>1 DEF DoneBefore, Begun, RepairsIn, GetsRepair, WeakBefore, WeakIn
<1>4. PlaceInv'
  <2>1. \/ pc' = "critique" /\ index' <= MaxCandidates
        \/ pc' = "select" /\ index' = MaxCandidates + 1
    BY <1>1
  <2> QED
    BY <1>1, <1>3, <2>1 DEF PlaceInv
<1> QED
  BY <1>2, <1>4, KeepsResults

LEMMA CritiquesInv == ASSUME BoosterInv, Critiques PROVE BoosterInv'
<1>1. /\ pc = "critique" /\ UNCHANGED <<task, critic, remaining, mode, results>>
      /\ candidates' = [candidates EXCEPT ![index] = [@ EXCEPT !.critiqued = TRUE]]
      /\ \/ /\ Weak /\ repairs < MaxRepairAttempts
            /\ repairs' = repairs + 1 /\ pc' = "repair" /\ index' = index
         \/ /\ ~ Weak \/ repairs >= MaxRepairAttempts
            /\ Continues /\ repairs' = repairs
  BY DEF Critiques
<1>2. PICK n \in Nat : /\ candidates \in Seq(Candidate) /\ n = Len(candidates)
                       /\ DOMAIN candidates = 1 .. n
  BY DEF BoosterInv, BoosterTypeOK
<1>3. /\ mode # "baseline" /\ index \in 1 .. MaxCandidates
      /\ DoneBefore(candidates, index) /\ repairs = Begun(candidates, index)
      /\ repairs \in 0 .. MaxRepairAttempts
      /\ n >= MaxCandidates /\ index \in 1 .. n
  BY <1>1, <1>2 DEF BoosterInv, BoosterTypeOK, PlaceInv, DoneBefore
<1>4. PICK c \in Candidate :
        /\ c = [candidates[index] EXCEPT !.critiqued = TRUE]
        /\ c.critiqued = TRUE /\ c.repairOf = candidates[index].repairOf
        /\ c.score = candidates[index].score /\ c.verified = candidates[index].verified
        /\ c.text = candidates[index].text
  <2>1. PICK d \in Candidate : d = candidates[index]
    BY <1>2, <1>3
  <2>2. [d EXCEPT !.critiqued = TRUE] \in Candidate
    BY DEF Candidate
  <2>3. PICK c \in Candidate : c = [d EXCEPT !.critiqued = TRUE]
    BY <2>2
  <2>4. /\ c.critiqued = TRUE /\ c.repairOf = d.repairOf /\ c.score = d.score
        /\ c.verified = d.verified /\ c.text = d.text
    BY <2>3 DEF Candidate
  <2> QED
    BY <2>1, <2>3, <2>4
<1>5. /\ candidates' \in Seq(Candidate) /\ DOMAIN candidates' = 1 .. n
      /\ Len(candidates') = n /\ candidates'[index] = c
      /\ \A j \in 1 .. n : j # index => candidates'[j] = candidates[j]
  <2>1. candidates' = [candidates EXCEPT ![index] = c]
    BY <1>1, <1>4
  <2> QED
    BY <1>2, <1>3, <2>1
<1>6. \A j \in DOMAIN candidates' : Scored(candidates'[j])
  BY <1>2, <1>3, <1>4, <1>5 DEF BoosterInv, ScoredInv, Scored
<1>7. /\ WeakIn(candidates') = WeakIn(candidates)
      /\ \A i : /\ WeakBefore(candidates', i) = WeakBefore(candidates, i)
                /\ GetsRepair(candidates', i) <=> GetsRepair(candidates, i)
                /\ Begun(candidates', i) = Begun(candidates, i)
  <2>1. \A j \in 1 .. MaxCandidates : candidates'[j].score = candidates[j].score
    <3> SUFFICES ASSUME NEW j \in 1 .. MaxCandidates
                 PROVE  candidates'[j].score = candidates[j].score
      OBVIOUS
    <3>1. j \in 1 .. n
      BY <1>3
    <3> QED
      BY <1>4, <1>5, <3>1
  <2> QED
    BY <2>1, SameWeak
<1>8. \A i : RepairsIn(candidates', i) = RepairsIn(candidates, i)
  <2>1. \A j \in 1 .. n : candidates'[j].repairOf = candidates[j].repairOf
    BY <1>4, <1>5
  <2> QED
    BY <1>2, <1>5, <2>1 DEF RepairsIn
<1>9. \A j \in 1 .. n :
        IF j <= MaxCandidates THEN candidates'[j].repairOf = 0
                                   /\ (j <= index => candidates'[j].critiqued)
        ELSE candidates'[j].repairOf \in 1 .. index - 1 /\ candidates'[j].critiqued
  <2> SUFFICES ASSUME NEW j \in 1 .. n
               PROVE  IF j <= MaxCandidates
                        THEN candidates'[j].repairOf = 0
                             /\ (j <= index => candidates'[j].critiqued)
                        ELSE /\ candidates'[j].repairOf \in 1 .. index - 1
                             /\ candidates'[j].critiqued
    OBVIOUS
  <2>1. IF j <= MaxCandidates
          THEN candidates[j].repairOf = 0 /\ (j < index => candidates[j].critiqued)
          ELSE candidates[j].repairOf \in 1 .. index - 1 /\ candidates[j].critiqued
    BY <1>2, <1>3 DEF DoneBefore
  <2>2. CASE j = index
    BY <1>3, <1>4, <1>5, <2>1, <2>2
  <2>3. CASE j # index
    BY <1>3, <1>5, <2>1, <2>3
  <2> QED
    BY <2>2, <2>3
<1>10. \A j \in 1 .. index - 1 :
         Cardinality(RepairsIn(candidates', j)) = IF GetsRepair(candidates', j) THEN 1 ELSE 0
  BY <1>3, <1>7, <1>8 DEF DoneBefore
<1>11. Weak <=> index \in WeakIn(candidates)
  BY <1>3 DEF Weak, WeakIn
<1>12. CASE Weak /\ repairs < MaxRepairAttempts /\ repairs' = repairs + 1 /\ pc' = "repair"
            /\ index' = index
  <2>1. /\ GetsRepair(candidates, index)
        /\ repairs = Cardinality(WeakBefore(candidates, index))
    BY <1>3, <1>11, <1>12, WeakIsFinite DEF GetsRepair, Begun
  <2>2. BoosterTypeOK'
    BY <1>1, <1>3, <1>5, <1>12 DEF BoosterInv, BoosterTypeOK
  <2>3. DoneBefore(candidates', index)
    BY <1>3, <1>5, <1>9, <1>10 DEF DoneBefore
  <2>4. /\ GetsRepair(candidates', index) /\ candidates'[index].critiqued
        /\ repairs' = Cardinality(WeakBefore(candidates', index)) + 1
    BY <1>4, <1>5, <1>7, <1>12, <2>1
  <2>5. /\ DoneBefore(candidates, index)' /\ GetsRepair(candidates, index)'
        /\ (candidates[index].critiqued)'
        /\ (repairs = Cardinality(WeakBefore(candidates, index)) + 1)'
    BY <1>12, <2>3, <2>4 DEF DoneBefore, RepairsIn, GetsRepair, WeakBefore, WeakIn
  <2>6. PlaceInv'
    BY <1>1, <1>3, <1>12, <2>5 DEF PlaceInv
  <2> QED
    BY <1>1, <1>6, <2>2, <2>6, KeepsResults
<1>13. CASE (~ Weak \/ repairs >= MaxRepairAttempts) /\ Continues /\ repairs' = repairs
  <2>1. ~ GetsRepair(candidates, index)
    BY <1>3, <1>11, <1>13, WeakIsFinite DEF GetsRepair, Begun
  <2>2. repairs' = Begun(candidates', index + 1)
    BY <1>3, <1>7, <1>13, <2>1, BegunNext
  <2>3. RepairsIn(candidates', index) = {}
    BY <1>3, <1>5, <1>9 DEF RepairsIn
  <2>4. Cardinality(RepairsIn(candidates', index)) =
          IF GetsRepair(candidates', index) THEN 1 ELSE 0
    BY <1>7, <2>1, <2>3, FS_EmptySet
  <2>5. \A j \in 1 .. index : j \in 1 .. index - 1 \/ j = index
    BY <1>3
  <2>6. DoneBefore(candidates', index + 1)
    BY <1>3, <1>5, <1>9, <1>10, <2>4, <2>5, Advances
  <2> QED
    BY <1>1, <1>3, <1>5, <1>6, <1>13, <2>2, <2>6, ContinuesInv
<1> QED
  BY <1>1, <1>12, <1>13

LEMMA RepairsInv ==
  ASSUME BoosterInv, NEW text \in Texts, NEW score \in Scores(text), Repairs(text, score)
  PROVE  BoosterInv'
<1>1. /\ pc = "repair" /\ Answered(text, score, index) /\ Continues
      /\ UNCHANGED <<task, critic, remaining, mode, repairs, results>>
  BY DEF Repairs
<1>2. /\ mode # "baseline" /\ index \in 1 .. MaxCandidates
      /\ DoneBefore(candidates, index) /\ GetsRepair(candidates, index)
      /\ candidates[index].critiqued
      /\ repairs = Cardinality(WeakBefore(candidates, index)) + 1
      /\ repairs \in 0 .. MaxRepairAttempts
  BY <1>1 DEF BoosterInv, BoosterTypeOK, PlaceInv
<1>3. PICK n \in Nat :
        /\ n = Len(candidates) /\ DOMAIN candidates = 1 .. n
        /\ candidates' \in Seq(Candidate) /\ Len(candidates') = n + 1
        /\ DOMAIN candidates' = 1 .. n + 1
        /\ candidates'[n + 1].repairOf = index /\ candidates'[n + 1].critiqued
        /\ \A j \in 1 .. n : candidates'[j] = candidates[j]
        /\ \A j \in DOMAIN candidates' : Scored(candidates'[j])
  <2>1. index \in Nat /\ index # 0
    BY <1>2
  <2> QED
    BY <1>1, <2>1, AnswerAdded
<1>4. n >= MaxCandidates /\ index \in 1 .. n
  BY <1>2, <1>3 DEF DoneBefore
<1>5. /\ WeakIn(candidates') = WeakIn(candidates)
      /\ \A i : /\ WeakBefore(candidates', i) = WeakBefore(candidates, i)
                /\ GetsRepair(candidates', i) <=> GetsRepair(candidates, i)
                /\ Begun(candidates', i) = Begun(candidates, i)
  <2>1. \A j \in 1 .. MaxCandidates : candidates'[j].score = candidates[j].score
    BY <1>3, <1>4
  <2> QED
    BY <2>1, SameWeak
<1>6. \A j \in 1 .. n :
        IF j <= MaxCandidates
          THEN candidates[j].repairOf = 0 /\ (j < index => candidates[j].critiqued)
          ELSE candidates[j].repairOf \in 1 .. index - 1 /\ candidates[j].critiqued
  BY <1>2, <1>3 DEF DoneBefore
<1>7. RepairsIn(candidates', index) = {n + 1}
  <2>1. \A j \in 1 .. n : candidates'[j].repairOf # index
    BY <1>2, <1>3, <1>6
  <2> QED
    BY <1>3, <2>1 DEF RepairsIn
<1>8. \A j : j # index => RepairsIn(candidates', j) = RepairsIn(candidates, j)
  BY <1>3 DEF RepairsIn
<1>9. \A j \in 1 .. index :
        Cardinality(RepairsIn(candidates', j)) = IF GetsRepair(candidates', j) THEN 1 ELSE 0
  <2> SUFFICES ASSUME NEW j \in 1 .. index
               PROVE  Cardinality(RepairsIn(candidates', j)) =
                        IF GetsRepair(candidates', j) THEN 1 ELSE 0
    OBVIOUS
  <2>1. CASE j = index
    BY <1>2, <1>5, <1>7, <2>1, FS_Singleton
  <2>2. CASE j # index
    <3>1. j \in 1 .. index - 1
      BY <1>2, <2>2
    <3> QED
      BY <1>2, <1>5, <1>8, <2>2, <3>1 DEF DoneBefore
  <2> QED
    BY <2>1, <2>2
<1>10. \A j \in 1 .. n + 1 :
         IF j <= MaxCandidates
           THEN candidates'[j].repairOf = 0 /\ (j <= index => candidates'[j].critiqued)
           ELSE candidates'[j].repairOf \in 1 .. index /\ candidates'[j].critiqued
  <2> SUFFICES ASSUME NEW j \in 1 .. n + 1
               PROVE  IF j <= MaxCandidates
                        THEN /\ candidates'[j].repairOf = 0
                             /\ j <= index => candidates'[j].critiqued
                        ELSE /\ candidates'[j].repairOf \in 1 .. index
                             /\ candidates'[j].critiqued
    OBVIOUS
  <2>1. CASE j = n + 1
    BY <1>2, <1>3, <1>4, <2>1
  <2>2. CASE j \in 1 .. n /\ j = index
    BY <1>2, <1>3, <1>6, <2>2
  <2>3. CASE j \in 1 .. n /\ j # index
    BY <1>2, <1>3, <1>6, <2>3
  <2> QED
    BY <2>1, <2>2, <2>3
<1>11. DoneBefore(candidates', index + 1)
  <2>1. candidates' \in Seq(Candidate) /\ Len(candidates') >= MaxCandidates
    BY <1>3, <1>4
  <2>2. DOMAIN candidates' = 1 .. n + 1
    BY <1>3
  <2>3. \A j \in DOMAIN candidates' :
          IF j <= MaxCandidates
          THEN candidates'[j].repairOf = 0 /\ (j <= index => candidates'[j].critiqued)
          ELSE candidates'[j].repairOf \in 1 .. index /\ candidates'[j].critiqued
    BY <1>10, <2>2
  <2> QED
    BY <1>2, <1>9, <2>1, <2>3, Advances
<1>12. repairs' = Begun(candidates', index + 1)
  BY <1>1, <1>2, <1>5, BegunNext
<1>13. repairs' \in 0 .. MaxRepairAttempts
  BY <1>1, <1>2
<1> QED
  BY <1>1, <1>3, <1>11, <1>12, <1>13, ContinuesInv

(* The best answer is a verified one if there is any.                      *)
LEMMA SelectsInv == ASSUME BoosterInv, Selects PROVE BoosterInv'
<1>1. PICK i \in DOMAIN candidates :
        /\ Best(i)
        /\ SolveReturns([mode |-> mode, output |-> candidates[i].text,
                         score |-> candidates[i].score,
                         passed |-> candidates[i].verified, error |-> FALSE,
                         candidates |-> candidates])
  BY DEF Selects
<1>2. /\ pc = "select" /\ UNCHANGED candidates
      /\ candidates \in Seq(Candidate) /\ task \in Task /\ mode \in Modes
      /\ pc = "select" /\ mode # "baseline" =>
           DoneBefore(candidates, MaxCandidates + 1)
  BY DEF Selects, BoosterInv, BoosterTypeOK, PlaceInv
<1>3. PICK c \in Candidate : c = candidates[i]
  BY <1>2
<1>4. PICK r : r = [mode |-> mode, output |-> c.text, score |-> c.score,
                    passed |-> c.verified, error |-> FALSE, candidates |-> candidates]
  OBVIOUS
<1>5. r \in Result
  BY <1>2, <1>4 DEF Candidate, Result
<1>6. /\ r.mode = mode /\ r.output = c.text /\ (r.passed <=> c.verified)
      /\ r.error = FALSE /\ r.candidates = candidates
  BY <1>4
<1>7. SolveReturns(r)
  BY <1>1, <1>3, <1>4
<1>8. ScoredResult(r)
  BY <1>6 DEF ScoredResult, BoosterInv, ScoredInv
<1>9. SelectsVerified(r)
  <2>1. i \in DOMAIN r.candidates /\ r.candidates[i].text = r.output
    BY <1>3, <1>6
  <2>2. r.passed => i \in Verified(r)
    BY <1>3, <1>6, <2>1 DEF Verified
  <2>3. ASSUME NEW j \in Verified(r), ~ c.verified PROVE FALSE
    <3>1. j \in DOMAIN candidates /\ candidates[j].verified
      BY <1>6, <2>3 DEF Verified
    <3>2. PICK d \in Candidate : d = candidates[j]
      BY <1>2, <3>1
    <3>3. d.score <= c.score
      BY <1>1, <1>3, <3>1, <3>2 DEF Best
    <3>4. Scored(c) /\ Scored(d)
      BY <1>3, <3>1, <3>2 DEF BoosterInv, ScoredInv
    <3>5. c.score < d.score
      BY <1>2, <2>3, <3>1, <3>2, <3>4, VerifiedIsHigher
    <3>6. c.score \in Nat /\ d.score \in Nat
      BY DEF Candidate
    <3> QED
      BY <3>3, <3>5, <3>6
  <2>4. r.passed <=> Verified(r) # {}
    BY <1>6, <2>2, <2>3
  <2> QED
    BY <2>1, <2>2, <2>4 DEF SelectsVerified
<1>10. RepairsFirstWeak(r)
  <2>1. CASE mode = "baseline"
    BY <1>6, <2>1 DEF RepairsFirstWeak
  <2>2. CASE mode # "baseline"
    BY <1>2, <1>5, <1>6, <2>2, AllAreDone
  <2> QED
    BY <2>1, <2>2
<1> QED
  BY <1>2, <1>5, <1>7, <1>8, <1>9, <1>10, ReturnsInv

-----------------------------------------------------------------------------
LEMMA BoosterNextInv == ASSUME BoosterInv, [BoosterNext]_boosterVars PROVE BoosterInv'
<1>1. ASSUME Stopped \/ Fails \/ \E text \in Texts : ScoringFails(text)
      PROVE  BoosterInv'
  BY <1>1, FailureInv DEF Stopped, Fails, ScoringFails
<1>2. ASSUME NEW text \in Texts, NEW score \in Scores(text),
             Generates(text, score) \/ Repairs(text, score)
      PROVE  BoosterInv'
  BY <1>2, GeneratesInv, RepairsInv
<1>3. ASSUME UNCHANGED boosterVars PROVE BoosterInv'
  <2>1. BoosterTypeOK'
    BY <1>3 DEF boosterVars, BoosterInv, BoosterTypeOK
  <2>2. PlaceInv'
    BY <1>3 DEF boosterVars, BoosterInv, PlaceInv, DoneBefore, Begun, RepairsIn, GetsRepair,
                WeakBefore, WeakIn
  <2>3. \A i \in DOMAIN candidates' : Scored(candidates'[i])
    BY <1>3 DEF boosterVars, BoosterInv, ScoredInv
  <2> QED
    BY <1>3, <2>1, <2>2, <2>3, KeepsResults DEF boosterVars
<1> QED
  BY <1>1, <1>2, <1>3, BeginsModeInv, CritiquesInv, SelectsInv DEF BoosterNext

LEMMA BoosterAlways == BoosterSpec => []BoosterInv
BY BoosterInitInv, BoosterNextInv, PTL DEF BoosterSpec

(***************************************************************************)
(* The answer a solve gives is verified exactly when one of its candidates *)
(* was (BoosterEngine.solve), for any tasks, texts and verdicts.           *)
(***************************************************************************)
THEOREM SelectionsAreVerified == BoosterSpec => []SelectionIsVerified
<1>1. BoosterInv => SelectionIsVerified
  BY DEF BoosterInv
<1> QED
  BY <1>1, BoosterAlways, PTL

(***************************************************************************)
(* Repairs go to the first weak candidates, one each, as many as allowed,  *)
(* and every candidate is criticised, for any numbers of both.             *)
(***************************************************************************)
THEOREM RepairsGoToTheFirstWeak == BoosterSpec => []FirstWeakAreRepaired
<1>1. BoosterInv => FirstWeakAreRepaired
  BY DEF BoosterInv
<1> QED
  BY <1>1, BoosterAlways, PTL

=============================================================================
