------------------------------ MODULE MCGraph -------------------------------
(***************************************************************************)
(* Three nodes, inserted in any order.  The edges allow a chain, a cycle   *)
(* of two and of three nodes, a second way to the last node of a chain,    *)
(* and two parallel edges.                                                 *)
(***************************************************************************)
EXTENDS GraphExecutor

CONSTANTS n1, n2, n3, l1, l2

From(source, target, label) ==
  [source |-> source, target |-> target, label |-> label]

MCEdges == {From(n1, n2, l1), From(n1, n2, l2), From(n2, n3, l1),
            From(n3, n1, l1), From(n2, n1, l1), From(n1, n3, l1)}
=============================================================================
