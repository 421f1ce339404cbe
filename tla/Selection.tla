----------------------------- MODULE Selection ------------------------------
(***************************************************************************)
(* The elements of a sequence at some of its places, in their order: what  *)
(* a list comprehension with a condition makes of a list.                  *)
(***************************************************************************)
EXTENDS Naturals, Sequences, FiniteSets

Rank(places, i) == Cardinality({j \in places : j <= i})

Nth(places, k) == CHOOSE i \in places : Rank(places, i) = k

Selected(s, places) ==
  [k \in 1 .. Cardinality(places) |-> s[Nth(places, k)]]
=============================================================================
