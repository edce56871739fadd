--------------------------------- MODULE Order ----------------------------------
(***************************************************************************)
(* Sorting, as sort.Slice and ORDER BY do it by keys of which no two are   *)
(* alike: the order is the set of pairs whose first comes before the       *)
(* second, and everything gets the place that as many leave it.            *)
(***************************************************************************)
EXTENDS Naturals, FiniteSets

Preceding(S, x, order) == {y \in S : <<y, x>> \in order}

Arranged(S, order) ==
  [k \in 1 .. Cardinality(S) |->
     CHOOSE x \in S : Cardinality(Preceding(S, x, order)) = k - 1]
===============================================================================
