--------------------------------- MODULE Places ---------------------------------
(***************************************************************************)
(* The numbers of a set in their order, and the elements of a list that    *)
(* stand at some places.                                                   *)
(***************************************************************************)
EXTENDS Naturals, FiniteSets

Rank(S, i) == Cardinality({j \in S : j <= i})

\* The smallest first.
InOrder(S) == [n \in 1..Cardinality(S) |-> CHOOSE i \in S : Rank(S, i) = n]

Taking(list, places) == [n \in 1..Cardinality(places) |-> list[InOrder(places)[n]]]
================================================================================
