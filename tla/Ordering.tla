------------------------------ MODULE Ordering ------------------------------
(* Sets of numbers as ascending lists: what a sort of keys, or a filter of the *)
(* indexes of an array, returns.                                               *)
EXTENDS Naturals, FiniteSets

Ascending(s) == \A i, j \in DOMAIN s : i < j => s[i] < s[j]

\* The members of a finite set of numbers, each once.
Sorted(S) == CHOOSE s \in [1..Cardinality(S) -> S] : Ascending(s)

\* list.filter: what a list has at some of its places.
PickAt(list, places) == LET order == Sorted(places) IN [n \in DOMAIN order |-> list[order[n]]]
=============================================================================
