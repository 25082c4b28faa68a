------------------------------- MODULE Sorting -------------------------------
(***************************************************************************)
(* A sequence sorted by a relation, the set of pairs <<a, b>> where a      *)
(* comes before b; elements that the relation does not order stay in       *)
(* their order (SortSeq, without an operator for an argument).             *)
(***************************************************************************)
EXTENDS Integers, Sequences, FiniteSets

\* The places whose elements come before the one at place i.
Ahead(s, less, i) ==
    {j \in DOMAIN s : <<s[j], s[i]>> \in less \/ (j < i /\ <<s[i], s[j]>> \notin less)}

Sorted(s, less) ==
    [k \in DOMAIN s |-> s[CHOOSE i \in DOMAIN s : Cardinality(Ahead(s, less, i)) = k - 1]]
=============================================================================
