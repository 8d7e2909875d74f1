------------------------------ MODULE Ordered ------------------------------
(***************************************************************************)
(* The members of a finite set of numbers as a sequence.                   *)
(***************************************************************************)
EXTENDS Naturals, FiniteSets

\* The smaller ones first.
InOrder(S) ==
    CHOOSE s \in [1..Cardinality(S) -> S] : \A i, j \in 1..Cardinality(S) : i < j => s[i] < s[j]
=============================================================================
