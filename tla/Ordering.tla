------------------------------ MODULE Ordering ------------------------------
(***************************************************************************)
(* The members of a set of integers in ascending order, by their ranks     *)
(* (sorted() of a set, and what keeps the order of a list).                *)
(***************************************************************************)
EXTENDS Integers, FiniteSets

Ascending(S) ==
    [k \in 1..Cardinality(S) |->
        CHOOSE x \in S : Cardinality({y \in S : y < x}) = k - 1]
=============================================================================
