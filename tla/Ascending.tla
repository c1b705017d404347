------------------------------ MODULE Ascending ------------------------------
(***************************************************************************)
(* The order in which a listing comes: what a service or a directory lists *)
(* has a place among all there may be, and places come in ascending order. *)
(***************************************************************************)
EXTENDS Integers, FiniteSets

\* How many of S come before x.
Rank(S, x) == Cardinality({y \in S : y < x})

\* The places in S, one after the other.
InOrder(S) == [k \in 1..Cardinality(S) |-> CHOOSE x \in S : Rank(S, x) = k - 1]
=============================================================================
