------------------------------- MODULE Lists -------------------------------
(***************************************************************************)
(* What is left of a list: the elements at the positions of a set, in      *)
(* their order.  A filter of the code is Picked at the positions that pass *)
(* its condition.                                                          *)
(***************************************************************************)
EXTENDS Integers, Sequences, FiniteSets

Nth(P, k) == CHOOSE i \in P : Cardinality({j \in P : j <= i}) = k
Picked(s, P) == [k \in 1 .. Cardinality(P) |-> s[Nth(P, k)]]
=============================================================================
