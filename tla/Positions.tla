------------------------------ MODULE Positions ------------------------------
(* Positions in a sequence, and what is left of a sequence at some of them. *)
EXTENDS Naturals, FiniteSets

\* The position in S with k - 1 others before it.
Nth(S, k) == CHOOSE i \in S : Cardinality({j \in S : j <= i}) = k

\* The elements of s at the positions S, in their order.
Picked(s, S) == [k \in 1 .. Cardinality(S) |-> s[Nth(S, k)]]
=============================================================================
