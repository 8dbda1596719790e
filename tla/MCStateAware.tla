---------------------------- MODULE MCStateAware ----------------------------
(* Hash functions for the model checker. *)
EXTENDS StateAware

\* No two sequences collide.
Injective(s) == s

\* The sequences with two states behind the initial one collide.
Colliding(s) == IF Len(s) = 3 THEN <<1>> ELSE s
=============================================================================
