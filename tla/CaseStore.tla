----------------------------- MODULE CaseStore -----------------------------
(***************************************************************************)
(* What an output directory promises over the sessions that use it: test   *)
(* cases are appended and keep their order; a session may end at any point *)
(* and another take over, and neither changes what is stored.              *)
(***************************************************************************)
EXTENDS Sequences

CONSTANT Case  \* the test cases there can be

VARIABLES
    cases,   \* the cases stored, in the order of their files
    up       \* is a session running?

Init == cases \in Seq(Case) /\ up = TRUE

Store ==
    /\ up
    /\ \E c \in Case : cases' = Append(cases, c)
    /\ up' = up

Crash ==
    /\ up' = FALSE
    /\ UNCHANGED cases

Restart ==
    /\ ~up
    /\ up' = TRUE
    /\ UNCHANGED cases

Next == Store \/ Crash \/ Restart

Spec == Init /\ [][Next]_<<cases, up>>
=============================================================================
