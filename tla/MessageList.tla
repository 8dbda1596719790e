---------------------------- MODULE MessageList ----------------------------
(***************************************************************************)
(* What common_fuzz_stuff promises about the messages of a test case: the  *)
(* prefix M1 and the suffix M3 of the seed stay as they are, and M2, the   *)
(* part being mutated, becomes the whole of the mutated buffer, cut into   *)
(* at most Limit messages.                                                 *)
(***************************************************************************)
EXTENDS Naturals, Sequences, SequencesExt

CONSTANTS
    Buffers,   \* mutated buffers
    Limit      \* the most messages one buffer becomes

VARIABLES M1, M2, M3

vars == <<M1, M2, M3>>

Init == M1 = <<>> /\ M2 = <<>> /\ M3 = <<>>

\* A seed is cut into three.
Load == M2 = <<>> /\ M2' # <<>>

Mutate ==
    /\ M2 # <<>>
    /\ \E buf \in Buffers : FlattenSeq(M2') = buf
    /\ Len(M2') \in 1 .. Limit
    /\ UNCHANGED <<M1, M3>>

Drop == M1' = <<>> /\ M2' = <<>> /\ M3' = <<>>

Next == Load \/ Mutate \/ Drop

Spec == Init /\ [][Next]_vars
=============================================================================
