------------------------------ MODULE TestCase ------------------------------
(***************************************************************************)
(* What run_target promises its callers, without pipes, sockets, signals   *)
(* or turns: a test case begins, gets one child, the child meets one fate, *)
(* and the report names that fate.  A child is killed only for having run  *)
(* out of time, or because the fuzzer is stopping.                         *)
(***************************************************************************)

VARIABLES
  phase,      \* "idle" or "running"
  fate,       \* of the current child
  expired,    \* the time of this test case is over
  stopping,
  report      \* of the last test case

vars == <<phase, fate, expired, stopping, report>>

Fates == {"EXIT", "SEGV", "KILL", "TERM"}

Outcome(f) ==
  CASE f = "KILL" -> "FAULT_TMOUT"
    [] f = "SEGV" -> "FAULT_CRASH"
    [] OTHER      -> "FAULT_NONE"

Init ==
  /\ phase = "idle"
  /\ fate = "NONE"
  /\ expired = FALSE
  /\ stopping = FALSE
  /\ report = "FAULT_NONE"

Begin ==
  /\ phase = "idle"
  /\ ~stopping
  /\ phase' = "running"
  /\ fate' = "NONE"
  /\ expired' = FALSE
  /\ UNCHANGED <<stopping, report>>

Spawn ==
  /\ phase = "running"
  /\ fate = "NONE"
  /\ fate' = "ALIVE"
  /\ UNCHANGED <<phase, expired, stopping, report>>

Expire ==
  /\ phase = "running" \/ stopping
  /\ expired' = TRUE
  /\ UNCHANGED <<phase, fate, stopping, report>>

End ==
  /\ fate = "ALIVE"
  /\ \E f \in Fates :
       /\ f = "KILL" => expired \/ stopping
       /\ fate' = f
  /\ UNCHANGED <<phase, expired, stopping, report>>

Stop ==
  /\ stopping' = TRUE
  /\ UNCHANGED <<phase, fate, expired, report>>

Report ==
  /\ phase = "running"
  /\ fate # "ALIVE"
  /\ stopping \/ fate \in Fates
  /\ phase' = "idle"
  /\ report' = IF stopping THEN "FAULT_NONE" ELSE Outcome(fate)
  /\ UNCHANGED <<fate, expired, stopping>>

Next == Begin \/ Spawn \/ Expire \/ End \/ Stop \/ Report

Spec == Init /\ [][Next]_vars
=============================================================================
