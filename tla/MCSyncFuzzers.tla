--------------------------- MODULE MCSyncFuzzers ---------------------------
(* Two cases besides the initial one.  They overlap, so that the second adds *)
(* something to the first and the first nothing to both.  The first may be   *)
(* sent without a message, the second may time out.                          *)
EXTENDS SyncFuzzers

CONSTANTS F1, F2

CasesDef == {{1}, {1, 2}, {1, 2, 3}}
FirstDef == {1}
CrashesDef == [f \in Fuzzer |-> IF f = F1 THEN 2 ELSE 0]
SavedDef == [f \in Fuzzer |-> IF f = F1 THEN 3 ELSE 1]
AtWorkDef == [f \in Fuzzer |-> IF f = F1 THEN 1 ELSE 0]
FlakyDef == [f \in Fuzzer |-> IF f = F1 THEN {{1, 2, 3}} ELSE {}]
MuteDef == [f \in Fuzzer |-> IF f = F1 THEN {{1, 2}} ELSE {}]
=============================================================================
