----------------------------- MODULE MCSnapRun -----------------------------
(***************************************************************************)
(* Environments in which TLC runs SnapRun.                                 *)
(***************************************************************************)
EXTENDS SnapRun

\* The server answers in time, though it may exit or crash at any point, and
\* the socket may refuse a request.
Punctual == {"crash", "sendfail"}

\* Everything the code handles.
Adverse == AllFaults
=============================================================================
