--------------------------- MODULE MCDiagnosticsFlow ---------------------------
(***************************************************************************)
(* DiagnosticsFlow on small instances for TLC.  Requests are told apart:   *)
(* the runs check liveness.                                                *)
(***************************************************************************)
EXTENDS DiagnosticsFlow
=============================================================================
