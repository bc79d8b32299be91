----------------------- MODULE MCDiagnosticBundleBuilder -----------------------
(***************************************************************************)
(* DiagnosticBundleBuilder on small instances for TLC: one build, every    *)
(* fault of its environment.                                               *)
(***************************************************************************)
EXTENDS DiagnosticBundleBuilder
=============================================================================
