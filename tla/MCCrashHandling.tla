--------------------------- MODULE MCCrashHandling ---------------------------
(* CrashHandling with the application's threads as model values.               *)
EXTENDS CrashHandling
=============================================================================
