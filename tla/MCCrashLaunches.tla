--------------------------- MODULE MCCrashLaunches ---------------------------
(* CrashLaunches on a clock of four ticks and a store of one report.           *)
EXTENDS CrashLaunches
=============================================================================
