---------------------------- MODULE MCLogCollector ----------------------------
(***************************************************************************)
(* LogCollector on small instances for TLC: the array holds 3 entries and  *)
(* loses 2 when it overflows, so that a run of MaxLogged entries trims     *)
(* twice.                                                                  *)
(***************************************************************************)
EXTENDS LogCollector, TLC

\* Callers are interchangeable in the safety properties.
Symmetry == Permutations(Threads)
=============================================================================
