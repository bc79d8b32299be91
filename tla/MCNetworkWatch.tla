---------------------------- MODULE MCNetworkWatch ----------------------------
(***************************************************************************)
(* NetworkWatch on small instances for TLC.  A change is told apart by its *)
(* number; one status is enough.                                           *)
(***************************************************************************)
EXTENDS NetworkWatch
=============================================================================
