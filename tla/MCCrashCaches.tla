---------------------------- MODULE MCCrashCaches ----------------------------
(* CrashCaches with threads and addresses as model values; neither the threads *)
(* nor the addresses are told apart, and no run checks liveness.               *)
EXTENDS CrashCaches, TLC

CachesSymmetry == Permutations(Threads) \cup Permutations(Addresses)
=============================================================================
