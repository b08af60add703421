---------------------------- MODULE MCZephyrTls ----------------------------
(* Small instances of the TLS table. *)
EXTENDS ZephyrTls, TLC

ThreadSymmetry == Permutations(Threads) \cup Permutations(Values)
=============================================================================
