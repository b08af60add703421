----------------------------- MODULE MCGrpLock -----------------------------
(* Small instances of the group lock. *)
EXTENDS GrpLock, TLC

ThreadSymmetry == Permutations(Threads)
=============================================================================
