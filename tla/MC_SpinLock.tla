----------------------------- MODULE MC_SpinLock -----------------------------
(***************************************************************************)
(* Instances of SpinLock for TLC.  All threads are alike.                  *)
(***************************************************************************)
EXTENDS SpinLock, TLC

Symmetry == Permutations(Threads)
==============================================================================
