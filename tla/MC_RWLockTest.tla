---------------------------- MODULE MC_RWLockTest ----------------------------
(***************************************************************************)
(* Instances of RWLockTest for TLC: two or three threads instead of 200.   *)
(***************************************************************************)
EXTENDS RWLockTest, TLC

Symmetry == Permutations(Readers) \cup Permutations(Writers)
==============================================================================
