------------------------------ MODULE MC_RWLock ------------------------------
(***************************************************************************)
(* Instances of RWLock for TLC.                                            *)
(***************************************************************************)
EXTENDS RWLock, TLC

(* Threads that only read, and only write, are interchangeable.            *)
Symmetry == Permutations(Readers \ Writers) \cup Permutations(Writers \ Readers)
==============================================================================
