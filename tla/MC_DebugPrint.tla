-------------------------- MODULE MC_DebugPrint ---------------------------
(***************************************************************************)
(* Instances of DebugPrint for TLC.                                        *)
(***************************************************************************)
EXTENDS DebugPrint

CONSTANTS t1, t2, t3, t4, t5
=============================================================================
