------------------------------ MODULE MC_Boot ------------------------------
(***************************************************************************)
(* Instances of Boot for TLC: the debug UART, another UART of the same     *)
(* kind that the tree may name first, and the one of RP1.                  *)
(***************************************************************************)
EXTENDS Boot

CONSTANTS debug, other, rp1

Clocks == [u \in Uarts |-> IF u = rp1 THEN 48000000 ELSE 44000000]
Used   == {115200}

(* Nothing, one PL011, or two of them in either order.                     *)
Trees == {<<>>, <<debug>>, <<other>>, <<debug, other>>, <<other, debug>>}
=============================================================================
