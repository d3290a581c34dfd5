------------------------------ MODULE MC_Host ------------------------------
(***************************************************************************)
(* Instances of Host for TLC.                                              *)
(***************************************************************************)
EXTENDS Host

(* Members of Cargo.toml; xtask leaves itself out.                         *)
Workspace == <<"alloc", "rpi5_baremetal_hello", "dtb", "mutex">>
=============================================================================
