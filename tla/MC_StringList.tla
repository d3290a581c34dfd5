--------------------------- MODULE MC_StringList ---------------------------
(***************************************************************************)
(* Instances of StringList for TLC.                                        *)
(***************************************************************************)
EXTENDS StringList

CONSTANTS a, b

(* A letter, a word, its beginning, and the empty name.                    *)
Sought == {<<>>, <<a>>, <<a, b>>}
=============================================================================
