---------------------------- MODULE StringList ----------------------------
(***************************************************************************)
(* The reading of a compatible property in dtb/src/lib.rs: CharStringIter  *)
(* and the loop of parse_prop over it, byte by byte where DtbParser has a  *)
(* word for a string.  read_char_str knows nothing of the property's end:  *)
(* it reads to the next null byte of the blob, wherever that is.           *)
(***************************************************************************)
EXTENDS Integers, Sequences, FiniteSetsExt

CONSTANTS
  NUL, BAD,   \* the null byte; a byte no UTF-8 text has
  Letters,    \* the others
  Length,     \* of the longest property
  Names       \* the compatible_name that is searched for

ASSUME LengthIsNat   == Length \in Nat
ASSUME NulIsText     == NUL # BAD      \* the null byte is valid UTF-8

VARIABLES
  bytes,     \* the property's value and what follows it in the blob
  len,       \* its length
  name,      \* compatible_name
  pointer, remain_size,   \* the iterator
  found,     \* result in parse_prop
  outcome    \* "none" while the loop runs, then "ok" or "err"

vars == <<bytes, len, name, pointer, remain_size, found, outcome>>

(* read_char_str: to the first null byte at p or after it.                 *)
EndOf(p) == Min({q \in p .. Len(bytes) : bytes[q] = NUL})
Text(p)  == SubSeq(bytes, p, EndOf(p) - 1)
IsUtf8(s) == \A i \in DOMAIN s : s[i] # BAD

Init == /\ \E value \in [1 .. Length + 1 -> Letters \cup {NUL, BAD}] :
             bytes = Append(value, NUL)
        /\ len \in 0 .. Length
        /\ name \in Names
        /\ pointer = 1
        /\ remain_size = len
        /\ found = FALSE
        /\ outcome = "none"

Return(r) == outcome' = r

(* next() at the end of the list.                                          *)
EndList == /\ outcome = "none" /\ remain_size = 0
           /\ Return("ok")
           /\ UNCHANGED <<bytes, len, name, pointer, remain_size, found>>

(* X_Y is X with the plausible mistake Y in it, as everywhere here.        *)
NextString_Saturating ==
  /\ outcome = "none" /\ remain_size > 0
  /\ IF ~IsUtf8(Text(pointer))
       THEN Return("err") /\ UNCHANGED <<pointer, remain_size, found>>
       ELSE /\ remain_size' = Max({0, remain_size - Len(Text(pointer)) - 1})
            /\ pointer' = EndOf(pointer) + 1
            /\ found' = (found \/ Text(pointer) = name)
            /\ UNCHANGED outcome
  /\ UNCHANGED <<bytes, len, name>>

NextString_GoesOn ==
  /\ outcome = "none" /\ remain_size > 0
  /\ remain_size > Len(Text(pointer)) /\ IsUtf8(Text(pointer))
  /\ remain_size' = remain_size - Len(Text(pointer)) - 1
  /\ pointer' = EndOf(pointer) + 1
  /\ found' = (found \/ Text(pointer) = name)
  /\ UNCHANGED <<bytes, len, name, outcome>>

NextString_NoNull ==
  /\ outcome = "none" /\ remain_size > 0
  /\ IF ~IsUtf8(Text(pointer)) \/ remain_size < Len(Text(pointer))
       THEN Return("err") /\ UNCHANGED <<pointer, remain_size, found>>
       ELSE /\ remain_size' = remain_size - Len(Text(pointer))
            /\ pointer' = EndOf(pointer)
            /\ found' = (found \/ Text(pointer) = name)
            /\ UNCHANGED outcome
  /\ UNCHANGED <<bytes, len, name>>

(* next_internal and the body of the loop: an error leaves parse_prop; the *)
(* pointer has been moved before remain_size is checked.                   *)
NextString ==
  /\ outcome = "none" /\ remain_size > 0
  /\ LET str_size == Len(Text(pointer)) + 1
     IN  \/ /\ ~IsUtf8(Text(pointer))
            /\ Return("err")
            /\ UNCHANGED <<pointer, remain_size, found>>
         \/ /\ IsUtf8(Text(pointer)) /\ remain_size < str_size
            /\ pointer' = pointer + str_size
            /\ Return("err")
            /\ UNCHANGED <<remain_size, found>>
         \/ /\ IsUtf8(Text(pointer)) /\ remain_size >= str_size
            /\ pointer' = pointer + str_size
            /\ remain_size' = remain_size - str_size
            /\ found' = (found \/ Text(pointer) = name)
            /\ UNCHANGED outcome
  /\ UNCHANGED <<bytes, len, name>>

Done == outcome # "none" /\ UNCHANGED vars

Next == EndList \/ NextString \/ Done

Spec == Init /\ [][Next]_vars

LiveSpec == Spec /\ WF_vars(EndList \/ NextString)

-----------------------------------------------------------------------------
(* The strings of the value, by their starts: the first byte and each byte *)
(* after a null byte.                                                      *)
Starts == {p \in 1 .. len : p = 1 \/ bytes[p - 1] = NUL}

WellFormed == /\ len > 0 => bytes[len] = NUL
              /\ \A p \in 1 .. len : bytes[p] # BAD

(* Pointer and remaining size, which are moved apart, agree while the loop *)
(* runs: the pointer is at the start of a string of the value, or at its   *)
(* end, and never past it; what is left is what is counted.                *)
StaysInside == outcome = "none" =>
  /\ pointer \in Starts \cup {len + 1}
  /\ remain_size = len + 1 - pointer

(* A list in order is searched to the end and the name found exactly if it *)
(* is one of its strings (not a part of one, not in what follows); any     *)
(* other list is refused, even when the name was in it before the flaw.    *)
SplitsRight == outcome # "none" =>
  /\ outcome = "ok" <=> WellFormed
  /\ outcome = "ok" => found = (\E p \in Starts : Text(p) = name)

(* The list ends.                                                          *)
ListEnds == <>(outcome # "none")
=============================================================================
