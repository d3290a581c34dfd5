-------------------------- MODULE StringListProofs --------------------------
(***************************************************************************)
(* Proofs about the reading of a list of strings, for every length, every  *)
(* alphabet and every name.                                                *)
(***************************************************************************)
EXTENDS StringList, FiniteSetTheorems, TLAPS

(* The blob has a null byte after the property, so that read_char_str ends.*)
Input == /\ bytes \in [1 .. Length + 2 -> Letters \cup {NUL, BAD}]
         /\ Len(bytes) = Length + 2
         /\ bytes[Length + 2] = NUL
         /\ len \in 0 .. Length

(* The iterator stands after a null byte of the value, or where it began,  *)
(* and has counted what it has passed.                                     *)
AtString == /\ pointer \in 1 .. len + 1
            /\ pointer = 1 \/ bytes[pointer - 1] = NUL
            /\ remain_size = len + 1 - pointer

(* What it has passed was text, and has been compared string by string.    *)
Passed == /\ \A p \in 1 .. pointer - 1 : bytes[p] # BAD
          /\ found \in BOOLEAN
          /\ found <=> \E p \in Starts : p < pointer /\ Text(p) = name

IInv == /\ Input
        /\ outcome \in {"none", "ok", "err"}
        /\ outcome = "none" => AtString /\ Passed
        /\ SplitsRight

-----------------------------------------------------------------------------
(* A set of naturals has a least element: the numbers below all of it      *)
(* would otherwise go on for ever, one after the other, up to any member.  *)
LEMMA Least ==
  ASSUME NEW S \in SUBSET Nat, NEW n \in S
  PROVE  \E m \in S : \A k \in S : m <= k
<1> SUFFICES ASSUME \A m \in S : \E k \in S : ~(m <= k) PROVE FALSE
  OBVIOUS
<1> DEFINE T == {k \in 0 .. n : \A j \in S : k <= j}
           f == [k \in T |-> k + 1]
<1>1. IsFiniteSet(T)
  <2>1. 0 \in Int /\ n \in Int
    OBVIOUS
  <2>2. IsFiniteSet(0 .. n)
    BY <2>1, FS_Interval, Zenon
  <2> QED
    BY <2>2, FS_Subset
<1>2. 0 \in T
  OBVIOUS
<1>3. ASSUME NEW k \in T PROVE k + 1 \in T \ {0}
  <2>1. k \notin S
    OBVIOUS
  <2>2. \A j \in S : k < j
    BY <2>1
  <2> QED
    BY <2>2
<1>4. f \in Injection(T, T \ {0})
  BY <1>3 DEF Injection, IsInjective
<1>5. IsFiniteSet(T \ {0}) /\ Cardinality(T \ {0}) = Cardinality(T) - 1
  BY <1>1, <1>2, FS_RemoveElement
<1> HIDE DEF T, f
<1>6. Cardinality(T) <= Cardinality(T \ {0}) /\ Cardinality(T) \in Nat
  BY <1>1, <1>4, <1>5, FS_Injection, FS_CardinalityType
<1> QED
  BY <1>5, <1>6

(* read_char_str finds the first null byte, and its text is what is before.*)
LEMMA EndOfString ==
  ASSUME Input, NEW p \in 1 .. Length + 2
  PROVE  /\ EndOf(p) \in p .. Length + 2
         /\ bytes[EndOf(p)] = NUL
         /\ \A q \in p .. EndOf(p) - 1 : bytes[q] # NUL
         /\ Len(Text(p)) = EndOf(p) - p
         /\ IsUtf8(Text(p)) <=> \A q \in p .. EndOf(p) - 1 : bytes[q] # BAD
<1> USE LengthIsNat
<1> DEFINE Q == {q \in p .. Len(bytes) : bytes[q] = NUL}
           e == EndOf(p)
<1>1. Q \in SUBSET Nat /\ Length + 2 \in Q
  BY DEF Input
<1>2. \E x \in Q : \A y \in Q : x <= y
  BY <1>1, Least
<1>3. e \in Q /\ \A y \in Q : e <= y
  BY <1>2 DEF EndOf, Min
<1>4. e \in p .. Length + 2 /\ bytes[e] = NUL
  BY <1>3 DEF Input
<1>5. ASSUME NEW q \in p .. e - 1 PROVE bytes[q] # NUL
  BY <1>3, <1>4, <1>5 DEF Input
<1> HIDE DEF e
<1>6. Text(p) = SubSeq(bytes, p, e - 1)
  BY DEF Text, e
<1>7. /\ Len(Text(p)) = e - p
      /\ DOMAIN Text(p) = 1 .. e - p
      /\ \A i \in 1 .. e - p : Text(p)[i] = bytes[p + i - 1]
  BY <1>4, <1>6 DEF Input
<1>8. IsUtf8(Text(p)) <=> \A q \in p .. e - 1 : bytes[q] # BAD
  <2>1. ASSUME IsUtf8(Text(p)), NEW q \in p .. e - 1 PROVE bytes[q] # BAD
    <3>1. q - p + 1 \in 1 .. e - p /\ p + (q - p + 1) - 1 = q
      BY <1>4
    <3> QED
      BY <1>7, <2>1, <3>1 DEF IsUtf8
  <2>2. ASSUME \A q \in p .. e - 1 : bytes[q] # BAD PROVE IsUtf8(Text(p))
    <3>1. ASSUME NEW i \in 1 .. e - p PROVE p + i - 1 \in p .. e - 1
      BY <1>4
    <3> QED
      BY <1>7, <2>2, <3>1 DEF IsUtf8
  <2> QED
    BY <2>1, <2>2
<1> QED
  BY <1>4, <1>5, <1>7, <1>8 DEF e

LEMMA InitInv == Init => IInv
<1> SUFFICES ASSUME Init PROVE IInv
  OBVIOUS
<1> USE LengthIsNat
<1>1. PICK value \in [1 .. Length + 1 -> Letters \cup {NUL, BAD}] :
        bytes = Append(value, NUL)
  BY DEF Init
<1>2. value \in Seq(Letters \cup {NUL, BAD}) /\ Len(value) = Length + 1
  BY <1>1
<1>3. /\ bytes \in Seq(Letters \cup {NUL, BAD})
      /\ Len(bytes) = Length + 2 /\ bytes[Length + 2] = NUL
  BY <1>1, <1>2
<1>4. bytes \in [1 .. Length + 2 -> Letters \cup {NUL, BAD}]
  BY <1>3
<1>5. /\ len \in 0 .. Length /\ pointer = 1 /\ remain_size = len
      /\ found = FALSE /\ outcome = "none"
  BY DEF Init
<1>6. Input
  BY <1>3, <1>4, <1>5 DEF Input
<1>7. AtString
  BY <1>5 DEF AtString
<1>8. Passed
  <2>1. 1 .. pointer - 1 = {} /\ \A p \in Starts : ~(p < pointer)
    BY <1>5 DEF Starts
  <2> QED
    BY <1>5, <2>1 DEF Passed
<1> QED
  BY <1>5, <1>6, <1>7, <1>8 DEF IInv, SplitsRight

(* The end of the list: everything has been passed.                        *)
LEMMA EndListInv ==
  ASSUME IInv, EndList PROVE IInv'
<1> USE LengthIsNat
<1>1. /\ outcome = "none" /\ outcome' = "ok" /\ remain_size = 0
      /\ UNCHANGED <<bytes, len, name, pointer, remain_size, found>>
      /\ Input /\ AtString /\ Passed
  BY DEF EndList, Return, IInv
<1>2. pointer = len + 1
  BY <1>1 DEF AtString, Input
<1>3. WellFormed
  BY <1>1, <1>2 DEF AtString, Passed, WellFormed, Input
<1>4. found = (\E p \in Starts : Text(p) = name)
  <2>1. \A p \in Starts : p < pointer
    BY <1>1, <1>2 DEF Starts, Input
  <2> QED
    BY <1>1, <2>1 DEF Passed
<1>5. UNCHANGED <<WellFormed, Starts>> /\ Input'
      /\ (\E p \in Starts : Text(p) = name)' = (\E p \in Starts : Text(p) = name)
  BY <1>1 DEF WellFormed, Starts, Text, EndOf, Input
<1> QED
  BY <1>1, <1>3, <1>4, <1>5 DEF IInv, SplitsRight

(* One string: it ends in the value and is text, or the list is flawed.    *)
LEMMA NextStringInv ==
  ASSUME IInv, NextString PROVE IInv'
<1> USE LengthIsNat
<1> DEFINE e == EndOf(pointer)
<1>1. /\ outcome = "none" /\ remain_size > 0
      /\ UNCHANGED <<bytes, len, name>>
      /\ Input /\ AtString /\ Passed
  BY DEF NextString, IInv
<1>2. pointer \in 1 .. len /\ pointer \in 1 .. Length + 2
      /\ len \in 0 .. Length /\ remain_size = len + 1 - pointer
  BY <1>1 DEF AtString, Input
<1>3. /\ e \in pointer .. Length + 2 /\ bytes[e] = NUL
      /\ \A q \in pointer .. e - 1 : bytes[q] # NUL
      /\ Len(Text(pointer)) = e - pointer
      /\ IsUtf8(Text(pointer)) <=> \A q \in pointer .. e - 1 : bytes[q] # BAD
  BY <1>1, <1>2, EndOfString
<1> HIDE DEF e
<1>4. Input' /\ UNCHANGED <<Starts, WellFormed>>
      /\ \A p : Text(p)' = Text(p)
  BY <1>1 DEF Input, Starts, WellFormed, Text, EndOf
<1>5. ASSUME e > len PROVE ~WellFormed
  <2>1. len \in pointer .. e - 1 /\ len > 0
    BY <1>2, <1>3, <1>5
  <2> QED
    BY <1>3, <2>1 DEF WellFormed
<1>6. CASE ~IsUtf8(Text(pointer))
  <2>1. PICK q \in pointer .. e - 1 : bytes[q] = BAD
    BY <1>3, <1>6
  <2>2. ~WellFormed
    <3>1. CASE e > len
      BY <1>5, <3>1
    <3>2. CASE ~(e > len)
      <4>1. q \in 1 .. len
        BY <1>2, <1>3, <2>1, <3>2
      <4> QED
        BY <2>1, <4>1 DEF WellFormed
    <3> QED
      BY <3>1, <3>2
  <2>3. outcome' = "err"
    BY <1>6 DEF NextString, Return
  <2> QED
    BY <1>4, <2>2, <2>3 DEF IInv, SplitsRight
<1>7. CASE IsUtf8(Text(pointer)) /\ remain_size < Len(Text(pointer)) + 1
  <2>1. e > len
    BY <1>2, <1>3, <1>7
  <2>2. outcome' = "err"
    BY <1>2, <1>3, <1>7 DEF NextString, Return
  <2> QED
    BY <1>4, <1>5, <2>1, <2>2 DEF IInv, SplitsRight
<1>8. CASE IsUtf8(Text(pointer)) /\ ~(remain_size < Len(Text(pointer)) + 1)
  <2>1. /\ pointer' = pointer + (Len(Text(pointer)) + 1)
        /\ remain_size' = remain_size - (Len(Text(pointer)) + 1)
        /\ found' = (found \/ Text(pointer) = name)
        /\ outcome' = "none"
    BY <1>1, <1>8 DEF NextString, Return
  <2>2. pointer' = e + 1 /\ remain_size' = len + 1 - pointer' /\ e \in 1 .. len
    BY <1>2, <1>3, <1>8, <2>1
  <2>3. AtString'
    <3>1. pointer' - 1 = e /\ pointer' \in 1 .. len + 1
      BY <1>2, <2>2
    <3> QED
      BY <1>1, <1>3, <2>2, <3>1 DEF AtString
  <2>4. \A p \in 1 .. pointer' - 1 : bytes[p] # BAD
    <3> SUFFICES ASSUME NEW p \in 1 .. e PROVE bytes[p] # BAD
      BY <2>2
    <3>1. CASE p < pointer
      BY <1>1, <1>2, <2>2, <3>1 DEF Passed
    <3>2. CASE p = e
      BY <1>3, <3>2, NulIsText
    <3>3. CASE ~(p < pointer) /\ p # e
      <4>1. p \in pointer .. e - 1
        BY <1>2, <2>2, <3>3
      <4> QED
        BY <1>3, <1>8, <4>1
    <3> QED
      BY <3>1, <3>2, <3>3
  <2>5. ASSUME NEW p \in Starts PROVE p < pointer' <=> (p < pointer \/ p = pointer)
    <3>1. p \in 1 .. len /\ (p = 1 \/ bytes[p - 1] = NUL)
      BY DEF Starts
    <3>2. ASSUME p > pointer, p < e + 1 PROVE FALSE
      <4>1. p - 1 \in pointer .. e - 1 /\ p # 1
        BY <1>2, <2>2, <3>1, <3>2
      <4> QED
        BY <1>3, <3>1, <4>1
    <3> QED
      BY <1>2, <1>3, <2>2, <3>1, <3>2
  <2>6. pointer \in Starts
    BY <1>1, <1>2 DEF AtString, Starts
  <2>7. found' <=> \E p \in Starts : p < pointer' /\ Text(p) = name
    BY <1>1, <2>1, <2>5, <2>6 DEF Passed
  <2>8. found' \in BOOLEAN
    BY <1>1, <2>1 DEF Passed
  <2>9. Passed'
    BY <1>1, <1>4, <2>4, <2>7, <2>8 DEF Passed
  <2> QED
    BY <1>4, <2>1, <2>3, <2>9 DEF IInv, SplitsRight
<1> QED
  BY <1>6, <1>7, <1>8

LEMMA StepInv == IInv /\ [Next]_vars => IInv'
<1> SUFFICES ASSUME IInv, [Next]_vars PROVE IInv'
  OBVIOUS
<1>1. CASE UNCHANGED vars
  BY <1>1 DEF vars, IInv, Input, AtString, Passed, SplitsRight, WellFormed,
              Starts, Text, EndOf
<1> QED
  BY <1>1, EndListInv, NextStringInv DEF Next, Done

(* The pointer and the remaining size, which CharStringIter moves apart,   *)
(* agree, and while the loop runs it stands at a string of the property or *)
(* at its end, though read_char_str knows nothing of that end.             *)
THEOREM IteratorInside == Spec => []StaysInside
<1>1. IInv => StaysInside
  BY LengthIsNat DEF IInv, Input, AtString, StaysInside, Starts
<1> QED
  BY <1>1, InitInv, StepInv, PTL DEF Spec

(* parse_prop finds compatible_name exactly in a well-formed list that has *)
(* it as one of its strings, and refuses every other list.                 *)
THEOREM ListIsSplit == Spec => []SplitsRight
<1>1. IInv => SplitsRight
  BY DEF IInv
<1> QED
  BY <1>1, InitInv, StepInv, PTL DEF Spec
=============================================================================
