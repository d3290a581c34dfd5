------------------------- MODULE DebugPrintProofs -------------------------
(***************************************************************************)
(* Proofs about _print(), for all sets of threads and lengths of text.     *)
(***************************************************************************)
EXTENDS DebugPrint, FiniteSetTheorems, TLAPS

(* One thread is between the two ends of the first guard, and while it     *)
(* writes something of its text is still missing.                          *)
OneInside == \A t, u \in Threads : at[t] \in Inside /\ at[u] \in Inside => t = u

Unfinished == Len(sent) < Pieces

(* Contiguous is a matter of the lock: OneInside is needed beside it.      *)
IInv == TypeOK /\ OneInside /\ Unfinished /\ Contiguous

(* How many numbers there are up to one.                                   *)
LEMMA CountUpTo ==
  ASSUME NEW n \in Nat
  PROVE  Cardinality(1 .. n) = n
<1>1. 1 \in Int /\ n \in Int
  OBVIOUS
<1>2. Cardinality(1 .. n) = IF 1 > n THEN 0 ELSE n - 1 + 1
  BY <1>1, FS_Interval, Zenon
<1> QED
  BY <1>2

(* The next piece of a text is the one after those already sent.           *)
LEMMA NextPiece ==
  ASSUME IInv, NEW t \in Threads, at[t] = "write"
  PROVE  Cardinality({i \in 1 .. Len(sent) : sent[i][1] = t}) = Len(sent)
<1>1. Len(sent) \in Nat
  BY DEF IInv, TypeOK
<1>2. \A i \in 1 .. Len(sent) : sent[i][1] = t
  <2> TAKE i \in 1 .. Len(sent)
  <2>1. 1 \in 1 .. Len(sent)
    BY <1>1
  <2>2. sent[i] = <<sent[1][1], i>> /\ at[sent[1][1]] = "write"
    BY DEF IInv, Contiguous
  <2>3. sent[1] \in Threads \X (1 .. Pieces)
    BY <2>1 DEF IInv, TypeOK
  <2> QED
    BY <2>2, <2>3 DEF IInv, OneInside, Inside
<1>3. {i \in 1 .. Len(sent) : sent[i][1] = t} = 1 .. Len(sent)
  BY <1>2
<1>4. Cardinality(1 .. Len(sent)) = Len(sent)
  BY <1>1, CountUpTo
<1> QED
  BY <1>3, <1>4

(* Nobody has called yet.                                                  *)
LEMMA InitInv == Init => IInv
<1> SUFFICES ASSUME Init PROVE IInv
  OBVIOUS
<1>1. sent = <<>> /\ at = [t \in Threads |-> "idle"]
      /\ asking = {} /\ holding = {} /\ rp1_asking = {} /\ rp1_holding = {}
      /\ handle = FALSE
  BY DEF Init, D!Init, R!Init
<1>2. Len(sent) = 0 /\ sent \in Seq(Threads \X (1 .. Pieces))
  BY <1>1
<1>3. TypeOK
  BY <1>1, <1>2 DEF TypeOK, Inside
<1>4. OneInside
  BY <1>1 DEF OneInside, Inside
<1>5. Unfinished /\ Contiguous
  BY <1>1, <1>2, TextIsNotEmpty DEF Unfinished, Contiguous
<1> QED
  BY <1>3, <1>4, <1>5 DEF IInv

(* A thread that goes from one place to another between pieces.            *)
LEMMA Walks ==
  ASSUME IInv, NEW t \in Threads,
         Call(t) \/ Enter(t) \/ Second(t) \/ SecondEnter(t) \/ LeaveRp1(t)
           \/ Leave(t)
  PROVE  IInv'
<1> USE DEF IInv, TypeOK, Inside, Goes, dLock, rLock
<1>1. CASE Call(t)
  BY <1>1 DEF Call, D!Ask, OneInside, Unfinished, Contiguous
<1>2. CASE Enter(t)
  BY <1>2 DEF Enter, D!Grant, OneInside, Unfinished, Contiguous
<1>3. CASE Second(t)
  BY <1>3 DEF Second, R!Ask, OneInside, Unfinished, Contiguous
<1>4. CASE SecondEnter(t)
  BY <1>4 DEF SecondEnter, R!Grant, OneInside, Unfinished, Contiguous
<1>5. CASE LeaveRp1(t)
  BY <1>5 DEF LeaveRp1, R!Return, OneInside, Unfinished, Contiguous
<1>6. CASE Leave(t)
  BY <1>6 DEF Leave, D!Return, OneInside, Unfinished, Contiguous
<1> QED
  BY <1>1, <1>2, <1>3, <1>4, <1>5, <1>6

(* One more piece goes behind those of the same text.                      *)
LEMMA PieceInv ==
  ASSUME IInv, NEW t \in Threads, Piece(t)
  PROVE  IInv'
<1> DEFINE n == Len(sent) + 1
<1>1. /\ at \in [Threads -> Inside \cup {"idle", "lock"}] /\ at[t] = "write"
      /\ sent \in Seq(Threads \X (1 .. Pieces)) /\ Len(sent) \in Nat
      /\ Len(sent) < Pieces
  BY DEF IInv, TypeOK, Unfinished, Piece
<1>2. UNCHANGED <<asking, holding, rp1_asking, rp1_holding, handle>>
  BY DEF Piece, dLock, rLock
<1>3. CASE n = Pieces
  <2>1. sent' = <<>> /\ at' = [at EXCEPT ![t] = "second"]
    BY <1>1, <1>3, NextPiece DEF Piece
  <2>2. Len(sent') = 0 /\ sent' \in Seq(Threads \X (1 .. Pieces))
    BY <2>1
  <2>3. TypeOK'
    BY <1>1, <1>2, <2>1, <2>2 DEF IInv, TypeOK, Inside
  <2>4. OneInside'
    BY <1>1, <2>1 DEF IInv, OneInside, Inside
  <2>5. Unfinished' /\ Contiguous'
    BY <2>2, TextIsNotEmpty DEF Unfinished, Contiguous
  <2> QED
    BY <2>3, <2>4, <2>5 DEF IInv
<1>4. CASE n # Pieces
  <2>1. sent' = Append(sent, <<t, n>>) /\ at' = at
    BY <1>1, <1>4, NextPiece DEF Piece
  <2>2. n \in 1 .. Pieces /\ n < Pieces
    BY <1>1, <1>4, TextIsNotEmpty
  <2>3. <<t, n>> \in Threads \X (1 .. Pieces)
    BY <2>2
  <2>4. /\ sent' \in Seq(Threads \X (1 .. Pieces)) /\ Len(sent') = n
        /\ \A i \in 1 .. Len(sent) : sent'[i] = sent[i]
        /\ sent'[n] = <<t, n>>
    BY <1>1, <2>1, <2>3
  <2>5. TypeOK' /\ OneInside'
    BY <1>2, <2>1, <2>4 DEF IInv, TypeOK, OneInside
  <2>6. Unfinished'
    BY <2>2, <2>4 DEF Unfinished
  <2>7. \A i \in 1 .. Len(sent) : sent[i] = <<t, i>>
    <3> TAKE i \in 1 .. Len(sent)
    <3>1. 1 \in 1 .. Len(sent)
      BY <1>1
    <3>2. sent[i] = <<sent[1][1], i>> /\ at[sent[1][1]] = "write"
      BY DEF IInv, Contiguous
    <3>3. sent[1] \in Threads \X (1 .. Pieces)
      BY <1>1, <3>1
    <3> QED
      BY <1>1, <3>2, <3>3 DEF IInv, OneInside, Inside
  <2>8. \A i \in 1 .. n : sent'[i] = <<t, i>>
    <3> TAKE i \in 1 .. n
    <3>1. i = n \/ i \in 1 .. Len(sent)
      BY <1>1
    <3> QED
      BY <2>4, <2>7, <3>1
  <2>9. sent'[1][1] = t
    BY <1>1, <2>8
  <2>10. Contiguous'
    BY <1>1, <2>1, <2>4, <2>8, <2>9 DEF Contiguous
  <2> QED
    BY <2>5, <2>6, <2>10 DEF IInv
<1> QED
  BY <1>3, <1>4

(* The invariant is inductive.                                             *)
LEMMA StepInv == IInv /\ [Next]_vars => IInv'
<1> SUFFICES ASSUME IInv, [Next]_vars PROVE IInv'
  OBVIOUS
<1>1. CASE UNCHANGED vars
  BY <1>1 DEF vars, IInv, TypeOK, OneInside, Unfinished, Contiguous
<1>2. CASE Next
  BY <1>2, Walks, PieceInv DEF Next, Works
<1> QED
  BY <1>1, <1>2

-----------------------------------------------------------------------------
(* The two locks are held and asked for exactly where _print() does so.    *)
THEOREM TypeCorrect == Spec => []TypeOK
<1>1. IInv => TypeOK
  BY DEF IInv
<1> QED
  BY <1>1, InitInv, StepInv, PTL DEF Spec

(* The pieces of two texts never mix at the UART.                          *)
THEOREM TextsAreWhole == Spec => []Contiguous
<1>1. IInv => Contiguous
  BY DEF IInv
<1> QED
  BY <1>1, InitInv, StepInv, PTL DEF Spec

(* Nobody waits for the second lock: taken under the first it is free, so  *)
(* the two cannot be the two halves of a deadlock.                         *)
THEOREM SecondIsFree == Spec => []NeverWaits
<1>1. IInv => NeverWaits
  BY DEF IInv, TypeOK, OneInside, NeverWaits, Inside
<1> QED
  BY <1>1, InitInv, StepInv, PTL DEF Spec
=============================================================================
