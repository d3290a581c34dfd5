---------------------------- MODULE RWLockProofs ----------------------------
(***************************************************************************)
(* Proofs about the reader-writer lock, for all sets of threads and slots, *)
(* every write flag above the number of guards, nested calls or not, and   *)
(* about the test program on top of it, for every number of threads and    *)
(* rounds.                                                                 *)
(***************************************************************************)
EXTENDS RWLockTest, FiniteSetTheorems, TLAPS

(* A CAS is only ever tried with an expected value whose flag is clear.    *)
ExpectsNoFlag ==
  \A t \in Threads : pc[t] \in {"readCas", "writeCas"} => ~FlagSet(n[t])

(* Only a thread that called write() is in the middle of it, and one that  *)
(* drains has no write guard yet.                                          *)
InWrite ==
  \A t \in Threads :
    /\ pc[t] \in {"writeLoad", "writeCas", "drain"} => t \in Writers
    /\ pc[t] = "drain" => t \notin writer

(* While no write guard is live the word's release sequence covers every   *)
(* write: what makes a new holder see them.                                *)
WordCarriesWrites == writer = {} => msg \cap WritesBy(Threads) = {}

(* A draining writer got that view with its CAS and nobody writes before   *)
(* its turn.                                                               *)
DrainerSeesWrites ==
  \A t \in Threads : pc[t] = "drain" => behind[t] \cap WritesBy(Threads) = {}

(* The inductive invariant: the control half ...                           *)
CInv == TypeOK /\ MutualExclusion /\ WordCountsGuards
        /\ ExpectsNoFlag /\ InWrite

(* ... and the happens-before half, which rests on it.                     *)
IInv == CInv /\ HoldersSeeWrites /\ WordCarriesWrites /\ DrainerSeesWrites

-----------------------------------------------------------------------------
(* The flag is a bit of its own.                                           *)
LEMMA FlagPositive == WRITE_FLAG \in Nat /\ WRITE_FLAG > 0
  BY FlagIsTopBit, GuardsFinite, FS_CardinalityType

(* What the word says of the guards: its flag is up exactly when a thread  *)
(* owns it, its low bits count the read guards and never reach the flag.   *)
LEMMA WordFacts ==
  ASSUME TypeOK, WordCountsGuards
  PROVE  /\ IsFiniteSet(readers)
         /\ Cardinality(readers) \in Nat
         /\ Cardinality(readers) < WRITE_FLAG
         /\ FlagSet(word) <=> Owners # {}
         /\ Count(word) = Cardinality(readers)
         /\ Cardinality(readers) = 0 <=> readers = {}
<1>1. /\ IsFiniteSet(readers)
      /\ Cardinality(readers) <= Cardinality(Guards)
  BY GuardsFinite, FS_Subset DEF TypeOK
<1>2. Cardinality(readers) \in Nat /\ Cardinality(Guards) \in Nat
  BY <1>1, GuardsFinite, FS_CardinalityType
<1>3. Cardinality(readers) = 0 <=> readers = {}
  BY <1>1, FS_EmptySet
<1> QED
  BY <1>1, <1>2, <1>3, FlagIsTopBit DEF WordCountsGuards, FlagSet, Count

(* One more read guard, one more in the count, and still below the flag.   *)
LEMMA OneMoreReader ==
  ASSUME TypeOK, NEW g \in Guards, g \notin readers
  PROVE  /\ Cardinality(readers \cup {g}) = Cardinality(readers) + 1
         /\ Cardinality(readers \cup {g}) < WRITE_FLAG
         /\ Cardinality(readers) \in Nat
<1>1. readers \cup {g} \subseteq Guards /\ IsFiniteSet(readers)
  BY GuardsFinite, FS_Subset DEF TypeOK
<1>2. Cardinality(readers \cup {g}) <= Cardinality(Guards)
  BY <1>1, GuardsFinite, FS_Subset
<1>3. Cardinality(readers \cup {g}) = Cardinality(readers) + 1
  BY <1>1, FS_AddElement
<1>4. Cardinality(readers) \in Nat /\ Cardinality(Guards) \in Nat
  BY <1>1, GuardsFinite, FS_CardinalityType
<1> QED
  BY <1>2, <1>3, <1>4, FlagIsTopBit

(* One guard fewer, one fewer in the count.                                *)
LEMMA OneReaderLess ==
  ASSUME TypeOK, NEW g \in readers
  PROVE  /\ Cardinality(readers \ {g}) = Cardinality(readers) - 1
         /\ Cardinality(readers) \in Nat
         /\ Cardinality(readers \ {g}) \in Nat
<1>1. IsFiniteSet(readers) /\ IsFiniteSet(readers \ {g})
  BY GuardsFinite, FS_Subset, FS_RemoveElement DEF TypeOK
<1> QED
  BY <1>1, FS_RemoveElement, FS_CardinalityType

-----------------------------------------------------------------------------
(* A new lock is a zero word and nobody has touched its data.              *)
LEMMA InitInv == Init => IInv
<1> SUFFICES ASSUME Init PROVE IInv
  OBVIOUS
<1>1. Cardinality({}) = 0
  BY FS_EmptySet
<1>2. 0 \in Words
  BY FlagPositive DEF Words
<1>3. TypeOK
  BY <1>2 DEF Init, TypeOK, Locations
<1>4. WordCountsGuards
  BY <1>1 DEF Init, WordCountsGuards, Owners, Threads
<1>5. MutualExclusion /\ ExpectsNoFlag /\ InWrite
  BY DEF Init, MutualExclusion, ExpectsNoFlag, InWrite
<1>6. HoldersSeeWrites /\ WordCarriesWrites /\ DrainerSeesWrites
  BY DEF Init, HoldersSeeWrites, WordCarriesWrites, DrainerSeesWrites
<1> QED
  BY <1>3, <1>4, <1>5, <1>6 DEF IInv, CInv

-----------------------------------------------------------------------------
(* Each action keeps the control half.                                     *)
LEMMA ReadCasOkInv ==
  ASSUME CInv, NEW t \in Threads, ReadCasOk(t) PROVE CInv'
<1> USE DEF CInv
<1>1. PICK s \in Slots : /\ <<t, s>> \notin readers
                         /\ readers' = readers \cup {<<t, s>>}
  BY DEF ReadCasOk
<1> DEFINE g == <<t, s>>
<1>2. g \in Guards
  BY DEF Guards
<1>3. /\ Cardinality(readers') = Cardinality(readers) + 1
      /\ Cardinality(readers') < WRITE_FLAG
      /\ Cardinality(readers) \in Nat
  BY <1>1, <1>2, OneMoreReader
<1>4. ~FlagSet(word) /\ Owners = {} /\ writer = {} /\ Owners' = {}
  BY WordFacts DEF ReadCasOk, ExpectsNoFlag, Owners, TypeOK, GoTo
<1>5. word = Cardinality(readers) /\ word' = word + 1
  BY <1>4, <1>3, FlagPositive DEF WordCountsGuards, ReadCasOk
<1>6. TypeOK'
  <2>1. word' \in Words /\ 0 \in Words
    BY <1>3, <1>5, FlagPositive DEF Words
  <2>2. readers' \subseteq Guards
    BY <1>1, <1>2 DEF TypeOK
  <2>3. behind' \in [Threads -> SUBSET Accesses] /\ msg' \subseteq Accesses
    BY DEF ReadCasOk, Acquire, TypeOK
  <2> QED
    BY <2>1, <2>2, <2>3 DEF ReadCasOk, TypeOK, GoTo, Locations
<1>7. MutualExclusion'
  BY <1>4 DEF MutualExclusion, ReadCasOk
<1>8. WordCountsGuards'
  BY <1>3, <1>4, <1>5 DEF WordCountsGuards
<1>9. ExpectsNoFlag' /\ InWrite'
  BY DEF ExpectsNoFlag, InWrite, FlagSet, ReadCasOk, GoTo, TypeOK
<1> QED
  BY <1>6, <1>7, <1>8, <1>9

(* The CAS of write(): the flag goes up, for one thread.                   *)
LEMMA WriteCasOkInv ==
  ASSUME CInv, NEW t \in Threads, WriteCasOk(t) PROVE CInv'
<1> USE DEF CInv
<1> t \in Writers
  BY DEF InWrite, WriteCasOk
<1>1. ~FlagSet(word) /\ Owners = {} /\ writer = {}
  BY WordFacts DEF WriteCasOk, ExpectsNoFlag, Owners, TypeOK
<1>2. /\ word = Cardinality(readers) /\ Cardinality(readers) \in Nat
      /\ Cardinality(readers) < WRITE_FLAG
      /\ word' = word + WRITE_FLAG /\ n[t] = word /\ readers' = readers
      /\ Count(word) = 0 <=> readers = {}
  BY <1>1, WordFacts DEF WordCountsGuards, WriteCasOk
<1>3. Owners' = {t}
  BY <1>1 DEF WriteCasOk, Owners, TypeOK, GoTo, Threads
<1>4. TypeOK'
  <2>1. word' \in Words /\ 0 \in Words
    BY <1>2, FlagPositive DEF Words
  <2>2. behind' \in [Threads -> SUBSET Accesses] /\ msg' \subseteq Accesses
    BY DEF WriteCasOk, Acquire, TypeOK
  <2>3. pc' \in [Threads -> Locations] /\ writer' \subseteq Writers
    BY DEF WriteCasOk, TypeOK, GoTo, Locations
  <2> QED
    BY <2>1, <2>2, <2>3, <1>2 DEF WriteCasOk, TypeOK
<1>5. MutualExclusion'
  BY <1>1, <1>2 DEF MutualExclusion, WriteCasOk
<1>6. WordCountsGuards'
  BY <1>2, <1>3, FlagPositive DEF WordCountsGuards
<1>7. ExpectsNoFlag' /\ InWrite'
  <2>1. \/ pc' = [pc EXCEPT ![t] = "run"] /\ writer' = {t}
        \/ pc' = [pc EXCEPT ![t] = "drain"] /\ writer' = {}
    BY <1>1 DEF WriteCasOk, GoTo
  <2>2. \A u \in Threads : pc[u] # "drain"
    BY <1>1 DEF Owners, InWrite
  <2> QED
    BY <2>1, <2>2 DEF ExpectsNoFlag, InWrite, FlagSet, WriteCasOk, TypeOK
<1> QED
  BY <1>4, <1>5, <1>6, <1>7

(* The end of the drain: the flag's owner gets its guard.                  *)
LEMMA DrainInv ==
  ASSUME CInv, NEW t \in Threads, Drain(t) PROVE CInv'
<1> USE DEF CInv
<1> t \in Writers
  BY DEF InWrite, Drain
<1>1. readers = {} /\ readers' = {}
  BY WordFacts DEF Drain
<1>2. Owners = {t} /\ writer \subseteq {t} /\ writer' = {t}
  BY DEF Drain, Owners, WordCountsGuards
<1>3. Owners' = {t}
  BY <1>2 DEF Drain, Owners, TypeOK, GoTo
<1>4. TypeOK'
  BY DEF Drain, TypeOK, GoTo, Locations, Relaxed
<1>5. MutualExclusion'
  BY <1>1, <1>2 DEF MutualExclusion
<1>6. WordCountsGuards'
  BY <1>1, <1>2, <1>3 DEF WordCountsGuards, Drain
<1>7. ExpectsNoFlag'
  BY DEF ExpectsNoFlag, FlagSet, Drain, GoTo, TypeOK
<1>8. InWrite'
  BY <1>2 DEF InWrite, Drain, GoTo, TypeOK
<1> QED
  BY <1>4, <1>5, <1>6, <1>7, <1>8

(* A read guard leaves and takes one from the count, whoever owns the flag.*)
LEMMA ReadDropInv ==
  ASSUME CInv, NEW t \in Threads, ReadDrop(t) PROVE CInv'
<1> USE DEF CInv
<1>1. PICK g \in readers : readers' = readers \ {g}
  BY DEF ReadDrop, ReadGuardsOf
<1>2. /\ Cardinality(readers') = Cardinality(readers) - 1
      /\ Cardinality(readers') \in Nat /\ Cardinality(readers) \in Nat
  BY <1>1, OneReaderLess
<1>3. Cardinality(readers) < WRITE_FLAG
  BY WordFacts
<1>4. Owners' = Owners
  BY DEF Owners, ReadDrop
<1>5. word' = word - 1
  BY DEF ReadDrop
<1>6. WordCountsGuards'
  BY <1>2, <1>4, <1>5, FlagPositive DEF WordCountsGuards
<1>7. TypeOK'
  <2>1. word' \in Words
    BY <1>2, <1>3, <1>5, FlagPositive DEF Words, WordCountsGuards
  <2>2. behind' \in [Threads -> SUBSET Accesses] /\ msg' \subseteq Accesses
    BY DEF ReadDrop, Release, TypeOK
  <2> QED
    BY <2>1, <2>2, <1>1 DEF ReadDrop, TypeOK
<1>8. MutualExclusion' /\ ExpectsNoFlag' /\ InWrite'
  BY <1>1 DEF MutualExclusion, ExpectsNoFlag, InWrite, FlagSet, ReadDrop
<1> QED
  BY <1>6, <1>7, <1>8

(* The write guard leaves and takes the flag with it.                      *)
LEMMA WriteDropInv ==
  ASSUME CInv, NEW t \in Threads, WriteDrop(t) PROVE CInv'
<1> USE DEF CInv
<1>1. Owners = {t} /\ writer = {t} /\ writer' = {} /\ readers = {}
  BY DEF WriteDrop, Owners, WordCountsGuards, MutualExclusion
<1>2. Owners' = {}
  BY <1>1 DEF Owners, WriteDrop
<1>3. word' = Cardinality(readers) /\ Cardinality(readers) \in Nat
      /\ Cardinality(readers) < WRITE_FLAG
  BY WordFacts DEF WriteDrop
<1>4. TypeOK'
  <2>1. word' \in Words
    BY <1>3, FlagPositive DEF Words
  <2>2. behind' \in [Threads -> SUBSET Accesses] /\ msg' \subseteq Accesses
    BY DEF WriteDrop, Release, TypeOK
  <2> QED
    BY <2>1, <2>2, <1>1 DEF WriteDrop, TypeOK
<1>5. WordCountsGuards'
  BY <1>2, <1>3 DEF WordCountsGuards, WriteDrop
<1>6. MutualExclusion' /\ ExpectsNoFlag' /\ InWrite'
  BY <1>1 DEF MutualExclusion, ExpectsNoFlag, InWrite, FlagSet, WriteDrop
<1> QED
  BY <1>4, <1>5, <1>6

(* The calls, the loads and the CASes that fail move one thread and touch  *)
(* neither the word nor a guard.                                           *)
LEMMA ControlInv ==
  ASSUME CInv, NEW t \in Threads,
         \/ ReadCall(t) \/ WriteCall(t) \/ ReadLoad(t) \/ WriteLoad(t)
         \/ CasFail(t)
  PROVE  CInv'
<1> USE DEF CInv
<1>1. /\ UNCHANGED <<word, readers, writer, behind, msg>>
      /\ pc[t] # "drain"
      /\ \E l \in Locations \ {"drain"} : pc' = [pc EXCEPT ![t] = l]
  BY DEF ReadCall, WriteCall, ReadLoad, WriteLoad, CasFail, MayCall, GoTo,
         Relaxed, Locations
<1>2. Owners' = Owners
  BY <1>1 DEF Owners, TypeOK
<1>3. 0 \in Words
  BY FlagPositive DEF Words
<1>4. TypeOK'
  BY <1>1, <1>3 DEF TypeOK, ReadCall, WriteCall, ReadLoad, WriteLoad, CasFail
<1>5. MutualExclusion' /\ WordCountsGuards'
  BY <1>1, <1>2 DEF MutualExclusion, WordCountsGuards
<1>6. ExpectsNoFlag' /\ InWrite'
  BY DEF ExpectsNoFlag, InWrite, FlagSet, TypeOK, ReadCall, WriteCall,
         ReadLoad, WriteLoad, CasFail, GoTo
<1> QED
  BY <1>4, <1>5, <1>6

(* Data accesses change only who is ordered after whom.                    *)
LEMMA DataInv ==
  ASSUME CInv, NEW t \in Threads, ReadData(t) \/ WriteData(t) PROVE CInv'
<1> USE DEF CInv
<1>1. UNCHANGED <<word, readers, writer, pc, n>>
  BY DEF ReadData, WriteData
<1>2. behind' \in [Threads -> SUBSET Accesses] /\ msg' \subseteq Accesses
  BY KindsOfAccess DEF ReadData, WriteData, Touch, TypeOK, Accesses
<1> QED
  BY <1>1, <1>2 DEF TypeOK, MutualExclusion, WordCountsGuards, Owners,
                    ExpectsNoFlag, InWrite, FlagSet

(* The control half is inductive by itself.                                *)
LEMMA StepCInv == CInv /\ [Next]_vars => CInv'
<1> SUFFICES ASSUME CInv, [Next]_vars PROVE CInv'
  OBVIOUS
<1>1. CASE UNCHANGED vars
  BY <1>1 DEF vars, CInv, TypeOK, MutualExclusion, WordCountsGuards, Owners,
              ExpectsNoFlag, InWrite, FlagSet
<1>2. ASSUME NEW t \in Threads, Lock(t) \/ CasFail(t) \/ Unlock(t) \/ Client(t)
      PROVE  CInv'
  BY <1>2, ReadCasOkInv, WriteCasOkInv, DrainInv, ReadDropInv, WriteDropInv,
     ControlInv, DataInv DEF Lock, Unlock, Client
<1> QED
  BY <1>1, <1>2 DEF Next

-----------------------------------------------------------------------------
(* The happens-before half.  A successful CAS is made while no write guard *)
(* is live, when the word carries every write; it hands them to its thread.*)
LEMMA CasOkOrder ==
  ASSUME IInv, NEW t \in Threads, ReadCasOk(t) \/ WriteCasOk(t)
  PROVE  HoldersSeeWrites' /\ WordCarriesWrites' /\ DrainerSeesWrites'
<1> USE DEF IInv, CInv
<1>1. writer = {}
  BY WordFacts DEF ReadCasOk, WriteCasOk, ExpectsNoFlag, Owners
<1>2. behind' = [behind EXCEPT ![t] = @ \cap msg] /\ msg' = msg
  BY DEF ReadCasOk, WriteCasOk, Acquire
<1>3. behind'[t] \cap WritesBy(Threads) = {}
  BY <1>1, <1>2 DEF WordCarriesWrites, TypeOK
<1>4. ASSUME NEW u \in Threads, u # t
      PROVE  /\ behind'[u] = behind[u]
             /\ Holds(u)' => Holds(u)
             /\ pc'[u] = pc[u]
  <2>1. behind'[u] = behind[u] /\ pc'[u] = pc[u]
    BY <1>2, <1>4 DEF ReadCasOk, WriteCasOk, GoTo, TypeOK
  <2>2. u \in writer' => u \in writer
    BY <1>4 DEF ReadCasOk, WriteCasOk
  <2>3. readers' \subseteq readers \cup {<<t, s>> : s \in Slots}
    BY DEF ReadCasOk, WriteCasOk
  <2>4. ReadGuardsOf(u)' \subseteq ReadGuardsOf(u)
    BY <1>4, <2>3 DEF ReadGuardsOf
  <2> QED
    BY <2>1, <2>2, <2>4 DEF Holds
<1>5. HoldersSeeWrites'
  <2> SUFFICES ASSUME NEW u \in Threads, Holds(u)'
               PROVE  behind'[u] \cap WritesBy(Threads) = {}
    BY DEF HoldersSeeWrites
  <2> QED
    BY <1>3, <1>4 DEF HoldersSeeWrites
<1>6. DrainerSeesWrites'
  <2> SUFFICES ASSUME NEW u \in Threads, pc'[u] = "drain"
               PROVE  behind'[u] \cap WritesBy(Threads) = {}
    BY DEF DrainerSeesWrites
  <2> QED
    BY <1>3, <1>4 DEF DrainerSeesWrites
<1>7. WordCarriesWrites'
  BY <1>1, <1>2 DEF WordCarriesWrites
<1> QED
  BY <1>5, <1>6, <1>7

(* A draining writer keeps the view its CAS gave it, a dropping one        *)
(* releases a view that covers every write.                                *)
LEMMA DrainDropOrder ==
  ASSUME IInv, NEW t \in Threads, Drain(t) \/ ReadDrop(t) \/ WriteDrop(t)
  PROVE  HoldersSeeWrites' /\ WordCarriesWrites' /\ DrainerSeesWrites'
<1> USE DEF IInv, CInv
<1>1. behind' = behind
  BY DEF Drain, ReadDrop, WriteDrop, Relaxed, Release
<1>2. CASE Drain(t)
  <2>1. \A u \in Threads : Holds(u)' => Holds(u) \/ u = t
    BY <1>2 DEF Drain, Holds, ReadGuardsOf
  <2>2. HoldersSeeWrites'
    BY <1>1, <1>2, <2>1 DEF HoldersSeeWrites, DrainerSeesWrites, Drain
  <2>3. WordCarriesWrites' /\ DrainerSeesWrites'
    BY <1>1, <1>2 DEF WordCarriesWrites, DrainerSeesWrites, Drain, GoTo, TypeOK
  <2> QED
    BY <2>2, <2>3
<1>3. CASE ReadDrop(t) \/ WriteDrop(t)
  <2>1. \A u \in Threads : Holds(u)' => Holds(u)
    BY <1>3 DEF ReadDrop, WriteDrop, Holds, ReadGuardsOf
  <2>2. msg' = msg \cap behind[t] /\ Holds(t) /\ pc' = pc
    BY <1>3 DEF ReadDrop, WriteDrop, Release, Holds
  <2>3. msg' \cap WritesBy(Threads) = {}
    BY <2>2 DEF HoldersSeeWrites
  <2> QED
    BY <1>1, <2>1, <2>2, <2>3
       DEF HoldersSeeWrites, WordCarriesWrites, DrainerSeesWrites
<1> QED
  BY <1>2, <1>3

(* A write to the data is made by the one holder, with nobody draining.    *)
LEMMA DataOrder ==
  ASSUME IInv, NEW t \in Threads, ReadData(t) \/ WriteData(t)
  PROVE  HoldersSeeWrites' /\ WordCarriesWrites' /\ DrainerSeesWrites'
<1> USE DEF IInv, CInv
<1>1. /\ UNCHANGED <<readers, writer, pc>>
      /\ \A u \in Threads : Holds(u)' <=> Holds(u)
  BY DEF ReadData, WriteData, Holds, ReadGuardsOf
<1>2. CASE ReadData(t)
  <2>1. \A S : <<"read", t>> \notin WritesBy(S)
    BY DEF WritesBy
  <2>2. /\ \A u \in Threads : behind'[u] \subseteq behind[u] \cup {<<"read", t>>}
        /\ msg' = msg \cup {<<"read", t>>}
    BY <1>2 DEF ReadData, Touch
  <2> QED
    BY <1>1, <2>1, <2>2
       DEF HoldersSeeWrites, WordCarriesWrites, DrainerSeesWrites
<1>3. CASE WriteData(t)
  <2>1. t \in writer /\ readers = {} /\ pc[t] = "run" /\ Owners = {t}
    BY <1>3 DEF WriteData, MutualExclusion, Owners, WordCountsGuards
  <2>2. \A u \in Threads : Holds(u) \/ pc[u] = "drain" => u = t
    BY <2>1 DEF Holds, ReadGuardsOf, Owners, InWrite
  <2>3. behind'[t] = behind[t]
    BY <1>3 DEF WriteData, Touch
  <2> QED
    BY <1>1, <2>1, <2>2, <2>3
       DEF HoldersSeeWrites, WordCarriesWrites, DrainerSeesWrites
<1> QED
  BY <1>2, <1>3

(* Calls, loads and failed CASes order nothing and give out no guard.      *)
LEMMA ControlOrder ==
  ASSUME IInv, NEW t \in Threads,
         \/ ReadCall(t) \/ WriteCall(t) \/ ReadLoad(t) \/ WriteLoad(t)
         \/ CasFail(t)
  PROVE  HoldersSeeWrites' /\ WordCarriesWrites' /\ DrainerSeesWrites'
<1> USE DEF IInv, CInv
<1>1. UNCHANGED <<readers, writer, behind, msg>>
  BY DEF ReadCall, WriteCall, ReadLoad, WriteLoad, CasFail, Relaxed
<1>2. \A u \in Threads : pc'[u] = "drain" => pc[u] = "drain"
  BY DEF ReadCall, WriteCall, ReadLoad, WriteLoad, CasFail, GoTo, TypeOK
<1> QED
  BY <1>1, <1>2 DEF HoldersSeeWrites, WordCarriesWrites, DrainerSeesWrites,
                    Holds, ReadGuardsOf

(* The whole invariant is inductive.                                       *)
LEMMA StepInv == IInv /\ [Next]_vars => IInv'
<1> SUFFICES ASSUME IInv, [Next]_vars PROVE IInv'
  OBVIOUS
<1>1. CInv'
  BY StepCInv DEF IInv
<1>2. CASE UNCHANGED vars
  BY <1>2, <1>1 DEF IInv, vars, HoldersSeeWrites, WordCarriesWrites,
                    DrainerSeesWrites, Holds, ReadGuardsOf
<1>3. ASSUME NEW t \in Threads, Lock(t) \/ CasFail(t) \/ Unlock(t) \/ Client(t)
      PROVE  HoldersSeeWrites' /\ WordCarriesWrites' /\ DrainerSeesWrites'
  BY <1>3, CasOkOrder, DrainDropOrder, DataOrder, ControlOrder
     DEF Lock, Unlock, Client
<1> QED
  BY <1>1, <1>2, <1>3 DEF Next, IInv

(* It holds in every reachable state.                                      *)
THEOREM Invariant == Spec => []IInv
  BY InitInv, StepInv, PTL DEF Spec

(* The variables keep their types; in particular the count never reaches   *)
(* the flag.                                                               *)
THEOREM TypeCorrect == Spec => []TypeOK
<1>1. IInv => TypeOK
  BY DEF IInv, CInv
<1> QED
  BY <1>1, Invariant, PTL

(* A live RWLockWriteGuard is alone.                                       *)
THEOREM Exclusion == Spec => []MutualExclusion
<1>1. IInv => MutualExclusion
  BY DEF IInv, CInv
<1> QED
  BY <1>1, Invariant, PTL

(* read_count_write_lock_flag is the live guards, no more and no less.     *)
THEOREM ExactCount == Spec => []WordCountsGuards
<1>1. IInv => WordCountsGuards
  BY DEF IInv, CInv
<1> QED
  BY <1>1, Invariant, PTL

(* Whoever holds a guard is ordered after every write to the data.         *)
THEOREM WritesVisible == Spec => []HoldersSeeWrites
<1>1. IInv => HoldersSeeWrites
  BY DEF IInv
<1> QED
  BY <1>1, Invariant, PTL

(* No read guard appears while a writer that has set the flag waits.       *)
THEOREM NoOvertaking == Spec => DoorShut
<1>1. IInv /\ [Next]_vars =>
        [\A t \in Writers : pc[t] = "drain" => readers' \subseteq readers]_vars
  <2> SUFFICES ASSUME IInv, [Next]_vars, NEW u \in Writers, pc[u] = "drain"
               PROVE  readers' \subseteq readers
    OBVIOUS
  <2>1. ASSUME NEW t \in Threads, ReadCasOk(t) PROVE FALSE
    BY <2>1, WordFacts DEF IInv, CInv, ReadCasOk, ExpectsNoFlag, Owners
  <2>2. ASSUME NEW t \in Threads, Lock(t) \/ CasFail(t) \/ Unlock(t) \/ Client(t)
        PROVE  readers' \subseteq readers
    BY <2>1, <2>2 DEF Lock, Unlock, Client, ReadCall, WriteCall, ReadLoad,
       WriteLoad, WriteCasOk, CasFail, Drain, ReadDrop, WriteDrop, ReadData,
       WriteData
  <2> QED
    BY <2>2 DEF Next, vars
<1> QED
  BY <1>1, Invariant, PTL DEF Spec, DoorShut

-----------------------------------------------------------------------------
(* The steps of the abstract lock that the steps of the code are.          *)
LEMMA AdmitReaderStep ==
  ASSUME IInv, NEW t \in Threads, ReadCasOk(t)
  PROVE  \E g \in Guards : Abs!AdmitReader(g)
<1>1. Owners = {}
  BY WordFacts DEF IInv, CInv, ReadCasOk, ExpectsNoFlag
<1>2. PICK s \in Slots : /\ <<t, s>> \notin readers
                         /\ readers' = readers \cup {<<t, s>>}
  BY DEF ReadCasOk
<1>3. Abs!AdmitReader(<<t, s>>)
  BY <1>1, <1>2 DEF Abs!AdmitReader, Owners, ReadCasOk, GoTo, IInv, CInv, TypeOK
<1> QED
  BY <1>2, <1>3 DEF Guards

(* write() announces itself or, with nobody there, is let in at once.      *)
LEMMA WriteCasStep ==
  ASSUME IInv, NEW t \in Threads, WriteCasOk(t)
  PROVE  t \in Writers /\ (Abs!Announce(t) \/ Abs!AdmitWriter(t))
<1>1. Owners = {} /\ t \in Writers
  BY WordFacts DEF IInv, CInv, WriteCasOk, ExpectsNoFlag, InWrite
<1>2. Count(n[t]) = 0 <=> readers = {}
  BY WordFacts DEF IInv, CInv, WriteCasOk
<1> DEFINE waiting == {u \in Writers : pc[u] = "drain"}
<1>3. waiting = {} /\ writer = {} /\ pc \in [Threads -> Locations]
      /\ Writers \subseteq Threads
  BY <1>1 DEF Owners, IInv, CInv, TypeOK, Threads
<1>4. CASE Count(n[t]) = 0
  <2>1. waiting' = {} /\ writer' = {t} /\ readers = {} /\ UNCHANGED readers
    BY <1>2, <1>3, <1>4 DEF WriteCasOk, GoTo
  <2> QED
    BY <1>1, <1>3, <2>1 DEF Abs!AdmitWriter
<1>5. CASE Count(n[t]) # 0
  <2>1. pc' = [pc EXCEPT ![t] = "drain"] /\ UNCHANGED <<readers, writer>>
        /\ readers # {}
    BY <1>2, <1>5 DEF WriteCasOk, GoTo
  <2>2. waiting' = {t}
    BY <1>1, <1>3, <2>1
  <2> QED
    BY <1>1, <1>3, <2>1, <2>2 DEF Abs!Announce
<1> QED
  BY <1>1, <1>4, <1>5

(* The end of the drain lets the announced writer in.                      *)
LEMMA DrainStep ==
  ASSUME IInv, NEW t \in Threads, Drain(t)
  PROVE  t \in Writers /\ Abs!AdmitWriter(t)
<1>1. readers = {} /\ t \in Writers
  BY WordFacts DEF IInv, CInv, Drain, InWrite
<1>2. Owners = {t} /\ writer \subseteq {t}
  BY <1>1 DEF IInv, CInv, WordCountsGuards, Owners, Drain
<1>3. writer = {}
  BY <1>2 DEF IInv, CInv, InWrite, Drain
<1> QED
  BY <1>1, <1>2, <1>3
     DEF Abs!AdmitWriter, Owners, Drain, GoTo, IInv, CInv, TypeOK

(* A dropped guard leaves.                                                 *)
LEMMA DropStep ==
  ASSUME IInv, NEW t \in Threads
  PROVE  /\ ReadDrop(t) => \E g \in Guards : Abs!LeaveReader(g)
         /\ WriteDrop(t) => t \in Writers /\ Abs!LeaveWriter(t)
<1>1. ASSUME ReadDrop(t) PROVE \E g \in Guards : Abs!LeaveReader(g)
  <2>1. PICK g \in readers : readers' = readers \ {g}
    BY <1>1 DEF ReadDrop, ReadGuardsOf
  <2>2. g \in Guards
    BY DEF IInv, CInv, TypeOK
  <2> QED
    BY <1>1, <2>1, <2>2 DEF Abs!LeaveReader, ReadDrop
<1>2. ASSUME WriteDrop(t) PROVE t \in Writers /\ Abs!LeaveWriter(t)
  BY <1>2 DEF Abs!LeaveWriter, WriteDrop, IInv, CInv, TypeOK
<1> QED
  BY <1>1, <1>2

(* The rest is invisible from outside.                                     *)
LEMMA Stutters ==
  ASSUME IInv, NEW t \in Threads,
         \/ ReadCall(t) \/ WriteCall(t) \/ ReadLoad(t) \/ WriteLoad(t)
         \/ CasFail(t) \/ ReadData(t) \/ WriteData(t)
  PROVE  UNCHANGED Abs!avars
<1>1. UNCHANGED <<readers, writer>>
  BY DEF ReadCall, WriteCall, ReadLoad, WriteLoad, CasFail, ReadData, WriteData
<1>2. \A u \in Writers : pc'[u] = "drain" <=> pc[u] = "drain"
  BY DEF IInv, CInv, TypeOK, Threads, ReadCall, WriteCall, ReadLoad, WriteLoad,
         CasFail, ReadData, WriteData, GoTo, MayCall
<1> QED
  BY <1>1, <1>2 DEF Abs!avars

(* The bit protocol implements the reader-writer lock its comment          *)
(* describes.                                                              *)
THEOREM Refinement == Spec => ImplementsReadersWriter
<1>1. Init => Abs!Init
  BY DEF Init, Abs!Init, Threads
<1>2. IInv /\ [Next]_vars => [Abs!Next]_(Abs!avars)
  <2> SUFFICES ASSUME IInv, [Next]_vars PROVE [Abs!Next]_(Abs!avars)
    OBVIOUS
  <2>1. CASE UNCHANGED vars
    BY <2>1 DEF vars, Abs!avars
  <2>2. ASSUME NEW t \in Threads, Lock(t) \/ CasFail(t) \/ Unlock(t) \/ Client(t)
        PROVE  [Abs!Next]_(Abs!avars)
    BY <2>2, AdmitReaderStep, WriteCasStep, DrainStep, DropStep, Stutters
       DEF Lock, Unlock, Client, Abs!Next
  <2> QED
    BY <2>1, <2>2 DEF Next
<1> QED
  BY <1>1, <1>2, Invariant, PTL DEF Spec, ImplementsReadersWriter, Abs!Spec

-----------------------------------------------------------------------------
(* The half of the order after reads that the code does ensure.  A read is *)
(* missing from the word's release sequence only while its reader still    *)
(* holds a guard: the drop of any guard puts in what its thread did itself.*)
OwnIsOrdered == \A t \in Threads : <<"read", t>> \notin behind[t]

OpenReadsAreHeld == \A t \in Threads : <<"read", t>> \in msg => Holds(t)

ReadsInv == OwnIsOrdered /\ OpenReadsAreHeld

(* What a thread touches is out of order for the others only.              *)
LEMMA TouchReads ==
  ASSUME TypeOK, ReadsInv, NEW t \in Threads, NEW k, Touch(k, t), Holds(t),
         UNCHANGED <<readers, writer>>
  PROVE  ReadsInv'
<1>1. /\ behind' = [u \in Threads |->
                     IF u = t THEN behind[u] ELSE behind[u] \cup {<<k, t>>}]
      /\ msg' = msg \cup {<<k, t>>}
  BY DEF Touch
<1>2. OwnIsOrdered'
  BY <1>1 DEF ReadsInv, OwnIsOrdered
<1>3. OpenReadsAreHeld'
  BY <1>1 DEF ReadsInv, OpenReadsAreHeld, Holds, ReadGuardsOf
<1> QED
  BY <1>2, <1>3 DEF ReadsInv

(* A drop keeps only what its thread has not ordered, and it has its own.  *)
LEMMA DropReads ==
  ASSUME TypeOK, ReadsInv, NEW t \in Threads, Release(t),
         \A u \in Threads \ {t} : Holds(u) => Holds(u)'
  PROVE  ReadsInv'
<1>1. msg' = msg \cap behind[t] /\ behind' = behind
  BY DEF Release
<1>2. OwnIsOrdered'
  BY <1>1 DEF ReadsInv, OwnIsOrdered
<1>3. OpenReadsAreHeld'
  BY <1>1 DEF ReadsInv, OpenReadsAreHeld, OwnIsOrdered
<1> QED
  BY <1>2, <1>3 DEF ReadsInv

(* The CASes only take away from what a thread is behind of.               *)
LEMMA OtherReads ==
  ASSUME TypeOK, ReadsInv, NEW t \in Threads, Acquire(t) \/ Relaxed,
         \A u \in Threads : Holds(u) => Holds(u)'
  PROVE  ReadsInv'
<1>1. /\ msg' = msg
      /\ \A u \in Threads : behind'[u] \subseteq behind[u]
  BY DEF Acquire, Relaxed, TypeOK
<1>2. OwnIsOrdered'
  BY <1>1 DEF ReadsInv, OwnIsOrdered
<1>3. OpenReadsAreHeld'
  BY <1>1 DEF ReadsInv, OpenReadsAreHeld
<1> QED
  BY <1>2, <1>3 DEF ReadsInv

(* Every step keeps what is known of the reads, given the first invariant. *)
LEMMA ReadsStep == IInv /\ ReadsInv /\ [Next]_vars => ReadsInv'
<1> SUFFICES ASSUME IInv, ReadsInv, [Next]_vars PROVE ReadsInv'
  OBVIOUS
<1>1. TypeOK /\ MutualExclusion
  BY DEF IInv, CInv
<1>2. CASE UNCHANGED vars
  BY <1>2 DEF vars, ReadsInv, OwnIsOrdered, OpenReadsAreHeld, Holds, ReadGuardsOf
<1>3. ASSUME NEW t \in Threads, Lock(t) \/ CasFail(t) \/ ReadCall(t) \/ WriteCall(t)
      PROVE  ReadsInv'
  <2>1. Acquire(t) \/ Relaxed
    BY <1>3 DEF Lock, CasFail, ReadCall, WriteCall, ReadLoad, ReadCasOk,
                WriteLoad, WriteCasOk, Drain
  <2>2. readers \subseteq readers' /\ writer \subseteq writer'
    BY <1>3 DEF Lock, CasFail, ReadCall, WriteCall, ReadLoad, ReadCasOk,
                WriteLoad, WriteCasOk, Drain
  <2>3. \A u \in Threads : Holds(u) => Holds(u)'
    BY <2>2 DEF Holds, ReadGuardsOf
  <2> QED
    BY <1>1, <2>1, <2>3, OtherReads
<1>4. ASSUME NEW t \in Threads, Unlock(t)
      PROVE  ReadsInv'
  <2>1. Release(t)
    BY <1>4 DEF Unlock, ReadDrop, WriteDrop
  <2>2. \A g \in readers : g[1] # t => g \in readers'
    BY <1>4 DEF Unlock, ReadDrop, WriteDrop, ReadGuardsOf
  <2>3. \A u \in writer : u # t => u \in writer'
    BY <1>4 DEF Unlock, ReadDrop, WriteDrop
  <2>4. \A u \in Threads \ {t} : Holds(u) => Holds(u)'
    BY <2>2, <2>3 DEF Holds, ReadGuardsOf
  <2> QED
    BY <1>1, <2>1, <2>4, DropReads
<1>5. ASSUME NEW t \in Threads, ReadData(t) \/ WriteData(t)
      PROVE  ReadsInv'
  <2>1. /\ Touch("read", t) \/ Touch("write", t)
        /\ Holds(t) /\ UNCHANGED <<readers, writer>>
    BY <1>5 DEF ReadData, WriteData, Holds
  <2> QED
    BY <1>1, <2>1, TouchReads
<1> QED
  BY <1>2, <1>3, <1>4, <1>5 DEF Next, Unlock, Client

(* A write() that finds the word zero is ordered after every read: with no *)
(* read guard live the word's release sequence covers the reads of all     *)
(* threads but the owner of a live write guard.                            *)
THEOREM ReadsCovered == Spec => []FreeLockCoversReads
<1>1. Init => ReadsInv
  BY DEF Init, ReadsInv, OwnIsOrdered, OpenReadsAreHeld
<1>2. ReadsInv => FreeLockCoversReads
  BY DEF ReadsInv, OpenReadsAreHeld, FreeLockCoversReads, Holds, ReadGuardsOf,
         ReadsBy
<1> QED
  BY <1>1, <1>2, ReadsStep, Invariant, PTL DEF Spec
-----------------------------------------------------------------------------
(* The test program.  Its steps are steps of the lock, so all of the above *)
(* holds of it; what its threads are doing is tied to the lock as follows. *)
Steps == {"call", "inner", "deref", "outer", "load", "store", "drop", "done"}

TestTypeOK == /\ data \in Nat
              /\ left \in [Threads -> 0 .. Rounds]
              /\ tmp \in [Threads -> Nat]
              /\ step \in [Threads -> Steps]

(* A write call is in progress, or its guard live, in a writer's round and *)
(* nowhere else.                                                           *)
InRound ==
  \A t \in Threads :
    /\ step[t] \in {"load", "store", "drop"} => t \in Writers
    /\ step[t] \in {"inner", "deref", "outer"} => t \in Readers
    /\ t \in writer => step[t] \in {"load", "store", "drop"}
    /\ step[t] \in {"store", "drop"} => t \in writer
    /\ step[t] = "load" => \/ pc[t] \in {"writeLoad", "writeCas", "drain"}
                           \/ pc[t] = "run" /\ t \in writer
    /\ pc[t] \in {"writeLoad", "writeCas", "drain"} => step[t] = "load"

(* The value a writer is about to store is one more than the data still is.*)
CopyIsFresh == \A t \in Threads : step[t] = "store" => tmp[t] = data

RoundsLeft ==
  \A t \in Writers : IF step[t] = "done" THEN left[t] = 0 ELSE left[t] > 0

(* The increments made: round i of writer t is one once it has been stored,*)
(* which is before left[t] is decremented.                                 *)
Made(t) == Rounds - left[t] + (IF step[t] = "drop" THEN 1 ELSE 0)
Increments == {p \in Writers \X (1 .. Rounds) : p[2] <= Made(p[1])}

NoneLost == data = Cardinality(Increments)

TestInv == TestTypeOK /\ InRound /\ CopyIsFresh /\ RoundsLeft /\ NoneLost

(* Nothing the program does is not a step of the lock or none of its.      *)
LEMMA ProgramSteps == [TestNext]_<<vars, testVars>> => [Next]_vars
<1> SUFFICES ASSUME TestNext PROVE [Next]_vars
  BY DEF vars
<1>1. ASSUME NEW t \in Threads, InLock(t) PROVE Next
  BY <1>1 DEF InLock, Next
<1>2. ASSUME NEW t \in Threads, Program(t) PROVE [Next]_vars
  BY <1>2 DEF Program, OuterRead, InnerRead, DropGuard, TakeWrite, LoadData,
     StoreData, EndRound, Next, Client, Unlock
<1> QED
  BY <1>1, <1>2 DEF TestNext, Joined

LEMMA InitTestInv == TestInit => TestInv
<1> SUFFICES ASSUME TestInit PROVE TestInv
  OBVIOUS
<1>1. TestTypeOK
  BY RoundsPositive DEF TestInit, TestTypeOK, Steps
<1>2. InRound /\ CopyIsFresh /\ RoundsLeft
  BY RoundsPositive DEF TestInit, Init, InRound, CopyIsFresh, RoundsLeft, Threads
<1>3. \A t \in Writers : Made(t) = 0
  BY RoundsPositive DEF TestInit, Made, Threads
<1>4. Increments = {}
  BY <1>3, RoundsPositive DEF Increments
<1>5. NoneLost
  BY <1>4, FS_EmptySet DEF NoneLost, TestInit
<1> QED
  BY <1>1, <1>2, <1>5 DEF TestInv

(* As long as no writer finishes a step of its closure the increments made *)
(* stay what they are.                                                     *)
LEMMA SameIncrements ==
  ASSUME NoneLost, UNCHANGED <<data, left>>,
         \A t \in Writers : step'[t] = "drop" <=> step[t] = "drop"
  PROVE  NoneLost'
<1>1. \A t \in Writers : Made(t)' = Made(t)
  BY DEF Made
<1>2. Increments' = Increments
  BY <1>1 DEF Increments
<1> QED
  BY <1>2 DEF NoneLost

(* Inside read() and write(): only the end of a write call gives a writer  *)
(* its guard, and its closure is waiting for it.                           *)
LEMMA InLockInv ==
  ASSUME CInv, TestInv, NEW t \in Threads, InLock(t) PROVE TestInv'
<1> USE DEF TestInv
<1>1. UNCHANGED <<data, left, tmp, step>>
  BY DEF InLock, testVars
<1>2. TestTypeOK' /\ CopyIsFresh' /\ RoundsLeft' /\ NoneLost'
  BY <1>1, SameIncrements DEF TestTypeOK, CopyIsFresh, RoundsLeft
<1>3. /\ pc \in [Threads -> Locations] /\ t \in DOMAIN pc
      /\ \/ writer' = writer
         \/ writer' = writer \cup {t} /\ pc'[t] = "run"
            /\ pc[t] \in {"writeCas", "drain"}
      /\ \E l \in Locations : pc' = [pc EXCEPT ![t] = l]
      /\ \/ /\ pc[t] \in {"writeLoad", "writeCas", "drain"}
            /\ \/ pc'[t] \in {"writeLoad", "writeCas", "drain"}
               \/ pc'[t] = "run" /\ t \in writer'
         \/ /\ pc[t] \in {"readLoad", "readCas"}
            /\ pc'[t] \in {"readLoad", "readCas", "run"}
            /\ writer' = writer
  BY DEF InLock, Lock, CasFail, ReadLoad, ReadCasOk, WriteLoad, WriteCasOk,
         Drain, GoTo, CInv, TypeOK, Locations
<1>4. InRound'
  BY <1>1, <1>3 DEF InRound
<1> QED
  BY <1>2, <1>4

(* The closure of a reader thread.                                         *)
LEMMA ReaderInv ==
  ASSUME CInv, TestInv, NEW t \in Threads,
         OuterRead(t) \/ InnerRead(t) \/ DropGuard(t)
  PROVE  TestInv'
<1> USE DEF TestInv
<1>1. t \in Readers /\ t \notin Writers
  BY ThreadGroups DEF OuterRead, InnerRead, DropGuard, InRound
<1>2. /\ UNCHANGED <<data, left, tmp, writer>>
      /\ \E l \in {"inner", "deref", "outer", "done"} :
           step' = [step EXCEPT ![t] = l]
      /\ \/ pc' = pc
         \/ pc[t] = "run" /\ pc' = [pc EXCEPT ![t] = "readLoad"]
  BY DEF OuterRead, InnerRead, DropGuard, StepTo, ReadCall, ReadDrop, GoTo,
         MayCall
<1>3. TestTypeOK' /\ CopyIsFresh' /\ RoundsLeft'
  BY <1>1, <1>2 DEF TestTypeOK, CopyIsFresh, RoundsLeft, Steps, Threads
<1>4. NoneLost'
  BY <1>1, <1>2, SameIncrements DEF TestTypeOK, Threads
<1>5. t \notin writer
  BY <1>1 DEF CInv, TypeOK
<1>6. InRound'
  BY <1>1, <1>2, <1>5 DEF InRound, TestTypeOK, CInv, TypeOK
<1> QED
  BY <1>3, <1>4, <1>6

(* The closure of a writer thread, up to the store.                        *)
LEMMA WriterInv ==
  ASSUME CInv, TestInv, NEW t \in Threads, TakeWrite(t) \/ LoadData(t)
  PROVE  TestInv'
<1> USE DEF TestInv
<1>1. UNCHANGED <<data, left, writer>> /\ t \in Writers /\ step[t] # "drop"
  BY DEF TakeWrite, LoadData, WriteCall, InRound, vars
<1>2. CASE TakeWrite(t)
  <2>1. step' = [step EXCEPT ![t] = "load"] /\ tmp' = tmp
        /\ pc' = [pc EXCEPT ![t] = "writeLoad"] /\ step[t] = "call"
    BY <1>2 DEF TakeWrite, WriteCall, StepTo, GoTo
  <2>2. TestTypeOK' /\ CopyIsFresh' /\ RoundsLeft' /\ NoneLost'
    BY <1>1, <2>1, SameIncrements
       DEF TestTypeOK, CopyIsFresh, RoundsLeft, Steps, Threads
  <2>3. InRound'
    BY <1>1, <2>1 DEF InRound, TestTypeOK, CInv, TypeOK
  <2> QED
    BY <2>2, <2>3
<1>3. CASE LoadData(t)
  <2>1. step' = [step EXCEPT ![t] = "store"] /\ tmp' = [tmp EXCEPT ![t] = data]
        /\ pc' = pc /\ step[t] = "load" /\ pc[t] = "run"
    BY <1>3 DEF LoadData, StepTo, vars
  <2>2. TestTypeOK' /\ CopyIsFresh' /\ RoundsLeft' /\ NoneLost'
    BY <1>1, <2>1, SameIncrements
       DEF TestTypeOK, CopyIsFresh, RoundsLeft, Steps, Threads
  <2>3. InRound'
    BY <1>1, <2>1 DEF InRound, TestTypeOK
  <2> QED
    BY <2>2, <2>3
<1> QED
  BY <1>2, <1>3

(* The store: the round's increment is new, and since the writer is alone  *)
(* no other copy of the data was waiting to overwrite it.                  *)
LEMMA StoreInv ==
  ASSUME CInv, TestInv, NEW t \in Threads, StoreData(t) PROVE TestInv'
<1> USE DEF TestInv
<1>1. /\ step[t] = "store" /\ t \in Writers /\ t \in writer /\ tmp[t] = data
      /\ data' = data + 1 /\ tmp' = [tmp EXCEPT ![t] = 0]
      /\ step' = [step EXCEPT ![t] = "drop"]
      /\ UNCHANGED <<writer, pc, left>>
  BY DEF StoreData, StepTo, InRound, CopyIsFresh, vars
<1>2. TestTypeOK' /\ RoundsLeft'
  BY <1>1 DEF TestTypeOK, RoundsLeft, Steps, Threads
<1>3. InRound'
  BY <1>1 DEF InRound, TestTypeOK
<1>4. CopyIsFresh'
  <2>1. \A u \in Threads : step[u] = "store" => u = t
    BY <1>1 DEF InRound, CInv, MutualExclusion
  <2> QED
    BY <1>1, <2>1 DEF CopyIsFresh, TestTypeOK
<1> DEFINE new == <<t, Rounds - left[t] + 1>>
<1>5. left[t] \in 1 .. Rounds /\ new \in Writers \X (1 .. Rounds)
  BY <1>1, RoundsPositive DEF RoundsLeft, TestTypeOK
<1>6. Made(t)' = Made(t) + 1 /\ Made(t) = Rounds - left[t] /\ Made(t) \in Int
      /\ \A u \in Writers : u # t => Made(u)' = Made(u)
  BY <1>1, <1>5, RoundsPositive DEF Made, TestTypeOK, Threads
<1>7. Increments' = Increments \cup {new} /\ new \notin Increments
  <2>1. \A p \in Writers \X (1 .. Rounds) :
          p[2] <= Made(p[1])' <=> (p[2] <= Made(p[1]) \/ p = new)
    <3> SUFFICES ASSUME NEW u \in Writers, NEW i \in 1 .. Rounds
                 PROVE  i <= Made(u)' <=> (i <= Made(u) \/ <<u, i>> = new)
      OBVIOUS
    <3> QED
      BY <1>6, RoundsPositive
  <2> QED
    BY <2>1, <1>5, <1>6 DEF Increments
<1>8. IsFiniteSet(Increments)
  <2>1. IsFiniteSet(Writers)
    BY ThreadGroups, FS_Subset DEF Threads
  <2>2. 1 \in Int /\ Rounds \in Int
    BY RoundsPositive
  <2>3. IsFiniteSet(1 .. Rounds)
    BY <2>2, FS_Interval, Zenon
  <2> QED
    BY <2>1, <2>3, FS_Product, FS_Subset DEF Increments
<1>9. NoneLost'
  BY <1>1, <1>7, <1>8, FS_AddElement DEF NoneLost
<1> QED
  BY <1>2, <1>3, <1>4, <1>9

(* The end of the round books the increment made.                          *)
LEMMA EndRoundInv ==
  ASSUME CInv, TestInv, NEW t \in Threads, EndRound(t) PROVE TestInv'
<1> USE DEF TestInv
<1>1. /\ step[t] = "drop" /\ t \in Writers /\ t \in writer /\ pc[t] = "run"
      /\ UNCHANGED <<data, tmp, pc>> /\ writer' = writer \ {t}
      /\ left' = [left EXCEPT ![t] = left[t] - 1]
      /\ step' = [step EXCEPT ![t] = IF left[t] = 1 THEN "done" ELSE "call"]
  BY DEF EndRound, StepTo, InRound, WriteDrop
<1>2. left[t] \in 1 .. Rounds
  BY <1>1, RoundsPositive DEF RoundsLeft, TestTypeOK
<1>3. TestTypeOK' /\ RoundsLeft' /\ CopyIsFresh'
  BY <1>1, <1>2, RoundsPositive
     DEF TestTypeOK, RoundsLeft, CopyIsFresh, Steps, Threads
<1>4. InRound'
  BY <1>1 DEF InRound, TestTypeOK
<1>5. \A u \in Writers : Made(u)' = Made(u)
  BY <1>1, <1>2, RoundsPositive DEF Made, TestTypeOK, Threads
<1>6. NoneLost'
  BY <1>1, <1>5 DEF NoneLost, Increments
<1> QED
  BY <1>3, <1>4, <1>6

LEMMA StepTestInv == CInv /\ TestInv /\ [TestNext]_<<vars, testVars>> => TestInv'
<1> SUFFICES ASSUME CInv, TestInv, [TestNext]_<<vars, testVars>> PROVE TestInv'
  OBVIOUS
<1>1. CASE UNCHANGED <<vars, testVars>>
  <2>1. UNCHANGED <<data, left, tmp, step, pc, writer>>
    BY <1>1 DEF vars, testVars
  <2> QED
    BY <2>1, SameIncrements
       DEF TestInv, TestTypeOK, InRound, CopyIsFresh, RoundsLeft
<1>2. ASSUME NEW t \in Threads, InLock(t) \/ Program(t) PROVE TestInv'
  BY <1>2, InLockInv, ReaderInv, WriterInv, StoreInv, EndRoundInv DEF Program
<1> QED
  BY <1>1, <1>2 DEF TestNext, Joined

(* The test's threads keep the lock's invariant ...                        *)
LEMMA TestKeepsLock == TestSpec => []IInv
<1>1. TestInit => IInv
  BY InitInv DEF TestInit
<1> QED
  BY <1>1, StepInv, ProgramSteps, PTL DEF TestSpec

(* ... so no two of them are in their critical section,                    *)
THEOREM TestExclusion == TestSpec => []MutualExclusion
<1>1. IInv => MutualExclusion
  BY DEF IInv, CInv
<1> QED
  BY <1>1, TestKeepsLock, PTL

(* The last assert_eq! of rw_lock_data: when everybody has been joined the *)
(* data is the number of writers times the number of rounds.               *)
THEOREM NoIncrementLost == TestSpec => []FinalCount
<1>1. TestInv => FinalCount
  <2> SUFFICES ASSUME TestInv, AllDone PROVE data = Cardinality(Writers) * Rounds
    BY DEF FinalCount
  <2>1. \A t \in Writers : Made(t) = Rounds
    BY RoundsPositive DEF AllDone, TestInv, RoundsLeft, Made, Threads
  <2>2. Increments = Writers \X (1 .. Rounds)
    BY <2>1, RoundsPositive DEF Increments
  <2>3. 1 \in Int /\ Rounds \in Int
    BY RoundsPositive
  <2>4. IsFiniteSet(1 .. Rounds)
        /\ Cardinality(1 .. Rounds) = IF 1 > Rounds THEN 0 ELSE Rounds - 1 + 1
    BY <2>3, FS_Interval, Zenon
  <2>5. Cardinality(1 .. Rounds) = Rounds
    BY <2>4, RoundsPositive
  <2>6. IsFiniteSet(Writers)
    BY ThreadGroups, FS_Subset DEF Threads
  <2> QED
    BY <2>2, <2>4, <2>5, <2>6, FS_Product DEF TestInv, NoneLost
<1>2. IInv => CInv
  BY DEF IInv
<1> QED
  BY <1>1, <1>2, InitTestInv, StepTestInv, TestKeepsLock, PTL DEF TestSpec
=============================================================================
