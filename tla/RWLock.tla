------------------------------- MODULE RWLock -------------------------------
(***************************************************************************)
(* The reader-writer spin lock of mutex/src/lib.rs.  One atomic word holds *)
(* the write flag (its top bit) and the number of live read guards (the    *)
(* other bits).  Every atomic access to the word is one action; between    *)
(* two of them any other thread may run.                                   *)
(*                                                                         *)
(* The memory orderings of the code are modelled too.  behind[t] holds the *)
(* data accesses (of other threads) that do NOT happen before what t does  *)
(* next, and msg those that are not covered by the release sequence the    *)
(* word's current value belongs to.  An Acquire read-modify-write          *)
(* intersects behind[t] with msg, a Release one intersects msg with        *)
(* behind[t]; a Relaxed access changes neither.  This is a vector clock    *)
(* reduced to the one question asked of it: "is every access so far        *)
(* covered?".                                                              *)
(***************************************************************************)
EXTENDS Integers, FiniteSets

CONSTANTS
  Readers,      \* threads that call read()
  Writers,      \* threads that call write(); may overlap with Readers
  Slots,        \* local variables in which a thread keeps its read guards
  WRITE_FLAG,   \* 1 << (usize::BITS - 1)
  Reentrant,    \* may a thread call read() or write() while it holds a guard?
  Kinds         \* kinds of data access tracked: {"read", "write"}, or {} in runs
                \* about control alone

Threads == Readers \cup Writers
Guards  == Threads \X Slots     \* every RWLockReadGuard that can be live

(* The read count never reaches the write flag: at most Guards guards are  *)
(* live at a time, and in the code the flag is 2^63.                       *)
ASSUME GuardsFinite  == IsFiniteSet(Guards)
ASSUME FlagIsTopBit  == WRITE_FLAG \in Nat /\ Cardinality(Guards) < WRITE_FLAG
ASSUME ReentrantBool == Reentrant \in BOOLEAN
ASSUME KindsOfAccess == Kinds \subseteq {"read", "write"}

VARIABLES
  word,     \* read_count_write_lock_flag
  readers,  \* the live read guards
  writer,   \* the threads that own a live RWLockWriteGuard
  pc,       \* where each thread is: in its own code ("run") or in a lock call
  n,        \* local n of read() and write(): the value last loaded
  behind,   \* accesses not ordered before the thread's next step (see above)
  msg       \* accesses not covered by the word's current release sequence

vars == <<word, readers, writer, pc, n, behind, msg>>

Words    == 0 .. (2 * WRITE_FLAG - 1)
Accesses == {"read", "write"} \X Threads
ReadsBy(S)  == {"read"} \X S
WritesBy(S) == {"write"} \X S

FlagSet(x) == x >= WRITE_FLAG                                 \* x & FLAG != 0
Count(x)   == IF FlagSet(x) THEN x - WRITE_FLAG ELSE x        \* x & !FLAG

ReadGuardsOf(t) == {g \in readers : g[1] = t}
Holds(t)        == t \in writer \/ ReadGuardsOf(t) # {}

(* The threads that have set the write flag and not cleared it.            *)
Owners == writer \cup {t \in Writers : pc[t] = "drain"}

-----------------------------------------------------------------------------
(* Memory orderings of an access to the word by thread t.                  *)

Acquire(t) == /\ behind' = [behind EXCEPT ![t] = @ \cap msg]
              /\ UNCHANGED msg
Release(t) == /\ msg' = msg \cap behind[t]
              /\ UNCHANGED behind
Relaxed    == UNCHANGED <<behind, msg>>

(* A read or write of the data by t: nobody else has it ordered before     *)
(* them yet.                                                               *)
Touch(kind, t) ==
  /\ kind \in Kinds
  /\ behind' = [u \in Threads |->
                  IF u = t THEN behind[u] ELSE behind[u] \cup {<<kind, t>>}]
  /\ msg' = msg \cup {<<kind, t>>}

GoTo(t, loc) == pc' = [pc EXCEPT ![t] = loc]

-----------------------------------------------------------------------------
Init == /\ word = 0
        /\ readers = {}
        /\ writer = {}
        /\ pc = [t \in Threads |-> "run"]
        /\ n = [t \in Threads |-> 0]
        /\ behind = [t \in Threads |-> {}]
        /\ msg = {}

MayCall(t) == pc[t] = "run" /\ (Reentrant \/ ~Holds(t))

(* A definition named X_Y is X with the plausible mistake Y in it; no      *)
(* specification uses them.  They show that the properties can fail.       *)

(* read(): the relaxed load, repeated while the write flag is set (an      *)
(* iteration that finds it set changes nothing), then the weak CAS.        *)
ReadCall(t) == /\ t \in Readers
               /\ MayCall(t)
               /\ \E s \in Slots : <<t, s>> \notin readers
               /\ GoTo(t, "readLoad")
               /\ Relaxed
               /\ UNCHANGED <<word, readers, writer, n>>

ReadLoad_FlagIgnored(t) == /\ pc[t] = "readLoad"
                           /\ n' = [n EXCEPT ![t] = word]
                           /\ GoTo(t, "readCas")
                           /\ Relaxed
                           /\ UNCHANGED <<word, readers, writer>>

ReadLoad(t) == /\ pc[t] = "readLoad"
               /\ ~FlagSet(word)
               /\ n' = [n EXCEPT ![t] = word]
               /\ GoTo(t, "readCas")
               /\ Relaxed
               /\ UNCHANGED <<word, readers, writer>>

ReadCasOk(t) == /\ pc[t] = "readCas"
                /\ word = n[t]
                /\ word' = n[t] + 1
                /\ \E s \in Slots : /\ <<t, s>> \notin readers
                                    /\ readers' = readers \cup {<<t, s>>}
                /\ n' = [n EXCEPT ![t] = 0]
                /\ GoTo(t, "run")
                /\ Acquire(t)
                /\ UNCHANGED writer

CasFail_CountKept(t) == /\ \/ pc[t] = "readCas"  /\ GoTo(t, "readLoad")
                           \/ pc[t] = "writeCas" /\ GoTo(t, "writeLoad")
                        /\ word' = word + 1
                        /\ n' = [n EXCEPT ![t] = 0]
                        /\ Relaxed
                        /\ UNCHANGED <<readers, writer>>

(* compare_exchange_weak may fail even when the word has the value it      *)
(* expects; read() and write() both go back to the load.                   *)
CasFail(t) == /\ \/ pc[t] = "readCas"  /\ GoTo(t, "readLoad")
                 \/ pc[t] = "writeCas" /\ GoTo(t, "writeLoad")
              /\ n' = [n EXCEPT ![t] = 0]
              /\ Relaxed
              /\ UNCHANGED <<word, readers, writer>>

(* write(): the load, repeated while another writer's flag is set; the CAS *)
(* that sets the flag; if there were readers, the wait for them to leave.  *)
WriteCall(t) == /\ t \in Writers
                /\ MayCall(t)
                /\ GoTo(t, "writeLoad")
                /\ Relaxed
                /\ UNCHANGED <<word, readers, writer, n>>

WriteLoad(t) == /\ pc[t] = "writeLoad"
                /\ ~FlagSet(word)
                /\ n' = [n EXCEPT ![t] = word]
                /\ GoTo(t, "writeCas")
                /\ Relaxed
                /\ UNCHANGED <<word, readers, writer>>

WriteCasOk_Store(t) == /\ pc[t] = "writeCas"
                       /\ word' = n[t] + WRITE_FLAG
                       /\ \/ /\ Count(n[t]) = 0
                             /\ writer' = writer \cup {t}
                             /\ GoTo(t, "run")
                          \/ /\ Count(n[t]) # 0
                             /\ GoTo(t, "drain")
                             /\ UNCHANGED writer
                       /\ n' = [n EXCEPT ![t] = 0]
                       /\ Acquire(t)
                       /\ UNCHANGED readers

WriteCasOk(t) == /\ pc[t] = "writeCas"
                 /\ word = n[t]
                 /\ word' = n[t] + WRITE_FLAG
                 /\ \/ /\ Count(n[t]) = 0
                       /\ writer' = writer \cup {t}
                       /\ GoTo(t, "run")
                    \/ /\ Count(n[t]) # 0
                       /\ GoTo(t, "drain")
                       /\ UNCHANGED writer
                 /\ n' = [n EXCEPT ![t] = 0]
                 /\ Acquire(t)
                 /\ UNCHANGED readers

Drain(t) == /\ pc[t] = "drain"
            /\ Count(word) = 0
            /\ writer' = writer \cup {t}
            /\ GoTo(t, "run")
            /\ Relaxed
            /\ UNCHANGED <<word, readers, n>>

(* Drop of the guards: fetch_sub(1, Release), fetch_and(!FLAG, Release).   *)
ReadDrop_Relaxed(t) == /\ pc[t] = "run"
                       /\ \E g \in ReadGuardsOf(t) : readers' = readers \ {g}
                       /\ word' = word - 1
                       /\ Relaxed
                       /\ UNCHANGED <<writer, pc, n>>

ReadDrop_CountKept(t) == /\ pc[t] = "run"
                         /\ \E g \in ReadGuardsOf(t) : readers' = readers \ {g}
                         /\ Release(t)
                         /\ UNCHANGED <<word, writer, pc, n>>

ReadDrop(t) == /\ pc[t] = "run"
               /\ \E g \in ReadGuardsOf(t) : readers' = readers \ {g}
               /\ word' = word - 1
               /\ Release(t)
               /\ UNCHANGED <<writer, pc, n>>

WriteDrop_Relaxed(t) == /\ pc[t] = "run"
                        /\ t \in writer
                        /\ writer' = writer \ {t}
                        /\ word' = Count(word)
                        /\ Relaxed
                        /\ UNCHANGED <<readers, pc, n>>

WriteDrop_FlagKept(t) == /\ pc[t] = "run"
                         /\ t \in writer
                         /\ writer' = writer \ {t}
                         /\ Release(t)
                         /\ UNCHANGED <<word, readers, pc, n>>

WriteDrop(t) == /\ pc[t] = "run"
                /\ t \in writer
                /\ writer' = writer \ {t}
                /\ word' = Count(word)
                /\ Release(t)
                /\ UNCHANGED <<readers, pc, n>>

(* deref() of either guard, deref_mut() of the write guard.                *)
ReadData(t) == /\ pc[t] = "run"
               /\ Holds(t)
               /\ Touch("read", t)
               /\ UNCHANGED <<word, readers, writer, pc, n>>

WriteData(t) == /\ pc[t] = "run"
                /\ t \in writer
                /\ Touch("write", t)
                /\ UNCHANGED <<word, readers, writer, pc, n>>

Lock(t)   == \/ ReadLoad(t) \/ ReadCasOk(t)
             \/ WriteLoad(t) \/ WriteCasOk(t) \/ Drain(t)
Unlock(t) == ReadDrop(t) \/ WriteDrop(t)
Client(t) == ReadCall(t) \/ WriteCall(t) \/ ReadData(t) \/ WriteData(t)

Next == \E t \in Threads : Lock(t) \/ CasFail(t) \/ Unlock(t) \/ Client(t)

Spec == Init /\ [][Next]_vars

(* Threads are scheduled fairly and drop the guards they hold.  A weak CAS *)
(* does not fail for no reason again and again for ever; nothing is        *)
(* assumed about who wins when two CASes race.                             *)
CasOk(t)         == ReadCasOk(t) \/ WriteCasOk(t)
SpuriousFail(t)  == CasFail(t) /\ word = n[t]

Fairness ==
  \A t \in Threads :
    /\ WF_vars(Lock(t) \/ CasFail(t))
    /\ WF_vars(Unlock(t))
    /\ []<><<SpuriousFail(t)>>_vars => []<><<CasOk(t)>>_vars

LiveSpec == Spec /\ Fairness

-----------------------------------------------------------------------------
Locations == {"run", "readLoad", "readCas", "writeLoad", "writeCas", "drain"}

TypeOK == /\ word \in Words
          /\ readers \subseteq Guards
          /\ writer \subseteq Writers
          /\ pc \in [Threads -> Locations]
          /\ n \in [Threads -> Words]
          /\ behind \in [Threads -> SUBSET Accesses]
          /\ msg \subseteq Accesses

(* At most one write guard is live, and no read guard beside it: what the  *)
(* flag protocol of read() and write() is for.                             *)
MutualExclusion == /\ \A t, u \in writer : t = u
                   /\ writer # {} => readers = {}

(* The word is exactly the live read guards plus the flag of the one       *)
(* thread that set it, whatever CASes failed or raced on the way: a count  *)
(* that drifted would shut writers out for ever or let one in too early.   *)
WordCountsGuards ==
  /\ \A t, u \in Owners : t = u
  /\ word = Cardinality(readers) + (IF Owners = {} THEN 0 ELSE WRITE_FLAG)

(* No holder of a guard is behind a write: the Acquire of the CAS and the  *)
(* Release of the drops order every earlier write to the data before       *)
(* whatever the holder does with it.                                       *)
HoldersSeeWrites ==
  \A t \in Threads : Holds(t) => behind[t] \cap WritesBy(Threads) = {}

(* A write guard is ordered after every read made under an earlier read    *)
(* guard: without it the write and the read are a data race.               *)
WriterFollowsReaders ==
  \A t \in writer : behind[t] \cap ReadsBy(Threads) = {}

(* The half of it the code does ensure: with no read guard live and no     *)
(* writer draining, the word's release sequence covers every read, so a    *)
(* write() that finds the word zero is ordered after all of them.          *)
FreeLockCoversReads == readers = {} => msg \cap ReadsBy(Threads \ writer) = {}

(* A waiting writer shuts the door: once write() has set the flag no new   *)
(* read guard appears until that writer has had its turn.                  *)
DoorShut == [][ \A t \in Writers :
                  pc[t] = "drain" => readers' \subseteq readers ]_vars

-----------------------------------------------------------------------------
(* Liveness, for callers that do not nest (Reentrant = FALSE).             *)

(* Nobody waits on a lock that stays free: if a call is in progress, some  *)
(* guard is live sooner or later.                                          *)
LockProgress == (\E t \in Threads : pc[t] # "run")
                  ~> (writer # {} \/ readers # {})

-----------------------------------------------------------------------------
(* The lock implements the promise of module ReadersWriter; the waiting    *)
(* writer there is the one that drains here.                               *)
Abs == INSTANCE ReadersWriter
         WITH reading <- readers,
              writing <- writer,
              waiting <- {t \in Writers : pc[t] = "drain"}

(* Every step of the bit protocol is a step of the abstract lock or none.  *)
ImplementsReadersWriter == Abs!Spec

(* The same with its fairness: guards leave, the waiting writer gets in.   *)
ImplementsLive == Abs!LiveSpec
=============================================================================
