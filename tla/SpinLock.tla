------------------------------ MODULE SpinLock ------------------------------
(***************************************************************************)
(* The spin lock of mutex/src/lib.rs: one AtomicBool, taken with a weak    *)
(* compare-and-exchange in a loop, released by a plain store in the drop   *)
(* of the guard.                                                           *)
(*                                                                         *)
(* behind[t] holds the threads some access of which to the data does not   *)
(* happen before what t does next; msg those not covered by the release    *)
(* the current value of locked belongs to (see module RWLock).  The        *)
(* release here is a store, not a read-modify-write: it does not continue  *)
(* the release sequence before it but starts a new one, so msg becomes     *)
(* what the storing thread knows and nothing more.                         *)
(***************************************************************************)
EXTENDS Integers, FiniteSets

CONSTANTS Threads,    \* threads that share the lock
          Reentrant   \* may a thread call lock() while it holds a guard?

ASSUME ReentrantBool == Reentrant \in BOOLEAN

VARIABLES locked,  \* SpinLock::locked
          guards,  \* threads that own a live SpinLockGuard
          pc,      \* "run" in the thread's own code, "spin" inside lock()
          behind, msg

vars == <<locked, guards, pc, behind, msg>>

Init == /\ locked = FALSE
        /\ guards = {}
        /\ pc = [t \in Threads |-> "run"]
        /\ behind = [t \in Threads |-> {}]
        /\ msg = {}

(* A definition named X_Y is X with the plausible mistake Y in it; no      *)
(* specification uses them.  They show that the properties can fail.       *)
LockCall_GivesUp(t) == /\ pc[t] = "run"
                       /\ Reentrant \/ t \notin guards
                       /\ pc' = [pc EXCEPT ![t] = IF locked THEN "failed" ELSE "spin"]
                       /\ UNCHANGED <<locked, guards, behind, msg>>

LockCall(t) == /\ pc[t] = "run"
               /\ Reentrant \/ t \notin guards
               /\ pc' = [pc EXCEPT ![t] = "spin"]
               /\ UNCHANGED <<locked, guards, behind, msg>>

LockCas_Swap(t) == /\ pc[t] = "spin"
                   /\ locked' = TRUE
                   /\ guards' = guards \cup {t}
                   /\ pc' = [pc EXCEPT ![t] = "run"]
                   /\ behind' = [behind EXCEPT ![t] = @ \cap msg]
                   /\ UNCHANGED msg

LockCas_Relaxed(t) == /\ pc[t] = "spin"
                      /\ ~locked
                      /\ locked' = TRUE
                      /\ guards' = guards \cup {t}
                      /\ pc' = [pc EXCEPT ![t] = "run"]
                      /\ UNCHANGED <<behind, msg>>

(* The compare_exchange_weak(false, true, Acquire, Relaxed) that succeeds; *)
(* one that fails, for a reason or without, only spins on.                 *)
LockCas(t) == /\ pc[t] = "spin"
              /\ ~locked
              /\ locked' = TRUE
              /\ guards' = guards \cup {t}
              /\ pc' = [pc EXCEPT ![t] = "run"]
              /\ behind' = [behind EXCEPT ![t] = @ \cap msg]
              /\ UNCHANGED msg

(* deref() and deref_mut() of the guard.                                   *)
Access(t) == /\ pc[t] = "run"
             /\ t \in guards
             /\ behind' = [u \in Threads |->
                             IF u = t THEN behind[u] ELSE behind[u] \cup {t}]
             /\ msg' = msg \cup {t}
             /\ UNCHANGED <<locked, guards, pc>>

Unlock_NoStore(t) == /\ pc[t] = "run"
                     /\ t \in guards
                     /\ guards' = guards \ {t}
                     /\ msg' = behind[t]
                     /\ UNCHANGED <<locked, pc, behind>>

(* Drop: locked.store(false, Release).                                     *)
Unlock(t) == /\ pc[t] = "run"
             /\ t \in guards
             /\ guards' = guards \ {t}
             /\ locked' = FALSE
             /\ msg' = behind[t]
             /\ UNCHANGED <<pc, behind>>

Next == \E t \in Threads :
          LockCall(t) \/ LockCas(t) \/ Access(t) \/ Unlock(t)

Spec == Init /\ [][Next]_vars

(* A spinning thread keeps being scheduled and its weak CAS does not fail  *)
(* for ever while the lock stays free; guards are dropped.                 *)
LiveSpec == Spec /\ \A t \in Threads : WF_vars(LockCas(t)) /\ WF_vars(Unlock(t))

-----------------------------------------------------------------------------
TypeOK == /\ locked \in BOOLEAN
          /\ guards \subseteq Threads
          /\ pc \in [Threads -> {"run", "spin"}]
          /\ behind \in [Threads -> SUBSET Threads]
          /\ msg \subseteq Threads

(* At most one guard is live, and the flag is up exactly while it is: a    *)
(* flag that outlived its guard would stop every later lock() for ever.    *)
MutualExclusion == /\ \A t, u \in guards : t = u
                   /\ locked <=> guards # {}

(* The holder is ordered after every access any thread ever made to the    *)
(* data: the Acquire of lock() meets the Release of the last drop, and     *)
(* that drop passes on everything its thread had learnt itself.            *)
HolderSeesAll == \A t \in guards : behind[t] = {}

(* Whoever is next will be too: a free lock's flag carries all accesses.   *)
FreeLockCoversAll == guards = {} => msg = {}

Abs == INSTANCE Mutex
         WITH asking  <- {t \in Threads : pc[t] = "spin"},
              holding <- guards

(* The lock is a mutex, and a free one that is asked for is given away.    *)
ImplementsMutex == Abs!Spec
ImplementsLive  == Abs!LiveSpec

=============================================================================
