--------------------------- MODULE SpinLockProofs ---------------------------
(***************************************************************************)
(* Proofs about the spin lock, for every set of threads.                   *)
(***************************************************************************)
EXTENDS SpinLock, TLAPS

(* The inductive invariant.  MutualExclusion alone is not enough for       *)
(* HolderSeesAll: what a new holder learns is what the flag carries, so    *)
(* FreeLockCoversAll is needed beside it.                                  *)
IInv == TypeOK /\ MutualExclusion /\ HolderSeesAll /\ FreeLockCoversAll

(* A new lock is free and nobody has touched its data.                     *)
LEMMA InitInv == Init => IInv
  BY DEF Init, IInv, TypeOK, MutualExclusion, HolderSeesAll, FreeLockCoversAll

(* Every step of lock(), of a critical section and of the drop keeps it.   *)
LEMMA StepInv == IInv /\ [Next]_vars => IInv'
<1> SUFFICES ASSUME IInv, [Next]_vars PROVE IInv'
  OBVIOUS
<1> USE DEF IInv, TypeOK, MutualExclusion, HolderSeesAll, FreeLockCoversAll
<1>1. ASSUME NEW t \in Threads, LockCall(t) PROVE IInv'
  BY <1>1 DEF LockCall
<1>2. ASSUME NEW t \in Threads, LockCas(t) PROVE IInv'
  <2>1. guards = {} /\ guards' = {t} /\ msg = {}
    BY <1>2 DEF LockCas
  <2>2. TypeOK'
    BY <1>2 DEF LockCas
  <2>3. HolderSeesAll'
    BY <1>2, <2>1 DEF LockCas
  <2> QED
    BY <1>2, <2>1, <2>2, <2>3 DEF LockCas
<1>3. ASSUME NEW t \in Threads, Access(t) PROVE IInv'
  BY <1>3 DEF Access
<1>4. ASSUME NEW t \in Threads, Unlock(t) PROVE IInv'
  <2>1. guards' = {} /\ msg' = {}
    BY <1>4 DEF Unlock
  <2> QED
    BY <1>4, <2>1 DEF Unlock
<1>5. CASE UNCHANGED vars
  BY <1>5 DEF vars
<1> QED
  BY <1>1, <1>2, <1>3, <1>4, <1>5 DEF Next

(* All of it holds in every reachable state.                               *)
THEOREM Invariant == Spec => []IInv
  BY InitInv, StepInv, PTL DEF Spec

(* The variables keep their types.                                         *)
THEOREM TypeCorrect == Spec => []TypeOK
<1>1. IInv => TypeOK
  BY DEF IInv
<1> QED
  BY <1>1, Invariant, PTL

(* At most one SpinLockGuard is live, and the flag is up exactly while it  *)
(* is.                                                                     *)
THEOREM Exclusion == Spec => []MutualExclusion
<1>1. IInv => MutualExclusion
  BY DEF IInv
<1> QED
  BY <1>1, Invariant, PTL

(* The orderings Acquire in lock() and Release in drop() suffice: a holder *)
(* is ordered after every earlier access to the data.                      *)
THEOREM NoRace == Spec => []HolderSeesAll
<1>1. IInv => HolderSeesAll
  BY DEF IInv
<1> QED
  BY <1>1, Invariant, PTL

(* The flag of a free lock carries every access made so far to whoever     *)
(* takes the lock next.                                                    *)
THEOREM NextIsCovered == Spec => []FreeLockCoversAll
<1>1. IInv => FreeLockCoversAll
  BY DEF IInv
<1> QED
  BY <1>1, Invariant, PTL

-----------------------------------------------------------------------------
(* The spin lock implements the abstract mutex: a step of lock() or of the *)
(* drop is a step of the mutex, a data access is a stutter.                *)
THEOREM Refinement == Spec => ImplementsMutex
<1>1. Init => Abs!Init
  BY DEF Init, Abs!Init
<1>2. IInv /\ [Next]_vars => [Abs!Next]_(Abs!avars)
  <2> SUFFICES ASSUME IInv, [Next]_vars PROVE [Abs!Next]_(Abs!avars)
    OBVIOUS
  <2> USE DEF IInv, TypeOK, MutualExclusion, Abs!Next, Abs!avars
  <2>1. ASSUME NEW t \in Threads, LockCall(t) PROVE Abs!Ask(t)
    BY <2>1 DEF LockCall, Abs!Ask
  <2>2. ASSUME NEW t \in Threads, LockCas(t) PROVE Abs!Grant(t)
    BY <2>2 DEF LockCas, Abs!Grant
  <2>3. ASSUME NEW t \in Threads, Access(t) PROVE UNCHANGED Abs!avars
    BY <2>3 DEF Access
  <2>4. ASSUME NEW t \in Threads, Unlock(t) PROVE Abs!Return(t)
    BY <2>4 DEF Unlock, Abs!Return
  <2>5. CASE UNCHANGED vars
    BY <2>5 DEF vars
  <2> QED
    BY <2>1, <2>2, <2>3, <2>4, <2>5 DEF Next
<1> QED
  BY <1>1, <1>2, Invariant, PTL DEF Spec, ImplementsMutex, Abs!Spec
=============================================================================
