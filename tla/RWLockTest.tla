----------------------------- MODULE RWLockTest -----------------------------
(***************************************************************************)
(* The program of the test rw_lock_data in mutex/src/lib.rs on top of the  *)
(* lock.  Reader threads evaluate *lock.read().lock.read().deref() in one  *)
(* statement, so the temporary guard of the outer read() is live while the *)
(* inner read() runs, and both are dropped when the statement ends.        *)
(* Writer threads take the write guard Rounds times and add one to the     *)
(* data each time.  The 10 ms sleep between spawning the two groups orders *)
(* nothing.                                                                *)
(***************************************************************************)
EXTENDS RWLock

CONSTANT Rounds      \* iterations of a writer thread (1000 in the test)

ASSUME RoundsPositive == Rounds \in Nat \ {0}

(* The two groups are spawned by two loops, a closure either reads or      *)
(* writes.                                                                 *)
ASSUME ThreadGroups   == Readers \cap Writers = {} /\ IsFiniteSet(Threads)

VARIABLES data,      \* the usize behind the lock
          left,      \* iterations a writer thread has left
          tmp,       \* a writer's copy of the data in "*data += 1"
          step       \* where the thread is in its closure

testVars == <<data, left, tmp, step>>

TestInit == /\ Init
            /\ data = 0
            /\ left = [t \in Threads |-> IF t \in Writers THEN Rounds ELSE 0]
            /\ tmp = [t \in Threads |-> 0]
            /\ step = [t \in Threads |-> "call"]

StepTo(t, loc) == step' = [step EXCEPT ![t] = loc]

(* lock.read(), then .lock.read() on the guard, which stays live; the      *)
(* dereference; the end of the statement drops both guards.  A failed      *)
(* assert_eq! unwinds through the same two drops.                          *)
OuterRead(t) == /\ step[t] = "call" /\ t \in Readers
                /\ ReadCall(t)
                /\ StepTo(t, "inner")
                /\ UNCHANGED <<data, left, tmp>>

InnerRead(t) == /\ step[t] = "inner"
                /\ ReadCall(t)
                /\ StepTo(t, "deref")
                /\ UNCHANGED <<data, left, tmp>>

DropGuard(t) == /\ \/ step[t] = "deref" /\ StepTo(t, "outer")
                   \/ step[t] = "outer" /\ StepTo(t, "done")
                /\ ReadDrop(t)
                /\ UNCHANGED <<data, left, tmp>>

(* Rounds times: take the write guard, "data += 1", drop the guard.        *)
TakeWrite(t) == /\ step[t] = "call" /\ t \in Writers
                /\ WriteCall(t)
                /\ StepTo(t, "load")
                /\ UNCHANGED <<data, left, tmp>>

LoadData(t) == /\ step[t] = "load" /\ pc[t] = "run"
               /\ tmp' = [tmp EXCEPT ![t] = data]
               /\ StepTo(t, "store")
               /\ UNCHANGED <<vars, data, left>>

StoreData(t) == /\ step[t] = "store"
                /\ data' = tmp[t] + 1
                /\ tmp' = [tmp EXCEPT ![t] = 0]
                /\ StepTo(t, "drop")
                /\ UNCHANGED <<vars, left>>

EndRound(t) == /\ step[t] = "drop"
               /\ WriteDrop(t)
               /\ left' = [left EXCEPT ![t] = @ - 1]
               /\ StepTo(t, IF left[t] = 1 THEN "done" ELSE "call")
               /\ UNCHANGED <<data, tmp>>

InLock(t) == (Lock(t) \/ CasFail(t)) /\ UNCHANGED testVars

Program(t) == \/ OuterRead(t) \/ InnerRead(t) \/ DropGuard(t)
              \/ TakeWrite(t) \/ LoadData(t) \/ StoreData(t) \/ EndRound(t)

AllDone == \A t \in Threads : step[t] = "done"

(* The main thread has joined everybody.                                   *)
Joined == AllDone /\ UNCHANGED <<vars, testVars>>

TestNext == \/ \E t \in Threads : InLock(t) \/ Program(t)
            \/ Joined

TestSpec == TestInit /\ [][TestNext]_<<vars, testVars>>

(* Every thread keeps running; weak CASes as in RWLock!Fairness.           *)
TestLiveSpec ==
  /\ TestSpec
  /\ \A t \in Threads :
       /\ WF_<<vars, testVars>>(InLock(t) \/ Program(t))
       /\ []<><<SpuriousFail(t)>>_vars => []<><<CasOk(t)>>_vars

-----------------------------------------------------------------------------
(* The final assert_eq! against 100 * 1000: when all threads are           *)
(* done no increment has been lost, although each is a load and a store.   *)
FinalCount == AllDone => data = Cardinality(Writers) * Rounds

(* handle.join() on every thread returns.                                  *)
AllThreadsJoin == <>AllDone
=============================================================================
