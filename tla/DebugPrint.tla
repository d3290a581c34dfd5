---------------------------- MODULE DebugPrint ----------------------------
(***************************************************************************)
(* print! and println! of bootloader/src/print.rs: _print() called by      *)
(* several threads, on the two spin locks DEBUG_UART and RP1_UART0, each   *)
(* taken as the abstract Mutex that SpinLock implements.                   *)
(*                                                                         *)
(* format_args! hands write_fmt a text in pieces, and each piece is one    *)
(* write_str, that is one Pl011Uart::write().  RP1_UART0 is private and    *)
(* nothing ever sets it: its lock is taken, its branch is not.             *)
(***************************************************************************)
EXTENDS Naturals, Sequences, FiniteSets

CONSTANTS
  Threads,
  Pieces    \* the pieces of a text

ASSUME TextIsNotEmpty == Pieces \in Nat \ {0}

VARIABLES
  asking, holding,           \* the lock of DEBUG_UART
  rp1_asking, rp1_holding,   \* the lock of RP1_UART0
  at,                        \* where in _print() each thread is
  handle,                    \* DEBUG_UART holds a driver
  sent                       \* what the UART has got of unfinished texts

vars == <<asking, holding, rp1_asking, rp1_holding, at, handle, sent>>

D == INSTANCE Mutex
R == INSTANCE Mutex WITH asking <- rp1_asking, holding <- rp1_holding

dLock == <<asking, holding>>
rLock == <<rp1_asking, rp1_holding>>

Goes(t, from, to) == at[t] = from /\ at' = [at EXCEPT ![t] = to]

Call(t) == /\ Goes(t, "idle", "lock")
           /\ D!Ask(t)
           /\ UNCHANGED <<rLock, handle, sent>>

(* The guard, and the driver made the first time.                          *)
Enter(t) == /\ Goes(t, "lock", "write")
            /\ D!Grant(t)
            /\ handle' = TRUE
            /\ UNCHANGED <<rLock, sent>>

(* X_Y is X with the plausible mistake Y in it, as everywhere here.        *)
Piece_Unlocked(t) ==
  /\ at[t] = "write"
  /\ sent' = Append(sent, <<t, 1>>)
  /\ IF Len(sent') = Pieces
       THEN at' = [at EXCEPT ![t] = "second"] /\ UNCHANGED dLock
       ELSE at' = [at EXCEPT ![t] = "idle"] /\ D!Return(t)
  /\ UNCHANGED <<rLock, handle>>

(* One write_str; the last one ends write_fmt.                             *)
Piece(t) ==
  /\ at[t] = "write"
  /\ LET n == Cardinality({i \in 1 .. Len(sent) : sent[i][1] = t}) + 1
     IN  IF n = Pieces
           THEN /\ sent' = <<>>
                /\ at' = [at EXCEPT ![t] = "second"]
           ELSE /\ sent' = Append(sent, <<t, n>>)
                /\ UNCHANGED at
  /\ UNCHANGED <<dLock, rLock, handle>>

Second_DropsFirst(t) == /\ Goes(t, "second", "lock2")
                        /\ R!Ask(t) /\ D!Return(t)
                        /\ UNCHANGED <<handle, sent>>

Second(t) == /\ Goes(t, "second", "lock2")
             /\ R!Ask(t)
             /\ UNCHANGED <<dLock, handle, sent>>

SecondEnter(t) == /\ Goes(t, "lock2", "none")
                  /\ R!Grant(t)
                  /\ UNCHANGED <<dLock, handle, sent>>

LeaveRp1_Forgotten(t) == /\ Goes(t, "none", "drop")
                         /\ UNCHANGED <<rLock, dLock, handle, sent>>

(* The guards are dropped in the order opposite to that they were made in. *)
LeaveRp1(t) == /\ Goes(t, "none", "drop")
               /\ R!Return(t)
               /\ UNCHANGED <<dLock, handle, sent>>

Leave(t) == /\ Goes(t, "drop", "idle")
            /\ D!Return(t)
            /\ UNCHANGED <<rLock, handle, sent>>

Init == /\ D!Init /\ R!Init
        /\ at = [t \in Threads |-> "idle"]
        /\ handle = FALSE
        /\ sent = <<>>

Works(t) == Piece(t) \/ Second(t) \/ LeaveRp1(t) \/ Leave(t)

Next == \E t \in Threads :
          Call(t) \/ Enter(t) \/ SecondEnter(t) \/ Works(t)

Spec == Init /\ [][Next]_vars

(* Threads inside _print() run on; a free lock is given to somebody.       *)
LiveSpec == /\ Spec
            /\ \A t \in Threads : WF_vars(Works(t))
            /\ WF_vars(\E t \in Threads : Enter(t))
            /\ WF_vars(\E t \in Threads : SecondEnter(t))

-----------------------------------------------------------------------------
Inside == {"write", "second", "lock2", "none", "drop"}

TypeOK == /\ at \in [Threads -> Inside \cup {"idle", "lock"}]
          /\ handle \in BOOLEAN
          /\ sent \in Seq(Threads \X (1 .. Pieces))
          /\ asking = {t \in Threads : at[t] = "lock"}
          /\ holding = {t \in Threads : at[t] \in Inside}
          /\ rp1_asking = {t \in Threads : at[t] = "lock2"}
          /\ rp1_holding = {t \in Threads : at[t] = "none"}

(* A text reaches the UART in one piece: what is unfinished there is the   *)
(* beginning of one text, of the thread that holds the lock.               *)
Contiguous == \A i \in 1 .. Len(sent) :
  sent[i] = <<sent[1][1], i>> /\ at[sent[1][1]] = "write"

(* The first lock covers the second: nobody ever waits for RP1_UART0.      *)
NeverWaits == \A t \in Threads : at[t] = "lock2" => rp1_holding = {}

(* No standstill: a text that is begun is finished and both locks are free *)
(* again; whoever waits, somebody gets in.                                 *)
PrintsGoOn == /\ \A t \in Threads : at[t] \in Inside ~> at[t] = "idle"
              /\ asking # {} ~> holding # {}
=============================================================================
