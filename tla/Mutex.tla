-------------------------------- MODULE Mutex --------------------------------
(***************************************************************************)
(* The abstract lock: threads ask for it, at most one has it at a time,    *)
(* and a free lock that is asked for is given to somebody.                 *)
(***************************************************************************)
CONSTANT Threads

VARIABLES asking,   \* threads inside lock()
          holding   \* threads with a live guard

avars == <<asking, holding>>

Init == asking = {} /\ holding = {}

Ask(t)   == /\ t \notin asking
            /\ asking' = asking \cup {t}
            /\ UNCHANGED holding

Grant(t) == /\ t \in asking /\ holding = {}
            /\ holding' = {t}
            /\ asking' = asking \ {t}

Return(t) == /\ t \in holding
             /\ holding' = holding \ {t}
             /\ UNCHANGED asking

Next == \E t \in Threads : Ask(t) \/ Grant(t) \/ Return(t)

Spec == Init /\ [][Next]_avars

(* No promise to any single thread: only that a free lock gets an owner.   *)
LiveSpec == Spec /\ WF_avars(\E t \in Threads : Grant(t))
==============================================================================
