---------------------------- MODULE ReadersWriter ----------------------------
(***************************************************************************)
(* What the reader-writer lock of mutex/src/lib.rs promises, as its        *)
(* comment puts it: a reader gets in when neither a writer nor a waiting   *)
(* writer is there, a writer gets in when nobody is, and otherwise         *)
(* announces itself and waits.  Nothing here says how.                     *)
(***************************************************************************)
CONSTANTS Guards,     \* the read guards that can be live
          Writers     \* the threads that write

VARIABLES reading,    \* live read guards
          writing,    \* threads with a live write guard
          waiting     \* threads that have announced themselves

avars == <<reading, writing, waiting>>

Init == reading = {} /\ writing = {} /\ waiting = {}

AdmitReader(g) == /\ writing = {} /\ waiting = {}
                  /\ g \notin reading
                  /\ reading' = reading \cup {g}
                  /\ UNCHANGED <<writing, waiting>>

LeaveReader(g) == /\ g \in reading
                  /\ reading' = reading \ {g}
                  /\ UNCHANGED <<writing, waiting>>

Announce(t) == /\ reading # {} /\ writing = {} /\ waiting = {}
               /\ waiting' = {t}
               /\ UNCHANGED <<reading, writing>>

AdmitWriter(t) == /\ reading = {} /\ writing = {} /\ waiting \subseteq {t}
                  /\ writing' = {t}
                  /\ waiting' = {}
                  /\ UNCHANGED reading

LeaveWriter(t) == /\ t \in writing
                  /\ writing' = writing \ {t}
                  /\ UNCHANGED <<reading, waiting>>

Next == \/ \E g \in Guards : AdmitReader(g) \/ LeaveReader(g)
        \/ \E t \in Writers : Announce(t) \/ AdmitWriter(t) \/ LeaveWriter(t)

Spec == Init /\ [][Next]_avars

(* Guards are dropped, and the writer that waits is let in.                *)
LiveSpec == /\ Spec
            /\ \A g \in Guards : WF_avars(LeaveReader(g))
            /\ \A t \in Writers : /\ WF_avars(LeaveWriter(t))
                                  /\ WF_avars(AdmitWriter(t) /\ t \in waiting)
==============================================================================
