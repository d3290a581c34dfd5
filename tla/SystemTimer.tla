---------------------------- MODULE SystemTimer ----------------------------
(***************************************************************************)
(* The timer of bootloader/src/systimer.rs on the counter of the core,     *)
(* CNTPCT_EL0.                                                             *)
(*                                                                         *)
(* The counter moves by up to MaxJump ticks between two reads of it: the   *)
(* code runs on one core with interrupts off.  counter_frequency is 0 for  *)
(* None; Option<NonZeroU64> keeps it so.                                   *)
(***************************************************************************)
EXTENDS Integers

CONSTANTS
  KILO,         \* 1000 in the code
  COUNTER,      \* 2^64: the counter starts again at 0
  MaxJump,      \* bound on the ticks between two reads
  Frequencies,  \* what CNTFRQ_EL0 may hold, in ticks per second
  Durations     \* what callers wait for, in microseconds

ASSUME KiloIsPositive == KILO \in Nat \ {0}
ASSUME CounterCounts  == COUNTER \in Nat \ {0} /\ MaxJump \in Nat
ASSUME TimesAreNat    == Frequencies \subseteq Nat /\ Durations \subseteq Nat
(* 2^64 ticks are ten thousand years at 54 MHz.                            *)
ASSUME WaitsFit == \A f \in Frequencies, d \in Durations :
  ((f \div KILO) \div KILO) * d + MaxJump < COUNTER

VARIABLES
  counter,            \* CNTPCT_EL0 when last read
  counter_frequency,
  timing,             \* "idle", "waiting" or "panic"
  start, micros,      \* of the wait() that runs
  passed              \* ticks since that start

timerVars == <<counter, counter_frequency, timing, start, micros, passed>>

(* One access of the counter, with the ticks since the one before it.      *)
Read(ticks) == counter' = (counter + ticks) % COUNTER

(* CNTFRQ_EL0 is 0 until firmware has set it; NonZero::new(0) is None.     *)
init(frequency) ==
  /\ timing = "idle"
  /\ IF frequency = 0 THEN /\ timing' = "panic"
                           /\ UNCHANGED counter_frequency
                      ELSE /\ counter_frequency' = frequency
                           /\ UNCHANGED timing
  /\ UNCHANGED <<counter, start, micros, passed>>

(* X_Y is X with the plausible mistake Y in it, as everywhere here.        *)
wait_StartKept(duration) ==
  /\ timing = "idle"
  /\ \E ticks \in 0 .. MaxJump : Read(ticks)
  /\ start' = IF passed = 0 THEN counter' ELSE start
  /\ micros' = duration /\ passed' = 0
  /\ timing' = IF counter_frequency = 0 THEN "panic" ELSE "waiting"
  /\ UNCHANGED counter_frequency

(* wait() up to its loop: start is read before the frequency is looked at. *)
wait(duration) ==
  /\ timing = "idle"
  /\ \E ticks \in 0 .. MaxJump : Read(ticks)
  /\ start' = counter' /\ micros' = duration /\ passed' = 0
  /\ timing' = IF counter_frequency = 0 THEN "panic" ELSE "waiting"
  /\ UNCHANGED counter_frequency

WaitTime_Single == (counter_frequency \div KILO) * micros

wait_time == ((counter_frequency \div KILO) \div KILO) * micros

Poll_Swapped(ticks) ==
  /\ timing = "waiting"
  /\ Read(ticks)
  /\ passed' = passed + ticks
  /\ timing' = IF start < counter' THEN "panic"
               ELSE IF start - counter' < wait_time THEN "waiting"
               ELSE "idle"
  /\ UNCHANGED <<counter_frequency, start, micros>>

(* One turn of the loop.  The subtraction is u64 and checked.              *)
Poll(ticks) ==
  /\ timing = "waiting"
  /\ Read(ticks)
  /\ passed' = passed + ticks
  /\ timing' = IF counter' < start THEN "panic"
               ELSE IF counter' - start < wait_time THEN "waiting"
               ELSE "idle"
  /\ UNCHANGED <<counter_frequency, start, micros>>

Looping == \E ticks \in 0 .. MaxJump : Poll(ticks)

TimerInit == /\ counter \in 0 .. COUNTER - 1
             /\ counter_frequency = 0
             /\ timing = "idle"
             /\ start = 0 /\ micros = 0 /\ passed = 0

TimerNext == \/ \E f \in Frequencies : init(f)
             \/ \E d \in Durations : wait(d)
             \/ Looping

TimerSpec == TimerInit /\ [][TimerNext]_timerVars

-----------------------------------------------------------------------------
TimerTypeOK == /\ counter \in 0 .. COUNTER - 1
               /\ counter_frequency \in Nat
               /\ timing \in {"idle", "waiting", "panic"}
               /\ start \in 0 .. COUNTER - 1
               /\ micros \in Nat
               /\ passed \in Nat
               /\ timing = "waiting" => counter_frequency # 0

Returned == timing = "waiting" /\ timing' = "idle"

(* A wait lasts what it was asked for, short of it by less than the part   *)
(* of a megahertz that counter_frequency / 1000 / 1000 drops:              *)
(* passed / f > micros / 10^6 * (1 - 10^6 / f), or exactly asked when f is *)
(* whole megahertz.  Counter wraps do not shorten it.                      *)
LongEnough == [][Returned =>
  /\ micros > 0 => KILO * KILO * passed' > micros * (counter_frequency - KILO * KILO)
  /\ counter_frequency % (KILO * KILO) = 0
       => KILO * KILO * passed' >= micros * counter_frequency]_timerVars

(* And it is over at the first look at the counter past that.              *)
NotLonger == [][Returned =>
  KILO * KILO * passed' <= micros * counter_frequency
                           + KILO * KILO * MaxJump]_timerVars

(* The checked subtraction panics only when the counter passed its end     *)
(* under the loop; a late poll, or a long one, is no cause.                *)
PanicHasCause == [][timing = "waiting" /\ timing' = "panic" =>
  counter' < counter]_timerVars

=============================================================================
