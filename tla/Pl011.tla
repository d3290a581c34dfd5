------------------------------- MODULE Pl011 -------------------------------
(***************************************************************************)
(* The UART driver of bootloader/src/interfaces/pl011.rs and the           *)
(* transmitters it drives (PL011 r1p5, the version the driver names).      *)
(*                                                                         *)
(* A call of init() or write() is the list of register accesses it makes;  *)
(* todo holds those still to be made.  A loop that polls the flag register *)
(* is one access that waits.  Between two accesses the hardware may move:  *)
(* take a character from the FIFO into the shift register, or finish it.   *)
(*                                                                         *)
(* A character is the rate its writer expects it to be sent at, 0 if it    *)
(* has no right to expect one.  Rates are divisors in 64ths: the           *)
(* transmitter sends at its clock / (16 * rate / 64).  Reception and       *)
(* interrupts are left out; the driver uses neither.                       *)
(***************************************************************************)
EXTENDS Integers, Sequences

CONSTANTS
  Uarts,       \* base addresses of the UARTs
  Clock,       \* [Uarts -> Nat]: their reference clocks in Hz
  FIFO_DEPTH,  \* 32 in the hardware
  Bauds,       \* the baud rates init() is called with
  MaxText      \* bound on the length of a text

BaudRange == {b \in Nat : b >= 46}   \* below, UARTIBRD has not enough bits

ASSUME BaudsFit     == Bauds \subseteq BaudRange
ASSUME ClocksAreNat == Clock \in [Uarts -> Nat]
ASSUME MaxTextIsNat == MaxText \in Nat
ASSUME FifoHasRoom  == FIFO_DEPTH \in Nat \ {0}

VARIABLES
  uart,   \* the registers and the transmitter of each UART
  todo,   \* the register accesses the current call still has to make
  rate    \* the rate of the last init() of each UART, 0 before

vars == <<uart, todo, rate>>

(* The hardware.  divisor is UARTIBRD and UARTFBRD; active what the baud   *)
(* generator uses, taken over from them by a write to UARTLCR_H.           *)
Transmitter(on, divisor, word, fifo, shift) ==
  [enabled |-> on, tx |-> TRUE, fen |-> on, divisor |-> divisor,
   active |-> divisor, word |-> word, fifo |-> fifo, shift |-> shift]

Busy(u)  == uart[u].fifo # <<>> \/ uart[u].shift # <<>>        \* UARTFR.BUSY
Depth(u) == IF uart[u].fen THEN FIFO_DEPTH ELSE 1
Full(u)  == Len(uart[u].fifo) >= Depth(u)                      \* UARTFR.TXFF

(* As the firmware leaves a UART: never used, or enabled and sending.      *)
Foreign(n) == [i \in 1 .. n |-> 0]

LeftByFirmware ==
  {Transmitter(FALSE, <<0, 0>>, "reset", <<>>, <<>>)} \cup
  UNION {{Transmitter(TRUE, <<1, 0>>, "other", Foreign(n), s) :
            s \in {<<>>, <<0>>}} : n \in 0 .. FIFO_DEPTH}

(* A write to UARTLCR_H: taking FEN away empties the FIFO.                 *)
LineControl(r, word, fen) ==
  [r EXCEPT !.word = word, !.fen = fen, !.active = r.divisor,
            !.fifo = IF r.fen /\ ~fen THEN <<>> ELSE @]

(* A write to UARTDR: at a full FIFO the character is dropped.             *)
DataWritten(u, char) ==
  [uart[u] EXCEPT !.fifo = IF Full(u) THEN @ ELSE Append(@, char)]

StartFrame(u) == /\ uart[u].enabled /\ uart[u].tx
                 /\ uart[u].shift = <<>> /\ uart[u].fifo # <<>>
                 /\ uart' = [uart EXCEPT ![u].shift = <<Head(uart[u].fifo)>>,
                                         ![u].fifo = Tail(@)]
                 /\ UNCHANGED <<todo, rate>>

(* A character that has been started is finished even when disabled.       *)
EndFrame(u) == /\ uart[u].shift # <<>>
               /\ uart' = [uart EXCEPT ![u].shift = <<>>]
               /\ UNCHANGED <<todo, rate>>

-----------------------------------------------------------------------------
(* The driver.  (Here and below, X_Y is X with the plausible mistake Y in  *)
(* it; no specification uses it.  They show that the properties can fail.) *)

UartClk(kind) == IF kind = "Debug" THEN 44000000 ELSE 48000000

Divisor_Truncated(kind, baud) ==
  <<(UartClk(kind) \div baud) \div 16, ((UartClk(kind) * 4) \div baud) % 64>>

(* divisor_i and divisor_f.                                                *)
Divisor(kind, baud) ==
  <<(UartClk(kind) \div baud) \div 16,
    (((UartClk(kind) * 8) \div baud + 1) \div 2) % 64>>

Access(u, op, val) == [uart |-> u, op |-> op, val |-> val]

InitCall_NoFlush(u, kind, baud) ==
  << Access(u, "disable", 0), Access(u, "fen", 0),
     Access(u, "ibrd", Divisor(kind, baud)[1]),
     Access(u, "fbrd", Divisor(kind, baud)[2]),
     Access(u, "lcr", 0), Access(u, "cr", 0) >>

InitCall_DivisorFirst(u, kind, baud) ==
  << Access(u, "ibrd", Divisor(kind, baud)[1]),
     Access(u, "fbrd", Divisor(kind, baud)[2]),
     Access(u, "flush", 0), Access(u, "disable", 0), Access(u, "fen", 0),
     Access(u, "lcr", 0), Access(u, "cr", 0) >>

(* init(): flush, disabled, the divisors, the line, the UART on.           *)
InitCall(u, kind, baud) ==
  << Access(u, "flush", 0), Access(u, "disable", 0), Access(u, "fen", 0),
     Access(u, "ibrd", Divisor(kind, baud)[1]),
     Access(u, "fbrd", Divisor(kind, baud)[2]),
     Access(u, "lcr", 0), Access(u, "cr", 0) >>

(* write(): one polled access of the data register per character.          *)
WriteCall(u, n) == [i \in 1 .. n |-> Access(u, "put", rate[u])]

Doing(op) == todo # <<>> /\ Head(todo).op = op
U == Head(todo).uart

Made(r) == /\ uart' = [uart EXCEPT ![U] = r]
           /\ todo' = Tail(todo)
           /\ UNCHANGED rate

Flush == Doing("flush") /\ ~Busy(U) /\ Made(uart[U])

Disable == Doing("disable") /\ Made([uart[U] EXCEPT !.enabled = FALSE])

ClearFifo == Doing("fen") /\ Made(LineControl(uart[U], uart[U].word, FALSE))

SetDivisor == \/ /\ Doing("ibrd")
                 /\ Made([uart[U] EXCEPT !.divisor[1] = Head(todo).val])
              \/ /\ Doing("fbrd")
                 /\ Made([uart[U] EXCEPT !.divisor[2] = Head(todo).val])

SetLine == Doing("lcr") /\ Made(LineControl(uart[U], "8N1", TRUE))

Enable == Doing("cr") /\ Made([uart[U] EXCEPT !.enabled = TRUE, !.tx = TRUE])

Put_Unpolled == Doing("put") /\ Made(DataWritten(U, Head(todo).val))

Put == Doing("put") /\ ~Full(U) /\ Made(DataWritten(U, Head(todo).val))

Step == \/ Flush \/ Disable \/ ClearFifo \/ SetDivisor \/ SetLine \/ Enable
        \/ Put

Hardware(u) == StartFrame(u) \/ EndFrame(u)

-----------------------------------------------------------------------------
(* Callers.  A UART is for the caller what its clock makes of its kind:    *)
(* the divisor nearest to clock / (16 * baud).                             *)
Nearest(u, baud) ==
  LET below == (4 * Clock[u]) \div baud
  IN  IF 2 * (4 * Clock[u] - below * baud) >= baud THEN below + 1 ELSE below

CallInit(u, kind, baud) ==
  /\ todo = <<>>
  /\ todo' = InitCall(u, kind, baud)
  /\ rate' = [rate EXCEPT ![u] = Nearest(u, baud)]
  /\ UNCHANGED uart

CallWrite(u, n) ==
  /\ todo = <<>>
  /\ todo' = WriteCall(u, n)
  /\ UNCHANGED <<uart, rate>>

(* Any order of calls in which a UART is written to only after init().     *)
Client == \E u \in Uarts :
  \/ \E kind \in {"Debug", "Rp1"}, baud \in Bauds :
       UartClk(kind) = Clock[u] /\ CallInit(u, kind, baud)
  \/ \E n \in 1 .. MaxText : rate[u] # 0 /\ CallWrite(u, n)

Init == /\ uart \in [Uarts -> LeftByFirmware]
        /\ todo = <<>>
        /\ rate = [u \in Uarts |-> 0]

Next == \/ Client \/ Step
        \/ \E u \in Uarts : Hardware(u)

Spec == Init /\ [][Next]_vars

-----------------------------------------------------------------------------
Ops == {"flush", "disable", "fen", "ibrd", "fbrd", "lcr", "cr", "put"}

(* The registers have 16 and 6 bits.                                       *)
IntegerPart  == {n \in Nat : n < 65536}
FractionPart == {n \in Nat : n < 64}
Divisors     == IntegerPart \X FractionPart

TypeOK ==
  /\ uart \in [Uarts -> [enabled : BOOLEAN, tx : BOOLEAN, fen : BOOLEAN,
                         divisor : Divisors, active : Divisors,
                         word : {"reset", "other", "8N1"},
                         fifo : Seq(Nat), shift : Seq(Nat)]]
  /\ \A u \in Uarts : Len(uart[u].fifo) <= FIFO_DEPTH /\ Len(uart[u].shift) <= 1
  /\ todo \in Seq([uart : Uarts, op : Ops, val : Nat])
  /\ rate \in [Uarts -> Nat]

(* No character is dropped, neither in the FIFO by a later init() nor at a *)
(* full FIFO: a FIFO loses characters only to its shift register, and one  *)
(* that write() hands to the hardware is its last one afterwards.  Any     *)
(* driver object may hold characters there: main's, the one of print, the  *)
(* panic handler's, the firmware.                                          *)
NothingLost == [][\A u \in Uarts :
  LET old == uart[u].fifo
      new == uart'[u].fifo
  IN  IF Len(new) < Len(old)
        THEN new = Tail(old) /\ uart'[u].shift = <<Head(old)>>
        ELSE /\ \A i \in 1 .. Len(old) : new[i] = old[i]
             /\ Doing("put") /\ U = u /\ todo' = Tail(todo)
                  => new = Append(old, Head(todo).val)]_vars

(* The line settings change only while nothing is being sent and nothing   *)
(* can be: not in the middle of a character.                               *)
SettledLine == [][\A u \in Uarts :
  \/ /\ uart'[u].divisor = uart[u].divisor
     /\ uart'[u].active = uart[u].active
     /\ uart'[u].word = uart[u].word
  \/ ~uart[u].enabled /\ ~Busy(u)]_vars

(* Whoever has called init() has its characters sent at the divisor next   *)
(* to the baud rate it asked for, in 8N1; whatever was there before.       *)
RateRight == \A u \in Uarts :
  uart[u].shift \notin {<<>>, <<0>>} =>
    /\ uart[u].shift = <<64 * uart[u].active[1] + uart[u].active[2]>>
    /\ uart[u].word = "8N1"

(* A transmitter with characters in it is on, so that flush() and a full   *)
(* FIFO are waits and not the end.                                         *)
BusyIsOn == \A u \in Uarts : Busy(u) => uart[u].enabled /\ uart[u].tx
=============================================================================
