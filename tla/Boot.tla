------------------------------- MODULE Boot -------------------------------
(***************************************************************************)
(* The program of bootloader/src/main.rs: main and the panic handler, with *)
(* its calls of the UART driver (Pl011), the pin driver (Rp1Gpio), the     *)
(* timer (SystemTimer) and print.                                          *)
(*                                                                         *)
(* There is one core and no interrupt; what interleaves with the program   *)
(* are the transmitters.  main is the list of its calls.  The search of    *)
(* the device tree is one step here: what it reports is any sequence of    *)
(* addresses, with any outcome (DtbDocument says which).                   *)
(***************************************************************************)
EXTENDS Pl011, Rp1Gpio, SystemTimer

CONSTANTS
  Fixed,      \* PL011_UART_ADDR, the debug UART
  Rp1Uart,    \* UART0_ADDR
  Reports     \* the addresses find_node may call the closure with, in order

Second == KILO * KILO      \* in microseconds

ASSUME UartsAreThere  == {Fixed, Rp1Uart} \subseteq Uarts /\ Fixed # Rp1Uart
(* A UART of RP1 has a clock of its own; the tree's arm,pl011 are others.  *)
ASSUME ClocksAreTheirs ==
  Clock[Rp1Uart] = 48000000 /\ \A u \in Uarts \ {Rp1Uart} : Clock[u] = 44000000
ASSUME TreeNamesUarts == Reports \subseteq Seq(Uarts \ {Rp1Uart})
ASSUME CallsAreKnown  ==
  {14, 15, 18} \subseteq Pins /\ 4 \in Functions /\ Second \in Durations

VARIABLES
  at,        \* the call main makes next; 0 once panic() runs
  found      \* pl011_debug_uart_addr: empty, or the address it was set to

progVars == <<at, found>>
uartVars == <<uart, todo, rate>>
bootVars == <<uart, todo, rate, at, found, before, mem, func,
              counter, counter_frequency, timing, start, micros, passed>>

Call(f, x) == [call |-> f, arg |-> x]

(* X_Y is X with the plausible mistake Y in it, as everywhere here.        *)
(* The calls of the loop of main, and those before it.  The check of the   *)
(* address between the two writes has no effect but on what is written.    *)
Loop == << Call("gpio_enable", 18), Call("rp1_write", 2), Call("wait", Second),
           Call("gpio_disable", 18), Call("rp1_write", 2), Call("wait", Second) >>

Setup == << Call("find_node", 0), Call("debug_init", 0), Call("debug_write", 3),
            Call("debug_write", 3),
            Call("set_func", 14), Call("set_func", 15), Call("enable_output", 14),
            Call("enable_output", 15), Call("enable_output", 18),
            Call("rp1_init", 0), Call("rp1_write", 3),
            Call("println", 3), Call("timer_init", 0) >>

Main_NoDebugInit == SelectSeq(Setup, LAMBDA c : c.call # "debug_init") \o Loop

Main_NoRp1Init == SelectSeq(Setup, LAMBDA c : c.call # "rp1_init") \o Loop

Main == Setup \o Loop

Panicked == at = 0
Now(f)   == at \in DOMAIN Main /\ Main[at].call = f /\ todo = <<>> /\ timing = "idle"
Arg      == Main[at].arg

(* The main program goes on, at the end of the loop with its start.        *)
Ahead == at' = IF at = Len(Main) THEN Len(Setup) + 1 ELSE at + 1

(* An unwrap of nothing and the like: panic() makes its own driver.        *)
Panic_NoInit == /\ at' = 0
                /\ todo' = WriteCall(Fixed, 3)
                /\ UNCHANGED <<rate, uart>>

Panic == /\ at' = 0
         /\ LET r == Nearest(Fixed, 115200)
            IN  /\ rate' = [rate EXCEPT ![Fixed] = r]
                /\ todo' = InitCall(Fixed, "Debug", 115200)
                           \o [i \in 1 .. 3 |-> Access(Fixed, "put", r)]
         /\ UNCHANGED uart

(* DtbParser::init and find_node.  The closure keeps the first address.    *)
Find ==
  /\ Now("find_node")
  /\ \E reports \in Reports, ok \in BOOLEAN :
       /\ found' = IF reports = <<>> THEN <<>> ELSE <<Head(reports)>>
       /\ IF ok /\ found' # <<>> THEN Ahead /\ UNCHANGED uartVars ELSE Panic
  /\ UNCHANGED <<gpioVars, timerVars>>

UartCall ==
  /\ \/ Now("debug_init")  /\ CallInit(found[1], "Debug", 115200)
     \/ Now("debug_write") /\ CallWrite(found[1], Arg)
     \/ Now("rp1_init")    /\ CallInit(Rp1Uart, "Rp1", 115200)
     \/ Now("rp1_write")   /\ CallWrite(Rp1Uart, Arg)
     \/ Now("println")     /\ CallWrite(Fixed, Arg)      \* _print's own driver
  /\ Ahead
  /\ UNCHANGED <<found, gpioVars, timerVars>>

PinCall ==
  /\ \/ Now("set_func")      /\ set_func(Arg, 4)
     \/ Now("enable_output") /\ enable_output(Arg)
     \/ Now("gpio_enable")   /\ gpio_enable(Arg)
     \/ Now("gpio_disable")  /\ gpio_disable(Arg)
  /\ Ahead
  /\ UNCHANGED <<uartVars, found, timerVars>>

(* SystemTimer::init after its println, and wait().                        *)
TimerCall ==
  /\ \/ Now("timer_init") /\ \E f \in Frequencies : init(f)
     \/ Now("wait")       /\ wait(Arg)
  /\ IF timing' = "panic" THEN Panic ELSE Ahead /\ UNCHANGED uartVars
  /\ UNCHANGED <<found, gpioVars>>

Waiting(Looped) ==
  /\ Looped
  /\ IF timing' = "panic" THEN Panic ELSE UNCHANGED <<uartVars, at>>
  /\ UNCHANGED <<found, gpioVars>>

DriverStep == Step /\ UNCHANGED <<progVars, gpioVars, timerVars>>

Sending(u) == Hardware(u) /\ UNCHANGED <<progVars, gpioVars, timerVars>>

Core == \/ Find \/ UartCall \/ PinCall \/ TimerCall \/ DriverStep
        \/ Waiting(Looping)

BootInit == /\ Init /\ GpioInit /\ TimerInit
            /\ at = 1 /\ found = <<>>

BootNext == Core \/ \E u \in Uarts : Sending(u)

BootSpec == BootInit /\ [][BootNext]_bootVars

(* The core runs, the counter counts, transmitters that are on send.       *)
BootFairness ==
  /\ WF_bootVars(Core)
  /\ WF_bootVars(Waiting(\E ticks \in 1 .. MaxJump : Poll(ticks)))
  /\ \A u \in Uarts :
       /\ WF_bootVars(StartFrame(u) /\ Sending(u))
       /\ WF_bootVars(EndFrame(u) /\ Sending(u))

BootLiveSpec == BootSpec /\ BootFairness

-----------------------------------------------------------------------------
Agreed == found = <<Fixed>>     \* the tree names the debug UART first

(* Who writes has called init() before, with print as main's guest: print  *)
(* never initialises its UART, which is right as long as the tree's first  *)
(* PL011 is the one print knows.                                           *)
WrittenAfterInit ==
  Doing("put") /\ (U # Fixed \/ Agreed \/ Panicked) => Head(todo).val # 0

(* A panic is heard: its message is sent in the end, whatever was in the   *)
(* UART and whoever drove it before.                                       *)
PanicHeard == Panicked ~> Panicked /\ todo = <<>> /\ ~Busy(Fixed)

(* A main that does not panic goes round its loop for ever and switches    *)
(* the light of pin 18 on and off (in the word the driver takes for its    *)
(* register).  Unless Agreed it may hang in print, at a UART nobody has    *)
(* turned on.                                                              *)
Light == Field(mem[Ctrl(io_bank0, 18)], OEOVER)
MainRuns == /\ Agreed ~> Panicked \/ Light = 3
            /\ Agreed ~> Panicked \/ Light = 2
=============================================================================
