------------------------------ MODULE Rp1Gpio ------------------------------
(***************************************************************************)
(* The pin driver of bootloader/src/interfaces/rp1: the table of blocks of *)
(* RP1 and the read-modify-writes of the function and pad registers.       *)
(*                                                                         *)
(* A register is a word of physical memory, named <<page, offset>> with    *)
(* pages of 4 KiB; a word is a number, its fields are what the driver's    *)
(* register_bitfields! say.  Where no device is there is RAM.              *)
(***************************************************************************)
EXTENDS Integers

CONSTANTS
  Pins,       \* pins the program uses, below 28
  Functions,  \* functions it gives them
  Before      \* what the words may hold when the driver comes

ASSUME PinsExist   == Pins \subseteq 0 .. 27
ASSUME WordsAreNat == Before \subseteq Nat
ASSUME FunctionFits == Functions \subseteq 0 .. 31       \* FUNCSEL
(* new() has the functions and the pads at one address, so that the pad of *)
(* a pin is the function of the one with half its number.                  *)
ASSUME PinsApart   == \A p, q \in Pins : q # 2 * p

VARIABLES
  before, \* a word before the first call; never changes
  mem,    \* the words the driver's pointers reach, and the real registers
  func    \* the last function set_func was given for a pin, 32 before

gpioVars == <<before, mem, func>>

RP1_BASE   == \h40000          \* RP1_BASE_ADDR, in pages
RP1_WINDOW == \h1f00000        \* RP1_OFFSET_ADDR, in pages

(* The blocks in the order of their addresses, four pages each, "" where   *)
(* there is none; the three largest follow further up.                     *)
Blocks == <<
  "Sysinfo", "", "Syscfg", "Otp", "Power", "Resets", "ClocksMain",
  "ClocksVideo", "PllSys", "PllAudio", "PllVideo", "", "Uart0", "Uart1",
  "Uart2", "Uart3", "Uart4", "Uart5", "", "Spi8", "Spi0", "Spi1", "Spi2",
  "Spi3", "Spi4", "Spi5", "Spi6", "Spi7", "I2c0", "I2c1", "I2c2", "I2c3",
  "I2c4", "I2c5", "I2c6", "", "AudioIn", "AudioOut", "Pwm0", "Pwm1", "I2s0",
  "I2s1", "I2s2", "Timer", "Sdio0Cfg", "Sdio1Cfg", "", "",
  "BusfabricMonitor", "BusfabricAxishim", "Adc", "", "IoBank0", "IoBank1",
  "IoBank2", "", "SysRio0", "SysRio1", "SysRio2", "", "PadsBank0",
  "PadsBank1", "PadsBank2", "PadsEth", "Eth", "EthCfg", "Pcie", "",
  "Mipi0Csidma", "Mipi0Csihost", "Mipi0Dsidma", "Mipi0Dsihost", "Mipi0Cfg",
  "Mipi0Isp", "Mipi1Csidma", "Mipi1Csihost", "Mipi1Dsidma", "Mipi1Dsihost",
  "Mipi1Cfg", "Mipi1Isp", "VideoOutCfg", "VideoOutVec", "VideoOutDpi", "",
  "Xosc", "Watchdog", "DmaTick", "", "Usbhost0Cfg", "Usbhost1Cfg", "Rosc0",
  "Rosc1", "Vbusctrl", "Ticks", "Pio", "", "Sdio0", "Sdio1", "Dma" >>

(* get_block_address, in pages.                                            *)
BlockPage(block) ==
  CASE block = "Usbhost0" -> \h40200
    [] block = "Usbhost1" -> \h40300
    [] block = "Exac"     -> \h40400
    [] OTHER -> RP1_BASE + 4 * ((CHOOSE i \in DOMAIN Blocks : Blocks[i] = block) - 1)

(* The processor sees RP1 through a window.                                *)
Seen(page) == RP1_WINDOW + (page - RP1_BASE)

(* Rp1GPIO::new.                                                           *)
io_bank0   == BlockPage("PadsBank0")
pads_bank0 == BlockPage("PadsBank0")

Ctrl(page, pin) == <<page, 8 * pin + 4>>     \* IoBank0::gpio[pin].1
Pad(page, pin)  == <<page, 4 * pin + 4>>     \* PadsBank0::gpio[pin]

Words == {Ctrl(io_bank0, p) : p \in Pins} \cup {Pad(pads_bank0, p) : p \in Pins}
         \cup {Ctrl(Seen(BlockPage("IoBank0")), p) : p \in Pins}
         \cup {Pad(Seen(BlockPage("PadsBank0")), p) : p \in Pins}

-----------------------------------------------------------------------------
(* Field number f of a word: <<offset, bits>>.                             *)
FUNCSEL == <<0, 5>>
OUTOVER == <<12, 2>>
OEOVER  == <<14, 2>>
PDE     == <<2, 1>>
PUE     == <<3, 1>>
OD      == <<7, 1>>

Field(w, f) == (w \div 2 ^ f[1]) % 2 ^ f[2]

(* modify() of one field of a register; of several it is one after the     *)
(* other, as they do not overlap.                                          *)
With(w, f, v) == w + ((v % 2 ^ f[2]) - Field(w, f)) * 2 ^ f[1]

set_func(pin, function) ==
  /\ mem' = [mem EXCEPT ![Ctrl(io_bank0, pin)] = With(@, FUNCSEL, function)]
  /\ func' = [func EXCEPT ![pin] = function]
  /\ UNCHANGED before

enable_output_FromReset(pin) ==
  /\ mem' = [mem EXCEPT
       ![Ctrl(io_bank0, pin)] = With(With(31, OUTOVER, 0), OEOVER, 0),
       ![Pad(pads_bank0, pin)] = With(With(With(@, OD, 0), PDE, 0), PUE, 0)]
  /\ UNCHANGED <<before, func>>

enable_output(pin) ==
  /\ mem' = [mem EXCEPT
       ![Ctrl(io_bank0, pin)] = With(With(@, OUTOVER, 0), OEOVER, 0),
       ![Pad(pads_bank0, pin)] = With(With(With(@, OD, 0), PDE, 0), PUE, 0)]
  /\ UNCHANGED <<before, func>>

gpio_enable(pin) ==
  /\ mem' = [mem EXCEPT ![Ctrl(io_bank0, pin)] = With(@, OEOVER, 3)]
  /\ UNCHANGED <<before, func>>

gpio_disable(pin) ==
  /\ mem' = [mem EXCEPT ![Ctrl(io_bank0, pin)] = With(@, OEOVER, 2)]
  /\ UNCHANGED <<before, func>>

GpioInit == /\ before \in Before
            /\ mem = [w \in Words |-> before]
            /\ func = [p \in Pins |-> 32]

GpioNext == \E pin \in Pins :
  \/ \E f \in Functions : set_func(pin, f)
  \/ enable_output(pin) \/ gpio_enable(pin) \/ gpio_disable(pin)

GpioSpec == GpioInit /\ [][GpioNext]_gpioVars

-----------------------------------------------------------------------------
(* A pin keeps the function it was given through every later call, for it  *)
(* or for another pin: the function shares its word with the overrides,    *)
(* and as the driver has both register files at one address the pad of one *)
(* pin with the function of another (18 with 9), though for no two pins    *)
(* this program uses.                                                      *)
FunctionKept == \A p \in Pins :
  func[p] # 32 => Field(mem[Ctrl(io_bank0, p)], FUNCSEL) = func[p]

(* The bits of a word the driver has fields for.                           *)
Driven(w) == IF \E p \in Pins : w = Pad(pads_bank0, p)
               THEN {2, 3, 7} ELSE (0 .. 4) \cup (12 .. 15)

(* No call disturbs the bits it has no business with: filter, interrupt    *)
(* masks, drive strength, slew rate, input enable.                         *)
OthersKept == \A w \in Words : \A bit \in (0 .. 17) \ Driven(w) :
  Field(mem[w], <<bit, 1>>) = Field(before, <<bit, 1>>)

(* A read-modify-write keeps what it has no business with.                 *)
PinsKept == FunctionKept /\ OthersKept

(* "enable GPIO14, 15": set_func gives the pin of RP1 its function.        *)
PinHasFunction == \A p \in Pins :
  func[p] # 32 =>
    Field(mem[Ctrl(Seen(BlockPage("IoBank0")), p)], FUNCSEL) = func[p]
=============================================================================
