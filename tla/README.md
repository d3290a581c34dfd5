# Verification of rpi5_baremetal_hello_uart

TLA+ models of the bare-metal hello-world for the Raspberry Pi 5, checked with
TLC on small instances and, where marked, proved with TLAPS for all values of
the constants. Paths below are relative to `src/rpi5_baremetal_hello_uart/`.

## The system

| Part | State | Operations | Talks to |
|---|---|---|---|
| `mutex` SpinLock | `locked`, the data | `lock`, guard deref, drop | threads of the caller; `print` |
| `mutex` RWLock | one word: write flag (top bit) and read count; the data | `read`, `write`, deref of both guards, both drops | threads of the caller |
| `dtb` parser | none of its own; pointer and chain of nodes during a search | `init`, `find_node` with a callback | a device tree in memory; `main` |
| `dtb/build.rs` | directory `test` with `test.dts`, `test.dtb` | clone, compile, early return | git, dtc, the dtb tests |
| boot (`main.rs`) | stack, bss, the drivers | `_start`, `main`, panic handler | all drivers, `dtb` |
| PL011 driver | UART registers and FIFO | `init` (flush, disable, divisors, enable), `write` | hardware |
| `print` | two `SpinLock<Option<Pl011Uart>>` | `_print` | SpinLock, PL011 |
| system timer | `counter_frequency` | `init`, `wait` | counter registers, `print` |
| RP1 GPIO | function and pad registers per pin | `set_func`, `enable_output`, `gpio_enable`, `gpio_disable` | address table, hardware |
| RP1 address table | constant | `get_block_address` | GPIO, UART |
| `xtask` | `target/`, `build/` | build, run, test | cargo, objcopy |
| `alloc` | a manifest without source | | |

The parts meet in few places: `main` finds the debug UART's address with
`dtb.find_node` and hands it to the PL011 driver, sets up the pins and the RP1
UART, then loops over GPIO, UART and timer; the timer prints; `print` holds a
SpinLock around each UART. `RWLock` has no caller outside its test yet.

Hard behaviour and what makes each part correct:

- **SpinLock, RWLock** - interleavings of single atomic accesses, weak
  compare-exchanges that fail for no reason, values that are old when used,
  memory ordering. Correct: exclusion, an exact word, a holder ordered after
  earlier accesses, no reader past a waiting writer, somebody gets a free lock.
- **dtb** - a pointer driven by lengths in the data, properties that belong to
  the parent node, translation through all ancestors, partial results before an
  error. Correct: the callback gets exactly the CPU addresses of the matching
  nodes, in order; Ok only for a complete search of a document in order; the
  search ends.
- **PL011** - the transmitter works while the driver does: a FIFO emptied under
  a busy transmitter, a divisor changed in the middle of a character, a flush
  of a UART that is off. Correct: nothing is lost, every character of an
  initialised UART goes out in 8N1 at the nearest rate, every call returns.
- **print, boot** - two nested locks; three driver objects on one UART, of which
  print's never initialises it; a panic while any of them is in use. Correct:
  texts do not mix, nobody writes to a UART nobody has initialised, a panic is
  heard.
- **timer** - truncating divisions, a counter that passes its end. **GPIO** -
  fields that share a word, and which word an access hits.
- **xtask, build.rs** - a step that fails or is interrupted half-way and a later
  run that trusts what it left. Correct: nothing stale is handed on as new,
  nothing untested as passed, no success without the file.

`PROJECT.json` lists every hazard at its line.

## Modules

| Module | What it is |
|---|---|
| `Mutex` | abstract: what a spin lock promises |
| `SpinLock` | `mutex/src/lib.rs` 9-58; instantiates `Mutex` for the refinement |
| `SpinLockProofs` | theorems about it |
| `ReadersWriter` | abstract: what the comment at `mutex/src/lib.rs` 64-65 promises |
| `RWLock` | `mutex/src/lib.rs` 60-179; instantiates `ReadersWriter` |
| `RWLockProofs` | theorems about it and about `RWLockTest` |
| `RWLockTest` | the threads of the test `rw_lock_data`, composed with `RWLock` |
| `DtbParser` | the search in `dtb/src/lib.rs` 34-386 and the reads it uses |
| `DtbParserProofs` | theorems about it; lemmas about documents |
| `DtbDocument` | trees, how they are written as a blob, edits, and what a search should find |
| `DtbDocumentProofs` | theorems about the search of documents |
| `StringList` | `CharStringIter` and the loop over a compatible property, byte by byte |
| `StringListProofs` | theorems about it |
| `Pl011` | `bootloader/src/interfaces/pl011.rs`, with the transmitter and its FIFO |
| `Rp1Gpio` | `bootloader/src/interfaces/rp1/`: the address table and the pin driver |
| `SystemTimer` | `bootloader/src/systimer.rs` |
| `DebugPrint` | `bootloader/src/print.rs`, on two instances of `Mutex` |
| `DebugPrintProofs` | theorems about it |
| `Boot` | `bootloader/src/main.rs`, composing `Pl011`, `Rp1Gpio` and `SystemTimer` |
| `BootProofs` | theorems about it, about the UART, the timer and the pins |
| `Xtask` | `xtask/src/main.rs` |
| `DtbBuild` | `dtb/build.rs` |
| `Host` | `Xtask` and `DtbBuild` composed: xtask, cargo, the build script |
| `HostProofs` | theorems about `Xtask`, `DtbBuild` and the composition |
| `MC_*` | instances for TLC; `Rp1Gpio` and `SystemTimer` need none |

Definitions named `X_Y` are X with the mistake Y in it. No specification uses
them; substituting one for X makes the property they are listed with fail.

### The locks

A thread's `pc` is `"run"` in its own code or names the atomic access it is
about to make. A reload that finds the flag set changes nothing and is left
out; a weak CAS that fails goes back to the load (`CasFail`). In `RWLock`,
`readers` and `writer` are the live guards, `word` is the atomic word, `n` the
value a call has loaded. Where the code loads with Relaxed the model loads the
current value: a stale value is the value of an earlier load and the CAS
compares with the current one. `Drain` reads only a word no new reader can
join, so an old value is just a longer wait.

Memory ordering is a vector clock reduced to one question. `behind[t]` holds
the data accesses of others that do not happen before what t does next; `msg`
those not covered by the release sequence of the atomic's current value. An
Acquire intersects `behind[t]` with `msg`. A Release read-modify-write
intersects `msg` with `behind[t]`, because it continues the release sequence; a
Release store (SpinLock's drop) replaces it. Data is touched at any time while a
guard is held. `Kinds = {}` switches this off in runs about control.

Not in the model: interrupts (the code enables none, see the TODO at line 28),
a guard moved to another thread, a guard leaked with `mem::forget`. That the
read count stays below the flag (2^63 in the code) is the assumption
`FlagIsTopBit`.

### The device tree

`DtbParser` keeps the structure block as a sequence of 32-bit words, the
pointer as an index and lengths in bytes. A step is one iteration of a loop;
`nodes` is the chain of `SimpleDeviceNode`s on the call stack and `pc` the loop
the innermost `find_node_recursive` is in. `CELL` stands for 2^32; a usize is
two cells. A string is one word; the walk through a list of strings and its
UTF-8 errors are in `StringList`. The name of a property is its offset. Arithmetic is
that of the dev profile, which `cargo xrun` and `cargo test` use: overflow
panics. In release it wraps. The one use of `unwrap` inside `pr_debug!`
(line 127, only compiled for tests) is left out.

A tree of `DtbDocument` is any list of nodes in document order, each at most one
deeper than the one before it (`IsTree`). What a node can hold is `IsWritable`:
its numbers fit the cells they are written in, a window is whole and below
`USIZE` on both sides, and a reg lacks at most part of its last entry, in whole
words. `DtbDocument` writes a tree out as dtc does, in forward or reverse
property order, and edits it at one place: a NOP, a property after a subnode, a
lost begin or end of a node. A NOP between the end of the root and `FDT_END` is
one of the edits; line 302 answers Err to it, and the reference counts that as a
cause of an error (see the divergences below). The reference is on the tree: a
node's ancestors by depth, the shift of each window on the way, and a condition
that every window contains the address. It shares nothing with the parser but
the constants.

The documents leave out what the code is known to treat otherwise than a
device tree means it, by the form of a tree and by `IsWritable`; the model has
that behaviour, the reference has not:

- a node with a reg has a `ranges` of its own (line 230 applies it to its reg);
- an empty `ranges`, or one of several triples (lines 133 and 173);
- `#address-cells` and `#size-cells` both 0 with a non-empty reg (the iterator
  does not advance);
- a `ranges` on the root.

A Break of the callback always ends in `Err("failed to parse all of the dtb
node")`, since `find_node` drops it and then expects `FDT_END`; the reference
counts it as a cause of an error.

`StringList` has every value of up to five bytes and one byte after it: letters,
null bytes and a byte no UTF-8 text has. `read_char_str` knows nothing of the
length of the property and reads to the next null byte, so a list that lost its
last one is read beyond its end before the remaining size is checked. What a
list should mean is said without the iterator, by the null bytes in it.

### The UART

A call of `init()` or `write()` is the list of register accesses it makes,
`todo`; a loop that polls the flag register is one access that waits, because a
turn that fails changes nothing. Between two accesses the hardware may start or
finish a character. A character is modelled by the rate its writer is entitled
to, 0 for those the firmware left: this is all that can go wrong with one. The
hardware does what the PL011 manual says and the driver counts on: a write of
UARTLCR_H takes over the divisors, taking FEN away empties the FIFO, a
character written to a full FIFO is dropped (`DataWritten`), a disabled UART
finishes the character it has begun. That `write()` polls before every
character is what keeps `NothingLost` from failing (`Put_Unpolled`), as the
flush of `init()` is (`InitCall_NoFlush`).

At the start a UART is unused or enabled with anything in its FIFO (config.txt
says `enable_uart=1`). Callers are those of the repository: they write only
after an `init()`; `Boot` has the one that does not, and checks the driver with
all three. In its `Spec` of its own, which the proofs are about, any number of
UARTs is called in any order. Rates below 46 baud do not
fit the 16 bits of the divisor and are left out (`BaudsFit`). Reception is not
modelled, nor the interrupts the driver clears and never enables.

### Pins, timer, print

`Rp1Gpio` names a word by page and offset and keeps the words the driver's
pointers reach beside the real registers; the fields are those of
`register_bitfields!`, the addresses are computed as the code does, from the
whole table. Because both register files are placed at the address of the pads,
a pin's control word and another pin's pad may be one word; `PinsKept` says
that the function of a pin stays all the same, for the pins in use, and that
nothing changes but the fields an operation is for. TLC's integers end at 2^31, so the earlier
contents stay below 2^18, the fields the driver knows.

`SystemTimer` moves the counter by up to `MaxJump` ticks between two looks at
it, as much as can pass between two instructions. `KILO` stands for 1000 and
`COUNTER` for 2^64. `passed` is the time that has really gone by, which the
code does not know when the counter wraps.

`DebugPrint` takes each SpinLock as the abstract `Mutex` that `SpinLock` is shown to
implement, so what is shown of print holds for the lock in the code. Several
threads call it, although this program runs on one core: the locks are there for
more. `sent` is what the UART has got of texts that are not finished.

### The boot sequence

`main` is the list of its calls, `Main`, and `at` the next one. `UartCall`,
`PinCall` and `TimerCall` are the actions of the component models; a timer that
panics, a search that fails or finds nothing goes to `Panic`, the handler, in
the same step. `found` is what the `OnceCell` holds; the search reports any of
five sequences of UARTs, with Ok or Err. Nothing interrupts the program (no
interrupt is enabled, and the assembly of `_start` is over), so only the
transmitters run between its steps. The check of the UART's address between two
messages (line 73) is left out: it decides what is written, nothing else. An
address that is no device, and a tree
that is none, are outside the model.

If the tree names another PL011 first, main initialises that one and print
writes to a UART nobody has initialised, which may be off with characters in it
for ever: `WrittenAfterInit` and `MainRuns` exclude this case by `Agreed`, and
the model has it.

### The build tools

`Xtask` knows a file by the version of the sources it was made from; an edit may
come between any two steps. cargo and objcopy are one step each and can fail;
an interrupt can come anywhere. cargo is assumed to build what it is asked for
(a binary that was moved away is linked again), and objcopy may leave a part of
an image.

`DtbBuild` has git and dtc in two steps each, `test/` as absent, empty or used,
and cargo's record of the script per kind of build, a target and a profile:
they share the directory, but each has its own record, which an edit of
`build.rs` voids for all of them. That git cleans up after an error or an
interrupt, not after a kill, and that dtc writes nothing for a broken input, is
how these tools behave; neither does dtc clean up, so an interrupt or a kill
while it writes leaves a part of `test.dtb`, which line 21 takes for the blob.
An interrupt and a kill may come at every step. `hurt` notes what was broken off
at its work: git by its network, git by a kill, dtc by either. `OkIsWhole` says
that nothing else makes the script's success worthless: a blob is missing behind
it only after one of the first two, and there in part only after the last;
`Heals`, that without these the blob is there in the end, whatever other
interrupts, kills and missing tools there were.

`Host` runs the two together. cargo starts the script before it builds or tests
a package that needs the dtb crate (itself, and the kernel by its manifest) in a
kind of build it has no record of; for other packages it may do so, since it
builds in any order. A script that ends badly ends cargo, and by its status
xtask; `it_works` passes exactly with a whole blob. So a broken blob is not only
a state of the directory: it stops every test run of the workspace until
somebody removes it. The run has the debug profile only: `BuiltIsNew` speaks of
no other, and the proof has both.

## Runs

| Run | Question | Bounds |
|---|---|---|
| `spinlock` | is a holder ordered after every access, is `Mutex` implemented, with its liveness? | 4 threads |
| `rwlock` | exact word, order of reads and writes, no overtaking, `ReadersWriter` implemented with its liveness, a free lock taken | 1 reader, 1 writer, 1 thread that does both |
| `rwlock_race` | is a writer ordered after the reads it waited for? **No** | 1 reader, 1 writer |
| `rwlock_test_count` | no lost increment in `rw_lock_data`, exclusion with nested calls | 2 + 2 threads, 2 rounds |
| `rwlock_test_join` | do its threads finish? **Not always** | 1 + 1 threads |
| `dtb_search` | addresses against the reference, structure, edits, bad reg, all queries, every search ends | trees of 3 and 5 nodes (3 roots, 7 buses, 6 devices) and 9 small trees with every place of every edit; 52 252 states |
| `strings` | the iterator stays in the value, lists in order are searched, others refused, the loop ends | all values of up to 5 bytes, 3 names; 180 780 states |
| `timer` | how long a wait lasts, when it panics | 6 frequencies around whole "megahertz", counter of 24, jumps of 3 |
| `print` | texts do not mix, the second lock is free, no standstill | 5 threads, 4 pieces |
| `boot` | three drivers of one UART: nothing lost, right rate, settled line; pins kept; a panic is heard, main blinks | 3 UARTs, FIFO of 2, texts of 3, counter of 5; 171 634 states |
| `host` | nothing stale, nothing untested, what a success without a whole blob can come from, a whole blob kept, the rest mended | the 4 members beside xtask, 2 versions of the sources, 2 kinds of build, all faults; 30 585 states |
| `gpio_registers` | does the pin get its function? **No** | 3 pins |

Every interaction of the locks is between two threads plus one that changes the
word in between; `rwlock` has one of each role and one that has both, and both
kinds of access. A flag of 8 is above the guards that can exist, which is all
the code uses of its size. Nested guards and two slots per thread (enough to
drop one guard and keep another) are in `rwlock_test_count`, and the proofs have
any number. For the tree, one bus shows every relation between child and parent
cells, a second one that translation goes on through them, siblings that the
chain is popped.

A FIFO of two shows empty, full and in between; texts of three make the driver
wait, since the FIFO and the shift register may be full of another driver's.
Jumps of three ticks and a counter of 24 make a wait end exactly, be overshot
and run into the wrap, and the frequencies lie below, on, and between multiples
of `KILO` squared; in `boot` the counter is just wide enough for a wait that
ends and one that panics. Five bytes hold two strings, an empty one and a rest.
One edit is enough for a binary that is older than the invocation, and the test
and build commands for two kinds that share a blob.

`CHECK_DEADLOCK FALSE` is set where the system may really stop: the test program
blocks itself, a panicked program or timer does nothing more.

**Fairness.** A thread in a lock call is scheduled again and again, and guards
are dropped. A weak CAS does not fail for no reason for ever: if it fails so
infinitely often it also succeeds infinitely often. Nothing is assumed about
who wins a race, so a single reader or writer may starve; the code promises it
nothing. `ImplementsLive` and `LockProgress` say what is left: a free lock that
is asked for is taken, a waiting writer is let in. The search of a tree and the
walk through a list are one thread that runs. A core keeps executing, the
counter keeps counting and an enabled transmitter keeps sending; nothing is
assumed of a transmitter that is off. In `_print()` a thread runs on and a free
lock is given to some thread that spins, which is what `SpinLock` is shown to
do, to no particular one. A tool that is run ends. `Heals` needs strong fairness
besides: a user who tries again, and a script that is not interrupted at the
same step every time.

**What the violations show.** `rwlock_race`: the loop at line 124 of
`mutex/src/lib.rs` loads with Relaxed, so a writer that had to wait is not
synchronised with the drops it waited for. `FreeLockCoversReads` shows the
other path is sound. On one core, which the code assumes as a rule, the
hardware hides it. `rwlock_test_join`: `rw_lock_data` nests two `read()`s; a
writer between them waits for the outer guard while the inner call waits for
the writer. The 10 ms sleep makes it unlikely, not impossible.
`gpio_registers`: `IoBank0` is placed at the block of the pads, and neither
address goes through the window at `RP1_OFFSET_ADDR`.

**Known divergences without a run.** The models have, or leave aside as said,
what else the code does otherwise than it says or seems to mean:

- `dtb/src/lib.rs` 302: NOPs are skipped before the root, not after it, so a
  complete search is reported as one that failed to parse all of the nodes.
- `bootloader/src/main.rs` 75: the check of the UART's address reads the data
  register, which never holds an identification; it always says incorrect.
- `xtask/src/main.rs` 126: objcopy's status is dropped, so an xrun succeeds
  without an image; 108: the binary is taken out of `debug` whatever was built,
  so `--release` hands on a debug binary, or none.
- `dtb/build.rs` 34: the script means to panic with "failed to fetch test.dts",
  but `status().is_err()` (and so at line 54 for dtc) asks whether the tool could
  be started, not whether it succeeded. After a network failure the script
  succeeds with nothing fetched, and cargo, by line 8, does not run it again in
  that kind of build; `it_works` fails until the next edit of `build.rs`.
- `dtb/build.rs` 21: any file is taken for the blob. An interrupt or a kill
  while dtc writes leaves a part of it, and every later run exits early.

## Proofs

`SpinLockProofs` proves, for every set of threads, `TypeOK`,
`MutualExclusion`, `HolderSeesAll` and the refinement of `Mutex`. The inductive
invariant adds `FreeLockCoversAll`: a new holder learns what the flag carries,
so that must be everything.

`RWLockProofs` proves, for all threads, slots and flags above the number of
guards, nested or not: `TypeOK`, `MutualExclusion`, `WordCountsGuards`,
`HoldersSeeWrites`, `DoorShut` and the refinement of `ReadersWriter`. The
argument has two halves. Control (`CInv`): the word counts the guards, so a
clear flag means no owner (`WordFacts`, from the cardinality lemmas and
`FlagIsTopBit`); a CAS only expects values with a clear flag
(`ExpectsNoFlag`), and only a caller of `write()` drains, without a guard
(`InWrite`). Order, on top of it: while no write guard is live the word carries
every write (`WordCarriesWrites`), a CAS takes that view, and a draining writer
keeps it because nobody can write before its turn (`DrainerSeesWrites`).
Assumptions: finitely many guards, fewer than the flag.

Once that is known, `ReadsCovered` shows `FreeLockCoversReads` with a second
invariant on top (`ReadsInv`): a read is missing from the word's release
sequence only while its reader holds a guard. `NextIsCovered` does the same for
`SpinLock`'s `FreeLockCoversAll`, which is in its invariant already.

The test program `rw_lock_data` only calls the lock, so the lock's invariant
holds in it for any number of threads and rounds (`TestExclusion`), and
`NoIncrementLost` proves `FinalCount`: the counter is the number of pairs of a
writer and a round it has stored (`NoneLost`), because a writer's copy is fresh
until it stores it (`CopyIsFresh`), and that because it holds the write guard.
`ThreadGroups` says that there are finitely many threads and that none both
reads and writes.

`BootProofs` has four parts: the UART, the timer, the pins, the program.

The UART, for any number of them, FIFO depth, rates from 46 baud and text
lengths: `TypeOK` (so the divisors fit their registers), `BusyIsOn`,
`SettledLine`, `NothingLost` and `RateRight`. What is left in `todo` is the tail
of an `init()`, of a `write()`, or of one after the other, in the order of the
code (`Ordered`), and the transmitter is empty after the flush and off after the
disable (`Emptied`). That much, `LInv`, holds whoever calls, and `SettledLine`
and `NothingLost` follow from it for every program whose calls do not overlap
(`Moves`). `BusyIsOn` needs callers that write after `init()` only: an
initialised UART is on outside of its `init()` (`Initialised`).

`RateRight` (`SentAtRate`) adds what a character has to do with the line. Every
character that expects a rate is under a line that has it (`CharsRight`); the
line of an initialised UART has the UART's rate, but between the start of an
`init()` and its write of UARTLCR_H (`LineRight`); and what an `init()` still
has to write, with what it has written, makes up that rate (`Planned`,
`Written`). An `init()` may change the line because it has emptied the
transmitter. The arithmetic, `DivisorIsNearest`, has a condition: the code
masks the rounded fraction to six bits and loses a carry out of it, so the
divisor is the nearest one exactly for those rates where the fraction does not
round up to 64 (`Carries`). The theorem assumes that of the rates in use. At
115200 baud it is so for both clocks (`TheirRate`). That is the only
rate main asks for, and the one the `boot` run has: neither it nor
`ProgramRate` says anything of a rate whose carry is lost.

The timer, for every frequency, duration, counter width and jump: `TimerTypeOK`,
`LongEnough`, `NotLonger`, `PanicHasCause`. While a wait runs the counter is
`passed` ticks after its start and has not wrapped; the rest is arithmetic of
the two divisions (`TwoDivisions` and the lemmas beside it). `WaitsFit` assumes
that a wait is shorter than one round of the counter.

The pins: `PinsKept`, for any order of calls, any pins and functions and any
former contents of the words. The invariant keeps of each word the numbers its
untouched bits make up (`CtrlKept`, `PadKept`), which a write of a field
preserves (`CtrlWritten`, `PadWritten`); bit by bit it is what `OthersKept`
says (`CtrlBits`, `PadBits`). It needs `PinsApart`: with both register files at
one address, the pad of pin 2p is the control word of pin p, so the driver is
right only for pins of which none is twice another, and `FunctionFits`, as a
function has five bits.

The program: `RateRight`, `WrittenAfterInit`, `SettledLine`, `NothingLost`, for
every tree, every state the firmware leaves and a panic at every call. Its
invariant is that of the driver with how far the program has come: which UARTs
are initialised follows from `at` (`Ready`), and whatever a call is about to
access is initialised unless print does it on a UART the tree has not named
first (`Entitled`). The panic handler comes only where no call is in progress,
so its `init()` finds the line as `LInv` has it. `UsesPinsAndTimer` shows that
each step of the program is a step of `Rp1Gpio` and of `SystemTimer` or leaves
them alone, so that what is proved of them holds of the program
(`ProgramKeepsPins`, `ProgramWaits`). The assumptions are the board: 48 MHz for
the UART of RP1 and 44 MHz for the others (`ClocksAreTheirs`), a tree that does
not name RP1's UART as `arm,pl011` (`TreeNamesUarts`), and the pins and
durations main uses. The lengths of its texts are the model's, two and three
characters; those of `Pl011`'s own `Spec` are any.

`DebugPrintProofs`, for any threads and pieces: `TypeOK`, `Contiguous`,
`NeverWaits`. At most one thread is inside, and what is unfinished is a proper
beginning of its text.

`StringListProofs`, for every length, alphabet and name: `StaysInside` and
`SplitsRight`. While the loop runs the iterator is after a null byte of the
value, or at its beginning, has counted what it passed (`AtString`), and has
compared exactly the strings before it (`Passed`). The end of a string is the
least null byte from there; that there is a least one is proved by counting
(`Least`).

`DtbParserProofs`, for every blob, in order or not, and every query: `TypeOK`.
No node is popped from an empty chain and a node with something
to deliver has a parent (`HasNode`); the sums of addresses through all ancestors
fit a usize or panic (`AcrossIsResult`, `TranslatedIsResult`). These are loops
over data: what they compute is defined by recursive functions, and that such a
function exists and stays in its set is proved by induction stated for a set of
numbers (`Induction`, from the cardinality of finite sets, and `Recursion`),
since the library's induction theorems cannot be instantiated. The rest of the
module is what the proofs about documents need to know of a tree as it is
written: where each node, property and entry of a reg is in the block.

`DtbDocumentProofs`, for every tree of any depth and width, in either order of
the properties, with every edit and for every query: all that `DtbDocument`
says of a search but that it ends.

- `PointerOnToken`, and Ok only for a document in order (`Follows`). A blob that
  is written in tokens has them at known places (`WordsAt`), and each step
  leads from one token to the next, changing the depth of the chain as the
  token changes the number of nodes begun and not ended (`Advance`). At the end
  both are 0 and no property has followed an end; an edit that drops a token
  leaves a balance other than 0, a late property is one that follows an end, so
  a search that gets there had neither (`EndIsSound`).
- `NeverWrong`, `OkIsComplete` and `RefusalHasCause`, about documents in order.
  The invariant, `Seeks`, says at which node of the tree the search is and how
  far it has come with it: so many properties read (`InProps`), so many addresses
  handed out (`InDeliver`), so many of the ends behind it read (`InChildren`).
  The chain holds what the tree says of that node's ancestors (`Settled`), and
  of a node being read what its properties so far say (`Noted`), in whichever
  order they come. From that the translation through the chain is the sum of
  the offsets of all windows above the node, and fails exactly if one does not contain the address (`TranslatedIs`). So what
  has been handed out is the beginning of the answers up to this node (`Given`),
  and a search that stops on its own has come to an answer that does not exist
  (`Stuck`).

The reference is a closed form over the tree and the parser a walk over words
with a stack; what joins them is the place of every token, which comes from the
recursion that writes the tree out. It is unrolled by the same `Induction`. The
only assumption on a constant is that a cell holds something (`CellIsNat`).

`HostProofs` is about the build tools. `Xtask`, for every workspace with one
kernel in it (`KernelOnce`): `BuiltIsNew` and `PassedMeansAll`. In a debug build
the kernel is still on the list or `target/debug` is as new as the invocation;
between move and objcopy `build/` is. In a test what is done and what is on the
list are together the members that can be tested (`TestsAhead`). The script, for
every set of builds and faults: `ScriptTypeOK`, `OkIsWhole`, `WholeStays`. It
works on the blob only while there is none, and the files are where the script
is unless a tool that was broken off explains it (`InStep`): a directory in use
holds the whole source but under git or after it was killed, dtc is run without
one only after git or its network failed, and there is no part of a blob but
under dtc or after it was stopped.
The composition: every step of `Host` is a step of `Xtask` or none
(`HostIsXtask`), and one of `DtbBuild` or none (`HostIsScript`), so that each
keeps its invariant with the other around it; `HostIsRight` is `BuiltIsNew`,
`PassedMeansAll`, `OkIsWhole` and `WholeStays` of the whole.

The type invariants of `RWLock`, `Pl011`, `DebugPrint`, `SystemTimer` and
`DtbBuild`, `MutualExclusion` and `FreeLockCoversAll` of `SpinLock`,
and `BusyIsOn` of `Pl011` are proved and in no run.

Only model-checked: all liveness (`SearchEnds`, `ListEnds`, `PrintsGoOn`,
`PanicHeard`, `MainRuns`, `Heals`, `LockProgress`) and both `ImplementsLive`:
fairness and ENABLED are out of the proof system's reach. Every invariant and
every action property that a passing run checks is also proved.

## Not modelled

- `_start`: the stack and the clearing of bss, before there is a state.
- `Dtb::new`, the header's checks and the reserve entries: no state; Boot has
  their refusal as a panic.
- the `cfg(alloc)` structures of dtb, which nothing compiles; the programs of
  the tests `it_works` and `spinlock_test`, clients of what is modelled;
  `alloc`, a manifest; `bootloader/build.rs`, two linker arguments.
- release-profile arithmetic of the dtb parser, and the documents listed above
  that the code reads otherwise than they are meant.
- reception and interrupts of the UART, the registers of the pins no operation
  uses, the kind of bus in the address table: nothing in the program reads them.
