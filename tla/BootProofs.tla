----------------------------- MODULE BootProofs -----------------------------
(***************************************************************************)
(* Proofs about the main program and the drivers it uses. Those about the  *)
(* UARTs come first: they hold for all UARTs, clocks, FIFO depths, baud    *)
(* rates and lengths of text. Those about the timer, the pins and main     *)
(* hold for every frequency, duration, width of the counter and pace of    *)
(* the polls as far as WaitsFit allows them, for all pins that do not      *)
(* share a word, and for every tree and every state the firmware leaves    *)
(* the hardware in.                                                        *)
(***************************************************************************)
EXTENDS Boot, SequenceTheorems, TLAPS

(* The order of the accesses of init(), as steps.                          *)
After == [op \in Ops |->
  CASE op = "flush" -> "disable" [] op = "disable" -> "fen"
    [] op = "fen" -> "ibrd" [] op = "ibrd" -> "fbrd" [] op = "fbrd" -> "lcr"
    [] op = "lcr" -> "cr" [] OTHER -> "put"]

Accesses == [uart : Uarts, op : Ops, val : Nat]

Fits(a) == /\ a.op = "ibrd" => a.val \in IntegerPart
           /\ a.op = "fbrd" => a.val \in FractionPart

(* What is left of a call is the end of an init(), of a write(), or of one *)
(* after the other, on one UART.                                           *)
Ordered ==
  /\ \A i \in 1 .. Len(todo) : Fits(todo[i]) /\ todo[i].uart = todo[1].uart
  /\ \A i \in 1 .. Len(todo) - 1 : todo[i + 1].op = After[todo[i].op]
  /\ \A i \in 1 .. Len(todo) : i = Len(todo) => todo[i].op \in {"cr", "put"}

(* Where an init() is: after its flush the transmitter is empty, after its *)
(* disable it is off, until its end.                                       *)
Quiet == {"disable", "fen", "ibrd", "fbrd", "lcr", "cr"}

Emptied == todo # <<>> =>
  /\ todo[1].op \in Quiet => ~Busy(todo[1].uart)
  /\ todo[1].op \in Quiet \ {"disable"} => ~uart[todo[1].uart].enabled

(* This much holds whoever calls init() and write() in whichever order, as *)
(* long as the calls do not overlap.                                       *)
LInv == TypeOK /\ Ordered /\ Emptied

(* What the callers of Client add to it: one call is what is left, a UART  *)
(* is written to only after init(), and is on then except in an init().    *)
Separate == \A i \in 1 .. Len(todo) - 1 : todo[i].op # "cr"

Owned == todo # <<>> /\ todo[1].op = "put" => rate[todo[1].uart] # 0

Initialised == \A u \in Uarts : rate[u] # 0 =>
  \/ uart[u].enabled /\ uart[u].tx
  \/ todo # <<>> /\ todo[1].uart = u /\ todo[1].op # "put"

(* BusyIsOn alone is not inductive: that a UART is off only while it is    *)
(* empty is a matter of where in its init() it is.                         *)
IInv == LInv /\ Separate /\ Owned /\ Initialised /\ BusyIsOn

(* The divisors of every baud rate fit the registers.                      *)
LEMMA DivisorFits ==
  ASSUME NEW kind, NEW baud \in BaudRange
  PROVE  /\ Divisor(kind, baud)[1] \in IntegerPart
         /\ Divisor(kind, baud)[2] \in FractionPart
<1> DEFINE clk == UartClk(kind)
           q   == clk \div baud
           e   == (clk * 8) \div baud
<1>1. /\ baud \in Nat /\ baud >= 46
      /\ clk \in Nat /\ clk <= 48000000
  BY SMT DEF UartClk, BaudRange
<1> HIDE DEF clk
<1>2. q \in Int /\ q * baud <= clk
  BY <1>1, SMT
<1>3. q \in Nat
  BY <1>1, SMT
<1> HIDE DEF q
<1>4. q * 46 <= q * baud
  BY <1>1, <1>3, SMT
<1>5. q \div 16 \in IntegerPart
  BY <1>1, <1>2, <1>3, <1>4, SMT DEF IntegerPart
<1>6. e \in Int
  BY <1>1, SMT
<1> HIDE DEF e
<1>7. ((e + 1) \div 2) % 64 \in FractionPart
  BY <1>6, SMT DEF FractionPart
<1> QED
  BY <1>5, <1>7 DEF Divisor, clk, q, e

(* Nearest is a number.                                                    *)
LEMMA NearestIsNat ==
  ASSUME NEW u \in Uarts, NEW baud \in BaudRange
  PROVE  Nearest(u, baud) \in Nat
<1> DEFINE below == (4 * Clock[u]) \div baud
<1>1. Clock[u] \in Nat /\ baud \in Nat \ {0}
  BY ClocksAreNat, SMT DEF BaudRange
<1>2. below \in Nat
  BY <1>1, SMT
<1> QED
  BY <1>1, <1>2 DEF Nearest

(* Rounding the fraction up to 64 is not carried into the integer part.    *)
Carries(u, baud) == ((8 * Clock[u]) \div baud + 1) % 128 = 0

Value(d) == 64 * d[1] + d[2]

(* Otherwise the divisors of init() are the nearest ones.                  *)
LEMMA DivisorIsNearest ==
  ASSUME NEW u \in Uarts, NEW kind, NEW baud \in BaudRange,
         UartClk(kind) = Clock[u], ~Carries(u, baud)
  PROVE  Value(Divisor(kind, baud)) = Nearest(u, baud)
<1> DEFINE x == Clock[u]
           b == baud
           q == x \div b
           h == (4 * x) \div b
           e == (8 * x) \div b
<1>1. x \in Nat /\ b \in Nat /\ b > 0
  BY ClocksAreNat, SMT DEF BaudRange
<1> HIDE DEF x, b
<1>2. /\ q \in Nat /\ h \in Nat /\ e \in Nat
      /\ b * q <= x /\ x < b * q + b
      /\ b * h <= 4 * x /\ 4 * x < b * h + b
      /\ b * e <= 8 * x /\ 8 * x < b * e + b
  <2>1. \A y \in Nat : /\ y \div b \in Nat
                       /\ b * (y \div b) <= y /\ y < b * (y \div b) + b
    BY <1>1, SMTT(30)
  <2> QED
    BY <1>1, <2>1
<1> HIDE DEF q, h, e
<1>3. q = e \div 8
  <2> DEFINE k == e \div 8
  <2>1. k \in Nat /\ 8 * k <= e /\ e <= 8 * k + 7
    BY <1>2
  <2> HIDE DEF k
  <2>2. b * (8 * k) <= b * e /\ b * e + b <= b * (8 * k + 8)
    BY <1>1, <1>2, <2>1, SMTT(30)
  <2>3. b * (8 * k) = 8 * (b * k) /\ b * (8 * k + 8) = 8 * (b * k) + 8 * b
        /\ b * k \in Nat
    BY <1>1, <2>1, SMTT(30)
  <2>4. b * k <= x /\ x < b * k + b
    BY <1>1, <1>2, <2>2, <2>3
  <2>5. q = k
    BY <1>1, <1>2, <2>1, <2>4, SMTT(30)
  <2> QED
    BY <2>5 DEF k
<1>4. e = IF 2 * (4 * x - h * b) >= b THEN 2 * h + 1 ELSE 2 * h
  BY <1>1, <1>2, SMTT(30)
<1>5. Nearest(u, baud) = (e + 1) \div 2
  <2>1. Nearest(u, baud) = IF 2 * (4 * x - h * b) >= b THEN h + 1 ELSE h
    BY DEF Nearest, h, x, b
  <2>2. /\ (2 * h + 1 + 1) \div 2 = h + 1
        /\ (2 * h + 1) \div 2 = h
    BY <1>2
  <2> QED
    BY <1>4, <2>1, <2>2
<1>6. (e + 1) % 128 # 0
  BY DEF Carries, e, x, b
<1>7. Divisor(kind, baud) = <<q \div 16, ((e + 1) \div 2) % 64>>
  <2>1. (UartClk(kind) * 8) \div baud = e
    BY <1>1 DEF e, x, b
  <2> QED
    BY <2>1 DEF Divisor, q, x, b
<1>8. 64 * ((e \div 8) \div 16) + (((e + 1) \div 2) % 64) = (e + 1) \div 2
  BY <1>2, <1>6
<1> QED
  BY <1>3, <1>5, <1>7, <1>8 DEF Value

-----------------------------------------------------------------------------
(* What the next access is, and what is left after it.                     *)
LEMMA Shift ==
  ASSUME todo \in Seq(Accesses), Ordered, todo # <<>>, todo' = Tail(todo)
  PROVE  /\ todo' \in Seq(Accesses) /\ Ordered'
         /\ todo[1] \in Accesses /\ Fits(todo[1]) /\ Head(todo) = todo[1]
         /\ todo' # <<>> => /\ todo'[1].uart = todo[1].uart
                            /\ todo'[1].op = After[todo[1].op]
         /\ todo' = <<>> => todo[1].op \in {"cr", "put"}
<1> DEFINE n == Len(todo)
<1>1. n \in Nat /\ n > 0 /\ \A i \in 1 .. n : todo[i] \in Accesses
  OBVIOUS
<1>2. /\ todo' \in Seq(Accesses) /\ Len(todo') = n - 1
      /\ \A i \in 1 .. n - 1 : todo'[i] = todo[i + 1]
  OBVIOUS
<1> HIDE DEF n
<1>3. Ordered'
  <2> USE DEF Ordered
  <2>1. ASSUME NEW i \in 1 .. n - 1
        PROVE  Fits(todo'[i]) /\ todo'[i].uart = todo'[1].uart
    <3>1. i + 1 \in 1 .. Len(todo) /\ 2 \in 1 .. Len(todo) /\ 1 \in 1 .. n - 1
      BY <1>1 DEF n
    <3>2. todo'[i] = todo[i + 1] /\ todo'[1] = todo[2]
      BY <1>2, <3>1
    <3> QED
      BY <3>1, <3>2
  <2>2. ASSUME NEW i \in 1 .. n - 2
        PROVE  todo'[i + 1].op = After[todo'[i].op]
    <3>1. /\ i + 1 \in 1 .. Len(todo) - 1 /\ i \in 1 .. n - 1
          /\ i + 1 \in 1 .. n - 1
      BY <1>1 DEF n
    <3>2. todo'[i] = todo[i + 1] /\ todo'[i + 1] = todo[(i + 1) + 1]
      BY <1>2, <3>1
    <3> QED
      BY <3>1, <3>2
  <2>3. ASSUME NEW i \in 1 .. n - 1, i = n - 1
        PROVE  todo'[i].op \in {"cr", "put"}
    <3>1. i + 1 \in 1 .. Len(todo) /\ i + 1 = Len(todo)
      BY <1>1, <2>3 DEF n
    <3> QED
      BY <1>2, <3>1
  <2>4. Len(todo') - 1 = n - 2
    BY <1>1, <1>2
  <2> QED
    BY <1>2, <2>1, <2>2, <2>3, <2>4 DEF Fits
<1>4. todo' # <<>> => 1 \in 1 .. n - 1
  BY <1>1, <1>2
<1>5. todo' = <<>> => n = 1
  BY <1>1, <1>2
<1>6. todo' # <<>> => /\ todo'[1].uart = todo[1].uart
                      /\ todo'[1].op = After[todo[1].op]
  <2> HAVE todo' # <<>>
  <2>1. 1 \in 1 .. Len(todo) - 1 /\ 1 + 1 \in 1 .. Len(todo)
    BY <1>1, <1>4 DEF n
  <2>2. todo'[1] = todo[1 + 1]
    BY <1>2, <1>4
  <2> QED
    BY <2>1, <2>2 DEF Ordered
<1>7. todo' = <<>> => todo[1].op \in {"cr", "put"}
  BY <1>5 DEF Ordered, n
<1>8. Head(todo) = todo[1] /\ 1 \in 1 .. Len(todo)
  BY <1>1 DEF n
<1> QED
  BY <1>1, <1>2, <1>3, <1>6, <1>7, <1>8 DEF Ordered, n

(* The accesses of an init() of u with the divisors d, and of a write() of *)
(* n characters after it that are expected at the rate r.                  *)
IsInit(calls, u, d, n, r) ==
  /\ calls \in Seq(Accesses) /\ Len(calls) = 7 + n
  /\ calls[1] = Access(u, "flush", 0) /\ calls[2] = Access(u, "disable", 0)
  /\ calls[3] = Access(u, "fen", 0)   /\ calls[4] = Access(u, "ibrd", d[1])
  /\ calls[5] = Access(u, "fbrd", d[2]) /\ calls[6] = Access(u, "lcr", 0)
  /\ calls[7] = Access(u, "cr", 0)
  /\ \A i \in 8 .. 7 + n : calls[i] = Access(u, "put", r)

(* init() is the first seven of them.                                      *)
LEMMA InitCallIs ==
  ASSUME NEW u \in Uarts, NEW kind, NEW baud \in BaudRange, NEW r
  PROVE  IsInit(InitCall(u, kind, baud), u, Divisor(kind, baud), 0, r)
<1> DEFINE d == Divisor(kind, baud)
           c == InitCall(u, kind, baud)
<1>1. d[1] \in Nat /\ d[2] \in Nat
  BY DivisorFits DEF IntegerPart, FractionPart
<1> HIDE DEF d
<1>2. c = << Access(u, "flush", 0), Access(u, "disable", 0),
             Access(u, "fen", 0), Access(u, "ibrd", d[1]),
             Access(u, "fbrd", d[2]), Access(u, "lcr", 0),
             Access(u, "cr", 0) >>
  BY DEF InitCall, d
<1> HIDE DEF c
<1>3. \A op \in Ops, x \in Nat : Access(u, op, x) \in Accesses
  BY DEF Access, Accesses
<1>4. /\ c \in Seq(Accesses) /\ Len(c) = 7
      /\ c[1] = Access(u, "flush", 0) /\ c[2] = Access(u, "disable", 0)
      /\ c[3] = Access(u, "fen", 0)   /\ c[4] = Access(u, "ibrd", d[1])
      /\ c[5] = Access(u, "fbrd", d[2]) /\ c[6] = Access(u, "lcr", 0)
      /\ c[7] = Access(u, "cr", 0)
  BY <1>1, <1>2, <1>3 DEF Ops
<1> QED
  BY <1>4 DEF IsInit, c, d

(* And the message of a panic comes after them.                            *)
LEMMA InitAndPuts ==
  ASSUME NEW u \in Uarts, NEW kind, NEW baud \in BaudRange, NEW r \in Nat
  PROVE  IsInit(InitCall(u, kind, baud) \o [i \in 1 .. 3 |-> Access(u, "put", r)],
                u, Divisor(kind, baud), 3, r)
<1> DEFINE d == Divisor(kind, baud)
           c == InitCall(u, kind, baud)
           puts == [i \in 1 .. 3 |-> Access(u, "put", r)]
<1>1. IsInit(c, u, d, 0, r)
  BY InitCallIs
<1>2. /\ puts \in Seq(Accesses) /\ Len(puts) = 3
      /\ \A i \in 1 .. 3 : puts[i] = Access(u, "put", r)
  BY DEF Access, Accesses, Ops
<1> HIDE DEF d, c, puts
<1>3. c \in Seq(Accesses) /\ Len(c) = 7
  BY <1>1 DEF IsInit
<1>4. /\ c \o puts \in Seq(Accesses) /\ Len(c \o puts) = 10
      /\ \A i \in 1 .. 10 : (c \o puts)[i] = IF i <= 7 THEN c[i] ELSE puts[i - 7]
  <2>1. /\ c \o puts \in Seq(Accesses) /\ Len(c \o puts) = Len(c) + Len(puts)
        /\ \A i \in 1 .. Len(c) + Len(puts) :
             (c \o puts)[i] = IF i <= Len(c) THEN c[i] ELSE puts[i - Len(c)]
    BY <1>2, <1>3, ConcatProperties, Zenon
  <2>2. Len(c) = 7 /\ Len(puts) = 3 /\ 7 + 3 = 10
    BY <1>2, <1>3
  <2> QED
    BY <2>1, <2>2, Zenon
<1>5. \A i \in 8 .. 10 : (c \o puts)[i] = Access(u, "put", r)
  <2> SUFFICES ASSUME NEW i \in 8 .. 10
               PROVE  (c \o puts)[i] = Access(u, "put", r)
    OBVIOUS
  <2>1. i \in 1 .. 10 /\ ~(i <= 7) /\ i - 7 \in 1 .. 3
    OBVIOUS
  <2> QED
    BY <1>2, <1>4, <2>1, Zenon
<1>6. IsInit(c \o puts, u, d, 3, r)
  <2> DEFINE t == c \o puts
  <2> HIDE DEF t
  <2>1. /\ t \in Seq(Accesses) /\ Len(t) = 10
        /\ \A i \in 1 .. 10 : t[i] = IF i <= 7 THEN c[i] ELSE puts[i - 7]
    BY <1>4 DEF t
  <2>2. \A i \in 1 .. 7 : t[i] = c[i]
    BY <2>1
  <2>3. \A i \in 8 .. 10 : t[i] = Access(u, "put", r)
    BY <1>5 DEF t
  <2>4. 7 + 3 = 10
    OBVIOUS
  <2>5. IsInit(t, u, d, 3, r)
    BY <1>1, <2>1, <2>2, <2>3, <2>4 DEF IsInit
  <2> QED
    BY <2>5 DEF t
<1> QED
  BY <1>6 DEF d, c, puts

(* Such a call is in the order the invariant asks for.                     *)
LEMMA InitOrdered ==
  ASSUME NEW u \in Uarts, NEW kind, NEW baud \in BaudRange, NEW n \in Nat, NEW r,
         IsInit(todo', u, Divisor(kind, baud), n, r)
  PROVE  /\ todo' \in Seq(Accesses) /\ Ordered' /\ todo' # <<>>
         /\ todo'[1].uart = u /\ todo'[1].op = "flush"
<1> DEFINE d == Divisor(kind, baud)
<1>1. d[1] \in IntegerPart /\ d[2] \in FractionPart
  BY DivisorFits
<1> HIDE DEF d
<1>2. IsInit(todo', u, d, n, r)
  BY DEF d
<1>3. /\ todo' \in Seq(Accesses) /\ Len(todo') = 7 + n
      /\ \A i \in 8 .. 7 + n : todo'[i] = Access(u, "put", r)
  BY <1>2 DEF IsInit
<1>4. \A i \in 1 .. 7 + n : i \in 1 .. 7 \/ i \in 8 .. 7 + n
  OBVIOUS
<1>5. \A i \in 1 .. 7 : i \in {1, 2, 3, 4, 5, 6, 7}
  OBVIOUS
<1>6. \A i \in 1 .. 7 + n : Fits(todo'[i]) /\ todo'[i].uart = u
  <2>1. \A i \in 8 .. 7 + n : Fits(todo'[i]) /\ todo'[i].uart = u
    BY <1>3 DEF Fits, Access
  <2>2. \A i \in {1, 2, 3, 4, 5, 6, 7} : Fits(todo'[i]) /\ todo'[i].uart = u
    BY <1>1, <1>2 DEF IsInit, Fits, Access
  <2> QED
    BY <1>4, <1>5, <2>1, <2>2
<1>7. \A i \in 1 .. 6 + n : todo'[i + 1].op = After[todo'[i].op]
  <2> SUFFICES ASSUME NEW i \in 1 .. 6 + n
               PROVE  todo'[i + 1].op = After[todo'[i].op]
    OBVIOUS
  <2>1. CASE i \in {1, 2, 3, 4, 5, 6}
    BY <1>2, <2>1 DEF IsInit, After, Ops, Access
  <2>2. CASE i = 7
    <3>1. 8 \in 8 .. 7 + n
      BY <2>2
    <3>2. todo'[7].op = "cr" /\ todo'[8].op = "put"
      BY <1>2, <3>1 DEF IsInit, Access
    <3> QED
      BY <2>2, <3>2 DEF After, Ops
  <2>3. CASE i > 7
    <3>1. i \in 8 .. 7 + n /\ i + 1 \in 8 .. 7 + n
      BY <2>3
    <3>2. todo'[i].op = "put" /\ todo'[i + 1].op = "put"
      BY <1>3, <3>1 DEF Access
    <3> QED
      BY <3>2 DEF After, Ops
  <2> QED
    BY <2>1, <2>2, <2>3
<1>8. todo'[7 + n].op \in {"cr", "put"}
  <2>1. CASE n = 0
    BY <1>2, <2>1 DEF IsInit, Access
  <2>2. CASE n > 0
    <3>1. 7 + n \in 8 .. 7 + n
      BY <2>2
    <3> QED
      BY <1>3, <3>1 DEF Access
  <2> QED
    BY <2>1, <2>2
<1>9. Ordered'
  <2>1. \A i \in 1 .. Len(todo') : Fits(todo'[i]) /\ todo'[i].uart = todo'[1].uart
    BY <1>3, <1>6
  <2>2. \A i \in 1 .. Len(todo') - 1 : todo'[i + 1].op = After[todo'[i].op]
    BY <1>3, <1>7
  <2>3. \A i \in 1 .. Len(todo') : i = Len(todo') => todo'[i].op \in {"cr", "put"}
    BY <1>3, <1>8
  <2> QED
    BY <2>1, <2>2, <2>3 DEF Ordered, Fits
<1>10. todo' # <<>> /\ todo'[1].uart = u /\ todo'[1].op = "flush"
  <2>1. todo' # <<>>
    BY <1>3, EmptySeq
  <2> QED
    BY <1>2, <2>1 DEF IsInit, Access
<1> QED
  BY <1>3, <1>9, <1>10

(* A call of write() is in the order the invariant asks for, too.          *)
LEMMA WriteCallOrdered ==
  ASSUME TypeOK, NEW u \in Uarts, NEW n \in Nat, todo' = WriteCall(u, n)
  PROVE  /\ todo' \in Seq(Accesses) /\ Ordered' /\ Len(todo') = n
         /\ \A i \in 1 .. n : todo'[i] = Access(u, "put", rate[u])
         /\ todo' # <<>> => todo'[1].uart = u /\ todo'[1].op = "put"
<1>1. rate[u] \in Nat
  BY DEF TypeOK
<1>2. /\ todo' \in Seq(Accesses) /\ Len(todo') = n
      /\ \A i \in 1 .. n : todo'[i] = Access(u, "put", rate[u])
  BY <1>1 DEF WriteCall, Access, Accesses, Ops
<1>3. After["put"] = "put"
  BY DEF After, Ops
<1>4. \A i \in 1 .. n : /\ Fits(todo'[i]) /\ todo'[i].uart = u
                        /\ todo'[i].op = "put"
  BY <1>2 DEF Fits, Access
<1>5. Ordered'
  <2>1. \A i \in 1 .. Len(todo') : Fits(todo'[i]) /\ todo'[i].uart = todo'[1].uart
    BY <1>2, <1>4
  <2>2. \A i \in 1 .. Len(todo') - 1 : todo'[i + 1].op = After[todo'[i].op]
    BY <1>2, <1>3, <1>4
  <2>3. \A i \in 1 .. Len(todo') : i = Len(todo') => todo'[i].op \in {"cr", "put"}
    BY <1>2, <1>4
  <2> QED
    BY <2>1, <2>2, <2>3 DEF Ordered, Fits
<1> QED
  BY <1>2, <1>4, <1>5

(* What any access of the driver keeps of the order, once what it does to  *)
(* its own UART is known.                                                  *)
LEMMA Moved ==
  ASSUME LInv, todo # <<>>, NEW r, Made(r), NEW u, u = todo[1].uart
  PROVE  /\ u \in Uarts /\ U = u /\ Head(todo) = todo[1]
         /\ todo' \in Seq(Accesses) /\ Ordered' /\ rate' = rate
         /\ uart'[u] = r /\ \A v \in Uarts : v # u => uart'[v] = uart[v]
         /\ uart' \in [Uarts -> {uart[v] : v \in Uarts} \cup {r}]
         /\ Fits(todo[1]) /\ todo[1] \in Accesses
         /\ todo' # <<>> => /\ todo'[1].uart = u
                            /\ todo'[1].op = After[todo[1].op]
         /\ todo' = <<>> => todo[1].op \in {"cr", "put"}
<1>1. todo' = Tail(todo) /\ todo \in Seq(Accesses) /\ Ordered
  BY DEF Made, LInv, TypeOK, Accesses
<1>2. /\ todo' \in Seq(Accesses) /\ Ordered'
      /\ todo[1] \in Accesses /\ Fits(todo[1]) /\ Head(todo) = todo[1]
      /\ todo' # <<>> => /\ todo'[1].uart = todo[1].uart
                         /\ todo'[1].op = After[todo[1].op]
      /\ todo' = <<>> => todo[1].op \in {"cr", "put"}
  BY <1>1, Shift
<1>3. u \in Uarts /\ U = u
  BY <1>2 DEF U, Accesses
<1>4. uart' = [uart EXCEPT ![u] = r] /\ rate' = rate /\ uart = [v \in Uarts |-> uart[v]]
  BY <1>3 DEF Made, LInv, TypeOK
<1> QED
  BY <1>2, <1>3, <1>4

(* The record of a UART.                                                   *)
Machine == [enabled : BOOLEAN, tx : BOOLEAN, fen : BOOLEAN,
            divisor : Divisors, active : Divisors,
            word : {"reset", "other", "8N1"}, fifo : Seq(Nat), shift : Seq(Nat)]

Bounded(r) == Len(r.fifo) <= FIFO_DEPTH /\ Len(r.shift) <= 1

Idle(r) == r.fifo = <<>> /\ r.shift = <<>>

(* The types with the hardware as one set, which the steps keep one by one. *)
LEMMA Machines ==
  TypeOK <=> /\ uart \in [Uarts -> Machine]
             /\ \A u \in Uarts : Bounded(uart[u])
             /\ todo \in Seq(Accesses)
             /\ rate \in [Uarts -> Nat]
  BY DEF TypeOK, Machine, Bounded, Accesses

(* A write to UARTLCR_H of an idle UART leaves it idle and of its type.    *)
LEMMA LineControlKeeps ==
  ASSUME NEW r \in Machine, Bounded(r), NEW word \in {"reset", "other", "8N1"},
         NEW fen \in BOOLEAN, Idle(r)
  PROVE  /\ LineControl(r, word, fen) \in Machine
         /\ Bounded(LineControl(r, word, fen)) /\ Idle(LineControl(r, word, fen))
         /\ LineControl(r, word, fen).enabled = r.enabled
<1>1. LineControl(r, word, fen) = [r EXCEPT !.word = word, !.fen = fen,
                                            !.active = r.divisor]
  BY DEF LineControl, Idle, Machine
<1> QED
  BY <1>1 DEF Machine, Bounded, Idle

(* The conjuncts of the invariant but for the order, after an access that  *)
(* leaves its UART as r.                                                   *)
LEMMA TypeStep ==
  ASSUME LInv, todo # <<>>, NEW r \in Machine, Made(r), Bounded(r)
  PROVE  TypeOK'
<1>1. PICK u : u = todo[1].uart
  OBVIOUS
<1>2. /\ u \in Uarts /\ todo' \in Seq(Accesses) /\ rate' = rate
      /\ uart'[u] = r /\ \A v \in Uarts : v # u => uart'[v] = uart[v]
      /\ uart' \in [Uarts -> {uart[v] : v \in Uarts} \cup {r}]
  BY <1>1, Moved
<1>3. /\ uart \in [Uarts -> Machine] /\ \A v \in Uarts : Bounded(uart[v])
      /\ rate \in [Uarts -> Nat]
  BY Machines DEF LInv
<1>4. uart' \in [Uarts -> Machine] /\ \A v \in Uarts : Bounded(uart'[v])
  BY <1>2, <1>3
<1> QED
  BY <1>2, <1>3, <1>4 DEF TypeOK, Machine, Bounded, Accesses

(* An access that leaves its UART empty and off, in the middle of an       *)
(* init(), keeps the invariant.                                            *)
LEMMA QuietStep ==
  ASSUME LInv, todo # <<>>, NEW r \in Machine, Made(r), Bounded(r), Idle(r),
         todo[1].op \in Quiet \ {"cr"}, ~r.enabled
  PROVE  LInv'
<1>1. PICK u : u = todo[1].uart
  OBVIOUS
<1>2. /\ u \in Uarts /\ Ordered' /\ uart'[u] = r
      /\ todo' # <<>> => todo'[1].uart = u
  BY <1>1, Moved
<1>3. TypeOK'
  BY TypeStep
<1>4. uart'[u].fifo = <<>> /\ uart'[u].shift = <<>>
  BY <1>2 DEF Idle
<1>5. Emptied'
  BY <1>2, <1>4 DEF Emptied, Busy
<1> QED
  BY <1>2, <1>3, <1>5 DEF LInv

-----------------------------------------------------------------------------
(* write() waits for room, so what it writes to the FIFO is not dropped.   *)
LEMMA PutAppends ==
  ASSUME Put
  PROVE  Made([uart[U] EXCEPT !.fifo = Append(@, Head(todo).val)])
BY DEF Put, DataWritten

(* The accesses of the driver, one by one.                                 *)
LEMMA AccessStep ==
  ASSUME LInv, Step
  PROVE  LInv'
<1>1. todo # <<>>
  BY DEF Step, Flush, Disable, ClearFifo, SetDivisor, SetLine, Enable, Put, Doing
<1>2. PICK u : u = todo[1].uart
  OBVIOUS
<1>3. /\ todo \in Seq(Accesses) /\ uart \in [Uarts -> Machine]
      /\ \A v \in Uarts : Bounded(uart[v])
  BY Machines DEF LInv
<1>4. /\ u \in Uarts /\ U = u /\ Head(todo) = todo[1]
      /\ todo[1] \in Accesses /\ Fits(todo[1])
  <2>1. 1 \in 1 .. Len(todo) /\ Head(todo) = todo[1]
    BY <1>1, <1>3
  <2>2. todo[1] \in Accesses
    BY <1>3, <2>1
  <2>3. Fits(todo[1])
    BY <2>1 DEF LInv, Ordered
  <2>4. todo[1].uart \in Uarts
    BY <2>2 DEF Accesses
  <2> QED
    BY <1>2, <2>1, <2>2, <2>3, <2>4 DEF U
<1>5. uart[u] \in Machine /\ Bounded(uart[u])
  BY <1>3, <1>4
<1>6. /\ todo[1].op \in Quiet => Idle(uart[u])
      /\ todo[1].op \in Quiet \ {"disable"} => ~uart[u].enabled
  BY <1>1, <1>2, <1>4 DEF LInv, Emptied, Busy, Idle
<1>7. CASE Flush
  <2>1. todo[1].op = "flush" /\ Made(uart[u]) /\ ~Busy(u)
    BY <1>4, <1>7 DEF Flush, Doing
  <2>2. /\ uart' = uart /\ rate' = rate /\ Ordered'
        /\ todo' # <<>> /\ todo'[1].uart = u /\ todo'[1].op = "disable"
    <3>1. uart'[u] = uart[u] /\ \A v \in Uarts : v # u => uart'[v] = uart[v]
      BY <1>1, <1>2, <2>1, Moved
    <3>2. uart' = uart
      BY <1>3, <1>4, <2>1 DEF Made
    <3> QED
      BY <1>1, <1>2, <2>1, <3>2, Moved DEF After, Ops
  <2>3. TypeOK'
    BY <1>1, <1>5, <2>1, TypeStep
  <2>4. Emptied'
    BY <2>1, <2>2 DEF Emptied, Busy
  <2> QED
    BY <2>2, <2>3, <2>4 DEF LInv
<1>8. CASE Disable
  <2> DEFINE r == [uart[u] EXCEPT !.enabled = FALSE]
  <2>1. todo[1].op = "disable" /\ Made(r)
    BY <1>4, <1>8 DEF Disable, Doing
  <2>2. r \in Machine /\ Bounded(r) /\ Idle(r) /\ ~r.enabled
    BY <1>5, <1>6, <2>1 DEF Machine, Bounded, Idle, Quiet
  <2> QED
    BY <1>1, <2>1, <2>2, QuietStep DEF Quiet
<1>9. CASE ClearFifo
  <2> DEFINE r == LineControl(uart[u], uart[u].word, FALSE)
  <2>1. todo[1].op = "fen" /\ Made(r)
    BY <1>4, <1>9 DEF ClearFifo, Doing
  <2>2. uart[u].word \in {"reset", "other", "8N1"}
    BY <1>5 DEF Machine
  <2>3. r \in Machine /\ Bounded(r) /\ Idle(r) /\ ~r.enabled
    BY <1>5, <1>6, <2>1, <2>2, LineControlKeeps DEF Quiet
  <2> QED
    BY <1>1, <2>1, <2>3, QuietStep DEF Quiet
<1>10. CASE SetDivisor
  <2>1. \/ /\ todo[1].op = "ibrd"
           /\ Made([uart[u] EXCEPT !.divisor[1] = todo[1].val])
        \/ /\ todo[1].op = "fbrd"
           /\ Made([uart[u] EXCEPT !.divisor[2] = todo[1].val])
    BY <1>4, <1>10 DEF SetDivisor, Doing
  <2>2. uart[u].divisor \in Divisors
    BY <1>5 DEF Machine
  <2>3. CASE todo[1].op = "ibrd" /\ Made([uart[u] EXCEPT !.divisor[1] = todo[1].val])
    <3> DEFINE r == [uart[u] EXCEPT !.divisor[1] = todo[1].val]
    <3>1. todo[1].val \in IntegerPart
      BY <1>4, <2>3 DEF Fits
    <3>2. [uart[u].divisor EXCEPT ![1] = todo[1].val] \in Divisors
      BY <2>2, <3>1 DEF Divisors
    <3>3. r \in Machine /\ Bounded(r) /\ Idle(r) /\ ~r.enabled
      BY <1>5, <1>6, <2>3, <3>2 DEF Machine, Bounded, Idle, Quiet
    <3> QED
      BY <1>1, <2>3, <3>3, QuietStep DEF Quiet
  <2>4. CASE todo[1].op = "fbrd" /\ Made([uart[u] EXCEPT !.divisor[2] = todo[1].val])
    <3> DEFINE r == [uart[u] EXCEPT !.divisor[2] = todo[1].val]
    <3>1. todo[1].val \in FractionPart
      BY <1>4, <2>4 DEF Fits
    <3>2. [uart[u].divisor EXCEPT ![2] = todo[1].val] \in Divisors
      BY <2>2, <3>1 DEF Divisors
    <3>3. r \in Machine /\ Bounded(r) /\ Idle(r) /\ ~r.enabled
      BY <1>5, <1>6, <2>4, <3>2 DEF Machine, Bounded, Idle, Quiet
    <3> QED
      BY <1>1, <2>4, <3>3, QuietStep DEF Quiet
  <2> QED
    BY <2>1, <2>3, <2>4
<1>11. CASE SetLine
  <2> DEFINE r == LineControl(uart[u], "8N1", TRUE)
  <2>1. todo[1].op = "lcr" /\ Made(r)
    BY <1>4, <1>11 DEF SetLine, Doing
  <2>2. r \in Machine /\ Bounded(r) /\ Idle(r) /\ ~r.enabled
    BY <1>5, <1>6, <2>1, LineControlKeeps DEF Quiet
  <2> QED
    BY <1>1, <2>1, <2>2, QuietStep DEF Quiet
<1>12. CASE Enable
  <2> DEFINE r == [uart[u] EXCEPT !.enabled = TRUE, !.tx = TRUE]
  <2>1. todo[1].op = "cr" /\ Made(r)
    BY <1>4, <1>12 DEF Enable, Doing
  <2>2. r \in Machine /\ Bounded(r) 
    BY <1>5 DEF Machine, Bounded
  <2>3. Ordered' /\ (todo' # <<>> => todo'[1].op = "put")
    BY <1>1, <1>2, <2>1, Moved DEF After, Ops
  <2>4. TypeOK'
    BY <1>1, <2>1, <2>2, TypeStep
  <2>5. Emptied'
    BY <2>3 DEF Emptied, Quiet
  <2> QED
    BY <2>3, <2>4, <2>5 DEF LInv
<1>13. CASE Put
  <2> DEFINE r == [uart[u] EXCEPT !.fifo = Append(@, todo[1].val)]
  <2>1. todo[1].op = "put" /\ Made(r) /\ ~Full(u)
    BY <1>4, <1>13, PutAppends DEF Put, Doing
  <2>3. r \in Machine /\ Bounded(r)
    <3>1. todo[1].val \in Nat
      BY <1>4 DEF Accesses
    <3>2. uart[u].fifo \in Seq(Nat) /\ Len(uart[u].fifo) < FIFO_DEPTH
      BY <1>5, <2>1, FifoHasRoom DEF Full, Depth, Machine
    <3>3. /\ Append(uart[u].fifo, todo[1].val) \in Seq(Nat)
          /\ Len(Append(uart[u].fifo, todo[1].val)) <= FIFO_DEPTH
      BY <3>1, <3>2, FifoHasRoom
    <3> QED
      BY <1>5, <3>3 DEF Machine, Bounded
  <2>4. Ordered' /\ (todo' # <<>> => todo'[1].op = "put")
    BY <1>1, <1>2, <2>1, Moved DEF After, Ops
  <2>5. TypeOK'
    BY <1>1, <2>1, <2>3, TypeStep
  <2>6. Emptied'
    BY <2>4 DEF Emptied, Quiet
  <2> QED
    BY <2>4, <2>5, <2>6 DEF LInv
<1> QED
  BY <1>7, <1>8, <1>9, <1>10, <1>11, <1>12, <1>13 DEF Step

(* The transmitters move between the accesses.                             *)
LEMMA HardwareStep ==
  ASSUME LInv, NEW u \in Uarts, Hardware(u)
  PROVE  /\ LInv' /\ todo' = todo /\ rate' = rate /\ Busy(u)
         /\ uart'[u].enabled = uart[u].enabled /\ uart'[u].tx = uart[u].tx
         /\ \A v \in Uarts : v # u => uart'[v] = uart[v]
<1>1. /\ uart \in [Uarts -> Machine] /\ \A v \in Uarts : Bounded(uart[v])
      /\ todo \in Seq(Accesses) /\ rate \in [Uarts -> Nat]
  BY Machines DEF LInv
<1>2. PICK r : /\ uart' = [uart EXCEPT ![u] = r]
               /\ r \in Machine /\ Bounded(r) /\ Busy(u)
               /\ r.enabled = uart[u].enabled /\ r.tx = uart[u].tx
  <2>1. uart[u] \in Machine /\ Bounded(uart[u])
    BY <1>1
  <2>2. CASE StartFrame(u)
    <3> DEFINE head == <<Head(uart[u].fifo)>>
               tail == Tail(uart[u].fifo)
               r    == [uart[u] EXCEPT !.shift = head, !.fifo = tail]
    <3>1. uart' = [uart EXCEPT ![u] = r] /\ uart[u].fifo # <<>>
      BY <1>1, <2>2 DEF StartFrame
    <3>2. uart[u].fifo \in Seq(Nat) /\ Len(uart[u].fifo) <= FIFO_DEPTH
      BY <2>1 DEF Machine, Bounded
    <3>3. tail \in Seq(Nat) /\ Len(tail) <= FIFO_DEPTH
      BY <3>1, <3>2, FifoHasRoom
    <3>4. head \in Seq(Nat) /\ Len(head) = 1
      BY <3>1, <3>2
    <3> HIDE DEF head, tail
    <3>5. r \in Machine /\ r.enabled = uart[u].enabled /\ r.tx = uart[u].tx
      BY <2>1, <3>3, <3>4 DEF Machine
    <3>6. r.fifo = tail /\ r.shift = head
      BY <2>1 DEF Machine
    <3>7. Bounded(r)
      <4>1. Len(r.fifo) <= FIFO_DEPTH
        BY <3>3, <3>6, Zenon
      <4>2. Len(r.shift) <= 1
        <5>1. Len(r.shift) = 1
          BY <3>4, <3>6, Zenon
        <5> HIDE DEF r
        <5> QED
          BY <5>1
      <4> QED
        BY <4>1, <4>2, Zenon DEF Bounded
    <3> QED
      BY <3>1, <3>5, <3>7 DEF Busy
  <2>3. CASE EndFrame(u)
    <3> DEFINE r == [uart[u] EXCEPT !.shift = <<>>]
    <3>1. uart' = [uart EXCEPT ![u] = r] /\ uart[u].shift # <<>>
      BY <1>1, <2>3 DEF EndFrame
    <3> DEFINE none == <<>>
    <3>2. none \in Seq(Nat) /\ Len(none) = 0
      OBVIOUS
    <3> HIDE DEF none
    <3>3. r = [uart[u] EXCEPT !.shift = none]
      BY DEF none
    <3> HIDE DEF r
    <3>4. r \in Machine /\ r.enabled = uart[u].enabled /\ r.tx = uart[u].tx
      BY <2>1, <3>2, <3>3 DEF Machine
    <3>5. r.fifo = uart[u].fifo /\ r.shift = none
      BY <2>1, <3>3 DEF Machine
    <3>6. Bounded(r)
      BY <2>1, <3>2, <3>5 DEF Bounded
    <3> QED
      BY <3>1, <3>4, <3>6 DEF Busy
  <2> QED
    BY <2>2, <2>3 DEF Hardware
<1>3. /\ uart' \in [Uarts -> Machine] /\ \A v \in Uarts : Bounded(uart'[v])
      /\ uart'[u] = r /\ \A v \in Uarts : v # u => uart'[v] = uart[v]
  BY <1>1, <1>2
<1>4. todo' = todo /\ rate' = rate
  BY DEF Hardware, StartFrame, EndFrame
<1>5. TypeOK'
  BY <1>1, <1>3, <1>4 DEF TypeOK, Machine, Bounded, Accesses
<1>6. Ordered'
  BY <1>4 DEF LInv, Ordered, Fits
<1>7. Emptied'
  <2>1. CASE todo = <<>>
    BY <1>4, <2>1 DEF Emptied
  <2>2. CASE todo # <<>>
    <3>1. todo[1].uart \in Uarts
      <4>1. 1 \in 1 .. Len(todo)
        BY <1>1, <2>2
      <4>2. todo[1] \in Accesses
        BY <1>1, <4>1
      <4> QED
        BY <4>2 DEF Accesses
    <3>2. todo[1].op \in Quiet => todo[1].uart # u
      BY <1>2, <2>2 DEF LInv, Emptied
    <3>3. todo[1].uart # u => uart'[todo[1].uart] = uart[todo[1].uart]
      BY <1>3, <3>1
    <3> QED
      BY <1>4, <2>2, <3>2, <3>3 DEF LInv, Emptied, Busy
  <2> QED
    BY <2>1, <2>2
<1>8. LInv'
  BY <1>5, <1>6, <1>7 DEF LInv
<1> QED
  BY <1>2, <1>3, <1>4, <1>8

(* The calls of init(), of write(), and of one after the other.            *)
LEMMA InitCallStep ==
  ASSUME TypeOK, uart' = uart, NEW u \in Uarts, NEW kind, NEW baud \in BaudRange,
         NEW n \in Nat, NEW r, IsInit(todo', u, Divisor(kind, baud), n, r),
         rate' = [rate EXCEPT ![u] = Nearest(u, baud)]
  PROVE  /\ LInv' /\ rate'[u] = Nearest(u, baud)
         /\ \A v \in Uarts : v # u => rate'[v] = rate[v]
         /\ todo' # <<>> /\ todo'[1].uart = u /\ todo'[1].op = "flush"
<1>1. /\ todo' \in Seq(Accesses) /\ Ordered' /\ todo' # <<>>
      /\ todo'[1].uart = u /\ todo'[1].op = "flush"
  BY InitOrdered
<1>2. Nearest(u, baud) \in Nat
  BY NearestIsNat
<1>3. /\ rate' \in [Uarts -> Nat] /\ rate'[u] = Nearest(u, baud)
      /\ \A v \in Uarts : v # u => rate'[v] = rate[v]
  BY <1>2 DEF TypeOK
<1>4. TypeOK'
  BY <1>1, <1>3 DEF TypeOK, Accesses
<1>5. Emptied'
  BY <1>1 DEF Emptied, Quiet
<1> QED
  BY <1>1, <1>3, <1>4, <1>5 DEF LInv

LEMMA WriteCallStep ==
  ASSUME TypeOK, uart' = uart, rate' = rate, NEW u \in Uarts, NEW n \in Nat,
         todo' = WriteCall(u, n)
  PROVE  LInv'
<1>1. /\ todo' \in Seq(Accesses) /\ Ordered'
      /\ todo' # <<>> => todo'[1].op = "put"
  BY WriteCallOrdered
<1>2. TypeOK'
  BY <1>1 DEF TypeOK, Accesses
<1>3. Emptied'
  BY <1>1 DEF Emptied, Quiet
<1> QED
  BY <1>1, <1>2, <1>3 DEF LInv

(* The invariant speaks of nothing but the variables.                      *)
LEMMA LineStutter ==
  ASSUME LInv, uart' = uart, todo' = todo, rate' = rate
  PROVE  LInv'
  BY DEF LInv, TypeOK, Ordered, Fits, Emptied, Busy

-----------------------------------------------------------------------------
(* The rest of IInv.  An access leaves its UART on, or quiet in an init(). *)
LEMMA OwnedStep ==
  ASSUME IInv, Step
  PROVE  IInv'
<1>1. LInv' /\ LInv
  BY AccessStep DEF IInv
<1>2. todo # <<>> /\ \E r : Made(r)
  BY DEF Step, Flush, Disable, ClearFifo, SetDivisor, SetLine, Enable, Put, Doing,
         Made
<1>3. PICK r : Made(r)
  BY <1>2
<1>4. PICK u : u = todo[1].uart
  OBVIOUS
<1>5. /\ u \in Uarts /\ U = u /\ Head(todo) = todo[1] /\ todo' = Tail(todo)
      /\ rate' = rate /\ uart'[u] = r
      /\ \A v \in Uarts : v # u => uart'[v] = uart[v]
      /\ todo[1] \in Accesses
      /\ todo' # <<>> => todo'[1].uart = u /\ todo'[1].op = After[todo[1].op]
      /\ todo' = <<>> => todo[1].op \in {"cr", "put"}
  <2>1. todo' = Tail(todo)
    BY <1>3 DEF Made
  <2> QED
    BY <1>1, <1>2, <1>3, <1>4, <2>1, Moved
<1>6. todo \in Seq(Accesses) /\ uart[u] \in Machine
  BY <1>1, <1>5, Machines DEF LInv
<1>7. Separate' /\ (todo[1].op = "cr" => todo' = <<>>)
  <2>1. /\ Len(todo') = Len(todo) - 1 /\ Len(todo) \in Nat
        /\ \A i \in 1 .. Len(todo) - 1 : todo'[i] = todo[i + 1]
    BY <1>2, <1>5, <1>6
  <2>2. Separate'
    BY <2>1 DEF IInv, Separate
  <2>3. ASSUME todo[1].op = "cr" PROVE Len(todo) = 1
    BY <1>2, <1>6, <2>1, <2>3 DEF IInv, Separate
  <2>4. Len(todo) = 1 => todo' = <<>>
    BY <1>5, <1>6
  <2> QED
    BY <2>2, <2>3, <2>4
<1>8. CASE todo[1].op \in {"flush", "disable", "fen", "ibrd", "fbrd", "lcr"}
  <2>1. todo' # <<>> /\ todo'[1].uart = u /\ todo'[1].op \in Quiet
    BY <1>5, <1>8 DEF After, Ops, Quiet
  <2>2. Owned' /\ ~Busy(u)'
    BY <1>1, <1>5, <2>1 DEF Owned, LInv, Emptied, Quiet, Busy
  <2>3. Initialised'
    BY <1>4, <1>5, <1>8, <2>1 DEF IInv, Initialised, Quiet
  <2>4. BusyIsOn'
    BY <1>5, <2>2 DEF IInv, BusyIsOn, Busy
  <2> QED
    BY <1>1, <1>7, <2>2, <2>3, <2>4 DEF IInv
<1>9. CASE todo[1].op = "cr"
  <2>1. r.enabled /\ r.tx
    <3>1. Enable
      BY <1>5, <1>9 DEF Step, Flush, Disable, ClearFifo, SetDivisor, SetLine, Put,
                        Doing
    <3>2. uart' = [uart EXCEPT ![u] = [uart[u] EXCEPT !.enabled = TRUE, !.tx = TRUE]]
      BY <1>5, <3>1 DEF Enable, Made
    <3> QED
      BY <1>1, <1>5, <1>6, <3>2 DEF Machine, LInv, TypeOK
  <2>2. Initialised' /\ BusyIsOn'
    BY <1>4, <1>5, <2>1 DEF IInv, Initialised, BusyIsOn, Busy
  <2>3. Owned'
    BY <1>7, <1>9 DEF Owned
  <2> QED
    BY <1>1, <1>7, <2>2, <2>3 DEF IInv
<1>10. CASE todo[1].op = "put"
  <2>1. rate[u] # 0 /\ uart[u].enabled /\ uart[u].tx
    BY <1>2, <1>4, <1>5, <1>10 DEF IInv, Owned, Initialised
  <2>2. r.enabled /\ r.tx
    <3>1. Put
      BY <1>5, <1>10 DEF Step, Flush, Disable, ClearFifo, SetDivisor, SetLine,
                         Enable, Doing
    <3>2. uart' = [uart EXCEPT ![u] =
                     [uart[u] EXCEPT !.fifo = Append(@, todo[1].val)]]
      BY <1>5, <3>1, PutAppends DEF Made
    <3> QED
      BY <1>1, <1>5, <1>6, <2>1, <3>2 DEF Machine, LInv, TypeOK
  <2>3. Initialised' /\ BusyIsOn'
    BY <1>4, <1>5, <1>10, <2>2 DEF IInv, Initialised, BusyIsOn, Busy
  <2>4. Owned'
    BY <1>5, <2>1 DEF Owned
  <2> QED
    BY <1>1, <1>7, <2>3, <2>4 DEF IInv
<1> QED
  BY <1>5, <1>8, <1>9, <1>10 DEF Accesses, Ops

(* A caller calls only when its last call has returned.                    *)
LEMMA ClientStep ==
  ASSUME IInv, Client
  PROVE  IInv'
<1>1. TypeOK /\ uart' = uart /\ todo = <<>>
  BY DEF Client, CallInit, CallWrite, IInv, LInv
<1>2. BusyIsOn'
  BY <1>1 DEF IInv, BusyIsOn, Busy
<1>3. CASE \E u \in Uarts : \E kind \in {"Debug", "Rp1"}, baud \in Bauds :
             CallInit(u, kind, baud)
  <2>1. PICK u \in Uarts, kind \in {"Debug", "Rp1"}, baud \in Bauds :
          CallInit(u, kind, baud)
    BY <1>3
  <2>2. /\ baud \in BaudRange
        /\ rate' = [rate EXCEPT ![u] = Nearest(u, baud)]
        /\ IsInit(todo', u, Divisor(kind, baud), 0, Nearest(u, baud))
    BY <2>1, BaudsFit, InitCallIs DEF CallInit
  <2>3. /\ LInv' /\ \A v \in Uarts : v # u => rate'[v] = rate[v]
        /\ todo' # <<>> /\ todo'[1].uart = u /\ todo'[1].op = "flush"
    BY <1>1, <2>2, InitCallStep
  <2>4. Owned'
    BY <2>3 DEF Owned
  <2>5. Initialised'
    BY <1>1, <2>3 DEF IInv, Initialised
  <2>6. Separate'
    <3>1. Len(todo') = 7
      BY <2>2 DEF IsInit
    <3>2. \A i \in 1 .. 6 : i \in {1, 2, 3, 4, 5, 6}
      OBVIOUS
    <3>3. \A i \in {1, 2, 3, 4, 5, 6} : todo'[i].op # "cr"
      BY <2>2 DEF IsInit, Access
    <3> QED
      BY <3>1, <3>2, <3>3 DEF Separate
  <2> QED
    BY <1>2, <2>3, <2>4, <2>5, <2>6 DEF IInv
<1>4. CASE \E u \in Uarts : \E n \in 1 .. MaxText : rate[u] # 0 /\ CallWrite(u, n)
  <2>1. PICK u \in Uarts, n \in 1 .. MaxText : rate[u] # 0 /\ CallWrite(u, n)
    BY <1>4
  <2>2. n \in Nat /\ todo' = WriteCall(u, n) /\ rate' = rate
    BY <2>1, MaxTextIsNat DEF CallWrite
  <2>3. /\ Len(todo') = n
        /\ \A i \in 1 .. n : todo'[i] = Access(u, "put", rate[u])
        /\ todo' # <<>> => todo'[1].uart = u
    BY <1>1, <2>2, WriteCallOrdered
  <2>4. LInv'
    BY <1>1, <2>2, WriteCallStep
  <2>5. Owned'
    BY <2>1, <2>2, <2>3 DEF Owned
  <2>6. Initialised'
    BY <1>1, <2>2 DEF IInv, Initialised
  <2>7. Separate'
    BY <2>2, <2>3 DEF Separate, Access
  <2> QED
    BY <1>2, <2>4, <2>5, <2>6, <2>7 DEF IInv
<1> QED
  BY <1>3, <1>4 DEF Client

(* The transmitters move, or nothing does.                                 *)
LEMMA MovesStep ==
  ASSUME IInv, UNCHANGED vars \/ \E u \in Uarts : Hardware(u)
  PROVE  IInv'
<1>1. CASE UNCHANGED vars
  <2>1. uart' = uart /\ todo' = todo /\ rate' = rate
    BY <1>1 DEF vars
  <2>2. LInv'
    BY <2>1, LineStutter DEF IInv
  <2> QED
    BY <2>1, <2>2 DEF IInv, Separate, Owned, Initialised, BusyIsOn, Busy
<1>2. CASE \E u \in Uarts : Hardware(u)
  <2>1. PICK u \in Uarts : Hardware(u)
    BY <1>2
  <2>2. /\ LInv' /\ todo' = todo /\ rate' = rate /\ Busy(u)
        /\ uart'[u].enabled = uart[u].enabled /\ uart'[u].tx = uart[u].tx
        /\ \A v \in Uarts : v # u => uart'[v] = uart[v]
    BY <2>1, HardwareStep DEF IInv
  <2>3. Separate' /\ Owned' /\ Initialised'
    BY <2>2 DEF IInv, Separate, Owned, Initialised
  <2>4. BusyIsOn'
    BY <2>2 DEF IInv, BusyIsOn, Busy
  <2> QED
    BY <2>2, <2>3, <2>4 DEF IInv
<1> QED
  BY <1>1, <1>2

(* The invariant is inductive: callers, the driver and the hardware keep it. *)
LEMMA StepInv == IInv /\ [Next]_vars => IInv'
  BY ClientStep, OwnedStep, MovesStep DEF Next

(* And it holds however the firmware leaves the UARTs.                     *)
LEMMA InitInv == Init => IInv
<1> SUFFICES ASSUME Init PROVE IInv
  OBVIOUS
<1>1. todo = <<>> /\ rate = [u \in Uarts |-> 0] /\ uart \in [Uarts -> LeftByFirmware]
  BY DEF Init
<1>2. \A r \in LeftByFirmware :
        r \in Machine /\ Bounded(r) /\ (r.enabled \/ Idle(r)) /\ r.tx
  <2>1. <<0, 0>> \in Divisors /\ <<1, 0>> \in Divisors
    BY DEF Divisors, IntegerPart, FractionPart
  <2> SUFFICES ASSUME NEW r \in LeftByFirmware
               PROVE  /\ r \in Machine /\ Bounded(r)
                      /\ (r.enabled \/ Idle(r)) /\ r.tx
    OBVIOUS
  <2>3. CASE r = Transmitter(FALSE, <<0, 0>>, "reset", <<>>, <<>>)
    BY <2>1, <2>3, FifoHasRoom DEF Transmitter, Machine, Bounded, Idle
  <2>4. CASE \E n \in 0 .. FIFO_DEPTH, s \in {<<>>, <<0>>} :
               r = Transmitter(TRUE, <<1, 0>>, "other", Foreign(n), s)
    <3>1. PICK n \in 0 .. FIFO_DEPTH, s \in {<<>>, <<0>>} :
            r = Transmitter(TRUE, <<1, 0>>, "other", Foreign(n), s)
      BY <2>4
    <3> DEFINE f == Foreign(n)
    <3>2. n \in Nat /\ n <= FIFO_DEPTH
      BY FifoHasRoom
    <3>3. f \in Seq(Nat) /\ Len(f) = n
      BY <3>2 DEF Foreign
    <3>4. s \in Seq(Nat) /\ Len(s) <= 1
      <4>1. CASE s = <<>>
        BY <4>1
      <4>2. CASE s = <<0>>
        BY <4>2
      <4> QED
        BY <4>1, <4>2
    <3> HIDE DEF f
    <3>5. r = Transmitter(TRUE, <<1, 0>>, "other", f, s)
      BY <3>1 DEF f
    <3> QED
      BY <2>1, <3>2, <3>3, <3>4, <3>5 DEF Transmitter, Machine, Bounded
  <2>5. \/ r = Transmitter(FALSE, <<0, 0>>, "reset", <<>>, <<>>)
        \/ \E n \in 0 .. FIFO_DEPTH, s \in {<<>>, <<0>>} :
             r = Transmitter(TRUE, <<1, 0>>, "other", Foreign(n), s)
    BY DEF LeftByFirmware
  <2> QED
    BY <2>3, <2>4, <2>5
<1>3. /\ uart \in [Uarts -> Machine] /\ \A u \in Uarts : Bounded(uart[u])
      /\ \A u \in Uarts : (uart[u].enabled \/ Idle(uart[u])) /\ uart[u].tx
  BY <1>1, <1>2
<1>4. TypeOK
  BY <1>1, <1>3, Machines
<1>5. Ordered /\ Emptied /\ Separate /\ Owned /\ Initialised
  BY <1>1 DEF Ordered, Emptied, Separate, Owned, Initialised
<1>6. BusyIsOn
  BY <1>3 DEF BusyIsOn, Busy, Idle
<1> QED
  BY <1>4, <1>5, <1>6 DEF IInv, LInv

-----------------------------------------------------------------------------
(* At which rate characters are sent.  A character that expects one is     *)
(* under a line that has it; the line of an initialised UART has its rate  *)
(* but for the part of an init() before UARTLCR_H is written; and what an  *)
(* init() still has to write makes up that rate.                           *)
Lined(u, c) == c = Value(uart[u].active) /\ uart[u].word = "8N1"

CharsRight == \A u \in Uarts :
  /\ \A i \in 1 .. Len(uart[u].fifo) :
       uart[u].fifo[i] # 0 => Lined(u, uart[u].fifo[i])
  /\ \A i \in 1 .. Len(uart[u].shift) :
       uart[u].shift[i] # 0 => Lined(u, uart[u].shift[i])

LineRight == \A u \in Uarts : rate[u] # 0 =>
  \/ Lined(u, rate[u])
  \/ todo # <<>> /\ todo[1].uart = u
     /\ todo[1].op \in {"flush", "disable", "fen", "ibrd", "fbrd", "lcr"}

Planned ==
  /\ \A i \in 1 .. Len(todo) :
       todo[i].op = "put" => todo[i].val = rate[todo[1].uart]
  /\ \A i, j \in 1 .. Len(todo) : todo[i].op = "ibrd" /\ todo[j].op = "fbrd" =>
       64 * todo[i].val + todo[j].val = rate[todo[1].uart]

Written == todo # <<>> =>
  /\ todo[1].op = "fbrd" => 64 * uart[todo[1].uart].divisor[1] + todo[1].val
                              = rate[todo[1].uart]
  /\ todo[1].op = "lcr" => Value(uart[todo[1].uart].divisor) = rate[todo[1].uart]

RInv == LInv /\ CharsRight /\ LineRight /\ Planned /\ Written

(* What each access does to the line and the characters of its UART.       *)
LEMMA Effects ==
  ASSUME LInv, Step, NEW u, u = todo[1].uart
  PROVE  /\ todo # <<>> /\ u \in Uarts /\ todo[1] \in Accesses
         /\ LInv' /\ rate' = rate /\ todo' = Tail(todo)
         /\ \A v \in Uarts : v # u => uart'[v] = uart[v]
         /\ todo' # <<>> => todo'[1].uart = u /\ todo'[1].op = After[todo[1].op]
         /\ todo' = <<>> => todo[1].op \in {"cr", "put"}
         /\ todo[1].op \in {"flush", "disable", "cr", "put"} =>
              /\ uart'[u].shift = uart[u].shift /\ uart'[u].active = uart[u].active
              /\ uart'[u].word = uart[u].word
              /\ uart'[u].fifo = IF todo[1].op = "put"
                                   THEN Append(uart[u].fifo, todo[1].val)
                                   ELSE uart[u].fifo
         /\ todo[1].op \in {"fen", "ibrd", "fbrd", "lcr"} => Idle(uart'[u])
         /\ todo[1].op = "ibrd" => uart'[u].divisor[1] = todo[1].val
         /\ todo[1].op = "fbrd" => /\ uart'[u].divisor[1] = uart[u].divisor[1]
                                   /\ uart'[u].divisor[2] = todo[1].val
         /\ todo[1].op = "lcr" => /\ uart'[u].active = uart[u].divisor
                                  /\ uart'[u].word = "8N1"
<1>1. LInv'
  BY AccessStep
<1>2. todo # <<>> /\ \E r : Made(r)
  BY DEF Step, Flush, Disable, ClearFifo, SetDivisor, SetLine, Enable, Put, Doing
<1>3. PICK r : Made(r)
  BY <1>2
<1>4. /\ u \in Uarts /\ U = u /\ Head(todo) = todo[1] /\ todo' = Tail(todo)
      /\ rate' = rate /\ uart'[u] = r
      /\ \A v \in Uarts : v # u => uart'[v] = uart[v]
      /\ todo[1] \in Accesses
      /\ todo' # <<>> => todo'[1].uart = u /\ todo'[1].op = After[todo[1].op]
      /\ todo' = <<>> => todo[1].op \in {"cr", "put"}
  <2>1. todo' = Tail(todo)
    BY <1>3 DEF Made
  <2> QED
    BY <1>2, <1>3, <2>1, Moved
<1>5. uart[u] \in Machine /\ uart \in [Uarts -> Machine]
  BY <1>4, Machines DEF LInv
<1>6. \A x : Made(x) => uart'[u] = x
  BY <1>4, <1>5 DEF Made
<1>7. todo[1].op \in {"fen", "ibrd", "fbrd", "lcr"} => Idle(uart[u])
  BY <1>2 DEF LInv, Emptied, Quiet, Busy, Idle
<1>8. CASE Flush
  BY <1>1, <1>2, <1>4, <1>6, <1>8 DEF Flush, Doing
<1>9. CASE Disable
  BY <1>1, <1>2, <1>4, <1>5, <1>6, <1>9 DEF Disable, Doing, Machine
<1>10. CASE ClearFifo
  <2>1. todo[1].op = "fen" /\ uart'[u] = LineControl(uart[u], uart[u].word, FALSE)
    BY <1>4, <1>6, <1>10 DEF ClearFifo, Doing
  <2>2. Idle(uart'[u])
    BY <1>5, <1>7, <2>1 DEF LineControl, Idle, Machine
  <2> QED
    BY <1>1, <1>2, <1>4, <2>1, <2>2
<1>11. CASE SetDivisor
  <2>1. uart[u].divisor \in Divisors
    BY <1>5 DEF Machine
  <2>2. \A x : [uart[u].divisor EXCEPT ![1] = x][1] = x
    BY <2>1 DEF Divisors
  <2>3. \A x : /\ [uart[u].divisor EXCEPT ![2] = x][2] = x
               /\ [uart[u].divisor EXCEPT ![2] = x][1] = uart[u].divisor[1]
    BY <2>1 DEF Divisors
  <2>4. CASE todo[1].op = "ibrd"
    <3>1. uart'[u] = [uart[u] EXCEPT !.divisor[1] = todo[1].val]
      BY <1>4, <1>6, <1>11, <2>4 DEF SetDivisor, Doing
    <3>2. /\ uart'[u].divisor = [uart[u].divisor EXCEPT ![1] = todo[1].val]
          /\ Idle(uart'[u])
      BY <1>5, <1>7, <2>4, <3>1 DEF Machine, Idle
    <3>3. uart'[u].divisor[1] = todo[1].val
      BY <2>2, <3>2, Zenon
    <3> QED
      BY <1>1, <1>2, <1>4, <2>4, <3>2, <3>3
  <2>5. CASE todo[1].op = "fbrd"
    <3>1. uart'[u] = [uart[u] EXCEPT !.divisor[2] = todo[1].val]
      BY <1>4, <1>6, <1>11, <2>5 DEF SetDivisor, Doing
    <3>2. /\ uart'[u].divisor = [uart[u].divisor EXCEPT ![2] = todo[1].val]
          /\ Idle(uart'[u])
      BY <1>5, <1>7, <2>5, <3>1 DEF Machine, Idle
    <3> DEFINE e == [uart[u].divisor EXCEPT ![2] = todo[1].val]
    <3>3. e[2] = todo[1].val /\ e[1] = uart[u].divisor[1]
      BY <2>3
    <3> HIDE DEF e
    <3>4. /\ uart'[u].divisor[2] = todo[1].val
          /\ uart'[u].divisor[1] = uart[u].divisor[1]
      <4>1. uart'[u].divisor = e
        BY <3>2 DEF e
      <4> QED
        BY <3>3, <4>1
    <3> QED
      BY <1>1, <1>2, <1>4, <2>5, <3>2, <3>4
  <2> QED
    BY <1>4, <1>11, <2>4, <2>5 DEF SetDivisor, Doing
<1>12. CASE SetLine
  <2>1. todo[1].op = "lcr" /\ uart'[u] = LineControl(uart[u], "8N1", TRUE)
    BY <1>4, <1>6, <1>12 DEF SetLine, Doing
  <2>2. /\ Idle(uart'[u]) /\ uart'[u].active = uart[u].divisor
        /\ uart'[u].word = "8N1"
    BY <1>5, <1>7, <2>1 DEF LineControl, Idle, Machine
  <2> QED
    BY <1>1, <1>2, <1>4, <2>1, <2>2
<1>13. CASE Enable
  BY <1>1, <1>2, <1>4, <1>5, <1>6, <1>13 DEF Enable, Doing, Machine
<1>14. CASE Put
  <2> DEFINE f == Append(uart[u].fifo, todo[1].val)
  <2>1. todo[1].op = "put" /\ uart'[u] = [uart[u] EXCEPT !.fifo = f]
    BY <1>4, <1>6, <1>14, PutAppends DEF Put, Doing
  <2> HIDE DEF f
  <2>2. /\ uart'[u].shift = uart[u].shift /\ uart'[u].active = uart[u].active
        /\ uart'[u].word = uart[u].word /\ uart'[u].fifo = f
    BY <1>5, <2>1 DEF Machine
  <2> QED
    BY <1>1, <1>2, <1>4, <2>1, <2>2 DEF f
<1> QED
  BY <1>8, <1>9, <1>10, <1>11, <1>12, <1>13, <1>14 DEF Step

(* The driver sends characters at the rate it has written.                 *)
LEMMA RatedStep ==
  ASSUME RInv, Step
  PROVE  RInv'
<1>1. PICK u : u = todo[1].uart
  OBVIOUS
<1>2. /\ todo # <<>> /\ u \in Uarts /\ todo[1] \in Accesses
      /\ LInv' /\ rate' = rate /\ todo' = Tail(todo)
      /\ \A v \in Uarts : v # u => uart'[v] = uart[v]
      /\ todo' # <<>> => todo'[1].uart = u /\ todo'[1].op = After[todo[1].op]
      /\ todo' = <<>> => todo[1].op \in {"cr", "put"}
      /\ todo[1].op \in {"flush", "disable", "cr", "put"} =>
           /\ uart'[u].shift = uart[u].shift /\ uart'[u].active = uart[u].active
           /\ uart'[u].word = uart[u].word
           /\ uart'[u].fifo = IF todo[1].op = "put"
                                THEN Append(uart[u].fifo, todo[1].val)
                                ELSE uart[u].fifo
      /\ todo[1].op \in {"fen", "ibrd", "fbrd", "lcr"} => Idle(uart'[u])
      /\ todo[1].op = "ibrd" => uart'[u].divisor[1] = todo[1].val
      /\ todo[1].op = "fbrd" => /\ uart'[u].divisor[1] = uart[u].divisor[1]
                                /\ uart'[u].divisor[2] = todo[1].val
      /\ todo[1].op = "lcr" => /\ uart'[u].active = uart[u].divisor
                               /\ uart'[u].word = "8N1"
  BY <1>1, Effects DEF RInv
<1>3. /\ todo \in Seq(Accesses) /\ uart[u] \in Machine
      /\ todo[1].op \in Ops
  BY <1>2, Machines DEF RInv, LInv, Accesses
<1>4. /\ Len(todo') = Len(todo) - 1 /\ Len(todo) \in Nat /\ Len(todo) > 0
      /\ \A i \in 1 .. Len(todo') : todo'[i] = todo[i + 1]
                                    /\ i + 1 \in 1 .. Len(todo)
  BY <1>2, <1>3
<1>5. \A v \in Uarts : \A c : v # u => (Lined(v, c)' <=> Lined(v, c))
  BY <1>2 DEF Lined
<1>6. \A c : todo[1].op \in {"flush", "disable", "cr", "put"}
               => (Lined(u, c)' <=> Lined(u, c))
  BY <1>2 DEF Lined
<1>7. Planned'
  <2>1. todo' # <<>> => todo'[1].uart = todo[1].uart
    BY <1>1, <1>2
  <2>2. 1 \in 1 .. Len(todo') => todo' # <<>>
    BY <1>4
  <2>3. \A i \in 1 .. Len(todo') : 1 \in 1 .. Len(todo')
    BY <1>4
  <2> QED
    BY <1>2, <1>4, <2>1, <2>2, <2>3 DEF RInv, Planned
<1>8. Written'
  <2>1. CASE todo[1].op = "ibrd" /\ todo' # <<>>
    <3>1. /\ todo'[1].op = "fbrd" /\ todo'[1].uart = u /\ todo'[1] = todo[2]
          /\ 1 \in 1 .. Len(todo) /\ 2 \in 1 .. Len(todo)
      <4>1. todo' # <<>> => Len(todo') > 0
        BY <1>2, <1>3, <1>4
      <4> QED
        BY <1>2, <1>4, <2>1, <4>1 DEF After, Ops
    <3>2. 64 * todo[1].val + todo[2].val = rate[u]
      BY <1>1, <2>1, <3>1 DEF RInv, Planned
    <3> QED
      BY <1>2, <2>1, <3>1, <3>2 DEF Written
  <2>2. CASE todo[1].op = "fbrd" /\ todo' # <<>>
    <3>1. 64 * uart[u].divisor[1] + todo[1].val = rate[u]
      BY <1>1, <1>2, <2>2 DEF RInv, Written
    <3>2. todo'[1].op = "lcr" /\ todo'[1].uart = u
      BY <1>2, <2>2 DEF After, Ops
    <3>3. Value(uart'[u].divisor) = rate[u]
      BY <1>2, <2>2, <3>1 DEF Value
    <3> QED
      BY <1>2, <3>2, <3>3 DEF Written
  <2>3. CASE todo[1].op \notin {"ibrd", "fbrd"} /\ todo' # <<>>
    <3>1. todo'[1].op \notin {"fbrd", "lcr"}
      BY <1>2, <1>3, <2>3 DEF After, Ops
    <3> QED
      BY <3>1 DEF Written
  <2> QED
    BY <2>1, <2>2, <2>3 DEF Written
<1>9. CharsRight' /\ LineRight'
  <2>1. CASE todo[1].op \in {"fen", "ibrd", "fbrd", "lcr"}
    <3>1. Len(uart'[u].fifo) = 0 /\ Len(uart'[u].shift) = 0
      BY <1>2, <2>1 DEF Idle
    <3>2. CharsRight'
      <4> SUFFICES ASSUME NEW v \in Uarts
                   PROVE  (/\ \A i \in 1 .. Len(uart[v].fifo) :
                                uart[v].fifo[i] # 0 => Lined(v, uart[v].fifo[i])
                           /\ \A i \in 1 .. Len(uart[v].shift) :
                                uart[v].shift[i] # 0 => Lined(v, uart[v].shift[i]))'
        BY DEF CharsRight
      <4>1. CASE v = u
        BY <3>1, <4>1
      <4>2. CASE v # u
        <5>1. /\ \A i \in 1 .. Len(uart[v].fifo) :
                   uart[v].fifo[i] # 0 => Lined(v, uart[v].fifo[i])
              /\ \A i \in 1 .. Len(uart[v].shift) :
                   uart[v].shift[i] # 0 => Lined(v, uart[v].shift[i])
          BY DEF RInv, CharsRight
        <5>2. uart'[v] = uart[v]
          BY <1>2, <4>2
        <5> QED
          BY <5>1, <5>2 DEF Lined
      <4> QED
        BY <4>1, <4>2
    <3>3. \/ /\ todo' # <<>> /\ todo'[1].uart = u
             /\ todo'[1].op \in {"flush", "disable", "fen", "ibrd", "fbrd", "lcr"}
          \/ todo[1].op = "lcr" /\ Lined(u, rate[u])'
      <4>1. todo' # <<>>
        BY <1>2, <2>1
      <4>2. CASE todo[1].op = "lcr"
        <5>1. Value(uart[u].divisor) = rate[u]
          BY <1>1, <1>2, <4>2 DEF RInv, Written
        <5> QED
          BY <1>2, <4>2, <5>1 DEF Lined
      <4> QED
        BY <1>2, <2>1, <4>1, <4>2 DEF After, Ops
    <3>4. LineRight'
      BY <1>1, <1>2, <1>5, <3>3 DEF RInv, LineRight
    <3> QED
      BY <3>2, <3>4
  <2>2. CASE todo[1].op \in {"flush", "disable", "cr"}
    <3>1. uart'[u].fifo = uart[u].fifo /\ uart'[u].shift = uart[u].shift
      BY <1>2, <2>2
    <3>2. CharsRight'
      BY <1>2, <1>5, <1>6, <2>2, <3>1 DEF RInv, CharsRight
    <3>3. todo[1].op # "cr" => /\ todo' # <<>> /\ todo'[1].uart = u
                               /\ todo'[1].op \in {"disable", "fen"}
      <4>1. todo[1].op # "cr" => todo' # <<>>
        BY <1>2, <2>2
      <4> QED
        BY <1>2, <2>2, <4>1 DEF After, Ops
    <3>4. LineRight'
      BY <1>1, <1>2, <1>5, <1>6, <2>2, <3>3 DEF RInv, LineRight
    <3> QED
      BY <3>2, <3>4
  <2>3. CASE todo[1].op = "put"
    <3>1. todo[1].val = rate[u] /\ (rate[u] # 0 => Lined(u, rate[u]))
      BY <1>1, <1>2, <1>4, <2>3 DEF RInv, Planned, LineRight
    <3>2. /\ uart[u].fifo \in Seq(Nat) /\ uart'[u].shift = uart[u].shift
          /\ uart'[u].fifo = Append(uart[u].fifo, rate[u])
      BY <1>2, <1>3, <2>3, <3>1 DEF Machine
    <3>3. \A i \in 1 .. Len(uart'[u].fifo) :
            \/ i \in 1 .. Len(uart[u].fifo) /\ uart'[u].fifo[i] = uart[u].fifo[i]
            \/ uart'[u].fifo[i] = rate[u]
      <4> DEFINE f == uart[u].fifo
      <4>1. f \in Seq(Nat) => \A i \in 1 .. Len(Append(f, rate[u])) :
              \/ i \in 1 .. Len(f) /\ Append(f, rate[u])[i] = f[i]
              \/ Append(f, rate[u])[i] = rate[u]
        OBVIOUS
      <4> QED
        BY <3>2, <4>1, Zenon
    <3>4. CharsRight'
      <4>1. /\ \A i \in 1 .. Len(uart'[u].fifo) :
                 uart'[u].fifo[i] # 0 => Lined(u, uart'[u].fifo[i])
            /\ \A i \in 1 .. Len(uart'[u].shift) :
                 uart'[u].shift[i] # 0 => Lined(u, uart'[u].shift[i])
        BY <1>2, <3>1, <3>2, <3>3 DEF RInv, CharsRight
      <4>2. \A c : Lined(u, c)' <=> Lined(u, c)
        BY <1>6, <2>3
      <4>3. \A v \in Uarts : v # u => uart'[v] = uart[v]
        BY <1>2
      <4> QED
        BY <1>5, <4>1, <4>2, <4>3 DEF RInv, CharsRight
    <3>5. LineRight'
      BY <1>1, <1>2, <1>5, <1>6, <2>3 DEF RInv, LineRight
    <3> QED
      BY <3>4, <3>5
  <2> QED
    BY <1>3, <2>1, <2>2, <2>3 DEF Ops
<1> QED
  BY <1>2, <1>7, <1>8, <1>9 DEF RInv

(* A transmitter passes characters on as they are.                         *)
LEMMA RatedHardware ==
  ASSUME RInv, NEW u \in Uarts, Hardware(u)
  PROVE  RInv'
<1>1. /\ LInv' /\ todo' = todo /\ rate' = rate
      /\ \A v \in Uarts : v # u => uart'[v] = uart[v]
  BY HardwareStep DEF RInv
<1>2. uart \in [Uarts -> Machine] /\ uart[u] \in Machine
  BY Machines DEF RInv, LInv
<1>3. /\ uart'[u].active = uart[u].active /\ uart'[u].word = uart[u].word
      /\ uart'[u].divisor = uart[u].divisor
  BY <1>2 DEF Hardware, StartFrame, EndFrame, Machine
<1>4. \A v \in Uarts : \A c : Lined(v, c)' <=> Lined(v, c)
  BY <1>1, <1>3 DEF Lined
<1>5. /\ \A i \in 1 .. Len(uart'[u].fifo) :
           uart'[u].fifo[i] # 0 => Lined(u, uart'[u].fifo[i])
      /\ \A i \in 1 .. Len(uart'[u].shift) :
           uart'[u].shift[i] # 0 => Lined(u, uart'[u].shift[i])
  <2> DEFINE f == uart[u].fifo
  <2>1. f \in Seq(Nat)
    BY <1>2 DEF Machine
  <2>2. /\ \A i \in 1 .. Len(f) : f[i] # 0 => Lined(u, f[i])
        /\ \A i \in 1 .. Len(uart[u].shift) :
             uart[u].shift[i] # 0 => Lined(u, uart[u].shift[i])
    BY DEF RInv, CharsRight
  <2>3. CASE StartFrame(u)
    <3>1. /\ f # <<>> /\ uart'[u].fifo = Tail(f) /\ uart'[u].shift = <<Head(f)>>
      BY <1>2, <2>3 DEF StartFrame, Machine
    <3> HIDE DEF f
    <3>2. /\ \A i \in 1 .. Len(Tail(f)) : /\ i + 1 \in 1 .. Len(f)
                                          /\ Tail(f)[i] = f[i + 1]
          /\ 1 \in 1 .. Len(f) /\ Head(f) = f[1]
      BY <2>1, <3>1
    <3>3. /\ \A i \in 1 .. Len(<<f[1]>>) : <<f[1]>>[i] = f[1]
      OBVIOUS
    <3> QED
      BY <2>2, <3>1, <3>2, <3>3
  <2>4. CASE EndFrame(u)
    <3>1. uart'[u].fifo = f /\ uart'[u].shift = <<>>
      BY <1>2, <2>4 DEF EndFrame, Machine
    <3> HIDE DEF f
    <3>2. Len(uart'[u].shift) = 0
      BY <3>1
    <3> QED
      BY <2>2, <3>1, <3>2
  <2> QED
    BY <2>3, <2>4 DEF Hardware
<1>6. CharsRight'
  BY <1>1, <1>4, <1>5 DEF RInv, CharsRight
<1>7. LineRight' /\ Planned'
  BY <1>1, <1>4 DEF RInv, LineRight, Planned
<1>8. Written'
  <2>1. \A v \in Uarts : uart'[v].divisor = uart[v].divisor
    BY <1>1, <1>3
  <2>2. todo # <<>> => todo[1].uart \in Uarts
    <3>1. todo \in Seq(Accesses)
      BY Machines DEF RInv, LInv
    <3>2. todo # <<>> => todo[1] \in Accesses
      BY <3>1
    <3> QED
      BY <3>2 DEF Accesses
  <2> QED
    BY <1>1, <2>1, <2>2 DEF RInv, Written
<1> QED
  BY <1>1, <1>6, <1>7, <1>8 DEF RInv

(* An init() whose divisors make up the rate the caller expects.           *)
LEMMA RatedInitCall ==
  ASSUME RInv, todo = <<>>, uart' = uart, NEW u \in Uarts, NEW kind,
         NEW baud \in BaudRange, NEW n \in Nat,
         IsInit(todo', u, Divisor(kind, baud), n, Nearest(u, baud)),
         rate' = [rate EXCEPT ![u] = Nearest(u, baud)],
         UartClk(kind) = Clock[u], ~Carries(u, baud)
  PROVE  RInv'
<1>1. /\ LInv' /\ rate'[u] = Nearest(u, baud)
      /\ \A v \in Uarts : v # u => rate'[v] = rate[v]
      /\ todo' # <<>> /\ todo'[1].uart = u /\ todo'[1].op = "flush"
  BY InitCallStep DEF RInv, LInv
<1>2. \A v \in Uarts : \A c : Lined(v, c)' <=> Lined(v, c)
  BY DEF Lined
<1>3. CharsRight' /\ LineRight' /\ Written'
  BY <1>1, <1>2 DEF RInv, CharsRight, LineRight, Written
<1>4. Planned'
  <2> DEFINE d == Divisor(kind, baud)
             r == Nearest(u, baud)
  <2>1. 64 * d[1] + d[2] = r
    BY DivisorIsNearest DEF Value
  <2> HIDE DEF d, r
  <2>2. IsInit(todo', u, d, n, r) /\ rate'[todo'[1].uart] = r
    BY <1>1 DEF d, r
  <2>3. Len(todo') = 7 + n /\ \A i \in 1 .. 7 + n : i \in {1, 2, 3, 4, 5, 6, 7}
                                                   \/ i \in 8 .. 7 + n
    BY <2>2 DEF IsInit
  <2>4. ASSUME NEW i \in 1 .. 7 + n
        PROVE  /\ todo'[i].op = "put" => todo'[i].val = r
               /\ todo'[i].op = "ibrd" => todo'[i].val = d[1]
               /\ todo'[i].op = "fbrd" => todo'[i].val = d[2]
    <3>1. CASE i \in {1, 2, 3, 4, 5, 6, 7}
      BY <2>2, <3>1 DEF IsInit, Access
    <3>2. CASE i \in 8 .. 7 + n
      BY <2>2, <3>2 DEF IsInit, Access
    <3> QED
      BY <2>3, <3>1, <3>2
  <2> QED
    BY <2>1, <2>2, <2>3, <2>4 DEF Planned
<1> QED
  BY <1>1, <1>3, <1>4 DEF RInv

(* A write() expects the rate of the last init().                          *)
LEMMA RatedWriteCall ==
  ASSUME RInv, todo = <<>>, uart' = uart, rate' = rate, NEW u \in Uarts,
         NEW n \in Nat, todo' = WriteCall(u, n)
  PROVE  RInv'
<1>1. /\ LInv' /\ Len(todo') = n
      /\ \A i \in 1 .. n : todo'[i] = Access(u, "put", rate[u])
      /\ todo' # <<>> => todo'[1].uart = u /\ todo'[1].op = "put"
  BY WriteCallStep, WriteCallOrdered DEF RInv, LInv
<1>2. \A v \in Uarts : \A c : Lined(v, c)' <=> Lined(v, c)
  BY DEF Lined
<1>3. CharsRight' /\ LineRight' /\ Written'
  BY <1>1, <1>2 DEF RInv, CharsRight, LineRight, Written
<1>4. \A i \in 1 .. n : 1 \in 1 .. n
  OBVIOUS
<1>5. Planned'
  BY <1>1, <1>4 DEF Planned, Access
<1> QED
  BY <1>1, <1>3, <1>5 DEF RInv

LEMMA RatedStutter ==
  ASSUME RInv, uart' = uart, todo' = todo, rate' = rate
  PROVE  RInv'
<1>1. LInv'
  BY LineStutter DEF RInv
<1> QED
  BY <1>1 DEF RInv, CharsRight, LineRight, Planned, Written, Lined

(* A character the firmware has left expects nothing.                      *)
LEMMA RatedInit == Init => RInv
<1> SUFFICES ASSUME Init PROVE RInv
  OBVIOUS
<1>1. todo = <<>> /\ rate = [u \in Uarts |-> 0] /\ LInv
  BY InitInv DEF Init, IInv
<1>2. ASSUME NEW u \in Uarts
      PROVE  /\ \A i \in 1 .. Len(uart[u].fifo) : uart[u].fifo[i] = 0
             /\ \A i \in 1 .. Len(uart[u].shift) : uart[u].shift[i] = 0
  <2>1. uart[u] \in LeftByFirmware
    BY DEF Init
  <2>2. PICK n \in Nat, s \in {<<>>, <<0>>} :
          uart[u].fifo = Foreign(n) /\ uart[u].shift = s
    <3>1. CASE uart[u] = Transmitter(FALSE, <<0, 0>>, "reset", <<>>, <<>>)
      <4>1. Foreign(0) = <<>>
        BY DEF Foreign
      <4> QED
        BY <3>1, <4>1 DEF Transmitter
    <3>2. CASE \E n \in 0 .. FIFO_DEPTH, s \in {<<>>, <<0>>} :
                 uart[u] = Transmitter(TRUE, <<1, 0>>, "other", Foreign(n), s)
      BY <3>2, FifoHasRoom DEF Transmitter
    <3> QED
      BY <2>1, <3>1, <3>2 DEF LeftByFirmware
  <2>3. Len(Foreign(n)) = n /\ \A i \in 1 .. n : Foreign(n)[i] = 0
    BY DEF Foreign
  <2>4. \A i \in 1 .. Len(s) : s[i] = 0
    <3>1. CASE s = <<>>
      BY <3>1
    <3>2. CASE s = <<0>>
      BY <3>2
    <3> QED
      BY <3>1, <3>2
  <2> QED
    BY <2>2, <2>3, <2>4
<1>3. CharsRight
  BY <1>2 DEF CharsRight
<1> QED
  BY <1>1, <1>3 DEF RInv, LineRight, Planned, Written

(* What is in the shift register is one character.                         *)
LEMMA ShiftedRight == RInv => RateRight
<1> DEFINE Unexpected == {<<>>, <<0>>}
<1> SUFFICES ASSUME RInv, NEW u \in Uarts, uart[u].shift \notin Unexpected
             PROVE  /\ uart[u].shift = <<Value(uart[u].active)>>
                    /\ uart[u].word = "8N1"
  BY DEF RateRight, Value
<1> DEFINE s == uart[u].shift
<1>1. s \in Seq(Nat) /\ Len(s) <= 1
  BY Machines DEF RInv, LInv, Machine, Bounded
<1>2. s = <<s[1]>> /\ 1 \in 1 .. Len(s)
  BY <1>1
<1>3. s[1] # 0
  BY <1>2
<1> HIDE DEF s
<1>4. Lined(u, s[1])
  BY <1>2, <1>3 DEF RInv, CharsRight, s
<1> QED
  BY <1>2, <1>4 DEF Lined, s

-----------------------------------------------------------------------------
(* The registers, FIFOs and calls keep their types: no FIFO is ever        *)
(* overfilled and every divisor init() writes fits its register.           *)
THEOREM TypeCorrect == Spec => []TypeOK
<1>1. IInv => TypeOK
  BY DEF IInv, LInv
<1> QED
  BY <1>1, InitInv, StepInv, PTL DEF Spec

(* A transmitter with characters in it is on: flush() and a full FIFO are  *)
(* waits that the hardware ends.                                           *)
THEOREM PendingIsSent == Spec => []BusyIsOn
<1>1. IInv => BusyIsOn
  BY DEF IInv
<1> QED
  BY <1>1, InitInv, StepInv, PTL DEF Spec

-----------------------------------------------------------------------------
(* A step of any program that uses the driver as Client does: calls do not *)
(* overlap, and only the driver and the hardware touch the UARTs.          *)
Moves == \/ uart' = uart /\ (todo = <<>> \/ todo' = todo)
         \/ Step
         \/ \E u \in Uarts : Hardware(u)

LEMMA NextMoves == [Next]_vars => Moves
  BY DEF Next, Client, CallInit, CallWrite, vars, Moves

(* What one step does to one UART.                                         *)
LEMMA OneStep ==
  ASSUME LInv, Moves, NEW u \in Uarts
  PROVE  \/ uart'[u] = uart[u] /\ ~(Doing("put") /\ U = u /\ todo' = Tail(todo))
         \/ StartFrame(u)
         \/ EndFrame(u)
         \/ Step /\ U = u /\ todo # <<>> /\ Head(todo) = todo[1] /\ todo[1].uart = u
<1>1. todo \in Seq(Accesses)
  BY Machines DEF LInv
<1>2. CASE uart' = uart /\ (todo = <<>> \/ todo' = todo)
  <2>1. todo # <<>> => todo # Tail(todo)
    BY <1>1
  <2> QED
    BY <1>2, <2>1 DEF Doing
<1>3. CASE Step
  <2>1. todo # <<>>
    BY <1>3 DEF Step, Flush, Disable, ClearFifo, SetDivisor, SetLine, Enable,
                Put, Doing
  <2>2. PICK r : Made(r)
    BY <1>3 DEF Step, Flush, Disable, ClearFifo, SetDivisor, SetLine, Enable, Put
  <2>3. /\ U = todo[1].uart /\ Head(todo) = todo[1]
        /\ \A v \in Uarts : v # todo[1].uart => uart'[v] = uart[v]
    BY <2>1, <2>2, Moved
  <2> QED
    BY <1>3, <2>1, <2>3
<1>4. CASE \E v \in Uarts : Hardware(v)
  <2>1. PICK v \in Uarts : Hardware(v)
    BY <1>4
  <2>2. todo' = todo /\ (u # v => uart'[u] = uart[u])
    BY <2>1 DEF Hardware, StartFrame, EndFrame, LInv, TypeOK
  <2>3. todo # <<>> => todo # Tail(todo)
    BY <1>1
  <2> QED
    BY <2>1, <2>2, <2>3 DEF Hardware, Doing
<1> QED
  BY <1>2, <1>3, <1>4 DEF Moves

(* The divisors and the line change in the middle of an init() only, when  *)
(* its flush has emptied the transmitter and its disable has stopped it.   *)
LEMMA SettledStep ==
  ASSUME LInv, Moves, NEW u \in Uarts
  PROVE  \/ /\ uart'[u].divisor = uart[u].divisor
            /\ uart'[u].active = uart[u].active
            /\ uart'[u].word = uart[u].word
         \/ ~uart[u].enabled /\ ~Busy(u)
<1>1. uart \in [Uarts -> Machine] /\ uart[u] \in Machine
  BY Machines DEF LInv
<1>2. CASE StartFrame(u) \/ EndFrame(u)
  BY <1>1, <1>2 DEF StartFrame, EndFrame, Machine
<1>3. CASE Step /\ U = u /\ todo # <<>> /\ Head(todo) = todo[1] /\ todo[1].uart = u
  <2>1. todo[1].op \in Quiet \ {"disable"} => ~Busy(u) /\ ~uart[u].enabled
    BY <1>3 DEF LInv, Emptied
  <2>2. CASE Flush
    BY <1>1, <1>3, <2>2 DEF Flush, Made
  <2>3. CASE Disable
    BY <1>1, <1>3, <2>3 DEF Disable, Made, Machine
  <2>4. CASE ClearFifo \/ SetDivisor \/ SetLine
    BY <1>3, <2>1, <2>4 DEF ClearFifo, SetDivisor, SetLine, Doing, Quiet
  <2>5. CASE Enable
    BY <1>1, <1>3, <2>5 DEF Enable, Made, Machine
  <2>6. CASE Put
    BY <1>1, <1>3, <2>6, PutAppends DEF Put, Made, Machine
  <2> QED
    BY <1>3, <2>2, <2>3, <2>4, <2>5, <2>6 DEF Step
<1> QED
  BY <1>2, <1>3, OneStep

(* A FIFO gives its characters to its shift register, one by one, and      *)
(* loses none to an init() or for want of room.                            *)
LEMMA KeptStep ==
  ASSUME LInv, Moves, NEW u \in Uarts
  PROVE  IF Len(uart'[u].fifo) < Len(uart[u].fifo)
           THEN /\ uart'[u].fifo = Tail(uart[u].fifo)
                /\ uart'[u].shift = <<Head(uart[u].fifo)>>
           ELSE /\ \A i \in 1 .. Len(uart[u].fifo) :
                      uart'[u].fifo[i] = uart[u].fifo[i]
                /\ Doing("put") /\ U = u /\ todo' = Tail(todo)
                     => uart'[u].fifo = Append(uart[u].fifo, Head(todo).val)
<1> DEFINE old == uart[u].fifo
           new == uart'[u].fifo
<1>1. uart \in [Uarts -> Machine] /\ uart[u] \in Machine
  BY Machines DEF LInv
<1>2. old \in Seq(Nat) /\ Len(old) \in Nat
  BY <1>1 DEF Machine
<1>3. ASSUME new = old, ~(Doing("put") /\ U = u /\ todo' = Tail(todo))
      PROVE  ~(Len(new) < Len(old)) /\ \A i \in 1 .. Len(old) : new[i] = old[i]
  BY <1>2, <1>3
<1>4. CASE StartFrame(u)
  <2>1. new = Tail(old) /\ uart'[u].shift = <<Head(old)>> /\ old # <<>>
    BY <1>1, <1>4 DEF StartFrame, Machine
  <2>2. Len(new) < Len(old)
    BY <1>2, <2>1
  <2> QED
    BY <2>1, <2>2
<1>5. CASE EndFrame(u)
  <2>1. new = old /\ todo' = todo
    BY <1>1, <1>5 DEF EndFrame, Machine
  <2>2. todo \in Seq(Accesses)
    BY Machines DEF LInv
  <2>3. todo # <<>> => todo # Tail(todo)
    BY <2>2
  <2> QED
    BY <1>3, <2>1, <2>3 DEF Doing
<1>6. CASE Step /\ U = u /\ todo # <<>> /\ Head(todo) = todo[1] /\ todo[1].uart = u
  <2>1. todo[1].op \in Quiet => old = <<>>
    BY <1>6 DEF LInv, Emptied, Busy
  <2>2. CASE Put
    <3> DEFINE a == todo[1].val
    <3>1. new = Append(old, a)
      BY <1>1, <1>6, <2>2, PutAppends DEF Made, Machine
    <3>2. /\ Len(Append(old, a)) = Len(old) + 1
          /\ \A i \in 1 .. Len(old) : Append(old, a)[i] = old[i]
      BY <1>2
    <3>3. Head(todo).val = a
      BY <1>6
    <3> HIDE DEF old, new, a
    <3>4. ~(Len(new) < Len(old))
      BY <1>2, <3>1, <3>2
    <3> QED
      BY <3>1, <3>2, <3>3, <3>4 DEF old, new
  <2>3. CASE ~Put
    <3>1. todo[1].op # "put" /\ new = old
      <4>1. CASE Flush
        BY <1>1, <1>6, <4>1 DEF Flush, Made, Doing
      <4>2. CASE Disable
        BY <1>1, <1>6, <4>2 DEF Disable, Made, Doing, Machine
      <4>3. CASE ClearFifo
        BY <1>1, <1>6, <2>1, <4>3 DEF ClearFifo, Made, Doing, Machine,
                                      LineControl, Quiet
      <4>4. CASE SetDivisor
        BY <1>1, <1>6, <4>4 DEF SetDivisor, Made, Doing, Machine
      <4>5. CASE SetLine
        BY <1>1, <1>6, <2>1, <4>5 DEF SetLine, Made, Doing, Machine,
                                      LineControl, Quiet
      <4>6. CASE Enable
        BY <1>1, <1>6, <4>6 DEF Enable, Made, Doing, Machine
      <4> QED
        BY <1>6, <2>3, <4>1, <4>2, <4>3, <4>4, <4>5, <4>6 DEF Step
    <3>2. ~Doing("put")
      BY <1>6, <3>1 DEF Doing
    <3> QED
      BY <1>3, <3>1, <3>2
  <2> QED
    BY <2>2, <2>3
<1>7. CASE uart'[u] = uart[u] /\ ~(Doing("put") /\ U = u /\ todo' = Tail(todo))
  BY <1>3, <1>7
<1> QED
  BY <1>4, <1>5, <1>6, <1>7, OneStep

(* The line settings of a UART change only while it is off and empty.      *)
THEOREM LineSettled == Spec => SettledLine
<1>1. IInv /\ [Next]_vars => \A u \in Uarts :
        \/ /\ uart'[u].divisor = uart[u].divisor
           /\ uart'[u].active = uart[u].active
           /\ uart'[u].word = uart[u].word
        \/ ~uart[u].enabled /\ ~Busy(u)
  BY SettledStep, NextMoves DEF IInv
<1> QED
  BY <1>1, InitInv, StepInv, PTL DEF Spec, SettledLine

(* No character is lost, whatever init() and write() are called in which   *)
(* order: an init() finds no character in the FIFO it empties, and no      *)
(* write() puts one into a full FIFO, where the hardware would drop it.    *)
THEOREM CharactersKept == Spec => NothingLost
<1>1. IInv /\ [Next]_vars => \A u \in Uarts :
        LET old == uart[u].fifo
            new == uart'[u].fifo
        IN  IF Len(new) < Len(old)
              THEN new = Tail(old) /\ uart'[u].shift = <<Head(old)>>
              ELSE /\ \A i \in 1 .. Len(old) : new[i] = old[i]
                   /\ Doing("put") /\ U = u /\ todo' = Tail(todo)
                        => new = Append(old, Head(todo).val)
  BY KeptStep, NextMoves DEF IInv
<1> QED
  BY <1>1, InitInv, StepInv, PTL DEF Spec, NothingLost

(* Every character of a caller is sent at the divisor nearest to the rate  *)
(* the caller asked for, in 8N1, if for the rates in use the rounding does *)
(* not carry.                                                              *)
THEOREM SentAtRate ==
  (\A u \in Uarts, baud \in Bauds : ~Carries(u, baud)) => (Spec => []RateRight)
<1> SUFFICES ASSUME \A u \in Uarts, baud \in Bauds : ~Carries(u, baud)
             PROVE  Spec => []RateRight
  OBVIOUS
<1>1. RInv /\ [Next]_vars => RInv'
  <2> SUFFICES ASSUME RInv, [Next]_vars PROVE RInv'
    OBVIOUS
  <2>1. CASE UNCHANGED vars
    BY <2>1, RatedStutter DEF vars
  <2>2. ASSUME NEW u \in Uarts, NEW kind \in {"Debug", "Rp1"}, NEW baud \in Bauds,
               UartClk(kind) = Clock[u], CallInit(u, kind, baud)
        PROVE  RInv'
    <3>1. /\ todo = <<>> /\ uart' = uart /\ baud \in BaudRange /\ 0 \in Nat
          /\ rate' = [rate EXCEPT ![u] = Nearest(u, baud)]
          /\ IsInit(todo', u, Divisor(kind, baud), 0, Nearest(u, baud))
      BY <2>2, BaudsFit, InitCallIs DEF CallInit
    <3> QED
      BY <2>2, <3>1, RatedInitCall
  <2>3. ASSUME NEW u \in Uarts, NEW n \in 1 .. MaxText, CallWrite(u, n)
        PROVE  RInv'
    <3>1. n \in Nat
      BY MaxTextIsNat
    <3> QED
      BY <2>3, <3>1, RatedWriteCall DEF CallWrite
  <2> QED
    BY <2>1, <2>2, <2>3, RatedStep, RatedHardware DEF Next, Client
<1> QED
  BY <1>1, RatedInit, ShiftedRight, PTL DEF Spec

-----------------------------------------------------------------------------

(* The timer.                                                              *)
Mega == KILO * KILO

(* counter_frequency / 1000 / 1000.                                        *)
PerMicro == (counter_frequency \div KILO) \div KILO

(* Products keep the order.                                                *)
LEMMA Product ==
  /\ \A a, b \in Nat : a * b \in Nat
  /\ \A x, y \in Int, m \in Nat : x <= y => m * x <= m * y
  /\ \A x, y \in Int, m \in Nat : m > 0 /\ x < y => m * x < m * y
  BY SMTT(30)

(* The remainder and the quotient.                                         *)
LEMMA Quotient ==
  ASSUME NEW x \in Nat, NEW k \in Nat \ {0}
  PROVE  /\ x \div k \in Nat /\ x % k \in Nat /\ x % k < k
         /\ x = k * (x \div k) + (x % k)
  BY SMTT(30)

(* Dividing by a thousand twice loses less than a million.                 *)
LEMMA TwoDivisions ==
  ASSUME NEW f \in Nat
  PROVE  LET q == (f \div KILO) \div KILO
         IN  /\ q \in Nat
             /\ Mega * q <= f /\ f < Mega * q + Mega
             /\ f % Mega = 0 => f = Mega * q
<1> DEFINE p == f \div KILO
           q == p \div KILO
<1>1. KILO \in Nat /\ KILO > 0
  BY KiloIsPositive
<1>2. p \in Nat /\ KILO * p <= f /\ f <= KILO * p + (KILO - 1)
  BY <1>1, Quotient, SMTT(30)
<1> HIDE DEF p
<1>3. q \in Nat /\ KILO * q <= p /\ p <= KILO * q + (KILO - 1)
  BY <1>1, <1>2, Quotient, SMTT(30)
<1> HIDE DEF q
<1>4. KILO * (KILO * q) <= KILO * p /\ KILO * p <= KILO * (KILO * q + (KILO - 1))
  BY <1>1, <1>2, <1>3, Product
<1>5. Mega \in Nat /\ Mega > 0 /\ KILO * (KILO * q) = Mega * q
      /\ KILO * (KILO * q + (KILO - 1)) = Mega * q + Mega - KILO
  BY <1>1, <1>3, SMTT(30) DEF Mega
<1>6. KILO * p \in Int /\ Mega * q \in Int
  BY <1>1, <1>2, <1>3, <1>5
<1>7. Mega * q <= f /\ f < Mega * q + Mega
  BY <1>1, <1>2, <1>4, <1>5, <1>6
<1>8. f % Mega = 0 => f = Mega * q
  <2> SUFFICES ASSUME f % Mega = 0 PROVE f = Mega * q
    OBVIOUS
  <2>0. f % Mega = 0
    OBVIOUS
  <2> DEFINE m == f \div Mega
  <2>1. m \in Nat /\ f = Mega * m
    <3>1. m \in Nat /\ f = Mega * m + (f % Mega)
      BY <1>5, Quotient
    <3>2. Mega * m \in Int
      BY <1>5, <3>1
    <3> HIDE DEF m
    <3> QED
      BY <2>0, <3>1, <3>2
  <2> HIDE DEF m
  <2>2. ~(m > q)
    <3> SUFFICES ASSUME m >= q + 1 PROVE FALSE
      BY <1>3, <2>1
    <3>1. Mega * (q + 1) <= Mega * m
      BY <1>3, <1>5, <2>1, Product
    <3>2. Mega * (q + 1) = Mega * q + Mega
      BY <1>3, <1>5
    <3> QED
      BY <1>5, <1>6, <1>7, <2>1, <3>1, <3>2
  <2>3. ~(m < q)
    BY <1>3, <1>5, <1>6, <1>7, <2>1, Product
  <2> QED
    BY <1>3, <2>1, <2>2, <2>3
<1> QED
  BY <1>3, <1>7, <1>8 DEF p, q

(* A counter read a short time later.                                      *)
LEMMA Wrap ==
  ASSUME NEW c \in Nat, c < COUNTER, NEW x \in Nat, x < COUNTER
  PROVE  (c + x) % COUNTER =
           IF c + x < COUNTER THEN c + x ELSE c + x - COUNTER
<1>1. COUNTER \in Nat \ {0}
  BY CounterCounts
<1> DEFINE d == (c + x) \div COUNTER
<1>2. d \in Nat /\ (c + x) % COUNTER \in Nat /\ (c + x) % COUNTER < COUNTER
      /\ c + x = COUNTER * d + ((c + x) % COUNTER)
  BY <1>1, Quotient
<1> HIDE DEF d
<1>3. d = 0 \/ d = 1
  <2> SUFFICES ASSUME d >= 2 PROVE FALSE
    BY <1>2
  <2>1. COUNTER * 2 <= COUNTER * d
    BY <1>1, <1>2, Product
  <2>2. COUNTER * d \in Int /\ COUNTER * 2 = COUNTER + COUNTER
    BY <1>1, <1>2
  <2> QED
    BY <1>1, <1>2, <2>1, <2>2
<1> QED
  BY <1>1, <1>2, <1>3

-----------------------------------------------------------------------------
(* While a wait() runs the counter is passed ticks after its start and has *)
(* not been round: before every look at it the wait is not over.           *)
Going == timing = "waiting" =>
  /\ counter_frequency \in Frequencies \ {0} /\ micros \in Durations
  /\ counter = start + passed
  /\ passed <= wait_time

Frequency == counter_frequency \in Frequencies \cup {0}

TimerInv == TimerTypeOK /\ Frequency /\ Going

(* wait_time is a number: the divisions of the frequency stay in Nat.      *)
LEMMA WaitTimeIsNat ==
  ASSUME NEW f \in Nat, NEW m \in Nat
  PROVE  ((f \div KILO) \div KILO) * m \in Nat
  BY TwoDivisions, Product

(* What one look at the counter finds: as long as the wait is short of the *)
(* counter's range, the ticks passed, or a counter that has begun again    *)
(* below the start.                                                        *)
LEMMA Look ==
  ASSUME TimerInv, timing = "waiting", NEW ticks \in 0 .. MaxJump, Poll(ticks)
  PROVE  /\ passed' = passed + ticks /\ passed' \in Nat
         /\ counter' \in 0 .. COUNTER - 1
         /\ \/ /\ counter' = start + passed'
               /\ timing' = IF passed' < wait_time THEN "waiting" ELSE "idle"
            \/ counter' < start /\ counter' < counter /\ timing' = "panic"
<1>1. /\ COUNTER \in Nat /\ MaxJump \in Nat /\ ticks \in Nat /\ ticks <= MaxJump
      /\ counter \in Nat /\ counter < COUNTER /\ start \in Nat /\ passed \in Nat
      /\ counter = start + passed /\ passed <= wait_time /\ wait_time \in Nat
  BY CounterCounts, WaitTimeIsNat DEF TimerInv, TimerTypeOK, Going, wait_time
<1>2. wait_time + MaxJump < COUNTER
  BY WaitsFit DEF wait_time, TimerInv, Going
<1>3. /\ passed' = passed + ticks /\ counter' = (counter + ticks) % COUNTER
      /\ timing' = IF counter' < start THEN "panic"
                   ELSE IF counter' - start < wait_time THEN "waiting"
                   ELSE "idle"
  BY DEF Poll, Read
<1>4. counter' = IF counter + ticks < COUNTER THEN counter + ticks
                 ELSE counter + ticks - COUNTER
  <2>1. ticks < COUNTER
    BY <1>1, <1>2
  <2>2. (counter + ticks) % COUNTER =
          IF counter + ticks < COUNTER THEN counter + ticks
          ELSE counter + ticks - COUNTER
    BY <1>1, <2>1, Wrap
  <2> QED
    BY <1>3, <2>2, Zenon
<1> QED
  BY <1>1, <1>2, <1>3, <1>4

(* The timer of new() satisfies the invariant.                             *)
LEMMA TimerInitInv == TimerInit => TimerInv
<1> SUFFICES ASSUME TimerInit PROVE TimerInv
  OBVIOUS
<1>1. COUNTER \in Nat /\ COUNTER > 0
  BY CounterCounts
<1> QED
  BY <1>1 DEF TimerInit, TimerInv, TimerTypeOK, Frequency, Going

(* init(), wait() and every turn of the loop keep it.                      *)
LEMMA TimerStepInv == TimerInv /\ [TimerNext]_timerVars => TimerInv'
<1> SUFFICES ASSUME TimerInv, [TimerNext]_timerVars PROVE TimerInv'
  OBVIOUS
<1>1. CASE UNCHANGED timerVars
  BY <1>1 DEF timerVars, TimerInv, TimerTypeOK, Frequency, Going, wait_time
<1>2. ASSUME NEW f \in Frequencies, init(f) PROVE TimerInv'
  <2>1. f \in Nat
    BY TimesAreNat
  <2> QED
    BY <1>2, <2>1 DEF init, TimerInv, TimerTypeOK, Frequency, Going
<1>3. ASSUME NEW d \in Durations, wait(d) PROVE TimerInv'
  <2>1. PICK ticks \in 0 .. MaxJump : counter' = (counter + ticks) % COUNTER
    BY <1>3 DEF wait, Read
  <2>2. counter' \in Nat /\ counter' < COUNTER
    BY <2>1, CounterCounts, Quotient DEF TimerInv, TimerTypeOK
  <2>3. /\ start' = counter' /\ micros' = d /\ passed' = 0 /\ d \in Nat
        /\ counter_frequency' = counter_frequency
        /\ timing' = IF counter_frequency = 0 THEN "panic" ELSE "waiting"
    BY <1>3, TimesAreNat DEF wait
  <2>4. TimerTypeOK'
    BY <2>2, <2>3, CounterCounts DEF TimerInv, TimerTypeOK
  <2>5. wait_time' \in Nat
    <3>1. counter_frequency' \in Nat /\ micros' \in Nat
      BY <2>4 DEF TimerTypeOK
    <3> QED
      BY <3>1, WaitTimeIsNat DEF wait_time
  <2>6. Frequency'
    BY <2>3 DEF TimerInv, Frequency
  <2>7. Going'
    <3>0. counter' = start' + passed'
      <4>1. \A c \in Nat : c = c + 0
        OBVIOUS
      <4> QED
        BY <2>2, <2>3, <4>1, Zenon
    <3>1. passed' <= wait_time'
      <4>1. \A w \in Nat : 0 <= w
        OBVIOUS
      <4> QED
        BY <2>3, <2>5, <4>1, Zenon
    <3>2. timing' = "waiting" => counter_frequency' \in Frequencies \ {0}
      BY <2>3, <2>6 DEF Frequency
    <3>3. micros' \in Durations
      BY <1>3, <2>3
    <3> QED
      BY <3>0, <3>1, <3>2, <3>3 DEF Going
  <2> QED
    BY <2>4, <2>6, <2>7 DEF TimerInv
<1>4. ASSUME NEW ticks \in 0 .. MaxJump, Poll(ticks) PROVE TimerInv'
  <2>1. /\ timing = "waiting"
        /\ UNCHANGED <<counter_frequency, start, micros>>
    BY <1>4 DEF Poll
  <2>2. wait_time' = wait_time /\ wait_time \in Nat
    BY <2>1, WaitTimeIsNat DEF wait_time, TimerInv, TimerTypeOK
  <2>3. TimerTypeOK'
    BY <1>4, <2>1, Look DEF TimerInv, TimerTypeOK
  <2>4. Frequency'
    BY <2>1 DEF TimerInv, Frequency
  <2>5. Going'
    BY <1>4, <2>1, <2>2, Look DEF TimerInv, Going
  <2> QED
    BY <2>3, <2>4, <2>5 DEF TimerInv
<1> QED
  BY <1>1, <1>2, <1>3, <1>4 DEF TimerNext, Looping

(* The type invariant, and that a wait is only begun with a frequency.     *)
THEOREM TimerTypeCorrect == TimerSpec => []TimerTypeOK
<1>1. TimerInv => TimerTypeOK
  BY DEF TimerInv
<1> QED
  BY <1>1, TimerInitInv, TimerStepInv, PTL DEF TimerSpec

(* What holds of a wait that returns.                                      *)
LEMMA AtReturn ==
  ASSUME TimerInv, [TimerNext]_timerVars, Returned
  PROVE  /\ passed' \in Nat /\ micros \in Nat /\ counter_frequency \in Nat
         /\ PerMicro \in Nat
         /\ PerMicro * micros <= passed'
         /\ passed' <= PerMicro * micros + MaxJump
<1>1. PICK ticks \in 0 .. MaxJump : Poll(ticks)
  BY DEF Returned, TimerNext, Looping, init, wait, timerVars
<1>2. passed' = passed + ticks /\ passed' \in Nat /\ ~(passed' < wait_time)
  BY <1>1, Look DEF Returned
<1>3. /\ passed <= wait_time /\ micros \in Nat /\ counter_frequency \in Nat
      /\ passed \in Nat
  BY DEF TimerInv, Going, Returned, TimerTypeOK
<1>4. PerMicro \in Nat /\ wait_time = PerMicro * micros /\ wait_time \in Nat
  BY <1>3, TwoDivisions, Product DEF PerMicro, wait_time
<1>5. MaxJump \in Nat /\ ticks \in Nat /\ ticks <= MaxJump
  BY CounterCounts
<1>6. wait_time <= passed' /\ passed' <= wait_time + MaxJump
  BY <1>2, <1>3, <1>4, <1>5
<1> QED
  BY <1>2, <1>3, <1>4, <1>6

(* A wait is as long as it was asked to be, but for the fraction of a      *)
(* megahertz that the two divisions drop.                                  *)
THEOREM WaitIsLongEnough == TimerSpec => LongEnough
<1>1. ASSUME TimerInv, [TimerNext]_timerVars, Returned
      PROVE  /\ micros > 0 => KILO * KILO * passed' >
                                 micros * (counter_frequency - KILO * KILO)
             /\ counter_frequency % (KILO * KILO) = 0
                  => KILO * KILO * passed' >= micros * counter_frequency
  <2> DEFINE p == passed'
             q == PerMicro
             m == micros
             f == counter_frequency
  <2>1. p \in Nat /\ m \in Nat /\ f \in Nat /\ q \in Nat /\ q * m <= p
    BY <1>1, AtReturn
  <2>2. /\ Mega * q <= f /\ f < Mega * q + Mega
        /\ f % Mega = 0 => f = Mega * q
    BY <2>1, TwoDivisions DEF PerMicro
  <2>3. Mega \in Nat
    BY KiloIsPositive, Product DEF Mega
  <2> HIDE DEF p, q, m, f
  <2>4. /\ Mega * q \in Nat /\ q * m \in Nat /\ Mega * p \in Nat
        /\ m * (Mega * q) = Mega * (q * m)
    BY <2>1, <2>3, Product, SMTT(30)
  <2>5. Mega * (q * m) <= Mega * p
    BY <2>1, <2>3, <2>4, Product
  <2>6. m > 0 => m * (f - Mega) < m * (Mega * q)
    BY <2>1, <2>2, <2>3, <2>4, Product
  <2>7. m * (f - Mega) \in Int /\ m * (Mega * q) \in Int
    BY <2>1, <2>3, <2>4
  <2>8. m > 0 => Mega * p > m * (f - Mega)
    BY <2>1, <2>4, <2>5, <2>6, <2>7
  <2>9. f % Mega = 0 => Mega * p >= m * f
    BY <2>2, <2>4, <2>5, <2>7
  <2> QED
    BY <2>8, <2>9 DEF Mega, p, q, m, f
<1> QED
  BY <1>1, TimerInitInv, TimerStepInv, PTL DEF TimerSpec, LongEnough

(* And no longer than up to the first look at the counter after that.      *)
THEOREM WaitIsNotLonger == TimerSpec => NotLonger
<1>1. ASSUME TimerInv, [TimerNext]_timerVars, Returned
      PROVE  KILO * KILO * passed' <= micros * counter_frequency
                                      + KILO * KILO * MaxJump
  <2> DEFINE p == passed'
             q == PerMicro
             m == micros
             f == counter_frequency
  <2>1. p \in Nat /\ m \in Nat /\ f \in Nat /\ q \in Nat /\ p <= q * m + MaxJump
    BY <1>1, AtReturn
  <2>2. Mega * q <= f
    BY <2>1, TwoDivisions DEF PerMicro
  <2>3. Mega \in Nat /\ MaxJump \in Nat
    BY KiloIsPositive, CounterCounts, Product DEF Mega
  <2> HIDE DEF p, q, m, f
  <2>4. /\ Mega * q \in Nat /\ q * m \in Nat /\ Mega * p \in Nat
        /\ Mega * MaxJump \in Nat /\ m * f \in Nat
        /\ m * (Mega * q) = Mega * (q * m)
    BY <2>1, <2>3, Product, SMTT(30)
  <2>5. Mega * p <= Mega * (q * m + MaxJump)
    BY <2>1, <2>3, <2>4, Product
  <2>6. Mega * (q * m + MaxJump) = Mega * (q * m) + Mega * MaxJump
    BY <2>1, <2>3, <2>4, SMTT(30)
  <2>7. m * (Mega * q) <= m * f
    BY <2>1, <2>2, <2>4, Product
  <2>8. Mega * (q * m) \in Nat
    BY <2>3, <2>4, Product
  <2>9. Mega * p <= m * f + Mega * MaxJump
    BY <2>4, <2>5, <2>6, <2>7, <2>8
  <2> QED
    BY <2>9 DEF Mega, p, m, f
<1> QED
  BY <1>1, TimerInitInv, TimerStepInv, PTL DEF TimerSpec, NotLonger

(* The checked subtraction of wait() fails only when the counter has begun *)
(* again at 0 under it.                                                    *)
THEOREM OnlyWrapPanics == TimerSpec => PanicHasCause
<1>1. ASSUME TimerInv, [TimerNext]_timerVars, timing = "waiting", timing' = "panic"
      PROVE  counter' < counter
  <2>1. PICK ticks \in 0 .. MaxJump : Poll(ticks)
    BY <1>1 DEF TimerNext, Looping, init, wait, timerVars
  <2> QED
    BY <1>1, <2>1, Look
<1> QED
  BY <1>1, TimerInitInv, TimerStepInv, PTL DEF TimerSpec, PanicHasCause
-----------------------------------------------------------------------------
(* The pins.  What a control word has besides FUNCSEL and the overrides,   *)
(* and a pad's word besides OD, PUE and PDE.                               *)
CtrlKept(x, y) == /\ (x \div 32) % 128 = (y \div 32) % 128
                  /\ x \div 65536 = y \div 65536

PadKept(x, y) == /\ x % 4 = y % 4 /\ (x \div 16) % 8 = (y \div 16) % 8
                 /\ x \div 256 = y \div 256

(* Writing a field of a control word.                                      *)
LEMMA CtrlWritten ==
  ASSUME NEW x \in Nat, NEW y \in Nat, CtrlKept(x, y), NEW v \in Nat
  PROVE  /\ With(x, FUNCSEL, v) \in Nat /\ CtrlKept(With(x, FUNCSEL, v), y)
         /\ Field(With(x, FUNCSEL, v), FUNCSEL) = v % 32
         /\ With(x, OUTOVER, v) \in Nat /\ CtrlKept(With(x, OUTOVER, v), y)
         /\ Field(With(x, OUTOVER, v), FUNCSEL) = Field(x, FUNCSEL)
         /\ With(x, OEOVER, v) \in Nat /\ CtrlKept(With(x, OEOVER, v), y)
         /\ Field(With(x, OEOVER, v), FUNCSEL) = Field(x, FUNCSEL)
<1>1. /\ With(x, FUNCSEL, v) \in Nat /\ CtrlKept(With(x, FUNCSEL, v), y)
      /\ Field(With(x, FUNCSEL, v), FUNCSEL) = v % 32
  BY SMT DEF With, Field, FUNCSEL, CtrlKept
<1>2. /\ With(x, OUTOVER, v) \in Nat /\ CtrlKept(With(x, OUTOVER, v), y)
      /\ Field(With(x, OUTOVER, v), FUNCSEL) = Field(x, FUNCSEL)
  BY SMT DEF With, Field, OUTOVER, FUNCSEL, CtrlKept
<1>3. /\ With(x, OEOVER, v) \in Nat /\ CtrlKept(With(x, OEOVER, v), y)
      /\ Field(With(x, OEOVER, v), FUNCSEL) = Field(x, FUNCSEL)
  BY SMT DEF With, Field, OEOVER, FUNCSEL, CtrlKept
<1> QED
  BY <1>1, <1>2, <1>3

(* Writing a field of a pad.                                               *)
LEMMA PadWritten ==
  ASSUME NEW x \in Nat, NEW y \in Nat, PadKept(x, y), NEW v \in Nat
  PROVE  /\ With(x, OD, v) \in Nat /\ PadKept(With(x, OD, v), y)
         /\ With(x, PDE, v) \in Nat /\ PadKept(With(x, PDE, v), y)
         /\ With(x, PUE, v) \in Nat /\ PadKept(With(x, PUE, v), y)
<1>1. With(x, OD, v) \in Nat /\ PadKept(With(x, OD, v), y)
  BY SMT DEF With, Field, OD, PadKept
<1>2. With(x, PDE, v) \in Nat /\ PadKept(With(x, PDE, v), y)
  BY SMT DEF With, Field, PDE, PadKept
<1>3. With(x, PUE, v) \in Nat /\ PadKept(With(x, PUE, v), y)
  BY SMT DEF With, Field, PUE, PadKept
<1> QED
  BY <1>1, <1>2, <1>3

(* So a word keeps its bits with its parts.                                *)
LEMMA CtrlBits ==
  ASSUME NEW x \in Nat, NEW y \in Nat, CtrlKept(x, y),
         NEW bit \in (0 .. 17) \ ((0 .. 4) \cup (12 .. 15))
  PROVE  Field(x, <<bit, 1>>) = Field(y, <<bit, 1>>)
<1>1. \A z \in Nat : z \div 131072 = (z \div 65536) \div 2
  BY SMT
<1>2. x \div 131072 = y \div 131072
  BY <1>1, SMT DEF CtrlKept
<1>3. CASE bit = 5
  BY <1>3, SMT DEF CtrlKept, Field
<1>4. CASE bit = 6
  BY <1>4, SMT DEF CtrlKept, Field
<1>5. CASE bit = 7
  BY <1>5, SMT DEF CtrlKept, Field
<1>6. CASE bit = 8
  BY <1>6, SMT DEF CtrlKept, Field
<1>7. CASE bit = 9
  <2>1. \A z \in Nat : z \div 512 = (z \div 32) \div 16
    BY SMT
  <2>2. \A m, n \in Nat : m % 128 = n % 128 => (m \div 16) % 2 = (n \div 16) % 2
    BY SMT
  <2>3. x \div 32 \in Nat /\ y \div 32 \in Nat
    BY SMT
  <2>4. (x \div 512) % 2 = (y \div 512) % 2
    BY <2>1, <2>2, <2>3, SMT DEF CtrlKept
  <2> QED
    BY <1>7, <2>4, SMT DEF Field
<1>8. CASE bit = 10
  <2>1. \A z \in Nat : z \div 1024 = (z \div 32) \div 32
    BY SMT
  <2>2. \A m, n \in Nat : m % 128 = n % 128 => (m \div 32) % 2 = (n \div 32) % 2
    BY SMT
  <2>3. x \div 32 \in Nat /\ y \div 32 \in Nat
    BY SMT
  <2>4. (x \div 1024) % 2 = (y \div 1024) % 2
    BY <2>1, <2>2, <2>3, SMT DEF CtrlKept
  <2> QED
    BY <1>8, <2>4, SMT DEF Field
<1>9. CASE bit = 11
  BY <1>9, SMT DEF CtrlKept, Field
<1>10. CASE bit = 16
  BY <1>10, SMT DEF CtrlKept, Field
<1>11. CASE bit = 17
  BY <1>2, <1>11, SMT DEF Field
<1> QED
  BY <1>3, <1>4, <1>5, <1>6, <1>7, <1>8, <1>9, <1>10, <1>11

LEMMA PadBits ==
  ASSUME NEW x \in Nat, NEW y \in Nat, PadKept(x, y),
         NEW bit \in (0 .. 17) \ {2, 3, 7}
  PROVE  Field(x, <<bit, 1>>) = Field(y, <<bit, 1>>)
<1>1. \A z \in Nat : z \div 32 = (z \div 16) \div 2
  BY SMT
<1>2. CASE bit \in {0, 1, 4}
  <2>1. CASE bit = 0
    BY <2>1, SMT DEF PadKept, Field
  <2>2. CASE bit = 1
    BY <2>2, SMT DEF PadKept, Field
  <2>3. CASE bit = 4
    BY <2>3, SMT DEF PadKept, Field
  <2> QED
    BY <1>2, <2>1, <2>2, <2>3
<1>3. CASE bit = 5
  <2>1. (x \div 16) % 8 = (y \div 16) % 8
    BY DEF PadKept
  <2>2. x \div 16 \in Nat /\ y \div 16 \in Nat
    BY SMT
  <2>3. ((x \div 16) \div 2) % 2 = ((y \div 16) \div 2) % 2
    BY <2>1, <2>2, SMT
  <2> QED
    BY <1>1, <1>3, <2>3 DEF Field
<1>4. CASE bit = 6
  BY <1>4, SMT DEF PadKept, Field
<1>5. \A n \in {1, 2, 4, 8, 16, 32, 64, 128, 256, 512} :
        x \div (256 * n) = y \div (256 * n)
  <2>1. x \div 256 = y \div 256
    BY DEF PadKept
  <2>2. \A z \in Nat : z \div (256 * 1) = (z \div 256) \div 1
    BY SMT
  <2>3. \A z \in Nat : z \div (256 * 2) = (z \div 256) \div 2
    BY SMT
  <2>4. \A z \in Nat : z \div (256 * 4) = (z \div 256) \div 4
    BY SMT
  <2>5. \A z \in Nat : z \div (256 * 8) = (z \div 256) \div 8
    BY SMT
  <2>6. \A z \in Nat : z \div (256 * 16) = (z \div 256) \div 16
    BY SMT
  <2>7. \A z \in Nat : z \div (256 * 32) = (z \div 256) \div 32
    BY SMT
  <2>8. \A z \in Nat : z \div (256 * 64) = (z \div 256) \div 64
    BY SMT
  <2>9. \A z \in Nat : z \div (256 * 128) = (z \div 256) \div 128
    BY SMT
  <2>10. \A z \in Nat : z \div (256 * 256) = (z \div 256) \div 256
    BY SMT
  <2>11. \A z \in Nat : z \div (256 * 512) = (z \div 256) \div 512
    BY SMT
  <2> QED
    BY <2>1, <2>2, <2>3, <2>4, <2>5, <2>6, <2>7, <2>8, <2>9, <2>10,
       <2>11, SMT
<1>6. CASE bit \in 8 .. 17
  <2>1. PICK n \in {1, 2, 4, 8, 16, 32, 64, 128, 256, 512} : 2 ^ bit = 256 * n
    <3>1. CASE bit = 8
      BY <3>1, SMT
    <3>2. CASE bit = 9
      BY <3>2, SMT
    <3>3. CASE bit = 10
      BY <3>3, SMT
    <3>4. CASE bit = 11
      BY <3>4, SMT
    <3>5. CASE bit = 12
      BY <3>5, SMT
    <3>6. CASE bit = 13
      BY <3>6, SMT
    <3>7. CASE bit = 14
      BY <3>7, SMT
    <3>8. CASE bit = 15
      BY <3>8, SMT
    <3>9. CASE bit = 16
      BY <3>9, SMT
    <3>10. CASE bit = 17
      BY <3>10, SMT
    <3> QED
      BY <1>6, <3>1, <3>2, <3>3, <3>4, <3>5, <3>6, <3>7, <3>8, <3>9, <3>10
  <2> QED
    BY <1>5, <2>1, SMT DEF Field
<1>7. bit \in {0, 1, 4} \/ bit = 5 \/ bit = 6 \/ bit \in 8 .. 17
  OBVIOUS
<1> QED
  BY <1>2, <1>3, <1>4, <1>6, <1>7

(* No pad the program drives is a control word it drives.                  *)
LEMMA Apart ==
  ASSUME NEW p \in Pins, NEW q \in Pins
  PROVE  /\ Ctrl(io_bank0, p) # Pad(pads_bank0, q)
         /\ p # q => Ctrl(io_bank0, p) # Ctrl(io_bank0, q)
         /\ Ctrl(io_bank0, p) \in Words /\ Pad(pads_bank0, p) \in Words
<1>1. p \in Int /\ q \in Int /\ q # 2 * p
  BY PinsExist, PinsApart
<1>2. 8 * p + 4 # 4 * q + 4 /\ (p # q => 8 * p + 4 # 8 * q + 4)
  BY <1>1
<1>3. /\ Ctrl(io_bank0, p) # Pad(pads_bank0, q)
      /\ p # q => Ctrl(io_bank0, p) # Ctrl(io_bank0, q)
  BY <1>2 DEF Ctrl, Pad
<1> QED
  BY <1>3 DEF Words

IsPad(w) == \E p \in Pins : w = Pad(pads_bank0, p)

(* The words keep the parts the driver has no fields for; with that the    *)
(* bits of OthersKept are kept in the step from word to word.              *)
PartsKept == \A w \in Words : IF IsPad(w) THEN PadKept(mem[w], before)
                              ELSE CtrlKept(mem[w], before)

GpioTypes == before \in Nat /\ mem \in [Words -> Nat] /\ func \in [Pins -> 0 .. 32]

GpioInv == GpioTypes /\ FunctionKept /\ PartsKept

LEMMA GpioInitInv == GpioInit => GpioInv
<1> SUFFICES ASSUME GpioInit PROVE GpioInv
  OBVIOUS
<1>1. before \in Nat /\ mem = [w \in Words |-> before] /\ func = [p \in Pins |-> 32]
  BY WordsAreNat DEF GpioInit
<1>2. GpioTypes /\ FunctionKept
  BY <1>1 DEF GpioTypes, FunctionKept
<1>3. PartsKept
  BY <1>1 DEF PartsKept, PadKept, CtrlKept
<1> QED
  BY <1>2, <1>3 DEF GpioInv

(* A write of the control word of a pin, and of its pad where there is one. *)
LEMMA WordsWritten ==
  ASSUME GpioInv, NEW pin \in Pins, NEW z \in Nat, NEW f \in [Pins -> 0 .. 32],
         before' = before,
         \A w \in Words : w \notin {Ctrl(io_bank0, pin), Pad(pads_bank0, pin)}
                            => mem'[w] = mem[w],
         mem' \in [Words -> Nat], mem'[Ctrl(io_bank0, pin)] = z,
         CtrlKept(z, before), PadKept(mem'[Pad(pads_bank0, pin)], before),
         f[pin] # 32 => Field(z, FUNCSEL) = f[pin],
         \A p \in Pins : p # pin => f[p] = func[p],
         func' = f
  PROVE  GpioInv'
<1>1. GpioTypes'
  BY DEF GpioInv, GpioTypes
<1>2. FunctionKept'
  <2> SUFFICES ASSUME NEW p \in Pins, f[p] # 32
               PROVE  Field(mem'[Ctrl(io_bank0, p)], FUNCSEL) = f[p]
    BY DEF FunctionKept, Field
  <2>1. CASE p = pin
    BY <2>1
  <2>2. CASE p # pin
    <3>1. mem'[Ctrl(io_bank0, p)] = mem[Ctrl(io_bank0, p)]
      BY <2>2, Apart
    <3> QED
      BY <2>2, <3>1 DEF GpioInv, FunctionKept
  <2> QED
    BY <2>1, <2>2
<1>3. PartsKept'
  <2> SUFFICES ASSUME NEW w \in Words
               PROVE  IF IsPad(w) THEN PadKept(mem'[w], before)
                      ELSE CtrlKept(mem'[w], before)
    BY DEF PartsKept, PadKept, CtrlKept
  <2>1. CASE w = Ctrl(io_bank0, pin)
    BY <2>1, Apart DEF IsPad
  <2>2. CASE w = Pad(pads_bank0, pin)
    BY <2>2 DEF IsPad
  <2>3. CASE w \notin {Ctrl(io_bank0, pin), Pad(pads_bank0, pin)}
    BY <2>3 DEF GpioInv, PartsKept
  <2> QED
    BY <2>1, <2>2, <2>3
<1> QED
  BY <1>1, <1>2, <1>3 DEF GpioInv

(* Every call of the driver keeps the invariant.                           *)
LEMMA GpioStepInv == GpioInv /\ [GpioNext]_gpioVars => GpioInv'
<1> SUFFICES ASSUME GpioInv, [GpioNext]_gpioVars PROVE GpioInv'
  OBVIOUS
<1>1. CASE UNCHANGED gpioVars
  BY <1>1 DEF gpioVars, GpioInv, GpioTypes, FunctionKept, PartsKept, Field,
              PadKept, CtrlKept
<1>2. ASSUME NEW pin \in Pins,
             \/ \E fn \in Functions : set_func(pin, fn)
             \/ enable_output(pin) \/ gpio_enable(pin) \/ gpio_disable(pin)
      PROVE  GpioInv'
  <2> DEFINE c == Ctrl(io_bank0, pin)
             d == Pad(pads_bank0, pin)
             x == mem[c]
             y == mem[d]
  <2>1. /\ c \in Words /\ d \in Words /\ c # d /\ ~IsPad(c) /\ IsPad(d)
        /\ mem \in [Words -> Nat] /\ before \in Nat /\ func \in [Pins -> 0 .. 32]
    BY Apart DEF IsPad, GpioInv, GpioTypes
  <2>2. /\ x \in Nat /\ y \in Nat /\ CtrlKept(x, before) /\ PadKept(y, before)
        /\ func[pin] # 32 => Field(x, FUNCSEL) = func[pin]
    BY <2>1 DEF GpioInv, PartsKept, FunctionKept
  <2> HIDE DEF c, d
  <2>3. ASSUME NEW fn \in Functions, set_func(pin, fn) PROVE GpioInv'
    <3> DEFINE z == With(x, FUNCSEL, fn)
               f == [func EXCEPT ![pin] = fn]
    <3>1. fn \in Nat /\ fn <= 31 /\ fn % 32 = fn
      BY FunctionFits
    <3>2. z \in Nat /\ CtrlKept(z, before) /\ Field(z, FUNCSEL) = fn
      BY <2>1, <2>2, <3>1, CtrlWritten
    <3>3. mem' = [mem EXCEPT ![c] = z] /\ func' = f /\ before' = before
      BY <2>3 DEF set_func, c
    <3> HIDE DEF z
    <3>4. /\ f \in [Pins -> 0 .. 32] /\ f[pin] = fn
          /\ \A p \in Pins : p # pin => f[p] = func[p]
      BY <2>1, <3>1
    <3> HIDE DEF f
    <3>5. /\ mem' \in [Words -> Nat] /\ mem'[c] = z /\ mem'[d] = y
          /\ \A w \in Words : w \notin {c, d} => mem'[w] = mem[w]
      BY <2>1, <3>2, <3>3
    <3> QED
      BY <2>2, <3>2, <3>3, <3>4, <3>5, WordsWritten DEF c, d
  <2>4. ASSUME NEW z \in Nat, CtrlKept(z, before), Field(z, FUNCSEL) = Field(x, FUNCSEL),
               NEW e \in Nat, PadKept(e, before), mem' = [mem EXCEPT ![c] = z, ![d] = e],
               UNCHANGED <<before, func>>
        PROVE  GpioInv'
    <3>1. /\ mem' \in [Words -> Nat] /\ mem'[c] = z /\ mem'[d] = e
          /\ \A w \in Words : w \notin {c, d} => mem'[w] = mem[w]
      BY <2>1, <2>4
    <3> QED
      BY <2>1, <2>2, <2>4, <3>1, WordsWritten DEF c, d
  <2>5. mem = [mem EXCEPT ![d] = y]
    BY <2>1
  <2>6. CASE enable_output(pin)
    <3>1. With(x, OUTOVER, 0) \in Nat /\ CtrlKept(With(x, OUTOVER, 0), before)
      BY <2>1, <2>2, CtrlWritten
    <3> DEFINE z == With(With(x, OUTOVER, 0), OEOVER, 0)
               e == With(With(With(y, OD, 0), PDE, 0), PUE, 0)
    <3>2. z \in Nat /\ CtrlKept(z, before) /\ Field(z, FUNCSEL) = Field(x, FUNCSEL)
      BY <2>1, <2>2, <3>1, CtrlWritten
    <3>3. With(y, OD, 0) \in Nat /\ PadKept(With(y, OD, 0), before)
      BY <2>1, <2>2, PadWritten
    <3>4. /\ With(With(y, OD, 0), PDE, 0) \in Nat
          /\ PadKept(With(With(y, OD, 0), PDE, 0), before)
      BY <2>1, <3>3, PadWritten
    <3>5. e \in Nat /\ PadKept(e, before)
      BY <2>1, <3>4, PadWritten
    <3>6. mem' = [mem EXCEPT ![c] = z, ![d] = e] /\ UNCHANGED <<before, func>>
      BY <2>1, <2>6 DEF enable_output, c, d
    <3> HIDE DEF z, e
    <3> QED
      BY <2>4, <3>2, <3>5, <3>6
  <2>7. CASE gpio_enable(pin) \/ gpio_disable(pin)
    <3>1. PICK v \in {2, 3} : /\ mem' = [mem EXCEPT ![c] = With(x, OEOVER, v)]
                              /\ UNCHANGED <<before, func>>
      BY <2>7 DEF gpio_enable, gpio_disable, c
    <3> DEFINE z == With(x, OEOVER, v)
    <3>2. z \in Nat /\ CtrlKept(z, before) /\ Field(z, FUNCSEL) = Field(x, FUNCSEL)
      <4>1. x \in Nat /\ CtrlKept(x, before) /\ v \in Nat /\ before \in Nat
        BY <2>1, <2>2
      <4> HIDE DEF x
      <4> QED
        BY <4>1, CtrlWritten
    <3> HIDE DEF z
    <3>3. mem' = [mem EXCEPT ![c] = z, ![d] = y]
      BY <2>1, <3>1 DEF z
    <3> QED
      BY <2>2, <2>4, <3>1, <3>2, <3>3
  <2> QED
    BY <1>2, <2>3, <2>6, <2>7
<1> QED
  BY <1>1, <1>2 DEF GpioNext

LEMMA PartsAreBits == GpioInv => PinsKept
<1> SUFFICES ASSUME GpioInv PROVE PinsKept
  OBVIOUS
<1>1. ASSUME NEW w \in Words, NEW bit \in (0 .. 17) \ Driven(w)
      PROVE  Field(mem[w], <<bit, 1>>) = Field(before, <<bit, 1>>)
  <2>1. mem[w] \in Nat /\ before \in Nat
    BY DEF GpioInv, GpioTypes
  <2>2. CASE IsPad(w)
    <3>1. PadKept(mem[w], before) /\ bit \in (0 .. 17) \ {2, 3, 7}
      BY <1>1, <2>2 DEF GpioInv, PartsKept, Driven, IsPad
    <3> QED
      BY <2>1, <3>1, PadBits
  <2>3. CASE ~IsPad(w)
    <3>1. /\ CtrlKept(mem[w], before)
          /\ bit \in (0 .. 17) \ ((0 .. 4) \cup (12 .. 15))
      BY <1>1, <2>3 DEF GpioInv, PartsKept, Driven, IsPad
    <3> QED
      BY <2>1, <3>1, CtrlBits
  <2> QED
    BY <2>2, <2>3
<1> QED
  BY <1>1 DEF GpioInv, PinsKept, OthersKept

(* Whatever calls of the pin driver are made, every pin keeps its function *)
(* and every word the bits that no call has business with.                 *)
THEOREM CallsKeepPins == GpioSpec => []PinsKept
  BY GpioInitInv, GpioStepInv, PartsAreBits, PTL DEF GpioSpec
-----------------------------------------------------------------------------
(* The program.  Its calls, by number.                                     *)
LEMMA Program ==
  /\ DOMAIN Main = 1 .. 19 /\ Len(Main) = 19 /\ Len(Setup) = 13
  /\ \A i \in 1 .. 13 : Main[i] = Setup[i]
  /\ \A i \in 1 .. 6 : Main[13 + i] = Loop[i]
<1> DEFINE a == Setup
           b == Loop
           Calls == {a[i] : i \in 1 .. 13} \cup {b[i] : i \in 1 .. 6}
<1>1. a = [i \in 1 .. 13 |-> a[i]] /\ b = [i \in 1 .. 6 |-> b[i]]
  BY DEF Setup, Loop
<1> HIDE DEF a, b
<1>2. (\A i \in 1 .. 13 : a[i] \in Calls) /\ \A i \in 1 .. 6 : b[i] \in Calls
  OBVIOUS
<1> HIDE DEF Calls
<1>3. a \in Seq(Calls) /\ Len(a) = 13
  BY <1>1, <1>2
<1>4. b \in Seq(Calls) /\ Len(b) = 6
  BY <1>1, <1>2
<1> DEFINE m == a \o b
<1>5. /\ m \in Seq(Calls) /\ Len(m) = Len(a) + Len(b)
      /\ \A i \in 1 .. Len(a) + Len(b) :
           m[i] = IF i <= Len(a) THEN a[i] ELSE b[i - Len(a)]
  BY <1>3, <1>4, ConcatProperties, Zenon
<1> HIDE DEF m
<1>6. /\ m \in Seq(Calls) /\ Len(m) = 19
      /\ \A i \in 1 .. 19 : m[i] = IF i <= 13 THEN a[i] ELSE b[i - 13]
  BY <1>3, <1>4, <1>5
<1>7. DOMAIN m = 1 .. 19
  BY <1>6
<1>8. /\ \A i \in 1 .. 13 : m[i] = a[i]
      /\ \A i \in 1 .. 6 : m[13 + i] = b[i]
  BY <1>6
<1> QED
  BY <1>3, <1>6, <1>7, <1>8 DEF Main, a, b, m

(* Where in the program each call is, and with which arguments.            *)
LEMMA CallIs ==
  ASSUME at \in DOMAIN Main
  PROVE  /\ at \in 1 .. 19
         /\ Main[at].call = "find_node" <=> at = 1
         /\ Main[at].call = "debug_init" <=> at = 2
         /\ Main[at].call = "debug_write" => at \in 3 .. 4 /\ Arg \in Nat
         /\ Main[at].call = "set_func" => at \in 5 .. 6 /\ Arg \in Pins
         /\ Main[at].call = "enable_output" => at \in 7 .. 9 /\ Arg \in Pins
         /\ Main[at].call = "rp1_init" <=> at = 10
         /\ Main[at].call = "rp1_write" => at \in 11 .. 19 /\ Arg \in Nat
         /\ Main[at].call = "println" => at = 12 /\ Arg \in Nat
         /\ Main[at].call = "timer_init" => at = 13
         /\ Main[at].call = "gpio_enable" => at \in 14 .. 19 /\ Arg \in Pins
         /\ Main[at].call = "gpio_disable" => at \in 14 .. 19 /\ Arg \in Pins
         /\ Main[at].call = "wait" => at \in 14 .. 19 /\ Arg \in Durations
<1>1. at \in 1 .. 19 /\ Len(Main) = 19
  BY Program
<1>2. CASE at \in 1 .. 13
  <2>1. Main[at] = Setup[at]
    BY <1>2, Program
  <2> QED
    BY <1>2, <2>1, CallsAreKnown DEF Setup, Call, Arg
<1>3. CASE at \in 14 .. 19
  <2>1. PICK i \in 1 .. 6 : at = 13 + i
    BY <1>3
  <2>2. Main[at] = Loop[i]
    BY <2>1, Program
  <2> QED
    BY <1>3, <2>1, <2>2, CallsAreKnown DEF Loop, Call, Arg
<1> QED
  BY <1>1, <1>2, <1>3

LEMMA NextCall ==
  ASSUME at \in 1 .. 19, Ahead
  PROVE  at' \in 1 .. 19 /\ (at' = at + 1 \/ (at = 19 /\ at' = 14))
<1>1. at' = IF at = 19 THEN 14 ELSE at + 1
  BY Program DEF Ahead
<1> QED
  BY <1>1

(* A rate that every UART can be given without a carry out of the fraction. *)
Usual(baud) == baud \in BaudRange
               /\ \A u \in Uarts : ~Carries(u, baud) /\ Nearest(u, baud) # 0

(* The program's is one: its divisors are 1528 / 64 and 1667 / 64.         *)
LEMMA TheirRate == Usual(115200)
<1>1. /\ (8 * 44000000) \div 115200 = 3055 /\ (8 * 48000000) \div 115200 = 3333
      /\ (4 * 44000000) \div 115200 = 1527 /\ (4 * 48000000) \div 115200 = 1666
      /\ (3055 + 1) % 128 # 0 /\ (3333 + 1) % 128 # 0
  BY SMT
<1>2. 115200 \in BaudRange
  BY SMT DEF BaudRange
<1>3. ASSUME NEW u \in Uarts
      PROVE  ~Carries(u, 115200) /\ Nearest(u, 115200) # 0
  <2>1. Clock[u] = 44000000 \/ Clock[u] = 48000000
    BY ClocksAreTheirs, SMT
  <2>2. ~Carries(u, 115200)
    BY <1>1, <2>1, SMT DEF Carries
  <2>3. Nearest(u, 115200) # 0
    BY <1>1, <2>1, SMT DEF Nearest
  <2> QED
    BY <2>2, <2>3, SMT
<1> QED
  BY <1>2, <1>3, SMT DEF Usual

(* And its UARTs have the clocks of their kinds.                           *)
LEMMA TheirClocks ==
  /\ \A u \in Uarts \ {Rp1Uart} : UartClk("Debug") = Clock[u]
  /\ UartClk("Rp1") = Clock[Rp1Uart]
  BY ClocksAreTheirs, SMT DEF UartClk

-----------------------------------------------------------------------------
(* What has been initialised is a matter of how far the program is.        *)
Named == found = <<>> \/ \E u \in Uarts \ {Rp1Uart} : found = <<u>>

Place == at \in 0 .. 19 /\ (at > 1 => found # <<>>)

Ready == /\ at = 0 => rate[Fixed] # 0
         /\ at > 2 => rate[found[1]] # 0
         /\ at > 10 => rate[Rp1Uart] # 0

(* Only print writes to a UART that may not be.                            *)
Entitled == todo # <<>> /\ (todo[1].uart # Fixed \/ Agreed \/ Panicked)
              => rate[todo[1].uart] # 0

(* A wait is not among the accesses of a call.                             *)
Alone == timing = "waiting" => todo = <<>>

BInv == RInv /\ Named /\ Place /\ Ready /\ Entitled /\ Alone

LEMMA BootInitInv == BootInit => BInv
<1> SUFFICES ASSUME BootInit PROVE BInv
  OBVIOUS
<1>1. RInv /\ todo = <<>> /\ at = 1 /\ found = <<>>
  BY RatedInit DEF BootInit, Init
<1> QED
  BY <1>1 DEF BInv, Named, Place, Ready, Entitled, Alone

(* The UARTs main knows.                                                   *)
LEMMA Known ==
  ASSUME BInv
  PROVE  /\ rate \in [Uarts -> Nat] /\ TypeOK /\ LInv
         /\ Fixed \in Uarts /\ Rp1Uart \in Uarts /\ Fixed # Rp1Uart
         /\ found # <<>> => /\ found[1] \in Uarts /\ found[1] # Rp1Uart
                            /\ found = <<found[1]>>
<1>1. rate \in [Uarts -> Nat] /\ TypeOK /\ LInv
  BY DEF BInv, RInv, LInv, TypeOK
<1> QED
  BY <1>1, UartsAreThere DEF BInv, Named

(* A call of init() with its UART's clock, and what follows it in a panic. *)
LEMMA BootInitCall ==
  ASSUME BInv, todo = <<>>, uart' = uart, NEW u \in Uarts, NEW kind, NEW n \in Nat,
         NEW baud, Usual(baud), UartClk(kind) = Clock[u],
         rate' = [rate EXCEPT ![u] = Nearest(u, baud)],
         IsInit(todo', u, Divisor(kind, baud), n, Nearest(u, baud))
  PROVE  /\ RInv' /\ rate'[u] # 0 /\ todo' # <<>> /\ todo'[1].uart = u
         /\ \A v \in Uarts : rate[v] # 0 => rate'[v] # 0
<1>1. baud \in BaudRange /\ ~Carries(u, baud) /\ Nearest(u, baud) # 0
  BY DEF Usual
<1>2. RInv'
  BY <1>1, RatedInitCall DEF BInv
<1>3. /\ rate'[u] = Nearest(u, baud) /\ todo' # <<>> /\ todo'[1].uart = u
      /\ \A v \in Uarts : v # u => rate'[v] = rate[v]
  BY <1>1, InitCallStep, Known
<1> QED
  BY <1>1, <1>2, <1>3

LEMMA PanicStep ==
  ASSUME BInv, todo = <<>>, Panic, Named', timing' # "waiting"
  PROVE  BInv'
<1> DEFINE baud == 115200
           r == Nearest(Fixed, baud)
<1>1. /\ at' = 0 /\ uart' = uart /\ rate' = [rate EXCEPT ![Fixed] = r]
      /\ todo' = InitCall(Fixed, "Debug", baud)
                 \o [i \in 1 .. 3 |-> Access(Fixed, "put", r)]
  BY SMT DEF Panic
<1>2. Usual(baud)
  BY TheirRate, SMT
<1> HIDE DEF baud
<1>3. /\ Fixed \in Uarts /\ UartClk("Debug") = Clock[Fixed] /\ 3 \in Nat
      /\ baud \in BaudRange /\ r \in Nat
  BY <1>2, Known, TheirClocks, NearestIsNat DEF Usual
<1> HIDE DEF r
<1>4. IsInit(todo', Fixed, Divisor("Debug", baud), 3, r)
  BY <1>1, <1>3, InitAndPuts
<1>5. /\ RInv' /\ rate'[Fixed] # 0 /\ todo' # <<>> /\ todo'[1].uart = Fixed
  BY <1>1, <1>2, <1>3, <1>4, BootInitCall DEF r
<1>6. Place' /\ Ready' /\ Entitled' /\ Alone'
  BY <1>1, <1>5 DEF Place, Ready, Entitled, Alone
<1> QED
  BY <1>5, <1>6 DEF BInv

(* main's own two calls of init().                                         *)
LEMMA InitStep ==
  ASSUME BInv, NEW u \in Uarts, NEW kind, NEW baud, Usual(baud),
         CallInit(u, kind, baud), UartClk(kind) = Clock[u],
         (at = 2 /\ u = found[1]) \/ (at = 10 /\ u = Rp1Uart),
         at' = at + 1, found' = found, timing' = "idle"
  PROVE  BInv'
<1>1. /\ todo = <<>> /\ uart' = uart /\ baud \in BaudRange /\ 0 \in Nat
      /\ rate' = [rate EXCEPT ![u] = Nearest(u, baud)]
      /\ todo' = InitCall(u, kind, baud)
  BY DEF CallInit, Usual
<1>2. IsInit(todo', u, Divisor(kind, baud), 0, Nearest(u, baud))
  BY <1>1, InitCallIs
<1>3. /\ RInv' /\ rate'[u] # 0 /\ todo' # <<>> /\ todo'[1].uart = u
      /\ \A v \in Uarts : rate[v] # 0 => rate'[v] # 0
  BY <1>1, <1>2, BootInitCall
<1>4. Named' /\ Place'
  BY DEF BInv, Named, Place
<1>5. Ready' /\ Entitled' /\ Alone'
  BY <1>3, Known DEF BInv, Place, Ready, Entitled, Alone
<1> QED
  BY <1>3, <1>4, <1>5 DEF BInv

(* A call of write().                                                      *)
LEMMA WriteStep ==
  ASSUME BInv, NEW u \in Uarts, NEW n \in Nat, CallWrite(u, n),
         u # Fixed \/ Agreed => rate[u] # 0,
         at \in 3 .. 19 \ {10}, Ahead, found' = found, timing' = "idle"
  PROVE  BInv'
<1>1. todo = <<>> /\ uart' = uart /\ rate' = rate /\ todo' = WriteCall(u, n)
  BY DEF CallWrite
<1>2. RInv'
  BY <1>1, RatedWriteCall DEF BInv
<1>3. todo' # <<>> => todo'[1].uart = u
  BY <1>1, WriteCallOrdered, Known
<1>4. at' \in 3 .. 19 /\ (at' > 10 => at > 10)
  BY NextCall
<1>5. Named' /\ Place' /\ Ready'
  BY <1>1, <1>4 DEF BInv, Named, Place, Ready
<1>6. Entitled' /\ Alone'
  BY <1>1, <1>3, <1>4 DEF Entitled, Alone, Agreed, Panicked
<1> QED
  BY <1>2, <1>5, <1>6 DEF BInv

(* A step that is none of the UARTs'.                                      *)
LEMMA AwayStep ==
  ASSUME BInv, UNCHANGED <<uart, todo, rate>>, found' = found,
         at' = at \/ (at \in 3 .. 19 \ {10} /\ Ahead), timing' = "waiting" => todo = <<>>
  PROVE  BInv'
<1>1. RInv'
  BY RatedStutter DEF BInv
<1>2. at' = at \/ (at \in 3 .. 19 /\ at' \in 3 .. 19 /\ (at' > 10 => at > 10))
  BY NextCall
<1>3. Named' /\ Place' /\ Ready' /\ Entitled' /\ Alone'
  BY <1>2 DEF BInv, Named, Place, Ready, Entitled, Agreed, Panicked, Alone
<1> QED
  BY <1>1, <1>3 DEF BInv

(* The accesses of a call, and the transmitters.                           *)
LEMMA LineStep ==
  ASSUME BInv, Step \/ \E u \in Uarts : Hardware(u), UNCHANGED <<at, found, timing>>
  PROVE  BInv'
<1>1. CASE \E u \in Uarts : Hardware(u)
  <2>1. RInv' /\ todo' = todo /\ rate' = rate
    BY <1>1, RatedHardware DEF BInv, Hardware, StartFrame, EndFrame
  <2> QED
    BY <2>1 DEF BInv, Named, Place, Ready, Entitled, Agreed, Panicked, Alone
<1>2. CASE Step
  <2>1. RInv' /\ rate' = rate /\ todo' = Tail(todo) /\ todo # <<>>
    BY <1>2, RatedStep DEF BInv, Step, Flush, Disable, ClearFifo, SetDivisor,
       SetLine, Enable, Put, Made, Doing
  <2>2. todo \in Seq(Accesses) /\ \A i \in 1 .. Len(todo) : todo[i].uart = todo[1].uart
    BY Known, Machines DEF LInv, Ordered
  <2>3. todo' # <<>> => todo'[1] = todo[2] /\ 2 \in 1 .. Len(todo)
    BY <2>1, <2>2
  <2>4. Entitled'
    BY <2>1, <2>2, <2>3 DEF BInv, Entitled, Agreed, Panicked
  <2>5. Named' /\ Place' /\ Ready' /\ Alone'
    BY <2>1 DEF BInv, Named, Place, Ready, Alone
  <2> QED
    BY <2>1, <2>4, <2>5 DEF BInv
<1> QED
  BY <1>1, <1>2

(* Each of the program's steps.                                            *)
LEMMA FindStep ==
  ASSUME BInv, Find
  PROVE  BInv'
<1>1. at = 1 /\ todo = <<>> /\ timing = "idle" /\ timing' = timing
  BY CallIs DEF Find, Now, timerVars
<1>2. PICK reports \in Reports, ok \in BOOLEAN :
        /\ found' = IF reports = <<>> THEN <<>> ELSE <<Head(reports)>>
        /\ IF ok /\ found' # <<>> THEN Ahead /\ UNCHANGED uartVars ELSE Panic
  BY DEF Find
<1>3. reports \in Seq(Uarts \ {Rp1Uart})
  BY TreeNamesUarts
<1>4. reports # <<>> => Head(reports) \in Uarts \ {Rp1Uart}
  BY <1>3
<1>5. Named'
  BY <1>2, <1>4 DEF Named
<1>6. CASE Panic
  BY <1>1, <1>5, <1>6, PanicStep
<1>7. CASE Ahead /\ UNCHANGED uartVars /\ found' # <<>>
  <2>1. at' = 2
    BY <1>1, <1>7, NextCall
  <2>2. uart' = uart /\ todo' = todo /\ rate' = rate
    BY <1>7 DEF uartVars
  <2>3. RInv'
    BY <2>2, RatedStutter DEF BInv
  <2>4. Place' /\ Ready' /\ Entitled' /\ Alone'
    BY <1>1, <1>7, <2>1, <2>2 DEF Place, Ready, Entitled, Alone
  <2> QED
    BY <1>5, <2>3, <2>4 DEF BInv
<1> QED
  BY <1>2, <1>6, <1>7

LEMMA UartCallStep ==
  ASSUME BInv, UartCall
  PROVE  BInv'
<1> DEFINE baud == 115200
<1>1. /\ \/ Now("debug_init")  /\ CallInit(found[1], "Debug", baud)
         \/ Now("debug_write") /\ CallWrite(found[1], Arg)
         \/ Now("rp1_init")    /\ CallInit(Rp1Uart, "Rp1", baud)
         \/ Now("rp1_write")   /\ CallWrite(Rp1Uart, Arg)
         \/ Now("println")     /\ CallWrite(Fixed, Arg)
      /\ Ahead /\ found' = found /\ timing' = timing
  BY SMT DEF UartCall, timerVars
<1>2. Usual(baud)
  BY TheirRate, SMT
<1> HIDE DEF baud
<1>3. timing' = "idle" /\ at \in 1 .. 19 /\ at \in DOMAIN Main
  BY <1>1, CallIs DEF Now
<1>4. at > 1 => found[1] \in Uarts /\ found[1] # Rp1Uart /\ found = <<found[1]>>
  BY Known DEF BInv, Place
<1>5. CASE Now("debug_init") /\ CallInit(found[1], "Debug", baud)
  <2>1. at = 2 /\ at' = at + 1
    BY <1>1, <1>3, <1>5, CallIs, NextCall DEF Now
  <2>2. UartClk("Debug") = Clock[found[1]]
    BY <1>4, <2>1, TheirClocks
  <2> QED
    BY <1>1, <1>2, <1>3, <1>4, <1>5, <2>1, <2>2, InitStep
<1>6. CASE Now("debug_write") /\ CallWrite(found[1], Arg)
  <2>1. at \in 3 .. 4 /\ Arg \in Nat
    BY <1>3, <1>6, CallIs DEF Now
  <2>2. rate[found[1]] # 0
    BY <2>1 DEF BInv, Ready
  <2> QED
    BY <1>1, <1>3, <1>4, <1>6, <2>1, <2>2, WriteStep
<1>7. CASE Now("rp1_init") /\ CallInit(Rp1Uart, "Rp1", baud)
  <2>1. at = 10 /\ at' = at + 1
    BY <1>1, <1>3, <1>7, CallIs, NextCall DEF Now
  <2> QED
    BY <1>1, <1>2, <1>3, <1>7, <2>1, InitStep, TheirClocks, Known
<1>8. CASE Now("rp1_write") /\ CallWrite(Rp1Uart, Arg)
  <2>1. at \in 11 .. 19 /\ Arg \in Nat
    BY <1>3, <1>8, CallIs DEF Now
  <2>2. rate[Rp1Uart] # 0
    BY <2>1 DEF BInv, Ready
  <2> QED
    BY <1>1, <1>3, <1>8, <2>1, <2>2, WriteStep, Known
<1>9. CASE Now("println") /\ CallWrite(Fixed, Arg)
  <2>1. at = 12 /\ Arg \in Nat
    BY <1>3, <1>9, CallIs DEF Now
  <2>2. Agreed => rate[Fixed] # 0
    BY <2>1 DEF BInv, Ready, Agreed
  <2> QED
    BY <1>1, <1>3, <1>9, <2>1, <2>2, WriteStep, Known
<1> QED
  BY <1>1, <1>5, <1>6, <1>7, <1>8, <1>9

LEMMA OtherCallStep ==
  ASSUME BInv, PinCall \/ TimerCall \/ Waiting(Looping)
  PROVE  BInv'
<1>1. CASE PinCall
  <2>1. at \in 3 .. 19 \ {10} /\ timing = "idle" /\ Ahead
    BY <1>1, CallIs DEF PinCall, Now
  <2>2. UNCHANGED <<uart, todo, rate>> /\ found' = found /\ timing' = timing
    BY <1>1 DEF PinCall, uartVars, timerVars
  <2> QED
    BY <2>1, <2>2, AwayStep
<1>2. CASE TimerCall
  <2>1. at \in 3 .. 19 \ {10} /\ todo = <<>> /\ found' = found
    BY <1>2, CallIs DEF TimerCall, Now
  <2>2. CASE timing' = "panic" /\ Panic
    <3>1. Named'
      BY <2>1 DEF BInv, Named
    <3> QED
      BY <2>1, <2>2, <3>1, PanicStep
  <2>3. CASE Ahead /\ UNCHANGED uartVars
    <3>1. UNCHANGED <<uart, todo, rate>>
      BY <2>3 DEF uartVars
    <3> QED
      BY <2>1, <2>3, <3>1, AwayStep
  <2> QED
    BY <1>2, <2>2, <2>3 DEF TimerCall
<1>3. CASE Waiting(Looping)
  <2>1. todo = <<>> /\ found' = found
    BY <1>3 DEF Waiting, Looping, Poll, BInv, Alone
  <2>2. CASE timing' = "panic" /\ Panic
    <3>1. Named'
      BY <2>1 DEF BInv, Named
    <3> QED
      BY <2>1, <2>2, <3>1, PanicStep
  <2>3. CASE UNCHANGED <<uartVars, at>>
    <3>1. UNCHANGED <<uart, todo, rate>> /\ at' = at
      BY <2>3 DEF uartVars
    <3> QED
      BY <2>1, <3>1, AwayStep
  <2> QED
    BY <1>3, <2>2, <2>3 DEF Waiting
<1> QED
  BY <1>1, <1>2, <1>3

LEMMA BootStepInv == BInv /\ [BootNext]_bootVars => BInv'
<1> SUFFICES ASSUME BInv, [BootNext]_bootVars PROVE BInv'
  OBVIOUS
<1>1. CASE UNCHANGED bootVars
  <2>1. UNCHANGED <<uart, todo, rate>> /\ found' = found /\ at' = at /\ timing' = timing
    BY <1>1 DEF bootVars
  <2> QED
    BY <2>1, AwayStep DEF BInv, Alone
<1>2. CASE DriverStep
  BY <1>2, LineStep DEF DriverStep, progVars, timerVars
<1>3. CASE \E u \in Uarts : Sending(u)
  BY <1>3, LineStep DEF Sending, progVars, timerVars
<1> QED
  BY <1>1, <1>2, <1>3, FindStep, UartCallStep, OtherCallStep DEF BootNext, Core

(* In each of them the calls of the driver do not overlap.                 *)
LEMMA BootMoves == BInv /\ [BootNext]_bootVars => Moves
<1> SUFFICES ASSUME BInv, [BootNext]_bootVars PROVE Moves
  OBVIOUS
<1>1. CASE UNCHANGED bootVars
  BY <1>1 DEF bootVars, Moves
<1>2. CASE DriverStep \/ \E u \in Uarts : Sending(u)
  BY <1>2 DEF DriverStep, Sending, Moves
<1>3. CASE Find \/ PinCall \/ TimerCall
  BY <1>3 DEF Find, PinCall, TimerCall, Now, Panic, uartVars, Moves
<1>4. CASE Waiting(Looping)
  BY <1>4 DEF Waiting, Looping, Poll, BInv, Alone, Panic, uartVars, Moves
<1>5. CASE UartCall
  <2>1. todo = <<>> /\ uart' = uart
    BY <1>5, SMT DEF UartCall, Now, CallInit, CallWrite
  <2> QED
    BY <2>1 DEF Moves
<1> QED
  BY <1>1, <1>2, <1>3, <1>4, <1>5 DEF BootNext, Core

-----------------------------------------------------------------------------
(* The characters of main and of the panic handler are sent at the divisor *)
(* nearest to 115200 baud, in 8N1, on whichever UART the tree names,       *)
(* however the firmware has left it and whenever the program panics.       *)
THEOREM ProgramRate == BootSpec => []RateRight
<1>1. BInv => RateRight
  BY ShiftedRight DEF BInv
<1> QED
  BY <1>1, BootInitInv, BootStepInv, PTL DEF BootSpec

(* Who writes has called init() before; print only if the tree names its   *)
(* UART first.                                                             *)
THEOREM InitComesFirst == BootSpec => []WrittenAfterInit
<1>1. BInv => WrittenAfterInit
  <2> SUFFICES ASSUME BInv, Doing("put"), U # Fixed \/ Agreed \/ Panicked
               PROVE  Head(todo).val # 0
    BY DEF WrittenAfterInit
  <2>1. todo \in Seq(Accesses) /\ todo # <<>> /\ Head(todo).op = "put"
    BY Known, Machines DEF LInv, Doing
  <2>2. Head(todo) = todo[1] /\ 1 \in 1 .. Len(todo)
    BY <2>1
  <2>3. todo[1].val = rate[todo[1].uart]
    BY <2>1, <2>2 DEF BInv, RInv, Planned
  <2> QED
    BY <2>1, <2>2, <2>3 DEF BInv, Entitled, U
<1> QED
  BY <1>1, BootInitInv, BootStepInv, PTL DEF BootSpec

(* The panic handler drives a UART that main may have been using, print    *)
(* one that main is using: no character is dropped and no line is changed  *)
(* under a transmitter.                                                    *)
THEOREM ProgramLine == BootSpec => SettledLine /\ NothingLost
<1>1. BInv /\ [BootNext]_bootVars => \A u \in Uarts :
        \/ /\ uart'[u].divisor = uart[u].divisor
           /\ uart'[u].active = uart[u].active
           /\ uart'[u].word = uart[u].word
        \/ ~uart[u].enabled /\ ~Busy(u)
  BY BootMoves, Known, SettledStep
<1>2. BInv /\ [BootNext]_bootVars => \A u \in Uarts :
        LET old == uart[u].fifo
            new == uart'[u].fifo
        IN  IF Len(new) < Len(old)
              THEN new = Tail(old) /\ uart'[u].shift = <<Head(old)>>
              ELSE /\ \A i \in 1 .. Len(old) : new[i] = old[i]
                   /\ Doing("put") /\ U = u /\ todo' = Tail(todo)
                        => new = Append(old, Head(todo).val)
  BY BootMoves, Known, KeptStep
<1> QED
  BY <1>1, <1>2, BootInitInv, BootStepInv, PTL DEF BootSpec, SettledLine, NothingLost

(* The program uses its pins and its timer as their modules have it: each  *)
(* of its steps is one of theirs or leaves them alone.                     *)
THEOREM UsesPinsAndTimer == BootSpec => GpioSpec /\ TimerSpec
<1>1. BootInit => GpioInit /\ TimerInit
  BY DEF BootInit
<1>2. [BootNext]_bootVars => [GpioNext]_gpioVars
  <2> SUFFICES ASSUME [BootNext]_bootVars PROVE [GpioNext]_gpioVars
    OBVIOUS
  <2>1. CASE PinCall
    <3>1. 4 \in Functions /\ Arg \in Pins
      BY <2>1, CallIs, CallsAreKnown DEF PinCall, Now
    <3> QED
      BY <2>1, <3>1 DEF PinCall, GpioNext
  <2>2. CASE ~PinCall
    BY <2>2 DEF BootNext, Core, Find, UartCall, TimerCall, DriverStep, Waiting,
       Sending, bootVars, gpioVars
  <2> QED
    BY <2>1, <2>2
<1>3. [BootNext]_bootVars => [TimerNext]_timerVars
  <2> SUFFICES ASSUME [BootNext]_bootVars PROVE [TimerNext]_timerVars
    OBVIOUS
  <2>1. CASE TimerCall
    <3>1. CASE \E f \in Frequencies : init(f)
      BY <3>1 DEF TimerNext
    <3>2. CASE Now("wait") /\ wait(Arg)
      BY <3>2, CallIs DEF Now, TimerNext
    <3> QED
      BY <2>1, <3>1, <3>2 DEF TimerCall
  <2>2. CASE Waiting(Looping)
    BY <2>2 DEF Waiting, TimerNext
  <2>3. CASE ~TimerCall /\ ~Waiting(Looping)
    BY <2>3 DEF BootNext, Core, Find, UartCall, PinCall, DriverStep, Sending,
       bootVars, timerVars
  <2> QED
    BY <2>1, <2>2, <2>3
<1> QED
  BY <1>1, <1>2, <1>3, PTL DEF BootSpec, GpioSpec, TimerSpec

(* So its pins keep their functions, and its waits their lengths.          *)
COROLLARY ProgramKeepsPins == BootSpec => []PinsKept
  BY UsesPinsAndTimer, CallsKeepPins, PTL

COROLLARY ProgramWaits == BootSpec => LongEnough /\ NotLonger /\ PanicHasCause
  BY UsesPinsAndTimer, WaitIsLongEnough, WaitIsNotLonger, OnlyWrapPanics, PTL
=============================================================================
