-------------------------- MODULE DtbParserProofs --------------------------
(***************************************************************************)
(* Proofs about the search of the device tree, for every blob, well-formed *)
(* or not, every query and every width of a cell; and, behind them, facts  *)
(* about the documents of DtbDocument for every tree: what tokens a tree   *)
(* is written in, where they are, and what an edit does to them.           *)
(* DtbDocumentProofs brings the two together.                              *)
(***************************************************************************)
EXTENDS DtbDocument, FiniteSetTheorems, SequenceTheorems, TLAPS

-----------------------------------------------------------------------------
(* Induction for sets: what holds of 0 and of the successor of everything  *)
(* it holds of holds of every natural number.  If n were the exception the *)
(* numbers up to n it holds of could be mapped, by adding one, into        *)
(* themselves without 0.                                                   *)
LEMMA Induction ==
  ASSUME NEW S \in SUBSET Nat, 0 \in S, \A k \in S : k + 1 \in S
  PROVE  S = Nat
<1> SUFFICES ASSUME NEW n \in Nat, n \notin S PROVE FALSE
  OBVIOUS
<1> DEFINE T == {k \in 0 .. n : k \in S}
           f == [k \in T |-> k + 1]
<1>1. IsFiniteSet(T)
  <2>1. 0 \in Int /\ n \in Int
    OBVIOUS
  <2>2. IsFiniteSet(0 .. n)
    BY <2>1, FS_Interval, Zenon
  <2> QED
    BY <2>2, FS_Subset
<1>2. 0 \in T
  OBVIOUS
<1>3. ASSUME NEW k \in T PROVE k + 1 \in T \ {0}
  <2>1. k # n /\ k + 1 \in S
    OBVIOUS
  <2> QED
    BY <2>1
<1>4. f \in Injection(T, T \ {0})
  BY <1>3 DEF Injection, IsInjective
<1>5. IsFiniteSet(T \ {0}) /\ Cardinality(T \ {0}) = Cardinality(T) - 1
  BY <1>1, <1>2, FS_RemoveElement
<1> HIDE DEF T, f
<1>6. Cardinality(T) <= Cardinality(T \ {0}) /\ Cardinality(T) \in Nat
  BY <1>1, <1>4, <1>5, FS_Injection, FS_CardinalityType
<1> QED
  BY <1>5, <1>6

(* The values of a loop of k iterations, one after the other: each is what *)
(* the iteration makes of the one before.  There are such values.          *)
Runs(S, base, iter, k) ==
  {g \in [0 .. k -> S] : /\ g[0] = base
                         /\ \A i \in 1 .. k : g[i] = iter[i][g[i - 1]]}

LEMMA Recursion ==
  ASSUME NEW S, NEW base \in S, NEW iter \in [Nat -> [S -> S]], NEW k \in Nat
  PROVE  Runs(S, base, iter, k) # {}
<1> DEFINE A == {m \in Nat : Runs(S, base, iter, m) # {}}
<1>1. 0 \in A
  <2>1. [i \in 0 .. 0 |-> base] \in Runs(S, base, iter, 0)
    BY DEF Runs
  <2> QED
    BY <2>1
<1>2. ASSUME NEW m \in A PROVE m + 1 \in A
  <2>1. PICK g \in [0 .. m -> S] :
          g[0] = base /\ \A i \in 1 .. m : g[i] = iter[i][g[i - 1]]
    BY DEF Runs
  <2> DEFINE h == [i \in 0 .. m + 1 |->
                     IF i <= m THEN g[i] ELSE iter[m + 1][g[m]]]
  <2>2. h \in [0 .. m + 1 -> S]
    BY <2>1
  <2>3. h[0] = base
    BY <2>1
  <2>4. ASSUME NEW i \in 1 .. m + 1 PROVE h[i] = iter[i][h[i - 1]]
    <3>1. i - 1 \in 0 .. m
      OBVIOUS
    <3>2. h[i - 1] = g[i - 1]
      BY <3>1
    <3>3. CASE i <= m
      BY <2>1, <3>2, <3>3
    <3>4. CASE ~(i <= m)
      <4>1. i = m + 1 /\ i - 1 = m
        BY <3>4
      <4>2. h[m + 1] = iter[m + 1][g[m]]
        OBVIOUS
      <4>3. h[i - 1] = g[m]
        BY <3>2, <4>1
      <4> QED
        BY <4>1, <4>2, <4>3
    <3> QED
      BY <3>3, <3>4
  <2> HIDE DEF h
  <2>5. h \in Runs(S, base, iter, m + 1) /\ m + 1 \in Nat
    BY <2>2, <2>3, <2>4 DEF Runs
  <2> QED
    BY <2>5
<1>3. A = Nat
  BY <1>1, <1>2, Induction
<1> QED
  BY <1>3

-----------------------------------------------------------------------------
(* A usize is not empty.                                                   *)
LEMMA Usize == CELL \in Nat /\ USIZE \in Nat /\ USIZE > 0
  BY CellIsNat DEF USIZE

LEMMA WordIsNat ==
  ASSUME blob \in Seq(Nat), NEW p
  PROVE  Word(p) \in Nat
  BY DEF Word

(* read_regs: the words of a number, one after the other, each time % 2^w. *)
LEMMA NumberIs ==
  ASSUME blob \in Seq(Nat), NEW p \in Nat, NEW k \in Nat
  PROVE  \E g \in [0 .. k -> 0 .. USIZE - 1] :
           /\ g[0] = 0 /\ Number(p, k) = g[k]
           /\ \A i \in 1 .. k : g[i] = (g[i - 1] * CELL + Word(p + i - 1)) % USIZE
<1>0. PICK U : U = 0 .. USIZE - 1
  OBVIOUS
<1> DEFINE step == [i \in Nat |-> [x \in U |-> (x * CELL + Word(p + i - 1)) % USIZE]]
           Reads(f) == f = [i \in 0 .. k |->
             IF i = 0 THEN 0 ELSE (f[i - 1] * CELL + Word(p + i - 1)) % USIZE]
           read == CHOOSE f : Reads(f)
<1>1. 0 \in U
  BY <1>0, Usize
<1>2. ASSUME NEW x \in U, NEW i \in Nat
      PROVE  (x * CELL + Word(p + i - 1)) % USIZE \in U
  <2>1. x * CELL \in Nat /\ Word(p + i - 1) \in Nat
    BY <1>0, Usize, WordIsNat
  <2> DEFINE y == x * CELL + Word(p + i - 1)
  <2>2. y \in Nat
    BY <2>1
  <2> HIDE DEF y
  <2>3. y % USIZE \in 0 .. USIZE - 1
    BY <2>2, Usize
  <2> QED
    BY <1>0, <2>3 DEF y
<1>3. step \in [Nat -> [U -> U]]
  BY <1>2
<1>4. ASSUME NEW i \in Nat, NEW x \in U
      PROVE  step[i][x] = (x * CELL + Word(p + i - 1)) % USIZE
  OBVIOUS
<1> HIDE DEF step
<1>5. PICK g \in [0 .. k -> U] :
        g[0] = 0 /\ \A i \in 1 .. k : g[i] = step[i][g[i - 1]]
  <2>1. Runs(U, 0, step, k) # {}
    BY <1>1, <1>3, Recursion
  <2> QED
    BY <2>1 DEF Runs
<1>6. ASSUME NEW i \in 1 .. k
      PROVE  g[i] = (g[i - 1] * CELL + Word(p + i - 1)) % USIZE
  <2>1. i - 1 \in 0 .. k /\ i \in Nat
    OBVIOUS
  <2> QED
    BY <1>4, <1>5, <2>1
<1>7. Reads(g)
  BY <1>5, <1>6
<1>8. Reads(read)
  BY <1>7, Zenon
<1> HIDE DEF read
<1>9. \A i \in 0 .. k : read[i] =
        IF i = 0 THEN 0 ELSE (read[i - 1] * CELL + Word(p + i - 1)) % USIZE
  BY <1>8, Zenon
<1> DEFINE A == {m \in Nat : m <= k => read[m] = g[m]}
<1>10. 0 \in A
  BY <1>5, <1>9
<1>11. ASSUME NEW m \in A PROVE m + 1 \in A
  <2> SUFFICES ASSUME m + 1 <= k PROVE read[m + 1] = g[m + 1]
    OBVIOUS
  <2>1. m + 1 \in 0 .. k /\ m + 1 \in 1 .. k /\ (m + 1) - 1 = m /\ m + 1 # 0 /\ m <= k
    OBVIOUS
  <2>2. read[m + 1] = (read[m] * CELL + Word(p + (m + 1) - 1)) % USIZE
    BY <1>9, <2>1
  <2>3. g[m + 1] = (g[m] * CELL + Word(p + (m + 1) - 1)) % USIZE
    BY <1>6, <2>1
  <2> QED
    BY <2>1, <2>2, <2>3
<1>12. read[k] = g[k]
  <2>1. A = Nat
    BY <1>10, <1>11, Induction
  <2> QED
    BY <2>1
<1>13. Number(p, k) = read[k]
  BY DEF Number, read
<1> QED
  BY <1>0, <1>5, <1>6, <1>12, <1>13

(* read_regs yields a usize, of however many words.                        *)
LEMMA NumberIsUsize ==
  ASSUME blob \in Seq(Nat), NEW p \in Nat, NEW k \in Nat
  PROVE  Number(p, k) \in 0 .. USIZE - 1
<1>1. PICK g \in [0 .. k -> 0 .. USIZE - 1] : Number(p, k) = g[k]
  BY NumberIs
<1>2. k \in 0 .. k
  OBVIOUS
<1> QED
  BY <1>1, <1>2

-----------------------------------------------------------------------------
(* A translation yields an address that fits a usize, or fails.            *)
Usizes  == 0 .. USIZE - 1
Results == {Ok(a) : a \in Usizes} \cup {Fails("err"), Fails("panic")}

LEMMA OkResults ==
  /\ \A a \in Usizes : Ok(a) \in Results
  /\ \A r \in Results : r.is = "ok" => r.address \in Usizes
  /\ \A r \in Results : r.is # "ok" => r.is \in {"err", "panic"}
  BY DEF Results, Ok, Fails

(* One node's window: what overflows is a panic, never a wrapped address.  *)
LEMMA AcrossIsResult ==
  ASSUME blob \in Seq(Nat), nodes \in Seq(Nodes),
         NEW d \in 1 .. Depth, NEW a \in Usizes, NEW size \in Usizes
  PROVE  Across(d, a, size) \in Results
<1> DEFINE pos    == nodes[d].ranges
           child  == Number(pos, nodes[d].address_cells)
           parent == Number(pos + nodes[d].address_cells,
                            nodes[d - 1].address_cells)
<1>1. CASE pos = None
  BY <1>1, OkResults DEF Across
<1>2. CASE pos # None /\ d = 1
  BY <1>2 DEF Across, Results
<1>3. CASE pos # None /\ d # 1
  <2>1. nodes[d] \in Nodes /\ nodes[d - 1] \in Nodes
    BY <1>3 DEF Depth
  <2>2. pos \in Nat /\ nodes[d].address_cells \in Nat
        /\ nodes[d - 1].address_cells \in Nat
    BY <2>1 DEF Nodes
  <2>3. child \in Usizes /\ parent \in Usizes
    <3>1. pos + nodes[d].address_cells \in Nat
      <4>1. PICK x \in Nat, y \in Nat : x = pos /\ y = nodes[d].address_cells
        BY <2>2
      <4> QED
        BY <4>1
    <3>2. \A p \in Nat : \A k \in Nat : Number(p, k) \in Usizes
      BY NumberIsUsize DEF Usizes
    <3> QED
      BY <2>2, <3>1, <3>2
  <2> HIDE DEF child, parent
  <2>4. Across(d, a, size) \in {Fails("panic"), Fails("err")}
        \/ /\ Across(d, a, size) = Ok(a - child + parent)
           /\ ~(a < child \/ a - child + parent >= USIZE)
    BY <1>3 DEF Across, child, parent
  <2>5. CASE ~(a < child \/ a - child + parent >= USIZE)
    <3>1. a - child + parent \in Usizes
      BY <2>3, <2>5, Usize DEF Usizes
    <3> QED
      BY <2>4, <3>1, OkResults DEF Results
  <2> QED
    BY <2>4, <2>5 DEF Results
<1> QED
  BY <1>1, <1>2, <1>3

(* The loop of Translated.                                                 *)
Climbs(f, a, size) ==
  /\ f[0] = Ok(a) /\ Translated(a, size) = f[Depth]
  /\ \A k \in 1 .. Depth :
       f[k] = IF f[k - 1].is = "ok" THEN Across(Depth + 1 - k, f[k - 1].address, size)
              ELSE f[k - 1]

(* There is such a loop, whose values are results.                         *)
LEMMA Climb ==
  ASSUME blob \in Seq(Nat), nodes \in Seq(Nodes),
         NEW a \in Usizes, NEW size \in Usizes
  PROVE  \E f \in [0 .. Depth -> Results] : Climbs(f, a, size)
<1>0. PICK R : R = Results
  OBVIOUS
<1> DEFINE next(i, r) == IF r.is = "ok"
                           THEN Across(Depth + 1 - i, r.address, size) ELSE r
           iter == [i \in Nat |-> [r \in R |->
                      IF i \in 1 .. Depth THEN next(i, r) ELSE r]]
           Values(f) == f = [i \in 0 .. Depth |->
             IF i = 0 THEN Ok(a)
             ELSE IF f[i - 1].is = "ok"
                    THEN Across(Depth + 1 - i, f[i - 1].address, size)
                    ELSE f[i - 1]]
           up == CHOOSE f : Values(f)
<1>1. Ok(a) \in R /\ Depth \in Nat
  BY <1>0, OkResults DEF Depth
<1>2. ASSUME NEW r \in R, NEW i \in 1 .. Depth PROVE next(i, r) \in R
  <2>1. Depth + 1 - i \in 1 .. Depth
    BY <1>1
  <2>2. CASE r.is = "ok"
    <3>1. r.address \in Usizes
      BY <1>0, <2>2, OkResults
    <3> QED
      BY <1>0, <2>1, <2>2, <3>1, AcrossIsResult
  <2> QED
    BY <2>2
<1>3. iter \in [Nat -> [R -> R]]
  BY <1>2
<1>4. ASSUME NEW i \in 1 .. Depth, NEW r \in R PROVE iter[i][r] = next(i, r)
  BY <1>1
<1> HIDE DEF iter
<1>5. PICK g \in [0 .. Depth -> R] :
        g[0] = Ok(a) /\ \A i \in 1 .. Depth : g[i] = iter[i][g[i - 1]]
  <2>1. Runs(R, Ok(a), iter, Depth) # {}
    BY <1>1, <1>3, Recursion
  <2> QED
    BY <2>1 DEF Runs
<1>6. Values(g)
  <2>1. ASSUME NEW i \in 1 .. Depth
        PROVE  g[i] = next(i, g[i - 1])
    <3>1. i - 1 \in 0 .. Depth
      BY <1>1
    <3> QED
      BY <1>4, <1>5, <3>1
  <2> QED
    BY <1>5, <2>1
<1>7. Values(up)
  BY <1>6, Zenon
<1>14. Translated(a, size) = up[Depth]
  BY DEF Translated, up
<1> HIDE DEF up
<1>8. /\ up[0] = Ok(a)
      /\ \A i \in 1 .. Depth : up[i] = next(i, up[i - 1])
      /\ up = [i \in 0 .. Depth |-> up[i]]
  <2>1. \A i \in 0 .. Depth : up[i] = IF i = 0 THEN Ok(a) ELSE next(i, up[i - 1])
    BY <1>7, Zenon
  <2>2. 0 \in 0 .. Depth /\ \A i \in 1 .. Depth : i \in 0 .. Depth /\ i # 0
    BY <1>1
  <2>3. up = [i \in 0 .. Depth |-> up[i]]
    BY <1>7
  <2> QED
    BY <2>1, <2>2, <2>3, Zenon
<1> HIDE DEF next
<1> DEFINE A == {i \in Nat : i <= Depth => up[i] \in R}
<1>9. 0 \in A
  BY <1>1, <1>8
<1>10. ASSUME NEW i \in A PROVE i + 1 \in A
  <2> SUFFICES ASSUME i + 1 <= Depth PROVE up[i + 1] \in R
    OBVIOUS
  <2>1. up[i] \in R /\ i + 1 \in 1 .. Depth /\ (i + 1) - 1 = i
    BY <1>1
  <2>2. up[i + 1] = next(i + 1, up[i])
    BY <1>8, <2>1
  <2> QED
    BY <1>2, <2>1, <2>2
<1>11. A = Nat
  BY <1>9, <1>10, Induction
<1>12. \A i \in 0 .. Depth : up[i] \in R
  BY <1>1, <1>11
<1>13. up \in [0 .. Depth -> R]
  BY <1>8, <1>12
<1>15. \A k \in 1 .. Depth :
         up[k] = IF up[k - 1].is = "ok" THEN Across(Depth + 1 - k, up[k - 1].address, size)
                 ELSE up[k - 1]
  BY <1>8 DEF next
<1> QED
  BY <1>0, <1>8, <1>13, <1>14, <1>15 DEF Climbs

(* All the way up.                                                         *)
LEMMA TranslatedIsResult ==
  ASSUME blob \in Seq(Nat), nodes \in Seq(Nodes),
         NEW a \in Usizes, NEW size \in Usizes
  PROVE  Translated(a, size) \in Results
<1>1. PICK f \in [0 .. Depth -> Results] : Climbs(f, a, size)
  BY Climb
<1> QED
  BY <1>1 DEF Climbs, Depth

-----------------------------------------------------------------------------
(* The inductive invariant: beside the types, there is a node while its    *)
(* tokens are read, the root keeps no reg, and what is left to deliver is  *)
(* left of the reg of the node; so a parent is there when one is needed.   *)
HasNode == /\ pc \in {"props", "deliver", "children"} => Depth > 0
           /\ Depth > 0 => nodes[1].reg = <<>>
           /\ pc = "deliver" /\ remain > 0 =>
                Node.reg # <<>> /\ remain <= Node.reg[2]

IInv == TypeOK /\ HasNode

LEMMA InitInv == Init => IInv
<1> SUFFICES ASSUME Init PROVE IInv
  OBVIOUS
<1>1. nodes = <<>> /\ calls = <<>> /\ pc = "start" /\ Depth = 0
  BY DEF Init, Depth
<1>2. TypeOK
  <2>1. nodes \in Seq(Nodes) /\ calls \in Seq(Nat \X Nat)
    BY <1>1
  <2> QED
    BY <2>1 DEF Init, TypeOK
<1>3. HasNode
  BY <1>1 DEF HasNode
<1> QED
  BY <1>2, <1>3 DEF IInv

LEMMA Here ==
  ASSUME TypeOK, Depth > 0
  PROVE  Node \in Nodes /\ Depth \in Nat /\ Depth \in DOMAIN nodes
  BY DEF TypeOK, Depth, Node

(* find_node_recursive pushes a node without reg.                          *)
LEMMA EnterInv ==
  ASSUME IInv, NEW p, p \in Nat, Enter(p),
         UNCHANGED <<blob, query, remain, calls, broke>>
  PROVE  IInv'
<1>1. /\ nodes' = Append(nodes, NewNode) /\ pointer' = p + 2 /\ pc' = "props"
      /\ result' = result
  BY DEF Enter
<1>2. NewNode \in Nodes /\ NewNode.reg = <<>>
  BY DEF NewNode, Nodes, None
<1>3. /\ nodes' \in Seq(Nodes) /\ Len(nodes') = Len(nodes) + 1
      /\ Len(nodes) \in Nat /\ nodes \in Seq(Nodes)
      /\ nodes'[Len(nodes) + 1] = NewNode
      /\ \A i \in 1 .. Len(nodes) : nodes'[i] = nodes[i]
  BY <1>1, <1>2 DEF IInv, TypeOK
<1>4. nodes'[1].reg = <<>>
  BY <1>2, <1>3 DEF IInv, HasNode, Depth
<1>5. HasNode'
  BY <1>1, <1>3, <1>4 DEF HasNode, Depth
<1>6. TypeOK'
  BY <1>1, <1>3 DEF IInv, TypeOK
<1> QED
  BY <1>5, <1>6 DEF IInv

(* The first token that is no NOP; none of them may be one.                *)
LEMMA SkipNopIsNat ==
  ASSUME blob \in Seq(Nat)
  PROVE  SkipNop(1) \in Nat
<1> DEFINE L == Len(blob)
           After(q) == /\ q \in DOMAIN blob => blob[q] # FDT_NOP
                       /\ \A r \in 1 .. q - 1 : blob[r] = FDT_NOP
           A == {k \in Nat : k <= L => \A r \in 1 .. k : blob[r] = FDT_NOP}
<1>1. L \in Nat /\ DOMAIN blob = 1 .. L
  OBVIOUS
<1>2. \E q \in 1 .. L + 1 : After(q)
  <2> SUFFICES ASSUME \A q \in 1 .. L + 1 : ~After(q) PROVE FALSE
    OBVIOUS
  <2>1. 0 \in A
    OBVIOUS
  <2>2. ASSUME NEW k \in A PROVE k + 1 \in A
    <3> SUFFICES ASSUME k + 1 <= L
                 PROVE  \A r \in 1 .. k + 1 : blob[r] = FDT_NOP
      OBVIOUS
    <3>1. \A r \in 1 .. k : blob[r] = FDT_NOP
      BY <1>1
    <3>2. k + 1 \in 1 .. L + 1 /\ (k + 1) - 1 = k
      BY <1>1
    <3>3. blob[k + 1] = FDT_NOP
      BY <3>1, <3>2
    <3> QED
      BY <3>1, <3>3
  <2>3. L \in A
    BY <1>1, <2>1, <2>2, Induction
  <2>4. After(L + 1)
    BY <1>1, <2>3
  <2> QED
    BY <1>1, <2>4
<1>3. SkipNop(1) \in 1 .. L + 1
  BY <1>2 DEF SkipNop
<1> QED
  BY <1>1, <1>3

LEMMA FindNodeInv ==
  ASSUME IInv, FindNode PROVE IInv'
<1>1. CASE Enter(SkipNop(1))
  BY <1>1, SkipNopIsNat, EnterInv DEF IInv, TypeOK, FindNode
<1>2. CASE Return("err") /\ UNCHANGED <<pointer, nodes>>
  BY <1>2 DEF FindNode, Return, IInv, TypeOK, HasNode, Depth
<1> QED
  BY <1>1, <1>2 DEF FindNode

(* parse_prop: a node stays a node, and the root gets no reg.              *)
LEMMA PropInv ==
  ASSUME IInv, Prop PROVE IInv'
<1> DEFINE len   == Word(pointer + 1)
           name  == Name(Word(pointer + 2))
           value == pointer + 3
<1>1. /\ pc = "props" /\ Depth > 0 /\ Node \in Nodes /\ Depth \in DOMAIN nodes
      /\ Depth \in Nat
      /\ UNCHANGED <<blob, query, remain, calls, broke>>
  BY Here DEF Prop, IInv, HasNode
<1>2. len \in Nat /\ value \in Nat /\ Word(value) \in Nat
  BY WordIsNat DEF IInv, TypeOK
<1>3. CASE Return("err") /\ UNCHANGED <<pointer, nodes>>
  BY <1>1, <1>3 DEF Return, IInv, TypeOK, HasNode, Depth
<1>4. CASE /\ name = "reg" => ~IsRoot
           /\ nodes' = [nodes EXCEPT ![Depth] = Parsed(name, value, len)]
           /\ pointer' = value + Padded(len)
           /\ UNCHANGED <<pc, result>>
  <2>1. Parsed(name, value, len) \in Nodes
        /\ (name # "reg" => Parsed(name, value, len).reg = Node.reg)
    BY <1>1, <1>2, Zenon DEF Parsed, Nodes
  <2>2. /\ nodes' \in Seq(Nodes) /\ Len(nodes') = Len(nodes)
        /\ \A i \in 1 .. Len(nodes) :
             nodes'[i] = IF i = Depth THEN Parsed(name, value, len) ELSE nodes[i]
    BY <1>1, <1>4, <2>1 DEF IInv, TypeOK
  <2>3. nodes'[1].reg = <<>>
    BY <1>1, <1>4, <2>1, <2>2 DEF IInv, HasNode, Depth, IsRoot, Node
  <2>4. Padded(len) \in Nat
    BY <1>2 DEF Padded, U32
  <2>5. TypeOK'
    <3>1. pointer' \in Nat
      BY <1>2, <1>4, <2>4
    <3> QED
      BY <1>1, <1>4, <2>2, <3>1 DEF IInv, TypeOK
  <2>6. HasNode'
    BY <1>1, <1>4, <2>2, <2>3 DEF HasNode, Depth
  <2> QED
    BY <1>1, <2>5, <2>6 DEF IInv
<1> QED
  BY <1>3, <1>4 DEF Prop

(* The entry of reg that is next is read by the parent's cells, and there  *)
(* is a parent.                                                            *)
LEMMA EntryIsResult ==
  ASSUME IInv, pc = "deliver", remain > 0
  PROVE  NextEntry \in Results /\ RegSize \in Usizes /\ EntrySize \in Nat
<1>1. /\ Depth > 0 /\ Node \in Nodes /\ Node.reg # <<>> /\ Depth \in Nat
      /\ nodes \in Seq(Nodes) /\ blob \in Seq(Nat) /\ remain \in Nat
      /\ remain <= Node.reg[2]
  BY Here DEF IInv, HasNode, TypeOK
<1>2. Depth > 1
  BY <1>1 DEF IInv, HasNode, Node
<1>3. Parent \in Nodes
  BY <1>1, <1>2 DEF Parent, Depth
<1>4. Parent.address_cells \in Nat /\ Parent.size_cells \in Nat
      /\ Node.reg \in Nat \X Nat
  BY <1>1, <1>3 DEF Nodes
<1>5. EntrySize \in Nat
  BY <1>4 DEF EntrySize, U32
<1>6. RegAt \in Nat
  <2>1. Node.reg[1] \in Nat /\ Node.reg[2] - remain \in Nat
    BY <1>1, <1>4
  <2>2. (Node.reg[2] - remain) \div 4 \in Nat
    BY <2>1
  <2> QED
    BY <2>1, <2>2 DEF RegAt, U32
<1>7. \A p \in Nat : \A k \in Nat : Number(p, k) \in Usizes
  BY <1>1, NumberIsUsize DEF Usizes
<1>8. RegSize \in Usizes
  <2>1. RegAt + Parent.address_cells \in Nat
    BY <1>4, <1>6
  <2> QED
    BY <1>4, <1>7, <2>1 DEF RegSize
<1>9. Number(RegAt, Parent.address_cells) \in Usizes
  BY <1>4, <1>6, <1>7
<1>10. NextEntry = Fails("err")
       \/ NextEntry = Translated(Number(RegAt, Parent.address_cells), RegSize)
  BY DEF NextEntry
<1>11. NextEntry \in Results
  BY <1>1, <1>8, <1>9, <1>10, TranslatedIsResult DEF Results
<1> QED
  BY <1>5, <1>8, <1>11

(* A delivery.                                                             *)
LEMMA DeliverInv ==
  ASSUME IInv, Deliver PROVE IInv'
<1>1. /\ pc = "deliver" /\ remain > 0 /\ remain >= EntrySize
      /\ NextEntry.is = "ok"
      /\ calls' = Append(calls, <<NextEntry.address, RegSize>>)
      /\ remain' = remain - EntrySize
      /\ UNCHANGED <<blob, query, pointer, nodes>>
      /\ \/ UNCHANGED <<pc, result, broke>>
         \/ broke' = TRUE /\ pc' = "done" /\ result' \in {"ok", "err"}
  BY DEF Deliver, Return
<1>2. RegSize \in Usizes /\ NextEntry.address \in Usizes /\ EntrySize \in Nat
  BY <1>1, EntryIsResult, OkResults
<1>3. /\ Depth > 0 /\ Node.reg # <<>> /\ remain <= Node.reg[2]
      /\ Node.reg[2] \in Nat /\ remain \in Nat
  BY <1>1, Here DEF IInv, HasNode, TypeOK, Nodes
<1>4. calls' \in Seq(Nat \X Nat)
  <2>1. Usizes \subseteq Nat
    BY Usize DEF Usizes
  <2>2. <<NextEntry.address, RegSize>> \in Usizes \X Usizes
    BY <1>2
  <2>3. <<NextEntry.address, RegSize>> \in Nat \X Nat
    BY <2>1, <2>2
  <2> QED
    BY <1>1, <2>2, <2>3 DEF IInv, TypeOK
<1>5. remain' \in Nat /\ remain' <= remain
  BY <1>1, <1>2, <1>3
<1>6. TypeOK'
  BY <1>1, <1>4, <1>5 DEF IInv, TypeOK
<1>7. HasNode'
  <2>1. remain' > 0 => Node.reg # <<>> /\ remain' <= Node.reg[2]
    BY <1>3, <1>5
  <2>2. Node' = Node /\ Depth' = Depth
    BY <1>1 DEF Node, Depth
  <2> QED
    BY <1>1, <1>3, <2>1, <2>2 DEF IInv, HasNode
<1> QED
  BY <1>4, <1>6, <1>7 DEF IInv

(* The end of a node takes its entry from the stack.                       *)
LEMMA EndNodeInv ==
  ASSUME IInv, EndNode PROVE IInv'
<1>1. /\ pc = "children" /\ Depth > 0 /\ Depth \in Nat
      /\ nodes \in Seq(Nodes) /\ pointer \in Nat
      /\ pointer' = pointer + 1
      /\ nodes' = SubSeq(nodes, 1, Depth - 1)
      /\ pc' = IF IsRoot THEN "end" ELSE "children"
      /\ UNCHANGED <<blob, query, remain, calls, broke, result>>
  BY DEF EndNode, IInv, HasNode, TypeOK, Depth
<1>2. /\ nodes' \in Seq(Nodes) /\ Len(nodes') = Depth - 1
      /\ \A i \in 1 .. Depth - 1 : nodes'[i] = nodes[i]
  <2> DEFINE n == Depth - 1
             s == SubSeq(nodes, 1, n)
  <2>1. /\ 1 \in Int /\ n \in Int /\ n >= 0
        /\ \A i \in 1 .. n : nodes[i] \in Nodes
    BY <1>1 DEF Depth
  <2> HIDE DEF n
  <2>2. /\ s \in Seq(Nodes)
        /\ Len(s) = IF 1 <= n THEN n - 1 + 1 ELSE 0
        /\ \A i \in 1 .. n - 1 + 1 : s[i] = nodes[1 + i - 1]
    BY <2>1, SubSeqProperties
  <2> HIDE DEF s
  <2>3. /\ Len(s) = n /\ \A i \in 1 .. n : 1 + i - 1 = i
        /\ n - 1 + 1 = n
    BY <2>1, <2>2
  <2>4. \A i \in 1 .. n : s[i] = nodes[i]
    BY <2>2, <2>3
  <2> QED
    BY <1>1, <2>2, <2>3, <2>4 DEF n, s
<1>3. TypeOK'
  BY <1>1, <1>2 DEF IInv, TypeOK
<1>4. HasNode'
  BY <1>1, <1>2 DEF IInv, HasNode, Depth, IsRoot
<1> QED
  BY <1>1, <1>3, <1>4 DEF IInv

(* The other steps leave the stack as it is.                               *)
LEMMA OtherInv ==
  ASSUME IInv,
         \/ Nop \/ PropsEnd \/ DeliverFails \/ DeliverEnd \/ BadToken \/ Finish
         \/ UNCHANGED vars
  PROVE  IInv'
<1>1. /\ UNCHANGED <<blob, query, nodes, calls, broke>>
      /\ Node' = Node /\ Depth' = Depth
  BY DEF Nop, PropsEnd, DeliverFails, DeliverEnd, BadToken, Finish, vars, Node,
         Depth
<1>2. CASE Nop \/ DeliverEnd \/ UNCHANGED vars
  <2>1. /\ pointer' \in {pointer, pointer + 1} /\ UNCHANGED <<remain, result>>
        /\ pc' = pc \/ (pc = "deliver" /\ pc' = "children")
    BY <1>2 DEF Nop, DeliverEnd, vars
  <2> QED
    BY <1>1, <2>1 DEF IInv, TypeOK, HasNode
<1>3. CASE DeliverFails \/ BadToken \/ Finish
  <2>1. /\ pc' = "done" /\ UNCHANGED <<pointer, remain>>
    BY <1>3 DEF DeliverFails, BadToken, Finish, Return
  <2>2. result' \in {"ok", "err", "panic"}
    <3>1. CASE DeliverFails
      <4>1. remain > 0 /\ NextEntry.is # "ok" => NextEntry.is \in {"err", "panic"}
        BY <3>1, EntryIsResult, OkResults DEF DeliverFails
      <4> QED
        BY <3>1, <4>1 DEF DeliverFails, Return
    <3> QED
      BY <1>3, <3>1 DEF BadToken, Finish, Return
  <2> QED
    BY <1>1, <2>1, <2>2 DEF IInv, TypeOK, HasNode
<1>4. CASE PropsEnd
  <2>1. /\ Depth > 0 /\ Node \in Nodes /\ pc = "props"
        /\ UNCHANGED <<pointer, result>>
        /\ \/ /\ pc' = "deliver"
              /\ remain' = IF Node.reg = <<>> THEN 0 ELSE Node.reg[2]
           \/ pc' = "children" /\ remain' = remain
    BY <1>4, Here DEF PropsEnd, IInv, HasNode
  <2>2. Node.reg # <<>> => Node.reg[2] \in Nat
    BY <2>1 DEF Nodes
  <2> QED
    BY <1>1, <2>1, <2>2 DEF IInv, TypeOK, HasNode
<1> QED
  BY <1>2, <1>3, <1>4

LEMMA StepInv == IInv /\ [Next]_vars => IInv'
<1>1. ASSUME IInv, Child PROVE IInv'
  BY <1>1, EnterInv DEF Child, IInv, TypeOK
<1> QED
  BY <1>1, FindNodeInv, PropInv, DeliverInv, EndNodeInv, OtherInv DEF Next

(* In every blob the search stays in its types: in particular no node is   *)
(* taken from an empty stack and remain never goes below zero.             *)
THEOREM TypeCorrect == Spec => []TypeOK
<1>1. IInv => TypeOK
  BY DEF IInv
<1> QED
  BY <1>1, InitInv, StepInv, PTL DEF Spec

-----------------------------------------------------------------------------
(* FlattenSeq: the elements before piece k, and where those of a piece are. *)
Before(s, k) == Len(FlattenSeq(SubSeq(s, 1, k - 1)))

(* The first k pieces put together, for every k.                           *)
Joins(f, s) ==
  f[0] = <<>> /\ \A k \in 1 .. Len(s) : f[k] = f[k - 1] \o s[k]

(* There are such beginnings.                                              *)
LEMMA JoinExists ==
  ASSUME NEW T, NEW s \in Seq(Seq(T))
  PROVE  \E f \in [0 .. Len(s) -> Seq(T)] : Joins(f, s)
<1> DEFINE S == Seq(T)
           iter == [i \in Nat |-> [x \in S |->
                      IF i \in 1 .. Len(s) THEN x \o s[i] ELSE x]]
<1>1. Len(s) \in Nat /\ \A i \in 1 .. Len(s) : s[i] \in S
  OBVIOUS
<1>2. \A x \in S : \A i \in 1 .. Len(s) : x \o s[i] \in S
  BY <1>1
<1>3. <<>> \in S
  OBVIOUS
<1> HIDE DEF S
<1>4. iter \in [Nat -> [S -> S]]
  BY <1>2
<1>5. ASSUME NEW i \in 1 .. Len(s), NEW x \in S PROVE iter[i][x] = x \o s[i]
  <2>1. i \in Nat
    BY <1>1
  <2> QED
    BY <2>1
<1> HIDE DEF iter
<1>6. PICK g \in [0 .. Len(s) -> S] :
        g[0] = <<>> /\ \A i \in 1 .. Len(s) : g[i] = iter[i][g[i - 1]]
  <2>1. Runs(S, <<>>, iter, Len(s)) # {}
    BY <1>1, <1>3, <1>4, Recursion
  <2> QED
    BY <2>1 DEF Runs
<1>7. ASSUME NEW i \in 1 .. Len(s) PROVE g[i - 1] \in S
  <2>1. i - 1 \in 0 .. Len(s)
    BY <1>1
  <2> QED
    BY <1>6, <2>1
<1>8. \A i \in 1 .. Len(s) : g[i] = g[i - 1] \o s[i]
  BY <1>5, <1>6, <1>7
<1> QED
  BY <1>6, <1>8 DEF Joins, S

(* FlattenSeq, a recursion over a set of beginnings, is the last of them.  *)
LEMMA FlattenIsJoin ==
  ASSUME NEW T, NEW s \in Seq(Seq(T)),
         NEW f \in [0 .. Len(s) -> Seq(T)], Joins(f, s)
  PROVE  FlattenSeq(s) = f[Len(s)]
<1> DEFINE n == Len(s)
           Flat(g) == g = [i \in 1 .. n |->
                             IF i = 1 THEN s[i] ELSE g[i - 1] \o s[i]]
           g == CHOOSE h : Flat(h)
           r == [i \in 1 .. n |-> f[i]]
<1>1. n \in Nat
  OBVIOUS
<1>2. CASE n = 0
  <2>1. s = <<>>
    BY <1>2
  <2> QED
    BY <1>2, <2>1 DEF FlattenSeq, Joins
<1>3. CASE n # 0
  <2>1. ASSUME NEW i \in 1 .. n
        PROVE  r[i] = IF i = 1 THEN s[i] ELSE r[i - 1] \o s[i]
    <3>1. f[i] = f[i - 1] \o s[i]
      BY DEF Joins
    <3>2. CASE i = 1
      <4>1. f[0] \o s[1] = s[1]
        <5>1. s[1] \in Seq(T)
          BY <3>2
        <5> QED
          BY <5>1, ConcatEmptySeq DEF Joins
      <4>2. i - 1 = 0
        BY <3>2
      <4> QED
        BY <3>1, <3>2, <4>1, <4>2
    <3>3. CASE i # 1
      <4>1. i - 1 \in 1 .. n
        BY <3>3
      <4> QED
        BY <3>1, <3>3, <4>1
    <3> QED
      BY <3>2, <3>3
  <2>2. Flat(r)
    BY <2>1
  <2>3. Flat(g)
    BY <2>2, Zenon
  <2> HIDE DEF g
  <2>4. \A i \in 1 .. n : g[i] = IF i = 1 THEN s[i] ELSE g[i - 1] \o s[i]
    BY <2>3, Zenon
  <2> DEFINE A == {k \in Nat : k + 1 <= n => g[k + 1] = f[k + 1]}
  <2>5. 0 \in A
    <3>1. g[1] = s[1] /\ r[1] = s[1] /\ r[1] = f[1]
      BY <1>1, <1>3, <2>1, <2>4
    <3> QED
      BY <3>1
  <2>6. ASSUME NEW k \in A PROVE k + 1 \in A
    <3> SUFFICES ASSUME k + 2 <= n PROVE g[k + 2] = f[k + 2]
      OBVIOUS
    <3>1. k + 2 \in 1 .. n /\ k + 2 # 1 /\ (k + 2) - 1 = k + 1 /\ k + 1 \in 1 .. n
      BY <1>1
    <3>2. g[k + 2] = g[k + 1] \o s[k + 2]
      BY <2>4, <3>1
    <3>3. r[k + 2] = r[k + 1] \o s[k + 2] /\ r[k + 1] = f[k + 1]
          /\ r[k + 2] = f[k + 2]
      BY <2>1, <3>1
    <3>4. g[k + 1] = f[k + 1]
      BY <3>1
    <3> QED
      BY <3>2, <3>3, <3>4
  <2>7. n - 1 \in A
    <3>1. A = Nat
      BY <2>5, <2>6, Induction
    <3>2. n - 1 \in Nat
      BY <1>1, <1>3
    <3> QED
      BY <3>1, <3>2
  <2>8. g[n] = f[n]
    BY <1>1, <1>3, <2>7
  <2>9. FlattenSeq(s) = g[n]
    BY <1>3 DEF FlattenSeq, g
  <2> QED
    BY <2>8, <2>9
<1> QED
  BY <1>2, <1>3

(* The first k elements.                                                   *)
LEMMA Beginning ==
  ASSUME NEW S, NEW s \in Seq(S), NEW k \in 0 .. Len(s)
  PROVE  /\ SubSeq(s, 1, k) \in Seq(S) /\ Len(SubSeq(s, 1, k)) = k
         /\ \A i \in 1 .. k : SubSeq(s, 1, k)[i] = s[i]
<1>1. 1 \in Int /\ k \in Int /\ k >= 0 /\ Len(s) \in Nat
      /\ \A i \in 1 .. k : s[i] \in S
  OBVIOUS
<1> DEFINE u == SubSeq(s, 1, k)
<1>2. /\ u \in Seq(S) /\ Len(u) = IF 1 <= k THEN k - 1 + 1 ELSE 0
      /\ \A i \in 1 .. k - 1 + 1 : u[i] = s[1 + i - 1]
  BY <1>1, SubSeqProperties
<1> HIDE DEF u
<1>3. k - 1 + 1 = k /\ \A i \in 1 .. k : 1 + i - 1 = i
  BY <1>1
<1>4. u \in Seq(S) /\ Len(u) = k
  BY <1>1, <1>2
<1>5. \A i \in 1 .. k : u[i] = s[i]
  BY <1>2, <1>3
<1> QED
  BY <1>4, <1>5 DEF u

(* One more piece.                                                         *)
LEMMA FrontJoined ==
  ASSUME NEW T, NEW s \in Seq(Seq(T))
  PROVE  \E f \in [0 .. Len(s) -> Seq(T)] :
           Joins(f, s) /\ \A k \in 0 .. Len(s) : FlattenSeq(SubSeq(s, 1, k)) = f[k]
<1>1. PICK f \in [0 .. Len(s) -> Seq(T)] : Joins(f, s)
  BY JoinExists
<1>2. ASSUME NEW k \in 0 .. Len(s) PROVE FlattenSeq(SubSeq(s, 1, k)) = f[k]
  <2> DEFINE u == SubSeq(s, 1, k)
             g == [i \in 0 .. k |-> f[i]]
  <2>1. /\ u \in Seq(Seq(T)) /\ Len(u) = k
        /\ \A i \in 1 .. k : u[i] = s[i]
    BY Beginning
  <2>2. \A i \in 0 .. k : i \in 0 .. Len(s)
    OBVIOUS
  <2>3. g \in [0 .. k -> Seq(T)]
    BY <2>2
  <2>4. \A i \in 1 .. k : i \in 1 .. Len(s) /\ i - 1 \in 0 .. k /\ i \in 0 .. k
    OBVIOUS
  <2>5. 0 \in 0 .. k
    OBVIOUS
  <2>6. \A i \in 1 .. k : g[i] = f[i] /\ g[i - 1] = f[i - 1]
    BY <2>4
  <2>7. g[0] = f[0]
    BY <2>5
  <2>8. g[k] = f[k]
    OBVIOUS
  <2> HIDE DEF u, g
  <2>9. Joins(g, u)
    BY <1>1, <2>1, <2>4, <2>6, <2>7 DEF Joins
  <2>10. FlattenSeq(u) = g[Len(u)]
    BY <2>1, <2>3, <2>9, FlattenIsJoin
  <2> QED
    BY <2>1, <2>8, <2>10 DEF u
<1> QED
  BY <1>1, <1>2

(* ... and so, of any number of pieces.                                    *)
LEMMA NextPiece ==
  ASSUME NEW T, NEW s \in Seq(Seq(T))
  PROVE  /\ \A k \in 0 .. Len(s) : FlattenSeq(SubSeq(s, 1, k)) \in Seq(T)
         /\ FlattenSeq(SubSeq(s, 1, 0)) = <<>>
         /\ \A k \in 1 .. Len(s) : FlattenSeq(SubSeq(s, 1, k))
                                   = FlattenSeq(SubSeq(s, 1, k - 1)) \o s[k]
         /\ SubSeq(s, 1, Len(s)) = s
<1>1. PICK f \in [0 .. Len(s) -> Seq(T)] :
           Joins(f, s) /\ \A k \in 0 .. Len(s) : FlattenSeq(SubSeq(s, 1, k)) = f[k]
  BY FrontJoined
<1>2. \A k \in 1 .. Len(s) : k \in 0 .. Len(s) /\ k - 1 \in 0 .. Len(s)
  OBVIOUS
<1>3. Len(s) \in Nat
  OBVIOUS
<1>4. 0 \in 0 .. Len(s)
  BY <1>3
<1>5. \A k \in 0 .. Len(s) : FlattenSeq(SubSeq(s, 1, k)) \in Seq(T)
  BY <1>1
<1>6. FlattenSeq(SubSeq(s, 1, 0)) = <<>>
  BY <1>1, <1>4 DEF Joins
<1>7. ASSUME NEW k \in 1 .. Len(s)
      PROVE  FlattenSeq(SubSeq(s, 1, k)) = FlattenSeq(SubSeq(s, 1, k - 1)) \o s[k]
  <2>1. f[k] = f[k - 1] \o s[k]
    BY <1>1 DEF Joins
  <2> QED
    BY <1>1, <1>2, <2>1
<1> QED
  BY <1>5, <1>6, <1>7, SubSeqFull

(* What FlattenSeq is: piece after piece, each where the ones before it    *)
(* end.                                                                    *)
LEMMA Pieces ==
  ASSUME NEW T, NEW s \in Seq(Seq(T))
  PROVE  /\ FlattenSeq(s) \in Seq(T)
         /\ Before(s, 1) = 0 /\ Before(s, Len(s) + 1) = Len(FlattenSeq(s))
         /\ \A k \in 1 .. Len(s) + 1 : Before(s, k) \in Nat
         /\ \A k \in 1 .. Len(s) :
              /\ Before(s, k + 1) = Before(s, k) + Len(s[k])
              /\ Before(s, k + 1) <= Len(FlattenSeq(s))
              /\ \A q \in 1 .. Len(s[k]) :
                   FlattenSeq(s)[Before(s, k) + q] = s[k][q]
<1> DEFINE n == Len(s)
           Flat(k) == FlattenSeq(SubSeq(s, 1, k))
<1>1. n \in Nat /\ \A k \in 1 .. n : s[k] \in Seq(T)
  OBVIOUS
<1>2. /\ \A k \in 0 .. n : Flat(k) \in Seq(T)
      /\ Flat(0) = <<>> /\ Flat(n) = FlattenSeq(s)
      /\ \A k \in 1 .. n : Flat(k) = Flat(k - 1) \o s[k]
  <2>1. SubSeq(s, 1, n) = s
    BY SubSeqFull
  <2> QED
    BY <2>1, NextPiece
<1>3. \A k : Before(s, k) = Len(Flat(k - 1))
  BY DEF Before
<1> HIDE DEF Flat
<1>4. ASSUME NEW k \in 1 .. n
      PROVE  /\ Len(Flat(k)) = Len(Flat(k - 1)) + Len(s[k])
             /\ \A q \in 1 .. Len(Flat(k - 1)) : Flat(k)[q] = Flat(k - 1)[q]
             /\ \A q \in 1 .. Len(s[k]) : Flat(k)[Len(Flat(k - 1)) + q] = s[k][q]
             /\ Len(Flat(k - 1)) \in Nat /\ Len(s[k]) \in Nat
  <2>1. k - 1 \in 0 .. n
    BY <1>1
  <2>2. PICK u, v \in Seq(T) : u = Flat(k - 1) /\ v = s[k] /\ Flat(k) = u \o v
    BY <1>1, <1>2, <2>1
  <2>3. /\ Len(u \o v) = Len(u) + Len(v) /\ Len(u) \in Nat /\ Len(v) \in Nat
        /\ \A q \in 1 .. Len(u) : (u \o v)[q] = u[q]
        /\ \A q \in 1 .. Len(v) : (u \o v)[Len(u) + q] = v[q]
    OBVIOUS
  <2> QED
    BY <2>2, <2>3
<1> DEFINE A == {k \in Nat : k <= n =>
                   \A j \in 0 .. k : /\ Len(Flat(j)) <= Len(Flat(k))
                                     /\ \A q \in 1 .. Len(Flat(j)) : Flat(k)[q] = Flat(j)[q]}
<1>5. 0 \in A
  <2>1. \A j \in 0 .. 0 : j = 0
    OBVIOUS
  <2>2. Len(Flat(0)) \in Nat
    BY <1>1, <1>2
  <2>3. Len(Flat(0)) <= Len(Flat(0))
    BY <2>2
  <2> QED
    BY <2>1, <2>3
<1>6. ASSUME NEW k \in A PROVE k + 1 \in A
  <2> SUFFICES ASSUME k + 1 <= n, NEW j \in 0 .. k + 1
               PROVE  /\ Len(Flat(j)) <= Len(Flat(k + 1))
                      /\ \A q \in 1 .. Len(Flat(j)) : Flat(k + 1)[q] = Flat(j)[q]
    OBVIOUS
  <2>1. k + 1 \in 1 .. n /\ (k + 1) - 1 = k /\ k + 1 \in 0 .. n /\ k \in 0 .. n
        /\ j \in 0 .. n /\ k <= n
    BY <1>1
  <2>2. CASE j = k + 1
    <3>1. Len(Flat(k + 1)) \in Nat
      BY <1>2, <2>1
    <3> QED
      BY <2>2, <3>1
  <2>3. CASE j # k + 1
    <3>1. j \in 0 .. k
      BY <2>3
    <3>2. /\ Len(Flat(j)) <= Len(Flat(k))
          /\ \A q \in 1 .. Len(Flat(j)) : Flat(k)[q] = Flat(j)[q]
      BY <2>1, <3>1
    <3> HIDE DEF A
    <3>3. Len(Flat(j)) \in Nat
      BY <1>2, <2>1
    <3>4. /\ Len(Flat(k + 1)) = Len(Flat(k)) + Len(s[k + 1])
          /\ \A q \in 1 .. Len(Flat(k)) : Flat(k + 1)[q] = Flat(k)[q]
          /\ Len(Flat(k)) \in Nat /\ Len(s[k + 1]) \in Nat
      BY <1>4, <2>1
    <3>5. \A q \in 1 .. Len(Flat(j)) : q \in 1 .. Len(Flat(k))
      <4>1. Len(Flat(j)) <= Len(Flat(k)) /\ Len(Flat(j)) \in Nat /\ Len(Flat(k)) \in Nat
        BY <3>2, <3>3, <3>4
      <4> HIDE DEF Flat
      <4> QED
        BY <4>1
    <3> QED
      BY <3>2, <3>3, <3>4, <3>5
  <2> QED
    BY <2>2, <2>3
<1>7. n \in A
  BY <1>1, <1>5, <1>6, Induction
<1>8. ASSUME NEW k \in 1 .. n
      PROVE  /\ Len(Flat(k)) <= Len(Flat(n))
             /\ \A q \in 1 .. Len(s[k]) : Flat(n)[Len(Flat(k - 1)) + q] = s[k][q]
  <2>1. /\ Len(Flat(k)) <= Len(Flat(n))
        /\ \A q \in 1 .. Len(Flat(k)) : Flat(n)[q] = Flat(k)[q]
    <3>1. k \in 0 .. n
      BY <1>1
    <3> QED
      BY <1>1, <1>7, <3>1
  <2>2. ASSUME NEW q \in 1 .. Len(s[k])
        PROVE  Len(Flat(k - 1)) + q \in 1 .. Len(Flat(k))
    <3>1. /\ Len(Flat(k)) = Len(Flat(k - 1)) + Len(s[k])
          /\ Len(Flat(k - 1)) \in Nat /\ Len(s[k]) \in Nat
      BY <1>4
    <3> QED
      BY <3>1
  <2> QED
    BY <1>4, <2>1, <2>2
<1>9. Before(s, 1) = 0
  <2>1. 1 - 1 = 0
    OBVIOUS
  <2> QED
    BY <1>2, <1>3, <2>1
<1>10. Before(s, n + 1) = Len(FlattenSeq(s))
  <2>1. (n + 1) - 1 = n
    BY <1>1
  <2> QED
    BY <1>2, <1>3, <2>1
<1>11. ASSUME NEW k \in 1 .. n + 1 PROVE Before(s, k) \in Nat
  <2>1. k - 1 \in 0 .. n
    BY <1>1
  <2> QED
    BY <1>2, <1>3, <2>1
<1>12. \A k \in 1 .. n : (k + 1) - 1 = k
  BY <1>1
<1>13. FlattenSeq(s) \in Seq(T) /\ Flat(n) = FlattenSeq(s)
  <2>1. n \in 0 .. n
    BY <1>1
  <2> QED
    BY <1>2, <2>1
<1>14. ASSUME NEW k \in 1 .. n
       PROVE  /\ Before(s, k + 1) = Before(s, k) + Len(s[k])
              /\ Before(s, k + 1) <= Len(FlattenSeq(s))
              /\ \A q \in 1 .. Len(s[k]) : FlattenSeq(s)[Before(s, k) + q] = s[k][q]
  <2>1. Before(s, k + 1) = Len(Flat(k)) /\ Before(s, k) = Len(Flat(k - 1))
    BY <1>3, <1>12
  <2> QED
    BY <1>4, <1>8, <1>13, <2>1
<1> QED
  BY <1>9, <1>10, <1>11, <1>13, <1>14

-----------------------------------------------------------------------------
(* The nodes on the way from the root to a node.                           *)
LEMMA TreeFacts ==
  ASSUME IsTree
  PROVE  /\ Len(Tree) \in Nat \ {0} /\ Ids = 1 .. Len(Tree) /\ 1 \in Ids
         /\ \A i \in Ids : Tree[i] \in TreeNode /\ Tree[i].depth \in Nat
         /\ Tree[1].depth = 0
         /\ \A i \in Ids : i + 1 \in Ids =>
              Tree[i + 1].depth >= 1 /\ Tree[i + 1].depth <= Tree[i].depth + 1
<1>1. /\ Tree \in Seq(TreeNode) /\ Tree # <<>>
      /\ \A i \in Ids : Tree[i].depth \in
           IF i = 1 THEN {0} ELSE 1 .. Tree[i - 1].depth + 1
  BY DEF IsTree
<1>2. Len(Tree) \in Nat \ {0} /\ Ids = 1 .. Len(Tree) /\ 1 \in Ids
  BY <1>1 DEF Ids
<1>3. ASSUME NEW i \in Ids PROVE Tree[i] \in TreeNode /\ Tree[i].depth \in Nat
  <2>1. Tree[i] \in TreeNode
    BY <1>1, <1>2
  <2> QED
    BY <2>1 DEF TreeNode
<1>4. Tree[1].depth = 0
  BY <1>1, <1>2
<1>5. ASSUME NEW i \in Ids, i + 1 \in Ids
      PROVE  Tree[i + 1].depth >= 1 /\ Tree[i + 1].depth <= Tree[i].depth + 1
  <2>1. i + 1 # 1 /\ (i + 1) - 1 = i
    BY <1>2
  <2>2. Tree[i + 1].depth \in 1 .. Tree[i].depth + 1
    BY <1>1, <1>5, <2>1
  <2> QED
    BY <1>3, <2>2
<1> QED
  BY <1>2, <1>3, <1>4, <1>5

(* A node and its ancestors, and the one of them at position d.            *)
Line(i)      == Ancestors(i) \cup {i}
OnLine(i, d) == CHOOSE j \in Line(i) : Tree[j].depth = d - 1

(* They are the nodes that no later one, up to i, is as high as.           *)
LEMMA LineIs ==
  ASSUME IsTree, NEW i \in Ids
  PROVE  /\ Line(i) = {j \in 1 .. i : \A k \in j + 1 .. i : Tree[k].depth > Tree[j].depth}
         /\ Line(i) \subseteq 1 .. i /\ Line(i) \subseteq Ids
         /\ \A j, k \in Line(i) : j < k => Tree[j].depth < Tree[k].depth
<1>1. i \in Nat /\ i >= 1 /\ i <= Len(Tree) /\ Len(Tree) \in Nat
      /\ Ids = 1 .. Len(Tree)
  BY TreeFacts
<1>2. Line(i) = {j \in 1 .. i : \A k \in j + 1 .. i : Tree[k].depth > Tree[j].depth}
  BY <1>1 DEF Line, Ancestors
<1>3. Line(i) \subseteq 1 .. i /\ Line(i) \subseteq Ids
  BY <1>1, <1>2
<1>4. ASSUME NEW j \in Line(i), NEW k \in Line(i), j < k
      PROVE  Tree[j].depth < Tree[k].depth
  <2>1. k \in j + 1 .. i /\ j \in Ids /\ k \in Ids
    BY <1>1, <1>3, <1>4
  <2>2. Tree[k].depth > Tree[j].depth
    BY <1>2, <2>1
  <2> QED
    BY <2>1, <2>2, TreeFacts
<1> QED
  BY <1>2, <1>3, <1>4

(* The ancestors of the next node are those of its depth's upper part.     *)
LEMMA NextAncestors ==
  ASSUME IsTree, NEW i \in Ids, i + 1 \in Ids
  PROVE  Ancestors(i + 1) = {j \in Line(i) : Tree[j].depth < Tree[i + 1].depth}
<1>1. i \in Nat /\ i >= 1 /\ \A j \in Ids : Tree[j].depth \in Nat
      /\ \A k \in 1 .. i : k \in Ids
  BY TreeFacts
<1>2. ASSUME NEW j \in 1 .. i
      PROVE  (\A k \in j + 1 .. i + 1 : Tree[k].depth > Tree[j].depth)
             <=> /\ \A k \in j + 1 .. i : Tree[k].depth > Tree[j].depth
                 /\ Tree[j].depth < Tree[i + 1].depth
  <2>1. \A k : k \in j + 1 .. i + 1 <=> k \in j + 1 .. i \/ k = i + 1
    BY <1>1
  <2>2. Tree[i + 1].depth > Tree[j].depth <=> Tree[j].depth < Tree[i + 1].depth
    BY <1>1
  <2> QED
    BY <2>1, <2>2
<1>3. Ancestors(i + 1) = {j \in 1 .. i : \A k \in j + 1 .. i + 1 :
                            Tree[k].depth > Tree[j].depth}
  <2>1. (i + 1) - 1 = i
    BY <1>1
  <2> QED
    BY <2>1 DEF Ancestors
<1> QED
  BY <1>2, <1>3, LineIs

(* There is one of every depth up to the node's own.                       *)
LEMMA LineIsFull ==
  ASSUME IsTree, NEW i \in Ids, NEW d \in 0 .. Tree[i].depth
  PROVE  \E j \in Line(i) : Tree[j].depth = d
<1> DEFINE A == {n \in Nat : n + 1 \in Ids =>
                   \A e \in 0 .. Tree[n + 1].depth :
                     \E j \in Line(n + 1) : Tree[j].depth = e}
<1>1. \A j \in Ids : j \in Line(j) /\ j \in Nat
  BY TreeFacts DEF Line
<1>2. 0 \in A
  <2>1. ASSUME NEW e \in 0 .. Tree[1].depth PROVE \E j \in Line(1) : Tree[j].depth = e
    BY <1>1, TreeFacts
  <2> QED
    BY <2>1
<1>3. ASSUME NEW n \in A PROVE n + 1 \in A
  <2> SUFFICES ASSUME n + 2 \in Ids, NEW e \in 0 .. Tree[n + 2].depth
               PROVE  \E j \in Line(n + 2) : Tree[j].depth = e
    OBVIOUS
  <2>1. n + 1 \in Ids /\ (n + 1) + 1 = n + 2 /\ Tree[n + 1].depth \in Nat
        /\ Tree[n + 2].depth \in Nat /\ Tree[n + 2].depth <= Tree[n + 1].depth + 1
    <3>1. n + 1 \in Ids /\ (n + 1) + 1 = n + 2
      BY TreeFacts
    <3>2. (n + 1) + 1 \in Ids
      BY <3>1
    <3>3. Tree[(n + 1) + 1].depth <= Tree[n + 1].depth + 1
      BY <3>1, <3>2, TreeFacts
    <3> QED
      BY <3>1, <3>3, TreeFacts
  <2>2. CASE e = Tree[n + 2].depth
    BY <1>1, <2>2
  <2>3. CASE e # Tree[n + 2].depth
    <3>1. e \in 0 .. Tree[n + 1].depth /\ e < Tree[n + 2].depth
      BY <2>1, <2>3
    <3>2. PICK j \in Line(n + 1) : Tree[j].depth = e
      BY <2>1, <3>1
    <3>3. j \in Ancestors(n + 2)
      BY <2>1, <3>1, <3>2, NextAncestors
    <3> QED
      BY <3>2, <3>3 DEF Line
  <2> QED
    BY <2>2, <2>3
<1>4. i - 1 \in A
  <2>1. A = Nat
    BY <1>2, <1>3, Induction
  <2>2. i - 1 \in Nat
    BY TreeFacts
  <2> QED
    BY <2>1, <2>2
<1>5. (i - 1) + 1 = i
  BY TreeFacts
<1> QED
  BY <1>4, <1>5

(* Position and depth determine each other.                                *)
LEMMA OnLineIs ==
  ASSUME IsTree, NEW i \in Ids
  PROVE  /\ \A d \in 1 .. Tree[i].depth + 1 :
              OnLine(i, d) \in Line(i) /\ Tree[OnLine(i, d)].depth = d - 1
         /\ \A j \in Line(i) : /\ Tree[j].depth + 1 \in 1 .. Tree[i].depth + 1
                               /\ OnLine(i, Tree[j].depth + 1) = j
         /\ OnLine(i, Tree[i].depth + 1) = i
         /\ \A d, e \in 1 .. Tree[i].depth + 1 : d < e => OnLine(i, d) < OnLine(i, e)
<1>1. Tree[i].depth \in Nat
  BY TreeFacts
<1>2. /\ Line(i) \subseteq 1 .. i /\ Line(i) \subseteq Ids /\ i \in Line(i) /\ i \in Nat
      /\ \A j, k \in Line(i) : j < k => Tree[j].depth < Tree[k].depth
      /\ \A j \in Line(i) : Tree[j].depth \in Nat /\ j \in Nat
  BY LineIs, TreeFacts DEF Line
<1>3. ASSUME NEW d \in 1 .. Tree[i].depth + 1
      PROVE  OnLine(i, d) \in Line(i) /\ Tree[OnLine(i, d)].depth = d - 1
  <2>1. d - 1 \in 0 .. Tree[i].depth
    BY <1>1
  <2>2. \E j \in Line(i) : Tree[j].depth = d - 1
    BY <2>1, LineIsFull
  <2> QED
    BY <2>2 DEF OnLine
<1>4. ASSUME NEW j \in Line(i), NEW k \in Line(i), Tree[j].depth = Tree[k].depth
      PROVE  j = k
  <2>1. ~(j < k) /\ ~(k < j)
    BY <1>2, <1>4
  <2>2. j \in Nat /\ k \in Nat
    BY <1>2
  <2> QED
    BY <2>1, <2>2
<1>5. ASSUME NEW j \in Line(i)
      PROVE  /\ Tree[j].depth + 1 \in 1 .. Tree[i].depth + 1
             /\ OnLine(i, Tree[j].depth + 1) = j
  <2>1. Tree[j].depth <= Tree[i].depth /\ Tree[j].depth \in Nat
    <3>1. j \in Nat /\ j <= i /\ (j < i => Tree[j].depth < Tree[i].depth)
      BY <1>2
    <3> QED
      BY <1>1, <1>2, <3>1
  <2>2. Tree[j].depth + 1 \in 1 .. Tree[i].depth + 1
        /\ (Tree[j].depth + 1) - 1 = Tree[j].depth
    BY <1>1, <2>1
  <2> QED
    BY <1>3, <1>4, <2>2
<1>6. ASSUME NEW d \in 1 .. Tree[i].depth + 1, NEW e \in 1 .. Tree[i].depth + 1, d < e
      PROVE  OnLine(i, d) < OnLine(i, e)
  <2> DEFINE j == OnLine(i, d)
             k == OnLine(i, e)
  <2>1. /\ j \in Line(i) /\ k \in Line(i) /\ j \in Nat /\ k \in Nat
        /\ Tree[j].depth = d - 1 /\ Tree[k].depth = e - 1
    BY <1>2, <1>3
  <2>2. d - 1 < e - 1 /\ ~(e - 1 < d - 1) /\ d - 1 # e - 1
    BY <1>1, <1>6
  <2>3. ~(k < j) /\ k # j
    BY <1>2, <2>1, <2>2
  <2> QED
    BY <2>1, <2>3
<1> QED
  BY <1>2, <1>3, <1>5, <1>6

(* The next node branches off the line of this one.                        *)
LEMMA NextLine ==
  ASSUME IsTree, NEW i \in Ids, i + 1 \in Ids
  PROVE  \A d \in 1 .. Tree[i + 1].depth :
           d \in 1 .. Tree[i].depth + 1 /\ OnLine(i + 1, d) = OnLine(i, d)
<1> SUFFICES ASSUME NEW d \in 1 .. Tree[i + 1].depth
             PROVE  d \in 1 .. Tree[i].depth + 1 /\ OnLine(i + 1, d) = OnLine(i, d)
  OBVIOUS
<1>1. Tree[i].depth \in Nat /\ Tree[i + 1].depth \in Nat
      /\ Tree[i + 1].depth <= Tree[i].depth + 1
  BY TreeFacts
<1>2. d \in 1 .. Tree[i].depth + 1 /\ d - 1 < Tree[i + 1].depth
      /\ (d - 1) + 1 = d
  BY <1>1
<1>3. OnLine(i, d) \in Line(i) /\ Tree[OnLine(i, d)].depth = d - 1
  BY <1>2, OnLineIs
<1>4. OnLine(i, d) \in Line(i + 1)
  BY <1>2, <1>3, NextAncestors DEF Line
<1>5. OnLine(i + 1, Tree[OnLine(i, d)].depth + 1) = OnLine(i, d)
  BY <1>4, OnLineIs
<1> QED
  BY <1>2, <1>3, <1>5

(* The parent is the one before on the line, for every node of it.         *)
LEMMA LineOfLine ==
  ASSUME IsTree, NEW i \in Ids, NEW j \in Line(i)
  PROVE  Ancestors(j) = {k \in Line(i) : k < j}
<1>1. /\ i \in Nat /\ j \in 1 .. i /\ Line(i) \subseteq 1 .. i /\ Line(i) \subseteq Ids
      /\ \A k \in Ids : Tree[k].depth \in Nat
      /\ \A k \in 1 .. i : k \in Ids
  BY LineIs, TreeFacts
<1>2. ASSUME NEW k \in 1 .. j - 1
      PROVE  (\A m \in k + 1 .. j : Tree[m].depth > Tree[k].depth)
             <=> (\A m \in k + 1 .. i : Tree[m].depth > Tree[k].depth)
  <2>1. ASSUME \A m \in k + 1 .. j : Tree[m].depth > Tree[k].depth,
               NEW m \in k + 1 .. i
        PROVE  Tree[m].depth > Tree[k].depth
    <3>1. CASE m <= j
      BY <1>1, <2>1, <3>1
    <3>2. CASE ~(m <= j)
      <4>1. m \in j + 1 .. i /\ j \in k + 1 .. j /\ m \in 1 .. i /\ k \in 1 .. i
        BY <1>1, <3>2
      <4>2. Tree[m].depth > Tree[j].depth
        BY <4>1, LineIs
      <4>3. Tree[j].depth > Tree[k].depth
        BY <2>1, <4>1
      <4> QED
        BY <1>1, <4>1, <4>2, <4>3
    <3> QED
      BY <3>1, <3>2
  <2>2. ASSUME \A m \in k + 1 .. i : Tree[m].depth > Tree[k].depth,
               NEW m \in k + 1 .. j
        PROVE  Tree[m].depth > Tree[k].depth
    BY <1>1, <2>2
  <2> QED
    BY <2>1, <2>2
<1>3. ASSUME NEW k PROVE k \in Ancestors(j) <=> k \in Line(i) /\ k < j
  <2>1. k \in Ancestors(j) <=> k \in 1 .. j - 1
                             /\ \A m \in k + 1 .. j : Tree[m].depth > Tree[k].depth
    BY DEF Ancestors
  <2>2. k \in Line(i) <=> k \in 1 .. i
                        /\ \A m \in k + 1 .. i : Tree[m].depth > Tree[k].depth
    BY LineIs
  <2>3. k \in 1 .. j - 1 <=> k \in 1 .. i /\ k < j
    BY <1>1
  <2> QED
    BY <1>2, <2>1, <2>2, <2>3
<1> QED
  BY <1>3

(* ... and so at every position.                                           *)
LEMMA ParentOnLine ==
  ASSUME IsTree, NEW i \in Ids, NEW d \in 2 .. Tree[i].depth + 1
  PROVE  ParentOf(OnLine(i, d)) = OnLine(i, d - 1)
<1> DEFINE j == OnLine(i, d)
           p == OnLine(i, d - 1)
<1>1. Tree[i].depth \in Nat /\ d \in 1 .. Tree[i].depth + 1
      /\ d - 1 \in 1 .. Tree[i].depth + 1 /\ d - 1 < d
  BY TreeFacts
<1>2. /\ j \in Line(i) /\ p \in Line(i) /\ p < j
      /\ Tree[j].depth = d - 1 /\ Tree[p].depth = (d - 1) - 1
  BY <1>1, OnLineIs
<1>3. p \in Ancestors(j)
  BY <1>2, LineOfLine
<1>4. /\ \A k, m \in Line(i) : k < m => Tree[k].depth < Tree[m].depth
      /\ Line(i) \subseteq Nat /\ \A k \in Line(i) : Tree[k].depth \in Nat
  <2>1. Line(i) \subseteq Ids /\ Ids \subseteq Nat
    BY LineIs, TreeFacts
  <2> QED
    BY <2>1, LineIs, TreeFacts
<1> HIDE DEF j, p
<1>5. ASSUME NEW k \in Ancestors(j) PROVE p >= k
  <2>1. k \in Line(i) /\ k < j
    BY <1>2, LineOfLine
  <2>2. Tree[k].depth < d - 1 /\ Tree[k].depth \in Nat
    BY <1>2, <1>4, <2>1
  <2>3. ~(Tree[p].depth < Tree[k].depth)
    BY <1>1, <1>2, <2>2
  <2>4. ~(p < k)
    BY <1>2, <1>4, <2>1, <2>3
  <2> QED
    BY <1>2, <1>4, <2>1, <2>4
<1>6. ASSUME NEW x \in Ancestors(j), \A y \in Ancestors(j) : x >= y PROVE x = p
  <2>1. x \in Nat /\ p \in Nat
    BY <1>2, <1>4, LineOfLine
  <2>2. x >= p /\ p >= x
    BY <1>3, <1>5, <1>6
  <2> QED
    BY <2>1, <2>2
<1>7. ParentOf(j) = p
  BY <1>3, <1>5, <1>6 DEF ParentOf, Max
<1> QED
  BY <1>7 DEF j, p

-----------------------------------------------------------------------------
(* The sum of the offsets of a set of nodes.  It is defined by a recursion *)
(* over subsets that takes out a chosen element; such a function exists    *)
(* and is unique, so that any element can be taken out.                    *)
Some(s)    == CHOOSE j \in s : TRUE
Sums(g, S) == \A s \in SUBSET S :
                g[s] = IF s = {} THEN 0 ELSE Offset(Some(s)) + g[s \ {Some(s)}]
Offsets(S) == MapThenSumSet(Offset, S)

(* A finite set without one of its elements.                               *)
LEMMA Smaller ==
  ASSUME NEW s, IsFiniteSet(s), NEW j \in s
  PROVE  /\ IsFiniteSet(s \ {j}) /\ Cardinality(s) \in Nat
         /\ Cardinality(s \ {j}) = Cardinality(s) - 1 /\ Cardinality(s) > 0
         /\ Cardinality(s \ {j}) \in Nat
<1>1. IsFiniteSet(s \ {j}) /\ Cardinality(s \ {j}) = Cardinality(s) - 1
  BY FS_RemoveElement
<1>2. Cardinality(s) \in Nat /\ Cardinality(s \ {j}) \in Nat
  BY <1>1, FS_CardinalityType
<1> QED
  BY <1>1, <1>2

(* The element the recursion takes out is one.                             *)
LEMMA SomeIs ==
  ASSUME NEW s, s # {}
  PROVE  Some(s) \in s
  BY DEF Some

(* There is such a function.                                               *)
LEMMA SumsExists ==
  ASSUME NEW S, IsFiniteSet(S), \A j \in S : Offset(j) \in Int
  PROVE  \E g \in [SUBSET S -> Int] : Sums(g, S)
<1> DEFINE Upto(g, n) == \A s \in SUBSET S : Cardinality(s) <= n =>
                g[s] = IF s = {} THEN 0 ELSE Offset(Some(s)) + g[s \ {Some(s)}]
           A == {n \in Nat : \E g \in [SUBSET S -> Int] : Upto(g, n)}
<1>1. \A s \in SUBSET S : IsFiniteSet(s) /\ Cardinality(s) \in Nat
  BY FS_Subset, FS_CardinalityType
<1>2. \A s \in SUBSET S : s # {} =>
        /\ Some(s) \in S /\ Offset(Some(s)) \in Int /\ s \ {Some(s)} \in SUBSET S
        /\ Cardinality(s \ {Some(s)}) = Cardinality(s) - 1 /\ Cardinality(s) > 0
  BY <1>1, SomeIs, Smaller
<1>3. 0 \in A
  <2> DEFINE g == [s \in SUBSET S |-> 0]
  <2>1. g \in [SUBSET S -> Int]
    OBVIOUS
  <2>2. ASSUME NEW s \in SUBSET S, Cardinality(s) <= 0
        PROVE  g[s] = 0 /\ s = {}
    <3>1. ~(Cardinality(s) > 0)
      BY <1>1, <2>2
    <3> QED
      BY <1>2, <3>1
  <2>3. Upto(g, 0)
    BY <2>2
  <2> HIDE DEF Upto, g
  <2> QED
    BY <2>1, <2>3
<1>4. ASSUME NEW n \in A PROVE n + 1 \in A
  <2>1. PICK g \in [SUBSET S -> Int] : Upto(g, n)
    OBVIOUS
  <2> DEFINE next(s) == IF s = {} THEN 0 ELSE Offset(Some(s)) + g[s \ {Some(s)}]
             h == [s \in SUBSET S |-> IF Cardinality(s) <= n THEN g[s] ELSE next(s)]
  <2>2. \A s \in SUBSET S : next(s) \in Int
    BY <1>2, <2>1
  <2>3. h \in [SUBSET S -> Int]
    BY <2>2
  <2>4. ASSUME NEW s \in SUBSET S, Cardinality(s) <= n + 1
        PROVE  h[s] = IF s = {} THEN 0 ELSE Offset(Some(s)) + h[s \ {Some(s)}]
    <3>1. h[s] = next(s)
      BY <2>1
    <3>2. ASSUME s # {} PROVE h[s \ {Some(s)}] = g[s \ {Some(s)}]
      <4>1. Cardinality(s \ {Some(s)}) <= n /\ s \ {Some(s)} \in SUBSET S
        BY <1>1, <1>2, <2>4, <3>2
      <4> QED
        BY <4>1
    <3> QED
      BY <3>1, <3>2
  <2>5. Upto(h, n + 1)
    BY <2>4
  <2> HIDE DEF Upto, h
  <2>6. n + 1 \in Nat
    OBVIOUS
  <2> QED
    BY <2>3, <2>5, <2>6
<1>5. Cardinality(S) \in A
  <2>1. A = Nat
    BY <1>3, <1>4, Induction
  <2> QED
    BY <2>1, <1>1
<1>6. PICK g \in [SUBSET S -> Int] : Upto(g, Cardinality(S))
  BY <1>5
<1>7. \A s \in SUBSET S : Cardinality(s) <= Cardinality(S)
  BY FS_Subset
<1> QED
  BY <1>6, <1>7 DEF Sums

(* There is one only, whatever the set it is defined over.                 *)
LEMMA SumsAgree ==
  ASSUME NEW S, IsFiniteSet(S), NEW T \in SUBSET S, NEW g, NEW h,
         Sums(g, S), Sums(h, T)
  PROVE  g[T] = h[T]
<1> DEFINE A == {n \in Nat : \A s \in SUBSET T : Cardinality(s) <= n => g[s] = h[s]}
<1>1. \A s \in SUBSET T : IsFiniteSet(s) /\ Cardinality(s) \in Nat /\ s \in SUBSET S
  BY FS_Subset, FS_CardinalityType
<1>2. \A s \in SUBSET T : s # {} =>
        /\ s \ {Some(s)} \in SUBSET T
        /\ Cardinality(s \ {Some(s)}) = Cardinality(s) - 1 /\ Cardinality(s) > 0
  BY <1>1, SomeIs, Smaller
<1>3. \A s \in SUBSET T :
        /\ g[s] = IF s = {} THEN 0 ELSE Offset(Some(s)) + g[s \ {Some(s)}]
        /\ h[s] = IF s = {} THEN 0 ELSE Offset(Some(s)) + h[s \ {Some(s)}]
  BY <1>1 DEF Sums
<1>4. 0 \in A
  <2>1. ASSUME NEW s \in SUBSET T, Cardinality(s) <= 0 PROVE g[s] = h[s]
    <3>1. ~(Cardinality(s) > 0)
      BY <1>1, <2>1
    <3>2. s = {}
      BY <1>2, <3>1
    <3> QED
      BY <1>3, <3>2
  <2> QED
    BY <2>1
<1>5. ASSUME NEW n \in A PROVE n + 1 \in A
  <2> SUFFICES ASSUME NEW s \in SUBSET T, Cardinality(s) <= n + 1 PROVE g[s] = h[s]
    OBVIOUS
  <2>1. CASE s = {}
    BY <1>3, <2>1
  <2>2. CASE s # {}
    <3>1. Cardinality(s \ {Some(s)}) <= n /\ s \ {Some(s)} \in SUBSET T
      BY <1>1, <1>2, <2>2
    <3>2. g[s \ {Some(s)}] = h[s \ {Some(s)}]
      BY <3>1
    <3> QED
      BY <1>3, <2>2, <3>2
  <2> QED
    BY <2>1, <2>2
<1>6. Cardinality(T) \in A
  <2>1. A = Nat
    BY <1>4, <1>5, Induction
  <2> QED
    BY <2>1, <1>1
<1> QED
  BY <1>1, <1>6

(* The function Sum is defined by.                                         *)
LEMMA SumIs ==
  ASSUME NEW S, IsFiniteSet(S), \A j \in S : Offset(j) \in Int
  PROVE  \E g \in [SUBSET S -> Int] : Sums(g, S) /\ Offsets(S) = g[S]
<1> DEFINE Iter(g) == g = [s \in SUBSET S |->
                  IF s = {} THEN 0 ELSE Offset(Some(s)) + g[s \ {Some(s)}]]
           iter == CHOOSE g : Iter(g)
<1>1. PICK g \in [SUBSET S -> Int] : Sums(g, S)
  BY SumsExists
<1>2. Iter(g)
  BY <1>1 DEF Sums
<1>3. Iter(iter)
  BY <1>2, Zenon
<1>4. Offsets(S) = iter[S]
  BY DEF Offsets, MapThenSumSet, MapThenFoldSet, Some
<1> HIDE DEF iter
<1>5. Sums(iter, S)
  <2>1. \A s \in SUBSET S : iter[s] =
          IF s = {} THEN 0 ELSE Offset(Some(s)) + iter[s \ {Some(s)}]
    BY <1>3, Zenon
  <2> QED
    BY <2>1 DEF Sums
<1>6. g[S] = iter[S]
  BY <1>1, <1>5, SumsAgree
<1> QED
  BY <1>1, <1>4, <1>6

(* The sum of no offsets.                                                  *)
LEMMA SumOfNone == Offsets({}) = 0
<1>1. IsFiniteSet({})
  BY FS_EmptySet
<1>2. PICK g \in [SUBSET {} -> Int] : Sums(g, {}) /\ Offsets({}) = g[{}]
  BY <1>1, SumIs
<1> QED
  BY <1>2 DEF Sums

(* The chosen element can be taken out ...                                 *)
LEMMA SumTakesSome ==
  ASSUME NEW S, IsFiniteSet(S), \A j \in S : Offset(j) \in Int, S # {}
  PROVE  Offsets(S) = Offset(Some(S)) + Offsets(S \ {Some(S)})
<1> DEFINE T == S \ {Some(S)}
<1>1. IsFiniteSet(T) /\ T \in SUBSET S
  BY SomeIs, Smaller
<1>2. PICK g \in [SUBSET S -> Int] : Sums(g, S) /\ Offsets(S) = g[S]
  BY SumIs
<1>3. PICK h \in [SUBSET T -> Int] : Sums(h, T) /\ Offsets(T) = h[T]
  BY <1>1, SumIs
<1>4. g[T] = h[T]
  BY <1>1, <1>2, <1>3, SumsAgree
<1>5. g[S] = Offset(Some(S)) + g[T]
  BY <1>2 DEF Sums
<1> QED
  BY <1>2, <1>3, <1>4, <1>5

(* ... and any element can be taken out.                                   *)
LEMMA SumTakes ==
  ASSUME NEW S, IsFiniteSet(S), \A j \in S : Offset(j) \in Int
  PROVE  Offsets(S) \in Int /\ \A j \in S : Offsets(S) = Offset(j) + Offsets(S \ {j})
<1> DEFINE A == {n \in Nat : \A T \in SUBSET S : Cardinality(T) <= n =>
                    \A j \in T : Offsets(T) = Offset(j) + Offsets(T \ {j})}
<1>1. \A T \in SUBSET S : IsFiniteSet(T) /\ Cardinality(T) \in Nat
  BY FS_Subset, FS_CardinalityType
<1>2. ASSUME NEW T \in SUBSET S PROVE Offsets(T) \in Int
  <2>1. IsFiniteSet(T) /\ \A j \in T : Offset(j) \in Int
    BY <1>1
  <2>2. PICK g \in [SUBSET T -> Int] : Offsets(T) = g[T]
    BY <2>1, SumIs
  <2> QED
    BY <2>2
<1>3. ASSUME NEW T \in SUBSET S, NEW j \in T
      PROVE  /\ Cardinality(T \ {j}) = Cardinality(T) - 1 /\ Cardinality(T) > 0
             /\ T \ {j} \in SUBSET S /\ Offset(j) \in Int
  BY <1>1, Smaller
<1>4. 0 \in A
  <2> SUFFICES ASSUME NEW T \in SUBSET S, Cardinality(T) <= 0, NEW j \in T PROVE FALSE
    OBVIOUS
  <2>1. PICK m \in Nat : m = Cardinality(T)
    BY <1>1
  <2>2. m > 0
    BY <1>3, <2>1
  <2> QED
    BY <2>1, <2>2
<1>5. ASSUME NEW n \in A PROVE n + 1 \in A
  <2> SUFFICES ASSUME NEW T \in SUBSET S, Cardinality(T) <= n + 1, NEW j \in T
               PROVE  Offsets(T) = Offset(j) + Offsets(T \ {j})
    OBVIOUS
  <2> DEFINE c == Some(T)
  <2>1. c \in T
    BY SomeIs
  <2>2. Offsets(T) = Offset(c) + Offsets(T \ {c})
    <3>1. IsFiniteSet(T) /\ T # {} /\ \A i \in T : Offset(i) \in Int
      BY <1>1
    <3> QED
      BY <3>1, SumTakesSome
  <2> HIDE DEF c
  <2>3. CASE j = c
    BY <2>2, <2>3
  <2>4. CASE j # c
    <3>1. /\ T \ {c} \in SUBSET S /\ T \ {j} \in SUBSET S
          /\ Cardinality(T \ {c}) <= n /\ Cardinality(T \ {j}) <= n
      BY <1>1, <1>3, <2>1
    <3>2. Offsets(T \ {c}) = Offset(j) + Offsets((T \ {c}) \ {j})
      BY <2>4, <3>1
    <3>3. Offsets(T \ {j}) = Offset(c) + Offsets((T \ {j}) \ {c})
      BY <2>1, <2>4, <3>1
    <3>4. (T \ {c}) \ {j} = (T \ {j}) \ {c} /\ (T \ {j}) \ {c} \in SUBSET S
      OBVIOUS
    <3>5. Offsets((T \ {j}) \ {c}) \in Int /\ Offset(j) \in Int /\ Offset(c) \in Int
      BY <1>2, <2>1, <3>4
    <3>6. PICK x \in Int : x = Offsets((T \ {j}) \ {c})
                           /\ x = Offsets((T \ {c}) \ {j})
      BY <3>4, <3>5
    <3>7. PICK a, b \in Int : a = Offset(j) /\ b = Offset(c)
      BY <3>5
    <3> QED
      BY <2>2, <3>2, <3>3, <3>6, <3>7
  <2> QED
    BY <2>3, <2>4
<1>6. Cardinality(S) \in A
  <2>1. A = Nat
    BY <1>4, <1>5, Induction
  <2> QED
    BY <2>1, <1>1
<1> QED
  BY <1>1, <1>2, <1>6

-----------------------------------------------------------------------------
(* A number and its cells.                                                 *)
LEMMA AboveExists ==
  ASSUME NEW x \in Nat, NEW k \in Nat
  PROVE  \E f \in [0 .. k -> Nat] :
           /\ f[0] = x /\ \A j \in 1 .. k : f[j] = f[j - 1] \div CELL
           /\ Above(x, k) = f[k]
<1> DEFINE iter == [i \in Nat |-> [y \in Nat |-> y \div CELL]]
           Goes(f) == f = [j \in 0 .. k |-> IF j = 0 THEN x ELSE f[j - 1] \div CELL]
           above == CHOOSE f : Goes(f)
<1>1. \A y \in Nat : y \div CELL \in Nat
  BY CellIsNat
<1>2. iter \in [Nat -> [Nat -> Nat]]
  BY <1>1
<1>3. ASSUME NEW i \in Nat, NEW y \in Nat PROVE iter[i][y] = y \div CELL
  OBVIOUS
<1> HIDE DEF iter
<1>4. PICK g \in [0 .. k -> Nat] :
        g[0] = x /\ \A i \in 1 .. k : g[i] = iter[i][g[i - 1]]
  <2>1. Runs(Nat, x, iter, k) # {}
    BY <1>2, Recursion
  <2> QED
    BY <2>1 DEF Runs
<1>5. ASSUME NEW i \in 1 .. k PROVE g[i] = g[i - 1] \div CELL
  <2>1. i - 1 \in 0 .. k /\ i \in Nat
    OBVIOUS
  <2> QED
    BY <1>3, <1>4, <2>1
<1>6. Goes(g)
  BY <1>4, <1>5
<1>7. Goes(above)
  BY <1>6, Zenon
<1> HIDE DEF above
<1>8. \A j \in 0 .. k : above[j] = IF j = 0 THEN x ELSE above[j - 1] \div CELL
  BY <1>7, Zenon
<1> DEFINE A == {n \in Nat : n <= k => above[n] = g[n]}
<1>9. 0 \in A
  <2>1. 0 \in 0 .. k
    OBVIOUS
  <2> QED
    BY <1>4, <1>8, <2>1
<1>10. ASSUME NEW n \in A PROVE n + 1 \in A
  <2> SUFFICES ASSUME n + 1 <= k PROVE above[n + 1] = g[n + 1]
    OBVIOUS
  <2>1. n + 1 \in 0 .. k /\ n + 1 \in 1 .. k /\ n + 1 # 0 /\ (n + 1) - 1 = n /\ n <= k
    OBVIOUS
  <2>2. above[n] = g[n]
    BY <2>1
  <2>3. above[n + 1] = above[n] \div CELL
    BY <1>8, <2>1
  <2>4. g[n + 1] = g[n] \div CELL
    BY <1>5, <2>1
  <2> QED
    BY <2>2, <2>3, <2>4
<1>11. above[k] = g[k]
  <2>1. A = Nat
    BY <1>9, <1>10, Induction
  <2>2. k \in A
    BY <2>1
  <2> QED
    BY <2>2
<1>12. Above(x, k) = above[k]
  BY DEF Above, above
<1> QED
  BY <1>4, <1>5, <1>11, <1>12

(* The upper cells of a number: its division by CELL, again and again.     *)
LEMMA AboveIs ==
  ASSUME NEW x \in Nat
  PROVE  /\ Above(x, 0) = x
         /\ \A k \in Nat : Above(x, k) \in Nat /\ Above(x, k + 1) = Above(x, k) \div CELL
<1>1. Above(x, 0) = x
  BY AboveExists
<1>2. ASSUME NEW k \in Nat
      PROVE  Above(x, k) \in Nat /\ Above(x, k + 1) = Above(x, k) \div CELL
  <2>1. PICK f \in [0 .. k -> Nat] :
          /\ f[0] = x /\ \A j \in 1 .. k : f[j] = f[j - 1] \div CELL
          /\ Above(x, k) = f[k]
    BY AboveExists
  <2>2. PICK g \in [0 .. k + 1 -> Nat] :
          /\ g[0] = x /\ \A j \in 1 .. k + 1 : g[j] = g[j - 1] \div CELL
          /\ Above(x, k + 1) = g[k + 1]
    <3>1. k + 1 \in Nat
      OBVIOUS
    <3> QED
      BY <3>1, AboveExists
  <2> DEFINE A == {n \in Nat : n <= k => f[n] = g[n]}
  <2>3. 0 \in A
    BY <2>1, <2>2
  <2>4. ASSUME NEW n \in A PROVE n + 1 \in A
    <3> SUFFICES ASSUME n + 1 <= k PROVE f[n + 1] = g[n + 1]
      OBVIOUS
    <3>1. n + 1 \in 1 .. k /\ n + 1 \in 1 .. k + 1 /\ (n + 1) - 1 = n /\ n <= k
      OBVIOUS
    <3>2. f[n] = g[n]
      BY <3>1
    <3>3. f[n + 1] = f[n] \div CELL /\ g[n + 1] = g[n] \div CELL
      BY <2>1, <2>2, <3>1
    <3> QED
      BY <3>2, <3>3
  <2>5. f[k] = g[k]
    <3>1. A = Nat
      BY <2>3, <2>4, Induction
    <3>2. k \in A
      BY <3>1
    <3> QED
      BY <3>2
  <2>6. f[k] \in Nat /\ k + 1 \in 1 .. k + 1 /\ (k + 1) - 1 = k
    BY <2>1
  <2>7. g[k + 1] = g[k] \div CELL
    BY <2>2, <2>6
  <2> QED
    BY <2>1, <2>2, <2>5, <2>6, <2>7
<1> QED
  BY <1>1, <1>2

(* A number written in k cells: k words, the lowest one last.              *)
LEMMA InCellsIs ==
  ASSUME NEW x \in Nat, NEW k \in Nat
  PROVE  /\ InCells(x, k) \in Seq(Nat) /\ Len(InCells(x, k)) = k
         /\ \A i \in 1 .. k : InCells(x, k)[i] = Above(x, k - i) % CELL
<1>1. ASSUME NEW i \in 1 .. k PROVE Above(x, k - i) % CELL \in Nat
  <2>1. k - i \in Nat
    OBVIOUS
  <2>2. Above(x, k - i) \in Nat
    BY <2>1, AboveIs
  <2> QED
    BY <2>2, CellIsNat
<1> QED
  BY <1>1 DEF InCells

-----------------------------------------------------------------------------
(* The tokens of a document.                                               *)
Regular == IsTree /\ \A n \in Ids : IsWritable(n)

(* The types of what a node of the tree says.                              *)
LEMMA NodeFacts ==
  ASSUME IsTree, NEW i \in Ids
  PROVE  /\ Tree[i].cells \in {<<>>} \cup (Nat \X Nat)
         /\ Tree[i].regs \in Seq(Nat \X Nat) /\ Tree[i].cut \in Nat
         /\ Tree[i].ranges \in {<<>>} \cup (Nat \X Nat \X Nat)
         /\ Tree[i].compatible \in Seq(Nat) /\ Tree[i].type \in Nat
         /\ Cells(i) \in Nat \X Nat
         /\ i # 1 => ParentOf(i) \in Ids /\ Cells(ParentOf(i)) \in Nat \X Nat
<1>1. ASSUME NEW j \in Ids
      PROVE  /\ Tree[j].cells \in {<<>>} \cup (Nat \X Nat)
             /\ Tree[j].regs \in Seq(Nat \X Nat) /\ Tree[j].cut \in Nat
             /\ Tree[j].ranges \in {<<>>} \cup (Nat \X Nat \X Nat)
             /\ Tree[j].compatible \in Seq(Nat) /\ Tree[j].type \in Nat
  BY TreeFacts DEF TreeNode
<1>2. ASSUME NEW j \in Ids PROVE Cells(j) \in Nat \X Nat
  <2>1. <<2, 1>> \in Nat \X Nat
    OBVIOUS
  <2> QED
    BY <1>1, <2>1 DEF Cells
<1>3. ASSUME i # 1 PROVE ParentOf(i) \in Ids
  <2>1. i - 1 \in Ids /\ (i - 1) + 1 = i /\ Tree[i].depth \in Nat
    BY <1>3, TreeFacts
  <2>2. Tree[i].depth >= 1
    BY <2>1, TreeFacts
  <2> DEFINE d == Tree[i].depth + 1
  <2>3. d \in 2 .. Tree[i].depth + 1 /\ d - 1 \in 1 .. Tree[i].depth + 1
    BY <2>1, <2>2
  <2>4. OnLine(i, d) = i
    BY OnLineIs
  <2>5. ParentOf(OnLine(i, d)) = OnLine(i, d - 1)
    BY <2>3, ParentOnLine
  <2>6. OnLine(i, d - 1) \in Line(i) /\ Line(i) \subseteq Ids
    BY <2>3, OnLineIs, LineIs
  <2> QED
    BY <2>4, <2>5, <2>6
<1> QED
  BY <1>1, <1>2, <1>3

(* The words of reg: entry after entry.                                    *)
EntryCells(i) == Cells(ParentOf(i))[1] + Cells(ParentOf(i))[2]
Entry(i, k)   == InCells(Tree[i].regs[k][1], Cells(ParentOf(i))[1]) \o
                 InCells(Tree[i].regs[k][2], Cells(ParentOf(i))[2])

(* An entry is an address in its cells and a size in its cells.            *)
LEMMA EntryIs ==
  ASSUME IsTree, NEW i \in Ids, i # 1, NEW k \in DOMAIN Tree[i].regs
  PROVE  /\ Tree[i].regs[k] \in Nat \X Nat
         /\ Entry(i, k) \in Seq(Nat) /\ Len(Entry(i, k)) = EntryCells(i)
         /\ \A q \in 1 .. Cells(ParentOf(i))[1] : Entry(i, k)[q] =
              InCells(Tree[i].regs[k][1], Cells(ParentOf(i))[1])[q]
         /\ \A q \in 1 .. Cells(ParentOf(i))[2] :
              Entry(i, k)[Cells(ParentOf(i))[1] + q] =
              InCells(Tree[i].regs[k][2], Cells(ParentOf(i))[2])[q]
<1> DEFINE c == Cells(ParentOf(i))
           u == InCells(Tree[i].regs[k][1], c[1])
           v == InCells(Tree[i].regs[k][2], c[2])
<1>1. c \in Nat \X Nat /\ Tree[i].regs[k] \in Nat \X Nat
  BY NodeFacts
<1>2. /\ u \in Seq(Nat) /\ v \in Seq(Nat) /\ Len(u) = c[1] /\ Len(v) = c[2]
      /\ c[1] \in Nat /\ c[2] \in Nat
  <2>1. /\ c[1] \in Nat /\ c[2] \in Nat /\ Tree[i].regs[k][1] \in Nat
        /\ Tree[i].regs[k][2] \in Nat
    BY <1>1
  <2> QED
    BY <2>1, InCellsIs
<1>3. Entry(i, k) = u \o v /\ EntryCells(i) = c[1] + c[2]
  BY DEF Entry, EntryCells
<1>4. PICK x, y \in Seq(Nat) : x = u /\ y = v
  BY <1>2
<1>5. PICK m \in Nat, n \in Nat : m = c[1] /\ n = c[2]
  BY <1>2
<1>6. Len(x) = m /\ Len(y) = n
  BY <1>2, <1>4, <1>5
<1>10. Entry(i, k) = x \o y /\ EntryCells(i) = m + n
  BY <1>3, <1>4, <1>5
<1>7. x \o y \in Seq(Nat) /\ Len(x \o y) = m + n
  BY <1>6
<1>8. \A q \in 1 .. m : (x \o y)[q] = x[q]
  BY <1>6
<1>9. ASSUME NEW q \in 1 .. n PROVE (x \o y)[m + q] = y[q]
  <2>1. m + q \in Len(x) + 1 .. Len(x) + Len(y) /\ m + q - Len(x) = q
    BY <1>6
  <2> QED
    BY <2>1
<1> QED
  BY <1>1, <1>4, <1>5, <1>6, <1>7, <1>8, <1>9, <1>10

(* reg is written entry after entry.                                       *)
LEMMA RegWordsIs ==
  ASSUME IsTree, NEW i \in Ids, i # 1
  PROVE  /\ RegWords(i) \in Seq(Nat) /\ EntryCells(i) \in Nat
         /\ Len(RegWords(i)) = Len(Tree[i].regs) * EntryCells(i)
         /\ \A k \in 1 .. Len(Tree[i].regs) : \A q \in 1 .. EntryCells(i) :
              RegWords(i)[(k - 1) * EntryCells(i) + q] = Entry(i, k)[q]
<1> DEFINE n == Len(Tree[i].regs)
           c == EntryCells(i)
           s == [k \in DOMAIN Tree[i].regs |-> Entry(i, k)]
<1>1. n \in Nat /\ DOMAIN Tree[i].regs = 1 .. n /\ c \in Nat
  <2>1. Tree[i].regs \in Seq(Nat \X Nat) /\ Cells(ParentOf(i)) \in Nat \X Nat
    BY NodeFacts
  <2> QED
    BY <2>1 DEF EntryCells
<1>2. s \in Seq(Seq(Nat)) /\ Len(s) = n /\ \A k \in 1 .. n : s[k] = Entry(i, k)
  BY <1>1, EntryIs
<1>3. RegWords(i) = FlattenSeq(s)
  BY DEF RegWords, Entry
<1>4. \A k \in 1 .. n : Len(s[k]) = c
  BY <1>1, <1>2, EntryIs
<1> HIDE DEF n, c, s
<1>5. /\ FlattenSeq(s) \in Seq(Nat)
      /\ Before(s, 1) = 0 /\ Before(s, n + 1) = Len(FlattenSeq(s))
      /\ \A k \in 1 .. n : Before(s, k + 1) = Before(s, k) + c
      /\ \A k \in 1 .. n : \A q \in 1 .. c : FlattenSeq(s)[Before(s, k) + q] = s[k][q]
  <2>1. /\ FlattenSeq(s) \in Seq(Nat)
        /\ Before(s, 1) = 0 /\ Before(s, Len(s) + 1) = Len(FlattenSeq(s))
        /\ \A k \in 1 .. Len(s) :
             /\ Before(s, k + 1) = Before(s, k) + Len(s[k])
             /\ \A q \in 1 .. Len(s[k]) : FlattenSeq(s)[Before(s, k) + q] = s[k][q]
    BY <1>2, Pieces, Zenon
  <2> QED
    BY <1>2, <1>4, <2>1
<1> DEFINE A == {k \in Nat : k <= n => Before(s, k + 1) = k * c}
<1>6. 0 \in A
  BY <1>1, <1>5
<1>7. ASSUME NEW k \in A PROVE k + 1 \in A
  <2> SUFFICES ASSUME k + 1 <= n PROVE Before(s, (k + 1) + 1) = (k + 1) * c
    OBVIOUS
  <2>1. k + 1 \in 1 .. n /\ k <= n
    BY <1>1
  <2>2. Before(s, (k + 1) + 1) = Before(s, k + 1) + c /\ Before(s, k + 1) = k * c
    BY <1>5, <2>1
  <2>3. k * c + c = (k + 1) * c
    BY <1>1
  <2> QED
    BY <2>2, <2>3
<1>8. \A k \in Nat : k <= n => Before(s, k + 1) = k * c
  BY <1>6, <1>7, Induction
<1>9. Len(FlattenSeq(s)) = n * c
  BY <1>1, <1>5, <1>8
<1>10. ASSUME NEW k \in 1 .. n, NEW q \in 1 .. c
       PROVE  FlattenSeq(s)[(k - 1) * c + q] = Entry(i, k)[q]
  <2>1. k - 1 \in Nat /\ k - 1 <= n /\ (k - 1) + 1 = k
    BY <1>1
  <2>2. Before(s, k) = (k - 1) * c
    BY <1>8, <2>1
  <2> QED
    BY <1>2, <1>5, <2>2
<1> QED
  BY <1>1, <1>3, <1>5, <1>9, <1>10 DEF n, c

(* The properties of a node by their names, from 1 to 7; a token of one.   *)
RegLen(i) == Len(RegWords(i)) - Tree[i].cut \div U32

RangesWords(i) == InCells(Tree[i].ranges[1], Cells(i)[1]) \o
                  InCells(Tree[i].ranges[2], Cells(ParentOf(i))[1]) \o
                  InCells(Tree[i].ranges[3], Cells(i)[2])

RegCells(i) == IF i = 1 THEN <<0>> ELSE SubSeq(RegWords(i), 1, RegLen(i))

Has(i, w) == CASE w \in {1, 2} -> Tree[i].cells # <<>>
               [] w = 3 -> Tree[i].compatible # <<>>
               [] w = 4 -> Tree[i].type # None
               [] w = 5 -> Tree[i].regs # <<>>
               [] w = 6 -> Tree[i].ranges # <<>>
               [] w = 7 -> i = 1

Words(i, w) == CASE w = 1 -> <<Cells(i)[1]>>
                 [] w = 2 -> <<Cells(i)[2]>>
                 [] w = 3 -> Tree[i].compatible
                 [] w = 4 -> <<Tree[i].type>>
                 [] w = 5 -> RegCells(i)
                 [] w = 6 -> RangesWords(i)
                 [] w = 7 -> <<1, 0>>

Bytes(i, w) == IF w = 7 THEN 5 ELSE U32 * Len(Words(i, w))

Item(i, w) == <<FDT_PROP, Bytes(i, w), w>> \o Words(i, w)

(* What is left of a reg that has been cut off.                            *)
LEMMA RegLenIs ==
  ASSUME Regular, NEW i \in Ids, i # 1, Tree[i].regs # <<>>
  PROVE  /\ RegLen(i) \in 1 .. Len(RegWords(i))
         /\ RegLen(i) * U32 = Len(RegWords(i)) * U32 - Tree[i].cut
         /\ EntryCells(i) \in Nat \ {0} /\ Tree[i].cut < U32 * EntryCells(i)
         /\ Len(Tree[i].regs) \in Nat \ {0}
         /\ Len(RegWords(i)) = Len(Tree[i].regs) * EntryCells(i)
         /\ Len(Tree[i].regs) > 1 \/ Tree[i].cut = 0 => RegLen(i) >= EntryCells(i)
<1> DEFINE n == Len(Tree[i].regs)
           c == EntryCells(i)
           cut == Tree[i].cut
<1>1. n \in Nat \ {0} /\ c \in Nat /\ cut \in Nat /\ Len(RegWords(i)) = n * c
  BY NodeFacts, RegWordsIs DEF Regular
<1>2. cut % 4 = 0 /\ cut < 4 * c
  <2>1. IsWritable(i)
    BY DEF Regular
  <2> QED
    BY <2>1 DEF IsWritable, U32, EntryCells
<1> HIDE DEF n, c, cut
<1>3. cut = 4 * (cut \div 4) /\ cut \div 4 \in 0 .. c - 1 /\ c >= 1
  BY <1>1, <1>2
<1>4. n * c >= c /\ n * c \in Nat /\ (n > 1 => n * c >= 2 * c)
  <2>1. PICK m \in Nat : n = m + 1
    <3>1. n - 1 \in Nat /\ n = (n - 1) + 1
      BY <1>1
    <3> QED
      BY <3>1
  <2>2. m * c \in Nat /\ n * c = m * c + c
    BY <1>1, <2>1
  <2>3. ASSUME n > 1 PROVE m * c >= c
    <3>1. PICK l \in Nat : m = l + 1
      <4>1. m - 1 \in Nat /\ m = (m - 1) + 1
        BY <2>1, <2>3
      <4> QED
        BY <4>1
    <3>2. l * c \in Nat /\ m * c = l * c + c
      BY <1>1, <3>1
    <3> QED
      BY <1>1, <3>2
  <2> QED
    BY <1>1, <2>2, <2>3
<1>5. PICK L \in Nat : L = n * c
  BY <1>4
<1>6. PICK x \in 0 .. c - 1 : x = cut \div 4
  BY <1>3
<1>7. RegLen(i) = L - x /\ Len(RegWords(i)) = L
  BY <1>1, <1>5, <1>6 DEF RegLen, U32, cut
<1>8. L >= c /\ (n > 1 => L >= 2 * c) /\ cut = 4 * x /\ (cut = 0 => x = 0)
  BY <1>3, <1>4, <1>5, <1>6
<1>9. RegLen(i) \in 1 .. Len(RegWords(i)) /\ RegLen(i) * 4 = Len(RegWords(i)) * 4 - cut
      /\ (n > 1 \/ cut = 0 => RegLen(i) >= c)
  BY <1>1, <1>3, <1>7, <1>8
<1>10. c \in Nat \ {0}
  BY <1>1, <1>3
<1> QED
  BY <1>1, <1>2, <1>9, <1>10 DEF n, c, cut, U32

-----------------------------------------------------------------------------
(* The properties of a node, by their numbers.                             *)

(* Each name is of one property only.                                      *)
LEMMA NamesDiffer ==
  ASSUME NEW w \in 1 .. 7
  PROVE  (CHOOSE v \in 1 .. 7 : Name(v) = Name(w)) = w
<1>1. ASSUME NEW v \in 1 .. 7, Name(v) = Name(w) PROVE v = w
  BY <1>1 DEF Name, Strings
<1>2. \E v \in 1 .. 7 : Name(v) = Name(w)
  OBVIOUS
<1> QED
  BY <1>1, <1>2

(* The names, by their numbers.                                            *)
LEMMA NamesAre ==
  /\ Name(1) = "#address-cells" /\ Name(2) = "#size-cells"
  /\ Name(3) = "compatible" /\ Name(4) = "device_type" /\ Name(5) = "reg"
  /\ Name(6) = "ranges" /\ Name(7) = "another"
  BY DEF Name, Strings

(* The words of each property.                                             *)
LEMMA WordsByName ==
  ASSUME NEW i
  PROVE  /\ Words(i, 1) = <<Cells(i)[1]>> /\ Words(i, 2) = <<Cells(i)[2]>>
         /\ Words(i, 3) = Tree[i].compatible /\ Words(i, 4) = <<Tree[i].type>>
         /\ i = 1 => Words(i, 5) = <<0>>
         /\ i # 1 => Words(i, 5) = SubSeq(RegWords(i), 1, RegLen(i))
         /\ Words(i, 6) = RangesWords(i) /\ Words(i, 7) = <<1, 0>>
<1>1. Words(i, 5) = RegCells(i)
  BY DEF Words
<1>2. /\ i = 1 => RegCells(i) = <<0>>
      /\ i # 1 => RegCells(i) = SubSeq(RegWords(i), 1, RegLen(i))
  BY Zenon DEF RegCells
<1>3. /\ Words(i, 1) = <<Cells(i)[1]>> /\ Words(i, 2) = <<Cells(i)[2]>>
      /\ Words(i, 3) = Tree[i].compatible /\ Words(i, 4) = <<Tree[i].type>>
      /\ Words(i, 6) = RangesWords(i) /\ Words(i, 7) = <<1, 0>>
  BY DEF Words
<1> QED
  BY <1>1, <1>2, <1>3, Zenon

(* A property has the words its length promises.                           *)
LEMMA WordsAre ==
  ASSUME Regular, NEW i \in Ids, NEW w \in 1 .. 7, Has(i, w)
  PROVE  /\ Words(i, w) \in Seq(Nat) /\ Len(Words(i, w)) \in Nat
         /\ Bytes(i, w) \in Nat /\ Padded(Bytes(i, w)) = Len(Words(i, w))
<1>1. Cells(i)[1] \in Nat /\ Cells(i)[2] \in Nat /\ IsTree
  BY NodeFacts DEF Regular
<1>6. Words(i, w) \in Seq(Nat)
  <2>2. CASE w \in {1, 2, 4, 7}
    <3>1. Tree[i].type \in Nat
      BY <1>1, NodeFacts
    <3>2. PICK a \in Nat, b \in Nat, c \in Nat :
            a = Cells(i)[1] /\ b = Cells(i)[2] /\ c = Tree[i].type
      BY <1>1, <3>1
    <3>3. Words(i, w) \in {<<a>>, <<b>>, <<c>>, <<1, 0>>}
      BY <2>2, <3>2, WordsByName
    <3>4. <<a>> \in Seq(Nat) /\ <<b>> \in Seq(Nat) /\ <<c>> \in Seq(Nat)
          /\ <<1, 0>> \in Seq(Nat)
      OBVIOUS
    <3> QED
      BY <3>3, <3>4
  <2>3. CASE w = 3
    BY <1>1, <2>3, NodeFacts, WordsByName
  <2>4. CASE w = 5
    <3>1. CASE i = 1
      BY <2>4, <3>1, WordsByName
    <3>2. CASE i # 1
      <4>1. Tree[i].regs # <<>>
        BY <2>4 DEF Has
      <4>2. RegWords(i) \in Seq(Nat) /\ RegLen(i) \in 1 .. Len(RegWords(i))
        BY <1>1, <3>2, <4>1, RegWordsIs, RegLenIs
      <4>3. RegLen(i) \in 0 .. Len(RegWords(i))
        BY <4>2
      <4>4. PICK s \in Seq(Nat), k \in Nat :
              s = RegWords(i) /\ k = RegLen(i) /\ k \in 0 .. Len(s)
        BY <4>2, <4>3
      <4>5. SubSeq(s, 1, k) \in Seq(Nat)
        BY <4>4, Beginning
      <4>6. Words(i, w) = SubSeq(s, 1, k)
        BY <2>4, <3>2, <4>4, WordsByName
      <4> QED
        BY <4>5, <4>6
    <3> QED
      BY <3>1, <3>2
  <2>5. CASE w = 6
    <3>1. Tree[i].ranges # <<>>
      BY <2>5 DEF Has
    <3>2. i # 1
      <4>1. IsWritable(i)
        BY DEF Regular
      <4> QED
        BY <3>1, <4>1 DEF IsWritable
    <3>3. /\ Tree[i].ranges[1] \in Nat /\ Tree[i].ranges[2] \in Nat
          /\ Tree[i].ranges[3] \in Nat /\ Cells(ParentOf(i))[1] \in Nat
      <4>1. Tree[i].ranges \in Nat \X Nat \X Nat
        BY <1>1, <3>1, NodeFacts
      <4>2. Cells(ParentOf(i)) \in Nat \X Nat
        BY <1>1, <3>2, NodeFacts
      <4> QED
        BY <4>1, <4>2
    <3>4. RangesWords(i) \in Seq(Nat)
      <4>1. /\ InCells(Tree[i].ranges[1], Cells(i)[1]) \in Seq(Nat)
            /\ InCells(Tree[i].ranges[2], Cells(ParentOf(i))[1]) \in Seq(Nat)
            /\ InCells(Tree[i].ranges[3], Cells(i)[2]) \in Seq(Nat)
        BY <1>1, <3>3, InCellsIs
      <4> QED
        BY <4>1 DEF RangesWords
    <3> QED
      BY <2>5, <3>4, WordsByName
  <2> QED
    BY <2>2, <2>3, <2>4, <2>5
<1>7. PICK n \in Nat : n = Len(Words(i, w))
  BY <1>6
<1>8. CASE w = 7
  <2>1. n = 2
    BY <1>7, <1>8, WordsByName
  <2> QED
    BY <1>6, <1>7, <1>8, <2>1 DEF Bytes, Padded, U32
<1>9. CASE w # 7
  <2>1. Bytes(i, w) = 4 * n
    BY <1>7, <1>9 DEF Bytes, U32
  <2>2. (4 * n + 4 - 1) \div 4 = n
    OBVIOUS
  <2> QED
    BY <1>6, <1>7, <2>1, <2>2 DEF Padded, U32
<1> QED
  BY <1>8, <1>9

(* The token of a property, word by word.                                  *)
LEMMA ItemIs ==
  ASSUME Regular, NEW i \in Ids, NEW w \in 1 .. 7, Has(i, w)
  PROVE  /\ Item(i, w) \in Seq(Nat) /\ Len(Item(i, w)) = 3 + Len(Words(i, w))
         /\ Item(i, w)[1] = FDT_PROP /\ Item(i, w)[2] = Bytes(i, w)
         /\ Item(i, w)[3] = w
         /\ \A q \in 1 .. Len(Words(i, w)) : Item(i, w)[3 + q] = Words(i, w)[q]
<1>1. PICK v \in Seq(Nat) : v = Words(i, w)
  BY WordsAre
<1>2. PICK b \in Nat : b = Bytes(i, w)
  BY WordsAre
<1>3. Item(i, w) = <<3, b, w>> \o v
  BY <1>1, <1>2 DEF Item, FDT_PROP
<1>4. <<3, b, w>> \o v \in Seq(Nat) /\ Len(<<3, b, w>> \o v) = 3 + Len(v)
  OBVIOUS
<1>5. /\ (<<3, b, w>> \o v)[1] = 3 /\ (<<3, b, w>> \o v)[2] = b
      /\ (<<3, b, w>> \o v)[3] = w
  OBVIOUS
<1>6. ASSUME NEW q \in 1 .. Len(v) PROVE (<<3, b, w>> \o v)[3 + q] = v[q]
  OBVIOUS
<1> QED
  BY <1>1, <1>2, <1>3, <1>4, <1>5, <1>6 DEF FDT_PROP

(* Property yields a list of one token.                                    *)
LEMMA PropertyIs ==
  ASSUME NEW i, NEW w \in 1 .. 7
  PROVE  Property(Name(w), Bytes(i, w), Words(i, w)) = << Item(i, w) >>
  BY NamesDiffer DEF Property, Item

Opt(i, w) == IF Has(i, w) THEN << Item(i, w) >> ELSE <<>>

(* The properties of a node: those it has, in the order they are written.  *)
LEMMA PropertiesAre ==
  ASSUME Regular, NEW i \in Ids
  PROVE  Properties(i) = Opt(i, 7) \o Opt(i, 3) \o Opt(i, 4) \o Opt(i, 1)
                         \o Opt(i, 2) \o Opt(i, 5) \o Opt(i, 6)
<1>1. \A w \in 1 .. 7 :
        Property(Name(w), Bytes(i, w), Words(i, w)) = << Item(i, w) >>
  BY PropertyIs
<1>2. (IF i = 1 THEN Property("another", 5, <<1, 0>>) ELSE <<>>) = Opt(i, 7)
  BY <1>1, NamesAre DEF Opt, Has, Words, Bytes
<1>3. PropertyIf(Tree[i].compatible # <<>>, "compatible", Tree[i].compatible)
      = Opt(i, 3)
  BY <1>1, NamesAre DEF Opt, Has, Words, Bytes, PropertyIf
<1>4. PropertyIf(Tree[i].type # None, "device_type", <<Tree[i].type>>) = Opt(i, 4)
  BY <1>1, NamesAre DEF Opt, Has, Words, Bytes, PropertyIf
<1>5. PropertyIf(Tree[i].cells # <<>>, "#address-cells", <<Cells(i)[1]>>) = Opt(i, 1)
  BY <1>1, NamesAre DEF Opt, Has, Words, Bytes, PropertyIf
<1>6. PropertyIf(Tree[i].cells # <<>>, "#size-cells", <<Cells(i)[2]>>) = Opt(i, 2)
  BY <1>1, NamesAre DEF Opt, Has, Words, Bytes, PropertyIf
<1>7. RegProperty(i) = Opt(i, 5)
  <2>1. CASE Tree[i].regs = <<>>
    BY <2>1 DEF RegProperty, Opt, Has
  <2>2. CASE Tree[i].regs # <<>> /\ i = 1
    <3>1. Words(i, 5) = <<0>>
      BY <2>2, WordsByName
    <3>2. Bytes(i, 5) = U32
      <4>1. Bytes(i, 5) = U32 * Len(Words(i, 5))
        BY DEF Bytes
      <4>2. Len(<<0>>) = 1 /\ U32 * 1 = U32
        BY DEF U32
      <4> QED
        BY <3>1, <4>1, <4>2
    <3> QED
      BY <1>1, <2>2, <3>1, <3>2, NamesAre DEF RegProperty, Opt, Has
  <2>3. CASE Tree[i].regs # <<>> /\ i # 1
    <3>1. RegWords(i) \in Seq(Nat) /\ RegLen(i) \in 0 .. Len(RegWords(i))
      <4>1. RegLen(i) \in 1 .. Len(RegWords(i)) /\ RegWords(i) \in Seq(Nat)
        BY <2>3, RegLenIs, RegWordsIs DEF Regular
      <4> QED
        BY <4>1
    <3>2. Len(SubSeq(RegWords(i), 1, RegLen(i))) = RegLen(i)
      BY <3>1, Beginning
    <3>3. Words(i, 5) = SubSeq(RegWords(i), 1, RegLen(i))
      BY <2>3, WordsByName
    <3>4. Bytes(i, 5) = U32 * RegLen(i)
      <4>1. Bytes(i, 5) = U32 * Len(Words(i, 5))
        BY DEF Bytes
      <4> QED
        BY <3>2, <3>3, <4>1
    <3>5. RegProperty(i) = Property("reg", U32 * RegLen(i),
                                    SubSeq(RegWords(i), 1, RegLen(i)))
      BY <2>3 DEF RegProperty, RegLen
    <3>6. Property(Name(5), Bytes(i, 5), Words(i, 5)) = << Item(i, 5) >>
      BY <1>1
    <3>7. RegProperty(i) = << Item(i, 5) >>
      BY <3>3, <3>4, <3>5, <3>6, NamesAre, Zenon
    <3> QED
      BY <2>3, <3>7 DEF Opt, Has
  <2> QED
    BY <2>1, <2>2, <2>3
<1>8. RangesProperty(i) = Opt(i, 6)
  <2>1. CASE Tree[i].ranges = <<>>
    BY <2>1 DEF RangesProperty, Opt, Has
  <2>2. CASE Tree[i].ranges # <<>>
    <3>1. RangesProperty(i) = Property("ranges", U32 * Len(RangesWords(i)),
                                       RangesWords(i))
      BY <2>2 DEF RangesProperty, PropertyIf, RangesWords
    <3>2. Words(i, 6) = RangesWords(i) /\ Bytes(i, 6) = U32 * Len(RangesWords(i))
      BY DEF Words, Bytes
    <3> QED
      BY <1>1, <2>2, <3>1, <3>2, NamesAre DEF Opt, Has
  <2> QED
    BY <2>1, <2>2
<1> QED
  BY <1>2, <1>3, <1>4, <1>5, <1>6, <1>7, <1>8 DEF Properties

-----------------------------------------------------------------------------
(* ... and in the order they are written.                                  *)

(* The elements of a list of two parts.                                    *)
LEMMA JoinedSet ==
  ASSUME NEW T, NEW u \in Seq(T), NEW v \in Seq(T)
  PROVE  ToSet(u \o v) = ToSet(u) \cup ToSet(v)
<1>1. DOMAIN u = 1 .. Len(u) /\ DOMAIN v = 1 .. Len(v) /\ Len(u) \in Nat
      /\ Len(v) \in Nat /\ DOMAIN (u \o v) = 1 .. Len(u) + Len(v)
  OBVIOUS
<1>2. \A q \in 1 .. Len(u) : (u \o v)[q] = u[q] /\ q \in 1 .. Len(u) + Len(v)
  OBVIOUS
<1>3. \A q \in 1 .. Len(v) : (u \o v)[Len(u) + q] = v[q]
                             /\ Len(u) + q \in 1 .. Len(u) + Len(v)
  OBVIOUS
<1>4. \A q \in 1 .. Len(u) + Len(v) :
        q \in 1 .. Len(u) \/ (q - Len(u) \in 1 .. Len(v) /\ Len(u) + (q - Len(u)) = q)
  BY <1>1
<1>5. ASSUME NEW x \in ToSet(u \o v) PROVE x \in ToSet(u) \cup ToSet(v)
  <2>1. PICK q \in 1 .. Len(u) + Len(v) : x = (u \o v)[q]
    BY <1>1 DEF ToSet
  <2>2. CASE q \in 1 .. Len(u)
    BY <1>1, <1>2, <2>1, <2>2 DEF ToSet
  <2>3. CASE q - Len(u) \in 1 .. Len(v) /\ Len(u) + (q - Len(u)) = q
    <3>1. x = v[q - Len(u)]
      BY <1>3, <2>1, <2>3
    <3> QED
      BY <1>1, <2>3, <3>1 DEF ToSet
  <2> QED
    BY <1>4, <2>2, <2>3
<1>6. ASSUME NEW x \in ToSet(u) PROVE x \in ToSet(u \o v)
  BY <1>1, <1>2 DEF ToSet
<1>7. ASSUME NEW x \in ToSet(v) PROVE x \in ToSet(u \o v)
  <2>1. PICK q \in 1 .. Len(v) : x = v[q]
    BY <1>1 DEF ToSet
  <2>2. x = (u \o v)[Len(u) + q] /\ Len(u) + q \in 1 .. Len(u) + Len(v)
    BY <1>3, <2>1
  <2> QED
    BY <1>1, <2>2 DEF ToSet
<1> QED
  BY <1>5, <1>6, <1>7

(* ... and of three.                                                       *)
LEMMA JoinedSets ==
  ASSUME NEW T, NEW u, NEW v, NEW w, u \in Seq(T), v \in Seq(T), w \in Seq(T)
  PROVE  ToSet(u \o v \o w) = ToSet(u) \cup ToSet(v) \cup ToSet(w)
<1>1. PICK x \in Seq(T) : x = u \o v
  <2>1. u \o v \in Seq(T)
    OBVIOUS
  <2> QED
    BY <2>1, Zenon
<1>2. ToSet(x) = ToSet(u) \cup ToSet(v)
  BY <1>1, JoinedSet
<1>3. x \o w \in Seq(T)
  OBVIOUS
<1>4. ToSet(x \o w) = ToSet(x) \cup ToSet(w)
  BY <1>3, JoinedSet
<1>5. ToSet(u \o v \o w) = ToSet(x \o w)
  BY <1>1
<1> QED
  BY <1>2, <1>4, <1>5

(* Reversing a list keeps its elements.                                    *)
LEMMA ReversedSet ==
  ASSUME NEW T, NEW u \in Seq(T)
  PROVE  Reverse(u) \in Seq(T) /\ ToSet(Reverse(u)) = ToSet(u)
<1>1. Len(u) \in Nat /\ DOMAIN u = 1 .. Len(u)
      /\ Reverse(u) = [q \in 1 .. Len(u) |-> u[(Len(u) - q) + 1]]
  BY DEF Reverse
<1>2. \A q \in 1 .. Len(u) : (Len(u) - q) + 1 \in 1 .. Len(u)
                             /\ (Len(u) - ((Len(u) - q) + 1)) + 1 = q
  BY <1>1
<1>3. \A q \in 1 .. Len(u) : u[q] \in T
  OBVIOUS
<1>4. DOMAIN Reverse(u) = 1 .. Len(u)
      /\ \A q \in 1 .. Len(u) : Reverse(u)[q] = u[(Len(u) - q) + 1]
  BY <1>1
<1>5. Reverse(u) \in Seq(T)
  BY <1>1, <1>2, <1>3
<1>6. ASSUME NEW x \in ToSet(u) PROVE x \in ToSet(Reverse(u))
  <2>1. PICK q \in 1 .. Len(u) : x = u[q]
    BY <1>1 DEF ToSet
  <2>2. Reverse(u)[(Len(u) - q) + 1] = x /\ (Len(u) - q) + 1 \in 1 .. Len(u)
    BY <1>2, <1>4, <2>1
  <2> QED
    BY <1>4, <2>2 DEF ToSet
<1>7. ASSUME NEW x \in ToSet(Reverse(u)) PROVE x \in ToSet(u)
  <2>1. PICK q \in 1 .. Len(u) : x = Reverse(u)[q]
    BY <1>4 DEF ToSet
  <2>2. u[(Len(u) - q) + 1] = x /\ (Len(u) - q) + 1 \in 1 .. Len(u)
    BY <1>2, <1>4, <2>1
  <2> QED
    BY <1>1, <2>2 DEF ToSet
<1> QED
  BY <1>5, <1>6, <1>7

(* The properties of a node, in either order.                              *)
Listing(i) == IF doc.backwards THEN Reverse(Properties(i)) ELSE Properties(i)

(* It lists the properties the node has and no others.                     *)
LEMMA ListingIs ==
  ASSUME Regular, NEW i \in Ids
  PROVE  /\ Listing(i) \in Seq(Seq(Nat)) /\ Len(Listing(i)) \in Nat
         /\ \A p \in 1 .. Len(Listing(i)) :
              \E w \in 1 .. 7 : Has(i, w) /\ Listing(i)[p] = Item(i, w)
         /\ \A w \in 1 .. 7 : Has(i, w) =>
              \E p \in 1 .. Len(Listing(i)) : Listing(i)[p] = Item(i, w)
<1> DEFINE T == Seq(Nat)
<1>1. ASSUME NEW w \in 1 .. 7
      PROVE  /\ Opt(i, w) \in Seq(T)
             /\ ToSet(Opt(i, w)) = {x \in T : Has(i, w) /\ x = Item(i, w)}
  <2>1. CASE Has(i, w)
    <3>1. Item(i, w) \in T /\ Opt(i, w) = << Item(i, w) >>
      BY <2>1, ItemIs DEF Opt
    <3>2. << Item(i, w) >> \in Seq(T) /\ ToSet(<< Item(i, w) >>) = {Item(i, w)}
      BY <3>1 DEF ToSet
    <3> QED
      BY <2>1, <3>1, <3>2
  <2>2. CASE ~Has(i, w)
    BY <2>2 DEF Opt, ToSet
  <2> QED
    BY <2>1, <2>2
<1> HIDE DEF T
<1>2. PICK o \in [1 .. 7 -> Seq(T)] : \A w \in 1 .. 7 : o[w] = Opt(i, w)
  <2>1. [w \in 1 .. 7 |-> Opt(i, w)] \in [1 .. 7 -> Seq(T)]
    BY <1>1
  <2> QED
    BY <2>1
<1>3. PICK o1, o2, o3, o4, o5, o6, o7 :
        /\ o1 = Opt(i, 1) /\ o2 = Opt(i, 2) /\ o3 = Opt(i, 3) /\ o4 = Opt(i, 4)
        /\ o5 = Opt(i, 5) /\ o6 = Opt(i, 6) /\ o7 = Opt(i, 7)
  OBVIOUS
<1>4. /\ o1 = o[1] /\ o2 = o[2] /\ o3 = o[3] /\ o4 = o[4] /\ o5 = o[5]
      /\ o6 = o[6] /\ o7 = o[7]
  BY <1>2, <1>3
<1>5. Properties(i) = o7 \o o3 \o o4 \o o1 \o o2 \o o5 \o o6
  BY <1>3, PropertiesAre, Zenon
<1>30. o7 \in Seq(T) /\ o3 \in Seq(T) /\ o4 \in Seq(T)
  BY <1>1, <1>3
<1>31. o1 \in Seq(T) /\ o2 \in Seq(T)
  BY <1>1, <1>3
<1>32. o5 \in Seq(T) /\ o6 \in Seq(T)
  BY <1>1, <1>3
<1>6. PICK a : /\ a \in Seq(T) /\ a = o7 \o o3 \o o4
               /\ ToSet(a) = ToSet(o7) \cup ToSet(o3) \cup ToSet(o4)
  <2>2. o7 \o o3 \o o4 \in Seq(T)
    BY <1>30
  <2>3. ToSet(o7 \o o3 \o o4) = ToSet(o7) \cup ToSet(o3) \cup ToSet(o4)
    BY <1>30, JoinedSets, SMT
  <2> QED
    BY <2>2, <2>3
<1>7. PICK b : /\ b \in Seq(T) /\ b = a \o o1 \o o2
               /\ ToSet(b) = ToSet(a) \cup ToSet(o1) \cup ToSet(o2)
  <2>1. a \in Seq(T)
    BY <1>6
  <2>2. a \o o1 \o o2 \in Seq(T)
    BY <1>31, <2>1
  <2>3. ToSet(a \o o1 \o o2) = ToSet(a) \cup ToSet(o1) \cup ToSet(o2)
    BY <1>31, <2>1, JoinedSets, SMT
  <2> QED
    BY <2>2, <2>3
<1>8. PICK c : /\ c \in Seq(T) /\ c = b \o o5 \o o6
               /\ ToSet(c) = ToSet(b) \cup ToSet(o5) \cup ToSet(o6)
  <2>1. b \in Seq(T)
    BY <1>7
  <2>2. b \o o5 \o o6 \in Seq(T)
    BY <1>32, <2>1
  <2>3. ToSet(b \o o5 \o o6) = ToSet(b) \cup ToSet(o5) \cup ToSet(o6)
    BY <1>32, <2>1, JoinedSets, SMT
  <2> QED
    BY <2>2, <2>3
<1>10. Properties(i) = c
  BY <1>5, <1>6, <1>7, <1>8, Zenon
<1>14. Properties(i) \in Seq(T)
  BY <1>8, <1>10
<1>15. ToSet(Properties(i)) = UNION {ToSet(o[w]) : w \in 1 .. 7}
  <2>1. \A w : w \in 1 .. 7 <=> w \in {1, 2, 3, 4, 5, 6, 7}
    OBVIOUS
  <2> QED
    BY <1>4, <1>6, <1>7, <1>8, <1>10, <2>1
<1>16. Listing(i) \in Seq(T) /\ ToSet(Listing(i)) = ToSet(Properties(i))
  BY <1>14, ReversedSet DEF Listing
<1>17. Len(Listing(i)) \in Nat /\ DOMAIN Listing(i) = 1 .. Len(Listing(i))
  BY <1>16
<1>18. ASSUME NEW p \in 1 .. Len(Listing(i))
       PROVE  \E w \in 1 .. 7 : Has(i, w) /\ Listing(i)[p] = Item(i, w)
  <2>1. Listing(i)[p] \in ToSet(Properties(i))
    BY <1>16, <1>17 DEF ToSet
  <2>2. PICK w \in 1 .. 7 : Listing(i)[p] \in ToSet(o[w])
    BY <1>15, <2>1
  <2> QED
    BY <1>1, <1>2, <2>2
<1>19. ASSUME NEW w \in 1 .. 7, Has(i, w)
       PROVE  \E p \in 1 .. Len(Listing(i)) : Listing(i)[p] = Item(i, w)
  <2>1. Item(i, w) \in ToSet(o[w])
    BY <1>1, <1>2, <1>19, ItemIs DEF T
  <2>2. Item(i, w) \in ToSet(Listing(i))
    BY <1>15, <1>16, <2>1
  <2> QED
    BY <1>17, <2>2 DEF ToSet
<1> QED
  BY <1>16, <1>17, <1>18, <1>19 DEF T

-----------------------------------------------------------------------------
(* The tokens of the nodes.                                                *)

(* As many nodes end behind a node as the next one is less deep.           *)
LEMMA ClosingIs ==
  ASSUME IsTree, NEW i \in Ids
  PROVE  /\ Closing(i) \in Nat /\ Closing(i) <= Tree[i].depth + 1
         /\ i + 1 \in Ids => Closing(i) = Tree[i].depth + 1 - Tree[i + 1].depth
         /\ i + 1 \in Ids => Closing(i) <= Tree[i].depth
         /\ i + 1 \notin Ids => Closing(i) = Tree[i].depth + 1
<1>1. Tree[i].depth \in Nat
  BY TreeFacts
<1>2. CASE i + 1 \in Ids
  <2>1. /\ Tree[i + 1].depth \in Nat /\ Tree[i + 1].depth >= 1
        /\ Tree[i + 1].depth <= Tree[i].depth + 1
    BY <1>2, TreeFacts
  <2> QED
    BY <1>1, <1>2, <2>1 DEF Closing
<1>3. CASE i + 1 \notin Ids
  BY <1>1, <1>3 DEF Closing
<1> QED
  BY <1>2, <1>3

(* A node: its beginning, its properties, the ends behind it.              *)
LEMMA NodeTokensIs ==
  ASSUME Regular, NEW i \in Ids
  PROVE  /\ NodeTokens(i) \in Seq(Seq(Nat))
         /\ Len(NodeTokens(i)) = 1 + Len(Listing(i)) + Closing(i)
         /\ NodeTokens(i)[1] = <<FDT_BEGIN_NODE, 0>>
         /\ \A p \in 1 .. Len(Listing(i)) : NodeTokens(i)[1 + p] = Listing(i)[p]
         /\ \A e \in 1 .. Closing(i) :
              NodeTokens(i)[1 + Len(Listing(i)) + e] = <<FDT_END_NODE>>
<1>1. PICK T : T = Seq(Nat)
  OBVIOUS
<1>2. PICK s : s \in Seq(T) /\ s = Listing(i)
  BY <1>1, ListingIs
<1>3. PICK c \in Nat : c = Closing(i)
  BY ClosingIs DEF Regular
<1>4. PICK b, e : /\ b = <<FDT_BEGIN_NODE, 0>> /\ e = <<FDT_END_NODE>>
                  /\ b \in T /\ e \in T
  <2>1. <<FDT_BEGIN_NODE, 0>> \in Seq(Nat) /\ <<FDT_END_NODE>> \in Seq(Nat)
    BY DEF FDT_BEGIN_NODE, FDT_END_NODE
  <2> QED
    BY <1>1, <2>1
<1>5. PICK t : t = [k \in 1 .. c |-> e]
  OBVIOUS
<1>6. t \in Seq(T) /\ Len(t) = c /\ \A k \in 1 .. c : t[k] = e
  BY <1>4, <1>5
<1>7. NodeTokens(i) = <<b>> \o s \o t
  BY <1>2, <1>3, <1>4, <1>5 DEF NodeTokens, Listing
<1>8. PICK u : u = <<b>> \o s
  OBVIOUS
<1>9. u \in Seq(T) /\ Len(u) = 1 + Len(s) /\ Len(s) \in Nat /\ u[1] = b
  BY <1>2, <1>4, <1>8
<1>10. ASSUME NEW p \in 1 .. Len(s) PROVE u[1 + p] = s[p]
  BY <1>2, <1>4, <1>8
<1>11. u \o t \in Seq(T) /\ Len(u \o t) = 1 + Len(s) + c
  BY <1>6, <1>9
<1>12. ASSUME NEW p \in 1 .. 1 + Len(s) PROVE (u \o t)[p] = u[p]
  BY <1>6, <1>9
<1>13. ASSUME NEW k \in 1 .. c PROVE (u \o t)[1 + Len(s) + k] = e
  <2>1. (u \o t)[Len(u) + k] = t[k]
    BY <1>6, <1>9
  <2> QED
    BY <1>6, <1>9, <2>1
<1>14. ASSUME NEW p \in 1 .. Len(s) PROVE (u \o t)[1 + p] = s[p]
  <2>1. 1 + p \in 1 .. 1 + Len(s)
    BY <1>9
  <2> QED
    BY <1>10, <1>12, <2>1
<1>15. (u \o t)[1] = b
  <2>1. 1 \in 1 .. 1 + Len(s)
    BY <1>9
  <2> QED
    BY <1>9, <1>12, <2>1
<1>16. NodeTokens(i) = u \o t
  BY <1>7, <1>8
<1> HIDE DEF Listing, Closing, NodeTokens
<1> QED
  BY <1>1, <1>2, <1>3, <1>4, <1>11, <1>13, <1>14, <1>15, <1>16

(* The tokens of all nodes, and where they are.                            *)
Parts       == [i \in Ids |-> NodeTokens(i)]
Place(i, x) == Before(Parts, i) + x

(* They are lists of tokens.                                               *)
LEMMA PartsAre ==
  ASSUME Regular
  PROVE  /\ Parts \in Seq(Seq(Seq(Nat))) /\ Len(Parts) = Len(Tree)
         /\ \A i \in Ids : Parts[i] = NodeTokens(i)
<1>1. Len(Tree) \in Nat /\ Ids = 1 .. Len(Tree)
  BY TreeFacts DEF Regular
<1>2. \A i \in Ids : NodeTokens(i) \in Seq(Seq(Nat))
  BY NodeTokensIs
<1> QED
  BY <1>1, <1>2 DEF Parts

(* The tokens of the document are those of its nodes and FDT_END.          *)
LEMMA TokensIs ==
  ASSUME Regular
  PROVE  Tokens = FlattenSeq(Parts) \o << <<FDT_END>> >>
<1> DEFINE n == Len(Tree)
           T == Seq(Nat)
           Upto(f) == f = [i \in 0 .. n |->
                             IF i = 0 THEN <<>> ELSE f[i - 1] \o NodeTokens(i)]
           upTo == CHOOSE f : Upto(f)
<1>1. Parts \in Seq(Seq(T)) /\ Len(Parts) = n /\ \A i \in 1 .. n : Parts[i] = NodeTokens(i)
      /\ n \in Nat
  BY PartsAre, TreeFacts DEF Regular
<1>2. PICK f \in [0 .. n -> Seq(T)] : Joins(f, Parts)
  BY <1>1, JoinExists
<1>3. /\ f[0] = <<>>
      /\ \A i \in 1 .. n : f[i] = f[i - 1] \o NodeTokens(i)
  BY <1>1, <1>2 DEF Joins
<1>4. Upto(f)
  <2>1. \A i \in 0 .. n : i = 0 \/ i \in 1 .. n
    BY <1>1
  <2>2. \A i \in 0 .. n : f[i] = IF i = 0 THEN <<>> ELSE f[i - 1] \o NodeTokens(i)
    BY <1>3, <2>1
  <2> QED
    BY <2>2
<1>5. Upto(upTo)
  BY <1>4, Zenon
<1> HIDE DEF upTo
<1>6. \A i \in 0 .. n : upTo[i] = IF i = 0 THEN <<>> ELSE upTo[i - 1] \o NodeTokens(i)
  BY <1>5, Zenon
<1> DEFINE A == {k \in Nat : k <= n => upTo[k] = f[k]}
<1>7. 0 \in A
  BY <1>1, <1>3, <1>6
<1>8. ASSUME NEW k \in A PROVE k + 1 \in A
  <2> SUFFICES ASSUME k + 1 <= n PROVE upTo[k + 1] = f[k + 1]
    OBVIOUS
  <2>1. k + 1 \in 0 .. n /\ k + 1 \in 1 .. n /\ (k + 1) - 1 = k /\ k + 1 # 0 /\ k <= n
    BY <1>1
  <2>2. upTo[k + 1] = upTo[k] \o NodeTokens(k + 1)
    BY <1>6, <2>1
  <2>3. f[k + 1] = f[k] \o NodeTokens(k + 1)
    BY <1>3, <2>1
  <2> QED
    BY <2>1, <2>2, <2>3
<1>9. upTo[n] = f[n]
  <2>1. A = Nat
    BY <1>7, <1>8, Induction
  <2> QED
    BY <1>1, <2>1
<1>10. FlattenSeq(Parts) = f[n]
  BY <1>1, <1>2, FlattenIsJoin
<1>11. Tokens = upTo[n] \o << <<FDT_END>> >>
  BY DEF Tokens, upTo
<1> QED
  BY <1>9, <1>10, <1>11

(* The nodes follow one another up to FDT_END.                             *)
LEMMA PlacesAre ==
  ASSUME Regular
  PROVE  /\ Tokens \in Seq(Seq(Nat)) /\ Len(Tokens) = Place(Len(Tree) + 1, 1)
         /\ Tokens[Len(Tokens)] = <<FDT_END>> /\ Place(1, 0) = 0
         /\ \A i \in 1 .. Len(Tree) + 1 :
              /\ Before(Parts, i) \in Nat /\ Place(i, 0) = Before(Parts, i)
         /\ \A i \in Ids :
              /\ Place(i + 1, 0) = Place(i, 0) + 1 + Len(Listing(i)) + Closing(i)
              /\ Place(i + 1, 0) < Len(Tokens)
<1>1. /\ Parts \in Seq(Seq(Seq(Nat))) /\ Len(Parts) = Len(Tree)
      /\ \A i \in Ids : Parts[i] = NodeTokens(i)
  BY PartsAre
<1>2. Len(Tree) \in Nat /\ Ids = 1 .. Len(Tree)
  BY TreeFacts DEF Regular
<1>3. PICK T : T = Seq(Nat)
  OBVIOUS
<1>4. PICK a : a = FlattenSeq(Parts)
  OBVIOUS
<1>5. /\ a \in Seq(T)
      /\ Before(Parts, 1) = 0 /\ Before(Parts, Len(Tree) + 1) = Len(a)
      /\ \A i \in 1 .. Len(Tree) + 1 : Before(Parts, i) \in Nat
      /\ \A i \in 1 .. Len(Tree) :
           /\ Before(Parts, i + 1) = Before(Parts, i) + Len(Parts[i])
           /\ Before(Parts, i + 1) <= Len(a)
  <2>1. Parts \in Seq(Seq(T))
    BY <1>1, <1>3
  <2>2. /\ FlattenSeq(Parts) \in Seq(T)
        /\ Before(Parts, 1) = 0 /\ Before(Parts, Len(Parts) + 1) = Len(FlattenSeq(Parts))
        /\ \A k \in 1 .. Len(Parts) + 1 : Before(Parts, k) \in Nat
        /\ \A k \in 1 .. Len(Parts) :
              /\ Before(Parts, k + 1) = Before(Parts, k) + Len(Parts[k])
              /\ Before(Parts, k + 1) <= Len(FlattenSeq(Parts))
    BY <2>1, Pieces
  <2> QED
    BY <1>1, <1>4, <2>2
<1>6. PICK z : z = <<FDT_END>> /\ z \in T
  <2>1. <<FDT_END>> \in Seq(Nat)
    BY DEF FDT_END
  <2> QED
    BY <1>3, <2>1
<1>7. Tokens = a \o <<z>>
  BY <1>4, <1>6, TokensIs
<1>8. a \o <<z>> \in Seq(T) /\ Len(a \o <<z>>) = Len(a) + 1 /\ Len(a) \in Nat
      /\ (a \o <<z>>)[Len(a) + 1] = z
  BY <1>5, <1>6
<1>9. \A i \in Ids : Len(NodeTokens(i)) = 1 + Len(Listing(i)) + Closing(i)
  BY NodeTokensIs
<1>10. \A i \in Ids : Len(Listing(i)) \in Nat /\ Closing(i) \in Nat
  BY ListingIs, ClosingIs DEF Regular
<1> HIDE DEF Listing, Closing, NodeTokens, Parts
<1>11. \A i \in 1 .. Len(Tree) + 1 : Before(Parts, i) \in Nat /\ Place(i, 0) = Before(Parts, i)
  BY <1>5 DEF Place
<1>12. Place(1, 0) = 0
  BY <1>5 DEF Place
<1>13. ASSUME NEW i \in Ids
       PROVE  /\ Place(i + 1, 0) = Place(i, 0) + 1 + Len(Listing(i)) + Closing(i)
              /\ Place(i + 1, 0) < Len(Tokens)
  <2>1. i \in 1 .. Len(Tree) + 1 /\ i + 1 \in 1 .. Len(Tree) + 1 /\ i \in 1 .. Len(Tree)
    BY <1>2
  <2>2. Before(Parts, i + 1) = Before(Parts, i) + Len(Parts[i])
        /\ Before(Parts, i + 1) <= Len(a)
    BY <1>5, <2>1
  <2>3. Len(Parts[i]) = 1 + Len(Listing(i)) + Closing(i)
    BY <1>1, <1>9
  <2>4. Place(i + 1, 0) = Before(Parts, i + 1) /\ Place(i, 0) = Before(Parts, i)
        /\ Before(Parts, i + 1) \in Nat /\ Before(Parts, i) \in Nat
    BY <1>11, <2>1
  <2>5. Len(Tokens) = Len(a) + 1 /\ Len(a) \in Nat
    BY <1>7, <1>8
  <2> QED
    BY <1>10, <2>2, <2>3, <2>4, <2>5
<1>14. Len(Tokens) = Place(Len(Tree) + 1, 1)
  BY <1>5, <1>7, <1>8 DEF Place
<1> QED
  BY <1>3, <1>6, <1>7, <1>8, <1>11, <1>12, <1>13, <1>14

(* What is at the places of a node.                                        *)
LEMMA TokensAt ==
  ASSUME Regular, NEW i \in Ids
  PROVE  /\ Tokens[Place(i, 1)] = <<FDT_BEGIN_NODE, 0>>
         /\ \A p \in 1 .. Len(Listing(i)) : Tokens[Place(i, 1 + p)] = Listing(i)[p]
         /\ \A e \in 1 .. Closing(i) :
              Tokens[Place(i, 1 + Len(Listing(i)) + e)] = <<FDT_END_NODE>>
<1>1. /\ Parts \in Seq(Seq(Seq(Nat))) /\ Len(Parts) = Len(Tree)
      /\ \A j \in Ids : Parts[j] = NodeTokens(j)
  BY PartsAre
<1>2. Len(Tree) \in Nat /\ Ids = 1 .. Len(Tree)
  BY TreeFacts DEF Regular
<1>3. PICK T : T = Seq(Nat)
  OBVIOUS
<1>4. PICK a : a = FlattenSeq(Parts)
  OBVIOUS
<1>5. /\ a \in Seq(T) /\ Before(Parts, i) \in Nat
      /\ Before(Parts, i + 1) = Before(Parts, i) + Len(Parts[i])
      /\ Before(Parts, i + 1) <= Len(a)
      /\ \A q \in 1 .. Len(Parts[i]) : a[Before(Parts, i) + q] = Parts[i][q]
  <2>1. Parts \in Seq(Seq(T)) /\ i \in 1 .. Len(Parts) /\ i \in 1 .. Len(Parts) + 1
    BY <1>1, <1>2, <1>3
  <2>2. /\ FlattenSeq(Parts) \in Seq(T)
        /\ \A k \in 1 .. Len(Parts) + 1 : Before(Parts, k) \in Nat
        /\ \A k \in 1 .. Len(Parts) :
              /\ Before(Parts, k + 1) = Before(Parts, k) + Len(Parts[k])
              /\ Before(Parts, k + 1) <= Len(FlattenSeq(Parts))
              /\ \A q \in 1 .. Len(Parts[k]) :
                   FlattenSeq(Parts)[Before(Parts, k) + q] = Parts[k][q]
    BY <2>1, Pieces
  <2> QED
    BY <1>4, <2>1, <2>2
<1>6. PICK z : z = <<FDT_END>> /\ z \in T
  <2>1. <<FDT_END>> \in Seq(Nat)
    BY DEF FDT_END
  <2> QED
    BY <1>3, <2>1
<1>7. Tokens = a \o <<z>>
  BY <1>4, <1>6, TokensIs
<1>8. \A q \in 1 .. Len(a) : (a \o <<z>>)[q] = a[q]
  BY <1>5, <1>6
<1>9. Len(a) \in Nat
  BY <1>5
<1>10. PICK L \in Nat, c \in Nat : L = Len(Listing(i)) /\ c = Closing(i)
  BY ListingIs, ClosingIs DEF Regular
<1>11. PICK w : /\ w = NodeTokens(i) /\ Len(w) = 1 + L + c
                /\ w[1] = <<FDT_BEGIN_NODE, 0>>
                /\ \A p \in 1 .. L : w[1 + p] = Listing(i)[p]
                /\ \A e \in 1 .. c : w[1 + L + e] = <<FDT_END_NODE>>
  BY <1>10, NodeTokensIs
<1> HIDE DEF Listing, Closing, NodeTokens, Parts
<1>12. ASSUME NEW q \in 1 .. 1 + L + c PROVE Tokens[Place(i, q)] = w[q]
  <2>1. Parts[i] = w
    BY <1>1, <1>11
  <2>2. Before(Parts, i) + q \in 1 .. Len(a)
    BY <1>5, <1>9, <1>11, <2>1
  <2>3. a[Before(Parts, i) + q] = w[q]
    BY <1>5, <1>11, <2>1
  <2> QED
    BY <1>7, <1>8, <2>2, <2>3 DEF Place
<1>13. /\ 1 \in 1 .. 1 + L + c
       /\ \A p \in 1 .. L : 1 + p \in 1 .. 1 + L + c
       /\ \A e \in 1 .. c : 1 + L + e \in 1 .. 1 + L + c
  BY <1>10
<1> QED
  BY <1>10, <1>11, <1>12, <1>13

-----------------------------------------------------------------------------
(* Edits of a list of tokens.                                              *)

(* The last elements of a list, from the k-th.                             *)
LEMMA Ending ==
  ASSUME NEW S, NEW s \in Seq(S), NEW k \in 1 .. Len(s) + 1
  PROVE  /\ SubSeq(s, k, Len(s)) \in Seq(S)
         /\ Len(SubSeq(s, k, Len(s))) = Len(s) + 1 - k
         /\ \A i \in 1 .. Len(s) + 1 - k : SubSeq(s, k, Len(s))[i] = s[k - 1 + i]
<1>1. PICK n \in Nat : n = Len(s)
  OBVIOUS
<1> DEFINE u == SubSeq(s, k, n)
<1>2. /\ k \in Int /\ n \in Int
      /\ \A i \in k .. n : s[i] \in S
  BY <1>1
<1>3. /\ u \in Seq(S) /\ Len(u) = IF k <= n THEN n - k + 1 ELSE 0
      /\ \A i \in 1 .. n - k + 1 : u[i] = s[k + i - 1]
  BY <1>2, SubSeqProperties
<1> HIDE DEF u
<1>4. Len(u) = n + 1 - k
  BY <1>1, <1>3
<1>5. ASSUME NEW i \in 1 .. n + 1 - k PROVE u[i] = s[k - 1 + i]
  <2>1. i \in 1 .. n - k + 1 /\ k + i - 1 = k - 1 + i
    BY <1>1
  <2> QED
    BY <1>3, <2>1
<1> QED
  BY <1>1, <1>3, <1>4, <1>5 DEF u

IsJoin(x, u, v) == /\ Len(x) = Len(u) + Len(v) /\ Len(u) \in Nat /\ Len(v) \in Nat
                   /\ \A i \in 1 .. Len(u) : x[i] = u[i]
                   /\ \A i \in Len(u) + 1 .. Len(u) + Len(v) : x[i] = v[i - Len(u)]

(* What is where in a list of two parts.                                   *)
LEMMA JoinIs ==
  ASSUME NEW S, NEW u \in Seq(S), NEW v \in Seq(S)
  PROVE  IsJoin(u \o v, u, v)
<1>1. Len(u \o v) = Len(u) + Len(v) /\ Len(u) \in Nat /\ Len(v) \in Nat
  OBVIOUS
<1>2. \A i \in 1 .. Len(u) : (u \o v)[i] = u[i]
  OBVIOUS
<1>3. ASSUME NEW i \in Len(u) + 1 .. Len(u) + Len(v) PROVE (u \o v)[i] = v[i - Len(u)]
  OBVIOUS
<1> QED
  BY <1>1, <1>2, <1>3 DEF IsJoin

IsInsert(x, s, k, e) == /\ Len(x) = Len(s) + 1 /\ x[k] = e
                        /\ \A i \in 1 .. k - 1 : x[i] = s[i]
                        /\ \A i \in k .. Len(s) : x[i + 1] = s[i]

(* InsertAt moves what is behind it by one.                                *)
LEMMA Inserted ==
  ASSUME NEW S, NEW s \in Seq(S), NEW k \in 1 .. Len(s), NEW e \in S
  PROVE  InsertAt(s, k, e) \in Seq(S) /\ IsInsert(InsertAt(s, k, e), s, k, e)
<1>1. PICK n \in Nat : n = Len(s) /\ k \in Nat /\ k >= 1 /\ k <= n
  OBVIOUS
<1>2. PICK u : /\ u = SubSeq(s, 1, k - 1) /\ u \in Seq(S) /\ Len(u) = k - 1
               /\ \A i \in 1 .. k - 1 : u[i] = s[i]
  <2>1. k - 1 \in 0 .. Len(s)
    BY <1>1
  <2> QED
    BY <2>1, Beginning
<1>3. PICK v : /\ v = SubSeq(s, k, n) /\ v \in Seq(S) /\ Len(v) = n + 1 - k
               /\ \A i \in 1 .. n + 1 - k : v[i] = s[k - 1 + i]
  <2>1. k \in 1 .. Len(s) + 1
    BY <1>1
  <2> QED
    <3>1. /\ SubSeq(s, k, Len(s)) \in Seq(S)
          /\ Len(SubSeq(s, k, Len(s))) = Len(s) + 1 - k
          /\ \A i \in 1 .. Len(s) + 1 - k : SubSeq(s, k, Len(s))[i] = s[k - 1 + i]
      BY <2>1, Ending
    <3> QED
      BY <1>1, <3>1
<1>4. PICK x : x = u \o <<e>>
  OBVIOUS
<1>5. x \in Seq(S) /\ Len(x) = k /\ x[k] = e
  BY <1>1, <1>2, <1>4
<1>6. ASSUME NEW i \in 1 .. k - 1 PROVE x[i] = s[i]
  BY <1>1, <1>2, <1>4
<1>13. PICK m : m \in Nat /\ m = n + 1 - k
  <2>1. n + 1 - k \in Nat
    BY <1>1
  <2> QED
    BY <2>1
<1>14. /\ x \o v \in Seq(S) /\ Len(x \o v) = k + m
       /\ \A i \in 1 .. k : (x \o v)[i] = x[i]
       /\ \A i \in k + 1 .. k + m : (x \o v)[i] = v[i - k]
  <2>1. x \in Seq(S) /\ v \in Seq(S) /\ k \in Nat /\ Len(x) = k /\ Len(v) = m
    BY <1>1, <1>3, <1>5, <1>13
  <2>2. IsJoin(x \o v, x, v)
    BY <2>1, JoinIs
  <2>3. x \o v \in Seq(S)
    BY <2>1
  <2> QED
    BY <2>1, <2>2, <2>3 DEF IsJoin
<1>7. x \o v \in Seq(S) /\ Len(x \o v) = n + 1
  BY <1>1, <1>13, <1>14
<1>8. ASSUME NEW i \in 1 .. k PROVE (x \o v)[i] = x[i]
  BY <1>14
<1>9. ASSUME NEW i \in k .. n PROVE (x \o v)[i + 1] = s[i]
  <2>1. PICK j \in 1 .. n + 1 - k : j = i + 1 - k /\ k - 1 + j = i
                                    /\ i + 1 \in k + 1 .. k + m /\ (i + 1) - k = j
    BY <1>1, <1>13
  <2>2. (x \o v)[i + 1] = v[j]
    BY <1>14, <2>1
  <2> QED
    BY <1>3, <2>1, <2>2
<1>10. InsertAt(s, k, e) = x \o v
  BY <1>1, <1>2, <1>3, <1>4 DEF InsertAt
<1>11. ASSUME NEW i \in 1 .. k - 1 PROVE (x \o v)[i] = s[i]
  <2>1. i \in 1 .. k
    BY <1>1
  <2> QED
    BY <1>6, <1>8, <2>1
<1>12. (x \o v)[k] = e
  <2>1. k \in 1 .. k
    BY <1>1
  <2> QED
    BY <1>5, <1>8, <2>1
<1> QED
  BY <1>1, <1>7, <1>9, <1>10, <1>11, <1>12 DEF IsInsert

IsRemove(x, s, k) == /\ Len(x) = Len(s) - 1
                     /\ \A i \in 1 .. k - 1 : x[i] = s[i]
                     /\ \A i \in k .. Len(s) - 1 : x[i] = s[i + 1]

(* RemoveAt closes the gap.                                                *)
LEMMA Removed ==
  ASSUME NEW S, NEW s \in Seq(S), NEW k \in 1 .. Len(s)
  PROVE  RemoveAt(s, k) \in Seq(S) /\ IsRemove(RemoveAt(s, k), s, k)
<1>1. PICK n \in Nat : n = Len(s) /\ k \in Nat /\ k >= 1 /\ k <= n
  OBVIOUS
<1>2. PICK u : /\ u = SubSeq(s, 1, k - 1) /\ u \in Seq(S) /\ Len(u) = k - 1
               /\ \A i \in 1 .. k - 1 : u[i] = s[i]
  <2>1. k - 1 \in 0 .. Len(s)
    BY <1>1
  <2> QED
    BY <2>1, Beginning
<1>3. PICK v : /\ v = SubSeq(s, k + 1, n) /\ v \in Seq(S) /\ Len(v) = n - k
               /\ \A i \in 1 .. n - k : v[i] = s[k + i]
  <2>1. k + 1 \in 1 .. Len(s) + 1 /\ n + 1 - (k + 1) = n - k
        /\ \A i \in 1 .. n - k : (k + 1) - 1 + i = k + i
    BY <1>1
  <2>2. /\ SubSeq(s, k + 1, n) \in Seq(S) /\ Len(SubSeq(s, k + 1, n)) = n + 1 - (k + 1)
        /\ \A i \in 1 .. n + 1 - (k + 1) : SubSeq(s, k + 1, n)[i] = s[(k + 1) - 1 + i]
    BY <1>1, <2>1, Ending
  <2> QED
    BY <2>1, <2>2
<1>8. PICK m, l : m \in Nat /\ l \in Nat /\ m = n - k /\ l = k - 1
  <2>1. n - k \in Nat /\ k - 1 \in Nat
    BY <1>1
  <2> QED
    BY <2>1
<1>9. /\ u \o v \in Seq(S) /\ Len(u \o v) = l + m
      /\ \A i \in 1 .. l : (u \o v)[i] = u[i]
      /\ \A i \in l + 1 .. l + m : (u \o v)[i] = v[i - l]
  <2>1. u \in Seq(S) /\ v \in Seq(S) /\ Len(u) = l /\ Len(v) = m
    BY <1>2, <1>3, <1>8
  <2>2. IsJoin(u \o v, u, v)
    BY <2>1, JoinIs
  <2>3. u \o v \in Seq(S)
    BY <2>1
  <2> QED
    BY <2>1, <2>2, <2>3 DEF IsJoin
<1>4. u \o v \in Seq(S) /\ Len(u \o v) = n - 1
  BY <1>1, <1>8, <1>9
<1>5. ASSUME NEW i \in 1 .. k - 1 PROVE (u \o v)[i] = s[i]
  BY <1>2, <1>8, <1>9
<1>6. ASSUME NEW i \in k .. n - 1 PROVE (u \o v)[i] = s[i + 1]
  <2>1. PICK j \in 1 .. n - k : j = i - l /\ k + j = i + 1 /\ i \in l + 1 .. l + m
    BY <1>1, <1>8
  <2>2. (u \o v)[i] = v[j]
    BY <1>9, <2>1
  <2> QED
    BY <1>3, <2>1, <2>2
<1>7. RemoveAt(s, k) = u \o v
  BY <1>1, <1>2, <1>3 DEF RemoveAt
<1> QED
  BY <1>1, <1>4, <1>5, <1>6, <1>7 DEF IsRemove

-----------------------------------------------------------------------------
(* Well-formed tokens; the last one is FDT_END and no other is.            *)
WellToken == {t \in Seq(Nat) : \/ t = <<FDT_BEGIN_NODE, 0>>
                               \/ t = <<FDT_END_NODE>>
                               \/ t = <<FDT_NOP>>
                               \/ /\ Len(t) >= 3 /\ t[1] = FDT_PROP
                                  /\ Len(t) = 3 + Padded(t[2])}

Written(ts) == /\ ts \in Seq(Seq(Nat)) /\ Len(ts) >= 1
               /\ ts[Len(ts)] = <<FDT_END>>
               /\ \A k \in 1 .. Len(ts) - 1 : ts[k] \in WellToken

(* A tree is written in well-formed tokens.                                *)
LEMMA TokensWritten ==
  ASSUME Regular
  PROVE  Written(Tokens)
<1>1. PICK W : W = WellToken
  OBVIOUS
<1>2. <<FDT_BEGIN_NODE, 0>> \in WellToken /\ <<FDT_END_NODE>> \in WellToken
  <2>1. <<FDT_BEGIN_NODE, 0>> \in Seq(Nat) /\ <<FDT_END_NODE>> \in Seq(Nat)
    BY DEF FDT_BEGIN_NODE, FDT_END_NODE
  <2> QED
    BY <2>1 DEF WellToken
<1>3. ASSUME NEW i \in Ids, NEW w \in 1 .. 7, Has(i, w) PROVE Item(i, w) \in WellToken
  <2>1. /\ Item(i, w) \in Seq(Nat) /\ Len(Item(i, w)) = 3 + Len(Words(i, w))
        /\ Item(i, w)[1] = FDT_PROP /\ Item(i, w)[2] = Bytes(i, w)
    BY <1>3, ItemIs
  <2>2. Padded(Bytes(i, w)) = Len(Words(i, w)) /\ Len(Words(i, w)) \in Nat
    BY <1>3, WordsAre
  <2>3. Len(Item(i, w)) >= 3
    BY <2>1, <2>2
  <2> HIDE DEF Item, Words, Bytes
  <2> QED
    BY <2>1, <2>2, <2>3 DEF WellToken
<1>4. ASSUME NEW i \in Ids PROVE NodeTokens(i) \in Seq(W)
  <2>1. PICK s : s = NodeTokens(i)
    OBVIOUS
  <2>2. PICK L \in Nat, c \in Nat : L = Len(Listing(i)) /\ c = Closing(i)
    BY ListingIs, ClosingIs DEF Regular
  <2>3. /\ s \in Seq(Seq(Nat)) /\ Len(s) = 1 + L + c
        /\ s[1] = <<FDT_BEGIN_NODE, 0>>
        /\ \A p \in 1 .. L : s[1 + p] = Listing(i)[p]
        /\ \A e \in 1 .. c : s[1 + L + e] = <<FDT_END_NODE>>
    BY <2>1, <2>2, NodeTokensIs
  <2>4. \A p \in 1 .. L : Listing(i)[p] \in W
    BY <1>1, <1>3, <2>2, ListingIs
  <2>5. \A q \in 1 .. 1 + L + c : \/ q = 1
                                  \/ q - 1 \in 1 .. L /\ q = 1 + (q - 1)
                                  \/ q - 1 - L \in 1 .. c /\ q = 1 + L + (q - 1 - L)
    BY <2>2
  <2>6. ASSUME NEW q \in 1 .. 1 + L + c PROVE s[q] \in W
    BY <1>1, <1>2, <2>3, <2>4, <2>5
  <2> QED
    BY <2>1, <2>2, <2>3, <2>6
<1>5. PICK a : a = FlattenSeq(Parts) /\ a \in Seq(W)
  <2>1. Len(Tree) \in Nat /\ Ids = 1 .. Len(Tree)
    BY TreeFacts DEF Regular
  <2>2. Parts \in Seq(Seq(W))
    BY <1>4, <2>1 DEF Parts
  <2> QED
    BY <2>2, Pieces
<1>6. Tokens \in Seq(Seq(Nat))
  BY PlacesAre
<1>7. PICK z : z = <<FDT_END>>
  OBVIOUS
<1>8. Tokens = a \o <<z>>
  BY <1>5, <1>7, TokensIs
<1>9. Len(a \o <<z>>) = Len(a) + 1 /\ (a \o <<z>>)[Len(a) + 1] = z /\ Len(a) \in Nat
  BY <1>5
<1>10. \A k \in 1 .. Len(a) : (a \o <<z>>)[k] = a[k] /\ a[k] \in W
  BY <1>5
<1>11. /\ Len(Tokens) >= 1 /\ Tokens[Len(Tokens)] = z
       /\ \A k \in 1 .. Len(Tokens) - 1 : Tokens[k] \in W
  BY <1>8, <1>9, <1>10
<1> QED
  BY <1>1, <1>6, <1>7, <1>11 DEF Written

(* ... and what an edit makes of them is as well.                          *)
LEMMA EditedWritten ==
  ASSUME NEW ts, Written(ts), EditFits(ts)
  PROVE  Written(Edited(ts))
<1>1. PICK n \in Nat : n = Len(ts) /\ n >= 1
  <2>1. ts \in Seq(Seq(Nat)) /\ Len(ts) >= 1
    BY DEF Written
  <2>2. Len(ts) \in Nat
    BY <2>1
  <2> QED
    BY <2>1, <2>2
<1>2. /\ ts \in Seq(Seq(Nat)) /\ ts[n] = <<FDT_END>>
      /\ \A k \in 1 .. n - 1 : ts[k] \in WellToken
      /\ At \in 1 .. n
  BY <1>1 DEF Written, EditFits
<1>3. ASSUME NEW t, t \in WellToken PROVE Written(InsertAt(ts, At, t))
  <2>1. PICK u : u = InsertAt(ts, At, t)
    OBVIOUS
  <2>2. t \in Seq(Nat)
    BY <1>3 DEF WellToken
  <2>3. /\ u \in Seq(Seq(Nat)) /\ Len(u) = n + 1
        /\ \A i \in 1 .. At - 1 : u[i] = ts[i]
        /\ u[At] = t
        /\ \A i \in At .. n : u[i + 1] = ts[i]
    <3>1. PICK T : T = Seq(Nat)
      OBVIOUS
    <3>2. ts \in Seq(T) /\ At \in 1 .. Len(ts) /\ t \in T
      BY <1>1, <1>2, <2>2, <3>1
    <3>3. u \in Seq(T) /\ IsInsert(u, ts, At, t)
      BY <2>1, <3>2, Inserted
    <3> QED
      BY <1>1, <3>1, <3>3 DEF IsInsert
  <2>4. u[n + 1] = <<FDT_END>>
    BY <1>2, <2>3
  <2>5. ASSUME NEW k \in 1 .. n PROVE u[k] \in WellToken
    <3>1. CASE k < At
      <4>1. k \in 1 .. At - 1 /\ k \in 1 .. n - 1
        BY <1>1, <1>2, <3>1
      <4> QED
        BY <1>2, <2>3, <4>1
    <3>2. CASE k = At
      BY <1>3, <2>3, <3>2
    <3>3. CASE k > At
      <4>1. k - 1 \in At .. n /\ k - 1 \in 1 .. n - 1 /\ (k - 1) + 1 = k
        BY <1>1, <1>2, <3>3
      <4>2. u[k] = ts[k - 1]
        BY <2>3, <4>1
      <4> QED
        BY <1>2, <4>1, <4>2
    <3> QED
      BY <1>1, <1>2, <3>1, <3>2, <3>3
  <2>6. (n + 1) - 1 = n
    BY <1>1
  <2> QED
    BY <1>1, <2>1, <2>3, <2>4, <2>5, <2>6 DEF Written
<1>4. <<FDT_NOP>> \in WellToken /\ <<FDT_PROP, 0, 7>> \in WellToken
  <2>1. PICK b, c : b = <<FDT_NOP>> /\ c = <<FDT_PROP, 0, 7>>
    OBVIOUS
  <2>2. b \in Seq(Nat) /\ c \in Seq(Nat) /\ Len(c) = 3 /\ c[1] = FDT_PROP /\ c[2] = 0
    BY <2>1 DEF FDT_NOP, FDT_PROP
  <2>3. Padded(0) = 0
    BY DEF Padded, U32
  <2>4. Len(c) = 3 + Padded(c[2]) /\ Len(c) >= 3
    BY <2>2, <2>3
  <2> QED
    BY <2>1, <2>2, <2>4 DEF WellToken
<1>5. CASE doc.edit.kind = "none"
  BY <1>5 DEF Edited
<1>6. CASE doc.edit.kind \in {"nop", "trail"}
  <2>1. Edited(ts) = InsertAt(ts, At, <<FDT_NOP>>)
    BY <1>6 DEF Edited
  <2> QED
    BY <1>3, <1>4, <2>1
<1>7. CASE doc.edit.kind = "late"
  <2>1. Edited(ts) = InsertAt(ts, At, <<FDT_PROP, 0, 7>>)
    BY <1>7 DEF Edited
  <2> QED
    BY <1>3, <1>4, <2>1
<1>8. CASE doc.edit.kind = "drop"
  <2>1. PICK u : u = RemoveAt(ts, At)
    OBVIOUS
  <2>2. Edited(ts) = u
    BY <1>8, <2>1 DEF Edited
  <2>3. ts[At][1] \in {FDT_BEGIN_NODE, FDT_END_NODE}
    BY <1>8 DEF EditFits
  <2>4. At # n
    BY <1>2, <2>3 DEF FDT_BEGIN_NODE, FDT_END_NODE, FDT_END
  <2>5. /\ u \in Seq(Seq(Nat)) /\ Len(u) = n - 1
        /\ \A i \in 1 .. At - 1 : u[i] = ts[i]
        /\ \A i \in At .. n - 1 : u[i] = ts[i + 1]
    <3>1. u \in Seq(Seq(Nat)) /\ IsRemove(u, ts, At)
      BY <1>1, <1>2, <2>1, Removed
    <3> QED
      BY <1>1, <3>1 DEF IsRemove
  <2>6. At <= n - 1 /\ At >= 1 /\ At \in Int
    BY <1>1, <1>2, <2>4
  <2>7. u[n - 1] = <<FDT_END>>
    <3>1. n - 1 \in At .. n - 1 /\ (n - 1) + 1 = n
      BY <1>1, <2>6
    <3> QED
      BY <1>2, <2>5, <3>1
  <2>8. ASSUME NEW k \in 1 .. (n - 1) - 1 PROVE u[k] \in WellToken
    <3>1. CASE k < At
      <4>1. k \in 1 .. At - 1 /\ k \in 1 .. n - 1
        BY <1>1, <2>6, <3>1
      <4> QED
        BY <1>2, <2>5, <4>1
    <3>2. CASE ~(k < At)
      <4>1. k \in At .. n - 1 /\ k + 1 \in 1 .. n - 1
        BY <1>1, <2>6, <3>2
      <4> QED
        BY <1>2, <2>5, <4>1
    <3> QED
      BY <3>1, <3>2
  <2>9. Len(u) >= 1 /\ u[Len(u)] = <<FDT_END>>
    BY <2>5, <2>6, <2>7
  <2> QED
    BY <2>2, <2>5, <2>8, <2>9 DEF Written
<1> QED
  BY <1>5, <1>6, <1>7, <1>8 DEF EditFits
=============================================================================
