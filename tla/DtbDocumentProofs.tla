------------------------- MODULE DtbDocumentProofs -------------------------
(***************************************************************************)
(* Proofs about the search of documents: of every tree, with its           *)
(* properties in either order, NOPs and all, for every query. A search of  *)
(* whatever the edits make of one stays on its tokens (OnTokens). In a     *)
(* document that is in order it is followed node by node: it hands out the *)
(* addresses the tree calls for, in their order and nothing else           *)
(* (NothingWrong), does not return Ok before the last of them              *)
(* (OkWasComplete), and fails only where it should (RefusedForCause).      *)
(***************************************************************************)
EXTENDS DtbParserProofs

-----------------------------------------------------------------------------
(* A blob that is written in tokens, and where they start.                 *)
InTokens == Written(tokens) /\ blob = FlattenSeq(tokens)
Start(k) == 1 + Before(tokens, k)

(* The words of token k are those of the blob from Start(k) on.            *)
LEMMA WordsAt ==
  ASSUME InTokens, NEW k \in 1 .. Len(tokens)
  PROVE  /\ Start(k) \in Nat /\ Start(1) = 1 /\ Start(k) >= 1
         /\ Len(tokens[k]) \in Nat /\ Len(tokens[k]) >= 1
         /\ Start(k + 1) = Start(k) + Len(tokens[k])
         /\ Start(k + 1) <= Len(blob) + 1 /\ Len(blob) \in Nat
         /\ \A q \in 1 .. Len(tokens[k]) : Word(Start(k) + (q - 1)) = tokens[k][q]
<1>1. tokens \in Seq(Seq(Nat)) /\ blob = FlattenSeq(tokens)
  BY DEF InTokens, Written
<1>2. PICK n \in Nat : n = Len(tokens) /\ k \in 1 .. n
  BY <1>1
<1>3. /\ blob \in Seq(Nat)
      /\ Before(tokens, 1) = 0
      /\ Before(tokens, k) \in Nat
      /\ Before(tokens, k + 1) = Before(tokens, k) + Len(tokens[k])
      /\ Before(tokens, k + 1) <= Len(blob)
      /\ \A q \in 1 .. Len(tokens[k]) : blob[Before(tokens, k) + q] = tokens[k][q]
  <2>1. /\ FlattenSeq(tokens) \in Seq(Nat)
        /\ Before(tokens, 1) = 0
        /\ \A i \in 1 .. Len(tokens) + 1 : Before(tokens, i) \in Nat
        /\ \A i \in 1 .. Len(tokens) :
              /\ Before(tokens, i + 1) = Before(tokens, i) + Len(tokens[i])
              /\ Before(tokens, i + 1) <= Len(FlattenSeq(tokens))
              /\ \A q \in 1 .. Len(tokens[i]) :
                   FlattenSeq(tokens)[Before(tokens, i) + q] = tokens[i][q]
    BY <1>1, Pieces
  <2>2. k \in 1 .. Len(tokens) + 1
    BY <1>2
  <2> QED
    BY <1>1, <2>1, <2>2
<1>4. Len(tokens[k]) \in Nat /\ Len(tokens[k]) >= 1
  <2>1. CASE k = n
    <3>1. tokens[k] = <<FDT_END>>
      BY <1>2, <2>1 DEF InTokens, Written
    <3> QED
      BY <3>1
  <2>2. CASE k # n
    <3>1. k \in 1 .. n - 1
      BY <1>2, <2>2
    <3>2. tokens[k] \in WellToken
      BY <1>2, <3>1 DEF InTokens, Written
    <3>3. tokens[k] \in Seq(Nat)
      BY <3>2 DEF WellToken
    <3>4. Len(tokens[k]) \in Nat
      BY <3>3
    <3>5. CASE tokens[k] = <<FDT_BEGIN_NODE, 0>>
      BY <3>4, <3>5
    <3>6. CASE tokens[k] = <<FDT_END_NODE>>
      BY <3>4, <3>6
    <3>7. CASE tokens[k] = <<FDT_NOP>>
      BY <3>4, <3>7
    <3>8. CASE Len(tokens[k]) >= 3
      BY <3>4, <3>8
    <3> QED
      BY <3>2, <3>5, <3>6, <3>7, <3>8 DEF WellToken
  <2> QED
    BY <2>1, <2>2
<1>5. Len(blob) \in Nat /\ DOMAIN blob = 1 .. Len(blob)
  BY <1>3
<1>6. ASSUME NEW q \in 1 .. Len(tokens[k])
      PROVE  Word(Start(k) + (q - 1)) = tokens[k][q]
  <2>1. Start(k) + (q - 1) = Before(tokens, k) + q
    BY <1>3, <1>4 DEF Start
  <2>2. Before(tokens, k) + q \in DOMAIN blob
    BY <1>3, <1>4, <1>5
  <2> QED
    BY <1>3, <2>1, <2>2 DEF Word
<1>7. /\ Start(k) \in Nat /\ Start(1) = 1 /\ Start(k) >= 1
      /\ Start(k + 1) = Start(k) + Len(tokens[k])
      /\ Start(k + 1) <= Len(blob) + 1
  <2>1. PICK a \in Nat, b \in Nat, l \in Nat :
          a = Before(tokens, k) /\ b = Before(tokens, k + 1) /\ l = Len(tokens[k])
    <3>1. Before(tokens, k + 1) \in Nat
      BY <1>3, <1>4
    <3> QED
      BY <1>3, <1>4, <3>1
  <2>2. Start(k) = 1 + a /\ Start(k + 1) = 1 + b /\ b = a + l /\ b <= Len(blob)
    BY <1>3, <2>1 DEF Start
  <2>3. Start(1) = 1
    BY <1>3 DEF Start
  <2>4. Start(k) \in Nat /\ Start(k) >= 1
    BY <2>2
  <2>5. Start(k + 1) = Start(k) + l /\ Start(k + 1) <= Len(blob) + 1
    BY <1>5, <2>2
  <2> QED
    BY <2>1, <2>3, <2>4, <2>5
<1> QED
  BY <1>4, <1>5, <1>6, <1>7

(* What a token is says how long it is and that there is another.          *)
LEMMA TokenIs ==
  ASSUME InTokens, NEW k \in 1 .. Len(tokens)
  PROVE  /\ Len(tokens) \in Nat
         /\ Word(Start(k)) = tokens[k][1]
         /\ tokens[k][1] \in {FDT_BEGIN_NODE, FDT_END_NODE, FDT_NOP, FDT_PROP, FDT_END}
         /\ tokens[k][1] # FDT_END => k + 1 \in 1 .. Len(tokens)
         /\ tokens[k][1] = FDT_END => k = Len(tokens)
         /\ tokens[k][1] = FDT_BEGIN_NODE => Start(k + 1) = Start(k) + 2
         /\ tokens[k][1] \in {FDT_END_NODE, FDT_NOP} => Start(k + 1) = Start(k) + 1
         /\ tokens[k][1] = FDT_PROP =>
              Start(k + 1) = Start(k) + 3 + Padded(Word(Start(k) + 1))
<1> DEFINE t == tokens[k]
<1>1. PICK n \in Nat : n = Len(tokens) /\ k \in 1 .. n
  <2>1. tokens \in Seq(Seq(Nat))
    BY DEF InTokens, Written
  <2> QED
    BY <2>1
<1>2. /\ Start(k) \in Nat /\ Len(t) \in Nat /\ Len(t) >= 1
      /\ Start(k + 1) = Start(k) + Len(t)
      /\ \A q \in 1 .. Len(t) : Word(Start(k) + (q - 1)) = t[q]
  BY WordsAt
<1>3. Word(Start(k)) = t[1]
  <2>1. 1 \in 1 .. Len(t) /\ Start(k) + (1 - 1) = Start(k)
    BY <1>2
  <2> QED
    BY <1>2, <2>1
<1>4. CASE k = n
  <2>1. t = <<FDT_END>>
    BY <1>1, <1>4 DEF InTokens, Written
  <2>2. t[1] = 9
    BY <2>1 DEF FDT_END
  <2> QED
    BY <1>1, <1>3, <1>4, <2>2
       DEF FDT_END, FDT_BEGIN_NODE, FDT_END_NODE, FDT_NOP, FDT_PROP
<1>5. CASE k # n
  <2>1. k + 1 \in 1 .. n
    BY <1>1, <1>5
  <2>2. t \in WellToken
    <3>1. k \in 1 .. n - 1
      BY <1>1, <1>5
    <3> QED
      BY <1>1, <3>1 DEF InTokens, Written
  <2>3. CASE t = <<FDT_BEGIN_NODE, 0>>
    <3>1. t[1] = 1 /\ Len(t) = 2
      BY <2>3 DEF FDT_BEGIN_NODE
    <3> QED
      BY <1>1, <1>2, <1>3, <2>1, <3>1
         DEF FDT_END, FDT_BEGIN_NODE, FDT_END_NODE, FDT_NOP, FDT_PROP
  <2>4. CASE t = <<FDT_END_NODE>>
    <3>1. t[1] = 2 /\ Len(t) = 1
      BY <2>4 DEF FDT_END_NODE
    <3> QED
      BY <1>1, <1>2, <1>3, <2>1, <3>1
         DEF FDT_END, FDT_BEGIN_NODE, FDT_END_NODE, FDT_NOP, FDT_PROP
  <2>5. CASE t = <<FDT_NOP>>
    <3>1. t[1] = 4 /\ Len(t) = 1
      BY <2>5 DEF FDT_NOP
    <3> QED
      BY <1>1, <1>2, <1>3, <2>1, <3>1
         DEF FDT_END, FDT_BEGIN_NODE, FDT_END_NODE, FDT_NOP, FDT_PROP
  <2>6. CASE Len(t) >= 3 /\ t[1] = FDT_PROP /\ Len(t) = 3 + Padded(t[2])
    <3>1. t[1] = 3
      BY <2>6 DEF FDT_PROP
    <3>2. Word(Start(k) + 1) = t[2]
      <4>1. 2 \in 1 .. Len(t) /\ Start(k) + (2 - 1) = Start(k) + 1
        BY <1>2, <2>6
      <4> QED
        BY <1>2, <4>1
    <3>3. t \in Seq(Nat)
      BY <2>2 DEF WellToken
    <3>4. t[2] \in Nat
      BY <2>6, <3>3
    <3>5. Padded(t[2]) \in Nat
      BY <3>4 DEF Padded, U32
    <3>6. Start(k + 1) = Start(k) + 3 + Padded(Word(Start(k) + 1))
      BY <1>2, <2>6, <3>2, <3>5
    <3> HIDE DEF t
    <3> QED
      BY <1>1, <1>3, <2>1, <3>1, <3>6
         DEF FDT_END, FDT_BEGIN_NODE, FDT_END_NODE, FDT_NOP, FDT_PROP, t
  <2> QED
    BY <2>2, <2>3, <2>4, <2>5, <2>6 DEF WellToken
<1> QED
  BY <1>4, <1>5

(* One more token counted.                                                 *)
LEMMA BalanceIs ==
  ASSUME NEW ts, ts \in Seq(Seq(Nat))
  PROVE  /\ Balance(SubSeq(ts, 1, 0)) = 0
         /\ \A k \in 0 .. Len(ts) : Balance(SubSeq(ts, 1, k)) \in Int
         /\ \A k \in 1 .. Len(ts) :
              /\ ts[k][1] = FDT_BEGIN_NODE =>
                   Balance(SubSeq(ts, 1, k)) = Balance(SubSeq(ts, 1, k - 1)) + 1
              /\ ts[k][1] = FDT_END_NODE =>
                   Balance(SubSeq(ts, 1, k)) = Balance(SubSeq(ts, 1, k - 1)) - 1
              /\ ts[k][1] \notin {FDT_BEGIN_NODE, FDT_END_NODE} =>
                   Balance(SubSeq(ts, 1, k)) = Balance(SubSeq(ts, 1, k - 1))
<1> DEFINE Of(k, x) == {j \in 1 .. k : ts[j][1] = x}
<1>1. PICK n \in Nat : n = Len(ts)
  OBVIOUS
<1>2. ASSUME NEW k \in 0 .. n
      PROVE  Balance(SubSeq(ts, 1, k))
             = Cardinality(Of(k, FDT_BEGIN_NODE)) - Cardinality(Of(k, FDT_END_NODE))
  <2>1. PICK u : u = SubSeq(ts, 1, k)
    OBVIOUS
  <2>2. /\ u \in Seq(Seq(Nat)) /\ Len(u) = k /\ \A i \in 1 .. k : u[i] = ts[i]
    <3>1. PICK T : T = Seq(Nat)
      OBVIOUS
    <3>2. ts \in Seq(T) /\ k \in 0 .. Len(ts)
      BY <1>1, <3>1
    <3> QED
      BY <2>1, <3>1, <3>2, Beginning
  <2>3. DOMAIN u = 1 .. k
    BY <2>2
  <2>4. \A x : {j \in DOMAIN u : u[j][1] = x} = Of(k, x)
    BY <2>2, <2>3
  <2>5. Balance(u) = Cardinality({j \in DOMAIN u : u[j][1] = FDT_BEGIN_NODE})
                     - Cardinality({j \in DOMAIN u : u[j][1] = FDT_END_NODE})
    BY DEF Balance
  <2>6. /\ {j \in DOMAIN u : u[j][1] = FDT_BEGIN_NODE} = Of(k, FDT_BEGIN_NODE)
        /\ {j \in DOMAIN u : u[j][1] = FDT_END_NODE} = Of(k, FDT_END_NODE)
    BY <2>4
  <2> HIDE DEF Of
  <2> QED
    BY <2>1, <2>5, <2>6
<1>3. ASSUME NEW k \in 0 .. n, NEW x
      PROVE  IsFiniteSet(Of(k, x)) /\ Cardinality(Of(k, x)) \in Nat
  <2>1. 1 \in Int /\ k \in Int
    OBVIOUS
  <2>2. IsFiniteSet(1 .. k)
    BY <2>1, FS_Interval, Zenon
  <2>3. Of(k, x) \subseteq 1 .. k
    OBVIOUS
  <2>4. IsFiniteSet(Of(k, x))
    BY <2>2, <2>3, FS_Subset, Zenon
  <2> QED
    BY <2>4, FS_CardinalityType, Zenon
<1>4. ASSUME NEW k \in 1 .. n, NEW x
      PROVE  Cardinality(Of(k, x)) = Cardinality(Of(k - 1, x))
                                     + IF ts[k][1] = x THEN 1 ELSE 0
  <2>1. k - 1 \in 0 .. n /\ \A j : j \in 1 .. k <=> j \in 1 .. k - 1 \/ j = k
    BY <1>1
  <2>2. IsFiniteSet(Of(k - 1, x)) /\ Cardinality(Of(k - 1, x)) \in Nat
    BY <1>3, <2>1
  <2>3. CASE ts[k][1] = x
    <3>1. Of(k, x) = Of(k - 1, x) \cup {k}
      BY <2>1, <2>3
    <3>2. k \notin Of(k - 1, x)
      BY <1>1
    <3> HIDE DEF Of
    <3>3. Cardinality(Of(k - 1, x) \cup {k}) = Cardinality(Of(k - 1, x)) + 1
      BY <2>2, <3>2, FS_AddElement
    <3> QED
      BY <2>3, <3>1, <3>3
  <2>4. CASE ts[k][1] # x
    <3>1. Of(k, x) = Of(k - 1, x)
      BY <2>1, <2>4
    <3> HIDE DEF Of
    <3> QED
      BY <2>2, <2>4, <3>1
  <2> QED
    BY <2>3, <2>4
<1>5. Balance(SubSeq(ts, 1, 0)) = 0
  <2>1. \A x : Of(0, x) = {}
    OBVIOUS
  <2>2. Cardinality({}) = 0
    BY FS_EmptySet
  <2>3. 0 \in 0 .. n
    BY <1>1
  <2> HIDE DEF Of
  <2>4. Of(0, FDT_BEGIN_NODE) = {} /\ Of(0, FDT_END_NODE) = {}
    BY <2>1, Zenon
  <2>5. Cardinality(Of(0, FDT_BEGIN_NODE)) = 0 /\ Cardinality(Of(0, FDT_END_NODE)) = 0
    BY <2>2, <2>4, Zenon
  <2>6. PICK B : B = Balance(SubSeq(ts, 1, 0))
    OBVIOUS
  <2>7. B = Cardinality(Of(0, FDT_BEGIN_NODE)) - Cardinality(Of(0, FDT_END_NODE))
    BY <1>2, <2>3, <2>6, Zenon
  <2>8. B = 0
    BY <2>5, <2>7
  <2> QED
    BY <2>6, <2>8, Zenon
<1> HIDE DEF Of
<1>6. ASSUME NEW k \in 1 .. n
      PROVE  /\ ts[k][1] = FDT_BEGIN_NODE =>
                   Balance(SubSeq(ts, 1, k)) = Balance(SubSeq(ts, 1, k - 1)) + 1
             /\ ts[k][1] = FDT_END_NODE =>
                   Balance(SubSeq(ts, 1, k)) = Balance(SubSeq(ts, 1, k - 1)) - 1
             /\ ts[k][1] \notin {FDT_BEGIN_NODE, FDT_END_NODE} =>
                   Balance(SubSeq(ts, 1, k)) = Balance(SubSeq(ts, 1, k - 1))
  <2>1. k \in 0 .. n /\ k - 1 \in 0 .. n
    BY <1>1
  <2>2. PICK b \in Nat, e \in Nat : b = Cardinality(Of(k - 1, FDT_BEGIN_NODE))
                                    /\ e = Cardinality(Of(k - 1, FDT_END_NODE))
    BY <1>3, <2>1
  <2>3. Balance(SubSeq(ts, 1, k - 1)) = b - e
    BY <1>2, <2>1, <2>2
  <2>4. Cardinality(Of(k, FDT_BEGIN_NODE)) = b + IF ts[k][1] = FDT_BEGIN_NODE THEN 1 ELSE 0
    BY <1>4, <2>2
  <2>5. Cardinality(Of(k, FDT_END_NODE)) = e + IF ts[k][1] = FDT_END_NODE THEN 1 ELSE 0
    BY <1>4, <2>2
  <2>6. Balance(SubSeq(ts, 1, k)) = Cardinality(Of(k, FDT_BEGIN_NODE))
                                    - Cardinality(Of(k, FDT_END_NODE))
    BY <1>2, <2>1
  <2>7. FDT_BEGIN_NODE # FDT_END_NODE
    BY DEF FDT_BEGIN_NODE, FDT_END_NODE
  <2> QED
    BY <2>2, <2>3, <2>4, <2>5, <2>6, <2>7
<1>7. ASSUME NEW k \in 0 .. n PROVE Balance(SubSeq(ts, 1, k)) \in Int
  BY <1>2, <1>3
<1> QED
  BY <1>1, <1>5, <1>6, <1>7

-----------------------------------------------------------------------------
(* Walking from token to token.                                            *)

Reading == {"props", "deliver", "children", "end"}

(* The pointer p is at token k, with d nodes begun and not ended.          *)
OnToken(k, p, d, c) ==
  /\ k \in 1 .. Len(tokens) /\ p = Start(k)
  /\ d = Balance(SubSeq(tokens, 1, k - 1))
  /\ \A j \in 2 .. k - 1 : tokens[j][1] = FDT_PROP => tokens[j - 1][1] # FDT_END_NODE
  /\ c = "props" => k >= 2 /\ tokens[k - 1][1] # FDT_END_NODE

Change(x) == IF x = FDT_BEGIN_NODE THEN 1 ELSE IF x = FDT_END_NODE THEN -1 ELSE 0

(* Where the next token is, a token further on, the balance follows it.    *)
LEMMA Advance ==
  ASSUME InTokens, NEW k, NEW p, NEW d, NEW c, NEW c2, OnToken(k, p, d, c),
         Word(p) # FDT_END, Word(p) = FDT_PROP => c = "props",
         c2 = "props" => Word(p) # FDT_END_NODE
  PROVE  OnToken(k + 1, Start(k + 1), d + Change(Word(p)), c2)
<1>1. /\ k \in 1 .. Len(tokens) /\ p = Start(k)
      /\ d = Balance(SubSeq(tokens, 1, k - 1))
      /\ \A j \in 2 .. k - 1 : tokens[j][1] = FDT_PROP => tokens[j - 1][1] # FDT_END_NODE
      /\ c = "props" => k >= 2 /\ tokens[k - 1][1] # FDT_END_NODE
  BY DEF OnToken
<1>2. Word(p) = tokens[k][1] /\ k + 1 \in 1 .. Len(tokens) /\ Len(tokens) \in Nat
  BY <1>1, TokenIs
<1>3. tokens \in Seq(Seq(Nat))
  BY DEF InTokens, Written
<1>4. Balance(SubSeq(tokens, 1, k)) = d + Change(Word(p))
  <2>1. Balance(SubSeq(tokens, 1, k - 1)) \in Int
    <3>1. k - 1 \in 0 .. Len(tokens)
      BY <1>1, <1>2
    <3> QED
      BY <1>3, <3>1, BalanceIs
  <2>2. /\ tokens[k][1] = FDT_BEGIN_NODE =>
             Balance(SubSeq(tokens, 1, k)) = Balance(SubSeq(tokens, 1, k - 1)) + 1
        /\ tokens[k][1] = FDT_END_NODE =>
             Balance(SubSeq(tokens, 1, k)) = Balance(SubSeq(tokens, 1, k - 1)) - 1
        /\ tokens[k][1] \notin {FDT_BEGIN_NODE, FDT_END_NODE} =>
             Balance(SubSeq(tokens, 1, k)) = Balance(SubSeq(tokens, 1, k - 1))
    BY <1>1, <1>3, BalanceIs
  <2>3. PICK b \in Int : b = Balance(SubSeq(tokens, 1, k - 1))
    BY <2>1
  <2>4. PICK e : e = Balance(SubSeq(tokens, 1, k))
    OBVIOUS
  <2>5. d = b
    BY <1>1, <2>3
  <2>6. e = b + Change(Word(p))
    BY <1>2, <2>2, <2>3, <2>4 DEF Change, FDT_BEGIN_NODE, FDT_END_NODE
  <2> QED
    BY <2>4, <2>5, <2>6
<1>5. ASSUME NEW j \in 2 .. k, tokens[j][1] = FDT_PROP
      PROVE  tokens[j - 1][1] # FDT_END_NODE
  <2>1. CASE j = k
    BY <1>1, <1>2, <1>5, <2>1
  <2>2. CASE j # k
    <3>1. j \in 2 .. k - 1
      BY <1>1, <1>2, <2>2
    <3> QED
      BY <1>1, <1>5, <3>1
  <2> QED
    BY <2>1, <2>2
<1>6. (k + 1) - 1 = k /\ (c2 = "props" => k + 1 >= 2)
  BY <1>1, <1>2
<1>7. c2 = "props" => tokens[(k + 1) - 1][1] # FDT_END_NODE
  BY <1>2, <1>6
<1> QED
  BY <1>2, <1>4, <1>5, <1>6, <1>7 DEF OnToken

(* The NOPs before the root are tokens as well.                            *)
LEMMA SkippedNops ==
  ASSUME InTokens
  PROVE  /\ SkipNop(1) \in 1 .. Len(tokens) /\ Start(SkipNop(1)) = SkipNop(1)
         /\ Word(SkipNop(1)) # FDT_NOP
         /\ \A j \in 1 .. SkipNop(1) - 1 : tokens[j][1] = FDT_NOP
<1>1. tokens \in Seq(Seq(Nat)) /\ blob = FlattenSeq(tokens) /\ Len(tokens) >= 1
  BY DEF InTokens, Written
<1>2. PICK n \in Nat : n = Len(tokens) /\ n >= 1
  <2>1. Len(tokens) \in Nat
    BY <1>1
  <2> QED
    BY <1>1, <2>1
<1>3. blob \in Seq(Nat)
  BY <1>1, Pieces
<1>4. PICK L \in Nat : L = Len(blob) /\ DOMAIN blob = 1 .. L
  BY <1>3
<1> DEFINE Leads(q) == \A r \in 1 .. q - 1 : blob[r] = FDT_NOP
           Skips(q) == q \in DOMAIN blob => blob[q] # FDT_NOP
<1>5. ASSUME NEW q \in 1 .. L + 1, Leads(q)
      PROVE  q \in 1 .. n /\ Start(q) = q
             /\ \A j \in 1 .. q - 1 : tokens[j][1] = FDT_NOP
  <2> DEFINE A == {j \in Nat : j + 1 <= q => /\ j + 1 \in 1 .. n /\ Start(j + 1) = j + 1
                                             /\ \A i \in 1 .. j : tokens[i][1] = FDT_NOP}
  <2>1. 0 \in A
    <3>1. 1 \in 1 .. n
      BY <1>2
    <3>2. Start(1) = 1
      BY <1>2, <3>1, WordsAt
    <3> QED
      BY <3>1, <3>2
  <2>2. ASSUME NEW j \in A PROVE j + 1 \in A
    <3> SUFFICES ASSUME (j + 1) + 1 <= q
                 PROVE  /\ (j + 1) + 1 \in 1 .. n /\ Start((j + 1) + 1) = (j + 1) + 1
                        /\ \A i \in 1 .. j + 1 : tokens[i][1] = FDT_NOP
      OBVIOUS
    <3>1. /\ j + 1 \in 1 .. n /\ Start(j + 1) = j + 1
          /\ \A i \in 1 .. j : tokens[i][1] = FDT_NOP
      OBVIOUS
    <3>2. j + 1 \in 1 .. q - 1 /\ j + 1 \in 1 .. L
      OBVIOUS
    <3>3. blob[j + 1] = FDT_NOP
      BY <1>5, <3>2
    <3>4. Word(j + 1) = FDT_NOP
      BY <1>4, <3>2, <3>3 DEF Word
    <3>5. tokens[j + 1][1] = FDT_NOP
      BY <1>2, <3>1, <3>4, TokenIs
    <3>6. FDT_NOP # FDT_END
      BY DEF FDT_NOP, FDT_END
    <3>7. (j + 1) + 1 \in 1 .. n /\ Start((j + 1) + 1) = Start(j + 1) + 1
      BY <1>2, <3>1, <3>5, <3>6, TokenIs
    <3>8. \A i \in 1 .. j + 1 : i \in 1 .. j \/ i = j + 1
      OBVIOUS
    <3> QED
      BY <3>1, <3>5, <3>7, <3>8
  <2>3. q - 1 \in A
    <3>1. A = Nat
      BY <2>1, <2>2, Induction
    <3>2. q - 1 \in Nat
      OBVIOUS
    <3> HIDE DEF A
    <3> QED
      BY <3>1, <3>2
  <2> QED
    BY <2>3
<1>6. ASSUME NEW q \in 1 .. n, Start(q) = q PROVE q \in 1 .. L
  <2>1. Start(q + 1) = Start(q) + Len(tokens[q]) /\ Start(q + 1) <= Len(blob) + 1
        /\ Len(tokens[q]) >= 1 /\ Len(tokens[q]) \in Nat
    BY <1>2, WordsAt
  <2> QED
    BY <1>4, <1>6, <2>1
<1>7. \E q \in 1 .. L + 1 : Leads(q) /\ Skips(q)
  <2> SUFFICES ASSUME \A q \in 1 .. L + 1 : ~(Leads(q) /\ Skips(q)) PROVE FALSE
    OBVIOUS
  <2> DEFINE B == {j \in Nat : j <= L => Leads(j + 1)}
  <2>1. 0 \in B
    OBVIOUS
  <2>2. ASSUME NEW j \in B PROVE j + 1 \in B
    <3> SUFFICES ASSUME j + 1 <= L PROVE Leads((j + 1) + 1)
      OBVIOUS
    <3>1. Leads(j + 1) /\ j + 1 \in 1 .. L + 1
      OBVIOUS
    <3>2. ~Skips(j + 1)
      BY <3>1
    <3>3. blob[j + 1] = FDT_NOP
      BY <3>2
    <3>4. \A r \in 1 .. ((j + 1) + 1) - 1 : r \in 1 .. (j + 1) - 1 \/ r = j + 1
      OBVIOUS
    <3> QED
      BY <3>1, <3>3, <3>4
  <2>3. Leads(L + 1)
    <3>1. B = Nat
      BY <2>1, <2>2, Induction
    <3> QED
      BY <3>1
  <2>4. Skips(L + 1)
    BY <1>4
  <2>5. L + 1 \in 1 .. L + 1
    OBVIOUS
  <2> QED
    BY <2>3, <2>4, <2>5
<1>8. SkipNop(1) \in 1 .. L + 1 /\ Leads(SkipNop(1)) /\ Skips(SkipNop(1))
  <2>1. SkipNop(1) = CHOOSE q \in 1 .. L + 1 : Skips(q) /\ Leads(q)
    BY <1>4 DEF SkipNop
  <2> HIDE DEF Leads, Skips
  <2> QED
    BY <1>7, <2>1
<1>9. Word(SkipNop(1)) # FDT_NOP
  BY <1>8 DEF Word, FDT_NOP
<1> QED
  BY <1>2, <1>5, <1>8, <1>9

(* The steps.                                                              *)
Walks(c, p, d, r) ==
  /\ c \in Reading => \E k : OnToken(k, p, d, c)
  /\ c = "deliver" => Word(p) \in {FDT_BEGIN_NODE, FDT_END_NODE}
  /\ c = "end" => d = 0
  /\ c = "start" => d = 0
  /\ r = "ok" => Sound

(* FDT_BEGIN_NODE and the empty name lead to the properties of a node.     *)
LEMMA WalksInto ==
  ASSUME InTokens, NEW k, NEW p, NEW d \in Nat, NEW c, OnToken(k, p, d, c),
         Word(p) = FDT_BEGIN_NODE
  PROVE  \E j : OnToken(j, p + 2, d + 1, "props")
<1>1. Word(p) # FDT_END /\ Word(p) # FDT_PROP /\ Word(p) # FDT_END_NODE
      /\ Change(Word(p)) = 1
  BY DEF FDT_BEGIN_NODE, FDT_END, FDT_PROP, FDT_END_NODE, Change
<1>2. OnToken(k + 1, Start(k + 1), d + Change(Word(p)), "props")
  BY <1>1, Advance
<1>3. Start(k + 1) = p + 2
  BY TokenIs DEF OnToken
<1> QED
  BY <1>1, <1>2, <1>3

(* The steps that read a token keep the pointer on tokens.                 *)
LEMMA WalksOn ==
  ASSUME InTokens, IInv, Walks(pc, pointer, Depth, result), result # "ok",
         \/ FindNode \/ Nop \/ Prop \/ PropsEnd \/ Child \/ EndNode
  PROVE  Walks(pc', pointer', Len(nodes'), result')
<1>1. /\ Depth = Len(nodes) /\ Depth \in Nat /\ nodes \in Seq(Nodes)
      /\ pointer \in Nat /\ pc \in {"start", "props", "deliver", "children", "end", "done"}
  BY DEF Depth, IInv, TypeOK
<1>2. ASSUME NEW r, Return(r), r # "ok" PROVE Walks(pc', pointer', Len(nodes'), result')
  BY <1>2 DEF Return, Walks, Reading
<1>3. ASSUME NEW k, NEW p, OnToken(k, p, Depth, pc), Enter(p)
      PROVE  Walks(pc', pointer', Len(nodes'), result')
  <2>1. /\ Word(p) = FDT_BEGIN_NODE /\ nodes' = Append(nodes, NewNode)
        /\ pointer' = p + 2 /\ pc' = "props" /\ result' = result
    BY <1>3 DEF Enter
  <2>2. Len(nodes') = Depth + 1
    BY <1>1, <2>1
  <2>3. \E j : OnToken(j, p + 2, Depth + 1, "props")
    BY <1>1, <1>3, <2>1, WalksInto
  <2> QED
    BY <2>1, <2>2, <2>3 DEF Walks, Reading
<1>4. CASE FindNode
  <2>1. CASE Enter(SkipNop(1))
    <3>1. /\ SkipNop(1) \in 1 .. Len(tokens) /\ Start(SkipNop(1)) = SkipNop(1)
          /\ \A j \in 1 .. SkipNop(1) - 1 : tokens[j][1] = FDT_NOP
      BY SkippedNops
    <3>2. Depth = 0 /\ pc = "start"
      BY <1>4 DEF FindNode, Walks
    <3>3. PICK q : q = SkipNop(1)
      OBVIOUS
    <3>4. tokens \in Seq(Seq(Nat))
      BY DEF InTokens, Written
    <3>5. Balance(SubSeq(tokens, 1, q - 1)) = 0
      <4> DEFINE A == {j \in Nat : j <= q - 1 => Balance(SubSeq(tokens, 1, j)) = 0}
      <4>1. 0 \in A
        BY <3>4, BalanceIs
      <4>2. ASSUME NEW j \in A PROVE j + 1 \in A
        <5> SUFFICES ASSUME j + 1 <= q - 1 PROVE Balance(SubSeq(tokens, 1, j + 1)) = 0
          OBVIOUS
        <5>1. j + 1 \in 1 .. Len(tokens) /\ (j + 1) - 1 = j /\ j <= q - 1
              /\ j + 1 \in 1 .. q - 1
          BY <3>1, <3>3, <3>4
        <5>2. tokens[j + 1][1] \notin {FDT_BEGIN_NODE, FDT_END_NODE}
          BY <3>1, <3>3, <5>1 DEF FDT_BEGIN_NODE, FDT_END_NODE, FDT_NOP
        <5>3. Balance(SubSeq(tokens, 1, j + 1)) = Balance(SubSeq(tokens, 1, (j + 1) - 1))
          BY <3>4, <5>1, <5>2, BalanceIs
        <5> QED
          BY <5>1, <5>3
      <4>3. A = Nat
        BY <4>1, <4>2, Induction
      <4>4. q - 1 \in Nat
        BY <3>1, <3>3
      <4>5. q - 1 \in A
        BY <4>3, <4>4
      <4> QED
        BY <4>4, <4>5
    <3>6. \A j \in 2 .. q - 1 : j \in 1 .. q - 1
      BY <3>1, <3>3
    <3>7. OnToken(q, q, Depth, pc)
      BY <3>1, <3>2, <3>3, <3>5, <3>6 DEF OnToken, FDT_NOP, FDT_PROP
    <3> QED
      BY <1>3, <2>1, <3>3, <3>7
  <2> QED
    BY <1>2, <1>4, <2>1 DEF FindNode
<1>5. CASE Child
  <2>1. pc = "children" /\ Enter(pointer)
    BY <1>5 DEF Child
  <2>2. PICK k : OnToken(k, pointer, Depth, pc)
    BY <2>1 DEF Walks, Reading
  <2> QED
    BY <1>3, <2>1, <2>2
<1>6. CASE Nop
  <2>1. /\ pc \in {"props", "children"} /\ Word(pointer) = FDT_NOP
        /\ pointer' = pointer + 1 /\ pc' = pc /\ nodes' = nodes /\ result' = result
    BY <1>6 DEF Nop, Token
  <2>2. PICK k : OnToken(k, pointer, Depth, pc)
    BY <2>1 DEF Walks, Reading
  <2>3. Word(pointer) # FDT_END /\ Word(pointer) # FDT_PROP /\ Word(pointer) # FDT_END_NODE
        /\ Change(Word(pointer)) = 0
    BY <2>1 DEF FDT_BEGIN_NODE, FDT_END, FDT_PROP, FDT_END_NODE, FDT_NOP, Change
  <2>4. OnToken(k + 1, Start(k + 1), Depth + Change(Word(pointer)), pc)
    BY <2>2, <2>3, Advance
  <2>5. Start(k + 1) = pointer + 1
    BY <2>1, <2>2, TokenIs DEF OnToken
  <2>6. Depth + Change(Word(pointer)) = Len(nodes')
    BY <1>1, <2>1, <2>3
  <2> QED
    BY <2>1, <2>4, <2>5, <2>6 DEF Walks, Reading
<1>7. CASE Prop
  <2>1. CASE pointer' = pointer + 3 + Padded(Word(pointer + 1)) /\ UNCHANGED <<pc, result>>
             /\ pc = "props" /\ Word(pointer) = FDT_PROP /\ Len(nodes') = Len(nodes)
    <3>1. PICK k : OnToken(k, pointer, Depth, pc)
      BY <2>1 DEF Walks, Reading
    <3>2. Word(pointer) # FDT_END /\ Word(pointer) # FDT_END_NODE
          /\ Change(Word(pointer)) = 0
      BY <2>1 DEF FDT_BEGIN_NODE, FDT_END, FDT_PROP, FDT_END_NODE, FDT_NOP, Change
    <3>3. OnToken(k + 1, Start(k + 1), Depth + Change(Word(pointer)), pc)
      BY <2>1, <3>1, <3>2, Advance
    <3>4. Start(k + 1) = pointer'
      BY <2>1, <3>1, TokenIs DEF OnToken
    <3>5. Depth + Change(Word(pointer)) = Len(nodes')
      BY <1>1, <2>1, <3>2
    <3> QED
      BY <2>1, <3>3, <3>4, <3>5 DEF Walks, Reading
  <2>2. CASE Return("err")
    BY <1>2, <2>2
  <2>3. \/ Return("err")
        \/ /\ \E x : nodes' = [nodes EXCEPT ![Depth] = x]
           /\ pointer' = (pointer + 3) + Padded(Word(pointer + 1))
           /\ UNCHANGED <<pc, result>> /\ pc = "props" /\ Word(pointer) = FDT_PROP
    BY <1>7 DEF Prop, Token
  <2>4. \A x : Len([nodes EXCEPT ![Depth] = x]) = Len(nodes)
    BY <1>1
  <2> QED
    BY <2>1, <2>2, <2>3, <2>4
<1>8. CASE PropsEnd
  <2>1. /\ pc = "props" /\ Word(pointer) \in {FDT_BEGIN_NODE, FDT_END_NODE}
        /\ pc' \in {"deliver", "children"}
        /\ UNCHANGED <<pointer, nodes, result>>
    BY <1>8 DEF PropsEnd, Token
  <2>2. PICK k : OnToken(k, pointer, Depth, pc)
    BY <2>1 DEF Walks, Reading
  <2>3. OnToken(k, pointer', Len(nodes'), pc')
    BY <1>1, <2>1, <2>2 DEF OnToken
  <2> QED
    BY <2>1, <2>3 DEF Walks, Reading
<1>9. CASE EndNode
  <2>1. /\ pc = "children" /\ Word(pointer) = FDT_END_NODE
        /\ pointer' = pointer + 1 /\ nodes' = SubSeq(nodes, 1, Depth - 1)
        /\ pc' = IF IsRoot THEN "end" ELSE "children"
        /\ result' = result
    BY <1>9 DEF EndNode, Token
  <2>2. PICK k : OnToken(k, pointer, Depth, pc)
    BY <2>1 DEF Walks, Reading
  <2>3. Word(pointer) # FDT_END /\ Word(pointer) # FDT_PROP /\ pc' # "props"
        /\ Change(Word(pointer)) = -1
    BY <2>1 DEF FDT_BEGIN_NODE, FDT_END, FDT_PROP, FDT_END_NODE, FDT_NOP, Change
  <2>4. OnToken(k + 1, Start(k + 1), Depth + Change(Word(pointer)), pc')
    BY <2>2, <2>3, Advance
  <2>5. Start(k + 1) = pointer + 1
    BY <2>1, <2>2, TokenIs DEF OnToken
  <2>6. Depth > 0
    BY <2>1 DEF IInv, HasNode
  <2>7. Len(nodes') = Depth - 1
    <3>1. Depth - 1 \in 0 .. Len(nodes)
      BY <1>1, <2>6
    <3> QED
      BY <1>1, <2>1, <3>1, Beginning
  <2>8. Depth + Change(Word(pointer)) = Len(nodes')
    BY <1>1, <2>3, <2>7
  <2>9. pc' = "end" => Len(nodes') = 0
    BY <1>1, <2>1, <2>7 DEF IsRoot
  <2> QED
    BY <2>1, <2>4, <2>5, <2>8, <2>9 DEF Walks, Reading
<1> QED
  BY <1>4, <1>5, <1>6, <1>7, <1>8, <1>9

-----------------------------------------------------------------------------
(* The nodes begun and not ended.                                          *)

(* A token changes the balance by what it is.                              *)
LEMMA BalanceStep ==
  ASSUME NEW ts, ts \in Seq(Seq(Nat)), NEW k \in 1 .. Len(ts)
  PROVE  Balance(SubSeq(ts, 1, k)) = Balance(SubSeq(ts, 1, k - 1)) + Change(ts[k][1])
<1>1. /\ ts[k][1] = FDT_BEGIN_NODE =>
           Balance(SubSeq(ts, 1, k)) = Balance(SubSeq(ts, 1, k - 1)) + 1
      /\ ts[k][1] = FDT_END_NODE =>
           Balance(SubSeq(ts, 1, k)) = Balance(SubSeq(ts, 1, k - 1)) - 1
      /\ ts[k][1] \notin {FDT_BEGIN_NODE, FDT_END_NODE} =>
           Balance(SubSeq(ts, 1, k)) = Balance(SubSeq(ts, 1, k - 1))
  BY BalanceIs
<1>2. k - 1 \in 0 .. Len(ts)
  <2>1. Len(ts) \in Nat
    OBVIOUS
  <2> QED
    BY <2>1
<1>3. PICK b \in Int : b = Balance(SubSeq(ts, 1, k - 1))
  BY <1>2, BalanceIs
<1> QED
  BY <1>1, <1>3 DEF Change, FDT_BEGIN_NODE, FDT_END_NODE

(* Tokens that all count c to the balance.                                 *)
LEMMA BalanceRun ==
  ASSUME NEW ts, ts \in Seq(Seq(Nat)), NEW a \in Nat, NEW n \in Nat, a + n <= Len(ts),
         NEW c \in {-1, 0}, \A j \in 1 .. n : Change(ts[a + j][1]) = c
  PROVE  Balance(SubSeq(ts, 1, a + n)) = Balance(SubSeq(ts, 1, a)) + (IF c = 0 THEN 0 ELSE -n)
<1> DEFINE B(k) == Balance(SubSeq(ts, 1, k))
           A == {m \in Nat : m <= n => B(a + m) = B(a) + (IF c = 0 THEN 0 ELSE -m)}
<1>1. PICK l \in Nat : l = Len(ts)
  OBVIOUS
<1>2. \A k \in 0 .. l : B(k) \in Int
  BY <1>1, BalanceIs
<1>3. ASSUME NEW k \in 1 .. l PROVE B(k) = B(k - 1) + Change(ts[k][1])
  BY <1>1, BalanceStep
<1> HIDE DEF B
<1>4. B(a) \in Int
  <2>1. a \in 0 .. l
    BY <1>1
  <2> QED
    BY <1>2, <2>1
<1>5. 0 \in A
  BY <1>4
<1>6. ASSUME NEW m \in A PROVE m + 1 \in A
  <2> SUFFICES ASSUME m + 1 <= n
               PROVE  B(a + (m + 1)) = B(a) + (IF c = 0 THEN 0 ELSE -(m + 1))
    OBVIOUS
  <2>1. a + (m + 1) \in 1 .. l /\ (a + (m + 1)) - 1 = a + m /\ m + 1 \in 1 .. n /\ m <= n
    BY <1>1
  <2>2. B(a + (m + 1)) = B(a + m) + Change(ts[a + (m + 1)][1])
    BY <1>3, <2>1
  <2>3. Change(ts[a + (m + 1)][1]) = c
    BY <2>1
  <2>4. B(a + m) = B(a) + (IF c = 0 THEN 0 ELSE -m)
    BY <2>1
  <2> QED
    BY <1>4, <2>2, <2>3, <2>4
<1>7. n \in A
  <2>1. A = Nat
    BY <1>5, <1>6, Induction
  <2> QED
    BY <2>1
<1>8. B(a + n) = B(a) + (IF c = 0 THEN 0 ELSE -n)
  BY <1>7
<1> QED
  BY <1>8 DEF B

(* In a tree written out, the balance before a node is its depth.          *)
LEMMA BalanceAtNode ==
  ASSUME Regular, NEW i \in Ids, Balance(SubSeq(Tokens, 1, Place(i, 0))) = Tree[i].depth
  PROVE  Balance(SubSeq(Tokens, 1, Place(i + 1, 0))) = Tree[i].depth + 1 - Closing(i)
<1>1. PICK P \in Nat, L \in Nat, c \in Nat, d \in Nat, N \in Nat :
        /\ P = Before(Parts, i) /\ L = Len(Listing(i)) /\ c = Closing(i)
        /\ d = Tree[i].depth /\ N = Len(Tokens)
  <2>1. i \in 1 .. Len(Tree) + 1 /\ IsTree
    BY TreeFacts DEF Regular
  <2>2. Before(Parts, i) \in Nat
    BY <2>1, PlacesAre
  <2>3. Len(Tokens) \in Nat
    BY PlacesAre
  <2>4. Tree[i].depth \in Nat
    BY <2>1, TreeFacts
  <2> QED
    BY <2>1, <2>2, <2>3, <2>4, ListingIs, ClosingIs
<1>2. PICK T : T = Tokens /\ T \in Seq(Seq(Nat))
  BY PlacesAre
<1>3. /\ \A q : Place(i, q) = P + q
      /\ Place(i + 1, 0) = P + 1 + L + c /\ P + 1 + L + c < N
  <2>1. Place(i + 1, 0) = Place(i, 0) + 1 + Len(Listing(i)) + Closing(i)
        /\ Place(i + 1, 0) < Len(Tokens)
    BY PlacesAre
  <2>2. \A q : Place(i, q) = P + q
    BY <1>1 DEF Place
  <2> QED
    BY <1>1, <2>1, <2>2
<1>fits. /\ P + 1 \in Nat /\ (P + 1) + L <= Len(T)
         /\ P + 1 + L \in Nat /\ (P + 1 + L) + c <= Len(T)
         /\ P + 1 \in 1 .. Len(T) /\ (P + 1) - 1 = P
  <2>1. P \in Nat /\ L \in Nat /\ c \in Nat /\ N \in Nat
    OBVIOUS
  <2>2. P + 1 + L + c < N
    BY <1>3
  <2>3. Len(T) = N
    BY <1>1, <1>2
  <2> QED
    BY <2>1, <2>2, <2>3
<1>4. T[P + 1] = <<FDT_BEGIN_NODE, 0>>
  BY <1>2, <1>3, TokensAt
<1>5. \A p \in 1 .. L : T[P + (1 + p)] = Listing(i)[p]
  BY <1>1, <1>2, <1>3, TokensAt
<1>6. \A e \in 1 .. c : T[P + (1 + L + e)] = <<FDT_END_NODE>>
  BY <1>1, <1>2, <1>3, TokensAt
<1> DEFINE B(k) == Balance(SubSeq(T, 1, k))
<1>7. B(P + 1) = d + 1
  <2>1. P + 1 \in 1 .. Len(T) /\ (P + 1) - 1 = P
    BY <1>fits
  <2>4. T[P + 1][1] = FDT_BEGIN_NODE
    BY <1>4
  <2>2. B(P + 1) = B(P) + 1
    BY <1>2, <2>1, <2>4, BalanceIs
  <2>3. B(P) = d
    BY <1>1, <1>2, <1>3
  <2> QED
    BY <2>2, <2>3
<1>8. B((P + 1) + L) = B(P + 1) + 0
  <2>1. ASSUME NEW j \in 1 .. L PROVE Change(T[(P + 1) + j][1]) = 0
    <3>1. PICK w \in 1 .. 7 : Has(i, w) /\ Listing(i)[j] = Item(i, w)
      BY <1>1, ListingIs
    <3>2. Item(i, w)[1] = FDT_PROP
      BY <3>1, ItemIs
    <3>3. (P + 1) + j = P + (1 + j)
      OBVIOUS
    <3> QED
      BY <1>5, <3>1, <3>2, <3>3 DEF Change, FDT_PROP, FDT_BEGIN_NODE, FDT_END_NODE
  <2>2. P + 1 \in Nat /\ (P + 1) + L <= Len(T) /\ 0 \in {-1, 0}
    BY <1>fits
  <2> HIDE DEF B
  <2>3. Balance(SubSeq(T, 1, (P + 1) + L)) = Balance(SubSeq(T, 1, P + 1)) + (IF 0 = 0 THEN 0 ELSE -L)
    BY <1>2, <2>1, <2>2, BalanceRun
  <2> QED
    BY <2>3 DEF B
<1>9. c = 0 \/ B((P + 1 + L) + c) = B(P + 1 + L) + (IF -1 = 0 THEN 0 ELSE -c)
  <2>1. ASSUME NEW j \in 1 .. c PROVE Change(T[(P + 1 + L) + j][1]) = -1
    <3>1. (P + 1 + L) + j = P + (1 + L + j)
      OBVIOUS
    <3>2. T[(P + 1 + L) + j] = <<FDT_END_NODE>>
      BY <1>6, <3>1
    <3>3. T[(P + 1 + L) + j][1] = FDT_END_NODE
      BY <3>2
    <3> QED
      BY <3>3 DEF Change, FDT_PROP, FDT_BEGIN_NODE, FDT_END_NODE
  <2>2. P + 1 + L \in Nat /\ (P + 1 + L) + c <= Len(T) /\ -1 \in {-1, 0}
    BY <1>fits
  <2> HIDE DEF B
  <2>3. Balance(SubSeq(T, 1, (P + 1 + L) + c)) = Balance(SubSeq(T, 1, P + 1 + L))
                                                 + (IF -1 = 0 THEN 0 ELSE -c)
    BY <1>2, <2>1, <2>2, BalanceRun
  <2> QED
    BY <2>3 DEF B
<1> HIDE DEF B
<1>10. (P + 1) + L = P + 1 + L /\ (P + 1 + L) + c = P + 1 + L + c
  OBVIOUS
<1>11. B(P + 1 + L + c) = d + 1 - c
  <2>1. B(P + 1 + L) = d + 1
    BY <1>7, <1>8, <1>10
  <2>2. CASE c = 0
    <3>1. P + 1 + L + c = P + 1 + L
      BY <2>2
    <3> QED
      BY <2>1, <2>2, <3>1
  <2>3. CASE c # 0
    BY <1>9, <1>10, <2>1, <2>3
  <2> QED
    BY <2>2, <2>3
<1> QED
  BY <1>1, <1>2, <1>3, <1>11 DEF B

(* ... and none is open before FDT_END.                                    *)
LEMMA BalanceOfTree ==
  ASSUME Regular
  PROVE  Len(Tokens) - 1 \in Nat /\ Balance(SubSeq(Tokens, 1, Len(Tokens) - 1)) = 0
<1>1. IsTree
  BY DEF Regular
<1>2. PICK n \in Nat : n = Len(Tree) /\ n >= 1 /\ Ids = 1 .. n
  BY <1>1, TreeFacts
<1> DEFINE B(i) == Balance(SubSeq(Tokens, 1, Place(i, 0)))
           A == {m \in Nat : m + 1 <= n => B(m + 1) = Tree[m + 1].depth}
<1>3. 0 \in A
  <2>1. Place(1, 0) = 0 /\ Tokens \in Seq(Seq(Nat))
    BY PlacesAre
  <2>2. B(1) = 0
    BY <2>1, BalanceIs
  <2>3. Tree[1].depth = 0
    BY <1>1, TreeFacts
  <2> QED
    BY <2>2, <2>3
<1>4. ASSUME NEW i \in Ids, B(i) = Tree[i].depth
      PROVE  B(i + 1) = Tree[i].depth + 1 - Closing(i)
  BY <1>4, BalanceAtNode
<1> HIDE DEF B
<1>5. ASSUME NEW m \in A PROVE m + 1 \in A
  <2> SUFFICES ASSUME (m + 1) + 1 <= n PROVE B((m + 1) + 1) = Tree[(m + 1) + 1].depth
    OBVIOUS
  <2>1. m + 1 \in Ids /\ (m + 1) + 1 \in Ids /\ B(m + 1) = Tree[m + 1].depth
    BY <1>2
  <2>2. B((m + 1) + 1) = Tree[m + 1].depth + 1 - Closing(m + 1)
    BY <1>4, <2>1
  <2>3. Closing(m + 1) = Tree[m + 1].depth + 1 - Tree[(m + 1) + 1].depth
    BY <1>1, <2>1, ClosingIs
  <2>4. Tree[m + 1].depth \in Nat /\ Tree[(m + 1) + 1].depth \in Nat
    BY <1>1, <2>1, TreeFacts
  <2> QED
    BY <2>2, <2>3, <2>4
<1>6. B(n) = Tree[n].depth
  <2>1. A = Nat
    BY <1>3, <1>5, Induction
  <2>2. n - 1 \in Nat /\ (n - 1) + 1 = n
    BY <1>2
  <2>3. n - 1 \in A
    BY <2>1, <2>2
  <2> QED
    BY <1>2, <2>2, <2>3
<1>7. n \in Ids /\ n + 1 \notin Ids
  BY <1>2
<1>8. B(n + 1) = 0
  <2>1. B(n + 1) = Tree[n].depth + 1 - Closing(n)
    BY <1>4, <1>6, <1>7
  <2>2. Closing(n) = Tree[n].depth + 1 /\ Tree[n].depth \in Nat
    BY <1>1, <1>7, ClosingIs, TreeFacts
  <2> QED
    BY <2>1, <2>2
<1>9. Len(Tokens) = Place(n + 1, 1) /\ Before(Parts, n + 1) \in Nat
  <2>1. n + 1 \in 1 .. Len(Tree) + 1
    BY <1>2
  <2> QED
    BY <1>2, <2>1, PlacesAre
<1>10. Len(Tokens) - 1 = Place(n + 1, 0) /\ Len(Tokens) - 1 \in Nat
  BY <1>9 DEF Place
<1> QED
  BY <1>8, <1>10 DEF B

(* Equal tokens count the same.                                            *)
CountSame(ts, us, a, b, n) ==
  Balance(SubSeq(ts, 1, a + n)) - Balance(SubSeq(ts, 1, a))
  = Balance(SubSeq(us, 1, b + n)) - Balance(SubSeq(us, 1, b))

(* Two stretches of the same tokens change the balance alike.              *)
LEMMA BalanceSame ==
  ASSUME NEW ts, ts \in Seq(Seq(Nat)), NEW us, us \in Seq(Seq(Nat)),
         NEW a \in Nat, NEW b \in Nat, NEW n \in Nat,
         a + n <= Len(ts), b + n <= Len(us), \A j \in 1 .. n : ts[a + j] = us[b + j]
  PROVE  CountSame(ts, us, a, b, n)
<1> DEFINE B(k) == Balance(SubSeq(ts, 1, k))
           C(k) == Balance(SubSeq(us, 1, k))
           A == {m \in Nat : m <= n => B(a + m) - B(a) = C(b + m) - C(b)}
<1>1. PICK l, m \in Nat : l = Len(ts) /\ m = Len(us)
  OBVIOUS
<1>2. /\ \A k \in 0 .. l : B(k) \in Int
      /\ \A k \in 0 .. m : C(k) \in Int
  <2>1. \A k \in 0 .. l : B(k) \in Int
    BY <1>1, BalanceIs
  <2>2. \A k \in 0 .. m : C(k) \in Int
    BY <1>1, BalanceIs
  <2> QED
    BY <2>1, <2>2
<1>3. /\ \A k \in 1 .. l : B(k) = B(k - 1) + Change(ts[k][1])
      /\ \A k \in 1 .. m : C(k) = C(k - 1) + Change(us[k][1])
  <2>1. \A k \in 1 .. l : B(k) = B(k - 1) + Change(ts[k][1])
    BY <1>1, BalanceStep
  <2>2. \A k \in 1 .. m : C(k) = C(k - 1) + Change(us[k][1])
    BY <1>1, BalanceStep
  <2> QED
    BY <2>1, <2>2
<1> HIDE DEF B, C
<1>4. 0 \in A
  <2>1. a \in 0 .. l /\ b \in 0 .. m /\ a + 0 = a /\ b + 0 = b
    BY <1>1
  <2>2. B(a) \in Int /\ C(b) \in Int
    BY <1>2, <2>1
  <2> QED
    BY <2>1, <2>2
<1>5. ASSUME NEW i \in A PROVE i + 1 \in A
  <2> SUFFICES ASSUME i + 1 <= n PROVE B(a + (i + 1)) - B(a) = C(b + (i + 1)) - C(b)
    OBVIOUS
  <2>1. /\ a + (i + 1) \in 1 .. l /\ (a + (i + 1)) - 1 = a + i /\ a + i \in 0 .. l /\ a \in 0 .. l
        /\ b + (i + 1) \in 1 .. m /\ (b + (i + 1)) - 1 = b + i /\ b + i \in 0 .. m /\ b \in 0 .. m
        /\ i + 1 \in 1 .. n
    BY <1>1
  <2>2. B(a + (i + 1)) = B(a + i) + Change(ts[a + (i + 1)][1])
        /\ C(b + (i + 1)) = C(b + i) + Change(us[b + (i + 1)][1])
    BY <1>3, <2>1
  <2>3. ts[a + (i + 1)] = us[b + (i + 1)]
    BY <2>1
  <2>4. B(a + i) - B(a) = C(b + i) - C(b)
    OBVIOUS
  <2>5. PICK x, y, v, w, z \in Int : x = B(a + i) /\ y = C(b + i) /\ v = B(a) /\ w = C(b)
                                /\ z = Change(ts[a + (i + 1)][1])
    <3>1. Change(ts[a + (i + 1)][1]) \in Int
      BY DEF Change
    <3> QED
      BY <1>2, <2>1, <3>1
  <2>6. z = Change(us[b + (i + 1)][1])
    BY <2>3, <2>5
  <2>7. x - v = y - w
    BY <2>4, <2>5
  <2>8. B(a + (i + 1)) = x + z /\ C(b + (i + 1)) = y + z
    BY <2>2, <2>5, <2>6
  <2>9. (x + z) - v = (y + z) - w
    <3>1. \A e, f, g, h, o \in Int : e - g = f - h => (e + o) - g = (f + o) - h
      OBVIOUS
    <3> QED
      BY <2>7, <3>1
  <2> QED
    BY <2>5, <2>8, <2>9
<1>6. n \in A
  <2>1. A = Nat
    BY <1>4, <1>5, Induction
  <2> QED
    BY <2>1
<1>7. B(a + n) - B(a) = C(b + n) - C(b)
  BY <1>6
<1> QED
  BY <1>7 DEF B, C, CountSame

(* A document whose tokens count to nothing, none of them a property after *)
(* a node, has not been edited out of order.                               *)
LEMMA EndIsSound ==
  ASSUME Regular, InTokens, EditFits(Tokens), tokens = Edited(Tokens),
         NEW k, NEW p, OnToken(k, p, 0, "end"), Word(p) = FDT_END
  PROVE  Sound
<1>1. PICK N \in Nat : N = Len(Tokens) /\ N - 1 \in Nat
  <2>1. Tokens \in Seq(Seq(Nat))
    BY PlacesAre
  <2>2. Len(Tokens) \in Nat
    BY <2>1
  <2> QED
    BY <2>2, BalanceOfTree
<1>2. PICK T : T = Tokens /\ T \in Seq(Seq(Nat)) /\ N = Len(T) /\ T[N] = <<FDT_END>>
  BY <1>1, PlacesAre
<1>3. At \in 1 .. N
  BY <1>1, <1>2 DEF EditFits
<1>4. /\ k = Len(tokens)
      /\ Balance(SubSeq(tokens, 1, k - 1)) = 0
      /\ \A j \in 2 .. k - 1 : tokens[j][1] = FDT_PROP => tokens[j - 1][1] # FDT_END_NODE
  <2>1. k \in 1 .. Len(tokens) /\ p = Start(k)
    BY DEF OnToken
  <2>2. Word(Start(k)) = tokens[k][1] /\ (tokens[k][1] = FDT_END => k = Len(tokens))
    BY <2>1, TokenIs
  <2>3. k = Len(tokens)
    BY <2>1, <2>2
  <2> QED
    BY <2>3 DEF OnToken
<1>5. doc.edit.kind # "late"
  <2> SUFFICES ASSUME doc.edit.kind = "late" PROVE FALSE
    OBVIOUS
  <2>1. At > 1 /\ T[At - 1] = <<FDT_END_NODE>>
    BY <1>2 DEF EditFits
  <2>2. PICK t : t = <<FDT_PROP, 0, 7>> /\ t \in Seq(Nat) /\ t[1] = FDT_PROP
    <3>1. <<FDT_PROP, 0, 7>> \in Seq(Nat) /\ <<FDT_PROP, 0, 7>>[1] = FDT_PROP
      BY DEF FDT_PROP
    <3> QED
      BY <3>1
  <2>3. tokens = InsertAt(T, At, t)
    BY <1>2, <2>2 DEF Edited
  <2>4. PICK S : S = Seq(Nat)
    OBVIOUS
  <2>5. IsInsert(tokens, T, At, t)
    <3>1. T \in Seq(S) /\ At \in 1 .. Len(T) /\ t \in S
      BY <1>2, <1>3, <2>2, <2>4
    <3> QED
      BY <2>3, <3>1, Inserted
  <2>6. Len(tokens) = N + 1 /\ tokens[At] = t /\ tokens[At - 1] = T[At - 1]
    <3>1. At - 1 \in 1 .. At - 1
      BY <1>3, <2>1
    <3> QED
      BY <1>2, <2>5, <3>1 DEF IsInsert
  <2>7. At \in 2 .. k - 1
    BY <1>3, <1>4, <2>1, <2>6
  <2>8. tokens[At][1] = FDT_PROP /\ tokens[At - 1][1] = FDT_END_NODE
    BY <2>1, <2>2, <2>6
  <2> QED
    BY <1>4, <2>7, <2>8
<1>6. doc.edit.kind # "drop"
  <2> SUFFICES ASSUME doc.edit.kind = "drop" PROVE FALSE
    OBVIOUS
  <2>1. T[At][1] \in {FDT_BEGIN_NODE, FDT_END_NODE}
    BY <1>2 DEF EditFits
  <2>2. tokens = RemoveAt(T, At)
    BY <1>2 DEF Edited
  <2>3. /\ tokens \in Seq(Seq(Nat)) /\ Len(tokens) = N - 1
        /\ \A i \in 1 .. At - 1 : tokens[i] = T[i]
        /\ \A i \in At .. N - 1 : tokens[i] = T[i + 1]
    <3>1. tokens \in Seq(Seq(Nat)) /\ IsRemove(tokens, T, At)
      BY <1>2, <1>3, <2>2, Removed
    <3> QED
      BY <1>2, <3>1 DEF IsRemove
  <2>4. At # N
    BY <1>2, <2>1 DEF FDT_BEGIN_NODE, FDT_END_NODE, FDT_END
  <2> DEFINE B(j) == Balance(SubSeq(T, 1, j))
             C(j) == Balance(SubSeq(tokens, 1, j))
  <2>5. PICK a \in Nat, n \in Nat : /\ a = At - 1 /\ n = N - 1 - At /\ At = a + 1
                                   /\ At + n = N - 1 /\ a + n = k - 1
    <3>1. At - 1 \in Nat /\ N - 1 - At \in Nat
      BY <1>3, <2>4
    <3>2. At = (At - 1) + 1 /\ At + (N - 1 - At) = N - 1 /\ (At - 1) + (N - 1 - At) = k - 1
      BY <1>3, <1>4, <2>3
    <3> QED
      BY <3>1, <3>2
  <2>6. B(0 + a) - B(0) = C(0 + a) - C(0)
    <3>1. 0 + a <= Len(T) /\ 0 + a <= Len(tokens) /\ 0 \in Nat
      <4>1. Len(T) = N /\ Len(tokens) = N - 1
        BY <1>2, <2>3
      <4>2. a + n = N - 1 - 1 /\ n \in Nat /\ a \in Nat /\ N \in Nat
        BY <1>4, <2>3, <2>5
      <4> QED
        BY <4>1, <4>2
    <3>2. \A j \in 1 .. a : T[0 + j] = tokens[0 + j]
      BY <2>3, <2>5
    <3>3. CountSame(T, tokens, 0, 0, a)
      BY <1>2, <2>3, <3>1, <3>2, BalanceSame
    <3> QED
      BY <3>3 DEF CountSame
  <2>7. B(At + n) - B(At) = C(a + n) - C(a)
    <3>1. At + n <= Len(T) /\ a + n <= Len(tokens) /\ At \in Nat
      BY <1>2, <1>3, <2>3, <2>4, <2>5
    <3>2. ASSUME NEW j \in 1 .. n PROVE T[At + j] = tokens[a + j]
      <4>1. a + j \in At .. N - 1 /\ (a + j) + 1 = At + j
        BY <1>3, <2>5
      <4> QED
        BY <2>3, <4>1
    <3>3. CountSame(T, tokens, At, a, n)
      BY <1>2, <2>3, <3>1, <3>2, BalanceSame
    <3> QED
      BY <3>3 DEF CountSame
  <2>8. B(0) = 0 /\ C(0) = 0
    BY <1>2, <2>3, BalanceIs
  <2>9. B(At) = B(At - 1) + Change(T[At][1])
    BY <1>2, <1>3, BalanceStep
  <2>10. B(a) \in Int /\ C(a) \in Int
    <3>1. a \in 0 .. Len(T) /\ a \in 0 .. Len(tokens)
      BY <1>2, <1>3, <2>3, <2>4, <2>5
    <3> QED
      BY <1>2, <2>3, <3>1, BalanceIs
  <2>11. B(At + n) = 0
    BY <1>1, <1>2, <2>5, BalanceOfTree
  <2>12. C(a + n) = 0
    BY <1>4, <2>5
  <2>13. Change(T[At][1]) \in {1, -1}
    BY <2>1 DEF Change, FDT_BEGIN_NODE, FDT_END_NODE
  <2>14. 0 + a = a /\ B(At - 1) = B(a)
    BY <2>5
  <2> HIDE DEF B, C
  <2> QED
    BY <2>6, <2>7, <2>8, <2>9, <2>10, <2>11, <2>12, <2>13, <2>14
<1> QED
  BY <1>5, <1>6 DEF EditFits, Sound

-----------------------------------------------------------------------------
(* The pointer stays on tokens.                                            *)

(* The document: how its tokens come from its tree.                        *)
Document == /\ Regular /\ EditFits(Tokens) /\ tokens = Edited(Tokens) /\ InTokens

Follows == /\ IInv /\ Document
           /\ Walks(pc, pointer, Depth, result)
           /\ pc # "done" => result = "none"

(* A document stays one.                                                   *)
LEMMA SameDocument ==
  ASSUME UNCHANGED <<doc, tokens, blob>>, Document
  PROVE  Document'
<1>1. Regular' = Regular
  BY SMT DEF Regular, IsTree, IsWritable, FitsIn, Above, Cells, ParentOf, Ancestors,
     Tree, Ids
<1>2. Tokens' = Tokens
  BY DEF Tokens, NodeTokens, Closing, Properties, PropertyIf, Property, RegProperty,
     RangesProperty, RegWords, InCells, Above, Cells, ParentOf, Ancestors, Tree, Ids
<1>3. InTokens' = InTokens
  BY DEF InTokens, Written
<1>4. EditFits(Tokens)' = EditFits(Tokens)
  BY <1>2 DEF EditFits, At
<1>5. Edited(Tokens)' = Edited(Tokens)
  BY <1>2 DEF Edited, At
<1> QED
  BY <1>1, <1>3, <1>4, <1>5 DEF Document

(* What is said of a walk depends on the document alone.                   *)
LEMMA SameWalk ==
  ASSUME UNCHANGED <<doc, tokens, blob>>, Walks(pc', pointer', Len(nodes'), result')
  PROVE  Walks(pc, pointer, Depth, result)'
<1>2. Sound' = Sound /\ Word(pointer)' = Word(pointer') /\ Depth' = Len(nodes')
  BY DEF Sound, Word, Depth
<1>3. ASSUME NEW k, OnToken(k, pointer', Len(nodes'), pc')
      PROVE  OnToken(k, pointer, Depth, pc)'
  BY <1>2, <1>3 DEF OnToken, Start, Before, Balance
<1>4. /\ pc' \in Reading => \E k : OnToken(k, pointer', Len(nodes'), pc')
      /\ pc' = "deliver" => Word(pointer') \in {FDT_BEGIN_NODE, FDT_END_NODE}
      /\ pc' = "end" => Len(nodes') = 0
      /\ pc' = "start" => Len(nodes') = 0
      /\ result' = "ok" => Sound
  BY DEF Walks
<1>5. pc' \in Reading => \E k : OnToken(k, pointer, Depth, pc)'
  BY <1>3, <1>4
<1>6. /\ (pc = "deliver" => Word(pointer) \in {FDT_BEGIN_NODE, FDT_END_NODE})'
      /\ (pc = "end" => Depth = 0)'
      /\ (pc = "start" => Depth = 0)'
      /\ (result = "ok" => Sound)'
  BY <1>2, <1>4 DEF FDT_BEGIN_NODE, FDT_END_NODE
<1> QED
  BY <1>5, <1>6 DEF Walks, Reading

(* The steps that read no token, or end the search.                        *)
LEMMA OthersWalk ==
  ASSUME Document, IInv, Walks(pc, pointer, Depth, result),
         \/ DeliverFails \/ Deliver \/ DeliverEnd \/ BadToken \/ Finish
         \/ UNCHANGED vars
  PROVE  Walks(pc', pointer', Len(nodes'), result')
<1>1. /\ UNCHANGED <<pointer, nodes>> /\ Depth = Len(nodes')
  BY DEF DeliverFails, Deliver, DeliverEnd, BadToken, Finish, vars, Depth
<1>2. ASSUME NEW r, Return(r), r = "ok" => Sound
      PROVE  Walks(pc', pointer', Len(nodes'), result')
  BY <1>2 DEF Return, Walks, Reading
<1>3. ASSUME UNCHANGED <<pc, result>> PROVE Walks(pc', pointer', Len(nodes'), result')
  BY <1>1, <1>3
<1>4. CASE DeliverFails
  <2>1. \E r : Return(r) /\ r # "ok"
    BY <1>4 DEF DeliverFails
  <2> QED
    BY <1>2, <2>1
<1>5. CASE Deliver
  <2>1. UNCHANGED <<pc, result>> \/ Return(IF Token = FDT_END THEN "ok" ELSE "err")
    BY <1>5 DEF Deliver
  <2>2. Token # FDT_END
    BY <1>5 DEF Deliver, Walks, Token, FDT_END, FDT_BEGIN_NODE, FDT_END_NODE
  <2> QED
    BY <1>2, <1>3, <2>1, <2>2
<1>6. CASE DeliverEnd
  <2>1. pc = "deliver" /\ pc' = "children" /\ result' = result
    BY <1>6 DEF DeliverEnd
  <2>2. PICK k : OnToken(k, pointer, Depth, "deliver")
    BY <2>1 DEF Walks, Reading
  <2>3. OnToken(k, pointer', Len(nodes'), "children")
    BY <1>1, <2>2 DEF OnToken
  <2> QED
    BY <2>1, <2>3 DEF Walks, Reading
<1>7. CASE BadToken
  BY <1>2, <1>7 DEF BadToken
<1>8. CASE Finish
  <2>1. pc = "end" /\ Return(IF Word(pointer) = FDT_END THEN "ok" ELSE "err")
    BY <1>8 DEF Finish, Token
  <2>2. PICK k : OnToken(k, pointer, 0, "end")
    BY <2>1 DEF Walks, Reading
  <2>3. Word(pointer) = FDT_END => Sound
    BY <2>2, EndIsSound DEF Document
  <2> QED
    BY <1>2, <2>1, <2>3
<1>9. CASE UNCHANGED vars
  BY <1>3, <1>9 DEF vars
<1> QED
  BY <1>4, <1>5, <1>6, <1>7, <1>8, <1>9

(* A search that has not ended has no result.                              *)
LEMMA NotEnded ==
  ASSUME [Next]_vars, pc # "done" => result = "none"
  PROVE  pc' # "done" => result' = "none"
<1>1. CASE UNCHANGED vars
  BY <1>1 DEF vars
<1>2. CASE FindNode
  BY <1>2 DEF FindNode, Return, Enter
<1>3. CASE Nop \/ PropsEnd \/ DeliverFails \/ DeliverEnd \/ BadToken \/ Finish
  BY <1>3 DEF Nop, PropsEnd, DeliverFails, DeliverEnd, BadToken, Finish, Return
<1>4. CASE Prop
  BY <1>4 DEF Prop, Return
<1>5. CASE Deliver
  BY <1>5 DEF Deliver, Return
<1>6. CASE Child \/ EndNode
  BY <1>6 DEF Child, EndNode, Enter
<1> QED
  BY <1>1, <1>2, <1>3, <1>4, <1>5, <1>6 DEF Next

(* The invariant holds at first ...                                        *)
LEMMA DocInitFollows == DocInit => Follows
<1> SUFFICES ASSUME DocInit PROVE Follows
  OBVIOUS
<1>1. /\ Init /\ Regular /\ blob = FlattenSeq(tokens)
      /\ tokens \in {Edited(ts) : ts \in {t \in {Tokens} : EditFits(t)}}
  BY DEF DocInit, Regular
<1>2. tokens = Edited(Tokens) /\ EditFits(Tokens)
  BY <1>1
<1>3. Document
  <2>1. Written(Tokens)
    BY <1>1, TokensWritten
  <2>2. Written(Edited(Tokens))
    BY <1>2, <2>1, EditedWritten
  <2> QED
    BY <1>1, <1>2, <2>2 DEF Document, InTokens
<1>4. IInv
  BY <1>1, InitInv
<1>5. Walks(pc, pointer, Depth, result) /\ result = "none"
  BY <1>1 DEF Init, Walks, Reading, Depth
<1> QED
  BY <1>3, <1>4, <1>5 DEF Follows

(* ... and after every step.                                               *)
LEMMA StepFollows ==
  Follows /\ [DocNext]_<<vars, docVars>> => Follows'
<1> SUFFICES ASSUME Follows, [DocNext]_<<vars, docVars>> PROVE Follows'
  OBVIOUS
<1>1. [Next]_vars /\ UNCHANGED <<doc, tokens>>
  BY DEF DocNext, Ended, docVars
<1>2. UNCHANGED blob
  BY <1>1 DEF Next, FindNode, Nop, Prop, PropsEnd, DeliverFails, Deliver, DeliverEnd,
              Child, EndNode, BadToken, Finish, vars
<1>3. IInv' /\ Document'
  BY <1>1, <1>2, StepInv, SameDocument DEF Follows
<1>4. (pc # "done" => result = "none")'
  BY <1>1, NotEnded DEF Follows
<1>5. Walks(pc', pointer', Len(nodes'), result')
  <2>1. CASE FindNode \/ Nop \/ Prop \/ PropsEnd \/ Child \/ EndNode
    <3>1. pc # "done"
      BY <2>1 DEF FindNode, Nop, Prop, PropsEnd, Child, EndNode
    <3> QED
      BY <2>1, <3>1, WalksOn DEF Follows, Document
  <2>2. CASE \/ DeliverFails \/ Deliver \/ DeliverEnd \/ BadToken \/ Finish
             \/ UNCHANGED vars
    BY <2>2, OthersWalk DEF Follows
  <2> QED
    BY <1>1, <2>1, <2>2 DEF Next
<1>6. Walks(pc, pointer, Depth, result)'
  BY <1>1, <1>2, <1>5, SameWalk
<1> QED
  BY <1>3, <1>4, <1>6 DEF Follows

(* Whatever the tree, however it is written and edited (Edited), the       *)
(* pointer of a search is always at a token, as deep as the nodes begun    *)
(* and not ended before it: PointerOnToken.  No property, end or NOP       *)
(* makes parse_dtb lose its place.                                         *)
THEOREM OnTokens == DocSpec => []PointerOnToken
<1>1. Follows => PointerOnToken
  <2> SUFFICES ASSUME Follows, pc \in Reading
               PROVE  \E k \in DOMAIN tokens :
                        /\ pointer = 1 + Len(FlattenSeq(SubSeq(tokens, 1, k - 1)))
                        /\ Depth = Balance(SubSeq(tokens, 1, k - 1))
    BY DEF PointerOnToken, Reading
  <2>1. PICK k : OnToken(k, pointer, Depth, pc)
    BY DEF Follows, Walks
  <2>2. k \in DOMAIN tokens
    BY <2>1 DEF OnToken, Follows, Document, InTokens, Written
  <2> QED
    BY <2>1, <2>2 DEF OnToken, Start, Before
<1> QED
  BY <1>1, DocInitFollows, StepFollows, PTL DEF DocSpec

-----------------------------------------------------------------------------
(* The places of the tokens of a tree in a document in order.              *)

(* Where a token of the tree has come to be, and where what is between it  *)
(* and the one before begins: a NOP, or itself.                            *)
Real(m)  == IF doc.edit.kind = "none" \/ m < At THEN m ELSE m + 1
First(m) == IF doc.edit.kind = "none" \/ m <= At THEN m ELSE m + 1

AtPlace(p, m) == m \in 1 .. Len(Tokens) /\ p \in {Start(First(m)), Start(Real(m))}

(* What has come of the tokens of the tree in a document that is in        *)
(* order.                                                                  *)
LEMMA RealIs ==
  ASSUME Document, Sound, NEW m \in 1 .. Len(Tokens)
  PROVE  /\ Len(Tokens) \in Nat /\ Len(tokens) \in Nat
         /\ Real(m) \in 1 .. Len(tokens) /\ First(m) \in 1 .. Len(tokens)
         /\ tokens[Real(m)] = Tokens[m]
         /\ First(m) # Real(m) => Real(m) = First(m) + 1 /\ tokens[First(m)] = <<FDT_NOP>>
         /\ First(m + 1) = Real(m) + 1 /\ First(1) = 1
         /\ m = Len(Tokens) => (First(m) # Real(m) <=> Trailing)
<1>1. PICK T : T = Tokens /\ T \in Seq(Seq(Nat))
  BY PlacesAre DEF Document
<1>2. PICK N \in Nat : N = Len(T) /\ At \in 1 .. N /\ m \in 1 .. N
  <2>1. At \in DOMAIN T
    BY <1>1 DEF Document, EditFits
  <2>2. Len(T) \in Nat /\ DOMAIN T = 1 .. Len(T)
    BY <1>1
  <2>3. m \in 1 .. Len(T)
    BY <1>1
  <2> QED
    BY <2>1, <2>2, <2>3
<1>3. CASE doc.edit.kind = "none"
  <2>1. tokens = T
    BY <1>1, <1>3 DEF Document, Edited
  <2> QED
    BY <1>1, <1>2, <1>3, <2>1 DEF Real, First, Trailing
<1>4. CASE doc.edit.kind \in {"nop", "trail"}
  <2>1. PICK t : t = <<FDT_NOP>> /\ t \in Seq(Nat)
    <3>1. <<FDT_NOP>> \in Seq(Nat)
      BY DEF FDT_NOP
    <3> QED
      BY <3>1
  <2>2. tokens = InsertAt(T, At, t)
    BY <1>1, <1>4, <2>1 DEF Document, Edited
  <2>3. PICK S : S = Seq(Nat)
    OBVIOUS
  <2>4. IsInsert(tokens, T, At, t)
    <3>1. T \in Seq(S) /\ At \in 1 .. Len(T) /\ t \in S
      BY <1>1, <1>2, <2>1, <2>3
    <3> QED
      BY <2>2, <3>1, Inserted
  <2>5. /\ Len(tokens) = N + 1 /\ tokens[At] = t
        /\ \A i \in 1 .. At - 1 : tokens[i] = T[i]
        /\ \A i \in At .. N : tokens[i + 1] = T[i]
    BY <1>2, <2>4 DEF IsInsert
  <2>6. /\ Real(m) = IF m < At THEN m ELSE m + 1
        /\ First(m) = IF m <= At THEN m ELSE m + 1
        /\ First(m + 1) = (IF m + 1 <= At THEN m + 1 ELSE (m + 1) + 1)
        /\ First(1) = (IF 1 <= At THEN 1 ELSE 2)
    BY <1>4 DEF Real, First
  <2>7. tokens[Real(m)] = T[m]
    <3>1. CASE m < At
      <4>1. m \in 1 .. At - 1 /\ Real(m) = m
        BY <1>2, <2>6, <3>1
      <4> QED
        BY <2>5, <4>1
    <3>2. CASE ~(m < At)
      <4>1. m \in At .. N /\ Real(m) = m + 1
        BY <1>2, <2>6, <3>2
      <4> QED
        BY <2>5, <4>1
    <3> QED
      BY <3>1, <3>2
  <2>8. Real(m) \in 1 .. N + 1 /\ First(m) \in 1 .. N + 1
    BY <1>2, <2>6
  <2>9. First(m) # Real(m) => First(m) = At /\ m = At /\ Real(m) = At + 1
    BY <1>2, <2>6
  <2>10. First(m + 1) = Real(m) + 1 /\ First(1) = 1
    BY <1>2, <2>6
  <2>11. m = N => (First(m) # Real(m) <=> Trailing)
    <3>1. (doc.edit.kind = "nop" => At < N) /\ (doc.edit.kind = "trail" => At = N)
      BY <1>1, <1>2 DEF Document, EditFits
    <3> QED
      BY <1>2, <1>4, <2>6, <3>1 DEF Trailing
  <2> QED
    BY <1>1, <1>2, <2>1, <2>5, <2>7, <2>8, <2>9, <2>10, <2>11
<1> QED
  BY <1>3, <1>4 DEF Sound

(* A NOP there may be passed; otherwise it is the token.                   *)
LEMMA PassingNop ==
  ASSUME Document, Sound, NEW p, NEW m, AtPlace(p, m), Tokens[m][1] # FDT_NOP
  PROVE  /\ Word(p) = FDT_NOP => AtPlace(p + 1, m)
         /\ Word(p) # FDT_NOP => p = Start(Real(m)) /\ Word(p) = Tokens[m][1]
<1>1. m \in 1 .. Len(Tokens) /\ p \in {Start(First(m)), Start(Real(m))}
  BY DEF AtPlace
<1>2. InTokens
  BY DEF Document
<1>3. /\ Real(m) \in 1 .. Len(tokens) /\ First(m) \in 1 .. Len(tokens)
      /\ tokens[Real(m)] = Tokens[m]
      /\ First(m) # Real(m) => Real(m) = First(m) + 1 /\ tokens[First(m)] = <<FDT_NOP>>
  BY <1>1, RealIs
<1>4. Word(Start(Real(m))) = Tokens[m][1]
  BY <1>2, <1>3, TokenIs
<1>5. First(m) # Real(m) => /\ Word(Start(First(m))) = FDT_NOP
                            /\ Start(Real(m)) = Start(First(m)) + 1
  <2> SUFFICES ASSUME First(m) # Real(m)
               PROVE  /\ Word(Start(First(m))) = FDT_NOP
                      /\ Start(Real(m)) = Start(First(m)) + 1
    OBVIOUS
  <2>1. tokens[First(m)][1] = FDT_NOP /\ Real(m) = First(m) + 1
    BY <1>3
  <2>2. Word(Start(First(m))) = tokens[First(m)][1]
        /\ (tokens[First(m)][1] \in {FDT_END_NODE, FDT_NOP} =>
              Start(First(m) + 1) = Start(First(m)) + 1)
    BY <1>2, <1>3, TokenIs
  <2> QED
    BY <2>1, <2>2
<1> QED
  BY <1>1, <1>4, <1>5 DEF AtPlace

(* The next token of the tree is behind the token.                         *)
LEMMA NextPlace ==
  ASSUME Document, Sound, NEW m \in 1 .. Len(Tokens), m + 1 \in 1 .. Len(Tokens)
  PROVE  AtPlace(Start(Real(m) + 1), m + 1) /\ Start(Real(m) + 1) = Start(First(m + 1))
<1>1. First(m + 1) = Real(m) + 1
  BY RealIs
<1> QED
  BY <1>1 DEF AtPlace

-----------------------------------------------------------------------------
(* The tokens of one node, and what is noted of it.                        *)

(* The tokens of a node, and the one behind them.                          *)
LEMMA NodeAt ==
  ASSUME Regular, NEW i \in Ids
  PROVE  /\ Len(Listing(i)) \in Nat /\ Closing(i) \in Nat /\ Place(i, 0) \in Nat
         /\ \A q \in Nat : Place(i, q) = Place(i, 0) + q
         /\ \A q \in 1 .. 2 + Len(Listing(i)) + Closing(i) : Place(i, q) \in 1 .. Len(Tokens)
         /\ Tokens[Place(i, 1)][1] = FDT_BEGIN_NODE
         /\ \A x \in 0 .. Len(Listing(i)) - 1 :
              /\ Tokens[Place(i, 2 + x)] = Listing(i)[x + 1]
              /\ Tokens[Place(i, 2 + x)][1] = FDT_PROP
         /\ \A e \in 0 .. Closing(i) - 1 :
              Tokens[Place(i, 2 + Len(Listing(i)) + e)][1] = FDT_END_NODE
         /\ Place(i, 2 + Len(Listing(i)) + Closing(i)) = Place(i + 1, 1)
         /\ i + 1 \in Ids => Tokens[Place(i + 1, 1)][1] = FDT_BEGIN_NODE
         /\ i + 1 \notin Ids => /\ Place(i + 1, 1) = Len(Tokens)
                                /\ Tokens[Place(i + 1, 1)][1] = FDT_END
<1>1. PICK n \in Nat : n = Len(Tree) /\ Ids = 1 .. n /\ i \in 1 .. n
  BY TreeFacts DEF Regular
<1>2. PICK L \in Nat, c \in Nat : L = Len(Listing(i)) /\ c = Closing(i)
  BY ListingIs, ClosingIs DEF Regular
<1>3. PICK N \in Nat : N = Len(Tokens)
  <2>1. Tokens \in Seq(Seq(Nat))
    BY PlacesAre
  <2> QED
    BY <2>1
<1>4. /\ \A j \in 1 .. n + 1 : Before(Parts, j) \in Nat
      /\ Before(Parts, i + 1) = Before(Parts, i) + 1 + L + c
      /\ Before(Parts, i + 1) < N
      /\ N = Before(Parts, n + 1) + 1
      /\ Tokens[N] = <<FDT_END>>
  <2>1. /\ Len(Tokens) = Place(n + 1, 1) /\ Tokens[Len(Tokens)] = <<FDT_END>>
        /\ \A j \in 1 .. n + 1 : Before(Parts, j) \in Nat /\ Place(j, 0) = Before(Parts, j)
    BY <1>1, PlacesAre
  <2>2. Place(i + 1, 0) = Place(i, 0) + 1 + L + c /\ Place(i + 1, 0) < Len(Tokens)
    BY <1>2, PlacesAre
  <2>3. i \in 1 .. n + 1 /\ i + 1 \in 1 .. n + 1 /\ n + 1 \in 1 .. n + 1
    BY <1>1
  <2>4. Place(n + 1, 1) = Before(Parts, n + 1) + 1
    BY DEF Place
  <2> QED
    BY <1>3, <2>1, <2>2, <2>3, <2>4
<1>5. PICK P \in Nat : P = Before(Parts, i)
  <2>1. i \in 1 .. n + 1
    BY <1>1
  <2> QED
    BY <1>4, <2>1
<1>6. \A q : Place(i, q) = P + q /\ Place(i + 1, q) = Before(Parts, i + 1) + q
  BY <1>5 DEF Place
<1>7. Place(i, 0) \in Nat /\ \A q \in Nat : Place(i, q) = Place(i, 0) + q
  BY <1>6
<1>8. \A q \in 1 .. 2 + L + c : Place(i, q) \in 1 .. N
  BY <1>4, <1>5, <1>6
<1>9. Tokens[Place(i, 1)][1] = FDT_BEGIN_NODE
  <2>1. Tokens[Place(i, 1)] = <<FDT_BEGIN_NODE, 0>>
    BY TokensAt
  <2> QED
    BY <2>1
<1>10. ASSUME NEW x \in 0 .. L - 1
       PROVE  /\ Tokens[Place(i, 2 + x)] = Listing(i)[x + 1]
              /\ Tokens[Place(i, 2 + x)][1] = FDT_PROP
  <2>1. x + 1 \in 1 .. L /\ 1 + (x + 1) = 2 + x
    BY <1>2
  <2>2. Tokens[Place(i, 1 + (x + 1))] = Listing(i)[x + 1]
    BY <1>2, <2>1, TokensAt
  <2>3. PICK w \in 1 .. 7 : Has(i, w) /\ Listing(i)[x + 1] = Item(i, w)
    BY <1>2, <2>1, ListingIs
  <2>4. Item(i, w)[1] = FDT_PROP
    BY <2>3, ItemIs
  <2> QED
    BY <2>1, <2>2, <2>3, <2>4
<1>11. ASSUME NEW e \in 0 .. c - 1
       PROVE  Tokens[Place(i, 2 + L + e)][1] = FDT_END_NODE
  <2>1. e + 1 \in 1 .. c /\ 1 + L + (e + 1) = 2 + L + e
    BY <1>2
  <2>2. Tokens[Place(i, 1 + L + (e + 1))] = <<FDT_END_NODE>>
    BY <1>2, <2>1, TokensAt
  <2> QED
    BY <2>1, <2>2
<1>12. Place(i, 2 + L + c) = Place(i + 1, 1)
  <2>1. Place(i, 2 + L + c) = P + (2 + L + c) /\ Place(i + 1, 1) = Before(Parts, i + 1) + 1
    BY <1>6
  <2> QED
    BY <1>4, <1>5, <2>1
<1>13. i + 1 \in Ids => Tokens[Place(i + 1, 1)][1] = FDT_BEGIN_NODE
  <2> SUFFICES ASSUME i + 1 \in Ids PROVE Tokens[Place(i + 1, 1)][1] = FDT_BEGIN_NODE
    OBVIOUS
  <2>1. Tokens[Place(i + 1, 1)] = <<FDT_BEGIN_NODE, 0>>
    BY TokensAt
  <2> QED
    BY <2>1
<1>14. i + 1 \notin Ids => /\ Place(i + 1, 1) = N
                           /\ Tokens[Place(i + 1, 1)][1] = FDT_END
  <2> SUFFICES ASSUME i + 1 \notin Ids
               PROVE  Place(i + 1, 1) = N /\ Tokens[Place(i + 1, 1)][1] = FDT_END
    OBVIOUS
  <2>1. i = n
    BY <1>1
  <2>2. Place(i + 1, 1) = N
    BY <1>4, <1>6, <2>1
  <2> QED
    BY <1>4, <2>2
<1> HIDE DEF Listing, Closing, Place, Tokens
<1> QED
  BY <1>2, <1>3, <1>7, <1>8, <1>9, <1>10, <1>11, <1>12, <1>13, <1>14

(* What is noted of a node when the properties in W have been read.        *)
Holds(p, ws) == \A q \in 1 .. Len(ws) : Word(p + (q - 1)) = ws[q]

Noted(n, j, W) ==
  /\ n \in Nodes
  /\ n.address_cells = IF 1 \in W THEN Cells(j)[1] ELSE 2
  /\ n.size_cells    = IF 2 \in W THEN Cells(j)[2] ELSE 1
  /\ n.find <=> \/ /\ 3 \in W /\ query.compatible_name # None
                   /\ query.compatible_name \in ToSet(Tree[j].compatible)
                \/ /\ 4 \in W /\ query.device_name # None
                   /\ Tree[j].type = query.device_name
  /\ 5 \in W => /\ n.reg # <<>> /\ n.reg[2] = Bytes(j, 5)
                /\ Holds(n.reg[1], Words(j, 5))
  /\ 5 \notin W => n.reg = <<>>
  /\ 6 \in W => n.ranges # None /\ Holds(n.ranges, Words(j, 6))
  /\ 6 \notin W => n.ranges = None

(* Of a new node nothing is noted.                                         *)
LEMMA NewNoted ==
  ASSUME NEW j
  PROVE  Noted(NewNode, j, {})
BY DEF Noted, NewNode, Nodes, None

(* parse_prop notes one more.                                              *)
LEMMA PropNoted ==
  ASSUME Regular, NEW i \in Ids, NEW w \in 1 .. 7, Has(i, w), NEW W, Noted(Node, i, W),
         NEW v \in Nat, v # None, Holds(v, Words(i, w)),
         query \in [device_name : Nat, compatible_name : Nat],
         Parsed(Name(w), v, Bytes(i, w)) \in Nodes
  PROVE  Noted(Parsed(Name(w), v, Bytes(i, w)), i, W \cup {w})
<1>1. Bytes(i, w) \in Nat /\ Words(i, w) \in Seq(Nat)
  BY WordsAre
<1>2. Node \in Nodes /\ Node = [address_cells |-> Node.address_cells, size_cells |-> Node.size_cells,
             ranges |-> Node.ranges, find |-> Node.find, reg |-> Node.reg]
  BY DEF Noted, Nodes
<1>3. CASE w = 1
  <2>1. Word(v) = Cells(i)[1]
    <3>1. Words(i, 1) = <<Cells(i)[1]>>
      BY WordsByName
    <3>2. 1 \in 1 .. Len(Words(i, w)) /\ v + (1 - 1) = v /\ Words(i, w)[1] = Cells(i)[1]
      BY <1>3, <3>1
    <3> QED
      BY <3>2 DEF Holds
  <2>2. Parsed(Name(w), v, Bytes(i, w)) = [Node EXCEPT !.address_cells = Word(v)]
    BY <1>3, NamesAre DEF Parsed
  <2>5. PICK r : r = Parsed(Name(w), v, Bytes(i, w)) /\ r \in Nodes
    OBVIOUS
  <2>6. /\ r.address_cells = Word(v)
        /\ r.size_cells = Node.size_cells
        /\ r.find = Node.find
        /\ r.reg = Node.reg
        /\ r.ranges = Node.ranges
    BY <1>2, <2>2, <2>5 DEF Nodes
  <2> QED
    BY <1>3, <2>1, <2>5, <2>6 DEF Noted
<1>4. CASE w = 2
  <2>1. Word(v) = Cells(i)[2]
    <3>1. Words(i, 2) = <<Cells(i)[2]>>
      BY WordsByName
    <3>2. 1 \in 1 .. Len(Words(i, w)) /\ v + (1 - 1) = v /\ Words(i, w)[1] = Cells(i)[2]
      BY <1>4, <3>1
    <3> QED
      BY <3>2 DEF Holds
  <2>2. Parsed(Name(w), v, Bytes(i, w)) = [Node EXCEPT !.size_cells = Word(v)]
    BY <1>4, NamesAre DEF Parsed
  <2>5. PICK r : r = Parsed(Name(w), v, Bytes(i, w)) /\ r \in Nodes
    OBVIOUS
  <2>6. /\ r.size_cells = Word(v)
        /\ r.address_cells = Node.address_cells
        /\ r.find = Node.find
        /\ r.reg = Node.reg
        /\ r.ranges = Node.ranges
    BY <1>2, <2>2, <2>5 DEF Nodes
  <2> QED
    BY <1>4, <2>1, <2>5, <2>6 DEF Noted
<1>5. CASE w = 3
  <2>1. PICK m \in Nat : /\ m = Len(Tree[i].compatible) /\ Bytes(i, w) = U32 * m
                         /\ \A q \in 1 .. m : Word(v + (q - 1)) = Tree[i].compatible[q]
                         /\ ToSet(Tree[i].compatible) = {Tree[i].compatible[q] : q \in 1 .. m}
    <3>1. Words(i, w) = Tree[i].compatible
      BY <1>5, WordsByName
    <3>2. Tree[i].compatible \in Seq(Nat)
      BY NodeFacts DEF Regular
    <3>3. Bytes(i, w) = U32 * Len(Words(i, w))
      BY <1>5 DEF Bytes
    <3>4. Len(Tree[i].compatible) \in Nat /\ DOMAIN Tree[i].compatible = 1 .. Len(Tree[i].compatible)
      BY <3>2
    <3> QED
      BY <3>1, <3>3, <3>4 DEF Holds, ToSet
  <2>2. Bytes(i, w) \div U32 = m
    <3>1. Bytes(i, w) = 4 * m /\ U32 = 4
      BY <2>1 DEF U32
    <3>2. (4 * m) \div 4 = m
      OBVIOUS
    <3> QED
      BY <3>1, <3>2
  <2>3. (\E k \in 0 .. m - 1 : Word(v + k) = query.compatible_name)
        <=> query.compatible_name \in ToSet(Tree[i].compatible)
    <3>1. ASSUME NEW k \in 0 .. m - 1, Word(v + k) = query.compatible_name
          PROVE  query.compatible_name \in ToSet(Tree[i].compatible)
      <4>1. k + 1 \in 1 .. m /\ v + ((k + 1) - 1) = v + k
        OBVIOUS
      <4>2. Word(v + k) = Tree[i].compatible[k + 1]
        BY <2>1, <4>1
      <4> QED
        BY <2>1, <3>1, <4>1, <4>2
    <3>2. ASSUME query.compatible_name \in ToSet(Tree[i].compatible)
          PROVE  \E k \in 0 .. m - 1 : Word(v + k) = query.compatible_name
      <4>1. PICK q \in 1 .. m : Tree[i].compatible[q] = query.compatible_name
        BY <2>1, <3>2
      <4>2. q - 1 \in 0 .. m - 1 /\ Word(v + (q - 1)) = Tree[i].compatible[q]
        BY <2>1
      <4> QED
        BY <4>1, <4>2
    <3> QED
      BY <3>1, <3>2
  <2>4. Parsed(Name(w), v, Bytes(i, w)) =
          [Node EXCEPT !.find = @ \/ /\ query.compatible_name # None
                                     /\ \E k \in 0 .. m - 1 : Word(v + k) = query.compatible_name]
    BY <1>5, <2>2, NamesAre DEF Parsed
  <2>5. PICK b \in BOOLEAN : b <=> (\E k \in 0 .. m - 1 : Word(v + k) = query.compatible_name)
    OBVIOUS
  <2>6. Parsed(Name(w), v, Bytes(i, w)) =
          [Node EXCEPT !.find = Node.find \/ (query.compatible_name # None /\ b)]
    BY <1>2, <2>4, <2>5
  <2>7. PICK r : r = Parsed(Name(w), v, Bytes(i, w)) /\ r \in Nodes
    OBVIOUS
  <2>8. /\ r.find <=> Node.find \/ (query.compatible_name # None /\ b)
        /\ r.address_cells = Node.address_cells
        /\ r.size_cells = Node.size_cells
        /\ r.reg = Node.reg
        /\ r.ranges = Node.ranges
    BY <1>2, <2>6, <2>7 DEF Nodes
  <2> QED
    <3>1. /\ 1 \in W \cup {w} <=> 1 \in W
          /\ 2 \in W \cup {w} <=> 2 \in W
          /\ 4 \in W \cup {w} <=> 4 \in W
          /\ 5 \in W \cup {w} <=> 5 \in W
          /\ 6 \in W \cup {w} <=> 6 \in W
          /\ 3 \in W \cup {w}
      BY <1>5
    <3>2. r.find <=> \/ /\ 3 \in W \cup {w} /\ query.compatible_name # None
                        /\ query.compatible_name \in ToSet(Tree[i].compatible)
                     \/ /\ 4 \in W \cup {w} /\ query.device_name # None
                        /\ Tree[i].type = query.device_name
      BY <2>3, <2>5, <2>8, <3>1 DEF Noted
    <3> HIDE DEF Holds
    <3>3. Noted(r, i, W \cup {w})
      BY <2>7, <2>8, <3>1, <3>2 DEF Noted
    <3> QED
      BY <2>7, <3>3
<1>6. CASE w = 4
  <2>1. Word(v) = Tree[i].type
    <3>1. Words(i, 4) = <<Tree[i].type>>
      BY WordsByName
    <3>2. 1 \in 1 .. Len(Words(i, w)) /\ v + (1 - 1) = v /\ Words(i, w)[1] = Tree[i].type
      BY <1>6, <3>1
    <3> QED
      BY <3>2 DEF Holds
  <2>2. Parsed(Name(w), v, Bytes(i, w)) =
          [Node EXCEPT !.find = @ \/ /\ query.device_name # None
                                     /\ Word(v) = query.device_name]
    BY <1>6, NamesAre DEF Parsed
  <2>5. PICK r : r = Parsed(Name(w), v, Bytes(i, w)) /\ r \in Nodes
    OBVIOUS
  <2>6. /\ r.find <=> Node.find \/ (query.device_name # None /\ Word(v) = query.device_name)
        /\ r.address_cells = Node.address_cells
        /\ r.size_cells = Node.size_cells
        /\ r.reg = Node.reg
        /\ r.ranges = Node.ranges
    BY <1>2, <2>2, <2>5 DEF Nodes
  <2> QED
    <3>1. /\ 1 \in W \cup {w} <=> 1 \in W
          /\ 2 \in W \cup {w} <=> 2 \in W
          /\ 3 \in W \cup {w} <=> 3 \in W
          /\ 5 \in W \cup {w} <=> 5 \in W
          /\ 6 \in W \cup {w} <=> 6 \in W
          /\ 4 \in W \cup {w}
      BY <1>6
    <3>2. r.find <=> \/ /\ 3 \in W \cup {w} /\ query.compatible_name # None
                        /\ query.compatible_name \in ToSet(Tree[i].compatible)
                     \/ /\ 4 \in W \cup {w} /\ query.device_name # None
                        /\ Tree[i].type = query.device_name
      BY <2>1, <2>6, <3>1 DEF Noted
    <3> HIDE DEF Holds
    <3>3. Noted(r, i, W \cup {w})
      BY <2>5, <2>6, <3>1, <3>2 DEF Noted
    <3> QED
      BY <2>5, <3>3
<1>7. CASE w = 5
  <2>1. Parsed(Name(w), v, Bytes(i, w)) = [Node EXCEPT !.reg = <<v, Bytes(i, w)>>]
    BY <1>7, NamesAre DEF Parsed
  <2>2. PICK r : r = Parsed(Name(w), v, Bytes(i, w)) /\ r \in Nodes
    OBVIOUS
  <2>3. /\ r.find = Node.find
        /\ r.address_cells = Node.address_cells
        /\ r.size_cells = Node.size_cells
        /\ r.reg = <<v, Bytes(i, w)>>
        /\ r.ranges = Node.ranges
    BY <1>2, <2>1, <2>2 DEF Nodes
  <2>4. /\ 1 \in W \cup {w} <=> 1 \in W
        /\ 2 \in W \cup {w} <=> 2 \in W
        /\ 3 \in W \cup {w} <=> 3 \in W
        /\ 4 \in W \cup {w} <=> 4 \in W
        /\ 6 \in W \cup {w} <=> 6 \in W
        /\ 5 \in W \cup {w}
    BY <1>7
  <2>5. r.reg # <<>> /\ r.reg[1] = v /\ r.reg[2] = Bytes(i, 5)
    BY <1>7, <2>3
  <2> HIDE DEF Holds
  <2>6. Holds(r.reg[1], Words(i, 5))
    BY <1>7, <2>5
  <2>7. Noted(r, i, W \cup {w})
    BY <2>2, <2>3, <2>4, <2>5, <2>6 DEF Noted
  <2> QED
    BY <2>2, <2>7
<1>8. CASE w = 6
  <2>1. Parsed(Name(w), v, Bytes(i, w)) = [Node EXCEPT !.ranges = v]
    BY <1>8, NamesAre DEF Parsed
  <2>2. PICK r : r = Parsed(Name(w), v, Bytes(i, w)) /\ r \in Nodes
    OBVIOUS
  <2>3. /\ r.find = Node.find
        /\ r.address_cells = Node.address_cells
        /\ r.size_cells = Node.size_cells
        /\ r.reg = Node.reg
        /\ r.ranges = v
    BY <1>2, <2>1, <2>2 DEF Nodes
  <2>4. /\ 1 \in W \cup {w} <=> 1 \in W
        /\ 2 \in W \cup {w} <=> 2 \in W
        /\ 3 \in W \cup {w} <=> 3 \in W
        /\ 4 \in W \cup {w} <=> 4 \in W
        /\ 5 \in W \cup {w} <=> 5 \in W
        /\ 6 \in W \cup {w}
    BY <1>8
  <2>5. r.ranges # None /\ Holds(r.ranges, Words(i, 6))
    BY <1>8, <2>3
  <2> HIDE DEF Holds
  <2>6. Noted(r, i, W \cup {w})
    BY <2>2, <2>3, <2>4, <2>5 DEF Noted
  <2> QED
    BY <2>2, <2>6
<1>9. CASE w = 7
  <2>1. Parsed(Name(w), v, Bytes(i, w)) = Node
    BY <1>9, NamesAre DEF Parsed
  <2> QED
    BY <1>2, <1>9, <2>1 DEF Noted, Nodes
<1> QED
  BY <1>3, <1>4, <1>5, <1>6, <1>7, <1>8, <1>9

-----------------------------------------------------------------------------
(* The numbers that read_regs reads.                                       *)

(* The quotient and the remainder by a cell.                               *)
LEMMA Division ==
  ASSUME NEW y \in Nat, NEW c \in Nat \ {0}
  PROVE  /\ y \div c \in Nat /\ y % c \in Nat /\ (y \div c) * c + (y % c) = y /\ y \div c <= y
         /\ y < c => y % c = y
<1>1. y \div c \in Nat /\ y % c \in Nat
  OBVIOUS
<1>2. (y \div c) * c + (y % c) = y
  OBVIOUS
<1>3. y \div c <= y
  OBVIOUS
<1>4. y < c => y % c = y
  OBVIOUS
<1> QED
  BY <1>1, <1>2, <1>3, <1>4

(* The upper cells of a number are no more than the number.                *)
LEMMA AboveIsBelow ==
  ASSUME NEW x \in Nat, NEW k \in Nat
  PROVE  Above(x, k) <= x
<1> DEFINE A == {m \in Nat : Above(x, m) <= x}
<1>1. Above(x, 0) = x /\ \A m \in Nat : Above(x, m) \in Nat /\ Above(x, m + 1) = Above(x, m) \div CELL
  BY AboveIs
<1>2. 0 \in A
  BY <1>1
<1>3. ASSUME NEW m \in A PROVE m + 1 \in A
  <2>1. PICK y \in Nat : y = Above(x, m) /\ y <= x /\ Above(x, m + 1) = y \div CELL
    BY <1>1
  <2>2. y \div CELL \in Nat /\ y \div CELL <= y
    BY CellIsNat, Division
  <2>3. Above(x, m + 1) <= x
    BY <2>1, <2>2
  <2> QED
    BY <2>3
<1>4. A = Nat
  BY <1>2, <1>3, Induction
<1> QED
  BY <1>4

(* read_regs reads the number that was written.                            *)
LEMMA NumberOf ==
  ASSUME blob \in Seq(Nat), NEW p \in Nat, NEW k \in Nat, NEW x \in Nat,
         x < USIZE, FitsIn(x, k), Holds(p, InCells(x, k))
  PROVE  Number(p, k) = x
<1>1. PICK g \in [0 .. k -> 0 .. USIZE - 1] :
         /\ g[0] = 0 /\ Number(p, k) = g[k]
         /\ \A i \in 1 .. k : g[i] = (g[i - 1] * CELL + Word(p + i - 1)) % USIZE
  BY NumberIs
<1>2. \A i \in 1 .. k : Word(p + (i - 1)) = Above(x, k - i) % CELL
  BY InCellsIs DEF Holds
<1> DEFINE A == {m \in Nat : m <= k => g[m] = Above(x, k - m)}
<1>3. Above(x, 0) = x /\ \A m \in Nat : Above(x, m) \in Nat /\ Above(x, m + 1) = Above(x, m) \div CELL
  BY AboveIs
<1>4. 0 \in A
  BY <1>1 DEF FitsIn
<1>5. ASSUME NEW m \in A PROVE m + 1 \in A
  <2> SUFFICES ASSUME m + 1 <= k PROVE g[m + 1] = Above(x, k - (m + 1))
    OBVIOUS
  <2>1. m + 1 \in 1 .. k /\ (m + 1) - 1 = m /\ m <= k /\ p + (m + 1) - 1 = p + ((m + 1) - 1)
        /\ k - (m + 1) \in Nat /\ (k - (m + 1)) + 1 = k - m
    OBVIOUS
  <2>2. PICK y \in Nat : y = Above(x, k - (m + 1)) /\ y <= x
    BY <1>3, <2>1, AboveIsBelow
  <2>3. g[m] = y \div CELL
    <3>1. Above(x, k - m) = y \div CELL
      BY <1>3, <2>1, <2>2
    <3> QED
      BY <2>1, <3>1
  <2>4. Word(p + (m + 1) - 1) = y % CELL
    BY <1>2, <2>1, <2>2
  <2>5. g[m + 1] = ((y \div CELL) * CELL + (y % CELL)) % USIZE
    BY <1>1, <2>1, <2>3, <2>4
  <2>6. (y \div CELL) * CELL + (y % CELL) = y
    BY CellIsNat, Division
  <2>7. y % USIZE = y
    <3>1. y < USIZE /\ USIZE \in Nat \ {0}
      BY <2>2, Usize
    <3> QED
      BY <3>1, Division
  <2> QED
    BY <2>2, <2>5, <2>6, <2>7
<1>6. g[k] = Above(x, k - k)
  <2>1. A = Nat
    BY <1>4, <1>5, Induction
  <2>2. k \in A
    BY <2>1
  <2> QED
    BY <2>2
<1> QED
  BY <1>1, <1>3, <1>6

-----------------------------------------------------------------------------
(* The windows of ranges.                                                  *)

(* The properties of a node, and those noted when x have been read.        *)
AllOf(i)    == {w \in 1 .. 7 : Has(i, w)}
Named(i, x) == {Listing(i)[q][3] : q \in 1 .. x}
Full(n, i)  == Noted(n, i, AllOf(i))

(* A node that has been read is the node of the tree.                      *)
LEMMA FullIs ==
  ASSUME Regular, NEW i \in Ids, NEW n, Full(n, i)
  PROVE  /\ n.address_cells = Cells(i)[1] /\ n.size_cells = Cells(i)[2]
         /\ Tree[i].ranges = <<>> => n.ranges = None
         /\ Tree[i].ranges # <<>> => n.ranges # None /\ Holds(n.ranges, RangesWords(i))
         /\ Tree[i].regs = <<>> => n.reg = <<>>
         /\ Tree[i].regs # <<>> => /\ n.reg # <<>> /\ n.reg[2] = Bytes(i, 5)
                                   /\ Holds(n.reg[1], Words(i, 5))
<1>1. /\ 1 \in AllOf(i) <=> Tree[i].cells # <<>>
      /\ 2 \in AllOf(i) <=> Tree[i].cells # <<>>
      /\ 5 \in AllOf(i) <=> Tree[i].regs # <<>>
      /\ 6 \in AllOf(i) <=> Tree[i].ranges # <<>>
  BY DEF AllOf, Has
<1>2. Tree[i].cells = <<>> => Cells(i)[1] = 2 /\ Cells(i)[2] = 1
  BY DEF Cells
<1>3. Words(i, 6) = RangesWords(i)
  BY WordsByName
<1> HIDE DEF Holds
<1> QED
  BY <1>1, <1>2, <1>3 DEF Full, Noted

(* A node that has been read is found if it is wanted.                     *)
LEMMA FullWanted ==
  ASSUME Regular, NEW i \in Ids, NEW n, Full(n, i), ~BadQuery
  PROVE  n.find <=> Wanted(i)
<1>1. /\ 3 \in AllOf(i) <=> Tree[i].compatible # <<>>
      /\ 4 \in AllOf(i) <=> Tree[i].type # None
  BY DEF AllOf, Has
<1>2. query.compatible_name \in ToSet(Tree[i].compatible) => Tree[i].compatible # <<>>
  BY DEF ToSet
<1>3. (query.device_name = None) <=> (query.compatible_name # None)
  BY DEF BadQuery
<1>4. n.find <=> \/ /\ 3 \in AllOf(i) /\ query.compatible_name # None
                    /\ query.compatible_name \in ToSet(Tree[i].compatible)
                 \/ /\ 4 \in AllOf(i) /\ query.device_name # None
                    /\ Tree[i].type = query.device_name
  BY DEF Full, Noted
<1> QED
  BY <1>1, <1>2, <1>3, <1>4 DEF Wanted

(* Words in two parts: the second begins where the first ends.             *)
LEMMA HoldsJoin ==
  ASSUME NEW p \in Nat, NEW u \in Seq(Nat), NEW v \in Seq(Nat), Holds(p, u \o v)
  PROVE  Holds(p, u) /\ Holds(p + Len(u), v)
<1>1. PICK l, m \in Nat : l = Len(u) /\ m = Len(v)
  OBVIOUS
<1>2. IsJoin(u \o v, u, v)
  BY JoinIs
<1>3. PICK x : x = u \o v
  OBVIOUS
<1>4. /\ Len(x) = l + m
      /\ \A i \in 1 .. l : x[i] = u[i]
      /\ \A i \in l + 1 .. l + m : x[i] = v[i - l]
  BY <1>1, <1>2, <1>3 DEF IsJoin
<1>5. \A q \in 1 .. l + m : Word(p + (q - 1)) = x[q]
  BY <1>3, <1>4 DEF Holds
<1>6. ASSUME NEW q \in 1 .. l PROVE Word(p + (q - 1)) = u[q]
  BY <1>4, <1>5
<1>7. ASSUME NEW q \in 1 .. m PROVE Word((p + l) + (q - 1)) = v[q]
  <2>1. l + q \in 1 .. l + m /\ l + q \in l + 1 .. l + m /\ (l + q) - l = q
        /\ p + ((l + q) - 1) = (p + l) + (q - 1)
    OBVIOUS
  <2> QED
    BY <1>4, <1>5, <2>1
<1> QED
  BY <1>1, <1>6, <1>7 DEF Holds

(* The window of node j: what its ranges say, and what it does.            *)
Through(j, a, size) == /\ Tree[j].ranges[1] <= a
                       /\ a + size <= Tree[j].ranges[1] + Tree[j].ranges[3]

(* read_regs reads the three numbers of ranges.                            *)
LEMMA RangesAre ==
  ASSUME Regular, blob \in Seq(Nat), NEW j \in Ids, Tree[j].ranges # <<>>,
         NEW p \in Nat, Holds(p, RangesWords(j))
  PROVE  /\ Number(p, Cells(j)[1]) = Tree[j].ranges[1]
         /\ Number(p + Cells(j)[1], Cells(ParentOf(j))[1]) = Tree[j].ranges[2]
         /\ Number(p + Cells(j)[1] + Cells(ParentOf(j))[1], Cells(j)[2]) = Tree[j].ranges[3]
<1>1. /\ Tree[j].ranges \in Nat \X Nat \X Nat /\ Cells(j) \in Nat \X Nat /\ j # 1
      /\ Cells(ParentOf(j)) \in Nat \X Nat
  BY NodeFacts DEF Regular, IsWritable
<1>2. PICK r1, r2, r3, c1, c2, b1 \in Nat :
        /\ r1 = Tree[j].ranges[1] /\ r2 = Tree[j].ranges[2] /\ r3 = Tree[j].ranges[3]
        /\ c1 = Cells(j)[1] /\ c2 = Cells(j)[2] /\ b1 = Cells(ParentOf(j))[1]
  BY <1>1
<1>3. /\ FitsIn(r1, c1) /\ FitsIn(r2, b1) /\ FitsIn(r3, c2)
      /\ r1 + r3 < USIZE /\ r2 + r3 < USIZE
  BY <1>2 DEF Regular, IsWritable
<1>4. PICK u, v, w \in Seq(Nat) : /\ u = InCells(r1, c1) /\ Len(u) = c1
                                  /\ v = InCells(r2, b1) /\ Len(v) = b1
                                  /\ w = InCells(r3, c2) /\ Len(w) = c2
  <2>1. InCells(r1, c1) \in Seq(Nat) /\ Len(InCells(r1, c1)) = c1
    BY InCellsIs
  <2>2. InCells(r2, b1) \in Seq(Nat) /\ Len(InCells(r2, b1)) = b1
    BY InCellsIs
  <2>3. InCells(r3, c2) \in Seq(Nat) /\ Len(InCells(r3, c2)) = c2
    BY InCellsIs
  <2> QED
    BY <2>1, <2>2, <2>3
<1>5. RangesWords(j) = u \o v \o w
  BY <1>2, <1>4 DEF RangesWords
<1>6. PICK x \in Seq(Nat) : x = u \o v /\ Len(x) = c1 + b1
  <2>1. u \o v \in Seq(Nat) /\ Len(u \o v) = Len(u) + Len(v)
    OBVIOUS
  <2> QED
    BY <1>4, <2>1
<1>7. Holds(p, x) /\ Holds(p + (c1 + b1), w)
  <2>1. Holds(p, x \o w)
    BY <1>5, <1>6
  <2>2. Holds(p, x) /\ Holds(p + Len(x), w)
    BY <2>1, HoldsJoin
  <2> QED
    BY <1>6, <2>2
<1>8. Holds(p, u) /\ Holds(p + c1, v)
  <2>1. Holds(p, u \o v)
    BY <1>6, <1>7
  <2>2. Holds(p, u) /\ Holds(p + Len(u), v)
    BY <2>1, HoldsJoin
  <2> QED
    BY <1>4, <2>2
<1>9. USIZE \in Nat /\ r1 < USIZE /\ r2 < USIZE /\ r3 < USIZE
  BY <1>3, Usize
<1>10. Number(p, c1) = r1
  BY <1>3, <1>4, <1>8, <1>9, NumberOf
<1>11. Number(p + c1, b1) = r2
  <2>1. p + c1 \in Nat
    OBVIOUS
  <2> QED
    BY <1>3, <1>4, <1>8, <1>9, <2>1, NumberOf
<1>12. Number(p + c1 + b1, c2) = r3
  <2>1. p + c1 + b1 \in Nat /\ p + (c1 + b1) = p + c1 + b1
    OBVIOUS
  <2> QED
    BY <1>3, <1>4, <1>7, <1>9, <2>1, NumberOf
<1> QED
  BY <1>2, <1>10, <1>11, <1>12

(* One step up: nothing without ranges, the offset of the window for what  *)
(* lies within it, and a failure for what does not.                        *)
LEMMA AcrossIs ==
  ASSUME Regular, blob \in Seq(Nat), NEW d \in 1 .. Depth, NEW j \in Ids,
         Full(nodes[d], j), d = 1 <=> j = 1,
         d # 1 => nodes[d - 1].address_cells = Cells(ParentOf(j))[1],
         NEW a \in Nat, NEW size \in Nat
  PROVE  /\ Tree[j].ranges = <<>> => Across(d, a, size) = Ok(a)
         /\ Tree[j].ranges # <<>> /\ Through(j, a, size) =>
              Across(d, a, size) = Ok(a + Offset(j)) /\ a + Offset(j) \in Nat
         /\ Tree[j].ranges # <<>> /\ ~Through(j, a, size) =>
              Across(d, a, size).is # "ok"
<1>1. nodes[d] \in Nodes
  BY DEF Full, Noted
<1>2. CASE Tree[j].ranges = <<>>
  <2>1. nodes[d].ranges = None
    BY <1>2, FullIs
  <2> QED
    BY <1>2, <2>1 DEF Across
<1>3. CASE Tree[j].ranges # <<>>
  <2>1. PICK p \in Nat : p = nodes[d].ranges /\ p # None /\ Holds(p, RangesWords(j))
    <3>1. nodes[d].ranges # None /\ Holds(nodes[d].ranges, RangesWords(j))
      BY <1>3, FullIs
    <3>2. nodes[d].ranges \in Nat
      BY <1>1 DEF Nodes
    <3> QED
      BY <3>1, <3>2
  <2>2. /\ Tree[j].ranges \in Nat \X Nat \X Nat /\ j # 1 /\ d # 1
        /\ Tree[j].ranges[1] + Tree[j].ranges[3] < USIZE
        /\ Tree[j].ranges[2] + Tree[j].ranges[3] < USIZE
    BY <1>3, NodeFacts DEF Regular, IsWritable
  <2>3. PICK r1, r2, r3 \in Nat :
          r1 = Tree[j].ranges[1] /\ r2 = Tree[j].ranges[2] /\ r3 = Tree[j].ranges[3]
    BY <2>2
  <2>4. PICK c1, c2, b1 : /\ c1 = Cells(j)[1] /\ c2 = Cells(j)[2]
                          /\ b1 = Cells(ParentOf(j))[1]
    OBVIOUS
  <2>5. /\ Number(p, c1) = r1 /\ Number(p + c1, b1) = r2
        /\ Number(p + c1 + b1, c2) = r3
    BY <1>3, <2>1, <2>3, <2>4, RangesAre
  <2>6. /\ nodes[d].address_cells = c1 /\ nodes[d].size_cells = c2
        /\ nodes[d - 1].address_cells = b1
    BY <2>2, <2>4, FullIs
  <2>7. Across(d, a, size) =
          IF d = 1 \/ r1 + r3 >= USIZE \/ a + size >= USIZE THEN Fails("panic")
          ELSE IF r1 + r3 < a + size THEN Fails("err")
          ELSE IF a < r1 \/ a - r1 + r2 >= USIZE THEN Fails("panic")
          ELSE Ok(a - r1 + r2)
    BY <2>1, <2>5, <2>6 DEF Across
  <2>8. USIZE \in Nat
    BY Usize
  <2>9. r1 + r3 < USIZE /\ r2 + r3 < USIZE
    BY <2>2, <2>3
  <2>10. CASE Through(j, a, size)
    <3>1. r1 <= a /\ a + size <= r1 + r3
      BY <2>3, <2>10 DEF Through
    <3>2. ~(a + size >= USIZE) /\ ~(r1 + r3 < a + size) /\ ~(a < r1)
          /\ ~(a - r1 + r2 >= USIZE) /\ ~(r1 + r3 >= USIZE)
      BY <2>8, <2>9, <3>1
    <3>3. Across(d, a, size) = Ok(a - r1 + r2)
      BY <2>2, <2>7, <3>2
    <3>4. a + Offset(j) = a - r1 + r2 /\ a - r1 + r2 \in Nat
      <4>1. Offset(j) = r2 - r1
        BY <2>3 DEF Offset
      <4>2. a + (r2 - r1) = a - r1 + r2 /\ a - r1 + r2 \in Nat
        BY <3>1
      <4> QED
        BY <4>1, <4>2
    <3> QED
      BY <1>3, <2>10, <3>3, <3>4
  <2>11. CASE ~Through(j, a, size)
    <3>1. ~(r1 <= a) \/ ~(a + size <= r1 + r3)
      BY <2>3, <2>11 DEF Through
    <3>2. a < r1 \/ r1 + r3 < a + size
      BY <3>1
    <3>3. Fails("panic").is # "ok" /\ Fails("err").is # "ok"
      BY DEF Fails
    <3> QED
      BY <1>3, <2>7, <2>11, <3>2, <3>3
  <2> QED
    BY <2>10, <2>11
<1> QED
  BY <1>2, <1>3

-----------------------------------------------------------------------------
(* The translation of an address.                                          *)

(* The nodes on the stack are those of the tree, down to the d-th.         *)
Settled(ns, i, d) == \A k \in 1 .. d : Full(ns[k], OnLine(i, k))

(* The windows passed in k steps up from node i.                           *)
Passed(i, k) == {b \in Bridges(i) : Tree[b].depth + k > Tree[i].depth}
Window(i, b, a, size) == Through(b, Shifted(a, {c \in Bridges(i) : c > b}), size)

(* The nodes whose ranges apply are above the node.                        *)
LEMMA BridgesAre ==
  ASSUME Regular, NEW i \in Ids
  PROVE  /\ Bridges(i) \subseteq Line(i) /\ i \notin Bridges(i) /\ IsFiniteSet(Bridges(i))
         /\ \A b \in Line(i) : b # i /\ Tree[b].ranges # <<>> => b \in Bridges(i)
         /\ \A b \in Bridges(i) : b \in Ids /\ Tree[b].ranges # <<>> /\ Offset(b) \in Int
<1>1. IsTree
  BY DEF Regular
<1>2. PICK n \in Nat : Ids = 1 .. n
  BY <1>1, TreeFacts
<1>3. Line(i) = Ancestors(i) \cup {i} /\ i \notin Ancestors(i)
  BY <1>2 DEF Line, Ancestors
<1>4. Line(i) \subseteq Ids
  BY <1>1, LineIs
<1>5. ASSUME NEW b \in Bridges(i) PROVE Offset(b) \in Int
  <2>1. b \in Ids /\ Tree[b].ranges # <<>>
    BY <1>3, <1>4 DEF Bridges
  <2>2. Tree[b].ranges \in Nat \X Nat \X Nat
    BY <1>1, <2>1, NodeFacts
  <2> QED
    BY <2>2 DEF Offset
<1>6. IsFiniteSet(Bridges(i))
  <2>1. 1 \in Int /\ i \in Int
    BY <1>2
  <2>2. IsFiniteSet(1 .. i)
    BY <2>1, FS_Interval, Zenon
  <2>3. Bridges(i) \subseteq 1 .. i
    BY <1>2 DEF Bridges, Ancestors
  <2> QED
    BY <2>2, <2>3, FS_Subset
<1> QED
  BY <1>3, <1>4, <1>5, <1>6 DEF Bridges

(* At first none has been passed, at last all have been.                   *)
LEMMA PassedIs ==
  ASSUME Regular, NEW i \in Ids
  PROVE  /\ Passed(i, 0) = {} /\ Passed(i, Tree[i].depth + 1) = Bridges(i)
         /\ \A k \in 0 .. Tree[i].depth + 1 : Passed(i, k) \subseteq Bridges(i)
<1>1. PICK D \in Nat : D = Tree[i].depth + 1 /\ Tree[i].depth = D - 1
  <2>1. Tree[i].depth \in Nat
    BY TreeFacts DEF Regular
  <2> QED
    BY <2>1
<1>2. \A b \in Bridges(i) : Tree[b].depth + 1 \in 1 .. D /\ Tree[b].depth \in Nat
  <2>1. \A b \in Line(i) : Tree[b].depth + 1 \in 1 .. D
    BY <1>1, OnLineIs DEF Regular
  <2>2. \A b \in Bridges(i) : b \in Line(i) /\ b \in Ids
    BY BridgesAre
  <2> QED
    BY <2>1, <2>2, TreeFacts DEF Regular
<1>3. Passed(i, 0) = {}
  BY <1>1, <1>2 DEF Passed
<1>4. Passed(i, D) = Bridges(i)
  <2>1. \A b \in Bridges(i) : Tree[b].depth + D > Tree[i].depth
    BY <1>1, <1>2
  <2> QED
    BY <2>1 DEF Passed
<1> QED
  BY <1>1, <1>3, <1>4 DEF Passed

(* One step up passes the node there if it has ranges, and all those       *)
(* further down have been passed before.                                   *)
LEMMA NextPassed ==
  ASSUME Regular, NEW i \in Ids, NEW k \in 1 .. Tree[i].depth + 1,
         NEW j, j = OnLine(i, Tree[i].depth + 1 + 1 - k)
  PROVE  /\ j \in Line(i) /\ j \notin Passed(i, k - 1)
         /\ j \in Bridges(i) => /\ Passed(i, k) = Passed(i, k - 1) \cup {j}
                               /\ {c \in Bridges(i) : c > j} = Passed(i, k - 1)
         /\ j \notin Bridges(i) => Passed(i, k) = Passed(i, k - 1)
<1>1. PICK D \in Nat : D = Tree[i].depth + 1 /\ k \in 1 .. D /\ Tree[i].depth = D - 1
  <2>1. Tree[i].depth \in Nat
    BY TreeFacts DEF Regular
  <2> QED
    BY <2>1
<1>2. IsTree
  BY DEF Regular
<1>3. PICK d \in 1 .. D : d = Tree[i].depth + 1 + 1 - k /\ d - 1 = D - k
  <2>1. Tree[i].depth + 1 + 1 - k \in 1 .. D /\ (Tree[i].depth + 1 + 1 - k) - 1 = D - k
    BY <1>1
  <2> QED
    BY <2>1
<1>4. j \in Line(i) /\ Tree[j].depth = D - k
  <2>1. j = OnLine(i, d) /\ d \in 1 .. Tree[i].depth + 1
    BY <1>1, <1>3
  <2> QED
    BY <1>2, <1>3, <2>1, OnLineIs
<1>5. ASSUME NEW b \in Line(i)
      PROVE  /\ Tree[b].depth + 1 \in 1 .. D /\ Tree[b].depth \in Nat
             /\ b # j => Tree[b].depth # Tree[j].depth
             /\ b > j <=> Tree[b].depth > Tree[j].depth
  <2>1. Tree[b].depth + 1 \in 1 .. D /\ OnLine(i, Tree[b].depth + 1) = b
    BY <1>1, <1>2, OnLineIs
  <2>2. OnLine(i, Tree[j].depth + 1) = j
    BY <1>2, <1>4, OnLineIs
  <2>3. b \in Ids /\ j \in Ids /\ b \in Int /\ j \in Int
    BY <1>2, <1>4, LineIs, TreeFacts
  <2>4. Tree[b].depth \in Nat /\ Tree[j].depth \in Nat
    BY <1>2, <2>3, TreeFacts
  <2>5. b # j => Tree[b].depth # Tree[j].depth
    BY <2>1, <2>2
  <2>6. /\ b < j => Tree[b].depth < Tree[j].depth
        /\ j < b => Tree[j].depth < Tree[b].depth
    BY <1>2, <1>4, LineIs
  <2> QED
    BY <2>1, <2>3, <2>4, <2>5, <2>6
<1>6. Bridges(i) \subseteq Line(i)
  BY BridgesAre
<1>7. ASSUME NEW b \in Bridges(i)
      PROVE  /\ b \in Passed(i, k) <=> b \in Passed(i, k - 1) \/ b = j
             /\ b \in Passed(i, k - 1) <=> b > j
             /\ b \in Passed(i, k - 1) => b # j
  <2>1. /\ Tree[b].depth + 1 \in 1 .. D /\ Tree[b].depth \in Nat
        /\ b # j => Tree[b].depth # Tree[j].depth
        /\ b > j <=> Tree[b].depth > Tree[j].depth
    BY <1>5, <1>6
  <2>2. /\ b \in Passed(i, k) <=> Tree[b].depth + 1 > D - k
        /\ b \in Passed(i, k - 1) <=> Tree[b].depth + 1 > D - (k - 1)
    <3>1. /\ b \in Passed(i, k) <=> Tree[b].depth + k > Tree[i].depth
          /\ b \in Passed(i, k - 1) <=> Tree[b].depth + (k - 1) > Tree[i].depth
      BY DEF Passed
    <3> QED
      BY <1>1, <2>1, <3>1
  <2>3. PICK x \in Nat : x = Tree[b].depth
    BY <2>1
  <2>4. x = D - k <=> b = j
    BY <1>4, <2>1, <2>3
  <2>5. b > j <=> x > D - k
    BY <1>4, <2>1, <2>3
  <2>6. (x + 1 > D - k <=> x >= D - k) /\ (x + 1 > D - (k - 1) <=> x > D - k)
    BY <1>1
  <2>7. x >= D - k <=> x > D - k \/ x = D - k
    BY <1>1
  <2>8. x > D - k => x # D - k
    BY <1>1
  <2> QED
    BY <2>2, <2>3, <2>4, <2>5, <2>6, <2>7, <2>8
<1>8. Passed(i, k) \subseteq Bridges(i) /\ Passed(i, k - 1) \subseteq Bridges(i)
  BY DEF Passed
<1>9. j \notin Passed(i, k - 1)
  BY <1>7, <1>8
<1>10. ASSUME j \in Bridges(i)
       PROVE  /\ Passed(i, k) = Passed(i, k - 1) \cup {j}
              /\ {c \in Bridges(i) : c > j} = Passed(i, k - 1)
  BY <1>7, <1>8, <1>10
<1>11. ASSUME j \notin Bridges(i) PROVE Passed(i, k) = Passed(i, k - 1)
  BY <1>7, <1>8, <1>11
<1> QED
  BY <1>4, <1>9, <1>10, <1>11

(* An address shifted by one window more.                                  *)
LEMMA ShiftedIs ==
  ASSUME Regular, NEW i \in Ids, NEW S \in SUBSET Bridges(i), NEW a \in Nat
  PROVE  /\ Shifted(a, S) \in Int /\ Shifted(a, {}) = a
         /\ \A j \in Bridges(i) : j \notin S => Shifted(a, S \cup {j}) = Shifted(a, S) + Offset(j)
<1>1. \A T : Shifted(a, T) = a + Offsets(T)
  BY DEF Shifted, Offsets
<1>2. IsFiniteSet(Bridges(i)) /\ \A b \in Bridges(i) : Offset(b) \in Int
  BY BridgesAre
<1>3. ASSUME NEW T \in SUBSET Bridges(i)
      PROVE  /\ IsFiniteSet(T) /\ Offsets(T) \in Int
             /\ \A j \in T : Offsets(T) = Offset(j) + Offsets(T \ {j})
  <2>1. IsFiniteSet(T)
    BY <1>2, FS_Subset
  <2>2. \A j \in T : Offset(j) \in Int
    BY <1>2
  <2> QED
    BY <2>1, <2>2, SumTakes
<1>4. Shifted(a, S) \in Int
  BY <1>1, <1>3
<1>5. Shifted(a, {}) = a
  BY <1>1, SumOfNone
<1>6. ASSUME NEW j \in Bridges(i), j \notin S
      PROVE  Shifted(a, S \cup {j}) = Shifted(a, S) + Offset(j)
  <2>1. PICK T : T = S \cup {j} /\ T \in SUBSET Bridges(i) /\ j \in T /\ T \ {j} = S
    <3>1. (S \cup {j}) \ {j} = S
      BY <1>6
    <3>2. S \cup {j} \in SUBSET Bridges(i) /\ j \in S \cup {j}
      OBVIOUS
    <3> QED
      BY <3>1, <3>2
  <2>2. Offsets(T) = Offset(j) + Offsets(S)
    <3>1. Offsets(T) = Offset(j) + Offsets(T \ {j})
      BY <1>3, <2>1
    <3> QED
      BY <2>1, <3>1
  <2>3. PICK x, y \in Int : x = Offsets(S) /\ y = Offset(j)
    BY <1>2, <1>3
  <2>4. Shifted(a, T) = a + (y + x) /\ Shifted(a, S) = a + x
    BY <1>1, <2>2, <2>3
  <2>5. Shifted(a, T) = Shifted(a, S) + y
    BY <2>3, <2>4
  <2> QED
    BY <2>1, <2>3, <2>5
<1> QED
  BY <1>4, <1>5, <1>6

(* The translation of an address on the bus of node i is what the ranges   *)
(* above it make of it, and fails where one of them does not contain it.   *)
LEMMA TranslatedIs ==
  ASSUME Regular, blob \in Seq(Nat), nodes \in Seq(Nodes), NEW i \in Ids,
         Depth = Tree[i].depth + 1, Settled(nodes, i, Depth), Tree[i].ranges = <<>>,
         NEW a \in Usizes, NEW size \in Usizes
  PROVE  /\ Reaches(i, a, size) => Translated(a, size) = Ok(Shifted(a, Bridges(i)))
         /\ ~Reaches(i, a, size) => Translated(a, size).is # "ok"
<1>1. PICK D \in Nat : D = Depth /\ D = Tree[i].depth + 1 /\ D >= 1
  BY TreeFacts DEF Regular
<1>2. a \in Nat /\ size \in Nat
  BY Usize DEF Usizes
<1>3. PICK f \in [0 .. D -> Results] : Climbs(f, a, size)
  BY <1>1, Climb
<1>4. /\ f[0] = Ok(a) /\ Translated(a, size) = f[D]
      /\ \A k \in 1 .. D :
           f[k] = IF f[k - 1].is = "ok" THEN Across(D + 1 - k, f[k - 1].address, size)
                  ELSE f[k - 1]
  BY <1>1, <1>3 DEF Climbs
<1> DEFINE Good(k) == \A b \in Passed(i, k) : Window(i, b, a, size)
           X(k)    == Shifted(a, Passed(i, k))
           Is(k)   == /\ Good(k) => f[k] = Ok(X(k)) /\ X(k) \in Nat
                      /\ ~Good(k) => f[k].is # "ok"
           A == {k \in Nat : k <= D => Is(k)}
<1>5. IsTree
  BY DEF Regular
<1>6. 0 \in A
  <2>1. Passed(i, 0) = {}
    BY PassedIs
  <2>2. X(0) = a
    <3>1. {} \in SUBSET Bridges(i)
      OBVIOUS
    <3> QED
      BY <1>2, <2>1, <3>1, ShiftedIs
  <2>3. Good(0)
    BY <2>1
  <2> HIDE DEF X, Good
  <2> QED
    BY <1>2, <1>4, <2>2, <2>3
<1>7. ASSUME NEW m \in A PROVE m + 1 \in A
  <2> SUFFICES ASSUME m + 1 <= D PROVE Is(m + 1)
    OBVIOUS
  <2>1. PICK k \in 1 .. D : k = m + 1 /\ k - 1 = m /\ m \in 0 .. D
    <3>1. m \in Nat
      OBVIOUS
    <3> HIDE DEF A
    <3>2. m + 1 \in 1 .. D /\ (m + 1) - 1 = m /\ m \in 0 .. D
      BY <1>1, <3>1
    <3> QED
      BY <3>2
  <2>2. Is(m)
    BY <2>1
  <2>3. PICK d \in 1 .. D : d = D + 1 - k
    <3>1. D + 1 - k \in 1 .. D
      BY <1>1, <2>1
    <3> QED
      BY <3>1
  <2>4. PICK j : j = OnLine(i, d)
    OBVIOUS
  <2>5. /\ j \in Line(i) /\ j \notin Passed(i, m)
        /\ j \in Bridges(i) => /\ Passed(i, k) = Passed(i, m) \cup {j}
                              /\ {c \in Bridges(i) : c > j} = Passed(i, m)
        /\ j \notin Bridges(i) => Passed(i, k) = Passed(i, m)
    <3>1. k \in 1 .. Tree[i].depth + 1 /\ j = OnLine(i, Tree[i].depth + 1 + 1 - k)
      BY <1>1, <2>3, <2>4
    <3>2. /\ j \in Line(i) /\ j \notin Passed(i, k - 1)
          /\ j \in Bridges(i) => /\ Passed(i, k) = Passed(i, k - 1) \cup {j}
                                /\ {c \in Bridges(i) : c > j} = Passed(i, k - 1)
          /\ j \notin Bridges(i) => Passed(i, k) = Passed(i, k - 1)
      BY <3>1, NextPassed
    <3> HIDE DEF A
    <3> QED
      BY <2>1, <3>2
  <2>6. j \in Ids /\ Full(nodes[d], j) /\ Tree[j].depth = d - 1
    <3>1. j \in Ids
      BY <1>5, <2>5, LineIs
    <3>2. Full(nodes[d], j)
      BY <1>1, <2>3, <2>4 DEF Settled
    <3>3. d \in 1 .. Tree[i].depth + 1
      BY <1>1, <2>3
    <3> QED
      BY <1>5, <2>4, <3>1, <3>2, <3>3, OnLineIs
  <2>7. d = 1 <=> j = 1
    <3>1. j = 1 => Tree[j].depth = 0
      BY <1>5, TreeFacts
    <3>2. j # 1 => Tree[j].depth # 0
      <4> SUFFICES ASSUME j # 1 PROVE Tree[j].depth # 0
        OBVIOUS
      <4> HIDE DEF A
      <4>1. j - 1 \in Ids /\ (j - 1) + 1 = j
        BY <1>5, <2>6, TreeFacts
      <4>2. Tree[j].depth >= 1 /\ Tree[j].depth \in Nat
        <5>1. PICK b \in Ids : b + 1 = j
          BY <4>1
        <5>2. b + 1 \in Ids
          BY <2>6, <5>1
        <5>3. Tree[b + 1].depth >= 1 /\ Tree[b + 1].depth \in Nat
          BY <1>5, <5>2, TreeFacts
        <5> QED
          BY <5>1, <5>3
      <4> QED
        BY <4>2
    <3> QED
      BY <2>3, <2>6, <3>1, <3>2
  <2>8. d # 1 => nodes[d - 1].address_cells = Cells(ParentOf(j))[1]
    <3> SUFFICES ASSUME d # 1 PROVE nodes[d - 1].address_cells = Cells(ParentOf(j))[1]
      OBVIOUS
    <3> HIDE DEF A
    <3>1. d \in 2 .. Tree[i].depth + 1 /\ d - 1 \in 1 .. D /\ d - 1 \in 1 .. Tree[i].depth + 1
      <4>1. d \in 2 .. D /\ d - 1 \in 1 .. D
        OBVIOUS
      <4>2. Tree[i].depth + 1 = D
        BY <1>1
      <4> QED
        BY <4>1, <4>2
    <3>2. ParentOf(j) = OnLine(i, d - 1)
      BY <1>5, <2>4, <3>1, ParentOnLine
    <3>3. OnLine(i, d - 1) \in Ids
      BY <1>5, <3>1, OnLineIs, LineIs
    <3>4. Full(nodes[d - 1], OnLine(i, d - 1))
      BY <1>1, <3>1 DEF Settled
    <3> QED
      BY <3>2, <3>3, <3>4, FullIs
  <2>9. f[k] = IF f[m].is = "ok" THEN Across(d, f[m].address, size) ELSE f[m]
    BY <1>4, <2>1, <2>3
  <2>10. Passed(i, m) \subseteq Passed(i, k)
    BY <2>5
  <2>11. CASE ~Good(m)
    <3>1. f[m].is # "ok"
      BY <2>2, <2>11
    <3>2. ~Good(k)
      BY <2>10, <2>11
    <3>3. f[k].is # "ok"
      BY <2>9, <3>1
    <3> QED
      BY <2>1, <3>2, <3>3
  <2>12. CASE Good(m)
    <3>1. PICK x \in Nat : x = X(m) /\ f[m] = Ok(x)
      BY <2>2, <2>12
    <3>2. f[m].is = "ok" /\ f[m].address = x
      BY <3>1 DEF Ok
    <3>3. f[k] = Across(d, x, size)
      BY <2>9, <3>2
    <3>4. /\ Tree[j].ranges = <<>> => f[k] = Ok(x)
          /\ Tree[j].ranges # <<>> /\ Through(j, x, size) =>
               f[k] = Ok(x + Offset(j)) /\ x + Offset(j) \in Nat
          /\ Tree[j].ranges # <<>> /\ ~Through(j, x, size) => f[k].is # "ok"
      <4>1. d \in 1 .. Depth
        BY <1>1
      <4> QED
        BY <1>2, <2>6, <2>7, <2>8, <3>3, <4>1, AcrossIs
    <3>5. CASE j \notin Bridges(i)
      <4>1. Tree[j].ranges = <<>>
        BY <2>5, <3>5, BridgesAre
      <4>2. Passed(i, k) = Passed(i, m)
        BY <2>5, <3>5
      <4>3. Good(k) /\ X(k) = X(m)
        BY <2>12, <4>2
      <4>4. f[k] = Ok(x)
        BY <3>4, <4>1
      <4>5. Is(k)
        BY <3>1, <4>3, <4>4
      <4> QED
        BY <2>1, <4>5
    <3>6. CASE j \in Bridges(i)
      <4>1. Tree[j].ranges # <<>>
        BY <3>6, BridgesAre
      <4>2. Passed(i, k) = Passed(i, m) \cup {j} /\ {c \in Bridges(i) : c > j} = Passed(i, m)
        BY <2>5, <3>6
      <4>3. Window(i, j, a, size) <=> Through(j, x, size)
        BY <3>1, <4>2 DEF Window
      <4>4. Good(k) <=> Window(i, j, a, size)
        BY <2>12, <4>2
      <4>5. X(k) = x + Offset(j)
        <5>1. Passed(i, m) \in SUBSET Bridges(i)
          BY <1>1, <2>1, PassedIs
        <5>2. PICK S \in SUBSET Bridges(i) : S = Passed(i, m) /\ j \notin S
          BY <2>5, <5>1
        <5>3. Shifted(a, S \cup {j}) = Shifted(a, S) + Offset(j)
          <6>1. \A c \in Bridges(i) : c \notin S => Shifted(a, S \cup {c}) = Shifted(a, S) + Offset(c)
            <7> HIDE DEF A, Is, X, Good
            <7>1. PICK y \in Nat : y = a
              BY <1>2
            <7>2. \A c \in Bridges(i) : c \notin S => Shifted(y, S \cup {c}) = Shifted(y, S) + Offset(c)
              BY ShiftedIs
            <7> QED
              BY <7>1, <7>2
          <6> QED
            BY <3>6, <5>2, <6>1, Zenon
        <5> QED
          BY <3>1, <4>2, <5>2, <5>3
      <4> HIDE DEF X, Good
      <4>6. Is(k)
        BY <3>4, <4>1, <4>3, <4>4, <4>5
      <4> QED
        BY <2>1, <4>6
    <3> QED
      BY <3>5, <3>6
  <2> QED
    BY <2>11, <2>12
<1>8. Is(D)
  <2>1. A = Nat
    BY <1>6, <1>7, Induction
  <2>2. D \in A
    BY <2>1
  <2> QED
    BY <2>2
<1>9. Passed(i, D) = Bridges(i)
  BY <1>1, PassedIs
<1>10. Reaches(i, a, size) <=> Good(D)
  BY <1>9 DEF Reaches, Window, Through
<1> QED
  BY <1>4, <1>8, <1>9, <1>10

-----------------------------------------------------------------------------
(* The entries of reg.                                                     *)

(* Products of the number of entries and their size.                       *)
LEMMA Times ==
  ASSUME NEW j \in Nat, NEW n \in Nat, NEW e \in Nat, j + 1 <= n
  PROVE  j * e \in Nat /\ n * e \in Nat /\ (j + 1) * e = j * e + e /\ j * e + e <= n * e
<1>1. j * e \in Nat /\ n * e \in Nat /\ (j + 1) * e = j * e + e
  OBVIOUS
<1>2. PICK d \in Nat : n = j + 1 + d
  <2>1. n - j - 1 \in Nat /\ n = j + 1 + (n - j - 1)
    OBVIOUS
  <2> QED
    BY <2>1
<1>3. n * e = j * e + e + d * e /\ d * e \in Nat
  BY <1>2
<1> QED
  BY <1>1, <1>3

(* A number in at most two cells is a usize.                               *)
LEMMA FitsInUsize ==
  ASSUME NEW x \in Nat, NEW k \in Nat, k <= 2, FitsIn(x, k)
  PROVE  x < USIZE /\ x \in Usizes
<1>1. /\ Above(x, 0) = x
      /\ Above(x, 1) = x \div CELL /\ Above(x, 2) = (x \div CELL) \div CELL
      /\ Above(x, 1) \in Nat
  <2>1. /\ Above(x, 0) = x /\ Above(x, 0 + 1) = Above(x, 0) \div CELL
        /\ Above(x, 1 + 1) = Above(x, 1) \div CELL /\ Above(x, 1) \in Nat
    BY AboveIs
  <2> QED
    BY <2>1
<1>2. CELL \in Nat \ {0} /\ USIZE = CELL * CELL
  BY CellIsNat DEF USIZE
<1>3. \A y \in Nat : y \div CELL = 0 => y < CELL
  <2> SUFFICES ASSUME NEW y \in Nat, y \div CELL = 0 PROVE y < CELL
    OBVIOUS
  <2>1. (y \div CELL) * CELL + (y % CELL) = y /\ y % CELL < CELL /\ y % CELL \in Nat
    BY <1>2, Division
  <2> QED
    BY <1>2, <2>1
<1>4. CELL <= CELL * CELL /\ CELL * CELL \in Nat
  BY <1>2
<1>5. k = 0 => x < USIZE
  BY <1>1, <1>2, <1>4 DEF FitsIn
<1>6. k = 1 => x < USIZE
  <2> SUFFICES ASSUME k = 1 PROVE x < USIZE
    OBVIOUS
  <2>1. x \div CELL = 0
    BY <1>1 DEF FitsIn
  <2>2. x < CELL
    BY <1>3, <2>1
  <2> QED
    BY <1>2, <1>4, <2>2
<1>7. k = 2 => x < USIZE
  <2> SUFFICES ASSUME k = 2 PROVE x < USIZE
    OBVIOUS
  <2>1. PICK y \in Nat : y = x \div CELL /\ y \div CELL = 0
    BY <1>1 DEF FitsIn
  <2>2. y < CELL
    BY <1>3, <2>1
  <2>3. y * CELL + (x % CELL) = x /\ x % CELL \in Nat /\ x % CELL < CELL
    BY <1>2, <2>1, Division
  <2>4. y * CELL + CELL <= CELL * CELL /\ y * CELL \in Nat
    BY <1>2, <2>2, Times
  <2> QED
    BY <1>2, <1>4, <2>3, <2>4
<1>8. x < USIZE
  BY <1>5, <1>6, <1>7
<1> QED
  BY <1>8, Usize DEF Usizes

(* reg, while it is delivered: j entries have been handed out.             *)
Whole(i, k)  == Tree[i].cut > 0 => k < Len(Tree[i].regs)
Left(i, j)   == U32 * RegLen(i) - U32 * (j * EntryCells(i))
Below(ns, i) == /\ ns \in Seq(Nodes) /\ Len(ns) = Tree[i].depth + 1
                /\ Settled(ns, i, Len(ns))

(* The bytes of reg are its words.                                         *)
LEMMA RegBytes ==
  ASSUME Regular, NEW i \in Ids, i # 1, Tree[i].regs # <<>>
  PROVE  /\ Bytes(i, 5) = U32 * RegLen(i) /\ Words(i, 5) = SubSeq(RegWords(i), 1, RegLen(i))
         /\ Words(i, 5) \in Seq(Nat) /\ Len(Words(i, 5)) = RegLen(i)
         /\ \A q \in 1 .. RegLen(i) : Words(i, 5)[q] = RegWords(i)[q]
<1>1. Words(i, 5) = SubSeq(RegWords(i), 1, RegLen(i))
  BY WordsByName
<1>2. RegWords(i) \in Seq(Nat) /\ RegLen(i) \in 1 .. Len(RegWords(i))
  BY RegWordsIs, RegLenIs DEF Regular
<1>3. RegLen(i) \in 0 .. Len(RegWords(i))
  BY <1>2
<1>4. /\ Words(i, 5) \in Seq(Nat) /\ Len(Words(i, 5)) = RegLen(i)
      /\ \A q \in 1 .. RegLen(i) : Words(i, 5)[q] = RegWords(i)[q]
  BY <1>1, <1>2, <1>3, Beginning
<1>5. Bytes(i, 5) = U32 * Len(Words(i, 5))
  BY DEF Bytes
<1> QED
  BY <1>1, <1>4, <1>5

LeftOver(n, e, r, c, j) ==
  /\ 4 * r - 4 * (j * e) > 0
  /\ 4 * r - 4 * (j * e) >= 4 * e <=> (c > 0 => j + 1 < n)
  /\ 4 * r - 4 * ((j + 1) * e) = 4 * r - 4 * (j * e) - 4 * e
  /\ (c > 0 => j + 1 < n) => (j + 1) * e <= r

(* The bytes left of n entries of e words, of which c bytes are missing.   *)
LEMMA BytesLeft ==
  ASSUME NEW n \in Nat, NEW e \in Nat, NEW r \in Nat, NEW c \in Nat, NEW j \in Nat,
         e > 0, 4 * r = 4 * (n * e) - c, c < 4 * e, j < n
  PROVE  LeftOver(n, e, r, c, j)
<1>1. PICK x \in Nat : x = j * e
  BY Times
<1>2. PICK w \in Nat : w = n * e
  BY Times
<1>3. (j + 1) * e = x + e /\ x + e <= w
  BY <1>1, <1>2, Times
<1>4. 4 * r = 4 * w - c
  BY <1>2
<1>5. j + 1 = n => x + e = w
  BY <1>2, <1>3
<1>6. j + 1 < n => x + e + e <= w
  <2> SUFFICES ASSUME j + 1 < n PROVE x + e + e <= w
    OBVIOUS
  <2>1. PICK m \in Nat : m = j + 1
    OBVIOUS
  <2>2. m + 1 <= n
    BY <2>1
  <2>3. m * e + e <= n * e
    BY <2>2, Times
  <2>4. m * e = x + e
    BY <1>3, <2>1
  <2> QED
    BY <1>2, <2>3, <2>4
<1>7. j + 1 = n \/ j + 1 < n
  OBVIOUS
<1>8. 4 * r - 4 * x > 0
  BY <1>3, <1>4
<1>9. 4 * r - 4 * x >= 4 * e <=> (c > 0 => j + 1 < n)
  <2>1. CASE j + 1 = n
    BY <1>4, <1>5, <2>1
  <2>2. CASE j + 1 < n
    BY <1>4, <1>6, <2>2
  <2> QED
    BY <1>7, <2>1, <2>2
<1>10. 4 * r - 4 * (x + e) = 4 * r - 4 * x - 4 * e
  OBVIOUS
<1>11. 4 * r - 4 * x >= 4 * e => x + e <= r
  OBVIOUS
<1> QED
  BY <1>1, <1>3, <1>8, <1>9, <1>10, <1>11 DEF LeftOver

(* The bytes left when j entries have been read: zero at the end only,     *)
(* and enough for an entry unless it was cut off.                          *)
LEMMA LeftIs ==
  ASSUME Regular, NEW i \in Ids, i # 1, Tree[i].regs # <<>>,
         NEW j \in 0 .. Len(Tree[i].regs), j = Len(Tree[i].regs) => Tree[i].cut = 0
  PROVE  /\ Left(i, j) \in Nat
         /\ Left(i, j) > 0 <=> j < Len(Tree[i].regs)
         /\ Left(i, 0) = Bytes(i, 5)
         /\ j < Len(Tree[i].regs) =>
              /\ Left(i, j) >= U32 * EntryCells(i) <=> Whole(i, j + 1)
              /\ Left(i, j + 1) = Left(i, j) - U32 * EntryCells(i)
              /\ Whole(i, j + 1) => (j + 1) * EntryCells(i) <= RegLen(i)
<1>1. /\ RegLen(i) \in 1 .. Len(RegWords(i))
      /\ RegLen(i) * U32 = Len(RegWords(i)) * U32 - Tree[i].cut
      /\ EntryCells(i) \in Nat \ {0} /\ Tree[i].cut < U32 * EntryCells(i)
      /\ Len(Tree[i].regs) \in Nat \ {0}
      /\ Len(RegWords(i)) = Len(Tree[i].regs) * EntryCells(i)
  BY RegLenIs
<1>2. PICK n \in Nat : n = Len(Tree[i].regs)
  BY <1>1
<1>3. PICK e \in Nat : e = EntryCells(i) /\ e > 0
  BY <1>1
<1>4. PICK c \in Nat : c = Tree[i].cut
  BY NodeFacts DEF Regular
<1>5. PICK w \in Nat : w = n * e
  BY Times
<1>6. Len(RegWords(i)) = w
  BY <1>1, <1>2, <1>3, <1>5
<1>7. PICK r \in Nat : r = RegLen(i)
  BY <1>1, <1>6
<1>8. 4 * r = 4 * w - c /\ c < 4 * e
  <2>1. r * U32 = w * U32 - c /\ c < U32 * e
    BY <1>1, <1>3, <1>4, <1>6, <1>7
  <2> QED
    BY <2>1 DEF U32
<1>9. 4 * r = 4 * (n * e) - c
  BY <1>5, <1>8
<1>10. j \in Nat /\ j <= n /\ (j = n => c = 0)
  BY <1>2, <1>4
<1>11. \A k \in Nat : Left(i, k) = 4 * r - 4 * (k * e)
  BY <1>3, <1>7 DEF Left, U32
<1>12. Left(i, 0) = Bytes(i, 5)
  <2>1. Bytes(i, 5) = U32 * r
    BY <1>7, RegBytes
  <2>2. 0 * e = 0
    OBVIOUS
  <2>3. Left(i, 0) = 4 * r
    BY <1>11, <2>2
  <2> QED
    BY <2>1, <2>3 DEF U32
<1>13. CASE j = n
  <2>1. j * e = w /\ c = 0
    BY <1>5, <1>10, <1>13
  <2>2. Left(i, j) = 0
    BY <1>8, <1>10, <1>11, <2>1
  <2> QED
    BY <1>2, <1>12, <1>13, <2>2
<1>14. CASE j < n
  <2>1. /\ 4 * r - 4 * (j * e) > 0
        /\ 4 * r - 4 * (j * e) >= 4 * e <=> (c > 0 => j + 1 < n)
        /\ 4 * r - 4 * ((j + 1) * e) = 4 * r - 4 * (j * e) - 4 * e
        /\ (c > 0 => j + 1 < n) => (j + 1) * e <= r
    <3>1. j \in Nat /\ c < 4 * e /\ e > 0
      BY <1>3, <1>8, <1>10
    <3>2. LeftOver(n, e, r, c, j)
      BY <1>9, <1>14, <3>1, BytesLeft
    <3> QED
      BY <3>2 DEF LeftOver
  <2>2. Left(i, j) = 4 * r - 4 * (j * e) /\ Left(i, j + 1) = 4 * r - 4 * ((j + 1) * e)
    BY <1>10, <1>11
  <2>3. Whole(i, j + 1) <=> (c > 0 => j + 1 < n)
    BY <1>2, <1>4 DEF Whole
  <2>4. U32 * EntryCells(i) = 4 * e
    BY <1>3 DEF U32
  <2>5. 4 * r - 4 * (j * e) \in Nat
    <3>1. PICK x \in Nat : x = j * e
      BY <1>10, Times
    <3> QED
      BY <2>1, <3>1
  <2> QED
    BY <1>2, <1>3, <1>7, <1>12, <1>14, <2>1, <2>2, <2>3, <2>4, <2>5
<1> QED
  BY <1>2, <1>10, <1>13, <1>14

-----------------------------------------------------------------------------
(* Reading an entry.                                                       *)

(* The two nodes at the end of the stack, while i is read.                 *)
LEMMA Ends ==
  ASSUME Regular, nodes \in Seq(Nodes), NEW i \in Ids, i # 1,
         Depth = Tree[i].depth + 1, Settled(nodes, i, Depth)
  PROVE  /\ Full(Node, i) /\ Full(Parent, ParentOf(i))
         /\ ParentOf(i) \in Ids /\ Tree[i].depth \in Nat \ {0}
<1>1. IsTree /\ Tree[i].depth \in Nat /\ ParentOf(i) \in Ids
  BY TreeFacts, NodeFacts DEF Regular
<1>2. Tree[i].depth # 0
  <2>1. i - 1 \in Ids /\ (i - 1) + 1 = i
    BY <1>1, TreeFacts
  <2> QED
    BY <1>1, <2>1, TreeFacts
<1>3. OnLine(i, Depth) = i
  BY <1>1, OnLineIs
<1>4. Depth \in 2 .. Tree[i].depth + 1
  BY <1>1, <1>2
<1>5. OnLine(i, Depth - 1) = ParentOf(i)
  BY <1>1, <1>3, <1>4, ParentOnLine
<1>6. Depth \in 1 .. Depth /\ Depth - 1 \in 1 .. Depth
  BY <1>1, <1>4
<1>7. Full(nodes[Depth], OnLine(i, Depth)) /\ Full(nodes[Depth - 1], OnLine(i, Depth - 1))
  BY <1>6 DEF Settled
<1> QED
  BY <1>1, <1>2, <1>3, <1>5, <1>7 DEF Node, Parent

(* The words of entry j + 1 are where j entries of reg end.                *)
LEMMA EntryHeld ==
  ASSUME Regular, NEW i \in Ids, i # 1, Tree[i].regs # <<>>,
         NEW p \in Nat, Holds(p, Words(i, 5)),
         NEW j \in Nat, j < Len(Tree[i].regs), (j + 1) * EntryCells(i) <= RegLen(i)
  PROVE  Holds(p + j * EntryCells(i), Entry(i, j + 1))
<1>1. IsTree /\ Len(Tree[i].regs) \in Nat
  BY RegLenIs DEF Regular
<1>2. j + 1 \in 1 .. Len(Tree[i].regs) /\ j + 1 \in DOMAIN Tree[i].regs
  <2>1. Tree[i].regs \in Seq(Nat \X Nat)
    BY <1>1, NodeFacts
  <2>2. j + 1 \in 1 .. Len(Tree[i].regs)
    BY <1>1
  <2> QED
    BY <2>1, <2>2
<1>3. PICK e \in Nat : e = EntryCells(i)
  BY RegLenIs
<1>4. Len(Entry(i, j + 1)) = e
  BY <1>1, <1>2, <1>3, EntryIs
<1>5. PICK r \in Nat : r = RegLen(i)
  BY RegBytes, RegLenIs
<1>6. PICK x \in Nat : x = j * e
  BY <1>3, Times
<1>7. x + e <= r
  <2>1. (j + 1) * e = j * e + e
    OBVIOUS
  <2> QED
    BY <1>3, <1>5, <1>6, <2>1
<1>8. SUFFICES ASSUME NEW q \in 1 .. e
               PROVE  Word((p + x) + (q - 1)) = Entry(i, j + 1)[q]
  BY <1>3, <1>4, <1>6 DEF Holds
<1>9. x + q \in 1 .. r
  BY <1>7
<1>10. Word(p + ((x + q) - 1)) = Words(i, 5)[x + q]
  <2>1. \A s \in 1 .. r : Word(p + (s - 1)) = Words(i, 5)[s]
    BY <1>5, RegBytes DEF Holds
  <2> QED
    BY <1>9, <2>1
<1>11. Words(i, 5)[x + q] = RegWords(i)[x + q]
  BY <1>5, <1>9, RegBytes
<1>12. RegWords(i)[x + q] = Entry(i, j + 1)[q]
  <2>1. \A k \in 1 .. Len(Tree[i].regs) : \A s \in 1 .. EntryCells(i) :
           RegWords(i)[(k - 1) * EntryCells(i) + s] = Entry(i, k)[s]
    BY <1>1, RegWordsIs
  <2>2. RegWords(i)[((j + 1) - 1) * EntryCells(i) + q] = Entry(i, j + 1)[q]
    BY <1>2, <1>3, <2>1
  <2>3. (j + 1) - 1 = j
    OBVIOUS
  <2> QED
    BY <1>3, <1>6, <2>2, <2>3
<1>13. p + ((x + q) - 1) = (p + x) + (q - 1)
  OBVIOUS
<1> QED
  BY <1>10, <1>11, <1>12, <1>13

(* read_reg_internal reads entry j + 1.                                    *)
LEMMA EntryRead ==
  ASSUME Regular, TypeOK, NEW i \in Ids, i # 1, Tree[i].regs # <<>>,
         Depth = Tree[i].depth + 1, Settled(nodes, i, Depth),
         NEW j \in Nat, j < Len(Tree[i].regs), remain = Left(i, j), Whole(i, j + 1),
         Cells(ParentOf(i))[1] <= 2, Cells(ParentOf(i))[2] <= 2
  PROVE  /\ Number(RegAt, Parent.address_cells) = Tree[i].regs[j + 1][1]
         /\ RegSize = Tree[i].regs[j + 1][2]
         /\ Tree[i].regs[j + 1][1] \in Usizes /\ Tree[i].regs[j + 1][2] \in Usizes
<1>1. /\ IsTree /\ nodes \in Seq(Nodes) /\ blob \in Seq(Nat) /\ Len(Tree[i].regs) \in Nat
      /\ j + 1 \in DOMAIN Tree[i].regs
  <2>1. IsTree /\ nodes \in Seq(Nodes) /\ blob \in Seq(Nat) /\ Len(Tree[i].regs) \in Nat
    BY RegLenIs DEF Regular, TypeOK
  <2> QED
    BY <2>1, NodeFacts
<1>2. Full(Node, i) /\ Full(Parent, ParentOf(i)) /\ ParentOf(i) \in Ids
  BY <1>1, Ends
<1>3. PICK b, c \in Nat : /\ b = Cells(ParentOf(i))[1] /\ c = Cells(ParentOf(i))[2]
                          /\ b <= 2 /\ c <= 2 /\ b + c = EntryCells(i)
  <2>1. Cells(ParentOf(i)) \in Nat \X Nat
    BY <1>1, NodeFacts
  <2> QED
    BY <2>1 DEF EntryCells
<1>4. Parent.address_cells = b /\ Parent.size_cells = c
  BY <1>2, <1>3, FullIs
<1>5. /\ Node.reg # <<>> /\ Node.reg[2] = Bytes(i, 5) /\ Holds(Node.reg[1], Words(i, 5))
      /\ Node.reg[1] \in Nat
  <2>1. /\ Node.reg # <<>> /\ Node.reg[2] = Bytes(i, 5)
        /\ Holds(Node.reg[1], Words(i, 5))
    BY <1>2, FullIs
  <2>2. Node \in Nodes
    BY <1>2 DEF Full, Noted
  <2> QED
    BY <2>1, <2>2 DEF Nodes
<1>6. PICK x, y \in Nat : x = Tree[i].regs[j + 1][1] /\ y = Tree[i].regs[j + 1][2]
  BY <1>1, EntryIs
<1>7. PICK p \in Nat : p = Node.reg[1]
  BY <1>5
<1>8. PICK z \in Nat : z = j * EntryCells(i)
  BY <1>1, RegLenIs, Times
<1>9. RegAt = p + z
  <2>1. Bytes(i, 5) = U32 * RegLen(i) /\ Left(i, j) = U32 * RegLen(i) - U32 * z
    BY <1>8, RegBytes DEF Left
  <2>2. PICK r \in Nat : r = RegLen(i)
    BY RegBytes
  <2>3. (4 * r - (4 * r - 4 * z)) \div 4 = z
    OBVIOUS
  <2> QED
    BY <1>5, <1>7, <2>1, <2>2, <2>3 DEF RegAt, U32
<1>10. Holds(p + z, Entry(i, j + 1))
  <2>1. (j + 1) * EntryCells(i) <= RegLen(i)
    BY <1>1, LeftIs
  <2> QED
    BY <1>5, <1>7, <1>8, <2>1, EntryHeld
<1>11. /\ InCells(x, b) \in Seq(Nat) /\ Len(InCells(x, b)) = b /\ InCells(y, c) \in Seq(Nat)
       /\ Entry(i, j + 1) = InCells(x, b) \o InCells(y, c)
  BY <1>3, <1>6, InCellsIs DEF Entry
<1>12. Holds(p + z, InCells(x, b)) /\ Holds((p + z) + b, InCells(y, c))
  <2>1. p + z \in Nat
    OBVIOUS
  <2>3. Holds(p + z, InCells(x, b) \o InCells(y, c))
    BY <1>10, <1>11, Zenon
  <2>2. Holds(p + z, InCells(x, b)) /\ Holds((p + z) + Len(InCells(x, b)), InCells(y, c))
    BY <1>11, <2>1, <2>3, HoldsJoin
  <2> QED
    BY <1>11, <2>2
<1>13. FitsIn(x, b) /\ FitsIn(y, c)
  BY <1>1, <1>3, <1>6 DEF Regular, IsWritable
<1>14. x < USIZE /\ x \in Usizes /\ y < USIZE /\ y \in Usizes
  BY <1>3, <1>13, FitsInUsize
<1>15. Number(p + z, b) = x /\ Number((p + z) + b, c) = y
  <2>1. p + z \in Nat /\ (p + z) + b \in Nat
    OBVIOUS
  <2> QED
    BY <1>1, <1>12, <1>13, <1>14, <2>1, NumberOf
<1>16. Number(RegAt, Parent.address_cells) = x /\ RegSize = y
  BY <1>4, <1>9, <1>15 DEF RegSize
<1> QED
  BY <1>6, <1>14, <1>16

(* What the iterator yields is the answer the tree calls for, and nothing  *)
(* where there is none.                                                    *)
LEMMA NextEntryIs ==
  ASSUME Regular, TypeOK, NEW i \in Ids, Wanted(i), ~Senseless(i), Tree[i].regs # <<>>,
         Depth = Tree[i].depth + 1, Settled(nodes, i, Depth),
         NEW j \in Nat, j < Len(Tree[i].regs), remain = Left(i, j)
  PROVE  /\ i # 1 /\ j + 1 \in DOMAIN AnswersAt(i) /\ EntrySize = U32 * EntryCells(i)
         /\ AnswersAt(i)[j + 1] # Nothing =>
              /\ Whole(i, j + 1) /\ NextEntry.is = "ok"
              /\ <<NextEntry.address, RegSize>> = AnswersAt(i)[j + 1]
         /\ AnswersAt(i)[j + 1] = Nothing =>
              ~Whole(i, j + 1) \/ NextEntry.is # "ok"
<1>1. i # 1 /\ IsTree /\ nodes \in Seq(Nodes) /\ blob \in Seq(Nat)
  BY DEF Senseless, Regular, TypeOK
<1>2. Full(Parent, ParentOf(i)) /\ ParentOf(i) \in Ids
  BY <1>1, Ends
<1>3. PICK b, c \in Nat : /\ b = Cells(ParentOf(i))[1] /\ c = Cells(ParentOf(i))[2]
                          /\ b + c = EntryCells(i)
  <2>1. Cells(ParentOf(i)) \in Nat \X Nat
    BY <1>1, NodeFacts
  <2> QED
    BY <2>1 DEF EntryCells
<1>4. Parent.address_cells = b /\ Parent.size_cells = c
  BY <1>2, <1>3, FullIs
<1>5. EntrySize = U32 * EntryCells(i)
  BY <1>3, <1>4 DEF EntrySize
<1>6. j + 1 \in DOMAIN Tree[i].regs /\ Tree[i].regs[j + 1] \in Nat \X Nat
  <2>1. Tree[i].regs \in Seq(Nat \X Nat)
    BY <1>1, NodeFacts
  <2>2. j + 1 \in 1 .. Len(Tree[i].regs)
    BY <2>1
  <2> QED
    BY <2>1, <2>2
<1>7. PICK x, y \in Nat : x = Tree[i].regs[j + 1][1] /\ y = Tree[i].regs[j + 1][2]
  BY <1>6
<1>8. AnswersAt(i) = [k \in DOMAIN Tree[i].regs |->
         IF /\ Reaches(i, Tree[i].regs[k][1], Tree[i].regs[k][2])
            /\ Tree[i].cut > 0 => k < Len(Tree[i].regs)
            /\ Cells(ParentOf(i))[1] <= 2 /\ Cells(ParentOf(i))[2] <= 2
           THEN <<Shifted(Tree[i].regs[k][1], Bridges(i)), Tree[i].regs[k][2]>>
           ELSE Nothing]
  BY DEF AnswersAt
<1>9. AnswersAt(i)[j + 1] =
        IF Reaches(i, x, y) /\ Whole(i, j + 1) /\ b <= 2 /\ c <= 2
          THEN <<Shifted(x, Bridges(i)), y>> ELSE Nothing
  BY <1>3, <1>6, <1>7, <1>8 DEF Whole
<1>10. j + 1 \in DOMAIN AnswersAt(i)
  BY <1>6, <1>8
<1>11. b > 2 \/ c > 2 => NextEntry.is # "ok"
  BY <1>4 DEF NextEntry, Fails
<1>12. ASSUME b <= 2, c <= 2, Whole(i, j + 1)
       PROVE  /\ RegSize = y
              /\ Reaches(i, x, y) => NextEntry = Ok(Shifted(x, Bridges(i)))
              /\ ~Reaches(i, x, y) => NextEntry.is # "ok"
  <2>1. /\ Number(RegAt, Parent.address_cells) = x /\ RegSize = y
        /\ x \in Usizes /\ y \in Usizes
    BY <1>1, <1>3, <1>7, <1>12, EntryRead
  <2>2. NextEntry = Translated(x, y)
    BY <1>4, <1>12, <2>1 DEF NextEntry
  <2>3. Tree[i].ranges = <<>>
    BY DEF Regular, IsWritable
  <2>4. /\ Reaches(i, x, y) => Translated(x, y) = Ok(Shifted(x, Bridges(i)))
        /\ ~Reaches(i, x, y) => Translated(x, y).is # "ok"
    BY <1>1, <2>1, <2>3, TranslatedIs
  <2> QED
    BY <2>1, <2>2, <2>4
<1>13. AnswersAt(i)[j + 1] # Nothing =>
         /\ Whole(i, j + 1) /\ NextEntry.is = "ok"
         /\ <<NextEntry.address, RegSize>> = AnswersAt(i)[j + 1]
  BY <1>9, <1>12 DEF Ok
<1>14. AnswersAt(i)[j + 1] = Nothing => ~Whole(i, j + 1) \/ NextEntry.is # "ok"
  <2>1. << Shifted(x, Bridges(i)), y >> # Nothing
    BY DEF Nothing
  <2>2. AnswersAt(i)[j + 1] = Nothing =>
          ~(Reaches(i, x, y) /\ Whole(i, j + 1) /\ b <= 2 /\ c <= 2)
    BY <1>9, <2>1
  <2>3. ~(b <= 2) => b > 2
    OBVIOUS
  <2>4. ~(c <= 2) => c > 2
    OBVIOUS
  <2> QED
    BY <1>11, <1>12, <2>2, <2>3, <2>4, Zenon
<1> QED
  BY <1>1, <1>5, <1>10, <1>13, <1>14

-----------------------------------------------------------------------------
(* The answers, in turn.                                                   *)

(* The answers of all nodes, and how many come before those of a node.     *)
Outcomes == {Nothing} \cup (Int \X Nat)
Turns    == [i \in Ids |-> AnswersAt(i)]
Turn(i)  == Before(Turns, i)

(* A node that is not wanted has no answers, one without a sensible reg    *)
(* has none to give, any other has one per entry.                          *)
LEMMA AnswersAtIs ==
  ASSUME Regular, NEW i \in Ids
  PROVE  /\ AnswersAt(i) \in Seq(Outcomes) /\ Len(AnswersAt(i)) \in Nat
         /\ Senseless(i) \/ (Wanted(i) /\ Tree[i].regs = <<>>) =>
              Len(AnswersAt(i)) = 1 /\ AnswersAt(i)[1] = Nothing
         /\ ~Senseless(i) /\ ~Wanted(i) => Len(AnswersAt(i)) = 0
         /\ ~Senseless(i) /\ Wanted(i) /\ Tree[i].regs # <<>> =>
              Len(AnswersAt(i)) = Len(Tree[i].regs)
<1>1. CASE Senseless(i) \/ (Wanted(i) /\ Tree[i].regs = <<>>)
  <2>1. AnswersAt(i) = << Nothing >>
    BY <1>1 DEF AnswersAt
  <2>2. << Nothing >> \in Seq(Outcomes) /\ Len(<< Nothing >>) = 1
    BY DEF Outcomes
  <2> QED
    BY <1>1, <2>1, <2>2 DEF Senseless
<1>2. CASE ~Senseless(i) /\ ~Wanted(i)
  <2>1. AnswersAt(i) = <<>>
    BY <1>2 DEF AnswersAt
  <2> QED
    BY <1>2, <2>1
<1>3. CASE ~Senseless(i) /\ Wanted(i) /\ Tree[i].regs # <<>>
  <2>1. PICK u : u = Tree[i].regs /\ u \in Seq(Nat \X Nat)
    BY NodeFacts DEF Regular
  <2>2. PICK n \in Nat : n = Len(u) /\ DOMAIN u = 1 .. n /\ \A k \in 1 .. n : u[k] \in Nat \X Nat
    BY <2>1
  <2> DEFINE It(k) ==
         IF /\ Reaches(i, u[k][1], u[k][2])
            /\ Tree[i].cut > 0 => k < Len(u)
            /\ Cells(ParentOf(i))[1] <= 2 /\ Cells(ParentOf(i))[2] <= 2
           THEN <<Shifted(u[k][1], Bridges(i)), u[k][2]>>
           ELSE Nothing
  <2>3. AnswersAt(i) = [k \in 1 .. n |-> It(k)]
    BY <1>3, <2>1, <2>2 DEF AnswersAt
  <2>4. ASSUME NEW k \in 1 .. n PROVE It(k) \in Outcomes
    <3>1. PICK x, y \in Nat : x = u[k][1] /\ y = u[k][2]
      BY <2>2
    <3>2. Bridges(i) \in SUBSET Bridges(i)
      OBVIOUS
    <3>3. Shifted(x, Bridges(i)) \in Int
      BY <3>2, ShiftedIs
    <3> QED
      BY <3>1, <3>3 DEF Outcomes
  <2> HIDE DEF It
  <2>5. AnswersAt(i) \in Seq(Outcomes) /\ Len(AnswersAt(i)) = n
    BY <2>3, <2>4
  <2> QED
    BY <1>3, <2>1, <2>2, <2>5
<1> QED
  BY <1>1, <1>2, <1>3

(* The answers of the document are those of node after node.               *)
LEMMA TurnsAre ==
  ASSUME Regular, answers = AllAnswers
  PROVE  /\ answers \in Seq(Outcomes) /\ Len(answers) \in Nat
         /\ Turn(1) = 0 /\ Turn(Len(Tree) + 1) = Len(answers)
         /\ \A i \in Ids :
              /\ Turn(i) \in Nat /\ Turn(i + 1) \in Nat
              /\ Turn(i + 1) = Turn(i) + Len(AnswersAt(i))
              /\ Turn(i + 1) <= Len(answers)
              /\ \A q \in 1 .. Len(AnswersAt(i)) : answers[Turn(i) + q] = AnswersAt(i)[q]
<1>1. PICK n \in Nat : n = Len(Tree) /\ Ids = 1 .. n
  BY TreeFacts DEF Regular
<1>2. \A i \in 1 .. n : AnswersAt(i) \in Seq(Outcomes)
  BY <1>1, AnswersAtIs
<1>3. /\ Turns \in Seq(Seq(Outcomes)) /\ Len(Turns) = n
      /\ \A i \in 1 .. n : Turns[i] = AnswersAt(i)
  BY <1>1, <1>2 DEF Turns
<1>4. answers = FlattenSeq(Turns)
  BY DEF AllAnswers, Turns
<1>5. /\ FlattenSeq(Turns) \in Seq(Outcomes)
      /\ Before(Turns, 1) = 0 /\ Before(Turns, n + 1) = Len(FlattenSeq(Turns))
      /\ \A k \in 1 .. n + 1 : Before(Turns, k) \in Nat
      /\ \A k \in 1 .. n :
           /\ Before(Turns, k + 1) = Before(Turns, k) + Len(Turns[k])
           /\ Before(Turns, k + 1) <= Len(FlattenSeq(Turns))
           /\ \A q \in 1 .. Len(Turns[k]) :
                FlattenSeq(Turns)[Before(Turns, k) + q] = Turns[k][q]
  <2>1. PICK s \in Seq(Seq(Outcomes)) : s = Turns /\ Len(s) = n
    BY <1>3
  <2>2. /\ FlattenSeq(s) \in Seq(Outcomes)
        /\ Before(s, 1) = 0 /\ Before(s, Len(s) + 1) = Len(FlattenSeq(s))
        /\ \A k \in 1 .. Len(s) + 1 : Before(s, k) \in Nat
        /\ \A k \in 1 .. Len(s) :
             /\ Before(s, k + 1) = Before(s, k) + Len(s[k])
             /\ Before(s, k + 1) <= Len(FlattenSeq(s))
             /\ \A q \in 1 .. Len(s[k]) : FlattenSeq(s)[Before(s, k) + q] = s[k][q]
    BY Pieces
  <2> QED
    BY <2>1, <2>2
<1>6. /\ answers \in Seq(Outcomes) /\ Len(answers) \in Nat
      /\ Turn(1) = 0 /\ Turn(Len(Tree) + 1) = Len(answers)
  <2>1. answers \in Seq(Outcomes)
    BY <1>4, <1>5
  <2>2. Len(answers) \in Nat
    BY <2>1
  <2>3. Turn(1) = 0 /\ Turn(n + 1) = Len(answers)
    BY <1>4, <1>5 DEF Turn
  <2> QED
    BY <1>1, <2>1, <2>2, <2>3, Zenon
<1>7. ASSUME NEW i \in Ids
      PROVE  /\ Turn(i) \in Nat /\ Turn(i + 1) \in Nat
             /\ Turn(i + 1) = Turn(i) + Len(AnswersAt(i))
             /\ Turn(i + 1) <= Len(answers)
             /\ \A q \in 1 .. Len(AnswersAt(i)) : answers[Turn(i) + q] = AnswersAt(i)[q]
  <2>1. i \in 1 .. n /\ i \in 1 .. n + 1 /\ i + 1 \in 1 .. n + 1
    BY <1>1
  <2>2. Turns[i] = AnswersAt(i)
    BY <1>3, <2>1
  <2> QED
    BY <1>4, <1>5, <2>1, <2>2 DEF Turn
<1> QED
  BY <1>6, <1>7

(* The calls so far are the first n answers, all of which exist.           *)
Given(cl, n) == /\ n \in Nat /\ n <= Len(answers) /\ Len(cl) = n
                /\ \A k \in 1 .. n : answers[k] # Nothing /\ cl[k] = answers[k]

(* The search ends with n answers: with all, or before one that is none.   *)
Stuck(cl) == \E n \in Nat : n < Len(answers) /\ Given(cl, n) /\ answers[n + 1] = Nothing

(* One more answer handed out.                                             *)
LEMMA GivenMore ==
  ASSUME NEW S, NEW cl \in Seq(S), NEW n \in Nat, Given(cl, n), Len(answers) \in Nat,
         n + 1 <= Len(answers), answers[n + 1] # Nothing, answers[n + 1] \in S
  PROVE  Given(Append(cl, answers[n + 1]), n + 1)
<1>1. PICK a \in S : a = answers[n + 1]
  OBVIOUS
<1>2. /\ Len(Append(cl, a)) = n + 1 /\ Append(cl, a)[n + 1] = a
      /\ \A k \in 1 .. n : Append(cl, a)[k] = cl[k]
  BY DEF Given
<1>3. \A k \in 1 .. n + 1 : k \in 1 .. n \/ k = n + 1
  OBVIOUS
<1>4. \A k \in 1 .. n + 1 : answers[k] # Nothing /\ Append(cl, a)[k] = answers[k]
  BY <1>1, <1>2, <1>3 DEF Given
<1> QED
  BY <1>1, <1>2, <1>4 DEF Given

(* The answers up to the first that is none.                               *)
LEMMA AnswersAre ==
  ASSUME answers \in Seq(Outcomes)
  PROVE  \E m \in 0 .. Len(answers) :
           /\ Answers = SubSeq(answers, 1, m)
           /\ \A k \in 1 .. m : answers[k] # Nothing
           /\ m < Len(answers) => answers[m + 1] = Nothing
<1>1. PICK N \in Nat : N = Len(answers)
  OBVIOUS
<1>2. PICK A : A = Append(answers, Nothing)
  OBVIOUS
<1>3. Len(A) = N + 1 /\ A[N + 1] = Nothing /\ \A k \in 1 .. N : A[k] = answers[k]
  BY <1>1, <1>2
<1> DEFINE I == {k \in 1 .. N + 1 : A[k] = Nothing}
           P(k) == k \in I
<1>4. N + 1 \in I /\ N + 1 \in Nat
  BY <1>1, <1>3
<1>5. PICK f \in Nat : f \in I /\ \A k \in 0 .. f - 1 : k \notin I
  <2>1. DEFINE J == {k \in Nat : \A j \in 0 .. k : j \notin I}
  <2>2. SUFFICES ASSUME \A g \in I : \E k \in 0 .. g - 1 : k \in I
                 PROVE  FALSE
    BY <1>4
  <2>3. 0 \in J
    <3>1. 0 \notin I
      BY <1>1
    <3>2. \A j \in 0 .. 0 : j = 0
      OBVIOUS
    <3> QED
      BY <3>1, <3>2
  <2>4. ASSUME NEW k \in J PROVE k + 1 \in J
    <3>1. k \in Nat /\ \A j \in 0 .. k : j \notin I
      OBVIOUS
    <3>2. k + 1 \notin I
      <4>1. (k + 1) - 1 = k
        BY <3>1
      <4> QED
        BY <2>2, <3>1, <4>1
    <3>3. \A j \in 0 .. k + 1 : j \in 0 .. k \/ j = k + 1
      BY <3>1
    <3> QED
      BY <3>1, <3>2, <3>3
  <2>5. J = Nat
    <3> HIDE DEF J, I
    <3>1. J \subseteq Nat
      BY DEF J
    <3> QED
      BY <2>3, <2>4, <3>1, Induction
  <2>6. N + 1 \in 0 .. N + 1
    OBVIOUS
  <2>7. \A j \in 0 .. N + 1 : j \notin I
    <3> HIDE DEF I
    <3> QED
      BY <1>4, <2>5
  <2> QED
    BY <1>4, <2>6, <2>7
<1>6. f \in 1 .. N + 1 /\ A[f] = Nothing
  BY <1>5
<1>7. \A y \in I : f <= y
  BY <1>1, <1>5
<1>8. Min(I) = f
  <2>1. ASSUME NEW x \in I, \A y \in I : x <= y PROVE x = f
    BY <1>1, <1>5, <1>7, <2>1
  <2> HIDE DEF I
  <2> QED
    BY <1>5, <1>7, <2>1 DEF Min
<1>9. SelectInSeq(A, LAMBDA x : x = Nothing) = f
  <2>1. {k \in 1 .. Len(A) : A[k] = Nothing} = I
    BY <1>3
  <2> HIDE DEF I
  <2> QED
    BY <1>4, <1>8, <2>1 DEF SelectInSeq
<1>10. Answers = SubSeq(answers, 1, f - 1)
  BY <1>2, <1>9 DEF Answers
<1>11. f - 1 \in 0 .. N /\ (f - 1) + 1 = f
  BY <1>6
<1>12. ASSUME NEW k \in 1 .. f - 1 PROVE answers[k] # Nothing
  <2>1. k \in 0 .. f - 1 /\ k \in 1 .. N /\ k \in 1 .. N + 1
    BY <1>6
  <2> QED
    BY <1>3, <1>5, <2>1
<1>13. f - 1 < N => answers[f] = Nothing
  <2>1. f - 1 < N => f \in 1 .. N
    BY <1>6
  <2> QED
    BY <1>3, <1>6, <2>1
<1> QED
  BY <1>1, <1>10, <1>11, <1>12, <1>13

(* What the calls are, in terms of the answers.                            *)
LEMMA GivenIs ==
  ASSUME answers \in Seq(Outcomes), NEW S, NEW cl \in Seq(S), NEW n, Given(cl, n)
  PROVE  /\ IsPrefix(cl, Answers)
         /\ n = Len(answers) => cl = Answers /\ Complete
         /\ n < Len(answers) /\ answers[n + 1] = Nothing => cl = Answers /\ ~Complete
<1>1. PICK N \in Nat : N = Len(answers) /\ DOMAIN answers = 1 .. N
  OBVIOUS
<1>2. n \in Nat /\ n <= N /\ Len(cl) = n
  BY <1>1 DEF Given
<1>3. PICK m \in 0 .. N :
        /\ Answers = SubSeq(answers, 1, m)
        /\ \A k \in 1 .. m : answers[k] # Nothing
        /\ m < N => answers[m + 1] = Nothing
  BY <1>1, AnswersAre
<1>4. n <= m
  <2> SUFFICES ASSUME m < n PROVE FALSE
    BY <1>2
  <2>1. m + 1 \in 1 .. n /\ m < N
    BY <1>2
  <2> QED
    BY <1>3, <2>1 DEF Given
<1>5. /\ Answers \in Seq(Outcomes) /\ Len(Answers) = m
      /\ \A k \in 1 .. m : Answers[k] = answers[k]
  BY <1>1, <1>3, Beginning
<1>6. \A k \in 1 .. n : cl[k] = Answers[k]
  BY <1>2, <1>4, <1>5 DEF Given
<1>7. IsPrefix(cl, Answers)
  <2>1. /\ SubSeq(cl, 1, n) \in Seq(S) /\ Len(SubSeq(cl, 1, n)) = n
        /\ \A k \in 1 .. n : SubSeq(cl, 1, n)[k] = cl[k]
    BY <1>2, Beginning
  <2>2. n \in 0 .. m
    BY <1>2, <1>4
  <2>3. /\ SubSeq(Answers, 1, n) \in Seq(Outcomes) /\ Len(SubSeq(Answers, 1, n)) = n
        /\ \A k \in 1 .. n : SubSeq(Answers, 1, n)[k] = Answers[k]
    BY <1>5, <2>2, Beginning
  <2>4. SubSeq(cl, 1, n) = SubSeq(Answers, 1, n)
    BY <1>2, <1>6, <2>1, <2>3
  <2> QED
    BY <1>2, <1>4, <1>5, <2>4 DEF IsPrefix
<1>8. m = n => cl = Answers
  BY <1>2, <1>5, <1>6
<1>9. n = N => m = n
  BY <1>2, <1>4
<1>10. n = N => Complete
  BY <1>1, <1>2 DEF Given, Complete
<1>11. n < N /\ answers[n + 1] = Nothing => m = n /\ ~Complete
  <2> SUFFICES ASSUME n < N, answers[n + 1] = Nothing PROVE m = n /\ ~Complete
    OBVIOUS
  <2>1. n + 1 \in 1 .. N
    BY <1>2
  <2>2. ~(n < m)
    <3>1. n < m => n + 1 \in 1 .. m
      BY <1>2
    <3> QED
      BY <1>3, <3>1
  <2> QED
    BY <1>1, <1>2, <1>4, <2>1, <2>2 DEF Complete
<1> QED
  BY <1>1, <1>7, <1>8, <1>9, <1>10, <1>11

-----------------------------------------------------------------------------
(* Where a search may be.                                                  *)

(* Where a search is: x properties of node i have been read ...            *)
InProps(i, x, p, ns, cl) ==
  /\ x \in 0 .. Len(Listing(i)) /\ Len(ns) = Tree[i].depth + 1
  /\ AtPlace(p, Place(i, 2 + x))
  /\ Settled(ns, i, Tree[i].depth)
  /\ Noted(ns[Len(ns)], i, Named(i, x))
  /\ 5 \in Named(i, x) => ~Senseless(i)
  /\ Given(cl, Turn(i))

(* ... or all of them, and j of its addresses have been handed out ...     *)
InDeliver(i, j, p, ns, rem, cl) ==
  /\ Len(ns) = Tree[i].depth + 1 /\ Settled(ns, i, Tree[i].depth + 1)
  /\ p = Start(Real(Place(i, 2 + Len(Listing(i)))))
  /\ Wanted(i) /\ ~Senseless(i)
  /\ j \in 0 .. Len(Tree[i].regs)
  /\ j = Len(Tree[i].regs) => Tree[i].regs = <<>> \/ Tree[i].cut = 0
  /\ rem = IF Tree[i].regs = <<>> THEN 0 ELSE Left(i, j)
  /\ Given(cl, Turn(i) + j)

(* ... or the node has been dealt with, and e of the nodes that end behind *)
(* it have ended.                                                          *)
InChildren(i, e, p, ns, cl) ==
  /\ e \in 0 .. Closing(i) /\ Len(ns) = Tree[i].depth + 1 - e /\ e <= Tree[i].depth
  /\ AtPlace(p, Place(i, 2 + Len(Listing(i)) + e))
  /\ Settled(ns, i, Tree[i].depth + 1 - e)
  /\ Given(cl, Turn(i + 1))

Over(r, b, cl) ==
  /\ r = "ok" => Given(cl, Len(answers))
  /\ r \in {"err", "panic"} =>
       BadQuery \/ b \/ (Trailing /\ Given(cl, Len(answers))) \/ Stuck(cl)

Seeks(c, p, ns, rem, cl, b, r) ==
  /\ \E n : Given(cl, n)
  /\ c \in Reading => ~BadQuery
  /\ c = "start"    => cl = <<>> /\ ns = <<>>
  /\ c = "props"    => \E i \in Ids : \E x : InProps(i, x, p, ns, cl)
  /\ c = "deliver"  => \E i \in Ids : \E j : InDeliver(i, j, p, ns, rem, cl)
  /\ c = "children" => \E i \in Ids : \E e : InChildren(i, e, p, ns, cl)
  /\ c = "end"      => p = Start(First(Len(Tokens))) /\ Given(cl, Len(answers))
  /\ c = "done"     => Over(r, b, cl)

(* A document in order, and what is expected of a search of it.            *)
Expected == Document /\ Sound /\ answers = AllAnswers

(* The place of property x of a node, or of what is behind the last one.   *)
LEMMA PropPlace ==
  ASSUME Regular, NEW i \in Ids, NEW x \in 0 .. Len(Listing(i))
  PROVE  /\ Place(i, 2 + x) \in 1 .. Len(Tokens) /\ Tokens[Place(i, 2 + x)][1] # FDT_NOP
         /\ x < Len(Listing(i)) => /\ Tokens[Place(i, 2 + x)][1] = FDT_PROP
                                   /\ Tokens[Place(i, 2 + x)] = Listing(i)[x + 1]
                                   /\ Place(i, 2 + (x + 1)) = Place(i, 2 + x) + 1
                                   /\ Place(i, 2 + (x + 1)) \in 1 .. Len(Tokens)
         /\ x = Len(Listing(i)) =>
              Tokens[Place(i, 2 + x)][1] \in {FDT_BEGIN_NODE, FDT_END_NODE}
<1>1. PICK L, C, o \in Nat :
        /\ L = Len(Listing(i)) /\ C = Closing(i) /\ o = Place(i, 0)
  BY NodeAt
<1>2. /\ \A q \in Nat : Place(i, q) = o + q
      /\ \A q \in 1 .. 2 + L + C : Place(i, q) \in 1 .. Len(Tokens)
      /\ \A y \in 0 .. L - 1 : /\ Tokens[Place(i, 2 + y)] = Listing(i)[y + 1]
                               /\ Tokens[Place(i, 2 + y)][1] = FDT_PROP
      /\ \A e \in 0 .. C - 1 : Tokens[Place(i, 2 + L + e)][1] = FDT_END_NODE
      /\ Place(i, 2 + L + C) = Place(i + 1, 1)
      /\ i + 1 \in Ids => Tokens[Place(i + 1, 1)][1] = FDT_BEGIN_NODE
  BY <1>1, NodeAt
<1>3. i + 1 \notin Ids => C > 0
  <2>1. IsTree /\ Tree[i].depth \in Nat
    BY TreeFacts DEF Regular
  <2> QED
    BY <1>1, <2>1, ClosingIs
<1>4. 2 + x \in 1 .. 2 + L + C /\ 2 + x \in Nat
  BY <1>1
<1>5. CASE x < L
  <2>1. x \in 0 .. L - 1 /\ 2 + (x + 1) \in 1 .. 2 + L + C /\ 2 + (x + 1) \in Nat
    BY <1>1, <1>5
  <2>2. Place(i, 2 + (x + 1)) = Place(i, 2 + x) + 1
    BY <1>2, <1>4, <2>1
  <2>3. Place(i, 2 + x) \in 1 .. Len(Tokens) /\ Place(i, 2 + (x + 1)) \in 1 .. Len(Tokens)
    BY <1>2, <1>4, <2>1
  <2>4. /\ Tokens[Place(i, 2 + x)] = Listing(i)[x + 1]
        /\ Tokens[Place(i, 2 + x)][1] = FDT_PROP
    BY <1>2, <2>1
  <2>5. FDT_PROP # FDT_NOP /\ x # L
    BY <1>5 DEF FDT_PROP, FDT_NOP
  <2> QED
    BY <1>1, <2>2, <2>3, <2>4, <2>5, Zenon
<1>6. CASE x = L
  <2>1. Tokens[Place(i, 2 + x)][1] \in {FDT_BEGIN_NODE, FDT_END_NODE}
    <3>1. CASE C > 0
      <4>1. 0 \in 0 .. C - 1 /\ 2 + L + 0 = 2 + x
        BY <1>6, <3>1
      <4> QED
        BY <1>2, <4>1
    <3>2. CASE ~(C > 0)
      <4>1. 2 + L + C = 2 + x /\ i + 1 \in Ids
        BY <1>3, <1>6, <3>2
      <4> QED
        BY <1>2, <4>1
    <3> QED
      BY <3>1, <3>2
  <2>2. Place(i, 2 + x) \in 1 .. Len(Tokens)
    BY <1>2, <1>4
  <2>3. FDT_BEGIN_NODE # FDT_NOP /\ FDT_END_NODE # FDT_NOP /\ ~(x < L)
    BY <1>6 DEF FDT_BEGIN_NODE, FDT_END_NODE, FDT_NOP
  <2> QED
    BY <1>1, <2>1, <2>2, <2>3, Zenon
<1> QED
  BY <1>1, <1>5, <1>6

(* The place of the e-th end behind a node, or of the next node.           *)
LEMMA ClosePlace ==
  ASSUME Regular, NEW i \in Ids, NEW e \in 0 .. Closing(i), e <= Tree[i].depth
  PROVE  LET m == Place(i, 2 + Len(Listing(i)) + e)
         IN  /\ m \in 1 .. Len(Tokens)
             /\ e < Closing(i) =>
                  /\ Tokens[m][1] = FDT_END_NODE
                  /\ Place(i, 2 + Len(Listing(i)) + (e + 1)) = m + 1
                  /\ m + 1 \in 1 .. Len(Tokens)
             /\ e = Closing(i) => /\ i + 1 \in Ids /\ m = Place(i + 1, 1)
                                  /\ Tokens[m][1] = FDT_BEGIN_NODE
<1>1. PICK L, C, o \in Nat :
        /\ L = Len(Listing(i)) /\ C = Closing(i) /\ o = Place(i, 0)
  BY NodeAt
<1>2. /\ \A q \in Nat : Place(i, q) = o + q
      /\ \A q \in 1 .. 2 + L + C : Place(i, q) \in 1 .. Len(Tokens)
      /\ \A y \in 0 .. C - 1 : Tokens[Place(i, 2 + L + y)][1] = FDT_END_NODE
      /\ Place(i, 2 + L + C) = Place(i + 1, 1)
      /\ i + 1 \in Ids => Tokens[Place(i + 1, 1)][1] = FDT_BEGIN_NODE
  BY <1>1, NodeAt
<1>3. i + 1 \notin Ids => C = Tree[i].depth + 1
  <2>1. IsTree
    BY DEF Regular
  <2> QED
    BY <1>1, <2>1, ClosingIs
<1>4. Tree[i].depth \in Nat
  BY TreeFacts DEF Regular
<1>5. 2 + L + e \in 1 .. 2 + L + C /\ 2 + L + e \in Nat
  BY <1>1
<1>6. CASE e < C
  <2>1. e \in 0 .. C - 1 /\ 2 + L + (e + 1) \in 1 .. 2 + L + C /\ 2 + L + (e + 1) \in Nat
    BY <1>1, <1>6
  <2>2. Place(i, 2 + L + (e + 1)) = Place(i, 2 + L + e) + 1
    BY <1>2, <1>5, <2>1
  <2>3. Place(i, 2 + L + e) \in 1 .. Len(Tokens) /\ Place(i, 2 + L + (e + 1)) \in 1 .. Len(Tokens)
    BY <1>2, <1>5, <2>1
  <2>4. Tokens[Place(i, 2 + L + e)][1] = FDT_END_NODE
    BY <1>2, <2>1
  <2>5. e # C
    BY <1>6
  <2> QED
    BY <1>1, <2>2, <2>3, <2>4, <2>5, Zenon
<1>7. CASE e = C
  <2>1. i + 1 \in Ids
    BY <1>3, <1>4, <1>7
  <2>2. Place(i, 2 + L + e) \in 1 .. Len(Tokens) /\ ~(e < C)
    <3>1. ~(e < C)
      BY <1>1, <1>7
    <3>2. Place(i, 2 + L + e) \in 1 .. Len(Tokens)
      BY <1>2, <1>5
    <3> QED
      BY <3>1, <3>2
  <2>3. /\ Place(i, 2 + L + e) = Place(i + 1, 1)
        /\ Tokens[Place(i, 2 + L + e)][1] = FDT_BEGIN_NODE
    BY <1>2, <1>7, <2>1
  <2> QED
    BY <1>1, <2>1, <2>2, <2>3, Zenon
<1> QED
  BY <1>1, <1>6, <1>7

(* The names of the properties read so far.                                *)
LEMMA NamedIs ==
  ASSUME Regular, NEW i \in Ids
  PROVE  /\ Named(i, 0) = {} /\ Named(i, Len(Listing(i))) = AllOf(i)
         /\ \A x \in 0 .. Len(Listing(i)) - 1 :
              /\ Named(i, x + 1) = Named(i, x) \cup {Listing(i)[x + 1][3]}
              /\ \E w \in 1 .. 7 : /\ Has(i, w) /\ Listing(i)[x + 1] = Item(i, w)
                                   /\ Listing(i)[x + 1][3] = w
<1>1. PICK L \in Nat : L = Len(Listing(i))
  BY ListingIs
<1>2. /\ \A p \in 1 .. L : \E w \in 1 .. 7 : Has(i, w) /\ Listing(i)[p] = Item(i, w)
      /\ \A w \in 1 .. 7 : Has(i, w) => \E p \in 1 .. L : Listing(i)[p] = Item(i, w)
  BY <1>1, ListingIs
<1>3. \A w \in 1 .. 7 : Has(i, w) => Item(i, w)[3] = w
  BY ItemIs
<1>4. Named(i, 0) = {}
  BY DEF Named
<1>5. Named(i, L) = AllOf(i)
  BY <1>2, <1>3 DEF Named, AllOf
<1>6. ASSUME NEW x \in 0 .. L - 1
      PROVE  /\ Named(i, x + 1) = Named(i, x) \cup {Listing(i)[x + 1][3]}
             /\ \E w \in 1 .. 7 : /\ Has(i, w) /\ Listing(i)[x + 1] = Item(i, w)
                                  /\ Listing(i)[x + 1][3] = w
  <2>1. x + 1 \in 1 .. L
    BY <1>1
  <2>2. \A q : q \in 1 .. x + 1 <=> q \in 1 .. x \/ q = x + 1
    BY <1>1
  <2>3. Named(i, x + 1) = Named(i, x) \cup {Listing(i)[x + 1][3]}
    BY <2>2 DEF Named
  <2> QED
    BY <1>2, <1>3, <2>1, <2>3
<1> QED
  BY <1>1, <1>4, <1>5, <1>6

-----------------------------------------------------------------------------
(* The properties.                                                         *)

(* A property of the tree, where the pointer is.                           *)
LEMMA PropRead ==
  ASSUME Document, Sound, NEW i \in Ids, NEW x \in 0 .. Len(Listing(i)) - 1,
         NEW p, p = Start(Real(Place(i, 2 + x)))
  PROVE  \E w \in 1 .. 7 :
           /\ Has(i, w) /\ Named(i, x + 1) = Named(i, x) \cup {w}
           /\ Word(p + 1) = Bytes(i, w) /\ Word(p + 2) = w
           /\ p + 3 \in Nat /\ p + 3 # None /\ Holds(p + 3, Words(i, w))
           /\ AtPlace(p + 3 + Padded(Bytes(i, w)), Place(i, 2 + (x + 1)))
<1>1. Regular /\ InTokens
  BY DEF Document
<1>2. PICK L \in Nat : L = Len(Listing(i))
  BY <1>1, ListingIs
<1>3. x \in 0 .. L /\ x < L
  BY <1>2
<1>4. PICK m : m = Place(i, 2 + x)
  OBVIOUS
<1>5. /\ m \in 1 .. Len(Tokens) /\ Tokens[m] = Listing(i)[x + 1]
      /\ Place(i, 2 + (x + 1)) = m + 1 /\ m + 1 \in 1 .. Len(Tokens)
  BY <1>1, <1>2, <1>3, <1>4, PropPlace
<1>6. PICK w \in 1 .. 7 : /\ Has(i, w) /\ Listing(i)[x + 1] = Item(i, w)
                          /\ Named(i, x + 1) = Named(i, x) \cup {w}
  <2>1. /\ Named(i, x + 1) = Named(i, x) \cup {Listing(i)[x + 1][3]}
        /\ \E w \in 1 .. 7 : /\ Has(i, w) /\ Listing(i)[x + 1] = Item(i, w)
                             /\ Listing(i)[x + 1][3] = w
    BY <1>1, NamedIs
  <2> QED
    BY <2>1
<1>7. PICK k : k = Real(m)
  OBVIOUS
<1>8. k \in 1 .. Len(tokens) /\ tokens[k] = Item(i, w)
  BY <1>5, <1>6, <1>7, RealIs
<1>9. PICK n \in Nat : n = Len(Words(i, w))
  BY <1>1, <1>6, WordsAre
<1>10. /\ Len(Item(i, w)) = 3 + n /\ Item(i, w)[1] = FDT_PROP
       /\ Item(i, w)[2] = Bytes(i, w) /\ Item(i, w)[3] = w
       /\ \A q \in 1 .. n : Item(i, w)[3 + q] = Words(i, w)[q]
  BY <1>1, <1>6, <1>9, ItemIs
<1>11. p = Start(k) /\ p \in Nat /\ p >= 1
  BY <1>1, <1>4, <1>7, <1>8, WordsAt
<1>12. \A q \in 1 .. 3 + n : Word(p + (q - 1)) = Item(i, w)[q]
  BY <1>1, <1>8, <1>10, <1>11, WordsAt
<1>13. /\ Word(p + 1) = Bytes(i, w) /\ Word(p + 2) = w
  <2>1. Word(p + (2 - 1)) = Item(i, w)[2] /\ Word(p + (3 - 1)) = Item(i, w)[3]
    BY <1>12
  <2>2. p + (2 - 1) = p + 1 /\ p + (3 - 1) = p + 2
    BY <1>11
  <2> QED
    BY <1>10, <2>1, <2>2
<1>14. Holds(p + 3, Words(i, w))
  <2> SUFFICES ASSUME NEW q \in 1 .. n PROVE Word((p + 3) + (q - 1)) = Words(i, w)[q]
    BY <1>9 DEF Holds
  <2>1. 3 + q \in 1 .. 3 + n /\ p + ((3 + q) - 1) = (p + 3) + (q - 1)
    BY <1>11
  <2> QED
    BY <1>10, <1>12, <2>1
<1>15. Start(k + 1) = p + 3 + Padded(Bytes(i, w))
  <2>1. tokens[k][1] = FDT_PROP
    BY <1>8, <1>10
  <2>2. Start(k + 1) = Start(k) + 3 + Padded(Word(Start(k) + 1))
    BY <1>1, <1>8, <2>1, TokenIs
  <2> QED
    BY <1>11, <1>13, <2>2
<1>16. AtPlace(Start(k + 1), m + 1)
  BY <1>5, <1>7, NextPlace
<1>17. p + 3 \in Nat /\ p + 3 # None
  BY <1>11 DEF None
<1> QED
  BY <1>5, <1>6, <1>13, <1>14, <1>15, <1>16, <1>17

(* The node before, while i is read.                                       *)
LEMMA ParentRead ==
  ASSUME Regular, nodes \in Seq(Nodes), NEW i \in Ids, i # 1,
         Depth = Tree[i].depth + 1, Settled(nodes, i, Tree[i].depth)
  PROVE  /\ ~IsRoot /\ EntrySize = U32 * EntryCells(i)
<1>1. IsTree /\ Tree[i].depth \in Nat /\ ParentOf(i) \in Ids
  BY TreeFacts, NodeFacts DEF Regular
<1>2. Tree[i].depth # 0
  <2>1. i - 1 \in Ids /\ (i - 1) + 1 = i
    BY <1>1, TreeFacts
  <2> QED
    BY <1>1, <2>1, TreeFacts
<1>3. PICK d \in Nat : d = Tree[i].depth /\ d >= 1
  BY <1>1, <1>2
<1>4. OnLine(i, d + 1) = i
  BY <1>1, <1>3, OnLineIs
<1>5. d + 1 \in 2 .. Tree[i].depth + 1 /\ (d + 1) - 1 = d
  BY <1>3
<1>6. OnLine(i, d) = ParentOf(i)
  BY <1>1, <1>4, <1>5, ParentOnLine
<1>7. Full(nodes[d], ParentOf(i))
  <2>1. d \in 1 .. Tree[i].depth
    BY <1>3
  <2> QED
    BY <1>6, <2>1 DEF Settled
<1>8. Depth - 1 = d /\ Depth # 1
  BY <1>3
<1>9. /\ Parent.address_cells = Cells(ParentOf(i))[1]
      /\ Parent.size_cells = Cells(ParentOf(i))[2]
  BY <1>1, <1>7, <1>8, FullIs DEF Parent
<1> QED
  BY <1>8, <1>9 DEF IsRoot, EntrySize, EntryCells

(* parse_prop refuses a reg exactly where no reader can make sense of it.  *)
LEMMA Refused ==
  ASSUME Regular, nodes \in Seq(Nodes), NEW i \in Ids, Has(i, 5),
         Depth = Tree[i].depth + 1, Settled(nodes, i, Tree[i].depth)
  PROVE  Senseless(i) <=> IsRoot \/ EntrySize > Bytes(i, 5)
<1>1. Tree[i].regs # <<>>
  BY DEF Has
<1>2. CASE i = 1
  <2>1. Depth = 1
    BY <1>2, TreeFacts DEF Regular
  <2> QED
    BY <1>1, <1>2, <2>1 DEF Senseless, IsRoot
<1>3. CASE i # 1
  <2>1. ~IsRoot /\ EntrySize = U32 * EntryCells(i) /\ Bytes(i, 5) = U32 * RegLen(i)
    BY <1>1, <1>3, ParentRead, RegBytes
  <2>2. /\ RegLen(i) \in 1 .. Len(RegWords(i))
        /\ RegLen(i) * U32 = Len(RegWords(i)) * U32 - Tree[i].cut
        /\ EntryCells(i) \in Nat \ {0} /\ Tree[i].cut < U32 * EntryCells(i)
        /\ Len(Tree[i].regs) \in Nat \ {0}
        /\ Len(RegWords(i)) = Len(Tree[i].regs) * EntryCells(i)
        /\ Len(Tree[i].regs) > 1 \/ Tree[i].cut = 0 => RegLen(i) >= EntryCells(i)
    BY <1>1, <1>3, RegLenIs
  <2>3. PICK e \in Nat : e = EntryCells(i)
    BY <2>2
  <2>4. PICK r \in Nat : r = RegLen(i)
    BY RegBytes, <1>1, <1>3
  <2>5. PICK c \in Nat : c = Tree[i].cut
    BY NodeFacts DEF Regular
  <2>6. PICK n \in Nat : n = Len(Tree[i].regs) /\ n # 0
    BY <2>2
  <2>7. n = 1 /\ c > 0 => r < e
    <3> SUFFICES ASSUME n = 1, c > 0 PROVE r < e
      OBVIOUS
    <3>3. Len(RegWords(i)) = n * e
      BY <2>2, <2>3, <2>6
    <3>4. n * e = e
      OBVIOUS
    <3>1. Len(RegWords(i)) = e
      BY <3>3, <3>4
    <3>2. r * 4 = e * 4 - c
      BY <2>2, <2>4, <2>5, <3>1 DEF U32
    <3> QED
      BY <3>2
  <2>8. n > 1 \/ c = 0 => r >= e
    BY <2>2, <2>3, <2>4, <2>5, <2>6
  <2>9. Senseless(i) <=> n = 1 /\ c > 0
    BY <1>1, <1>3, <2>5, <2>6 DEF Senseless
  <2>10. EntrySize > Bytes(i, 5) <=> 4 * e > 4 * r
    BY <2>1, <2>3, <2>4 DEF U32
  <2>11. Senseless(i) <=> 4 * e > 4 * r
    <3>1. CASE n = 1 /\ c > 0
      BY <2>7, <2>9, <3>1
    <3>2. CASE ~(n = 1 /\ c > 0)
      <4>1. n > 1 \/ c = 0
        <5>1. n # 0
          BY <2>6
        <5>2. (n = 1 /\ c > 0) \/ n > 1 \/ c = 0
          BY <5>1
        <5> QED
          BY <3>2, <5>2
      <4>2. r >= e
        BY <2>8, <4>1
      <4> QED
        BY <2>9, <3>2, <4>2
    <3> QED
      BY <3>1, <3>2
  <2> QED
    BY <2>1, <2>10, <2>11
<1> QED
  BY <1>2, <1>3

(* parse_prop.                                                             *)
LEMMA PropOn ==
  ASSUME Expected, IInv, IInv', Prop,
         NEW i \in Ids, NEW x, InProps(i, x, pointer, nodes, calls)
  PROVE  \/ InProps(i, x + 1, pointer', nodes', calls') /\ pc' = pc
         \/ pc' = "done" /\ result' = "err" /\ Senseless(i)
<1>1. /\ Regular /\ Document /\ Sound /\ nodes \in Seq(Nodes)
      /\ query \in [device_name : Nat, compatible_name : Nat] /\ nodes' \in Seq(Nodes)
  BY DEF Expected, Document, IInv, TypeOK
<1>2. PICK L \in Nat : L = Len(Listing(i)) /\ x \in 0 .. L
  BY <1>1, ListingIs DEF InProps
<1>3. /\ Len(nodes) = Tree[i].depth + 1 /\ AtPlace(pointer, Place(i, 2 + x))
      /\ Settled(nodes, i, Tree[i].depth) /\ Noted(Node, i, Named(i, x))
      /\ 5 \in Named(i, x) => ~Senseless(i)
      /\ Given(calls, Turn(i))
  BY DEF InProps, Node, Depth
<1>4. Word(pointer) = FDT_PROP
  BY DEF Prop, Token
<1>5. /\ Tokens[Place(i, 2 + x)][1] # FDT_NOP
      /\ x = L => Tokens[Place(i, 2 + x)][1] \in {FDT_BEGIN_NODE, FDT_END_NODE}
  BY <1>1, <1>2, PropPlace
<1>6. pointer = Start(Real(Place(i, 2 + x))) /\ Tokens[Place(i, 2 + x)][1] = FDT_PROP
  <2>1. Word(pointer) # FDT_NOP
    BY <1>4 DEF FDT_PROP, FDT_NOP
  <2> QED
    BY <1>1, <1>3, <1>4, <1>5, <2>1, PassingNop
<1>7. x \in 0 .. L - 1
  <2>1. x # L
    BY <1>5, <1>6 DEF FDT_PROP, FDT_BEGIN_NODE, FDT_END_NODE
  <2> QED
    BY <1>2, <2>1
<1>8. PICK w \in 1 .. 7 :
        /\ Has(i, w) /\ Named(i, x + 1) = Named(i, x) \cup {w}
        /\ Word(pointer + 1) = Bytes(i, w) /\ Word(pointer + 2) = w
        /\ pointer + 3 \in Nat /\ pointer + 3 # None /\ Holds(pointer + 3, Words(i, w))
        /\ AtPlace(pointer + 3 + Padded(Bytes(i, w)), Place(i, 2 + (x + 1)))
  BY <1>1, <1>2, <1>6, <1>7, PropRead
<1>9. PICK v \in Nat : v = pointer + 3
  BY <1>8
<1>10. PICK name : name = Name(w)
  OBVIOUS
<1>11. PICK len \in Nat : len = Bytes(i, w)
  BY <1>1, <1>8, WordsAre
<1>12. name = "reg" <=> w = 5
  BY <1>10, NamesAre
<1>13. w = 5 => (Senseless(i) <=> IsRoot \/ Needed(name) > len)
  <2> SUFFICES ASSUME w = 5 PROVE Senseless(i) <=> IsRoot \/ Needed(name) > len
    OBVIOUS
  <2>1. Needed(name) = EntrySize
    BY <1>12 DEF Needed
  <2>2. Has(i, 5) /\ Depth = Tree[i].depth + 1 /\ len = Bytes(i, 5)
    BY <1>3, <1>8, <1>11 DEF Depth
  <2> QED
    BY <1>1, <1>3, <2>1, <2>2, Refused
<1>14. w # 5 => Needed(name) <= len
  <2> SUFFICES ASSUME w # 5 PROVE Needed(name) <= len
    OBVIOUS
  <2>1. CASE w \in {1, 2}
    <3>1. len = U32
      <4>1. Len(Words(i, w)) = 1
        BY <2>1, WordsByName
      <4> QED
        BY <1>11, <2>1, <4>1 DEF Bytes, U32
    <3>2. Needed(name) = U32
      BY <1>10, <2>1, NamesAre DEF Needed
    <3> QED
      BY <3>1, <3>2 DEF U32
  <2>2. CASE w \notin {1, 2}
    <3>1. Needed(name) = 0
      BY <1>10, <2>2, NamesAre DEF Needed
    <3> QED
      BY <3>1
  <2> QED
    BY <2>1, <2>2
<1>15. CASE \/ name = "reg" /\ IsRoot
            \/ (name = "reg" => ~IsRoot) /\ Needed(name) > len
  <2>1. w = 5
    <3>1. ~(w # 5 /\ Needed(name) > len)
      <4>1. w # 5 => ~(Needed(name) > len)
        <5>1. w # 5 => Needed(name) \in Nat
          BY <1>10, NamesAre DEF Needed, U32
        <5> QED
          BY <1>14, <5>1
      <4> QED
        BY <4>1
    <3> QED
      BY <1>12, <1>15, <3>1
  <2>2. Senseless(i)
    BY <1>13, <1>15, <2>1
  <2>3. (w = 5 => ~IsRoot) /\ Needed(name) <= len => FALSE
    <3>1. Has(i, 5) /\ Depth = Tree[i].depth + 1
      BY <1>3, <1>8, <2>1 DEF Depth
    <3>2. ~IsRoot => EntrySize = U32 * EntryCells(i) /\ EntryCells(i) \in Nat
      <4>1. ~IsRoot => i # 1
        BY <1>1, <3>1, TreeFacts DEF Regular, IsRoot
      <4>2. Tree[i].regs # <<>>
        BY <3>1 DEF Has
      <4> QED
        BY <1>1, <1>3, <3>1, <4>1, <4>2, ParentRead, RegLenIs
    <3>3. Needed(name) = EntrySize
      BY <1>12, <2>1 DEF Needed
    <3>4. ~IsRoot => Needed(name) \in Nat
      BY <3>2, <3>3 DEF U32
    <3> QED
      BY <1>13, <2>1, <2>2, <3>4
  <2>4. pc' = "done" /\ result' = "err"
    BY <1>8, <1>10, <1>11, <1>12, <2>3 DEF Prop, Return
  <2> QED
    BY <2>2, <2>4
<1>16. CASE ~(\/ name = "reg" /\ IsRoot
              \/ (name = "reg" => ~IsRoot) /\ Needed(name) > len)
  <2>1. /\ nodes' = [nodes EXCEPT ![Depth] = Parsed(name, v, len)]
        /\ pointer' = v + Padded(len) /\ pc' = pc /\ calls' = calls
    BY <1>8, <1>9, <1>10, <1>11, <1>16 DEF Prop
  <2>2. Depth \in Nat /\ Depth \in DOMAIN nodes /\ Depth = Tree[i].depth + 1
    <3>1. Tree[i].depth \in Nat
      BY <1>1, TreeFacts DEF Regular
    <3> QED
      BY <1>1, <1>3, <3>1 DEF Depth
  <2>3. /\ Len(nodes') = Len(nodes) /\ nodes'[Depth] = Parsed(name, v, len)
        /\ \A k \in 1 .. Tree[i].depth : nodes'[k] = nodes[k]
    <3>1. \A k \in 1 .. Tree[i].depth : k \in DOMAIN nodes /\ k # Depth
      <4>1. PICK d \in Nat : d = Tree[i].depth
        BY <1>1, TreeFacts DEF Regular
      <4>2. Len(nodes) = d + 1 /\ Depth = d + 1 /\ DOMAIN nodes = 1 .. d + 1
        BY <1>1, <1>3, <2>2, <4>1 DEF Depth
      <4> QED
        BY <4>1, <4>2
    <3> QED
      BY <1>1, <2>1, <2>2, <3>1
  <2>4. Parsed(name, v, len) \in Nodes
    <3>1. Depth \in 1 .. Len(nodes')
      BY <1>1, <2>2, <2>3
    <3>2. nodes'[Depth] \in Nodes
      BY <1>1, <3>1
    <3> QED
      BY <2>3, <3>2
  <2>5. Noted(Parsed(name, v, len), i, Named(i, x) \cup {w})
    BY <1>1, <1>3, <1>8, <1>9, <1>10, <1>11, <2>4, PropNoted
  <2>6. Settled(nodes', i, Tree[i].depth)
    BY <1>3, <2>3 DEF Settled
  <2>7. w = 5 => ~Senseless(i)
    BY <1>12, <1>13, <1>16
  <2>8. x + 1 \in 0 .. L /\ Len(nodes') = Depth
    BY <1>2, <1>7, <2>3 DEF Depth
  <2>9. AtPlace(pointer', Place(i, 2 + (x + 1)))
    BY <1>8, <1>9, <1>11, <2>1
  <2>10. 5 \in Named(i, x + 1) => ~Senseless(i)
    BY <1>3, <1>8, <2>7
  <2> QED
    BY <1>2, <1>3, <1>8, <2>1, <2>2, <2>3, <2>5, <2>6, <2>8, <2>9, <2>10 DEF InProps
<1> QED
  BY <1>15, <1>16

-----------------------------------------------------------------------------
(* Past the NOPs, to the end of the properties.                            *)

(* Any token but a NOP is where it was written.                            *)
LEMMA AtProp ==
  ASSUME Document, Sound, NEW i \in Ids, NEW x, NEW p, NEW ns, NEW cl,
         InProps(i, x, p, ns, cl)
  PROVE  /\ x \in 0 .. Len(Listing(i)) /\ Len(Listing(i)) \in Nat
         /\ Word(p) = FDT_NOP => InProps(i, x, p + 1, ns, cl)
         /\ Word(p) \in {FDT_NOP, FDT_PROP, FDT_BEGIN_NODE, FDT_END_NODE}
         /\ Word(p) \in {FDT_BEGIN_NODE, FDT_END_NODE} =>
              x = Len(Listing(i)) /\ p = Start(Real(Place(i, 2 + x)))
<1>1. Regular
  BY DEF Document
<1>2. PICK L \in Nat : L = Len(Listing(i)) /\ x \in 0 .. L
  BY <1>1, ListingIs DEF InProps
<1>3. PICK m : m = Place(i, 2 + x)
  OBVIOUS
<1>4. AtPlace(p, m)
  BY <1>3 DEF InProps
<1>5. /\ Tokens[m][1] # FDT_NOP
      /\ x < L => Tokens[m][1] = FDT_PROP
      /\ x = L => Tokens[m][1] \in {FDT_BEGIN_NODE, FDT_END_NODE}
  BY <1>1, <1>2, <1>3, PropPlace
<1>6. /\ Word(p) = FDT_NOP => AtPlace(p + 1, m)
      /\ Word(p) # FDT_NOP => p = Start(Real(m)) /\ Word(p) = Tokens[m][1]
  BY <1>4, <1>5, PassingNop
<1>7. x < L \/ x = L
  BY <1>2
<1>8. Word(p) = FDT_NOP => InProps(i, x, p + 1, ns, cl)
  BY <1>3, <1>6 DEF InProps
<1>9. Word(p) \in {FDT_NOP, FDT_PROP, FDT_BEGIN_NODE, FDT_END_NODE}
  BY <1>5, <1>6, <1>7
<1>10. Word(p) \in {FDT_BEGIN_NODE, FDT_END_NODE} => x = L /\ p = Start(Real(m))
  <2> SUFFICES ASSUME Word(p) \in {FDT_BEGIN_NODE, FDT_END_NODE}
               PROVE  x = L /\ p = Start(Real(m))
    OBVIOUS
  <2>1. Word(p) # FDT_NOP /\ Word(p) # FDT_PROP
    BY DEF FDT_BEGIN_NODE, FDT_END_NODE, FDT_NOP, FDT_PROP
  <2> QED
    BY <1>5, <1>6, <1>7, <2>1
<1> QED
  BY <1>2, <1>3, <1>8, <1>9, <1>10

(* ... the same of the ends behind a node.                                 *)
LEMMA AtClose ==
  ASSUME Document, Sound, NEW i \in Ids, NEW e, NEW p, NEW ns, NEW cl,
         InChildren(i, e, p, ns, cl)
  PROVE  /\ e \in 0 .. Closing(i) /\ Closing(i) \in Nat /\ e <= Tree[i].depth
         /\ Word(p) = FDT_NOP => InChildren(i, e, p + 1, ns, cl)
         /\ Word(p) \in {FDT_NOP, FDT_BEGIN_NODE, FDT_END_NODE}
         /\ Word(p) \in {FDT_BEGIN_NODE, FDT_END_NODE} =>
              p = Start(Real(Place(i, 2 + Len(Listing(i)) + e)))
         /\ Word(p) = FDT_BEGIN_NODE =>
              /\ e = Closing(i) /\ i + 1 \in Ids
              /\ Place(i, 2 + Len(Listing(i)) + e) = Place(i + 1, 1)
         /\ Word(p) = FDT_END_NODE => e < Closing(i)
<1>1. Regular
  BY DEF Document
<1>2. PICK C \in Nat : C = Closing(i) /\ e \in 0 .. C /\ e <= Tree[i].depth
  BY <1>1, NodeAt DEF InChildren
<1>3. PICK m : m = Place(i, 2 + Len(Listing(i)) + e)
  OBVIOUS
<1>4. AtPlace(p, m)
  BY <1>3 DEF InChildren
<1>5. /\ e < C => Tokens[m][1] = FDT_END_NODE
      /\ e = C => i + 1 \in Ids /\ m = Place(i + 1, 1) /\ Tokens[m][1] = FDT_BEGIN_NODE
  BY <1>1, <1>2, <1>3, ClosePlace
<1>6. e < C \/ e = C
  BY <1>2
<1>7. /\ FDT_NOP # FDT_BEGIN_NODE /\ FDT_NOP # FDT_END_NODE /\ FDT_BEGIN_NODE # FDT_END_NODE
      /\ Tokens[m][1] # FDT_NOP
  BY <1>5, <1>6 DEF FDT_BEGIN_NODE, FDT_END_NODE, FDT_NOP
<1>8. /\ Word(p) = FDT_NOP => AtPlace(p + 1, m)
      /\ Word(p) # FDT_NOP => p = Start(Real(m)) /\ Word(p) = Tokens[m][1]
  BY <1>4, <1>7, PassingNop
<1>9. Word(p) = FDT_NOP => InChildren(i, e, p + 1, ns, cl)
  BY <1>3, <1>8 DEF InChildren
<1>10. /\ Word(p) \in {FDT_NOP, FDT_BEGIN_NODE, FDT_END_NODE}
       /\ Word(p) = FDT_BEGIN_NODE => e = C /\ i + 1 \in Ids /\ m = Place(i + 1, 1)
       /\ Word(p) = FDT_END_NODE => e < C
       /\ Word(p) \in {FDT_BEGIN_NODE, FDT_END_NODE} => p = Start(Real(m))
  BY <1>5, <1>6, <1>7, <1>8
<1> QED
  BY <1>2, <1>3, <1>9, <1>10

(* The end of the properties: all of them have been noted.                 *)
LEMMA PropsEndOn ==
  ASSUME Expected, IInv, PropsEnd, ~BadQuery,
         NEW i \in Ids, NEW x, InProps(i, x, pointer, nodes, calls)
  PROVE  \/ InDeliver(i, 0, pointer', nodes', remain', calls') /\ pc' = "deliver"
         \/ InChildren(i, 0, pointer', nodes', calls') /\ pc' = "children"
<1>1. /\ Regular /\ Document /\ Sound /\ nodes \in Seq(Nodes) /\ answers = AllAnswers
      /\ IsTree
  BY DEF Expected, Document, IInv, TypeOK, Regular
<1>2. /\ x = Len(Listing(i)) /\ pointer = Start(Real(Place(i, 2 + Len(Listing(i)))))
      /\ Len(Listing(i)) \in Nat
  <2>1. Word(pointer) \in {FDT_BEGIN_NODE, FDT_END_NODE}
    BY DEF PropsEnd, Token
  <2>2. x \in 0 .. Len(Listing(i)) /\ Len(Listing(i)) \in Nat
    BY <1>1, AtProp
  <2>3. x = Len(Listing(i)) /\ pointer = Start(Real(Place(i, 2 + x)))
    BY <1>1, <2>1, AtProp
  <2> QED
    BY <2>2, <2>3
<1>3. /\ Len(nodes) = Tree[i].depth + 1 /\ AtPlace(pointer, Place(i, 2 + Len(Listing(i))))
      /\ Settled(nodes, i, Tree[i].depth) /\ Noted(Node, i, Named(i, x))
      /\ 5 \in Named(i, x) => ~Senseless(i)
      /\ Given(calls, Turn(i))
  BY <1>2 DEF InProps, Node, Depth
<1>4. Full(Node, i) /\ (5 \in AllOf(i) => ~Senseless(i))
  BY <1>1, <1>2, <1>3, NamedIs DEF Full
<1>5. ~Senseless(i)
  <2>1. Tree[i].regs # <<>> => 5 \in AllOf(i)
    BY DEF AllOf, Has
  <2> QED
    BY <1>4, <2>1 DEF Senseless
<1>6. PICK d \in Nat : d = Tree[i].depth
  BY <1>1, TreeFacts
<1>7. Settled(nodes, i, d + 1)
  <2> SUFFICES ASSUME NEW k \in 1 .. d + 1 PROVE Full(nodes[k], OnLine(i, k))
    BY DEF Settled
  <2>1. CASE k \in 1 .. d
    BY <1>3, <1>6, <2>1 DEF Settled
  <2>2. CASE k = d + 1
    <3>1. OnLine(i, d + 1) = i
      BY <1>1, <1>6, OnLineIs
    <3>2. nodes[k] = Node
      BY <1>3, <1>6, <2>2 DEF Node, Depth
    <3> QED
      BY <1>4, <2>2, <3>1, <3>2
  <2> QED
    BY <2>1, <2>2
<1>8. Node.find <=> Wanted(i)
  BY <1>1, <1>4, FullWanted
<1>9. UNCHANGED <<pointer, nodes, calls>>
  BY DEF PropsEnd
<1>10. CASE Node.find
  <2>1. pc' = "deliver" /\ remain' = IF Node.reg = <<>> THEN 0 ELSE Node.reg[2]
    BY <1>10 DEF PropsEnd
  <2>2. remain' = IF Tree[i].regs = <<>> THEN 0 ELSE Left(i, 0)
    <3>1. CASE Tree[i].regs = <<>>
      BY <1>1, <1>4, <2>1, <3>1, FullIs
    <3>2. CASE Tree[i].regs # <<>>
      <4>1. i # 1
        BY <1>5, <3>2 DEF Senseless
      <4>2. Node.reg # <<>> /\ Node.reg[2] = Bytes(i, 5)
        BY <1>1, <1>4, <3>2, FullIs
      <4>3. Len(Tree[i].regs) \in Nat \ {0}
        BY <1>1, <3>2, <4>1, RegLenIs
      <4>4. 0 \in 0 .. Len(Tree[i].regs) /\ 0 # Len(Tree[i].regs)
        BY <4>3
      <4>5. Left(i, 0) = Bytes(i, 5)
        BY <1>1, <3>2, <4>1, <4>4, LeftIs
      <4> QED
        BY <2>1, <3>2, <4>2, <4>5
    <3> QED
      BY <3>1, <3>2
  <2>3. 0 \in 0 .. Len(Tree[i].regs) /\ (0 = Len(Tree[i].regs) => Tree[i].regs = <<>>)
    <3>1. Tree[i].regs \in Seq(Nat \X Nat)
      BY <1>1, NodeFacts
    <3> QED
      BY <3>1
  <2>4. Turn(i) + 0 = Turn(i)
    BY <1>1, TurnsAre
  <2>5. InDeliver(i, 0, pointer', nodes', remain', calls')
    BY <1>2, <1>3, <1>5, <1>6, <1>7, <1>8, <1>9, <1>10, <2>2, <2>3, <2>4 DEF InDeliver
  <2> QED
    BY <2>1, <2>5
<1>11. CASE ~Node.find
  <2>1. pc' = "children"
    BY <1>11 DEF PropsEnd
  <2>2. Turn(i + 1) = Turn(i)
    <3>1. Len(AnswersAt(i)) = 0
      BY <1>1, <1>5, <1>8, <1>11, AnswersAtIs
    <3>2. Turn(i) \in Nat /\ Turn(i + 1) = Turn(i) + Len(AnswersAt(i))
      BY <1>1, TurnsAre
    <3> QED
      BY <3>1, <3>2
  <2>3. Closing(i) \in Nat
    BY <1>1, ClosingIs
  <2>4. /\ 0 \in 0 .. Closing(i) /\ 0 <= d /\ d + 1 - 0 = d + 1
        /\ 2 + Len(Listing(i)) + 0 = 2 + Len(Listing(i))
    BY <1>2, <2>3
  <2>5. InChildren(i, 0, pointer', nodes', calls')
    BY <1>3, <1>6, <1>7, <1>9, <2>2, <2>4 DEF InChildren
  <2> QED
    BY <2>1, <2>5
<1> QED
  BY <1>10, <1>11

-----------------------------------------------------------------------------
(* Handing out the addresses.                                              *)

(* A node whose next answer is none ends the search as it should.          *)
LEMMA StuckAt ==
  ASSUME Regular, answers = AllAnswers, NEW i \in Ids, NEW j \in Nat, NEW cl,
         Given(cl, Turn(i) + j), j + 1 \in 1 .. Len(AnswersAt(i)),
         AnswersAt(i)[j + 1] = Nothing
  PROVE  Stuck(cl)
<1>1. /\ Turn(i) \in Nat /\ Turn(i + 1) = Turn(i) + Len(AnswersAt(i))
      /\ Turn(i + 1) <= Len(answers) /\ Len(answers) \in Nat
      /\ answers[Turn(i) + (j + 1)] = AnswersAt(i)[j + 1]
  BY TurnsAre
<1>2. PICK n \in Nat : n = Turn(i) + j
  BY <1>1
<1>3. Turn(i) + (j + 1) = n + 1
  BY <1>1, <1>2
<1>4. n < Len(answers)
  <2>1. PICK l \in Nat : l = Len(AnswersAt(i)) /\ j + 1 <= l
    BY AnswersAtIs
  <2> QED
    BY <1>1, <1>2, <2>1
<1>5. answers[n + 1] = Nothing
  BY <1>1, <1>3
<1> QED
  BY <1>2, <1>4, <1>5 DEF Stuck

(* Such is a node with a senseless reg, or one that is wanted and has      *)
(* none.                                                                   *)
LEMMA SenselessStuck ==
  ASSUME Regular, answers = AllAnswers, NEW i \in Ids, NEW cl, Given(cl, Turn(i)),
         Senseless(i) \/ (Wanted(i) /\ Tree[i].regs = <<>>)
  PROVE  Stuck(cl)
<1>1. Len(AnswersAt(i)) = 1 /\ AnswersAt(i)[0 + 1] = Nothing /\ Turn(i) + 0 = Turn(i)
  BY AnswersAtIs, TurnsAre
<1>2. 0 + 1 \in 1 .. Len(AnswersAt(i))
  BY <1>1
<1> QED
  BY <1>1, <1>2, StuckAt

(* What is seen of the node while its addresses are handed out.            *)
LEMMA Handing ==
  ASSUME Expected, IInv, NEW i \in Ids, NEW j,
         InDeliver(i, j, pointer, nodes, remain, calls)
  PROVE  /\ Node.reg = <<>> <=> Tree[i].regs = <<>>
         /\ remain > 0 <=> j < Len(Tree[i].regs)
         /\ j \in Nat /\ Len(Tree[i].regs) \in Nat
         /\ Tree[i].regs = <<>> => j = 0
         /\ j < Len(Tree[i].regs) =>
              /\ EntrySize = U32 * EntryCells(i) /\ j + 1 \in 1 .. Len(AnswersAt(i))
              /\ remain >= EntrySize <=> Whole(i, j + 1)
              /\ remain - EntrySize = Left(i, j + 1)
              /\ EntrySize \in Nat /\ remain \in Nat
              /\ AnswersAt(i)[j + 1] # Nothing =>
                   /\ Whole(i, j + 1) /\ NextEntry.is = "ok"
                   /\ <<NextEntry.address, RegSize>> = AnswersAt(i)[j + 1]
              /\ AnswersAt(i)[j + 1] = Nothing =>
                   ~Whole(i, j + 1) \/ NextEntry.is # "ok"
<1>1. /\ Regular /\ IsTree /\ TypeOK /\ nodes \in Seq(Nodes)
  BY DEF Expected, Document, IInv, TypeOK, Regular
<1>2. /\ Len(nodes) = Tree[i].depth + 1 /\ Settled(nodes, i, Tree[i].depth + 1)
      /\ Wanted(i) /\ ~Senseless(i)
      /\ j \in 0 .. Len(Tree[i].regs)
      /\ j = Len(Tree[i].regs) => Tree[i].regs = <<>> \/ Tree[i].cut = 0
      /\ remain = IF Tree[i].regs = <<>> THEN 0 ELSE Left(i, j)
  BY DEF InDeliver
<1>3. Tree[i].regs \in Seq(Nat \X Nat) /\ Tree[i].depth \in Nat
  BY <1>1, NodeFacts, TreeFacts
<1>4. Len(Tree[i].regs) \in Nat /\ j \in Nat /\ (Tree[i].regs = <<>> <=> Len(Tree[i].regs) = 0)
  BY <1>2, <1>3
<1>5. Full(Node, i)
  <2>1. Depth \in 1 .. Tree[i].depth + 1 /\ OnLine(i, Tree[i].depth + 1) = i
    BY <1>1, <1>2, <1>3, OnLineIs DEF Depth
  <2>2. Depth = Tree[i].depth + 1
    BY <1>2 DEF Depth
  <2> QED
    BY <1>2, <2>1, <2>2 DEF Settled, Node
<1>6. Node.reg = <<>> <=> Tree[i].regs = <<>>
  BY <1>1, <1>5, FullIs
<1>7. Tree[i].regs = <<>> => j = 0
  BY <1>2, <1>4
<1>8. CASE Tree[i].regs = <<>>
  <2>1. ~(remain > 0) /\ ~(j < Len(Tree[i].regs))
    BY <1>2, <1>4, <1>8
  <2> QED
    BY <1>4, <1>6, <1>7, <2>1
<1>9. CASE Tree[i].regs # <<>>
  <2>1. i # 1
    BY <1>2, <1>9 DEF Senseless
  <2>2. remain = Left(i, j)
    BY <1>2, <1>9
  <2>3. j = Len(Tree[i].regs) => Tree[i].cut = 0
    BY <1>2, <1>9
  <2>4. /\ Left(i, j) \in Nat
        /\ Left(i, j) > 0 <=> j < Len(Tree[i].regs)
        /\ j < Len(Tree[i].regs) =>
             /\ Left(i, j) >= U32 * EntryCells(i) <=> Whole(i, j + 1)
             /\ Left(i, j + 1) = Left(i, j) - U32 * EntryCells(i)
    BY <1>1, <1>2, <1>9, <2>1, <2>3, LeftIs
  <2>5. ASSUME j < Len(Tree[i].regs)
        PROVE  /\ EntrySize = U32 * EntryCells(i) /\ j + 1 \in DOMAIN AnswersAt(i)
               /\ AnswersAt(i)[j + 1] # Nothing =>
                    /\ Whole(i, j + 1) /\ NextEntry.is = "ok"
                    /\ <<NextEntry.address, RegSize>> = AnswersAt(i)[j + 1]
               /\ AnswersAt(i)[j + 1] = Nothing =>
                    ~Whole(i, j + 1) \/ NextEntry.is # "ok"
    <3>1. Depth = Tree[i].depth + 1 /\ Settled(nodes, i, Depth)
      BY <1>2 DEF Depth
    <3> QED
      BY <1>1, <1>2, <1>4, <1>9, <2>2, <2>5, <3>1, NextEntryIs
  <2>6. DOMAIN AnswersAt(i) = 1 .. Len(AnswersAt(i))
    BY <1>1, AnswersAtIs
  <2>7. EntryCells(i) \in Nat /\ U32 * EntryCells(i) \in Nat
    BY <1>1, <1>9, <2>1, RegLenIs DEF U32
  <2> QED
    BY <1>4, <1>6, <1>7, <2>2, <2>4, <2>5, <2>6, <2>7, Zenon
<1> QED
  BY <1>8, <1>9

(* DeliverFails: where the tree has no answer.                             *)
LEMMA FailsOver ==
  ASSUME Expected, IInv, DeliverFails, NEW i \in Ids, NEW j,
         InDeliver(i, j, pointer, nodes, remain, calls)
  PROVE  pc' = "done" /\ calls' = calls /\ result' # "ok" /\ Stuck(calls)
<1>1. /\ Regular /\ answers = AllAnswers
      /\ Wanted(i) /\ Given(calls, Turn(i) + j)
  BY DEF Expected, Document, InDeliver
<1>2. pc' = "done" /\ calls' = calls /\ result' # "ok"
  BY DEF DeliverFails, Return
<1>3. \/ Node.reg = <<>>
      \/ remain > 0 /\ NextEntry.is # "ok"
      \/ remain > 0 /\ remain < EntrySize
  BY DEF DeliverFails
<1>4. CASE Node.reg = <<>>
  <2>1. Tree[i].regs = <<>> /\ j = 0
    BY <1>4, Handing
  <2>2. Turn(i) + j = Turn(i)
    BY <1>1, <2>1, TurnsAre
  <2> QED
    BY <1>1, <1>2, <2>1, <2>2, SenselessStuck
<1>5. CASE remain > 0 /\ (NextEntry.is # "ok" \/ remain < EntrySize)
  <2>1. /\ j \in Nat /\ j + 1 \in 1 .. Len(AnswersAt(i))
        /\ remain >= EntrySize <=> Whole(i, j + 1)
        /\ EntrySize \in Nat /\ remain \in Nat
        /\ AnswersAt(i)[j + 1] # Nothing => Whole(i, j + 1) /\ NextEntry.is = "ok"
    BY <1>5, Handing
  <2>2. remain < EntrySize => ~(remain >= EntrySize)
    BY <2>1
  <2>3. AnswersAt(i)[j + 1] = Nothing
    BY <1>5, <2>1, <2>2
  <2> QED
    BY <1>1, <1>2, <2>1, <2>3, StuckAt
<1> QED
  BY <1>3, <1>4, <1>5

(* Deliver: the next answer is handed out.                                 *)
LEMMA DeliverOn ==
  ASSUME Expected, IInv, Deliver, NEW i \in Ids, NEW j,
         InDeliver(i, j, pointer, nodes, remain, calls),
         Word(pointer) \in {FDT_BEGIN_NODE, FDT_END_NODE}
  PROVE  /\ InDeliver(i, j + 1, pointer', nodes', remain', calls')
         /\ \/ pc' = pc
            \/ pc' = "done" /\ result' = "err" /\ broke' = TRUE
<1>1. /\ Regular /\ answers = AllAnswers /\ calls \in Seq(Nat \X Nat)
      /\ Given(calls, Turn(i) + j)
  BY DEF Expected, Document, InDeliver, IInv, TypeOK
<1>2. /\ remain > 0 /\ NextEntry.is = "ok" /\ remain >= EntrySize
      /\ calls' = Append(calls, <<NextEntry.address, RegSize>>)
      /\ remain' = remain - EntrySize /\ UNCHANGED <<pointer, nodes>>
  BY DEF Deliver
<1>3. /\ j \in Nat /\ Len(Tree[i].regs) \in Nat /\ j < Len(Tree[i].regs)
      /\ Tree[i].regs = <<>> => j = 0
      /\ j + 1 \in 1 .. Len(AnswersAt(i))
      /\ remain >= EntrySize <=> Whole(i, j + 1)
      /\ remain - EntrySize = Left(i, j + 1)
      /\ AnswersAt(i)[j + 1] # Nothing =>
           <<NextEntry.address, RegSize>> = AnswersAt(i)[j + 1]
      /\ AnswersAt(i)[j + 1] = Nothing =>
           ~Whole(i, j + 1) \/ NextEntry.is # "ok"
  BY <1>2, Handing
<1>4. AnswersAt(i)[j + 1] # Nothing /\ Whole(i, j + 1)
  BY <1>2, <1>3
<1>5. /\ Turn(i) \in Nat /\ Turn(i + 1) = Turn(i) + Len(AnswersAt(i))
      /\ Turn(i + 1) <= Len(answers) /\ Len(answers) \in Nat
      /\ answers[Turn(i) + (j + 1)] = AnswersAt(i)[j + 1]
      /\ Len(AnswersAt(i)) \in Nat
  BY <1>1, <1>3, TurnsAre, AnswersAtIs
<1>6. PICK n \in Nat : n = Turn(i) + j
  BY <1>3, <1>5
<1>7. Turn(i) + (j + 1) = n + 1 /\ n + 1 <= Len(answers)
  BY <1>3, <1>5, <1>6
<1>8. calls' = Append(calls, answers[n + 1]) /\ answers[n + 1] # Nothing
  BY <1>2, <1>3, <1>4, <1>5, <1>7
<1>9. answers \in Seq(Outcomes) /\ answers[n + 1] \in Outcomes
  <2>1. answers \in Seq(Outcomes)
    BY <1>1, TurnsAre
  <2>2. n + 1 \in 1 .. Len(answers)
    BY <1>5, <1>7
  <2> QED
    BY <2>1, <2>2
<1>10. Given(calls', n + 1)
  <2>1. calls \in Seq(Outcomes \cup (Nat \X Nat)) /\ answers[n + 1] \in Outcomes \cup (Nat \X Nat)
    BY <1>1, <1>9
  <2>2. Given(calls, n)
    BY <1>1, <1>6
  <2> QED
    BY <1>5, <1>7, <1>8, <2>1, <2>2, GivenMore
<1>11. Given(calls', Turn(i) + (j + 1))
  BY <1>7, <1>10
<1>12. j + 1 \in 0 .. Len(Tree[i].regs) /\ Tree[i].regs # <<>>
  BY <1>3
<1>13. j + 1 = Len(Tree[i].regs) => Tree[i].cut = 0
  <2>1. Tree[i].cut \in Nat
    BY <1>1, NodeFacts DEF Regular
  <2>2. Tree[i].cut > 0 => j + 1 < Len(Tree[i].regs)
    BY <1>4 DEF Whole
  <2> QED
    BY <1>3, <2>1, <2>2
<1>14. InDeliver(i, j + 1, pointer', nodes', remain', calls')
  BY <1>2, <1>3, <1>11, <1>12, <1>13 DEF InDeliver
<1>15. \/ pc' = pc
       \/ pc' = "done" /\ result' = "err" /\ broke' = TRUE
  <2>1. Token # FDT_END
    BY DEF Token, FDT_END, FDT_BEGIN_NODE, FDT_END_NODE
  <2> QED
    BY <2>1 DEF Deliver, Return
<1> QED
  BY <1>14, <1>15

(* DeliverEnd: all entries of the node have been handed out.               *)
LEMMA DeliverEndOn ==
  ASSUME Expected, IInv, DeliverEnd, NEW i \in Ids, NEW j,
         InDeliver(i, j, pointer, nodes, remain, calls)
  PROVE  InChildren(i, 0, pointer', nodes', calls')
<1>1. /\ Regular /\ answers = AllAnswers /\ IsTree
      /\ Given(calls, Turn(i) + j) /\ Wanted(i) /\ ~Senseless(i)
      /\ Len(nodes) = Tree[i].depth + 1 /\ Settled(nodes, i, Tree[i].depth + 1)
      /\ pointer = Start(Real(Place(i, 2 + Len(Listing(i)))))
      /\ j \in 0 .. Len(Tree[i].regs)
  BY DEF Expected, Document, InDeliver, Regular
<1>2. Node.reg # <<>> /\ remain = 0 /\ UNCHANGED <<pointer, nodes, calls>>
  BY DEF DeliverEnd
<1>3. /\ Tree[i].regs # <<>> /\ j \in Nat /\ Len(Tree[i].regs) \in Nat
      /\ ~(j < Len(Tree[i].regs))
  <2>1. ~(remain > 0)
    BY <1>2
  <2> QED
    BY <1>2, <2>1, Handing
<1>4. j = Len(Tree[i].regs)
  BY <1>1, <1>3
<1>5. Given(calls, Turn(i + 1))
  <2>1. Len(AnswersAt(i)) = Len(Tree[i].regs)
    BY <1>1, <1>3, AnswersAtIs
  <2>2. Turn(i + 1) = Turn(i) + Len(AnswersAt(i))
    BY <1>1, TurnsAre
  <2> QED
    BY <1>1, <1>4, <2>1, <2>2
<1>6. PICK d \in Nat : d = Tree[i].depth
  BY <1>1, TreeFacts
<1>7. PICK L \in Nat : L = Len(Listing(i))
  BY <1>1, ListingIs
<1>8. Place(i, 2 + L) \in 1 .. Len(Tokens)
  <2>1. L \in 0 .. Len(Listing(i))
    BY <1>7
  <2> QED
    BY <1>1, <2>1, PropPlace
<1>9. AtPlace(pointer, Place(i, 2 + L))
  BY <1>1, <1>7, <1>8 DEF AtPlace
<1>10. /\ 0 \in 0 .. Closing(i) /\ 0 <= d /\ d + 1 - 0 = d + 1
       /\ 2 + L + 0 = 2 + L
  <2>1. Closing(i) \in Nat
    BY <1>1, ClosingIs
  <2> QED
    BY <2>1
<1> QED
  BY <1>1, <1>2, <1>5, <1>6, <1>7, <1>9, <1>10 DEF InChildren

-----------------------------------------------------------------------------
(* Into the next node, and out of the last.                                *)

(* find_node_recursive of node i begins.                                   *)
LEMMA Entered ==
  ASSUME Document, Sound, NEW i \in Ids, NEW p, p = Start(Real(Place(i, 1))),
         NEW ns, ns \in Seq(Nodes), Len(ns) = Tree[i].depth,
         Settled(ns, i, Tree[i].depth), NEW cl, Given(cl, Turn(i))
  PROVE  InProps(i, 0, p + 2, Append(ns, NewNode), cl)
<1>1. Regular /\ InTokens
  BY DEF Document
<1>2. PICK L \in Nat : L = Len(Listing(i))
  BY <1>1, ListingIs
<1>3. PICK m : m = Place(i, 1)
  OBVIOUS
<1>4. /\ m \in 1 .. Len(Tokens) /\ Tokens[m][1] = FDT_BEGIN_NODE
      /\ Place(i, 2 + 0) = m + 1 /\ m + 1 \in 1 .. Len(Tokens)
  <2>1. /\ Closing(i) \in Nat /\ Place(i, 0) \in Nat
        /\ \A q \in Nat : Place(i, q) = Place(i, 0) + q
        /\ \A q \in 1 .. 2 + L + Closing(i) : Place(i, q) \in 1 .. Len(Tokens)
        /\ Tokens[Place(i, 1)][1] = FDT_BEGIN_NODE
    BY <1>1, <1>2, NodeAt
  <2>2. Place(i, 1) = Place(i, 0) + 1 /\ Place(i, 2) = Place(i, 0) + 2
    BY <2>1
  <2>3. 1 \in 1 .. 2 + L + Closing(i) /\ 2 \in 1 .. 2 + L + Closing(i) /\ 2 + 0 = 2
    <3>1. PICK c \in Nat : c = Closing(i)
      BY <2>1
    <3>2. 1 \in 1 .. 2 + L + c /\ 2 \in 1 .. 2 + L + c /\ 2 + 0 = 2
      OBVIOUS
    <3> QED
      BY <3>1, <3>2
  <2>4. Place(i, 2) = Place(i, 1) + 1
    BY <2>1, <2>2
  <2>5. Place(i, 1) \in 1 .. Len(Tokens) /\ Place(i, 2) \in 1 .. Len(Tokens)
    BY <2>1, <2>3
  <2>6. Tokens[Place(i, 1)][1] = FDT_BEGIN_NODE
    BY <2>1
  <2>7. Place(i, 2 + 0) = Place(i, 2)
    BY <2>3
  <2> QED
    BY <1>3, <2>4, <2>5, <2>6, <2>7, Zenon
<1>5. PICK k : k = Real(m)
  OBVIOUS
<1>6. k \in 1 .. Len(tokens) /\ tokens[k] = Tokens[m]
  BY <1>4, <1>5, RealIs
<1>7. Start(k + 1) = p + 2
  BY <1>1, <1>3, <1>4, <1>5, <1>6, TokenIs
<1>8. AtPlace(p + 2, Place(i, 2 + 0))
  <2>1. AtPlace(Start(k + 1), m + 1)
    BY <1>4, <1>5, NextPlace
  <2> QED
    BY <1>4, <1>7, <2>1
<1>9. PICK d \in Nat : d = Tree[i].depth
  BY <1>1, TreeFacts DEF Regular
<1>10. PICK nn : nn = Append(ns, NewNode)
  OBVIOUS
<1>11. /\ Len(nn) = d + 1 /\ nn[d + 1] = NewNode
       /\ \A q \in 1 .. d : nn[q] = ns[q]
  BY <1>9, <1>10
<1>12. Settled(nn, i, d)
  BY <1>9, <1>11 DEF Settled
<1>13. Named(i, 0) = {} /\ Noted(nn[Len(nn)], i, Named(i, 0))
  <2>1. Named(i, 0) = {}
    BY <1>1, NamedIs
  <2> QED
    BY <1>11, <2>1, NewNoted
<1>14. 0 \in 0 .. Len(Listing(i))
  BY <1>2
<1>15. 5 \notin Named(i, 0)
  BY <1>13
<1> QED
  BY <1>8, <1>9, <1>10, <1>11, <1>12, <1>13, <1>14, <1>15 DEF InProps

(* The search begins at the root, whatever NOPs are before it.             *)
LEMMA RootFound ==
  ASSUME Document, Sound
  PROVE  /\ 1 \in Ids /\ SkipNop(1) = Start(Real(Place(1, 1)))
         /\ Word(SkipNop(1)) = FDT_BEGIN_NODE
<1>1. Regular /\ InTokens /\ 1 \in Ids
  BY TreeFacts DEF Document, Regular
<1>2. Place(1, 1) = 1 /\ 1 \in 1 .. Len(Tokens) /\ Tokens[1][1] = FDT_BEGIN_NODE
  <2>1. Place(1, 0) = 0
    BY <1>1, PlacesAre
  <2>2. Len(Listing(1)) \in Nat /\ Closing(1) \in Nat
    BY <1>1, NodeAt
  <2>3. Place(1, 1) = Place(1, 0) + 1 /\ Tokens[Place(1, 1)][1] = FDT_BEGIN_NODE
    BY <1>1, NodeAt
  <2>4. 1 \in 1 .. 2 + Len(Listing(1)) + Closing(1)
    BY <2>2
  <2>5. Place(1, 1) \in 1 .. Len(Tokens)
    BY <1>1, <2>4, NodeAt
  <2> QED
    BY <2>1, <2>3, <2>5
<1>3. PICK k : k = SkipNop(1)
  OBVIOUS
<1>4. /\ k \in 1 .. Len(tokens) /\ Start(k) = k /\ Word(k) # FDT_NOP
      /\ \A j \in 1 .. k - 1 : tokens[j][1] = FDT_NOP
  BY <1>1, <1>3, SkippedNops
<1>5. PICK r : r = Real(1)
  OBVIOUS
<1>6. /\ r \in 1 .. Len(tokens) /\ tokens[r] = Tokens[1] /\ First(1) = 1
      /\ First(1) # r => r = First(1) + 1 /\ tokens[First(1)] = <<FDT_NOP>>
  BY <1>2, <1>5, RealIs
<1>7. tokens[k][1] # FDT_NOP
  BY <1>1, <1>4, TokenIs
<1>8. tokens[r][1] # FDT_NOP
  BY <1>2, <1>6 DEF FDT_BEGIN_NODE, FDT_NOP
<1>9. ~(r < k)
  <2>1. r < k => r \in 1 .. k - 1
    BY <1>4, <1>6
  <2> QED
    BY <1>4, <1>8, <2>1
<1>10. ~(k < r)
  <2> SUFFICES ASSUME k < r PROVE FALSE
    OBVIOUS
  <2>1. r # 1
    BY <1>4, <1>6
  <2>2. r = 2 /\ tokens[1] = <<FDT_NOP>>
    BY <1>6, <2>1
  <2>3. k = 1
    BY <1>4, <2>2
  <2> QED
    BY <1>7, <2>2, <2>3
<1>11. k = r
  BY <1>4, <1>6, <1>9, <1>10
<1>12. Word(k) = FDT_BEGIN_NODE
  <2>1. Word(Start(k)) = tokens[k][1]
    BY <1>1, <1>4, TokenIs
  <2> QED
    BY <1>2, <1>4, <1>6, <1>11, <2>1
<1> QED
  BY <1>1, <1>2, <1>3, <1>4, <1>5, <1>11, <1>12

(* FindNode: the properties of the root are next.                          *)
LEMMA FindNodeOn ==
  ASSUME Expected, IInv, FindNode, nodes = <<>>, calls = <<>>
  PROVE  \/ BadQuery /\ pc' = "done" /\ result' = "err" /\ calls' = calls
         \/ ~BadQuery /\ pc' = "props" /\ InProps(1, 0, pointer', nodes', calls')
<1>1. Document /\ Sound /\ Regular /\ answers = AllAnswers
  BY DEF Expected, Document
<1>2. CASE BadQuery
  BY <1>2 DEF FindNode, Return
<1>3. CASE ~BadQuery
  <2>1. /\ 1 \in Ids /\ SkipNop(1) = Start(Real(Place(1, 1)))
        /\ Word(SkipNop(1)) = FDT_BEGIN_NODE
    BY <1>1, RootFound
  <2>2. Enter(SkipNop(1)) /\ calls' = calls
    BY <1>3, <2>1 DEF FindNode
  <2>3. /\ nodes' = Append(nodes, NewNode) /\ pointer' = SkipNop(1) + 2 /\ pc' = "props"
    BY <2>2 DEF Enter
  <2>4. Given(calls, Turn(1))
    <3>1. Turn(1) = 0 /\ Len(answers) \in Nat
      BY <1>1, TurnsAre
    <3> QED
      BY <3>1 DEF Given
  <2>5. Tree[1].depth = 0
    BY <1>1, TreeFacts DEF Regular
  <2>6. nodes \in Seq(Nodes) /\ Len(nodes) = Tree[1].depth /\ Settled(nodes, 1, Tree[1].depth)
    BY <2>5 DEF Settled, IInv, TypeOK
  <2>7. InProps(1, 0, SkipNop(1) + 2, Append(nodes, NewNode), calls)
    BY <1>1, <2>1, <2>4, <2>6, Entered
  <2> QED
    BY <1>3, <2>2, <2>3, <2>7
<1> QED
  BY <1>2, <1>3

(* Child: the properties of the next node are next.                        *)
LEMMA ChildOn ==
  ASSUME Expected, IInv, Child, NEW i \in Ids, NEW e,
         InChildren(i, e, pointer, nodes, calls)
  PROVE  i + 1 \in Ids /\ InProps(i + 1, 0, pointer', nodes', calls')
<1>1. Document /\ Sound /\ Regular /\ IsTree /\ nodes \in Seq(Nodes)
  BY DEF Expected, Document, Regular, IInv, TypeOK
<1>2. /\ Word(pointer) = FDT_BEGIN_NODE /\ nodes' = Append(nodes, NewNode)
      /\ pointer' = pointer + 2 /\ calls' = calls
  BY DEF Child, Enter
<1>3. /\ e = Closing(i) /\ i + 1 \in Ids
      /\ Place(i, 2 + Len(Listing(i)) + e) = Place(i + 1, 1)
  BY <1>1, <1>2, AtClose
<1>4. pointer = Start(Real(Place(i + 1, 1)))
  BY <1>1, <1>2, <1>3, AtClose
<1>5. PICK d, f \in Nat : d = Tree[i].depth /\ f = Tree[i + 1].depth
  BY <1>1, <1>3, TreeFacts
<1>6. f = d + 1 - e
  <2>1. Closing(i) \in Nat /\ Closing(i) = d + 1 - f
    BY <1>1, <1>3, <1>5, ClosingIs
  <2> QED
    BY <1>3, <2>1
<1>7. Len(nodes) = f /\ Settled(nodes, i, f) /\ Given(calls, Turn(i + 1))
  BY <1>5, <1>6 DEF InChildren
<1>8. Settled(nodes, i + 1, f)
  <2>1. \A q \in 1 .. f : OnLine(i + 1, q) = OnLine(i, q)
    BY <1>1, <1>3, <1>5, NextLine
  <2> QED
    BY <1>7, <2>1 DEF Settled
<1>9. InProps(i + 1, 0, pointer + 2, Append(nodes, NewNode), calls)
  BY <1>1, <1>3, <1>4, <1>5, <1>7, <1>8, Entered
<1> QED
  BY <1>2, <1>3, <1>9

(* EndNode: one end further, or the end of the root.                       *)
LEMMA EndNodeOn ==
  ASSUME Expected, IInv, EndNode, NEW i \in Ids, NEW e,
         InChildren(i, e, pointer, nodes, calls)
  PROVE  \/ pc' = "children" /\ InChildren(i, e + 1, pointer', nodes', calls')
         \/ /\ pc' = "end" /\ pointer' = Start(First(Len(Tokens)))
            /\ Given(calls', Len(answers))
<1>1. /\ Document /\ Sound /\ Regular /\ IsTree /\ InTokens /\ nodes \in Seq(Nodes)
      /\ answers = AllAnswers
  BY DEF Expected, Document, Regular, IInv, TypeOK
<1>2. /\ Word(pointer) = FDT_END_NODE /\ nodes' = SubSeq(nodes, 1, Depth - 1)
      /\ pointer' = pointer + 1 /\ calls' = calls
      /\ pc' = IF IsRoot THEN "end" ELSE "children"
  BY DEF EndNode, Token
<1>3. PICK L, C, d \in Nat : L = Len(Listing(i)) /\ C = Closing(i) /\ d = Tree[i].depth
  BY <1>1, NodeAt, TreeFacts
<1>4. e \in 0 .. C /\ e < C /\ e <= d
  BY <1>1, <1>2, <1>3, AtClose
<1>5. PICK m : m = Place(i, 2 + L + e)
  OBVIOUS
<1>6. pointer = Start(Real(m))
  BY <1>1, <1>2, <1>3, <1>5, AtClose
<1>7. /\ m \in 1 .. Len(Tokens) /\ Tokens[m][1] = FDT_END_NODE
      /\ Place(i, 2 + L + (e + 1)) = m + 1 /\ m + 1 \in 1 .. Len(Tokens)
  BY <1>1, <1>3, <1>4, <1>5, ClosePlace
<1>8. PICK k : k = Real(m)
  OBVIOUS
<1>9. k \in 1 .. Len(tokens) /\ tokens[k] = Tokens[m]
  BY <1>1, <1>7, <1>8, RealIs
<1>10. pointer' = Start(k + 1)
  BY <1>1, <1>2, <1>6, <1>7, <1>8, <1>9, TokenIs
<1>11. AtPlace(pointer', m + 1) /\ pointer' = Start(First(m + 1))
  BY <1>1, <1>7, <1>8, <1>10, NextPlace
<1>12. Len(nodes) = d + 1 - e /\ Settled(nodes, i, d + 1 - e) /\ Given(calls, Turn(i + 1))
  BY <1>3 DEF InChildren
<1>13. CASE IsRoot
  <2>1. d = e
    <3>1. d + 1 - e = 1
      BY <1>12, <1>13 DEF IsRoot, Depth
    <3>2. e \in Nat
      BY <1>3, <1>4
    <3> QED
      BY <3>1, <3>2
  <2>2. i + 1 \notin Ids
    <3>1. i + 1 \in Ids => C <= d
      BY <1>1, <1>3, ClosingIs
    <3> QED
      BY <1>4, <2>1, <3>1
  <2>3. C = d + 1
    BY <1>1, <1>3, <2>2, ClosingIs
  <2>4. m + 1 = Len(Tokens)
    <3>1. Place(i, 2 + L + C) = Place(i + 1, 1) /\ Place(i + 1, 1) = Len(Tokens)
      BY <1>1, <1>3, <2>2, NodeAt
    <3>2. e + 1 = C
      BY <1>4, <2>1, <2>3
    <3> QED
      BY <1>7, <3>1, <3>2
  <2>5. Given(calls, Len(answers))
    <3>1. i = Len(Tree)
      <4>1. Len(Tree) \in Nat /\ Ids = 1 .. Len(Tree)
        BY <1>1, TreeFacts
      <4> QED
        BY <2>2, <4>1
    <3> QED
      BY <1>1, <1>12, <3>1, TurnsAre
  <2> QED
    BY <1>2, <1>11, <1>13, <2>4, <2>5
<1>14. CASE ~IsRoot
  <2>1. d # e
    BY <1>3, <1>12, <1>14 DEF IsRoot, Depth
  <2>2. /\ e + 1 \in 0 .. C /\ e + 1 <= d /\ Len(nodes) - 1 = d + 1 - (e + 1)
        /\ d + 1 - (e + 1) \in 0 .. Len(nodes) /\ d + 1 - (e + 1) = d - e
    <3>1. PICK h : h = Len(nodes)
      OBVIOUS
    <3>2. h = d + 1 - e /\ e \in Nat /\ e < C /\ e <= d
      BY <1>4, <1>12, <3>1
    <3>3. /\ e + 1 \in 0 .. C /\ e + 1 <= d /\ h - 1 = d + 1 - (e + 1)
          /\ d + 1 - (e + 1) \in 0 .. h /\ d + 1 - (e + 1) = d - e
      BY <2>1, <3>2
    <3> QED
      BY <3>1, <3>3
  <2>3. PICK n \in Nat : n = d + 1 - (e + 1)
    BY <2>2
  <2>4. nodes' = SubSeq(nodes, 1, n) /\ n \in 0 .. Len(nodes)
    BY <1>2, <2>2, <2>3 DEF Depth
  <2>5. /\ Len(nodes') = n /\ \A q \in 1 .. n : nodes'[q] = nodes[q]
    BY <1>1, <2>4, Beginning
  <2>6. Settled(nodes', i, n)
    <3>1. \A q \in 1 .. n : q \in 1 .. d + 1 - e
      BY <1>3, <1>4, <2>3
    <3> QED
      BY <1>12, <2>5, <3>1 DEF Settled
  <2>7. InChildren(i, e + 1, pointer', nodes', calls')
    BY <1>2, <1>3, <1>7, <1>11, <1>12, <2>2, <2>3, <2>5, <2>6 DEF InChildren
  <2> QED
    BY <1>2, <1>14, <2>7
<1> QED
  BY <1>13, <1>14

(* Finish: all answers have been given, and only a trailing NOP is         *)
(* refused.                                                                *)
LEMMA FinishOver ==
  ASSUME Expected, IInv, Finish, pointer = Start(First(Len(Tokens))),
         Given(calls, Len(answers))
  PROVE  /\ pc' = "done" /\ calls' = calls /\ Given(calls', Len(answers))
         /\ result' # "ok" => Trailing
<1>1. Document /\ Sound /\ Regular /\ InTokens
  BY DEF Expected, Document
<1>2. Len(Tokens) \in 1 .. Len(Tokens)
  <2>1. 1 \in Ids
    BY <1>1, TreeFacts DEF Regular
  <2>2. Place(1, 1) \in 1 .. Len(Tokens)
    <3>1. Len(Listing(1)) \in Nat /\ Closing(1) \in Nat
      BY <1>1, <2>1, NodeAt
    <3>2. 1 \in 1 .. 2 + Len(Listing(1)) + Closing(1)
      BY <3>1
    <3> QED
      BY <1>1, <2>1, <3>2, NodeAt
  <2>3. Len(Tokens) \in Nat
    BY <1>1, PlacesAre
  <2> QED
    BY <2>2, <2>3
<1>3. ~Trailing => Word(pointer) = FDT_END
  <2> SUFFICES ASSUME ~Trailing PROVE Word(pointer) = FDT_END
    OBVIOUS
  <2>1. PICK N : N = Len(Tokens)
    OBVIOUS
  <2>2. /\ Real(N) \in 1 .. Len(tokens) /\ tokens[Real(N)] = Tokens[N]
        /\ First(N) = Real(N)
    BY <1>1, <1>2, <2>1, RealIs
  <2>3. Tokens[N] = <<FDT_END>>
    BY <1>1, <2>1, PlacesAre
  <2>4. Word(Start(Real(N))) = tokens[Real(N)][1]
    BY <1>1, <2>2, TokenIs
  <2> QED
    BY <2>1, <2>2, <2>3, <2>4
<1> QED
  BY <1>3 DEF Finish, Return, Token

-----------------------------------------------------------------------------
(* The search.                                                             *)

(* The state of a search of a document in order.                           *)
Searching == Expected => Seeks(pc, pointer, nodes, remain, calls, broke, result)

(* A search that is over is where a search may be.                         *)
LEMMA EndsOver ==
  ASSUME NEW p, NEW ns, NEW rem, NEW cl, NEW b, NEW r, NEW n, Given(cl, n), Over(r, b, cl)
  PROVE  Seeks("done", p, ns, rem, cl, b, r)
  BY DEF Seeks, Reading

(* Every step of a search of a document in order leads to where a search   *)
(* may be.                                                                 *)
LEMMA SeeksOn ==
  ASSUME Expected, Follows, Seeks(pc, pointer, nodes, remain, calls, broke, result),
         [Next]_vars, IInv'
  PROVE  Seeks(pc', pointer', nodes', remain', calls', broke', result')
<1>1. /\ Document /\ Sound /\ Regular /\ answers = AllAnswers /\ IInv /\ result = result
      /\ Len(answers) \in Nat
  BY TurnsAre DEF Expected, Follows, Document
<1>2. PICK n : Given(calls, n)
  BY DEF Seeks
<1>3. CASE FindNode
  <2>1. nodes = <<>> /\ calls = <<>> /\ pc = "start" /\ 1 \in Ids
    BY <1>1, <1>3, RootFound DEF FindNode, Seeks
  <2>2. CASE BadQuery /\ pc' = "done" /\ result' = "err" /\ calls' = calls
    BY <1>2, <2>2, EndsOver DEF Over
  <2>3. CASE ~BadQuery /\ pc' = "props" /\ InProps(1, 0, pointer', nodes', calls')
    <3>1. Given(calls', Turn(1))
      BY <2>3 DEF InProps
    <3>2. \E i \in Ids : \E x : InProps(i, x, pointer', nodes', calls')
      BY <2>1, <2>3
    <3> QED
      BY <2>3, <3>1, <3>2 DEF Seeks
  <2> QED
    BY <1>1, <1>3, <2>1, <2>2, <2>3, FindNodeOn
<1>4. CASE Nop
  <2>1. /\ Word(pointer) = FDT_NOP /\ pointer' = pointer + 1 /\ pc \in {"props", "children"}
        /\ UNCHANGED <<pc, nodes, remain, calls, broke, result>>
    BY <1>4 DEF Nop, Token
  <2>2. CASE pc = "props"
    <3>at. PICK i \in Ids : \E x : InProps(i, x, pointer, nodes, calls)
      BY <2>2 DEF Seeks
    <3>1. PICK x : InProps(i, x, pointer, nodes, calls)
      BY <3>at
    <3>2. InProps(i, x, pointer', nodes', calls')
      BY <1>1, <2>1, <3>1, AtProp
    <3> QED
      BY <1>2, <2>1, <2>2, <3>2 DEF Seeks
  <2>3. CASE pc = "children"
    <3>at. PICK i \in Ids : \E e : InChildren(i, e, pointer, nodes, calls)
      BY <2>3 DEF Seeks
    <3>1. PICK e : InChildren(i, e, pointer, nodes, calls)
      BY <3>at
    <3>2. InChildren(i, e, pointer', nodes', calls')
      BY <1>1, <2>1, <3>1, AtClose
    <3> QED
      BY <1>2, <2>1, <2>3, <3>2 DEF Seeks
  <2> QED
    BY <2>1, <2>2, <2>3
<1>5. CASE Prop
  <2>1. pc = "props" /\ ~BadQuery /\ calls' = calls
    BY <1>5 DEF Prop, Seeks, Reading
  <2>at. PICK i \in Ids : \E x : InProps(i, x, pointer, nodes, calls)
    BY <2>1 DEF Seeks
  <2>2. PICK x : InProps(i, x, pointer, nodes, calls)
    BY <2>at
  <2>3. CASE InProps(i, x + 1, pointer', nodes', calls') /\ pc' = pc
    BY <1>2, <2>1, <2>3 DEF Seeks
  <2>4. CASE pc' = "done" /\ result' = "err" /\ Senseless(i)
    <3>1. Given(calls, Turn(i))
      BY <2>2 DEF InProps
    <3>2. Stuck(calls')
      BY <1>1, <2>1, <2>4, <3>1, SenselessStuck
    <3> QED
      BY <1>2, <2>1, <2>4, <3>2, EndsOver DEF Over
  <2> QED
    BY <1>1, <1>5, <2>2, <2>3, <2>4, PropOn
<1>6. CASE PropsEnd
  <2>1. pc = "props" /\ ~BadQuery /\ calls' = calls
    BY <1>6 DEF PropsEnd, Seeks, Reading
  <2>at. PICK i \in Ids : \E x : InProps(i, x, pointer, nodes, calls)
    BY <2>1 DEF Seeks
  <2>2. PICK x : InProps(i, x, pointer, nodes, calls)
    BY <2>at
  <2>3. CASE InDeliver(i, 0, pointer', nodes', remain', calls') /\ pc' = "deliver"
    BY <1>2, <2>1, <2>3 DEF Seeks
  <2>4. CASE InChildren(i, 0, pointer', nodes', calls') /\ pc' = "children"
    BY <1>2, <2>1, <2>4 DEF Seeks
  <2> QED
    BY <1>1, <1>6, <2>1, <2>2, <2>3, <2>4, PropsEndOn
<1>7. CASE DeliverFails
  <2>1. pc = "deliver"
    BY <1>7 DEF DeliverFails
  <2>at. PICK i \in Ids : \E j : InDeliver(i, j, pointer, nodes, remain, calls)
    BY <2>1 DEF Seeks
  <2>2. PICK j : InDeliver(i, j, pointer, nodes, remain, calls)
    BY <2>at
  <2>3. pc' = "done" /\ calls' = calls /\ result' # "ok" /\ Stuck(calls)
    BY <1>1, <1>7, <2>2, FailsOver
  <2> QED
    BY <1>2, <2>3, EndsOver DEF Over
<1>8. CASE Deliver
  <2>1. pc = "deliver" /\ ~BadQuery
    BY <1>8 DEF Deliver, Seeks, Reading
  <2>at. PICK i \in Ids : \E j : InDeliver(i, j, pointer, nodes, remain, calls)
    BY <2>1 DEF Seeks
  <2>2. PICK j : InDeliver(i, j, pointer, nodes, remain, calls)
    BY <2>at
  <2>3. Word(pointer) \in {FDT_BEGIN_NODE, FDT_END_NODE}
    BY <2>1 DEF Follows, Walks
  <2>4. /\ InDeliver(i, j + 1, pointer', nodes', remain', calls')
        /\ \/ pc' = pc
           \/ pc' = "done" /\ result' = "err" /\ broke' = TRUE
    BY <1>1, <1>8, <2>2, <2>3, DeliverOn
  <2>5. PICK k : Given(calls', k)
    BY <2>4 DEF InDeliver
  <2>6. CASE pc' = pc
    BY <2>1, <2>4, <2>5, <2>6 DEF Seeks
  <2>7. CASE pc' = "done" /\ result' = "err" /\ broke' = TRUE
    BY <2>5, <2>7, EndsOver DEF Over
  <2> QED
    BY <2>4, <2>6, <2>7
<1>9. CASE DeliverEnd
  <2>1. pc = "deliver" /\ pc' = "children" /\ calls' = calls /\ ~BadQuery
    BY <1>9 DEF DeliverEnd, Seeks, Reading
  <2>at. PICK i \in Ids : \E j : InDeliver(i, j, pointer, nodes, remain, calls)
    BY <2>1 DEF Seeks
  <2>2. PICK j : InDeliver(i, j, pointer, nodes, remain, calls)
    BY <2>at
  <2>3. InChildren(i, 0, pointer', nodes', calls')
    BY <1>1, <1>9, <2>2, DeliverEndOn
  <2> QED
    BY <1>2, <2>1, <2>3 DEF Seeks
<1>10. CASE Child
  <2>1. pc = "children" /\ pc' = "props" /\ calls' = calls /\ ~BadQuery
    BY <1>10 DEF Child, Enter, Seeks, Reading
  <2>at. PICK i \in Ids : \E e : InChildren(i, e, pointer, nodes, calls)
    BY <2>1 DEF Seeks
  <2>2. PICK e : InChildren(i, e, pointer, nodes, calls)
    BY <2>at
  <2>3. i + 1 \in Ids /\ InProps(i + 1, 0, pointer', nodes', calls')
    BY <1>1, <1>10, <2>2, ChildOn
  <2> QED
    BY <1>2, <2>1, <2>3 DEF Seeks
<1>11. CASE EndNode
  <2>1. pc = "children" /\ calls' = calls /\ ~BadQuery
    BY <1>11 DEF EndNode, Seeks, Reading
  <2>at. PICK i \in Ids : \E e : InChildren(i, e, pointer, nodes, calls)
    BY <2>1 DEF Seeks
  <2>2. PICK e : InChildren(i, e, pointer, nodes, calls)
    BY <2>at
  <2>3. CASE pc' = "children" /\ InChildren(i, e + 1, pointer', nodes', calls')
    BY <1>2, <2>1, <2>3 DEF Seeks
  <2>4. CASE /\ pc' = "end" /\ pointer' = Start(First(Len(Tokens)))
             /\ Given(calls', Len(answers))
    BY <1>2, <2>1, <2>4 DEF Seeks
  <2> QED
    BY <1>1, <1>11, <2>2, <2>3, <2>4, EndNodeOn
<1>12. CASE BadToken
  <2>1. CASE pc = "props"
    <3>at. PICK i \in Ids : \E x : InProps(i, x, pointer, nodes, calls)
      BY <2>1 DEF Seeks
    <3>1. PICK x : InProps(i, x, pointer, nodes, calls)
      BY <3>at
    <3>2. Word(pointer) \in {FDT_NOP, FDT_PROP, FDT_BEGIN_NODE, FDT_END_NODE}
      BY <1>1, <3>1, AtProp
    <3> QED
      BY <1>12, <2>1, <3>2 DEF BadToken, Token
  <2>2. CASE pc = "children"
    <3>at. PICK i \in Ids : \E e : InChildren(i, e, pointer, nodes, calls)
      BY <2>2 DEF Seeks
    <3>1. PICK e : InChildren(i, e, pointer, nodes, calls)
      BY <3>at
    <3>2. Word(pointer) \in {FDT_NOP, FDT_BEGIN_NODE, FDT_END_NODE}
      BY <1>1, <3>1, AtClose
    <3> QED
      BY <1>12, <2>2, <3>2 DEF BadToken, Token
  <2> QED
    BY <1>12, <2>1, <2>2 DEF BadToken
<1>13. CASE Finish
  <2>1. pointer = Start(First(Len(Tokens))) /\ Given(calls, Len(answers))
    BY <1>13 DEF Finish, Seeks
  <2>2. /\ pc' = "done" /\ calls' = calls /\ Given(calls', Len(answers))
        /\ result' # "ok" => Trailing
    BY <1>1, <1>13, <2>1, FinishOver
  <2> QED
    BY <2>2, EndsOver DEF Over
<1>14. CASE UNCHANGED vars
  BY <1>14 DEF vars
<1> QED
  BY <1>3, <1>4, <1>5, <1>6, <1>7, <1>8, <1>9, <1>10, <1>11, <1>12, <1>13, <1>14 DEF Next

-----------------------------------------------------------------------------
(* The document, the tree, the query and the answers do not change.        *)

Rigid == UNCHANGED <<doc, tokens, answers, blob, query>>

(* What is said of a node read depends on them alone ...                   *)
LEMMA SameFull ==
  ASSUME Rigid, NEW i, NEW k
  PROVE  Full(nodes[k], OnLine(i, k))' = Full(nodes'[k], OnLine(i, k))
<1>1. OnLine(i, k)' = OnLine(i, k)
  BY DEF Rigid, OnLine, Line, Ancestors, Tree
<1>2. PICK j : j = OnLine(i, k)
  OBVIOUS
<1>3. AllOf(j)' = AllOf(j) /\ Tree' = Tree /\ Cells(j)' = Cells(j) /\ query' = query
  BY DEF Rigid, AllOf, Has, Tree, Cells
<1>4. ASSUME NEW w PROVE Words(j, w)' = Words(j, w) /\ Bytes(j, w)' = Bytes(j, w)
  BY DEF Rigid, Bytes, Words, RegCells, RangesWords, RegWords, RegLen, InCells,
     Above, ParentOf,
     Ancestors, Cells, Tree
<1>5. ASSUME NEW q, NEW ws PROVE Holds(q, ws)' = Holds(q, ws)
  BY DEF Rigid, Holds, Word
<1> QED
  BY <1>1, <1>2, <1>3, <1>4, <1>5 DEF Full, Noted

(* ... and so does what has been noted, ...                                *)
LEMMA SameNoted ==
  ASSUME Rigid, NEW i, NEW x
  PROVE  /\ Noted(nodes[Len(nodes)], i, Named(i, x))' = Noted(nodes'[Len(nodes')], i, Named(i, x))
         /\ Listing(i)' = Listing(i)
         /\ Named(i, x)' = Named(i, x)
         /\ Senseless(i)' = Senseless(i) /\ Wanted(i)' = Wanted(i)
<1>1. Listing(i)' = Listing(i)
  BY DEF Rigid, Listing, Properties, PropertyIf, Property, RegProperty,
     RangesProperty, RegWords,
         InCells, Above, Cells, ParentOf, Ancestors, Tree
<1>2. Named(i, x)' = Named(i, x)
  BY <1>1 DEF Named
<1>3. Senseless(i)' = Senseless(i) /\ Wanted(i)' = Wanted(i)
  BY DEF Rigid, Senseless, Wanted, Tree
<1>4. Noted(nodes[Len(nodes)], i, Named(i, x))' = Noted(nodes'[Len(nodes')], i, Named(i, x))
  BY <1>2 DEF Rigid, Noted, Tree, Has, Cells, Bytes, Words, RegCells,
     RangesWords, RegWords, RegLen, InCells, Above, ParentOf, Ancestors, Holds, Word
<1> QED
  BY <1>1, <1>2, <1>3, <1>4

(* ... the tokens, ...                                                     *)
LEMMA SameTokens ==
  ASSUME Rigid
  PROVE  Tokens' = Tokens /\ Parts' = Parts /\ Tree' = Tree /\ Ids' = Ids
<1>1. Tokens' = Tokens
  BY DEF Rigid, Tokens, NodeTokens, Closing, Properties, PropertyIf, Property,
     RegProperty, RangesProperty, RegWords, InCells, Above, Cells, ParentOf,
     Ancestors, Tree, Ids
<1>2. Parts' = Parts
  BY DEF Rigid, Parts, NodeTokens, Closing, Properties, PropertyIf, Property,
     RegProperty, RangesProperty, RegWords, InCells, Above, Cells, ParentOf,
     Ancestors, Tree, Ids
<1> QED
  BY <1>1, <1>2 DEF Rigid, Tree, Ids

(* ... the turn of a node, ...                                             *)
LEMMA SameTurn ==
  ASSUME Rigid, NEW i
  PROVE  Turn(i)' = Turn(i) /\ Turn(i + 1)' = Turn(i + 1)
         /\ Closing(i)' = Closing(i) /\ Left(i, 0)' = Left(i, 0)
  BY DEF Rigid, Turn, Turns, Before, AnswersAt, Reaches, Bridges, Ancestors,
     Shifted, MapThenSumSet, MapThenFoldSet, Offset, Tree, Ids, Senseless, Wanted,
     Cells, ParentOf, Closing, Left, RegLen, RegWords, EntryCells, InCells, Above

(* ... the answers, ...                                                    *)
LEMMA SameAnswers ==
  ASSUME Rigid
  PROVE AllAnswers' = AllAnswers
  BY DEF Rigid, AllAnswers, AnswersAt, Reaches, Bridges, Ancestors, Shifted,
     MapThenSumSet, MapThenFoldSet, Offset, Tree, Ids, Senseless, Wanted, Cells,
     ParentOf

(* ... the places of the tokens, ...                                       *)
LEMMA SamePlace ==
  ASSUME Rigid, NEW i, NEW x
  PROVE  /\ AtPlace(pointer, Place(i, 2 + x))' = AtPlace(pointer', Place(i, 2 + x))
         /\ AtPlace(pointer, Place(i, 2 + Len(Listing(i)) + x))'
            = AtPlace(pointer', Place(i, 2 + Len(Listing(i)) + x))
         /\ Start(Real(Place(i, 2 + Len(Listing(i)))))' = Start(Real(Place(i, 2 + Len(Listing(i)))))
         /\ Start(First(Len(Tokens)))' = Start(First(Len(Tokens)))
<1>1. Tokens' = Tokens /\ Parts' = Parts /\ Listing(i)' = Listing(i)
  BY SameTokens, SameNoted
<1> QED
  BY <1>1 DEF Rigid, AtPlace, Place, Before, Start, First, Real, At

(* ... the answers handed out, ...                                         *)
LEMMA SameGiven ==
  ASSUME Rigid, NEW i, NEW j
  PROVE  /\ Given(calls, Turn(i))' = Given(calls', Turn(i))
         /\ Given(calls, Turn(i + 1))' = Given(calls', Turn(i + 1))
         /\ Given(calls, Turn(i) + j)' = Given(calls', Turn(i) + j)
         /\ Given(calls, j)' = Given(calls', j)
         /\ Given(calls, Len(answers))' = Given(calls', Len(answers))
         /\ Stuck(calls)' = Stuck(calls')
<1>1. Turn(i)' = Turn(i) /\ Turn(i + 1)' = Turn(i + 1)
  BY SameTurn
<1> QED
  BY <1>1 DEF Rigid, Given, Stuck, Nothing

(* ... and each of the places a search may be at.                          *)
LEMMA SameProps ==
  ASSUME Rigid, NEW i, NEW x
  PROVE  InProps(i, x, pointer, nodes, calls)' = InProps(i, x, pointer', nodes', calls')
<1>1. Settled(nodes, i, Tree[i].depth)' = Settled(nodes', i, Tree[i].depth)
  BY SameFull, SameTokens DEF Settled
<1>2. AtPlace(pointer, Place(i, 2 + x))' = AtPlace(pointer', Place(i, 2 + x))
  BY SamePlace
<1>3. /\ Noted(nodes[Len(nodes)], i, Named(i, x))' = Noted(nodes'[Len(nodes')], i, Named(i, x))
      /\ Listing(i)' = Listing(i) /\ Named(i, x)' = Named(i, x) /\ Senseless(i)' = Senseless(i)
  BY SameNoted
<1>4. Given(calls, Turn(i))' = Given(calls', Turn(i))
  BY SameGiven
<1>5. Tree' = Tree
  BY SameTokens
<1> QED
  BY <1>1, <1>2, <1>3, <1>4, <1>5 DEF InProps

(* The same while addresses are handed out ...                             *)
LEMMA SameDeliver ==
  ASSUME Rigid, NEW i, NEW j
  PROVE  InDeliver(i, j, pointer, nodes, remain, calls)' = InDeliver(i, j, pointer', nodes', remain', calls')
<1>1. Settled(nodes, i, Tree[i].depth + 1)' = Settled(nodes', i, Tree[i].depth + 1)
  BY SameFull, SameTokens DEF Settled
<1>2. Left(i, j)' = Left(i, j)
  BY DEF Rigid, Left, RegLen, RegWords, EntryCells, InCells, Above, Cells, ParentOf,
     Ancestors, Tree
<1> QED
  BY <1>1, <1>2, SamePlace, SameGiven, SameNoted, SameTokens DEF InDeliver

(* ... and between nodes.                                                  *)
LEMMA SameChildren ==
  ASSUME Rigid, NEW i, NEW e
  PROVE  InChildren(i, e, pointer, nodes, calls)' = InChildren(i, e, pointer', nodes', calls')
<1>1. Settled(nodes, i, Tree[i].depth + 1 - e)' = Settled(nodes', i, Tree[i].depth + 1 - e)
  BY SameFull, SameTokens DEF Settled
<1>2. AtPlace(pointer, Place(i, 2 + Len(Listing(i)) + e))'
      = AtPlace(pointer', Place(i, 2 + Len(Listing(i)) + e))
  BY SamePlace
<1>3. Given(calls, Turn(i + 1))' = Given(calls', Turn(i + 1))
  BY SameGiven
<1>4. Tree' = Tree /\ Closing(i)' = Closing(i)
  BY SameTokens, SameTurn
<1> QED
  BY <1>1, <1>2, <1>3, <1>4 DEF InChildren

(* So what holds of the next state of a search, in terms of this           *)
(* document, holds in terms of the next one.                               *)
LEMMA SameSeeks ==
  ASSUME Rigid, Seeks(pc', pointer', nodes', remain', calls', broke', result')
  PROVE  Seeks(pc, pointer, nodes, remain, calls, broke, result)'
<1>1. (\E n : Given(calls, n))'
  <2>1. PICK n : Given(calls', n)
    BY DEF Seeks
  <2>2. Given(calls, n)'
    BY <2>1, SameGiven
  <2> QED
    BY <2>2
<1>2. (pc \in Reading => ~BadQuery)'
  BY DEF Seeks, Reading, Rigid, BadQuery, None
<1>3. (pc = "start" => calls = <<>> /\ nodes = <<>>)'
  BY DEF Seeks
<1>4. (pc = "props" => \E i \in Ids : \E x : InProps(i, x, pointer, nodes, calls))'
  <2> SUFFICES ASSUME pc' = "props"
               PROVE  \E i \in Ids' : \E x : InProps(i, x, pointer, nodes, calls)'
    OBVIOUS
  <2>at. PICK i \in Ids : \E x : InProps(i, x, pointer', nodes', calls')
    BY DEF Seeks
  <2>1. PICK x : InProps(i, x, pointer', nodes', calls')
    BY <2>at
  <2>2. InProps(i, x, pointer, nodes, calls)'
    BY <2>1, SameProps
  <2> QED
    BY <2>2, SameTokens
<1>5. (pc = "deliver" => \E i \in Ids : \E j : InDeliver(i, j, pointer, nodes, remain, calls))'
  <2> SUFFICES ASSUME pc' = "deliver"
               PROVE  \E i \in Ids' : \E j : InDeliver(i, j, pointer, nodes, remain, calls)'
    OBVIOUS
  <2>at. PICK i \in Ids : \E j : InDeliver(i, j, pointer', nodes', remain', calls')
    BY DEF Seeks
  <2>1. PICK j : InDeliver(i, j, pointer', nodes', remain', calls')
    BY <2>at
  <2>2. InDeliver(i, j, pointer, nodes, remain, calls)'
    BY <2>1, SameDeliver
  <2> QED
    BY <2>2, SameTokens
<1>6. (pc = "children" => \E i \in Ids : \E e : InChildren(i, e, pointer, nodes, calls))'
  <2> SUFFICES ASSUME pc' = "children"
               PROVE  \E i \in Ids' : \E e : InChildren(i, e, pointer, nodes, calls)'
    OBVIOUS
  <2>at. PICK i \in Ids : \E e : InChildren(i, e, pointer', nodes', calls')
    BY DEF Seeks
  <2>1. PICK e : InChildren(i, e, pointer', nodes', calls')
    BY <2>at
  <2>2. InChildren(i, e, pointer, nodes, calls)'
    BY <2>1, SameChildren
  <2> QED
    BY <2>2, SameTokens
<1>7. (pc = "end" => pointer = Start(First(Len(Tokens))) /\ Given(calls, Len(answers)))'
  <2>1. /\ Start(First(Len(Tokens)))' = Start(First(Len(Tokens)))
        /\ Given(calls, Len(answers))' = Given(calls', Len(answers))
    BY SamePlace, SameGiven
  <2> QED
    BY <2>1 DEF Seeks
<1>8. (pc = "done" => Over(result, broke, calls))'
  <2>1. /\ Given(calls, Len(answers))' = Given(calls', Len(answers))
        /\ Stuck(calls)' = Stuck(calls')
        /\ BadQuery' = BadQuery /\ Trailing' = Trailing
    BY SameGiven DEF Rigid, BadQuery, Trailing, None
  <2> QED
    BY <2>1 DEF Seeks, Over
<1> QED
  BY <1>1, <1>2, <1>3, <1>4, <1>5, <1>6, <1>7, <1>8 DEF Seeks

-----------------------------------------------------------------------------
(* The theorems.                                                           *)
Finds == Follows /\ answers = AllAnswers /\ Searching

(* It holds at first ...                                                   *)
LEMMA DocInitFinds == DocInit => Finds
<1> SUFFICES ASSUME DocInit PROVE Finds
  OBVIOUS
<1>1. Follows /\ answers = AllAnswers /\ Init
  BY DocInitFollows DEF DocInit
<1>2. ASSUME Expected PROVE Seeks(pc, pointer, nodes, remain, calls, broke, result)
  <2>1. pc = "start" /\ calls = <<>> /\ nodes = <<>>
    BY <1>1 DEF Init
  <2>2. Given(calls, 0)
    <3>1. Len(answers) \in Nat
      BY <1>1, TurnsAre DEF Follows, Document
    <3> QED
      BY <2>1, <3>1 DEF Given
  <2> QED
    BY <2>1, <2>2 DEF Seeks, Reading
<1> QED
  BY <1>1, <1>2 DEF Finds, Searching

(* ... and after every step.                                               *)
LEMMA StepFinds ==
  Finds /\ [DocNext]_<<vars, docVars>> => Finds'
<1> SUFFICES ASSUME Finds, [DocNext]_<<vars, docVars>> PROVE Finds'
  OBVIOUS
<1>1. [Next]_vars /\ UNCHANGED <<doc, tokens, answers>>
  BY DEF DocNext, Ended, docVars
<1>2. Rigid
  BY <1>1 DEF Next, FindNode, Nop, Prop, PropsEnd, DeliverFails, Deliver, DeliverEnd,
              Child, EndNode, BadToken, Finish, vars, Rigid
<1>3. Follows'
  BY StepFollows DEF Finds
<1>4. (answers = AllAnswers)'
  BY <1>2, SameAnswers DEF Finds, Rigid
<1>5. Searching'
  <2> SUFFICES ASSUME Expected'
               PROVE  Seeks(pc, pointer, nodes, remain, calls, broke, result)'
    BY DEF Searching
  <2>1. Expected
    <3>1. Sound' = Sound
      BY <1>2 DEF Rigid, Sound
    <3>2. Sound
      BY <3>1 DEF Expected
    <3> QED
      BY <3>2 DEF Expected, Finds, Follows
  <2>2. Seeks(pc', pointer', nodes', remain', calls', broke', result')
    BY <1>1, <1>3, <2>1, SeeksOn DEF Finds, Searching, Follows
  <2> QED
    BY <1>2, <2>2, SameSeeks
<1> QED
  BY <1>3, <1>4, <1>5 DEF Finds

(* ... and says what the properties say.                                   *)
LEMMA Found ==
  ASSUME Finds
  PROVE  NeverWrong /\ OkIsComplete /\ RefusalHasCause
<1>1. answers \in Seq(Outcomes) /\ Len(answers) \in Nat /\ calls \in Seq(Nat \X Nat)
  BY TurnsAre DEF Finds, Follows, Document, IInv, TypeOK
<1>2. Sound => Seeks(pc, pointer, nodes, remain, calls, broke, result)
  BY DEF Finds, Follows, Searching, Expected
<1>3. result = "ok" => Sound
  BY DEF Finds, Follows, Walks
<1>4. result # "none" => pc = "done"
  BY DEF Finds, Follows
<1>5. \A n : Given(calls, n) => IsPrefix(calls, Answers)
  BY <1>1, GivenIs
<1>6. Given(calls, Len(answers)) => calls = Answers /\ Complete
  BY <1>1, GivenIs
<1>7. Stuck(calls) => calls = Answers /\ ~Complete
  <2> SUFFICES ASSUME Stuck(calls) PROVE calls = Answers /\ ~Complete
    OBVIOUS
  <2>1. PICK n \in Nat : n < Len(answers) /\ Given(calls, n) /\ answers[n + 1] = Nothing
    BY DEF Stuck
  <2> QED
    BY <1>1, <2>1, GivenIs
<1>8. NeverWrong
  BY <1>2, <1>5 DEF NeverWrong, Seeks
<1>9. OkIsComplete
  BY <1>2, <1>3, <1>4, <1>6 DEF OkIsComplete, Seeks, Over
<1>10. RefusalHasCause
  BY <1>2, <1>4, <1>6, <1>7 DEF RefusalHasCause, Seeks, Over
<1> QED
  BY <1>8, <1>9, <1>10

(* Whatever the tree, in a document that is in order f is never called     *)
(* with an address that is not the next one the tree calls for:            *)
(* NeverWrong.  So neither a NOP, nor the order of properties, nor the     *)
(* cells and ranges of nodes read before make the search deliver an        *)
(* address of another node, or one translated by the wrong windows.        *)
THEOREM NothingWrong == DocSpec => []NeverWrong
  BY Found, DocInitFinds, StepFinds, PTL DEF DocSpec

(* A search of a document that returns Ok has delivered all addresses the  *)
(* tree calls for, and the document was in order: OkIsComplete.            *)
THEOREM OkWasComplete == DocSpec => []OkIsComplete
  BY Found, DocInitFinds, StepFinds, PTL DEF DocSpec

(* In a document that is in order, the search fails only for one of the    *)
(* causes listed in RefusalHasCause: a query that cannot be made, f        *)
(* breaking off, an answer the tree does not have, or a trailing NOP.      *)
THEOREM RefusedForCause == DocSpec => []RefusalHasCause
  BY Found, DocInitFinds, StepFinds, PTL DEF DocSpec
=============================================================================
