----------------------------- MODULE DtbDocument -----------------------------
(***************************************************************************)
(* Documents for DtbParser and what a search of them should find.  A       *)
(* document is a device tree, written out as dtc writes it, then perhaps   *)
(* edited at one place; the answer expected of find_node is defined on the *)
(* tree, in closed form and with no pointer, stack or byte in it.          *)
(***************************************************************************)
EXTENDS DtbParser, SequencesExt, FiniteSetsExt

CONSTANT
  Searches  \* a sequence of [docs, queries]: sets of [tree, backwards, edit]
            \* and of find_node's arguments, each with each

VARIABLES doc,     \* the document and its edit
          tokens,  \* what is in the structure block
          answers  \* what the search should yield; all three never change

(* A node of a tree, its nodes in document order:                          *)
(*   depth                0 for the root                                   *)
(*   cells                <<>> or <<#address-cells, #size-cells>>          *)
(*   regs                 the <<address, size>> pairs of reg               *)
(*   cut                  bytes its last pair lacks                        *)
(*   ranges               <<>> or <<child address, parent address, size>>  *)
(*   compatible, type     its compatible strings and its device_type       *)
Tree == doc.tree
Ids  == DOMAIN Tree

Cells(i) == IF Tree[i].cells = <<>> THEN <<2, 1>> ELSE Tree[i].cells

Ancestors(i) == {j \in 1 .. i - 1 :
                   \A k \in j + 1 .. i : Tree[k].depth > Tree[j].depth}
ParentOf(i)  == Max(Ancestors(i))

TreeNode == [depth : Nat, cells : {<<>>} \cup (Nat \X Nat),
             regs : Seq(Nat \X Nat), cut : Nat,
             ranges : {<<>>} \cup (Nat \X Nat \X Nat),
             compatible : Seq(Nat), type : Nat]

IsTree == /\ Tree \in Seq(TreeNode) /\ Tree # <<>>
          /\ \A i \in Ids : Tree[i].depth \in
                IF i = 1 THEN {0} ELSE 1 .. Tree[i - 1].depth + 1

-----------------------------------------------------------------------------
(* Writing a tree out: tokens with what belongs to them, then the words.   *)

(* x without its k lowest cells, and x in k cells.                         *)
Above(x, k) ==
  LET above[j \in 0 .. k] == IF j = 0 THEN x ELSE above[j - 1] \div CELL
  IN  above[k]

InCells(x, k) == [i \in 1 .. k |-> Above(x, k - i) % CELL]
FitsIn(x, k)  == Above(x, k) = 0

(* What a node can be: its numbers fit the cells they are written in, a    *)
(* window is the CPU's on one side and a bus's on the other, whole, and    *)
(* only a node without reg has one.                                        *)
IsWritable(i) ==
  LET own == Cells(i)
      bus == Cells(ParentOf(i))
      r   == Tree[i].ranges
  IN  /\ r # <<>> =>
           /\ i # 1 /\ Tree[i].regs = <<>>
           /\ FitsIn(r[1], own[1]) /\ FitsIn(r[2], bus[1]) /\ FitsIn(r[3], own[2])
           /\ r[1] + r[3] < USIZE /\ r[2] + r[3] < USIZE
      /\ i # 1 /\ Tree[i].regs # <<>> =>
           /\ Tree[i].cut % U32 = 0 /\ Tree[i].cut < U32 * (bus[1] + bus[2])
           /\ \A k \in DOMAIN Tree[i].regs : /\ FitsIn(Tree[i].regs[k][1], bus[1])
                                             /\ FitsIn(Tree[i].regs[k][2], bus[2])

Property(name, bytes, words) ==
  << <<FDT_PROP, bytes, CHOOSE w \in 1 .. 7 : Name(w) = name>> \o words >>

PropertyIf(cond, name, words) ==
  IF cond THEN Property(name, U32 * Len(words), words) ELSE <<>>

RegWords(i) ==
  LET c == Cells(ParentOf(i))
  IN  FlattenSeq([k \in DOMAIN Tree[i].regs |->
                    InCells(Tree[i].regs[k][1], c[1]) \o
                    InCells(Tree[i].regs[k][2], c[2])])

RegProperty(i) ==
  IF Tree[i].regs = <<>> THEN <<>>
  ELSE IF i = 1 THEN Property("reg", U32, <<0>>)
  ELSE LET w == RegWords(i)
           n == Len(w) - Tree[i].cut \div U32
       IN  Property("reg", U32 * n, SubSeq(w, 1, n))

RangesProperty(i) ==
  IF Tree[i].ranges = <<>> THEN <<>>
  ELSE PropertyIf(TRUE, "ranges",
                  InCells(Tree[i].ranges[1], Cells(i)[1]) \o
                  InCells(Tree[i].ranges[2], Cells(ParentOf(i))[1]) \o
                  InCells(Tree[i].ranges[3], Cells(i)[2]))

(* The root has a property of five bytes besides, which are padded.        *)
Properties(i) ==
  (IF i = 1 THEN Property("another", 5, <<1, 0>>) ELSE <<>>) \o
  PropertyIf(Tree[i].compatible # <<>>, "compatible", Tree[i].compatible) \o
  PropertyIf(Tree[i].type # None, "device_type", <<Tree[i].type>>) \o
  PropertyIf(Tree[i].cells # <<>>, "#address-cells", <<Cells(i)[1]>>) \o
  PropertyIf(Tree[i].cells # <<>>, "#size-cells", <<Cells(i)[2]>>) \o
  RegProperty(i) \o RangesProperty(i)

Closing(i) == Tree[i].depth + 1
              - (IF i + 1 \in Ids THEN Tree[i + 1].depth ELSE 0)

NodeTokens(i) ==
  << <<FDT_BEGIN_NODE, 0>> >> \o
  (IF doc.backwards THEN Reverse(Properties(i)) ELSE Properties(i)) \o
  [k \in 1 .. Closing(i) |-> <<FDT_END_NODE>>]

Tokens == LET upTo[i \in 0 .. Len(Tree)] ==
                IF i = 0 THEN <<>> ELSE upTo[i - 1] \o NodeTokens(i)
          IN  upTo[Len(Tree)] \o << <<FDT_END>> >>

(* The edits: a NOP before a token ("trail": between the root's end and    *)
(* FDT_END, where find_node looks for FDT_END itself); a property after a  *)
(* subnode; a FDT_BEGIN_NODE or FDT_END_NODE lost.                         *)
At == doc.edit.at

EditFits(ts) ==
  /\ At \in DOMAIN ts
  /\ \/ doc.edit.kind = "none"
     \/ doc.edit.kind = "nop"   /\ At < Len(ts)
     \/ doc.edit.kind = "trail" /\ At = Len(ts)
     \/ doc.edit.kind = "late"  /\ At > 1 /\ ts[At - 1] = <<FDT_END_NODE>>
     \/ /\ doc.edit.kind = "drop"
        /\ ts[At][1] \in {FDT_BEGIN_NODE, FDT_END_NODE}

Edited(ts) ==
  CASE doc.edit.kind = "none" -> ts
    [] doc.edit.kind \in {"nop", "trail"} -> InsertAt(ts, At, <<FDT_NOP>>)
    [] doc.edit.kind = "late" -> InsertAt(ts, At, <<FDT_PROP, 0, 7>>)
    [] doc.edit.kind = "drop" -> RemoveAt(ts, At)

-----------------------------------------------------------------------------
(* What a search should find.  An address of a node is an address of the   *)
(* CPU shifted by the ranges of all its ancestors, and exists only if each *)
(* window on the way contains it.  A node without ranges shares the bus    *)
(* above it.                                                               *)
Bridges(i) == {j \in Ancestors(i) : Tree[j].ranges # <<>>}

Offset(j)     == Tree[j].ranges[2] - Tree[j].ranges[1]
Shifted(a, S) == a + MapThenSumSet(Offset, S)

Reaches(i, a, size) ==
  \A j \in Bridges(i) :
    LET onBus == Shifted(a, {k \in Bridges(i) : k > j})
    IN  /\ Tree[j].ranges[1] <= onBus
        /\ onBus + size <= Tree[j].ranges[1] + Tree[j].ranges[3]

Wanted(i) ==
  IF query.compatible_name # None
    THEN query.compatible_name \in ToSet(Tree[i].compatible)
    ELSE Tree[i].type = query.device_name

(* A reg no reader can make sense of: on the root, or too short.           *)
Senseless(i) ==
  /\ Tree[i].regs # <<>>
  /\ \/ i = 1
     \/ Len(Tree[i].regs) = 1 /\ Tree[i].cut > 0

(* The answers one node contributes; Nothing stands for one that does not  *)
(* exist and ends the search.                                              *)
Nothing == <<>>

AnswersAt(i) ==
  IF Senseless(i) \/ (Wanted(i) /\ Tree[i].regs = <<>>) THEN << Nothing >>
  ELSE IF ~Wanted(i) THEN <<>>
  ELSE [k \in DOMAIN Tree[i].regs |->
          LET a    == Tree[i].regs[k][1]
              size == Tree[i].regs[k][2]
          IN  IF /\ Reaches(i, a, size)
                 /\ Tree[i].cut > 0 => k < Len(Tree[i].regs)
                 /\ Cells(ParentOf(i))[1] <= 2 /\ Cells(ParentOf(i))[2] <= 2
                THEN <<Shifted(a, Bridges(i)), size>>
                ELSE Nothing]

AllAnswers == FlattenSeq([i \in Ids |-> AnswersAt(i)])
Complete   == \A k \in DOMAIN answers : answers[k] # Nothing
Answers    == SubSeq(answers, 1,
                SelectInSeq(Append(answers, Nothing), LAMBDA x : x = Nothing) - 1)

Sound    == doc.edit.kind \in {"none", "nop", "trail"}
Trailing == doc.edit.kind = "trail"

-----------------------------------------------------------------------------
DocInit == \E i \in DOMAIN Searches :
  /\ doc \in Searches[i].docs
  /\ IsTree /\ \A n \in Ids : IsWritable(n)
  /\ tokens \in {Edited(ts) : ts \in {t \in {Tokens} : EditFits(t)}}
  /\ blob = FlattenSeq(tokens)
  /\ query \in Searches[i].queries
  /\ answers = AllAnswers
  /\ Init

docVars == <<doc, tokens, answers>>

Ended   == pc = "done" /\ UNCHANGED <<vars, docVars>>
DocNext == \/ Next /\ UNCHANGED docVars
           \/ Ended

DocSpec     == DocInit /\ [][DocNext]_<<vars, docVars>>
DocLiveSpec == DocSpec /\ WF_vars(Next)

-----------------------------------------------------------------------------
(* f never gets an address that is not the CPU address of a register block *)
(* of a matching node, never one out of turn, twice or after a gap.        *)
NeverWrong == Sound => IsPrefix(calls, Answers)

(* Ok(()) means that all of them have been handed to f, and that the       *)
(* document's tokens were in order to the end.                             *)
OkIsComplete == result = "ok" => Sound /\ Complete /\ calls = Answers

(* Err, or a panic, has a cause: the query, a Break of f, a document out   *)
(* of order, a NOP where find_node takes none, or an address that does not *)
(* exist; and in the last two everything (before that address) has been    *)
(* handed out.                                                             *)
RefusalHasCause ==
  result \in {"err", "panic"} =>
    BadQuery \/ broke \/ ~Sound \/ (calls = Answers /\ (~Complete \/ Trailing))

(* Between steps the pointer is at the start of a token, and exactly the   *)
(* nodes begun and not ended before it are on the stack, whatever the      *)
(* lengths and paddings it was moved by.                                   *)
Balance(ts) == Cardinality({j \in DOMAIN ts : ts[j][1] = FDT_BEGIN_NODE})
               - Cardinality({j \in DOMAIN ts : ts[j][1] = FDT_END_NODE})

PointerOnToken ==
  pc \in {"props", "deliver", "children", "end"} =>
    \E k \in DOMAIN tokens :
      LET read == SubSeq(tokens, 1, k - 1)
      IN  pointer = 1 + Len(FlattenSeq(read)) /\ Depth = Balance(read)

(* find_node returns, or panics.                                           *)
SearchEnds == <>(pc = "done")
==============================================================================
