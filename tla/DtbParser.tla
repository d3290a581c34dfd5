------------------------------ MODULE DtbParser ------------------------------
(***************************************************************************)
(* The search of a flattened device tree in dtb/src/lib.rs:                *)
(* DtbParser::find_node and everything it calls.  A step is one iteration  *)
(* of one of its loops.                                                    *)
(*                                                                         *)
(* The structure block is a sequence of 32-bit words and the pointer an    *)
(* index into it; lengths stay in bytes.  A string (a node's name, an      *)
(* entry of compatible, a device_type) is one word, and a property's name  *)
(* offset an index into Strings.  CELL stands for 2^32 and a usize is two  *)
(* cells wide, as on the targets of this code.  Arithmetic is that of the  *)
(* dev profile, where an overflow is a panic.                              *)
(***************************************************************************)
EXTENDS Integers, Sequences

CONSTANT CELL     \* 2^32 in the code

ASSUME CellIsNat == CELL \in Nat \ {0}

VARIABLES
  blob,     \* the structure block
  query,    \* the arguments device_name and compatible_name (None: 0)
  pc,       \* the loop find_node is in
  pointer,  \* pointer
  nodes,    \* prop of each active find_node_recursive, the root's first
  remain,   \* DeviceAddressIter::remain, in bytes
  calls,    \* the arguments of the calls to f so far
  broke,    \* f has returned Break
  result    \* what find_node returned, or "panic"

vars == <<blob, query, pc, pointer, nodes, remain, calls, broke, result>>

FDT_BEGIN_NODE == 1
FDT_END_NODE   == 2
FDT_PROP       == 3
FDT_NOP        == 4
FDT_END        == 9

(* The strings block, by name offset.                                      *)
Strings == << "#address-cells", "#size-cells", "compatible", "device_type",
              "reg", "ranges" >>

USIZE == CELL * CELL
U32   == 4                      \* size_of::<u32>()
None  == 0

Word(p) == IF p \in DOMAIN blob THEN blob[p] ELSE 0
Token   == Word(pointer)        \* get_types
Name(w) == IF w \in DOMAIN Strings THEN Strings[w] ELSE "another"

(* read_regs: the number in k words, of which a usize keeps the last two.  *)
Number(p, k) ==
  LET read[i \in 0 .. k] ==
        IF i = 0 THEN 0 ELSE (read[i - 1] * CELL + Word(p + i - 1)) % USIZE
  IN  read[k]

(* next_multiple_of: the words a property of that many bytes takes.  (Here *)
(* and below, X_Y is X with the plausible mistake Y in it; no              *)
(* specification uses it.  They show that the properties can fail.)        *)
Padded_Down(bytes) == bytes \div U32

Padded(bytes) == (bytes + U32 - 1) \div U32

-----------------------------------------------------------------------------
(* SimpleDeviceNode.                                                       *)

NewNode == [address_cells |-> 2, size_cells |-> 1, reg |-> <<>>,
            ranges |-> None, find |-> FALSE]

Depth  == Len(nodes)
Node   == nodes[Depth]
Parent == nodes[Depth - 1]
IsRoot == Depth = 1

EntrySize == U32 * (Parent.address_cells + Parent.size_cells)

(* The node after parse_prop has looked at the property name at value.     *)
Parsed(name, value, len) ==
  CASE name = "#address-cells" -> [Node EXCEPT !.address_cells = Word(value)]
    [] name = "#size-cells"    -> [Node EXCEPT !.size_cells = Word(value)]
    [] name = "reg"            -> [Node EXCEPT !.reg = <<value, len>>]
    [] name = "ranges"         -> [Node EXCEPT !.ranges = value]
    [] name = "compatible"     ->
         [Node EXCEPT !.find = @ \/ /\ query.compatible_name # None
                                    /\ \E i \in 0 .. len \div U32 - 1 :
                                         Word(value + i) = query.compatible_name]
    [] name = "device_type"    ->
         [Node EXCEPT !.find = @ \/ /\ query.device_name # None
                                    /\ Word(value) = query.device_name]
    [] OTHER                   -> Node

(* The bytes parse_prop insists on.                                        *)
Needed(name) ==
  CASE name \in {"#address-cells", "#size-cells"} -> U32
    [] name = "reg" -> EntrySize
    [] OTHER        -> 0

Ok(x)    == [is |-> "ok", address |-> x]
Fails(r) == [is |-> r]

Across_AnyWindow(d, a, size) ==
  LET node   == nodes[d]
      child  == Number(node.ranges, node.address_cells)
      parent == Number(node.ranges + node.address_cells,
                       nodes[d - 1].address_cells)
  IN  IF node.ranges = None THEN Ok(a)
      ELSE IF a < child THEN Fails("panic") ELSE Ok(a - child + parent)

Across_StrictWindow(d, a, size) ==
  LET node   == nodes[d]
      child  == Number(node.ranges, node.address_cells)
      parent == Number(node.ranges + node.address_cells,
                       nodes[d - 1].address_cells)
      length == Number(node.ranges + node.address_cells
                         + nodes[d - 1].address_cells, node.size_cells)
  IN  IF node.ranges = None THEN Ok(a)
      ELSE IF child + length <= a + size THEN Fails("err")
      ELSE IF a < child THEN Fails("panic") ELSE Ok(a - child + parent)

(* calculate_address_internal at one node: from its children's bus to its  *)
(* own, by the first entry of its ranges.                                  *)
Across(d, a, size) ==
  LET node   == nodes[d]
      pos    == node.ranges
      child  == Number(pos, node.address_cells)
      parent == Number(pos + node.address_cells, nodes[d - 1].address_cells)
      length == Number(pos + node.address_cells + nodes[d - 1].address_cells,
                       node.size_cells)
  IN  IF pos = None THEN Ok(a)
      ELSE IF d = 1 \/ child + length >= USIZE \/ a + size >= USIZE
             THEN Fails("panic")
      ELSE IF child + length < a + size THEN Fails("err")
      ELSE IF a < child \/ a - child + parent >= USIZE THEN Fails("panic")
      ELSE Ok(a - child + parent)

(* ... and up to the root, the matching node itself included.              *)
Translated(a, size) ==
  LET up[k \in 0 .. Depth] ==
        IF k = 0 THEN Ok(a)
        ELSE IF up[k - 1].is = "ok"
               THEN Across(Depth + 1 - k, up[k - 1].address, size)
               ELSE up[k - 1]
  IN  up[Depth]

(* The entry of reg that is next: read_reg_internal, then the translation. *)
RegAt     == Node.reg[1] + (Node.reg[2] - remain) \div U32
RegSize   == Number(RegAt + Parent.address_cells, Parent.size_cells)
NextEntry == IF Parent.address_cells > 2 \/ Parent.size_cells > 2
               THEN Fails("err")
               ELSE Translated(Number(RegAt, Parent.address_cells), RegSize)

-----------------------------------------------------------------------------
Init == /\ blob \in Seq(Nat)
        /\ query \in [device_name : Nat, compatible_name : Nat]
        /\ pc = "start"
        /\ pointer = 1
        /\ nodes = <<>>
        /\ remain = 0
        /\ calls = <<>>
        /\ broke = FALSE
        /\ result = "none"

Return(r) == /\ pc' = "done"
             /\ result' = r

(* find_node_recursive from the token at p up to its first loop.           *)
Enter(p) == /\ Word(p) = FDT_BEGIN_NODE
            /\ nodes' = Append(nodes, NewNode)
            /\ pointer' = p + 2
            /\ pc' = "props"
            /\ UNCHANGED result

(* find_node: one of the two names must be given; then the root.           *)
BadQuery == (query.device_name = None) <=> (query.compatible_name = None)

SkipNop(p) == CHOOSE q \in p .. Len(blob) + 1 :
                /\ q \in DOMAIN blob => blob[q] # FDT_NOP
                /\ \A r \in p .. q - 1 : blob[r] = FDT_NOP

FindNode == /\ pc = "start"
            /\ \/ /\ BadQuery
                  /\ Return("err")
                  /\ UNCHANGED <<pointer, nodes>>
               \/ /\ ~BadQuery
                  /\ Word(SkipNop(1)) # FDT_BEGIN_NODE
                  /\ Return("err")
                  /\ UNCHANGED <<pointer, nodes>>
               \/ /\ ~BadQuery
                  /\ Enter(SkipNop(1))
            /\ UNCHANGED <<blob, query, remain, calls, broke>>

Nop_Stays == /\ pc \in {"props", "children"}
             /\ Token = FDT_NOP
             /\ UNCHANGED vars

Nop == /\ pc \in {"props", "children"}
       /\ Token = FDT_NOP
       /\ pointer' = pointer + 1
       /\ UNCHANGED <<blob, query, pc, nodes, remain, calls, broke, result>>

(* parse_prop.                                                             *)
Prop == /\ pc = "props"
        /\ Token = FDT_PROP
        /\ LET len   == Word(pointer + 1)
               name  == Name(Word(pointer + 2))
               value == pointer + 3
           IN  \/ /\ \/ name = "reg" /\ IsRoot
                     \/ (name = "reg" => ~IsRoot) /\ Needed(name) > len
                  /\ Return("err")
                  /\ UNCHANGED <<pointer, nodes>>
               \/ /\ name = "reg" => ~IsRoot
                  /\ Needed(name) <= len
                  /\ nodes' = [nodes EXCEPT ![Depth] = Parsed(name, value, len)]
                  /\ pointer' = value + Padded(len)
                  /\ UNCHANGED <<pc, result>>
        /\ UNCHANGED <<blob, query, remain, calls, broke>>

(* The end of a node's properties.                                         *)
PropsEnd == /\ pc = "props"
            /\ Token \in {FDT_BEGIN_NODE, FDT_END_NODE}
            /\ \/ /\ Node.find
                  /\ pc' = "deliver"
                  /\ remain' = IF Node.reg = <<>> THEN 0 ELSE Node.reg[2]
               \/ /\ ~Node.find
                  /\ pc' = "children"
                  /\ UNCHANGED remain
            /\ UNCHANGED <<blob, query, pointer, nodes, calls, broke, result>>

(* DeviceAddressIter::next and the call of f with what it yields.  After a *)
(* Break every find_node_recursive returns, and find_node looks at the     *)
(* token the pointer was left on.                                          *)
DeliverFails ==
  /\ pc = "deliver"
  /\ \/ Node.reg = <<>> /\ Return("err")
     \/ remain > 0 /\ NextEntry.is # "ok" /\ Return(NextEntry.is)
     \/ remain > 0 /\ NextEntry.is = "ok" /\ remain < EntrySize /\ Return("panic")
  /\ UNCHANGED <<blob, query, pointer, nodes, remain, calls, broke>>

Deliver_Unchecked ==
  /\ pc = "deliver"
  /\ remain > 0 /\ NextEntry.is = "ok"
  /\ calls' = Append(calls, <<NextEntry.address, RegSize>>)
  /\ remain' = remain - EntrySize
  /\ UNCHANGED <<blob, query, pc, pointer, nodes, broke, result>>

Deliver ==
  /\ pc = "deliver"
  /\ remain > 0 /\ NextEntry.is = "ok" /\ remain >= EntrySize
  /\ calls' = Append(calls, <<NextEntry.address, RegSize>>)
  /\ remain' = remain - EntrySize
  /\ \/ UNCHANGED <<pc, result, broke>>
     \/ /\ broke' = TRUE
        /\ Return(IF Token = FDT_END THEN "ok" ELSE "err")
  /\ UNCHANGED <<blob, query, pointer, nodes>>

DeliverEnd_FirstOnly == /\ pc = "deliver"
                        /\ Node.reg # <<>> /\ remain < Node.reg[2]
                        /\ pc' = "children"
                        /\ UNCHANGED <<blob, query, pointer, nodes, remain,
                                       calls, broke, result>>

DeliverEnd == /\ pc = "deliver"
              /\ Node.reg # <<>> /\ remain = 0
              /\ pc' = "children"
              /\ UNCHANGED <<blob, query, pointer, nodes, remain, calls, broke,
                             result>>

(* The second loop of find_node_recursive.                                 *)
Child == /\ pc = "children"
         /\ Enter(pointer)
         /\ UNCHANGED <<blob, query, remain, calls, broke>>

EndNode == /\ pc = "children"
           /\ Token = FDT_END_NODE
           /\ pointer' = pointer + 1
           /\ nodes' = SubSeq(nodes, 1, Depth - 1)
           /\ pc' = IF IsRoot THEN "end" ELSE "children"
           /\ UNCHANGED <<blob, query, remain, calls, broke, result>>

BadToken == /\ \/ /\ pc = "props"
                  /\ Token \notin {FDT_NOP, FDT_PROP, FDT_BEGIN_NODE, FDT_END_NODE}
               \/ /\ pc = "children"
                  /\ Token \notin {FDT_NOP, FDT_BEGIN_NODE, FDT_END_NODE}
            /\ Return("err")
            /\ UNCHANGED <<blob, query, pointer, nodes, remain, calls, broke>>

(* The end of find_node.                                                   *)
Finish == /\ pc = "end"
          /\ Return(IF Token = FDT_END THEN "ok" ELSE "err")
          /\ UNCHANGED <<blob, query, pointer, nodes, remain, calls, broke>>

Next == \/ FindNode \/ Nop \/ Prop \/ PropsEnd \/ DeliverFails \/ Deliver
        \/ DeliverEnd \/ Child \/ EndNode \/ BadToken \/ Finish

Spec == Init /\ [][Next]_vars

-----------------------------------------------------------------------------
Nodes == [address_cells : Nat, size_cells : Nat, ranges : Nat, find : BOOLEAN,
          reg : {<<>>} \cup (Nat \X Nat)]

TypeOK == /\ blob \in Seq(Nat)
          /\ query \in [device_name : Nat, compatible_name : Nat]
          /\ pc \in {"start", "props", "deliver", "children", "end", "done"}
          /\ pointer \in Nat
          /\ nodes \in Seq(Nodes)
          /\ remain \in Nat
          /\ calls \in Seq(Nat \X Nat)
          /\ broke \in BOOLEAN
          /\ result \in {"none", "ok", "err", "panic"}
==============================================================================
