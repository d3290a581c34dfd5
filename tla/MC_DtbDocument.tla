--------------------------- MODULE MC_DtbDocument ---------------------------
(***************************************************************************)
(* Instances of DtbDocument for TLC: device trees of up to five nodes.     *)
(***************************************************************************)
EXTENDS DtbDocument

(* The strings of the documents.                                           *)
Uart == 21
Gic  == 22
Bus  == 23

ByCompatible(w) == [device_name |-> None, compatible_name |-> w]
ByType(w)       == [device_name |-> w, compatible_name |-> None]

Plain == [depth |-> 0, cells |-> <<>>, regs |-> <<>>, cut |-> 0,
          ranges |-> <<>>, compatible |-> <<>>, type |-> None]

Lower(n, d) == [n EXCEPT !.depth = d]

Unedited == [kind |-> "none", at |-> 1]

-----------------------------------------------------------------------------
(* Translation: a device under one or two buses, with every combination of *)
(* default, narrow, wide and absent cells and of windows that contain the  *)
(* device, end inside it or before it, or begin above it.                  *)
Roots == {[Plain EXCEPT !.cells = c] : c \in {<<>>, <<1, 1>>, <<2, 2>>}}

Buses == {[Plain EXCEPT !.cells = c, !.ranges = r, !.compatible = <<Bus>>] :
            c \in {<<>>, <<1, 1>>, <<1, 0>>},
            r \in {<<>>, <<0, 10, 16>>, <<4, 2, 7>>}}

Devices == {[Plain EXCEPT !.regs = r, !.compatible = <<Gic, Uart>>] :
              r \in {<<>>, << <<5, 3>> >>, << <<9, 2>>, <<4, 1>> >>,
                     << <<6, 0>>, <<7, 0>> >>, << <<2, 2>> >>,
                     << <<USIZE - 2, 3>> >>}}

UnderBus == {<<r, Lower(b, 1), Lower(d, 2)>> :
               r \in Roots, b \in Buses, d \in Devices}

UnderBuses == {<<t[1], Lower(b, 1), Lower(t[2], 2), Lower(t[3], 3),
                 Lower([Plain EXCEPT !.compatible = <<Uart>>, !.regs = << <<5, 3>> >>], 1)>> :
                 t \in UnderBus, b \in {c \in Buses : c.cells # <<1, 0>>}}

TranslationDocs == [tree : UnderBus \cup UnderBuses, backwards : BOOLEAN,
                    edit : {Unedited}]

UartQuery == {ByCompatible(Uart)}

-----------------------------------------------------------------------------
(* Structure: a few trees, edited at every place in every way, and reg     *)
(* properties out of order.                                                *)
Device == [Plain EXCEPT !.regs = << <<5, 3>>, <<8, 1>> >>, !.type = Uart,
                        !.compatible = <<Uart>>]
Narrow == [Plain EXCEPT !.cells = <<1, 1>>, !.ranges = <<0, 10, 16>>]

Trees == {
  <<Plain>>,
  <<Plain, Lower(Device, 1)>>,
  <<Plain, Lower(Device, 1), Lower(Device, 2), Lower(Device, 1)>>,
  <<Plain, Lower(Narrow, 1), Lower(Device, 2), Lower(Device, 2)>>,
  <<Plain, Lower([Device EXCEPT !.cut = 4], 1)>>,
  <<Plain, Lower([Device EXCEPT !.cut = 4, !.regs = << <<5, 3>> >>], 1)>>,
  <<[Plain EXCEPT !.cells = <<3, 1>>], Lower(Device, 1)>>,
  <<Plain, Lower([Plain EXCEPT !.type = Uart, !.compatible = <<Uart>>], 1)>>,
  <<Device, Lower(Device, 1)>> }

Edits == {Unedited} \cup [kind : {"nop", "trail", "late", "drop"}, at : 1 .. 30]

StructureDocs == [tree : Trees, backwards : BOOLEAN, edit : Edits]

AllQueries == {ByCompatible(Uart), ByType(Uart),
               [device_name |-> None, compatible_name |-> None],
               [device_name |-> Uart, compatible_name |-> Uart]}

AllSearches == << [docs |-> TranslationDocs, queries |-> UartQuery],
                  [docs |-> StructureDocs, queries |-> AllQueries] >>
==============================================================================
