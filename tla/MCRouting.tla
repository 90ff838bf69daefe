------------------------------ MODULE MCRouting ------------------------------
(* Path expansion on the sample device of the tests, whose second SFU_Block  *)
(* is not entered, and on the device with units that follow each other; the  *)
(* pipelines combine the load and the store stages of the tests, in program  *)
(* order and with the stages in reverse.                                     *)
EXTENDS PathExpansion, SampleDevices

MCDevices == [sample |-> SampleDevice, chained |-> ChainedUnitsDevice]

(* The views of a device agree: under every name, a memory is either global  *)
(* or of a core or below that, the topmost memory around it is global, and a *)
(* unit's own memory is not global (MemoryTree.cpp, GroupLocalMemory.cpp).   *)
Aliases == <<<<"HBM", "DDR">>, <<"LX", "L1">>>>
ASSUME MemoryViewsAgree ==
  \A d \in {MCDevices[k] : k \in DOMAIN MCDevices} :
    /\ \A i \in OpsOf(d, "memory") : \A name \in NamesOf(d, Aliases, i) :
         /\ AreAliases(d, Aliases, name, d[i].kind)
         /\ Cardinality({f \in 1..3 : <<IsGlobalMemory(d, Aliases, name), IsPerCoreScratchPadMemory(d, Aliases, name),
                                       IsBelowScratchPad(d, Aliases, name)>>[f]}) = 1
         /\ IsGlobalMemory(d, Aliases, d[RootOf(d, i)].kind)
    /\ \A i \in OpsOf(d, "unit") :
         LocalMemoryKind(d, d[i].kind) = None \/ ~IsGlobalMemory(d, Aliases, LocalMemoryKind(d, d[i].kind))

------------------------------------------------------------------------------
Op(op, src, dst, mode, of) == [op |-> op, src |-> src, dst |-> dst, mode |-> mode, of |-> of]
Copy(src, dst, of) == Op("transfer", src, dst, "copy", of)
Splat(src, dst, of) == Op("transfer", src, dst, "splat", of)
ReadFifo(v, of) == Op("read", v, NoValue, "copy", of)
WriteFifo(v, of) == Op("write", NoValue, v, "copy", of)
Stage(unit, ops) == [unit |-> unit, ops |-> ops]

DDR(id) == Memref("DDR", id)
L1(id) == Memref("L1", id)
L2(id) == Memref("L2", id)
In(m, id, k) == FifoSlot(m, "SFU", id, k)
Out(m, id, k) == FifoSlot("SFU", m, id, k)

(* The stages before the compute stage, each with those it waits for, and    *)
(* the slots the compute stage reads.                                        *)
Part(stagesOf, edges, slots) == [stages |-> stagesOf, edges |-> edges, slots |-> slots]

Loads ==
  { Part(<<Stage(None, <<Copy(DDR(1), In("DDR", 11, 0), 1)>>)>>, {}, <<In("DDR", 11, 0)>>),
    Part(<<Stage(None, <<Copy(L1(2), In("L1", 11, 0), 1)>>)>>, {}, <<In("L1", 11, 0)>>),
    \* two slots of one allocation, the second one splat
    Part(<<Stage(None, <<Copy(DDR(1), In("DDR", 11, 0), 1), Splat(DDR(3), In("DDR", 11, 1), 2)>>)>>,
         {}, <<In("DDR", 11, 0), In("DDR", 11, 1)>>),
    \* a splat from DDR beside a load from L1, which shares its unit with the hop
    Part(<<Stage(None, <<Splat(DDR(1), In("DDR", 11, 0), 1)>>),
           Stage(None, <<Copy(L1(2), In("L1", 12, 0), 2)>>)>>,
         {}, <<In("DDR", 11, 0), In("L1", 12, 0)>>),
    \* a chain of two stages over a buffer in L1, and a second operand
    Part(<<Stage(None, <<Copy(DDR(1), L1(20), 1), Copy(DDR(3), In("DDR", 12, 0), 2)>>),
           Stage(None, <<Copy(L1(20), In("L1", 11, 0), 3)>>)>>,
         {<<1, 2>>}, <<In("L1", 11, 0), In("DDR", 12, 0)>>),
    \* the same, expanded in part before
    Part(<<Stage(None, <<Copy(DDR(1), L1(20), 1)>>),
           Stage(None, <<Splat(L1(20), In("L1LU", 11, 0), 2)>>)>>,
         {<<1, 2>>}, <<In("L1LU", 11, 0)>>),
    Part(<<Stage(None, <<Op("gather", DDR(1), In("DDR", 11, 0), "copy", 1)>>)>>,
         {}, <<In("DDR", 11, 0)>>),
    \* rejected: two stages on one unit, stages that wait for each other, and
    \* a stage whose unit does not work on its memory
    Part(<<Stage(None, <<Copy(DDR(1), In("DDR", 11, 0), 1)>>),
           Stage(None, <<Copy(DDR(3), In("DDR", 11, 1), 2)>>)>>,
         {}, <<In("DDR", 11, 0), In("DDR", 11, 1)>>),
    Part(<<Stage(None, <<Copy(DDR(1), L1(20), 1)>>),
           Stage(None, <<Copy(L1(20), In("L1", 11, 0), 2)>>)>>,
         {<<1, 2>>, <<2, 1>>}, <<In("L1", 11, 0)>>),
    Part(<<Stage(None, <<Copy(DDR(1), In("L1LU", 11, 0), 1)>>)>>, {}, <<In("L1LU", 11, 0)>>),
    \* rejected: a hop on a stage the producer waits for, a new type for a gather
    Part(<<Stage(None, <<Copy(DDR(1), In("DDR", 11, 0), 1)>>),
           Stage(None, <<Copy(L1(2), In("L1", 12, 0), 2)>>)>>,
         {<<2, 1>>}, <<In("DDR", 11, 0), In("L1", 12, 0)>>),
    Part(<<Stage(None, <<Op("gather", L1(2), In("L1", 11, 0), "copy", 1)>>)>>,
         {}, <<In("L1", 11, 0)>>) }

(* Only the device with units that follow each other has a memory L2.        *)
ChainedLoads ==
  { Part(<<Stage(None, <<Copy(DDR(1), L2(20), 1), Copy(DDR(3), In("L1", 11, 0), 2)>>),
           Stage(None, <<Copy(L2(20), In("L2", 12, 0), 3)>>)>>,
         {<<1, 2>>}, <<In("L1", 11, 0), In("L2", 12, 0)>>),
    Part(<<Stage(None, <<Splat(DDR(1), L2(20), 1)>>),
           Stage(None, <<Copy(L2(20), In("L2", 12, 0), 3)>>)>>,
         {<<1, 2>>}, <<In("L2", 12, 0)>>) }

Stores ==
  { Part(<<Stage(None, <<Copy(Out("DDR", 14, 0), DDR(5), 6)>>)>>, {}, <<Out("DDR", 14, 0)>>),
    Part(<<Stage(None, <<Copy(Out("L1", 14, 0), L1(6), 6)>>)>>, {}, <<Out("L1", 14, 0)>>),
    \* two slots of one allocation and one of another
    Part(<<Stage(None, <<Copy(Out("DDR", 14, 0), DDR(5), 6), Copy(Out("DDR", 15, 0), DDR(7), 7),
                         Copy(Out("DDR", 14, 1), DDR(8), 8)>>)>>,
         {}, <<Out("DDR", 14, 0), Out("DDR", 15, 0), Out("DDR", 14, 1)>>),
    Part(<<Stage(None, <<Copy(Out("DDR", 14, 0), DDR(5), 6)>>),
           Stage(None, <<Copy(Out("L1", 15, 0), L1(6), 7)>>)>>,
         {}, <<Out("DDR", 14, 0), Out("L1", 15, 0)>>),
    Part(<<Stage(None, <<Op("scatter", Out("DDR", 14, 0), DDR(5), "copy", 6)>>)>>,
         {}, <<Out("DDR", 14, 0)>>) }

(* The stages of a pipeline: those of the load part, the compute stage and   *)
(* those of the store part; at[s] is the place of stage s in the program.    *)
Pipeline(device, load, store, at) ==
  LET c == Len(load.stages) + 1
      n == c + Len(store.stages)
      inOps == [k \in DOMAIN load.slots |-> ReadFifo(load.slots[k], 30 + k)]
      outOps == [k \in DOMAIN store.slots |-> WriteFifo(store.slots[k], 40 + k)]
      all == load.stages \o <<Stage("SFU", inOps \o outOps)>> \o store.stages
      edges == load.edges \cup {<<s, c>> : s \in 1 .. c - 1} \cup {<<c, s>> : s \in c + 1 .. n}
      stageAt(k) == CHOOSE s \in 1..n : at[s] = k
  IN  [device |-> device,
       stages |-> [k \in 1..n |-> all[stageAt(k)]],
       succ |-> [k \in 1..n |-> SetToSortSeq({at[t] : t \in {u \in 1..n :
                                    <<stageAt(k), u>> \in edges}}, <)]]

Size(load, store) == Len(load.stages) + 1 + Len(store.stages)
Combined(device, loads) ==
  UNION {{Pipeline(device, l, s, [k \in 1 .. Size(l, s) |-> k]),
          Pipeline(device, l, s, [k \in 1 .. Size(l, s) |-> Size(l, s) + 1 - k])} :
           l \in loads, s \in Stores}

MCPipelines == Combined("sample", Loads) \cup Combined("chained", Loads \cup ChainedLoads)

(* Two slots of one allocation that go to different memories: their FIFOs    *)
(* are no longer the same, each slot is the first one of its own, and the    *)
(* assertion of validateFifoSlotIndex fails for the second.                  *)
SplitStore(first, second) ==
  Part(<<Stage(None, <<Copy(Out("DDR", 14, first), DDR(5), 6)>>),
         Stage(None, <<Copy(Out("DDR", 14, second), L2(6), 7)>>)>>,
       {}, <<Out("DDR", 14, 0), Out("DDR", 14, 1)>>)
SplitRoutes ==
  LET load == Part(<<Stage(None, <<Copy(L2(2), In("L2", 11, 0), 1)>>)>>, {}, <<In("L2", 11, 0)>>)
  IN  {Pipeline("chained", load, s, [k \in 1 .. Size(load, s) |-> k]) :
         s \in {SplitStore(0, 1), SplitStore(1, 0)}}
=============================================================================
