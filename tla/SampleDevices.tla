---------------------------- MODULE SampleDevices ----------------------------
(* The sample device of the tests, whose second SFU_Block is not entered,    *)
(* and the device with units that follow each other.                         *)
EXTENDS Integers, Sequences

Memory(in, k) == [op |-> "memory", in |-> in, kind |-> k]
Unit(in, k, f) == [op |-> "unit", in |-> in, kind |-> k, feature |-> f]
Group(in, k, shared) == [op |-> "group", in |-> in, kind |-> k, shared |-> shared]
Yield(in, values) == [op |-> "yield", in |-> in, values |-> values]
Datapath(in, a, b) == [op |-> "datapath", in |-> in, source |-> a, target |-> b]

(* The operations of sub-core g of which the next one has number n.          *)
SubCore(g, n, l1) ==
  << Group(2, "", <<l1>>),
     Group(g, "SFU_Block", <<>>), Memory(g + 1, "SFU_REG"), Unit(g + 1, "SFU", "compute"),
     Yield(g + 1, <<<<g + 3, 1>>>>),
     Unit(g, "L1LU", "load"), Unit(g, "L1SU", "store"),
     Datapath(g, l1, <<g + 5, 1>>), Datapath(g, <<g + 5, 1>>, <<g + 1, 1>>),
     Datapath(g, <<g + 1, 1>>, <<g + 6, 1>>), Datapath(g, <<g + 6, 1>>, l1) >>

SampleDevice ==
  << Memory(0, "DDR"), Group(0, "core", <<<<1, 1>>>>), Memory(2, "L1"),
     Group(2, "MNILU_Block", <<>>), Memory(4, "IAB"), Unit(4, "MNILU", "load"),
     Yield(4, <<<<6, 1>>>>),
     Group(2, "MNISU_Block", <<>>), Memory(8, "IAB"), Unit(8, "MNISU", "store"),
     Yield(8, <<<<10, 1>>>>),
     Datapath(2, <<1, 1>>, <<4, 1>>), Datapath(2, <<4, 1>>, <<3, 1>>),
     Datapath(2, <<3, 1>>, <<8, 1>>), Datapath(2, <<8, 1>>, <<1, 1>>) >>
  \o SubCore(16, 17, <<3, 1>>) \o SubCore(27, 28, <<3, 1>>)

ChainedUnitsDevice ==
  << Memory(0, "DDR"), Memory(0, "L1"), Memory(0, "L2"),
     Unit(0, "DDRLU", "load"), Unit(0, "L1SU", "store"), Unit(0, "L1LU", "load"),
     Unit(0, "SFUSU", "store"), Unit(0, "L2SU", "store"), Unit(0, "L2LU", "load"),
     Unit(0, "SFU", "compute") >>
  \o [k \in 1..12 |->
       LET path == <<<<1, 4>>, <<4, 2>>, <<2, 5>>, <<5, 1>>, <<2, 6>>, <<6, 10>>,
                     <<6, 8>>, <<8, 3>>, <<3, 9>>, <<9, 10>>, <<10, 7>>, <<7, 2>>>>[k]
       IN  Datapath(0, <<path[1], 1>>, <<path[2], 1>>)]
=============================================================================
