---------------------------- MODULE MCSlotOrder ----------------------------
(* A stage that writes slots and one that reads them, in every order, as in  *)
(* the tests of OrderFifoSlotsByUse.                                         *)
EXTENDS SlotOrder

Op(id, op, takes, puts, uses, defines, reads, writes, body) ==
  [id |-> id, op |-> op, takes |-> takes, puts |-> puts, uses |-> uses, defines |-> defines,
   reads |-> reads, writes |-> writes, body |-> body]
Write(id, slot, v) == Op(id, "write", NoSlot, slot, {v}, "", {}, {}, <<>>)
Read(id, slot, v) == Op(id, "read", slot, NoSlot, {}, v, {}, {}, <<>>)
In(id, memref, slot) == Op(id, "transfer", NoSlot, slot, {}, "", {memref}, {}, <<>>)
Out(id, slot, memref) == Op(id, "transfer", slot, NoSlot, {}, "", {}, {memref}, <<>>)
Generic(id, body, uses, defines) == Op(id, "generic", NoSlot, NoSlot, uses, defines, {}, {}, body)
Other(id, uses, defines, reads, writes) ==
  Op(id, "other", NoSlot, NoSlot, uses, defines, reads, writes, <<>>)

Orders(n) == {f \in [1..n -> 1..n] : \A i, j \in 1..n : i # j => f[i] # f[j]}
Name(prefix, k) == prefix \o <<"1", "2", "3", "4">>[k]
SlotFrom(pipeline, from) == [pipeline |-> pipeline, from |-> from, to |-> "C"]
SlotsOf(n) == [k \in 1..n |-> SlotFrom("p", "P")]
Program(staged, slots, asserts) ==
  [blocks |-> [b \in DOMAIN staged |-> staged[b][2]], stage |-> [b \in DOMAIN staged |-> staged[b][1]],
   slots |-> slots, asserts |-> asserts]

(* The writes, of values that are defined before, or between them.           *)
Writes(order) == [k \in DOMAIN order |-> Write(Name("w", order[k]), order[k], Name("x", order[k]))]
Put(list, k, op) == SubSeq(list, 1, k) \o <<op>> \o SubSeq(list, k + 1, Len(list))
Between == {Other("o", {"x1"}, "x2", {}, {}), Other("o", {"x1"}, "y", {"A"}, {})}
Valid(ops) == \A j, k \in DOMAIN ops : ops[k].defines \in ops[j].uses => k < j
WritingBlocks(n) ==
  {Writes(o) : o \in Orders(n)} \cup
  {b \in {Put(Writes(o), k, op) : o \in Orders(n), k \in {0, 1}, op \in Between} : Valid(b)}
  \cup {<<In("w2", "A", 2), In("w1", "B", 1)>>,
        <<In("w2", "A", 2), Other("o", {}, "", {"A"}, {"B"}), In("w1", "B", 1)>>}

(* The reads, and the operations that consume the values.                    *)
Reads(order) == [k \in DOMAIN order |-> Read(Name("r", order[k]), order[k], Name("v", order[k]))]
Values(n) == {Name("v", k) : k \in 1..n}
Consumers(n) ==
  {<<Generic("g", <<{"v2"}, {"v1"}>>, Values(n), "z")>>, <<Generic("g", <<{"c"}, {"v1", "v2"}>>, Values(n), "z")>>,
   <<Generic("g", <<{"v2"}>>, {"v2"}, "z"), Other("u", Values(n) \cup {"z"}, "", {}, {"Z"})>>,
   <<Other("u", {"v1"}, "", {"Z"}, {"Z"})>>}
ReadingBlocks(n) == {Reads(o) \o c : o \in Orders(n), c \in Consumers(n)}

TwoSlots ==
  {Program(<<<<"S1", w>>, <<"S2", r>>>>, SlotsOf(2), TRUE) : w \in WritingBlocks(2), r \in ReadingBlocks(2)}
ThreeSlots ==
  {Program(<<<<"S1", Writes(o)>>, <<"S2", r>>>>, SlotsOf(3), TRUE) : o \in Orders(3), r \in ReadingBlocks(3)}

(* Two FIFOs of two slots each between the same two stages, written and read *)
(* in all orders, and used in two.                                           *)
Pairwise == [k \in 1..4 |-> SlotFrom("p", IF k <= 2 THEN "P" ELSE "Q")]
TwoFifos ==
  {Program(<<<<"S1", Writes(w)>>, <<"S2", Reads(r) \o <<Generic("g", body, Values(4), "z")>>>>>>, Pairwise, FALSE) :
     w, r \in Orders(4), body \in {<<{"v2"}, {"v4"}, {"v1"}, {"v3"}>>, <<{"v3"}, {"v4"}, {"v2"}, {"v1"}>>}}

(* A reader that stores the slots, and FIFOs that other operations access.   *)
Stores == <<Out("r2", 2, "Y"), Other("u", {}, "", {"Y"}, {"Z"}), Out("r1", 1, "Y")>>
SecondFirst(reads) == reads \o <<Generic("g", <<{"v2"}, {"v1"}>>, Values(2), "z")>>
Shared ==
  {Program(<<<<"S1", Writes(<<1, 2>>)>>, <<"S2", Stores>>>>, SlotsOf(2), TRUE),
   Program(<<<<"S1", Writes(<<1, 2>>)>>, <<"S1", SecondFirst(Reads(<<2, 1>>))>>>>, SlotsOf(2), TRUE),
   Program(<<<<"S1", Writes(<<1, 2>>)>>, <<"S2", <<Read("r1", 1, "v1"), Other("u", {"v1"}, "", {}, {"Z"})>>>>,
             <<"S3", <<Read("r2", 2, "v2"), Other("q", {"v2"}, "", {}, {"Y"})>>>>>>, SlotsOf(2), TRUE)}
  \cup
  {Program(<<<<"S1", Writes(w)>>, <<"S2", SecondFirst(Reads(r))>>>>,
           SlotsOf(2) \o <<SlotFrom(pipeline, from)>>, TRUE) :
     w, r \in Orders(3), pipeline \in {"p", "q"}, from \in {"P", "Q"}}

MCInputs == TwoSlots \cup ThreeSlots \cup Shared \cup TwoFifos

(* A reader that keeps one slot and stores the other, before it consumes the *)
(* first; the place it stores to is read between the two.                    *)
Overtaking ==
  {Program(<<<<"S1", Writes(<<1, 2>>)>>,
             <<"S2", <<Read("r1", 1, "v1"), Other("o", {}, "", {"X"}, {"Y"}), Out("r2", 2, "X"),
                       Other("u", {"v1"}, "", {}, {"Z"})>>>>>>, SlotsOf(2), FALSE)}
=============================================================================
