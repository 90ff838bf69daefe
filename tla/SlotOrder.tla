----------------------------- MODULE SlotOrder -----------------------------
(* OrderFifoSlotsByUse: a physical FIFO delivers its slots in the order they *)
(* are written, so the writes and the reads of its slots are brought into    *)
(* the order in which the reading block consumes them.                       *)
(*                                                                           *)
(* A program is [blocks, stage, slots, asserts]: blocks of operations, the   *)
(* stage each is in, the slots of all pipelines, which operations name by    *)
(* number, and whether assertions are compiled in.  An operation is a record *)
(*   [id, op, takes, puts, uses, defines, reads, writes, body]               *)
(* of the slots it takes from and puts into, the values it uses and defines, *)
(* the memrefs it reads and writes and, of a linalg.generic, the values that *)
(* each operation of its body uses.  One step orders one FIFO.               *)
EXTENDS Integers, Sequences, FiniteSets, SequencesExt, Steps

CONSTANT Inputs       \* programs

NoSlot == 0
Defines(op, v) == v # "" /\ op.defines = v

(* No operation takes a slot and puts one (DataTransferLowering.cpp:672      *)
(* rejects transfers from FIFO to FIFO), and one that takes a slot uses no   *)
(* value of its block, or orderFifo asserts: "reads only take their slot".   *)
WellFormed(p) ==
  /\ \A b \in DOMAIN p.blocks :
       p.blocks[b] \in Seq(ToSet(p.blocks[b])) /\ IsInjective(p.blocks[b])
  /\ \A b, c \in DOMAIN p.blocks :
       b # c => ToSet(p.blocks[b]) \cap ToSet(p.blocks[c]) = {}
  /\ p.slots \in Seq(ToSet(p.slots))
  /\ \A b \in DOMAIN p.blocks : \A op \in ToSet(p.blocks[b]) :
       /\ op.body \in Seq(ToSet(op.body))
       /\ NoSlot \in {op.takes, op.puts}
       /\ p.asserts \/ op.takes = NoSlot \/
          \A d \in ToSet(p.blocks[b]) : \A v \in op.uses : ~Defines(d, v)
ASSUME InputsAssumption == \A p \in Inputs : WellFormed(p)

VARIABLES
  input, phase,
  blocks,             \* the blocks as reordered so far
  left,               \* the FIFOs the pass has not come to, as sets of slots
  ordered             \* those it has brought into order

(* Operations move within their blocks only.                                 *)
Operations == UNION {ToSet(input.blocks[b]) : b \in DOMAIN input.blocks}
BlockOf(op) == CHOOSE b \in DOMAIN input.blocks : op \in ToSet(input.blocks[b])
Position(list, op) == CHOOSE k \in DOMAIN list : list[k] = op
Before(list, a, b) == Position(list, a) < Position(list, b)

-----------------------------------------------------------------------------
(* The slots with one operation that writes and one that reads.              *)
Slots == DOMAIN input.slots
Users(s) == {op \in Operations : s \in {op.takes, op.puts}}
HasAccess(s) ==
  /\ \A op \in Users(s) : op.op # "other"
  /\ \E w, r \in Users(s) : /\ Users(s) = {w, r}
                            /\ w.puts = s /\ w.takes # s
                            /\ r.takes = s /\ r.puts # s
WriterOf(s) == CHOOSE op \in Users(s) : op.puts = s
ReaderOf(s) == CHOOSE op \in Users(s) : op.takes = s

(* The FIFOs of a pipeline, with the slots this pass knows the accesses of.  *)
Ends(s) == <<input.slots[s].from, input.slots[s].to>>
FifoOf(s) ==
  {t \in Slots : /\ input.slots[t].pipeline = input.slots[s].pipeline
                 /\ Ends(t) = Ends(s) /\ HasAccess(t)}
Fifos == {f \in {FifoOf(s) : s \in Slots} : Cardinality(f) >= 2}

(* Every operation of the function that takes a slot with the same ends.     *)
ChannelAccesses(f) == UNION {Users(t) : t \in {u \in Slots : \E s \in f : Ends(u) = Ends(s)}}

WriterBlocks(f) == {BlockOf(WriterOf(s)) : s \in f}
ReaderBlocks(f) == {BlockOf(ReaderOf(s)) : s \in f}
WriterBlock(f) == CHOOSE b \in WriterBlocks(f) : TRUE
ReaderBlock(f) == CHOOSE b \in ReaderBlocks(f) : TRUE
OneBlockEach(f) ==
  /\ WriterBlocks(f) = {WriterBlock(f)} /\ ReaderBlocks(f) = {ReaderBlock(f)}
  /\ input.stage[WriterBlock(f)] # input.stage[ReaderBlock(f)]
HasKnownProtocol(f) ==
  /\ OneBlockEach(f)
  /\ ChannelAccesses(f) = UNION {{WriterOf(s), ReaderOf(s)} : s \in f}

-----------------------------------------------------------------------------
(* Where the value of a slot is consumed first: the operation, and within a  *)
(* linalg.generic the first operation of its body that uses the value.       *)
InBody(op, v) ==
  LET users == {k \in DOMAIN op.body : v \in op.body[k]}
  IN  IF op.op # "generic" THEN 0
      ELSE IF users = {} THEN Len(op.body) ELSE Min(users) - 1
ConsumptionKeys(reader) ==
  LET list == blocks[BlockOf(reader)]
      v == reader.defines
  IN  IF reader.op = "transfer" THEN {<<Position(list, reader), 0>>}
      ELSE {<<k, InBody(list[k], v)>> : k \in {j \in DOMAIN list : v \in list[j].uses}}
Precedes(a, b) == a[1] < b[1] \/ (a[1] = b[1] /\ a[2] < b[2])
FirstUse(reader) ==
  CHOOSE a \in ConsumptionKeys(reader) : \A b \in ConsumptionKeys(reader) : ~Precedes(b, a)
EscapesBlock(reader) ==
  \/ ConsumptionKeys(reader) = {}
  \/ /\ reader.defines # ""
     /\ \E op \in Operations : BlockOf(op) # BlockOf(reader) /\ reader.defines \in op.uses

(* The numbers in S by their keys, equal ones as they come: the r-th is the  *)
(* one that r - 1 others are earlier than.                                   *)
Earlier(key, i, j) == Precedes(key[i], key[j]) \/ (key[i] = key[j] /\ i < j)
StableSort(S, key) ==
  LET rank == [i \in S |-> Cardinality({j \in S : Earlier(key, j, i)}) + 1]
  IN  [r \in 1..Cardinality(S) |-> CHOOSE i \in S : rank[i] = r]

(* A slip: the reads are arranged as the slots are allocated.                *)
ReadersAsAllocated(f) ==
  LET slots == StableSort(f, [s \in f |-> <<0, 0>>]) IN [k \in DOMAIN slots |-> ReaderOf(slots[k])]

(* The slots in the order in which they are consumed.                        *)
Consumed(f) == StableSort(f, [s \in f |-> FirstUse(ReaderOf(s))])
Writers(f) == [k \in DOMAIN Consumed(f) |-> WriterOf(Consumed(f)[k])]
Readers(f) == [k \in DOMAIN Consumed(f) |-> ReaderOf(Consumed(f)[k])]

-----------------------------------------------------------------------------
(* Operations of a block stand in an order.                                  *)
InOrder(list, ops) == \A j, k \in DOMAIN ops : j < k => Before(list, ops[j], ops[k])

(* They can move to where the earliest of them is, ...                       *)
FirstOf(list, ops) == Min({Position(list, op) : op \in ToSet(ops)})
LastOf(list, ops) == Max({Position(list, op) : op \in ToSet(ops)})
IsMemoryEffectFree(op) ==
  op.op \in {"generic", "other"} /\ op.reads \cup op.writes = {}
UsesDefined(list, ops) ==
  \A op \in ToSet(ops) : \A v \in op.uses :
    \A k \in FirstOf(list, ops) .. Len(list) : ~Defines(list[k], v)
CanMoveOverMemory(list, ops, keepMemoryOrder) == UsesDefined(list, ops)   \* a slip
CanMove(list, ops, keepMemoryOrder) ==
  /\ keepMemoryOrder =>
       \A k \in FirstOf(list, ops) .. LastOf(list, ops) :
         list[k] \in ToSet(ops) \/ IsMemoryEffectFree(list[k])
  /\ UsesDefined(list, ops)

(* ... and then follow one another in that order.                            *)
MoveIntoOrder(list, ops) ==
  LET first == FirstOf(list, ops)
      key == [k \in DOMAIN list |-> IF list[k] \in ToSet(ops)
                                    THEN <<first, Position(ops, list[k])>> ELSE <<k, 0>>]
      from == StableSort(DOMAIN list, key)
  IN  [k \in DOMAIN from |-> list[from[k]]]

Movable(list, ops, keepMemoryOrder) == InOrder(list, ops) \/ CanMove(list, ops, keepMemoryOrder)
Arranged(list, ops) == IF InOrder(list, ops) THEN list ELSE MoveIntoOrder(list, ops)

Skips(f) == ~HasKnownProtocol(f) \/ \E s \in f : EscapesBlock(ReaderOf(s))
WritesMove(f) == Movable(blocks[WriterBlock(f)], Writers(f), TRUE)
Orderable(f) == ~Skips(f) /\ WritesMove(f)
ReadsMove(f) == Movable(blocks[ReaderBlock(f)], Readers(f), FALSE)

-----------------------------------------------------------------------------
Init ==
  /\ input \in Inputs /\ phase = "order"
  /\ blocks = input.blocks
  /\ left = Fifos /\ ordered = {}

(* The FIFO is left alone: its writes are the side that can fail, ...        *)
LeaveFifo ==
  /\ phase = "order"
  /\ \E f \in left : ~Orderable(f) /\ left' = left \ {f}
  /\ UNCHANGED <<input, phase, blocks, ordered>>

(* ... and they move first.  The reads are asserted to move; without         *)
(* assertions they stay where they cannot.                                   *)
OrderFifo ==
  /\ phase = "order"
  /\ \E f \in left :
       /\ Orderable(f)
       /\ left' = left \ {f} /\ ordered' = ordered \cup {f}
       /\ blocks' = [blocks EXCEPT
                       ![WriterBlock(f)] = Arranged(@, Writers(f)),
                       ![ReaderBlock(f)] = IF ReadsMove(f) THEN Arranged(@, Readers(f)) ELSE @]
       /\ phase' = IF input.asserts /\ ~ReadsMove(f) THEN "aborted" ELSE phase
  /\ UNCHANGED input

Finish ==
  /\ phase = "order" /\ left = {}
  /\ phase' = "done" /\ UNCHANGED <<input, blocks, left, ordered>>

vars == <<input, phase, blocks, left, ordered>>
Ended == phase \in {"done", "aborted"} /\ UNCHANGED vars

Next == LeaveFifo \/ OrderFifo \/ Finish \/ Ended
Spec == Init /\ [][Next]_vars

-----------------------------------------------------------------------------
(* Two slots one block writes and one block reads, in the same order.        *)
SameBlocks(s, t) ==
  /\ HasAccess(s) /\ HasAccess(t)
  /\ BlockOf(WriterOf(s)) = BlockOf(WriterOf(t)) /\ BlockOf(ReaderOf(s)) = BlockOf(ReaderOf(t))
InStep(bs, s, t) ==
  Before(bs[BlockOf(WriterOf(s))], WriterOf(s), WriterOf(t)) <=>
    Before(bs[BlockOf(ReaderOf(s))], ReaderOf(s), ReaderOf(t))

(* The slots of a FIFO that was ordered are read in the order in which they  *)
(* are written, and no other two slots of one channel, whatever becomes of   *)
(* it, that were read so are read otherwise ("Applying one permutation to    *)
(* both keeps them in step").                                                *)
SlotsInStep ==
  phase # "aborted" =>
    /\ \A f \in ordered : \A s, t \in f : InStep(blocks, s, t)
    /\ \A s, t \in Slots :
         Ends(s) = Ends(t) /\ SameBlocks(s, t) /\ InStep(input.blocks, s, t) => InStep(blocks, s, t)

(* What a block computes: the values in memory and in the slots, as terms.   *)
Lookup(env, kind, name) == IF name \in DOMAIN env THEN env[name] ELSE <<kind, name>>
Bound(env, names, term) == [n \in DOMAIN env \cup names |-> IF n \in names THEN term ELSE env[n]]
RunOp(env, op) ==
  LET names == SetToSeq(op.uses \cup op.reads)
      values == [k \in DOMAIN names |-> Lookup(env.values, "value", names[k])]
      inputs == values \o (IF op.takes = NoSlot THEN <<>>
                           ELSE <<Lookup(env.slots, "slot", op.takes)>>)
      term == IF op.op \in {"generic", "other"} THEN <<op.id, inputs>> ELSE inputs[1]
  IN  [values |-> Bound(env.values, (op.writes \cup {op.defines}) \ {""}, term),
       slots |-> Bound(env.slots, {op.puts} \ {NoSlot}, term)]
Run(block) == ForEach(RunOp, [values |-> <<>>, slots |-> <<>>], block)

(* Each block puts into the slots and into memory what it did.               *)
BlocksKept ==
  phase = "done" => \A b \in DOMAIN blocks : Run(blocks[b]) = Run(input.blocks[b])
=============================================================================
