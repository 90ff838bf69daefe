-------------------------- MODULE AddressAssignment --------------------------
(* Addresses for the buffers of a module.  One MemoryTracker serves two      *)
(* passes: IndirectComputeGroupSplit puts an address buffer into global      *)
(* memory for every indirect access it splits off, and AddressAssignment     *)
(* later places every allocation of the module and of the programs in it.    *)
(* What a program puts into its own memories is gone when the next one runs, *)
(* so these start over for each program, while global memory carries on.     *)
EXTENDS Integers, Sequences, FiniteSets, Functions

CONSTANTS
  Memories,     \* the memories with a capacity in the device description
  GlobalMemory, \* the root of the memory tree
  Capacity,     \* Capacity[m]: bytes of m
  Reserved,     \* Reserved[m]: bytes at the start of m nobody may use
  Word,         \* the values of size_t: 0..(Word - 1)
  CountsFailures, \* whether the build keeps pass statistics (LLVM_ENABLE_STATS)
  Inputs        \* the modules compiled: see Module

(* An allocation of at least one element: see getUpperOffsetBound. *)
Buffers == [memory : Memories, elements : 1..(Word - 1), bytes : 1..(Word - 1),
            align : 1..(Word - 1)]

(* splits: the address buffers of the indirect accesses, in order.           *)
(* scopes: the allocations of the module outside of its programs, then those *)
(* of one program after the other.                                           *)
Module == [splits : Seq(Buffers), scopes : Seq(Seq(Buffers))]

ASSUME MemoryAssumption ==
  /\ GlobalMemory \in Memories
  /\ Word \in Nat \ {0}
  /\ Capacity \in [Memories -> 0..(Word - 1)]
  /\ Reserved \in [Memories -> 0..(Word - 1)]
  /\ \A m \in Memories : Reserved[m] <= Capacity[m]
ASSUME InputAssumption ==
  /\ Inputs \subseteq Module
  /\ \A i \in Inputs : \A k \in DOMAIN i.splits : i.splits[k].memory = GlobalMemory
  /\ \A i \in Inputs : i.scopes # <<>>
ASSUME BuildAssumption == CountsFailures \in BOOLEAN

VARIABLES
  module,   \* the module compiled
  phase,    \* "split", "assign", or how the passes ended: "done", "failed"
  scope,    \* the scope at work: 0 the address buffers, 1 the module, ...
  index,    \* the allocation of the scope that comes next
  next,     \* next_address_
  failures, \* the allocations AddressAssignment could not place
  placed    \* the buffers with an address

vars == <<module, phase, scope, index, next, failures, placed>>

------------------------------------------------------------------------------
(* A slip: no rounding. *)
AlignAddressNot(address, alignment) == address

(* MemoryTracker::alignAddress, in size_t *)
AlignAddress(address, alignment) ==
  IF address % alignment = 0 THEN address
  ELSE (address + (alignment - (address % alignment))) % Word

Lcm(a, b) == CHOOSE c \in 1..(a * b) :
  /\ c % a = 0 /\ c % b = 0
  /\ \A d \in 1..(c - 1) : d % a # 0 \/ d % b # 0

(* AllocOp::getSize fails when the size is no size_t; the size of an address *)
(* buffer is multiplied without a check.                                     *)
HasSize(b) == b.elements * b.bytes < Word
Size(b) == (b.elements * b.bytes) % Word

Alignment(b) == IF phase = "split" THEN b.bytes ELSE Lcm(b.align, b.bytes)

Buffer == IF phase = "split" THEN module.splits[index] ELSE module.scopes[scope][index]
First(b) == AlignAddress(next[b.memory], Alignment(b))
After(b) == (First(b) + Size(b)) % Word

Init ==
  /\ module \in Inputs
  /\ phase = "split" /\ scope = 0 /\ index = 1
  /\ next = Reserved
  /\ failures = 0
  /\ placed = {}

(* A slip: only the first byte is checked. *)
FitsFirst(b) == First(b) <= Capacity[b.memory]

(* MemoryTracker::allocate succeeds and its caller uses the address, counted *)
(* in elements.                                                              *)
Fits(b) == After(b) <= Capacity[b.memory]

PlacedAs(b) ==
  [scope |-> scope, index |-> index, memory |-> b.memory, first |-> First(b),
   size |-> Size(b), bytes |-> b.bytes, align |-> b.align,
   offset |-> First(b) \div b.bytes]

Place(b) ==
  /\ next' = [next EXCEPT ![b.memory] = After(b)]
  /\ placed' = placed \cup {PlacedAs(b)}

(* splitCandidate: a failure to allocate ends the compilation. *)
SplitCandidate ==
  /\ phase = "split" /\ index <= Len(module.splits)
  /\ IF Fits(Buffer)
     THEN Place(Buffer) /\ index' = index + 1 /\ UNCHANGED phase
     ELSE phase' = "failed" /\ UNCHANGED <<next, placed, index>>
  /\ UNCHANGED <<module, scope, failures>>

Reusable(k) == {module.scopes[k][i].memory : i \in DOMAIN module.scopes[k]}
(* A slip: global memory starts over, too. *)
ResetAll(k) ==
  [m \in Memories |-> IF m \in Reusable(k) THEN Reserved[m] ELSE next[m]]

(* The memories a scope has to itself start over. *)
Reset(k) ==
  [m \in Memories |-> IF m \in Reusable(k) \ {GlobalMemory} THEN Reserved[m] ELSE next[m]]

(* A slip: the failures of earlier scopes are forgotten. *)
EnterScopeForgetting(k) ==
  /\ scope' = k /\ index' = 1
  /\ next' = Reset(k)
  /\ failures' = 0
  /\ UNCHANGED <<module, placed>>

EnterScope(k) ==
  /\ scope' = k /\ index' = 1
  /\ next' = Reset(k)
  /\ UNCHANGED <<module, failures, placed>>

(* runOnOperation of AddressAssignment, entered when all splits are done and *)
(* left at once when nothing in the module needs an address.                 *)
BeginAssignment ==
  /\ phase = "split" /\ index > Len(module.splits)
  /\ IF \A k \in DOMAIN module.scopes : module.scopes[k] = <<>>
     THEN phase' = "done" /\ UNCHANGED <<module, scope, index, next, failures, placed>>
     ELSE phase' = "assign" /\ EnterScope(1)

(* processAllocation: a failed allocation is counted and the next one tried. *)
ProcessAllocation ==
  /\ phase = "assign" /\ index <= Len(module.scopes[scope])
  /\ IF HasSize(Buffer) /\ Fits(Buffer)
     THEN Place(Buffer) /\ UNCHANGED failures
     ELSE failures' = failures + 1 /\ UNCHANGED <<next, placed>>
  /\ index' = index + 1
  /\ UNCHANGED <<module, phase, scope>>

NextScope ==
  /\ phase = "assign" /\ index > Len(module.scopes[scope])
  /\ scope < Len(module.scopes)
  /\ UNCHANGED phase
  /\ EnterScope(scope + 1)

(* num_failed is a pass statistic: it reads zero in a build without them. *)
ReportedFailures == IF CountsFailures THEN failures ELSE 0

Finish ==
  /\ phase = "assign" /\ index > Len(module.scopes[scope])
  /\ scope = Len(module.scopes)
  /\ phase' = IF ReportedFailures > 0 THEN "failed" ELSE "done"
  /\ UNCHANGED <<module, scope, index, next, failures, placed>>

Next == SplitCandidate \/ BeginAssignment \/ ProcessAllocation \/ NextScope \/ Finish

Spec == Init /\ [][Next]_vars /\ WF_vars(Next)

------------------------------------------------------------------------------
PlacedBuffer ==
  [scope : Nat, index : Nat, memory : Memories, first : 0..(Word - 1),
   size : 0..(Word - 1), bytes : Nat, align : Nat, offset : Nat]

TypeOK ==
  /\ module \in Inputs
  /\ phase \in {"split", "assign", "done", "failed"}
  /\ scope \in 0..Len(module.scopes) /\ index \in Nat \ {0}
  /\ phase = "split" => scope = 0
  /\ phase = "assign" => scope # 0
  /\ next \in [Memories -> 0..(Word - 1)]
  /\ failures \in Nat
  /\ placed \subseteq PlacedBuffer

(* Two buffers that are alive together never share a byte: those of one      *)
(* scope, and all those in global memory, the address buffers of the         *)
(* IndirectComputeGroupSplit pass and those of other programs included.      *)
AliveTogether(p, q) ==
  p.memory = q.memory /\ (p.scope = q.scope \/ p.memory = GlobalMemory)
Disjoint(p, q) == p.first + p.size <= q.first \/ q.first + q.size <= p.first
NoOverlap ==
  \A p, q \in placed : p # q /\ AliveTogether(p, q) => Disjoint(p, q)

(* Every buffer is inside its memory and clear of the reserved bytes         *)
(* (MemoryTracker "validates that allocations fit within the available       *)
(* capacity").                                                               *)
WithinCapacity ==
  \A p \in placed :
    Reserved[p.memory] <= p.first /\ p.first + p.size <= Capacity[p.memory]

(* The offset in elements names exactly the address handed out, and the      *)
(* address is aligned as asked ("Each allocation is aligned to at least one  *)
(* element so the conversion is exact").                                     *)
ExactOffsets ==
  \A p \in placed : p.offset * p.bytes = p.first
                    /\ (p.scope # 0 => p.first % p.align = 0)

IsPlaced(k, i) == \E p \in placed : p.scope = k /\ p.index = i

(* When the pass succeeds every allocation has an address: one failure in    *)
(* the middle is not forgotten.                                              *)
AllPlacedOrFailed ==
  phase = "done" =>
    /\ \A i \in DOMAIN module.splits : IsPlaced(0, i)
    /\ \A k \in DOMAIN module.scopes : \A i \in DOMAIN module.scopes[k] : IsPlaced(k, i)

------------------------------------------------------------------------------
(* No sum of an address, an alignment and a size is beyond size_t. *)
Requests(i) == Range(i.splits) \cup UNION {Range(i.scopes[k]) : k \in DOMAIN i.scopes}
NoWrap ==
  \A i \in Inputs : \A b \in Requests(i) :
    Capacity[b.memory] + b.align * b.bytes + b.elements * b.bytes < Word

(* Every live buffer ends where the free part of its memory begins, or       *)
(* before.                                                                   *)
Behind ==
  \A p \in placed :
    p.scope = scope \/ p.memory = GlobalMemory => p.first + p.size <= next[p.memory]

NextInRange == \A m \in Memories : Reserved[m] <= next[m] /\ next[m] <= Capacity[m]

(* No buffer belongs to a scope or an allocation that is yet to come. *)
PlacedBefore ==
  \A p \in placed : p.scope <= scope /\ (p.scope = scope => p.index < index)

(* Every allocation behind the two passes is placed or counted as a failure. *)
Processed(k, i) == phase # "split" /\ (k < scope \/ (k = scope /\ i < index))
SplitsPlaced ==
  \A i \in DOMAIN module.splits :
    (phase = "split" /\ i < index) \/ phase \in {"assign", "done"} => IsPlaced(0, i)
FailuresCounted ==
  /\ phase = "split" => failures = 0
  /\ failures = 0 =>
       \A k \in DOMAIN module.scopes : \A i \in DOMAIN module.scopes[k] :
         Processed(k, i) => IsPlaced(k, i)
DoneAtTheEnd ==
  phase = "done" =>
    /\ ReportedFailures = 0
    /\ \A k \in DOMAIN module.scopes : \A i \in DOMAIN module.scopes[k] : Processed(k, i)
Accounted == SplitsPlaced /\ FailuresCounted /\ DoneAtTheEnd

(* The invariant NoOverlap and WithinCapacity rest on: what the tracker      *)
(* still has to give begins after all live buffers (MemoryTracker.h:         *)
(* "allocations only grow until a resource is reset").                       *)
AddressInv ==
  TypeOK /\ NextInRange /\ Behind /\ PlacedBefore /\ NoOverlap /\ WithinCapacity
=============================================================================
