----------------------- MODULE AddressAssignment_proofs -----------------------
(* AddressAssignment places buffers without overlap and inside the memories, *)
(* for every device and every module, as long as no address wraps around.    *)
EXTENDS AddressAssignment, Induction

------------------------------------------------------------------------------
(* Arithmetic. *)

(* The least common multiple exists and is at most the product. *)
LEMMA LcmIsMultiple ==
  ASSUME NEW a \in Nat \ {0}, NEW b \in Nat \ {0}
  PROVE  Lcm(a, b) \in 1..(a * b) /\ Lcm(a, b) % a = 0 /\ Lcm(a, b) % b = 0
<1> DEFINE T == {c \in 1..(a * b) : c % a = 0 /\ c % b = 0}
<1>1. a * b \in T
  <2>1. a * b \in Nat \ {0}
    OBVIOUS
  <2>2. (a * b) % a = 0 /\ (a * b) % b = 0
    OBVIOUS
  <2> QED
    BY <2>1, <2>2
<1>2. PICK c \in T : \A d \in T : c <= d
  <2>1. T \in SUBSET Nat
    OBVIOUS
  <2>2. T # {}
    BY <1>1, Zenon
  <2> HIDE DEF T
  <2> QED
    BY <2>1, <2>2, LeastNatural
<1>3. a * b \in Nat
  OBVIOUS
<1>4. ASSUME NEW d \in 1..(c - 1) PROVE d % a # 0 \/ d % b # 0
  BY <1>2, <1>3
<1> HIDE DEF T
<1>5. c \in 1..(a * b) /\ c % a = 0 /\ c % b = 0
  BY DEF T
<1> QED
  BY <1>4, <1>5 DEF Lcm

(* Division with remainder. *)
LEMMA DivMod ==
  ASSUME NEW x \in Nat, NEW a \in Nat \ {0}
  PROVE  x = a * (x \div a) + (x % a) /\ x \div a \in Nat
OBVIOUS

LEMMA MultipleMod ==
  ASSUME NEW a \in Nat \ {0}, NEW q \in Nat
  PROVE  (a * q) % a = 0
OBVIOUS

(* A multiple of a multiple is a multiple. *)
LEMMA MultipleTrans ==
  ASSUME NEW x \in Nat, NEW l \in Nat \ {0}, NEW b \in Nat \ {0},
         x % l = 0, l % b = 0
  PROVE  x % b = 0
<1> DEFINE q == x \div l
           r == l \div b
<1>1. x = l * q /\ q \in Nat
  BY DivMod
<1>2. l = b * r /\ r \in Nat
  BY DivMod
<1> HIDE DEF q, r
<1>3. x = b * (r * q) /\ r * q \in Nat
  BY <1>1, <1>2
<1>4. (b * (r * q)) % b = 0
  <2> DEFINE z == r * q
  <2>1. z \in Nat
    BY <1>3
  <2> HIDE DEF z
  <2>2. (b * z) % b = 0
    BY <2>1, MultipleMod
  <2> QED
    BY <2>2 DEF z
<1> QED
  BY <1>3, <1>4

LEMMA RoundedUp ==
  ASSUME NEW x \in Nat, NEW a \in Nat \ {0}
  PROVE  (x + (a - (x % a))) % a = 0
<1> DEFINE q == x \div a
<1>1. x = a * q + (x % a) /\ q \in Nat
  BY DivMod
<1> HIDE DEF q
<1>2. x + (a - (x % a)) = a * (q + 1)
  BY <1>1
<1>3. (a * (q + 1)) % a = 0
  BY <1>1, MultipleMod
<1> QED
  BY <1>2, <1>3

(* Rounding an address up leaves it within one alignment, unless it wraps.   *)
LEMMA AlignUp ==
  ASSUME NEW x \in Nat, NEW a \in Nat \ {0}, x + a < Word
  PROVE  /\ AlignAddress(x, a) \in Nat
         /\ x <= AlignAddress(x, a)
         /\ AlignAddress(x, a) < x + a
         /\ AlignAddress(x, a) % a = 0
<1>1. x % a \in 0..(a - 1)
  OBVIOUS
<1>2. CASE x % a = 0
  BY <1>2 DEF AlignAddress
<1>3. CASE x % a # 0
  <2> DEFINE y == x + (a - (x % a))
  <2>1. y \in Nat /\ x <= y /\ y < x + a
    BY <1>1, <1>3
  <2>2. y % Word = y
    BY <2>1, MemoryAssumption
  <2> QED
    BY <1>3, <2>1, <2>2, RoundedUp DEF AlignAddress
<1> QED
  BY <1>2, <1>3

------------------------------------------------------------------------------
(* One allocation. *)

(* The buffer at hand is one of those the module asks for. *)
LEMMA BufferIsRequest ==
  ASSUME TypeOK,
         \/ phase = "split" /\ index <= Len(module.splits)
         \/ phase = "assign" /\ index <= Len(module.scopes[scope])
  PROVE  Buffer \in Buffers /\ Buffer \in Requests(module)
<1>1. module \in Module /\ index \in Nat \ {0}
  BY InputAssumption DEF TypeOK
<1>2. CASE phase = "split" /\ index <= Len(module.splits)
  <2>1. index \in DOMAIN module.splits /\ module.splits \in Seq(Buffers)
    BY <1>1, <1>2 DEF Module
  <2> QED
    BY <1>2, <2>1 DEF Buffer, Requests, Range
<1>3. CASE phase = "assign" /\ index <= Len(module.scopes[scope])
  <2>1. scope \in DOMAIN module.scopes /\ module.scopes \in Seq(Seq(Buffers))
    BY <1>1, <1>3 DEF Module, TypeOK
  <2>2. module.scopes[scope] \in Seq(Buffers)
    BY <2>1
  <2>3. index \in DOMAIN module.scopes[scope]
    BY <1>1, <1>3, <2>2
  <2>4. module.scopes[scope][index] \in Range(module.scopes[scope])
    BY <2>3 DEF Range
  <2> QED
    BY <1>3, <2>1, <2>2, <2>3, <2>4 DEF Buffer, Requests
<1> QED
  BY <1>2, <1>3

(* The alignment asked of the tracker is a multiple of the element size and, *)
(* in AddressAssignment, of the alignment of the allocation.                 *)
LEMMA AlignmentOf ==
  ASSUME NEW b \in Buffers
  PROVE  /\ Alignment(b) \in Nat \ {0} /\ Alignment(b) <= b.align * b.bytes
         /\ Alignment(b) % b.bytes = 0
         /\ phase # "split" => Alignment(b) % b.align = 0
<1> DEFINE unit == b.align * b.bytes
<1>1. b.bytes \in Nat \ {0} /\ b.align \in Nat \ {0}
  BY MemoryAssumption DEF Buffers
<1>2. unit \in Nat /\ b.bytes <= unit
  BY <1>1
<1>3. Lcm(b.align, b.bytes) \in 1..unit /\ Lcm(b.align, b.bytes) % b.align = 0
      /\ Lcm(b.align, b.bytes) % b.bytes = 0
  BY <1>1, LcmIsMultiple
<1>4. b.bytes % b.bytes = 0
  BY <1>1
<1> HIDE DEF unit
<1>5. /\ Alignment(b) \in Nat \ {0} /\ Alignment(b) <= unit
      /\ Alignment(b) % b.bytes = 0
      /\ phase # "split" => Alignment(b) % b.align = 0
  BY <1>1, <1>2, <1>3, <1>4 DEF Alignment
<1> QED
  BY <1>5 DEF unit

(* Without wrap-around a buffer begins behind what is taken already and ends *)
(* where the free part of the memory will begin.                             *)
LEMMA Placement ==
  ASSUME NoWrap, TypeOK, NextInRange,
         NEW b \in Buffers, b \in Requests(module)
  PROVE  /\ First(b) \in Nat /\ next[b.memory] <= First(b)
         /\ First(b) % Alignment(b) = 0
         /\ Size(b) \in Nat
         /\ After(b) = First(b) + Size(b)
         /\ After(b) \in 0..(Word - 1)
<1> DEFINE m == b.memory
           area == b.elements * b.bytes
           unit == b.align * b.bytes
<1>1. /\ m \in Memories
      /\ b.elements \in Nat \ {0} /\ b.bytes \in Nat \ {0} /\ b.align \in Nat \ {0}
  BY MemoryAssumption DEF Buffers
<1>2. area \in Nat /\ unit \in Nat /\ b.bytes <= unit
  BY <1>1
<1>3. Capacity[m] + unit + area < Word
  BY DEF NoWrap, TypeOK
<1>4. Alignment(b) \in Nat \ {0} /\ Alignment(b) <= unit
  BY AlignmentOf
<1>5. /\ next[m] \in Nat /\ Capacity[m] \in Nat /\ next[m] <= Capacity[m]
      /\ Word \in Nat \ {0}
  BY <1>1, MemoryAssumption DEF TypeOK, NextInRange
<1> HIDE DEF area, unit
<1>6. /\ First(b) \in Nat /\ next[m] <= First(b)
      /\ First(b) < next[m] + Alignment(b)
      /\ First(b) % Alignment(b) = 0
  <2>1. next[m] + Alignment(b) < Word
    BY <1>2, <1>3, <1>4, <1>5
  <2> QED
    BY <1>4, <1>5, <2>1, AlignUp DEF First
<1>7. Size(b) = area
  <2>1. area < Word
    BY <1>2, <1>3, <1>5
  <2>2. area % Word = area
    BY <1>2, <1>5, <2>1
  <2> QED
    BY <2>2 DEF Size, area
<1>8. First(b) + area \in 0..(Word - 1)
  BY <1>2, <1>3, <1>4, <1>5, <1>6
<1>9. (First(b) + area) % Word = First(b) + area
  BY <1>5, <1>8
<1> QED
  BY <1>2, <1>6, <1>7, <1>8, <1>9 DEF After

(* Placing a buffer that fits. *)
LEMMA PlaceInv ==
  ASSUME NoWrap, AddressInv,
         NEW b \in Buffers, b \in Requests(module),
         Fits(b), Place(b),
         index' = index + 1, UNCHANGED <<module, phase, scope, failures>>
  PROVE  AddressInv'
<1> USE DEF AddressInv
<1> DEFINE m == b.memory
           new == PlacedAs(b)
<1>1. /\ First(b) \in Nat /\ next[m] <= First(b)
      /\ Size(b) \in Nat
      /\ After(b) = First(b) + Size(b)
      /\ After(b) \in 0..(Word - 1)
  BY Placement
<1>2. /\ m \in Memories /\ b.bytes \in Nat \ {0} /\ b.align \in Nat
      /\ Word \in Nat
  BY MemoryAssumption DEF Buffers
<1>3. next' = [next EXCEPT ![m] = After(b)] /\ placed' = placed \cup {new}
  BY DEF Place
<1>4. /\ next \in [Memories -> 0..(Word - 1)] /\ scope \in Nat /\ index \in Nat
      /\ placed \subseteq PlacedBuffer
  <2>1. module.scopes \in Seq(Seq(Buffers))
    BY InputAssumption DEF TypeOK, Module
  <2> QED
    BY <2>1 DEF TypeOK
<1>5. new \in PlacedBuffer
  <2>1. First(b) \div b.bytes \in Nat
    BY <1>1, <1>2
  <2>2. First(b) \in 0..(Word - 1) /\ Size(b) \in 0..(Word - 1)
    BY <1>1, <1>2
  <2> QED
    BY <1>2, <1>4, <2>1, <2>2 DEF PlacedBuffer, PlacedAs
<1>6. /\ new.scope = scope /\ new.index = index /\ new.memory = m
      /\ new.first = First(b) /\ new.size = Size(b)
  BY DEF PlacedAs
<1> HIDE DEF new
<1>7. next'[m] = After(b) /\ next[m] <= After(b)
      /\ \A k \in Memories \ {m} : next'[k] = next[k]
  BY <1>1, <1>2, <1>3, <1>4
<1>8. TypeOK'
  BY <1>1, <1>2, <1>3, <1>4, <1>5 DEF TypeOK
<1>9. /\ Reserved \in [Memories -> Nat] /\ Capacity \in [Memories -> Nat]
      /\ Reserved[m] <= next[m] /\ After(b) <= Capacity[m]
  BY <1>2, MemoryAssumption DEF NextInRange, Fits
<1>10. NextInRange'
  BY <1>1, <1>2, <1>4, <1>7, <1>9 DEF NextInRange
<1>11. ASSUME NEW p \in placed
       PROVE  p.first \in Nat /\ p.size \in Nat /\ p.memory \in Memories
  BY <1>2, <1>4 DEF PlacedBuffer
<1>12. Behind'
  <2>1. ASSUME NEW p \in placed, p.scope = scope \/ p.memory = GlobalMemory
        PROVE  p.first + p.size <= next'[p.memory]
    <3>1. p.first + p.size <= next[p.memory]
      BY <2>1 DEF Behind
    <3> QED
      BY <1>1, <1>4, <1>7, <1>11, <3>1
  <2>2. new.first + new.size <= next'[new.memory]
    BY <1>1, <1>6, <1>7
  <2> QED
    BY <1>3, <2>1, <2>2 DEF Behind
<1>13. PlacedBefore'
  BY <1>3, <1>4, <1>6 DEF PlacedBefore, PlacedBuffer
<1>14. NoOverlap'
  <2>1. ASSUME NEW p \in placed, AliveTogether(p, new) \/ AliveTogether(new, p)
        PROVE  p.first + p.size <= new.first
    <3>1. p.memory = m /\ (p.scope = scope \/ p.memory = GlobalMemory)
      BY <1>6, <2>1 DEF AliveTogether
    <3>2. p.first + p.size <= next[m]
      BY <3>1 DEF Behind
    <3> QED
      BY <1>1, <1>2, <1>4, <1>6, <1>11, <3>2
  <2> QED
    BY <1>3, <2>1 DEF NoOverlap, Disjoint, AliveTogether
<1>15. WithinCapacity'
  BY <1>1, <1>2, <1>3, <1>4, <1>6, <1>9 DEF WithinCapacity
<1> QED
  BY <1>8, <1>10, <1>12, <1>13, <1>14, <1>15

(* The address is that of an element, and aligned as asked. *)
LEMMA PlaceExact ==
  ASSUME NoWrap, AddressInv, ExactOffsets,
         NEW b \in Buffers, b \in Requests(module),
         Place(b), phase = "split" => scope = 0
  PROVE  ExactOffsets'
<1>1. b.bytes \in Nat \ {0} /\ b.align \in Nat \ {0}
  BY MemoryAssumption DEF Buffers
<1>2. First(b) \in Nat /\ First(b) % Alignment(b) = 0
  BY Placement DEF AddressInv
<1>3. Alignment(b) \in Nat \ {0} /\ Alignment(b) % b.bytes = 0
      /\ (phase # "split" => Alignment(b) % b.align = 0)
  BY AlignmentOf
<1>4. First(b) % b.bytes = 0
  BY <1>1, <1>2, <1>3, MultipleTrans
<1>5. phase # "split" => First(b) % b.align = 0
  BY <1>1, <1>2, <1>3, MultipleTrans
<1>6. (First(b) \div b.bytes) * b.bytes = First(b)
  <2>1. First(b) = b.bytes * (First(b) \div b.bytes) + (First(b) % b.bytes)
        /\ First(b) \div b.bytes \in Nat
    BY <1>1, <1>2, DivMod
  <2> QED
    BY <1>1, <1>4, <2>1
<1> QED
  BY <1>5, <1>6 DEF Place, PlacedAs, ExactOffsets

------------------------------------------------------------------------------
(* Entering a scope and the invariant. *)

LEMMA EnterScopeInv ==
  ASSUME AddressInv, NEW k \in Nat, scope < k, k <= Len(module.scopes),
         EnterScope(k), phase' = "assign"
  PROVE  AddressInv'
<1> USE DEF AddressInv
<1>1. /\ scope' = k /\ index' = 1 /\ placed' = placed /\ module' = module
      /\ failures' = failures /\ next' = Reset(k)
  BY DEF EnterScope
<1>2. next' \in [Memories -> 0..(Word - 1)]
  BY <1>1, MemoryAssumption DEF Reset, TypeOK
<1>3. TypeOK'
  BY <1>1, <1>2 DEF TypeOK
<1>4. NextInRange'
  BY <1>1, MemoryAssumption DEF NextInRange, Reset
<1>5. scope \in Nat
  <2>1. module.scopes \in Seq(Seq(Buffers))
    BY InputAssumption DEF TypeOK, Module
  <2> QED
    BY <2>1 DEF TypeOK
<1>6. \A p \in placed : p.scope \in Nat /\ p.scope <= scope
  BY DEF PlacedBefore, TypeOK, PlacedBuffer
<1>7. next'[GlobalMemory] = next[GlobalMemory]
  BY <1>1, MemoryAssumption DEF Reset
<1>8. Behind'
  BY <1>1, <1>5, <1>6, <1>7 DEF Behind
<1>9. PlacedBefore'
  BY <1>1, <1>5, <1>6 DEF PlacedBefore
<1>10. NoOverlap' /\ WithinCapacity'
  BY <1>1 DEF NoOverlap, WithinCapacity, AliveTogether, Disjoint
<1> QED
  BY <1>3, <1>4, <1>8, <1>9, <1>10

LEMMA InitInv == Init => AddressInv
<1> SUFFICES ASSUME Init PROVE AddressInv
  OBVIOUS
<1>1. TypeOK
  <2>1. module.scopes \in Seq(Seq(Buffers))
    BY InputAssumption DEF Init, Module
  <2> QED
    BY <2>1, MemoryAssumption DEF Init, TypeOK
<1>2. NextInRange /\ Behind /\ PlacedBefore /\ NoOverlap /\ WithinCapacity
  BY MemoryAssumption
  DEF Init, NextInRange, Behind, PlacedBefore, NoOverlap, WithinCapacity
<1> QED
  BY <1>1, <1>2 DEF AddressInv

LEMMA NextInv ==
  ASSUME NoWrap, AddressInv, [Next]_vars
  PROVE  AddressInv'
<1> USE DEF AddressInv
<1>1. module \in Inputs /\ module.scopes \in Seq(Seq(Buffers))
      /\ module.scopes # <<>> /\ scope \in Nat /\ index \in Nat \ {0}
  <2>1. module.scopes \in Seq(Seq(Buffers))
    BY InputAssumption DEF TypeOK, Module
  <2> QED
    BY <2>1, InputAssumption DEF TypeOK
<1>2. CASE SplitCandidate
  <2>1. CASE Fits(Buffer)
    BY <1>2, <2>1, BufferIsRequest, PlaceInv DEF SplitCandidate
  <2>2. CASE ~Fits(Buffer)
    BY <1>2, <2>2 DEF SplitCandidate, TypeOK, NextInRange, Behind, PlacedBefore,
                      NoOverlap, WithinCapacity, AliveTogether, Disjoint
  <2> QED
    BY <2>1, <2>2
<1>3. CASE BeginAssignment
  <2>1. CASE \A k \in DOMAIN module.scopes : module.scopes[k] = <<>>
    BY <1>3, <2>1 DEF BeginAssignment, TypeOK, NextInRange, Behind, PlacedBefore,
                      NoOverlap, WithinCapacity, AliveTogether, Disjoint
  <2>2. CASE ~\A k \in DOMAIN module.scopes : module.scopes[k] = <<>>
    <3>1. scope < 1 /\ 1 <= Len(module.scopes)
      BY <1>1, <1>3 DEF BeginAssignment, TypeOK
    <3> QED
      BY <1>3, <2>2, <3>1, EnterScopeInv DEF BeginAssignment
  <2> QED
    BY <2>1, <2>2
<1>4. CASE ProcessAllocation
  <2>1. CASE HasSize(Buffer) /\ Fits(Buffer)
    BY <1>4, <2>1, BufferIsRequest, PlaceInv DEF ProcessAllocation
  <2>2. CASE ~(HasSize(Buffer) /\ Fits(Buffer))
    BY <1>1, <1>4, <2>2
    DEF ProcessAllocation, TypeOK, NextInRange, Behind, PlacedBefore, NoOverlap,
        WithinCapacity, AliveTogether, Disjoint, PlacedBuffer
  <2> QED
    BY <2>1, <2>2
<1>5. CASE NextScope
  <2>1. /\ scope + 1 \in Nat /\ scope < scope + 1
        /\ scope + 1 <= Len(module.scopes) /\ phase' = "assign"
    BY <1>1, <1>5 DEF NextScope
  <2>2. EnterScope(scope + 1)
    BY <1>5 DEF NextScope
  <2> HIDE DEF AddressInv
  <2> QED
    BY <2>1, <2>2, EnterScopeInv
<1>6. CASE Finish
  BY <1>6 DEF Finish, TypeOK, NextInRange, Behind, PlacedBefore, NoOverlap,
              WithinCapacity, AliveTogether, Disjoint
<1>7. CASE UNCHANGED vars
  BY <1>7 DEF vars, TypeOK, NextInRange, Behind, PlacedBefore, NoOverlap,
              WithinCapacity, AliveTogether, Disjoint
<1> QED
  BY <1>2, <1>3, <1>4, <1>5, <1>6, <1>7 DEF Next

(* What the tracker still has to give lies after all live buffers, in every  *)
(* state of the two passes (MemoryTracker::allocate and reset).              *)
THEOREM AddressInvariant == NoWrap => (Spec => []AddressInv)
<1> SUFFICES ASSUME NoWrap PROVE Spec => []AddressInv
  OBVIOUS
<1>1. AddressInv /\ [Next]_vars => AddressInv'
  BY NextInv
<1> QED
  BY <1>1, InitInv, PTL DEF Spec

(* Buffers alive together never share a byte: those of one program, and all  *)
(* in global memory, the address buffers of split indirect accesses included.*)
THEOREM BuffersDisjoint == NoWrap => (Spec => []NoOverlap)
<1>1. AddressInv => NoOverlap
  BY DEF AddressInv
<1> QED
  BY <1>1, AddressInvariant, PTL

(* Every buffer lies between the reserved bytes and the end of its memory,   *)
(* as MemoryTracker::allocate is documented to ensure.                       *)
THEOREM BuffersWithinCapacity == NoWrap => (Spec => []WithinCapacity)
<1>1. AddressInv => WithinCapacity
  BY DEF AddressInv
<1> QED
  BY <1>1, AddressInvariant, PTL

(* The offset in elements that replaces an allocation names exactly the byte *)
(* address the tracker handed out (the division in processAllocation and in  *)
(* splitCandidate loses nothing).                                            *)
THEOREM OffsetsExact == NoWrap => (Spec => []ExactOffsets)
<1> SUFFICES ASSUME NoWrap PROVE Spec => []ExactOffsets
  OBVIOUS
<1>1. Init => ExactOffsets
  BY DEF Init, ExactOffsets
<1>2. AddressInv /\ ExactOffsets /\ [Next]_vars => ExactOffsets'
  <2> SUFFICES ASSUME AddressInv, ExactOffsets, [Next]_vars PROVE ExactOffsets'
    OBVIOUS
  <2>1. TypeOK /\ (phase = "split" => scope = 0)
    BY DEF AddressInv, TypeOK
  <2>2. CASE UNCHANGED placed
    BY <2>2 DEF ExactOffsets
  <2>3. CASE SplitCandidate /\ Fits(Buffer)
    BY <2>1, <2>3, BufferIsRequest, PlaceExact DEF SplitCandidate
  <2>4. CASE ProcessAllocation /\ HasSize(Buffer) /\ Fits(Buffer)
    BY <2>1, <2>4, BufferIsRequest, PlaceExact DEF ProcessAllocation
  <2> QED
    BY <2>2, <2>3, <2>4 DEF Next, SplitCandidate, BeginAssignment, ProcessAllocation,
                            NextScope, Finish, EnterScope, vars
<1> QED
  BY <1>1, <1>2, AddressInvariant, PTL DEF Spec

------------------------------------------------------------------------------
(* No failure is forgotten.  This needs no assumption on addresses. *)

LEMMA TypeOfPosition ==
  ASSUME TypeOK
  PROVE  /\ module.scopes \in Seq(Seq(Buffers)) /\ module.splits \in Seq(Buffers)
         /\ module.scopes # <<>>
         /\ scope \in Nat /\ index \in Nat \ {0} /\ failures \in Nat
<1>1. module \in Module /\ module.scopes # <<>>
  BY InputAssumption DEF TypeOK
<1>2. module.scopes \in Seq(Seq(Buffers)) /\ module.splits \in Seq(Buffers)
  BY <1>1 DEF Module
<1> QED
  BY <1>1, <1>2 DEF TypeOK

(* Placing keeps all values in range even when an address wraps around. *)
LEMMA PlaceType ==
  ASSUME TypeOK, NEW b \in Buffers, Place(b)
  PROVE  next' \in [Memories -> 0..(Word - 1)] /\ placed' \subseteq PlacedBuffer
<1>1. /\ b.memory \in Memories /\ b.bytes \in Nat \ {0} /\ b.align \in Nat
      /\ b.elements \in Nat /\ Word \in Nat \ {0}
  BY MemoryAssumption DEF Buffers
<1>2. Alignment(b) \in Nat \ {0}
  BY AlignmentOf
<1>3. next[b.memory] \in 0..(Word - 1)
  BY <1>1 DEF TypeOK
<1>4. First(b) \in 0..(Word - 1)
  <2> DEFINE x == next[b.memory]
             a == Alignment(b)
  <2>1. x % a \in 0..(a - 1)
    BY <1>2, <1>3
  <2>2. x + (a - (x % a)) \in Nat
    BY <1>2, <1>3, <2>1
  <2>3. (x + (a - (x % a))) % Word \in 0..(Word - 1)
    BY <1>1, <2>2
  <2> HIDE DEF a
  <2> QED
    BY <1>3, <2>3 DEF First, AlignAddress, a
<1>5. Size(b) \in 0..(Word - 1)
  <2>1. b.elements * b.bytes \in Nat
    BY <1>1
  <2> QED
    BY <1>1, <2>1 DEF Size
<1>6. After(b) \in 0..(Word - 1)
  BY <1>1, <1>4, <1>5 DEF After
<1>7. First(b) \div b.bytes \in Nat
  BY <1>1, <1>4
<1>8. next' \in [Memories -> 0..(Word - 1)]
  BY <1>6 DEF Place, TypeOK
<1>9. placed' \subseteq PlacedBuffer
  <2>1. PlacedAs(b) \in PlacedBuffer
    BY <1>1, <1>4, <1>5, <1>7, TypeOfPosition DEF PlacedBuffer, PlacedAs
  <2> QED
    BY <2>1 DEF Place, TypeOK
<1> QED
  BY <1>8, <1>9

LEMMA TypeStep ==
  ASSUME TypeOK, [Next]_vars
  PROVE  TypeOK'
<1> USE TypeOfPosition
<1>1. CASE SplitCandidate
  <2>1. CASE Fits(Buffer)
    <3>1. Place(Buffer) /\ Buffer \in Buffers
      BY <1>1, <2>1, BufferIsRequest DEF SplitCandidate
    <3>2. next' \in [Memories -> 0..(Word - 1)] /\ placed' \subseteq PlacedBuffer
      BY <3>1, PlaceType
    <3>3. index' = index + 1 /\ UNCHANGED <<module, phase, scope, failures>>
      BY <1>1, <2>1 DEF SplitCandidate
    <3> QED
      BY <3>2, <3>3 DEF TypeOK
  <2>2. CASE ~Fits(Buffer)
    BY <1>1, <2>2 DEF SplitCandidate, TypeOK
  <2> QED
    BY <2>1, <2>2
<1>2. ASSUME NEW k \in 1..Len(module.scopes), EnterScope(k), phase' = "assign"
      PROVE  TypeOK'
  <2>1. Reset(k) \in [Memories -> 0..(Word - 1)]
    BY MemoryAssumption DEF Reset, TypeOK
  <2> QED
    BY <1>2, <2>1 DEF EnterScope, TypeOK
<1>3. CASE BeginAssignment
  <2>1. 1 \in 1..Len(module.scopes)
    OBVIOUS
  <2>2. CASE phase' = "assign"
    BY <1>2, <1>3, <2>1, <2>2 DEF BeginAssignment
  <2>3. CASE phase' # "assign"
    BY <1>3, <2>3 DEF BeginAssignment, TypeOK
  <2> QED
    BY <2>2, <2>3
<1>4. CASE ProcessAllocation
  BY <1>4, BufferIsRequest, PlaceType DEF ProcessAllocation, TypeOK
<1>5. CASE NextScope
  <2>1. scope + 1 \in 1..Len(module.scopes)
    BY <1>5 DEF NextScope
  <2> QED
    BY <1>2, <1>5, <2>1 DEF NextScope
<1>6. CASE Finish
  BY <1>6 DEF Finish, TypeOK
<1>7. CASE UNCHANGED vars
  BY <1>7 DEF vars, TypeOK
<1> QED
  BY <1>1, <1>3, <1>4, <1>5, <1>6, <1>7 DEF Next

(* The buffer just placed is found, and none is lost. *)
LEMMA PlaceIsPlaced ==
  ASSUME NEW b, Place(b)
  PROVE  /\ \E p \in placed' : p.scope = scope /\ p.index = index
         /\ \A k, i : IsPlaced(k, i) => IsPlaced(k, i)'
<1> DEFINE new == PlacedAs(b)
<1>1. placed' = placed \cup {new}
  BY DEF Place
<1>2. new.scope = scope /\ new.index = index
  BY DEF PlacedAs
<1> HIDE DEF new
<1> QED
  BY <1>1, <1>2 DEF IsPlaced

LEMMA SplitsPlacedStep ==
  ASSUME TypeOK, SplitsPlaced, [Next]_vars
  PROVE  SplitsPlaced'
<1> USE TypeOfPosition
<1>1. CASE placed' = placed /\ module' = module /\ (phase' = "split" => index' = index)
           /\ (phase' \in {"assign", "done"} /\ phase = "split" => index > Len(module.splits))
           /\ (phase' \in {"split"} => phase = "split")
           /\ (phase = "failed" => phase' = "failed")
  BY <1>1 DEF SplitsPlaced, IsPlaced, TypeOK
<1>2. CASE SplitCandidate /\ Fits(Buffer)
  <2>1. /\ Place(Buffer) /\ index' = index + 1 /\ scope = 0
        /\ module' = module /\ phase = "split" /\ phase' = "split"
    BY <1>2 DEF SplitCandidate, TypeOK
  <2>2. ASSUME NEW i \in DOMAIN module.splits, i < index + 1
        PROVE  IsPlaced(0, i)'
    <3>1. CASE i = index
      BY <2>1, <3>1, PlaceIsPlaced DEF IsPlaced
    <3>2. CASE i < index
      BY <2>1, <3>2, PlaceIsPlaced DEF SplitsPlaced
    <3> QED
      BY <2>2, <3>1, <3>2
  <2> QED
    BY <2>1, <2>2 DEF SplitsPlaced
<1>3. CASE ProcessAllocation /\ HasSize(Buffer) /\ Fits(Buffer)
  <2>1. Place(Buffer) /\ module' = module /\ phase = "assign" /\ phase' = "assign"
    BY <1>3 DEF ProcessAllocation
  <2> QED
    BY <2>1, PlaceIsPlaced DEF SplitsPlaced
<1> QED
  BY <1>1, <1>2, <1>3
  DEF Next, SplitCandidate, BeginAssignment, ProcessAllocation, NextScope, Finish,
      EnterScope, vars, TypeOK

LEMMA FailuresCountedStep ==
  ASSUME TypeOK, FailuresCounted, [Next]_vars
  PROVE  FailuresCounted'
<1> USE TypeOfPosition
<1>1. ASSUME module' = module, failures' = failures, placed \subseteq placed',
             phase' = "split" => phase = "split",
             ASSUME NEW k \in DOMAIN module.scopes, NEW i \in DOMAIN module.scopes[k],
                    failures = 0, Processed(k, i)'
             PROVE  Processed(k, i)
      PROVE  FailuresCounted'
  BY <1>1 DEF FailuresCounted, IsPlaced
<1>2. CASE SplitCandidate
  <2>1. placed \subseteq placed' /\ UNCHANGED <<module, failures, scope>>
        /\ phase = "split" /\ scope = 0
    BY <1>2 DEF SplitCandidate, Place, TypeOK
  <2>2. \A k \in DOMAIN module.scopes : \A i \in DOMAIN module.scopes[k] : ~Processed(k, i)'
    BY <2>1 DEF Processed
  <2> QED
    BY <1>2, <2>1, <2>2 DEF FailuresCounted, SplitCandidate
<1>3. CASE BeginAssignment
  <2>1. CASE \A k \in DOMAIN module.scopes : module.scopes[k] = <<>>
    BY <1>3, <2>1 DEF BeginAssignment, FailuresCounted, IsPlaced
  <2>2. CASE ~\A k \in DOMAIN module.scopes : module.scopes[k] = <<>>
    <3>1. scope' = 1 /\ index' = 1 /\ phase' = "assign"
          /\ UNCHANGED <<module, failures, placed>>
      BY <1>3, <2>2 DEF BeginAssignment, EnterScope
    <3>2. \A k \in DOMAIN module.scopes : \A i \in DOMAIN module.scopes[k] : ~Processed(k, i)'
      BY <3>1 DEF Processed
    <3> QED
      BY <3>1, <3>2 DEF FailuresCounted
  <2> QED
    BY <2>1, <2>2
<1>4. CASE ProcessAllocation
  <2>1. /\ phase = "assign" /\ phase' = "assign" /\ index' = index + 1
        /\ module' = module /\ scope' = scope
    BY <1>4 DEF ProcessAllocation
  <2>2. CASE HasSize(Buffer) /\ Fits(Buffer)
    <3>1. Place(Buffer) /\ failures' = failures
      BY <1>4, <2>2 DEF ProcessAllocation
    <3>2. ASSUME NEW k \in DOMAIN module.scopes, NEW i \in DOMAIN module.scopes[k],
                 failures = 0, Processed(k, i)'
          PROVE  IsPlaced(k, i)'
      <4>1. CASE k = scope /\ i = index
        BY <3>1, <4>1, PlaceIsPlaced DEF IsPlaced
      <4>2. CASE Processed(k, i)
        BY <3>1, <3>2, <4>2, PlaceIsPlaced DEF FailuresCounted
      <4>3. i \in Nat
        <5>1. module.scopes[k] \in Seq(Buffers)
          OBVIOUS
        <5> QED
          BY <5>1
      <4> QED
        BY <2>1, <3>2, <4>1, <4>2, <4>3 DEF Processed
    <3> QED
      BY <2>1, <3>1, <3>2 DEF FailuresCounted
  <2>3. CASE ~(HasSize(Buffer) /\ Fits(Buffer))
    <3>1. failures' = failures + 1
      BY <1>4, <2>3 DEF ProcessAllocation
    <3> QED
      BY <2>1, <3>1 DEF FailuresCounted
  <2> QED
    BY <2>2, <2>3
<1>5. CASE NextScope
  <2>1. /\ phase = "assign" /\ phase' = "assign" /\ scope' = scope + 1 /\ index' = 1
        /\ UNCHANGED <<module, failures, placed>>
        /\ index > Len(module.scopes[scope])
    BY <1>5 DEF NextScope, EnterScope
  <2>2. ASSUME NEW k \in DOMAIN module.scopes, NEW i \in DOMAIN module.scopes[k],
               Processed(k, i)'
        PROVE  Processed(k, i)
    <3>1. module.scopes[k] \in Seq(Buffers)
      OBVIOUS
    <3>2. i \in 1..Len(module.scopes[k])
      BY <3>1
    <3>3. k < scope \/ k = scope
      BY <2>1, <2>2, <3>2 DEF Processed
    <3>4. Len(module.scopes[k]) \in Nat
      BY <3>1
    <3> QED
      BY <2>1, <3>2, <3>3, <3>4 DEF Processed
  <2> QED
    BY <1>1, <2>1, <2>2
<1>6. CASE Finish
  BY <1>1, <1>6 DEF Finish, Processed
<1>7. CASE UNCHANGED vars
  BY <1>1, <1>7 DEF vars, Processed
<1> QED
  BY <1>2, <1>3, <1>4, <1>5, <1>6, <1>7 DEF Next

LEMMA DoneAtTheEndStep ==
  ASSUME TypeOK, FailuresCounted, DoneAtTheEnd, [Next]_vars
  PROVE  DoneAtTheEnd'
<1> USE TypeOfPosition
<1>1. CASE phase' # "done"
  BY <1>1 DEF DoneAtTheEnd
<1>2. CASE BeginAssignment /\ \A k \in DOMAIN module.scopes : module.scopes[k] = <<>>
  BY <1>2 DEF BeginAssignment, DoneAtTheEnd, FailuresCounted, ReportedFailures
<1>3. CASE Finish
  <2>1. /\ phase = "assign" /\ scope = Len(module.scopes)
        /\ index > Len(module.scopes[scope])
        /\ UNCHANGED <<module, scope, index, failures>>
    BY <1>3 DEF Finish
  <2>2. CASE phase' = "done"
    <3>1. ReportedFailures' = 0
      BY <1>3, <2>2 DEF Finish, ReportedFailures
    <3>2. ASSUME NEW k \in DOMAIN module.scopes, NEW i \in DOMAIN module.scopes[k]
          PROVE  Processed(k, i)'
      <4>1. module.scopes[k] \in Seq(Buffers)
        OBVIOUS
      <4>2. i \in 1..Len(module.scopes[k]) /\ Len(module.scopes[k]) \in Nat
        BY <4>1
      <4>3. k \in Nat /\ k <= scope
        BY <2>1
      <4> QED
        BY <2>1, <2>2, <4>2, <4>3 DEF Processed
    <3> QED
      BY <2>1, <3>1, <3>2 DEF DoneAtTheEnd
  <2> QED
    BY <1>1, <2>2
<1>4. CASE UNCHANGED vars
  BY <1>4 DEF vars, DoneAtTheEnd, Processed, ReportedFailures
<1> QED
  BY <1>1, <1>2, <1>3, <1>4
  DEF Next, SplitCandidate, BeginAssignment, ProcessAllocation, NextScope

(* In a build that counts, the pass succeeds only when every allocation has  *)
(* its address; no later success hides a failure (runOnOperation goes on     *)
(* with the remaining allocations and looks at num_failed at the end).       *)
THEOREM SuccessMeansPlaced == CountsFailures => (Spec => []AllPlacedOrFailed)
<1> SUFFICES ASSUME CountsFailures PROVE Spec => []AllPlacedOrFailed
  OBVIOUS
<1>1. Init => TypeOK /\ Accounted
  <2> SUFFICES ASSUME Init PROVE TypeOK /\ Accounted
    OBVIOUS
  <2>1. TypeOK
    BY InitInv DEF AddressInv
  <2> QED
    BY <2>1, TypeOfPosition
    DEF Init, Accounted, SplitsPlaced, FailuresCounted, DoneAtTheEnd, Processed
<1>2. TypeOK /\ Accounted /\ [Next]_vars => TypeOK' /\ Accounted'
  BY TypeStep, SplitsPlacedStep, FailuresCountedStep, DoneAtTheEndStep DEF Accounted
<1>3. TypeOK /\ Accounted => AllPlacedOrFailed
  BY TypeOfPosition
  DEF Accounted, SplitsPlaced, FailuresCounted, DoneAtTheEnd, ReportedFailures,
      AllPlacedOrFailed
<1> QED
  BY <1>1, <1>2, <1>3, PTL DEF Spec
=============================================================================
