-------------------------- MODULE SlotOrder_proofs --------------------------
(* The slots of the FIFOs that OrderFifoSlotsByUse orders are read in the    *)
(* order in which they are written, for every program.                       *)
EXTENDS SlotOrder, Induction

-----------------------------------------------------------------------------
(* Sorting: the numbers in S, each once, in the order of their keys. *)
Sorted(q, S, key) ==
  /\ Cardinality(S) \in Nat /\ DOMAIN q = 1..Cardinality(S)
  /\ \A r \in DOMAIN q : q[r] \in S
  /\ \A i \in S : \E r \in DOMAIN q : q[r] = i
  /\ \A r, t \in DOMAIN q : r < t <=> Earlier(key, q[r], q[t])

LEMMA EarlierIsOrder ==
  ASSUME NEW S \in SUBSET Nat, NEW key, \A i \in S : key[i] \in Nat \X Nat
  PROVE  /\ \A i \in S : ~Earlier(key, i, i)
         /\ \A i, j \in S : i # j => Earlier(key, i, j) \/ Earlier(key, j, i)
         /\ \A i, j, k \in S : Earlier(key, i, j) /\ Earlier(key, j, k) => Earlier(key, i, k)
<1>1. \A i \in S : key[i][1] \in Nat /\ key[i][2] \in Nat
  OBVIOUS
<1>2. \A i, j \in S : key[i] = key[j] <=> key[i][1] = key[j][1] /\ key[i][2] = key[j][2]
  OBVIOUS
<1>3. \A i, j \in S : Earlier(key, i, j) <=>
        \/ key[i][1] < key[j][1]
        \/ key[i][1] = key[j][1] /\ key[i][2] < key[j][2]
        \/ key[i][1] = key[j][1] /\ key[i][2] = key[j][2] /\ i < j
  BY <1>2 DEF Earlier, Precedes
<1> QED
  BY <1>1, <1>3

(* StableSort sorts: the rank of a number is one more than how many are      *)
(* earlier, so that ranks differ, and n numbers have the n ranks from 1 on.  *)
LEMMA StableSortSorts ==
  ASSUME NEW S \in SUBSET Nat, IsFiniteSet(S), NEW key, \A i \in S : key[i] \in Nat \X Nat
  PROVE  Sorted(StableSort(S, key), S, key)
<1> DEFINE Less(i) == {j \in S : Earlier(key, j, i)}
           rank == [i \in S |-> Cardinality(Less(i)) + 1]
           n == Cardinality(S)
           q == StableSort(S, key)
<1>1. n \in Nat /\ Cardinality(1..n) = n /\ IsFiniteSet(1..n)
  BY FS_CardinalityType, FS_Interval
<1>2. ASSUME NEW i \in S
      PROVE  /\ IsFiniteSet(Less(i)) /\ Cardinality(Less(i)) \in Nat
             /\ Cardinality(Less(i)) <= n - 1
  <2>1. Less(i) \in SUBSET (S \ {i})
    BY EarlierIsOrder
  <2>2. IsFiniteSet(S \ {i}) /\ Cardinality(S \ {i}) = n - 1
    BY FS_RemoveElement
  <2> QED
    BY <2>1, <2>2, FS_Subset, FS_CardinalityType
<1>3. ASSUME NEW i \in S, NEW j \in S, Earlier(key, i, j)
      PROVE  rank[i] < rank[j]
  <2>1. Less(i) \in SUBSET Less(j) /\ Less(i) # Less(j)
    BY <1>3, EarlierIsOrder
  <2>2. Cardinality(Less(i)) <= Cardinality(Less(j)) /\ Cardinality(Less(i)) # Cardinality(Less(j))
    BY <1>2, <2>1, FS_Subset
  <2> QED
    BY <1>2, <2>2
<1>4. \A i \in S : Cardinality(Less(i)) + 1 \in 1..n
  <2>1. SUFFICES ASSUME NEW i \in S PROVE Cardinality(Less(i)) + 1 \in 1..n
    OBVIOUS
  <2> DEFINE c == Cardinality(Less(i))
  <2>2. c \in Nat /\ c <= n - 1
    BY <1>2
  <2> HIDE DEF c, n
  <2> QED
    BY <1>1, <2>2 DEF c
<1>10. q = [r \in 1..n |-> CHOOSE i \in S : rank[i] = r] /\ rank \in [S -> 1..n]
  BY <1>4 DEF StableSort
<1> HIDE DEF rank, n, q
<1>5. \A i, j \in S : rank[i] < rank[j] <=> Earlier(key, i, j)
  BY <1>1, <1>3, <1>10, EarlierIsOrder
<1>6. \A i, j \in S : rank[i] = rank[j] => i = j
  BY <1>1, <1>3, <1>10, EarlierIsOrder
<1>7. rank \in Injection(S, 1..n)
  BY <1>6, <1>10 DEF Injection, IsInjective
<1>8. rank \in Surjection(S, 1..n)
  BY <1>1, <1>7, FS_Injection DEF n
<1>9. \A r \in 1..n : \E i \in S : rank[i] = r
  BY <1>8 DEF Surjection
<1>11. DOMAIN q = 1..n /\ \A r \in 1..n : q[r] \in S /\ rank[q[r]] = r
  BY <1>9, <1>10
<1>12. \A i \in S : rank[i] \in 1..n /\ q[rank[i]] = i
  BY <1>6, <1>10, <1>11
<1>13. \A r, t \in 1..n : r < t <=> Earlier(key, q[r], q[t])
  BY <1>5, <1>11
<1> QED
  BY <1>1, <1>11, <1>12, <1>13 DEF Sorted, n, q

-----------------------------------------------------------------------------
(* Lists without repetition. *)
Simple(list) == list \in Seq(ToSet(list)) /\ IsInjective(list)

LEMMA PositionIs ==
  ASSUME NEW list, Simple(list)
  PROVE  /\ \A k \in DOMAIN list : Position(list, list[k]) = k
         /\ \A op \in ToSet(list) :
              Position(list, op) \in DOMAIN list /\ list[Position(list, op)] = op
         /\ Len(list) \in Nat /\ DOMAIN list = 1..Len(list)
<1>1. Len(list) \in Nat /\ DOMAIN list = 1..Len(list)
  BY DEF Simple
<1>2. \A op \in ToSet(list) :
        Position(list, op) \in DOMAIN list /\ list[Position(list, op)] = op
  BY DEF ToSet, Position
<1>3. ASSUME NEW k \in DOMAIN list PROVE Position(list, list[k]) = k
  <2>1. list[k] \in ToSet(list)
    BY DEF ToSet
  <2> QED
    BY <1>2, <2>1 DEF Simple, IsInjective
<1> QED
  BY <1>1, <1>2, <1>3

(* What is asked of a list that was brought into an order: it has the same   *)
(* members, those that were moved follow one another in that order, and the  *)
(* others are where they were to each other.                                 *)
Rearranged(new, list, ops) ==
  /\ Simple(new) /\ ToSet(new) = ToSet(list)
  /\ InOrder(new, ops)
  /\ \A a, b \in ToSet(list) \ ToSet(ops) : Before(new, a, b) <=> Before(list, a, b)

LEMMA MovedIntoOrder ==
  ASSUME NEW list, Simple(list), NEW ops, Simple(ops), ops # <<>>, ToSet(ops) \subseteq ToSet(list)
  PROVE  Rearranged(MoveIntoOrder(list, ops), list, ops)
<1> DEFINE first == FirstOf(list, ops)
           key == [k \in DOMAIN list |-> IF list[k] \in ToSet(ops)
                                         THEN <<first, Position(ops, list[k])>> ELSE <<k, 0>>]
           from == StableSort(DOMAIN list, key)
           new == MoveIntoOrder(list, ops)
           n == Len(list)
<1>1. n \in Nat /\ DOMAIN list = 1..n /\ Cardinality(1..n) = n /\ IsFiniteSet(1..n)
  <2>1. n \in Nat /\ DOMAIN list = 1..n
    BY PositionIs
  <2> HIDE DEF n
  <2>2. IsFiniteSet(1..n) /\ Cardinality(1..n) = IF 1 > n THEN 0 ELSE n - 1 + 1
    BY <2>1, FS_Interval
  <2> QED
    BY <2>1, <2>2
<1>2. first \in Nat
  <2> DEFINE P == {Position(list, op) : op \in ToSet(ops)}
  <2>1. P \in SUBSET Nat
    BY <1>1, PositionIs
  <2>2. P # {}
    <3>1. 1 \in DOMAIN ops
      BY PositionIs, ops # <<>> DEF Simple
    <3> QED
      BY <3>1 DEF ToSet
  <2>3. \E x \in P : \A y \in P : x <= y
    BY <2>1, <2>2, LeastNatural
  <2>4. first = Min(P)
    BY DEF FirstOf
  <2> QED
    BY <2>1, <2>3, <2>4 DEF Min
<1>3. \A k \in DOMAIN list : key[k] \in Nat \X Nat
  <2>1. \A k \in DOMAIN list : list[k] \in ToSet(ops) => Position(ops, list[k]) \in Nat
    BY PositionIs
  <2> HIDE DEF first
  <2> QED
    BY <1>1, <1>2, <2>1
<1>4. new = [k \in DOMAIN from |-> list[from[k]]]
  BY DEF MoveIntoOrder
<1>6. \A i \in DOMAIN list :
        key[i] = IF list[i] \in ToSet(ops) THEN <<first, Position(ops, list[i])>> ELSE <<i, 0>>
  OBVIOUS
<1> HIDE DEF new, key, first, n
<1>14. 1..n \in SUBSET Nat /\ \A i \in 1..n : key[i] \in Nat \X Nat
  BY <1>1, <1>3
<1>5. Sorted(from, 1..n, key)
  BY <1>1, <1>14, StableSortSorts
<1> HIDE DEF from
<1>7. /\ DOMAIN from = 1..n /\ DOMAIN new = 1..n
      /\ \A r \in 1..n : from[r] \in 1..n /\ new[r] = list[from[r]]
      /\ \A i \in 1..n : \E r \in 1..n : from[r] = i
      /\ \A r, t \in 1..n : r < t <=> Earlier(key, from[r], from[t])
  BY <1>1, <1>4, <1>5 DEF Sorted
<1>8. \A r, t \in 1..n : from[r] = from[t] => r = t
  <2>1. \A i \in 1..n : ~Earlier(key, i, i)
    BY <1>14, EarlierIsOrder
  <2> QED
    BY <1>1, <1>7, <2>1
<1>9. ToSet(new) = ToSet(list)
  <2>1. ToSet(new) = {new[r] : r \in 1..n} /\ ToSet(list) = {list[i] : i \in 1..n}
    BY <1>1, <1>7 DEF ToSet
  <2>2. ASSUME NEW r \in 1..n PROVE new[r] \in ToSet(list)
    BY <1>7, <2>1
  <2>3. ASSUME NEW i \in 1..n PROVE list[i] \in ToSet(new)
    BY <1>7, <2>1
  <2> QED
    BY <2>1, <2>2, <2>3
<1>10. Simple(new)
  <2>1. IsInjective(new)
    BY <1>1, <1>7, <1>8 DEF IsInjective, Simple
  <2>2. \A r \in 1..n : new[r] \in ToSet(new)
    BY <1>7 DEF ToSet
  <2>3. new = [r \in 1..n |-> new[r]]
    BY <1>4, <1>7
  <2> QED
    BY <1>1, <2>1, <2>2, <2>3 DEF Simple
<1>11. ASSUME NEW i \in 1..n, NEW j \in 1..n
       PROVE  Before(new, list[i], list[j]) <=> Earlier(key, i, j)
  <2>1. PICK r \in 1..n, t \in 1..n : from[r] = i /\ from[t] = j
    BY <1>7
  <2>2. Position(new, list[i]) = r /\ Position(new, list[j]) = t
    BY <1>7, <1>10, <2>1, PositionIs
  <2> QED
    BY <1>7, <2>1, <2>2 DEF Before
<1>12. InOrder(new, ops)
  <2>1. SUFFICES ASSUME NEW j \in DOMAIN ops, NEW k \in DOMAIN ops, j < k
                 PROVE  Before(new, ops[j], ops[k])
    BY DEF InOrder
  <2> DEFINE x == Position(list, ops[j])
             y == Position(list, ops[k])
  <2>2. ops[j] \in ToSet(ops) /\ ops[k] \in ToSet(ops)
    BY DEF ToSet
  <2>3. x \in 1..n /\ y \in 1..n /\ list[x] = ops[j] /\ list[y] = ops[k]
    BY <1>1, <2>2, PositionIs
  <2>4. Position(ops, ops[j]) = j /\ Position(ops, ops[k]) = k
    BY PositionIs
  <2> HIDE DEF x, y
  <2>5. key[x] = <<first, j>> /\ key[y] = <<first, k>>
    BY <1>1, <1>6, <2>2, <2>3, <2>4
  <2>6. Earlier(key, x, y)
    BY <2>1, <2>5 DEF Earlier, Precedes
  <2> QED
    BY <1>11, <2>3, <2>6
<1>13. ASSUME NEW a \in ToSet(list) \ ToSet(ops), NEW b \in ToSet(list) \ ToSet(ops)
       PROVE  Before(new, a, b) <=> Before(list, a, b)
  <2> DEFINE x == Position(list, a)
             y == Position(list, b)
  <2>1. x \in 1..n /\ y \in 1..n /\ list[x] = a /\ list[y] = b
    BY <1>1, PositionIs
  <2>2. Before(list, a, b) <=> x < y
    BY DEF Before
  <2> HIDE DEF x, y
  <2>3. key[x] = <<x, 0>> /\ key[y] = <<y, 0>>
    BY <1>1, <1>6, <2>1
  <2>4. Earlier(key, x, y) <=> x < y
    BY <1>1, <2>1, <2>3 DEF Earlier, Precedes
  <2> QED
    BY <1>11, <2>1, <2>2, <2>4
<1> QED
  BY <1>9, <1>10, <1>12, <1>13 DEF Rearranged, new

LEMMA ArrangedInOrder ==
  ASSUME NEW list, Simple(list), NEW ops, Simple(ops), ops # <<>>, ToSet(ops) \subseteq ToSet(list)
  PROVE  Rearranged(Arranged(list, ops), list, ops)
<1>1. CASE InOrder(list, ops)
  BY <1>1 DEF Arranged, Rearranged
<1>2. CASE ~InOrder(list, ops)
  BY <1>2, MovedIntoOrder DEF Arranged
<1> QED
  BY <1>1, <1>2

-----------------------------------------------------------------------------
(* Slots and the operations that access them. *)
LEMMA BlockOfIs ==
  ASSUME WellFormed(input), NEW op \in Operations
  PROVE  /\ BlockOf(op) \in DOMAIN input.blocks /\ op \in ToSet(input.blocks[BlockOf(op)])
         /\ \A b \in DOMAIN input.blocks : op \in ToSet(input.blocks[b]) => b = BlockOf(op)
<1>1. \E b \in DOMAIN input.blocks : op \in ToSet(input.blocks[b])
  BY DEF Operations
<1>2. BlockOf(op) \in DOMAIN input.blocks /\ op \in ToSet(input.blocks[BlockOf(op)])
  BY <1>1 DEF BlockOf
<1>3. ASSUME NEW b \in DOMAIN input.blocks, op \in ToSet(input.blocks[b])
      PROVE  b = BlockOf(op)
  <2>1. \A c, d \in DOMAIN input.blocks :
          c # d => ToSet(input.blocks[c]) \cap ToSet(input.blocks[d]) = {}
    BY DEF WellFormed
  <2> HIDE DEF BlockOf
  <2> QED
    BY <1>2, <1>3, <2>1
<1> QED
  BY <1>2, <1>3

LEMMA SlotsAreNumbers ==
  ASSUME WellFormed(input)
  PROVE  Slots \in SUBSET Nat /\ NoSlot \notin Slots /\ IsFiniteSet(Slots)
<1>1. Len(input.slots) \in Nat /\ Slots = 1..Len(input.slots)
  BY DEF WellFormed, Slots
<1>2. IsFiniteSet(1..Len(input.slots))
  BY <1>1, FS_Interval
<1> QED
  BY <1>1, <1>2 DEF NoSlot

(* The writer of a slot takes none, its reader puts none. *)
LEMMA AccessIs ==
  ASSUME WellFormed(input), NEW s \in Slots, HasAccess(s)
  PROVE  /\ WriterOf(s) \in Operations /\ WriterOf(s).puts = s /\ WriterOf(s).takes = NoSlot
         /\ ReaderOf(s) \in Operations /\ ReaderOf(s).takes = s /\ ReaderOf(s).puts = NoSlot
         /\ Users(s) = {WriterOf(s), ReaderOf(s)}
<1>1. PICK w \in Users(s), r \in Users(s) :
        Users(s) = {w, r} /\ w.puts = s /\ w.takes # s /\ r.takes = s /\ r.puts # s
  BY DEF HasAccess
<1>2. WriterOf(s) = w
  BY <1>1 DEF WriterOf
<1>3. ReaderOf(s) = r
  BY <1>1 DEF ReaderOf
<1>4. w \in Operations /\ r \in Operations
  BY DEF Users
<1>5. \A op \in Operations : NoSlot \in {op.takes, op.puts}
  BY DEF WellFormed, Operations
<1>6. s # NoSlot
  BY SlotsAreNumbers
<1> QED
  BY <1>1, <1>2, <1>3, <1>4, <1>5, <1>6

LEMMA FifoIs ==
  ASSUME WellFormed(input), NEW f \in Fifos
  PROVE  /\ f \in SUBSET Nat /\ IsFiniteSet(f) /\ f # {} /\ f \subseteq Slots
         /\ \A s \in f : HasAccess(s) /\ f = FifoOf(s)
         /\ \A s, t \in f : Ends(s) = Ends(t)
<1>1. PICK u \in Slots : f = FifoOf(u)
  BY DEF Fifos
<1>2. f \subseteq Slots
  BY <1>1 DEF FifoOf
<1>3. f \in SUBSET Nat /\ IsFiniteSet(f)
  BY <1>2, SlotsAreNumbers, FS_Subset
<1>4. f # {}
  BY FS_EmptySet DEF Fifos
<1>5. \A s \in f : input.slots[s].pipeline = input.slots[u].pipeline /\ Ends(s) = Ends(u) /\ HasAccess(s)
  BY <1>1 DEF FifoOf
<1>6. \A s \in f : f = FifoOf(s)
  BY <1>1, <1>5 DEF FifoOf
<1> QED
  BY <1>2, <1>3, <1>4, <1>5, <1>6

LEMMA FifosAreApart ==
  ASSUME WellFormed(input), NEW f \in Fifos, NEW g \in Fifos, f # g
  PROVE  f \cap g = {}
BY FifoIs

(* "No op other than those touches the FIFO": its ends have no slot with a   *)
(* writer and a reader but its own.                                          *)
LEMMA OwnChannel ==
  ASSUME WellFormed(input), NEW f \in Fifos, HasKnownProtocol(f),
         NEW s \in f, NEW t \in Slots, HasAccess(t), Ends(s) = Ends(t)
  PROVE  t \in f
<1> DEFINE w == WriterOf(t)
<1>1. w \in Users(t) /\ w.puts = t
  BY AccessIs
<1>2. w \in ChannelAccesses(f)
  BY <1>1 DEF ChannelAccesses
<1>3. PICK u \in f : w \in {WriterOf(u), ReaderOf(u)}
  BY <1>2 DEF HasKnownProtocol
<1>4. u \in Slots /\ HasAccess(u)
  BY FifoIs
<1>5. WriterOf(u).puts = u /\ ReaderOf(u).puts = NoSlot /\ t # NoSlot
  BY <1>4, AccessIs, SlotsAreNumbers
<1> HIDE DEF w
<1> QED
  BY <1>1, <1>3, <1>5

-----------------------------------------------------------------------------
(* Blocks keep their operations.  *)
Permuted ==
  /\ DOMAIN blocks = DOMAIN input.blocks
  /\ \A b \in DOMAIN blocks : Simple(blocks[b]) /\ ToSet(blocks[b]) = ToSet(input.blocks[b])

LEMMA LeastPair ==
  ASSUME NEW K \in SUBSET (Nat \X Nat), K # {}
  PROVE  \E a \in K : \A b \in K : ~Precedes(b, a)
<1> DEFINE A == {a[1] : a \in K}
<1>1. PICK x \in A : \A y \in A : x <= y
  <2>1. A \in SUBSET Nat /\ A # {}
    OBVIOUS
  <2> QED
    BY <2>1, LeastNatural
<1> DEFINE B == {a[2] : a \in {c \in K : c[1] = x}}
<1>2. PICK z \in B : \A y \in B : z <= y
  <2>1. B \in SUBSET Nat /\ B # {}
    OBVIOUS
  <2> QED
    BY <2>1, LeastNatural
<1>3. PICK a \in K : a[1] = x /\ a[2] = z
  OBVIOUS
<1>4. ASSUME NEW b \in K PROVE ~Precedes(b, a)
  <2>1. b[1] \in Nat /\ b[2] \in Nat /\ a[1] \in Nat /\ a[2] \in Nat
    OBVIOUS
  <2>2. a[1] <= b[1]
    BY <1>1, <1>3
  <2>3. b[1] = x => a[2] <= b[2]
    BY <1>2, <1>3
  <2> QED
    BY <1>3, <2>1, <2>2, <2>3 DEF Precedes
<1> QED
  BY <1>4

LEMMA FirstUseIs ==
  ASSUME WellFormed(input), Permuted, NEW op \in Operations, ~EscapesBlock(op)
  PROVE  FirstUse(op) \in Nat \X Nat
<1> DEFINE list == blocks[BlockOf(op)]
<1>1. /\ op \in ToSet(list) /\ Simple(list)
      /\ \A d \in ToSet(list) : d.body \in Seq(ToSet(d.body))
  BY BlockOfIs DEF Permuted, WellFormed
<1>2. DOMAIN list \subseteq Nat /\ Position(list, op) \in Nat
  BY <1>1, PositionIs
<1>3. ASSUME NEW k \in DOMAIN list, NEW v PROVE InBody(list[k], v) \in Nat
  <2> DEFINE body == list[k].body
             users == {j \in DOMAIN body : v \in body[j]}
  <2>1. Len(body) \in Nat /\ DOMAIN body = 1..Len(body)
    BY <1>1 DEF ToSet
  <2>2. CASE users = {}
    BY <2>1, <2>2 DEF InBody
  <2>3. CASE users # {}
    <3>1. users \in SUBSET Nat
      BY <2>1
    <3>2. PICK x \in users : \A y \in users : x <= y
      BY <2>3, <3>1, LeastNatural
    <3>3. Min(users) \in users
      BY <3>2 DEF Min
    <3>4. Min(users) - 1 \in Nat
      BY <2>1, <3>3
    <3> QED
      BY <2>3, <3>4 DEF InBody
  <2> QED
    BY <2>2, <2>3
<1>4. ConsumptionKeys(op) \in SUBSET (Nat \X Nat)
  BY <1>2, <1>3 DEF ConsumptionKeys
<1>5. ConsumptionKeys(op) # {}
  BY DEF EscapesBlock
<1>6. \E a \in ConsumptionKeys(op) : \A b \in ConsumptionKeys(op) : ~Precedes(b, a)
  BY <1>4, <1>5, LeastPair
<1> QED
  BY <1>4, <1>6 DEF FirstUse

-----------------------------------------------------------------------------
(* The two sides of a FIFO that is ordered: its writers and its readers, by  *)
(* the order of consumption, in one block each.                              *)
LEMMA ConsumedIs ==
  ASSUME WellFormed(input), Permuted, NEW f \in Fifos, ~Skips(f)
  PROVE  /\ Cardinality(f) \in Nat \ {0} /\ DOMAIN Consumed(f) = 1..Cardinality(f)
         /\ \A k \in DOMAIN Consumed(f) : Consumed(f)[k] \in f
         /\ \A s \in f : \E k \in DOMAIN Consumed(f) : Consumed(f)[k] = s
         /\ \A j, k \in DOMAIN Consumed(f) : Consumed(f)[j] = Consumed(f)[k] => j = k
<1> DEFINE key == [s \in f |-> FirstUse(ReaderOf(s))]
<1>1. ASSUME NEW s \in f PROVE key[s] \in Nat \X Nat
  <2>1. ReaderOf(s) \in Operations /\ ~EscapesBlock(ReaderOf(s))
    BY FifoIs, AccessIs DEF Skips
  <2> QED
    BY <2>1, FirstUseIs
<1>2. Consumed(f) = StableSort(f, key)
  BY DEF Consumed
<1> HIDE DEF key
<1>3. f \in SUBSET Nat /\ IsFiniteSet(f) /\ f # {}
  BY FifoIs
<1>4. Sorted(Consumed(f), f, key)
  BY <1>1, <1>2, <1>3, StableSortSorts
<1>5. \A s \in f : ~Earlier(key, s, s)
  BY <1>1, <1>3, EarlierIsOrder
<1>6. Cardinality(f) # 0
  BY <1>3, FS_EmptySet
<1>7. ASSUME NEW j \in DOMAIN Consumed(f), NEW k \in DOMAIN Consumed(f), Consumed(f)[j] = Consumed(f)[k]
      PROVE  j = k
  <2>1. ~(j < k) /\ ~(k < j)
    BY <1>4, <1>5, <1>7 DEF Sorted
  <2>2. j \in Nat /\ k \in Nat
    BY <1>4 DEF Sorted
  <2> QED
    BY <2>1, <2>2
<1> QED
  BY <1>4, <1>6, <1>7 DEF Sorted

LEMMA SidesAre ==
  ASSUME WellFormed(input), Permuted, NEW f \in Fifos, ~Skips(f)
  PROVE  /\ Simple(Writers(f)) /\ Writers(f) # <<>> /\ DOMAIN Writers(f) = DOMAIN Consumed(f)
         /\ \A k \in DOMAIN Consumed(f) : Writers(f)[k] = WriterOf(Consumed(f)[k])
         /\ ToSet(Writers(f)) = {WriterOf(s) : s \in f}
         /\ Simple(Readers(f)) /\ Readers(f) # <<>> /\ DOMAIN Readers(f) = DOMAIN Consumed(f)
         /\ \A k \in DOMAIN Consumed(f) : Readers(f)[k] = ReaderOf(Consumed(f)[k])
         /\ ToSet(Readers(f)) = {ReaderOf(s) : s \in f}
<1> DEFINE q == Consumed(f)
           n == Cardinality(f)
<1>1. /\ n \in Nat \ {0} /\ DOMAIN q = 1..n
      /\ \A k \in 1..n : q[k] \in f
      /\ \A s \in f : \E k \in 1..n : q[k] = s
      /\ \A j, k \in 1..n : q[j] = q[k] => j = k
  BY ConsumedIs
<1>2. \A s \in f : WriterOf(s).puts = s /\ ReaderOf(s).takes = s
  BY FifoIs, AccessIs
<1>3. Writers(f) = [k \in 1..n |-> WriterOf(q[k])] /\ Readers(f) = [k \in 1..n |-> ReaderOf(q[k])]
  BY <1>1 DEF Writers, Readers
<1> HIDE DEF q, n
<1>4. IsInjective(Writers(f)) /\ IsInjective(Readers(f))
  BY <1>1, <1>2, <1>3 DEF IsInjective
<1>5. ToSet(Writers(f)) = {WriterOf(s) : s \in f} /\ ToSet(Readers(f)) = {ReaderOf(s) : s \in f}
  BY <1>1, <1>3 DEF ToSet
<1>6. Writers(f) \in Seq(ToSet(Writers(f))) /\ Readers(f) \in Seq(ToSet(Readers(f)))
  BY <1>1, <1>3 DEF ToSet
<1>7. Writers(f) # <<>> /\ Readers(f) # <<>>
  BY <1>1, <1>3
<1> QED
  BY <1>1, <1>3, <1>4, <1>5, <1>6, <1>7 DEF Simple, q

LEMMA BlocksAre ==
  ASSUME WellFormed(input), NEW f \in Fifos, OneBlockEach(f)
  PROVE  /\ \A s \in f : BlockOf(WriterOf(s)) = WriterBlock(f) /\ BlockOf(ReaderOf(s)) = ReaderBlock(f)
         /\ WriterBlock(f) \in DOMAIN input.blocks /\ ReaderBlock(f) \in DOMAIN input.blocks
         /\ WriterBlock(f) # ReaderBlock(f)
<1>1. \A s \in f : BlockOf(WriterOf(s)) \in WriterBlocks(f) /\ BlockOf(ReaderOf(s)) \in ReaderBlocks(f)
  BY DEF WriterBlocks, ReaderBlocks
<1>2. \A s \in f : BlockOf(WriterOf(s)) = WriterBlock(f) /\ BlockOf(ReaderOf(s)) = ReaderBlock(f)
  BY <1>1 DEF OneBlockEach
<1>3. WriterBlock(f) # ReaderBlock(f)
  BY DEF OneBlockEach
<1>4. PICK s \in f : TRUE
  BY FifoIs
<1>5. /\ BlockOf(WriterOf(s)) \in DOMAIN input.blocks
      /\ BlockOf(ReaderOf(s)) \in DOMAIN input.blocks
  BY FifoIs, AccessIs, BlockOfIs
<1> QED
  BY <1>2, <1>3, <1>5

(* What the reads use is defined outside their block, so they always move. *)
LEMMA ReadsAlwaysMove ==
  ASSUME WellFormed(input), Permuted, NEW f \in Fifos, ~Skips(f), ~input.asserts
  PROVE  ReadsMove(f)
<1> DEFINE b == ReaderBlock(f)
<1>1. b \in DOMAIN input.blocks /\ \A s \in f : BlockOf(ReaderOf(s)) = b
  BY BlocksAre DEF Skips, HasKnownProtocol
<1>2. ASSUME NEW op \in ToSet(Readers(f)), NEW v \in op.uses, NEW d \in ToSet(blocks[b])
      PROVE  ~Defines(d, v)
  <2>1. PICK s \in f : op = ReaderOf(s)
    BY SidesAre
  <2>2. op \in Operations /\ op.takes # NoSlot /\ BlockOf(op) = b
    BY <1>1, <2>1, FifoIs, AccessIs, SlotsAreNumbers
  <2>3. op \in ToSet(input.blocks[b]) /\ d \in ToSet(input.blocks[b])
    BY <1>1, <2>2, BlockOfIs DEF Permuted
  <2> QED
    BY <1>1, <2>2, <2>3 DEF WellFormed
<1>3. Len(blocks[b]) \in Nat /\ DOMAIN blocks[b] = 1..Len(blocks[b])
  BY <1>1, PositionIs DEF Permuted
<1> HIDE DEF b
<1>4. ASSUME NEW op \in ToSet(Readers(f))
      PROVE  Position(blocks[b], op) \in Nat \ {0}
  <2>1. PICK s \in f : op = ReaderOf(s)
    BY SidesAre
  <2>2. op \in Operations /\ BlockOf(op) = b
    BY <1>1, <2>1, FifoIs, AccessIs
  <2>3. op \in ToSet(blocks[b]) /\ Simple(blocks[b])
    BY <1>1, <2>2, BlockOfIs DEF Permuted
  <2> QED
    BY <1>3, <2>3, PositionIs
<1>5. FirstOf(blocks[b], Readers(f)) \in Nat \ {0}
  <2> DEFINE P == {Position(blocks[b], op) : op \in ToSet(Readers(f))}
  <2>1. P \in SUBSET Nat /\ 0 \notin P
    BY <1>4
  <2>2. P # {}
    BY SidesAre, FifoIs
  <2>3. PICK x \in P : \A y \in P : x <= y
    BY <2>1, <2>2, LeastNatural
  <2>4. Min(P) \in P
    BY <2>3 DEF Min
  <2> QED
    BY <2>1, <2>4 DEF FirstOf
<1>6. UsesDefined(blocks[b], Readers(f))
  <2>1. SUFFICES ASSUME NEW op \in ToSet(Readers(f)), NEW v \in op.uses,
                        NEW k \in FirstOf(blocks[b], Readers(f)) .. Len(blocks[b])
                 PROVE  ~Defines(blocks[b][k], v)
    BY DEF UsesDefined
  <2>2. k \in DOMAIN blocks[b]
    BY <1>3, <1>5
  <2> QED
    BY <1>2, <2>2 DEF ToSet
<1> QED
  BY <1>6 DEF ReadsMove, Movable, CanMove, b

-----------------------------------------------------------------------------
(* Both sides are brought into the order of consumption, and nothing else is *)
(* moved.                                                                    *)
LEMMA InOrderIsOrder ==
  ASSUME NEW list, Simple(list), NEW ops, Simple(ops), ToSet(ops) \subseteq ToSet(list), InOrder(list, ops),
         NEW j \in DOMAIN ops, NEW k \in DOMAIN ops
  PROVE  Before(list, ops[j], ops[k]) <=> j < k
<1>1. j \in Nat /\ k \in Nat
  BY PositionIs
<1>2. Position(list, ops[j]) \in Nat /\ Position(list, ops[k]) \in Nat
  <2>1. ops[j] \in ToSet(list) /\ ops[k] \in ToSet(list)
    BY DEF ToSet
  <2> QED
    BY <2>1, PositionIs
<1>3. /\ j < k => Before(list, ops[j], ops[k])
      /\ k < j => Before(list, ops[k], ops[j])
  BY DEF InOrder
<1> QED
  BY <1>1, <1>2, <1>3 DEF Before

OrderedTo(bs, f) ==
  /\ Rearranged(bs[WriterBlock(f)], blocks[WriterBlock(f)], Writers(f))
  /\ Rearranged(bs[ReaderBlock(f)], blocks[ReaderBlock(f)], Readers(f))
  /\ \A b \in DOMAIN blocks \ {WriterBlock(f), ReaderBlock(f)} : bs[b] = blocks[b]

LEMMA SidesInBlocks ==
  ASSUME WellFormed(input), Permuted, NEW f \in Fifos, ~Skips(f)
  PROVE  /\ WriterBlock(f) \in DOMAIN blocks /\ ToSet(Writers(f)) \subseteq ToSet(blocks[WriterBlock(f)])
         /\ ReaderBlock(f) \in DOMAIN blocks /\ ToSet(Readers(f)) \subseteq ToSet(blocks[ReaderBlock(f)])
         /\ WriterBlock(f) # ReaderBlock(f)
<1>1. /\ \A s \in f : BlockOf(WriterOf(s)) = WriterBlock(f) /\ BlockOf(ReaderOf(s)) = ReaderBlock(f)
      /\ WriterBlock(f) \in DOMAIN blocks /\ ReaderBlock(f) \in DOMAIN blocks
      /\ WriterBlock(f) # ReaderBlock(f)
  BY BlocksAre DEF Skips, HasKnownProtocol, Permuted
<1>2. \A s \in f : WriterOf(s) \in Operations /\ ReaderOf(s) \in Operations
  BY FifoIs, AccessIs
<1>3. ASSUME NEW s \in f
      PROVE  /\ WriterOf(s) \in ToSet(blocks[WriterBlock(f)])
             /\ ReaderOf(s) \in ToSet(blocks[ReaderBlock(f)])
  BY <1>1, <1>2, BlockOfIs DEF Permuted
<1> QED
  BY <1>1, <1>3, SidesAre

LEMMA OwnSlotsInStep ==
  ASSUME WellFormed(input), Permuted, NEW f \in Fifos, ~Skips(f), NEW bs, OrderedTo(bs, f),
         NEW s \in f, NEW t \in f
  PROVE  InStep(bs, s, t)
<1>1. PICK j \in DOMAIN Consumed(f), k \in DOMAIN Consumed(f) : Consumed(f)[j] = s /\ Consumed(f)[k] = t
  BY ConsumedIs
<1>2. Before(bs[WriterBlock(f)], WriterOf(s), WriterOf(t)) <=> j < k
  <2>1. Writers(f)[j] = WriterOf(s) /\ Writers(f)[k] = WriterOf(t) /\ DOMAIN Writers(f) = DOMAIN Consumed(f)
    BY <1>1, SidesAre
  <2>2. /\ Simple(bs[WriterBlock(f)]) /\ InOrder(bs[WriterBlock(f)], Writers(f)) /\ Simple(Writers(f))
        /\ ToSet(Writers(f)) \subseteq ToSet(bs[WriterBlock(f)])
    BY SidesAre, SidesInBlocks DEF OrderedTo, Rearranged
  <2> QED
    BY <2>1, <2>2, InOrderIsOrder
<1>3. Before(bs[ReaderBlock(f)], ReaderOf(s), ReaderOf(t)) <=> j < k
  <2>1. Readers(f)[j] = ReaderOf(s) /\ Readers(f)[k] = ReaderOf(t) /\ DOMAIN Readers(f) = DOMAIN Consumed(f)
    BY <1>1, SidesAre
  <2>2. /\ Simple(bs[ReaderBlock(f)]) /\ InOrder(bs[ReaderBlock(f)], Readers(f)) /\ Simple(Readers(f))
        /\ ToSet(Readers(f)) \subseteq ToSet(bs[ReaderBlock(f)])
    BY SidesAre, SidesInBlocks DEF OrderedTo, Rearranged
  <2> QED
    BY <2>1, <2>2, InOrderIsOrder
<1>4. BlockOf(WriterOf(s)) = WriterBlock(f) /\ BlockOf(ReaderOf(s)) = ReaderBlock(f)
  BY BlocksAre DEF Skips, HasKnownProtocol
<1> QED
  BY <1>2, <1>3, <1>4 DEF InStep

LEMMA OthersUnmoved ==
  ASSUME WellFormed(input), Permuted, NEW f \in Fifos, ~Skips(f), NEW bs, OrderedTo(bs, f),
         NEW s \in Slots, NEW t \in Slots, s \notin f, t \notin f, SameBlocks(s, t)
  PROVE  InStep(bs, s, t) <=> InStep(blocks, s, t)
<1>1. \A u \in f : /\ WriterOf(u).puts = u /\ WriterOf(u).takes = NoSlot
                   /\ ReaderOf(u).takes = u /\ ReaderOf(u).puts = NoSlot
  BY FifoIs, AccessIs
<1>2. \A u \in {s, t} : /\ WriterOf(u) \in Operations /\ WriterOf(u).puts = u /\ WriterOf(u).takes = NoSlot
                        /\ ReaderOf(u) \in Operations /\ ReaderOf(u).takes = u /\ ReaderOf(u).puts = NoSlot
                        /\ u # NoSlot
  BY AccessIs, SlotsAreNumbers DEF SameBlocks
<1> DEFINE others == {WriterOf(s), WriterOf(t), ReaderOf(s), ReaderOf(t)}
<1>3. \A op \in others : op \notin ToSet(Writers(f)) /\ op \notin ToSet(Readers(f))
  BY <1>1, <1>2, SidesAre
<1>4. \A op \in others : op \in Operations
  BY <1>2
<1> HIDE DEF others
<1>5. ASSUME NEW a \in others, NEW c \in others, BlockOf(a) = BlockOf(c)
      PROVE  Before(bs[BlockOf(a)], a, c) <=> Before(blocks[BlockOf(a)], a, c)
  <2> DEFINE b == BlockOf(a)
  <2>1. b \in DOMAIN blocks /\ a \in ToSet(blocks[b]) /\ c \in ToSet(blocks[b])
    BY <1>4, <1>5, BlockOfIs DEF Permuted
  <2> HIDE DEF b
  <2>2. Before(bs[b], a, c) <=> Before(blocks[b], a, c)
    <3>1. CASE b = WriterBlock(f)
      BY <1>3, <2>1, <3>1 DEF OrderedTo, Rearranged
    <3>2. CASE b = ReaderBlock(f)
      BY <1>3, <2>1, <3>2 DEF OrderedTo, Rearranged
    <3>3. CASE b \notin {WriterBlock(f), ReaderBlock(f)}
      BY <2>1, <3>3 DEF OrderedTo
    <3> QED
      BY <3>1, <3>2, <3>3
  <2> QED
    BY <2>2 DEF b
<1>6. {WriterOf(s), WriterOf(t), ReaderOf(s), ReaderOf(t)} = others
  BY DEF others
<1>7. /\ Before(bs[BlockOf(WriterOf(s))], WriterOf(s), WriterOf(t)) <=>
            Before(blocks[BlockOf(WriterOf(s))], WriterOf(s), WriterOf(t))
      /\ Before(bs[BlockOf(ReaderOf(s))], ReaderOf(s), ReaderOf(t)) <=>
            Before(blocks[BlockOf(ReaderOf(s))], ReaderOf(s), ReaderOf(t))
  BY <1>5, <1>6 DEF SameBlocks
<1> QED
  BY <1>7 DEF InStep

LEMMA StillPermuted ==
  ASSUME WellFormed(input), Permuted, NEW f \in Fifos, ~Skips(f), NEW bs, OrderedTo(bs, f)
  PROVE  \A b \in DOMAIN blocks : Simple(bs[b]) /\ ToSet(bs[b]) = ToSet(input.blocks[b])
BY SidesInBlocks DEF OrderedTo, Rearranged, Permuted

-----------------------------------------------------------------------------
(* The FIFOs to come and those in order are FIFOs of the program, and one    *)
(* block writes and one block reads each of those in order.                  *)
SlotInv ==
  /\ WellFormed(input) /\ Permuted
  /\ left \subseteq Fifos /\ ordered \subseteq Fifos /\ left \cap ordered = {}
  /\ \A f \in ordered : OneBlockEach(f)
  /\ SlotsInStep

LEMMA InitSlotInv == Init => SlotInv
<1>1. SUFFICES ASSUME Init PROVE SlotInv
  OBVIOUS
<1>2. WellFormed(input)
  BY <1>1, InputsAssumption DEF Init
<1>3. Permuted
  BY <1>1, <1>2 DEF Init, Permuted, WellFormed, Simple
<1>4. left = Fifos /\ ordered = {} /\ blocks = input.blocks
  BY <1>1 DEF Init
<1>5. SlotsInStep
  BY <1>4 DEF SlotsInStep
<1> QED
  BY <1>2, <1>3, <1>4, <1>5 DEF SlotInv

(* What depends on the program only stays the same. *)
LEMMA SameProgram ==
  ASSUME input' = input
  PROVE  /\ WellFormed(input)' <=> WellFormed(input)
         /\ Fifos' = Fifos /\ Slots' = Slots
         /\ \A f : OneBlockEach(f)' <=> OneBlockEach(f)
         /\ \A s, t : SameBlocks(s, t)' <=> SameBlocks(s, t)
         /\ \A s, t : (Ends(s) = Ends(t))' <=> Ends(s) = Ends(t)
         /\ \A bs, s, t : InStep(bs, s, t)' <=> InStep(bs, s, t)
<1>1. Operations' = Operations /\ Slots' = Slots
  BY DEF Operations, Slots
<1>2. \A s : Users(s)' = Users(s)
  BY <1>1 DEF Users
<1>3. \A s : WriterOf(s)' = WriterOf(s) /\ ReaderOf(s)' = ReaderOf(s)
  BY <1>2 DEF WriterOf, ReaderOf
<1>4. \A s : HasAccess(s)' <=> HasAccess(s)
  BY <1>2 DEF HasAccess
<1>5. \A op : BlockOf(op)' = BlockOf(op)
  BY DEF BlockOf
<1>6. \A s : Ends(s)' = Ends(s)
  BY DEF Ends
<1>7. \A s : FifoOf(s)' = FifoOf(s)
  BY <1>1, <1>4, <1>6 DEF FifoOf
<1>8. Fifos' = Fifos
  BY <1>1, <1>7 DEF Fifos
<1>9. \A f : WriterBlocks(f)' = WriterBlocks(f) /\ ReaderBlocks(f)' = ReaderBlocks(f)
  BY <1>3, <1>5 DEF WriterBlocks, ReaderBlocks
<1>10. \A f : WriterBlock(f)' = WriterBlock(f) /\ ReaderBlock(f)' = ReaderBlock(f)
  BY <1>9 DEF WriterBlock, ReaderBlock
<1>11. \A f : OneBlockEach(f)' <=> OneBlockEach(f)
  BY <1>9, <1>10 DEF OneBlockEach
<1>12. \A s, t : SameBlocks(s, t)' <=> SameBlocks(s, t)
  BY <1>3, <1>4, <1>5 DEF SameBlocks
<1>13. \A bs, s, t : InStep(bs, s, t)' <=> InStep(bs, s, t)
  BY <1>3, <1>5 DEF InStep
<1> QED
  BY <1>1, <1>6, <1>8, <1>11, <1>12, <1>13

LEMMA OrderFifoKeeps ==
  ASSUME SlotInv, OrderFifo, phase' # "aborted"
  PROVE  SlotInv'
<1>1. PICK f \in left :
        /\ Orderable(f) /\ left' = left \ {f} /\ ordered' = ordered \cup {f}
        /\ blocks' = [blocks EXCEPT
                        ![WriterBlock(f)] = Arranged(@, Writers(f)),
                        ![ReaderBlock(f)] = IF ReadsMove(f) THEN Arranged(@, Readers(f)) ELSE @]
        /\ phase' = IF input.asserts /\ ~ReadsMove(f) THEN "aborted" ELSE phase
  BY DEF OrderFifo
<1>2. input' = input /\ phase = "order"
  BY DEF OrderFifo
<1>3. WellFormed(input) /\ Permuted /\ f \in Fifos /\ ~Skips(f) /\ f \notin ordered
  BY <1>1 DEF SlotInv, Orderable
<1>4. ReadsMove(f)
  BY <1>1, <1>3, ReadsAlwaysMove
<1> DEFINE bs == blocks'
<1>5. OrderedTo(bs, f) /\ DOMAIN bs = DOMAIN blocks
  <2>1. /\ WriterBlock(f) \in DOMAIN blocks /\ ReaderBlock(f) \in DOMAIN blocks
        /\ WriterBlock(f) # ReaderBlock(f)
    BY <1>3, SidesInBlocks
  <2>2. /\ DOMAIN bs = DOMAIN blocks
        /\ bs[WriterBlock(f)] = Arranged(blocks[WriterBlock(f)], Writers(f))
        /\ bs[ReaderBlock(f)] = Arranged(blocks[ReaderBlock(f)], Readers(f))
        /\ \A b \in DOMAIN blocks \ {WriterBlock(f), ReaderBlock(f)} : bs[b] = blocks[b]
    BY <1>1, <1>4, <2>1
  <2>3. Rearranged(bs[WriterBlock(f)], blocks[WriterBlock(f)], Writers(f))
    <3>1. /\ Simple(blocks[WriterBlock(f)]) /\ Simple(Writers(f)) /\ Writers(f) # <<>>
          /\ ToSet(Writers(f)) \subseteq ToSet(blocks[WriterBlock(f)])
      BY <1>3, <2>1, SidesAre, SidesInBlocks DEF Permuted
    <3> QED
      BY <2>2, <3>1, ArrangedInOrder
  <2>4. Rearranged(bs[ReaderBlock(f)], blocks[ReaderBlock(f)], Readers(f))
    <3>1. /\ Simple(blocks[ReaderBlock(f)]) /\ Simple(Readers(f)) /\ Readers(f) # <<>>
          /\ ToSet(Readers(f)) \subseteq ToSet(blocks[ReaderBlock(f)])
      BY <1>3, <2>1, SidesAre, SidesInBlocks DEF Permuted
    <3> QED
      BY <2>2, <3>1, ArrangedInOrder
  <2> QED
    BY <2>2, <2>3, <2>4 DEF OrderedTo
<1>6. /\ \A s, t \in f : InStep(bs, s, t)
      /\ \A s, t \in Slots :
           s \notin f /\ t \notin f /\ SameBlocks(s, t) => (InStep(bs, s, t) <=> InStep(blocks, s, t))
      /\ \A b \in DOMAIN blocks : Simple(bs[b]) /\ ToSet(bs[b]) = ToSet(input.blocks[b])
  <2> HIDE DEF bs
  <2> QED
    BY <1>3, <1>5, OwnSlotsInStep, OthersUnmoved, StillPermuted
<1>7. SlotsInStep /\ HasKnownProtocol(f) /\ OneBlockEach(f)
  BY <1>3 DEF SlotInv, Skips, HasKnownProtocol
<1> HIDE DEF bs
<1>8. ASSUME NEW g \in ordered, NEW s \in g, NEW t \in g
      PROVE  InStep(bs, s, t)
  <2>1. g \in Fifos /\ OneBlockEach(g) /\ InStep(blocks, s, t)
    BY <1>2, <1>7 DEF SlotInv, SlotsInStep
  <2>2. s \notin f /\ t \notin f /\ s \in Slots /\ t \in Slots /\ HasAccess(s) /\ HasAccess(t)
    BY <1>3, <2>1, FifosAreApart, FifoIs
  <2>3. SameBlocks(s, t)
    BY <1>3, <2>1, <2>2, BlocksAre DEF SameBlocks
  <2> QED
    BY <1>6, <2>1, <2>2, <2>3
<1>9. ASSUME NEW s \in Slots, NEW t \in Slots, Ends(s) = Ends(t), SameBlocks(s, t),
             InStep(input.blocks, s, t)
      PROVE  InStep(bs, s, t)
  <2>1. InStep(blocks, s, t) /\ HasAccess(s) /\ HasAccess(t)
    BY <1>2, <1>7, <1>9 DEF SlotsInStep, SameBlocks
  <2>2. s \in f <=> t \in f
    BY <1>3, <1>7, <1>9, <2>1, OwnChannel
  <2> QED
    BY <1>6, <1>9, <2>1, <2>2
<1>10. SlotsInStep'
  <2>1. \A g \in ordered \cup {f} : \A s, t \in g : InStep(bs, s, t)
    BY <1>6, <1>8
  <2>2. \A s, t \in Slots :
          Ends(s) = Ends(t) /\ SameBlocks(s, t) /\ InStep(input.blocks, s, t) => InStep(bs, s, t)
    BY <1>9
  <2> QED
    BY <1>1, <1>2, <2>1, <2>2, SameProgram DEF SlotsInStep, bs
<1>11. Permuted'
  BY <1>2, <1>3, <1>5, <1>6 DEF Permuted, bs
<1>12. /\ left' \subseteq Fifos /\ ordered' \subseteq Fifos /\ left' \cap ordered' = {}
       /\ \A g \in ordered' : OneBlockEach(g)
  BY <1>1, <1>3, <1>7 DEF SlotInv
<1> QED
  BY <1>2, <1>3, <1>10, <1>11, <1>12, SameProgram DEF SlotInv

(* An aborted run takes no more steps. *)
SlotIInv == phase # "aborted" => SlotInv

LEMMA NextSlotInv == SlotIInv /\ [Next]_vars => SlotIInv'
<1>1. SUFFICES ASSUME SlotIInv, [Next]_vars, phase' # "aborted" PROVE SlotInv'
  BY DEF SlotIInv
<1>2. CASE OrderFifo
  <2>1. phase # "aborted"
    BY <1>2 DEF OrderFifo
  <2> QED
    BY <1>1, <1>2, <2>1, OrderFifoKeeps DEF SlotIInv
<1>3. CASE LeaveFifo \/ Finish \/ Ended \/ UNCHANGED vars
  <2>1. /\ input' = input /\ blocks' = blocks /\ ordered' = ordered /\ left' \subseteq left
        /\ phase # "aborted"
    BY <1>1, <1>3 DEF LeaveFifo, Finish, Ended, vars
  <2>2. SlotInv
    BY <1>1, <2>1 DEF SlotIInv
  <2>3. Permuted'
    BY <2>1, <2>2 DEF SlotInv, Permuted
  <2>4. SlotsInStep'
    BY <2>1, <2>2, SameProgram DEF SlotInv, SlotsInStep
  <2> QED
    BY <2>1, <2>2, <2>3, <2>4, SameProgram DEF SlotInv
<1> QED
  BY <1>1, <1>2, <1>3 DEF Next

(* However FIFOs share blocks and whatever is moved first: the slots of each *)
(* FIFO that was ordered are read in the order in which they are written,    *)
(* and slots of one channel that were in step before still are.              *)
THEOREM SlotsStayInStep == Spec => []SlotsInStep
<1>1. Init => SlotIInv
  BY InitSlotInv DEF SlotIInv
<1>2. SlotIInv => SlotsInStep
  BY DEF SlotIInv, SlotInv, SlotsInStep
<1> QED
  BY <1>1, <1>2, NextSlotInv, PTL DEF Spec
=============================================================================
