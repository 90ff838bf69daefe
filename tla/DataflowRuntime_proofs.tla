----------------------- MODULE DataflowRuntime_proofs -----------------------
(* Proofs about DataflowRuntime for every set of compiled schedules and      *)
(* every FIFO depth: what holds of every launch of a schedule whose programs *)
(* order themselves (HappensBefore!SelfOrdered).                             *)
EXTENDS DataflowInvariant, SequenceTheorems, WellFoundedInduction, TLAPS

------------------------------------------------------------------------------
(* Sequences whatever their elements are. *)

LEMMA SequenceShape ==
  ASSUME NEW s, IsSequence(s)
  PROVE  Len(s) \in Nat /\ DOMAIN s = 1..Len(s)
<1> QED
  BY DEF IsSequence

LEMMA SequenceOfItsRange == ASSUME NEW T, NEW s \in Seq(T) PROVE IsSequence(s)
<1>1. s \in [1..Len(s) -> Range(s)] /\ Len(s) \in Nat
  BY DEF Range
<1> QED
  BY <1>1, SeqDef DEF IsSequence

LEMMA EmptySequence == IsSequence(<<>>) /\ Len(<<>>) = 0 /\ <<>> \in Seq(Nat)
<1>1. Len(<<>>) = 0 /\ <<>> \in Seq(Nat)
  OBVIOUS
<1> QED
  BY <1>1, SequenceOfItsRange

LEMMA Concatenation ==
  ASSUME NEW s, IsSequence(s), NEW t, IsSequence(t)
  PROVE  /\ IsSequence(s \o t)
         /\ Len(s \o t) = Len(s) + Len(t)
         /\ \A i \in 1..Len(s) : (s \o t)[i] = s[i]
         /\ \A i \in 1..Len(t) : (s \o t)[Len(s) + i] = t[i]
<1>1. s \in Seq(Range(s) \cup Range(t)) /\ t \in Seq(Range(s) \cup Range(t))
  BY DEF IsSequence, Range
<1>2. s \o t \in Seq(Range(s) \cup Range(t))
  BY <1>1
<1>3. IsSequence(s \o t)
  BY <1>2, SequenceOfItsRange
<1> QED
  BY <1>1, <1>3

LEMMA Suffix ==
  ASSUME NEW s, IsSequence(s), NEW n \in 0..Len(s)
  PROVE  /\ IsSequence(SubSeq(s, n + 1, Len(s)))
         /\ Len(SubSeq(s, n + 1, Len(s))) = Len(s) - n
         /\ \A i \in 1..(Len(s) - n) : SubSeq(s, n + 1, Len(s))[i] = s[n + i]
<1>1. SubSeq(s, n + 1, Len(s)) \in Seq(Range(s))
  BY DEF IsSequence
<1>2. IsSequence(SubSeq(s, n + 1, Len(s)))
  BY <1>1, SequenceOfItsRange
<1> QED
  BY <1>2 DEF IsSequence

LEMMA Prefix ==
  ASSUME NEW s, IsSequence(s), NEW n \in 0..Len(s)
  PROVE  /\ IsSequence(SubSeq(s, 1, n))
         /\ Len(SubSeq(s, 1, n)) = n
         /\ \A i \in 1..n : SubSeq(s, 1, n)[i] = s[i]
<1>1. SubSeq(s, 1, n) \in Seq(Range(s))
  BY DEF IsSequence
<1>2. IsSequence(SubSeq(s, 1, n))
  BY <1>1, SequenceOfItsRange
<1> QED
  BY <1>2 DEF IsSequence

LEMMA Appended ==
  ASSUME NEW s \in Seq(Nat), NEW k \in Nat
  PROVE  /\ Append(s, k) \in Seq(Nat)
         /\ Range(Append(s, k)) = Range(s) \cup {k}
         /\ DOMAIN Append(s, k) = 1..(Len(s) + 1) /\ Len(s) \in Nat
         /\ \A i \in 1..Len(s) : Append(s, k)[i] = s[i] /\ s[i] \in Range(s)
         /\ Append(s, k)[Len(s) + 1] = k
<1>1. /\ Append(s, k) \in Seq(Nat)
      /\ DOMAIN Append(s, k) = 1..(Len(s) + 1) /\ Len(s) \in Nat /\ DOMAIN s = 1..Len(s)
      /\ \A i \in 1..Len(s) : Append(s, k)[i] = s[i]
      /\ Append(s, k)[Len(s) + 1] = k
  OBVIOUS
<1>2. \A x : x \in Range(Append(s, k)) <=> x \in Range(s) \cup {k}
  <2>1. \A x : x \in Range(s) <=> \E i \in 1..Len(s) : s[i] = x
    BY <1>1 DEF Range
  <2>2. \A x : x \in Range(Append(s, k))
                 <=> \E i \in 1..(Len(s) + 1) : Append(s, k)[i] = x
    BY <1>1 DEF Range
  <2> QED
    BY <1>1, <2>1, <2>2
<1> QED
  BY <1>1, <1>2 DEF Range

LEMMA Oldest ==
  ASSUME NEW s \in Seq(Nat), s # <<>>,
         \A i, j \in DOMAIN s : i < j => s[i] < s[j]
  PROVE  /\ Tail(s) \in Seq(Nat)
         /\ s[1] \in Range(s) /\ \A x \in Range(s) : s[1] <= x
         /\ Range(Tail(s)) = Range(s) \ {s[1]}
         /\ \A i, j \in DOMAIN Tail(s) : i < j => Tail(s)[i] < Tail(s)[j]
<1>1. /\ Len(s) \in Nat \ {0} /\ DOMAIN s = 1..Len(s)
      /\ Tail(s) \in Seq(Nat) /\ DOMAIN Tail(s) = 1..(Len(s) - 1)
      /\ \A i \in 1..(Len(s) - 1) : Tail(s)[i] = s[i + 1]
      /\ \A i \in 1..Len(s) : s[i] \in Nat
  OBVIOUS
<1>2. \A x : x \in Range(s) <=> \E i \in 1..Len(s) : s[i] = x
  BY <1>1 DEF Range
<1>3. \A x : x \in Range(Tail(s)) <=> \E i \in 1..(Len(s) - 1) : s[i + 1] = x
  BY <1>1 DEF Range
<1>4. \A i \in 1..Len(s) : i # 1 => s[1] < s[i]
  BY <1>1
<1>5. \A x : x \in Range(Tail(s)) <=> x \in Range(s) /\ x # s[1]
  <2> SUFFICES ASSUME NEW x
               PROVE  x \in Range(Tail(s)) <=> x \in Range(s) /\ x # s[1]
    OBVIOUS
  <2>1. ASSUME NEW i \in 1..(Len(s) - 1), s[i + 1] = x
        PROVE  x \in Range(s) /\ x # s[1]
    BY <1>1, <1>2, <1>4, <2>1
  <2>2. ASSUME NEW i \in 1..Len(s), s[i] = x, x # s[1]
        PROVE  \E j \in 1..(Len(s) - 1) : s[j + 1] = x
    <3>1. i - 1 \in 1..(Len(s) - 1) /\ (i - 1) + 1 = i
      BY <1>1, <2>2
    <3> QED
      BY <2>2, <3>1
  <2> QED
    BY <1>2, <1>3, <2>1, <2>2
<1>6. \A i, j \in DOMAIN Tail(s) : i < j => Tail(s)[i] < Tail(s)[j]
  BY <1>1
<1>7. \A x \in Range(s) : s[1] <= x
  BY <1>1, <1>2, <1>4
<1> QED
  BY <1>1, <1>2, <1>5, <1>6, <1>7

LEMMA SameSequence ==
  ASSUME NEW s, IsSequence(s), NEW t, IsSequence(t),
         Len(s) = Len(t), \A i \in 1..Len(s) : s[i] = t[i]
  PROVE  s = t
<1>1. s \in Seq(Range(s) \cup Range(t)) /\ t \in Seq(Range(s) \cup Range(t))
  BY DEF IsSequence, Range
<1> QED
  BY <1>1, SeqEqual

(* A nonempty set of natural numbers has a least element. *)
LEMMA LeastOf ==
  ASSUME NEW S, S \subseteq Nat, S # {}
  PROVE  Min(S) \in S /\ \A x \in S : Min(S) <= x
<1>1. PICK m \in S : \A n \in S : ~(<<n, m>> \in OpToRel(<, Nat))
  BY NatLessThanWellFounded, WFMin
<1>2. \A n \in S : m <= n
  <2> SUFFICES ASSUME NEW n \in S, ~(m <= n) PROVE FALSE
    OBVIOUS
  <2>1. n \in Nat /\ m \in Nat /\ n < m
    OBVIOUS
  <2>2. <<n, m>> \in OpToRel(<, Nat)
    BY <2>1, Zenon DEF OpToRel
  <2> QED
    BY <1>1, <2>2
<1> QED
  BY <1>2 DEF Min

------------------------------------------------------------------------------
(* What an operation is, from the shape of the programs. *)

LEMMA ProgramShape ==
  ASSUME WellFormed(Machine), NEW u \in Machine.units
  PROVE  Len(Program(u)) \in Nat /\ Places(Machine, u) = 1..Len(Program(u))
<1> QED
  BY SequenceShape DEF WellFormed, Places, Program

LEMMA StageFacts ==
  ASSUME WellFormed(Machine), TypeOK, NEW u \in Machine.units, At(u, "stage")
  PROVE  /\ pc[u] \in Places(Machine, u) /\ StageAt(Machine, u, pc[u])
         /\ Op(u) = Machine.program[u][pc[u]]
         /\ Op(u).number \in Nat
         /\ Op(u).writes \subseteq Machine.locations
         /\ Op(u).reads \subseteq [loc : Machine.locations, want : Nat]
         /\ IsFunction(Op(u).pops)
         /\ \A ch \in DOMAIN Op(u).pops : ch \in Machine.channels /\ ch[2] = u
         /\ \A ch \in DOMAIN Op(u).pushes : ch \in Machine.channels /\ ch[1] = u
<1>1. pc[u] \in 1..Len(Program(u)) /\ Op(u) = Machine.program[u][pc[u]]
      /\ Op(u).kind = "stage"
  BY DEF At, Done, TypeOK, Op, Program
<1>2. pc[u] \in Places(Machine, u)
  BY <1>1, SequenceShape DEF WellFormed, Places, Program
<1> QED
  BY <1>1, <1>2 DEF WellFormed, StageAt

LEMMA SignalFacts ==
  ASSUME WellFormed(Machine), SignalsInOrder(Machine), TypeOK,
         NEW u \in Machine.units, At(u, "signal")
  PROVE  /\ pc[u] \in Places(Machine, u) /\ SignalAt(Machine, u, pc[u])
         /\ Op(u) = Machine.program[u][pc[u]]
         /\ Op(u).number \in 1..Machine.signals
         /\ Peers(u) = Machine.peers[Op(u).number][u]
         /\ Peers(u) \subseteq Machine.units
<1>1. pc[u] \in 1..Len(Program(u)) /\ Op(u) = Machine.program[u][pc[u]]
      /\ Op(u).kind = "signal"
  BY DEF At, Done, TypeOK, Op, Program
<1>2. pc[u] \in Places(Machine, u)
  BY <1>1, SequenceShape DEF WellFormed, Places, Program
<1>3. SignalAt(Machine, u, pc[u])
  BY <1>1 DEF SignalAt
<1>4. Op(u).number \in 1..Machine.signals
  BY <1>1, <1>2, <1>3 DEF SignalsInOrder
<1>5. Peers(u) = Machine.peers[Op(u).number][u]
  BY DEF Peers
<1>6. Machine.peers[Op(u).number][u] \subseteq Machine.units
  BY <1>4 DEF SignalsInOrder
<1> QED
  BY <1>1, <1>2, <1>3, <1>4, <1>5, <1>6

(* The items that have gone through a FIFO at every place of its two units. *)
LEMMA StreamFacts ==
  ASSUME NEW c, OrderedBy(Machine, c), NEW ch \in Machine.channels
  PROVE  /\ ch[1] \in Machine.units /\ ch[2] \in Machine.units
         /\ c.put[ch] \in [1..(Len(Program(ch[1])) + 1) -> Nat]
         /\ c.take[ch] \in [1..(Len(Program(ch[2])) + 1) -> Nat]
         /\ \A i, j \in 1..(Len(Program(ch[1])) + 1) :
              i <= j => c.put[ch][i] <= c.put[ch][j]
         /\ c.put[ch][Len(Program(ch[1])) + 1] = c.take[ch][Len(Program(ch[2])) + 1]
<1>1. StreamsMatch(Machine, c) /\ WellFormed(Machine)
  BY DEF OrderedBy
<1>2. ch[1] \in Machine.units /\ ch[2] \in Machine.units
  BY <1>1 DEF WellFormed
<1> QED
  BY <1>1, <1>2 DEF StreamsMatch, Program

(* Up to any place of its program a unit has put, or taken, no more than in  *)
(* the whole launch.                                                         *)
LEMMA CountsOnTheWay ==
  ASSUME NEW c, OrderedBy(Machine, c), NEW ch \in Machine.channels
  PROVE  /\ \A i \in 1..(Len(Program(ch[1])) + 1) :
              c.put[ch][i] \in Nat /\ c.put[ch][i] <= c.put[ch][Len(Program(ch[1])) + 1]
         /\ \A i \in 1..(Len(Program(ch[2])) + 1) :
              c.take[ch][i] \in Nat /\ c.take[ch][i] <= c.take[ch][Len(Program(ch[2])) + 1]
         /\ c.put[ch][Len(Program(ch[1])) + 1] = c.take[ch][Len(Program(ch[2])) + 1]
<1>1. StreamsMatch(Machine, c) /\ WellFormed(Machine)
  BY DEF OrderedBy
<1>2. ch[1] \in Machine.units /\ ch[2] \in Machine.units
  BY <1>1 DEF WellFormed
<1>3. Len(Program(ch[1])) \in Nat /\ Len(Program(ch[2])) \in Nat
  BY <1>1, <1>2, ProgramShape
<1>4. /\ Len(Program(ch[1])) + 1 \in 1..(Len(Program(ch[1])) + 1)
      /\ Len(Program(ch[2])) + 1 \in 1..(Len(Program(ch[2])) + 1)
      /\ \A i \in 1..(Len(Program(ch[1])) + 1) : i <= Len(Program(ch[1])) + 1
      /\ \A i \in 1..(Len(Program(ch[2])) + 1) : i <= Len(Program(ch[2])) + 1
  BY <1>3
<1>5. /\ c.put[ch] \in [1..(Len(Program(ch[1])) + 1) -> Nat]
      /\ \A i, j \in 1..(Len(Program(ch[1])) + 1) :
           i <= j => c.put[ch][i] <= c.put[ch][j]
      /\ c.put[ch][Len(Program(ch[1])) + 1] = c.take[ch][Len(Program(ch[2])) + 1]
  BY StreamFacts
<1>6. /\ c.take[ch] \in [1..(Len(Program(ch[2])) + 1) -> Nat]
      /\ \A i, j \in 1..(Len(Program(ch[2])) + 1) :
           i <= j => c.take[ch][i] <= c.take[ch][j]
  BY <1>1 DEF StreamsMatch, Program
<1>7. \A i \in 1..(Len(Program(ch[1])) + 1) :
        c.put[ch][i] \in Nat /\ c.put[ch][i] <= c.put[ch][Len(Program(ch[1])) + 1]
  BY <1>4, <1>5
<1>8. \A i \in 1..(Len(Program(ch[2])) + 1) :
        c.take[ch][i] \in Nat /\ c.take[ch][i] <= c.take[ch][Len(Program(ch[2])) + 1]
  BY <1>4, <1>6
<1> QED
  BY <1>5, <1>7, <1>8

LEMMA MoreIsLater ==
  ASSUME NEW c, OrderedBy(Machine, c), NEW ch \in Machine.channels,
         NEW i \in 1..(Len(Program(ch[1])) + 1), NEW j \in 1..(Len(Program(ch[1])) + 1),
         c.put[ch][i] < c.put[ch][j]
  PROVE  i < j
<1>1. j <= i => c.put[ch][j] <= c.put[ch][i]
  BY StreamFacts
<1>2. c.put[ch][i] \in Nat /\ c.put[ch][j] \in Nat
  BY StreamFacts
<1> QED
  BY <1>1, <1>2

(* What a stage iteration takes from and puts into a FIFO. *)
LEMMA TransferFacts ==
  ASSUME NEW c, OrderedBy(Machine, c), TypeOK, NEW u \in Machine.units, At(u, "stage"),
         NEW ch \in Machine.channels
  PROVE  /\ ch[2] = u =>
              /\ TakenAt(Machine, u, pc[u], ch) =
                   IF ch \in DOMAIN Op(u).pops THEN Op(u).pops[ch] ELSE <<>>
              /\ IsSequence(TakenAt(Machine, u, pc[u], ch))
              /\ Takes(u, ch) = Len(TakenAt(Machine, u, pc[u], ch))
              /\ Takes(u, ch) \in Nat
         /\ ch[1] = u =>
              /\ Puts(u, ch) = PutAt(Machine, u, pc[u], ch)
              /\ IsSequence(Puts(u, ch))
         /\ ch[2] # u => Takes(u, ch) = 0
         /\ ch[1] # u => Puts(u, ch) = <<>>
<1>1. /\ WellFormed(Machine) /\ StreamsMatch(Machine, c)
      /\ pc[u] \in Places(Machine, u) /\ StageAt(Machine, u, pc[u])
      /\ Op(u) = Machine.program[u][pc[u]]
  BY StageFacts DEF OrderedBy
<1>2. /\ \A x \in DOMAIN Op(u).pops : x[2] = u
      /\ \A x \in DOMAIN Op(u).pushes : x[1] = u
  BY <1>1, StageFacts
<1>3. ASSUME ch[2] = u
      PROVE  /\ TakenAt(Machine, u, pc[u], ch) =
                  IF ch \in DOMAIN Op(u).pops THEN Op(u).pops[ch] ELSE <<>>
             /\ IsSequence(TakenAt(Machine, u, pc[u], ch))
  BY <1>1, <1>3 DEF StreamsMatch, TakenAt
<1>4. ASSUME ch[1] = u
      PROVE  Puts(u, ch) = PutAt(Machine, u, pc[u], ch) /\ IsSequence(Puts(u, ch))
  BY <1>1, <1>4 DEF StreamsMatch, PutAt, Puts
<1>5. ASSUME ch[2] = u
      PROVE  Takes(u, ch) = Len(TakenAt(Machine, u, pc[u], ch)) /\ Takes(u, ch) \in Nat
  <2>1. Len(<<>>) = 0
    OBVIOUS
  <2> QED
    BY <1>3, <1>5, <2>1, SequenceShape DEF Takes
<1> QED
  BY <1>2, <1>3, <1>4, <1>5 DEF Takes, Puts


(* How far that moves the two units in the FIFO's stream. *)
LEMMA StreamStep ==
  ASSUME NEW c, OrderedBy(Machine, c), TypeOK, NEW u \in Machine.units, At(u, "stage"),
         NEW ch \in Machine.channels
  PROVE  /\ ch[2] = u =>
              /\ c.take[ch][pc[u] + 1] = c.take[ch][pc[u]] + Takes(u, ch)
              /\ \A q \in 1..Takes(u, ch) :
                   c.stream[ch][c.take[ch][pc[u]] + q] = TakenAt(Machine, u, pc[u], ch)[q]
         /\ ch[1] = u =>
              /\ c.put[ch][pc[u] + 1] = c.put[ch][pc[u]] + Len(Puts(u, ch))
              /\ \A q \in 1..Len(Puts(u, ch)) :
                   c.stream[ch][c.put[ch][pc[u]] + q] = Puts(u, ch)[q]
<1>1. StreamsMatch(Machine, c) /\ pc[u] \in Places(Machine, u)
  BY StageFacts DEF OrderedBy
<1>2. ASSUME ch[2] = u
      PROVE  /\ c.take[ch][pc[u] + 1] = c.take[ch][pc[u]] + Takes(u, ch)
             /\ \A q \in 1..Takes(u, ch) :
                  c.stream[ch][c.take[ch][pc[u]] + q] = TakenAt(Machine, u, pc[u], ch)[q]
  <2>1. /\ IsSequence(TakenAt(Machine, u, pc[u], ch))
        /\ Takes(u, ch) = Len(TakenAt(Machine, u, pc[u], ch))
    BY <1>2, TransferFacts
  <2>2. DOMAIN TakenAt(Machine, u, pc[u], ch) = 1..Takes(u, ch)
    BY <2>1, SequenceShape
  <2>3. LET n == TakenAt(Machine, u, pc[u], ch)
        IN  /\ c.take[ch][pc[u] + 1] = c.take[ch][pc[u]] + Len(n)
            /\ \A q \in DOMAIN n : c.stream[ch][c.take[ch][pc[u]] + q] = n[q]
    BY <1>1, <1>2 DEF StreamsMatch
  <2> QED
    BY <2>1, <2>2, <2>3
<1>3. ASSUME ch[1] = u
      PROVE  /\ c.put[ch][pc[u] + 1] = c.put[ch][pc[u]] + Len(Puts(u, ch))
             /\ \A q \in 1..Len(Puts(u, ch)) :
                  c.stream[ch][c.put[ch][pc[u]] + q] = Puts(u, ch)[q]
  <2>1. Puts(u, ch) = PutAt(Machine, u, pc[u], ch) /\ IsSequence(Puts(u, ch))
    BY <1>3, TransferFacts
  <2>2. DOMAIN Puts(u, ch) = 1..Len(Puts(u, ch))
    BY <2>1, SequenceShape
  <2>3. /\ c.put[ch][pc[u] + 1] = c.put[ch][pc[u]] + Len(PutAt(Machine, u, pc[u], ch))
        /\ \A q \in DOMAIN PutAt(Machine, u, pc[u], ch) :
             c.stream[ch][c.put[ch][pc[u]] + q] = PutAt(Machine, u, pc[u], ch)[q]
    BY <1>1, <1>3 DEF StreamsMatch
  <2> QED
    BY <2>1, <2>2, <2>3
<1> QED
  BY <1>2, <1>3

------------------------------------------------------------------------------
LEMMA InitHolds ==
  ASSUME NEW c, OrderedBy(Machine, c), Init
  PROVE  Holds(c)
<1> USE DEF OrderedBy
<1>1. TypeOK
  <2>1. \A u \in Machine.units : Len(Program(u)) \in Nat
    BY SequenceShape DEF WellFormed, Program
  <2> QED
    BY <2>1, EmptySequence, FifoDepthAssumption DEF Init, TypeOK
<1>2. ClocksHold(c)
  BY DEF Init, ClocksHold, ClocksSound
<1>3. StreamsHold(c)
  <2> SUFFICES ASSUME NEW ch \in Machine.channels
               PROVE  /\ fifo[ch] = <<>>
                      /\ PutSoFar(c, ch) = 0 /\ TakenSoFar(c, ch) = 0
    BY DEF StreamsHold
  <2>1. ch[1] \in Machine.units /\ ch[2] \in Machine.units
    BY DEF WellFormed
  <2> QED
    BY <2>1 DEF Init, StreamsMatch, PutSoFar, TakenSoFar
<1>4. MemoryHolds(c)
  <2>1. \A cl : DoneWriters(cl) = {}
    BY DEF Init, DoneWriters, Writers, WellFormed, Places, IsSequence
  <2> QED
    BY <2>1 DEF Init, MemoryHolds
<1>5. ASSUME NEW u \in Machine.units, NEW v \in Machine.units, NEW k \in 1..Machine.signals
      PROVE  ~HasSent(u, v, k) /\ ~HasReceived(u, v, k)
  <2> SUFFICES ASSUME v \in Machine.peers[k][u]
               PROVE  ~(SignalPlace(u, k) < pc[u])
    BY DEF HasSent, HasReceived, Init
  <2>1. \E i \in Places(Machine, u) :
          SignalAt(Machine, u, i) /\ Machine.program[u][i].number = k
    BY DEF SignalsInOrder
  <2>2. SignalPlace(u, k) \in Places(Machine, u)
    BY <2>1 DEF SignalPlace, Program
  <2>3. SignalPlace(u, k) \in Nat \ {0}
    BY <2>2, SequenceShape DEF WellFormed, Places
  <2> QED
    BY <2>3 DEF Init
<1>6. SignalsHold
  BY <1>5 DEF Init, SignalsHold, SendsFirst, TokensInFlight, TokensInOrder,
              ReceivedWasSent, Range
<1>7. ReadsMatchSequential
  BY DEF Init, ReadsMatchSequential
<1> QED
  BY <1>1, <1>2, <1>3, <1>4, <1>6, <1>7 DEF Holds

------------------------------------------------------------------------------
(* Where a signal is in a program.                                           *)

LEMMA PlaceOfSignal ==
  ASSUME WellFormed(Machine), SignalsInOrder(Machine), NEW u \in Machine.units,
         NEW k \in 1..Machine.signals, Machine.peers[k][u] # {}
  PROVE  /\ SignalPlace(u, k) \in Places(Machine, u)
         /\ SignalPlace(u, k) \in 1..Len(Program(u))
         /\ SignalAt(Machine, u, SignalPlace(u, k))
         /\ Machine.program[u][SignalPlace(u, k)].number = k
<1>1. \E i \in Places(Machine, u) :
        SignalAt(Machine, u, i) /\ Machine.program[u][i].number = k
  BY DEF SignalsInOrder
<1>2. /\ SignalPlace(u, k) \in Places(Machine, u)
      /\ SignalAt(Machine, u, SignalPlace(u, k))
      /\ Machine.program[u][SignalPlace(u, k)].number = k
  BY <1>1 DEF SignalPlace, Program
<1> QED
  BY <1>2, SequenceShape DEF WellFormed, Places, Program

LEMMA PlacesInOrder ==
  ASSUME WellFormed(Machine), SignalsInOrder(Machine), NEW u \in Machine.units,
         NEW i \in Places(Machine, u), SignalAt(Machine, u, i),
         NEW j \in Places(Machine, u), SignalAt(Machine, u, j)
  PROVE  /\ i < j <=> Machine.program[u][i].number < Machine.program[u][j].number
         /\ i = j <=> Machine.program[u][i].number = Machine.program[u][j].number
<1>1. i \in Nat /\ j \in Nat
  BY SequenceShape DEF WellFormed, Places
<1>2. /\ Machine.program[u][i].number \in Nat /\ Machine.program[u][j].number \in Nat
      /\ i < j => Machine.program[u][i].number < Machine.program[u][j].number
      /\ j < i => Machine.program[u][j].number < Machine.program[u][i].number
  BY DEF WellFormed, SignalsInOrder
<1> QED
  BY <1>1, <1>2

LEMMA SignalPlacesInOrder ==
  ASSUME WellFormed(Machine), SignalsInOrder(Machine), NEW u \in Machine.units,
         NEW j \in 1..Machine.signals, Machine.peers[j][u] # {},
         NEW k \in 1..Machine.signals, Machine.peers[k][u] # {}
  PROVE  /\ SignalPlace(u, j) \in Nat /\ SignalPlace(u, k) \in Nat
         /\ SignalPlace(u, j) < SignalPlace(u, k) <=> j < k
         /\ SignalPlace(u, j) = SignalPlace(u, k) <=> j = k
<1> DEFINE x == SignalPlace(u, j)
           y == SignalPlace(u, k)
<1>1. /\ x \in Places(Machine, u) /\ x \in Nat /\ SignalAt(Machine, u, x)
      /\ Machine.program[u][x].number = j
  BY PlaceOfSignal
<1>2. /\ y \in Places(Machine, u) /\ y \in Nat /\ SignalAt(Machine, u, y)
      /\ Machine.program[u][y].number = k
  BY PlaceOfSignal
<1> HIDE DEF x, y
<1>3. (x < y <=> j < k) /\ (x = y <=> j = k)
  BY <1>1, <1>2, PlacesInOrder
<1> QED
  BY <1>1, <1>2, <1>3 DEF x, y

(* A unit at a signal is at the place of that signal. *)
LEMMA PlaceOfCurrent ==
  ASSUME WellFormed(Machine), SignalsInOrder(Machine), TypeOK,
         NEW u \in Machine.units, At(u, "signal"), Peers(u) # {}
  PROVE  SignalPlace(u, Op(u).number) = pc[u]
<1>1. /\ pc[u] \in Places(Machine, u) /\ SignalAt(Machine, u, pc[u])
      /\ Op(u).number = Machine.program[u][pc[u]].number
      /\ Op(u).number \in 1..Machine.signals
      /\ Machine.peers[Op(u).number][u] # {}
  BY SignalFacts
<1> DEFINE k == Op(u).number
           i == SignalPlace(u, k)
<1>2. k \in 1..Machine.signals /\ Machine.peers[k][u] # {}
  BY <1>1
<1> HIDE DEF k
<1>3. /\ i \in Places(Machine, u) /\ SignalAt(Machine, u, i)
      /\ Machine.program[u][i].number = k
  BY <1>2, PlaceOfSignal
<1>4. k = Machine.program[u][pc[u]].number
  BY <1>1 DEF k
<1> DEFINE j == pc[u]
<1>5. j \in Places(Machine, u) /\ SignalAt(Machine, u, j)
  BY <1>1
<1> HIDE DEF i, j
<1>6. i = j <=> Machine.program[u][i].number = Machine.program[u][j].number
  BY <1>3, <1>5, PlacesInOrder
<1> QED
  BY <1>3, <1>4, <1>6 DEF i, j, k

------------------------------------------------------------------------------
(* What the clocks say about the places the units are at.                    *)

LEMMA ClockFacts ==
  ASSUME NEW c, OrderedBy(Machine, c), NEW u \in Machine.units, NEW v \in Machine.units,
         NEW i \in 1..(Len(Program(u)) + 1)
  PROVE  /\ c.clock[u][i][v] \in Nat
         /\ \A j \in 1..(Len(Program(u)) + 1) :
              i <= j => c.clock[u][i][v] <= c.clock[u][j][v]
         /\ c.clock[u][i][u] = i
<1> QED
  BY DEF OrderedBy, ClocksSound, Program

(* An operation that waits for one that u has still to do has not been done. *)
LEMMA StillToCome ==
  ASSUME NEW c, OrderedBy(Machine, c), TypeOK, ClocksHold(c),
         NEW u \in Machine.units, NEW v \in Machine.units,
         NEW j \in 1..Len(Program(v)), Before(c, u, pc[u], v, j)
  PROVE  ~(j < pc[v])
<1>1. CASE u = v
  BY <1>1 DEF Before, TypeOK
<1>2. CASE u # v
  <2>1. pc[u] < c.clock[v][j + 1][u] /\ c.clock[v][pc[v]][u] <= pc[u]
    BY <1>2 DEF Before, ClocksHold
  <2>2. pc[v] \in 1..(Len(Program(v)) + 1) /\ Len(Program(v)) \in Nat /\ pc[u] \in Nat
    BY ProgramShape DEF TypeOK, OrderedBy
  <2>3. j + 1 <= pc[v] => c.clock[v][j + 1][u] <= c.clock[v][pc[v]][u]
    BY <2>2, ClockFacts
  <2>4. c.clock[v][j + 1][u] \in Nat /\ c.clock[v][pc[v]][u] \in Nat
    BY <2>2, ClockFacts
  <2> QED
    BY <2>1, <2>2, <2>3, <2>4
<1> QED
  BY <1>1, <1>2

(* The members of Writers. *)
LEMMA WriterFacts ==
  ASSUME NEW core, NEW l
  PROVE  /\ \A x \in Writers(Machine, core, l) :
              /\ x = <<x[1], x[2]>> /\ x[1] \in Machine.units /\ x[1][2] = core
              /\ x[2] \in Places(Machine, x[1]) /\ WritesTo(Machine, x[1], x[2], l)
         /\ \A u \in Machine.units : \A i \in Places(Machine, u) :
              u[2] = core /\ WritesTo(Machine, u, i, l)
                => <<u, i>> \in Writers(Machine, core, l)
<1> QED
  BY DEF Writers

(* A location read has the data the sequential execution finds there, once   *)
(* the reader has taken what it takes from its FIFOs.                        *)
LEMMA ReadFindsWant ==
  ASSUME NEW c, OrderedBy(Machine, c), TypeOK, ClocksHold(c), MemoryHolds(c),
         NEW u \in Machine.units, At(u, "stage"),
         \A v \in Machine.units \ {u} : c.clock[u][pc[u] + 1][v] <= pc[v],
         NEW r \in Op(u).reads
  PROVE  memory[<<u[2], r.loc>>] = r.want
<1> DEFINE cl == <<u[2], r.loc>>
           others == Writers(Machine, u[2], r.loc) \ {<<u, pc[u]>>}
<1>1. /\ pc[u] \in Places(Machine, u) /\ StageAt(Machine, u, pc[u])
      /\ Op(u) = Machine.program[u][pc[u]]
      /\ r.loc \in Machine.locations /\ pc[u] \in Nat
  BY StageFacts DEF OrderedBy, TypeOK
<1>2. cl \in Cores \X Machine.locations
  BY <1>1 DEF Cores
<1>3. \A x \in others : x[1] \in Machine.units /\ x[2] \in 1..Len(Program(x[1]))
  BY WriterFacts, ProgramShape DEF OrderedBy
<1>4. ASSUME NEW x \in others, Before(c, u, pc[u], x[1], x[2])
      PROVE  x \notin DoneWriters(cl)
  BY <1>3, <1>4, StillToCome DEF DoneWriters
<1>5. DoneWriters(cl) \subseteq others
  BY <1>1 DEF DoneWriters
<1>6. CASE r.want = 0 /\ \A x \in others : Before(c, u, pc[u], x[1], x[2])
  <2>1. DoneWriters(cl) = {}
    BY <1>4, <1>5, <1>6
  <2> QED
    BY <1>2, <1>6, <2>1 DEF MemoryHolds
<1>7. ASSUME NEW w \in others, Machine.program[w[1]][w[2]].number = r.want,
             Before(c, w[1], w[2], u, pc[u]),
             \A x \in others \ {w} :
               Before(c, x[1], x[2], w[1], w[2]) \/ Before(c, u, pc[u], x[1], x[2])
      PROVE  memory[<<u[2], r.loc>>] = r.want
  <2>1. w \in DoneWriters(cl)
    <3>1. w[2] < pc[w[1]]
      <4>1. CASE w[1] = u
        BY <1>7, <4>1 DEF Before
      <4>2. CASE w[1] # u
        <5>1. w[2] < c.clock[u][pc[u] + 1][w[1]] /\ c.clock[u][pc[u] + 1][w[1]] <= pc[w[1]]
          BY <1>3, <1>7, <4>2 DEF Before
        <5>2. c.clock[u][pc[u] + 1][w[1]] \in Nat
          <6>1. pc[u] + 1 \in 1..(Len(Program(u)) + 1)
            BY <1>1, ProgramShape DEF OrderedBy
          <6> QED
            BY <1>3, <6>1, ClockFacts
        <5> QED
          BY <1>3, <5>1, <5>2 DEF TypeOK
      <4> QED
        BY <4>1, <4>2
    <3> QED
      BY <3>1 DEF DoneWriters
  <2>2. PICK x \in DoneWriters(cl) :
          /\ memory[cl] = Program(x[1])[x[2]].number
          /\ \A y \in DoneWriters(cl) : ~Before(c, x[1], x[2], y[1], y[2])
    BY <1>2, <2>1 DEF MemoryHolds
  <2>3. x = w
    BY <1>4, <1>5, <1>7, <2>1, <2>2
  <2> QED
    BY <1>7, <2>2, <2>3 DEF Program
<1>8. \/ r.want = 0 /\ \A x \in others : Before(c, u, pc[u], x[1], x[2])
      \/ \E w \in others :
           /\ Machine.program[w[1]][w[2]].number = r.want
           /\ Before(c, w[1], w[2], u, pc[u])
           /\ \A x \in others \ {w} :
                Before(c, x[1], x[2], w[1], w[2]) \/ Before(c, u, pc[u], x[1], x[2])
  <2>1. ReadsOrdered(Machine, c) /\ r \in Machine.program[u][pc[u]].reads
    BY <1>1 DEF OrderedBy
  <2> QED
    BY <1>1, <2>1 DEF ReadsOrdered
<1> QED
  BY <1>6, <1>7, <1>8

------------------------------------------------------------------------------
(* A step that leaves the memory and the program counters alone.             *)
LEMMA MemoryUnchanged ==
  ASSUME NEW c, MemoryHolds(c), UNCHANGED <<schedule, pc, memory>>
  PROVE  MemoryHolds(c)'
<1>1. Machine' = Machine /\ Cores' = Cores
  BY DEF Machine, Cores
<1>2. \A cl : DoneWriters(cl)' = DoneWriters(cl)
  BY <1>1 DEF DoneWriters
<1> QED
  BY <1>1, <1>2 DEF MemoryHolds, Program

(* A step that leaves the tokens and the program counters alone. *)
LEMMA SignalsUnchanged ==
  ASSUME SignalsHold, UNCHANGED <<schedule, pc, sent, rcvd, token>>
  PROVE  SignalsHold'
<1>1. Machine' = Machine
  BY DEF Machine
<1>2. \A u, k : SignalPlace(u, k)' = SignalPlace(u, k)
  BY <1>1 DEF SignalPlace, Program
<1>3. \A u, v, k : /\ HasSent(u, v, k)' <=> HasSent(u, v, k)
                   /\ HasReceived(u, v, k)' <=> HasReceived(u, v, k)
  BY <1>1, <1>2 DEF HasSent, HasReceived
<1>4. \A u : /\ At(u, "signal")' <=> At(u, "signal")
             /\ Peers(u)' = Peers(u)
  BY <1>1 DEF At, Done, Op, Program, Peers
<1> QED
  BY <1>1, <1>3, <1>4 DEF SignalsHold, SendsFirst, TokensInFlight, TokensInOrder,
                          ReceivedWasSent

LEMMA BeginHolds ==
  ASSUME NEW c, OrderedBy(Machine, c), Holds(c), NEW u \in Machine.units, BeginStage(u)
  PROVE  Holds(c)'
<1> USE DEF Holds
<1>1. /\ At(u, "stage") /\ ~busy[u]
      /\ \A ch \in DOMAIN Op(u).pops : Takes(u, ch) <= Len(fifo[ch])
      /\ busy' = [busy EXCEPT ![u] = TRUE]
      /\ DOMAIN taken' = DOMAIN taken
      /\ \A v \in DOMAIN taken \ {u} : taken'[v] = taken[v]
      /\ fifo' = [ch \in DOMAIN fifo |-> SubSeq(fifo[ch], Takes(u, ch) + 1, Len(fifo[ch]))]
      /\ UNCHANGED <<schedule, pc, memory, sent, rcvd, token>>
  BY DEF BeginStage
<1>2. /\ Machine' = Machine /\ Cores' = Cores
      /\ \A v : Program(v)' = Program(v) /\ Op(v)' = Op(v)
      /\ \A v, k : At(v, k)' <=> At(v, k)
  BY <1>1 DEF Machine, Cores, Program, Op, At, Done
<1>3. WellFormed(Machine) /\ StreamsMatch(Machine, c) /\ ClocksSound(Machine, c)
  BY DEF OrderedBy
<1>4. /\ pc[u] \in Places(Machine, u) /\ StageAt(Machine, u, pc[u])
      /\ Op(u) = Machine.program[u][pc[u]]
      /\ pc[u] \in 1..Len(Program(u))
  BY <1>1, <1>3, StageFacts, ProgramShape
<1>5. ASSUME NEW ch \in Machine.channels
      PROVE  /\ Takes(u, ch) \in 0..Len(fifo[ch])
             /\ IsSequence(fifo'[ch])
             /\ Len(fifo'[ch]) = Len(fifo[ch]) - Takes(u, ch)
             /\ \A q \in DOMAIN fifo'[ch] :
                  Takes(u, ch) + q \in DOMAIN fifo[ch]
                  /\ fifo'[ch][q] = fifo[ch][Takes(u, ch) + q]
  <2>1. IsSequence(fifo[ch]) /\ Len(fifo[ch]) \in Nat /\ DOMAIN fifo[ch] = 1..Len(fifo[ch])
    BY SequenceShape DEF TypeOK
  <2>2. Takes(u, ch) \in 0..Len(fifo[ch])
    BY <1>1, <2>1, TransferFacts DEF Takes
  <2>3. fifo'[ch] = SubSeq(fifo[ch], Takes(u, ch) + 1, Len(fifo[ch]))
    BY <1>1 DEF TypeOK
  <2>4. /\ IsSequence(fifo'[ch])
        /\ Len(fifo'[ch]) = Len(fifo[ch]) - Takes(u, ch)
        /\ \A q \in 1..(Len(fifo[ch]) - Takes(u, ch)) :
             fifo'[ch][q] = fifo[ch][Takes(u, ch) + q]
    BY <2>1, <2>2, <2>3, Suffix
  <2>5. DOMAIN fifo'[ch] = 1..(Len(fifo[ch]) - Takes(u, ch))
    BY <2>4, SequenceShape
  <2> QED
    BY <2>1, <2>2, <2>4, <2>5
<1>6. TypeOK'
  <2>1. \A ch \in Machine.channels : IsSequence(fifo'[ch]) /\ Len(fifo'[ch]) <= FifoDepth
    <3> SUFFICES ASSUME NEW ch \in Machine.channels
                 PROVE  IsSequence(fifo'[ch]) /\ Len(fifo'[ch]) <= FifoDepth
      OBVIOUS
    <3>1. Len(fifo[ch]) \in Nat /\ Len(fifo[ch]) <= FifoDepth
      BY SequenceShape DEF TypeOK
    <3> QED
      BY <1>5, <3>1, FifoDepthAssumption
  <2>2. DOMAIN fifo' = Machine.channels
    BY <1>1 DEF TypeOK
  <2>3. /\ busy' \in [Machine.units -> BOOLEAN]
        /\ \A v \in Machine.units : busy'[v] => At(v, "stage")
    BY <1>1 DEF TypeOK
  <2> QED
    BY <1>1, <1>2, <2>1, <2>2, <2>3 DEF TypeOK
<1>7. ASSUME NEW ch \in Machine.channels
      PROVE  /\ PutSoFar(c, ch)' = PutSoFar(c, ch)
             /\ TakenSoFar(c, ch)' = TakenSoFar(c, ch) + Takes(u, ch)
             /\ PutSoFar(c, ch) \in Nat /\ TakenSoFar(c, ch) \in Nat
             /\ ch[2] = u => TakenSoFar(c, ch) = c.take[ch][pc[u]]
                             /\ TakenSoFar(c, ch)' = c.take[ch][pc[u] + 1]
  <2>1. ch[1] \in Machine.units /\ ch[2] \in Machine.units
    BY <1>3 DEF WellFormed
  <2>2. PutSoFar(c, ch)' = PutSoFar(c, ch) /\ PutSoFar(c, ch) \in Nat
    BY <1>1, <2>1, StreamFacts DEF PutSoFar, TypeOK
  <2>3. CASE ch[2] # u
    <3>1. Takes(u, ch) = 0
      BY <1>1, <2>3, TransferFacts
    <3>2. TakenSoFar(c, ch)' = TakenSoFar(c, ch)
      BY <1>1, <2>1, <2>3 DEF TakenSoFar, TypeOK
    <3>3. busy[ch[2]] => pc[ch[2]] + 1 \in 1..(Len(Program(ch[2])) + 1)
      BY <1>3, <2>1, ProgramShape DEF TypeOK, At, Done
    <3>4. c.take[ch] \in [1..(Len(Program(ch[2])) + 1) -> Nat]
      BY StreamFacts
    <3>5. TakenSoFar(c, ch) \in Nat
      BY <2>1, <3>3, <3>4 DEF TakenSoFar, TypeOK
    <3> QED
      BY <2>2, <2>3, <3>1, <3>2, <3>5
  <2>4. CASE ch[2] = u
    <3>1. /\ c.take[ch][pc[u] + 1] = c.take[ch][pc[u]] + Takes(u, ch)
          /\ c.take[ch][pc[u]] \in Nat
      <4>1. c.take[ch] \in [1..(Len(Program(u)) + 1) -> Nat]
        BY <2>4, StreamFacts
      <4>2. c.take[ch][pc[u] + 1] = c.take[ch][pc[u]] + Takes(u, ch)
        BY <1>1, <2>4, StreamStep
      <4> QED
        BY <4>1, <4>2 DEF TypeOK
    <3>2. TakenSoFar(c, ch) = c.take[ch][pc[u]] /\ TakenSoFar(c, ch)' = c.take[ch][pc[u] + 1]
      BY <1>1, <2>1, <2>4 DEF TakenSoFar, TypeOK
    <3> QED
      BY <2>2, <3>1, <3>2
  <2> QED
    BY <2>3, <2>4
<1>8. StreamsHold(c)'
  <2> SUFFICES ASSUME NEW ch \in Machine.channels
               PROVE  /\ Len(fifo'[ch]) = PutSoFar(c, ch)' - TakenSoFar(c, ch)'
                      /\ \A q \in DOMAIN fifo'[ch] :
                           fifo'[ch][q] = c.stream[ch][TakenSoFar(c, ch)' + q]
    BY <1>2 DEF StreamsHold
  <2>1. /\ Len(fifo[ch]) = PutSoFar(c, ch) - TakenSoFar(c, ch)
        /\ \A q \in DOMAIN fifo[ch] : fifo[ch][q] = c.stream[ch][TakenSoFar(c, ch) + q]
    BY DEF StreamsHold
  <2>2. Len(fifo'[ch]) = PutSoFar(c, ch)' - TakenSoFar(c, ch)'
    <3>1. /\ Len(fifo'[ch]) = Len(fifo[ch]) - Takes(u, ch)
          /\ Takes(u, ch) \in Nat
      BY <1>5
    <3>2. /\ PutSoFar(c, ch)' = PutSoFar(c, ch)
          /\ TakenSoFar(c, ch)' = TakenSoFar(c, ch) + Takes(u, ch)
          /\ PutSoFar(c, ch) \in Nat /\ TakenSoFar(c, ch) \in Nat
      BY <1>7
    <3> QED
      BY <2>1, <3>1, <3>2
  <2>3. ASSUME NEW q \in DOMAIN fifo'[ch]
        PROVE  fifo'[ch][q] = c.stream[ch][TakenSoFar(c, ch)' + q]
    <3>1. fifo'[ch][q] = c.stream[ch][TakenSoFar(c, ch) + (Takes(u, ch) + q)]
      BY <1>5, <2>1
    <3>2. q \in Nat
      BY <1>5, SequenceShape
    <3>3. TakenSoFar(c, ch)' + q = TakenSoFar(c, ch) + (Takes(u, ch) + q)
      BY <1>5, <1>7, <3>2
    <3> QED
      BY <3>1, <3>3
  <2> QED
    BY <2>2, <2>3
<1>9. \A v \in Machine.units \ {u} : c.clock[u][pc[u] + 1][v] <= pc[v]
  <2> SUFFICES ASSUME NEW v \in Machine.units \ {u}
               PROVE  c.clock[u][pc[u] + 1][v] <= pc[v]
    OBVIOUS
  <2>1. /\ c.clock[u][pc[u] + 1][v] \in Nat /\ c.clock[u][pc[u]][v] \in Nat
        /\ c.clock[u][pc[u]][v] <= pc[v] /\ pc[v] \in Nat
    BY <1>3, <1>4, ProgramShape, ClockFacts DEF TypeOK, ClocksHold
  <2>2. CASE c.clock[u][pc[u] + 1][v] <= c.clock[u][pc[u]][v]
    BY <2>1, <2>2
  <2>3. CASE KnownFromFifo(Machine, c, u, pc[u], v)
    <3> PICK ch \in DOMAIN Op(u).pops : \E j \in Places(Machine, ch[1]) :
            /\ c.put[ch][j] < c.take[ch][pc[u] + 1]
            /\ c.clock[u][pc[u] + 1][v] <= c.clock[ch[1]][j + 1][v]
      BY <1>4, <2>3 DEF KnownFromFifo
    <3>1. PICK j \in Places(Machine, ch[1]) :
            /\ c.put[ch][j] < c.take[ch][pc[u] + 1]
            /\ c.clock[u][pc[u] + 1][v] <= c.clock[ch[1]][j + 1][v]
      OBVIOUS
    <3> DEFINE p == ch[1]
    <3>2. /\ ch \in Machine.channels /\ ch[2] = u /\ p \in Machine.units
          /\ j \in 1..Len(Program(p)) /\ Len(Program(p)) \in Nat
          /\ pc[p] \in 1..(Len(Program(p)) + 1)
      <4>1. ch \in Machine.channels /\ ch[2] = u
        BY <1>1, <1>3, StageFacts
      <4> HIDE DEF Holds
      <4>2. p \in Machine.units
        BY <4>1, StreamFacts
      <4>3. j \in 1..Len(Program(p)) /\ Len(Program(p)) \in Nat
        <5>1. j \in Places(Machine, p)
          OBVIOUS
        <5> HIDE DEF p
        <5>2. Len(Program(p)) \in Nat /\ Places(Machine, p) = 1..Len(Program(p))
          BY ONLY <1>3, <4>2, ProgramShape
        <5> QED
          BY <5>1, <5>2
      <4>4. pc[p] \in 1..(Len(Program(p)) + 1)
        BY <4>2 DEF Holds, TypeOK
      <4> QED
        BY <4>1, <4>2, <4>3, <4>4
    <3>3. c.put[ch][j] < c.put[ch][pc[p]]
      <4>1. TakenSoFar(c, ch)' = c.take[ch][pc[u] + 1] /\ PutSoFar(c, ch)' = c.put[ch][pc[p]]
        BY <1>7, <3>2 DEF PutSoFar
      <4>2. TakenSoFar(c, ch)' <= PutSoFar(c, ch)' /\ TakenSoFar(c, ch)' \in Nat
            /\ PutSoFar(c, ch)' \in Nat
        <5>1. PutSoFar(c, ch)' - TakenSoFar(c, ch)' = Len(fifo'[ch])
          BY <1>2, <1>8, <3>2 DEF StreamsHold
        <5>2. Len(fifo'[ch]) \in Nat
          BY <1>5, <3>2, SequenceShape
        <5> QED
          BY <1>5, <1>7, <3>2, <5>1, <5>2
      <4>3. c.put[ch][j] \in Nat
        <5>1. j \in 1..(Len(Program(ch[1])) + 1)
          BY <3>2
        <5> QED
          BY <3>2, <5>1, CountsOnTheWay
      <4> QED
        BY <3>1, <4>1, <4>2, <4>3
    <3>4. j < pc[p]
      BY <3>2, <3>3, MoreIsLater
    <3>5. /\ c.clock[p][j + 1][v] <= c.clock[p][pc[p]][v]
          /\ c.clock[p][j + 1][v] \in Nat /\ c.clock[p][pc[p]][v] \in Nat
      <4>1. j + 1 \in 1..(Len(Program(p)) + 1) /\ j + 1 <= pc[p]
        BY <3>2, <3>4
      <4> HIDE DEF Holds, p
      <4> QED
        BY <3>2, <4>1, ClockFacts
    <3>6. c.clock[p][pc[p]][v] <= pc[v]
      BY <3>2 DEF ClocksHold
    <3> QED
      BY <2>1, <3>1, <3>5, <3>6
  <2>4. ~SignalAt(Machine, u, pc[u])
    BY <1>4 DEF StageAt, SignalAt
  <2> QED
    BY <1>3, <1>4, <2>2, <2>3, <2>4 DEF ClocksSound
<1>10. ClocksHold(c)'
  BY <1>1, <1>2, <1>9 DEF ClocksHold, TypeOK
<1>11. taken'[u] = Inputs(Op(u))
  <2>1. taken'[u] =
          [read |-> {[loc |-> r.loc, want |-> memory[<<u[2], r.loc>>]] : r \in Op(u).reads},
           popped |-> [ch \in DOMAIN Op(u).pops |-> SubSeq(fifo[ch], 1, Takes(u, ch))]]
    BY DEF BeginStage, TypeOK
  <2>2. {[loc |-> r.loc, want |-> memory[<<u[2], r.loc>>]] : r \in Op(u).reads} = Op(u).reads
    <3>1. \A r \in Op(u).reads : memory[<<u[2], r.loc>>] = r.want
      BY <1>1, <1>9, ReadFindsWant
    <3>2. \A r \in Op(u).reads : r = [loc |-> r.loc, want |-> r.want]
      BY <1>1, <1>3, StageFacts
    <3>3. \A r \in Op(u).reads :
            [loc |-> r.loc, want |-> memory[<<u[2], r.loc>>]] = r
      BY <3>1, <3>2
    <3> QED
      BY <3>3
  <2>3. ASSUME NEW ch \in DOMAIN Op(u).pops
        PROVE  SubSeq(fifo[ch], 1, Takes(u, ch)) = Op(u).pops[ch]
    <3> DEFINE t == Op(u).pops[ch]
    <3>1. ch \in Machine.channels /\ ch[2] = u
      BY <1>1, <1>3, StageFacts
    <3>2. t = TakenAt(Machine, u, pc[u], ch) /\ IsSequence(t) /\ Takes(u, ch) = Len(t)
      BY <1>1, <3>1, TransferFacts
    <3>3. /\ IsSequence(fifo[ch]) /\ Len(t) \in 0..Len(fifo[ch])
          /\ DOMAIN fifo[ch] = 1..Len(fifo[ch]) /\ Len(fifo[ch]) \in Nat
      BY <1>5, <3>1, <3>2, SequenceShape DEF TypeOK
    <3>4. /\ IsSequence(SubSeq(fifo[ch], 1, Len(t)))
          /\ Len(SubSeq(fifo[ch], 1, Len(t))) = Len(t)
          /\ \A q \in 1..Len(t) : SubSeq(fifo[ch], 1, Len(t))[q] = fifo[ch][q]
      BY <3>3, Prefix
    <3>5. \A q \in 1..Len(t) : fifo[ch][q] = t[q]
      <4>1. \A q \in 1..Len(t) : fifo[ch][q] = c.stream[ch][c.take[ch][pc[u]] + q]
        <5>1. \A q \in DOMAIN fifo[ch] : fifo[ch][q] = c.stream[ch][TakenSoFar(c, ch) + q]
          BY <3>1 DEF StreamsHold
        <5>2. TakenSoFar(c, ch) = c.take[ch][pc[u]]
          BY <1>7, <3>1
        <5>3. \A q \in 1..Len(t) : q \in DOMAIN fifo[ch]
          BY <3>3
        <5> QED
          BY <5>1, <5>2, <5>3
      <4> QED
        BY <1>1, <3>1, <3>2, <4>1, StreamStep
    <3> QED
      BY <3>2, <3>4, <3>5, SameSequence
  <2>4. [ch \in DOMAIN Op(u).pops |-> SubSeq(fifo[ch], 1, Takes(u, ch))] = Op(u).pops
    <3>1. Op(u).pops = [ch \in DOMAIN Op(u).pops |-> Op(u).pops[ch]]
      BY <1>1, <1>3, StageFacts DEF IsFunction
    <3> QED
      BY <2>3, <3>1
  <2> QED
    BY <2>1, <2>2, <2>4 DEF Inputs
<1>12. ReadsMatchSequential'
  BY <1>1, <1>2, <1>11 DEF ReadsMatchSequential, TypeOK, Inputs
<1>13. MemoryHolds(c)' /\ SignalsHold'
  BY <1>1, MemoryUnchanged, SignalsUnchanged
<1> QED
  BY <1>6, <1>8, <1>10, <1>12, <1>13

------------------------------------------------------------------------------
(* A unit that goes on to its next operation changes nothing between units:  *)
(* what it has sent and received stays sent and received.                    *)
LEMMA SignalsAdvance ==
  ASSUME WellFormed(Machine), SignalsInOrder(Machine), TypeOK, SignalsHold,
         NEW u \in Machine.units, ~Done(u),
         UNCHANGED <<schedule, token>>,
         pc' = [pc EXCEPT ![u] = @ + 1],
         sent' = [sent EXCEPT ![u] = {}], rcvd' = [rcvd EXCEPT ![u] = {}],
         At(u, "signal") => sent[u] = Peers(u) /\ rcvd[u] = Peers(u)
  PROVE  SignalsHold'
<1> USE DEF SignalsHold
<1>1. Machine' = Machine /\ \A v : Program(v)' = Program(v)
  BY DEF Machine, Program
<1>2. \A v, k : SignalPlace(v, k)' = SignalPlace(v, k)
  BY <1>1 DEF SignalPlace
<1>3. ASSUME NEW a \in Machine.units, NEW b \in Machine.units, NEW k \in 1..Machine.signals
      PROVE  /\ HasSent(a, b, k)' <=> HasSent(a, b, k)
             /\ HasReceived(a, b, k)' <=> HasReceived(a, b, k)
  <2>1. CASE a # u
    BY <1>1, <1>2, <2>1 DEF HasSent, HasReceived, TypeOK
  <2>2. CASE a = u /\ b \notin Machine.peers[k][u]
    BY <1>1, <2>2 DEF HasSent, HasReceived
  <2>3. CASE a = u /\ b \in Machine.peers[k][u]
    <3>1. /\ SignalPlace(u, k) \in Nat /\ pc[u] \in Nat /\ pc'[u] = pc[u] + 1
          /\ SignalAt(Machine, u, SignalPlace(u, k))
          /\ Machine.program[u][SignalPlace(u, k)].number = k
          /\ sent'[u] = {} /\ rcvd'[u] = {}
      BY <2>3, PlaceOfSignal DEF TypeOK
    <3>2. SignalPlace(u, k) = pc[u] => b \in sent[u] /\ b \in rcvd[u]
      <4> SUFFICES ASSUME SignalPlace(u, k) = pc[u] PROVE b \in sent[u] /\ b \in rcvd[u]
        OBVIOUS
      <4>1. At(u, "signal") /\ Op(u).number = k
        BY <3>1 DEF At, Op, Program, SignalAt
      <4>2. Peers(u) = Machine.peers[k][u]
        BY <4>1 DEF Peers
      <4> QED
        BY <2>3, <4>1, <4>2
    <3> QED
      BY <1>1, <1>2, <2>3, <3>1, <3>2 DEF HasSent, HasReceived
  <2> QED
    BY <2>1, <2>2, <2>3
<1>4. SendsFirst'
  <2> SUFFICES ASSUME NEW a \in Machine.units, At(a, "signal")'
               PROVE  /\ sent'[a] \subseteq Peers(a)'
                      /\ rcvd'[a] \subseteq Peers(a)'
                      /\ rcvd'[a] # {} => sent'[a] = Peers(a)'
    BY <1>1 DEF SendsFirst
  <2>1. CASE a = u
    BY <2>1 DEF TypeOK
  <2>2. CASE a # u
    <3>1. pc'[a] = pc[a] /\ sent'[a] = sent[a] /\ rcvd'[a] = rcvd[a]
      BY <2>2 DEF TypeOK
    <3>2. At(a, "signal") /\ Peers(a)' = Peers(a)
      BY <1>1, <3>1 DEF At, Done, Op, Peers
    <3> QED
      BY <3>1, <3>2 DEF SendsFirst
  <2> QED
    BY <2>1, <2>2
<1>5. TokensInFlight' /\ TokensInOrder' /\ ReceivedWasSent'
  BY <1>1, <1>3 DEF TokensInFlight, TokensInOrder, ReceivedWasSent
<1> QED
  BY <1>4, <1>5

LEMMA EndHolds ==
  ASSUME NEW c, OrderedBy(Machine, c), Holds(c), NEW u \in Machine.units, EndStage(u)
  PROVE  Holds(c)'
<1> USE DEF Holds
<1>1. /\ At(u, "stage") /\ busy[u]
      /\ \A ch \in DOMAIN Op(u).pushes : Len(fifo[ch]) + Len(Puts(u, ch)) <= FifoDepth
      /\ busy' = [busy EXCEPT ![u] = FALSE]
      /\ DOMAIN taken' = DOMAIN taken
      /\ \A v \in DOMAIN taken \ {u} : taken'[v] = taken[v]
      /\ memory' = [cl \in DOMAIN memory |->
                      IF cl[1] = u[2] /\ cl[2] \in Op(u).writes
                      THEN Op(u).number ELSE memory[cl]]
      /\ fifo' = [ch \in DOMAIN fifo |-> fifo[ch] \o Puts(u, ch)]
      /\ pc' = [pc EXCEPT ![u] = @ + 1]
      /\ UNCHANGED <<schedule, sent, rcvd, token>>
  BY DEF EndStage
<1>2. /\ Machine' = Machine /\ Cores' = Cores
      /\ \A v : Program(v)' = Program(v)
  BY <1>1 DEF Machine, Cores, Program
<1>3. WellFormed(Machine) /\ SignalsInOrder(Machine)
  BY DEF OrderedBy
<1>4. /\ pc[u] \in 1..Len(Program(u)) /\ pc[u] \in Places(Machine, u)
      /\ StageAt(Machine, u, pc[u])
      /\ Op(u) = Machine.program[u][pc[u]] /\ Op(u).number \in Nat
      /\ Len(Program(u)) \in Nat
  BY <1>1, <1>3, StageFacts, ProgramShape
<1>5. /\ pc'[u] = pc[u] + 1
      /\ \A v \in Machine.units \ {u} :
           /\ pc'[v] = pc[v] /\ busy'[v] = busy[v]
           /\ Op(v)' = Op(v) /\ \A k : At(v, k)' <=> At(v, k)
      /\ ~busy'[u] /\ sent[u] = {} /\ rcvd[u] = {}
  <2>1. ~At(u, "signal")
    BY <1>1 DEF At
  <2> QED
    BY <1>1, <1>2, <2>1 DEF TypeOK, Op, At, Done
<1>6. ASSUME NEW ch \in Machine.channels
      PROVE  /\ IsSequence(fifo'[ch])
             /\ Len(fifo'[ch]) = Len(fifo[ch]) + Len(Puts(u, ch))
             /\ Len(fifo[ch]) \in Nat /\ Len(Puts(u, ch)) \in Nat
             /\ DOMAIN fifo'[ch] = 1..(Len(fifo[ch]) + Len(Puts(u, ch)))
             /\ \A q \in 1..Len(fifo[ch]) : fifo'[ch][q] = fifo[ch][q]
             /\ \A q \in 1..Len(Puts(u, ch)) :
                  fifo'[ch][Len(fifo[ch]) + q] = Puts(u, ch)[q]
             /\ ch[1] # u => Len(Puts(u, ch)) = 0
  <2>1. IsSequence(Puts(u, ch)) /\ (ch[1] # u => Len(Puts(u, ch)) = 0)
    BY <1>1, TransferFacts, EmptySequence
  <2>2. fifo'[ch] = fifo[ch] \o Puts(u, ch) /\ IsSequence(fifo[ch])
    BY <1>1 DEF TypeOK
  <2>3. Len(fifo[ch]) \in Nat /\ Len(Puts(u, ch)) \in Nat
    BY <2>1, <2>2, SequenceShape
  <2> DEFINE s == fifo[ch] \o Puts(u, ch)
  <2>4. /\ IsSequence(s)
        /\ Len(s) = Len(fifo[ch]) + Len(Puts(u, ch))
        /\ \A q \in 1..Len(fifo[ch]) : s[q] = fifo[ch][q]
        /\ \A q \in 1..Len(Puts(u, ch)) : s[Len(fifo[ch]) + q] = Puts(u, ch)[q]
    <3> DEFINE old == fifo[ch]
               new == Puts(u, ch)
    <3>1. IsSequence(old) /\ IsSequence(new)
      BY <2>1, <2>2
    <3> HIDE DEF Holds, old, new
    <3>2. /\ IsSequence(old \o new)
          /\ Len(old \o new) = Len(old) + Len(new)
          /\ \A q \in 1..Len(old) : (old \o new)[q] = old[q]
          /\ \A q \in 1..Len(new) : (old \o new)[Len(old) + q] = new[q]
      BY ONLY <3>1, Concatenation
    <3> QED
      BY <3>2 DEF old, new
  <2>5. fifo'[ch] = s
    BY <2>2
  <2> HIDE DEF s
  <2>6. DOMAIN s = 1..Len(s)
    BY <2>4, SequenceShape
  <2> QED
    BY <2>1, <2>3, <2>4, <2>5, <2>6
<1>7. TypeOK'
  <2>1. ASSUME NEW ch \in Machine.channels
        PROVE  IsSequence(fifo'[ch]) /\ Len(fifo'[ch]) <= FifoDepth
    <3>1. CASE ch \in DOMAIN Op(u).pushes
      BY <1>1, <1>6, <3>1
    <3>2. CASE ch \notin DOMAIN Op(u).pushes
      <4>1. Len(Puts(u, ch)) = 0
        BY <3>2, EmptySequence DEF Puts
      <4>2. Len(fifo[ch]) <= FifoDepth
        BY DEF TypeOK
      <4> QED
        BY <1>6, <4>1, <4>2
    <3> QED
      BY <3>1, <3>2
  <2>2. DOMAIN fifo' = Machine.channels
    BY <1>1 DEF TypeOK
  <2>3. memory' \in [Cores \X Machine.locations -> Nat]
    BY <1>1, <1>4 DEF TypeOK
  <2>4. /\ pc' \in [Machine.units -> Nat]
        /\ \A v \in Machine.units : pc'[v] \in 1..(Len(Program(v)) + 1)
    BY <1>1, <1>4, <1>5 DEF TypeOK
  <2>5. /\ busy' \in [Machine.units -> BOOLEAN]
        /\ \A v \in Machine.units :
             /\ busy'[v] => At(v, "stage")'
             /\ sent'[v] \cup rcvd'[v] # {} => At(v, "signal")'
    BY <1>1, <1>5 DEF TypeOK
  <2> QED
    BY <1>1, <1>2, <2>1, <2>2, <2>3, <2>4, <2>5 DEF TypeOK
<1>8. ASSUME NEW ch \in Machine.channels
      PROVE  /\ TakenSoFar(c, ch)' = TakenSoFar(c, ch)
             /\ PutSoFar(c, ch)' = PutSoFar(c, ch) + Len(Puts(u, ch))
             /\ PutSoFar(c, ch) \in Nat /\ TakenSoFar(c, ch) \in Nat
             /\ ch[1] = u => PutSoFar(c, ch) = c.put[ch][pc[u]]
  <2>1. ch[1] \in Machine.units /\ ch[2] \in Machine.units
    BY StreamFacts
  <2>2. TakenSoFar(c, ch)' = TakenSoFar(c, ch)
    BY <1>1, <1>5, <2>1 DEF TakenSoFar
  <2>3. PutSoFar(c, ch) \in Nat
    BY <2>1, StreamFacts DEF PutSoFar, TypeOK
  <2>4. TakenSoFar(c, ch) \in Nat
    <3>1. busy[ch[2]] => pc[ch[2]] + 1 \in 1..(Len(Program(ch[2])) + 1)
      BY <1>3, <2>1, ProgramShape DEF TypeOK, At, Done
    <3>2. c.take[ch] \in [1..(Len(Program(ch[2])) + 1) -> Nat]
      BY StreamFacts
    <3> QED
      BY <2>1, <3>1, <3>2 DEF TakenSoFar, TypeOK
  <2>5. CASE ch[1] = u
    BY <1>1, <1>5, <2>2, <2>3, <2>4, <2>5, StreamStep DEF PutSoFar
  <2>6. CASE ch[1] # u
    BY <1>5, <1>6, <2>1, <2>2, <2>3, <2>4, <2>6 DEF PutSoFar
  <2> QED
    BY <2>5, <2>6
<1>9. StreamsHold(c)'
  <2> SUFFICES ASSUME NEW ch \in Machine.channels
               PROVE  /\ Len(fifo'[ch]) = PutSoFar(c, ch)' - TakenSoFar(c, ch)'
                      /\ \A q \in DOMAIN fifo'[ch] :
                           fifo'[ch][q] = c.stream[ch][TakenSoFar(c, ch)' + q]
    BY <1>2 DEF StreamsHold
  <2>1. /\ Len(fifo[ch]) = PutSoFar(c, ch) - TakenSoFar(c, ch)
        /\ \A q \in 1..Len(fifo[ch]) : fifo[ch][q] = c.stream[ch][TakenSoFar(c, ch) + q]
    BY SequenceShape DEF StreamsHold, TypeOK
  <2>2. Len(fifo'[ch]) = PutSoFar(c, ch)' - TakenSoFar(c, ch)'
    <3>1. /\ Len(fifo'[ch]) = Len(fifo[ch]) + Len(Puts(u, ch))
          /\ Len(Puts(u, ch)) \in Nat
      BY <1>6
    <3>2. /\ PutSoFar(c, ch)' = PutSoFar(c, ch) + Len(Puts(u, ch))
          /\ TakenSoFar(c, ch)' = TakenSoFar(c, ch)
          /\ PutSoFar(c, ch) \in Nat /\ TakenSoFar(c, ch) \in Nat
      BY <1>8
    <3> QED
      BY <2>1, <3>1, <3>2
  <2>3. ASSUME NEW q \in DOMAIN fifo'[ch]
        PROVE  fifo'[ch][q] = c.stream[ch][TakenSoFar(c, ch) + q]
    <3>1. q \in 1..(Len(fifo[ch]) + Len(Puts(u, ch)))
      BY <1>6
    <3>2. CASE q <= Len(fifo[ch])
      BY <1>6, <2>1, <3>1, <3>2
    <3>3. CASE ~(q <= Len(fifo[ch]))
      <4> DEFINE n == q - Len(fifo[ch])
      <4>1. n \in 1..Len(Puts(u, ch)) /\ q = Len(fifo[ch]) + n
        BY <1>6, <3>1, <3>3
      <4>2. ch[1] = u
        BY <1>6, <4>1
      <4>3. fifo'[ch][q] = Puts(u, ch)[n]
        BY <1>6, <4>1
      <4>4. c.stream[ch][c.put[ch][pc[u]] + n] = Puts(u, ch)[n]
        BY <1>1, <4>1, <4>2, StreamStep
      <4>5. c.put[ch][pc[u]] + n = TakenSoFar(c, ch) + q
        <5>1. /\ Len(fifo[ch]) = c.put[ch][pc[u]] - TakenSoFar(c, ch)
              /\ c.put[ch][pc[u]] \in Nat /\ TakenSoFar(c, ch) \in Nat
          BY <1>8, <2>1, <4>2
        <5>2. n \in Nat /\ q = Len(fifo[ch]) + n
          BY <1>6, <4>1
        <5> HIDE DEF n
        <5> QED
          BY <5>1, <5>2
      <4> QED
        BY <4>3, <4>4, <4>5
    <3> QED
      BY <3>2, <3>3
  <2> QED
    BY <1>8, <2>2, <2>3
<1>10. ClocksHold(c)'
  <2> SUFFICES ASSUME NEW a \in Machine.units, NEW v \in Machine.units
               PROVE  /\ c.clock[a][pc'[a]][v] <= pc'[v]
                      /\ busy'[a] /\ a # v => c.clock[a][pc'[a] + 1][v] <= pc'[v]
    BY <1>2 DEF ClocksHold
  <2>1. pc[v] \in Nat /\ pc'[v] \in Nat /\ pc[v] <= pc'[v]
    <3>1. pc[v] \in Nat
      BY DEF TypeOK
    <3> QED
      BY <1>5, <3>1
  <2>2. CASE a = u /\ v = u
    <3>1. c.clock[u][pc[u] + 1][u] = pc[u] + 1
      BY <1>4, ClockFacts
    <3> QED
      BY <1>4, <1>5, <2>2, <3>1
  <2>3. CASE a = u /\ v # u
    BY <1>1, <1>5, <2>3 DEF ClocksHold
  <2>4. CASE a # u
    <3>1. pc'[a] = pc[a] /\ busy'[a] = busy[a]
      BY <1>5, <2>4
    <3>2. c.clock[a][pc[a]][v] <= pc[v] /\ c.clock[a][pc[a]][v] \in Nat
      BY ClockFacts DEF ClocksHold, TypeOK
    <3>3. busy[a] => c.clock[a][pc[a] + 1][v] \in Nat
      <4>1. busy[a] => pc[a] + 1 \in 1..(Len(Program(a)) + 1)
        BY <1>3, ProgramShape DEF TypeOK, At, Done
      <4> QED
        BY <4>1, ClockFacts
    <3>4. busy[a] /\ a # v => c.clock[a][pc[a] + 1][v] <= pc[v]
      BY DEF ClocksHold
    <3> QED
      BY <2>1, <3>1, <3>2, <3>3, <3>4
  <2> QED
    BY <2>2, <2>3, <2>4
<1>11. MemoryHolds(c)'
  <2> SUFFICES ASSUME NEW cl \in Cores \X Machine.locations
               PROVE  \/ memory'[cl] = 0 /\ DoneWriters(cl)' = {}
                      \/ \E w \in DoneWriters(cl)' :
                           /\ memory'[cl] = Program(w[1])[w[2]].number
                           /\ \A x \in DoneWriters(cl)' : ~Before(c, w[1], w[2], x[1], x[2])
    BY <1>2 DEF MemoryHolds
  <2> DEFINE me == <<u, pc[u]>>
             all == Writers(Machine, cl[1], cl[2])
  <2>1. \A x \in all : /\ x = <<x[1], x[2]>> /\ x[1] \in Machine.units
                       /\ x[2] \in 1..Len(Program(x[1]))
                       /\ x[1][2] = cl[1] /\ WritesTo(Machine, x[1], x[2], cl[2])
    BY <1>3, WriterFacts, ProgramShape
  <2>2. me \in all <=> cl[1] = u[2] /\ cl[2] \in Op(u).writes
    BY <1>4, <2>1, WriterFacts DEF WritesTo
  <2>3. \A x \in all : x[2] < pc'[x[1]] <=> x[2] < pc[x[1]] \/ x = me
    <3> SUFFICES ASSUME NEW x \in all
                 PROVE  x[2] < pc'[x[1]] <=> x[2] < pc[x[1]] \/ x = me
      OBVIOUS
    <3>1. CASE x[1] = u
      <4>1. x[2] \in Nat /\ pc[u] \in Nat /\ x = <<u, x[2]>>
        BY <1>4, <2>1, <3>1
      <4> QED
        BY <1>5, <3>1, <4>1
    <3>2. CASE x[1] # u
      <4>1. x # me
        BY <3>2
      <4> QED
        BY <1>5, <2>1, <3>2, <4>1
    <3> QED
      BY <3>1, <3>2
  <2>4. DoneWriters(cl)' = DoneWriters(cl) \cup (all \cap {me})
    BY <1>2, <2>3 DEF DoneWriters
  <2>5. CASE me \in all
    <3>1. memory'[cl] = Op(u).number /\ Op(u).number = Program(u)[pc[u]].number
      BY <1>1, <2>2, <2>5 DEF TypeOK, Op
    <3>2. ASSUME NEW x \in DoneWriters(cl)'
          PROVE  ~Before(c, u, pc[u], x[1], x[2])
      <4>1. CASE x = me
        BY <1>4, <4>1 DEF Before
      <4>2. CASE x \in DoneWriters(cl)
        BY <2>1, <4>2, StillToCome DEF DoneWriters
      <4> QED
        BY <2>4, <4>1, <4>2
    <3> QED
      BY <2>4, <2>5, <3>1, <3>2
  <2>6. CASE me \notin all
    <3>1. memory'[cl] = memory[cl]
      BY <1>1, <2>2, <2>6 DEF TypeOK
    <3>2. DoneWriters(cl)' = DoneWriters(cl)
      BY <2>4, <2>6
    <3> QED
      BY <3>1, <3>2 DEF MemoryHolds
  <2> QED
    BY <2>5, <2>6
<1>12. SignalsHold'
  <2>1. sent' = [sent EXCEPT ![u] = {}] /\ rcvd' = [rcvd EXCEPT ![u] = {}]
    BY <1>1, <1>5 DEF TypeOK
  <2>2. ~At(u, "signal") /\ ~Done(u)
    BY <1>1 DEF At
  <2> QED
    BY <1>1, <1>3, <2>1, <2>2, SignalsAdvance
<1>13. ReadsMatchSequential'
  BY <1>1, <1>2, <1>5 DEF ReadsMatchSequential, TypeOK, Inputs
<1> QED
  BY <1>7, <1>9, <1>10, <1>11, <1>12, <1>13

------------------------------------------------------------------------------
(* Tokens leave what the stage iterations see alone.                         *)
LEMMA StagesUnchanged ==
  ASSUME NEW c, Holds(c), UNCHANGED <<schedule, pc, busy, taken, memory, fifo>>
  PROVE  ClocksHold(c)' /\ StreamsHold(c)' /\ MemoryHolds(c)' /\ ReadsMatchSequential'
<1>1. /\ Machine' = Machine
      /\ \A u : Op(u)' = Op(u)
  BY DEF Machine, Op, Program
<1>2. ClocksHold(c)'
  BY <1>1 DEF Holds, ClocksHold
<1>3. StreamsHold(c)'
  BY <1>1 DEF Holds, StreamsHold, PutSoFar, TakenSoFar
<1>4. MemoryHolds(c)'
  BY MemoryUnchanged DEF Holds
<1>5. ReadsMatchSequential'
  BY <1>1 DEF Holds, ReadsMatchSequential, Inputs
<1> QED
  BY <1>2, <1>3, <1>4, <1>5

LEMMA SendHolds ==
  ASSUME NEW c, OrderedBy(Machine, c), Holds(c),
         NEW u \in Machine.units, NEW v \in Machine.units, SyncSend(u, v)
  PROVE  Holds(c)'
<1> USE DEF Holds, SignalsHold
<1> DEFINE k == Op(u).number
           t == token[<<u, v>>]
<1>1. /\ At(u, "signal")
      /\ v \in Peers(u) \ sent[u]
      /\ sent' = [sent EXCEPT ![u] = @ \cup {v}]
      /\ token' = [token EXCEPT ![<<u, v>>] = Append(@, Op(u).number)]
      /\ UNCHANGED <<schedule, pc, busy, taken, memory, fifo, rcvd>>
  BY DEF SyncSend
<1>2. /\ Machine' = Machine /\ Cores' = Cores
      /\ \A a : Program(a)' = Program(a) /\ Op(a)' = Op(a) /\ Peers(a)' = Peers(a)
      /\ \A a, kind : At(a, kind)' <=> At(a, kind)
  BY <1>1 DEF Machine, Cores, Program, Op, Peers, At, Done
<1>3. WellFormed(Machine) /\ SignalsInOrder(Machine)
  BY DEF OrderedBy
<1>4. /\ k \in 1..Machine.signals /\ k \in Nat
      /\ Peers(u) = Machine.peers[k][u] /\ Peers(u) \subseteq Machine.units
      /\ SignalPlace(u, k) = pc[u] /\ pc[u] \in Nat
  <2>1. Peers(u) # {}
    BY <1>1
  <2>2. /\ k \in 1..Machine.signals
        /\ Peers(u) = Machine.peers[k][u] /\ Peers(u) \subseteq Machine.units
    BY <1>1, <1>3, SignalFacts
  <2>3. k \in Nat
    BY <1>3, <2>2 DEF SignalsInOrder
  <2>4. SignalPlace(u, k) = pc[u]
    BY <1>1, <1>3, <2>1, PlaceOfCurrent
  <2>5. pc[u] \in Nat
    BY DEF TypeOK
  <2> QED
    BY <2>2, <2>3, <2>4, <2>5
<1>5. t \in Seq(Nat) /\ \A i, j \in DOMAIN t : i < j => t[i] < t[j]
  BY DEF TypeOK, TokensInOrder
<1> DEFINE s == Append(t, k)
<1>a. /\ s \in Seq(Nat)
      /\ Range(s) = Range(t) \cup {k}
      /\ DOMAIN s = 1..(Len(t) + 1) /\ Len(t) \in Nat /\ DOMAIN t = 1..Len(t)
      /\ \A i \in 1..Len(t) : s[i] = t[i] /\ t[i] \in Range(t)
      /\ s[Len(t) + 1] = k
  <2>1. k \in Nat
    BY <1>4
  <2> HIDE DEF k, t
  <2> QED
    BY <1>5, <2>1, Appended
<1>6. \A a, j : SignalPlace(a, j)' = SignalPlace(a, j)
  BY <1>2 DEF SignalPlace
<1>7. ASSUME NEW a \in Machine.units, NEW b \in Machine.units, NEW j \in 1..Machine.signals
      PROVE  /\ HasReceived(a, b, j)' <=> HasReceived(a, b, j)
             /\ HasSent(a, b, j)' <=> HasSent(a, b, j) \/ (a = u /\ b = v /\ j = k)
  <2>1. HasReceived(a, b, j)' <=> HasReceived(a, b, j)
    BY <1>1, <1>2, <1>6 DEF HasReceived
  <2>2. CASE a # u \/ b # v
    BY <1>1, <1>2, <1>6, <2>1, <2>2 DEF HasSent, TypeOK
  <2>3. CASE a = u /\ b = v /\ j = k
    BY <1>1, <1>2, <1>4, <1>6, <2>1, <2>3 DEF HasSent, TypeOK
  <2>4. CASE a = u /\ b = v /\ j # k
    <3>1. v \in Machine.peers[j][u] => SignalPlace(u, j) # pc[u]
      BY <1>3, <1>4, <2>4, PlaceOfSignal DEF Op, Program
    <3> QED
      BY <1>1, <1>2, <1>6, <2>1, <2>4, <3>1 DEF HasSent
  <2> QED
    BY <2>2, <2>3, <2>4
<1>8. ~HasSent(u, v, k) /\ ~HasReceived(v, u, k)
  BY <1>1, <1>4 DEF HasSent, ReceivedWasSent
<1>9. SendsFirst'
  <2> SUFFICES ASSUME NEW a \in Machine.units, At(a, "signal")
               PROVE  /\ sent'[a] \subseteq Peers(a)
                      /\ rcvd[a] \subseteq Peers(a)
                      /\ rcvd[a] # {} => sent'[a] = Peers(a)
    BY <1>1, <1>2 DEF SendsFirst
  <2>1. CASE a = u
    BY <1>1, <2>1 DEF SendsFirst, TypeOK
  <2>2. CASE a # u
    BY <1>1, <2>2 DEF SendsFirst, TypeOK
  <2> QED
    BY <2>1, <2>2
<1>10. /\ \A x \in (Machine.units \X Machine.units) \ {<<u, v>>} : token'[x] = token[x]
       /\ token'[<<u, v>>] = s
  BY <1>1 DEF TypeOK
<1>11. TokensInFlight'
  <2> SUFFICES ASSUME NEW a \in Machine.units, NEW b \in Machine.units, NEW j \in Nat
               PROVE  j \in Range(token'[<<a, b>>])
                        <=> /\ j \in 1..Machine.signals
                            /\ HasSent(a, b, j)' /\ ~HasReceived(b, a, j)'
    BY <1>2 DEF TokensInFlight
  <2>1. j \in Range(token[<<a, b>>])
          <=> j \in 1..Machine.signals /\ HasSent(a, b, j) /\ ~HasReceived(b, a, j)
    BY DEF TokensInFlight
  <2>2. CASE <<a, b>> # <<u, v>>
    BY <1>7, <1>10, <2>1, <2>2
  <2>3. CASE <<a, b>> = <<u, v>>
    <3>1. j \in Range(token'[<<a, b>>]) <=> j \in Range(token[<<a, b>>]) \/ j = k
      BY <1>a, <1>10, <2>3
    <3> QED
      BY <1>4, <1>7, <1>8, <2>1, <2>3, <3>1
  <2> QED
    BY <2>2, <2>3
<1>12. ASSUME NEW j \in Range(t)
       PROVE  j < k
  <2>1. j \in Nat
    BY <1>5 DEF Range
  <2>2. j \in 1..Machine.signals /\ HasSent(u, v, j)
    BY <2>1 DEF TokensInFlight
  <2>3. SignalPlace(u, j) < SignalPlace(u, k)
    BY <1>1, <1>4, <2>2 DEF HasSent
  <2>4. /\ Machine.peers[j][u] # {} /\ Machine.peers[k][u] # {}
    BY <1>1, <1>4, <2>2 DEF HasSent
  <2> QED
    BY <1>3, <1>4, <2>2, <2>3, <2>4, SignalPlacesInOrder
<1>13. TokensInOrder'
  <2> SUFFICES ASSUME NEW a \in Machine.units, NEW b \in Machine.units,
                      NEW i \in DOMAIN token'[<<a, b>>], NEW j \in DOMAIN token'[<<a, b>>],
                      i < j
               PROVE  token'[<<a, b>>][i] < token'[<<a, b>>][j]
    BY <1>2 DEF TokensInOrder
  <2>1. CASE <<a, b>> # <<u, v>>
    BY <1>10, <2>1 DEF TokensInOrder
  <2>2. CASE <<a, b>> = <<u, v>>
    <3>1. token'[<<a, b>>] = s
      BY <1>10, <2>2
    <3> HIDE DEF t, k, s
    <3>2. i \in 1..(Len(t) + 1) /\ j \in 1..(Len(t) + 1) /\ i < j
      BY <1>a, <3>1
    <3>3. i \in 1..Len(t) /\ (j \in 1..Len(t) \/ j = Len(t) + 1)
      BY <1>a, <3>2
    <3>4. s[i] < s[j]
      BY <1>a, <1>5, <1>12, <3>2, <3>3
    <3> QED
      BY <3>1, <3>4
  <2> QED
    BY <2>1, <2>2
<1>14. ReceivedWasSent'
  BY <1>2, <1>7 DEF ReceivedWasSent
<1>15. TypeOK'
  <2>1. token' \in [Machine.units \X Machine.units -> Seq(Nat)]
    BY <1>1, <1>4, <1>5 DEF TypeOK
  <2>2. sent' \in [Machine.units -> SUBSET Machine.units]
    BY <1>1 DEF TypeOK
  <2>3. \A a \in Machine.units : sent'[a] \cup rcvd'[a] # {} => At(a, "signal")
    BY <1>1 DEF TypeOK
  <2> QED
    BY <1>1, <1>2, <2>1, <2>2, <2>3 DEF TypeOK
<1> QED
  BY <1>1, <1>9, <1>11, <1>13, <1>14, <1>15, StagesUnchanged

(* A unit that still has to receive from v finds its own signal's token in   *)
(* front of the others.                                                      *)
LEMMA OwnTokenFirst ==
  ASSUME NEW c, OrderedBy(Machine, c), Holds(c),
         NEW u \in Machine.units, NEW v \in Machine.units, At(u, "signal"),
         v \in Peers(u) \ rcvd[u], token[<<v, u>>] # <<>>
  PROVE  token[<<v, u>>][1] = Op(u).number
<1> USE DEF Holds, SignalsHold
<1> DEFINE k == Op(u).number
           t == token[<<v, u>>]
<1>1. WellFormed(Machine) /\ SignalsInOrder(Machine)
  BY DEF OrderedBy
<1>2. /\ k \in 1..Machine.signals /\ k \in Nat
      /\ Peers(u) = Machine.peers[k][u]
      /\ SignalPlace(u, k) = pc[u]
  <2>1. Peers(u) # {}
    OBVIOUS
  <2> QED
    BY <1>1, <2>1, SignalFacts, PlaceOfCurrent DEF SignalsInOrder
<1>3. t \in Seq(Nat) /\ \A i, j \in DOMAIN t : i < j => t[i] < t[j]
  BY DEF TypeOK, TokensInOrder
<1>4. t[1] \in Range(t) /\ \A x \in Range(t) : x \in Nat /\ t[1] <= x
  <2>1. \A x \in Range(t) : x \in Nat
    BY <1>3 DEF Range
  <2>2. t # <<>>
    OBVIOUS
  <2> HIDE DEF t
  <2> QED
    BY <1>3, <2>1, <2>2, Oldest
<1>5. ASSUME NEW j \in Range(t)
      PROVE  /\ j \in 1..Machine.signals /\ HasSent(v, u, j)
             /\ k <= j
             /\ u \in Machine.peers[j][v] /\ v \in Machine.peers[j][u]
  <2>1. j \in 1..Machine.signals /\ HasSent(v, u, j) /\ ~HasReceived(u, v, j)
    BY <1>4 DEF TokensInFlight
  <2>2. u \in Machine.peers[j][v] /\ v \in Machine.peers[j][u]
    BY <1>1, <2>1 DEF HasSent, SignalsInOrder
  <2>3. ~(SignalPlace(u, j) < SignalPlace(u, k))
    BY <1>2, <2>1, <2>2 DEF HasReceived
  <2>4. SignalPlace(u, j) < SignalPlace(u, k) <=> j < k
    BY <1>1, <1>2, <2>1, <2>2, SignalPlacesInOrder
  <2> QED
    BY <1>2, <2>1, <2>2, <2>3, <2>4
<1>6. k \in Range(t)
  <2> DEFINE j == t[1]
  <2>1. /\ j \in 1..Machine.signals /\ HasSent(v, u, j) /\ k <= j
        /\ u \in Machine.peers[j][v]
    BY <1>4, <1>5
  <2>2. u \in Machine.peers[k][v]
    BY <1>1, <1>2 DEF SignalsInOrder
  <2>3. CASE j = k
    BY <1>4, <2>3
  <2>4. CASE j # k
    <3>1. SignalPlace(v, k) < SignalPlace(v, j)
      <4>1. k < j /\ Machine.peers[j][v] # {} /\ Machine.peers[k][v] # {}
        BY <1>2, <2>1, <2>2, <2>4
      <4> QED
        BY <1>1, <1>2, <2>1, <4>1, SignalPlacesInOrder
    <3>2. /\ SignalPlace(v, k) \in Nat /\ SignalPlace(v, j) \in Nat /\ pc[v] \in Nat
      BY <1>1, <1>2, <2>1, <2>2, SignalPlacesInOrder DEF TypeOK
    <3>3. HasSent(v, u, k)
      BY <2>1, <2>2, <3>1, <3>2 DEF HasSent
    <3>4. ~HasReceived(u, v, k)
      BY <1>2 DEF HasReceived, TypeOK
    <3> QED
      BY <1>2, <3>3, <3>4 DEF TokensInFlight
  <2> QED
    BY <2>3, <2>4
<1> QED
  BY <1>2, <1>4, <1>5, <1>6

LEMMA RecvHolds ==
  ASSUME NEW c, OrderedBy(Machine, c), Holds(c),
         NEW u \in Machine.units, NEW v \in Machine.units, SyncRecv(u, v)
  PROVE  Holds(c)'
<1> USE DEF Holds, SignalsHold
<1> DEFINE k == Op(u).number
           t == token[<<v, u>>]
<1>1. /\ At(u, "signal") /\ sent[u] = Peers(u)
      /\ v \in Peers(u) \ rcvd[u]
      /\ t # <<>>
      /\ rcvd' = [rcvd EXCEPT ![u] = @ \cup {v}]
      /\ token' = [token EXCEPT ![<<v, u>>] = Tail(@)]
      /\ UNCHANGED <<schedule, pc, busy, taken, memory, fifo, sent>>
  BY DEF SyncRecv
<1>2. /\ Machine' = Machine /\ Cores' = Cores
      /\ \A a : Program(a)' = Program(a) /\ Op(a)' = Op(a) /\ Peers(a)' = Peers(a)
      /\ \A a, kind : At(a, kind)' <=> At(a, kind)
  BY <1>1 DEF Machine, Cores, Program, Op, Peers, At, Done
<1>3. WellFormed(Machine) /\ SignalsInOrder(Machine)
  BY DEF OrderedBy
<1>4. /\ k \in 1..Machine.signals
      /\ Peers(u) = Machine.peers[k][u] /\ Peers(u) \subseteq Machine.units
      /\ SignalPlace(u, k) = pc[u]
  <2>1. Peers(u) # {}
    BY <1>1
  <2>2. /\ k \in 1..Machine.signals
        /\ Peers(u) = Machine.peers[k][u] /\ Peers(u) \subseteq Machine.units
    BY <1>1, <1>3, SignalFacts
  <2>3. SignalPlace(u, k) = pc[u]
    BY <1>1, <1>3, <2>1, PlaceOfCurrent
  <2> QED
    BY <2>2, <2>3
<1>5. /\ t \in Seq(Nat) /\ t # <<>>
      /\ \A i, j \in DOMAIN t : i < j => t[i] < t[j]
  BY <1>1 DEF TypeOK, TokensInOrder
<1>6. /\ Tail(t) \in Seq(Nat)
      /\ k \in Range(t) /\ Range(Tail(t)) = Range(t) \ {k}
      /\ \A i, j \in DOMAIN Tail(t) : i < j => Tail(t)[i] < Tail(t)[j]
  <2>1. t[1] = k
    BY <1>1, OwnTokenFirst
  <2> HIDE DEF t, k
  <2> QED
    BY <1>5, <2>1, Oldest
<1>7. /\ \A x \in (Machine.units \X Machine.units) \ {<<v, u>>} : token'[x] = token[x]
      /\ token'[<<v, u>>] = Tail(t)
  BY <1>1 DEF TypeOK
<1>8. \A a, j : SignalPlace(a, j)' = SignalPlace(a, j)
  BY <1>2 DEF SignalPlace
<1>9. ASSUME NEW a \in Machine.units, NEW b \in Machine.units, NEW j \in 1..Machine.signals
      PROVE  /\ HasSent(a, b, j)' <=> HasSent(a, b, j)
             /\ HasReceived(a, b, j)'
                  <=> HasReceived(a, b, j) \/ (a = u /\ b = v /\ j = k)
  <2>1. HasSent(a, b, j)' <=> HasSent(a, b, j)
    BY <1>1, <1>2, <1>8 DEF HasSent
  <2>2. CASE a # u \/ b # v
    BY <1>1, <1>2, <1>8, <2>1, <2>2 DEF HasReceived, TypeOK
  <2>3. CASE a = u /\ b = v /\ j = k
    BY <1>1, <1>2, <1>4, <1>8, <2>1, <2>3 DEF HasReceived, TypeOK
  <2>4. CASE a = u /\ b = v /\ j # k
    <3>1. v \in Machine.peers[j][u] => SignalPlace(u, j) # pc[u]
      BY <1>3, <1>4, <2>4, PlaceOfSignal DEF Op, Program
    <3> QED
      BY <1>1, <1>2, <1>8, <2>1, <2>4, <3>1 DEF HasReceived
  <2> QED
    BY <2>2, <2>3, <2>4
<1>10. SendsFirst'
  <2> SUFFICES ASSUME NEW a \in Machine.units, At(a, "signal")
               PROVE  /\ sent[a] \subseteq Peers(a)
                      /\ rcvd'[a] \subseteq Peers(a)
                      /\ rcvd'[a] # {} => sent[a] = Peers(a)
    BY <1>1, <1>2 DEF SendsFirst
  <2>1. CASE a = u
    BY <1>1, <2>1 DEF SendsFirst, TypeOK
  <2>2. CASE a # u
    BY <1>1, <2>2 DEF SendsFirst, TypeOK
  <2> QED
    BY <2>1, <2>2
<1>11. TokensInFlight'
  <2> SUFFICES ASSUME NEW a \in Machine.units, NEW b \in Machine.units, NEW j \in Nat
               PROVE  j \in Range(token'[<<a, b>>])
                        <=> /\ j \in 1..Machine.signals
                            /\ HasSent(a, b, j)' /\ ~HasReceived(b, a, j)'
    BY <1>2 DEF TokensInFlight
  <2>1. j \in Range(token[<<a, b>>])
          <=> j \in 1..Machine.signals /\ HasSent(a, b, j) /\ ~HasReceived(b, a, j)
    BY DEF TokensInFlight
  <2>2. CASE <<a, b>> # <<v, u>>
    BY <1>7, <1>9, <2>1, <2>2
  <2>3. CASE <<a, b>> = <<v, u>>
    <3>1. j \in Range(token'[<<a, b>>]) <=> j \in Range(token[<<a, b>>]) /\ j # k
      BY <1>6, <1>7, <2>3
    <3> QED
      BY <1>9, <2>1, <2>3, <3>1
  <2> QED
    BY <2>2, <2>3
<1>12. TokensInOrder'
  <2> SUFFICES ASSUME NEW a \in Machine.units, NEW b \in Machine.units,
                      NEW i \in DOMAIN token'[<<a, b>>], NEW j \in DOMAIN token'[<<a, b>>],
                      i < j
               PROVE  token'[<<a, b>>][i] < token'[<<a, b>>][j]
    BY <1>2 DEF TokensInOrder
  <2>1. CASE <<a, b>> # <<v, u>>
    BY <1>7, <2>1 DEF TokensInOrder
  <2>2. CASE <<a, b>> = <<v, u>>
    <3>1. token'[<<a, b>>] = Tail(t)
      BY <1>7, <2>2
    <3> HIDE DEF t
    <3> QED
      BY <1>6, <3>1
  <2> QED
    BY <2>1, <2>2
<1>13. ReceivedWasSent'
  <2>1. HasSent(v, u, k)
    <3>1. k \in Range(token[<<v, u>>])
      BY <1>6
    <3>2. k \in Nat
      BY <1>3, <1>4 DEF SignalsInOrder
    <3> QED
      BY <3>1, <3>2 DEF TokensInFlight
  <2> QED
    BY <1>2, <1>9, <2>1 DEF ReceivedWasSent
<1>14. TypeOK'
  <2>1. token' \in [Machine.units \X Machine.units -> Seq(Nat)]
    BY <1>1, <1>6 DEF TypeOK
  <2>2. rcvd' \in [Machine.units -> SUBSET Machine.units]
    BY <1>1 DEF TypeOK
  <2>3. \A a \in Machine.units : sent'[a] \cup rcvd'[a] # {} => At(a, "signal")
    BY <1>1 DEF TypeOK
  <2> QED
    BY <1>1, <1>2, <2>1, <2>2, <2>3 DEF TypeOK
<1> QED
  BY <1>1, <1>10, <1>11, <1>12, <1>13, <1>14, StagesUnchanged

(* A unit that has its tokens knows how far its peers have come.             *)
LEMMA SignalTeaches ==
  ASSUME NEW c, OrderedBy(Machine, c), Holds(c), NEW u \in Machine.units,
         At(u, "signal"), rcvd[u] = Peers(u), NEW v \in Machine.units \ {u}
  PROVE  c.clock[u][pc[u] + 1][v] <= pc[v]
<1> USE DEF Holds, SignalsHold
<1> DEFINE k == Op(u).number
<1>1. WellFormed(Machine) /\ SignalsInOrder(Machine) /\ ClocksSound(Machine, c)
  BY DEF OrderedBy
<1>2. /\ pc[u] \in Places(Machine, u) /\ SignalAt(Machine, u, pc[u])
      /\ Op(u) = Machine.program[u][pc[u]]
      /\ k \in 1..Machine.signals
      /\ Peers(u) = Machine.peers[k][u] /\ Peers(u) \subseteq Machine.units
  BY <1>1, SignalFacts
<1>3. /\ pc[u] \in 1..Len(Program(u)) /\ Len(Program(u)) \in Nat
      /\ pc[v] \in Nat
  BY <1>1, <1>2, ProgramShape DEF TypeOK
<1>4. /\ c.clock[u][pc[u]][v] <= pc[v]
      /\ c.clock[u][pc[u]][v] \in Nat /\ c.clock[u][pc[u] + 1][v] \in Nat
  BY <1>3, ClockFacts DEF ClocksHold
<1>5. CASE c.clock[u][pc[u] + 1][v] <= c.clock[u][pc[u]][v]
  BY <1>3, <1>4, <1>5
<1>6. ~StageAt(Machine, u, pc[u])
  BY <1>2 DEF StageAt, SignalAt
<1>7. CASE KnownFromPeer(Machine, c, u, pc[u], v)
  <2>1. PICK w \in Machine.peers[k][u] : \E j \in Places(Machine, w) :
          /\ SignalAt(Machine, w, j) /\ Machine.program[w][j].number = k
          /\ c.clock[u][pc[u] + 1][v] <= c.clock[w][j][v]
    BY <1>2, <1>7 DEF KnownFromPeer
  <2>2. PICK j \in Places(Machine, w) :
          /\ SignalAt(Machine, w, j) /\ Machine.program[w][j].number = k
          /\ c.clock[u][pc[u] + 1][v] <= c.clock[w][j][v]
    BY <2>1
  <2>3. w \in Machine.units /\ u \in Machine.peers[k][w]
    <3>1. \A l \in 1..Machine.signals : \A x \in Machine.units :
            \A y \in Machine.peers[l][x] : x \in Machine.peers[l][y]
      BY <1>1 DEF SignalsInOrder
    <3> HIDE DEF Holds, k
    <3> QED
      BY <1>2, <3>1
  <2>4. HasReceived(u, w, k)
    <3>1. SignalPlace(u, k) = pc[u]
      BY <1>1, <1>2, PlaceOfCurrent
    <3> QED
      BY <1>2, <3>1 DEF HasReceived
  <2>5. HasSent(w, u, k)
    BY <1>2, <2>3, <2>4 DEF ReceivedWasSent
  <2>6. SignalPlace(w, k) = j
    <3>1. /\ SignalPlace(w, k) \in Places(Machine, w)
          /\ SignalAt(Machine, w, SignalPlace(w, k))
          /\ Machine.program[w][SignalPlace(w, k)].number = k
      BY <1>1, <1>2, <2>3, PlaceOfSignal
    <3> QED
      BY <1>1, <2>2, <2>3, <3>1, PlacesInOrder
  <2>7. /\ j \in 1..(Len(Program(w)) + 1) /\ j <= pc[w]
        /\ pc[w] \in 1..(Len(Program(w)) + 1)
    <3>1. /\ j \in 1..Len(Program(w)) /\ Len(Program(w)) \in Nat
          /\ pc[w] \in 1..(Len(Program(w)) + 1)
      BY <1>1, <2>3, ProgramShape DEF TypeOK
    <3>2. j < pc[w] \/ j = pc[w]
      BY <2>5, <2>6 DEF HasSent
    <3> QED
      BY <3>1, <3>2
  <2>8. /\ c.clock[w][j][v] <= c.clock[w][pc[w]][v]
        /\ c.clock[w][j][v] \in Nat /\ c.clock[w][pc[w]][v] \in Nat
    BY <2>3, <2>7, ClockFacts
  <2>9. c.clock[w][pc[w]][v] <= pc[v]
    BY <2>3 DEF ClocksHold
  <2> QED
    BY <1>3, <1>4, <2>2, <2>8, <2>9
<1> QED
  BY <1>1, <1>2, <1>5, <1>6, <1>7 DEF ClocksSound

LEMMA ProceedHolds ==
  ASSUME NEW c, OrderedBy(Machine, c), Holds(c), NEW u \in Machine.units, Proceed(u)
  PROVE  Holds(c)'
<1> USE DEF Holds
<1>1. /\ At(u, "signal") /\ sent[u] = Peers(u) /\ rcvd[u] = Peers(u)
      /\ pc' = [pc EXCEPT ![u] = @ + 1]
      /\ sent' = [sent EXCEPT ![u] = {}] /\ rcvd' = [rcvd EXCEPT ![u] = {}]
      /\ UNCHANGED <<schedule, busy, taken, memory, fifo, token>>
  BY DEF Proceed
<1>2. /\ Machine' = Machine /\ Cores' = Cores
      /\ \A v : Program(v)' = Program(v)
  BY <1>1 DEF Machine, Cores, Program
<1>3. WellFormed(Machine) /\ SignalsInOrder(Machine)
  BY DEF OrderedBy
<1>4. /\ pc[u] \in 1..Len(Program(u)) /\ pc[u] \in Places(Machine, u)
      /\ SignalAt(Machine, u, pc[u]) /\ ~StageAt(Machine, u, pc[u])
      /\ Len(Program(u)) \in Nat
  BY <1>1, <1>3, SignalFacts, ProgramShape DEF SignalAt, StageAt
<1>5. /\ pc'[u] = pc[u] + 1
      /\ \A v \in Machine.units \ {u} :
           /\ pc'[v] = pc[v] /\ sent'[v] = sent[v] /\ rcvd'[v] = rcvd[v]
           /\ Op(v)' = Op(v) /\ \A k : At(v, k)' <=> At(v, k)
      /\ ~busy[u] /\ sent'[u] = {} /\ rcvd'[u] = {}
  <2>1. ~At(u, "stage")
    BY <1>1 DEF At
  <2> QED
    BY <1>1, <1>2, <2>1 DEF TypeOK, Op, At, Done
<1>6. TypeOK'
  <2>1. /\ pc' \in [Machine.units -> Nat]
        /\ \A v \in Machine.units : pc'[v] \in 1..(Len(Program(v)) + 1)
    BY <1>1, <1>4, <1>5 DEF TypeOK
  <2>2. \A v \in Machine.units :
          /\ busy'[v] => At(v, "stage")'
          /\ sent'[v] \cup rcvd'[v] # {} => At(v, "signal")'
    BY <1>1, <1>5 DEF TypeOK
  <2>3. /\ sent' \in [Machine.units -> SUBSET Machine.units]
        /\ rcvd' \in [Machine.units -> SUBSET Machine.units]
    BY <1>1 DEF TypeOK
  <2> QED
    BY <1>1, <1>2, <2>1, <2>2, <2>3 DEF TypeOK
<1>7. ASSUME NEW ch \in Machine.channels
      PROVE  PutSoFar(c, ch)' = PutSoFar(c, ch) /\ TakenSoFar(c, ch)' = TakenSoFar(c, ch)
  <2>1. ch[1] \in Machine.units /\ ch[2] \in Machine.units
    BY StreamFacts
  <2>2. ch[1] = u => c.put[ch][pc[u] + 1] = c.put[ch][pc[u]]
    <3> SUFFICES ASSUME ch[1] = u
                 PROVE  c.put[ch][pc[u] + 1] = c.put[ch][pc[u]]
      OBVIOUS
    <3>1. Len(PutAt(Machine, u, pc[u], ch)) = 0
      BY <1>4, EmptySequence DEF PutAt
    <3>2. c.put[ch][pc[u] + 1] = c.put[ch][pc[u]] + Len(PutAt(Machine, u, pc[u], ch))
      BY <1>4 DEF OrderedBy, StreamsMatch
    <3>3. c.put[ch][pc[u]] \in Nat
      BY <1>4, StreamFacts
    <3> QED
      BY <3>1, <3>2, <3>3
  <2>3. ch[2] = u => c.take[ch][pc[u] + 1] = c.take[ch][pc[u]]
    <3> SUFFICES ASSUME ch[2] = u
                 PROVE  c.take[ch][pc[u] + 1] = c.take[ch][pc[u]]
      OBVIOUS
    <3>1. Len(TakenAt(Machine, u, pc[u], ch)) = 0
      BY <1>4, EmptySequence DEF TakenAt
    <3>2. c.take[ch][pc[u] + 1] = c.take[ch][pc[u]] + Len(TakenAt(Machine, u, pc[u], ch))
      BY <1>4 DEF OrderedBy, StreamsMatch
    <3>3. c.take[ch][pc[u]] \in Nat
      BY <1>4, StreamFacts
    <3> QED
      BY <3>1, <3>2, <3>3
  <2>4. PutSoFar(c, ch)' = PutSoFar(c, ch)
    BY <1>5, <2>1, <2>2 DEF PutSoFar
  <2>5. TakenSoFar(c, ch)' = TakenSoFar(c, ch)
    <3>1. CASE ch[2] = u
      BY <1>1, <1>5, <2>3, <3>1 DEF TakenSoFar
    <3>2. CASE ch[2] # u
      BY <1>1, <1>5, <2>1, <3>2 DEF TakenSoFar
    <3> QED
      BY <3>1, <3>2
  <2> QED
    BY <2>4, <2>5
<1>8. StreamsHold(c)'
  BY <1>1, <1>2, <1>7 DEF StreamsHold
<1>9. ClocksHold(c)'
  <2> SUFFICES ASSUME NEW a \in Machine.units, NEW v \in Machine.units
               PROVE  /\ c.clock[a][pc'[a]][v] <= pc'[v]
                      /\ busy[a] /\ a # v => c.clock[a][pc'[a] + 1][v] <= pc'[v]
    BY <1>1, <1>2 DEF ClocksHold
  <2>1. pc[v] \in Nat /\ pc'[v] \in Nat /\ pc[v] <= pc'[v]
    <3>1. pc[v] \in Nat
      BY DEF TypeOK
    <3> QED
      BY <1>5, <3>1
  <2>2. CASE a = u /\ v = u
    <3>1. c.clock[u][pc[u] + 1][u] = pc[u] + 1
      BY <1>4, ClockFacts
    <3> QED
      BY <1>4, <1>5, <2>2, <3>1
  <2>3. CASE a = u /\ v # u
    <3>1. c.clock[u][pc[u] + 1][v] <= pc[v]
      BY <1>1, <2>3, SignalTeaches
    <3> QED
      BY <1>5, <2>3, <3>1
  <2>4. CASE a # u
    <3>1. pc'[a] = pc[a]
      BY <1>5, <2>4
    <3>2. c.clock[a][pc[a]][v] <= pc[v] /\ c.clock[a][pc[a]][v] \in Nat
      BY ClockFacts DEF ClocksHold, TypeOK
    <3>3. busy[a] => c.clock[a][pc[a] + 1][v] \in Nat
      <4>1. busy[a] => pc[a] + 1 \in 1..(Len(Program(a)) + 1)
        BY <1>3, ProgramShape DEF TypeOK, At, Done
      <4> QED
        BY <4>1, ClockFacts
    <3>4. busy[a] /\ a # v => c.clock[a][pc[a] + 1][v] <= pc[v]
      BY DEF ClocksHold
    <3> QED
      BY <2>1, <3>1, <3>2, <3>3, <3>4
  <2> QED
    BY <2>2, <2>3, <2>4
<1>10. MemoryHolds(c)'
  <2>1. ASSUME NEW cl
        PROVE  DoneWriters(cl)' = DoneWriters(cl)
    <3> DEFINE all == Writers(Machine, cl[1], cl[2])
    <3> SUFFICES ASSUME NEW x \in all
                 PROVE  x[2] < pc'[x[1]] <=> x[2] < pc[x[1]]
      BY <1>2 DEF DoneWriters
    <3>1. /\ x[1] \in Machine.units /\ x[2] \in 1..Len(Program(x[1]))
          /\ StageAt(Machine, x[1], x[2])
      BY <1>3, WriterFacts, ProgramShape DEF WritesTo
    <3>2. CASE x[1] = u
      <4>1. x[2] # pc[u]
        BY <1>4, <3>1, <3>2
      <4>2. x[2] \in Nat /\ pc[u] \in Nat
        BY <1>4, <3>1
      <4> QED
        BY <1>5, <3>2, <4>1, <4>2
    <3>3. CASE x[1] # u
      BY <1>5, <3>1, <3>3
    <3> QED
      BY <3>2, <3>3
  <2> QED
    BY <1>1, <1>2, <2>1 DEF MemoryHolds
<1>11. SignalsHold'
  <2>1. ~Done(u)
    BY <1>1 DEF At
  <2> QED
    BY <1>1, <1>3, <2>1, SignalsAdvance
<1>12. ReadsMatchSequential'
  BY <1>1, <1>2, <1>5 DEF ReadsMatchSequential, Inputs
<1> QED
  BY <1>6, <1>8, <1>9, <1>10, <1>11, <1>12

------------------------------------------------------------------------------
(* The invariant is inductive: every action of every unit keeps it, with the *)
(* certificate the launch began with.                                        *)

LEMMA InvInit == Init /\ SelfOrdered(Machine) => DataflowInv
<1> SUFFICES ASSUME Init, NEW c, OrderedBy(Machine, c) PROVE DataflowInv
  BY DEF SelfOrdered
<1> QED
  BY InitHolds DEF DataflowInv

LEMMA StepHolds ==
  ASSUME NEW c, OrderedBy(Machine, c), Holds(c), [Next]_vars
  PROVE  Holds(c)' /\ Machine' = Machine
<1>1. ASSUME NEW u \in Machine.units, BeginStage(u)
      PROVE  Holds(c)' /\ Machine' = Machine
  BY <1>1, BeginHolds DEF BeginStage, Machine
<1>2. ASSUME NEW u \in Machine.units, EndStage(u)
      PROVE  Holds(c)' /\ Machine' = Machine
  BY <1>2, EndHolds DEF EndStage, Machine
<1>3. ASSUME NEW u \in Machine.units, Proceed(u)
      PROVE  Holds(c)' /\ Machine' = Machine
  BY <1>3, ProceedHolds DEF Proceed, Machine
<1>4. ASSUME NEW u \in Machine.units, NEW v \in Machine.units, SyncSend(u, v)
      PROVE  Holds(c)' /\ Machine' = Machine
  BY <1>4, SendHolds DEF SyncSend, Machine
<1>5. ASSUME NEW u \in Machine.units, NEW v \in Machine.units, SyncRecv(u, v)
      PROVE  Holds(c)' /\ Machine' = Machine
  BY <1>5, RecvHolds DEF SyncRecv, Machine
<1>6. ASSUME UNCHANGED vars
      PROVE  Holds(c)' /\ Machine' = Machine
  <2>1. /\ UNCHANGED <<schedule, pc, busy, taken, memory, fifo, sent, rcvd, token>>
        /\ Machine' = Machine
    BY <1>6 DEF vars, Machine
  <2>2. TypeOK'
    BY <2>1 DEF Holds, TypeOK, Cores, Program, At, Done, Op
  <2>3. SignalsHold'
    BY <2>1, SignalsUnchanged DEF Holds
  <2> QED
    BY <2>1, <2>2, <2>3, StagesUnchanged DEF Holds
<1> QED
  BY <1>1, <1>2, <1>3, <1>4, <1>5, <1>6 DEF Next, UnitStep, Finish

LEMMA InvNext == DataflowInv /\ [Next]_vars => DataflowInv'
<1> QED
  BY StepHolds DEF DataflowInv

(* Every launch of a schedule whose programs order themselves keeps the      *)
(* invariant of DataflowInvariant.                                           *)
THEOREM LaunchInv == Spec /\ SelfOrdered(Machine) => []DataflowInv
<1> QED
  BY InvInit, InvNext, PTL DEF Spec

(* The units never leave their programs, a unit is inside a stage iteration  *)
(* or a signal only when it is at one, and no FIFO gets more entries than it *)
(* has.                                                                      *)
THEOREM TypeCorrect == Spec /\ SelfOrdered(Machine) => []TypeOK
<1>1. DataflowInv => TypeOK
  BY DEF DataflowInv, Holds
<1> QED
  BY <1>1, LaunchInv, PTL

(* Every stage iteration reads from every location and takes from every FIFO *)
(* what it does when the schedule is executed sequentially, whatever the     *)
(* pace of the units (KTDFToKTDFLow.cpp: the signals a unit gets for what it *)
(* reads from and overwrites for the others).                                *)
THEOREM SequentialResults == Spec /\ SelfOrdered(Machine) => []ReadsMatchSequential
<1>1. DataflowInv => ReadsMatchSequential
  BY DEF DataflowInv, Holds
<1> QED
  BY <1>1, LaunchInv, PTL

(* No two units of a core are ever inside stage iterations one of which      *)
(* writes a location that the other one reads or writes.                     *)
THEOREM RaceFree == Spec /\ SelfOrdered(Machine) => []NoRace
<1>1. ASSUME NEW c, OrderedBy(Machine, c), Holds(c),
             NEW u \in Machine.units, NEW v \in Machine.units,
             u # v, u[2] = v[2], busy[u], busy[v]
      PROVE  Op(u).writes \cap (Op(v).writes \cup Locs(Op(v).reads)) = {}
  <2> DEFINE i == pc[u]
             j == pc[v]
  <2>1. /\ i \in Places(Machine, u) /\ StageAt(Machine, u, i)
        /\ Op(u) = Machine.program[u][i]
        /\ j \in Places(Machine, v) /\ StageAt(Machine, v, j)
        /\ Op(v) = Machine.program[v][j]
    BY <1>1, StageFacts DEF OrderedBy, Holds, TypeOK
  <2>2. /\ i \in 1..Len(Program(u)) /\ Len(Program(u)) \in Nat
        /\ j \in 1..Len(Program(v)) /\ Len(Program(v)) \in Nat
    BY <1>1, <2>1, ProgramShape DEF OrderedBy
  <2>3. /\ c.clock[u][i + 1][v] \in Nat /\ c.clock[v][j + 1][u] \in Nat
    <3>1. i + 1 \in 1..(Len(Program(u)) + 1) /\ j + 1 \in 1..(Len(Program(v)) + 1)
      BY <2>2
    <3> QED
      BY <1>1, <3>1, ClockFacts
  <2>4. c.clock[u][i + 1][v] <= j /\ c.clock[v][j + 1][u] <= i
    BY <1>1 DEF Holds, ClocksHold
  <2>5. ~Before(c, u, i, v, j) /\ ~Before(c, v, j, u, i)
    <3> HIDE DEF i, j
    <3> DEFINE a == c.clock[v][j + 1][u]
               b == c.clock[u][i + 1][v]
    <3>1. i \in Nat /\ j \in Nat
      BY ONLY <2>2
    <3>2. a \in Nat /\ b \in Nat /\ a <= i /\ b <= j
      BY ONLY <2>3, <2>4
    <3> HIDE DEF a, b
    <3>3. ~(i < a) /\ ~(j < b)
      BY ONLY <3>1, <3>2
    <3> QED
      BY ONLY <1>1, <3>3 DEF Before, a, b
  <2>6. Locs(Op(v).reads) = ReadsFrom(Machine, v, j)
    BY <2>1 DEF Locs, ReadsFrom
  <2> QED
    BY <1>1, <2>1, <2>5, <2>6 DEF OrderedBy, ConflictsOrdered
<1>2. DataflowInv => NoRace
  BY <1>1 DEF DataflowInv, NoRace
<1> QED
  BY <1>2, LaunchInv, PTL

(* A launch leaves nothing behind: when all programs are done every item of  *)
(* every FIFO was taken and every token was received, so that the next       *)
(* launch finds the device as this one found it.                             *)
THEOREM LeavesNothing == Spec /\ SelfOrdered(Machine) => []NothingLeft
<1>1. ASSUME NEW c, OrderedBy(Machine, c), Holds(c), AllDone
      PROVE  /\ \A ch \in Machine.channels : fifo[ch] = <<>>
             /\ \A u, v \in Machine.units : token[<<u, v>>] = <<>>
  <2> USE DEF Holds
  <2>1. WellFormed(Machine) /\ SignalsInOrder(Machine)
    BY <1>1 DEF OrderedBy
  <2>2. ASSUME NEW u \in Machine.units
        PROVE  pc[u] = Len(Program(u)) + 1 /\ ~busy[u] /\ Len(Program(u)) \in Nat
    <3>1. Len(Program(u)) \in Nat
      BY <2>1, ProgramShape
    <3> QED
      BY <1>1, <3>1 DEF AllDone, Done, TypeOK, At
  <2>3. ASSUME NEW ch \in Machine.channels
        PROVE  fifo[ch] = <<>>
    <3>1. ch[1] \in Machine.units /\ ch[2] \in Machine.units
      BY <1>1, StreamFacts
    <3>2. /\ PutSoFar(c, ch) = c.put[ch][Len(Program(ch[1])) + 1]
          /\ TakenSoFar(c, ch) = c.take[ch][Len(Program(ch[2])) + 1]
      BY <2>2, <3>1 DEF PutSoFar, TakenSoFar
    <3>3. PutSoFar(c, ch) = TakenSoFar(c, ch) /\ PutSoFar(c, ch) \in Nat
      BY <1>1, <2>2, <3>1, <3>2, StreamFacts
    <3>4. Len(fifo[ch]) = 0
      BY <1>1, <3>3 DEF StreamsHold
    <3>5. IsSequence(fifo[ch])
      BY <1>1 DEF TypeOK
    <3> HIDE DEF Holds
    <3> QED
      BY <3>4, <3>5, EmptySequence, SameSequence
  <2>4. ASSUME NEW u \in Machine.units, NEW v \in Machine.units
        PROVE  token[<<u, v>>] = <<>>
    <3>1. token[<<u, v>>] \in Seq(Nat)
      BY <1>1 DEF TypeOK
    <3>2. ASSUME NEW k \in Nat, k \in Range(token[<<u, v>>])
          PROVE  FALSE
      <4>1. k \in 1..Machine.signals /\ HasSent(u, v, k) /\ ~HasReceived(v, u, k)
        BY <1>1, <3>2 DEF SignalsHold, TokensInFlight
      <4>2. u \in Machine.peers[k][v]
        BY <2>1, <4>1 DEF HasSent, SignalsInOrder
      <4>3. SignalPlace(v, k) \in 1..Len(Program(v))
        BY <2>1, <4>1, <4>2, PlaceOfSignal
      <4>4. SignalPlace(v, k) < pc[v]
        BY <2>2, <4>3
      <4> QED
        BY <4>1, <4>2, <4>4 DEF HasReceived
    <3>3. \A q \in 1..Len(token[<<u, v>>]) : token[<<u, v>>][q] \in Nat
      BY <3>1
    <3>4. DOMAIN token[<<u, v>>] = 1..Len(token[<<u, v>>]) /\ Len(token[<<u, v>>]) \in Nat
      BY <3>1
    <3>5. ~(1 \in 1..Len(token[<<u, v>>]))
      BY <3>2, <3>3, <3>4 DEF Range
    <3> HIDE DEF Holds
    <3>6. Len(token[<<u, v>>]) = 0
      BY <3>4, <3>5
    <3> QED
      BY <3>1, <3>6
  <2> QED
    BY <2>3, <2>4
<1>2. DataflowInv => NothingLeft
  <2> SUFFICES ASSUME NEW c, OrderedBy(Machine, c), Holds(c), AllDone
               PROVE  /\ \A ch \in DOMAIN fifo : fifo[ch] = <<>>
                      /\ \A uv \in DOMAIN token : token[uv] = <<>>
    BY DEF DataflowInv, NothingLeft
  <2>1. DOMAIN fifo = Machine.channels /\ DOMAIN token = Machine.units \X Machine.units
    BY DEF Holds, TypeOK
  <2> QED
    BY <1>1, <2>1
<1> QED
  BY <1>2, LaunchInv, PTL

------------------------------------------------------------------------------
(* Why some unit can always act: of the units that are not done, the one     *)
(* whose operation comes first in the order of the certificate.              *)

LEMMA FirstCanBegin ==
  ASSUME NEW c, OrderedBy(Machine, c), NeverWaits(Machine, c, FifoDepth), Holds(c),
         NEW u \in Machine.units, At(u, "stage"), ~busy[u],
         \A v \in Machine.units : ~Done(v) => c.rank[u][pc[u]] <= c.rank[v][pc[v]]
  PROVE  CanStep(u)
<1> USE DEF Holds
<1>1. WellFormed(Machine)
  BY DEF OrderedBy
<1>2. SUFFICES ASSUME NEW ch \in DOMAIN Op(u).pops, ~(Takes(u, ch) <= Len(fifo[ch]))
               PROVE  FALSE
  BY DEF CanStep
<1> DEFINE p == ch[1]
<1>3. /\ ch \in Machine.channels /\ ch[2] = u /\ p \in Machine.units
      /\ pc[u] \in Places(Machine, u) /\ pc[u] \in 1..Len(Program(u))
      /\ Len(Program(u)) \in Nat /\ Len(Program(p)) \in Nat
      /\ pc[p] \in 1..(Len(Program(p)) + 1)
  BY <1>1, StageFacts, ProgramShape DEF WellFormed, TypeOK
<1> HIDE DEF p
<1>4. c.put[ch][pc[p]] < c.take[ch][pc[u] + 1]
  <2>1. Len(fifo[ch]) = c.put[ch][pc[p]] - c.take[ch][pc[u]]
    BY <1>3 DEF StreamsHold, PutSoFar, TakenSoFar, p
  <2>2. c.take[ch][pc[u] + 1] = c.take[ch][pc[u]] + Takes(u, ch) /\ Takes(u, ch) \in Nat
    BY <1>3, StreamStep, TransferFacts
  <2>3. c.put[ch][pc[p]] \in Nat /\ c.take[ch][pc[u]] \in Nat
    <3>1. pc[u] \in 1..(Len(Program(u)) + 1)
      BY <1>3
    <3> HIDE DEF Holds
    <3> QED
      BY <1>3, <3>1, CountsOnTheWay DEF p
  <2>4. ~(Takes(u, ch) <= c.put[ch][pc[p]] - c.take[ch][pc[u]])
    BY <1>2, <2>1
  <2> HIDE DEF Holds
  <2> QED
    BY <2>2, <2>3, <2>4
<1>5. pc[p] \in Places(Machine, p) /\ ~Done(p)
  <2>1. pc[p] # Len(Program(p)) + 1
    <3>1. pc[u] + 1 \in 1..(Len(Program(u)) + 1)
      BY <1>3
    <3>2. /\ c.put[ch][Len(Program(p)) + 1] = c.take[ch][Len(Program(u)) + 1]
          /\ c.take[ch][pc[u] + 1] \in Nat
          /\ c.take[ch][pc[u] + 1] <= c.take[ch][Len(Program(u)) + 1]
      BY <1>3, <3>1, CountsOnTheWay DEF p
    <3>3. c.take[ch][Len(Program(u)) + 1] \in Nat
      <4>1. Len(Program(u)) + 1 \in 1..(Len(Program(u)) + 1)
        BY <1>3
      <4> QED
        BY <1>3, <4>1, CountsOnTheWay
    <3> HIDE DEF Holds
    <3> QED
      BY <1>4, <3>2, <3>3
  <2>2. pc[p] \in 1..Len(Program(p))
    BY <1>3, <2>1
  <2> QED
    BY <1>1, <1>3, <2>2, ProgramShape DEF Done
<1>6. c.rank[p][pc[p]] < c.rank[u][pc[u]]
  BY <1>3, <1>4, <1>5 DEF NeverWaits, p
<1>7. c.rank[p][pc[p]] \in Nat /\ c.rank[u][pc[u]] \in Nat
  BY <1>3, <1>5 DEF NeverWaits
<1> QED
  BY <1>3, <1>5, <1>6, <1>7

LEMMA FirstCanEnd ==
  ASSUME NEW c, OrderedBy(Machine, c), NeverWaits(Machine, c, FifoDepth), Holds(c),
         NEW u \in Machine.units, At(u, "stage"), busy[u],
         \A v \in Machine.units : ~Done(v) => c.rank[u][pc[u]] <= c.rank[v][pc[v]]
  PROVE  CanStep(u)
<1> USE DEF Holds
<1>1. WellFormed(Machine)
  BY DEF OrderedBy
<1>2. SUFFICES ASSUME NEW ch \in DOMAIN Op(u).pushes,
                      ~(Len(fifo[ch]) + Len(Puts(u, ch)) <= FifoDepth)
               PROVE  FALSE
  BY DEF CanStep
<1> DEFINE q == ch[2]
<1>3. /\ ch \in Machine.channels /\ ch[1] = u /\ q \in Machine.units
      /\ pc[u] \in Places(Machine, u) /\ pc[u] \in 1..Len(Program(u))
      /\ Len(Program(u)) \in Nat /\ Len(Program(q)) \in Nat
      /\ pc[q] \in 1..(Len(Program(q)) + 1)
  BY <1>1, StageFacts, ProgramShape DEF WellFormed, TypeOK
<1> HIDE DEF q
<1>4. /\ c.put[ch] \in [1..(Len(Program(u)) + 1) -> Nat]
      /\ c.take[ch] \in [1..(Len(Program(q)) + 1) -> Nat]
      /\ c.put[ch][Len(Program(u)) + 1] = c.take[ch][Len(Program(q)) + 1]
      /\ \A i, j \in 1..(Len(Program(q)) + 1) :
           i <= j => c.take[ch][i] <= c.take[ch][j]
  BY <1>3, StreamFacts DEF q, OrderedBy, StreamsMatch, Program
<1>5. TakenSoFar(c, ch) + FifoDepth < c.put[ch][pc[u] + 1] /\ TakenSoFar(c, ch) \in Nat
  <2>1. Len(fifo[ch]) = c.put[ch][pc[u]] - TakenSoFar(c, ch)
    BY <1>3 DEF StreamsHold, PutSoFar
  <2>2. c.put[ch][pc[u] + 1] = c.put[ch][pc[u]] + Len(Puts(u, ch))
    BY <1>3, StreamStep
  <2>3. Len(Puts(u, ch)) \in Nat /\ c.put[ch][pc[u]] \in Nat
    BY <1>3, <1>4, TransferFacts, SequenceShape
  <2>4. TakenSoFar(c, ch) \in Nat
    <3>1. busy[q] => pc[q] + 1 \in 1..(Len(Program(q)) + 1)
      BY <1>3 DEF TypeOK, At, Done
    <3> QED
      BY <1>3, <1>4, <3>1 DEF TakenSoFar, q
  <2>5. ~((c.put[ch][pc[u]] - TakenSoFar(c, ch)) + Len(Puts(u, ch)) <= FifoDepth)
    BY <1>2, <2>1
  <2> HIDE DEF Holds
  <2> QED
    BY <2>2, <2>3, <2>4, <2>5, FifoDepthAssumption
<1>6. c.take[ch][pc[q]] <= TakenSoFar(c, ch)
  <2>1. CASE busy[q]
    <3>1. pc[q] + 1 \in 1..(Len(Program(q)) + 1)
      BY <1>3, <2>1 DEF TypeOK, At, Done
    <3>2. c.take[ch][pc[q]] <= c.take[ch][pc[q] + 1]
      BY <1>3, <1>4, <3>1
    <3> QED
      BY <2>1, <3>2 DEF TakenSoFar, q
  <2>2. CASE ~busy[q]
    BY <1>3, <1>4, <2>2 DEF TakenSoFar, q
  <2> QED
    BY <2>1, <2>2
<1>7. c.take[ch][pc[q]] + FifoDepth < c.put[ch][pc[u] + 1]
  <2>1. pc[u] + 1 \in 1..(Len(Program(u)) + 1)
    BY <1>3
  <2>2. /\ c.take[ch][pc[q]] \in Nat /\ c.put[ch][pc[u] + 1] \in Nat
    BY <1>3, <2>1, CountsOnTheWay DEF q
  <2> HIDE DEF Holds
  <2> QED
    BY <1>5, <1>6, <2>2, FifoDepthAssumption
<1>8. pc[q] \in Places(Machine, q) /\ ~Done(q)
  <2>1. pc[q] # Len(Program(q)) + 1
    <3>1. /\ pc[u] + 1 \in 1..(Len(Program(u)) + 1)
          /\ Len(Program(q)) + 1 \in 1..(Len(Program(q)) + 1)
      BY <1>3
    <3>2. /\ c.put[ch][pc[u] + 1] \in Nat
          /\ c.put[ch][pc[u] + 1] <= c.put[ch][Len(Program(u)) + 1]
          /\ c.put[ch][Len(Program(u)) + 1] = c.take[ch][Len(Program(q)) + 1]
          /\ c.take[ch][Len(Program(q)) + 1] \in Nat
      BY <1>3, <3>1, CountsOnTheWay DEF q
    <3> HIDE DEF Holds
    <3> QED
      BY <1>7, <3>2, FifoDepthAssumption
  <2>2. pc[q] \in 1..Len(Program(q))
    BY <1>3, <2>1
  <2> QED
    BY <1>1, <1>3, <2>2, ProgramShape DEF Done
<1>9. c.rank[q][pc[q]] < c.rank[u][pc[u]]
  <2>1. \A i \in Places(Machine, u), j \in Places(Machine, q) :
          c.take[ch][j] + FifoDepth < c.put[ch][i + 1] => c.rank[q][j] < c.rank[u][i]
    BY <1>3 DEF NeverWaits, q
  <2> QED
    BY <1>3, <1>7, <1>8, <2>1
<1>10. c.rank[q][pc[q]] \in Nat /\ c.rank[u][pc[u]] \in Nat
  BY <1>3, <1>8 DEF NeverWaits
<1> QED
  BY <1>3, <1>8, <1>9, <1>10

(* At a signal it is the first unit that can act, or a peer of the same      *)
(* signal that has still to send to it.                                      *)
LEMMA FirstCanSignal ==
  ASSUME NEW c, OrderedBy(Machine, c), NeverWaits(Machine, c, FifoDepth), Holds(c),
         NEW u \in Machine.units, At(u, "signal"),
         \A v \in Machine.units : ~Done(v) => c.rank[u][pc[u]] <= c.rank[v][pc[v]]
  PROVE  \E v \in Machine.units : CanStep(v)
<1> USE DEF Holds, SignalsHold
<1> DEFINE k == Op(u).number
<1>1. WellFormed(Machine) /\ SignalsInOrder(Machine)
  BY DEF OrderedBy
<1>2. /\ k \in 1..Machine.signals
      /\ pc[u] \in Places(Machine, u) /\ SignalAt(Machine, u, pc[u])
      /\ Machine.program[u][pc[u]].number = k
      /\ Peers(u) = Machine.peers[k][u] /\ Peers(u) \subseteq Machine.units
  BY <1>1, SignalFacts
<1>3. sent[u] \subseteq Peers(u) /\ rcvd[u] \subseteq Peers(u)
  BY DEF SendsFirst
<1>4. CASE Peers(u) \ sent[u] # {}
  BY <1>4 DEF CanStep
<1>5. CASE sent[u] = Peers(u) /\ rcvd[u] = Peers(u)
  BY <1>5 DEF CanStep
<1>6. ASSUME sent[u] = Peers(u), NEW v \in Peers(u) \ rcvd[u], token[<<v, u>>] = <<>>
      PROVE  CanStep(v)
  <2>1. v \in Machine.units /\ u \in Machine.peers[k][v] /\ v \in Machine.peers[k][u]
    BY <1>1, <1>2 DEF SignalsInOrder
  <2>2. SignalPlace(u, k) = pc[u]
    BY <1>1, <2>1, <1>2, PlaceOfCurrent
  <2>3. ~HasReceived(u, v, k)
    BY <2>2, <1>6 DEF HasReceived, TypeOK
  <2>4. ~HasSent(v, u, k)
    <3>1. k \in Nat /\ k \notin Range(token[<<v, u>>])
      BY <1>1, <1>2, <1>6 DEF Range, SignalsInOrder
    <3> QED
      BY <1>2, <2>1, <2>3, <3>1 DEF TokensInFlight
  <2> DEFINE j == SignalPlace(v, k)
  <2>5. /\ j \in Places(Machine, v) /\ SignalAt(Machine, v, j)
        /\ Machine.program[v][j].number = k /\ j \in 1..Len(Program(v))
    BY <1>1, <1>2, <2>1, PlaceOfSignal
  <2>6. ~(j < pc[v]) /\ (j = pc[v] => u \notin sent[v])
    BY <2>1, <2>4 DEF HasSent
  <2> HIDE DEF j
  <2>7. /\ Len(Program(v)) \in Nat /\ pc[v] \in 1..(Len(Program(v)) + 1)
        /\ Places(Machine, v) = 1..Len(Program(v))
    BY <1>1, <2>1, ProgramShape DEF TypeOK
  <2>8. pc[v] \in Places(Machine, v) /\ ~Done(v)
    BY <2>5, <2>6, <2>7 DEF Done
  <2>9. j = pc[v]
    <3>1. c.rank[v][j] = c.rank[u][pc[u]]
      <4>1. \A w \in Machine.peers[k][u] : \A x \in Places(Machine, w) :
              SignalAt(Machine, w, x) /\ Machine.program[w][x].number = k
                => c.rank[w][x] = c.rank[u][pc[u]]
        BY <1>2 DEF NeverWaits
      <4> QED
        BY <2>1, <2>5, <4>1
    <3>2. pc[v] < j => c.rank[v][pc[v]] < c.rank[v][j]
      BY <2>1, <2>5, <2>8 DEF NeverWaits
    <3>3. /\ c.rank[v][pc[v]] \in Nat /\ c.rank[v][j] \in Nat
      BY <2>1, <2>5, <2>8 DEF NeverWaits
    <3>4. c.rank[u][pc[u]] <= c.rank[v][pc[v]]
      BY <2>1, <2>8
    <3>5. j \in Nat /\ pc[v] \in Nat
      BY <2>5, <2>7
    <3> HIDE DEF Holds
    <3> QED
      BY <2>6, <3>1, <3>2, <3>3, <3>4, <3>5
  <2>10. At(v, "signal") /\ Op(v).number = k
    BY <2>5, <2>8, <2>9 DEF At, Op, SignalAt, Program
  <2>11. u \in Peers(v) \ sent[v]
    BY <2>1, <2>6, <2>9, <2>10 DEF Peers
  <2> QED
    BY <2>10, <2>11 DEF CanStep
<1>7. ASSUME sent[u] = Peers(u), NEW v \in Peers(u) \ rcvd[u], token[<<v, u>>] # <<>>
      PROVE  CanStep(u)
  BY <1>7 DEF CanStep
<1> QED
  BY <1>2, <1>3, <1>4, <1>5, <1>6, <1>7

(* In an order in which no operation waits for a later one, the units never  *)
(* end up waiting for one another: not for signals (SignalInsertion.cpp puts *)
(* both ends of a back edge in every iteration or in none), not for items    *)
(* and not for room in a FIFO.                                               *)
THEOREM NoDeadlock == Spec /\ SelfPaced(Machine, FifoDepth) => []SomeUnitCanStep
<1> DEFINE PacedInv ==
      \E c : OrderedBy(Machine, c) /\ NeverWaits(Machine, c, FifoDepth) /\ Holds(c)
<1>1. Init /\ SelfPaced(Machine, FifoDepth) => PacedInv
  BY InitHolds DEF SelfPaced
<1>2. PacedInv /\ [Next]_vars => PacedInv'
  BY StepHolds
<1>3. ASSUME NEW c, OrderedBy(Machine, c), NeverWaits(Machine, c, FifoDepth), Holds(c),
             ~AllDone
      PROVE  \E u \in Machine.units : CanStep(u)
  <2> DEFINE left == {v \in Machine.units : ~Done(v)}
             ranks == {c.rank[v][pc[v]] : v \in left}
  <2>1. \A v \in left : pc[v] \in Places(Machine, v) /\ c.rank[v][pc[v]] \in Nat
    <3>1. ASSUME NEW v \in left PROVE pc[v] \in Places(Machine, v)
      <4>1. /\ Places(Machine, v) = 1..Len(Program(v)) /\ Len(Program(v)) \in Nat
            /\ pc[v] \in 1..(Len(Program(v)) + 1)
        BY <1>3, ProgramShape DEF Holds, TypeOK, OrderedBy
      <4> QED
        BY <4>1 DEF Done
    <3> QED
      BY <1>3, <3>1 DEF NeverWaits
  <2>2. ranks \subseteq Nat /\ ranks # {}
    BY <1>3, <2>1 DEF AllDone
  <2>3. PICK u \in left : \A v \in left : c.rank[u][pc[u]] <= c.rank[v][pc[v]]
    <3>1. Min(ranks) \in ranks /\ \A x \in ranks : Min(ranks) <= x
      <4> HIDE DEF ranks
      <4> QED
        BY <2>2, LeastOf
    <3> QED
      BY <3>1
  <2>4. At(u, "stage") \/ At(u, "signal")
    BY <1>3, <2>1 DEF OrderedBy, WellFormed, StageAt, SignalAt, At, Op, Program
  <2>5. \A v \in Machine.units : ~Done(v) => c.rank[u][pc[u]] <= c.rank[v][pc[v]]
    BY <2>3
  <2> QED
    BY <1>3, <2>4, <2>5, FirstCanBegin, FirstCanEnd, FirstCanSignal
<1>4. PacedInv => SomeUnitCanStep
  BY <1>3 DEF SomeUnitCanStep
<1> QED
  BY <1>1, <1>2, <1>4, PTL DEF Spec

(* What TLC checks of a schedule when it is launched, with the certificate   *)
(* it computes, is what the theorems ask of it.                              *)
LEMMA CheckedAtLaunch ==
  Init /\ SchedulesOrdered => SelfOrdered(Machine) /\ SelfPaced(Machine, FifoDepth)
<1> QED
  BY DEF Init, SchedulesOrdered, Certified, SelfOrdered, SelfPaced

(* A launch whose schedule passes that check computes what the sequential    *)
(* schedule computes, without races, leaves nothing behind and never gets    *)
(* stuck: the signals of KTDFToKTDFLow and the FIFOs of KTDFLowToDFIR are    *)
(* all that the units need to stay in order.                                 *)
THEOREM CheckedSchedulesRun ==
  Spec /\ SchedulesOrdered =>
    [](ReadsMatchSequential /\ NoRace /\ NothingLeft /\ SomeUnitCanStep)
<1>1. Spec => Init
  BY PTL DEF Spec
<1> QED
  BY <1>1, CheckedAtLaunch, SequentialResults, RaceFree, LeavesNothing, NoDeadlock, PTL

(* A schedule that gets by with some depth of its FIFOs gets by with a       *)
(* greater one: a unit that sends over a FIFO (lowerAsLoadAndSend) waits for *)
(* less of what its receiver does.  What is checked with two entries holds   *)
(* with the sixteen of the device.                                           *)
THEOREM DeeperFifos ==
  ASSUME NEW m, NEW d \in Nat, NEW e \in Nat, d <= e, SelfPaced(m, d)
  PROVE  SelfPaced(m, e)
<1>1. PICK c : OrderedBy(m, c) /\ NeverWaits(m, c, d)
  BY DEF SelfPaced
<1>2. StreamsMatch(m, c) /\ WellFormed(m)
  BY <1>1 DEF OrderedBy
<1>3. ASSUME NEW ch \in m.channels, NEW i \in Places(m, ch[1]), NEW j \in Places(m, ch[2]),
             c.take[ch][j] + e < c.put[ch][i + 1]
      PROVE  c.rank[ch[2]][j] < c.rank[ch[1]][i]
  <2>1. /\ Len(m.program[ch[1]]) \in Nat /\ Places(m, ch[1]) = 1..Len(m.program[ch[1]])
        /\ Len(m.program[ch[2]]) \in Nat /\ Places(m, ch[2]) = 1..Len(m.program[ch[2]])
    BY <1>2, SequenceShape DEF WellFormed, Places
  <2>2. /\ c.put[ch] \in [1..(Len(m.program[ch[1]]) + 1) -> Nat]
        /\ c.take[ch] \in [1..(Len(m.program[ch[2]]) + 1) -> Nat]
    BY <1>2 DEF StreamsMatch
  <2>3. i + 1 \in 1..(Len(m.program[ch[1]]) + 1) /\ j \in 1..(Len(m.program[ch[2]]) + 1)
    BY <2>1
  <2>4. c.put[ch][i + 1] \in Nat /\ c.take[ch][j] \in Nat
    BY <2>2, <2>3
  <2>5. c.take[ch][j] + d < c.put[ch][i + 1]
    BY <1>3, <2>4
  <2> QED
    BY <1>1, <2>5 DEF NeverWaits
<1>4. NeverWaits(m, c, e)
  BY <1>1, <1>3 DEF NeverWaits
<1> QED
  BY <1>1, <1>4 DEF SelfPaced

-----------------------------------------------------------------------------
(* The lowered signals of a launch implement Handshake: a unit is, for       *)
(* Handshake, at the first signal it has not left, and a channel holds the   *)
(* numbers of the tokens in flight.                                          *)

(* The first signal of u from place p on. *)
SignalsFrom(u, p) == {j \in p..Len(Program(u)) : Program(u)[j].kind = "signal"}
SignalFrom(u, p) ==
  IF SignalsFrom(u, p) = {} THEN Machine.signals + 1
  ELSE Program(u)[Min(SignalsFrom(u, p))].number

LEMMA SignalFromFacts ==
  ASSUME WellFormed(Machine), SignalsInOrder(Machine), NEW u \in Machine.units,
         NEW p \in 1..(Len(Program(u)) + 1)
  PROVE  /\ SignalsFrom(u, p) =
              {j \in Places(Machine, u) : p <= j /\ SignalAt(Machine, u, j)}
         /\ SignalsFrom(u, p) # {} =>
              \E i \in SignalsFrom(u, p) :
                /\ SignalFrom(u, p) = Machine.program[u][i].number
                /\ \A j \in SignalsFrom(u, p) : i <= j
<1>1. Len(Program(u)) \in Nat /\ Places(Machine, u) = 1..Len(Program(u))
  BY ProgramShape
<1>2. SignalsFrom(u, p) = {j \in Places(Machine, u) : p <= j /\ SignalAt(Machine, u, j)}
  BY <1>1 DEF SignalsFrom, SignalAt, Program
<1>3. SignalsFrom(u, p) \subseteq Nat
  BY <1>1, <1>2
<1> QED
  BY <1>2, <1>3, LeastOf DEF SignalFrom, Program

LEMMA SignalFromType ==
  ASSUME WellFormed(Machine), SignalsInOrder(Machine), NEW u \in Machine.units,
         NEW p \in 1..(Len(Program(u)) + 1)
  PROVE  SignalFrom(u, p) \in 1..(Machine.signals + 1)
<1>1. Machine.signals \in Nat
  BY DEF SignalsInOrder
<1>2. CASE SignalsFrom(u, p) = {}
  BY <1>1, <1>2 DEF SignalFrom
<1>3. CASE SignalsFrom(u, p) # {}
  <2>1. PICK i \in Places(Machine, u) :
          SignalAt(Machine, u, i) /\ SignalFrom(u, p) = Machine.program[u][i].number
    BY <1>3, SignalFromFacts
  <2>2. SignalFrom(u, p) \in 1..Machine.signals
    BY <2>1 DEF SignalsInOrder
  <2> QED
    BY <1>1, <2>2
<1> QED
  BY <1>2, <1>3

(* At a signal it is that signal. *)
LEMMA SignalFromHere ==
  ASSUME WellFormed(Machine), SignalsInOrder(Machine), NEW u \in Machine.units,
         NEW p \in Places(Machine, u), SignalAt(Machine, u, p)
  PROVE  SignalFrom(u, p) = Machine.program[u][p].number
<1>1. p \in 1..(Len(Program(u)) + 1) /\ p \in Nat
  BY ProgramShape
<1>2. p \in SignalsFrom(u, p)
  BY <1>1, SignalFromFacts
<1>3. PICK i \in SignalsFrom(u, p) :
        /\ SignalFrom(u, p) = Machine.program[u][i].number
        /\ \A j \in SignalsFrom(u, p) : i <= j
  BY <1>1, <1>2, SignalFromFacts
<1>4. i \in Nat /\ p <= i
  BY <1>1, SignalFromFacts, ProgramShape
<1>5. i = p
  BY <1>1, <1>2, <1>3, <1>4
<1> QED
  BY <1>3, <1>5

(* A unit that is not at one passes none on its way to the next place. *)
LEMMA SignalFromNext ==
  ASSUME WellFormed(Machine), SignalsInOrder(Machine), NEW u \in Machine.units,
         NEW p \in Places(Machine, u), ~SignalAt(Machine, u, p)
  PROVE  SignalFrom(u, p) = SignalFrom(u, p + 1)
<1>1. p \in 1..Len(Program(u)) /\ Len(Program(u)) \in Nat
  BY ProgramShape
<1>2. SignalsFrom(u, p) = SignalsFrom(u, p + 1)
  BY <1>1 DEF SignalsFrom, SignalAt, Program
<1> QED
  BY <1>2 DEF SignalFrom

(* Signals before it that no place before p has are not for u. *)
LEMMA NoneBefore ==
  ASSUME WellFormed(Machine), SignalsInOrder(Machine), NEW u \in Machine.units,
         NEW p \in 1..(Len(Program(u)) + 1),
         NEW k \in 1..Machine.signals, k < SignalFrom(u, p),
         \A j \in Places(Machine, u) :
           SignalAt(Machine, u, j) /\ Machine.program[u][j].number = k => p <= j
  PROVE  Machine.peers[k][u] = {}
<1> SUFFICES ASSUME Machine.peers[k][u] # {} PROVE FALSE
  OBVIOUS
<1> DEFINE j == SignalPlace(u, k)
<1>1. /\ j \in Places(Machine, u) /\ SignalAt(Machine, u, j)
      /\ Machine.program[u][j].number = k
  BY PlaceOfSignal
<1> HIDE DEF j
<1>2. j \in SignalsFrom(u, p)
  BY <1>1, SignalFromFacts
<1>3. PICK i \in SignalsFrom(u, p) :
        /\ SignalFrom(u, p) = Machine.program[u][i].number
        /\ \A x \in SignalsFrom(u, p) : i <= x
  BY <1>2, SignalFromFacts
<1>4. i \in Places(Machine, u) /\ SignalAt(Machine, u, i)
  BY SignalFromFacts
<1>5. j < i
  BY <1>1, <1>3, <1>4, PlacesInOrder
<1>6. i <= j /\ i \in Nat /\ j \in Nat
  BY <1>1, <1>2, <1>3, <1>4, ProgramShape
<1> QED
  BY <1>5, <1>6

(* The signal after the one at p is a later one. *)
LEMMA SignalFromLater ==
  ASSUME WellFormed(Machine), SignalsInOrder(Machine), NEW u \in Machine.units,
         NEW p \in Places(Machine, u), SignalAt(Machine, u, p)
  PROVE  Machine.program[u][p].number < SignalFrom(u, p + 1)
<1>1. /\ p \in 1..Len(Program(u)) /\ Len(Program(u)) \in Nat
      /\ p + 1 \in 1..(Len(Program(u)) + 1)
  BY ProgramShape
<1>2. CASE SignalsFrom(u, p + 1) = {}
  BY <1>2 DEF SignalFrom, SignalsInOrder
<1>3. CASE SignalsFrom(u, p + 1) # {}
  <2>1. PICK i \in Places(Machine, u) :
          /\ SignalAt(Machine, u, i) /\ p + 1 <= i
          /\ SignalFrom(u, p + 1) = Machine.program[u][i].number
    BY <1>1, <1>3, SignalFromFacts
  <2>2. p < i
    BY <1>1, <2>1, ProgramShape
  <2> QED
    BY <2>1, <2>2, PlacesInOrder
<1> QED
  BY <1>2, <1>3

------------------------------------------------------------------------------
(* What Handshake sees of the device. *)
Pos == [u \in Machine.units |-> NextSignal(u)]
Chan == [u \in Machine.units |-> [v \in Machine.units |-> Range(token[<<u, v>>])]]

LEMMA PosFacts ==
  ASSUME WellFormed(Machine), SignalsInOrder(Machine), TypeOK, NEW u \in Machine.units
  PROVE  /\ Pos[u] = SignalFrom(u, pc[u])
         /\ Pos[u] \in 1..(Machine.signals + 1)
         /\ At(u, "signal") =>
              /\ Pos[u] = Op(u).number /\ Pos[u] \in 1..Machine.signals
              /\ Peers(u) = Machine.peers[Pos[u]][u]
<1>1. Pos[u] = SignalFrom(u, pc[u])
  BY DEF Pos, NextSignal, SignalFrom, SignalsFrom
<1>2. pc[u] \in 1..(Len(Program(u)) + 1)
  BY DEF TypeOK
<1>3. Pos[u] \in 1..(Machine.signals + 1)
  BY <1>1, <1>2, SignalFromType
<1>4. ASSUME At(u, "signal")
      PROVE  /\ Pos[u] = Op(u).number /\ Pos[u] \in 1..Machine.signals
             /\ Peers(u) = Machine.peers[Pos[u]][u]
  <2>1. /\ pc[u] \in Places(Machine, u) /\ SignalAt(Machine, u, pc[u])
        /\ Op(u) = Machine.program[u][pc[u]] /\ Op(u).number \in 1..Machine.signals
        /\ Peers(u) = Machine.peers[Op(u).number][u]
    BY <1>4, SignalFacts
  <2> QED
    BY <1>1, <2>1, SignalFromHere
<1> QED
  BY <1>1, <1>3, <1>4

LEMMA PosPrime ==
  ASSUME Machine' = Machine
  PROVE  Pos' = [u \in Machine.units |-> SignalFrom(u, pc'[u])]
<1> QED
  BY DEF Pos, NextSignal, SignalFrom, SignalsFrom, Program

(* An update of one channel. *)
LEMMA OneChannel ==
  ASSUME NEW U, NEW f \in [U -> [U -> SUBSET Nat]], NEW g \in [U -> [U -> SUBSET Nat]],
         NEW u \in U, NEW v \in U,
         \A a, b \in U : ~(a = u /\ b = v) => g[a][b] = f[a][b]
  PROVE  g = [f EXCEPT ![u][v] = g[u][v]]
<1> DEFINE h == [f EXCEPT ![u][v] = g[u][v]]
<1>1. /\ DOMAIN g = U /\ DOMAIN h = U
      /\ g = [a \in U |-> g[a]] /\ h = [a \in U |-> h[a]]
  OBVIOUS
<1>2. ASSUME NEW a \in U PROVE g[a] = h[a]
  <2>1. CASE a # u
    <3>1. h[a] = f[a] /\ \A b \in U : g[a][b] = f[a][b]
      BY <2>1
    <3> HIDE DEF h
    <3> QED
      BY <3>1
  <2>2. CASE a = u
    <3>1. h[u] = [f[u] EXCEPT ![v] = g[u][v]]
      OBVIOUS
    <3>2. \A b \in U : g[u][b] = h[u][b]
      BY <3>1
    <3> HIDE DEF h
    <3>3. h[u] \in [U -> SUBSET Nat]
      BY <3>1
    <3> QED
      BY <2>2, <3>2, <3>3
  <2> QED
    BY <2>1, <2>2
<1> HIDE DEF h
<1>3. g = h
  BY <1>1, <1>2
<1> QED
  BY <1>3 DEF h

LEMMA ChanType ==
  ASSUME TypeOK
  PROVE  Chan \in [Machine.units -> [Machine.units -> SUBSET Nat]]
<1> QED
  BY DEF TypeOK, Chan, Range

LEMMA ChanPrime ==
  ASSUME Machine' = Machine
  PROVE  Chan' = [u \in Machine.units |->
                    [v \in Machine.units |-> Range(token'[<<u, v>>])]]
<1> QED
  BY DEF Chan

LEMMA ChanTypeNext ==
  ASSUME Machine' = Machine, TypeOK'
  PROVE  Chan' \in [Machine.units -> [Machine.units -> SUBSET Nat]]
<1>1. token' \in [Machine.units \X Machine.units -> Seq(Nat)]
  BY DEF TypeOK
<1>2. \A u, v \in Machine.units : Range(token'[<<u, v>>]) \in SUBSET Nat
  BY <1>1 DEF Range
<1>3. [u \in Machine.units |-> [v \in Machine.units |-> Range(token'[<<u, v>>])]]
        \in [Machine.units -> [Machine.units -> SUBSET Nat]]
  BY <1>2
<1> QED
  BY <1>3, ChanPrime

(* The signals are not moved by a stage iteration. *)
LEMMA StageStutters ==
  ASSUME NEW c, OrderedBy(Machine, c), Holds(c), NEW u \in Machine.units,
         BeginStage(u) \/ EndStage(u)
  PROVE  Pos' = Pos /\ sent' = sent /\ rcvd' = rcvd /\ Chan' = Chan
<1>1. /\ At(u, "stage")
      /\ pc' = pc \/ pc' = [pc EXCEPT ![u] = @ + 1]
      /\ UNCHANGED <<schedule, sent, rcvd, token>>
  BY DEF BeginStage, EndStage
<1>2. Machine' = Machine
  BY <1>1 DEF Machine
<1>3. WellFormed(Machine) /\ SignalsInOrder(Machine) /\ TypeOK
  BY DEF OrderedBy, Holds
<1>4. pc[u] \in Places(Machine, u) /\ ~SignalAt(Machine, u, pc[u])
  BY <1>1, <1>3, StageFacts DEF StageAt, SignalAt
<1>5. ASSUME NEW v \in Machine.units
      PROVE  SignalFrom(v, pc'[v]) = SignalFrom(v, pc[v])
  <2>1. CASE pc'[v] = pc[v]
    BY <2>1
  <2>2. CASE pc'[v] # pc[v]
    <3>1. v = u /\ pc'[u] = pc[u] + 1
      BY <1>1, <1>3, <2>2 DEF TypeOK
    <3> QED
      BY <1>3, <1>4, <3>1, SignalFromNext
  <2> QED
    BY <2>1, <2>2
<1>6. Pos = [v \in Machine.units |-> SignalFrom(v, pc[v])]
  BY DEF Pos, NextSignal, SignalFrom, SignalsFrom
<1>7. Pos' = Pos
  BY <1>2, <1>5, <1>6, PosPrime
<1>8. Chan' = Chan
  BY <1>1, <1>2 DEF Chan
<1> QED
  BY <1>1, <1>7, <1>8

LEMMA SendMaps ==
  ASSUME NEW c, OrderedBy(Machine, c), Holds(c),
         NEW u \in Machine.units, NEW v \in Machine.units, SyncSend(u, v)
  PROVE  /\ Pos[u] \in 1..Machine.signals
         /\ v \in Machine.peers[Pos[u]][u] \ sent[u]
         /\ sent' = [sent EXCEPT ![u] = @ \cup {v}]
         /\ Chan' = [Chan EXCEPT ![u][v] = @ \cup {Pos[u]}]
         /\ Pos' = Pos /\ rcvd' = rcvd
<1>1. /\ At(u, "signal")
      /\ v \in Peers(u) \ sent[u]
      /\ sent' = [sent EXCEPT ![u] = @ \cup {v}]
      /\ token' = [token EXCEPT ![<<u, v>>] = Append(@, Op(u).number)]
      /\ UNCHANGED <<schedule, pc, rcvd>>
  BY DEF SyncSend
<1>2. Machine' = Machine
  BY <1>1 DEF Machine
<1>3. WellFormed(Machine) /\ SignalsInOrder(Machine) /\ TypeOK
  BY DEF OrderedBy, Holds
<1>4. /\ Pos[u] = Op(u).number /\ Pos[u] \in 1..Machine.signals
      /\ Peers(u) = Machine.peers[Pos[u]][u]
  BY <1>1, <1>3, PosFacts
<1>5. Pos' = Pos
  BY <1>1, <1>2 DEF Pos, NextSignal, Program
<1>6. /\ \A x \in (Machine.units \X Machine.units) \ {<<u, v>>} : token'[x] = token[x]
      /\ Range(token'[<<u, v>>]) = Range(token[<<u, v>>]) \cup {Pos[u]}
  <2>1. /\ \A x \in (Machine.units \X Machine.units) \ {<<u, v>>} : token'[x] = token[x]
        /\ token'[<<u, v>>] = Append(token[<<u, v>>], Pos[u])
    BY <1>1, <1>3, <1>4 DEF TypeOK
  <2>2. token[<<u, v>>] \in Seq(Nat) /\ Pos[u] \in Nat
    BY <1>3, <1>4 DEF TypeOK, SignalsInOrder
  <2> QED
    BY <2>1, <2>2, Appended
<1>7. Chan' = [Chan EXCEPT ![u][v] = @ \cup {Pos[u]}]
  <2>1. \A a, b \in Machine.units :
          Range(token'[<<a, b>>]) =
            IF a = u /\ b = v THEN Range(token[<<a, b>>]) \cup {Pos[u]}
            ELSE Range(token[<<a, b>>])
    BY <1>6
  <2>2. /\ Chan \in [Machine.units -> [Machine.units -> SUBSET Nat]]
        /\ Chan' \in [Machine.units -> [Machine.units -> SUBSET Nat]]
    BY <1>2, <1>3, ChanType, SendHolds, ChanTypeNext DEF Holds
  <2>3. /\ \A a, b \in Machine.units : ~(a = u /\ b = v) => Chan'[a][b] = Chan[a][b]
        /\ Chan'[u][v] = Chan[u][v] \cup {Pos[u]}
    BY <1>2, <2>1, ChanPrime DEF Chan
  <2> DEFINE f == Chan
             g == Chan'
  <2> HIDE DEF f, g
  <2>4. g = [f EXCEPT ![u][v] = g[u][v]]
    BY <2>2, <2>3, OneChannel DEF f, g
  <2> QED
    BY <2>3, <2>4 DEF f, g
<1> QED
  BY <1>1, <1>4, <1>5, <1>7

LEMMA RecvMaps ==
  ASSUME NEW c, OrderedBy(Machine, c), Holds(c),
         NEW u \in Machine.units, NEW v \in Machine.units, SyncRecv(u, v)
  PROVE  /\ Pos[u] \in 1..Machine.signals
         /\ sent[u] = Machine.peers[Pos[u]][u]
         /\ v \in Machine.peers[Pos[u]][u] \ rcvd[u]
         /\ Pos[u] \in Chan[v][u]
         /\ \A j \in Chan[v][u] : Pos[u] <= j
         /\ Chan' = [Chan EXCEPT ![v][u] = @ \ {Pos[u]}]
         /\ rcvd' = [rcvd EXCEPT ![u] = @ \cup {v}]
         /\ Pos' = Pos /\ sent' = sent
<1>1. /\ At(u, "signal") /\ sent[u] = Peers(u)
      /\ v \in Peers(u) \ rcvd[u]
      /\ token[<<v, u>>] # <<>>
      /\ rcvd' = [rcvd EXCEPT ![u] = @ \cup {v}]
      /\ token' = [token EXCEPT ![<<v, u>>] = Tail(@)]
      /\ UNCHANGED <<schedule, pc, sent>>
  BY DEF SyncRecv
<1>2. Machine' = Machine
  BY <1>1 DEF Machine
<1>3. /\ WellFormed(Machine) /\ SignalsInOrder(Machine) /\ TypeOK /\ TokensInOrder
  BY DEF OrderedBy, Holds, SignalsHold
<1>4. /\ Pos[u] = Op(u).number /\ Pos[u] \in 1..Machine.signals
      /\ Peers(u) = Machine.peers[Pos[u]][u]
  BY <1>1, <1>3, PosFacts
<1>5. Pos' = Pos
  BY <1>1, <1>2 DEF Pos, NextSignal, Program
<1>6. /\ Pos[u] \in Range(token[<<v, u>>])
      /\ \A j \in Range(token[<<v, u>>]) : Pos[u] <= j
      /\ Range(Tail(token[<<v, u>>])) = Range(token[<<v, u>>]) \ {Pos[u]}
  <2> DEFINE t == token[<<v, u>>]
  <2>1. /\ t \in Seq(Nat) /\ t # <<>>
        /\ \A i, j \in DOMAIN t : i < j => t[i] < t[j]
    BY <1>1, <1>3 DEF TypeOK, TokensInOrder
  <2>2. t[1] = Pos[u]
    BY <1>1, <1>4, OwnTokenFirst
  <2> HIDE DEF t
  <2>3. /\ Pos[u] \in Range(t) /\ \A j \in Range(t) : Pos[u] <= j
        /\ Range(Tail(t)) = Range(t) \ {Pos[u]}
    BY <2>1, <2>2, Oldest
  <2> QED
    BY <2>3 DEF t
<1>7. Chan' = [Chan EXCEPT ![v][u] = @ \ {Pos[u]}]
  <2>1. /\ \A x \in (Machine.units \X Machine.units) \ {<<v, u>>} : token'[x] = token[x]
        /\ token'[<<v, u>>] = Tail(token[<<v, u>>])
    BY <1>1, <1>3 DEF TypeOK
  <2>2. \A a, b \in Machine.units :
          Range(token'[<<a, b>>]) =
            IF a = v /\ b = u THEN Range(token[<<a, b>>]) \ {Pos[u]}
            ELSE Range(token[<<a, b>>])
    BY <1>6, <2>1
  <2>3. /\ Chan \in [Machine.units -> [Machine.units -> SUBSET Nat]]
        /\ Chan' \in [Machine.units -> [Machine.units -> SUBSET Nat]]
    BY <1>2, <1>3, ChanType, RecvHolds, ChanTypeNext DEF Holds
  <2>4. /\ \A a, b \in Machine.units : ~(a = v /\ b = u) => Chan'[a][b] = Chan[a][b]
        /\ Chan'[v][u] = Chan[v][u] \ {Pos[u]}
    BY <1>2, <2>2, ChanPrime DEF Chan
  <2> DEFINE f == Chan
             g == Chan'
  <2> HIDE DEF f, g
  <2>5. g = [f EXCEPT ![v][u] = g[v][u]]
    BY <2>3, <2>4, OneChannel DEF f, g
  <2> QED
    BY <2>4, <2>5 DEF f, g
<1>8. Chan[v][u] = Range(token[<<v, u>>])
  BY DEF Chan
<1> QED
  BY <1>1, <1>4, <1>5, <1>6, <1>7, <1>8

LEMMA ProceedMaps ==
  ASSUME NEW c, OrderedBy(Machine, c), Holds(c), NEW u \in Machine.units, Proceed(u)
  PROVE  /\ Pos[u] \in 1..Machine.signals
         /\ sent[u] = Machine.peers[Pos[u]][u] /\ rcvd[u] = Machine.peers[Pos[u]][u]
         /\ \E k \in (Pos[u] + 1)..(Machine.signals + 1) :
              /\ \A j \in 1..Machine.signals :
                   Pos[u] + 1 <= j /\ j < k => Machine.peers[j][u] = {}
              /\ Pos' = [Pos EXCEPT ![u] = k]
         /\ sent' = [sent EXCEPT ![u] = {}] /\ rcvd' = [rcvd EXCEPT ![u] = {}]
         /\ Chan' = Chan
<1>1. /\ At(u, "signal") /\ sent[u] = Peers(u) /\ rcvd[u] = Peers(u)
      /\ pc' = [pc EXCEPT ![u] = @ + 1]
      /\ sent' = [sent EXCEPT ![u] = {}] /\ rcvd' = [rcvd EXCEPT ![u] = {}]
      /\ UNCHANGED <<schedule, token>>
  BY DEF Proceed
<1>2. Machine' = Machine
  BY <1>1 DEF Machine
<1>3. WellFormed(Machine) /\ SignalsInOrder(Machine) /\ TypeOK
  BY DEF OrderedBy, Holds
<1>4. /\ Pos[u] = Op(u).number /\ Pos[u] \in 1..Machine.signals
      /\ Peers(u) = Machine.peers[Pos[u]][u]
  BY <1>1, <1>3, PosFacts
<1>5. /\ pc[u] \in Places(Machine, u) /\ SignalAt(Machine, u, pc[u])
      /\ Machine.program[u][pc[u]].number = Pos[u]
  BY <1>1, <1>3, <1>4, SignalFacts
<1>6. /\ pc[u] \in Nat /\ pc[u] + 1 \in 1..(Len(Program(u)) + 1)
  BY <1>3, <1>5, ProgramShape
<1> DEFINE k == SignalFrom(u, pc[u] + 1)
<1>7. k \in (Pos[u] + 1)..(Machine.signals + 1)
  <2>1. k \in 1..(Machine.signals + 1) /\ Machine.signals \in Nat
    BY <1>3, <1>6, SignalFromType DEF SignalsInOrder
  <2>2. Pos[u] < k
    BY <1>3, <1>5, SignalFromLater
  <2> HIDE DEF k
  <2> QED
    BY <1>4, <2>1, <2>2
<1>8. ASSUME NEW j \in 1..Machine.signals, Pos[u] + 1 <= j, j < k
      PROVE  Machine.peers[j][u] = {}
  <2>1. ASSUME NEW i \in Places(Machine, u), SignalAt(Machine, u, i),
               Machine.program[u][i].number = j
        PROVE  pc[u] + 1 <= i
    <3>1. Pos[u] < j
      BY <1>3, <1>4, <1>8 DEF SignalsInOrder
    <3>2. pc[u] < i
      BY <1>3, <1>5, <2>1, <3>1, PlacesInOrder
    <3>3. i \in Nat
      BY <1>3, <2>1, ProgramShape
    <3> QED
      BY <1>6, <3>2, <3>3
  <2> QED
    BY <1>3, <1>6, <1>8, <2>1, NoneBefore
<1>9. Pos' = [Pos EXCEPT ![u] = k]
  <2>1. \A v \in Machine.units :
          SignalFrom(v, pc'[v]) = IF v = u THEN k ELSE SignalFrom(v, pc[v])
    BY <1>1, <1>3 DEF TypeOK
  <2>2. Pos = [v \in Machine.units |-> SignalFrom(v, pc[v])]
    BY DEF Pos, NextSignal, SignalFrom, SignalsFrom
  <2> HIDE DEF k
  <2> QED
    BY <1>2, <2>1, <2>2, PosPrime
<1>10. Chan' = Chan
  BY <1>1, <1>2 DEF Chan
<1> HIDE DEF k
<1> QED
  BY <1>1, <1>4, <1>7, <1>8, <1>9, <1>10

------------------------------------------------------------------------------
(* The initial states of the device are initial states of Handshake. *)
LEMMA InitMaps == Init /\ SelfOrdered(Machine) => HandshakeInit
<1> SUFFICES ASSUME Init, NEW c, OrderedBy(Machine, c)
             PROVE  HandshakeInit
  BY DEF SelfOrdered
<1>1. WellFormed(Machine) /\ SignalsInOrder(Machine) /\ TypeOK
  BY InitHolds DEF OrderedBy, Holds
<1>2. Pos \in [Machine.units -> 1..(Machine.signals + 1)]
  BY <1>1, PosFacts DEF Pos
<1>3. ASSUME NEW u \in Machine.units, NEW k \in 1..Machine.signals, k < Pos[u]
      PROVE  Machine.peers[k][u] = {}
  <2>1. Pos[u] = SignalFrom(u, 1) /\ 1 \in 1..(Len(Program(u)) + 1)
    BY <1>1, PosFacts DEF Init, TypeOK
  <2>2. \A j \in Places(Machine, u) : 1 <= j
    BY <1>1, ProgramShape
  <2> QED
    BY <1>1, <1>3, <2>1, <2>2, NoneBefore
<1>4. Chan = [u \in Machine.units |-> [v \in Machine.units |-> {}]]
  BY DEF Chan, Init, Range
<1>5. PICK n \in DOMAIN Machines : schedule = n
  BY DEF Init
<1>6. /\ Pos \in [Machines[n].units -> 1..(Machines[n].signals + 1)]
      /\ \A u \in Machines[n].units : \A k \in 1..Machines[n].signals :
           k < Pos[u] => Machines[n].peers[k][u] = {}
      /\ Chan = [u \in Machines[n].units |-> [v \in Machines[n].units |-> {}]]
      /\ sent = [u \in Machines[n].units |-> {}]
      /\ rcvd = [u \in Machines[n].units |-> {}]
  BY <1>2, <1>3, <1>4, <1>5 DEF Init, Machine
<1>7. H(n)!Init
  BY <1>6 DEF H!Init, H!Absent, H!Signal, Pos, Chan
<1> QED
  BY <1>5, <1>7 DEF HandshakeInit

(* Every step of the device is a step of Handshake or leaves it alone. *)
LEMMA StepMaps == DataflowInv /\ [Next]_vars => [HandshakeStep]_vars
<1> SUFFICES ASSUME NEW c, OrderedBy(Machine, c), Holds(c), Next
             PROVE  HandshakeStep \/ UNCHANGED vars
  BY DEF DataflowInv
<1>1. PICK n \in DOMAIN Machines : schedule = n
  BY DEF Holds, TypeOK
<1>2. Machine = Machines[n]
  BY <1>1 DEF Machine
<1>3. ASSUME NEW u \in Machine.units, BeginStage(u) \/ EndStage(u)
      PROVE  HandshakeStep
  <2>1. Pos' = Pos /\ sent' = sent /\ rcvd' = rcvd /\ Chan' = Chan
    BY <1>3, StageStutters
  <2>2. UNCHANGED H(n)!vars
    BY <2>1 DEF H!vars, Pos, Chan
  <2> QED
    BY <1>1, <2>2 DEF HandshakeStep
<1>4. ASSUME NEW u \in Machine.units, NEW v \in Machine.units, SyncSend(u, v)
      PROVE  HandshakeStep
  <2>1. /\ Pos[u] \in 1..Machines[n].signals
        /\ v \in Machines[n].peers[Pos[u]][u] \ sent[u]
        /\ sent' = [sent EXCEPT ![u] = @ \cup {v}]
        /\ Chan' = [Chan EXCEPT ![u][v] = @ \cup {Pos[u]}]
        /\ Pos' = Pos /\ rcvd' = rcvd
    BY <1>2, <1>4, SendMaps
  <2>2. H(n)!SyncSend(u, v)
    BY <2>1 DEF H!SyncSend, H!Signal, Pos, Chan
  <2>3. H(n)!Next
    BY <1>2, <2>2 DEF H!Next, H!UnitStep
  <2> QED
    BY <1>1, <2>3 DEF HandshakeStep
<1>5. ASSUME NEW u \in Machine.units, NEW v \in Machine.units, SyncRecv(u, v)
      PROVE  HandshakeStep
  <2>1. /\ Pos[u] \in 1..Machines[n].signals
        /\ sent[u] = Machines[n].peers[Pos[u]][u]
        /\ v \in Machines[n].peers[Pos[u]][u] \ rcvd[u]
        /\ Pos[u] \in Chan[v][u]
        /\ \A j \in Chan[v][u] : Pos[u] <= j
        /\ Chan' = [Chan EXCEPT ![v][u] = @ \ {Pos[u]}]
        /\ rcvd' = [rcvd EXCEPT ![u] = @ \cup {v}]
        /\ Pos' = Pos /\ sent' = sent
    BY <1>2, <1>5, RecvMaps
  <2>2. H(n)!SyncRecv(u, v)
    BY <2>1 DEF H!SyncRecv, H!Signal, Pos, Chan
  <2>3. H(n)!Next
    BY <1>2, <2>2 DEF H!Next, H!UnitStep
  <2> QED
    BY <1>1, <2>3 DEF HandshakeStep
<1>6. ASSUME NEW u \in Machine.units, Proceed(u)
      PROVE  HandshakeStep
  <2>1. /\ Pos[u] \in 1..Machines[n].signals
        /\ sent[u] = Machines[n].peers[Pos[u]][u] /\ rcvd[u] = Machines[n].peers[Pos[u]][u]
        /\ \E k \in (Pos[u] + 1)..(Machines[n].signals + 1) :
             /\ \A j \in 1..Machines[n].signals :
                  Pos[u] + 1 <= j /\ j < k => Machines[n].peers[j][u] = {}
             /\ Pos' = [Pos EXCEPT ![u] = k]
        /\ sent' = [sent EXCEPT ![u] = {}] /\ rcvd' = [rcvd EXCEPT ![u] = {}]
        /\ Chan' = Chan
    BY <1>2, <1>6, ProceedMaps
  <2>2. H(n)!Advance(u)
    BY <2>1 DEF H!Advance, H!Absent, H!Signal, Pos, Chan
  <2>3. H(n)!Next
    BY <1>2, <2>2 DEF H!Next, H!UnitStep
  <2> QED
    BY <1>1, <2>3 DEF HandshakeStep
<1> QED
  BY <1>3, <1>4, <1>5, <1>6 DEF Next, UnitStep, Finish

(* The lowered signals keep the handshake: seen through Pos and Chan, every  *)
(* launch is a behaviour of Handshake's steps (LowerSignalPattern turns a    *)
(* signal into the sync_send and sync_recv operations Handshake models).     *)
THEOREM RefinesHandshake == Spec /\ SelfOrdered(Machine) => ImplementsHandshake
<1> QED
  BY InitMaps, StepMaps, LaunchInv, PTL DEF Spec, ImplementsHandshake
=============================================================================
