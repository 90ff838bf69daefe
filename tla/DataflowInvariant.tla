-------------------------- MODULE DataflowInvariant --------------------------
(* What makes the promises of DataflowRuntime inductive when a certificate c *)
(* orders the schedule (HappensBefore): the clocks tell the truth about the  *)
(* program counters, every FIFO holds the part of its stream that was put    *)
(* and not taken, every memory location the data of a writer that no other   *)
(* writer followed, and the tokens in flight are those sent and not received.*)
EXTENDS DataflowRuntime

(* A unit that leaves its place for the next knows what the clock of the     *)
(* next place says; one inside a stage iteration has taken its inputs and    *)
(* knows that already.                                                       *)
ClocksHold(c) ==
  \A u, v \in Machine.units :
    /\ c.clock[u][pc[u]][v] <= pc[v]
    /\ busy[u] /\ u # v => c.clock[u][pc[u] + 1][v] <= pc[v]

(* The items put into and taken from a FIFO so far. *)
PutSoFar(c, ch) == c.put[ch][pc[ch[1]]]
TakenSoFar(c, ch) ==
  IF busy[ch[2]] THEN c.take[ch][pc[ch[2]] + 1] ELSE c.take[ch][pc[ch[2]]]

StreamsHold(c) ==
  \A ch \in Machine.channels :
    /\ Len(fifo[ch]) = PutSoFar(c, ch) - TakenSoFar(c, ch)
    /\ \A q \in DOMAIN fifo[ch] : fifo[ch][q] = c.stream[ch][TakenSoFar(c, ch) + q]

(* The stage iterations that have written a location. *)
DoneWriters(cl) ==
  {x \in Writers(Machine, cl[1], cl[2]) : x[2] < pc[x[1]]}

MemoryHolds(c) ==
  \A cl \in Cores \X Machine.locations :
    \/ memory[cl] = 0 /\ DoneWriters(cl) = {}
    \/ \E w \in DoneWriters(cl) :
         /\ memory[cl] = Program(w[1])[w[2]].number
         /\ \A x \in DoneWriters(cl) : ~Before(c, w[1], w[2], x[1], x[2])

------------------------------------------------------------------------------
(* The place of signal k in the program of a unit that has it. *)
SignalPlace(u, k) ==
  CHOOSE i \in Places(Machine, u) : SignalAt(Machine, u, i) /\ Program(u)[i].number = k

(* u has sent to (received from) v in signal k. *)
HasSent(u, v, k) ==
  /\ v \in Machine.peers[k][u]
  /\ SignalPlace(u, k) < pc[u] \/ (SignalPlace(u, k) = pc[u] /\ v \in sent[u])
HasReceived(u, v, k) ==
  /\ v \in Machine.peers[k][u]
  /\ SignalPlace(u, k) < pc[u] \/ (SignalPlace(u, k) = pc[u] /\ v \in rcvd[u])

SendsFirst ==
  \A u \in Machine.units : At(u, "signal") =>
    /\ sent[u] \subseteq Peers(u)
    /\ rcvd[u] \subseteq Peers(u)
    /\ rcvd[u] # {} => sent[u] = Peers(u)

TokensInFlight ==
  \A u, v \in Machine.units : \A k \in Nat :
    k \in Range(token[<<u, v>>])
      <=> k \in 1..Machine.signals /\ HasSent(u, v, k) /\ ~HasReceived(v, u, k)

(* sync_send deposits the tokens for one receiver in the order of the signals.*)
TokensInOrder ==
  \A u, v \in Machine.units : \A i, j \in DOMAIN token[<<u, v>>] :
    i < j => token[<<u, v>>][i] < token[<<u, v>>][j]

ReceivedWasSent ==
  \A u, v \in Machine.units : \A k \in 1..Machine.signals :
    HasReceived(u, v, k) => HasSent(v, u, k)

SignalsHold == SendsFirst /\ TokensInFlight /\ TokensInOrder /\ ReceivedWasSent

------------------------------------------------------------------------------
Holds(c) ==
  /\ TypeOK /\ ClocksHold(c) /\ StreamsHold(c) /\ MemoryHolds(c) /\ SignalsHold
  /\ ReadsMatchSequential

(* The inductive invariant of every launch of an ordered schedule. *)
DataflowInv == \E c : OrderedBy(Machine, c) /\ Holds(c)
=============================================================================
