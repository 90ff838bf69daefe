-------------------------- MODULE Handshake_proofs --------------------------
(* Proofs about Handshake for every set of units, every number of signals    *)
(* and every symmetric assignment of peers.                                  *)
EXTENDS Handshake, WellFoundedInduction, TLAPS

USE CountAssumption, PeerTypeAssumption DEF Signal

LEMMA InitInv == Init => HandshakeInv
<1> SUFFICES ASSUME Init PROVE HandshakeInv
  OBVIOUS
<1>1. TypeOK /\ Progress
  BY DEF Init, TypeOK, Progress
<1>2. ASSUME NEW u \in Unit, NEW v \in Unit, NEW k \in Signal
      PROVE  ~HasSent(u, v, k) /\ ~HasReceived(u, v, k)
  BY DEF Init, Absent, HasSent, HasReceived
<1>3. InFlight /\ Causal
  BY <1>2 DEF Init, InFlight, Causal
<1> QED
  BY <1>1, <1>3 DEF HandshakeInv

(* One sync_send. *)
LEMMA SendInv ==
  ASSUME HandshakeInv, NEW u \in Unit, NEW v \in Unit, SyncSend(u, v)
  PROVE  HandshakeInv'
<1> USE DEF HandshakeInv
<1> DEFINE k == pos[u]
<1>1. /\ k \in Signal
      /\ v \in Peer[k][u] \ sent[u]
      /\ pos' = pos /\ rcvd' = rcvd
      /\ sent' = [sent EXCEPT ![u] = @ \cup {v}]
      /\ chan' = [chan EXCEPT ![u][v] = @ \cup {k}]
  BY DEF SyncSend
<1>2. TypeOK'
  BY <1>1 DEF TypeOK
<1>3. Progress'
  BY <1>1 DEF TypeOK, Progress
<1>4. ASSUME NEW a \in Unit, NEW b \in Unit, NEW j \in Signal
      PROVE  /\ HasReceived(a, b, j)' <=> HasReceived(a, b, j)
             /\ HasSent(a, b, j)' <=> HasSent(a, b, j) \/ (a = u /\ b = v /\ j = k)
  BY <1>1 DEF TypeOK, HasReceived, HasSent
<1>5. ~HasSent(u, v, k) /\ ~HasReceived(v, u, k)
  BY <1>1 DEF TypeOK, HasSent, Causal
<1>6. ASSUME NEW a \in Unit, NEW b \in Unit, NEW j \in Signal
      PROVE  (j \in chan[a][b])' <=> j \in chan[a][b] \/ (a = u /\ b = v /\ j = k)
  BY <1>1 DEF TypeOK
<1>7. InFlight'
  BY <1>4, <1>5, <1>6 DEF InFlight
<1>8. Causal'
  BY <1>4 DEF Causal
<1> QED
  BY <1>2, <1>3, <1>7, <1>8

(* A unit that may still receive from v in its signal finds that signal's    *)
(* token in front of every other token of v.                                 *)
LEMMA OldestToken ==
  ASSUME HandshakeInv, NEW u \in Unit, NEW v \in Unit,
         pos[u] \in Signal, v \in Peer[pos[u]][u] \ rcvd[u], chan[v][u] # {}
  PROVE  /\ pos[u] \in chan[v][u]
         /\ \A j \in chan[v][u] : pos[u] <= j
<1> USE DEF HandshakeInv
<1> DEFINE k == pos[u]
<1>1. \A j \in chan[v][u] : j \in Signal /\ HasSent(v, u, j) /\ ~HasReceived(u, v, j)
  BY DEF TypeOK, InFlight
<1>2. u \in Peer[k][v]
  BY PeerSymmetryAssumption
<1>3. ASSUME NEW j \in chan[v][u] PROVE k <= j
  <2>1. u \in Peer[j][v] /\ j \in Signal
    BY <1>1 DEF HasSent
  <2>2. v \in Peer[j][u]
    BY <2>1, PeerSymmetryAssumption
  <2> QED
    BY <1>1, <2>1, <2>2 DEF HasReceived, TypeOK
<1>4. PICK j \in chan[v][u] : j \in Signal /\ HasSent(v, u, j) /\ k <= j
  BY <1>1, <1>3
<1>5. CASE j = k
  BY <1>3, <1>4, <1>5
<1>6. CASE k < j
  <2>1. HasSent(v, u, k)
    BY <1>2, <1>4, <1>6 DEF HasSent, TypeOK
  <2>2. ~HasReceived(u, v, k)
    BY DEF HasReceived, TypeOK
  <2> QED
    BY <1>3, <2>1, <2>2 DEF InFlight
<1> QED
  BY <1>4, <1>5, <1>6 DEF TypeOK

(* One sync_recv. *)
LEMMA RecvInv ==
  ASSUME HandshakeInv, NEW u \in Unit, NEW v \in Unit, SyncRecv(u, v)
  PROVE  HandshakeInv'
<1> USE DEF HandshakeInv
<1> DEFINE k == pos[u]
<1>1. /\ k \in Signal
      /\ sent[u] = Peer[k][u]
      /\ v \in Peer[k][u] \ rcvd[u]
      /\ pos' = pos /\ sent' = sent
      /\ rcvd' = [rcvd EXCEPT ![u] = @ \cup {v}]
  BY DEF SyncRecv
<1>2. chan' = [chan EXCEPT ![v][u] = @ \ {k}] /\ k \in chan[v][u]
  <2>1. PICK m \in chan[v][u] :
          /\ \A j \in chan[v][u] : m <= j
          /\ chan' = [chan EXCEPT ![v][u] = @ \ {m}]
    BY DEF SyncRecv
  <2>2. k \in chan[v][u] /\ \A j \in chan[v][u] : k <= j
    BY <1>1, <2>1, OldestToken
  <2>3. m = k
    BY <2>1, <2>2 DEF TypeOK
  <2> QED
    BY <2>1, <2>2, <2>3
<1>3. TypeOK'
  BY <1>1, <1>2 DEF TypeOK
<1>4. Progress'
  BY <1>1 DEF TypeOK, Progress
<1>5. ASSUME NEW a \in Unit, NEW b \in Unit, NEW j \in Signal
      PROVE  /\ HasSent(a, b, j)' <=> HasSent(a, b, j)
             /\ HasReceived(a, b, j)'
                  <=> HasReceived(a, b, j) \/ (a = u /\ b = v /\ j = k)
  BY <1>1 DEF TypeOK, HasReceived, HasSent
<1>6. ASSUME NEW a \in Unit, NEW b \in Unit, NEW j \in Signal
      PROVE  (j \in chan[a][b])' <=> j \in chan[a][b] /\ ~(a = v /\ b = u /\ j = k)
  BY <1>2 DEF TypeOK
<1>7. InFlight'
  BY <1>5, <1>6 DEF InFlight
<1>8. HasSent(v, u, k)
  BY <1>1, <1>2 DEF InFlight
<1>9. Causal'
  BY <1>5, <1>8 DEF Causal
<1> QED
  BY <1>3, <1>4, <1>7, <1>9

(* A unit leaves its signal for the next one in its program. *)
LEMMA AdvanceInv ==
  ASSUME HandshakeInv, NEW u \in Unit, Advance(u)
  PROVE  HandshakeInv'
<1> USE DEF HandshakeInv
<1>1. PICK k \in (pos[u] + 1)..(N + 1) :
        Absent(u, pos[u] + 1, k) /\ pos' = [pos EXCEPT ![u] = k]
  BY DEF Advance
<1>2. /\ pos[u] \in Signal
      /\ sent[u] = Peer[pos[u]][u] /\ rcvd[u] = Peer[pos[u]][u]
      /\ sent' = [sent EXCEPT ![u] = {}]
      /\ rcvd' = [rcvd EXCEPT ![u] = {}]
      /\ chan' = chan
  BY DEF Advance
<1>3. TypeOK'
  BY <1>1, <1>2 DEF TypeOK
<1>4. Progress'
  BY <1>1, <1>2 DEF TypeOK, Progress
<1>5. ASSUME NEW a \in Unit, NEW b \in Unit, NEW j \in Signal
      PROVE  /\ HasSent(a, b, j)' <=> HasSent(a, b, j)
             /\ HasReceived(a, b, j)' <=> HasReceived(a, b, j)
  <2>1. CASE a # u
    BY <1>1, <1>2, <2>1 DEF TypeOK, HasSent, HasReceived
  <2>2. CASE a = u
    <3>1. pos'[u] = k /\ sent'[u] = {} /\ rcvd'[u] = {}
      BY <1>1, <1>2 DEF TypeOK
    <3>2. pos[u] < k /\ pos[u] \in Nat /\ k \in Nat
      BY <1>1, <1>2 DEF TypeOK
    <3>3. CASE j < pos[u]
      BY <2>2, <3>1, <3>2, <3>3 DEF HasSent, HasReceived
    <3>4. CASE j = pos[u]
      BY <1>2, <2>2, <3>1, <3>2, <3>4 DEF HasSent, HasReceived
    <3>5. CASE pos[u] < j /\ j < k
      <4>1. Peer[j][u] = {}
        BY <1>1, <3>2, <3>5 DEF Absent
      <4> QED
        BY <2>2, <4>1 DEF HasSent, HasReceived
    <3>6. CASE k <= j
      BY <2>2, <3>1, <3>2, <3>6 DEF HasSent, HasReceived
    <3> QED
      BY <3>2, <3>3, <3>4, <3>5, <3>6
  <2> QED
    BY <2>1, <2>2
<1>6. InFlight' /\ Causal'
  BY <1>2, <1>5 DEF InFlight, Causal
<1> QED
  BY <1>3, <1>4, <1>6

LEMMA NextInv == HandshakeInv /\ [Next]_vars => HandshakeInv'
<1> SUFFICES ASSUME HandshakeInv, [Next]_vars PROVE HandshakeInv'
  OBVIOUS
<1>1. ASSUME NEW u \in Unit, Advance(u) PROVE HandshakeInv'
  BY <1>1, AdvanceInv
<1>2. ASSUME NEW u \in Unit, NEW v \in Unit, SyncSend(u, v) PROVE HandshakeInv'
  BY <1>2, SendInv
<1>3. ASSUME NEW u \in Unit, NEW v \in Unit, SyncRecv(u, v) PROVE HandshakeInv'
  BY <1>3, RecvInv
<1>4. CASE UNCHANGED vars
  BY <1>4 DEF vars, HandshakeInv, TypeOK, Progress, InFlight, Causal,
              HasSent, HasReceived
<1> QED
  BY <1>1, <1>2, <1>3, <1>4 DEF Next, UnitStep

(* The tokens in flight are exactly those sent and not yet received, in      *)
(* every state of every run.                                                 *)
THEOREM HandshakeInvariant == Spec => []HandshakeInv
<1> QED
  BY InitInv, NextInv, PTL DEF Spec

(* A receive always takes the token of the receiver's own signal, although   *)
(* the tokens sync_send deposits are not named.                              *)
THEOREM TokensMatch == Spec => []MatchedTokens
<1>1. HandshakeInv => MatchedTokens
  BY OldestToken DEF MatchedTokens
<1> QED
  BY <1>1, HandshakeInvariant, PTL

(* A unit that has left a signal behind knows all its peers have reached it. *)
THEOREM SignalsAreRendezvous == Spec => []Rendezvous
<1>1. HandshakeInv => Rendezvous
  <2> SUFFICES ASSUME HandshakeInv, NEW k \in Signal, NEW u \in Unit,
                      NEW v \in Peer[k][u], k < pos[u]
               PROVE  k <= pos[v]
    BY DEF Rendezvous
  <2>1. v \in Unit /\ HasReceived(u, v, k)
    BY DEF HasReceived
  <2>2. HasSent(v, u, k)
    BY <2>1 DEF HandshakeInv, Causal
  <2> QED
    BY <2>1, <2>2 DEF HasSent, HandshakeInv, TypeOK
<1> QED
  BY <1>1, HandshakeInvariant, PTL

(* The units that are least advanced: the well-founded order on Nat has a    *)
(* minimum in every nonempty set of positions.                               *)
LEMMA LeastAdvanced ==
  ASSUME TypeOK, ~Finished
  PROVE  \E u \in Unit : pos[u] \in Signal /\ \A v \in Unit : pos[u] <= pos[v]
<1> DEFINE T == {pos[u] : u \in Unit}
<1>1. T \subseteq Nat /\ T # {}
  BY DEF TypeOK, Finished
<1> HIDE DEF T
<1>2. PICK m \in T : \A n \in T : ~(<<n, m>> \in OpToRel(<, Nat))
  BY <1>1, NatLessThanWellFounded, WFMin
<1>3. \A n \in T : m <= n
  <2> SUFFICES ASSUME NEW n \in T, ~(m <= n) PROVE FALSE
    OBVIOUS
  <2>1. n \in Nat /\ m \in Nat /\ n < m
    BY <1>1
  <2>2. <<n, m>> \in OpToRel(<, Nat)
    BY <2>1, Zenon DEF OpToRel
  <2> QED
    BY <1>2, <2>2
<1>4. PICK u \in Unit : m = pos[u]
  BY DEF T
<1>5. \A v \in Unit : pos[u] <= pos[v]
  BY <1>3, <1>4 DEF T
<1>6. pos[u] # N + 1
  BY <1>5 DEF TypeOK, Finished
<1> QED
  BY <1>5, <1>6 DEF TypeOK

(* No set of peers deadlocks: some least advanced unit, or a peer it waits   *)
(* for, can always act.                                                      *)
THEOREM NoDeadlock == Spec => []DeadlockFree
<1>1. HandshakeInv => DeadlockFree
  <2> SUFFICES ASSUME HandshakeInv, ~Finished PROVE \E u \in Unit : CanStep(u)
    BY DEF DeadlockFree
  <2>1. PICK u \in Unit : pos[u] \in Signal /\ \A v \in Unit : pos[u] <= pos[v]
    BY LeastAdvanced DEF HandshakeInv
  <2> DEFINE k == pos[u]
  <2>2. CASE ~(Peer[k][u] \subseteq sent[u])
    BY <2>1, <2>2 DEF CanStep
  <2>3. CASE Peer[k][u] \subseteq sent[u] /\ Peer[k][u] \subseteq rcvd[u]
    BY <2>1, <2>3 DEF CanStep
  <2>4. CASE Peer[k][u] \subseteq sent[u] /\ ~(Peer[k][u] \subseteq rcvd[u])
    <3>1. PICK v \in Peer[k][u] : v \notin rcvd[u]
      BY <2>4
    <3>2. v \in Unit /\ u \in Peer[k][v]
      BY <2>1, PeerSymmetryAssumption
    <3>3. CASE HasSent(v, u, k)
      <4>1. ~HasReceived(u, v, k)
        BY <2>1, <3>1 DEF HasReceived, HandshakeInv, TypeOK
      <4>2. chan[v][u] # {}
        BY <2>1, <3>2, <3>3, <4>1 DEF HandshakeInv, InFlight
      <4> QED
        BY <2>1, <3>1, <4>2 DEF CanStep
    <3>4. CASE ~HasSent(v, u, k)
      <4>1. pos[v] = k /\ u \notin sent[v]
        BY <2>1, <3>2, <3>4 DEF HasSent, HandshakeInv, TypeOK
      <4> QED
        BY <2>1, <3>2, <4>1 DEF CanStep
    <3> QED
      BY <3>3, <3>4
  <2> QED
    BY <2>2, <2>3, <2>4
<1> QED
  BY <1>1, HandshakeInvariant, PTL

(* When all programs are done no token is left in a channel. *)
THEOREM ChannelsDrain == Spec => []Drained
<1>1. HandshakeInv => Drained
  <2> SUFFICES ASSUME HandshakeInv, Finished, NEW u \in Unit, NEW v \in Unit,
                      NEW k \in chan[u][v]
               PROVE  FALSE
    BY DEF Drained
  <2>1. k \in Signal /\ v \in Peer[k][u] /\ ~HasReceived(v, u, k)
    BY DEF HandshakeInv, TypeOK, InFlight, HasSent
  <2>2. u \in Peer[k][v]
    BY <2>1, PeerSymmetryAssumption
  <2> QED
    BY <2>1, <2>2 DEF HasReceived, Finished
<1> QED
  BY <1>1, HandshakeInvariant, PTL
=============================================================================
