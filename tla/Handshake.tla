------------------------------ MODULE Handshake ------------------------------
(* What the lowered ktdf_lowering.signal operations promise at run time.     *)
(* LowerSignalPattern replaces a signal, in the program of each unit that    *)
(* takes part in it, by one sync_send to every peer followed by one          *)
(* sync_recv from every peer.  The N signals a schedule executes have one    *)
(* sequential order, and each unit meets its own signals in that order.      *)
(*                                                                           *)
(* Peer[k][u] is the set of units that u synchronizes with in signal k; it   *)
(* is empty when u takes no part.  sync_send deposits a token and does not   *)
(* block, sync_recv waits for a token and takes it: tokens carry no name,    *)
(* so a receiver takes the oldest one.  The signal number stored with a      *)
(* token is an observer's record that no guard reads.                        *)
EXTENDS Naturals

CONSTANTS Unit, N, Peer

Signal == 1..N

(* Token lists are exchanged in both directions and no unit is its own peer. *)
ASSUME CountAssumption == N \in Nat
ASSUME PeerTypeAssumption == Peer \in [Signal -> [Unit -> SUBSET Unit]]
ASSUME PeerSymmetryAssumption ==
  \A k \in Signal : \A u \in Unit : \A v \in Peer[k][u] :
    /\ v # u
    /\ u \in Peer[k][v]

VARIABLES
  pos,    \* pos[u]: the signal u is at, N+1 when its program is done
  sent,   \* sent[u]: the peers u has sent to in that signal
  rcvd,   \* rcvd[u]: the peers u has received from in that signal
  chan    \* chan[u][v]: the tokens u has sent that v has not received

vars == <<pos, sent, rcvd, chan>>

TypeOK ==
  /\ pos \in [Unit -> 1..(N + 1)]
  /\ sent \in [Unit -> SUBSET Unit]
  /\ rcvd \in [Unit -> SUBSET Unit]
  /\ chan \in [Unit -> [Unit -> SUBSET Signal]]

(* The signals u takes no part in are not in its program. *)
Absent(u, from, to) == \A k \in Signal : from <= k /\ k < to => Peer[k][u] = {}

Init ==
  /\ pos \in [Unit -> 1..(N + 1)]
  /\ \A u \in Unit : Absent(u, 1, pos[u])
  /\ sent = [u \in Unit |-> {}]
  /\ rcvd = [u \in Unit |-> {}]
  /\ chan = [u \in Unit |-> [v \in Unit |-> {}]]

(* Slips a lowering of signals could make: a flag instead of a token for     *)
(* each signal, waiting before sending, taking a token without using it up,  *)
(* going on before every peer has answered.                                  *)
SyncSendAsFlag(u, v) ==
  /\ pos[u] \in Signal
  /\ v \in Peer[pos[u]][u] \ sent[u]
  /\ sent' = [sent EXCEPT ![u] = @ \cup {v}]
  /\ chan' = [chan EXCEPT ![u][v] = {pos[u]}]
  /\ UNCHANGED <<pos, rcvd>>

SyncSendAfterReceiving(u, v) ==
  /\ pos[u] \in Signal
  /\ rcvd[u] = Peer[pos[u]][u]
  /\ v \in Peer[pos[u]][u] \ sent[u]
  /\ sent' = [sent EXCEPT ![u] = @ \cup {v}]
  /\ chan' = [chan EXCEPT ![u][v] = @ \cup {pos[u]}]
  /\ UNCHANGED <<pos, rcvd>>

SyncRecvKeepingToken(u, v) ==
  /\ pos[u] \in Signal
  /\ sent[u] = Peer[pos[u]][u]
  /\ v \in Peer[pos[u]][u] \ rcvd[u]
  /\ chan[v][u] # {}
  /\ rcvd' = [rcvd EXCEPT ![u] = @ \cup {v}]
  /\ UNCHANGED <<pos, sent, chan>>

AdvanceWithoutAnswer(u) ==
  /\ pos[u] \in Signal
  /\ sent[u] = Peer[pos[u]][u]
  /\ \E k \in (pos[u] + 1)..(N + 1) :
       /\ Absent(u, pos[u] + 1, k)
       /\ pos' = [pos EXCEPT ![u] = k]
  /\ sent' = [sent EXCEPT ![u] = {}]
  /\ rcvd' = [rcvd EXCEPT ![u] = {}]
  /\ UNCHANGED chan

(* dataflow.sync_send to v *)
SyncSend(u, v) ==
  /\ pos[u] \in Signal
  /\ v \in Peer[pos[u]][u] \ sent[u]
  /\ sent' = [sent EXCEPT ![u] = @ \cup {v}]
  /\ chan' = [chan EXCEPT ![u][v] = @ \cup {pos[u]}]
  /\ UNCHANGED <<pos, rcvd>>

(* dataflow.sync_recv from v: all sends come before the first receive *)
SyncRecv(u, v) ==
  /\ pos[u] \in Signal
  /\ sent[u] = Peer[pos[u]][u]
  /\ v \in Peer[pos[u]][u] \ rcvd[u]
  /\ \E k \in chan[v][u] :
       /\ \A j \in chan[v][u] : k <= j
       /\ chan' = [chan EXCEPT ![v][u] = @ \ {k}]
  /\ rcvd' = [rcvd EXCEPT ![u] = @ \cup {v}]
  /\ UNCHANGED <<pos, sent>>

(* The operations between this signal and the next one u takes part in. *)
Advance(u) ==
  /\ pos[u] \in Signal
  /\ sent[u] = Peer[pos[u]][u]
  /\ rcvd[u] = Peer[pos[u]][u]
  /\ \E k \in (pos[u] + 1)..(N + 1) :
       /\ Absent(u, pos[u] + 1, k)
       /\ pos' = [pos EXCEPT ![u] = k]
  /\ sent' = [sent EXCEPT ![u] = {}]
  /\ rcvd' = [rcvd EXCEPT ![u] = {}]
  /\ UNCHANGED chan

UnitStep(u) == Advance(u) \/ \E v \in Unit : SyncSend(u, v) \/ SyncRecv(u, v)

Next == \E u \in Unit : UnitStep(u)

(* Units run independently and none is stopped for good. *)
Spec == Init /\ [][Next]_vars /\ \A u \in Unit : WF_vars(UnitStep(u))

------------------------------------------------------------------------------
Finished == \A u \in Unit : pos[u] = N + 1

(* A token taken out of a channel is one sent for the very signal the        *)
(* receiver is at, although tokens carry no name (OperationLowerings.cpp:    *)
(* a unit's sync_send and sync_recv of one signal name the same peers).      *)
MatchedTokens ==
  \A u, v \in Unit :
    pos[u] \in Signal /\ v \in Peer[pos[u]][u] \ rcvd[u] /\ chan[v][u] # {}
      => /\ pos[u] \in chan[v][u]
         /\ \A j \in chan[v][u] : pos[u] <= j

(* A signal is a rendezvous: a unit that has left signal k behind knows that *)
(* each of its peers has reached k, so everything a peer did before signal k *)
(* is complete (SignalInsertion.cpp places k between producer and consumer). *)
Rendezvous ==
  \A k \in Signal : \A u \in Unit : \A v \in Peer[k][u] :
    k < pos[u] => k <= pos[v]

CanStep(u) ==
  /\ pos[u] \in Signal
  /\ \/ Peer[pos[u]][u] \ sent[u] # {}
     \/ \E v \in Peer[pos[u]][u] \ rcvd[u] : chan[v][u] # {}
     \/ Peer[pos[u]][u] \subseteq sent[u] \cap rcvd[u]

(* Units never wait for one another in a circle: as long as one of them has  *)
(* signals left, some unit can act (all sends before all receives, one order *)
(* of signals for all units).                                                *)
DeadlockFree == Finished \/ \E u \in Unit : CanStep(u)

(* No token is left over when all programs are done: the next launch of the  *)
(* same programs starts from empty channels.                                 *)
Drained == Finished => \A u, v \in Unit : chan[u][v] = {}

(* Every unit completes its program. *)
Termination == <>Finished

------------------------------------------------------------------------------
(* What makes the promises above inductive: how far each ordered pair of     *)
(* units has come determines the tokens between them.                        *)
HasSent(u, v, k) ==
  v \in Peer[k][u] /\ (k < pos[u] \/ (k = pos[u] /\ v \in sent[u]))
HasReceived(u, v, k) ==
  v \in Peer[k][u] /\ (k < pos[u] \/ (k = pos[u] /\ v \in rcvd[u]))

(* A unit between two signals has nothing pending, and receives only after   *)
(* it has sent to all its peers.                                             *)
Progress ==
  \A u \in Unit :
    /\ pos[u] = N + 1 => sent[u] = {} /\ rcvd[u] = {}
    /\ pos[u] \in Signal =>
         /\ sent[u] \subseteq Peer[pos[u]][u]
         /\ rcvd[u] \subseteq Peer[pos[u]][u]
         /\ rcvd[u] # {} => sent[u] = Peer[pos[u]][u]

InFlight ==
  \A u, v \in Unit : \A k \in Signal :
    k \in chan[u][v] <=> HasSent(u, v, k) /\ ~HasReceived(v, u, k)

Causal ==
  \A u, v \in Unit : \A k \in Signal : HasReceived(u, v, k) => HasSent(v, u, k)

(* The tokens in flight are exactly those sent and not received, and none is *)
(* received that was not sent for that signal (the sync_send and sync_recv   *)
(* operations LowerSignalPattern creates are one-to-one).                    *)
HandshakeInv == TypeOK /\ Progress /\ InFlight /\ Causal
=============================================================================
