--------------------------- MODULE DataflowRuntime ---------------------------
(* The units of the device run the programs compiled for a schedule, each at *)
(* its own pace.  The device is external: units execute their operations in  *)
(* order, memories are shared, FIFOs have a fixed depth and block, sync_send *)
(* deposits a token for one unit and sync_recv waits for one.                *)
(*                                                                           *)
(* A stage iteration takes its inputs when it begins and delivers its        *)
(* outputs when it ends.  Data is represented by the number of the stage     *)
(* iteration that produced it (0: not written yet), so that what a stage     *)
(* reads can be compared with what it reads in the sequential execution of   *)
(* the schedule.                                                             *)
EXTENDS HappensBefore

CONSTANTS
  Machines,    \* the compiled schedules: a function from names to results
               \* of UnitPrograms!Compile
  FifoDepth    \* the entries of a FIFO

ASSUME FifoDepthAssumption == FifoDepth \in Nat \ {0}

VARIABLES
  schedule,   \* the name of the schedule that was compiled
  pc,         \* pc[u]: the operation u is at
  busy,       \* busy[u]: u is inside a stage iteration
  taken,      \* taken[u]: the inputs of that iteration
  memory,     \* memory[<<core, location>>]: the data there
  fifo,       \* fifo[ch]: the items in a FIFO
  sent, rcvd, \* the peers u has sent to and received from in its signal
  token       \* token[<<u, v>>]: the tokens from u to v

vars == <<schedule, pc, busy, taken, memory, fifo, sent, rcvd, token>>

Machine == Machines[schedule]
Cores == {u[2] : u \in Machine.units}
Program(u) == Machine.program[u]
Done(u) == pc[u] > Len(Program(u))
Op(u) == Program(u)[pc[u]]
At(u, kind) == ~Done(u) /\ Op(u).kind = kind
Peers(u) == Machine.peers[Op(u).number][u]

NoInputs == [read |-> {}, popped |-> <<>>]

Init ==
  /\ schedule \in DOMAIN Machines
  /\ pc = [u \in Machine.units |-> 1]
  /\ busy = [u \in Machine.units |-> FALSE]
  /\ taken = [u \in Machine.units |-> NoInputs]
  /\ memory = [cl \in Cores \X Machine.locations |-> 0]
  /\ fifo = [ch \in Machine.channels |-> <<>>]
  /\ sent = [u \in Machine.units |-> {}]
  /\ rcvd = [u \in Machine.units |-> {}]
  /\ token = [uv \in Machine.units \X Machine.units |-> <<>>]

------------------------------------------------------------------------------
(* The number of items a stage iteration takes from a FIFO. *)
Takes(u, ch) == IF ch \in DOMAIN Op(u).pops THEN Len(Op(u).pops[ch]) ELSE 0

BeginStage(u) ==
  /\ At(u, "stage") /\ ~busy[u]
  /\ \A ch \in DOMAIN Op(u).pops : Takes(u, ch) <= Len(fifo[ch])
  /\ busy' = [busy EXCEPT ![u] = TRUE]
  /\ taken' = [taken EXCEPT ![u] =
       [read |-> {[loc |-> r.loc, want |-> memory[<<u[2], r.loc>>]] : r \in Op(u).reads},
        popped |-> [ch \in DOMAIN Op(u).pops |-> SubSeq(fifo[ch], 1, Takes(u, ch))]]]
  /\ fifo' = [ch \in DOMAIN fifo |-> SubSeq(fifo[ch], Takes(u, ch) + 1, Len(fifo[ch]))]
  /\ UNCHANGED <<schedule, pc, memory, sent, rcvd, token>>

(* The items it puts into one. *)
Puts(u, ch) == IF ch \in DOMAIN Op(u).pushes THEN Op(u).pushes[ch] ELSE <<>>

(* A slip: no wait for room in the FIFOs.                                    *)
EndStageWithoutRoom(u) ==
  /\ At(u, "stage") /\ busy[u]
  /\ busy' = [busy EXCEPT ![u] = FALSE]
  /\ taken' = [taken EXCEPT ![u] = NoInputs]
  /\ memory' = [cl \in DOMAIN memory |->
                  IF cl[1] = u[2] /\ cl[2] \in Op(u).writes
                  THEN Op(u).number ELSE memory[cl]]
  /\ fifo' = [ch \in DOMAIN fifo |-> fifo[ch] \o Puts(u, ch)]
  /\ pc' = [pc EXCEPT ![u] = @ + 1]
  /\ UNCHANGED <<schedule, sent, rcvd, token>>

EndStage(u) ==
  /\ At(u, "stage") /\ busy[u]
  /\ \A ch \in DOMAIN Op(u).pushes : Len(fifo[ch]) + Len(Puts(u, ch)) <= FifoDepth
  /\ busy' = [busy EXCEPT ![u] = FALSE]
  /\ taken' = [taken EXCEPT ![u] = NoInputs]
  /\ memory' = [cl \in DOMAIN memory |->
                  IF cl[1] = u[2] /\ cl[2] \in Op(u).writes
                  THEN Op(u).number ELSE memory[cl]]
  /\ fifo' = [ch \in DOMAIN fifo |-> fifo[ch] \o Puts(u, ch)]
  /\ pc' = [pc EXCEPT ![u] = @ + 1]
  /\ UNCHANGED <<schedule, sent, rcvd, token>>

(* Slips in a signal: a token left behind, and no wait for an answer.        *)
SyncRecvKeepingToken(u, v) ==
  /\ At(u, "signal") /\ sent[u] = Peers(u)
  /\ v \in Peers(u) \ rcvd[u]
  /\ token[<<v, u>>] # <<>>
  /\ rcvd' = [rcvd EXCEPT ![u] = @ \cup {v}]
  /\ UNCHANGED <<schedule, pc, busy, taken, memory, fifo, sent, token>>

ProceedWithoutAnswer(u) ==
  /\ At(u, "signal") /\ sent[u] = Peers(u)
  /\ pc' = [pc EXCEPT ![u] = @ + 1]
  /\ sent' = [sent EXCEPT ![u] = {}]
  /\ rcvd' = [rcvd EXCEPT ![u] = {}]
  /\ UNCHANGED <<schedule, busy, taken, memory, fifo, token>>

(* dataflow.sync_send and dataflow.sync_recv of a lowered signal *)
SyncSend(u, v) ==
  /\ At(u, "signal")
  /\ v \in Peers(u) \ sent[u]
  /\ sent' = [sent EXCEPT ![u] = @ \cup {v}]
  /\ token' = [token EXCEPT ![<<u, v>>] = Append(@, Op(u).number)]
  /\ UNCHANGED <<schedule, pc, busy, taken, memory, fifo, rcvd>>

SyncRecv(u, v) ==
  /\ At(u, "signal")
  /\ sent[u] = Peers(u)
  /\ v \in Peers(u) \ rcvd[u]
  /\ token[<<v, u>>] # <<>>
  /\ rcvd' = [rcvd EXCEPT ![u] = @ \cup {v}]
  /\ token' = [token EXCEPT ![<<v, u>>] = Tail(@)]
  /\ UNCHANGED <<schedule, pc, busy, taken, memory, fifo, sent>>

Proceed(u) ==
  /\ At(u, "signal")
  /\ sent[u] = Peers(u) /\ rcvd[u] = Peers(u)
  /\ pc' = [pc EXCEPT ![u] = @ + 1]
  /\ sent' = [sent EXCEPT ![u] = {}]
  /\ rcvd' = [rcvd EXCEPT ![u] = {}]
  /\ UNCHANGED <<schedule, busy, taken, memory, fifo, token>>

UnitStep(u) ==
  \/ BeginStage(u) \/ EndStage(u) \/ Proceed(u)
  \/ \E v \in Machine.units : SyncSend(u, v) \/ SyncRecv(u, v)

AllDone == \A u \in Machine.units : Done(u)

(* The launch is over: the host collects the results. *)
Finish == AllDone /\ UNCHANGED vars

Next == Finish \/ \E u \in Machine.units : UnitStep(u)

(* Units are hardware of their own and never stop while they can act.  That  *)
(* the device as a whole does not stop is all that termination needs: every  *)
(* step takes its unit further.                                              *)
Spec == Init /\ [][Next]_vars /\ WF_vars(Next)

------------------------------------------------------------------------------
TypeOK ==
  /\ schedule \in DOMAIN Machines
  /\ pc \in [Machine.units -> Nat]
  /\ busy \in [Machine.units -> BOOLEAN]
  /\ DOMAIN taken = Machine.units
  /\ memory \in [Cores \X Machine.locations -> Nat]
  /\ sent \in [Machine.units -> SUBSET Machine.units]
  /\ rcvd \in [Machine.units -> SUBSET Machine.units]
  /\ token \in [Machine.units \X Machine.units -> Seq(Nat)]
  /\ \A u \in Machine.units :
       /\ pc[u] \in 1..(Len(Program(u)) + 1)
       /\ busy[u] => At(u, "stage")
       /\ sent[u] \cup rcvd[u] # {} => At(u, "signal")
  /\ DOMAIN fifo = Machine.channels
  /\ \A ch \in Machine.channels : IsSequence(fifo[ch]) /\ Len(fifo[ch]) <= FifoDepth

(* Every stage iteration gets exactly the data it gets when the schedule is  *)
(* executed sequentially: no unit overtakes the signals and FIFOs the two    *)
(* passes gave it, and no buffer is overwritten while its data is needed.    *)
Inputs(op) == [read |-> op.reads, popped |-> op.pops]
ReadsMatchSequential == \A u \in Machine.units : busy[u] => taken[u] = Inputs(Op(u))

(* Two units are never inside stage iterations one of which writes what the  *)
(* other reads or writes.                                                    *)
Locs(reads) == {r.loc : r \in reads}
NoRace ==
  \A u, v \in Machine.units :
    u # v /\ u[2] = v[2] /\ busy[u] /\ busy[v] =>
      Op(u).writes \cap (Op(v).writes \cup Locs(Op(v).reads)) = {}

(* What the two passes promise of a schedule, seen when it is launched: its   *)
(* signals and FIFOs alone order every two stage iterations that would       *)
(* disturb each other, and no unit ever has to wait for itself               *)
(* (KTDFToKTDFLow.cpp and SignalInsertion.cpp insert a signal wherever a     *)
(* stage reads what a stage of other units writes).                          *)
Certified(m) ==
  \E c \in {Certificate(m, FifoDepth)} : OrderedBy(m, c) /\ NeverWaits(m, c, FifoDepth)
SchedulesOrdered ==
  (\A u \in Machine.units : pc[u] = 1 /\ ~busy[u]) => Certified(Machine)

(* A signal is two-sided: whom a unit sends to and receives from sends to it *)
(* and receives from it in the same signal.                                  *)
PairedSignals ==
  \A k \in 1..Machine.signals : \A u \in Machine.units :
    \A v \in Machine.peers[k][u] : v \in Machine.units /\ u \in Machine.peers[k][v]

(* When all programs are done nothing is left in a FIFO or between units:    *)
(* the guards of a back edge let as many signals through at its load as at   *)
(* its store.                                                                *)
NothingLeft ==
  AllDone => /\ \A ch \in DOMAIN fifo : fifo[ch] = <<>>
             /\ \A uv \in DOMAIN token : token[uv] = <<>>

(* The guards of UnitStep. *)
CanStep(u) ==
  \/ /\ At(u, "stage") /\ ~busy[u]
     /\ \A ch \in DOMAIN Op(u).pops : Takes(u, ch) <= Len(fifo[ch])
  \/ /\ At(u, "stage") /\ busy[u]
     /\ \A ch \in DOMAIN Op(u).pushes : Len(fifo[ch]) + Len(Puts(u, ch)) <= FifoDepth
  \/ At(u, "signal") /\ Peers(u) \ sent[u] # {}
  \/ /\ At(u, "signal") /\ sent[u] = Peers(u)
     /\ \E v \in Peers(u) \ rcvd[u] : token[<<v, u>>] # <<>>
  \/ At(u, "signal") /\ sent[u] = Peers(u) /\ rcvd[u] = Peers(u)

(* Units never wait for one another in a circle, of signals, of full and of  *)
(* empty FIFOs: as long as one of them is not done, some unit can act.       *)
SomeUnitCanStep == AllDone \/ \E u \in Machine.units : CanStep(u)

(* Every launch ends: no unit waits for ever for a token, for an item or for *)
(* room in a FIFO.                                                           *)
Termination == <>AllDone

(* The lowered signals keep the promises of Handshake, whose N and Peer are  *)
(* those of the compiled schedule.                                           *)
NextSignal(u) ==
  LET ahead == {j \in pc[u]..Len(Program(u)) : Program(u)[j].kind = "signal"}
  IN  IF ahead = {} THEN Machine.signals + 1 ELSE Program(u)[Min(ahead)].number

H(n) == INSTANCE Handshake WITH
  Unit <- Machines[n].units, N <- Machines[n].signals, Peer <- Machines[n].peers,
  pos <- [u \in Machine.units |-> NextSignal(u)],
  chan <- [u \in Machine.units |-> [v \in Machine.units |-> Range(token[<<u, v>>])]]

HandshakeInit == \E n \in DOMAIN Machines : schedule = n /\ H(n)!Init
HandshakeStep ==
  \E n \in DOMAIN Machines :
    schedule = n /\ (H(n)!Next \/ UNCHANGED H(n)!vars)
ImplementsHandshake == HandshakeInit /\ [][HandshakeStep]_vars
=============================================================================
