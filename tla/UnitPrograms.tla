---------------------------- MODULE UnitPrograms ----------------------------
(* The program of every hardware unit, as the KTDFLowToDFIR pass builds it:  *)
(* each unit type gets a copy of the function from which the stages and      *)
(* signals of other types are erased, ktdf.parallel becomes a loop over the  *)
(* iterations of the unit's corelet, and signals become synchronization with *)
(* the matching units of the other types.                                    *)
EXTENDS SignalInsertion, DoubleBuffering

CONSTANT Grid    \* number of cores; all of them run the same schedule

ASSUME GridAssumption == Grid \in Nat \ {0}

GridCores == 0..(Grid - 1)

(* A unit is <<type, core, corelet>>. *)
Operands(s) == UNION {StageUnits(s, n) : n \in Stages(s)}
Units(s) == {<<o[1], c, o[2]>> : o \in Operands(s), c \in GridCores}
CoreletsOf(s, t) == {o[2] : o \in {q \in Operands(s) : q[1] = t}}

------------------------------------------------------------------------------
(* LowerSignalPattern: the units that unit u sends to and receives from when *)
(* it executes a signal over the given operands.                             *)
Multi(corelets) == Cardinality(corelets) > 1

(* A slip: every corelet paired with the first one of the peer. *)
SignalPeersFirstCorelet(s, operands, u) ==
  {<<t, u[2], Min({o[2] : o \in {q \in operands : q[1] = t}})>> :
     t \in Types(operands) \ {u[1]}}

SignalPeers(s, operands, u) ==
  LET group(t) == {o[2] : o \in {q \in operands : q[1] = t}}
      others == Types(operands) \ {u[1]}
      coreletAware == Multi(CoreletsOf(s, u[1])) /\ \E t \in others : Multi(group(t))
      (* the first unit on the corelet among the peers listed core by core *)
      sameCorelet(t) == {<<t, Min(GridCores), u[3]>>}
      sameCore(t) == {<<t, u[2], c>> : c \in group(t)}
  IN  UNION {IF coreletAware /\ CoreletsOf(s, u[1]) \subseteq group(t)
             THEN sameCorelet(t) ELSE sameCore(t) : t \in others}

------------------------------------------------------------------------------
(* The operations of the function in sequential order.  An operation is an   *)
(* iteration env of a leaf stage or of a signal.                             *)
StageOp(n) == [kind |-> "stage", node |-> n, env |-> <<>>]
SignalOp(sig) == [kind |-> "signal", node |-> sig.stage, sig |-> sig, env |-> <<>>]

Iterations(l) == IF l.kind = "parallel" THEN l.ub ELSE TripCount(l)

Unrolled(s) ==
  LET signals == InsertSignals(s)
      at(n, place) == LET here == {g \in signals : g.stage = n /\ g.place = place}
                          ops == SetToSeq(here)
                      IN  [i \in DOMAIN ops |-> SignalOp(ops[i])]
      body[n \in 0..Len(s)] ==
        LET kids == Ordered(Children(s, n), Len(s))
            nested == FlattenSeq([i \in DOMAIN kids |->
                                    body[kids[i]] \o at(kids[i], "after")])
            inIteration(i) == [j \in DOMAIN nested |->
                                 [nested[j] EXCEPT !.env = (n :> i) @@ @]]
        IN  IF n = 0 THEN nested
            ELSE IF s[n].kind \in {"for", "parallel"}
                 THEN FlattenSeq([i \in 1..Iterations(s[n]) |-> inIteration(i - 1)])
            ELSE IF s[n].kind = "pipeline" THEN nested
            ELSE at(n, "begin")
                 \o (IF n \in LeafStages(s) THEN <<StageOp(n)>> ELSE nested)
                 \o at(n, "end")
      executed(op) == op.kind = "signal" => SignalGuard(s, op.sig, op.env)
  IN  SelectSeq(body[0], executed)

(* lowerParallelOps: corelet c runs the c-th block of the iterations. *)
OnCorelet(s, op, c) ==
  \A p \in DOMAIN op.env :
    s[p].kind = "parallel" => op.env[p] \div (s[p].ub \div s[p].inst) = c

OpOperands(s, op) ==
  IF op.kind = "stage" THEN StageUnits(s, op.node)
  ELSE SignalUnits(s, op.sig.edge[1], op.sig.edge[2])

(* transformStagesToExecuteOn and transformPipelineToExecuteOn: the types of *)
(* the units of a stage, and of all stages of a pipeline together.           *)
ExecuteOn(s, n) ==
  Types(UNION {StageUnits(s, m) :
                 m \in IF s[n].kind = "pipeline" THEN DirectStages(s, n) ELSE {n}})

(* filterAndUnwrapKTDFLoweringOps: what stays in the program of a unit type  *)
(* is what has a unit of the type and is not inside a stage or a pipeline    *)
(* without one.                                                              *)
Executes(s, op, u) ==
  LET inside == Ancestors(s, op.node)
                  \cup (IF op.kind = "signal" /\ op.sig.place = "after"
                        THEN {} ELSE {op.node})
  IN  /\ u[1] \in Types(OpOperands(s, op))
      /\ \A n \in inside \cap (Stages(s) \cup Pipelines(s)) : u[1] \in ExecuteOn(s, n)
      /\ OnCorelet(s, op, u[3])

------------------------------------------------------------------------------
(* What a stage iteration moves.  Locations of a memref are told apart by    *)
(* the iterations of the loops that index it; a loop that is not around the  *)
(* stage runs inside it, and the stage covers all of its iterations.         *)
Indices(s, by, env) ==
  {f \in [by -> 0..Max({0} \cup {Iterations(s[l]) : l \in by})] :
     \A l \in by : IF l \in DOMAIN env THEN f[l] = env[l]
                   ELSE f[l] < Iterations(s[l])}

(* Transferred unless the condition around the transfer skips it. *)
Executed(x, env) == x.guards = {} \/ \E l \in x.guards : env[l] # 0

Transfers(s, op) == SelectSeq(s[op.node].xfers, LAMBDA x : Executed(x, op.env))

(* The locations of one end: in the schedule, where every memref is one      *)
(* buffer, and in the machine, where it may be two.                          *)
Touched(s, op, end) ==
  {[at |-> <<end.at, f>>, loc |-> <<Buffer(s, end.at, op.env), f>>] :
     f \in Indices(s, end.by, op.env)}

Reads(s, op) ==
  UNION {Touched(s, op, x.src) : x \in {y \in Range(Transfers(s, op)) : ~y.src.fifo}}
Writes(s, op) ==
  UNION {Touched(s, op, x.dst) : x \in {y \in Range(Transfers(s, op)) : ~y.dst.fifo}}

(* The FIFO slots <<from, to, slot>> taken from and put into, in order.      *)
Pops(s, op) ==
  LET taking == SelectSeq(Transfers(s, op), LAMBDA x : x.src.fifo)
  IN  [i \in DOMAIN taking |-> taking[i].src.at]
Pushes(s, op) ==
  LET putting == SelectSeq(Transfers(s, op), LAMBDA x : x.dst.fifo)
  IN  [i \in DOMAIN putting |-> putting[i].dst.at]

------------------------------------------------------------------------------
(* Operations of one iteration of every ktdf.parallel around both of them. *)
SameInstance(s, op, other) ==
  \A p \in DOMAIN op.env \cap DOMAIN other.env :
    s[p].kind = "parallel" => op.env[p] = other.env[p]

(* Which executions of signals meet, as a number for each.  A signal after a *)
(* stage is one operation for all its units.  A back edge has an operation   *)
(* at its store and one at its load: the i-th of the one meets the i-th of   *)
(* the other, or (none is left) gets the number after the last.              *)
Meetings(s, ops) ==
  LET signals == {i \in DOMAIN ops : ops[i].kind = "signal"}
      atLoad == {i \in signals : ops[i].sig.place = "begin"}
      numbered(i) == Cardinality({j \in signals \ atLoad : j <= i})
      ordinal(i) == Cardinality({j \in signals : j <= i /\ ops[j].sig = ops[i].sig
                                                 /\ SameInstance(s, ops[i], ops[j])})
      partner(i) == {j \in signals \ atLoad : ops[j].sig.edge = ops[i].sig.edge
                        /\ SameInstance(s, ops[i], ops[j]) /\ ordinal(j) = ordinal(i)}
  IN  [i \in signals |->
         IF i \notin atLoad THEN numbered(i)
         ELSE Min({numbered(j) : j \in partner(i)}
                  \cup {Cardinality(signals \ atLoad) + 1})]

(* What a sequential run of the schedule tells about every operation.  Stage *)
(* iterations are numbered in sequential order and stand for the data they   *)
(* produce.  A read wants the data of the last iteration that wrote the      *)
(* element; the j-th item taken from a FIFO slot is the j-th one put into it *)
(* in the same iteration of ktdf.parallel.                                   *)
Lowered(s, ops, meeting) ==
  LET stageOps == {i \in DOMAIN ops : ops[i].kind = "stage"}
      number == [i \in stageOps |-> Cardinality({j \in stageOps : j <= i})]
      reads == [i \in stageOps |-> Reads(s, ops[i])]
      writes == [i \in stageOps |-> Writes(s, ops[i])]
      pops == [i \in stageOps |-> Pops(s, ops[i])]
      pushes == [i \in stageOps |-> Pushes(s, ops[i])]
      wrote == [i \in stageOps |-> {w.at : w \in writes[i]}]
      writer(i, at) ==
        Max({0} \cup {number[j] : j \in {k \in stageOps : k < i /\ at \in wrote[k]}})
      using(slots, slot, i) ==
        {j \in stageOps : slot \in Range(slots[j]) /\ SameInstance(s, ops[i], ops[j])}
      upTo(set, i) == Cardinality({j \in set : j <= i})
      putter(i, slot) ==
        number[CHOOSE j \in using(pushes, slot, i) :
                 upTo(using(pushes, slot, i), j) = upTo(using(pops, slot, i), i)]
      stage(i) ==
        [kind |-> "stage", number |-> number[i],
         reads |-> {[loc |-> r.loc, want |-> writer(i, r.at)] : r \in reads[i]},
         writes |-> {w.loc : w \in writes[i]},
         pops |-> [j \in DOMAIN pops[i] |-> <<putter(i, pops[i][j]), pops[i][j]>>],
         pushes |-> [j \in DOMAIN pushes[i] |-> <<number[i], pushes[i][j]>>]]
  IN  [i \in DOMAIN ops |-> IF i \in stageOps THEN stage(i)
                            ELSE [kind |-> "signal", number |-> meeting[i]]]

(* A FIFO joins two units of one core and corelet, and is named by the two.  *)
(* The items <<number, slot>> a stage iteration takes and puts, by FIFO.     *)
OnUnit(u, op) ==
  LET from(item) == <<<<item[2][1], u[2], u[3]>>, u>>
      to(item) == <<u, <<item[2][2], u[2], u[3]>>>>
      byFifo(items, channel(_)) ==
        [ch \in {channel(i) : i \in Range(items)} |->
           SelectSeq(items, LAMBDA i : channel(i) = ch)]
  IN  IF op.kind = "signal" THEN op
      ELSE [op EXCEPT !.pops = byFifo(@, from), !.pushes = byFifo(@, to)]

(* The programs of all units, with the number of signal meetings, the units  *)
(* each unit meets in each of them, the FIFOs and the locations of memory.   *)
Compile(s) ==
  LET ops == Unrolled(s)
      meeting == Meetings(s, ops)
      lowered == Lowered(s, ops, meeting)
      mine == [u \in Units(s) |-> {i \in DOMAIN ops : Executes(s, ops[i], u)}]
      meetings == Cardinality(Range(meeting))
      at(k, u) == {i \in mine[u] \cap DOMAIN meeting : meeting[i] = k}
      program == [u \in Units(s) |->
                    LET order == Ordered(mine[u], Len(ops))
                    IN  [j \in DOMAIN order |-> OnUnit(u, lowered[order[j]])]]
      stages(u) == {o \in Range(program[u]) : o.kind = "stage"}
  IN  [units |-> Units(s),
       program |-> program,
       channels |-> UNION {UNION {DOMAIN o.pops \cup DOMAIN o.pushes : o \in stages(u)} :
                           u \in Units(s)},
       signals |-> meetings,
       peers |-> [k \in 1..meetings |-> [u \in Units(s) |->
                    UNION {SignalPeers(s, OpOperands(s, ops[i]), u) : i \in at(k, u)}]],
       locations |-> UNION {{r.loc : r \in o.reads} \cup o.writes :
                            o \in {p \in Range(lowered) : p.kind = "stage"}}]
=============================================================================
