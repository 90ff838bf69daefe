-------------------------- MODULE AddressBufferFill --------------------------
(* IndirectAddrBufFillLegalization: a transfer that fills an indirect        *)
(* address buffer from a memory that its unit does not read is split, and an *)
(* earlier stage brings the addresses to a memory that the unit does read.   *)
(*                                                                           *)
(* A stage has the units it is mapped to and its operations in order; succ   *)
(* gives the stages that wait for its token.  An operation makes a value or  *)
(* moves the contents of memrefs; it is under the regions around it, from    *)
(* the outermost.  Values from outside of the stages have negative names.    *)
EXTENDS ArchViews

CONSTANTS
  Inputs,               \* programs
  Device,               \* the operations of the device
  AddressBuffers        \* its memories that are indirect address buffers

VARIABLES input, phase, program

Memref(mem, id) == [mem |-> mem, id |-> id]
Op(op, id, fn, uses, reads, write, under) ==
  [op |-> op, id |-> id, fn |-> fn, uses |-> uses, reads |-> reads, write |-> write, under |-> under]
Pure(id, fn, uses, under) == Op("pure", id, fn, uses, <<>>, Memref(None, ""), under)
Load(id, memref, under) == Op("load", id, "load", <<>>, <<memref>>, Memref(None, ""), under)
(* A transfer from a source, which values address, to a destination.         *)
Transfer(id, reads, uses, write, under) == Op("transfer", id, "move", uses, reads, write, under)
DynamicTransfer(id, reads, uses, write, under) == Op("transfer", id, "sized move", uses, reads, write, under)
IndTransfer(id, reads, write, under) == Op("indirect", id, "indirect", <<>>, reads, write, under)
If(condition) == [kind |-> "if", condition |-> condition, taken |-> TRUE]

MemoriesFeeding(graph, unit, exclude) ==
  {graph.nodes[n].resource : n \in {m \in DOMAIN graph.nodes :
     /\ graph.nodes[m].kind = "Memory"
     /\ \E u \in NodesFor(graph, unit) : <<m, u>> \in Range(graph.edges)}} \ {exclude}
UnitConnects(graph, unit, source, dest) ==
  \E u \in NodesFor(graph, unit) :
    /\ \E n \in NodesFor(graph, source) : <<n, u>> \in Range(graph.edges)
    /\ \E n \in NodesFor(graph, dest) : <<u, n>> \in Range(graph.edges)
StageUnit(stage) == IF Len(stage.units) = 1 THEN stage.units[1] ELSE None

FillsOf(stage) == SelectSeq(stage.ops, LAMBDA o : o.op = "transfer" /\ o.write.mem \in AddressBuffers)
CollectFillSites(p) ==
  FlattenSeq([s \in DOMAIN p.stages |->
    [k \in DOMAIN FillsOf(p.stages[s]) |-> [stage |-> s, id |-> FillsOf(p.stages[s])[k].id]]])

-----------------------------------------------------------------------------
(* Values of a stage are computed again where the list of clones stands,     *)
(* unless they come from outside; only operations without effects can be.    *)
RecreateOutside(st, body, values) ==
  LET needed[k \in 1..(Len(body) + 1)] ==
        IF k > Len(body) THEN Range(values)
        ELSE needed[k + 1] \cup (IF body[k].id \in needed[k + 1] THEN Range(body[k].uses) ELSE {})
      taken == SelectSeq(Indices(body), LAMBDA k : body[k].id \in needed[1] /\ body[k].id \notin DOMAIN st.map)
      map == st.map @@ [v \in {body[k].id : k \in Range(taken)} |-> v + st.next]
      new(v) == IF v \in DOMAIN map THEN map[v] ELSE v
      clone(k) == [body[k] EXCEPT !.id = new(@), !.uses = [i \in DOMAIN @ |-> new(@[i])], !.under = st.under]
  IN  [st EXCEPT !.map = map, !.ops = @ \o [i \in DOMAIN taken |-> clone(taken[i])],
                 !.ok = @ /\ \A k \in Range(taken) : body[k].op = "pure"]
New(st, v) == IF v \in DOMAIN st.map THEN st.map[v] ELSE v

(* The guards around the fill are made again, one in the other.              *)
Guarded(st, body, guard) ==
  LET made == RecreateOutside(st, body, <<guard.condition>>)
  IN  [made EXCEPT !.under = Append(@, If(New(made, guard.condition)))]

(* What only the operands of the fill were for is erased.                    *)
EraseDeadDefs(body, operands) ==
  LET users(k) == {j \in DOMAIN body : body[k].id \in Range(body[j].uses)}
      guards(k) == \E j \in DOMAIN body : \E i \in DOMAIN body[j].under : body[j].under[i].condition = body[k].id
      dead[k \in DOMAIN body] ==
        /\ body[k].op = "pure" /\ ~guards(k)
        /\ body[k].id \in operands \/ users(k) # {}
        /\ \A j \in users(k) : j > k /\ dead[j]
      kept == SelectSeq(Indices(body), LAMBDA k : ~dead[k])
  IN  [i \in DOMAIN kept |-> body[kept[i]]]

-----------------------------------------------------------------------------
FillStage(p) == p.stages[Head(p.todo).stage]
Fill(p) == CHOOSE o \in Range(FillStage(p).ops) : o.id = Head(p.todo).id
(* The first stage in front whose unit can bring the data.                   *)
FindStagingStage(p, source, staging) ==
  LET able == {s \in 1..(Head(p.todo).stage - 1) :
                 /\ StageUnit(p.stages[s]) # None
                 /\ UnitConnects(p.graph, StageUnit(p.stages[s]), source, staging)}
  IN  {s \in able : \A t \in able : s <= t}

(* The copy in front of the fill, to stand at the end of the staging stage.  *)
Staged(p, fill, buffer) ==
  LET body == FillStage(p).ops
      start == [ops |-> <<>>, map |-> <<>>, under |-> <<>>, next |-> p.next, ok |-> TRUE]
      inside == FoldLeft(LAMBDA st, guard : Guarded(st, body, guard), start, fill.under)
      copied(st) == [st EXCEPT !.ops = Append(@, [fill EXCEPT !.id = @ + p.next, !.write = buffer, !.under = st.under,
                                                              !.uses = [i \in DOMAIN @ |-> New(st, @[i])]])]
  IN  copied(RecreateOutside(inside, body, fill.uses))

Rewritten(p, fill, buffer, stage, copy) ==
  LET filled == [k \in DOMAIN FillStage(p).ops |->
                   LET o == FillStage(p).ops[k] IN IF o = fill THEN [o EXCEPT !.reads = <<buffer>>, !.uses = <<>>] ELSE o]
  IN  [p EXCEPT !.stages[stage].ops = @ \o copy.ops,
                !.stages[Head(p.todo).stage].ops = EraseDeadDefs(filled, Range(fill.uses)),
                !.next = @ + 100, !.todo = Tail(@)]
CanBeStaged(p, fill, reachable) ==
  /\ Cardinality(reachable) = 1
  /\ fill.fn = "move"
  /\ p.private
  /\ \A i \in DOMAIN fill.under : fill.under[i].kind = "if"
(* The program with the fill rerouted over memory m, if that is possible.    *)
Rerouted(p, fill, m) ==
  LET buffer == Memref(m, "staging" \o ToString(p.next))
  IN  {Rewritten(p, fill, buffer, w[1], w[2]) :
         w \in {v \in FindStagingStage(p, fill.reads[1].mem, m) \X {Staged(p, fill, buffer)} : v[2].ok}}

(* A fill out of a memory that its unit reads stays; any other is rerouted   *)
(* over the one memory that the unit reads, or the program is rejected.      *)
Legalized(p, fill, unit) ==
  LET reachable == MemoriesFeeding(p.graph, unit, fill.write.mem)
  IN  CASE unit = None \/ fill.reads[1].mem = None -> {}
        [] unit # None /\ fill.reads[1].mem \in reachable -> {[p EXCEPT !.todo = Tail(@)]}
        [] OTHER -> UNION {Rerouted(p, fill, m) : m \in {n \in reachable : CanBeStaged(p, fill, reachable)}}

-----------------------------------------------------------------------------
Init == input \in Inputs /\ phase = "collect" /\ program = input

Collect ==
  /\ phase = "collect" /\ phase' = "legalize"
  /\ program' = [program EXCEPT !.graph = RoutingGraph(Device), !.todo = CollectFillSites(program)]
  /\ UNCHANGED input
LegalizeFillSite ==
  /\ phase = "legalize" /\ program.todo # <<>>
  /\ \E legalized \in {Legalized(program, Fill(program), StageUnit(FillStage(program)))} :
       \/ program' \in legalized /\ UNCHANGED phase
       \/ legalized = {} /\ phase' = "error" /\ UNCHANGED program
  /\ UNCHANGED input
NoSitesLeft == phase = "legalize" /\ program.todo = <<>> /\ phase' = "done" /\ UNCHANGED <<input, program>>
Ended == phase \in {"done", "error"} /\ UNCHANGED <<input, phase, program>>
Next == Collect \/ LegalizeFillSite \/ NoSitesLeft \/ Ended

-----------------------------------------------------------------------------
(* The contents of the memrefs after the stages have run in some order, and  *)
(* which of the conditions hold.  A value is what it is computed from.       *)
Orders(p) ==
  {o \in Permutations(DOMAIN p.stages) :
     \A i, j \in DOMAIN o : i < j => o[i] \notin p.succ[o[j]]}
Value(values, v) ==
  CASE v < 0 -> <<ToString(v), <<>>>> [] v \in DOMAIN values -> values[v] [] OTHER -> <<"undefined", <<>>>>
Content(memory, memref) == IF memref.id \in DOMAIN memory THEN memory[memref.id] ELSE <<memref.id, <<>>>>
Executed(s, op, holds) ==
  LET from == [i \in DOMAIN op.reads |-> Content(s.memory, op.reads[i])]
      made == IF op.fn = "move" /\ op.uses = <<>> THEN from[1]
              ELSE <<op.fn, from \o [i \in DOMAIN op.uses |-> Value(s.values, op.uses[i])]>>
  IN  CASE \E i \in DOMAIN op.under : (Value(s.values, op.under[i].condition)[1] \in holds) # op.under[i].taken -> s
        [] op.op \in {"pure", "load"} -> [s EXCEPT !.values = (op.id :> made) @@ @]
        [] OTHER -> [s EXCEPT !.memory = (op.write.id :> made) @@ @]
Memory(p, order, holds) ==
  LET stage(memory, s) ==
        FoldLeft(LAMBDA t, op : Executed(t, op, holds), [memory |-> memory, values |-> <<>>], p.stages[s].ops).memory
  IN  FoldLeft(stage, <<>>, order)

Conditions(p) ==
  UNION {UNION {{op.under[i].condition : i \in DOMAIN op.under} : op \in Range(p.stages[s].ops)} : s \in DOMAIN p.stages}
Names(p, v) ==
  IF v < 0 THEN {ToString(v)} ELSE {op.fn : op \in {o \in UNION {Range(p.stages[s].ops) : s \in DOMAIN p.stages} : o.id = v}}
Memrefs(p) == {op.write.id : op \in UNION {Range(p.stages[s].ops) : s \in DOMAIN p.stages}} \ {""}

(* A stage moves data only between memories that its unit is joined to.      *)
OverDatapaths(graph, stage) ==
  \A op \in Range(stage.ops) :
    op.op = "transfer" => \/ UnitConnects(graph, StageUnit(stage), op.reads[1].mem, op.write.mem)
                          \/ /\ op.write.mem \in AddressBuffers
                             /\ op.reads[1].mem \in MemoriesFeeding(graph, StageUnit(stage), op.write.mem)

(* What the stages put into their memrefs and address buffers is what they   *)
(* put there, in every order that the tokens allow, and the way there is     *)
(* over datapaths: a staged copy that a fill does not wait for, that runs    *)
(* under another condition or that is made of other values shows here.       *)
FlowsKept ==
  phase = "done" =>
    /\ \A s \in DOMAIN program.stages : OverDatapaths(program.graph, program.stages[s])
    /\ \A order \in Orders(input), holds \in SUBSET UNION {Names(input, v) : v \in Conditions(input)} :
         \A id \in Memrefs(input) :
           Content(Memory(program, order, holds), Memref(None, id)) = Content(Memory(input, order, holds), Memref(None, id))
=============================================================================
