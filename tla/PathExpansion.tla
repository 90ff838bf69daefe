---------------------------- MODULE PathExpansion ----------------------------
(* The pass that routes the data between the stages of a pipeline over the   *)
(* memories and units of the device, one planning step per action.           *)
(*                                                                           *)
(* A pipeline is [stages, succ]: a stage is [unit, ops], pinned to a unit or *)
(* to None, and succ gives for each stage those that wait for its token.     *)
(* An operation is [op, src, dst, mode, of]: a "transfer", a "gather" or     *)
(* "scatter", or a "read" or "write" of a FIFO by a compute stage.  What it  *)
(* reads and writes is a memref [mem, id], a FIFO slot [from, to, id, slot]  *)
(* or NoValue.  "of" tells apart the operations of the input; those the pass *)
(* adds have of = 0.                                                         *)
EXTENDS ArchViews

CONSTANTS
  Devices,     \* a function from names to devices
  Pipelines    \* pipelines, each with its device: [device, stages, succ]

ASSUME DevicesAssumption ==
  \A device \in DOMAIN Devices : JoinsNodes(RoutingGraph(Devices[device]))

ASSUME PipelinesAssumption == \A p \in Pipelines : p.device \in DOMAIN Devices

VARIABLES
  input,       \* the pipeline before the pass
  phase,       \* the next planning step, "unchanged", "failed" or "done"
  stages,      \* the stages, those added by the pass last
  order,       \* the stages in the order they have in the pipeline
  placed,      \* the stages placed so far, when they get a new order
  sorted,      \* the stages, each behind those it waits for
  succ,        \* succ[s]: the stages that wait for s
  flows,       \* the data passed between stages
  fifos,       \* the new FIFOs, in the order of their creation
  buffers,     \* the memories of the new buffers
  result       \* the pipeline that replaces the input

vars == <<input, phase, stages, order, placed, sorted, succ, flows, fifos,
          buffers, result>>

Memref(m, id) == [mem |-> m, from |-> None, to |-> None, id |-> id, slot |-> 0]
FifoSlot(a, b, id, k) == [mem |-> None, from |-> a, to |-> b, id |-> id, slot |-> k]
NoValue == FifoSlot(None, None, 0, 0)
IsMemref(v) == v.mem # None
IsFifo(v) == v.from # None

Graphs == [device \in DOMAIN Devices |-> RoutingGraph(Devices[device])]
Graph == Graphs[input.device]
Kind(n) == Graph.nodes[n].kind
Resource(n) == Graph.nodes[n].resource
KindOf(unit) == IF NodesFor(Graph, unit) = {} THEN None ELSE Kind(NodeFor(Graph, unit))

Original == DOMAIN input.stages
Succs(s) == Range(succ[s])

(* Kahn's algorithm over a queue: the stages left out are on cycles.         *)
TopologicalSort(list, next) ==
  LET free(done, s) == \A p \in Range(list) : s \in Range(next[p]) => Contains(done, p)
      take(q, k) ==
        IF k > Len(q) THEN q
        ELSE q \o SelectSeq(next[q[k]], LAMBDA s :
                    ~Contains(q, s) /\ free(SubSeq(q, 1, k), s))
  IN  FoldLeft(take, SelectSeq(list, LAMBDA s : free(<<>>, s)), Indices(list))

------------------------------------------------------------------------------
(* The side of a stage: compute stages are those pinned to a compute unit,   *)
(* the others come before one (load) or after one (store), never both.       *)
Anchor(s) == s \in Original /\ KindOf(input.stages[s].unit) = "Compute"

Reached(s) ==              \* the stages behind s
  FoldLeft(LAMBDA r, k : r \cup UNION {Range(input.succ[t]) : t \in r},
           Range(input.succ[s]), Indices(input.stages))

Before(s) == \E a \in Original : Anchor(a) /\ a \in Reached(s)
After(s) == \E a \in Original : Anchor(a) /\ s \in Reached(a)
Side(s) == IF Anchor(s) THEN "compute" ELSE IF Before(s) THEN "load" ELSE "store"

SidesClear ==
  /\ \E s \in Original : Anchor(s)
  /\ \A s \in Original : ~Anchor(s) => (Before(s) # After(s))

SortAndValidateStages ==
  /\ phase = "sort"
  /\ sorted' = TopologicalSort(order, succ)
  /\ phase' = IF Len(sorted') = Len(order) /\ SidesClear THEN "resources" ELSE "failed"
  /\ UNCHANGED <<input, stages, order, placed, succ, flows, fifos, buffers, result>>

------------------------------------------------------------------------------
(* What all transfers of a stage agree on at one end: the memory, and the    *)
(* load/store unit of their FIFOs.  Indirect transfers go before the others. *)
Transfers(s) ==
  LET ind == SelectSeq(stages[s].ops, LAMBDA o : o.op \in {"gather", "scatter"})
  IN  IF ind # <<>> THEN ind ELSE SelectSeq(stages[s].ops, LAMBDA o : o.op = "transfer")

Agreed(ends) == IF Cardinality(ends) = 1 THEN CHOOSE e \in ends : TRUE ELSE None
LoadStoreEnd(unit) == IF KindOf(unit) = "LoadStoreUnit" THEN unit ELSE None

(* The one memory a unit reads (load side) or writes (store side).           *)
MemoryOfUnit(unit, side) ==
  LET touches(n, u) == IF side = "load" THEN <<n, u>> \in Range(Graph.edges)
                       ELSE <<u, n>> \in Range(Graph.edges)
      memories == {Resource(n) : n \in {m \in DOMAIN Graph.nodes :
                     Kind(m) = "Memory" /\ \E u \in NodesFor(Graph, unit) : touches(m, u)}}
  IN  IF Cardinality(memories) = 1 THEN CHOOSE m \in memories : TRUE ELSE None

(* The memory (resource) and unit of an unpinned stage.                      *)
Placement(s) ==
  LET transfers == Range(Transfers(s))
      readMem == Agreed({o.src.mem : o \in transfers})
      writeMem == Agreed({o.dst.mem : o \in transfers})
      readUnit == Agreed({LoadStoreEnd(o.src.to) : o \in transfers})
      writeUnit == Agreed({LoadStoreEnd(o.dst.from) : o \in transfers})
      memory == IF readMem # None /\ (writeMem = None \/ Side(s) = "load")
                THEN readMem ELSE writeMem
      unit == IF readUnit # None THEN readUnit ELSE writeUnit
      ofUnit == MemoryOfUnit(unit, Side(s))
  IN  CASE readUnit # None /\ writeUnit # None /\ readUnit # writeUnit -> {}
        [] unit = None -> IF memory = None THEN {} ELSE {[resource |-> memory, unit |-> None]}
        [] OTHER -> IF ofUnit = None \/ memory \notin {None, ofUnit} THEN {}
                    ELSE {[resource |-> ofUnit, unit |-> unit]}

AssignOriginalStageResources ==
  LET place(s) == IF stages[s].unit # None
                  THEN {[resource |-> stages[s].unit, unit |-> stages[s].unit]}
                  ELSE Placement(s)
  IN  /\ phase = "resources"
      /\ IF \E s \in Original : place(s) = {}
         THEN phase' = "failed" /\ UNCHANGED stages
         ELSE /\ phase' = "flows"
              /\ stages' = [s \in DOMAIN stages |->
                   LET p == CHOOSE x \in place(s) : TRUE
                   IN  [stages[s] EXCEPT !.resource = p.resource, !.unit = p.unit]]
      /\ UNCHANGED <<input, order, placed, sorted, succ, flows, fifos, buffers, result>>

------------------------------------------------------------------------------
(* The data passed between stages: a FIFO slot with both ends in the         *)
(* pipeline, or a memref that one transfer writes and another stage's reads  *)
(* and nothing else uses.  An end is the place <<s, k>> of an operation.     *)
Places(list) == FlattenSeq([i \in DOMAIN list |->
                  [k \in DOMAIN stages[list[i]].ops |-> <<list[i], k>>]])
OpAt(place) == stages[place[1]].ops[place[2]]
Writers(v) == SelectSeq(Places(sorted), LAMBDA pl : OpAt(pl).dst = v)
Readers(v) == SelectSeq(Places(sorted), LAMBDA pl : OpAt(pl).src = v)
Slots == {v \in UNION {{OpAt(pl).src, OpAt(pl).dst} : pl \in Range(Places(sorted))} : IsFifo(v)}

DuplicateFifoEnds == \E v \in Slots : Len(Writers(v)) > 1 \/ Len(Readers(v)) > 1

Carries(pl, to) ==
  LET v == OpAt(pl).dst
  IN  /\ v # NoValue /\ Readers(v) # <<>>
      /\ Head(Readers(v))[1] = to /\ pl[1] # to
      /\ IF IsFifo(v) THEN pl = Head(Writers(v))
         ELSE /\ Len(Writers(v)) = 1 /\ Len(Readers(v)) = 1
              /\ OpAt(pl).op = "transfer" /\ OpAt(Head(Readers(v))).op = "transfer"

CollectDataFlows ==
  LET flow(pl) == [carrier |-> OpAt(pl).dst, from |-> pl, to |-> Head(Readers(OpAt(pl).dst)),
                   mode |-> OpAt(pl).mode]
      between(p, c) == LET out == SelectSeq(Places(<<p>>), LAMBDA pl : Carries(pl, c))
                       IN  [i \in DOMAIN out |-> flow(out[i])]
      outOf(p) == FlattenSeq([i \in DOMAIN succ[p] |-> between(p, succ[p][i])])
  IN  FlattenSeq([i \in DOMAIN sorted |-> outOf(sorted[i])])

(* The path of a flow; its nodes up to "first" are part of the producer,     *)
(* those from "last" on part of the consumer.                                *)
Route(f) ==
  LET path == FindShortestPath(Graph, NodeFor(Graph, stages[f.from[1]].resource),
                                      NodeFor(Graph, stages[f.to[1]].resource))
      n == Len(path)
      first == IF Side(f.from[1]) = "load" /\ n > 2 /\ Kind(path[1]) = "Memory"
                  /\ Kind(path[2]) = "LoadStoreUnit" THEN 2 ELSE 1
      last == IF Side(f.to[1]) = "store" /\ n > first + 1 /\ Kind(path[n]) = "Memory"
                 /\ Kind(path[n - 1]) = "LoadStoreUnit" THEN n - 1 ELSE n
  IN  [carrier |-> f.carrier, from |-> f.from, to |-> f.to, mode |-> f.mode,
       path |-> path, first |-> first, last |-> last,
       chain |-> <<>>, bounds |-> <<>>, carriers |-> <<>>]

FindFlows ==
  LET found == CollectDataFlows
      routed == [i \in DOMAIN found |-> Route(found[i])]
  IN  /\ phase = "flows"
      /\ flows' = routed
      /\ phase' = IF \E f \in Range(routed) : f.path = <<>> THEN "failed" ELSE "units"
      /\ UNCHANGED <<input, stages, order, placed, sorted, succ, fifos, buffers, result>>

(* The units each original stage is reached through.                         *)
UnitsOf(s) ==
  ((IF KindOf(stages[s].resource) \in {"Memory", None} THEN {stages[s].unit}
    ELSE {stages[s].resource})
   \cup {Resource(f.path[2]) : f \in {g \in Range(flows) : g.from[1] = s /\ g.first = 2}}
   \cup {Resource(f.path[f.last]) : f \in {g \in Range(flows) :
                                             g.to[1] = s /\ g.last < Len(g.path)}})
  \ {None}

(* A stage that no flow gives a unit and that has none keeps none. *)
NeedsExpansion ==
  \E f \in Range(flows) : \E i \in f.first + 1 .. f.last - 1 :
    Kind(f.path[i]) # "LoadStoreUnit"

AssignOriginalStageUnits ==
  LET shared(s, t) == s # t /\ UnitsOf(s) \cap UnitsOf(t) # {}
  IN  /\ phase = "units"
      /\ IF \E s \in Original : \/ Cardinality(UnitsOf(s)) > 1
                                \/ \E t \in Original : shared(s, t)
         THEN phase' = "failed" /\ UNCHANGED stages
         ELSE /\ phase' = CASE ~NeedsExpansion -> "unchanged"
                            [] NeedsExpansion /\ DuplicateFifoEnds -> "failed"
                            [] OTHER -> "expand"
              /\ stages' = [s \in DOMAIN stages |->
                   IF UnitsOf(s) = {} THEN stages[s]
                   ELSE [stages[s] EXCEPT !.unit = CHOOSE u \in UnitsOf(s) : TRUE]]
      /\ UNCHANGED <<input, order, placed, sorted, succ, flows, fifos, buffers, result>>

------------------------------------------------------------------------------
(* Step 1: the hops between "first" and "last": a memory and the unit that   *)
(* loads from it, a unit and the memory it stores to, or a unit alone.       *)
NoHop == [mem |-> None, unit |-> None, at |-> 0]

Hops(f) ==
  LET kind(i) == IF i < f.last THEN Kind(f.path[i]) ELSE None
      name(i) == Resource(f.path[i])
      from[i \in f.first + 1 .. f.last] ==
        CASE i = f.last -> <<>>
          [] kind(i) = "Memory" /\ kind(i + 1) = "LoadStoreUnit" ->
               <<[mem |-> name(i), unit |-> name(i + 1), at |-> i]>> \o from[i + 2]
          [] kind(i) = "LoadStoreUnit" /\ kind(i + 1) = "Memory" ->
               <<[mem |-> name(i + 1), unit |-> name(i), at |-> i]>> \o from[i + 2]
          [] kind(i) = "LoadStoreUnit" /\ kind(i + 1) # "Memory" ->
               <<[mem |-> None, unit |-> name(i), at |-> i]>> \o from[i + 1]
          [] OTHER -> <<NoHop>>
  IN  from[f.first + 1]

Owners(all, unit) == {s \in DOMAIN all : all[s].unit = unit}

(* A slip: every hop gets a stage of its own.                                *)
AddHopAlways(st, f, hop) ==
  LET home == f.from[1]
      behind == {s \in DOMAIN st.stages : st.stages[s].home = home}
      new == Len(st.stages) + 1
      after == CHOOSE i \in DOMAIN st.order :
                 st.order[i] = IF behind = {} THEN home ELSE Max(behind)
  IN  [st EXCEPT !.stages = Append(@, [unit |-> hop.unit, resource |-> hop.mem,
                                       ops |-> <<>>, home |-> home]),
                 !.order = InsertAt(@, after + 1, new),
                 !.chain = Append(@, new)]

(* The hop goes to the stage on its unit, if it works on the same memory and *)
(* is not on the route yet, or to a new stage behind the producer.           *)
AddHop(st, f, hop) ==
  LET owners == Owners(st.stages, hop.unit)
      owner == CHOOSE s \in owners : TRUE
  IN  CASE hop = NoHop -> [st EXCEPT !.ok = FALSE]
        [] hop # NoHop /\ owners = {} -> AddHopAlways(st, f, hop)
        [] OTHER ->
             IF owner \in {f.from[1], f.to[1]} \cup Range(st.chain)
                \/ st.stages[owner].resource # hop.mem
             THEN [st EXCEPT !.ok = FALSE]
             ELSE [st EXCEPT !.chain = Append(@, owner)]

AddHops(f) ==
  FoldLeft(LAMBDA t, h : IF t.ok THEN AddHop(t, f, h) ELSE t,
           [stages |-> stages, order |-> order, chain |-> <<>>, ok |-> TRUE], Hops(f))

ExpandDataFlow ==
  /\ phase = "expand"
  /\ \E i \in DOMAIN flows :
       LET f == flows[i]
           hops == Hops(f)
           st == AddHops(f)
       IN  /\ f.bounds = <<>> /\ \A j \in 1 .. i - 1 : flows[j].bounds # <<>>
           /\ stages' = st.stages /\ order' = st.order
           /\ flows' = [flows EXCEPT ![i].chain = st.chain,
                          ![i].bounds = [k \in DOMAIN hops |-> hops[k].at] \o <<f.last>>]
           /\ phase' = IF st.ok THEN phase ELSE "failed"
           /\ succ' = succ \o [k \in 1 .. Len(st.stages) - Len(succ) |-> <<>>]
  /\ UNCHANGED <<input, placed, sorted, fifos, buffers, result>>

------------------------------------------------------------------------------
(* Between the stages of a flow with hops its chain takes the place of the   *)
(* dependency, which stays if another flow between the two has no hops.      *)
AddOnlyDependency(sc, a, b) ==   \* a slip: a stage keeps the successor it has
  IF sc[a] # <<>> THEN sc ELSE [sc EXCEPT ![a] = <<b>>]

AddDependency(sc, a, b) ==
  IF Contains(sc[a], b) THEN sc ELSE [sc EXCEPT ![a] = Append(@, b)]

SamePair(i) == {j \in DOMAIN flows : flows[j].from[1] = flows[i].from[1]
                                     /\ flows[j].to[1] = flows[i].to[1]}

RewireFlow(sc, i) ==
  LET f == flows[i]
      route == <<f.from[1]>> \o f.chain \o <<f.to[1]>>
      cut == /\ i = Min(SamePair(i))
             /\ \A j \in SamePair(i) : flows[j].chain # <<>>
      kept == IF cut THEN [sc EXCEPT ![f.from[1]] = SelectSeq(@, LAMBDA t : t # f.to[1])]
              ELSE sc
  IN  IF f.chain = <<>> THEN kept
      ELSE FoldLeft(LAMBDA t, k : AddDependency(t, route[k], route[k + 1]), kept,
                    [k \in 1 .. Len(route) - 1 |-> k])

RewireDependencies ==
  /\ phase = "expand" /\ \A i \in DOMAIN flows : flows[i].bounds # <<>>
  /\ succ' = FoldLeft(RewireFlow, succ, Indices(flows))
  /\ phase' = "order"
  /\ UNCHANGED <<input, stages, order, placed, sorted, flows, fifos, buffers, result>>

(* A slip: no stage waits for its predecessors. *)
ReadyInAnyOrder == {i \in DOMAIN order : order[i] \notin Range(placed)}

(* Repeatedly the first stage, in the current order, whose predecessors have *)
(* all been placed; the stages left over depend on each other in a cycle.    *)
Ready ==
  {i \in DOMAIN order :
     /\ order[i] \notin Range(placed)
     /\ \A p \in Range(order) : order[i] \in Range(succ[p]) => p \in Range(placed)}

PlaceStage ==
  /\ phase = "order"
  /\ \E i \in Ready :
       /\ \A j \in Ready : i <= j
       /\ placed' = Append(placed, order[i])
  /\ UNCHANGED <<input, phase, stages, order, sorted, succ, flows, fifos, buffers, result>>

OrderStages ==
  /\ phase = "order" /\ Ready = {}
  /\ LET shared(s, t) == s # t /\ stages[s].unit # None /\ stages[s].unit = stages[t].unit
     IN  IF Len(placed) < Len(order) \/ \E s, t \in DOMAIN stages : shared(s, t)
         THEN phase' = "failed" /\ UNCHANGED <<order, sorted>>
         ELSE /\ phase' = "adapt"
              /\ order' = placed
              /\ sorted' = TopologicalSort(placed, succ)
  /\ UNCHANGED <<input, stages, placed, succ, flows, fifos, buffers, result>>

------------------------------------------------------------------------------
(* Step 2: what holds a flow's data on the way from one stage to the next: a *)
(* buffer where the receiver loads from or the sender stores to memory,      *)
(* otherwise a FIFO between their units.                                     *)
BoundaryPlace(f, k) ==
  LET sender == f.path[f.bounds[k] - 1]
      receiver == f.path[f.bounds[k]]
  IN  CASE Kind(receiver) = "Memory" -> Memref(Resource(receiver), 0)
        [] Kind(receiver) # "Memory" /\ Kind(sender) = "Memory" -> Memref(Resource(sender), 0)
        [] OTHER -> FifoSlot(Resource(sender), Resource(receiver), 0, 0)

(* New names: the private results of the pipeline come first. *)
FirstNew == 100

(* A slip: all slots that cross the same pair of units share a FIFO. *)
SharedFifoOfUnits(st, group, place) ==
  {n \in DOMAIN st.fifos : /\ group # 0
                           /\ st.fifos[n].from = place.from /\ st.fifos[n].to = place.to}

(* The slots of one allocation that cross the same pair of units share a     *)
(* FIFO; a flow through a memref gets a FIFO of its own.                     *)
SharedFifo(st, group, place) ==
  {n \in DOMAIN st.fifos : /\ group # 0 /\ st.fifos[n].group = group
                           /\ st.fifos[n].from = place.from /\ st.fifos[n].to = place.to}

GetFifo(st, f, place) ==
  LET group == IF IsFifo(f.carrier) THEN f.carrier.id ELSE 0
      shared == SharedFifo(st, group, place)
      n == IF shared = {} THEN Len(st.fifos) + 1 ELSE Min(shared)
      slot == IF shared = {} THEN 0 ELSE st.fifos[n].slots
  IN  [st EXCEPT
         !.fifos = IF shared = {}
                   THEN Append(@, [from |-> place.from, to |-> place.to,
                                   group |-> group, slots |-> 1])
                   ELSE [@ EXCEPT ![n].slots = @ + 1],
         !.value = FifoSlot(place.from, place.to, FirstNew + n, slot)]

NewCarrier(st, f, place) ==
  IF IsMemref(place)
  THEN [st EXCEPT !.buffers = Append(@, place.mem),
                  !.value = Memref(place.mem, FirstNew + Len(st.buffers) + 1)]
  ELSE GetFifo(st, f, place)

Retarget(all, end, reads, v) ==
  IF reads THEN [all EXCEPT ![end[1]].ops[end[2]].src = v]
  ELSE [all EXCEPT ![end[1]].ops[end[2]].dst = v]

(* The end of flow i at its producer or consumer.  A FIFO operation cannot   *)
(* use a buffer, an indirect transfer nothing else.                          *)
AdaptEnd(st, i, end) ==
  LET f == flows[i]
      reads == end = f.to
      k == IF reads THEN Len(f.chain) + 1 ELSE 1
      place == BoundaryPlace(f, k)
      op == st.stages[end[1]].ops[end[2]].op
      new == NewCarrier(st, f, place)
  IN  CASE IsMemref(f.carrier) /\ place.mem = f.carrier.mem ->
             [st EXCEPT !.carriers[i][k] = f.carrier]
        [] ~(IsMemref(f.carrier) /\ place.mem = f.carrier.mem) /\
           op \in (IF IsMemref(place) THEN {"read", "write"} ELSE {"gather", "scatter"}) ->
             [st EXCEPT !.ok = FALSE]
        [] OTHER ->
             [new EXCEPT !.stages = Retarget(@, end, reads, new.value),
                         !.carriers[i][k] = new.value]

(* The ends of flows with hops, by stage and, within a stage, indirect       *)
(* transfers before transfers before FIFO operations.                        *)
EndsInOrder ==
  LET rank(o) == CASE o.op \in {"gather", "scatter"} -> 1 [] o.op = "transfer" -> 2
                   [] OTHER -> 3
      inStage(s) == FlattenSeq([r \in 1..3 |->
                      SelectSeq(Places(<<s>>), LAMBDA pl : rank(OpAt(pl)) = r)])
      flowsAt(pl) == SelectSeq(Indices(flows), LAMBDA i :
                       flows[i].chain # <<>> /\ pl \in {flows[i].from, flows[i].to})
      ends(pl) == [n \in DOMAIN flowsAt(pl) |-> <<flowsAt(pl)[n], pl>>]
      list == SelectSeq(sorted, LAMBDA s : s \in Original)
      places == FlattenSeq([n \in DOMAIN list |-> inStage(list[n])])
  IN  FlattenSeq([n \in DOMAIN places |-> ends(places[n])])

Planned == [stages |-> stages, carriers |-> [i \in DOMAIN flows |-> flows[i].carriers],
            fifos |-> fifos, buffers |-> buffers, value |-> NoValue, ok |-> TRUE]
WithCarriers(carriers) ==
  [i \in DOMAIN flows |-> [flows[i] EXCEPT !.carriers = carriers[i]]]

AdaptFlowEnds ==
  LET open == [Planned EXCEPT !.carriers = [i \in DOMAIN flows |->
                 [k \in 1 .. Len(flows[i].chain) + 1 |-> NoValue]]]
      st == FoldLeft(LAMBDA t, e : IF t.ok THEN AdaptEnd(t, e[1], e[2]) ELSE t,
                     open, EndsInOrder)
  IN  /\ phase = "adapt"
      /\ phase' = IF st.ok THEN "retype" ELSE "failed"
      /\ stages' = st.stages /\ flows' = WithCarriers(st.carriers)
      /\ fifos' = st.fifos /\ buffers' = st.buffers
      /\ UNCHANGED <<input, order, placed, sorted, succ, result>>

------------------------------------------------------------------------------
(* Step 2b: FIFOs that still connect two original stages take the units of   *)
(* those stages, all slots of an allocation together.                        *)
Left == {v \in Slots : /\ v.id < FirstNew /\ Writers(v) # <<>> /\ Readers(v) # <<>>
                       /\ stages[Head(Writers(v))[1]].unit # None
                       /\ stages[Head(Readers(v))[1]].unit # None}
Expected(v) == <<stages[Head(Writers(v))[1]].unit, stages[Head(Readers(v))[1]].unit>>
(* A slip: a FIFO with one end at a unit is left alone. *)
ToRetypeAtBothEnds == {v \in Left : Expected(v)[1] # v.from /\ Expected(v)[2] # v.to}
ToRetype == {v \in Left : Expected(v) # <<v.from, v.to>>}
Allocated(id) ==
  {v \in UNION {UNION {{o.src, o.dst} : o \in Range(st.ops)} :
                  st \in Range(input.stages)} : IsFifo(v) /\ v.id = id}

CannotRetype ==
  \E v \in ToRetype :
    \/ \E pl \in {Head(Writers(v)), Head(Readers(v))} : OpAt(pl).op \in {"gather", "scatter"}
    \/ \E w \in Allocated(v.id) : w \notin Left \/ Expected(w) # Expected(v)

RetypeAlloc(st, id) ==
  LET slots == Allocated(id)
      pair == Expected(CHOOSE v \in slots : TRUE)
      n == Len(st.fifos) + 1
      moved(v) == IF v \in slots THEN FifoSlot(pair[1], pair[2], FirstNew + n, v.slot) ELSE v
      ops(s) == [k \in DOMAIN st.stages[s].ops |->
                   [st.stages[s].ops[k] EXCEPT !.src = moved(@), !.dst = moved(@)]]
  IN  [st EXCEPT
         !.fifos = Append(@, [from |-> pair[1], to |-> pair[2], group |-> 0,
                              slots |-> Cardinality(slots)]),
         !.stages = [s \in DOMAIN st.stages |-> [st.stages[s] EXCEPT !.ops = ops(s)]]]

RetypeFifos ==
  /\ phase = "retype"
  /\ IF CannotRetype
     THEN phase' = "failed" /\ UNCHANGED <<stages, fifos>>
     ELSE LET st == FoldLeft(RetypeAlloc, Planned,
                             SetToSortSeq({v.id : v \in ToRetype}, <))
          IN  phase' = "populate" /\ stages' = st.stages /\ fifos' = st.fifos
  /\ UNCHANGED <<input, order, placed, sorted, succ, flows, buffers, result>>

------------------------------------------------------------------------------
(* Step 3: the transfers of the hop stages, from what holds the data before  *)
(* a hop to what holds it behind.                                            *)
CarrierBetween(st, i, k) ==
  LET new == NewCarrier(st, flows[i], BoundaryPlace(flows[i], k))
  IN  [new EXCEPT !.carriers[i][k] = new.value]

AddTransfer(st, i, k) ==
  LET f == flows[i]
      transfer == [op |-> "transfer", src |-> st.carriers[i][k],
                   dst |-> st.carriers[i][k + 1], mode |-> "copy", of |-> 0]
  IN  [st EXCEPT !.stages[f.chain[k]].ops = Append(@, transfer),
                 !.added = Append(@, <<f.chain[k], Len(st.stages[f.chain[k]].ops) + 1>>)]

(* A slip: the producer keeps its splat or pad. *)
AssignModeKeepingProducers(st, f) ==
  LET fills == SelectSeq(st.added, LAMBDA pl : st.stages[pl[1]].ops[pl[2]].dst.id > FirstNew)
  IN  IF f.mode = "copy" \/ fills = <<>> THEN st
      ELSE [st EXCEPT !.stages[Head(fills)[1]].ops[Head(fills)[2]].mode = f.mode]

(* A splat or pad goes to the first transfer of the flow that writes a new   *)
(* FIFO; the producer gives it up if it was adapted and is not that one.     *)
AssignTransferMode(st, f) ==
  LET at(pl) == st.stages[pl[1]].ops[pl[2]]
      original == input.stages[f.from[1]].ops[f.from[2]]
      adapted == <<at(f.from).src, at(f.from).dst>> # <<original.src, original.dst>>
      all == (IF adapted THEN <<f.from>> ELSE <<>>) \o st.added
      fills == SelectSeq(all, LAMBDA pl : IsFifo(at(pl).dst) /\ at(pl).dst.id > FirstNew)
      plain == IF adapted THEN [st EXCEPT !.stages[f.from[1]].ops[f.from[2]].mode = "copy"]
               ELSE st
  IN  IF f.mode = "copy" \/ fills = <<>> THEN st
      ELSE [plain EXCEPT !.stages[Head(fills)[1]].ops[Head(fills)[2]].mode = f.mode]

PopulateFlow(st, i) ==
  LET n == Len(flows[i].chain)
      carried == FoldLeft(LAMBDA t, k : CarrierBetween(t, i, k + 1), st,
                          [k \in 1 .. n - 1 |-> k])
      moved == FoldLeft(LAMBDA t, k : AddTransfer(t, i, k),
                        [carried EXCEPT !.added = <<>>], [k \in 1 .. n |-> k])
  IN  IF n = 0 THEN st ELSE AssignTransferMode(moved, flows[i])

PopulateHopStageTransfers ==
  LET start == Planned @@ [added |-> <<>>]
      st == FoldLeft(PopulateFlow, start, Indices(flows))
  IN  /\ phase = "populate"
      /\ phase' = "materialize"
      /\ stages' = st.stages /\ flows' = WithCarriers(st.carriers)
      /\ fifos' = st.fifos /\ buffers' = st.buffers
      /\ UNCHANGED <<input, order, placed, sorted, succ, result>>

------------------------------------------------------------------------------
(* The materializer emits the stages in the order of the pipeline.  A stage  *)
(* others wait for has a token of its own, named after it.                   *)
Materialize ==
  LET stageOf(s) ==
        [unit |-> stages[s].unit, ops |-> stages[s].ops,
         dependsIn |-> {p \in Range(order) : p # s /\ s \in Range(succ[p])},
         dependsOut |-> IF succ[s] = <<>> THEN <<>> ELSE <<s>>]
  IN  /\ phase = "materialize"
      /\ phase' = "done"
      /\ result' = [i \in DOMAIN order |-> stageOf(order[i])]
      /\ UNCHANGED <<input, stages, order, placed, sorted, succ, flows, fifos, buffers>>

------------------------------------------------------------------------------
Init ==
  /\ input \in Pipelines
  /\ phase = "sort"
  /\ stages = [s \in DOMAIN input.stages |->
       [unit |-> input.stages[s].unit, resource |-> None,
        ops |-> input.stages[s].ops, home |-> 0]]
  /\ order = Indices(stages) /\ placed = <<>> /\ sorted = <<>>
  /\ succ = input.succ
  /\ flows = <<>> /\ fifos = <<>> /\ buffers = <<>> /\ result = <<>>

Finished == phase \in {"unchanged", "failed", "done"}

Next ==
  \/ SortAndValidateStages
  \/ AssignOriginalStageResources
  \/ FindFlows
  \/ AssignOriginalStageUnits
  \/ ExpandDataFlow
  \/ RewireDependencies
  \/ PlaceStage
  \/ OrderStages
  \/ AdaptFlowEnds
  \/ RetypeFifos
  \/ PopulateHopStageTransfers
  \/ Materialize

Spec == Init /\ [][Next]_vars
------------------------------------------------------------------------------
(* Properties of the pipeline the pass leaves behind.                        *)
Done == phase = "done"
AllPlaces == {pl \in (DOMAIN stages) \X (1..12) : pl[2] \in DOMAIN stages[pl[1]].ops}
Connected(a, b) == \E m \in NodesFor(Graph, a), n \in NodesFor(Graph, b) :
                     <<m, n>> \in Range(Graph.edges)

(* Every operation of a stage runs over datapaths of the unit of its stage:  *)
(* from the memory it reads into the unit, from the unit into the memory it  *)
(* writes, and over FIFOs that end and begin at the unit (routeDataFlows,    *)
(* boundaryPlace, retypeFifosBetweenOriginalStages).                         *)
OverDatapaths ==
  Done => \A pl \in AllPlaces :
    LET unit == stages[pl[1]].unit
        o == OpAt(pl)
    IN  /\ IsMemref(o.src) => Connected(o.src.mem, unit)
        /\ IsMemref(o.dst) => Connected(unit, o.dst.mem)
        /\ IsFifo(o.src) => o.src.to = unit /\ Connected(o.src.from, unit)
        /\ IsFifo(o.dst) => o.dst.from = unit /\ Connected(unit, o.dst.to)

(* What the producer of a flow wrote comes to its consumer through the       *)
(* transfers that were added, through nothing that anything else writes or   *)
(* reads, and a splat or pad happens once on the way, into a FIFO if one is  *)
(* filled (populateHopStageTransfers, assignTransferMode).                   *)
Moves == {pl \in AllPlaces : OpAt(pl).of = 0}
OnTheWay(f) ==
  FoldLeft(LAMBDA way, k : way \cup {pl \in Moves :
                             \E q \in way : OpAt(q).dst = OpAt(pl).src},
           {f.from}, Indices(order))

DataArrives ==
  Done => \A f \in Range(flows) :
    LET way == OnTheWay(f)
        special == {pl \in way : OpAt(pl).mode = f.mode}
    IN  /\ \E pl \in way : OpAt(pl).dst = OpAt(f.to).src
        /\ \A pl \in way :
             Len(Writers(OpAt(pl).dst)) = 1 /\ Len(Readers(OpAt(pl).dst)) = 1
        /\ f.mode # "copy" =>
             /\ Cardinality(special) = 1
             /\ (\E pl \in way : IsFifo(OpAt(pl).dst)) =>
                  \A pl \in special : IsFifo(OpAt(pl).dst)

(* The stage that reads what another one wrote waits for its token and       *)
(* stands behind it (rewireDependencies, orderStagesByDependencies,          *)
(* materializeStageNode).                                                    *)
TokensFollowData ==
  Done => \A i, j \in DOMAIN result :
    \A p \in Range(result[i].ops), c \in Range(result[j].ops) :
      i # j /\ p.dst = c.src /\ p.dst # NoValue
        => /\ i < j /\ result[i].dependsOut # <<>>
           /\ result[i].dependsOut[1] \in result[j].dependsIn

(* The tokens a stage waits for are those of stages placed before it, so     *)
(* that none waits for itself (orderStagesByDependencies, createStageTokens).*)
StagesWaitBackwards ==
  Done => \A j \in DOMAIN result : \A token \in result[j].dependsIn :
    \E i \in 1 .. j - 1 : result[i].dependsOut = <<token>>

(* The slots of an allocation keep their order: a FIFO operation uses the    *)
(* slot of the number it used before (validateFifoSlotIndex).                *)
SlotsKeepOrder ==
  Done => \A s \in Original : \A k \in DOMAIN input.stages[s].ops :
    LET was == input.stages[s].ops[k]
        is == stages[s].ops[k]
    IN  /\ IsFifo(was.src) /\ IsFifo(is.src) => is.src.slot = was.src.slot
        /\ IsFifo(was.dst) /\ IsFifo(is.dst) => is.dst.slot = was.dst.slot

(* A route is a path of datapaths, and none from its first node to its last  *)
(* is shorter (findShortestPath).                                            *)
RoutesShortest ==
  \A i \in DOMAIN flows :
    LET path == flows[i].path
    IN  /\ \A k \in 1 .. Len(path) - 1 : <<path[k], path[k + 1]>> \in Range(Graph.edges)
        /\ Len(path) > 1 => Last(path) \notin Within(Graph, path[1], Len(path) - 2)
=============================================================================
