------------------------------ MODULE Hoisting ------------------------------
(* The passes that move operations out of loops and pipelines.               *)
(* HoistInvariants moves pure operations, HoistConstantStorage moves         *)
(* allocations with one invariant write, BroadcastPromotion moves transfers  *)
(* that fill a buffer alike in every iteration to a pipeline of their own in *)
(* front of the loop, with a copy of what the stage needs for them.          *)
(*                                                                           *)
(* A program is a tree of operations: those with a region have a body.  An   *)
(* access is to a memref, at an index.  What private yields has the name it  *)
(* has inside.                                                               *)
EXTENDS Integers, Sequences, FiniteSets, TLC, SequencesExt, Steps

CONSTANT Inputs       \* programs, each with its pass

VARIABLES input, phase, program

(* Operations: what is computed (name), the values used and defined, the     *)
(* values a region has and yields, the accesses; a loop has a trip count.    *)
Op(op, name, uses, defs, args, yields, reads, writes, n) ==
  [op |-> op, name |-> name, uses |-> uses, defs |-> defs, args |-> args, yields |-> yields,
   reads |-> reads, writes |-> writes, n |-> n]
Region(op) == Op(op, op, {}, {}, {}, {}, {}, {}, 0)
For(iv, n) == [Region("for") EXCEPT !.args = {iv}, !.n = n]
If(cond) == [Region("if") EXCEPT !.uses = {cond}]
Pure(name, uses, def) == Op("pure", name, uses, {def}, {}, {}, {}, {}, 0)
Alloc(v) == Op("alloc", "alloc", {}, {v}, {}, {}, {}, {}, 0)
View(from, to) == Op("view", from, {from}, {to}, {}, {}, {}, {}, 0)
At(memref, by) == [of |-> memref, by |-> by]
Transfer(source, dest) == Op("transfer", "", {}, {}, {}, {}, {source}, {dest}, 0)
Fill(value, dest) == Op("linalg", "", {value}, {}, {}, {}, {}, {dest}, 0)
Linalg(name, reads, dest) == Op("linalg", name, {}, {}, {}, {}, reads, {dest}, 0)

Ids(p) == DOMAIN p.ops
Children(p, id) == ToSet(p.body[id])
Parent(p, id) == CHOOSE r \in Ids(p) : id \in Children(p, r)
AncestorsTable(p) ==
  LET above[id \in Ids(p)] == IF id = "func" THEN <<>> ELSE <<Parent(p, id)>> \o above[Parent(p, id)]
  IN  above
Ancestors(p, id) == AncestorsTable(p)[id]
Descendants(p, r) == {id \in Ids(p) : r \in ToSet(Ancestors(p, id))}
Position(list, x) == CHOOSE k \in DOMAIN list : list[k] = x
InsertBefore(p, ids, anchor) ==
  LET r == Parent(p, anchor)  k == Position(p.body[r], anchor)
  IN  [p EXCEPT !.body[r] = SubSeq(@, 1, k - 1) \o ids \o SubSeq(@, k, Len(@))]
Detach(p, id) == [p EXCEPT !.body[Parent(p, id)] = SelectSeq(@, LAMBDA x : x # id)]
MoveBefore(p, id, anchor) == InsertBefore(Detach(p, id), <<id>>, anchor)
Erase(p, id) ==
  LET q == Detach(p, id)
  IN  [q EXCEPT !.ops = [i \in Ids(p) \ {id} |-> @[i]], !.body = [i \in Ids(p) \ {id} |-> @[i]]]
Add(p, ops, body) == [p EXCEPT !.ops = @ @@ ops, !.body = @ @@ body]

(* The values an operation uses, its operations inside included.             *)
Accessed(accesses) == {a.of : a \in accesses} \cup ({a.by : a \in accesses} \ {""})
Uses(op) == op.uses \cup op.yields \cup Accessed(op.reads \cup op.writes)
Operands(p, id) == UNION {Uses(p.ops[i]) : i \in {id} \cup Descendants(p, id)}
Defining(p, v) == {id \in Ids(p) : v \in p.ops[id].defs}
DefRegion(p, v) ==
  LET definer == CHOOSE id \in Defining(p, v) : TRUE
  IN  IF \E id \in Ids(p) : v \in p.ops[id].args THEN CHOOSE id \in Ids(p) : v \in p.ops[id].args
      ELSE IF Defining(p, v) = {} THEN "func"
      ELSE IF p.ops[Parent(p, definer)].op = "private" THEN Parent(p, Parent(p, definer))
      ELSE Parent(p, definer)
DefinedIn(p, v, r) == DefRegion(p, v) = r \/ r \in ToSet(Ancestors(p, DefRegion(p, v)))
IsPure(op) == op.op \in {"pure", "index"}
IsMemoryEffectFree(op) == op.reads = {} /\ op.writes = {} /\ op.op # "alloc"

-----------------------------------------------------------------------------
(* findHoistingTarget: in front of which operation one may stand at the      *)
(* earliest, in the innermost region that defines one of its operands.       *)
FindOutermostTarget(p, id) ==
  LET path == <<id>> \o Ancestors(p, id)
  IN  path[Len(path) - 1]
FindHoistingTarget(p, id) ==
  LET path == <<id>> \o Ancestors(p, id)
      regions == {DefRegion(p, v) : v \in {x \in Operands(p, id) : ~DefinedIn(p, x, id)}}
      dominating == {k \in 2..Len(path) : path[k] \in regions \cup {"func"}}
  IN  path[(CHOOSE k \in dominating : \A j \in dominating : k <= j) - 1]

(* HoistInvariants.                                                          *)
Pipelines(p) == {id \in Ids(p) : p.ops[id].op = "pipeline"}
Invariant(p, id, source) == \A v \in Operands(p, id) : ~DefinedIn(p, v, source)
InSource(p, id, source) ==
  \/ p.ops[source].op \in {"for", "generic"} /\ id \in Children(p, source)
  \/ p.ops[source].op = "pipeline" /\ \E s \in Children(p, source) : id \in Children(p, s)
InvariantsOf(p, source) ==
  {id \in Ids(p) \ {"func"} :
     /\ InSource(p, id, source) /\ Invariant(p, id, source)
     /\ IsPure(p.ops[id]) /\ ~(p.ops[id].op = "index" /\ p.ops[source].op = "generic")}
Hoistable(p) == {m \in Ids(p) \X Ids(p) : m[1] \in InvariantsOf(p, m[2])}
HoistInvariant(p, id, source) == MoveBefore(p, id, source)

-----------------------------------------------------------------------------
(* HoistConstantStorage.  The writes to a memref within a region; views of   *)
(* it would have to be followed, and are not.                                *)
UsersOf(p, v) == {id \in Ids(p) : v \in Uses(p.ops[id])}
WritesIn(p, v, region) ==
  {id \in UsersOf(p, v) :
     region \in ToSet(Ancestors(p, id)) /\ \E a \in p.ops[id].writes : a.of = v}
HasView(p, v) == \E id \in UsersOf(p, v) : p.ops[id].op = "view"
InvariantWriteIn(p, v, region) ==
  {w \in WritesIn(p, v, region) :
     /\ Cardinality(WritesIn(p, v, region)) = 1 /\ ~HasView(p, v)
     /\ \A x \in Operands(p, w) \ {v} :
          /\ ~DefinedIn(p, x, region)
          /\ \A d \in Defining(p, x) : IsMemoryEffectFree(p.ops[d])}

(* Operations of stages that leave the pipeline: pure ones, allocations that *)
(* have one invariant write, and that write.                                 *)
Leaving(p, pipeline) ==
  {id \in UNION {Children(p, s) : s \in Children(p, pipeline)} :
     /\ Invariant(p, id, pipeline)
     /\ \/ IsPure(p.ops[id]) \/ <<pipeline, id>> \in p.writes
        \/ p.ops[id].op = "alloc" /\ \E v \in p.ops[id].defs : InvariantWriteIn(p, v, pipeline) # {}}
NewWrites(p, id, pipeline) ==
  {pipeline} \X (IF p.ops[id].op # "alloc" THEN {}
                 ELSE UNION {InvariantWriteIn(p, v, pipeline) : v \in p.ops[id].defs})
HoistStorage(p, id, isWrite) ==
  LET target == FindHoistingTarget(p, id)
      stage == id \o " stage"  pipeline == id \o " pipeline"
      moved == InsertBefore(Detach(p, id), <<pipeline>>, target)
  IN  IF ~isWrite THEN MoveBefore(p, id, target)
      ELSE Add(moved, (stage :> Region("stage")) @@ (pipeline :> Region("pipeline")),
                      (stage :> <<id>>) @@ (pipeline :> <<stage>>))

-----------------------------------------------------------------------------
(* BroadcastPromotion.  WriteSetScan: whether an operation of a region       *)
(* writes to a memref, or to a view of it.                                   *)
AliasSet(p, memref) ==
  LET WithViews(set, k) ==
        set \cup UNION {p.ops[id].defs : id \in {i \in Ids(p) : p.ops[i].op = "view" /\ p.ops[i].uses \cap set # {}}}
  IN  ForEach(WithViews, {memref}, <<1, 2>>)
OpIsWriter(op, aliases) ==
  op.op \in {"transfer", "linalg", "store"} /\ \E a \in op.writes : a.of \in aliases
RegionWritesTo(p, region, memref, ignored) ==
  \E id \in Descendants(p, region) \ ignored : OpIsWriter(p.ops[id], AliasSet(p, memref))

(* InvarianceCheck: whether a value is computed from an induction variable.  *)
SsaDependsOn(p, v, iv) ==
  LET Inputs2(set, k) == set \cup UNION {UNION {Uses(p.ops[d]) : d \in Defining(p, x)} : x \in set}
  IN  iv \in ForEach(Inputs2, {v}, <<1, 2, 3>>)
TransferIsInvariantWrt(p, t, iv) ==
  \A a \in p.ops[t].reads \cup p.ops[t].writes : a.by = "" \/ ~SsaDependsOn(p, a.by, iv)

(* PipelineScope: the loops around a pipeline that hold no other pipeline.   *)
EnclosingLoops(p, pipeline) ==
  LET path == <<pipeline>> \o Ancestors(p, pipeline)
      peers(k) == {q \in Pipelines(p) \cap Descendants(p, path[k]) :
                     q # path[k - 1] /\ q \notin Descendants(p, path[k - 1])}
      ends == {k \in 2..Len(path) : p.ops[path[k]].op # "for" \/ peers(k) # {}}
      first == CHOOSE k \in ends : \A j \in ends : k <= j
  IN  SubSeq(path, 2, first - 1)

(* Reuse: the transfer whose target is the furthest out.                     *)
SourceOf(op) == (CHOOSE a \in op.reads : TRUE).of
DestOf(op) == (CHOOSE a \in op.writes : TRUE).of
Reused(p, t, loop) ==
  /\ \A iv \in p.ops[loop].args : TransferIsInvariantWrt(p, t, iv)
  /\ ~RegionWritesTo(p, loop, SourceOf(p.ops[t]), {})
  /\ ~RegionWritesTo(p, loop, DestOf(p.ops[t]), {t})
  /\ \A d \in Defining(p, SourceOf(p.ops[t])) : d \notin Descendants(p, loop)
TargetDepth(p, t, loops) ==
  LET fails == {k \in DOMAIN loops : ~Reused(p, t, loops[k])}
  IN  IF fails = {} THEN Len(loops) ELSE (CHOOSE k \in fails : \A j \in fails : k <= j) - 1
IsAlloc(p, v) == \E d \in Defining(p, v) : p.ops[d].op = "alloc"
PreOrder(p) ==
  LET walk[r \in Ids(p)] ==
        FoldLeft(LAMBDA list, id : list \o <<id>> \o walk[id], <<>>, p.body[r])
  IN  walk["func"]
Candidates(p, pipeline) ==
  LET loops == EnclosingLoops(p, pipeline)
      stages == {s \in Children(p, pipeline) : p.ops[s].op = "stage"}
      found == {c \in [transfer : Ids(p), stage : stages, depth : DOMAIN loops] :
                  /\ p.ops[c.transfer].op = "transfer" /\ c.transfer \in Descendants(p, c.stage)
                  /\ IsAlloc(p, DestOf(p.ops[c.transfer]))
                  /\ c.depth = TargetDepth(p, c.transfer, loops)}
  IN  {[stage |-> c.stage, transfer |-> c.transfer, loop |-> loops[c.depth]] :
         c \in {d \in found : \A e \in found :
                  \/ e.depth < d.depth
                  \/ e.depth = d.depth /\
                       Position(PreOrder(p), e.transfer) >= Position(PreOrder(p), d.transfer)}}

(* RegionClonePrune: what a copy of a stage keeps for a transfer: what the   *)
(* kept operations read, and the operations around them.                     *)
Marking(p, stage, anchor) ==
  LET inside == Descendants(p, stage)
      Grow(m, k) ==
        LET kept == m.required \cup m.structural
        IN  [required |-> m.required \cup
               (inside \cap UNION {Defining(p, v) : v \in UNION {Uses(p.ops[id]) : id \in kept}}),
             structural |-> m.structural \cup
               (inside \cap UNION {ToSet(Ancestors(p, id)) : id \in m.required})]
  IN  ForEach(Grow, [required |-> {anchor}, structural |-> {}], <<1, 2, 3, 4>>)
Kept(m) == m.required \cup m.structural
CanDemote(p, loop, anchor, m) ==
  /\ p.ops[loop].defs = {}
  /\ \A id \in Kept(m) : Uses(p.ops[id]) \cap p.ops[loop].args = {}
  /\ \A id \in (m.required \cap Descendants(p, loop)) \ {anchor} : IsMemoryEffectFree(p.ops[id])
Demoted(p, anchor, m) ==
  {id \in m.structural : p.ops[id].op = "for" /\ CanDemote(p, id, anchor, m)}
(* What the copy holds: loops that lose their bodies stay as well.           *)
Stays(p, stage, m) ==
  LET inside == Descendants(p, stage)
      Keeps(id) == id \in Kept(m) \/ p.ops[id].op = "for"
  IN  {id \in inside : \A a \in {id} \cup (ToSet(Ancestors(p, id)) \cap inside) : Keeps(a)}
Copy(id) == id \o "'"
PrunedBody(p, stays, demoted) ==
  LET body[r \in Ids(p)] ==
        FoldLeft(LAMBDA list, id : list \o (IF id \in demoted THEN body[id]
                                            ELSE IF id \in stays THEN <<Copy(id)>> ELSE <<>>),
                 <<>>, p.body[r])
  IN  body
(* Values that the copied operations define are renamed; the destination is  *)
(* the new one, unless its allocation is copied.                             *)
Renamed(op, defined, dest, new) ==
  LET value(v) == IF v \in defined THEN Copy(v) ELSE IF v = dest THEN new ELSE v
      all(set) == {value(v) : v \in set}
      moved(accesses) == {At(value(a.of), IF a.by = "" THEN "" ELSE value(a.by)) : a \in accesses}
  IN  [op EXCEPT !.uses = all(@), !.defs = all(@), !.args = all(@), !.yields = all(@),
                 !.reads = moved(@), !.writes = moved(@)]
CloneAndPrune(p, stage, anchor, dest, new) ==
  LET m == Marking(p, stage, anchor)
      demoted == Demoted(p, anchor, m)
      stays == Stays(p, stage, m)
      kept == stays \ demoted
      body == PrunedBody(p, stays, demoted)
      defined == UNION {p.ops[id].defs \cup p.ops[id].args : id \in Descendants(p, stage)}
      copied(i) == CHOOSE id \in kept : Copy(id) = i
      ids == {Copy(id) : id \in kept}
  IN  [top |-> body[stage],
       ops |-> [i \in ids |-> Renamed(p.ops[copied(i)], defined, dest, new)],
       body |-> [i \in ids |-> body[copied(i)]]]

Substituted(op, v, new) ==
  LET moved(accesses) == {IF a.of = v THEN [a EXCEPT !.of = new] ELSE a : a \in accesses}
  IN  [op EXCEPT !.uses = {IF x = v THEN new ELSE x : x \in @}, !.reads = moved(@), !.writes = moved(@)]
Rewired(p, stage, v, new) ==
  [p EXCEPT !.ops = [id \in Ids(p) |-> IF id \in Descendants(p, stage) THEN p.ops[id]
                                       ELSE Substituted(p.ops[id], v, new)]]
PerformHoist(p, c) ==
  LET dest == DestOf(p.ops[c.transfer])
      new == Copy(dest)  alloc == "new " \o dest  pipeline == "for " \o dest  stage == "fill " \o dest
      clone == CloneAndPrune(p, c.stage, c.transfer, dest, new)
      rewired == Erase(Rewired(p, c.stage, dest, new), c.transfer)
      placed == InsertBefore(rewired, <<alloc, pipeline>>, c.loop)
  IN  Add(placed,
          clone.ops @@ (alloc :> Alloc(new)) @@ (pipeline :> Region("pipeline")) @@ (stage :> Region("stage")),
          clone.body @@ (alloc :> <<>>) @@ (pipeline :> <<stage>>) @@ (stage :> clone.top))

-----------------------------------------------------------------------------
Init ==
  /\ input \in Inputs /\ phase = input.pass
  /\ program = [ops |-> input.ops, body |-> input.body, writes |-> {}]

HoistInvariants ==
  /\ phase = "invariants"
  /\ \E m \in Hoistable(program) : program' = HoistInvariant(program, m[1], m[2])
  /\ UNCHANGED <<input, phase>>
HoistConstantStorage ==
  /\ phase = "storage"
  /\ \E pipeline \in Pipelines(program) : \E id \in Leaving(program, pipeline) :
       program' = [HoistStorage(program, id, <<pipeline, id>> \in program.writes) EXCEPT
                     !.writes = @ \cup NewWrites(program, id, pipeline)]
  /\ UNCHANGED <<input, phase>>
TryHoistOneBroadcast ==
  /\ phase = "broadcast"
  /\ \E pipeline \in Pipelines(program) : \E c \in Candidates(program, pipeline) :
       /\ \A q \in Pipelines(program) \cap Descendants(program, pipeline) : Candidates(program, q) = {}
       /\ program' = PerformHoist(program, c)
  /\ UNCHANGED <<input, phase>>
NothingMoves(p) ==
  CASE phase = "invariants" -> Hoistable(p) = {}
    [] phase = "storage" -> \A pipeline \in Pipelines(p) : Leaving(p, pipeline) = {}
    [] OTHER -> \A pipeline \in Pipelines(p) : Candidates(p, pipeline) = {}
Finish ==
  /\ phase # "done" /\ NothingMoves(program)
  /\ phase' = "done" /\ UNCHANGED <<input, program>>
Ended == phase = "done" /\ UNCHANGED <<input, phase, program>>

Next == HoistInvariants \/ HoistConstantStorage \/ TryHoistOneBroadcast \/ Finish \/ Ended

-----------------------------------------------------------------------------
(* What a program leaves in the memories that it is given, as terms over     *)
(* what they held, when a condition that it is given holds or not.           *)
Constant(name) == <<name, {}>>
ValueOf(env, v) == IF v \in DOMAIN env.values THEN env.values[v] ELSE Constant(v)
Bind(env, names, term) == [env EXCEPT !.values = (LET v == @ IN [x \in DOMAIN v \cup names |-> IF x \in names THEN term ELSE v[x]])]
Place(env, a) == <<ValueOf(env, a.of)[1], IF a.by = "" THEN Constant("0") ELSE ValueOf(env, a.by)>>
Content(env, place) ==
  IF place \in DOMAIN env.memory THEN env.memory[place]
  ELSE IF place[1] \in env.fresh THEN Constant("undefined") ELSE <<place[1], {place[2]}>>
Stored(env, places, term) ==
  [env EXCEPT !.memory = (LET m == @ IN [l \in DOMAIN m \cup places |-> IF l \in places THEN term ELSE m[l]])]
Allocated(env, v) ==
  [env EXCEPT !.fresh = @ \cup {v}, !.memory = (LET m == @ IN [l \in {k \in DOMAIN m : k[1] # v} |-> m[l]])]
Truth(term, c) == term = Constant("0") \/ (term = Constant("c") /\ c)

RECURSIVE RunBody(_, _, _, _)
RunOp(p, env, id, c) ==
  LET op == p.ops[id]
      read == {Content(env, Place(env, a)) : a \in op.reads} \cup {ValueOf(env, v) : v \in op.uses}
      term == IF op.name = "" THEN CHOOSE t \in read : TRUE ELSE <<op.name, read>>
      Turn(e, k) == RunBody(p, Bind(e, op.args, Constant(ToString(k))), p.body[id], c)
  IN  CASE op.op = "for" -> ForEach(Turn, env, [k \in 1..op.n |-> k])
        [] op.op = "if" /\ ~Truth(ValueOf(env, CHOOSE v \in op.uses : TRUE), c) -> env
        [] op.op = "alloc" -> ForEach(Allocated, env, SetToSeq(op.defs))
        [] op.op = "view" -> Bind(env, op.defs, ValueOf(env, op.name))
        [] op.op = "pure" -> Bind(env, op.defs, term)
        [] op.writes # {} -> Stored(env, {Place(env, a) : a \in op.writes}, term)
        [] OTHER -> RunBody(p, env, p.body[id], c)
RunBody(p, env, ids, c) == ForEach(LAMBDA e, id : RunOp(p, e, id, c), env, ids)

Results(p, c) ==
  LET end == RunBody(p, [values |-> <<>>, memory |-> <<>>, fresh |-> {}], p.body["func"], c)
  IN  [l \in {k \in DOMAIN end.memory : k[1] \notin end.fresh} |-> end.memory[l]]
SameResults == phase = "done" => \A c \in BOOLEAN : Results(program, c) = Results(input, c)

(* A value is defined before it is used, in a region around the use.         *)
Dominates(p, v, id) ==
  LET path == <<id>> \o Ancestors(p, id)
      ahead(k) == SubSeq(p.body[path[k + 1]], 1, Position(p.body[path[k + 1]], path[k]) - 1)
      given == UNION {p.ops[path[k]].args : k \in 2..Len(path)}
      defined(d) == p.ops[d].defs \cup
        (IF p.ops[d].op = "private" THEN UNION {p.ops[i].defs : i \in Children(p, d)} ELSE {})
  IN  v \in given \/ \E k \in 1..(Len(path) - 1) : \E d \in ToSet(ahead(k)) : v \in defined(d)
UsesDominated ==
  \A id \in Ids(program) : \A v \in Uses(program.ops[id]) :
    Defining(program, v) # {} \/ (\E r \in Ids(program) : v \in program.ops[r].args) => Dominates(program, v, id)
=============================================================================
