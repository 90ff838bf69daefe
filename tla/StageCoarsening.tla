--------------------------- MODULE StageCoarsening ---------------------------
(* The pass that sinks the loops around a pipeline into the pipeline: stages *)
(* that share a FIFO or a memory below the scratchpad stay together in an    *)
(* inner pipeline under a copy of the loops, every other stage gets a copy   *)
(* of its own, and the buffers between them grow by one slot per iteration.  *)
(*                                                                           *)
(* An input is [loops, beside, private, values, stages, succ]: the loops     *)
(* around the pipeline, outermost first, each [lb, ub, step, plain], plain   *)
(* when its body holds nothing else that keeps it from being sunk; the       *)
(* stages of another loop beside the pipeline in the innermost of them; the  *)
(* results [name, op] of the private region, if there is one; the operations *)
(* of each stage; and the stages that wait for its token.  An operation is a *)
(* "transfer", an "indirect" transfer, whose second source is the address    *)
(* buffer, or a "compute": [op, srcs, dst].  Operands are [at, kind, mem,    *)
(* by]: a "memref" in mem, indexed by the loops in by, or a "fifo" slot.     *)
EXTENDS Integers, Sequences, FiniteSets, SequencesExt, FiniteSetsExt, Functions, TLC, Steps

CONSTANTS
  Inputs,          \* loop nests with a pipeline
  MemoryOps,       \* the device whose memories they use
  LoopNestDepth    \* the most loops that are sunk

VARIABLES
  input,           \* the loop nest before the pass
  phase,           \* the next step
  groups,          \* the groups of stages
  tree             \* the pipeline tree: [kind, kids, succ, of, values, grown, named]

vars == <<input, phase, groups, tree>>

Arch == INSTANCE ArchViews
Below == {k \in {MemoryOps[i].kind : i \in Arch!OpsOf(MemoryOps, "memory")} :
            Arch!IsBelowScratchPad(MemoryOps, <<>>, k)}
Operands(o) == Range(o.srcs) \cup {o.dst}
StageOperands(s) == UNION {Operands(o) : o \in Range(input.stages[s])}

------------------------------------------------------------------------------
(* Stage groups: an equivalence class is the sequence of its members.        *)
ShouldGroupTogether(s, t) ==
  \E a \in StageOperands(s), b \in StageOperands(t) :
    a.kind = b.kind /\ a.mem = b.mem /\ (a.kind = "fifo" \/ a.mem[1] \in Below)

StageGroups ==
  LET n == Len(input.stages)
      classOf(classes, s) == CHOOSE c \in classes : Contains(c, s)
      union(classes, s, t) ==
        LET c == classOf(classes, s)
            d == classOf(classes, t)
        IN  IF c = d THEN classes ELSE (classes \ {c, d}) \cup {c \o d}
      merge(classes, s) ==
        ForEach(LAMBDA cs, t : IF t > s /\ ShouldGroupTogether(s, t) THEN union(cs, s, t) ELSE cs,
                 classes, [t \in 1..n |-> t])
      classes == ForEach(merge, {<<s>> : s \in 1..n}, [s \in 1..n |-> s])
  IN  SetToSortSeq(classes, LAMBDA c, d : c[1] < d[1])

(* The loops that are sunk: the innermost ones, up to the first that is not  *)
(* perfectly nested.  One loop beside the pipeline does not count as such.   *)
Nest ==
  LET d == Len(input.loops)
      sunk == {k \in 1..d : k > d - LoopNestDepth /\ \A j \in k..d : input.loops[j].plain}
  IN  SetToSortSeq(sunk, <)

------------------------------------------------------------------------------
(* Buffers that several groups use, one of them writing, get a dimension for *)
(* each loop that an index of one of their transfers depends on.             *)
Users(v) == {s \in DOMAIN input.stages : \E x \in StageOperands(s) : x.at = v}
TransfersOf(v) ==
  {o \in UNION {Range(input.stages[s]) : s \in DOMAIN input.stages} :
     o.op # "compute" /\ \E x \in Operands(o) : x.at = v}

Candidate(v) ==
  /\ Cardinality({g \in Range(groups) : Range(g) \cap Users(v) # {}}) > 1
  /\ \E o \in TransfersOf(v) : o.dst.at = v /\ o.dst.kind = "memref"

LoopDependencies(v) ==
  UNION {Range(x.by) : x \in UNION {Operands(o) : o \in TransfersOf(v)}}

BufferExpansionOuter ==
  [v \in {r.name : r \in Range(input.values)} |->
     IF Candidate(v) THEN SelectSeq(Nest, LAMBDA l : l \in LoopDependencies(v) /\ l = Nest[1]) ELSE <<>>]

BufferExpansion ==
  [v \in {r.name : r \in Range(input.values)} |->
     IF Candidate(v) THEN SelectSeq(Nest, LAMBDA l : l \in LoopDependencies(v)) ELSE <<>>]

------------------------------------------------------------------------------
(* The tree: node 1 is the pipeline, nodes 2.. are its stages.               *)
Nodes == DOMAIN tree.kind
OfKind(k) == {n \in Nodes : tree.kind[n] = k}
ParentIn(t, n) == CHOOSE m \in DOMAIN t.kids : Contains(t.kids[m], n)
Parent(n) == ParentIn(tree, n)
HasParent(n) == \E m \in Nodes : Contains(tree.kids[m], n)
StageNode(s) == s + 1

RECURSIVE PreOrder(_, _)
PreOrder(t, n) == ForEach(LAMBDA list, m : list \o PreOrder(t, m), <<n>>, t.kids[n])

Unlink(list, n) == SelectSeq(list, LAMBDA m : m # n)

PrevSibling(list, n) ==
  LET i == CHOOSE i \in DOMAIN list : list[i] = n IN IF i = 1 THEN 0 ELSE list[i - 1]

(* Behind pos, and last when there is no pos.                                *)
InsertChild(list, n, pos) ==
  IF pos = 0 THEN Append(list, n)
  ELSE LET i == CHOOSE i \in DOMAIN list : list[i] = pos IN InsertAt(list, i + 1, n)

WithNode(t, k, of) ==
  [t EXCEPT !.kind = Append(@, k), !.kids = Append(@, <<>>),
            !.succ = Append(@, <<>>), !.of = Append(@, of), !.values = Append(@, <<>>)]
NewNode(t) == Len(t.kind) + 1

PrivateOf(t, n) == SelectSeq(t.kids[n], LAMBDA m : t.kind[m] = "private")

(* A copy of the loops as the last child of the pipeline, with the stages of *)
(* a group in the innermost one.                                             *)
DistributeLoopsInFront(t, group) ==
  LET add(u, l) == [WithNode(u, "loop", l) EXCEPT
                      !.kids[IF l = Nest[1] THEN 1 ELSE NewNode(u) - 1] = <<NewNode(u)>> \o @]
      nest == ForEach(add, t, Nest)
      move(u, s) == [u EXCEPT !.kids[1] = Unlink(@, StageNode(s)),
                              !.kids[Len(nest.kind)] = Append(@, StageNode(s))]
  IN  ForEach(move, nest, group)

DistributeLoops(t, group) ==
  LET add(u, l) == [WithNode(u, "loop", l) EXCEPT
                      !.kids[IF l = Nest[1] THEN 1 ELSE NewNode(u) - 1] = Append(@, NewNode(u))]
      nest == ForEach(add, t, Nest)
      move(u, s) == [u EXCEPT !.kids[1] = Unlink(@, StageNode(s)),
                              !.kids[Len(nest.kind)] = Append(@, StageNode(s))]
  IN  ForEach(move, nest, group)

InitialTree ==
  LET n == Len(input.stages)
      root == [kind |-> <<"pipeline">>, kids |-> <<[s \in 1..n |-> StageNode(s)]>>,
               succ |-> <<<<>>>>, of |-> <<0>>, values |-> <<<<>>>>,
               grown |-> <<>>, named |-> [v \in {r.name : r \in Range(input.values)} |-> v]]
      stage(t, s) == [WithNode(t, "stage", s) EXCEPT
                        !.succ[StageNode(s)] = [k \in DOMAIN input.succ[s] |-> StageNode(input.succ[s][k])]]
      t == ForEach(stage, root, [s \in 1..n |-> s])
  IN  IF ~input.private THEN t
      ELSE [WithNode(t, "private", 0) EXCEPT !.kids[1] = <<n + 2>> \o @]

GroupStages ==
  /\ phase = "group"
  /\ IF Nest = <<>> THEN phase' = "unchanged" /\ UNCHANGED groups
     ELSE groups' = StageGroups /\ phase' = "distribute"
  /\ UNCHANGED <<input, tree>>

DistributeAndSinkIntoPipeline ==
  /\ phase = "distribute"
  /\ tree' = [ForEach(DistributeLoops, tree, groups) EXCEPT !.grown = BufferExpansion]
  /\ phase' = "sink"
  /\ UNCHANGED <<input, groups>>

(* The loops of a group of one stage move into the stage, which takes their  *)
(* place among the children of the pipeline.                                 *)
SinkLoops(t, s) ==
  LET n == StageNode(s)
      outermost == CHOOSE m \in Range(t.kids[1]) : Contains(PreOrder(t, m), n)
      pos == PrevSibling(t.kids[1], outermost)
  IN  [t EXCEPT !.kids[ParentIn(t, n)] = Unlink(@, n),
                !.kids[n] = <<outermost>>,
                !.kids[1] = InsertChild(Unlink(@, outermost), n, pos)]

SinkIntoSingleStage ==
  /\ phase = "sink"
  /\ tree' = ForEach(LAMBDA t, g : IF Len(g) = 1 THEN SinkLoops(t, g[1]) ELSE t, tree, groups)
  /\ phase' = "legalize"
  /\ UNCHANGED <<input, groups>>

------------------------------------------------------------------------------
(* The legalizer mends the first violation of its rules, in pre-order, until *)
(* there is none.                                                            *)
IllegalChild(n) == tree.kind[n] \notin {"private", "stage"}

PipelineChildrenViolated(n) ==
  tree.kind[n] = "pipeline" /\ \E m \in Range(tree.kids[n]) : IllegalChild(m)
StageParentViolated(n) ==
  tree.kind[n] = "stage" /\ tree.kind[Parent(n)] # "pipeline"
StartsWithPrivate(n) == tree.kids[n] # <<>> /\ tree.kind[tree.kids[n][1]] = "private"
PrivateMissing(n) ==
  /\ tree.kind[n] = "pipeline" /\ ~StartsWithPrivate(n)
  /\ \E m \in Range(tree.kids[n]) : tree.kind[m] = "stage" /\ tree.succ[m] # <<>>

(* The third rule never gets past a child that is no stage, and is asked for *)
(* every pipeline whatever the other rules said of it.                       *)
RuleSpins(n) ==
  /\ tree.kind[n] = "pipeline" /\ ~StartsWithPrivate(n)
  /\ \E i \in DOMAIN tree.kids[n] :
       /\ tree.kind[tree.kids[n][i]] # "stage"
       /\ \A j \in 1..(i - 1) : tree.succ[tree.kids[n][j]] = <<>>

Reached == PreOrder(tree, 1)
Violated(n) == PipelineChildrenViolated(n) \/ StageParentViolated(n) \/ PrivateMissing(n)
Violations == SelectSeq(Reached, Violated)

(* Each run of consecutive illegal children is wrapped in a new stage.       *)
WrapIllegalChildren(n) ==
  LET kids == tree.kids[n]
      starts == SelectSeq(Indices(kids), LAMBDA i : IllegalChild(kids[i])
                                            /\ (i = 1 \/ ~IllegalChild(kids[i - 1])))
      run(i) == SubSeq(kids, i, CHOOSE j \in i..Len(kids) :
                  /\ \A k \in i..j : IllegalChild(kids[k])
                  /\ j = Len(kids) \/ ~IllegalChild(kids[j + 1]))
      wrap(t, i) ==
        LET new == NewNode(t)
            rest == SelectSeq(t.kids[n], LAMBDA m : ~Contains(run(i), m))
        IN  [WithNode(t, "stage", 0) EXCEPT
               !.kids[new] = run(i),
               !.kids[n] = InsertChild(rest, new, PrevSibling(t.kids[n], run(i)[1]))]
  IN  ForEach(wrap, tree, starts)

(* All stages under the same parent move into one new pipeline.              *)
NestPipeline(n) ==
  LET p == Parent(n)
      stages == SelectSeq(tree.kids[p], LAMBDA m : tree.kind[m] = "stage")
      new == NewNode(tree)
      with == InsertChild(tree.kids[p], new, PrevSibling(tree.kids[p], stages[1]))
  IN  [WithNode(tree, "pipeline", 0) EXCEPT
         !.kids[p] = SelectSeq(with, LAMBDA m : ~Contains(stages, m)), !.kids[new] = stages]

AddPrivate(n) ==
  [WithNode(tree, "private", 0) EXCEPT !.kids[n] = <<NewNode(tree)>> \o @]

FindAndFixViolations ==
  /\ phase = "legalize"
  /\ CASE \E n \in Range(Reached) : RuleSpins(n) -> UNCHANGED <<tree, phase>>
       [] Violations = <<>> -> phase' = "dependencies" /\ UNCHANGED tree
       [] OTHER ->
            \E n \in {Violations[1]} :
                /\ tree' = CASE PipelineChildrenViolated(n) -> WrapIllegalChildren(n)
                             [] StageParentViolated(n) -> NestPipeline(n)
                             [] OTHER -> AddPrivate(n)
                /\ UNCHANGED phase
  /\ UNCHANGED <<input, groups>>

------------------------------------------------------------------------------
(* A token between pipelines of different depth is passed between the stages *)
(* that hold its ends in the outer one of them.                              *)
RECURSIVE AncestorNodes(_)
AncestorNodes(n) ==
  IF HasParent(n) THEN With(LAMBDA p : <<p>> \o AncestorNodes(p), Parent(n)) ELSE <<>>

PipelineDepth(p) == Len(SelectSeq(AncestorNodes(p), LAMBDA m : tree.kind[m] = "pipeline"))

(* The stage of a pipeline that stage n is nested in, 0 if there is none.    *)
StageAtPipeline(n, p) ==
  LET at == SelectSeq(AncestorNodes(n), LAMBDA m : tree.kind[m] = "stage" /\ Parent(m) = p)
  IN  IF at = <<>> THEN 0 ELSE at[1]

CorrectDependenciesOfDropping(next, s) ==
  [next EXCEPT ![s] = SelectSeq(@, LAMBDA sink : PipelineDepth(Parent(s)) <= PipelineDepth(Parent(sink)))]

CorrectDependenciesOf(next, s) ==
  LET p == Parent(s)
      correct(acc, k) ==
        LET sink == acc[s][k]
            q == Parent(sink)
            new == IF PipelineDepth(p) < PipelineDepth(q) THEN StageAtPipeline(sink, p)
                   ELSE StageAtPipeline(s, q)
        IN  CASE p = q \/ PipelineDepth(p) = PipelineDepth(q) \/ new = 0 -> acc
              [] PipelineDepth(p) < PipelineDepth(q) -> [acc EXCEPT ![s][k] = new]
              [] OTHER -> [acc EXCEPT ![s][k] = 0,
                                      ![new] = IF Contains(@, sink) THEN @ ELSE Append(@, sink)]
      all == ForEach(correct, next, Indices(next[s]))
  IN  [all EXCEPT ![s] = SelectSeq(@, LAMBDA m : m # 0)]

CorrectStageDependencies ==
  /\ phase = "dependencies"
  /\ tree' = [tree EXCEPT !.succ =
        ForEach(CorrectDependenciesOf, @, SelectSeq(Reached, LAMBDA n : tree.kind[n] = "stage"))]
  /\ phase' = "materialize"
  /\ UNCHANGED <<input, groups>>

(* The new operations.  A stage waits for the tokens of the stages in its    *)
(* own pipeline, the body of a stage goes into the innermost loop of it, and *)
(* the private region keeps its results, those of a new one has none.        *)
Tokens(n) ==
  IF tree.kind[n] = "stage" THEN SelectSeq(tree.succ[n], LAMBDA m : Parent(m) = Parent(n)) ELSE <<>>

InnermostLoop(t, n) ==
  LET below == SelectSeq(PreOrder(t, n), LAMBDA m : t.kind[m] = "loop")
  IN  IF below = <<>> THEN n ELSE Last(below)

WithBody(t, n) ==
  LET at == InnermostLoop(t, n)
  IN  [WithNode(t, "body", t.of[n]) EXCEPT !.kids[at] = Append(@, NewNode(t))]

PrivateResults(n) == IF n = 1 /\ input.private THEN input.values ELSE <<>>

Materialize ==
  /\ phase = "materialize"
  /\ tree' = ForEach(WithBody,
                     [tree EXCEPT !.succ = [n \in Nodes |-> Tokens(n)],
                                  !.values = [n \in Nodes |-> PrivateResults(n)]],
                     SetToSortSeq({n \in OfKind("stage") : tree.of[n] # 0}, <))
  /\ phase' = IF input.private THEN "scopes" ELSE "done"
  /\ UNCHANGED <<input, groups>>

------------------------------------------------------------------------------
(* Private results used in one inner pipeline only move to its private       *)
(* region, with all results of their operation, in front of its own.         *)
Body(n) == input.stages[tree.of[n]]
PipelineOf(n) ==
  SelectSeq(AncestorNodes(n), LAMBDA m : tree.kind[m] = "pipeline")[1]
Renamed(x) == IF x.at \in DOMAIN tree.named THEN [x EXCEPT !.at = tree.named[@]] ELSE x
UsersOf(v) ==
  {n \in OfKind("body") : \E o \in Range(Body(n)) : \E x \in Operands(o) : x.at = v}

MovesTo(p) == SelectSeq(input.values, LAMBDA r :
                UsersOf(r.name) # {} /\ \A n \in UsersOf(r.name) : PipelineOf(n) = p)
OpsIn(results) ==
  ForEach(LAMBDA ops, r : IF Contains(ops, r.op) THEN ops ELSE Append(ops, r.op), <<>>, results)
ResultsOf(ops) ==
  ForEach(LAMBDA all, o : all \o SelectSeq(input.values, LAMBDA r : r.op = o), <<>>, ops)

(* The private region of the outer pipeline is replaced after the first      *)
(* inner one, and the one that was erased is used for the next; a private    *)
(* region that is missing in an inner pipeline is dereferenced as well.      *)
MoveResults(p, old, ops, new) ==
  [tree EXCEPT !.values[p] = new,
               !.values[1] = SelectSeq(@, LAMBDA r : ~Contains(ops, r.op)),
               !.named = [v \in DOMAIN @ |->
                  IF \E k \in DOMAIN old : old[k].name = v
                  THEN new[CHOOSE k \in DOMAIN old : old[k].name = v].name ELSE @[v]]]

CorrectScopes ==
  /\ phase = "scopes"
  /\ \E moves \in {[p \in OfKind("pipeline") \ {1} |-> MovesTo(p)]} :
       LET inner == {p \in DOMAIN moves : moves[p] # <<>>}
       IN  CASE inner = {} -> phase' = "done" /\ UNCHANGED tree
             [] Cardinality(inner) > 1 \/ \E p \in inner : PrivateOf(tree, p) = <<>> ->
                  phase' = "undefined" /\ UNCHANGED tree
             [] OTHER ->
                  /\ \E p \in inner : \E ops \in {OpsIn(moves[p])} :
                       tree' = MoveResults(p, moves[p], ops, ResultsOf(ops))
                  /\ phase' = "done"
  /\ UNCHANGED <<input, groups>>

------------------------------------------------------------------------------
Init ==
  /\ input \in Inputs
  /\ phase = "group"
  /\ groups = <<>>
  /\ tree = InitialTree

Ended == phase \in {"done", "unchanged", "undefined"} /\ UNCHANGED vars

Next ==
  \/ GroupStages \/ DistributeAndSinkIntoPipeline \/ SinkIntoSingleStage \/ FindAndFixViolations
  \/ CorrectStageDependencies \/ Materialize \/ CorrectScopes \/ Ended

Spec == Init /\ [][Next]_vars /\ WF_vars(Next)

------------------------------------------------------------------------------
(* What a program computes: a value is the sequence of the input elements it *)
(* was made from, and a memory maps locations to values.  The slot of a      *)
(* grown buffer is chosen by the iteration; address buffers are not grown.   *)
IsPrivate(v) == v \in {r.name : r \in Range(input.values)}

TripCount(l) ==
  (input.loops[l].ub - input.loops[l].lb + input.loops[l].step - 1) \div input.loops[l].step

(* A grown buffer has as many slots as there are iterations.                 *)
Allocated(loc, grown) ==
  \A k \in DOMAIN loc.slot : loc.slot[k] \in 0 .. TripCount(grown[loc.at][k]) - 1

Slot(x, env, grown) ==
  IF x.at \notin DOMAIN grown THEN <<>>
  ELSE [k \in DOMAIN grown[x.at] |-> LET l == grown[x.at][k]
                                     IN  (env[l] - input.loops[l].lb) \div input.loops[l].step]
Location(x, env, grown) ==
  [at |-> x.at, by |-> [k \in DOMAIN x.by |-> env[x.by[k]]], slot |-> Slot(x, env, grown)]

Value(mem, loc) ==
  IF loc \in DOMAIN mem THEN mem[loc] ELSE IF IsPrivate(loc.at) THEN <<>> ELSE <<loc>>

GrownFor(o, k, grown) == IF o.op = "indirect" /\ k = 2 THEN <<>> ELSE grown

RunOp(mem, o, env, grown) ==
  LET read(k) == Value(mem, Location(o.srcs[k], env, GrownFor(o, k, grown)))
      loc == Location(o.dst, env, grown)
  IN  IF Allocated(loc, grown) THEN loc :> FlattenSeq([k \in DOMAIN o.srcs |-> read(k)]) @@ mem ELSE mem

IVs(l) == [k \in 1..TripCount(l) |-> input.loops[l].lb + (k - 1) * input.loops[l].step]

(* A run is the sequence of the operations that are executed, [op, env], and *)
(* of the ends of pipelines, which free the private values: [names].         *)
Each(ops, env) == [k \in DOMAIN ops |-> [op |-> ops[k], env |-> env]]
Concat(f(_), list) == ForEach(LAMBDA all, m : all \o f(m), <<>>, list)
Freed(mem, names) == [l \in {l \in DOMAIN mem : l.at \notin names} |-> mem[l]]
Results(run, grown) ==
  Freed(ForEach(LAMBDA mem, e : IF "names" \in DOMAIN e THEN Freed(mem, e.names)
                                ELSE RunOp(mem, e.op, e.env, grown), <<>>, run),
        {r.name : r \in Range(input.values)})

RECURSIVE LoopsRun(_, _)
LoopsRun(k, env) ==               \* the input, from its k-th loop inwards
  IF k > Len(input.loops) THEN Concat(LAMBDA s : Each(s, env), input.beside \o input.stages)
  ELSE Concat(LAMBDA i : LoopsRun(k + 1, Append(env, i)), IVs(k))

RenamedOps(ops) ==
  [k \in DOMAIN ops |-> [ops[k] EXCEPT !.srcs = [j \in DOMAIN @ |-> Renamed(@[j])], !.dst = Renamed(@)]]

RECURSIVE NodeRun(_, _, _)
NodeRun(n, env, order) ==         \* the tree, in an order of the stages
  LET kids(e) == Concat(LAMBDA c : NodeRun(c, e, order),
                        IF n \in DOMAIN order THEN order[n] ELSE tree.kids[n])
  IN  CASE tree.kind[n] = "pipeline" ->
             Append(kids(env), [names |-> {r.name : r \in Range(tree.values[n])}])
        [] tree.kind[n] = "loop" ->
             Concat(LAMBDA i : kids([env EXCEPT ![tree.of[n]] = i]), IVs(tree.of[n]))
        [] tree.kind[n] = "body" -> Each(RenamedOps(Body(n)), env)
        [] OTHER -> kids(env)

(* The loops that stay around the new pipeline.                              *)
RECURSIVE OuterRun(_, _, _)
OuterRun(k, env, order) ==
  IF k > Len(input.loops) \/ Contains(Nest, k)
  THEN NodeRun(1, env \o [j \in 1..(Len(input.loops) - k + 1) |-> 0], order)
  ELSE Concat(LAMBDA i : OuterRun(k + 1, Append(env, i), order), IVs(k))

(* The stages of a pipeline in every order that its tokens allow.            *)
Orders(p) ==
  LET stages == {n \in Range(tree.kids[p]) : tree.kind[n] = "stage"}
      extend(S) == {Append(q, n) : q \in S, n \in stages}
      ready(q) == /\ IsInjective(q)
                  /\ \A i \in DOMAIN q, n \in stages :
                       Contains(tree.succ[n], q[i]) => Contains(SubSeq(q, 1, i - 1), n)
  IN  ForEach(LAMBDA S, n : {q \in extend(S) : ready(q)}, {<<>>}, SetToSeq(stages))

Schedules ==
  {f \in [OfKind("pipeline") -> UNION {Orders(p) : p \in OfKind("pipeline")}] :
     \A p \in OfKind("pipeline") : f[p] \in Orders(p)}

(* Sinking the loops changes nothing in the memory outside: in every order   *)
(* that the new tokens allow, the coarsened pipeline leaves there what the   *)
(* loops around the pipeline did (BufferExpansion.cpp:277, loop              *)
(* distribution; Materializer.cpp:263; ScopeCorrection.cpp:131).             *)
SameResults ==
  phase = "done" =>
    \E given \in {Results(LoopsRun(1, <<>>), <<>>)} :
      \A f \in Schedules : Results(OuterRun(1, <<>>, f), tree.grown) = given

(* A stage that waited for another one still does: in the innermost pipeline *)
(* that holds both, the stage with the one comes before the stage with the   *)
(* other by tokens, and not the other way round (StageCoarsening.cpp:519).   *)
StagesAt(n, p) == IF Parent(n) = p THEN n ELSE StageAtPipeline(n, p)
Behind(n) == {m \in OfKind("stage") : m \in
                ForEach(LAMBDA r, k : r \cup UNION {Range(tree.succ[x]) : x \in r},
                         Range(tree.succ[n]), Indices(tree.kind))}
TokensCarriedOver ==
  phase = "done" =>
    \A s \in DOMAIN input.succ : \A t \in Range(input.succ[s]) :
      LET common == SelectSeq(AncestorNodes(StageNode(s)),
                      LAMBDA m : tree.kind[m] = "pipeline" /\ Contains(AncestorNodes(StageNode(t)), m))
          a == StagesAt(StageNode(s), common[1])
          b == StagesAt(StageNode(t), common[1])
      IN  b \in Behind(a) /\ a \notin Behind(b)

(* The rules of the legalizer come to hold, and the pass to an end           *)
(* (PipelineTreeLegalizer.cpp:292, "Iteratively fix violations until none    *)
(* remain").                                                                 *)
Ends == <>(phase \in {"done", "unchanged"})
=============================================================================
