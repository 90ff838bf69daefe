----------------------------- MODULE Reductions -----------------------------
(* The passes that shape a reduction for the device.  ReductionDimChunking   *)
(* runs it in chunks that are combined in the local memory,                  *)
(* SplitReductionInnerOuterDim leaves the innermost dimension to a second    *)
(* generic, ReductionLoopExposure makes loops of the others, in every stage, *)
(* and MapReductionPartials gives the accumulators buffers of their own.     *)
(*                                                                           *)
(* The pipeline loads an input into a FIFO, reduces it and stores the        *)
(* results, in a batch loop.  The first dimensions of a generic are those of *)
(* its input, in their order.                                                *)
EXTENDS Integers, Sequences, FiniteSets, TLC, SequencesExt, Bags, Steps

CONSTANT Inputs       \* reductions: see ReductionInputs

VARIABLES input, phase, program

Product(list) == FoldLeft(LAMBDA a, b : a * b, 1, list)

(* Operations of a stage: the values an operation reads (ins), updates       *)
(* (outs) and defines (defs), and what its regions hold and yield.  The      *)
(* coordinates of a slice are sums of loop variables times a factor.         *)
Op(op) ==
  [op |-> op, ins |-> <<>>, outs |-> <<>>, defs |-> <<>>, args |-> <<>>, body |-> <<>>, yields |-> <<>>,
   else |-> <<>>, elseYields |-> <<>>, slot |-> "", memref |-> "", base |-> <<>>, shape |-> <<>>,
   iv |-> "", n |-> 0, test |-> {}, inMap |-> <<>>, outMap |-> <<>>, iters |-> <<>>, bodies |-> <<>>]
Loop(iv, n, args, inits, body, yields, results) ==
  [Op("for") EXCEPT !.iv = iv, !.n = n, !.args = args, !.ins = inits, !.body = body, !.yields = yields, !.defs = results]
If(test, then, else, yields, elseYields, results) ==
  [Op("if") EXCEPT !.test = test, !.body = then, !.else = else, !.yields = yields, !.elseYields = elseYields,
                   !.defs = results]
Load(memref, base, shape, slot) ==
  [Op("load") EXCEPT !.memref = memref, !.base = base, !.shape = shape, !.slot = slot]
Store(slot, memref, base, shape) ==
  [Op("store") EXCEPT !.slot = slot, !.memref = memref, !.base = base, !.shape = shape]
Read(slot, shape, v) == [Op("read") EXCEPT !.slot = slot, !.shape = shape, !.defs = <<v>>]
Write(v, slot) == [Op("write") EXCEPT !.ins = <<v>>, !.slot = slot]
Empty(shape, v) == [Op("empty") EXCEPT !.shape = shape, !.defs = <<v>>]
Generic(ins, outs, inMap, outMap, iters, bodies, results) ==
  [Op("generic") EXCEPT !.ins = ins, !.outs = outs, !.inMap = inMap, !.outMap = outMap, !.iters = iters,
                        !.bodies = bodies, !.defs = results]
Alloc(shape, v) == [Op("alloc") EXCEPT !.shape = shape, !.defs = <<v>>]
Fill(v, neutral) == [Op("fill") EXCEPT !.outs = <<v>>, !.slot = neutral]
Copy(from, to) == [Op("copy") EXCEPT !.ins = <<from>>, !.outs = <<to>>]
SubView(of, sizes, shape, v) ==
  [Op("view") EXCEPT !.ins = <<of>>, !.base = sizes, !.shape = shape, !.defs = <<v>>]

RECURSIVE Used(_)
Used(ops) ==
  UNION {ToSet(o.ins) \cup ToSet(o.outs) \cup ToSet(o.yields) \cup ToSet(o.elseYields) \cup Used(o.body) \cup Used(o.else) :
           o \in ToSet(ops)}
RECURSIVE Renamed(_, _)
Renamed(ops, new) ==
  LET all(list) == [k \in DOMAIN list |-> IF list[k] \in DOMAIN new THEN new[list[k]] ELSE list[k]]
  IN  [k \in DOMAIN ops |->
         [ops[k] EXCEPT !.ins = all(@), !.outs = all(@), !.yields = all(@), !.elseYields = all(@),
                        !.body = Renamed(@, new), !.else = Renamed(@, new)]]
Zipped(names, values) == [x \in ToSet(names) |-> values[CHOOSE k \in DOMAIN names : names[k] = x]]

(* The pipeline as the passes find it.                                       *)
Numbered(name, r) == name \o ToString(r)
Names(name, g) == [r \in DOMAIN g.bodies |-> Numbered(name, r)]
InDims(g) == [d \in DOMAIN g.shape |-> d]
OutShape(g) == [k \in DOMAIN g.outMap |-> g.extents[g.outMap[k]]]
Batch == {<<"batch", 1>>}
Origin(n) == <<Batch>> \o [k \in 1..n |-> {}]
Whole(g, r) == <<Numbered("output", r), Origin(Len(g.outMap)), <<1>> \o OutShape(g)>>
Given(g) ==
  [loops |-> <<>>,
   slots |-> [s \in {"in"} \cup ToSet(Names("out", g)) |-> IF s = "in" THEN Product(g.shape) ELSE Product(OutShape(g))],
   load |-> <<Load("input", Origin(Len(g.shape)), <<1>> \o g.shape, "in")>>,
   compute |-> <<Read("in", g.shape, "x")>>
     \o [r \in DOMAIN g.bodies |-> Empty(OutShape(g), Numbered("init", r))]
     \o <<Generic(<<"x">>, Names("init", g), InDims(g), g.outMap, g.iters, g.bodies, Names("result", g))>>
     \o [r \in DOMAIN g.bodies |-> Write(Numbered("result", r), Numbered("out", r))],
   store |-> [r \in DOMAIN g.bodies |-> Store(Numbered("out", r), Whole(g, r)[1], Whole(g, r)[2], Whole(g, r)[3])]]

-----------------------------------------------------------------------------
(* ReductionDimChunking.                                                     *)
ReductionDims(iters) == SelectSeq(Indices(iters), LAMBDA d : iters[d] = "reduction")
ElementBytes == 2
AnalyzeReductionChunks(g) ==
  LET sizes == [j \in DOMAIN ReductionDims(g.iters) |-> g.extents[ReductionDims(g.iters)[j]]]
      fitting == {n \in 1..Product(sizes) : (ElementBytes * Product(g.shape)) \div n <= g.threshold}
  IN  [sizes |-> sizes, n |-> IF fitting = {} THEN 0 ELSE CHOOSE n \in fitting : \A m \in fitting : n <= m]
Gcd(a, b) == CHOOSE d \in 1..a : a % d = 0 /\ b % d = 0 /\ \A e \in 1..a : a % e = 0 /\ b % e = 0 => e <= d
ComputeChunkDims(sizes, n) ==
  FoldLeft(LAMBDA c, size : LET d == Gcd(size, c.remaining)
                            IN  [chunks |-> Append(c.chunks, size \div d), remaining |-> c.remaining \div d],
           [chunks |-> <<>>, remaining |-> n], sizes)

(* The dimensions that get a chunk loop, and the sizes of their chunks: none *)
(* where the reduction is left as it is.                                     *)
NoChunks == [fails |-> FALSE, dims |-> <<>>, chunks |-> <<>>]
Fails == [NoChunks EXCEPT !.fails = TRUE]
Looped(iters) ==
  LET dims == ReductionDims(iters) IN IF dims # <<>> /\ Last(dims) = Len(iters) THEN Front(dims) ELSE dims
ChunksByThreshold(g) ==
  LET dims == Looped(g.iters)  found == AnalyzeReductionChunks(g)
      c == ComputeChunkDims(found.sizes, found.n)
  IN  IF dims = <<>> THEN NoChunks
      ELSE IF found.n = 0 \/ c.remaining > 1 THEN Fails
      ELSE [fails |-> FALSE, dims |-> dims, chunks |-> SubSeq(c.chunks, 1, Len(dims))]
ChunksByNumber(g) ==
  LET dims == ReductionDims(g.iters)
  IN  IF Len(g.numChunks) # Len(dims) THEN Fails
      ELSE IF \E j \in DOMAIN dims : g.numChunks[j] = 0 \/ g.extents[dims[j]] % g.numChunks[j] # 0 THEN NoChunks
      ELSE [fails |-> FALSE, dims |-> dims, chunks |-> [j \in DOMAIN dims |-> g.extents[dims[j]] \div g.numChunks[j]]]
Chunks(g) ==
  LET c == IF g.numChunks = <<>> THEN ChunksByThreshold(g) ELSE ChunksByNumber(g)
  IN  IF \A j \in DOMAIN c.dims : g.extents[c.dims[j]] = c.chunks[j] THEN [c EXCEPT !.dims = <<>>] ELSE c

ChunkIv(j) == Numbered("chunk", j)
ChunkLoops(g, c) ==
  SelectSeq([j \in DOMAIN c.dims |-> <<ChunkIv(j), g.extents[c.dims[j]] \div c.chunks[j]>>], LAMBDA l : l[2] > 1)
IsFirst(loops) == {<<loops[k][1], 0>> : k \in DOMAIN loops}
ChunkOf(c, d) == IF d \in ToSet(c.dims) THEN CHOOSE j \in DOMAIN c.dims : c.dims[j] = d ELSE 0
ChunkShape(g, c) == [d \in DOMAIN g.shape |-> IF ChunkOf(c, d) = 0 THEN g.shape[d] ELSE c.chunks[ChunkOf(c, d)]]
ChunkBase(g, c, loops) ==
  <<Batch>> \o [d \in DOMAIN g.shape |->
                  LET j == ChunkOf(c, d)
                  IN  IF j # 0 /\ ChunkIv(j) \in {loops[k][1] : k \in DOMAIN loops} THEN {<<ChunkIv(j), c.chunks[j]>>} ELSE {}]

BuildLoadStage(g, c, loops) ==
  <<Load("input", ChunkBase(g, c, loops), <<1>> \o ChunkShape(g, c), "in"),
    If(IsFirst(loops), <<>>, <<Load(Whole(g, 1)[1], Whole(g, 1)[2], Whole(g, 1)[3], "partial")>>, <<>>, <<>>, <<>>)>>
CombineBody(body) == body
BuildComputeStage(g, c, loops) ==
  LET id == [k \in DOMAIN g.outMap |-> k]
      combine == Generic(<<"partial">>, <<"first">>, id, id, [k \in DOMAIN id |-> "parallel"],
                         <<CombineBody(g.bodies[1])>>, <<"combined">>)
  IN  <<Read("in", ChunkShape(g, c), "x"), Empty(OutShape(g), "init1"),
        Generic(<<"x">>, <<"init1">>, InDims(g), g.outMap, g.iters, g.bodies, <<"first">>),
        If(IsFirst(loops), <<>>, <<Read("partial", OutShape(g), "partial"), combine>>, <<"first">>, <<"combined">>, <<"result1">>),
        Write("result1", "out1")>>
RewriteInChunks(g, c) ==
  LET loops == ChunkLoops(g, c)
  IN  [Given(g) EXCEPT
         !.loops = loops,
         !.slots = ("in" :> Product(ChunkShape(g, c))) @@ ("partial" :> Product(OutShape(g))) @@ @,
         !.load = BuildLoadStage(g, c, loops),
         !.compute = BuildComputeStage(g, c, loops)]
ReductionDimChunking ==
  /\ phase = "chunk"
  /\ LET c == Chunks(input)
     IN  \/ c.fails /\ phase' = "failed" /\ UNCHANGED program
         \/ ~c.fails /\ c.dims = <<>> /\ phase' = "split" /\ UNCHANGED program
         \/ /\ ~c.fails /\ c.dims # <<>>
            /\ IF input.batch = 0 THEN phase' = "failed" /\ UNCHANGED program
               ELSE phase' = "split" /\ program' = RewriteInChunks(input, c)
  /\ UNCHANGED input
-----------------------------------------------------------------------------
(* SplitReductionInnerOuterDim.                                              *)
Position(list, x) == CHOOSE k \in DOMAIN list : list[k] = x
Marked(names, mark) == [k \in DOMAIN names |-> names[k] \o mark]
Defining(ops, v) == {k \in DOMAIN ops : v \in ToSet(ops[k].defs)}
Definer(ops, v) == ops[CHOOSE k \in Defining(ops, v) : TRUE]
ShapeOf(ops, v) == Definer(ops, v).shape
Front1(ops, k) == SubSeq(ops, 1, k - 1)
Behind(ops, k) == SubSeq(ops, k + 1, Len(ops))
Generics(ops) == {k \in DOMAIN ops : ops[k].op = "generic" /\ ops[k].defs # <<>>}
ReducesInner(o) == o.iters[Last(o.inMap)] = "reduction"
IsEligible(o) == Len(ReductionDims(o.iters)) >= 2 /\ ReducesInner(o)

(* What accumulates the partial results: the operation that accumulated the  *)
(* elements, over operands that one operation computes from its arguments.   *)
CombinerFails(bodies) == \E r \in DOMAIN bodies : bodies[r].op = "fma"
BuildCombinerBody(b) == [b EXCEPT !.of = IF @ = "square" THEN "id" ELSE @]

OuterDims(o) == ToSet(ReductionDims(o.iters)) \ {Last(o.inMap)}
Without(list, set) == SelectSeq(list, LAMBDA x : x \notin set)
Emptied(ops, names) == SelectSeq(ops, LAMBDA o : ~(o.op = "empty" /\ ToSet(o.defs) \subseteq names))
Empties(shape, names) == [r \in DOMAIN names |-> Empty(shape, names[r])]
CombineIfs(ops, v) == {k \in DOMAIN ops : ops[k].op = "if" /\ v \in Used(<<ops[k]>>)}
Combination(ops, o, ins, results) ==
  LET inter == Without(Indices(o.inMap), OuterDims(o))
      dims == Without(Indices(o.iters), OuterDims(o))
  IN  Empties(ShapeOf(ops, o.outs[1]), o.outs) \o
      <<Generic(ins, o.outs, [j \in DOMAIN inter |-> Position(dims, inter[j])],
                [j \in DOMAIN o.outMap |-> Position(dims, o.outMap[j])],
                [j \in DOMAIN dims |-> IF dims[j] = Last(o.inMap) THEN "reduction" ELSE "parallel"],
                [r \in DOMAIN o.bodies |-> BuildCombinerBody(o.bodies[r])], results)>>
SplitDim(ops, k) ==
  LET o == ops[k]
      shape == ShapeOf(ops, o.ins[1])
      inter == Without(Indices(shape), OuterDims(o))
      combine == CombineIfs(ops, o.defs[1])
      partials == Marked(o.defs, " outer init")
      outer == IF combine = {} THEN Marked(o.defs, " outer") ELSE o.defs
      G1 == Generic(o.ins, partials, o.inMap, inter,
                    [d \in DOMAIN shape |-> IF d = Last(o.inMap) THEN "parallel" ELSE o.iters[d]], o.bodies, outer)
      G2(ins, results) == Combination(ops, o, ins, results)
      start == Emptied(Front1(ops, k), ToSet(o.outs))
                 \o Empties([j \in DOMAIN inter |-> shape[inter[j]]], partials) \o <<G1>>
      c == CHOOSE i \in combine : TRUE
      combined == Marked(ops[c].defs, " combined")
  IN  IF combine = {} THEN start \o G2(outer, o.defs) \o Behind(ops, k)
      ELSE start \o SubSeq(ops, k + 1, c - 1) \o <<[ops[c] EXCEPT !.defs = combined]>>
                 \o G2(combined, ops[c].defs) \o Behind(ops, c)
SplitReductionInnerOuterDim ==
  /\ phase = "split"
  /\ LET eligible == {k \in Generics(program.compute) : IsEligible(program.compute[k])}
     IN  \/ eligible = {} /\ phase' = "expose" /\ UNCHANGED program
         \/ \E k \in eligible :
              IF CombinerFails(program.compute[k].bodies) THEN phase' = "failed" /\ UNCHANGED program
              ELSE phase' = "expose" /\ program' = [program EXCEPT !.compute = SplitDim(@, k)]
  /\ UNCHANGED input

-----------------------------------------------------------------------------
(* ReductionLoopExposure.                                                    *)
ExposedDims(o, shape) ==
  SelectSeq(ReductionDims(o.iters), LAMBDA d : ~(d = Last(o.inMap)) /\ shape[d] # 1)
CollectReductionGenericOps(ops) ==
  {k \in Generics(ops) : Definer(ops, ops[k].ins[1]).op # "generic"
                          /\ ExposedDims(ops[k], ShapeOf(ops, ops[k].ins[1])) # <<>>}

Row(k) == Numbered("row", k)
Carried(k, n) == [r \in 1..n |-> Numbered(Row(k) \o " carried", r)]
Yielded(k, n) == [r \in 1..n |-> Numbered(Row(k) \o " result", r)]
(* One loop in the other, with accumulators from the seeds to the results.   *)
BuildNestedForLoops(sizes, seeds, body, yields, results) ==
  LET n == Len(seeds)
      level[k \in DOMAIN sizes] ==
        Loop(Row(k), sizes[k], Carried(k, n), IF k = 1 THEN seeds ELSE Carried(k - 1, n),
             IF k = Len(sizes) THEN body ELSE <<level[k + 1]>>,
             IF k = Len(sizes) THEN yields ELSE Yielded(k + 1, n), IF k = 1 THEN results ELSE Yielded(k, n))
  IN  level[1]
AllLast(sizes) == {<<Row(k), sizes[k] - 1>> : k \in DOMAIN sizes}

PatchInputTransfer(o, dims) ==
  [o EXCEPT !.shape = [d \in DOMAIN @ |-> IF d - 1 \in ToSet(dims) THEN 1 ELSE @[d]],
            !.base = [d \in DOMAIN @ |-> IF d - 1 \in ToSet(dims) THEN @[d] \cup {<<Row(Position(dims, d - 1)), 1>>} ELSE @[d]]]
RewriteLoadStage(ops, slot, dims, sizes) ==
  LET main == ops[CHOOSE k \in DOMAIN ops : ops[k].op = "load" /\ ops[k].slot = slot]
  IN  SelectSeq(ops, LAMBDA o : ~(o.op = "load" /\ o.slot = slot))
        \o <<BuildNestedForLoops(sizes, <<>>, <<PatchInputTransfer(main, dims)>>, <<>>, <<>>)>>
StoreInEveryIteration(ops, sizes) == <<BuildNestedForLoops(sizes, <<>>, ops, <<>>, <<>>)>>
RewriteConditionalStoreStage(ops, sizes) ==
  <<BuildNestedForLoops(sizes, <<>>, <<If(AllLast(sizes), ops, <<>>, <<>>, <<>>, <<>>)>>, <<>>, <<>>)>>

(* What remains of the operations behind which there are others.             *)
KeptOps(ops, others, writesStay) ==
  FoldLeft(LAMBDA kept, o :
             IF (o.op = "write" /\ writesStay) \/ ToSet(o.defs) \cap Used(kept \o others) # {} THEN <<o>> \o kept ELSE kept,
           <<>>, Reverse(ops))
RewriteComputeStage(ops, k, dims, sizes) ==
  LET o == ops[k]
      read == Definer(ops, o.ins[1])
      writes == SelectSeq(ops, LAMBDA w : w.op = "write" /\ w.ins[1] \in ToSet(o.defs))
      n == Len(o.defs)
      seeds == Marked(o.outs, " seed")
      updated == Marked(o.defs, " updated")
      slice == [d \in DOMAIN read.shape |-> IF d \in ToSet(dims) THEN 1 ELSE read.shape[d]]
      inner == <<Read(read.slot, slice, "slice"),
                 [o EXCEPT !.ins = <<"slice">>, !.outs = Carried(Len(sizes), n), !.defs = updated]>>
      last == If(AllLast(sizes), Renamed(writes, Zipped(o.defs, updated)), <<>>, <<>>, <<>>, <<>>)
      nest == Empties(ShapeOf(ops, o.outs[1]), seeds) \o
              <<BuildNestedForLoops(sizes, seeds, IF writes = <<>> THEN inner ELSE inner \o <<last>>, updated, o.defs)>>
      behind == KeptOps(Behind(ops, k), <<>>, writes = <<>>)
  IN  KeptOps(Front1(ops, k), nest \o behind, writes = <<>>) \o nest \o behind

RewritePipeline(p, k, read, dims, sizes) ==
  [p EXCEPT !.slots[read.slot] = @ \div Product(sizes),
            !.load = RewriteLoadStage(@, read.slot, dims, sizes),
            !.compute = RewriteComputeStage(@, k, dims, sizes),
            !.store = RewriteConditionalStoreStage(@, sizes)]
ReductionLoopExposure ==
  /\ phase = "expose"
  /\ LET found == CollectReductionGenericOps(program.compute)
     IN  \/ found = {} /\ phase' = "map" /\ UNCHANGED program
         \/ \E k \in found :
              LET read == Definer(program.compute, program.compute[k].ins[1])
                  dims == ExposedDims(program.compute[k], read.shape)
                  sizes == [j \in DOMAIN dims |-> read.shape[dims[j]]]
              IN  IF program.slots[read.slot] % Product(sizes) # 0 THEN phase' = "failed" /\ UNCHANGED program
                  ELSE /\ phase' = "map"
                       /\ program' = RewritePipeline(program, k, read, dims, sizes)
  /\ UNCHANGED input

-----------------------------------------------------------------------------
(* MapReductionPartials.                                                     *)
HasNeutral(b) == b.op \in {"add", "max"} \/ (b.op = "maxnum" /\ b.of = "abs" /\ b.running = "abs")
GetNeutralAttr(bodies) == IF Last(bodies).op = "max" THEN "-inf" ELSE "0"

(* The combination with the previous chunks, into the accumulators.          *)
CombineIf(ops, v) == {k \in DOMAIN ops : ops[k].op = "if" /\ v \in ToSet(ops[k].yields)}
LowerCombineIfToMemref(o, dests) ==
  If(o.test, <<>>, [k \in DOMAIN o.else |->
                      IF o.else[k].op = "generic" THEN [o.else[k] EXCEPT !.outs = dests, !.defs = <<>>] ELSE o.else[k]],
     <<>>, <<>>, <<>>)

(* The loops without the values that they carry, which the accumulators are. *)
Inner(o) == o.body[CHOOSE k \in DOMAIN o.body : o.body[k].op \in {"for", "generic"}]
RECURSIVE InnerGeneric(_), CarriedNames(_, _)
InnerGeneric(o) == IF o.op = "generic" THEN o ELSE InnerGeneric(Inner(o))
CarriedNames(o, allocs) ==
  Zipped(o.args \o o.defs, IF o.args = <<>> THEN allocs ELSE allocs \o allocs) @@
    (IF o.op = "for" THEN CarriedNames(Inner(o), allocs) ELSE <<>>)
RECURSIVE RemoveUnusedIterArgChain(_)
RemoveUnusedIterArgChain(o) ==
  [o EXCEPT !.args = <<>>, !.ins = IF o.op = "for" THEN <<>> ELSE @, !.yields = <<>>, !.defs = IF o.op \in {"for", "generic"} THEN <<>> ELSE @,
            !.body = [k \in DOMAIN @ |-> RemoveUnusedIterArgChain(@[k])]]
LowerIterArgInitializer(shape, alloc, neutral) ==
  LET identity == alloc \o " identity"
  IN  <<Alloc(shape, identity), Fill(identity, neutral), Copy(identity, alloc)>>
RewriteGeneric(ops, k) ==
  LET nest == ops[k]
      allocs == Marked(nest.defs, " buffer")
      shape == ShapeOf(ops, nest.ins[1])
      combine == CombineIf(ops, nest.defs[1])
      names == CarriedNames(nest, allocs) @@
               (IF combine = {} THEN <<>> ELSE Zipped(ops[CHOOSE c \in combine : TRUE].defs, allocs))
      lowered == [i \in DOMAIN ops |->
                    IF i = k THEN RemoveUnusedIterArgChain(nest)
                    ELSE IF i \in combine THEN LowerCombineIfToMemref(ops[i], allocs) ELSE ops[i]]
      started(o) == IF o.op = "empty" /\ ToSet(o.defs) \subseteq ToSet(nest.ins)
                    THEN LowerIterArgInitializer(shape, allocs[Position(nest.ins, o.defs[1])], GetNeutralAttr(InnerGeneric(nest).bodies))
                    ELSE <<o>>
  IN  [r \in DOMAIN allocs |-> Alloc(shape, allocs[r])]
        \o Renamed(FlattenSeq([i \in DOMAIN lowered |-> started(lowered[i])]), names)


(* A reduction without a loop: the results go to the first elements of the   *)
(* buffer that it reads, and the whole buffer to the FIFO.                   *)
WidenedSlots(p, results, shape) ==
  LET writes == {w \in ToSet(p.compute) : w.op = "write" /\ w.ins[1] \in ToSet(results)}
  IN  [s \in DOMAIN p.slots |-> IF s \in {w.slot : w \in writes} THEN Product(shape) ELSE p.slots[s]]
RewriteInnerDimGeneric(p, v) ==
  LET ops == p.compute
      k == CHOOSE i \in Generics(ops) : v \in ToSet(ops[i].defs)
      o == ops[k]
      n == Len(o.bodies)
      shape == ShapeOf(ops, o.ins[1])
      isRead == Definer(ops, o.ins[1]).op = "read"
      effective == IF isRead THEN Marked(o.ins, " local") ELSE o.ins
      combine == CombineIf(ops, v)
      results == o.defs \o (IF combine = {} THEN <<>> ELSE ops[CHOOSE c \in combine : TRUE].defs)
      sizes == [d \in DOMAIN shape |-> IF o.iters[o.inMap[d]] = "reduction" THEN 1 ELSE shape[d]]
      size(d) == IF d \in ToSet(o.inMap) THEN shape[Position(o.inMap, d)] ELSE 1
      viewed == [j \in DOMAIN o.outMap |-> size(o.outMap[j])]
      views == Marked(effective, " view")
      rewritten == (IF isRead THEN [r \in 1..n |-> Copy(o.ins[r], effective[r])] ELSE <<>>)
                     \o [r \in 1..n |-> SubView(effective[r], sizes, viewed, views[r])]
                     \o <<[o EXCEPT !.ins = effective, !.outs = views, !.defs = <<>>]>>
      whole(w) == IF w.op = "write" /\ w.ins[1] \in ToSet(results)
                  THEN [w EXCEPT !.ins = <<effective[((Position(results, w.ins[1]) - 1) % n) + 1]>>] ELSE w
      lowered == [i \in DOMAIN ops |-> IF i \in combine THEN LowerCombineIfToMemref(ops[i], effective) ELSE whole(ops[i])]
  IN  [p EXCEPT
         !.compute = (IF isRead THEN [r \in 1..n |-> Alloc(shape, effective[r])] ELSE <<>>)
                       \o Emptied(Front1(lowered, k), ToSet(o.outs)) \o rewritten
                       \o Renamed(Behind(lowered, k), Zipped(results, views \o views)),
         !.slots = WidenedSlots(p, results, shape)]

LoopExposed(ops) == {k \in DOMAIN ops : ops[k].op = "for" /\ ops[k].ins # <<>>}
InnerDim(ops) ==
  SelectSeq([k \in DOMAIN ops |-> IF k \in Generics(ops) /\ ReductionDims(ops[k].iters) # <<>> THEN ops[k].defs[1] ELSE ""],
            LAMBDA v : v # "")
MappingFails(ops) ==
  \/ \E k \in LoopExposed(ops) : ~HasNeutral(Last(InnerGeneric(ops[k]).bodies))
  \/ \E v \in ToSet(InnerDim(ops)) :
       LET o == Definer(ops, v) IN Definer(ops, o.ins[1]).op = "read" /\ Len(o.ins) # Len(o.outs)
MapReductionPartials ==
  /\ phase = "map"
  /\ IF MappingFails(program.compute) THEN phase' = "failed" /\ UNCHANGED program
     ELSE /\ phase' = "done"
          /\ LET exposed == IF LoopExposed(program.compute) = {} THEN program
                            ELSE [program EXCEPT !.compute = RewriteGeneric(@, CHOOSE k \in LoopExposed(@) : TRUE)]
             IN  program' = ForEach(RewriteInnerDimGeneric, exposed, InnerDim(program.compute))
  /\ UNCHANGED input

-----------------------------------------------------------------------------
Init == input \in Inputs /\ phase = "chunk" /\ program = Given(input)
Ended == phase \in {"done", "failed"} /\ UNCHANGED <<input, phase, program>>
Next ==
  \/ ReductionDimChunking \/ SplitReductionInnerOuterDim
  \/ ReductionLoopExposure \/ MapReductionPartials \/ Ended

-----------------------------------------------------------------------------
(* An element is the bag of the input elements accumulated in it, each with  *)
(* how often it was transformed.  What a tensor.empty holds counts for       *)
(* nothing in a reduction; what an allocated buffer holds does not.          *)
Term(index, times) == <<index, times>>
Neutrals == [k \in {"0", "-inf"} |-> IF k = "0" THEN Term(<<>>, 0) ELSE Term(<<>>, 1)]
Garbage == Term(<<>>, 2)
Bag(term) == term :> 1
Transformed(of, bag) ==
  LET once(t) == IF t[1] = <<>> THEN t ELSE IF of = "abs" THEN Term(t[1], 1) ELSE Term(t[1], t[2] + 1)
  IN  IF of = "id" THEN bag ELSE BagOfAll(once, bag)
Accumulated(b, bag, running) ==
  LET own == Neutrals[GetNeutralAttr(<<b>>)]
      some(x) == [t \in DOMAIN x \ {own} |-> IF b.op \in {"max", "maxnum"} THEN 1 ELSE x[t]]
      contribution == Transformed(IF b.op = "fma" THEN "square" ELSE b.of, bag)
      carried == Transformed(b.running, running)
  IN  some(some(contribution) (+) some(carried))

Coordinates(shape) ==
  [i \in 1..Product(shape) |->
     [d \in DOMAIN shape |-> ((i - 1) \div Product(SubSeq(shape, d + 1, Len(shape)))) % shape[d]]]
Offset(shape, c) == FoldLeft(LAMBDA at, d : at * shape[d] + c[d], 0, Indices(shape)) + 1
Uniform(shape, element) == [shape |-> shape, data |-> [k \in 1..Product(shape) |-> element]]

(* The part of a buffer that a view is of, or that a transfer moves.         *)
Slice(shape, base, sizes) ==
  LET at == Coordinates(sizes)
  IN  [k \in DOMAIN at |-> Offset(shape, [d \in DOMAIN shape |-> base[d] + at[k][d]])]
Based(e, base) == [d \in DOMAIN base |-> FoldLeft(LAMBDA at, b : at + e.ivs[b[1]] * b[2], 0, SetToSeq(base[d]))]
Bound(e, v, value) == [e EXCEPT !.values = (v :> value) @@ @]
Get(e, v) ==
  IF v \notin DOMAIN e.views THEN e.values[v]
  ELSE LET w == e.views[v] IN [shape |-> w.shape, data |-> [k \in DOMAIN w.at |-> e.values[w.of].data[w.at[k]]]]
Put(e, v, k, element) ==
  IF v \notin DOMAIN e.views THEN [e EXCEPT !.values[v].data[k] = element]
  ELSE [e EXCEPT !.values[e.views[v].of].data[e.views[v].at[k]] = element]
Assigned(e, names, values) == ForEach(LAMBDA x, k : Bound(x, names[k], values[k]), e, Indices(names))
Sent(e, slot, data) == [e EXCEPT !.fifos[slot] = Append(@, data), !.fits = @ /\ Len(data) = e.slots[slot]]
(* A packet of another size, or none, does not fit what is read.             *)
Packet(e, slot, n) ==
  [k \in 1..n |-> IF e.fifos[slot] # <<>> /\ k <= Len(Head(e.fifos[slot])) THEN Head(e.fifos[slot])[k] ELSE Bag(Garbage)]
Received(e, slot, n) ==
  IF e.fifos[slot] = <<>> THEN [e EXCEPT !.fits = FALSE]
  ELSE [e EXCEPT !.fifos[slot] = Tail(@), !.fits = @ /\ Len(Head(e.fifos[slot])) = n]

Ranges(e, o) ==
  [d \in DOMAIN o.iters |->
     IF d \in ToSet(o.inMap) THEN Get(e, o.ins[1]).shape[Position(o.inMap, d)]
     ELSE Get(e, o.outs[1]).shape[Position(o.outMap, d)]]
RunGeneric(e, o) ==
  LET n == Len(o.bodies)
      dests == IF o.defs = <<>> THEN o.outs ELSE o.defs
      start == IF o.defs = <<>> THEN e ELSE Assigned(e, o.defs, [r \in 1..n |-> Get(e, o.outs[r])])
      At(v, map, point) == Offset(v.shape, [j \in DOMAIN map |-> point[map[j]]])
      Body(x, point, r) ==
        LET source == Get(x, o.ins[IF Len(o.ins) = n THEN r ELSE 1])
            dest == Get(x, dests[r])
            at == At(dest, o.outMap, point)
        IN  Put(x, dests[r], at,
                Accumulated(o.bodies[r], source.data[At(source, o.inMap, point)], dest.data[at]))
      Point(x, point) == ForEach(LAMBDA y, r : Body(y, point, r), x, [r \in 1..n |-> r])
  IN  ForEach(Point, start, Coordinates(Ranges(e, o)))

RECURSIVE RunBody(_, _)
RunOp(e, o) ==
  LET size == Product(o.shape)
      values(names) == [k \in DOMAIN names |-> Get(e, names[k])]
      Turn(x, k) ==
        LET end == RunBody([x EXCEPT !.ivs = (o.iv :> k) @@ @], o.body)
        IN  Assigned(end, o.args, [j \in DOMAIN o.yields |-> Get(end, o.yields[j])])
      Branch(body, yields) ==
        LET end == RunBody(e, body) IN Assigned(end, o.defs, [j \in DOMAIN yields |-> Get(end, yields[j])])
      at == Slice(e.values[o.memref].shape, Based(e, o.base), o.shape)
  IN  CASE o.op = "for" ->
             LET end == ForEach(Turn, Assigned(e, o.args, values(o.ins)), [k \in 1..o.n |-> k - 1])
             IN  Assigned(end, o.defs, [j \in DOMAIN o.args |-> Get(end, o.args[j])])
        [] o.op = "if" -> IF \A t \in o.test : e.ivs[t[1]] = t[2] THEN Branch(o.body, o.yields) ELSE Branch(o.else, o.elseYields)
        [] o.op = "load" -> Sent(e, o.slot, [k \in DOMAIN at |-> e.values[o.memref].data[at[k]]])
        [] o.op = "store" ->
             LET packet == Packet(e, o.slot, size)
                 stored(x, k) == [x EXCEPT !.values[o.memref].data[at[k]] = packet[k]]
             IN  ForEach(stored, Received(e, o.slot, size), Indices(at))
        [] o.op = "read" ->
             Bound(Received(e, o.slot, size), o.defs[1], [shape |-> o.shape, data |-> Packet(e, o.slot, size)])
        [] o.op = "write" -> Sent(e, o.slot, Get(e, o.ins[1]).data)
        [] o.op = "empty" -> Bound(e, o.defs[1], Uniform(o.shape, EmptyBag))
        [] o.op = "alloc" -> Bound(e, o.defs[1], Uniform(o.shape, Bag(Garbage)))
        [] o.op = "fill" -> Bound(e, o.outs[1], Uniform(e.values[o.outs[1]].shape, Bag(Neutrals[o.slot])))
        [] o.op = "copy" -> Bound(e, o.outs[1], Get(e, o.ins[1]))
        [] o.op = "view" ->
             LET of == e.values[o.ins[1]].shape
             IN  [e EXCEPT !.views = (o.defs[1] :> [of |-> o.ins[1], shape |-> o.shape,
                                                    at |-> Slice(of, [d \in DOMAIN of |-> 0], o.base)]) @@ @]
        [] o.op = "generic" -> RunGeneric(e, o)
RunBody(e, ops) == ForEach(RunOp, e, ops)

Batches(g) == IF g.batch = 0 THEN 1 ELSE g.batch
InputData(g) ==
  LET shape == <<Batches(g)>> \o g.shape
  IN  [shape |-> shape, data |-> [k \in 1..Product(shape) |-> Bag(Term(Coordinates(shape)[k], 0))]]
Outputs(g) == {Numbered("output", r) : r \in DOMAIN g.bodies}
Start(g) ==
  [ivs |-> <<>>, views |-> <<>>, fits |-> TRUE, slots |-> program.slots, fifos |-> [s \in DOMAIN program.slots |-> <<>>],
   values |-> [v \in {"input"} \cup Outputs(g) |->
                 IF v = "input" THEN InputData(g) ELSE Uniform(<<Batches(g)>> \o OutShape(g), Bag(Garbage))]]
Executed(g) ==
  LET loops == <<<<"batch", Batches(g)>>>> \o program.loops
      turns == Coordinates([k \in DOMAIN loops |-> loops[k][2]])
      Turn(e, turn) ==
        RunBody([e EXCEPT !.ivs = [iv \in {loops[k][1] : k \in DOMAIN loops} |->
                                     turn[CHOOSE k \in DOMAIN loops : loops[k][1] = iv]]],
                program.load \o program.compute \o program.store)
  IN  ForEach(Turn, Start(g), turns)

(* Every result is the reduction of the input elements that its coordinates  *)
(* select, one after the other.  A result on the stick is in its first lane. *)
Reduced(g, r, c) ==
  LET all == Coordinates(<<Batches(g)>> \o g.shape)
      selected == SelectSeq(all, LAMBDA p : p[1] = c[1] /\ \A k \in DOMAIN g.outMap :
                                    g.outMap[k] <= Len(g.shape) => p[g.outMap[k] + 1] = c[k + 1])
  IN  FoldLeft(LAMBDA running, p : Accumulated(g.bodies[r], Bag(Term(p, 0)), running), EmptyBag, selected)
FirstLane(g, c) == \A k \in DOMAIN g.outMap : g.outMap[k] > Len(g.shape) => c[k + 1] = 0
SameResults ==
  phase = "done" =>
    \A e \in {Executed(input)} : \A r \in DOMAIN input.bodies :
      LET output == e.values[Numbered("output", r)]
          at == Coordinates(output.shape)
      IN  \A k \in DOMAIN at : FirstLane(input, at[k]) => output.data[k] = Reduced(input, r, at[k])

(* What is read from a FIFO is a whole packet that was written to it, and    *)
(* nothing stays in it, after every pass.                                    *)
PacketsFit ==
  \A e \in {Executed(input)} : e.fits /\ \A s \in DOMAIN e.fifos : e.fifos[s] = <<>>
=============================================================================
