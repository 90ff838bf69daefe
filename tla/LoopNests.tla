----------------------------- MODULE LoopNests -----------------------------
(* The passes on a nest of loops, in the order of the pipeline: bounds are   *)
(* normalized, loops are tiled or strip-mined, tile sizes are chosen, a loop *)
(* is spread over the instances of a unit, indices are folded to sums, their *)
(* products become iteration arguments, and the new operations are lowered.  *)
(*                                                                           *)
(* A size is [res, n]: the constant n, or reservation number res.  A form is *)
(* [const, terms]; a term [n, lin, ivs] is n times the sum of the variables  *)
(* [iv, stride], and lin when a linearize_index computes it.                 *)
EXTENDS Integers, Sequences, FiniteSets, SequencesExt, FiniteSetsExt, Functions, Steps

CONSTANTS
  Nests,                \* [loops, grid, tilings, strips, chosen, instances, applied]
  KMaxLoopNestDepth,    \* the loops of a nest that are tiled together
  KMaxCandidateTileSize \* the largest tile size that is tried

VARIABLES
  input,    \* the nest before the passes
  phase,    \* the next pass
  program   \* [loops, forms, dims, tilings, strips, used, reserved]

vars == <<input, phase, program>>

CeilDiv(a, b) == (a + b - 1) \div b
Const(n) == [res |-> 0, n |-> n]
One == Const(1)
Reserved(k) == [res |-> k, n |-> 0]
SizeIn(s, choice) == IF s.res = 0 THEN s.n ELSE choice[s.res]

Iv(iv, stride) == [iv |-> iv, stride |-> stride]
Term(n, lin, ivs) == [n |-> n, lin |-> lin, ivs |-> ivs]
Number(n) == [const |-> n, terms |-> <<>>]
Variable(iv) == [const |-> 0, terms |-> <<Term(1, FALSE, <<Iv(iv, One)>>)>>]

At(form, size) == [form |-> form, size |-> size]

(* Upper bounds: a constant n; the trips over of by a size; the size derived *)
(* for a tile; the smaller of form + size and of; the trips by n from form   *)
(* to that; the same as one minimum; and the size of a tile by its position. *)
Bound(op, of, ats, n) == [op |-> op, of |-> of, ats |-> ats, n |-> n]
ConstBound(n) == Bound("const", <<>>, <<>>, n)
IsConst(u) == u.op = "const"

Loop(iv, kind, lb, ub, step) ==
  [iv |-> iv, kind |-> kind, lb |-> lb, ub |-> ub, step |-> step,
   perfect |-> TRUE, shared |-> 1, lowered |-> FALSE, args |-> <<>>]

IndexOf(loops, iv) == CHOOSE k \in DOMAIN loops : loops[k].iv = iv
Replaced(list, i, by) == SubSeq(list, 1, i - 1) \o by \o SubSeq(list, i + 1, Len(list))
Concat(f(_), list) == ForEach(LAMBDA all, m : all \o f(m), <<>>, list)

InBound(u, f(_), size(_)) ==
  LET RECURSIVE In(_)
      In(b) == [b EXCEPT !.of = [i \in DOMAIN @ |-> In(@[i])],
                         !.ats = [i \in DOMAIN @ |-> At(f(@[i].form), size(@[i].size))]]
  IN  In(u)

SameSize(s) == s

(* The program with every form replaced: the indices, and those in bounds.   *)
InForms(P, f(_)) == [P EXCEPT !.forms = [d \in DOMAIN @ |-> f(@[d])]]
InUses(P, f(_)) ==
  [InForms(P, f) EXCEPT !.loops = [k \in DOMAIN @ |->
     [@[k] EXCEPT !.lb = f(@), !.ub = InBound(@, f, SameSize)]]]
InTerms(f(_), g) == [g EXCEPT !.terms = [k \in DOMAIN @ |-> f(@[k])]]

------------------------------------------------------------------------------
(* Normalization: the loop runs from 0 by 1, and its variable is computed    *)
(* from the new one wherever it is used.                                     *)
IsNormalized(l) == l.lb = Number(0) /\ l.step = One

NormalizedBound(l) ==
  IF IsConst(l.ub) /\ l.lb.terms = <<>> /\ l.step.res = 0
  THEN ConstBound(CeilDiv(l.ub.n - l.lb.const, l.step.n))
  ELSE IF IsConst(l.ub) THEN Bound("trips", <<l.ub>>, <<At(l.lb, l.step)>>, 0)
  ELSE Bound("normal", <<l.ub>>, <<At(l.lb, l.step)>>, 0)

(* The variable of l is now lb + step * iv.                                  *)
Denormalize(P, l) ==
  LET from == Concat(LAMBDA t : t.ivs, l.lb.terms)
      of(v) == IF v.iv = l.iv THEN Append(from, Iv(l.iv, l.step)) ELSE <<v>>
      uses(g) == \E t \in Range(g.terms) : \E v \in Range(t.ivs) : v.iv = l.iv
  IN  InUses(P, LAMBDA g :
        [InTerms(LAMBDA t : [t EXCEPT !.ivs = Concat(of, @)], g)
           EXCEPT !.const = @ + IF uses(g) THEN l.lb.const ELSE 0])

NormalizeLoop(P, iv) ==
  LET k == IndexOf(P.loops, iv)
      l == P.loops[k]
  IN  IF IsNormalized(l) THEN P
      ELSE [Denormalize(P, l) EXCEPT
              !.loops[k] = [@ EXCEPT !.lb = Number(0), !.ub = NormalizedBound(l), !.step = One]]

NormalizeSCFLoops(P, ivs) == ForEach(NormalizeLoop, P, ivs)
IvsOf(loops) == [k \in DOMAIN loops |-> loops[k].iv]

NormalizeSCFForLoops ==
  /\ phase = "normalize"
  /\ program' = NormalizeSCFLoops(program, IvsOf(program.loops))
  /\ phase' = "tile"
  /\ UNCHANGED input

------------------------------------------------------------------------------
(* The loops that are tiled together: perfectly nested, at most so many, and *)
(* none after one that is not parallel.                                      *)
RECURSIVE PerfectEnd(_, _)
PerfectEnd(loops, k) ==
  IF k < Len(loops) /\ loops[k + 1].perfect THEN PerfectEnd(loops, k + 1) ELSE k
PerfectlyNested(loops, iv) ==
  LET k == IndexOf(loops, iv) IN IvsOf(SubSeq(loops, k, PerfectEnd(loops, k)))

RECURSIVE LoopNestsFrom(_, _)
LoopNestsFrom(loops, k) ==
  IF k > Len(loops) THEN <<>>
  ELSE LET last == Min({PerfectEnd(loops, k), k + KMaxLoopNestDepth - 1})
           ends == {j \in k..last : j = last \/ loops[j].kind # "parallel"}
           first(j) == Max({k} \cup {e + 1 : e \in {e \in ends : e < j}})
       IN  [i \in 1..Cardinality(ends) |->
              LET e == SetToSortSeq(ends, <)[i] IN IvsOf(SubSeq(loops, first(e), e))]
           \o LoopNestsFrom(loops, last + 1)

Strategy(loops, nest) ==
  IF Len(nest) > 1 THEN "tiling"
  ELSE IF nest[1] = loops[1].iv THEN "strip_mining" ELSE "none"

(* The standard tiling: every loop takes longer steps, and a loop over each  *)
(* of them runs inside, up to the smaller of the two bounds.                 *)
Times(a, b) == IF a = One THEN b ELSE IF b = One THEN a ELSE Const(a.n * b.n)

AddInnerLoop(P, iv, size, kind) ==
  LET k == IndexOf(P.loops, iv)
      l == P.loops[k]
      new == P.used + 1
      step == Times(l.step, size)
      inner == [Loop(new, kind, Variable(iv), Bound("upto", <<l.ub>>, <<At(Variable(iv), step)>>, 0), l.step)
                EXCEPT !.perfect = FALSE]
      swap(v) == IF v.iv = iv THEN Iv(new, v.stride) ELSE v
      body == InUses(P, LAMBDA g :
                InTerms(LAMBDA t : [t EXCEPT !.ivs = [j \in DOMAIN @ |-> swap(@[j])]], g))
  IN  [body EXCEPT !.loops = Append([@ EXCEPT ![k].step = step], inner), !.used = new]

(* The inner loops go behind the last loop that is tiled.                    *)
TilePerfectlyNested(P, ivs, sizes, nested) ==
  LET kind(k) == IF Len(ivs) = Len(nested) THEN P.loops[IndexOf(P.loops, ivs[k])].kind ELSE "unknown"
      tiled == ForEach(LAMBDA Q, k : AddInnerLoop(Q, ivs[k], sizes[k], kind(k)), P, Indices(ivs))
      at == IndexOf(P.loops, Last(ivs))
      order == SubSeq(tiled.loops, 1, at) \o SubSeq(tiled.loops, Len(P.loops) + 1, Len(tiled.loops))
               \o SubSeq(tiled.loops, at + 1, Len(P.loops))
  IN  [tiled EXCEPT !.loops = order]

(* The tiling of the project, for normalized loops: the loops over the tiles *)
(* and then those over their points, whose number is derived.                *)
Ancestry(l) == IF l.ub.op = "derive" THEN l.ub.ats ELSE <<>>
PointBound(l, tile, size) ==
  LET at == At(Variable(tile), size)
  IN  IF l.ub.op = "derive" THEN [l.ub EXCEPT !.ats = Append(@, at)]
      ELSE Bound("derive", <<l.ub>>, <<at>>, 0)

(* A linearize_index that uses the variable gets the new ones in its place,  *)
(* and any other use a linearize_index of its own.                           *)
Linearized(t, l, tile, size, point) ==
  LET uses == {i \in DOMAIN t.ivs : t.ivs[i].iv = l.iv}
      i == CHOOSE i \in uses : TRUE
  IN  IF uses = {} THEN t
      ELSE IF t.lin
      THEN [t EXCEPT !.ivs = Replaced(@, i, <<Iv(tile, size), Iv(point, @[i].stride)>>)]
      ELSE Term(t.n * t.ivs[i].stride.n, TRUE,
                [k \in DOMAIN Ancestry(l) |-> Iv(Ancestry(l)[k].form.terms[1].ivs[1].iv, Ancestry(l)[k].size)]
                \o <<Iv(tile, size), Iv(point, One)>>)

CustomTile(P, ivs, sizes) ==
  LET n == Len(ivs)
      a == IndexOf(P.loops, ivs[1])
      l(k) == P.loops[a + k - 1]
      tile(k) == P.used + k
      point(k) == P.used + n + k
      tiles == [k \in 1..n |->
        [l(k) EXCEPT !.iv = tile(k), !.ub = Bound("trips", <<@>>, <<At(Number(0), sizes[k])>>, 0),
                     !.perfect = k = 1 /\ @]]
      points == [k \in 1..n |->
        [l(k) EXCEPT !.iv = point(k), !.ub = PointBound(l(k), tile(k), sizes[k]), !.perfect = k # 1]]
      relabel(Q, k) == InUses(Q, LAMBDA g :
        InTerms(LAMBDA t : Linearized(t, l(k), tile(k), sizes[k], point(k)), g))
      body == ForEach(relabel, P, Indices(ivs))
  IN  [body EXCEPT
         !.loops = SubSeq(P.loops, 1, a - 1) \o tiles \o points
                   \o SubSeq(body.loops, a + n, Len(P.loops)),
         !.used = @ + 2 * n]

ApplyTiling(P, nested, sizes) ==
  LET ivs == SubSeq(nested, 1, Min({Len(sizes), Len(nested)}))
  IN  IF Len(sizes) = Len(nested) /\ \A iv \in Range(nested) : IsNormalized(P.loops[IndexOf(P.loops, iv)])
      THEN CustomTile(P, nested, sizes)
      ELSE With(LAMBDA Q : NormalizeSCFLoops(Q, nested \o [k \in DOMAIN ivs |-> P.used + k]),
                TilePerfectlyNested(P, ivs, sizes, nested))

ReserveSizes(P, n) == [k \in 1..n |-> Reserved(P.reserved + k)]

TileDynamic(P, nest) ==
  IF Strategy(P.loops, nest) # "tiling" THEN P
  ELSE [ApplyTiling(P, PerfectlyNested(P.loops, nest[1]), ReserveSizes(P, Len(nest)))
          EXCEPT !.reserved = @ + Len(nest)]

TileSCFForLoops ==
  /\ phase = "tile"
  /\ LET sizes == program.tilings[1]
         rest == [program EXCEPT !.tilings = Tail(@)]
         nested == PerfectlyNested(program.loops, program.loops[1].iv)
     IN  CASE program.tilings = <<>> -> phase' = "strip" /\ UNCHANGED program
           [] OTHER ->
                IF sizes = <<>>
                THEN /\ program' = ForEach(TileDynamic, rest, LoopNestsFrom(program.loops, 1))
                     /\ UNCHANGED phase
                ELSE IF Len(sizes) = Len(nested) /\ \A k \in DOMAIN sizes : sizes[k] > 0
                THEN /\ program' = ApplyTiling(rest, nested, [k \in DOMAIN sizes |-> Const(sizes[k])])
                     /\ UNCHANGED phase
                ELSE phase' = "rejected" /\ UNCHANGED program
  /\ UNCHANGED input

(* Of a constant size, only the inner loop is normalized; of a reserved one, *)
(* both are.                                                                 *)
StripMine(P, iv, size) ==
  LET inner == <<P.used + 1>>
  IN  With(LAMBDA Q : NormalizeSCFLoops(Q, IF size.res = 0 THEN inner ELSE <<iv>> \o inner),
           TilePerfectlyNested(P, <<iv>>, <<size>>, <<iv>>))

StripMineSCFForLoops ==
  /\ phase = "strip"
  /\ CASE program.strips = <<>> -> phase' = "select" /\ UNCHANGED program
       [] OTHER ->
            /\ LET size == program.strips[1]
                   rest == [program EXCEPT !.strips = Tail(@)]
                   nests == SelectSeq(LoopNestsFrom(program.loops, 1),
                              LAMBDA n : Strategy(program.loops, n) = "strip_mining")
               IN  program' = IF size = 0
                     THEN ForEach(LAMBDA P, n : [StripMine(P, n[1], Reserved(P.reserved + 1))
                                                   EXCEPT !.reserved = @ + 1], rest, nests)
                     ELSE ForEach(LAMBDA P, iv : StripMine(P, iv, Const(size)),
                                  rest, Reverse(IvsOf(program.loops)))
            /\ UNCHANGED phase
  /\ UNCHANGED input

------------------------------------------------------------------------------
(* The size of a reservation divides the bounds that it rounds up.           *)
SizedLoops(P, s) == SelectSeq(P.loops, LAMBDA l : l.ub.op = "trips" /\ l.ub.ats[1].size = s)
AssociatedLoops(P, s) == SelectSeq(SizedLoops(P, s), LAMBDA l : IsConst(l.ub.of[1]))

Fits(P, s, candidate) ==
  \A l \in Range(AssociatedLoops(P, s)) : l.ub.of[1].n % candidate = 0

ChooseTileSize(P, s) ==
  IF AssociatedLoops(P, s) = <<>> THEN s
  ELSE Const(Max({c \in 1..KMaxCandidateTileSize : Fits(P, s, c)}))

ReplaceSize(P, s, n) ==
  LET size(t) == IF t = s THEN n ELSE t
      form(g) == InTerms(LAMBDA t : [t EXCEPT !.ivs = [i \in DOMAIN @ |-> Iv(@[i].iv, size(@[i].stride))]], g)
      loop(l) == [l EXCEPT !.step = size(@), !.lb = form(@), !.ub = InBound(@, form, size)]
  IN  [InForms(P, form) EXCEPT !.loops = [k \in DOMAIN @ |-> loop(@[k])]]

(* Constant trips are folded afterwards.                                     *)
Fold(u) ==
  IF u.op = "trips" /\ IsConst(u.of[1]) /\ u.ats[1].size.res = 0 /\ u.ats[1].form.terms = <<>>
  THEN ConstBound(CeilDiv(u.of[1].n - u.ats[1].form.const, u.ats[1].size.n)) ELSE u

TileSizeSelection ==
  /\ phase = "select"
  /\ IF input.chosen # <<>> /\ Len(input.chosen) # program.reserved
     THEN phase' = "rejected" /\ UNCHANGED program
     ELSE /\ \E P \in {ForEach(LAMBDA Q, k : ReplaceSize(Q, Reserved(k),
                   IF input.chosen # <<>> THEN Const(input.chosen[k]) ELSE ChooseTileSize(Q, Reserved(k))),
                 program, [k \in 1..program.reserved |-> k])} :
               program' = [P EXCEPT !.loops = [k \in DOMAIN @ |-> [@[k] EXCEPT !.ub = Fold(@)]]]
          /\ phase' = "parallelize"
  /\ UNCHANGED input

(* The first parallel loop, from the outermost one, whose trips the          *)
(* instances share evenly; or that has as many; or whose trips are unknown.  *)
StaticTripCount(l) ==
  IF IsConst(l.ub) /\ l.lb.terms = <<>> /\ l.step.res = 0
  THEN CeilDiv(l.ub.n - l.lb.const, l.step.n) ELSE -1

SelectLoopOfAnyKind(loops, n) ==
  LET trips(k) == StaticTripCount(loops[k])
      balanced == {k \in DOMAIN loops : trips(k) >= n /\ trips(k) % n = 0}
  IN  IF balanced # {} THEN {Min(balanced)} ELSE {}

SelectLoop(loops, n) ==
  LET parallel == {k \in DOMAIN loops : loops[k].kind = "parallel"}
      trips(k) == StaticTripCount(loops[k])
      balanced == {k \in parallel : trips(k) >= n /\ trips(k) % n = 0}
      imbalanced == {k \in parallel : trips(k) >= n}
      dynamic == {k \in parallel : trips(k) = -1}
  IN  CASE balanced # {} -> {Min(balanced)}
        [] imbalanced # {} -> {Min(imbalanced)}
        [] dynamic # {} -> {Min(dynamic)}
        [] OTHER -> {}

(* The loops of the scope are those that were there before the last tiling.  *)
ScopeLoops == SubSeq(program.loops, 1, Len(input.loops))

ParallelizeLoopsAcrossInstances ==
  /\ phase = "parallelize"
  /\ program' = [program EXCEPT !.loops =
        [k \in DOMAIN @ |-> IF input.instances > 1 /\ k \in SelectLoop(ScopeLoops, input.instances)
                            THEN [@[k] EXCEPT !.shared = input.instances] ELSE @[k]]]
  /\ phase' = "affine_min"
  /\ UNCHANGED input

------------------------------------------------------------------------------
(* min(iv + span, of) - iv is min(of - iv, span), for the same iv.           *)
IsPlain(g) == Len(g.terms) = 1 /\ g = Variable(g.terms[1].ivs[1].iv)
CanonicalizeToAffineMin(u) ==
  IF u.op = "normal" /\ u.ats[1].size = One /\ u.of[1].op = "upto" /\ IsPlain(u.ats[1].form)
     /\ u.of[1].ats[1].form = u.ats[1].form
  THEN Bound("min", u.of[1].of, u.of[1].ats, 0) ELSE u

AffineMinCanonicalization ==
  /\ phase = "affine_min"
  /\ program' = [program EXCEPT !.loops =
                   [k \in DOMAIN @ |-> [@[k] EXCEPT !.ub = CanonicalizeToAffineMin(@)]]]
  /\ phase' = "subsume"
  /\ UNCHANGED input

(* A linearize_index with constant strides becomes a weighted sum.           *)
HasConstantStrides(t) == \A v \in Range(t.ivs) : v.stride.res = 0
BuildSubscript(t) ==
  IF HasConstantStrides(t)
  THEN [k \in DOMAIN t.ivs |-> Term(t.n * t.ivs[k].stride.n, FALSE, <<Iv(t.ivs[k].iv, One)>>)]
  ELSE <<t>>

SubsumeLinearizeIndex ==
  /\ phase = "subsume"
  /\ program' = InUses(program, LAMBDA g : [g EXCEPT !.terms = Concat(BuildSubscript, @)])
  /\ phase' = "grid"
  /\ UNCHANGED input

(* A grid becomes a row; the coordinates of a core are computed from its     *)
(* number, as <<divisor, modulus>>, and the first one takes no modulus.      *)
Product(list) == ForEach(LAMBDA p, d : p * d, 1, list)
DelinearizeRowMajor(dims) ==
  [i \in DOMAIN dims |-> <<Product(SubSeq(dims, i + 1, Len(dims))), IF i = 1 THEN 0 ELSE dims[i]>>]

NormalizeGridTo1D ==
  /\ phase = "grid"
  /\ IF \E d \in Range(input.grid) : d <= 0 THEN phase' = "rejected" /\ UNCHANGED program
     ELSE /\ program' = [program EXCEPT !.dims =
                           IF Len(input.grid) = 1 THEN @ ELSE DelinearizeRowMajor(input.grid)]
          /\ phase' = "strength"
  /\ UNCHANGED input

------------------------------------------------------------------------------
(* A sum of products of variables of enclosing loops, each at most once: the *)
(* loops pass it on, and each of them adds its step times its factor.        *)
WeightedDimSum(g) ==
  /\ g.const = 0
  /\ \A t \in Range(g.terms) : ~t.lin /\ Len(t.ivs) = 1 /\ t.ivs[1].stride = One
  /\ IsInjective([k \in DOMAIN g.terms |-> g.terms[k].ivs[1].iv])

Participating(P, g) ==
  SelectSeq(Indices(P.loops), LAMBDA k :
    P.loops[k].shared = 1 /\ \E t \in Range(g.terms) : t.ivs[1].iv = P.loops[k].iv)

ArgOf(d, k) == 100 * d + k

AddIncrementalIterArg(P, d, loops, i) ==
  LET g == P.forms[d]
      k == loops[i]
      coeff == (CHOOSE t \in Range(g.terms) : t.ivs[1].iv = P.loops[k].iv).n
      lb == Number(P.loops[k].lb.const * coeff)
      init == IF i = 1 THEN lb
              ELSE [lb EXCEPT !.terms = Variable(ArgOf(d, loops[i - 1])).terms]
      arg == [arg |-> ArgOf(d, k), init |-> init, step |-> P.loops[k].step, coeff |-> coeff]
  IN  [P EXCEPT !.loops[k].args = Append(@, arg)]

TransformCandidate(P, d) ==
  LET g == P.forms[d]
      loops == Participating(P, g)
  IN  IF ~WeightedDimSum(g) \/ g.terms = <<>> \/ Len(loops) # Len(g.terms)
         \/ (Len(loops) = 1 /\ g.terms[1].n = 1) THEN P
      ELSE [ForEach(LAMBDA Q, i : AddIncrementalIterArg(Q, d, loops, i), P, Indices(loops))
              EXCEPT !.forms[d] = Variable(ArgOf(d, Last(loops)))]

LoopIVAffineMulStrengthReduction ==
  /\ phase = "strength"
  /\ program' = IF input.applied THEN ForEach(TransformCandidate, program, Indices(program.forms))
                ELSE program
  /\ phase' = "sizes"
  /\ UNCHANGED input

------------------------------------------------------------------------------
(* A derived size of one level is that of a full tile but for the last one.  *)
Epilogue(u) == u.of[1].n % u.ats[1].size.n
TileLoop(loops, u) == loops[IndexOf(loops, u.ats[1].form.terms[1].ivs[1].iv)]
LowerGetTileSizeFull(loops, u) == ConstBound(u.ats[1].size.n)
LowerGetTileSize(loops, u) ==
  IF Epilogue(u) = 0 THEN ConstBound(u.ats[1].size.n)
  ELSE Bound("select", <<TileLoop(loops, u).ub>>, u.ats, Epilogue(u))

CannotLowerSize(loops, u) ==
  \/ Len(u.ats) # 1 \/ ~IsConst(u.of[1]) \/ u.ats[1].size.res # 0
  \/ ~IsPlain(u.ats[1].form) \/ TileLoop(loops, u).shared > 1

LowerSizes ==
  /\ phase = "sizes"
  /\ IF \E l \in Range(program.loops) : l.ub.op = "derive" /\ CannotLowerSize(program.loops, l.ub)
     THEN phase' = "rejected" /\ UNCHANGED program
     ELSE /\ program' = [program EXCEPT !.loops = [k \in DOMAIN @ |->
               IF @[k].ub.op = "derive" THEN [@[k] EXCEPT !.ub = LowerGetTileSize(program.loops, @)]
               ELSE @[k]]]
          /\ phase' = "parallel"
  /\ UNCHANGED input

(* Every instance runs its share from 0, at addresses moved to its own part; *)
(* the variable may be used in addresses only.                               *)
UsedElsewhere(iv) ==
  \E l \in Range(program.loops) :
    \/ \E g \in {l.lb} \cup {a.form : a \in Range(l.ub.ats)} :
         \E t \in Range(g.terms) : \E v \in Range(t.ivs) : v.iv = iv
    \/ \E a \in Range(l.args) : \E t \in Range(a.init.terms) : t.ivs[1].iv = iv

Coefficient(g, iv) ==
  ForEach(LAMBDA sum, t : sum + IF t.ivs[1].iv = iv THEN t.n ELSE 0, 0, g.terms)
InstanceOf(k) == 1000 + k

LowerParallelOp(P, k) ==
  LET l == P.loops[k]
      trips == l.ub.n \div l.shared
      moved(g) == [g EXCEPT !.terms = Append(@,
                     Term(Coefficient(g, l.iv) * trips, FALSE, <<Iv(InstanceOf(k), One)>>))]
  IN  [InForms(P, moved) EXCEPT !.loops[k] =
         [l EXCEPT !.lowered = TRUE, !.lb = Number(0), !.step = One, !.ub = ConstBound(trips)]]

LowerParallelOps ==
  /\ phase = "parallel"
  /\ LET shared == {k \in DOMAIN program.loops : program.loops[k].shared > 1}
     IN  IF \E k \in shared :
              LET l == program.loops[k]
              IN  ~IsConst(l.ub) \/ l.ub.n % l.shared # 0 \/ UsedElsewhere(l.iv)
                  \/ input.applied
         THEN phase' = "rejected" /\ UNCHANGED program
         ELSE /\ program' = ForEach(LowerParallelOp, program, SetToSortSeq(shared, <))
              /\ phase' = "done"
  /\ UNCHANGED input

(* The nest as it is given: a loop may start at the variable of an outer one. *)
Given(k) ==
  LET l == input.loops[k]
  IN  [Loop(k, l.kind, IF l.from = 0 THEN Number(l.lb) ELSE Variable(l.from),
            ConstBound(l.ub), Const(l.step)) EXCEPT !.perfect = l.perfect]
GivenProgram ==
  [loops |-> [k \in DOMAIN input.loops |-> Given(k)], forms |-> [k \in DOMAIN input.loops |-> Variable(k)],
   dims |-> <<>>, tilings |-> input.tilings, strips |-> input.strips,
   used |-> Len(input.loops), reserved |-> 0]

Init ==
  /\ input \in Nests
  /\ phase = "normalize"
  /\ program = GivenProgram

Ended == phase \in {"done", "rejected"} /\ UNCHANGED vars

Next ==
  \/ NormalizeSCFForLoops \/ TileSCFForLoops \/ StripMineSCFForLoops \/ TileSizeSelection
  \/ ParallelizeLoopsAcrossInstances \/ AffineMinCanonicalization \/ SubsumeLinearizeIndex
  \/ NormalizeGridTo1D \/ LoopIVAffineMulStrengthReduction \/ LowerSizes \/ LowerParallelOps
  \/ Ended

Spec == Init /\ [][Next]_vars

------------------------------------------------------------------------------
(* What a program executes, for a choice of the reserved sizes.              *)
Sum(list, f(_)) == ForEach(LAMBDA n, m : n + f(m), 0, list)
FormValue(g, env, choice) ==
  g.const + Sum(g.terms, LAMBDA t : t.n * Sum(t.ivs, LAMBDA v : env[v.iv] * SizeIn(v.stride, choice)))

BoundValue(bound, env, choice) ==
  LET RECURSIVE Value(_)
      Value(u) ==
        LET of == Value(u.of[1])
            at == FormValue(u.ats[1].form, env, choice)
            size == SizeIn(u.ats[1].size, choice)
        IN  CASE u.op = "const" -> u.n
              [] u.op = "trips" -> CeilDiv(of - at, size)
              [] u.op = "derive" ->
                   ForEach(LAMBDA rest, a : LET n == SizeIn(a.size, choice)
                                            IN  Min({n, rest - FormValue(a.form, env, choice) * n}),
                           of, u.ats)
              [] u.op = "upto" -> Min({at + size, of})
              [] u.op = "normal" -> CeilDiv(of - at, size)
              [] u.op = "min" -> Min({of - at, size})
              [] u.op = "select" -> IF at < of - 1 THEN size ELSE u.n
  IN  Value(bound)

(* The iterations in order, as the indices and the instance; the variables   *)
(* that iteration arguments hold are added to those of the loops.            *)
Counted(lb, ub, step) == [j \in 1..Max({0, CeilDiv(ub - lb, step)}) |-> lb + (j - 1) * step]

Execution(P, choice) ==
  LET RECURSIVE From(_, _)
      From(k, env) ==
        IF k > Len(P.loops)
        THEN <<[indices |-> [d \in DOMAIN P.forms |-> FormValue(P.forms[d], env, choice)],
                instance |-> [i \in {i \in DOMAIN P.loops : P.loops[i].lowered} |-> env[InstanceOf(i)]]]>>
        ELSE LET l == P.loops[k]
                 lb == FormValue(l.lb, env, choice)
                 step == SizeIn(l.step, choice)
                 args(v, e) == ForEach(LAMBDA f, a :
                   (a.arg :> FormValue(a.init, e, choice) + ((v - lb) \div step) * SizeIn(a.step, choice) * a.coeff) @@ f,
                   l.iv :> v, l.args)
                 body(e) == Concat(LAMBDA v : From(k + 1, args(v, e) @@ e),
                                   Counted(lb, BoundValue(l.ub, e, choice), step))
             IN  IF l.lowered
                 THEN Concat(LAMBDA c : body((InstanceOf(k) :> c) @@ env), Counted(0, l.shared, 1))
                 ELSE body(env)
  IN  From(1, <<>>)

Sizings == [1..program.reserved -> 1..3]
(* The coordinates of a core of the row, and those of the cores of the grid. *)
Coordinates(core) ==
  [i \in DOMAIN program.dims |->
     LET d == program.dims[i]
     IN  IF d[2] = 0 THEN core \div d[1] ELSE (core \div d[1]) % d[2]]
GridCores == {c \in [DOMAIN input.grid -> 0..Max(Range(input.grid))] :
                \A i \in DOMAIN input.grid : c[i] < input.grid[i]}

(* Every iteration of the nest is executed, and once: however it is tiled,   *)
(* strip-mined, shared by the instances, and whatever sizes are reserved, the *)
(* bounds and the indices computed from the new variables range over the     *)
(* iterations of the original loops; and the cores of the row over the grid. *)
IterationsKept ==
  phase # "rejected" =>
    /\ \A choice \in Sizings :
         \E run \in {Execution(program, choice)}, original \in {Execution(GivenProgram, choice)} :
           /\ {e.indices : e \in Range(run)} = {e.indices : e \in Range(original)}
           /\ Len(run) = Len(original)
    /\ program.dims # <<>> =>
         {Coordinates(c) : c \in 0..(Product(input.grid) - 1)} = GridCores

(* A loop that is not parallel keeps its order: iterations that differ in    *)
(* its variable alone run on one instance, in ascending order.               *)
OrderKept ==
  phase # "rejected" =>
    \A choice \in Sizings : \E run \in {Execution(program, choice)} :
      \A i, j \in DOMAIN run : \A d \in DOMAIN input.loops :
        LET x == run[i].indices
            y == run[j].indices
        IN  /\ input.loops[d].kind # "parallel" /\ x[d] < y[d]
            /\ \A other \in DOMAIN x \ {d} : x[other] = y[other]
            => i < j /\ run[i].instance = run[j].instance

=============================================================================
