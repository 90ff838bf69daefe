----------------------------- MODULE MCDataflow -----------------------------
(* The device of the tests and schedules after those of the tests for signal *)
(* insertion: MNILU loads tiles from global memory into L1, L1LU, SFU and    *)
(* L1SU compute on them over FIFOs, MNISU stores the results.                *)
EXTENDS UnitPrograms, DataflowRuntime

NoKinds == [t \in {"MNILU", "L1LU", "SFU", "L1SU", "MNISU"} |-> {}]
MCReadKinds ==
  [NoKinds EXCEPT !["MNILU"] = {"HBM"}, !["L1LU"] = {"L1"}, !["MNISU"] = {"L1"},
                  !["SFU"] = {"SFU_REG"}]
MCWriteKinds ==
  [NoKinds EXCEPT !["MNILU"] = {"L1"}, !["L1SU"] = {"L1"}, !["MNISU"] = {"HBM"},
                  !["SFU"] = {"SFU_REG"}]

For(p, n) == [kind |-> "for", parent |-> p, lb |-> 0, ub |-> n, step |-> 1]
Parallel(p, n, k) == [kind |-> "parallel", parent |-> p, ub |-> n, inst |-> k]
Pipeline(p, memrefs) == [kind |-> "pipeline", parent |-> p, private |-> memrefs]
Stage(p, units, din, dout, xfers) ==
  [kind |-> "stage", parent |-> p, units |-> units, din |-> din, dout |-> dout,
   xfers |-> xfers]

Mem(m, by) == [at |-> <<m>>, by |-> by, fifo |-> FALSE]
Slot(from, to, k) == [at |-> <<from, to, k>>, by |-> {}, fifo |-> TRUE]
Move(src, dst) == [src |-> src, dst |-> dst, guards |-> {}]
MoveUnlessFirst(src, dst, loops) == [src |-> src, dst |-> dst, guards |-> loops]

ToSfu(k) == Slot("L1LU", "SFU", k)
ToStore == Slot("SFU", "L1SU", "r")
(* The three stages of a compute pipeline p; the registers of the SFU belong *)
(* to its corelet, one for each iteration of the loops in "by".              *)
Load(p, xfers) == Stage(p, {"L1LU"}, {}, {"t1"}, xfers)
Compute(p, loads, by) ==
  LET reg == Mem("reg", by)
      take(x) == [src |-> x.dst, dst |-> reg, guards |-> x.guards]
  IN  Stage(p, {"SFU"}, {"t1"}, {"t2"},
            [i \in DOMAIN loads |-> take(loads[i])] \o <<Move(reg, ToStore)>>)
Store(p, xfers) == Stage(p, {"L1SU"}, {"t2"}, {}, xfers)

(* Loops around an outer pipeline with double-buffered X and Y: load a tile, *)
(* compute on it in a nested pipeline, store the result.                     *)
Elementwise(trips) ==
  LET p == Len(trips) + 1
      tile(m) == Mem(m, DOMAIN trips)
  IN  [l \in DOMAIN trips |-> For(l - 1, trips[l])] \o <<
        Pipeline(p - 1, {<<"X">>, <<"Y">>}),
        Stage(p, {"MNILU"}, {}, {"o1"}, <<Move(tile("A"), Mem("X", {}))>>),
        Stage(p, {"L1LU", "SFU", "L1SU"}, {"o1"}, {"o2"}, <<>>),
        Pipeline(p + 2, {}),
        Load(p + 3, <<Move(Mem("X", {}), ToSfu("x"))>>),
        Compute(p + 3, <<Move(Mem("X", {}), ToSfu("x"))>>, {}),
        Store(p + 3, <<Move(ToStore, Mem("Y", {}))>>),
        Stage(p, {"MNISU"}, {"o2"}, {}, <<Move(Mem("Y", {}), tile("C"))>>) >>

(* Two instances of ktdf.parallel on the two corelets, each with an          *)
(* accumulator at a constant address that all but the first of n iterations  *)
(* load back (backedge-signal-const-addr.mlir).                              *)
Reduction(n) == <<
  Pipeline(0, {<<"T">>, <<"ACC">>}),
  Stage(1, {"MNILU"}, {}, {"o1"}, <<Move(Mem("A", {4}), Mem("T", {4}))>>),
  Stage(1, {"L1LU", "SFU", "L1SU"}, {"o1"}, {"o2"}, <<>>),
  Parallel(3, 2, 2),
  For(4, n),
  Pipeline(5, {}),
  Load(6, <<MoveUnlessFirst(Mem("ACC", {4}), ToSfu("acc"), {5}),
            Move(Mem("T", {4}), ToSfu("x"))>>),
  Compute(6, <<MoveUnlessFirst(Mem("ACC", {4}), ToSfu("acc"), {5}),
               Move(Mem("T", {4}), ToSfu("x"))>>, {4}),
  Store(6, <<Move(ToStore, Mem("ACC", {4}))>>),
  Stage(1, {"MNISU"}, {"o2"}, {}, <<Move(Mem("ACC", {4}), Mem("C", {4}))>>) >>

(* Three loops around a pipeline that updates a memory indexed by the outer  *)
(* and the inner one (backedge-signal-multi-loop.mlir, its parallel loop     *)
(* left out): the loop between the two comes back to the same elements.      *)
MultiLoop(outer, middle, inner) == <<
  For(0, outer),
  For(1, middle),
  For(2, inner),
  Pipeline(3, {}),
  Load(4, <<Move(Mem("S", {1, 3}), ToSfu("s"))>>),
  Compute(4, <<Move(Mem("S", {1, 3}), ToSfu("s"))>>, {}),
  Store(4, <<Move(ToStore, Mem("S", {1, 3}))>>) >>

(* A pipeline beside the inner one of two loops, as hoisting an invariant    *)
(* transfer leaves it: the scope of the double buffers is the inner loop.    *)
BesideLoop(outer, inner) ==
  Elementwise(<<outer, inner>>) \o <<
    Pipeline(1, {}),
    Stage(11, {"MNILU"}, {}, {}, <<Move(Mem("B", {1}), Mem("R", {}))>>) >>

(* TLC evaluates a definition without parameters once, but one given to a    *)
(* constant at every use, and its statistics expand the latter unless it is  *)
(* a LET: hence two of each.                                                 *)
Buffers == "rows" :> Compile(Elementwise(<<3>>))
           @@ "tiles" :> Compile(Elementwise(<<2, 2>>))
Reductions == "reduction" :> Compile(Reduction(2))
MCReductions == LET m == Reductions IN m
AllSchedules == Buffers @@ Reductions @@ "multi_loop" :> Compile(MultiLoop(2, 2, 2))
MCSchedules == LET m == AllSchedules IN m
LongBackEdgeLoops == "multi_loop" :> Compile(MultiLoop(2, 3, 2))
MCLongBackEdgeLoops == LET m == LongBackEdgeLoops IN m
Restarting == "beside_loop" :> Compile(BesideLoop(2, 3))
MCRestarting == LET m == Restarting IN m

(* Schedules of the same shapes with other numbers of iterations, too large  *)
(* to explore.  The memory of MultiLoop is back at an element after one      *)
(* round of the inner loop, where the guards of its back edge need the       *)
(* middle loop to have two iterations at most, and the inner one more than   *)
(* one.                                                                      *)
CONSTANT Families   \* for each name, a function from trip counts to schedules

MCFamilies ==
  LET families ==
        "rows" :> [t \in 1..6 |-> Compile(Elementwise(<<t>>))]
        @@ "tiles" :> [t \in ((1..3) \X (1..3)) \cup {<<2, 2, 2>>} |->
                        Compile(Elementwise(t))]
        @@ "reduction" :> [t \in 1..4 |-> Compile(Reduction(t))]
        @@ "multi_loop" :> [t \in ((1..3) \X {1} \X (1..3)) \cup ((1..3) \X {2} \X (2..3)) |->
                             Compile(MultiLoop(t[1], t[2], t[3]))]
  IN  families
NoFamilies == <<>>

(* The schedules launched order themselves, and so do all of their families. *)
ShapesOrdered ==
  /\ SchedulesOrdered
  /\ (\A u \in Machine.units : pc[u] = 1 /\ ~busy[u]) =>
       \A t \in DOMAIN Families[schedule] : \E m \in {Families[schedule][t]} : Certified(m)
=============================================================================
