--------------------------- MODULE SignalInsertion ---------------------------
(* The KTDFToKTDFLow pass up to the insertion of signals: the units each     *)
(* stage runs on, the stages between which one unit writes a memory another  *)
(* reads, the loop-carried back edges, and the signals for all of these.     *)
EXTENDS GlobalStageDAG

(* The memories a type of unit reads from and writes to: the incoming and    *)
(* outgoing links of its node in the device description.                     *)
CONSTANTS ReadKinds, WriteKinds

------------------------------------------------------------------------------
(* ComponentClassifier and step 5 of the pass: units of stages.  An operand  *)
(* <<t, c>> ranges over the units of type t on corelet c of every core.      *)
ParallelParents(s, n) == Ancestors(s, n) \cap OfKind(s, "parallel")

ParallelComponents(s, p) ==
  UNION {s[n].units : n \in {m \in Stages(s) :
    ParallelParents(s, m) # {} /\ Max(ParallelParents(s, m)) = p}}

(* The parallel operation that fixes how many corelets the units of type t   *)
(* of stage n have: its own, else any that has the type, else none (0).      *)
ParallelFor(s, n, t) ==
  LET having == {p \in OfKind(s, "parallel") : t \in ParallelComponents(s, p)}
  IN  IF ParallelParents(s, n) # {} THEN Max(ParallelParents(s, n))
      ELSE IF having # {} THEN CHOOSE p \in having : TRUE
      ELSE 0

StageUnits(s, n) ==
  UNION {LET p == ParallelFor(s, n, t)
         IN  {t} \X (IF p = 0 THEN {0} ELSE 0..(s[p].inst - 1)) : t \in s[n].units}

Types(operands) == {o[1] : o \in operands}

------------------------------------------------------------------------------
(* A slip: the roles of the two stages exchanged.                            *)
HasConflictSwapped(s, producer, consumer) ==
  \E a \in Types(StageUnits(s, producer)), b \in Types(StageUnits(s, consumer)) :
    ReadKinds[a] \cap WriteKinds[b] # {}

(* computeScratchpadConflicts *)
HasConflict(s, producer, consumer) ==
  \E a \in Types(StageUnits(s, producer)), b \in Types(StageUnits(s, consumer)) :
    WriteKinds[a] \cap ReadKinds[b] # {}

------------------------------------------------------------------------------
(* addScfForPipelineBackEdges *)

(* Reads of the load stage from memrefs that the store stage writes. *)
CarriedTransfers(s, load, store) ==
  {x \in TransfersIn(s, load) :
     /\ ~x.src.fifo
     /\ \E y \in TransfersIn(s, store) : ~y.dst.fifo /\ y.dst.at = x.src.at}

StoreTransfers(s, store) == {y \in TransfersIn(s, store) : ~y.dst.fifo}

(* Loops around the pipeline, of more than one iteration, whose induction    *)
(* variables reach an address or an enclosing condition of these transfers.  *)
DependentLoops(s, p, loads, stores) ==
  LET used == UNION ({x.src.by \cup x.guards : x \in loads}
                     \cup {y.dst.by \cup y.guards : y \in stores})
  IN  {l \in EnclosingLoops(s, p) \cap used : TripCount(s[l]) > 1}

BackEdges(s) ==
  LET candidates(p) ==
        LET stages == DirectStages(s, p)
            deps == AnalyzeStageDependencies(s, stages)
        IN  IF Cardinality(stages) < 2 \/ ~deps.ok THEN {}
            ELSE {n \in stages : Predecessors(deps.edges, n) = {}}
                 \X {n \in stages : Successors(deps.edges, n) = {}}
      edge(p, e) ==
        LET carried == CarriedTransfers(s, e[1], e[2])
        IN  [load |-> e[1], store |-> e[2], carried |-> carried,
             loops |-> DependentLoops(s, p, carried, StoreTransfers(s, e[2]))]
      all == UNION {{edge(p, e) : e \in candidates(p)} : p \in Pipelines(s)}
  IN  {b \in all : b.load # b.store /\ b.carried # {} /\ b.loops # {}}

------------------------------------------------------------------------------
(* insertSignals.  A signal stands at a place of stage n: after it, or at    *)
(* the begin or the end of its body, there under a guard on the iteration.   *)

(* The stage of the innermost pipeline shared with the consumer in which the *)
(* producer is nested.                                                       *)
SharedLevelAncestor(s, producer, consumer) ==
  LET shared == Ancestors(s, producer) \cap Ancestors(s, consumer) \cap Pipelines(s)
      path == ({producer} \cup Ancestors(s, producer)) \cap Stages(s)
  IN  IF shared = {} THEN producer ELSE Min({n \in path : n > Max(shared)})

SignalUnits(s, a, b) == StageUnits(s, a) \cup StageUnits(s, b)

NotFirst(l, i) == i # 0                             \* iv # lb
NotLast(l, i) == l.lb + i * l.step # l.ub - l.step  \* iv # ub - step

(* An edge of several tokens gets as many signals in a row, which keep the   *)
(* units no further apart than one.                                          *)
NormalSignals(s, edges, backEdges) ==
  {[place |-> "after", stage |-> SharedLevelAncestor(s, e[1], e[2]), edge |-> e,
    loops |-> {}] :
   e \in {f \in edges : /\ HasConflict(s, f[1], f[2])
                        /\ \A b \in backEdges : f # <<b.store, b.load>>}}

BackEdgeSignals(s, backEdges) ==
  UNION {{[place |-> "begin", stage |-> b.load, edge |-> <<b.store, b.load>>,
           loops |-> b.loops],
          [place |-> "end", stage |-> b.store, edge |-> <<b.store, b.load>>,
           loops |-> b.loops]} :
         b \in {c \in backEdges : HasConflict(s, c.store, c.load)}}

(* A slip: loop-carried dependencies forgotten. *)
InsertNormalSignals(s) == NormalSignals(s, BuildGlobalStageDAG(s).edges, {})

InsertSignals(s) ==
  NormalSignals(s, BuildGlobalStageDAG(s).edges, BackEdges(s))
    \cup BackEdgeSignals(s, BackEdges(s))

(* A slip: the guards joined by arith.andi at one of the two ends.           *)
SignalGuardMixed(s, sig, env) ==
  \/ sig.place = "after"
  \/ sig.place = "begin" /\ \A l \in sig.loops : NotFirst(s[l], env[l])
  \/ sig.place = "end" /\ \E l \in sig.loops : NotLast(s[l], env[l])

(* Whether a signal is executed in iteration env: the guards of a back edge  *)
(* are joined by arith.ori.                                                  *)
SignalGuard(s, sig, env) ==
  \/ sig.place = "after"
  \/ sig.place = "begin" /\ \E l \in sig.loops : NotFirst(s[l], env[l])
  \/ sig.place = "end" /\ \E l \in sig.loops : NotLast(s[l], env[l])
=============================================================================
