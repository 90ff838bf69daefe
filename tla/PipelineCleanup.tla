-------------------------- MODULE PipelineCleanup --------------------------
(* FoldFifoRelayStages and SimplifyPipeline: the transfers that relay data   *)
(* through a FIFO from memory to memory become one transfer, the stages of a *)
(* pipeline move in front of the stages that await them, and its tokens are  *)
(* made one per awaited stage.  The steps are those of the passes: a fold, a *)
(* component of the stage graph that is put in place, a rewriting of tokens. *)
(*                                                                           *)
(* A stage has operations that read and write values: memrefs, and slots of  *)
(* FIFOs.  The order of tokens and of operands is left out.                  *)
EXTENDS Integers, Sequences, FiniteSets, Steps

CONSTANT Inputs       \* pipelines, and whether relays are folded

VARIABLES input, phase, program

(* Values.  A memref is in a memory, a slot goes from a resource to another. *)
Memref(name, memory) == [name |-> name, memory |-> memory, from |-> "", to |-> ""]
Slot(name, from, to) == [name |-> name, memory |-> "", from |-> from, to |-> to]
IsMemref(v) == v.memory # ""

(* Operations: transfers, and others, which compute.                         *)
Transfer(from, to, mode, throttle, size) ==
  [moves |-> TRUE, reads |-> {from}, writes |-> {to}, mode |-> mode,
   throttle |-> throttle, size |-> size]
Compute(reads, writes) ==
  [moves |-> FALSE, reads |-> reads, writes |-> writes, mode |-> "copy",
   throttle |-> 0, size |-> 1]
Source(op) == CHOOSE v \in op.reads : TRUE
Dest(op) == CHOOSE v \in op.writes : TRUE
Copies(from, to) == Transfer(from, to, "copy", 0, 1)

Stage(id, ins, outs, ops) == [id |-> id, ins |-> ins, outs |-> outs, units |-> {}, ops |-> ops]

Stages(p) == DOMAIN p.stages
Uses(p, v) ==
  {<<s, k>> \in Stages(p) \X (1..8) :
     /\ k \in DOMAIN p.stages[s].ops
     /\ v \in p.stages[s].ops[k].reads \cup p.stages[s].ops[k].writes}
Removed(list, k) == SubSeq(list, 1, k - 1) \o SubSeq(list, k + 1, Len(list))

-----------------------------------------------------------------------------
(* The stage graph: who awaits whom.                                         *)

Edges(p) ==
  {<<a, b>> \in Stages(p) \X Stages(p) : p.stages[a].outs \cap p.stages[b].ins # {}}
Closure(edges) ==
  LET Longer(r, n) == r \cup {<<x[1][1], x[2][2]>> : x \in {y \in r \X r : y[1][2] = y[2][1]}}
  IN  ForEach(Longer, edges, <<1, 2, 3>>)
Producers(p, s) == {a \in Stages(p) : <<a, s>> \in Edges(p)}
Consumers(p, s) == {b \in Stages(p) : <<s, b>> \in Edges(p)}

-----------------------------------------------------------------------------
(* FoldFifoRelayStages.                                                      *)

OnlyTransfers(stage) == stage.ops # <<>> /\ \A k \in DOMAIN stage.ops : stage.ops[k].moves

(* Where an end of a transfer is.                                            *)
PlaceOf(v, reads) ==
  [resource |-> IF IsMemref(v) THEN v.memory ELSE IF reads THEN v.to ELSE v.from,
   memory |-> IsMemref(v)]
EndsOf(op) == [source |-> PlaceOf(Source(op), TRUE), dest |-> PlaceOf(Dest(op), FALSE)]

(* The ends that all transfers share: a memory wins over a FIFO.             *)
FindAnchors(ends) ==
  LET shared(side) == Cardinality({e[side] : e \in ends}) = 1
      wins(e, side, other) == shared(side) /\ (~shared(other) \/ e[side].memory \/ ~e[other].memory)
  IN  {<<e.source.resource, "source">> : e \in {d \in ends : wins(d, "source", "dest")}} \cup
      {<<e.dest.resource, "dest">> : e \in {d \in ends : wins(d, "dest", "source")}}
AnchorsOf(stage) ==
  IF OnlyTransfers(stage) THEN FindAnchors({EndsOf(stage.ops[k]) : k \in DOMAIN stage.ops}) ELSE {}

(* A relay: a transfer of memory into a slot whose only other use is a       *)
(* transfer of another stage, out of the slot into memory.                   *)
Relays(p) ==
  {r \in [producer : Stages(p), in : 1..4, consumer : Stages(p), out : 1..4] :
     /\ r.producer # r.consumer
     /\ OnlyTransfers(p.stages[r.producer]) /\ OnlyTransfers(p.stages[r.consumer])
     /\ r.in \in DOMAIN p.stages[r.producer].ops /\ r.out \in DOMAIN p.stages[r.consumer].ops
     /\ LET in == p.stages[r.producer].ops[r.in]  out == p.stages[r.consumer].ops[r.out]
        IN  /\ IsMemref(Source(in)) /\ ~IsMemref(Dest(in)) /\ IsMemref(Dest(out))
            /\ Source(out) = Dest(in)
            /\ Uses(p, Dest(in)) = {<<r.producer, r.in>>, <<r.consumer, r.out>>}}
In(p, r) == p.stages[r.producer].ops[r.in]
Out(p, r) == p.stages[r.consumer].ops[r.out]

CheckRelay(in, out) ==
  /\ Source(in).memory # Dest(out).memory
  /\ in.size = out.size
  /\ in.mode = "copy" \/ out.mode = "copy"
  /\ in.throttle = 0 \/ out.throttle = 0 \/ in.throttle = out.throttle
Folded(in, out) ==
  Transfer(Source(in), Dest(out), IF in.mode = "copy" THEN out.mode ELSE in.mode,
           IF in.throttle = 0 THEN out.throttle ELSE in.throttle, in.size)

(* The stage that gets the transfer, and the one that loses its half.        *)
Target(r, into) == IF into THEN r.producer ELSE r.consumer
Donor(r, into) == IF into THEN r.consumer ELSE r.producer
TargetOps(p, r, into) ==
  [p.stages[Target(r, into)].ops EXCEPT ![IF into THEN r.in ELSE r.out] = Folded(In(p, r), Out(p, r))]
DonorOpsAtTarget(p, r, into) == Removed(p.stages[Donor(r, into)].ops, IF into THEN r.in ELSE r.out)
DonorOps(p, r, into) == Removed(p.stages[Donor(r, into)].ops, IF into THEN r.out ELSE r.in)

TokensAllow(p, r, into) ==
  IF into THEN Consumers(p, r.consumer) = {} \/ r.producer \in Producers(p, r.consumer)
          ELSE Consumers(p, r.producer) \subseteq {r.consumer}
FormsNoCycle(p, target, donor) == FALSE
FormsCycle(p, target, donor) ==
  \E awaited \in Producers(p, donor) \ {target} : <<target, awaited>> \in Closure(Edges(p))
AnchorsAllow(p, target, donor, kept, left) ==
  LET others == UNION {AnchorsOf(p.stages[s]) : s \in Stages(p) \ {target, donor}}
      after(ops) == AnchorsOf([ops |-> ops])
      gainsTaken(s, mine, peer) == (mine \ AnchorsOf(p.stages[s])) \cap (others \cup peer) # {}
  IN  /\ after(kept) # {}
      /\ left # <<>> => after(left) # {}
      /\ ~gainsTaken(target, after(kept), after(left)) /\ ~gainsTaken(donor, after(left), after(kept))
UnitsMeet(a, b) == a = {} \/ b = {} \/ a \cap b # {}
MergeUnits(a, b) == IF a = {} THEN b ELSE IF b = {} THEN a ELSE a \cap b

CanFold(p, r, into) ==
  LET target == Target(r, into)  donor == Donor(r, into)
  IN  /\ TokensAllow(p, r, into)
      /\ ~FormsCycle(p, target, donor)
      /\ AnchorsAllow(p, target, donor, TargetOps(p, r, into), DonorOps(p, r, into))
      /\ UnitsMeet(p.stages[target].units, p.stages[donor].units)

(* The target awaits what the donor awaits; a donor that is left empty goes, *)
(* and the stages that awaited it await what it awaited.                     *)
DonorIns(target, donor) == donor.ins \ target.outs
FoldRelay(p, r, into) ==
  LET t == Target(r, into)  d == Donor(r, into)
      target == p.stages[t]  donor == p.stages[d]
      left == DonorOps(p, r, into)
      awaits(s) == left = <<>> /\ donor.outs \cap s.ins # {}
      merged == [target EXCEPT !.ins = @ \cup DonorIns(target, donor), !.ops = TargetOps(p, r, into),
                               !.units = MergeUnits(@, donor.units)]
      stages == [s \in Stages(p) |->
                   With(LAMBDA x : [x EXCEPT !.ins = @ \cup (IF awaits(x) THEN donor.ins ELSE {})],
                        IF s = t THEN merged ELSE IF s = d THEN [donor EXCEPT !.ops = left] ELSE p.stages[s])]
  IN  [p EXCEPT !.stages = IF left = <<>> THEN Removed(stages, d) ELSE stages]

(* Which stage is tried first.                                               *)
ConsumerFirst(p, r) == Len(p.stages[r.producer].ops) = 1 /\ Len(p.stages[r.consumer].ops) > 1
Tries(p, r) == IF ConsumerFirst(p, r) THEN <<FALSE, TRUE>> ELSE <<TRUE, FALSE>>
Foldable(p) ==
  {r \in Relays(p) : CheckRelay(In(p, r), Out(p, r)) /\ \E into \in BOOLEAN : CanFold(p, r, into)}
IsFirst(r, relays) ==
  \A q \in relays : q.producer > r.producer \/ (q.producer = r.producer /\ q.in >= r.in)

-----------------------------------------------------------------------------
(* orderStages: the components of the stage graph are put in place, those    *)
(* that are awaited last.                                                    *)

Reach(p) == {<<p.stages[e[1]].id, p.stages[e[2]].id>> : e \in Closure(Edges(p))}
ComponentOf(reach, id) == {id} \cup {e[2] : e \in {f \in reach : f[1] = id /\ <<f[2], id>> \in reach}}
Awaiting(reach, scc) == {e[2] : e \in {f \in reach : f[1] \in scc}} \ scc

MoveInFrontOfConsumers(p, scc) ==
  LET consumers == {b \in Stages(p) : /\ p.stages[b].id \notin scc
                                      /\ \E a \in Producers(p, b) : p.stages[a].id \in scc}
      earliest == CHOOSE b \in consumers : \A c \in consumers : b <= c
      late == SelectSeq(SubSeq(p.stages, earliest + 1, Len(p.stages)), LAMBDA s : s.id \in scc)
      rest == SelectSeq(SubSeq(p.stages, earliest, Len(p.stages)), LAMBDA s : s.id \notin scc)
  IN  IF consumers = {} THEN p
      ELSE [p EXCEPT !.stages = SubSeq(@, 1, earliest - 1) \o late \o rest]

-----------------------------------------------------------------------------
(* normalizeTokens, reduceDependencies: one token per awaited stage.  Tokens *)
(* that others than the stages use are kept as they are.                     *)

Local(p, tokens) == tokens \ p.foreign
LocalEdges(p) ==
  {e \in Edges(p) : Local(p, p.stages[e[1]].outs \cap p.stages[e[2]].ins) # {}}
UniqueTo(p, a) ==
  {t \in Local(p, p.stages[a].outs) : \A b \in Stages(p) \ {a} : t \notin p.stages[b].outs}
UniqueOut(p, a) ==
  IF UniqueTo(p, a) # {} THEN CHOOSE t \in UniqueTo(p, a) : TRUE ELSE "new " \o p.stages[a].id

RewriteTokens(p, kept) ==
  LET foreign(tokens) == tokens \cap p.foreign
  IN  [p EXCEPT !.stages = [s \in Stages(p) |->
         [p.stages[s] EXCEPT
            !.ins = foreign(@) \cup {UniqueOut(p, e[1]) : e \in {f \in kept : f[2] = s}},
            !.outs = foreign(@) \cup (IF \E f \in kept : f[1] = s THEN {UniqueOut(p, s)} ELSE {})]]]

(* An edge is implied when its target is reachable from another successor.   *)
Implied(edges, reach, e) ==
  LET same(a, b) == a = b \/ (<<a, b>> \in reach /\ <<b, a>> \in reach)
      beyond(m) == ~same(m, e[1]) /\ ~same(m, e[2]) /\ <<m, e[2]>> \in reach
  IN  /\ ~same(e[1], e[2])
      /\ \E f \in edges : same(f[1], e[1]) /\ beyond(f[2])
KeptEdges(p, reduce) ==
  LET edges == LocalEdges(p)
  IN  IF reduce THEN {e \in edges : ~Implied(edges, Closure(edges), e)} ELSE edges

(* Slots without uses leave their allocations.                               *)
ShrinkFifoAllocations(p) ==
  [p EXCEPT !.allocations =
     SelectSeq([a \in DOMAIN @ |-> SelectSeq(@[a], LAMBDA slot : Uses(p, slot) # {})],
               LAMBDA slots : slots # <<>>)]

-----------------------------------------------------------------------------
Init ==
  /\ input \in Inputs
  /\ program = [stages |-> input.stages, foreign |-> input.foreign,
                allocations |-> input.allocations, left |-> <<>>]
  /\ phase = IF input.pass = "fold" THEN "fold" ELSE "order"

WorkList(p) == [p EXCEPT !.left = [s \in Stages(p) |-> p.stages[s].id]]

Fold ==
  /\ phase = "fold"
  /\ \E relays \in {Foldable(program)} : \E r \in relays :
       /\ IsFirst(r, relays)
       /\ LET tries == Tries(program, r)
              into == IF CanFold(program, r, tries[1]) THEN tries[1] ELSE tries[2]
          IN  program' = FoldRelay(program, r, into)
  /\ UNCHANGED <<input, phase>>
FoldsDone ==
  /\ phase = "fold" /\ Foldable(program) = {}
  /\ phase' = IF program.stages = input.stages THEN "done" ELSE "order"
  /\ UNCHANGED <<input, program>>
StartOrdering ==
  /\ phase = "order" /\ program' = WorkList(program)
  /\ phase' = "place"
  /\ UNCHANGED input
OrderStages ==
  /\ phase = "place" /\ program.left # <<>>
  /\ \E reach \in {Reach(program)} : \E id \in {program.left[k] : k \in DOMAIN program.left} :
       \E scc \in {ComponentOf(reach, id)} :
         /\ Head(program.left) \in scc \/ \E m \in scc : <<Head(program.left), m>> \in reach
         /\ \A b \in Awaiting(reach, scc) : \A k \in DOMAIN program.left : program.left[k] # b
         /\ program' = [MoveInFrontOfConsumers(program, scc) EXCEPT
                          !.left = SelectSeq(@, LAMBDA m : m \notin scc)]
  /\ UNCHANGED <<input, phase>>
NormalizeTokens ==
  /\ phase = "place" /\ program.left = <<>>
  /\ \E kept \in {KeptEdges(program, input.pass = "reduce")} : program' = RewriteTokens(program, kept)
  /\ phase' = IF input.pass = "fold" THEN "shrink" ELSE "done"
  /\ UNCHANGED input
Shrink ==
  /\ phase = "shrink" /\ program' = ShrinkFifoAllocations(program)
  /\ phase' = "done"
  /\ UNCHANGED input
Ended == phase = "done" /\ UNCHANGED <<input, phase, program>>

Next ==
  Fold \/ FoldsDone \/ StartOrdering \/ OrderStages \/ NormalizeTokens \/ Shrink \/ Ended

-----------------------------------------------------------------------------
Done == phase = "done"

(* What flows from memref to memref, through slots of FIFOs.                 *)
FlowsOf(p) ==
  LET Operations == UNION {{p.stages[s].ops[k] : k \in DOMAIN p.stages[s].ops} : s \in Stages(p)}
      moves == UNION {op.reads \X op.writes : op \in Operations}
      Through(r, n) ==
        r \cup {<<ef[1][1], ef[2][2]>> : ef \in {x \in r \X r : x[1][2] = x[2][1] /\ ~IsMemref(x[1][2])}}
  IN  {f \in ForEach(Through, moves, <<1, 2>>) : IsMemref(f[1]) /\ IsMemref(f[2])}
FlowsKept == Done => FlowsOf(program) = FlowsOf(input)

(* Two accesses of one memory that tokens order, one of them a write, stay   *)
(* ordered: by tokens, or within a stage.                                    *)
Accesses(p, s) ==
  UNION {{<<v, "read", k>> : v \in {x \in p.stages[s].ops[k].reads : IsMemref(x)}} \cup
         {<<v, "write", k>> : v \in {x \in p.stages[s].ops[k].writes : IsMemref(x)}} :
           k \in DOMAIN p.stages[s].ops}
Conflict(a, b) == a[1].memory = b[1].memory /\ (a[2] = "write" \/ b[2] = "write")
Plain(a) == <<a[1].name, a[2]>>
OrderedAccesses(p, within) ==
  LET pairs(s, t) == {<<Plain(x[1]), Plain(x[2])>> :
                        x \in {y \in Accesses(p, s) \X Accesses(p, t) :
                                 Conflict(y[1], y[2]) /\ (s # t \/ y[1][3] < y[2][3])}}
  IN  UNION {pairs(e[1], e[2]) : e \in Closure(Edges(p)) \cup {<<s, s>> : s \in {x \in Stages(p) : within}}}
AccessesStayOrdered ==
  Done => OrderedAccesses(input, FALSE) \subseteq OrderedAccesses(program, TRUE)

(* Stages come after the stages they wait for, by tokens or for data.        *)
Waits(p) ==
  Edges(p) \cup
  {<<a, b>> \in Stages(p) \X Stages(p) :
     \E k \in DOMAIN p.stages[a].ops, j \in DOMAIN p.stages[b].ops :
       {v \in p.stages[a].ops[k].writes : ~IsMemref(v)} \cap p.stages[b].ops[j].reads # {}}
Acyclic(edges) == \A e \in Closure(edges) : e[1] # e[2]
StagesInOrder ==
  Done /\ Acyclic(Edges(input)) /\ input.stages # program.stages =>
    \A e \in Edges(program) : e[1] < e[2]

(* No stage comes to wait for itself.                                        *)
NoStall == Done /\ Acyclic(Waits(input)) => Acyclic(Waits(program))
=============================================================================
