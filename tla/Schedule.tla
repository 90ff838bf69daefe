------------------------------ MODULE Schedule ------------------------------
(* The Schedule IR (KTDF) a function body holds after optimization, as the   *)
(* backend reads it: pipelines of stages under scf.for and ktdf.parallel     *)
(* loops.  A schedule s is a sequence of nodes in textual order, so that a   *)
(* node's number is its place in a pre-order walk and its parent (0: the     *)
(* function) has a smaller number.  The dialects themselves are external.    *)
(*                                                                           *)
(*   for       [kind, parent, lb, ub, step]                                  *)
(*   parallel  [kind, parent, ub, inst]        inst = distribute instances   *)
(*   pipeline  [kind, parent, private]         private = its own memrefs     *)
(*   stage     [kind, parent, units, din, dout, xfers]                       *)
(*                                                                           *)
(* xfers is the sequence of transfers of a stage.  A transfer [src, dst,     *)
(* guards] moves data between two ends [at, by, fifo]: at = <<memref>>, or   *)
(* the FIFO slot <<from, to, slot>> when fifo holds; by = the loops whose    *)
(* induction variables index the memref.  guards = the loops read by the     *)
(* condition the transfer is nested in, which skips it in the first          *)
(* iteration of all of them (the initial value of an accumulator is not      *)
(* loaded).  Loops inside a stage are part of its transfers.                 *)
EXTENDS Integers, Sequences, FiniteSets, SequencesExt, FiniteSetsExt

Nodes(s) == 1..Len(s)
OfKind(s, k) == {n \in Nodes(s) : s[n].kind = k}
Stages(s) == OfKind(s, "stage")
Pipelines(s) == OfKind(s, "pipeline")

(* The members of a set of numbers up to n, in increasing order. *)
Ordered(S, n) ==
  LET upTo[k \in 0..n] ==
        IF k = 0 THEN <<>>
        ELSE IF k \in S THEN Append(upTo[k - 1], k) ELSE upTo[k - 1]
  IN  upTo[n]

Children(s, n) == {m \in Nodes(s) : s[m].parent = n}

(* Ancestors(s, n): the operations n is nested in, n excluded. *)
Ancestors(s, n) ==
  LET up[m \in 0..Len(s)] == IF m = 0 THEN {} ELSE {m} \cup up[s[m].parent]
  IN  up[s[n].parent]

Within(s, n) == {m \in Nodes(s) : n \in Ancestors(s, m)}

DirectStages(s, p) == {m \in Children(s, p) : s[m].kind = "stage"}
NestedPipelines(s, n) == Within(s, n) \cap Pipelines(s)
LeafStages(s) == {n \in Stages(s) : NestedPipelines(s, n) = {}}

(* Every transfer of a stage, those of the stages nested in it included: *)
(* what a walk of the stage's region visits.                              *)
TransfersIn(s, n) ==
  UNION {Range(s[m].xfers) : m \in ({n} \cup Within(s, n)) \cap Stages(s)}

EnclosingLoops(s, n) == Ancestors(s, n) \cap OfKind(s, "for")

(* The number of iterations scf.for runs: lb, lb+step, ... below ub. *)
TripCount(l) == IF l.ub <= l.lb THEN 0 ELSE (l.ub - l.lb + l.step - 1) \div l.step
=============================================================================
