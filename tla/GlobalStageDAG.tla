--------------------------- MODULE GlobalStageDAG ---------------------------
(* lib/Dialect/KTDF/Analysis/GlobalStageDAG.cpp: the token dependencies of   *)
(* the stages of one pipeline, their topological order, and the flat DAG of  *)
(* leaf stages over all nesting levels that signal insertion works on.       *)
EXTENDS Schedule

(* Edges between stages: <<producer, consumer>> when the consumer waits for  *)
(* a token the producer signals.  The producer map keeps the last stage (in  *)
(* textual order) that puts out a token.                                     *)
TokenProducer(s, stages, t) == Max({p \in stages : t \in s[p].dout})

(* The tokens of c that p is the producer of. *)
TokensFrom(s, stages, p, c) ==
  {t \in s[c].din : t \in s[p].dout /\ TokenProducer(s, stages, t) = p}

TokenEdges(s, stages) == {e \in stages \X stages : TokensFrom(s, stages, e[1], e[2]) # {}}

Predecessors(edges, n) == {e[1] : e \in {f \in edges : f[2] = n}}
Successors(edges, n) == {e[2] : e \in {f \in edges : f[1] = n}}

(* The depth-first search of the code finds a gray successor exactly when    *)
(* some nonempty set of stages has all its members depending on the set.     *)
HasCycle(edges, stages) ==
  \E c \in (SUBSET stages) \ {{}} :
     \A n \in c : Predecessors(edges, n) \cap c # {}

(* success with the edges, or "Circular token dependency" *)
AnalyzeStageDependencies(s, stages) ==
  LET edges == TokenEdges(s, stages)
  IN  [ok |-> ~HasCycle(edges, stages), edges |-> edges]

(* The pipeline stage.walk finds: the walk is post-order and interrupted at  *)
(* the first pipeline, so it is an innermost one, and the first of these.    *)
FirstNestedPipeline(s, n) ==
  CHOOSE p \in NestedPipelines(s, n) :
    \A q \in NestedPipelines(s, n) \ {p} :
       \/ q \in Ancestors(s, p)
       \/ p < q /\ p \notin Ancestors(s, q)

(* Stages of that pipeline without a predecessor (roots) or a successor      *)
(* (leaves).  The code recurses into them, but no pipeline is left inside    *)
(* the innermost one, so the recursion ends at the stage itself.             *)
BoundaryStages(s, n, isBoundary(_, _)) ==
  IF NestedPipelines(s, n) = {} THEN {n}
  ELSE LET inner == DirectStages(s, FirstNestedPipeline(s, n))
           deps == AnalyzeStageDependencies(s, inner)
       IN  IF deps.ok THEN {m \in inner : isBoundary(deps.edges, m)} ELSE {n}

GetRootStages(s, n) ==
  BoundaryStages(s, n, LAMBDA edges, m : Predecessors(edges, m) = {})
GetLeafStages(s, n) ==
  BoundaryStages(s, n, LAMBDA edges, m : Successors(edges, m) = {})

(* A slip: only the last leaf stage of a producer is ordered. *)
StitchedFromLastLeaf(s, edges) ==
  UNION {{Max(GetLeafStages(s, e[1]))} \X GetRootStages(s, e[2]) : e \in edges}

(* A slip: the edges are turned around. *)
StitchedBackwards(s, edges) ==
  UNION {GetLeafStages(s, e[2]) \X GetRootStages(s, e[1]) : e \in edges}

(* What token edges order in the flat DAG: the leaves of the producer come   *)
(* before the roots of the consumer.                                         *)
Stitched(s, edges) == UNION {GetLeafStages(s, e[1]) \X GetRootStages(s, e[2]) : e \in edges}

(* Every token edge of every pipeline; fails when one pipeline's tokens are  *)
(* cyclic.                                                                   *)
BuildGlobalStageDAG(s) ==
  LET local(p) == AnalyzeStageDependencies(s, DirectStages(s, p))
  IN  [ok |-> \A p \in Pipelines(s) : local(p).ok,
       edges |-> UNION {Stitched(s, local(p).edges) : p \in Pipelines(s)}]
=============================================================================
