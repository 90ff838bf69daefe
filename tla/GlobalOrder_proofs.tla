------------------------- MODULE GlobalOrder_proofs -------------------------
(* The order of the global DAG over all nesting levels is that of the tokens *)
(* of the single pipelines.                                                  *)
EXTENDS StageAnalysis_proofs

------------------------------------------------------------------------------
(* The tree of a schedule. *)

(* The recursive definition holds: the operations a node is nested in are    *)
(* its parent and those the parent is nested in.                             *)
LEMMA AncestorStep ==
  ASSUME NEW s, WellFormed(s), NEW n \in Nodes(s)
  PROVE  Ancestors(s, n) = IF s[n].parent = 0 THEN {}
                           ELSE {s[n].parent} \cup Ancestors(s, s[n].parent)
<1> DEFINE N == Len(s)
           parent == [m \in 1..N |-> s[m].parent]
           Def(g) == g = [m \in 0..N |-> IF m = 0 THEN {} ELSE {m} \cup g[s[m].parent]]
           up == CHOOSE g : Def(g)
<1>1. N \in Nat /\ \A m \in 1..N : s[m].parent \in 0..(m - 1)
  BY DEF WellFormed, Nodes
<1>2. PICK g : ParentTable(N, parent, g)
  <2>1. \A m \in 1..N : parent[m] \in 0..(m - 1)
    BY <1>1
  <2> HIDE DEF parent, N
  <2> QED
    BY <1>1, <2>1, ParentRecursion
<1>3. Def(g)
  <2> DEFINE h == [m \in 0..N |-> IF m = 0 THEN {} ELSE {m} \cup g[s[m].parent]]
  <2>1. g \in [0..N -> SUBSET (1..N)] /\ g[0] = {} /\ \A m \in 1..N : g[m] = {m} \cup g[parent[m]]
    BY <1>2 DEF ParentTable
  <2>2. ASSUME NEW m \in 0..N PROVE g[m] = h[m]
    <3>1. CASE m = 0
      BY <2>1, <3>1
    <3>2. CASE m # 0
      <4>1. m \in 1..N
        BY <1>1, <3>2
      <4>2. g[m] = {m} \cup g[parent[m]] /\ parent[m] = s[m].parent
        BY <2>1, <4>1
      <4> QED
        BY <3>2, <4>2
    <3> QED
      BY <3>1, <3>2
  <2>3. g = [m \in 0..N |-> g[m]]
    BY <2>1
  <2> QED
    BY <2>2, <2>3
<1>4. Def(up)
  <2> HIDE DEF Def
  <2> QED
    BY <1>3
<1>5. up[0] = {} /\ \A m \in 1..N : up[m] = {m} \cup up[s[m].parent]
  <2>1. \A m \in 0..N : up[m] = IF m = 0 THEN {} ELSE {m} \cup up[s[m].parent]
    <3> HIDE DEF up
    <3> QED
      BY <1>4
  <2>2. 0 \in 0..N /\ \A m \in 1..N : m \in 0..N /\ m # 0
    BY <1>1
  <2> HIDE DEF up, N
  <2>3. up[0] = {}
    BY <2>1, <2>2
  <2>4. \A m \in 1..N : up[m] = {m} \cup up[s[m].parent]
    BY <2>1, <2>2
  <2> QED
    BY <2>3, <2>4
<1>6. \A m : Ancestors(s, m) = up[s[m].parent]
  BY Zenon DEF Ancestors
<1> HIDE DEF up
<1>7. n \in 1..N /\ s[n].parent \in 0..N /\ (s[n].parent # 0 => s[n].parent \in 1..N)
  BY <1>1 DEF Nodes
<1> HIDE DEF N
<1>8. CASE s[n].parent = 0
  BY <1>5, <1>6, <1>8
<1>9. CASE s[n].parent # 0
  BY <1>5, <1>6, <1>7, <1>9
<1> QED
  BY <1>8, <1>9

(* What a node is nested in has a smaller number; being nested is            *)
(* transitive; and of two nodes another one is nested in, one is nested in   *)
(* the other.                                                                *)
AncestorsOrdered(s, n) ==
  /\ Ancestors(s, n) \subseteq 1..(n - 1)
  /\ \A m \in Ancestors(s, n) : Ancestors(s, m) \subseteq Ancestors(s, n)
  /\ \A l, m \in Ancestors(s, n) : l = m \/ l \in Ancestors(s, m) \/ m \in Ancestors(s, l)

LEMMA AncestorFacts ==
  ASSUME NEW s, WellFormed(s)
  PROVE  \A n \in Nodes(s) : AncestorsOrdered(s, n)
<1> DEFINE Bad == {n \in Nodes(s) : ~AncestorsOrdered(s, n)}
<1>1. SUFFICES ASSUME Bad # {} PROVE FALSE
  OBVIOUS
<1>2. Len(s) \in Nat /\ Nodes(s) = 1..Len(s) /\ \A n \in Nodes(s) : s[n].parent \in 0..(n - 1)
  BY DEF WellFormed, Nodes
<1>3. PICK n \in Bad : \A m \in Bad : n <= m
  <2>1. Bad \in SUBSET Nat
    BY <1>2
  <2> HIDE DEF Bad
  <2> QED
    BY <1>1, <2>1, LeastNatural
<1>4. n \in Nodes(s) /\ ~AncestorsOrdered(s, n) /\ n \in Nat
  BY <1>2, <1>3
<1> DEFINE p == s[n].parent
<1>5. CASE p = 0
  <2>1. Ancestors(s, n) = {}
    BY <1>4, <1>5, AncestorStep
  <2> QED
    BY <1>4, <2>1 DEF AncestorsOrdered
<1>6. CASE p # 0
  <2>1. p \in Nodes(s) /\ p < n /\ p \in Nat
    BY <1>2, <1>4, <1>6
  <2>2. AncestorsOrdered(s, p)
    <3>1. p \notin Bad
      BY <1>3, <1>4, <2>1
    <3> QED
      BY <2>1, <3>1
  <2>3. Ancestors(s, n) = {p} \cup Ancestors(s, p)
    BY <1>4, <1>6, AncestorStep
  <2>4. Ancestors(s, n) \subseteq 1..(n - 1)
    BY <1>4, <2>1, <2>2, <2>3, <1>2 DEF AncestorsOrdered
  <2> HIDE DEF p, Bad
  <2>5. \A m \in Ancestors(s, n) : Ancestors(s, m) \subseteq Ancestors(s, n)
    BY <2>2, <2>3 DEF AncestorsOrdered
  <2>6. \A l, m \in Ancestors(s, n) : l = m \/ l \in Ancestors(s, m) \/ m \in Ancestors(s, l)
    BY <2>2, <2>3 DEF AncestorsOrdered
  <2> QED
    BY <1>4, <2>4, <2>5, <2>6 DEF AncestorsOrdered
<1> QED
  BY <1>5, <1>6

(* The nodes between a node and one that is nested in it are nested in it.   *)
LEMMA PreOrder ==
  ASSUME NEW s, WellFormed(s), NEW r \in Nodes(s), NEW q \in Ancestors(s, r), NEW p \in Nodes(s), q < p, p <= r
  PROVE  q \in Ancestors(s, p)
<1>1. Len(s) \in Nat /\ Nodes(s) = 1..Len(s)
  BY DEF WellFormed, Nodes
<1>2. q \in 1..(r - 1) /\ q \in Nodes(s)
  <2>1. Ancestors(s, r) \subseteq 1..(r - 1)
    BY AncestorFacts DEF AncestorsOrdered
  <2> QED
    BY <1>1, <2>1
<1> DEFINE D == {d \in 0..(r - p) : q \notin Ancestors(s, r - d)}
<1>3. SUFFICES ASSUME q \notin Ancestors(s, p) PROVE FALSE
  OBVIOUS
<1>4. D # {}
  <2>1. r - p \in 0..(r - p) /\ r - (r - p) = p
    BY <1>1
  <2> QED
    BY <1>3, <2>1
<1>5. PICK d \in D : \A e \in D : d <= e
  <2>1. D \in SUBSET Nat
    OBVIOUS
  <2> HIDE DEF D
  <2> QED
    BY <1>4, <2>1, LeastNatural
<1>6. d \in Nat /\ d <= r - p /\ q \notin Ancestors(s, r - d) /\ d # 0
  <2>1. d \in 0..(r - p) /\ q \notin Ancestors(s, r - d)
    BY <1>5
  <2>2. r - 0 = r
    BY <1>1
  <2> QED
    BY <1>1, <2>1, <2>2
<1> DEFINE m == r - d
<1>7. q \in Ancestors(s, m + 1)
  <2>1. d - 1 \in 0..(r - p) /\ ~(d <= d - 1) /\ r - (d - 1) = m + 1
    BY <1>1, <1>6
  <2>2. d - 1 \notin D
    <3> HIDE DEF D
    <3> QED
      BY <1>5, <2>1
  <2> QED
    BY <2>1, <2>2
<1>8. m + 1 \in Nodes(s) /\ m + 1 > 1 /\ (m + 1) - 1 = m /\ q < m /\ m \in Nodes(s)
  BY <1>1, <1>2, <1>6
<1>9. q \notin Ancestors(s, m) /\ q # 0 /\ q # m
  BY <1>2, <1>6, <1>8
<1> HIDE DEF m, D
<1>10. s[m + 1].parent \in {0, m} \cup Ancestors(s, m)
  BY <1>8 DEF WellFormed
<1>11. s[m + 1].parent # 0 /\ Ancestors(s, m + 1) = {s[m + 1].parent} \cup Ancestors(s, s[m + 1].parent)
  BY <1>7, <1>8, AncestorStep
<1>12. Ancestors(s, s[m + 1].parent) \subseteq Ancestors(s, m) \/ s[m + 1].parent = m
  BY <1>8, <1>10, <1>11, AncestorFacts DEF AncestorsOrdered
<1> QED
  BY <1>7, <1>9, <1>10, <1>11, <1>12
(* The parent of a stage, and what is nested in what.                        *)
LEMMA StageParent ==
  ASSUME NEW s, WellFormed(s), NEW m \in Stages(s)
  PROVE  /\ m \in Nodes(s) /\ s[m].parent \in Pipelines(s) /\ m \notin Pipelines(s)
         /\ Ancestors(s, m) = {s[m].parent} \cup Ancestors(s, s[m].parent)
         /\ m \in DirectStages(s, s[m].parent)
<1>1. m \in Nodes(s) /\ s[m].kind = "stage" /\ s[m].parent \in Pipelines(s)
  BY DEF WellFormed, Stages, OfKind
<1>2. m \notin Pipelines(s) /\ s[m].parent \in Nodes(s)
  BY <1>1 DEF Pipelines, OfKind
<1>3. s[m].parent # 0
  BY <1>2 DEF Nodes, WellFormed
<1> QED
  BY <1>1, <1>2, <1>3, AncestorStep DEF DirectStages, Children

LEMMA DirectParent ==
  ASSUME NEW s, NEW q, NEW m \in DirectStages(s, q)
  PROVE  m \in Stages(s) /\ s[m].parent = q
BY DEF DirectStages, Children, Stages, OfKind

(* A node is nested in an innermost pipeline of each pipeline of a set. *)
LEMMA InnermostInside ==
  ASSUME NEW s, WellFormed(s), NEW S \in SUBSET Nodes(s), NEW q \in S
  PROVE  \E r \in S : (r = q \/ q \in Ancestors(s, r)) /\ \A t \in S : r \notin Ancestors(s, t)
<1> DEFINE T == {r \in S : r = q \/ q \in Ancestors(s, r)}
<1>1. Len(s) \in Nat /\ Nodes(s) = 1..Len(s)
  BY DEF WellFormed, Nodes
<1>2. T \in SUBSET (0..Len(s)) /\ T # {}
  BY <1>1
<1>3. PICK r \in T : \A t \in T : t <= r
  <2> HIDE DEF T
  <2> QED
    BY <1>1, <1>2, GreatestNatural
<1>4. ASSUME NEW t \in S, r \in Ancestors(s, t) PROVE FALSE
  <2>1. AncestorsOrdered(s, t)
    BY AncestorFacts
  <2>2. r < t /\ q \in Ancestors(s, t)
    BY <1>1, <1>3, <1>4, <2>1 DEF AncestorsOrdered
  <2>3. t <= r
    BY <1>3, <2>2
  <2> QED
    BY <1>1, <2>2, <2>3
<1> QED
  BY <1>3, <1>4

(* FirstNestedPipeline is defined: the first of the innermost ones.          *)
LEMMA FirstNestedFacts ==
  ASSUME NEW s, WellFormed(s), NEW n, NestedPipelines(s, n) # {}
  PROVE  /\ FirstNestedPipeline(s, n) \in NestedPipelines(s, n)
         /\ \A q \in NestedPipelines(s, n) : FirstNestedPipeline(s, n) \notin Ancestors(s, q)
<1> DEFINE S == NestedPipelines(s, n)
           I == {p \in S : \A t \in S : p \notin Ancestors(s, t)}
           First(p) == \A q \in S \ {p} : q \in Ancestors(s, p) \/ (p < q /\ p \notin Ancestors(s, q))
<1>1. Len(s) \in Nat /\ Nodes(s) = 1..Len(s)
  BY DEF WellFormed, Nodes
<1>2. S \in SUBSET Nodes(s)
  BY DEF NestedPipelines, Within
<1>3. \A q \in S : \E r \in I : r = q \/ q \in Ancestors(s, r)
  <2> HIDE DEF S
  <2> QED
    BY <1>2, InnermostInside
<1>4. I \in SUBSET Nat /\ I # {}
  BY <1>1, <1>2, <1>3
<1>5. PICK p \in I : \A r \in I : p <= r
  <2> HIDE DEF I
  <2> QED
    BY <1>4, LeastNatural
<1>6. p \in S /\ \A t \in S : p \notin Ancestors(s, t)
  BY <1>5
<1>7. ASSUME NEW q \in S \ {p}, q \notin Ancestors(s, p) PROVE p < q /\ p \notin Ancestors(s, q)
  <2>1. PICK r \in I : r = q \/ q \in Ancestors(s, r)
    BY <1>3, <1>7
  <2>2. p <= r /\ r # p /\ r \in S
    BY <1>5, <1>7, <2>1
  <2>3. CASE q < p
    <3>1. q # r /\ q \in Ancestors(s, r)
      BY <1>1, <1>2, <1>6, <2>1, <2>2, <2>3
    <3>2. q \in Ancestors(s, p)
      BY <1>2, <1>6, <2>2, <2>3, <3>1, PreOrder
    <3> QED
      BY <1>7, <3>2
  <2>4. CASE ~(q < p)
    BY <1>1, <1>2, <1>6, <1>7, <2>4
  <2> QED
    BY <2>3, <2>4
<1>8. \E f \in S : First(f)
  BY <1>6, <1>7
<1> DEFINE f == CHOOSE g \in S : First(g)
<1>9. f \in S /\ First(f)
  <2> HIDE DEF S, First
  <2> QED
    BY <1>8
<1>10. FirstNestedPipeline(s, n) = f
  BY DEF FirstNestedPipeline
<1> HIDE DEF f
<1>11. ASSUME NEW q \in S, f \in Ancestors(s, q) PROVE FALSE
  <2>1. AncestorsOrdered(s, q)
    BY <1>2, AncestorFacts
  <2>2. f < q /\ q # f
    BY <1>1, <1>2, <1>9, <1>11, <2>1 DEF AncestorsOrdered
  <2>3. q \in Ancestors(s, f)
    BY <1>9, <1>11, <2>2
  <2>4. q < f
    <3>1. AncestorsOrdered(s, f)
      BY <1>2, <1>9, AncestorFacts
    <3> QED
      BY <1>1, <1>2, <1>9, <2>3, <3>1 DEF AncestorsOrdered
  <2> QED
    BY <1>1, <1>2, <1>9, <2>2, <2>4
<1> QED
  BY <1>9, <1>10, <1>11
------------------------------------------------------------------------------
(* The leaf stages inside a stage. *)

(* A stage without a nested pipeline is a leaf, and the only one in it.      *)
LEMMA LoneLeaf ==
  ASSUME WellFormed(schedule), NEW n \in Stages(schedule), NestedPipelines(schedule, n) = {}
  PROVE  n \in LeafStages(schedule) /\ LeavesIn(n) = {n}
<1>1. n \in LeafStages(schedule)
  BY DEF LeafStages
<1>2. ASSUME NEW m \in LeavesIn(n), m # n PROVE FALSE
  <2>1. m \in Stages(schedule) /\ n \in Ancestors(schedule, m)
    BY <1>2 DEF LeavesIn, Within, LeafStages
  <2> DEFINE q == schedule[m].parent
  <2>2. q \in Pipelines(schedule) /\ Ancestors(schedule, m) = {q} \cup Ancestors(schedule, q)
    BY <2>1, StageParent
  <2>3. n # q
    BY <2>2, StageParent
  <2> HIDE DEF q
  <2>4. q \in NestedPipelines(schedule, n)
    BY <2>1, <2>2, <2>3 DEF NestedPipelines, Within, Pipelines, OfKind
  <2> QED
    BY <2>4
<1> QED
  BY <1>1, <1>2 DEF LeavesIn

(* The stages of an innermost pipeline are leaves inside what it is in.      *)
LEMMA InnermostLeaves ==
  ASSUME WellFormed(schedule), NEW n, NEW q \in NestedPipelines(schedule, n),
         \A r \in NestedPipelines(schedule, n) : q \notin Ancestors(schedule, r)
  PROVE  Direct(q) \subseteq LeavesIn(n)
<1>1. SUFFICES ASSUME NEW m \in Direct(q) PROVE m \in LeavesIn(n)
  OBVIOUS
<1>2. m \in Stages(schedule) /\ schedule[m].parent = q
  BY <1>1, DirectParent DEF Direct
<1>3. m \in Nodes(schedule) /\ Ancestors(schedule, m) = {q} \cup Ancestors(schedule, q)
  BY <1>2, StageParent
<1>4. n \in Ancestors(schedule, q) /\ n \in Ancestors(schedule, m)
  BY <1>3 DEF NestedPipelines, Within
<1>5. ASSUME NEW r \in NestedPipelines(schedule, m) PROVE FALSE
  <2>1. r \in Nodes(schedule) /\ r \in Pipelines(schedule) /\ m \in Ancestors(schedule, r)
    BY DEF NestedPipelines, Within
  <2>2. q \in Ancestors(schedule, r) /\ n \in Ancestors(schedule, r)
    BY <1>3, <1>4, <2>1, AncestorFacts DEF AncestorsOrdered
  <2> QED
    BY <2>1, <2>2 DEF NestedPipelines, Within
<1> QED
  BY <1>2, <1>3, <1>4, <1>5 DEF LeavesIn, LeafStages, Within

(* What is inside a stage of a pipeline that is nested in c is inside c.     *)
LEMMA LeavesNested ==
  ASSUME WellFormed(schedule), NEW c, NEW p \in Pipelines(schedule), c \in Ancestors(schedule, p), NEW b \in Direct(p)
  PROVE  LeavesIn(b) \subseteq LeavesIn(c)
<1>1. b \in Stages(schedule) /\ schedule[b].parent = p
  BY DirectParent DEF Direct
<1>2. b \in Nodes(schedule) /\ c \in Ancestors(schedule, b)
  BY <1>1, StageParent
<1>3. ASSUME NEW m \in Nodes(schedule), b \in Ancestors(schedule, m) PROVE c \in Ancestors(schedule, m)
  BY <1>2, <1>3, AncestorFacts DEF AncestorsOrdered
<1> QED
  BY <1>2, <1>3 DEF LeavesIn, Within

(* The roots and the leaves of a stage, when no pipeline has a cycle.        *)
AllAcyclic == \A p \in Pipelines(schedule) : ~HasCycle(Local(p), Direct(p))

LEMMA BoundaryFacts ==
  ASSUME WellFormed(schedule), AllAcyclic, NEW n \in Stages(schedule)
  PROVE  LET f == FirstNestedPipeline(schedule, n)
         IN  /\ NestedPipelines(schedule, n) = {} =>
                  GetLeafStages(schedule, n) = {n} /\ GetRootStages(schedule, n) = {n}
             /\ NestedPipelines(schedule, n) # {} =>
                  /\ GetLeafStages(schedule, n) = {m \in Direct(f) : Successors(Local(f), m) = {}}
                  /\ GetRootStages(schedule, n) = {m \in Direct(f) : Predecessors(Local(f), m) = {}}
<1> DEFINE f == FirstNestedPipeline(schedule, n)
<1>1. CASE NestedPipelines(schedule, n) = {}
  BY <1>1 DEF GetLeafStages, GetRootStages, BoundaryStages
<1>2. CASE NestedPipelines(schedule, n) # {}
  <2>1. f \in NestedPipelines(schedule, n)
    BY <1>2, FirstNestedFacts
  <2>2. f \in Pipelines(schedule)
    BY <2>1 DEF NestedPipelines
  <2>3. ~HasCycle(Local(f), Direct(f))
    BY <2>2 DEF AllAcyclic
  <2>4. AnalyzeStageDependencies(schedule, Direct(f)) = [ok |-> TRUE, edges |-> Local(f)]
    BY <2>3 DEF AnalyzeStageDependencies, Local
  <2> HIDE DEF f
  <2>5. /\ AnalyzeStageDependencies(schedule, Direct(f)).ok
        /\ AnalyzeStageDependencies(schedule, Direct(f)).edges = Local(f)
    BY <2>4
  <2>6. GetLeafStages(schedule, n) = {m \in Direct(f) : Successors(Local(f), m) = {}}
    BY <1>2, <2>5 DEF GetLeafStages, BoundaryStages, Direct, f
  <2>7. GetRootStages(schedule, n) = {m \in Direct(f) : Predecessors(Local(f), m) = {}}
    BY <1>2, <2>5 DEF GetRootStages, BoundaryStages, Direct, f
  <2> QED
    BY <1>2, <2>6, <2>7 DEF f
<1> QED
  BY <1>1, <1>2

LEMMA BoundaryInside ==
  ASSUME WellFormed(schedule), AllAcyclic, NEW n \in Stages(schedule)
  PROVE  GetLeafStages(schedule, n) \subseteq LeavesIn(n) /\ GetRootStages(schedule, n) \subseteq LeavesIn(n)
<1>1. CASE NestedPipelines(schedule, n) = {}
  BY <1>1, BoundaryFacts, LoneLeaf
<1>2. CASE NestedPipelines(schedule, n) # {}
  <2> DEFINE f == FirstNestedPipeline(schedule, n)
  <2>1. f \in NestedPipelines(schedule, n) /\ \A r \in NestedPipelines(schedule, n) : f \notin Ancestors(schedule, r)
    BY <1>2, FirstNestedFacts
  <2>2. GetLeafStages(schedule, n) \subseteq Direct(f) /\ GetRootStages(schedule, n) \subseteq Direct(f)
    BY <1>2, BoundaryFacts
  <2> HIDE DEF f
  <2>3. Direct(f) \subseteq LeavesIn(n)
    BY <2>1, InnermostLeaves
  <2> QED
    BY <2>2, <2>3
<1> QED
  BY <1>1, <1>2

(* The DAG when the analysis is over. *)
Edges == UNION {Stitched(schedule, Local(p)) : p \in Pipelines(schedule)}

(* An edge of the DAG leads from a leaf of a stage to a root of one that     *)
(* waits for it.                                                             *)
LEMMA EdgeFacts ==
  ASSUME WellFormed(schedule)
  PROVE  \A y, m : <<y, m>> \in Edges <=>
           \E p \in Pipelines(schedule) : \E c, d \in Direct(p) :
             <<c, d>> \in Local(p) /\ y \in GetLeafStages(schedule, c) /\ m \in GetRootStages(schedule, d)
<1>1. \A y, m : <<y, m>> \in Edges <=>
        \E p \in Pipelines(schedule) : \E e \in Local(p) :
           y \in GetLeafStages(schedule, e[1]) /\ m \in GetRootStages(schedule, e[2])
  BY DEF Edges, Stitched
<1>2. \A p : Local(p) \in SUBSET (Direct(p) \X Direct(p))
  BY LocalFacts
<1>3. ASSUME NEW y, NEW m, NEW p \in Pipelines(schedule)
      PROVE  (\E e \in Local(p) : y \in GetLeafStages(schedule, e[1]) /\ m \in GetRootStages(schedule, e[2]))
             <=> \E c, d \in Direct(p) : <<c, d>> \in Local(p) /\ y \in GetLeafStages(schedule, c)
                                         /\ m \in GetRootStages(schedule, d)
  <2>1. \A e \in Local(p) : e = <<e[1], e[2]>> /\ e[1] \in Direct(p) /\ e[2] \in Direct(p)
    BY <1>2
  <2> QED
    BY <2>1
<1> QED
  BY <1>1, <1>3
------------------------------------------------------------------------------
(* No order is added. *)

LEMMA ReachFacts ==
  ASSUME NEW nodes, NEW edges \in SUBSET (nodes \X nodes)
  PROVE  /\ \A a, b : <<a, b>> \in edges => Reaches(edges, nodes, a, b)
         /\ \A a, b, d : Reaches(edges, nodes, a, b) /\ <<b, d>> \in edges => Reaches(edges, nodes, a, d)
<1>1. \A a, b : <<a, b>> \in edges <=> b \in Successors(edges, a)
  BY Neighbours
<1> QED
  BY <1>1 DEF Reaches

LEMMA TokenOrderFacts ==
  \A x, y : <<x, y>> \in TokenOrder <=>
    \E p \in Pipelines(schedule) : \E a, b \in Direct(p) :
      Reaches(Local(p), Direct(p), a, b) /\ x \in LeavesIn(a) /\ y \in LeavesIn(b)
<1>1. \A x, y : <<x, y>> \in TokenOrder <=>
        \E p \in Pipelines(schedule) : \E o \in OrderedBy(Local(p), Direct(p)) :
          x \in LeavesIn(o[1]) /\ y \in LeavesIn(o[2])
  BY DEF TokenOrder
<1>2. ASSUME NEW x, NEW y, NEW p \in Pipelines(schedule)
      PROVE  (\E o \in OrderedBy(Local(p), Direct(p)) : x \in LeavesIn(o[1]) /\ y \in LeavesIn(o[2]))
             <=> \E a, b \in Direct(p) : Reaches(Local(p), Direct(p), a, b) /\ x \in LeavesIn(a) /\ y \in LeavesIn(b)
  <2>1. \A o : o \in OrderedBy(Local(p), Direct(p)) <=>
          o \in Direct(p) \X Direct(p) /\ Reaches(Local(p), Direct(p), o[1], o[2])
    BY DEF OrderedBy
  <2>2. ASSUME NEW o \in OrderedBy(Local(p), Direct(p)), x \in LeavesIn(o[1]), y \in LeavesIn(o[2])
        PROVE  \E a, b \in Direct(p) : Reaches(Local(p), Direct(p), a, b) /\ x \in LeavesIn(a) /\ y \in LeavesIn(b)
    <3>1. o[1] \in Direct(p) /\ o[2] \in Direct(p) /\ Reaches(Local(p), Direct(p), o[1], o[2])
      BY <2>1, <2>2
    <3> QED
      BY <2>2, <3>1
  <2>3. ASSUME NEW a \in Direct(p), NEW b \in Direct(p), Reaches(Local(p), Direct(p), a, b),
               x \in LeavesIn(a), y \in LeavesIn(b)
        PROVE  \E o \in OrderedBy(Local(p), Direct(p)) : x \in LeavesIn(o[1]) /\ y \in LeavesIn(o[2])
    <3>1. <<a, b>> \in Direct(p) \X Direct(p) /\ <<a, b>>[1] = a /\ <<a, b>>[2] = b
      OBVIOUS
    <3>2. <<a, b>> \in OrderedBy(Local(p), Direct(p))
      BY <2>1, <2>3, <3>1
    <3> QED
      BY <2>3, <3>1, <3>2
  <2> QED
    BY <2>2, <2>3
<1> QED
  BY <1>1, <1>2

(* An edge of the DAG continues the order of the tokens: the stage it leads  *)
(* from is the one the order has come to, or one of the two is nested in the *)
(* other.                                                                    *)
LEMMA OrderGoesOn ==
  ASSUME WellFormed(schedule),
         NEW p \in Pipelines(schedule), NEW a \in Direct(p), NEW b \in Direct(p),
         Reaches(Local(p), Direct(p), a, b),
         NEW q \in Pipelines(schedule), NEW c \in Direct(q), NEW d \in Direct(q), <<c, d>> \in Local(q),
         NEW x \in LeavesIn(a), NEW y \in LeavesIn(b), y \in LeavesIn(c), NEW m \in LeavesIn(d)
  PROVE  <<x, m>> \in TokenOrder
<1>1. /\ b \in Stages(schedule) /\ schedule[b].parent = p /\ Ancestors(schedule, b) = {p} \cup Ancestors(schedule, p)
      /\ c \in Stages(schedule) /\ schedule[c].parent = q /\ Ancestors(schedule, c) = {q} \cup Ancestors(schedule, q)
  <2>1. b \in Stages(schedule) /\ schedule[b].parent = p /\ c \in Stages(schedule) /\ schedule[c].parent = q
    BY DirectParent DEF Direct
  <2> QED
    BY <2>1, StageParent
<1>2. b # q /\ c # p
  BY <1>1, StageParent
<1>3. y \in Nodes(schedule) /\ (b = y \/ b \in Ancestors(schedule, y)) /\ (c = y \/ c \in Ancestors(schedule, y))
  BY DEF LeavesIn, Within, LeafStages, Stages, OfKind
<1>4. b = c \/ b \in Ancestors(schedule, c) \/ c \in Ancestors(schedule, b)
  BY <1>3, AncestorFacts DEF AncestorsOrdered
<1>5. CASE b = c
  <2>1. p = q
    BY <1>1, <1>5
  <2>2. Reaches(Local(p), Direct(p), a, d)
    <3>1. Local(p) \in SUBSET (Direct(p) \X Direct(p)) /\ <<b, d>> \in Local(p)
      BY <1>5, <2>1, LocalFacts
    <3> QED
      BY <3>1, ReachFacts
  <2> QED
    BY <2>1, <2>2, TokenOrderFacts
<1>6. CASE b \in Ancestors(schedule, c)
  <2>1. b \in Ancestors(schedule, q)
    BY <1>1, <1>2, <1>6
  <2>2. m \in LeavesIn(b)
    BY <2>1, LeavesNested
  <2> QED
    BY <2>2, TokenOrderFacts
<1>7. CASE c \in Ancestors(schedule, b)
  <2>1. c \in Ancestors(schedule, p)
    BY <1>1, <1>2, <1>7
  <2>2. x \in LeavesIn(c)
    BY <2>1, LeavesNested
  <2>3. Reaches(Local(q), Direct(q), c, d)
    BY LocalFacts, ReachFacts
  <2> QED
    BY <2>2, <2>3, TokenOrderFacts
<1> QED
  BY <1>4, <1>5, <1>6, <1>7

LEMMA EdgesBetweenLeaves ==
  ASSUME WellFormed(schedule), AllAcyclic
  PROVE  /\ Edges \in SUBSET (LeafStages(schedule) \X LeafStages(schedule))
         /\ \A y, m : <<y, m>> \in Edges =>
              \E q \in Pipelines(schedule) : \E c, d \in Direct(q) :
                <<c, d>> \in Local(q) /\ y \in LeavesIn(c) /\ m \in LeavesIn(d)
<1>1. \A q : Direct(q) \subseteq Stages(schedule)
  BY DirectParent DEF Direct
<1>2. ASSUME NEW y, NEW m, <<y, m>> \in Edges
      PROVE  \E q \in Pipelines(schedule) : \E c, d \in Direct(q) :
                <<c, d>> \in Local(q) /\ y \in LeavesIn(c) /\ m \in LeavesIn(d)
  <2>1a. PICK q \in Pipelines(schedule) : \E c, d \in Direct(q) :
          <<c, d>> \in Local(q) /\ y \in GetLeafStages(schedule, c) /\ m \in GetRootStages(schedule, d)
    BY <1>2, EdgeFacts
  <2>1. PICK c, d \in Direct(q) : <<c, d>> \in Local(q) /\ y \in GetLeafStages(schedule, c) /\ m \in GetRootStages(schedule, d)
    BY <2>1a
  <2>2. c \in Stages(schedule) /\ d \in Stages(schedule)
    BY <1>1
  <2>3. y \in LeavesIn(c) /\ m \in LeavesIn(d)
    BY <2>1, <2>2, BoundaryInside
  <2> QED
    BY <2>1, <2>3
<1>3. ASSUME NEW e \in Edges PROVE e = <<e[1], e[2]>>
  BY DEF Edges, Stitched
<1>4. \A n : LeavesIn(n) \subseteq LeafStages(schedule)
  BY DEF LeavesIn
<1>5. ASSUME NEW e \in Edges PROVE e \in LeafStages(schedule) \X LeafStages(schedule)
  <2>1. <<e[1], e[2]>> \in Edges
    BY <1>3
  <2>2. e[1] \in LeafStages(schedule) /\ e[2] \in LeafStages(schedule)
    BY <1>2, <1>4, <2>1
  <2> QED
    BY <1>3, <2>2
<1> QED
  BY <1>2, <1>5

LEMMA NothingAdded ==
  ASSUME WellFormed(schedule), AllAcyclic
  PROVE  OrderedBy(Edges, LeafStages(schedule)) \subseteq TokenOrder
<1> DEFINE leaves == LeafStages(schedule)
<1>1. SUFFICES ASSUME NEW x \in leaves, NEW y \in leaves, Reaches(Edges, leaves, x, y)
               PROVE  <<x, y>> \in TokenOrder
  BY DEF OrderedBy
<1> DEFINE C == {z \in leaves : <<x, z>> \in TokenOrder}
<1>2. Edges \in SUBSET (leaves \X leaves)
  BY EdgesBetweenLeaves
<1>3. \A z, m : m \in Successors(Edges, z) <=> <<z, m>> \in Edges
  BY <1>2, Neighbours
<1>4. ASSUME NEW m \in Successors(Edges, x) PROVE m \in C
  <2>1a. PICK q \in Pipelines(schedule) : \E c, d \in Direct(q) :
          <<c, d>> \in Local(q) /\ x \in LeavesIn(c) /\ m \in LeavesIn(d)
    BY <1>3, EdgesBetweenLeaves
  <2>1. PICK c, d \in Direct(q) : <<c, d>> \in Local(q) /\ x \in LeavesIn(c) /\ m \in LeavesIn(d)
    BY <2>1a
  <2>2. Reaches(Local(q), Direct(q), c, d)
    BY <2>1, LocalFacts, ReachFacts
  <2> QED
    BY <2>1, <2>2, TokenOrderFacts DEF LeavesIn
<1>5. ASSUME NEW z \in C, NEW m \in Successors(Edges, z) PROVE m \in C
  <2>1a. PICK q \in Pipelines(schedule) : \E c, d \in Direct(q) :
          <<c, d>> \in Local(q) /\ z \in LeavesIn(c) /\ m \in LeavesIn(d)
    BY <1>3, <1>5, EdgesBetweenLeaves
  <2>1. PICK c, d \in Direct(q) : <<c, d>> \in Local(q) /\ z \in LeavesIn(c) /\ m \in LeavesIn(d)
    BY <2>1a
  <2>2a. PICK p \in Pipelines(schedule) : \E a, b \in Direct(p) :
          Reaches(Local(p), Direct(p), a, b) /\ x \in LeavesIn(a) /\ z \in LeavesIn(b)
    BY TokenOrderFacts
  <2>2. PICK a, b \in Direct(p) : Reaches(Local(p), Direct(p), a, b) /\ x \in LeavesIn(a) /\ z \in LeavesIn(b)
    BY <2>2a
  <2>3. <<x, m>> \in TokenOrder
    BY <2>1, <2>2, OrderGoesOn
  <2> QED
    BY <2>1, <2>3 DEF LeavesIn
<1>6. C \in SUBSET leaves
  OBVIOUS
<1> HIDE DEF C
<1>7. y \in C
  <2>1. Successors(Edges, x) \subseteq C /\ \A z \in C : Successors(Edges, z) \subseteq C
    BY <1>4, <1>5
  <2> QED
    BY <1>1, <1>6, <2>1 DEF Reaches
<1> QED
  BY <1>7 DEF C
------------------------------------------------------------------------------
(* No order is lost. *)

(* Where nothing waits for itself, some stage of a set is awaited by no      *)
(* other stage of it: the least set in which every stage has a successor     *)
(* would be one in which every stage has a predecessor.                      *)
LEMMA SinkExists ==
  ASSUME NEW nodes, IsFiniteSet(nodes), NEW edges \in SUBSET (nodes \X nodes), ~HasCycle(edges, nodes),
         NEW S \in SUBSET nodes, S # {}
  PROVE  \E n \in S : Successors(edges, n) \cap S = {}
<1> DEFINE F == {c \in SUBSET nodes : c # {} /\ \A n \in c : Successors(edges, n) \cap c # {}}
<1>1. SUFFICES ASSUME \A n \in S : Successors(edges, n) \cap S # {} PROVE FALSE
  OBVIOUS
<1>2. F \in SUBSET (SUBSET nodes) /\ F # {}
  BY <1>1
<1>3. PICK c \in F : \A d \in F : d \subseteq c => d = c
  <2> HIDE DEF F
  <2> QED
    BY <1>2, LeastSubset
<1>4. c \in SUBSET nodes /\ c # {} /\ \A n \in c : Successors(edges, n) \cap c # {}
  BY <1>3
<1> DEFINE d == {m \in c : Predecessors(edges, m) \cap c # {}}
<1>5. \A n, m : m \in Successors(edges, n) <=> n \in Predecessors(edges, m)
  BY Neighbours
<1>6. \A n \in c : \E m \in d : m \in Successors(edges, n)
  BY <1>4, <1>5
<1>7. d \in F
  BY <1>4, <1>6
<1>8. d = c
  BY <1>3, <1>7
<1> QED
  BY <1>4, <1>8 DEF HasCycle

(* All that is inside a stage with a nested pipeline are the stages of this  *)
(* one, and their order is in the DAG as it is.                              *)
LEMMA NestedLeaves ==
  ASSUME WellFormed(schedule), AllAcyclic, SinglyNested(schedule),
         NEW n \in Stages(schedule), NestedPipelines(schedule, n) # {}
  PROVE  LET q == FirstNestedPipeline(schedule, n)
         IN  q \in Pipelines(schedule) /\ LeavesIn(n) = Direct(q) /\ Local(q) \subseteq Edges
<1> DEFINE q == FirstNestedPipeline(schedule, n)
<1>1. q \in NestedPipelines(schedule, n) /\ \A r \in NestedPipelines(schedule, n) : q \notin Ancestors(schedule, r)
  BY FirstNestedFacts
<1> HIDE DEF q
<1>2. q \in Pipelines(schedule)
  BY <1>1 DEF NestedPipelines
<1>3. Direct(q) \subseteq LeavesIn(n)
  BY <1>1, InnermostLeaves
<1>4. ASSUME NEW m \in LeavesIn(n) PROVE m \in Direct(q)
  <2>1. m \in LeafStages(schedule) /\ m \in Stages(schedule) /\ m # n
    BY <1>1 DEF LeavesIn, LeafStages
  <2>2. n \in Ancestors(schedule, m)
    BY <2>1 DEF LeavesIn, Within
  <2> DEFINE r == schedule[m].parent
  <2>3. /\ r \in Pipelines(schedule) /\ Ancestors(schedule, m) = {r} \cup Ancestors(schedule, r)
        /\ m \in DirectStages(schedule, r)
    BY <2>1, StageParent
  <2>4. n # r
    BY <2>3, StageParent
  <2> HIDE DEF r
  <2>5. r \in NestedPipelines(schedule, n)
    BY <2>2, <2>3, <2>4 DEF NestedPipelines, Within, Pipelines, OfKind
  <2>6. r = q
    BY <1>1, <2>5 DEF SinglyNested
  <2> QED
    BY <2>3, <2>6 DEF Direct
<1>5. ASSUME NEW e \in Local(q) PROVE e \in Edges
  <2>1. e[1] \in Direct(q) /\ e[2] \in Direct(q) /\ e = <<e[1], e[2]>>
    BY LocalFacts
  <2>2. \A m \in Direct(q) : m \in Stages(schedule) /\ NestedPipelines(schedule, m) = {}
    BY <1>3 DEF LeavesIn, LeafStages
  <2>3. e[1] \in GetLeafStages(schedule, e[1]) /\ e[2] \in GetRootStages(schedule, e[2])
    BY <2>1, <2>2, BoundaryFacts
  <2>4. <<e[1], e[2]>> \in Local(q)
    BY <2>1, <1>5
  <2>5. <<e[1], e[2]>> \in Edges
    BY <1>2, <2>1, <2>3, <2>4, EdgeFacts
  <2> QED
    BY <2>1, <2>5
<1> QED
  BY <1>2, <1>3, <1>4, <1>5 DEF q

(* A set of leaf stages that has all that comes after its members.           *)
Closed(C) == C \in SUBSET LeafStages(schedule) /\ \A z \in C : Successors(Edges, z) \subseteq C

LEMMA ToALeaf ==
  ASSUME WellFormed(schedule), AllAcyclic, SinglyNested(schedule),
         NEW a \in Stages(schedule), NEW x \in LeavesIn(a), NEW C, Closed(C), Successors(Edges, x) \subseteq C
  PROVE  \E l \in GetLeafStages(schedule, a) : l = x \/ l \in C
<1>1. CASE NestedPipelines(schedule, a) = {}
  BY <1>1, BoundaryFacts, LoneLeaf
<1>2. CASE NestedPipelines(schedule, a) # {}
  <2> DEFINE q == FirstNestedPipeline(schedule, a)
             S == {m \in Direct(q) : m = x \/ m \in C}
  <2>1. q \in Pipelines(schedule) /\ LeavesIn(a) = Direct(q) /\ Local(q) \subseteq Edges
    BY <1>2, NestedLeaves
  <2>2. GetLeafStages(schedule, a) = {m \in Direct(q) : Successors(Local(q), m) = {}}
    BY <1>2, BoundaryFacts
  <2> HIDE DEF q
  <2>3. IsFiniteSet(Direct(q)) /\ Local(q) \in SUBSET (Direct(q) \X Direct(q)) /\ ~HasCycle(Local(q), Direct(q))
    BY <2>1, DirectFacts, LocalFacts DEF Direct, AllAcyclic
  <2>4. S \in SUBSET Direct(q) /\ S # {}
    BY <2>1
  <2>5. PICK l \in S : Successors(Local(q), l) \cap S = {}
    <3> HIDE DEF S
    <3> QED
      BY <2>3, <2>4, SinkExists
  <2>6. ASSUME NEW m \in Successors(Local(q), l) PROVE m \in S
    <3>1. m \in Direct(q) /\ <<l, m>> \in Edges
      BY <2>1, LocalFacts
    <3>2. m \in Successors(Edges, l)
      BY <3>1, EdgesBetweenLeaves, Neighbours
    <3> QED
      BY <3>1, <3>2 DEF Closed
  <2> QED
    BY <2>2, <2>5, <2>6
<1> QED
  BY <1>1, <1>2

LEMMA FromTheRoots ==
  ASSUME WellFormed(schedule), AllAcyclic, SinglyNested(schedule),
         NEW b \in Stages(schedule), NEW C, Closed(C), GetRootStages(schedule, b) \subseteq C
  PROVE  LeavesIn(b) \subseteq C
<1>1. CASE NestedPipelines(schedule, b) = {}
  BY <1>1, BoundaryFacts, LoneLeaf
<1>2. CASE NestedPipelines(schedule, b) # {}
  <2> DEFINE q == FirstNestedPipeline(schedule, b)
             S == Direct(q) \ C
  <2>1. q \in Pipelines(schedule) /\ LeavesIn(b) = Direct(q) /\ Local(q) \subseteq Edges
    BY <1>2, NestedLeaves
  <2>2. GetRootStages(schedule, b) = {m \in Direct(q) : Predecessors(Local(q), m) = {}}
    BY <1>2, BoundaryFacts
  <2> HIDE DEF q
  <2>3. SUFFICES ASSUME S # {} PROVE FALSE
    BY <2>1
  <2>4. ~HasCycle(Local(q), Direct(q)) /\ S \in SUBSET Direct(q)
    BY <2>1 DEF AllAcyclic
  <2>5. PICK n \in S : Predecessors(Local(q), n) \cap S = {}
    <3> HIDE DEF S
    <3> QED
      BY <2>3, <2>4 DEF HasCycle
  <2>6. Predecessors(Local(q), n) # {}
    BY <2>2
  <2>7. PICK m \in Predecessors(Local(q), n) : m \in Direct(q) /\ m \in C
    BY <2>5, <2>6, LocalFacts
  <2>8. <<m, n>> \in Edges
    BY <2>1, <2>7, LocalFacts
  <2>9. n \in Successors(Edges, m)
    BY <2>8, EdgesBetweenLeaves, Neighbours
  <2> QED
    BY <2>7, <2>9 DEF Closed
<1> QED
  BY <1>1, <1>2

LEMMA NothingLost ==
  ASSUME WellFormed(schedule), AllAcyclic, SinglyNested(schedule)
  PROVE  \A o \in TokenOrder : o \in OrderedBy(Edges, LeafStages(schedule))
<1> DEFINE leaves == LeafStages(schedule)
<1>1. Edges \in SUBSET (leaves \X leaves)
  BY EdgesBetweenLeaves
<1>2. \A z, m : m \in Successors(Edges, z) <=> <<z, m>> \in Edges
  BY <1>1, Neighbours
<1>3. \A p : Direct(p) \subseteq Stages(schedule)
  BY DirectParent DEF Direct
<1>4. ASSUME NEW p \in Pipelines(schedule), NEW a \in Direct(p), NEW b \in Direct(p),
             Reaches(Local(p), Direct(p), a, b), NEW x \in LeavesIn(a), NEW y \in LeavesIn(b),
             NEW C, Closed(C), Successors(Edges, x) \subseteq C
      PROVE  y \in C
  <2> DEFINE W == {n \in Direct(p) : LeavesIn(n) \subseteq C}
  (* What comes behind a stage, once one of its leaves is known to be, ...   *)
  <2>1. ASSUME NEW n \in Direct(p), NEW l \in GetLeafStages(schedule, n), Successors(Edges, l) \subseteq C,
               NEW k \in Successors(Local(p), n)
        PROVE  k \in W
    <3>1. k \in Direct(p) /\ <<n, k>> \in Local(p) /\ k \in Stages(schedule)
      BY <1>3, LocalFacts
    <3>2. ASSUME NEW m \in GetRootStages(schedule, k) PROVE m \in C
      <4>1. <<l, m>> \in Edges
        BY <3>1, EdgeFacts
      <4> QED
        BY <1>2, <2>1, <4>1
    <3>3. LeavesIn(k) \subseteq C
      BY <1>4, <3>1, <3>2, FromTheRoots
    <3> QED
      BY <3>1, <3>3
  (* ... and one is, for a and for all stages behind it. *)
  <2>2. ASSUME NEW n \in Direct(p), NEW z \in LeavesIn(n), Successors(Edges, z) \subseteq C
        PROVE  \E l \in GetLeafStages(schedule, n) : Successors(Edges, l) \subseteq C
    <3>1. n \in Stages(schedule)
      BY <1>3
    <3>2. PICK l \in GetLeafStages(schedule, n) : l = z \/ l \in C
      BY <1>4, <2>2, <3>1, ToALeaf
    <3> QED
      BY <1>4, <2>2, <3>2 DEF Closed
  <2>3. Successors(Local(p), a) \subseteq W
    <3>1. PICK l \in GetLeafStages(schedule, a) : Successors(Edges, l) \subseteq C
      BY <1>4, <2>2
    <3> HIDE DEF W
    <3> QED
      BY <2>1, <3>1
  <2>4. ASSUME NEW n \in W PROVE Successors(Local(p), n) \subseteq W
    <3>1. n \in Direct(p) /\ n \in Stages(schedule) /\ LeavesIn(n) \subseteq C
      BY <1>3
    <3>2. LeavesIn(n) # {}
      <4>1. CASE NestedPipelines(schedule, n) = {}
        BY <3>1, <4>1, LoneLeaf
      <4>2. CASE NestedPipelines(schedule, n) # {}
        BY <3>1, <4>2, NestedLeaves DEF SinglyNested, Direct
      <4> QED
        BY <4>1, <4>2
    <3>3. PICK z \in LeavesIn(n) : Successors(Edges, z) \subseteq C
      BY <1>4, <3>1, <3>2 DEF Closed
    <3>4. PICK l \in GetLeafStages(schedule, n) : Successors(Edges, l) \subseteq C
      BY <2>2, <3>1, <3>3
    <3> HIDE DEF W
    <3> QED
      BY <2>1, <3>1, <3>4
  <2>5. W \in SUBSET Direct(p)
    OBVIOUS
  <2>6. b \in W
    <3> HIDE DEF W
    <3> QED
      BY <1>4, <2>3, <2>4, <2>5 DEF Reaches
  <2> QED
    BY <2>6
<1>5. ASSUME NEW p \in Pipelines(schedule), NEW a \in Direct(p), NEW b \in Direct(p),
             Reaches(Local(p), Direct(p), a, b), NEW x \in LeavesIn(a), NEW y \in LeavesIn(b)
      PROVE  <<x, y>> \in OrderedBy(Edges, leaves)
  <2>1. x \in leaves /\ y \in leaves
    BY DEF LeavesIn
  <2>2. ASSUME NEW C \in SUBSET leaves, Successors(Edges, x) \subseteq C,
               \A n \in C : Successors(Edges, n) \subseteq C
        PROVE  y \in C
    <3>1. Closed(C)
      BY <2>2 DEF Closed
    <3> QED
      BY <1>4, <1>5, <2>2, <3>1
  <2>3. Reaches(Edges, leaves, x, y)
    BY <2>2 DEF Reaches
  <2>4. <<x, y>> \in leaves \X leaves /\ <<x, y>>[1] = x /\ <<x, y>>[2] = y
    BY <2>1
  <2> QED
    BY <2>3, <2>4 DEF OrderedBy
<1>6. ASSUME NEW o \in TokenOrder PROVE o \in OrderedBy(Edges, leaves)
  <2>1. o = <<o[1], o[2]>>
    BY DEF TokenOrder
  <2>2. <<o[1], o[2]>> \in TokenOrder
    BY <2>1
  <2>3. PICK p \in Pipelines(schedule) : \E a, b \in Direct(p) :
          Reaches(Local(p), Direct(p), a, b) /\ o[1] \in LeavesIn(a) /\ o[2] \in LeavesIn(b)
    BY <2>2, TokenOrderFacts
  <2>4. <<o[1], o[2]>> \in OrderedBy(Edges, leaves)
    BY <1>5, <2>3
  <2> QED
    BY <2>1, <2>4
<1> QED
  BY <1>6

------------------------------------------------------------------------------
(* The theorems. *)

(* When the analysis succeeds, the DAG has the edges of all pipelines, none  *)
(* of which has a cycle.                                                     *)
LEMMA AllAnalyzed == StageInv /\ phase = "done" => WellFormed(schedule) /\ AllAcyclic /\ dag = Edges
<1> SUFFICES ASSUME TypeOK, PassedInv, phase = "done"
             PROVE  WellFormed(schedule) /\ AllAcyclic /\ dag = Edges
  BY DEF StageInv
<1>1. Analyzed = Pipelines(schedule)
  BY DEF Analyzed, TypeOK
<1> QED
  BY <1>1 DEF TypeOK, PassedInv, AllAcyclic, Edges

(* buildGlobalStageDAG never orders two leaf stages that the tokens do not   *)
(* order, at whatever depth they are: it derives no signal for nothing.      *)
THEOREM DAGOrderIsJustified == Spec => []NoOrderAdded
<1>1. StageInv => NoOrderAdded
  BY AllAnalyzed, NothingAdded DEF NoOrderAdded, GlobalOrder
<1> QED
  BY <1>1, StageInvariant, PTL

(* ... and, where a stage holds at most one pipeline, it loses none of the   *)
(* token order either: the roots and the leaves of a stage enclose the rest. *)
THEOREM DAGOrderIsComplete == Spec => []OrderSurvivesNesting
<1>1. StageInv => OrderSurvivesNesting
  <2> SUFFICES ASSUME StageInv, SinglyNested(schedule), phase = "done" PROVE GlobalOrder = TokenOrder
    BY DEF OrderSurvivesNesting, GlobalOrderIsTokenOrder
  <2>1. GlobalOrder = OrderedBy(Edges, LeafStages(schedule)) /\ WellFormed(schedule) /\ AllAcyclic
    BY AllAnalyzed DEF GlobalOrder
  <2>2. \A o \in GlobalOrder : o \in TokenOrder
    BY <2>1, NothingAdded
  <2>3. \A o \in TokenOrder : o \in GlobalOrder
    BY <2>1, NothingLost
  <2> QED
    BY <2>2, <2>3
<1> QED
  BY <1>1, StageInvariant, PTL
=============================================================================
