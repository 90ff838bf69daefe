------------------------------ MODULE ArchViews ------------------------------
(* The views the passes take of a device: the routing graph of its memories  *)
(* and units, the tree of its memories, and the memory local to a unit.      *)
(*                                                                           *)
(* A device is the sequence of its operations in program order; "in" is the  *)
(* group an operation is directly in (0: the device itself):                 *)
(*   [op |-> "memory", in, kind]       [op |-> "unit", in, kind, feature]    *)
(*   [op |-> "group", in, kind, shared |-> values]                           *)
(*   [op |-> "datapath", in, source, target]  [op |-> "yield", in, values]   *)
(* A value is <<i, k>>, the k-th result of operation i, or <<-i, k>>, the    *)
(* k-th argument of the body of group i.  A group without kind has "".       *)
EXTENDS Integers, Sequences, FiniteSets, SequencesExt, FiniteSetsExt, TLC

None == "none"
Indices(s) == [i \in DOMAIN s |-> i]
OpsOf(d, op) == {i \in DOMAIN d : d[i].op = op}

------------------------------------------------------------------------------
(* RoutingGraph: nodes are numbered in the order they are added.             *)
AddNode(g, resource, kind, value) ==
  [g EXCEPT !.nodes = Append(@, [resource |-> resource, kind |-> kind]),
            !.of = (value :> Len(g.nodes) + 1) @@ @]

Yielded(d, i) == CHOOSE j \in OpsOf(d, "yield") : d[j].in = i

(* Of the groups of one kind only the first is entered; the results of the   *)
(* others become compute units named after the group.                        *)
ProcessGroup(d, g, i) ==
  IF d[i].kind # "" /\ d[i].kind \in g.seen
  THEN FoldLeft(LAMBDA h, k : AddNode(h, d[i].kind, "Compute", <<i, k>>),
                [g EXCEPT !.skipped = @ \cup {i}], Indices(d[Yielded(d, i)].values))
  ELSE [g EXCEPT
          !.seen = @ \cup {d[i].kind},
          !.of = [v \in {<<-i, k>> : k \in DOMAIN d[i].shared} |->
                    g.of[d[i].shared[v[2]]]] @@ @]

ProcessOp(d, g, i) ==
  CASE d[i].in \in g.skipped ->
         IF d[i].op = "group" THEN [g EXCEPT !.skipped = @ \cup {i}] ELSE g
    [] d[i].op = "memory" -> AddNode(g, d[i].kind, "Memory", <<i, 1>>)
    [] d[i].op = "unit" ->
         AddNode(g, d[i].kind,
                 IF d[i].feature \in {"load", "store"} THEN "LoadStoreUnit"
                 ELSE "Compute", <<i, 1>>)
    [] d[i].op = "group" -> ProcessGroup(d, g, i)
    [] d[i].op = "yield" ->
         [g EXCEPT !.of = [v \in {<<d[i].in, k>> : k \in DOMAIN d[i].values} |->
                             g.of[d[i].values[v[2]]]] @@ @]
    [] OTHER ->
         [g EXCEPT !.edges = Append(@, <<g.of[d[i].source], g.of[d[i].target]>>)]

RoutingGraph(d) ==
  FoldLeft(LAMBDA g, i : ProcessOp(d, g, i),
           [nodes |-> <<>>, edges |-> <<>>, of |-> <<>>, seen |-> {}, skipped |-> {}],
           Indices(d))

(* A datapath joins memories and units that are defined before it.           *)
JoinsNodes(g) ==
  /\ Len(g.nodes) \in Nat
  /\ g.edges \in Seq((1..Len(g.nodes)) \X (1..Len(g.nodes)))

NodesFor(g, resource) == {n \in DOMAIN g.nodes : g.nodes[n].resource = resource}
(* A node whose resource has several fails an assertion; without assertions  *)
(* it is the first.                                                          *)
NodeFor(g, resource) == Min(NodesFor(g, resource))

(* The breadth-first search: the queue holds the path to each node visited,  *)
(* and a neighbour not yet visited joins it behind the node taken.           *)
Visit(queue, path, n) ==
  IF \E i \in DOMAIN queue : Last(queue[i]) = n THEN queue
  ELSE Append(queue, Append(path, n))

Follow(queue, path, e) == IF e[1] = Last(path) THEN Visit(queue, path, e[2]) ELSE queue

VisitNeighbors(g, queue, path) ==
  LET after[i \in 0..Len(g.edges)] ==
        IF i = 0 THEN queue ELSE Follow(after[i - 1], path, g.edges[i])
  IN  after[Len(g.edges)]

Take(g, queue, k) ==
  IF k > Len(queue) THEN queue ELSE VisitNeighbors(g, queue, queue[k])

Search(g, source) ==
  LET after[k \in 0..Len(g.nodes)] ==
        IF k = 0 THEN <<<<source>>>> ELSE Take(g, after[k - 1], k)
  IN  after[Len(g.nodes)]

(* A slip: the search goes for the node visited last.                        *)
FindLastPath(g, source, target) ==
  LET lasts == {p \in Range(Search(g, source)) : <<Last(p), target>> \in Range(g.edges)}
  IN  IF lasts = {} THEN <<>>
      ELSE Append(CHOOSE p \in lasts : \A q \in lasts : Last(q) <= Last(p), target)

FindShortestPath(g, source, target) ==
  LET paths == {p \in Range(Search(g, source)) : Last(p) = target}
  IN  IF paths = {} THEN <<>> ELSE CHOOSE p \in paths : TRUE

(* The nodes at most n datapaths away.                                       *)
Farther(g, near) ==
  near \cup {g.edges[i][2] : i \in {j \in DOMAIN g.edges : g.edges[j][1] \in near}}

Within(g, source, n) ==
  LET near[k \in 0..n] ==
        IF k = 0 THEN {source} ELSE Farther(g, near[k - 1])
  IN  near[n]

------------------------------------------------------------------------------
(* MemoryTree: every memory of the device, in every group.                   *)
ScopeMemory(d) ==
  LET scope[i \in 0..Len(d)] ==
        IF i = 0 THEN <<0, 0>>
        ELSE IF d[i].shared # <<>> THEN d[i].shared[1] ELSE scope[d[i].in]
  IN  scope

(* Only the result of a memory operation is found again as a parent.         *)
Parent(d, i) == {j \in OpsOf(d, "memory") : ScopeMemory(d)[d[i].in] = <<j, 1>>}

Ancestors(d, i) ==
  LET up[j \in OpsOf(d, "memory")] ==
        Parent(d, j) \cup UNION {up[k] : k \in Parent(d, j)}
  IN  up[i]

Depth(d, i) == Cardinality(Ancestors(d, i))
RootOf(d, i) == CHOOSE j \in Ancestors(d, i) \cup {i} : Parent(d, j) = {}

(* A name of a memory is its kind, that of the last memory of a kind, or an  *)
(* alias: aliases is a sequence of pairs of an alias and a kind.             *)
Canonical(d, kind) == {Max({i \in OpsOf(d, "memory") : d[i].kind = k}) :
                         k \in {kind} \cap {d[i].kind : i \in OpsOf(d, "memory")}}
AliasTarget(d, aliases, name) ==
  LET known == {k \in DOMAIN aliases : aliases[k][1] = name
                                       /\ Canonical(d, aliases[k][2]) # {}}
  IN  IF known = {} THEN {} ELSE Canonical(d, aliases[Max(known)][2])
NodeForMemory(d, aliases, name) ==
  IF Canonical(d, name) # {} THEN Canonical(d, name) ELSE AliasTarget(d, aliases, name)
AreAliases(d, aliases, a, b) ==
  \/ a = b
  \/ /\ NodeForMemory(d, aliases, a) # {}
     /\ NodeForMemory(d, aliases, a) = NodeForMemory(d, aliases, b)

(* A node answers to its kind and to the last alias given to it.             *)
NamesOf(d, aliases, i) ==
  LET given == {k \in DOMAIN aliases : Canonical(d, aliases[k][2]) = {i}}
  IN  {d[i].kind} \cup (IF given = {} THEN {} ELSE {aliases[Max(given)][1]})

IsGlobalMemory(d, aliases, name) ==
  \E i \in OpsOf(d, "memory") : Depth(d, i) = 0 /\ name \in NamesOf(d, aliases, i)
IsPerCoreScratchPadMemory(d, aliases, name) ==
  \E i \in OpsOf(d, "memory") : Depth(d, i) = 1 /\ name \in NamesOf(d, aliases, i)
IsBelowScratchPad(d, aliases, name) ==
  \E i \in NodeForMemory(d, aliases, name) :
    \E j \in Ancestors(d, i) : Depth(d, j) = 1

------------------------------------------------------------------------------
(* GroupLocalMemory: the kinds of memory beside a unit in all its groups.    *)
LocalKinds(d, unit) ==
  LET groups == {d[i].in : i \in {j \in OpsOf(d, "unit") : d[j].kind = unit}} \ {0}
      kinds(g) == {d[i].kind : i \in {j \in OpsOf(d, "memory") : d[j].in = g}}
  IN  {k \in UNION {kinds(g) : g \in groups} : \A g \in groups : k \in kinds(g)}

LocalMemoryKind(d, unit) ==
  IF Cardinality(LocalKinds(d, unit)) = 1
  THEN CHOOSE k \in LocalKinds(d, unit) : TRUE ELSE None
=============================================================================
