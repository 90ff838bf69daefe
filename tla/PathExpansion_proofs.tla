------------------------ MODULE PathExpansion_proofs ------------------------
(* The routes of path expansion: the breadth-first search over the datapaths *)
(* of a device finds a path to every node that has one, and a shortest one,  *)
(* and the planning steps leave the routes as they were found.               *)
EXTENDS PathExpansion, Induction, SequenceTheorems

(* The queue holds nonempty paths.                                           *)
NodesAround(g, source) == {source} \cup (1..Len(g.nodes))
Queues(g, source) == Seq(Seq(NodesAround(g, source)) \ {<<>>})

(* What the search keeps while it follows the datapaths of the k-th path of  *)
(* the queue, the first e of the graph's already looked at: the queue holds  *)
(* paths from the source, no two to one node ...                             *)
PathsFrom(g, source, q) ==
  /\ q[1] = <<source>>
  /\ \A j \in 1..Len(q) :
       /\ q[j][1] = source
       /\ \A i \in 1..Len(q[j]) - 1 : <<q[j][i], q[j][i + 1]>> \in Range(g.edges)
  /\ \A i, j \in 1..Len(q) : Last(q[i]) = Last(q[j]) => i = j

(* ... by length, none longer by more than one than the one followed, and    *)
(* each longer by one than a path followed before ...                        *)
ByLength(q, k) ==
  /\ \A i, j \in 1..Len(q) : i <= j => Len(q[i]) <= Len(q[j])
  /\ \A j \in 1..Len(q) : Len(q[j]) <= Len(q[k]) + 1
  /\ \A j \in 2..Len(q) : \E i \in 1..k : Len(q[j]) = Len(q[i]) + 1

(* ... and what a datapath already followed leads to has been visited.       *)
Seen(q, n, length) == \E j \in 1..Len(q) : Last(q[j]) = n /\ Len(q[j]) <= length
Followed(g, q, k, e) ==
  \A i \in 1..Len(q), x \in 1..Len(g.edges) :
    /\ i < k \/ (i = k /\ x <= e)
    /\ g.edges[x][1] = Last(q[i])
    => Seen(q, g.edges[x][2], Len(q[i]) + 1)

Searched(g, source, q, k, e) ==
  /\ q \in Queues(g, source) /\ k \in 1..Len(q)
  /\ PathsFrom(g, source, q)
  /\ ByLength(q, k)
  /\ Followed(g, q, k, e)

(* The path to a neighbour. *)
LEMMA LongerPath ==
  ASSUME NEW V, NEW p \in Seq(V) \ {<<>>}, NEW n \in V
  PROVE  /\ Append(p, n) \in Seq(V) \ {<<>>}
         /\ Len(Append(p, n)) = Len(p) + 1 /\ Len(p) \in Nat \ {0}
         /\ Last(Append(p, n)) = n
         /\ \A i \in 1..Len(p) : Append(p, n)[i] = p[i]
         /\ Append(p, n)[1] = p[1]
<1>1. Len(p) \in Nat \ {0}
  BY EmptySeq
<1>2. Append(p, n) \in Seq(V) /\ Len(Append(p, n)) = Len(p) + 1
  OBVIOUS
<1>3. \A i \in 1..Len(p) : Append(p, n)[i] = p[i]
  OBVIOUS
<1>4. Last(Append(p, n)) = n
  BY <1>1, <1>2 DEF Last
<1>5. Append(p, n) # <<>>
  BY <1>1, <1>2
<1> QED
  BY <1>1, <1>2, <1>3, <1>4, <1>5

LEMMA VisitType ==
  ASSUME NEW g, NEW source, NEW q \in Queues(g, source),
         NEW p \in Seq(NodesAround(g, source)) \ {<<>>}, NEW n \in NodesAround(g, source)
  PROVE  Visit(q, p, n) \in Queues(g, source)
<1>1. Append(p, n) \in Seq(NodesAround(g, source)) \ {<<>>}
  BY LongerPath
<1>2. Append(q, Append(p, n)) \in Queues(g, source)
  BY <1>1 DEF Queues
<1> HIDE DEF Queues
<1> QED
  BY <1>2 DEF Visit

LEMMA FollowType ==
  ASSUME NEW g, JoinsNodes(g), NEW source, NEW q \in Queues(g, source),
         NEW p \in Seq(NodesAround(g, source)) \ {<<>>}, NEW e \in 1..Len(g.edges)
  PROVE  Follow(q, p, g.edges[e]) \in Queues(g, source)
<1>1. g.edges[e][2] \in NodesAround(g, source)
  BY DEF JoinsNodes, NodesAround
<1> QED
  BY <1>1, VisitType DEF Follow

(* Following the next datapath of the k-th path.                             *)
LEMMA FollowKeeps ==
  ASSUME NEW g, JoinsNodes(g), NEW source, NEW q, NEW k, NEW e \in 1..Len(g.edges),
         Searched(g, source, q, k, e - 1)
  PROVE  /\ Searched(g, source, Follow(q, q[k], g.edges[e]), k, e)
         /\ Follow(q, q[k], g.edges[e])[k] = q[k]
<1> DEFINE p == q[k]
           n == g.edges[e][2]
           V == NodesAround(g, source)
           L == Len(q)
<1>1. /\ L \in Nat /\ k \in 1..L /\ q \in Queues(g, source)
      /\ \A j \in 1..L : q[j] \in Seq(V) \ {<<>>}
  BY DEF Searched, Queues
<1>2. g.edges[e] \in (1..Len(g.nodes)) \X (1..Len(g.nodes)) /\ n \in V /\ e \in Nat
      /\ Len(g.edges) \in Nat /\ DOMAIN g.edges = 1..Len(g.edges)
  BY DEF JoinsNodes, NodesAround
<1>3. /\ Append(p, n) \in Seq(V) \ {<<>>}
      /\ Len(Append(p, n)) = Len(p) + 1 /\ Len(p) \in Nat \ {0}
      /\ Last(Append(p, n)) = n
      /\ \A i \in 1..Len(p) : Append(p, n)[i] = p[i]
      /\ Append(p, n)[1] = p[1]
  <2>1. p \in Seq(V) \ {<<>>} /\ n \in V
    BY <1>1, <1>2
  <2> HIDE DEF p, n, V
  <2> QED
    BY <2>1, LongerPath
<1>4. \A j \in 1..L : Len(q[j]) \in Nat \ {0}
  <2>1. TAKE j \in 1..L
  <2>2. q[j] \in Seq(V) /\ q[j] # <<>>
    BY <1>1
  <2> HIDE DEF V
  <2> QED
    BY <2>2, EmptySeq
<1>5. PathsFrom(g, source, q) /\ ByLength(q, k) /\ Followed(g, q, k, e - 1)
  BY DEF Searched
<1>6. DOMAIN q = 1..L
  BY <1>1 DEF Queues
\* A datapath of another node, or to a node visited before.
<1>7. ASSUME \/ g.edges[e][1] # Last(p)
             \/ \E j \in 1..L : Last(q[j]) = n
      PROVE  Searched(g, source, q, k, e)
  <2>1. SUFFICES Followed(g, q, k, e)
    BY <1>1, <1>5 DEF Searched
  <2>2. SUFFICES ASSUME NEW i \in 1..L, NEW x \in 1..Len(g.edges),
                        i < k \/ (i = k /\ x <= e), g.edges[x][1] = Last(q[i])
                 PROVE  Seen(q, g.edges[x][2], Len(q[i]) + 1)
    BY DEF Followed
  <2>3. CASE i < k \/ (i = k /\ x <= e - 1)
    BY <1>5, <2>2, <2>3 DEF Followed
  <2>4. CASE i = k /\ x = e
    <3>1. PICK j \in 1..L : Last(q[j]) = n
      BY <1>7, <2>2, <2>4
    <3>2. Len(q[j]) <= Len(q[k]) + 1
      BY <1>5 DEF ByLength
    <3> QED
      BY <2>4, <3>1, <3>2 DEF Seen
  <2>5. x \in Nat /\ i \in Nat /\ k \in Nat
    BY <1>1, <1>2
  <2> QED
    BY <1>2, <2>2, <2>3, <2>4, <2>5
\* A datapath to a node not yet visited.
<1>8. ASSUME g.edges[e][1] = Last(p), ~ \E j \in 1..L : Last(q[j]) = n
      PROVE  Searched(g, source, Append(q, Append(p, n)), k, e)
  <2> DEFINE r == Append(q, Append(p, n))
  <2>1. /\ r \in Queues(g, source) /\ Len(r) = L + 1
        /\ \A j \in 1..L : r[j] = q[j]
        /\ r[L + 1] = Append(p, n)
    BY <1>1, <1>3 DEF Queues
  <2> HIDE DEF r
  <2>2. k \in 1..Len(r) /\ r[k] = p /\ \A j \in 1..Len(r) : j \in 1..L \/ j = L + 1
    <3>1. L \in Nat /\ k \in 1..L
      BY <1>1
    <3>2. \A j \in 1..(L + 1) : j \in 1..L \/ j = L + 1
      BY <3>1
    <3>3. k \in 1..(L + 1)
      BY <3>1
    <3> QED
      BY <2>1, <3>1, <3>2, <3>3
  <2>3. PathsFrom(g, source, r)
    <3>1. r[1] = <<source>>
      BY <1>1, <1>5, <2>1 DEF PathsFrom
    <3>2. ASSUME NEW j \in 1..Len(r)
          PROVE  /\ r[j][1] = source
                 /\ \A i \in 1..Len(r[j]) - 1 : <<r[j][i], r[j][i + 1]>> \in Range(g.edges)
      <4>1. CASE j \in 1..L
        BY <1>5, <2>1, <4>1 DEF PathsFrom
      <4>2. CASE j = L + 1
        <5>1. r[j][1] = source
          BY <1>1, <1>3, <1>5, <2>1, <4>2 DEF PathsFrom
        <5>2. ASSUME NEW i \in 1..Len(r[j]) - 1
              PROVE  <<r[j][i], r[j][i + 1]>> \in Range(g.edges)
          <6>1. i \in 1..Len(p) /\ r[j] = Append(p, n) /\ r[j][i] = p[i]
            <7>1. r[j] = Append(p, n) /\ Len(r[j]) = Len(p) + 1
              BY <1>3, <2>1, <4>2
            <7>2. i \in 1..Len(p)
              BY <1>3, <7>1
            <7> QED
              BY <1>3, <7>1, <7>2
          <6>2. CASE i = Len(p)
            <7>1. r[j][i + 1] = n /\ p[i] = Last(p)
              BY <1>3, <6>1, <6>2 DEF Last
            <7>2. <<p[i], n>> = g.edges[e]
              BY <1>2, <1>8, <7>1
            <7> QED
              BY <1>2, <6>1, <7>1, <7>2 DEF Range
          <6>3. CASE i # Len(p)
            <7>1. i \in 1..Len(p) - 1 /\ i + 1 \in 1..Len(p)
              BY <1>3, <6>1, <6>3
            <7>2. r[j][i + 1] = p[i + 1]
              BY <1>3, <6>1, <7>1
            <7>3. <<p[i], p[i + 1]>> \in Range(g.edges)
              BY <1>1, <1>5, <7>1 DEF PathsFrom
            <7> QED
              BY <6>1, <7>2, <7>3
          <6> QED
            BY <6>2, <6>3
        <5> QED
          BY <5>1, <5>2
      <4> QED
        BY <2>2, <4>1, <4>2
    <3>3. ASSUME NEW i \in 1..Len(r), NEW j \in 1..Len(r), Last(r[i]) = Last(r[j])
          PROVE  i = j
      <4>1. CASE i \in 1..L /\ j \in 1..L
        BY <1>5, <2>1, <3>3, <4>1 DEF PathsFrom
      <4>2. CASE i \in 1..L /\ j = L + 1
        BY <1>3, <1>8, <2>1, <3>3, <4>2
      <4>3. CASE i = L + 1 /\ j \in 1..L
        BY <1>3, <1>8, <2>1, <3>3, <4>3
      <4>4. CASE i = L + 1 /\ j = L + 1
        BY <4>4
      <4> QED
        BY <2>2, <4>1, <4>2, <4>3, <4>4
    <3> QED
      BY <3>1, <3>2, <3>3 DEF PathsFrom
  <2>4. ByLength(r, k)
    <3>1. Len(r[L + 1]) = Len(p) + 1
      BY <1>3, <2>1
    <3>2. \A j \in 1..L : Len(r[j]) <= Len(p) + 1
      BY <1>5, <2>1 DEF ByLength
    <3>3. \A i, j \in 1..L : i <= j => Len(r[i]) <= Len(r[j])
      BY <1>5, <2>1 DEF ByLength
    <3>4. \A i, j \in 1..Len(r) : i <= j => Len(r[i]) <= Len(r[j])
      <4>1. SUFFICES ASSUME NEW i \in 1..Len(r), NEW j \in 1..Len(r), i <= j
                     PROVE  Len(r[i]) <= Len(r[j])
        OBVIOUS
      <4>2. CASE j \in 1..L
        <5>1. i \in 1..L
          BY <1>1, <2>1, <4>1, <4>2
        <5> QED
          BY <2>1, <3>3, <4>1, <4>2, <5>1
      <4>3. CASE j = L + 1
        BY <1>3, <2>2, <3>1, <3>2, <4>3
      <4> QED
        BY <2>2, <4>2, <4>3
    <3>5. \A j \in 1..Len(r) : Len(r[j]) <= Len(r[k]) + 1
      BY <1>3, <2>2, <3>1, <3>2
    <3>6. ASSUME NEW j \in 2..Len(r) PROVE \E i \in 1..k : Len(r[j]) = Len(r[i]) + 1
      <4>1. CASE j \in 2..L
        <5>1. PICK i \in 1..k : Len(q[j]) = Len(q[i]) + 1
          BY <1>5, <4>1 DEF ByLength
        <5>2. i \in 1..L /\ j \in 1..L
          BY <1>1, <4>1
        <5> QED
          BY <2>1, <5>1, <5>2
      <4>2. CASE j = L + 1
        BY <1>1, <2>2, <3>1, <4>2
      <4>3. j \in 1..Len(r) /\ j # 1
        BY <1>1, <2>1
      <4>4. j \in 2..L \/ j = L + 1
        BY <1>1, <2>2, <4>3
      <4> QED
        BY <4>1, <4>2, <4>4
    <3> QED
      BY <3>4, <3>5, <3>6 DEF ByLength
  <2>5. Followed(g, r, k, e)
    <3>1. SUFFICES ASSUME NEW i \in 1..Len(r), NEW x \in 1..Len(g.edges),
                          i < k \/ (i = k /\ x <= e), g.edges[x][1] = Last(r[i])
                   PROVE  Seen(r, g.edges[x][2], Len(r[i]) + 1)
      BY DEF Followed
    <3>2. i \in 1..L /\ r[i] = q[i] /\ x \in Nat
      BY <1>1, <1>2, <2>1, <2>2, <3>1
    <3>3. CASE i < k \/ (i = k /\ x <= e - 1)
      <4>1. Seen(q, g.edges[x][2], Len(q[i]) + 1)
        BY <1>5, <3>1, <3>2, <3>3 DEF Followed
      <4>2. PICK j \in 1..L : Last(q[j]) = g.edges[x][2] /\ Len(q[j]) <= Len(q[i]) + 1
        BY <4>1 DEF Seen
      <4>3. j \in 1..Len(r) /\ r[j] = q[j]
        BY <1>1, <2>1
      <4> QED
        BY <3>2, <4>2, <4>3 DEF Seen
    <3>4. CASE i = k /\ x = e
      <4>1. L + 1 \in 1..Len(r) /\ Last(r[L + 1]) = n /\ Len(r[L + 1]) <= Len(p) + 1
        BY <1>1, <1>3, <2>1
      <4> QED
        BY <3>2, <3>4, <4>1 DEF Seen
    <3>5. (i = k /\ x <= e) => x <= e - 1 \/ x = e
      BY <1>2, <3>2
    <3> QED
      BY <3>1, <3>3, <3>4, <3>5
  <2> QED
    BY <2>1, <2>2, <2>3, <2>4, <2>5 DEF Searched, r
<1>9. CASE \/ g.edges[e][1] # Last(p)
           \/ \E j \in 1..L : Last(q[j]) = n
  <2>1. Follow(q, q[k], g.edges[e]) = q
    BY <1>6, <1>9 DEF Follow, Visit
  <2> QED
    BY <1>7, <1>9, <2>1
<1>10. CASE ~(\/ g.edges[e][1] # Last(p)
              \/ \E j \in 1..L : Last(q[j]) = n)
  <2>1. Follow(q, q[k], g.edges[e]) = Append(q, Append(p, n))
    BY <1>6, <1>10 DEF Follow, Visit
  <2>2. Append(q, Append(p, n))[k] = q[k]
    BY <1>1, <1>3 DEF Queues
  <2> QED
    BY <1>8, <1>10, <2>1, <2>2
<1> QED
  BY <1>9, <1>10

(* The queue while the datapaths are gone through. *)
NeighborsTable(g, q, p, t) ==
  /\ t[0] = q
  /\ \A k \in 1..Len(g.edges) : t[k] = Follow(t[k - 1], p, g.edges[k])
  /\ VisitNeighbors(g, q, p) = t[Len(g.edges)]

LEMMA NeighborsTableExists ==
  ASSUME NEW g, JoinsNodes(g), NEW source, NEW q \in Queues(g, source),
         NEW p \in Seq(NodesAround(g, source)) \ {<<>>}
  PROVE  \E t : NeighborsTable(g, q, p, t)
<1> DEFINE n == Len(g.edges)
           S == Queues(g, source)
           step == [x \in (1..n) \X S |-> Follow(x[2], p, g.edges[x[1]])]
           Def(t) == t = [k \in 0..n |-> IF k = 0 THEN q ELSE Follow(t[k - 1], p, g.edges[k])]
           f == CHOOSE t : Def(t)
<1>1. n \in Nat /\ q \in S
  BY DEF JoinsNodes
<1>2. step \in [(1..n) \X S -> S]
  <2>1. \A x \in (1..n) \X S : Follow(x[2], p, g.edges[x[1]]) \in S
    BY FollowType
  <2> HIDE DEF S
  <2> QED
    BY <2>1
<1>3. PICK t : StepTable(n, S, q, step, t)
  <2> HIDE DEF n, S, step
  <2> QED
    BY <1>1, <1>2, StepRecursion
<1>4. Def(t)
  <2> DEFINE h == [k \in 0..n |-> IF k = 0 THEN q ELSE Follow(t[k - 1], p, g.edges[k])]
  <2>1. t \in [0..n -> S] /\ t[0] = q /\ \A k \in 1..n : t[k] = step[<<k, t[k - 1]>>]
    BY <1>3 DEF StepTable
  <2>2. ASSUME NEW k \in 0..n PROVE t[k] = h[k]
    <3>1. CASE k = 0
      BY <2>1, <3>1
    <3>2. CASE k # 0
      <4>1. k \in 1..n /\ k - 1 \in 0..n
        BY <1>1, <3>2
      <4>2. t[k - 1] \in S
        BY <2>1, <4>1
      <4>3. <<k, t[k - 1]>> \in (1..n) \X S
        BY <4>1, <4>2
      <4>4. t[k] = Follow(t[k - 1], p, g.edges[k])
        BY <2>1, <4>1, <4>3
      <4> QED
        BY <3>2, <4>4
    <3> QED
      BY <3>1, <3>2
  <2>3. t = [k \in 0..n |-> t[k]]
    BY <2>1
  <2> QED
    BY <2>2, <2>3
<1>5. Def(f)
  <2> HIDE DEF Def
  <2> QED
    BY <1>4
<1>6. VisitNeighbors(g, q, p) = f[n]
  BY DEF VisitNeighbors
<1> HIDE DEF f
<1>7. f[0] = q /\ \A k \in 1..n : f[k] = Follow(f[k - 1], p, g.edges[k])
  <2>1. \A k \in 0..n : f[k] = IF k = 0 THEN q ELSE Follow(f[k - 1], p, g.edges[k])
    BY <1>5
  <2>2. 0 \in 0..n /\ \A k \in 1..n : k \in 0..n /\ k # 0
    BY <1>1
  <2> HIDE DEF n
  <2> QED
    BY <2>1, <2>2
<1> QED
  BY <1>6, <1>7 DEF NeighborsTable

LEMMA NeighborsType ==
  ASSUME NEW g, JoinsNodes(g), NEW source, NEW q \in Queues(g, source),
         NEW p \in Seq(NodesAround(g, source)) \ {<<>>}
  PROVE  VisitNeighbors(g, q, p) \in Queues(g, source)
<1>1. PICK t : NeighborsTable(g, q, p, t)
  BY NeighborsTableExists
<1> DEFINE n == Len(g.edges)
           T == {k \in 0..n : t[k] \in Queues(g, source)}
<1>2. n \in Nat
  BY DEF JoinsNodes
<1>3. 0 \in T
  BY <1>1, <1>2 DEF NeighborsTable
<1>4. ASSUME NEW k \in 1..n, k - 1 \in T PROVE k \in T
  <2>1. t[k] = Follow(t[k - 1], p, g.edges[k])
    BY <1>1 DEF NeighborsTable
  <2>2. t[k] \in Queues(g, source)
    BY <1>4, <2>1, FollowType
  <2> QED
    BY <1>2, <2>2
<1>5. \A k \in 0..n : k \in T
  <2> HIDE DEF n, T
  <2> QED
    BY <1>2, <1>3, <1>4, UpTo
<1>6. n \in T
  BY <1>2, <1>5
<1> QED
  BY <1>1, <1>6 DEF NeighborsTable

(* All datapaths of the k-th path have been followed.                        *)
LEMMA NeighborsKeep ==
  ASSUME NEW g, JoinsNodes(g), NEW source, NEW q, NEW k, Searched(g, source, q, k, 0)
  PROVE  Searched(g, source, VisitNeighbors(g, q, q[k]), k, Len(g.edges))
<1> DEFINE n == Len(g.edges)
<1>1. n \in Nat /\ q \in Queues(g, source) /\ q[k] \in Seq(NodesAround(g, source)) \ {<<>>}
  BY DEF JoinsNodes, Searched, Queues
<1>2. PICK t : NeighborsTable(g, q, q[k], t)
  BY <1>1, NeighborsTableExists
<1> DEFINE T == {e \in 0..n : Searched(g, source, t[e], k, e) /\ t[e][k] = q[k]}
<1>3. 0 \in T
  BY <1>1, <1>2 DEF NeighborsTable
<1>4. ASSUME NEW e \in 1..n, e - 1 \in T PROVE e \in T
  <2>1. Searched(g, source, t[e - 1], k, e - 1) /\ t[e - 1][k] = q[k]
    BY <1>4
  <2>2. t[e] = Follow(t[e - 1], t[e - 1][k], g.edges[e])
    BY <1>2, <2>1 DEF NeighborsTable
  <2>3. Searched(g, source, t[e], k, e) /\ t[e][k] = t[e - 1][k]
    BY <2>1, <2>2, FollowKeeps
  <2> QED
    BY <1>1, <2>1, <2>3
<1>5. \A e \in 0..n : e \in T
  <2> HIDE DEF n, T
  <2> QED
    BY <1>1, <1>3, <1>4, UpTo
<1>6. n \in T
  BY <1>1, <1>5
<1> QED
  BY <1>2, <1>6 DEF NeighborsTable

LEMMA TakeType ==
  ASSUME NEW g, JoinsNodes(g), NEW source, NEW q \in Queues(g, source), NEW k \in Nat \ {0}
  PROVE  Take(g, q, k) \in Queues(g, source)
<1>1. CASE k > Len(q)
  BY <1>1 DEF Take
<1>2. CASE ~(k > Len(q))
  <2>1. k \in 1..Len(q) /\ q[k] \in Seq(NodesAround(g, source)) \ {<<>>}
    BY <1>2 DEF Queues
  <2>2. Take(g, q, k) = VisitNeighbors(g, q, q[k])
    BY <1>2 DEF Take
  <2> QED
    BY <2>1, <2>2, NeighborsType
<1> QED
  BY <1>1, <1>2

(* The queue while its paths are gone through. *)
SearchTable(g, source, t) ==
  /\ t[0] = <<<<source>>>>
  /\ \A k \in 1..Len(g.nodes) : t[k] = Take(g, t[k - 1], k)
  /\ Search(g, source) = t[Len(g.nodes)]

LEMMA SearchTableExists ==
  ASSUME NEW g, JoinsNodes(g), NEW source
  PROVE  \E t : SearchTable(g, source, t)
<1> DEFINE n == Len(g.nodes)
           S == Queues(g, source)
           step == [x \in (1..n) \X S |-> Take(g, x[2], x[1])]
           Def(t) == t = [k \in 0..n |-> IF k = 0 THEN <<<<source>>>> ELSE Take(g, t[k - 1], k)]
           f == CHOOSE t : Def(t)
<1>1. n \in Nat /\ <<<<source>>>> \in S
  BY DEF JoinsNodes, Queues, NodesAround
<1>2. step \in [(1..n) \X S -> S]
  <2>1. \A x \in (1..n) \X S : Take(g, x[2], x[1]) \in S
    BY TakeType
  <2> HIDE DEF S
  <2> QED
    BY <2>1
<1>3. PICK t : StepTable(n, S, <<<<source>>>>, step, t)
  <2> HIDE DEF n, S, step
  <2> QED
    BY <1>1, <1>2, StepRecursion
<1>4. Def(t)
  <2> DEFINE h == [k \in 0..n |-> IF k = 0 THEN <<<<source>>>> ELSE Take(g, t[k - 1], k)]
  <2>1. t \in [0..n -> S] /\ t[0] = <<<<source>>>> /\ \A k \in 1..n : t[k] = step[<<k, t[k - 1]>>]
    BY <1>3 DEF StepTable
  <2>2. ASSUME NEW k \in 0..n PROVE t[k] = h[k]
    <3>1. CASE k = 0
      BY <2>1, <3>1
    <3>2. CASE k # 0
      <4>1. k \in 1..n /\ k - 1 \in 0..n
        BY <1>1, <3>2
      <4>2. t[k - 1] \in S
        BY <2>1, <4>1
      <4>3. <<k, t[k - 1]>> \in (1..n) \X S
        BY <4>1, <4>2
      <4>4. t[k] = Take(g, t[k - 1], k)
        BY <2>1, <4>1, <4>3
      <4> QED
        BY <3>2, <4>4
    <3> QED
      BY <3>1, <3>2
  <2>3. t = [k \in 0..n |-> t[k]]
    BY <2>1
  <2> QED
    BY <2>2, <2>3
<1>5. Def(f)
  <2> HIDE DEF Def
  <2> QED
    BY <1>4
<1>6. Search(g, source) = f[n]
  BY DEF Search
<1> HIDE DEF f
<1>7. f[0] = <<<<source>>>> /\ \A k \in 1..n : f[k] = Take(g, f[k - 1], k)
  <2>1. \A k \in 0..n : f[k] = IF k = 0 THEN <<<<source>>>> ELSE Take(g, f[k - 1], k)
    BY <1>5
  <2>2. 0 \in 0..n /\ \A k \in 1..n : k \in 0..n /\ k # 0
    BY <1>1
  <2> HIDE DEF n
  <2> QED
    BY <2>1, <2>2
<1> QED
  BY <1>6, <1>7 DEF SearchTable

(* The search has taken k paths from the queue, or all.                      *)
Taken(g, source, q, k) ==
  IF k + 1 <= Len(q) THEN Searched(g, source, q, k + 1, 0)
  ELSE Searched(g, source, q, Len(q), Len(g.edges))

LEMMA TakeKeeps ==
  ASSUME NEW g, JoinsNodes(g), NEW source, NEW q, NEW k \in Nat \ {0},
         Taken(g, source, q, k - 1)
  PROVE  Taken(g, source, Take(g, q, k), k)
<1>1. q \in Queues(g, source) /\ Len(q) \in Nat
  BY DEF Taken, Searched, Queues
<1>2. CASE k > Len(q)
  <2>1. Take(g, q, k) = q /\ ~(k <= Len(q)) /\ ~(k + 1 <= Len(q)) /\ (k - 1) + 1 = k
    BY <1>1, <1>2 DEF Take
  <2> QED
    BY <2>1 DEF Taken
<1>3. CASE k <= Len(q)
  <2> DEFINE r == Take(g, q, k)
  <2>1. Searched(g, source, q, k, 0)
    BY <1>3 DEF Taken
  <2>2. r = VisitNeighbors(g, q, q[k])
    BY <1>1, <1>3 DEF Take
  <2>3. Searched(g, source, r, k, Len(g.edges))
    BY <2>1, <2>2, NeighborsKeep
  <2> HIDE DEF r
  <2>4. r \in Queues(g, source) /\ Len(r) \in Nat /\ k \in 1..Len(r)
    BY <2>3 DEF Searched, Queues
  <2>5. ASSUME ~(k + 1 <= Len(r)) PROVE Taken(g, source, r, k)
    <3>1. k = Len(r)
      BY <2>4, <2>5
    <3> QED
      BY <2>3, <2>5, <3>1 DEF Taken
  <2>6. ASSUME k + 1 <= Len(r) PROVE Taken(g, source, r, k)
    <3>1. k + 1 \in 1..Len(r)
      BY <2>4, <2>6
    <3>2. ByLength(r, k + 1)
      <4>1. ByLength(r, k) /\ \A j \in 1..Len(r) : Len(r[j]) \in Nat
        BY <2>3, <2>4 DEF Searched, Queues
      <4>2. Len(r[k]) <= Len(r[k + 1])
        BY <2>4, <3>1, <4>1 DEF ByLength
      <4>3. \A j \in 1..Len(r) : Len(r[j]) <= Len(r[k + 1]) + 1
        BY <2>4, <3>1, <4>1, <4>2 DEF ByLength
      <4>4. \A j \in 2..Len(r) : \E i \in 1..(k + 1) : Len(r[j]) = Len(r[i]) + 1
        <5>1. \A i \in 1..k : i \in 1..(k + 1)
          BY <2>4
        <5> QED
          BY <4>1, <5>1 DEF ByLength
      <4> QED
        BY <4>1, <4>3, <4>4 DEF ByLength
    <3>3. Followed(g, r, k + 1, 0)
      <4>1. SUFFICES ASSUME NEW i \in 1..Len(r), NEW x \in 1..Len(g.edges),
                            i < k + 1 \/ (i = k + 1 /\ x <= 0), g.edges[x][1] = Last(r[i])
                     PROVE  Seen(r, g.edges[x][2], Len(r[i]) + 1)
        BY DEF Followed
      <4>2. Len(g.edges) \in Nat
        BY DEF JoinsNodes
      <4>3. i < k \/ (i = k /\ x <= Len(g.edges))
        BY <2>4, <4>1, <4>2
      <4> QED
        BY <2>3, <4>1, <4>3 DEF Searched, Followed
    <3> QED
      BY <2>3, <2>6, <3>1, <3>2, <3>3 DEF Searched, Taken
  <2> QED
    BY <2>5, <2>6 DEF r
<1> QED
  BY <1>1, <1>2, <1>3

LEMMA SearchStart ==
  ASSUME NEW g, JoinsNodes(g), NEW source
  PROVE  Taken(g, source, <<<<source>>>>, 0)
<1> DEFINE q == <<<<source>>>>
<1>1. /\ q \in Queues(g, source) /\ Len(q) = 1 /\ q[1] = <<source>>
      /\ Len(q[1]) = 1 /\ q[1][1] = source
  BY DEF Queues, NodesAround
<1>2. \A j \in 1..Len(q) : j = 1
  BY <1>1
<1> HIDE DEF q
<1>3. PathsFrom(g, source, q)
  BY <1>1, <1>2 DEF PathsFrom
<1>4. ByLength(q, 1)
  <2>1. 2..Len(q) = {}
    BY <1>1
  <2>2. \A j \in 1..Len(q) : Len(q[j]) = 1
    BY <1>1, <1>2
  <2>3. \A i, j \in 1..Len(q) : i <= j => Len(q[i]) <= Len(q[j])
    BY <2>2
  <2>4. \A j \in 1..Len(q) : Len(q[j]) <= Len(q[1]) + 1
    <3>1. Len(q[1]) = 1
      BY <1>1
    <3> QED
      BY <2>2, <3>1
  <2> QED
    BY <2>1, <2>3, <2>4 DEF ByLength
<1>5. Followed(g, q, 1, 0)
  <2>1. Len(g.edges) \in Nat
    BY DEF JoinsNodes
  <2> QED
    BY <1>2, <2>1 DEF Followed
<1>6. Searched(g, source, q, 1, 0)
  BY <1>1, <1>3, <1>4, <1>5 DEF Searched
<1> QED
  BY <1>1, <1>6 DEF Taken, q

LEMMA SearchKeeps ==
  ASSUME NEW g, JoinsNodes(g), NEW source
  PROVE  Taken(g, source, Search(g, source), Len(g.nodes))
<1> DEFINE n == Len(g.nodes)
<1>1. n \in Nat
  BY DEF JoinsNodes
<1>2. PICK t : SearchTable(g, source, t)
  BY SearchTableExists
<1> DEFINE T == {k \in 0..n : Taken(g, source, t[k], k)}
<1>3. 0 \in T
  BY <1>1, <1>2, SearchStart DEF SearchTable
<1>4. ASSUME NEW k \in 1..n, k - 1 \in T PROVE k \in T
  <2>1. t[k] = Take(g, t[k - 1], k)
    BY <1>2 DEF SearchTable
  <2>2. Taken(g, source, t[k], k)
    BY <1>4, <2>1, TakeKeeps
  <2> QED
    BY <1>1, <2>2
<1>5. \A k \in 0..n : k \in T
  <2> HIDE DEF n, T
  <2> QED
    BY <1>1, <1>3, <1>4, UpTo
<1>6. n \in T
  BY <1>1, <1>5
<1> QED
  BY <1>2, <1>6 DEF SearchTable

LEMMA FartherType ==
  ASSUME NEW g, JoinsNodes(g), NEW source, NEW near \in SUBSET NodesAround(g, source)
  PROVE  Farther(g, near) \in SUBSET NodesAround(g, source)
<1>1. \A i \in DOMAIN g.edges : g.edges[i][2] \in NodesAround(g, source)
  BY DEF JoinsNodes, NodesAround
<1> QED
  BY <1>1 DEF Farther

(* The nodes at most k datapaths away, for every k up to m. *)
WithinTable(g, source, m, t) ==
  /\ t[0] = {source}
  /\ \A k \in 1..m : t[k] = Farther(g, t[k - 1])
  /\ Within(g, source, m) = t[m]

LEMMA WithinTableExists ==
  ASSUME NEW g, JoinsNodes(g), NEW source, NEW m \in Nat
  PROVE  \E t : WithinTable(g, source, m, t)
<1> DEFINE n == m
           S == SUBSET NodesAround(g, source)
           step == [x \in (1..n) \X S |-> Farther(g, x[2])]
           Def(t) == t = [k \in 0..n |-> IF k = 0 THEN {source} ELSE Farther(g, t[k - 1])]
           f == CHOOSE t : Def(t)
<1>1. n \in Nat /\ {source} \in S
  BY DEF NodesAround
<1>2. step \in [(1..n) \X S -> S]
  <2>1. \A x \in (1..n) \X S : Farther(g, x[2]) \in S
    BY FartherType
  <2> HIDE DEF S
  <2> QED
    BY <2>1
<1>3. PICK t : StepTable(n, S, {source}, step, t)
  <2> HIDE DEF n, S, step
  <2> QED
    BY <1>1, <1>2, StepRecursion
<1>4. Def(t)
  <2> DEFINE h == [k \in 0..n |-> IF k = 0 THEN {source} ELSE Farther(g, t[k - 1])]
  <2>1. t \in [0..n -> S] /\ t[0] = {source} /\ \A k \in 1..n : t[k] = step[<<k, t[k - 1]>>]
    BY <1>3 DEF StepTable
  <2>2. ASSUME NEW k \in 0..n PROVE t[k] = h[k]
    <3>1. CASE k = 0
      BY <2>1, <3>1
    <3>2. CASE k # 0
      <4>1. k \in 1..n /\ k - 1 \in 0..n
        BY <1>1, <3>2
      <4>2. t[k - 1] \in S
        BY <2>1, <4>1
      <4>3. <<k, t[k - 1]>> \in (1..n) \X S
        BY <4>1, <4>2
      <4>4. t[k] = Farther(g, t[k - 1])
        BY <2>1, <4>1, <4>3
      <4> QED
        BY <3>2, <4>4
    <3> QED
      BY <3>1, <3>2
  <2>3. t = [k \in 0..n |-> t[k]]
    BY <2>1
  <2> QED
    BY <2>2, <2>3
<1>5. Def(f)
  <2> HIDE DEF Def
  <2> QED
    BY <1>4
<1>6. Within(g, source, m) = f[n]
  BY DEF Within
<1> HIDE DEF f
<1>7. f[0] = {source} /\ \A k \in 1..n : f[k] = Farther(g, f[k - 1])
  <2>1. \A k \in 0..n : f[k] = IF k = 0 THEN {source} ELSE Farther(g, f[k - 1])
    BY <1>5
  <2>2. 0 \in 0..n /\ \A k \in 1..n : k \in 0..n /\ k # 0
    BY <1>1
  <2> HIDE DEF n
  <2> QED
    BY <2>1, <2>2
<1> QED
  BY <1>6, <1>7 DEF WithinTable

(* A path of the queue, and the nodes fewer datapaths away: they have been   *)
(* visited, for all paths that much shorter have been followed.              *)
LEMMA NearSeen ==
  ASSUME NEW g, JoinsNodes(g), NEW source, NEW q, NEW k, NEW e,
         Searched(g, source, q, k, e), NEW j \in 1..Len(q), Len(q[j]) > 1
  PROVE  \A n \in Within(g, source, Len(q[j]) - 2) : Seen(q, n, Len(q[j]) - 1)
<1> DEFINE L == Len(q[j])
<1>1. /\ Len(q) \in Nat /\ k \in 1..Len(q)
      /\ \A i \in 1..Len(q) : Len(q[i]) \in Nat
  BY DEF Searched, Queues
<1>2. L \in Nat /\ L > 1 /\ L - 2 \in Nat
  BY <1>1
<1>3. PathsFrom(g, source, q) /\ ByLength(q, k) /\ Followed(g, q, k, e)
  BY DEF Searched
\* The path was found from one before the k-th.
<1>4. PICK b \in 1..k : L = Len(q[b]) + 1
  <2>1. j # 1
    <3>1. Len(<<source>>) = 1
      OBVIOUS
    <3> QED
      BY <1>2, <1>3, <3>1 DEF PathsFrom
  <2>2. j \in 2..Len(q)
    BY <1>1, <2>1
  <2> QED
    BY <1>3, <2>2 DEF ByLength
<1>5. b \in 1..Len(q)
  BY <1>1
<1>6. PICK t : WithinTable(g, source, L - 2, t)
  BY <1>2, WithinTableExists
<1> DEFINE T == {d \in 0..(L - 2) : \A n \in t[d] : Seen(q, n, d + 1)}
<1>7. 0 \in T
  <2>1. t[0] = {source}
    BY <1>6 DEF WithinTable
  <2>2. 1 \in 1..Len(q) /\ Last(q[1]) = source /\ Len(q[1]) = 1
    <3>1. Last(<<source>>) = source /\ Len(<<source>>) = 1
      BY DEF Last
    <3> QED
      BY <1>1, <1>3, <3>1 DEF PathsFrom
  <2>3. Seen(q, source, 0 + 1)
    BY <2>2 DEF Seen
  <2> QED
    BY <1>2, <2>1, <2>3
<1>8. ASSUME NEW d \in 1..(L - 2), d - 1 \in T PROVE d \in T
  <2>1. t[d] = Farther(g, t[d - 1])
    BY <1>6 DEF WithinTable
  <2>2. \A n \in t[d - 1] : Seen(q, n, d)
    BY <1>8
  <2>3. d \in Nat /\ d <= L - 2
    BY <1>2
  <2>4. ASSUME NEW n \in t[d] PROVE Seen(q, n, d + 1)
    <3>1. CASE n \in t[d - 1]
      <4>1. PICK i \in 1..Len(q) : Last(q[i]) = n /\ Len(q[i]) <= d
        BY <2>2, <3>1 DEF Seen
      <4>2. Len(q[i]) <= d + 1
        BY <1>1, <2>3, <4>1
      <4> QED
        BY <4>1, <4>2 DEF Seen
    <3>2. CASE n \notin t[d - 1]
      <4>1. PICK x \in DOMAIN g.edges : n = g.edges[x][2] /\ g.edges[x][1] \in t[d - 1]
        BY <2>1, <3>2 DEF Farther
      <4>2. x \in 1..Len(g.edges)
        <5>1. DOMAIN g.edges = 1..Len(g.edges)
          BY DEF JoinsNodes
        <5> QED
          BY <5>1
      <4>3. PICK i \in 1..Len(q) : Last(q[i]) = g.edges[x][1] /\ Len(q[i]) <= d
        BY <2>2, <4>1 DEF Seen
      <4>4. i < b
        <5>1. ~(Len(q[b]) <= Len(q[i]))
          BY <1>1, <1>2, <1>4, <1>5, <2>3, <4>3
        <5>2. ~(b <= i)
          BY <1>3, <1>5, <5>1 DEF ByLength
        <5> QED
          BY <1>5, <5>2
      <4>5. i < k
        BY <1>1, <1>4, <4>4
      <4>6. Seen(q, n, Len(q[i]) + 1)
        BY <1>3, <4>1, <4>2, <4>3, <4>5 DEF Followed
      <4>7. PICK h \in 1..Len(q) : Last(q[h]) = n /\ Len(q[h]) <= Len(q[i]) + 1
        BY <4>6 DEF Seen
      <4>8. Len(q[h]) <= d + 1
        BY <1>1, <2>3, <4>3, <4>7
      <4> QED
        BY <4>7, <4>8 DEF Seen
    <3> QED
      BY <3>1, <3>2
  <2>5. d \in 0..(L - 2)
    BY <1>2
  <2> QED
    BY <2>4, <2>5
<1>9. \A d \in 0..(L - 2) : d \in T
  <2> HIDE DEF L, T
  <2> QED
    BY <1>2, <1>7, <1>8, UpTo
<1>10. L - 2 \in T /\ (L - 2) + 1 = L - 1
  BY <1>2, <1>9
<1>11. Within(g, source, L - 2) = t[L - 2]
  BY <1>6 DEF WithinTable
<1> QED
  BY <1>10, <1>11

------------------------------------------------------------------------------
(* What a route is. *)
IsRoute(g, path) ==
  /\ \A k \in 1 .. Len(path) - 1 : <<path[k], path[k + 1]>> \in Range(g.edges)
  /\ Len(path) > 1 => Last(path) \notin Within(g, path[1], Len(path) - 2)

(* The path found to a node that is reached runs over datapaths from the     *)
(* source to it, and no path is shorter (RoutingGraph::findShortestPath).    *)
THEOREM ShortestPathFound ==
  ASSUME NEW g, JoinsNodes(g), NEW source, NEW target,
         FindShortestPath(g, source, target) # <<>>
  PROVE  /\ IsRoute(g, FindShortestPath(g, source, target))
         /\ FindShortestPath(g, source, target)[1] = source
         /\ Last(FindShortestPath(g, source, target)) = target
<1> DEFINE q == Search(g, source)
           path == FindShortestPath(g, source, target)
<1>1. PICK k, e : Searched(g, source, q, k, e)
  BY SearchKeeps DEF Taken
<1> HIDE DEF q
<1>2. /\ DOMAIN q = 1..Len(q) /\ Len(q) \in Nat
      /\ \A j \in 1..Len(q) : Len(q[j]) \in Nat
      /\ PathsFrom(g, source, q)
  BY <1>1 DEF Searched, Queues
<1>3. \E p \in Range(q) : Last(p) = target /\ path = p
  BY DEF FindShortestPath, q
<1>4. PICK j \in 1..Len(q) : path = q[j] /\ Last(q[j]) = target
  BY <1>2, <1>3 DEF Range
<1>5. /\ path[1] = source
      /\ \A i \in 1 .. Len(path) - 1 : <<path[i], path[i + 1]>> \in Range(g.edges)
  BY <1>2, <1>4 DEF PathsFrom
<1> HIDE DEF path
<1>6. ASSUME Len(path) > 1, Last(path) \in Within(g, source, Len(path) - 2) PROVE FALSE
  <2>1. Seen(q, Last(q[j]), Len(q[j]) - 1)
    BY <1>1, <1>4, <1>6, NearSeen
  <2>2. PICK i \in 1..Len(q) : Last(q[i]) = Last(q[j]) /\ Len(q[i]) <= Len(q[j]) - 1
    BY <2>1 DEF Seen
  <2>3. i = j
    BY <1>2, <2>2 DEF PathsFrom
  <2> QED
    BY <1>2, <2>2, <2>3
<1> QED
  BY <1>4, <1>5, <1>6 DEF path, IsRoute

(* A queue of paths to different nodes holds no more than there are nodes.   *)
LEMMA QueueFits ==
  ASSUME NEW g, JoinsNodes(g), NEW source \in 1..Len(g.nodes),
         NEW q \in Queues(g, source), PathsFrom(g, source, q)
  PROVE  Len(q) <= Len(g.nodes)
<1> DEFINE N == Len(g.nodes)
           f == [j \in 1..Len(q) |-> Last(q[j])]
<1>1. N \in Nat /\ Len(q) \in Nat
  BY DEF JoinsNodes, Queues
<1>2. ASSUME NEW j \in 1..Len(q) PROVE Last(q[j]) \in 1..N
  <2>1. NodesAround(g, source) = 1..N
    BY DEF NodesAround
  <2>2. q[j] \in Seq(1..N) /\ q[j] # <<>>
    BY <2>1 DEF Queues
  <2>3. Len(q[j]) \in Nat \ {0}
    BY <2>2, EmptySeq
  <2> QED
    BY <2>2, <2>3 DEF Last
<1>3. f \in Injection(1..Len(q), 1..N)
  <2>1. f \in [1..Len(q) -> 1..N]
    BY <1>2
  <2>2. \A i, j \in 1..Len(q) : f[i] = f[j] => i = j
    BY DEF PathsFrom
  <2> QED
    BY <2>1, <2>2 DEF Injection, IsInjective
<1>4. /\ IsFiniteSet(1..N) /\ Cardinality(1..N) = N
      /\ Cardinality(1..Len(q)) = Len(q)
  <2>1. \A a \in Nat : IsFiniteSet(1..a) /\ Cardinality(1..a) = a
    BY FS_Interval
  <2> HIDE DEF N
  <2> QED
    BY <1>1, <2>1
<1>5. Cardinality(1..Len(q)) <= Cardinality(1..N)
  <2> HIDE DEF f, N
  <2> QED
    BY <1>3, <1>4, FS_Injection
<1> QED
  BY <1>4, <1>5

(* A node to which no path is found cannot be reached over any number of     *)
(* datapaths, so that a pipeline is never given up for want of a route that  *)
(* the device has (RoutingGraph::findShortestPath).                          *)
THEOREM NoPathMissed ==
  ASSUME NEW g, JoinsNodes(g), NEW source \in 1..Len(g.nodes), NEW target, NEW m \in Nat,
         FindShortestPath(g, source, target) = <<>>
  PROVE  target \notin Within(g, source, m)
<1> DEFINE q == Search(g, source)
           N == Len(g.nodes)
<1>1. Taken(g, source, q, N) /\ N \in Nat
  BY SearchKeeps DEF JoinsNodes
<1> HIDE DEF q, N
<1>2. PICK k, e : Searched(g, source, q, k, e)
  BY <1>1 DEF Taken
<1>3. /\ q \in Queues(g, source) /\ PathsFrom(g, source, q)
      /\ DOMAIN q = 1..Len(q) /\ Len(q) \in Nat
  BY <1>2 DEF Searched, Queues
<1>4. Len(q) <= N
  BY <1>3, QueueFits DEF N
<1>5. Searched(g, source, q, Len(q), Len(g.edges))
  BY <1>1, <1>3, <1>4 DEF Taken
<1> DEFINE Found == {Last(q[j]) : j \in 1..Len(q)}
<1>6. \A x \in DOMAIN g.edges : g.edges[x][1] \in Found => g.edges[x][2] \in Found
  <2>1. SUFFICES ASSUME NEW x \in DOMAIN g.edges, g.edges[x][1] \in Found
                 PROVE  g.edges[x][2] \in Found
    OBVIOUS
  <2>2. PICK i \in 1..Len(q) : Last(q[i]) = g.edges[x][1]
    BY <2>1
  <2>3. DOMAIN g.edges = 1..Len(g.edges) /\ Len(g.edges) \in Nat
    BY DEF JoinsNodes
  <2>4. x \in 1..Len(g.edges) /\ (i < Len(q) \/ (i = Len(q) /\ x <= Len(g.edges)))
    <3>1. i < Len(q) \/ i = Len(q)
      <4>1. Len(q) \in Nat
        BY <1>3
      <4> QED
        BY <4>1
    <3>2. x \in 1..Len(g.edges)
      BY <2>3
    <3>3. x <= Len(g.edges)
      BY <2>3, <3>2
    <3> QED
      BY <3>1, <3>2, <3>3
  <2>5. Followed(g, q, Len(q), Len(g.edges))
    BY <1>5 DEF Searched
  <2>6. Seen(q, g.edges[x][2], Len(q[i]) + 1)
    BY <2>2, <2>4, <2>5 DEF Followed
  <2> QED
    BY <2>6 DEF Seen
<1>7. source \in Found
  <2>1. 1 \in 1..Len(q) /\ q[1] = <<source>>
    BY <1>3, <1>5 DEF Searched, PathsFrom
  <2>2. Last(<<source>>) = source
    BY DEF Last
  <2> QED
    BY <2>1, <2>2
<1>8. target \notin Found
  <2>1. SUFFICES ASSUME NEW j \in 1..Len(q), Last(q[j]) = target PROVE FALSE
    OBVIOUS
  <2>2. q[j] \in Range(q)
    BY <1>3 DEF Range
  <2>3. {p \in Range(q) : Last(p) = target} # {}
    BY <2>1, <2>2
  <2>4. \A p \in Range(q) : p # <<>>
    BY <1>3 DEF Range, Queues
  <2>5. FindShortestPath(g, source, target) \in Range(q)
    BY <2>3 DEF FindShortestPath, q
  <2> QED
    BY <2>4, <2>5
<1>9. PICK t : WithinTable(g, source, m, t)
  BY WithinTableExists
<1> DEFINE T == {d \in 0..m : t[d] \subseteq Found}
<1> HIDE DEF Found
<1>10. 0 \in T
  BY <1>7, <1>9 DEF WithinTable
<1>11. ASSUME NEW d \in 1..m, d - 1 \in T PROVE d \in T
  <2>1. t[d] = Farther(g, t[d - 1]) /\ t[d - 1] \subseteq Found
    BY <1>9, <1>11 DEF WithinTable
  <2>2. t[d] \subseteq Found
    BY <1>6, <2>1 DEF Farther
  <2> QED
    BY <2>2
<1>12. \A d \in 0..m : d \in T
  <2> HIDE DEF T
  <2> QED
    BY <1>10, <1>11, UpTo
<1>13. t[m] \subseteq Found
  BY <1>12
<1> QED
  BY <1>8, <1>9, <1>13 DEF WithinTable

------------------------------------------------------------------------------
(* The planning steps leave the routes as they were found. *)

RoutesFound ==
  /\ input \in Pipelines
  /\ \A i \in DOMAIN flows :
       /\ "path" \in DOMAIN flows[i]
       /\ flows[i].path # <<>> => IsRoute(Graph, flows[i].path)

LEMMA DeviceGraph ==
  ASSUME input \in Pipelines
  PROVE  JoinsNodes(Graph)
BY DevicesAssumption, PipelinesAssumption DEF Graph, Graphs

LEMMA RouteKept ==
  ASSUME RoutesFound, input' = input, DOMAIN flows' = DOMAIN flows,
         \A i \in DOMAIN flows : "path" \in DOMAIN flows'[i] /\ flows'[i].path = flows[i].path
  PROVE  RoutesFound'
BY DEF RoutesFound, Graph

LEMMA RoutesInit == Init => RoutesFound
BY DEF Init, RoutesFound

LEMMA RoutesStart ==
  ASSUME RoutesFound, FindFlows
  PROVE  RoutesFound'
<1> DEFINE found == CollectDataFlows
<1>1. input' = input /\ input \in Pipelines /\ flows' = [i \in DOMAIN found |-> Route(found[i])]
  BY DEF FindFlows, RoutesFound
<1> HIDE DEF found
<1>2. Graph' = Graph /\ JoinsNodes(Graph)
  BY <1>1, DeviceGraph DEF Graph
<1>3. ASSUME NEW f
      PROVE  /\ "path" \in DOMAIN Route(f)
             /\ \E a, b : Route(f).path = FindShortestPath(Graph, a, b)
  BY DEF Route
<1>4. ASSUME NEW i \in DOMAIN flows'
      PROVE  /\ "path" \in DOMAIN flows'[i]
             /\ flows'[i].path # <<>> => IsRoute(Graph, flows'[i].path)
  <2>1. i \in DOMAIN found /\ flows'[i] = Route(found[i])
    BY <1>1
  <2>2. PICK a, b : flows'[i].path = FindShortestPath(Graph, a, b)
    BY <1>3, <2>1
  <2> QED
    BY <1>2, <1>3, <2>1, <2>2, ShortestPathFound
<1> QED
  BY <1>1, <1>2, <1>4 DEF RoutesFound

LEMMA RoutesWithCarriers ==
  ASSUME RoutesFound, input' = input, NEW c, flows' = WithCarriers(c)
  PROVE  RoutesFound'
<1>1. DOMAIN flows' = DOMAIN flows
  BY DEF WithCarriers
<1>2. ASSUME NEW i \in DOMAIN flows
      PROVE  "path" \in DOMAIN flows'[i] /\ flows'[i].path = flows[i].path
  <2>1. "path" \in DOMAIN flows[i] /\ flows'[i] = [flows[i] EXCEPT !.carriers = c[i]]
    BY DEF RoutesFound, WithCarriers
  <2> QED
    BY <2>1
<1> QED
  BY <1>1, <1>2, RouteKept

LEMMA RoutesNext == RoutesFound /\ [Next]_vars => RoutesFound'
<1> SUFFICES ASSUME RoutesFound, [Next]_vars PROVE RoutesFound'
  OBVIOUS
<1>1. ASSUME UNCHANGED <<input, flows>> PROVE RoutesFound'
  BY <1>1, RouteKept DEF RoutesFound
<1>2. CASE SortAndValidateStages
  BY <1>1, <1>2 DEF SortAndValidateStages
<1>3. CASE AssignOriginalStageResources
  BY <1>1, <1>3 DEF AssignOriginalStageResources
<1>4. CASE FindFlows
  BY <1>4, RoutesStart
<1>5. CASE AssignOriginalStageUnits
  BY <1>1, <1>5 DEF AssignOriginalStageUnits
<1>6. CASE ExpandDataFlow
  <2> PICK i \in DOMAIN flows :
        \E c, b : input' = input /\ flows' = [flows EXCEPT ![i].chain = c, ![i].bounds = b]
    BY <1>6 DEF ExpandDataFlow
  <2>1. PICK c, b : input' = input /\ flows' = [flows EXCEPT ![i].chain = c, ![i].bounds = b]
    OBVIOUS
  <2>2. DOMAIN flows' = DOMAIN flows
    BY <2>1
  <2>3. ASSUME NEW j \in DOMAIN flows
        PROVE  "path" \in DOMAIN flows'[j] /\ flows'[j].path = flows[j].path
    <3>1. "path" \in DOMAIN flows[j]
      BY DEF RoutesFound
    <3>2. CASE j = i
      <4>1. flows'[j] = [flows[j] EXCEPT !.chain = c, !.bounds = b]
        BY <2>1, <3>2
      <4> QED
        BY <3>1, <4>1
    <3>3. CASE j # i
      BY <2>1, <3>1, <3>3
    <3> QED
      BY <3>2, <3>3
  <2> QED
    BY <2>1, <2>2, <2>3, RouteKept
<1>7. CASE OrderStages
  BY <1>1, <1>7 DEF OrderStages
<1>8. CASE AdaptFlowEnds
  <2>1. input' = input /\ \E c : flows' = WithCarriers(c)
    BY <1>8 DEF AdaptFlowEnds
  <2> QED
    BY <2>1, RoutesWithCarriers
<1>9. CASE RetypeFifos
  BY <1>1, <1>9 DEF RetypeFifos
<1>10. CASE PopulateHopStageTransfers
  <2>1. input' = input /\ \E c : flows' = WithCarriers(c)
    BY <1>10 DEF PopulateHopStageTransfers
  <2> QED
    BY <2>1, RoutesWithCarriers
<1>11. CASE Materialize
  BY <1>1, <1>11 DEF Materialize
<1>12. CASE RewireDependencies
  BY <1>1, <1>12 DEF RewireDependencies
<1>13. CASE PlaceStage
  BY <1>1, <1>13 DEF PlaceStage
<1>14. CASE UNCHANGED vars
  BY <1>1, <1>14 DEF vars
<1> QED
  BY <1>2, <1>3, <1>4, <1>5, <1>6, <1>7, <1>8, <1>9, <1>10, <1>11, <1>12, <1>13, <1>14 DEF Next

LEMMA NoRoute == \A g : IsRoute(g, <<>>)
<1>1. Len(<<>>) = 0
  OBVIOUS
<1> QED
  BY <1>1 DEF IsRoute

(* Through all planning steps, every route runs over datapaths of the device *)
(* and no path between its ends is shorter (routeDataFlows).                 *)
THEOREM RoutesAreShortest == Spec => []RoutesShortest
<1>1. Init => RoutesFound
  BY RoutesInit
<1>2. RoutesFound /\ [Next]_vars => RoutesFound'
  BY RoutesNext
<1>3. RoutesFound => RoutesShortest
  BY NoRoute DEF RoutesFound, RoutesShortest, IsRoute
<1> QED
  BY <1>1, <1>2, <1>3, PTL DEF Spec

------------------------------------------------------------------------------
(* The order of the stages. *)

Planning == {"sort", "resources", "flows", "units", "expand"}
Ordered == {"adapt", "retype", "populate", "materialize", "done"}

(* Those of the stages that one of a list waits for stand before it.         *)
Backwards(list, all) ==
  /\ list \in Seq(all)
  /\ \A j \in 1..Len(list) : \A p \in all :
       list[j] \in Range(succ[p]) => \E i \in 1..j - 1 : list[i] = p

OrderInv ==
  /\ phase \in Planning => placed = <<>>
  /\ phase = "order" => Backwards(placed, Range(order))
  /\ phase \in Ordered => Backwards(order, Range(order))
  /\ StagesWaitBackwards

LEMMA OrderInit == Init => OrderInv
BY DEF Init, OrderInv, Planning, Ordered, StagesWaitBackwards, Done

LEMMA OneMoreBefore ==
  ASSUME NEW all, NEW list, Backwards(list, all), NEW s \in all,
         \A p \in all : s \in Range(succ[p]) => p \in Range(list)
  PROVE  Backwards(Append(list, s), all)
<1> DEFINE L == Len(list)
           new == Append(list, s)
<1>1. list \in Seq(all) /\ L \in Nat /\ DOMAIN list = 1..L
  BY DEF Backwards
<1>2. /\ new \in Seq(all) /\ Len(new) = L + 1
      /\ \A j \in 1..L : new[j] = list[j]
      /\ new[L + 1] = s
  BY <1>1
<1> HIDE DEF new
<1>3. ASSUME NEW j \in 1..Len(new), NEW p \in all, new[j] \in Range(succ[p])
      PROVE  \E i \in 1..j - 1 : new[i] = p
  <2>1. CASE j \in 1..L
    <3>1. PICK i \in 1..j - 1 : list[i] = p
      BY <1>2, <1>3, <2>1 DEF Backwards
    <3>2. i \in 1..L
      BY <1>1, <2>1
    <3> QED
      BY <1>2, <3>1, <3>2
  <2>2. CASE j = L + 1
    <3>1. PICK i \in 1..L : list[i] = p
      BY <1>1, <1>2, <1>3, <2>2 DEF Range
    <3>2. i \in 1..j - 1
      BY <1>1, <2>2
    <3> QED
      BY <1>2, <3>1, <3>2
  <2> QED
    BY <1>1, <1>2, <2>1, <2>2
<1> QED
  BY <1>2, <1>3 DEF Backwards, new

LEMMA OrderPlace == OrderInv /\ PlaceStage => OrderInv'
<1> SUFFICES ASSUME OrderInv, PlaceStage PROVE OrderInv'
  OBVIOUS
<1>1. /\ phase = "order" /\ phase' = "order" /\ order' = order /\ succ' = succ
      /\ Backwards(placed, Range(order))
  BY DEF PlaceStage, OrderInv
<1>2. PICK i \in Ready : placed' = Append(placed, order[i])
  BY DEF PlaceStage
<1>3. /\ i \in DOMAIN order
      /\ \A p \in Range(order) : order[i] \in Range(succ[p]) => p \in Range(placed)
  BY <1>2 DEF Ready
<1>4. order[i] \in Range(order)
  BY <1>3 DEF Range
<1>5. Backwards(placed', Range(order))
  BY <1>1, <1>2, <1>3, <1>4, OneMoreBefore
<1>6. Backwards(placed, Range(order))'
  BY <1>1, <1>5 DEF Backwards
<1> QED
  BY <1>1, <1>6 DEF OrderInv, Planning, Ordered, StagesWaitBackwards, Done

LEMMA OrderFinish == OrderInv /\ OrderStages => OrderInv'
<1> SUFFICES ASSUME OrderInv, OrderStages PROVE OrderInv'
  OBVIOUS
<1>1. phase = "order" /\ Backwards(placed, Range(order)) /\ succ' = succ
  BY DEF OrderStages, OrderInv
<1>2. CASE phase' = "failed"
  BY <1>2 DEF OrderInv, Planning, Ordered, StagesWaitBackwards, Done
<1>3. CASE phase' = "adapt" /\ order' = placed
  <2>1. placed \in Seq(Range(order)) /\ DOMAIN placed = 1..Len(placed)
    BY <1>1 DEF Backwards
  <2>2. Range(placed) \subseteq Range(order) /\ placed \in Seq(Range(placed))
    <3>1. \A j \in 1..Len(placed) : placed[j] \in Range(order) /\ placed[j] \in Range(placed)
      BY <2>1 DEF Range
    <3>2. Range(placed) \subseteq Range(order)
      BY <2>1, <3>1 DEF Range
    <3>3. placed = [j \in 1..Len(placed) |-> placed[j]] /\ Len(placed) \in Nat
      BY <2>1
    <3>4. placed \in [1..Len(placed) -> Range(placed)]
      BY <3>1, <3>3
    <3> QED
      BY <3>2, <3>3, <3>4, SeqDef
  <2>3. Backwards(placed, Range(placed))
    BY <1>1, <2>2 DEF Backwards
  <2>4. Backwards(order, Range(order))'
    BY <1>1, <1>3, <2>3 DEF Backwards
  <2> QED
    BY <1>3, <2>4 DEF OrderInv, Planning, Ordered, StagesWaitBackwards, Done
<1> QED
  BY <1>2, <1>3 DEF OrderStages

LEMMA OrderMaterialize == OrderInv /\ Materialize => OrderInv'
<1> SUFFICES ASSUME OrderInv, Materialize PROVE OrderInv'
  OBVIOUS
<1>1. /\ phase = "materialize" /\ phase' = "done" /\ order' = order /\ succ' = succ
      /\ DOMAIN result' = DOMAIN order
      /\ \A i \in DOMAIN order :
           /\ result'[i].dependsIn = {p \in Range(order) : p # order[i] /\ order[i] \in Range(succ[p])}
           /\ result'[i].dependsOut = IF succ[order[i]] = <<>> THEN <<>> ELSE <<order[i]>>
  BY DEF Materialize
<1>2. Backwards(order, Range(order))
  BY <1>1 DEF OrderInv, Ordered
<1>3. DOMAIN order = 1..Len(order) /\ Len(order) \in Nat
  BY <1>2 DEF Backwards
<1>4. ASSUME NEW j \in DOMAIN result', NEW p \in result'[j].dependsIn
      PROVE  \E i \in 1 .. j - 1 : result'[i].dependsOut = <<p>>
  <2>1. j \in 1..Len(order) /\ p \in Range(order) /\ order[j] \in Range(succ[p])
    BY <1>1, <1>3, <1>4
  <2>2. PICK i \in 1 .. j - 1 : order[i] = p
    BY <1>2, <2>1 DEF Backwards
  <2>3. i \in DOMAIN order
    BY <1>3, <2>1
  <2>4. succ[p] # <<>>
    <3>1. Range(<<>>) = {}
      BY DEF Range
    <3> QED
      BY <2>1, <3>1
  <2>5. result'[i].dependsOut = <<p>>
    BY <1>1, <2>2, <2>3, <2>4
  <2> QED
    BY <2>2, <2>5
<1>5. StagesWaitBackwards'
  BY <1>4 DEF StagesWaitBackwards
<1>6. Backwards(order, Range(order))'
  BY <1>1, <1>2 DEF Backwards
<1> QED
  BY <1>1, <1>5, <1>6 DEF OrderInv, Planning, Ordered

LEMMA OrderNext == OrderInv /\ [Next]_vars => OrderInv'
<1> SUFFICES ASSUME OrderInv, [Next]_vars PROVE OrderInv'
  OBVIOUS
<1>p. \A x \in Planning : x \notin Ordered \cup {"order", "done", "failed", "unchanged"}
  BY DEF Planning, Ordered
<1>o. \A x \in Ordered : x \notin {"order", "failed", "unchanged"}
  BY DEF Ordered
<1>q. "order" \notin Planning \cup Ordered /\ "failed" \notin Planning \cup Ordered
      /\ "unchanged" \notin Planning \cup Ordered
  BY DEF Planning, Ordered
<1>plan. ASSUME phase \in Planning, placed' = placed,
                phase' \in Planning \cup {"failed", "unchanged"}
         PROVE  OrderInv'
  BY <1>plan, <1>p, <1>q DEF OrderInv, StagesWaitBackwards, Done
<1>keep. ASSUME phase \in Ordered, phase' \in {"adapt", "retype", "populate", "materialize", "failed"},
                order' = order, succ' = succ
         PROVE  OrderInv'
  <2>1. Backwards(order, Range(order))
    BY <1>keep DEF OrderInv
  <2>2. Backwards(order, Range(order))'
    BY <1>keep, <2>1 DEF Backwards
  <2>3. phase' # "done" /\ phase' \notin Planning /\ phase' # "order"
    BY <1>keep DEF Planning
  <2> QED
    BY <2>2, <2>3 DEF OrderInv, StagesWaitBackwards, Done
<1>1. CASE SortAndValidateStages
  <2>1. phase = "sort" /\ phase' \in {"resources", "failed"} /\ placed' = placed
    BY <1>1 DEF SortAndValidateStages
  <2> QED
    BY <1>plan, <2>1 DEF Planning
<1>2. CASE AssignOriginalStageResources
  <2>1. phase = "resources" /\ phase' \in {"flows", "failed"} /\ placed' = placed
    BY <1>2 DEF AssignOriginalStageResources
  <2> QED
    BY <1>plan, <2>1 DEF Planning
<1>3. CASE FindFlows
  <2>1. phase = "flows" /\ phase' \in {"units", "failed"} /\ placed' = placed
    BY <1>3 DEF FindFlows
  <2> QED
    BY <1>plan, <2>1 DEF Planning
<1>4. CASE AssignOriginalStageUnits
  <2>1. phase = "units" /\ phase' \in {"unchanged", "expand", "failed"} /\ placed' = placed
    BY <1>4 DEF AssignOriginalStageUnits
  <2> QED
    BY <1>plan, <2>1 DEF Planning
<1>5. CASE ExpandDataFlow
  <2>1. phase = "expand" /\ phase' \in {"expand", "failed"} /\ placed' = placed
    BY <1>5 DEF ExpandDataFlow
  <2> QED
    BY <1>plan, <2>1 DEF Planning
<1>6. CASE RewireDependencies
  <2>1. phase = "expand" /\ phase' = "order" /\ placed' = placed
    BY <1>6 DEF RewireDependencies
  <2>2. placed' = <<>>
    BY <2>1 DEF OrderInv, Planning
  <2>3. Backwards(placed, Range(order))'
    <3>1. <<>> \in Seq(Range(order)') /\ Len(<<>>) = 0 /\ 1..0 = {}
      OBVIOUS
    <3> QED
      BY <2>2, <3>1 DEF Backwards
  <2> QED
    BY <1>q, <2>1, <2>3 DEF OrderInv, StagesWaitBackwards, Done
<1>7. CASE PlaceStage
  BY <1>7, OrderPlace
<1>8. CASE OrderStages
  BY <1>8, OrderFinish
<1>9. CASE AdaptFlowEnds
  <2>1. /\ phase = "adapt" /\ phase' \in {"retype", "failed"}
        /\ order' = order /\ succ' = succ
    BY <1>9, Zenon DEF AdaptFlowEnds
  <2> QED
    BY <1>keep, <2>1 DEF Ordered
<1>10. CASE RetypeFifos
  <2>1. /\ phase = "retype" /\ phase' \in {"populate", "failed"}
        /\ order' = order /\ succ' = succ
    BY <1>10, Zenon DEF RetypeFifos
  <2> QED
    BY <1>keep, <2>1 DEF Ordered
<1>11. CASE PopulateHopStageTransfers
  <2>1. /\ phase = "populate" /\ phase' = "materialize"
        /\ order' = order /\ succ' = succ
    BY <1>11, Zenon DEF PopulateHopStageTransfers
  <2> QED
    BY <1>keep, <2>1 DEF Ordered
<1>12. CASE Materialize
  BY <1>12, OrderMaterialize
<1>13. CASE UNCHANGED vars
  <2>1. /\ phase' = phase /\ placed' = placed /\ order' = order /\ succ' = succ
        /\ result' = result
    BY <1>13 DEF vars
  <2>2. (phase \in Planning => placed = <<>>)'
    BY <2>1 DEF OrderInv
  <2>3. (phase = "order" => Backwards(placed, Range(order)))'
    BY <2>1 DEF OrderInv, Backwards
  <2>4. (phase \in Ordered => Backwards(order, Range(order)))'
    BY <2>1 DEF OrderInv, Backwards
  <2>5. StagesWaitBackwards'
    BY <2>1 DEF OrderInv, StagesWaitBackwards, Done
  <2> QED
    BY <2>2, <2>3, <2>4, <2>5 DEF OrderInv
<1> QED
  BY <1>1, <1>2, <1>3, <1>4, <1>5, <1>6, <1>7, <1>8, <1>9, <1>10, <1>11, <1>12, <1>13 DEF Next

(* However hops are given to stages, the tokens that a stage of the expanded *)
(* pipeline waits for are those of stages placed before it                   *)
(* (orderStagesByDependencies, createStageTokens).                           *)
THEOREM StagesAwaitEarlierOnes == Spec => []StagesWaitBackwards
<1>1. OrderInv => StagesWaitBackwards
  BY DEF OrderInv
<1> QED
  BY <1>1, OrderInit, OrderNext, PTL DEF Spec
=============================================================================
