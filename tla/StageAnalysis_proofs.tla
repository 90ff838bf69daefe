------------------------ MODULE StageAnalysis_proofs ------------------------
(* The analysis of stages finds the cycles, and nothing else, sorts stages   *)
(* behind those they wait for, and builds a global DAG with the order of the *)
(* tokens, for every schedule.                                               *)
EXTENDS StageAnalysis, Induction, SequenceTheorems

------------------------------------------------------------------------------
(* The operators. *)

LEMMA DirectFacts ==
  ASSUME NEW s, WellFormed(s), NEW p
  PROVE  /\ DirectStages(s, p) \subseteq Stages(s)
         /\ DirectStages(s, p) \subseteq 1..Len(s)
         /\ IsFiniteSet(DirectStages(s, p))
<1>1. IsFiniteSet(1..Len(s))
  BY FS_Interval DEF WellFormed
<1>2. DirectStages(s, p) \subseteq 1..Len(s)
  BY DEF DirectStages, Children, Nodes
<1> QED
  BY <1>1, <1>2, FS_Subset DEF DirectStages, Stages, OfKind, Children

LEMMA EdgesInside ==
  ASSUME NEW s, NEW stages
  PROVE  TokenEdges(s, stages) \subseteq stages \X stages
BY DEF TokenEdges

LEMMA Neighbours ==
  ASSUME NEW stages, NEW edges \in SUBSET (stages \X stages), NEW n
  PROVE  /\ Successors(edges, n) \subseteq stages
         /\ Predecessors(edges, n) \subseteq stages
         /\ \A m : m \in Successors(edges, n) <=> <<n, m>> \in edges
         /\ \A m : m \in Predecessors(edges, n) <=> <<m, n>> \in edges
BY DEF Successors, Predecessors

(* A new element at the end of a sequence without repetitions. *)
LEMMA AppendDistinct ==
  ASSUME NEW T, NEW q \in Seq(T), NEW x \in T, IsInjective(q), x \notin Range(q)
  PROVE  /\ Append(q, x) \in Seq(T)
         /\ IsInjective(Append(q, x))
         /\ Range(Append(q, x)) = Range(q) \cup {x}
<1> DEFINE r == Append(q, x)
<1>1. Len(q) \in Nat /\ DOMAIN q = 1..Len(q)
  OBVIOUS
<1>2. /\ r \in Seq(T) /\ DOMAIN r = 1..(Len(q) + 1)
      /\ r[Len(q) + 1] = x /\ \A i \in 1..Len(q) : r[i] = q[i]
  OBVIOUS
<1>3. \A i : i \in 1..(Len(q) + 1) <=> i \in 1..Len(q) \/ i = Len(q) + 1
  BY <1>1
<1>4. Len(q) + 1 \notin 1..Len(q)
  BY <1>1
<1>5. \A i \in 1..Len(q) : q[i] # x
  BY <1>1 DEF Range
<1> HIDE DEF r
<1>6. IsInjective(r)
  BY <1>1, <1>2, <1>3, <1>5, Zenon DEF IsInjective
<1>7. Range(r) = Range(q) \cup {x}
  <2>1. \A y \in Range(r) : y \in Range(q) \cup {x}
    BY <1>1, <1>2, <1>3 DEF Range
  <2>2. \A y \in Range(q) : y \in Range(r)
    BY <1>1, <1>2, <1>3 DEF Range
  <2>3. x \in Range(r)
    BY <1>2, <1>3 DEF Range
  <2> QED
    BY <2>1, <2>2, <2>3
<1> QED
  BY <1>2, <1>6, <1>7 DEF r

(* Ordered lists the members of a set of numbers, each once. *)
LEMMA OrderedFacts ==
  ASSUME NEW n \in Nat, NEW S \in SUBSET (1..n)
  PROVE  /\ Ordered(S, n) \in Seq(S)
         /\ IsInjective(Ordered(S, n))
         /\ Range(Ordered(S, n)) = S
<1> DEFINE step == [e \in (1..n) \X Seq(S) |-> IF e[1] \in S THEN Append(e[2], e[1]) ELSE e[2]]
           Def(g) == g = [k \in 0..n |-> IF k = 0 THEN <<>>
                                         ELSE IF k \in S THEN Append(g[k - 1], k) ELSE g[k - 1]]
           upTo == CHOOSE g : Def(g)
<1>1. step \in [(1..n) \X Seq(S) -> Seq(S)]
  OBVIOUS
<1>2. <<>> \in Seq(S)
  OBVIOUS
<1>3. PICK g : StepTable(n, Seq(S), <<>>, step, g)
  <2> HIDE DEF step
  <2> QED
    BY <1>1, <1>2, StepRecursion
<1>4. \A k \in 1..n : g[k] = IF k \in S THEN Append(g[k - 1], k) ELSE g[k - 1]
  <2>1. TAKE k \in 1..n
  <2>2. k - 1 \in 0..n
    OBVIOUS
  <2>3. <<k, g[k - 1]>> \in (1..n) \X Seq(S)
    BY <1>3, <2>2 DEF StepTable
  <2> QED
    BY <1>3, <2>3 DEF StepTable
<1>5. Def(g)
  <2> HIDE DEF step
  <2>1. g = [k \in 0..n |-> g[k]]
    BY <1>3 DEF StepTable
  <2>2. \A k \in 0..n : g[k] = IF k = 0 THEN <<>>
                               ELSE IF k \in S THEN Append(g[k - 1], k) ELSE g[k - 1]
    <3>1. TAKE k \in 0..n
    <3>2. k = 0 \/ k \in 1..n
      OBVIOUS
    <3> QED
      BY <1>3, <1>4, <3>2 DEF StepTable
  <2> QED
    BY <2>1, <2>2
<1>6. Def(upTo)
  <2> HIDE DEF Def
  <2> QED
    BY <1>5
<1>7. Ordered(S, n) = upTo[n]
  BY DEF Ordered
<1>8. upTo[0] = <<>> /\ \A k \in 1..n : upTo[k] = IF k \in S THEN Append(upTo[k - 1], k) ELSE upTo[k - 1]
  <2> HIDE DEF upTo
  <2>1. upTo[0] = <<>>
    BY <1>6
  <2>2. ASSUME NEW k \in 1..n
        PROVE  upTo[k] = IF k \in S THEN Append(upTo[k - 1], k) ELSE upTo[k - 1]
    <3>1. k \in 0..n /\ k # 0
      OBVIOUS
    <3> QED
      BY <1>6, <3>1
  <2> QED
    BY <2>1, <2>2
<1> HIDE DEF upTo
<1> DEFINE Good(k) == /\ upTo[k] \in Seq(S) /\ IsInjective(upTo[k])
                      /\ Range(upTo[k]) = S \cap (1..k)
           Bad == {k \in 0..n : ~Good(k)}
<1>9. Bad = {}
  <2>1. SUFFICES ASSUME Bad # {} PROVE FALSE
    OBVIOUS
  <2>2. PICK k \in Bad : \A l \in Bad : k <= l
    <3>1. Bad \in SUBSET Nat
      OBVIOUS
    <3> HIDE DEF Bad
    <3> QED
      BY <2>1, <3>1, LeastNatural
  <2>3. k \in 0..n /\ ~Good(k)
    BY <2>2
  <2>4. k # 0
    <3>1. SUFFICES ASSUME k = 0 PROVE FALSE
      OBVIOUS
    <3>2. IsInjective(<<>>) /\ Range(<<>>) = {} /\ 1..0 = {}
      BY DEF IsInjective, Range
    <3> QED
      BY <1>2, <1>8, <2>3, <3>1, <3>2
  <2>5. k - 1 \in 0..n /\ ~(k <= k - 1) /\ k \in 1..n /\ k \in Nat
    BY <2>3, <2>4
  <2>6. Good(k - 1)
    <3>1. k - 1 \notin Bad
      <4> HIDE DEF Bad
      <4> QED
        BY <2>2, <2>5
    <3> QED
      BY <2>5, <3>1
  <2> DEFINE q == upTo[k - 1]
  <2>7. 1..k = (1..(k - 1)) \cup {k} /\ k \notin 1..(k - 1)
    BY <2>5
  <2>8. CASE k \notin S
    <3>1. upTo[k] = upTo[k - 1]
      BY <1>8, <2>5, <2>8
    <3> QED
      BY <2>3, <2>6, <2>7, <2>8, <3>1
  <2>9. CASE k \in S
    <3>1. upTo[k] = Append(upTo[k - 1], k)
      BY <1>8, <2>5, <2>9
    <3>2. k \notin Range(upTo[k - 1])
      BY <2>6, <2>7
    <3>3. /\ upTo[k] \in Seq(S) /\ IsInjective(upTo[k])
          /\ Range(upTo[k]) = Range(upTo[k - 1]) \cup {k}
      BY <2>6, <2>9, <3>1, <3>2, AppendDistinct
    <3>4. Range(upTo[k]) = S \cap (1..k)
      BY <2>6, <2>7, <2>9, <3>3
    <3> QED
      BY <2>3, <3>3, <3>4
  <2> QED
    BY <2>8, <2>9
<1>10. Good(n)
  BY <1>9
<1> QED
  BY <1>7, <1>10

(* A stack without its top. *)
LEMMA FrontFacts ==
  ASSUME NEW T, NEW q \in Seq(T), q # <<>>
  PROVE  /\ Len(q) \in Nat \ {0} /\ q[Len(q)] \in T /\ q[Len(q)] \in Range(q)
         /\ Front(q) \in Seq(T) /\ Len(Front(q)) = Len(q) - 1
         /\ \A i \in 1..(Len(q) - 1) : Front(q)[i] = q[i]
         /\ Range(q) = Range(Front(q)) \cup {q[Len(q)]}
         /\ IsInjective(q) => IsInjective(Front(q)) /\ q[Len(q)] \notin Range(Front(q))
<1> DEFINE f == Front(q)
           n == Len(q)
<1>1. n \in Nat \ {0} /\ DOMAIN q = 1..n /\ \A i \in 1..n : q[i] \in T
  BY LenProperties, ElementOfSeq, EmptySeq
<1>2. /\ f \in Seq(T) /\ Len(f) = n - 1
      /\ \A i \in 1..(n - 1) : f[i] = q[i]
  <2>1. f = SubSeq(q, 1, n - 1) /\ 1 \in Int /\ n - 1 \in Int /\ \A i \in 1..(n - 1) : q[i] \in T
    BY <1>1 DEF Front
  <2>2. /\ SubSeq(q, 1, n - 1) \in Seq(T)
        /\ Len(SubSeq(q, 1, n - 1)) = IF 1 <= n - 1 THEN (n - 1) - 1 + 1 ELSE 0
        /\ \A i \in 1..((n - 1) - 1 + 1) : SubSeq(q, 1, n - 1)[i] = q[1 + i - 1]
    <3> HIDE DEF n, f
    <3> QED
      BY <2>1, SubSeqProperties
  <2> HIDE DEF f
  <2> QED
    BY <1>1, <2>1, <2>2
<1>3. DOMAIN f = 1..(n - 1)
  BY <1>2, LenProperties
<1>4. /\ 1..n = (1..(n - 1)) \cup {n} /\ n \notin 1..(n - 1)
  BY <1>1
<1> HIDE DEF f, n
<1>5. Range(q) = Range(f) \cup {q[n]}
  BY <1>1, <1>2, <1>3, <1>4 DEF Range
<1>6. IsInjective(q) => IsInjective(f)
  BY <1>1, <1>2, <1>3, <1>4 DEF IsInjective
<1>7. IsInjective(q) => q[n] \notin Range(f)
  BY <1>1, <1>2, <1>3, <1>4 DEF IsInjective, Range
<1> QED
  BY <1>1, <1>2, <1>5, <1>6, <1>7, <1>4 DEF f, n

(* A queue without its head. *)
LEMMA TailDistinct ==
  ASSUME NEW T, NEW q \in Seq(T), q # <<>>
  PROVE  /\ Head(q) \in T /\ Tail(q) \in Seq(T)
         /\ Range(q) = Range(Tail(q)) \cup {Head(q)}
         /\ IsInjective(q) => IsInjective(Tail(q)) /\ Head(q) \notin Range(Tail(q))
<1> DEFINE r == Tail(q)
           n == Len(q)
<1>1. n \in Nat \ {0} /\ DOMAIN q = 1..n /\ Head(q) = q[1]
  OBVIOUS
<1>2. Head(q) \in T /\ r \in Seq(T) /\ Len(r) = n - 1 /\ \A i \in 1..Len(r) : r[i] = q[i + 1]
  BY HeadTailProperties
<1>3. DOMAIN r = 1..(n - 1)
  BY <1>2, LenProperties
<1>4. /\ \A i \in 1..(n - 1) : i + 1 \in 1..n /\ i + 1 # 1
      /\ \A i \in 1..n : i = 1 \/ (i - 1 \in 1..(n - 1) /\ (i - 1) + 1 = i)
      /\ \A i, j \in 1..(n - 1) : i + 1 = j + 1 => i = j
      /\ 1 \in 1..n
  BY <1>1
<1> HIDE DEF r, n
<1>5. Range(q) = Range(r) \cup {q[1]}
  <2>1. \A x \in Range(q) : x = q[1] \/ x \in Range(r)
    <3>1. TAKE x \in Range(q)
    <3>2. PICK i \in 1..n : x = q[i]
      BY <1>1 DEF Range
    <3>3. CASE i = 1
      BY <3>2, <3>3
    <3>4. CASE i # 1
      <4>1. i - 1 \in 1..(n - 1) /\ r[i - 1] = q[i]
        BY <1>2, <1>3, <1>4, <3>4
      <4> QED
        BY <1>3, <3>2, <4>1 DEF Range
    <3> QED
      BY <3>3, <3>4
  <2>2. \A x \in Range(r) : x \in Range(q)
    BY <1>1, <1>2, <1>3, <1>4 DEF Range
  <2>3. q[1] \in Range(q)
    BY <1>1, <1>4 DEF Range
  <2> QED
    BY <2>1, <2>2, <2>3
<1>6. IsInjective(q) => IsInjective(r)
  <2>1. SUFFICES ASSUME IsInjective(q), NEW i \in 1..(n - 1), NEW j \in 1..(n - 1), r[i] = r[j]
                 PROVE  i = j
    BY <1>3 DEF IsInjective
  <2>2. q[i + 1] = q[j + 1]
    BY <1>2, <1>3, <2>1
  <2>3. i + 1 = j + 1
    BY <1>1, <1>4, <2>1, <2>2 DEF IsInjective
  <2> QED
    BY <1>4, <2>3
<1>7. IsInjective(q) => q[1] \notin Range(r)
  <2>1. SUFFICES ASSUME IsInjective(q), NEW i \in 1..(n - 1), r[i] = q[1] PROVE FALSE
    BY <1>3 DEF Range
  <2>2. q[i + 1] = q[1]
    BY <1>2, <1>3, <2>1
  <2> QED
    BY <1>1, <1>4, <2>1, <2>2 DEF IsInjective
<1> QED
  BY <1>1, <1>2, <1>5, <1>6, <1>7 DEF r

(* Two sequences one behind the other. *)
LEMMA ConcatDistinct ==
  ASSUME NEW T, NEW q \in Seq(T), NEW r \in Seq(T),
         IsInjective(q), IsInjective(r), Range(q) \cap Range(r) = {}
  PROVE  /\ q \o r \in Seq(T) /\ IsInjective(q \o r)
         /\ Range(q \o r) = Range(q) \cup Range(r)
<1> DEFINE c == q \o r
           m == Len(q)
           n == Len(r)
<1>1. m \in Nat /\ n \in Nat /\ DOMAIN q = 1..m /\ DOMAIN r = 1..n
  BY LenProperties
<1>2. /\ c \in Seq(T) /\ Len(c) = m + n
      /\ \A i \in 1..(m + n) : c[i] = IF i <= m THEN q[i] ELSE r[i - m]
  BY ConcatProperties
<1>3. DOMAIN c = 1..(m + n)
  BY <1>2, LenProperties
<1>4. Range(c) = Range(q) \cup Range(r)
  BY RangeConcatenation
<1> HIDE DEF c, m, n
<1>5. ASSUME NEW i \in 1..(m + n), NEW j \in 1..(m + n), c[i] = c[j] PROVE i = j
  <2>1. CASE i <= m /\ j <= m
    <3>1. i \in 1..m /\ j \in 1..m /\ q[i] = q[j]
      BY <1>1, <1>2, <1>5, <2>1
    <3> QED
      BY <1>1, <3>1 DEF IsInjective
  <2>2. CASE ~(i <= m) /\ ~(j <= m)
    <3>1. i - m \in 1..n /\ j - m \in 1..n /\ r[i - m] = r[j - m]
      BY <1>1, <1>2, <1>5, <2>2
    <3>2. i - m = j - m
      BY <1>1, <3>1 DEF IsInjective
    <3> QED
      BY <1>1, <3>2
  <2>3. CASE i <= m /\ ~(j <= m)
    <3>1. i \in 1..m /\ j - m \in 1..n /\ q[i] = r[j - m]
      BY <1>1, <1>2, <1>5, <2>3
    <3>2. q[i] \in Range(q) /\ r[j - m] \in Range(r)
      BY <1>1, <3>1 DEF Range
    <3> QED
      BY <3>1, <3>2
  <2>4. CASE ~(i <= m) /\ j <= m
    <3>1. j \in 1..m /\ i - m \in 1..n /\ q[j] = r[i - m]
      BY <1>1, <1>2, <1>5, <2>4
    <3>2. q[j] \in Range(q) /\ r[i - m] \in Range(r)
      BY <1>1, <3>1 DEF Range
    <3> QED
      BY <3>1, <3>2
  <2> QED
    BY <2>1, <2>2, <2>3, <2>4
<1> QED
  BY <1>2, <1>3, <1>4, <1>5 DEF IsInjective, c

(* The tokens a stage waits for, from any of the other stages, are finitely  *)
(* many, and there are none exactly when none of these precedes it.          *)
LEMMA OpenFacts ==
  ASSUME NEW s, WellFormed(s), NEW p, NEW from \in SUBSET DirectStages(s, p), NEW n \in DirectStages(s, p)
  PROVE  LET stages == DirectStages(s, p)
             open == OpenTokens(s, stages, from, n)
         IN  /\ IsFiniteSet(open) /\ Cardinality(open) \in Nat
             /\ Cardinality(open) = 0 <=> \A m \in from : <<m, n>> \notin TokenEdges(s, stages)
<1> DEFINE stages == DirectStages(s, p)
           open == OpenTokens(s, stages, from, n)
<1>1. n \in Stages(s) /\ IsFiniteSet(s[n].din)
  BY DirectFacts DEF WellFormed
<1>2. open \in SUBSET s[n].din
  BY DEF OpenTokens, TokensFrom
<1>3. IsFiniteSet(open)
  BY <1>1, <1>2, FS_Subset
<1>4. Cardinality(open) \in Nat /\ (Cardinality(open) = 0 <=> open = {})
  BY <1>3, FS_CardinalityType, FS_EmptySet
<1>5. open = {} <=> \A m \in from : TokensFrom(s, stages, m, n) = {}
  BY DEF OpenTokens
<1>6. \A m \in from : <<m, n>> \in TokenEdges(s, stages) <=> TokensFrom(s, stages, m, n) # {}
  BY DEF TokenEdges
<1> QED
  BY <1>3, <1>4, <1>5, <1>6

(* A producer less: a token has one producer, so that those of h are the     *)
(* ones that are not awaited any more.                                       *)
LEMMA OneProducerLess ==
  ASSUME NEW s, WellFormed(s), NEW p, NEW from \in SUBSET DirectStages(s, p), NEW h \in from,
         NEW n \in DirectStages(s, p)
  PROVE  LET stages == DirectStages(s, p)
         IN  Cardinality(OpenTokens(s, stages, from \ {h}, n))
               = Cardinality(OpenTokens(s, stages, from, n)) - Cardinality(TokensFrom(s, stages, h, n))
<1> DEFINE stages == DirectStages(s, p)
           open == OpenTokens(s, stages, from, n)
           rest == OpenTokens(s, stages, from \ {h}, n)
           hers == TokensFrom(s, stages, h, n)
<1>1. \A m, t : t \in TokensFrom(s, stages, m, n) => TokenProducer(s, stages, t) = m
  BY DEF TokensFrom
<1>2. hers \subseteq open /\ rest = open \ hers
  BY <1>1 DEF OpenTokens
<1>3. IsFiniteSet(open)
  BY OpenFacts
<1> HIDE DEF open, rest, hers
<1>4. Cardinality(open \ hers) = Cardinality(open) - Cardinality(open \cap hers) /\ open \cap hers = hers
  BY <1>2, <1>3, FS_Difference
<1> QED
  BY <1>2, <1>4 DEF open, rest, hers

(* A sequence without repetitions is as long as the set of its elements.     *)
LEMMA DistinctLength ==
  ASSUME NEW T, NEW q \in Seq(T), IsInjective(q)
  PROVE  Cardinality(Range(q)) = Len(q)
<1>1. Len(q) \in Nat /\ DOMAIN q = 1..Len(q)
  BY LenProperties
<1>2. q \in [1..Len(q) -> Range(q)]
  BY <1>1 DEF Range
<1>3. q \in Bijection(1..Len(q), Range(q))
  BY <1>1, <1>2 DEF Bijection, Injection, Surjection, Range
<1>4. ExistsBijection(1..Len(q), Range(q))
  BY <1>3 DEF ExistsBijection
<1> QED
  BY <1>1, <1>4, FS_CountingElements

------------------------------------------------------------------------------
(* The kinds of the variables. *)

LEMMA TypeInit == Init => TypeOK
<1> SUFFICES ASSUME Init PROVE TypeOK
  OBVIOUS
<1>1. WellFormed(schedule)
  BY SchedulesAssumption DEF Init
<1>2. order \in [Pipelines(schedule) -> Seq(Stages(schedule))]
  BY DEF Init
<1> QED
  BY <1>1, <1>2 DEF Init, TypeOK

(* Stages of a pipeline, listed in textual order. *)
LEMMA ListedStages ==
  ASSUME WellFormed(schedule), NEW S \in SUBSET Direct(pipeline)
  PROVE  /\ Ordered(S, Len(schedule)) \in Seq(Direct(pipeline))
         /\ IsInjective(Ordered(S, Len(schedule)))
         /\ Range(Ordered(S, Len(schedule))) = S
<1>1. Len(schedule) \in Nat /\ S \in SUBSET (1..Len(schedule))
  BY DirectFacts DEF WellFormed, Direct
<1>2. /\ Ordered(S, Len(schedule)) \in Seq(S)
      /\ IsInjective(Ordered(S, Len(schedule)))
      /\ Range(Ordered(S, Len(schedule))) = S
  BY <1>1, OrderedFacts
<1>3. Seq(S) \subseteq Seq(Direct(pipeline))
  BY SeqMonotonic
<1> QED
  BY <1>2, <1>3

LEMMA LocalFacts ==
  ASSUME NEW p
  PROVE  /\ Local(p) \in SUBSET (Direct(p) \X Direct(p))
         /\ \A n : Successors(Local(p), n) \subseteq Direct(p)
         /\ \A n : Predecessors(Local(p), n) \subseteq Direct(p)
         /\ \A m, n : m \in Successors(Local(p), n) <=> <<n, m>> \in Local(p)
         /\ \A m, n : m \in Predecessors(Local(p), n) <=> <<m, n>> \in Local(p)
<1>1. Local(p) \in SUBSET (Direct(p) \X Direct(p))
  BY EdgesInside DEF Local
<1> QED
  BY <1>1, Neighbours

LEMMA TypeNext == TypeOK /\ [Next]_vars => TypeOK'
<1> SUFFICES ASSUME TypeOK, [Next]_vars PROVE TypeOK'
  OBVIOUS
<1> DEFINE stages == Direct(pipeline)
<1>1. WellFormed(schedule) /\ Len(schedule) \in Nat
  BY DEF TypeOK, WellFormed
<1>2. CASE NextPipeline
  <2> USE <1>2
  <2>1. PICK p \in todo :
          /\ pipeline' = p /\ todo' = todo \ {p}
          /\ local' = Local(p)
          /\ color' = [n \in Direct(p) |-> "white"]
          /\ left' = [n \in Direct(p) |-> Successors(Local(p), n)]
    BY DEF NextPipeline
  <2>2. phase = "next" /\ phase' = "search" /\ UNCHANGED <<schedule, round, stack, dag, degree, queue, order>>
    BY DEF NextPipeline, sorting
  <2>3. Direct(p)' = Direct(p) /\ Local(p)' = Local(p) /\ Pipelines(schedule)' = Pipelines(schedule)
    BY <2>2 DEF Direct, Local
  <2>4. \A n : Successors(Local(p), n) \subseteq Direct(p)
    BY LocalFacts
  <2>5. /\ color' \in [Direct(p) -> {"white", "gray", "black"}]
        /\ left' \in [Direct(p) -> SUBSET Direct(p)]
        /\ stack' \in Seq(Direct(p)) /\ stack' = <<>>
    BY <2>1, <2>2, <2>4 DEF TypeOK
  <2>6. p \in Pipelines(schedule) \ todo' /\ todo' \subseteq Pipelines(schedule)
    BY <2>1 DEF TypeOK
  <2>7. Direct(pipeline)' = Direct(p) /\ Local(pipeline)' = Local(p)
    BY <2>1, <2>2 DEF Direct, Local
  <2> QED
    BY <2>1, <2>2, <2>3, <2>5, <2>6, <2>7 DEF TypeOK
<1>3. CASE BeginSearch \/ Look \/ Retreat
  <2>1. /\ phase = "search" /\ phase' \in {"search", "cyclic"}
        /\ UNCHANGED <<schedule, round, todo, pipeline, local, dag, degree, queue, order>>
    BY <1>3 DEF BeginSearch, Look, Retreat, Leave, sorting
  <2>2. /\ color \in [stages -> {"white", "gray", "black"}]
        /\ left \in [stages -> SUBSET stages]
        /\ stack \in Seq(stages)
    BY <2>1 DEF TypeOK
  <2>3. Direct(pipeline)' = stages /\ Local(pipeline)' = Local(pipeline)
    BY <2>1 DEF Direct, Local
  <2>4. stack # <<>> => Top \in stages /\ Front(stack) \in Seq(stages)
    BY <2>2, FrontFacts DEF Top
  <2>5. /\ color' \in [stages -> {"white", "gray", "black"}]
        /\ left' \in [stages -> SUBSET stages]
        /\ stack' \in Seq(stages)
    <3>1. CASE BeginSearch
      <4>1. PICK n \in White : Enter(n) /\ left' = left
        BY <3>1 DEF BeginSearch
      <4>2. n \in stages
        BY DEF White
      <4> QED
        BY <2>2, <4>1, <4>2 DEF Enter
    <3>2. CASE Look
      <4>1. PICK m \in left[Top] :
              /\ left' = [left EXCEPT ![Top] = left[Top] \ {m}]
              /\ \/ Enter(m)
                 \/ UNCHANGED <<color, stack>>
        BY <3>2 DEF Look
      <4>2. m \in stages
        BY <2>2, <2>4, <3>2 DEF Look
      <4>3. left' \in [stages -> SUBSET stages]
        BY <2>2, <2>4, <3>2, <4>1 DEF Look
      <4>4. /\ color' \in [stages -> {"white", "gray", "black"}]
            /\ stack' \in Seq(stages)
        <5>1. CASE Enter(m)
          BY <2>2, <4>2, <5>1 DEF Enter
        <5>2. CASE UNCHANGED <<color, stack>>
          BY <2>2, <5>2
        <5> QED
          BY <4>1, <5>1, <5>2
      <4> QED
        BY <4>3, <4>4
    <3>3. CASE Retreat
      BY <2>2, <2>4, <3>3 DEF Retreat, Leave
    <3> QED
      BY <1>3, <3>1, <3>2, <3>3
  <2> QED
    BY <2>1, <2>3, <2>5 DEF TypeOK
<1>4. CASE Stitch \/ FinishSort \/ FinishRound \/ Ended
  <2>1. /\ UNCHANGED <<schedule, stack, order, pipeline, local, color, left, queue>>
        /\ stack = <<>> \/ phase' = phase
        /\ round' \in {"build", "sort"} /\ todo' \subseteq Pipelines(schedule)
        /\ phase' \in {"next", "unsorted", "done"} \/ UNCHANGED <<phase, round, todo>>
        /\ phase' = "done" => round' = "sort"
    BY <1>4 DEF Stitch, FinishSort, FinishRound, Ended, Accepted, TypeOK, vars, searched, sorting
  <2>2. Direct(pipeline)' = stages /\ Local(pipeline)' = Local(pipeline)
        /\ WellFormed(schedule)' /\ Pipelines(schedule)' = Pipelines(schedule)
        /\ Stages(schedule)' = Stages(schedule)
    BY <1>1, <2>1 DEF Direct, Local
  <2> QED
    BY <2>1, <2>2 DEF TypeOK
<1>5. CASE StartSort
  <2>1. /\ phase = "search" /\ phase' = "sort" /\ round = "sort" /\ stack = <<>>
        /\ UNCHANGED <<schedule, round, todo, pipeline, local, stack, order>>
    BY <1>5 DEF StartSort, Accepted, searched
  <2>2. queue' \in Seq(stages)
    <3> DEFINE S == {n \in stages : degree'[n] = 0}
    <3>1. queue' = Ordered(S, Len(schedule)) /\ S \in SUBSET stages
      BY <1>5 DEF StartSort
    <3> HIDE DEF S
    <3> QED
      BY <1>1, <3>1, ListedStages
  <2>3. Direct(pipeline)' = stages /\ Local(pipeline)' = Local(pipeline)
        /\ WellFormed(schedule)' /\ Pipelines(schedule)' = Pipelines(schedule)
        /\ Stages(schedule)' = Stages(schedule)
    BY <1>1, <2>1 DEF Direct, Local
  <2> QED
    BY <2>1, <2>2, <2>3 DEF TypeOK
<1>6. CASE Emit
  <2>1. /\ phase = "sort" /\ queue # <<>>
        /\ UNCHANGED <<schedule, round, phase, todo, pipeline, local, stack>>
    BY <1>6 DEF Emit, searched
  <2>2. queue \in Seq(stages) /\ pipeline \in Pipelines(schedule) /\ round = "sort"
        /\ order \in [Pipelines(schedule) -> Seq(Stages(schedule))]
        /\ stages \subseteq Stages(schedule) /\ local = Local(pipeline)
    BY <1>1, <2>1, DirectFacts DEF TypeOK, Direct
  <2>3. queue' \in Seq(stages)
    <3> DEFINE S == {n \in Successors(local, Head(queue)) : degree'[n] = 0}
    <3>1. queue' = Tail(queue) \o Ordered(S, Len(schedule))
      BY <1>6 DEF Emit
    <3>2. S \in SUBSET stages
      BY <2>2, LocalFacts
    <3> HIDE DEF S
    <3>3. Ordered(S, Len(schedule)) \in Seq(stages) /\ Tail(queue) \in Seq(stages)
      BY <1>1, <2>1, <2>2, <3>2, ListedStages, HeadTailProperties
    <3> QED
      BY <3>1, <3>3, ConcatProperties
  <2>4. order' \in [Pipelines(schedule) -> Seq(Stages(schedule))]
    <3>1. Head(queue) \in Stages(schedule)
      BY <2>1, <2>2
    <3>2. order' = [order EXCEPT ![pipeline] = Append(order[pipeline], Head(queue))]
      BY <1>6 DEF Emit
    <3> QED
      BY <2>2, <3>1, <3>2
  <2>5. Direct(pipeline)' = stages /\ Local(pipeline)' = Local(pipeline)
        /\ WellFormed(schedule)' /\ Pipelines(schedule)' = Pipelines(schedule)
        /\ Stages(schedule)' = Stages(schedule)
    BY <1>1, <2>1 DEF Direct, Local
  <2> QED
    BY <2>1, <2>3, <2>4, <2>5 DEF TypeOK
<1>7. CASE UNCHANGED vars
  BY <1>7 DEF vars, searched, sorting, TypeOK, Direct, Local
<1> QED
  BY <1>2, <1>3, <1>4, <1>5, <1>6, <1>7 DEF Next

------------------------------------------------------------------------------
(* The search. *)

(* A white stage is entered. *)
LEMMA EnterFacts ==
  ASSUME TypeOK, phase = "search", StackIsPath, NEW m \in White, Enter(m),
         UNCHANGED <<schedule, pipeline, local>>
  PROVE  /\ stack' \in Seq(Direct(pipeline)) /\ IsInjective(stack')
         /\ Len(stack) \in Nat /\ Len(stack') = Len(stack) + 1
         /\ \A i \in 1..Len(stack) : stack'[i] = stack[i]
         /\ stack'[Len(stack) + 1] = m
         /\ \A n \in Direct(pipeline) : color'[n] = "gray" <=> n \in Range(stack')
         /\ White' = White \ {m} /\ Black' = Black
<1>1. /\ color \in [Direct(pipeline) -> {"white", "gray", "black"}]
      /\ stack \in Seq(Direct(pipeline))
  BY DEF TypeOK
<1>2. m \in Direct(pipeline) /\ color[m] = "white" /\ m \notin Range(stack)
  BY DEF White, StackIsPath
<1>3. color' = [color EXCEPT ![m] = "gray"] /\ stack' = Append(stack, m)
  BY DEF Enter
<1>4. /\ stack' \in Seq(Direct(pipeline)) /\ IsInjective(stack')
      /\ Range(stack') = Range(stack) \cup {m}
  BY <1>1, <1>2, <1>3, AppendDistinct DEF StackIsPath
<1>5. /\ Len(stack) \in Nat /\ Len(stack') = Len(stack) + 1
      /\ \A i \in 1..Len(stack) : stack'[i] = stack[i]
      /\ stack'[Len(stack) + 1] = m
  BY <1>1, <1>2, <1>3
<1>6. Direct(pipeline)' = Direct(pipeline)
  BY DEF Direct
<1>7. \A n \in Direct(pipeline) : color'[n] = "gray" <=> n \in Range(stack')
  BY <1>1, <1>2, <1>3, <1>4 DEF StackIsPath
<1>8. White' = White \ {m} /\ Black' = Black
  BY <1>1, <1>2, <1>3, <1>6 DEF White, Black
<1> QED
  BY <1>4, <1>5, <1>7, <1>8

LEMMA SearchInit == Init => SearchInv
BY DEF Init, SearchInv

LEMMA SearchBegins == TypeOK /\ NextPipeline => SearchInv'
<1> SUFFICES ASSUME TypeOK, NextPipeline PROVE SearchInv'
  OBVIOUS
<1>1. PICK p \in todo :
        /\ pipeline' = p /\ local' = Local(p)
        /\ color' = [n \in Direct(p) |-> "white"]
        /\ left' = [n \in Direct(p) |-> Successors(Local(p), n)]
  BY DEF NextPipeline
<1>2. phase' = "search" /\ schedule' = schedule /\ stack' = <<>>
  BY DEF NextPipeline, TypeOK
<1>3. Direct(pipeline)' = Direct(p)
  BY <1>1, <1>2 DEF Direct
<1>4. Len(stack') = 0 /\ IsInjective(stack') /\ Range(stack') = {} /\ 1..0 = {} /\ 1..(0 - 1) = {}
  BY <1>2 DEF IsInjective, Range
<1>5. White' = Direct(p) /\ Black' = {}
  BY <1>1, <1>3 DEF White, Black
<1>6. StackIsPath'
  BY <1>1, <1>3, <1>4 DEF StackIsPath
<1>7. LookedAt'
  BY <1>1, <1>2, <1>3, <1>4, <1>5 DEF LookedAt
<1>8. BlackAcyclic'
  BY <1>5 DEF BlackAcyclic
<1> QED
  BY <1>6, <1>7, <1>8 DEF SearchInv

LEMMA SearchBeginSearch == TypeOK /\ SearchInv /\ BeginSearch => SearchInv'
<1> SUFFICES ASSUME TypeOK, SearchInv, BeginSearch PROVE SearchInv'
  OBVIOUS
<1>1. phase = "search" /\ phase' = "search" /\ stack = <<>> /\ UNCHANGED <<schedule, pipeline, local, left>>
  BY DEF BeginSearch
<1>2. StackIsPath /\ LookedAt /\ BlackAcyclic
  BY <1>1 DEF SearchInv
<1>3. PICK m \in White : Enter(m)
  BY DEF BeginSearch
<1>4. /\ stack' \in Seq(Direct(pipeline)) /\ IsInjective(stack')
      /\ Len(stack) \in Nat /\ Len(stack') = Len(stack) + 1
      /\ stack'[Len(stack) + 1] = m
      /\ \A n \in Direct(pipeline) : color'[n] = "gray" <=> n \in Range(stack')
      /\ White' = White \ {m} /\ Black' = Black
  BY <1>1, <1>2, <1>3, EnterFacts
<1>5. Len(stack') = 1 /\ stack'[1] = m /\ m \in Direct(pipeline) /\ Direct(pipeline)' = Direct(pipeline)
  BY <1>1, <1>4 DEF White, Direct
<1>6. StackIsPath'
  BY <1>4, <1>5 DEF StackIsPath
<1>7. LookedAt'
  BY <1>1, <1>2, <1>4, <1>5 DEF LookedAt
<1>8. BlackAcyclic'
  BY <1>1, <1>2, <1>4 DEF BlackAcyclic
<1> QED
  BY <1>6, <1>7, <1>8 DEF SearchInv

LEMMA SearchLook == TypeOK /\ SearchInv /\ Look => SearchInv'
<1> SUFFICES ASSUME TypeOK, SearchInv, Look PROVE SearchInv'
  OBVIOUS
<1>1. phase = "search" /\ stack # <<>> /\ UNCHANGED <<schedule, pipeline, local>>
  BY DEF Look
<1>2. StackIsPath /\ LookedAt /\ BlackAcyclic
  BY <1>1 DEF SearchInv
<1>3. PICK m \in left[Top] :
        /\ left' = [left EXCEPT ![Top] = left[Top] \ {m}]
        /\ \/ color[m] = "gray" /\ phase' = "cyclic" /\ UNCHANGED <<color, stack>>
           \/ color[m] = "white" /\ Enter(m) /\ UNCHANGED phase
           \/ color[m] = "black" /\ UNCHANGED <<color, stack, phase>>
  BY DEF Look
<1>4. /\ color \in [Direct(pipeline) -> {"white", "gray", "black"}]
      /\ left \in [Direct(pipeline) -> SUBSET Direct(pipeline)]
      /\ stack \in Seq(Direct(pipeline)) /\ local = Local(pipeline)
      /\ Direct(pipeline)' = Direct(pipeline)
  BY <1>1 DEF TypeOK, Direct
<1> DEFINE k == Len(stack)
<1>5. k \in Nat \ {0} /\ Top = stack[k] /\ Top \in Direct(pipeline) /\ Top \in Range(stack)
  BY <1>1, <1>4, FrontFacts DEF Top
<1>6. m \in Direct(pipeline) /\ m \in Successors(local, Top) /\ color[Top] = "gray"
  BY <1>2, <1>3, <1>4, <1>5 DEF LookedAt, StackIsPath
<1>7. <<Top, m>> \in local
  BY <1>4, <1>6, LocalFacts
<1>8. /\ \A n \in Direct(pipeline) : left'[n] \subseteq Successors(local, n)
      /\ \A n \in White : left'[n] = Successors(local, n)
      /\ left'[Top] = left[Top] \ {m} /\ \A n \in Direct(pipeline) \ {Top} : left'[n] = left[n]
  BY <1>2, <1>3, <1>4, <1>5, <1>6 DEF LookedAt, White
<1>9. \A i \in 1..(k - 1) : stack[i] \in Direct(pipeline) \ {Top}
  <2>1. TAKE i \in 1..(k - 1)
  <2>2. i \in 1..k /\ i # k /\ k \in 1..k /\ DOMAIN stack = 1..k
    BY <1>4, <1>5, LenProperties
  <2>3. stack[i] \in Direct(pipeline)
    BY <1>4, <2>2, ElementOfSeq
  <2> HIDE DEF k
  <2> QED
    BY <1>2, <1>5, <2>2, <2>3 DEF StackIsPath, IsInjective
<1> HIDE DEF k
<1>10. \A i \in 1..(k - 1) : left'[stack[i]] = left[stack[i]]
  BY <1>8, <1>9
<1>11. \A i \in 1..k : i = k \/ (i \in 1..(k - 1) /\ i < k)
  BY <1>5
<1>12. CASE color[m] = "gray"
  <2>1. phase' = "cyclic" /\ UNCHANGED <<color, stack>>
    BY <1>3, <1>12 DEF Enter
  <2>2. White' = White /\ Black' = Black /\ Top' = Top
    BY <1>4, <2>1 DEF White, Black, Top
  <2>3. StackIsPath' /\ BlackAcyclic'
    BY <1>1, <1>2, <1>4, <2>1, <2>2 DEF StackIsPath, BlackAcyclic
  <2>4. PICK i \in 1..k : stack[i] = m
    <3>1. m \in Range(stack)
      BY <1>2, <1>6, <1>12 DEF StackIsPath
    <3> QED
      BY <1>4, <3>1, LenProperties DEF Range, k
  <2>5. LookedAt'
    BY <1>1, <1>4, <1>7, <1>8, <2>1, <2>2, <2>4 DEF LookedAt, k
  <2> QED
    BY <2>3, <2>5 DEF SearchInv
<1>13. CASE color[m] = "black"
  <2>1. phase' = "search" /\ UNCHANGED <<color, stack>>
    BY <1>1, <1>3, <1>13 DEF Enter
  <2>2. White' = White /\ Black' = Black /\ m \in Black
    BY <1>4, <1>6, <1>13, <2>1 DEF White, Black
  <2>3. StackIsPath' /\ BlackAcyclic'
    BY <1>1, <1>2, <1>4, <2>1, <2>2 DEF StackIsPath, BlackAcyclic
  <2>4. ASSUME NEW i \in 1..k, NEW n \in Successors(local, stack[i]) \ left'[stack[i]]
        PROVE  n \in Black \/ (i < k /\ n = stack[i + 1])
    <3>1. n \in Successors(local, stack[i]) \ left[stack[i]] \/ n = m
      BY <1>5, <1>8, <1>10, <1>11
    <3> QED
      BY <1>1, <1>2, <2>2, <3>1 DEF LookedAt, k
  <2>5. LookedAt'
    BY <1>1, <1>4, <1>8, <2>1, <2>2, <2>4 DEF LookedAt, k
  <2> QED
    BY <2>3, <2>5 DEF SearchInv
<1>14. CASE color[m] = "white"
  <2>1. phase' = "search" /\ Enter(m) /\ m \in White
    BY <1>1, <1>3, <1>6, <1>14 DEF White
  <2>2. /\ stack' \in Seq(Direct(pipeline)) /\ IsInjective(stack')
        /\ Len(stack') = k + 1
        /\ \A i \in 1..k : stack'[i] = stack[i]
        /\ stack'[k + 1] = m
        /\ \A n \in Direct(pipeline) : color'[n] = "gray" <=> n \in Range(stack')
        /\ White' = White \ {m} /\ Black' = Black
    BY <1>1, <1>2, <2>1, EnterFacts DEF k
  <2>3. BlackAcyclic'
    BY <1>1, <1>2, <2>2 DEF BlackAcyclic
  <2>4. ASSUME NEW i \in 1..((k + 1) - 1) PROVE <<stack'[i], stack'[i + 1]>> \in local
    <3>1. i \in 1..k /\ (i = k \/ (i \in 1..(k - 1) /\ i + 1 \in 1..k))
      BY <1>5
    <3>2. CASE i = k
      BY <1>5, <1>7, <2>2, <3>1, <3>2
    <3>3. CASE i \in 1..(k - 1) /\ i + 1 \in 1..k
      BY <1>2, <2>2, <3>1, <3>3 DEF StackIsPath, k
    <3> QED
      BY <3>1, <3>2, <3>3
  <2>5. StackIsPath'
    BY <1>1, <1>4, <2>2, <2>4 DEF StackIsPath
  <2>6. ASSUME NEW i \in 1..(k + 1), NEW n \in Successors(local, stack'[i]) \ left'[stack'[i]]
        PROVE  n \in Black \/ (i < k + 1 /\ n = stack'[i + 1])
    <3>1. CASE i = k + 1
      <4>1. m \in White /\ left'[m] = Successors(local, m)
        BY <1>8, <2>1
      <4> QED
        BY <2>2, <2>6, <3>1, <4>1
    <3>2. CASE i = k
      <4>1. stack'[i] = Top /\ i < k + 1 /\ stack'[i + 1] = m
        BY <1>5, <2>2, <3>2
      <4>2. n = m \/ n \in Successors(local, stack[k]) \ left[stack[k]]
        BY <1>5, <1>8, <2>6, <4>1
      <4>3. k \in 1..k /\ ~(k < k)
        BY <1>5
      <4> QED
        BY <1>1, <1>2, <4>1, <4>2, <4>3 DEF LookedAt, k
    <3>3. CASE i \in 1..(k - 1)
      <4>1. i \in 1..k /\ i + 1 \in 1..k /\ i < k /\ i < k + 1
        BY <1>5, <3>3
      <4>2. stack'[i] = stack[i] /\ stack'[i + 1] = stack[i + 1] /\ left'[stack[i]] = left[stack[i]]
        BY <1>10, <2>2, <3>3, <4>1
      <4> QED
        BY <1>1, <1>2, <2>6, <4>1, <4>2 DEF LookedAt, k
    <3>4. i = k + 1 \/ i = k \/ i \in 1..(k - 1)
      BY <1>5
    <3> QED
      BY <3>1, <3>2, <3>3, <3>4
  <2>7. LookedAt'
    BY <1>1, <1>4, <1>8, <2>1, <2>2, <2>6 DEF LookedAt
  <2> QED
    BY <2>3, <2>5, <2>7 DEF SearchInv
<1> QED
  BY <1>3, <1>12, <1>13, <1>14

(* All that the stage on top leads to is black, hence not gray: in a set of  *)
(* black stages and the one on top, this one is led to by no other.          *)
LEMMA SearchRetreat == TypeOK /\ SearchInv /\ Retreat => SearchInv'
<1> SUFFICES ASSUME TypeOK, SearchInv, Retreat PROVE SearchInv'
  OBVIOUS
<1>1. phase = "search" /\ phase' = "search" /\ stack # <<>> /\ UNCHANGED <<schedule, pipeline, local, left>>
  BY DEF Retreat, Leave
<1>2. StackIsPath /\ LookedAt /\ BlackAcyclic
  BY <1>1 DEF SearchInv
<1>3. left[Top] = {} /\ color' = [color EXCEPT ![Top] = "black"] /\ stack' = Front(stack)
  BY DEF Retreat, Leave
<1>4. /\ color \in [Direct(pipeline) -> {"white", "gray", "black"}]
      /\ stack \in Seq(Direct(pipeline)) /\ local = Local(pipeline)
      /\ Direct(pipeline)' = Direct(pipeline)
  BY <1>1 DEF TypeOK, Direct
<1> DEFINE k == Len(stack)
<1>5. /\ k \in Nat \ {0} /\ Top = stack[k] /\ Top \in Direct(pipeline) /\ Top \in Range(stack)
      /\ stack' \in Seq(Direct(pipeline)) /\ Len(stack') = k - 1 /\ IsInjective(stack')
      /\ \A i \in 1..(k - 1) : stack'[i] = stack[i]
      /\ Range(stack) = Range(stack') \cup {Top} /\ Top \notin Range(stack')
  BY <1>1, <1>2, <1>3, <1>4, FrontFacts DEF Top, StackIsPath
<1> HIDE DEF k
<1>6. color[Top] = "gray"
  BY <1>2, <1>5 DEF StackIsPath
<1>7. Black' = Black \cup {Top} /\ White' = White /\ Top \notin Black
  BY <1>3, <1>4, <1>5, <1>6 DEF White, Black
<1>8. Successors(local, Top) \subseteq Black
  <2>1. k \in 1..k /\ ~(k < k)
    BY <1>5
  <2> QED
    BY <1>1, <1>2, <1>3, <1>5, <2>1 DEF LookedAt, k
<1>9. \A i \in 1..(k - 1) : i \in 1..k /\ (i < k - 1 \/ i = k - 1) /\ i < k
  BY <1>5
<1>10. StackIsPath'
  <2>1. \A n \in Direct(pipeline) : color'[n] = "gray" <=> n \in Range(stack')
    BY <1>2, <1>3, <1>4, <1>5 DEF StackIsPath
  <2>2. ASSUME NEW i \in 1..((k - 1) - 1) PROVE <<stack'[i], stack'[i + 1]>> \in local
    <3>1. i \in 1..(k - 1) /\ i + 1 \in 1..(k - 1)
      BY <1>5
    <3> QED
      BY <1>2, <1>5, <3>1 DEF StackIsPath, k
  <2> QED
    BY <1>1, <1>4, <1>5, <2>1, <2>2 DEF StackIsPath
<1>11. LookedAt'
  <2>1. ASSUME NEW i \in 1..(k - 1), NEW m \in Successors(local, stack'[i]) \ left[stack'[i]]
        PROVE  m \in Black' \/ (i < k - 1 /\ m = stack'[i + 1])
    <3>1. m \in Successors(local, stack[i]) \ left[stack[i]]
      BY <1>5, <2>1
    <3>2. m \in Black \/ m = stack[i + 1]
      BY <1>1, <1>2, <1>9, <3>1 DEF LookedAt, k
    <3>3. CASE i = k - 1
      <4>1. stack[i + 1] = Top
        BY <1>5, <3>3
      <4> QED
        BY <1>7, <3>2, <4>1
    <3>4. CASE i < k - 1
      <4>1. i + 1 \in 1..(k - 1)
        BY <1>5, <3>4
      <4> QED
        BY <1>5, <1>7, <3>2, <3>4, <4>1
    <3> QED
      BY <1>9, <3>3, <3>4
  <2> QED
    BY <1>1, <1>2, <1>4, <1>5, <1>7, <2>1 DEF LookedAt
<1>12. BlackAcyclic'
  <2>1. \A n \in Black' : Successors(local, n) \subseteq Black'
    BY <1>2, <1>7, <1>8 DEF BlackAcyclic
  <2>2. ASSUME NEW c \in (SUBSET Black') \ {{}} PROVE \E n \in c : Predecessors(local, n) \cap c = {}
    <3>1. CASE Top \notin c
      BY <1>2, <1>7, <2>2, <3>1 DEF BlackAcyclic
    <3>2. CASE Top \in c
      <4>1. ASSUME NEW n \in Predecessors(local, Top) \cap c PROVE FALSE
        <5>1. Top \in Successors(local, n)
          BY <1>4, <4>1, LocalFacts
        <5>2. n \in Black \/ n = Top
          BY <1>7, <2>2, <4>1
        <5> QED
          BY <1>2, <1>7, <1>8, <5>1, <5>2 DEF BlackAcyclic
      <4> QED
        BY <3>2, <4>1
    <3> QED
      BY <3>1, <3>2
  <2> QED
    BY <1>1, <2>1, <2>2 DEF BlackAcyclic
<1> QED
  BY <1>10, <1>11, <1>12 DEF SearchInv

LEMMA SearchNext == TypeOK /\ SearchInv /\ [Next]_vars => SearchInv'
<1> SUFFICES ASSUME TypeOK, SearchInv, [Next]_vars PROVE SearchInv'
  OBVIOUS
<1>1. CASE Stitch \/ StartSort \/ Emit \/ FinishSort \/ FinishRound
  <2>1. phase' \notin {"search", "cyclic"}
    BY <1>1 DEF Stitch, StartSort, Emit, FinishSort, FinishRound
  <2> QED
    BY <2>1 DEF SearchInv
<1>2. CASE Ended \/ UNCHANGED vars
  <2>1. UNCHANGED <<schedule, phase, pipeline, local, color, stack, left>>
    BY <1>2 DEF Ended, vars, searched
  <2>2. Direct(pipeline)' = Direct(pipeline) /\ White' = White /\ Black' = Black /\ Top' = Top
    BY <2>1 DEF Direct, White, Black, Top
  <2> QED
    BY <2>1, <2>2 DEF SearchInv, StackIsPath, LookedAt, BlackAcyclic
<1> QED
  BY <1>1, <1>2, SearchBegins, SearchBeginSearch, SearchLook, SearchRetreat DEF Next

------------------------------------------------------------------------------
(* Cycles. *)

(* What a stage reaches is closed under successors: if it reaches itself,    *)
(* each stage it reaches is led to by another of them.                       *)
LEMMA SelfReachingIsCyclic ==
  ASSUME NEW nodes, NEW edges \in SUBSET (nodes \X nodes), NEW n \in nodes, Reaches(edges, nodes, n, n)
  PROVE  HasCycle(edges, nodes)
<1> DEFINE c == {y \in nodes : Reaches(edges, nodes, n, y)}
<1>1. n \in c
  OBVIOUS
<1>2. ASSUME NEW y \in c, Predecessors(edges, y) \cap c = {} PROVE FALSE
  <2> DEFINE C == c \ {y}
  <2>1. \A m \in Successors(edges, n) : m \in C
    <3>1. TAKE m \in Successors(edges, n)
    <3>2. m \in nodes /\ n \in Predecessors(edges, m)
      BY Neighbours
    <3>3. Reaches(edges, nodes, n, m)
      BY DEF Reaches
    <3> QED
      BY <1>1, <1>2, <3>2, <3>3
  <2>2. ASSUME NEW x \in C PROVE \A m \in Successors(edges, x) : m \in C
    <3>1. TAKE m \in Successors(edges, x)
    <3>2. m \in nodes /\ x \in Predecessors(edges, m)
      BY Neighbours
    <3>3. Reaches(edges, nodes, n, m)
      BY <2>2 DEF Reaches
    <3> QED
      BY <1>2, <2>2, <3>2, <3>3
  <2>3. y \in C
    <3>1. C \in SUBSET nodes /\ Reaches(edges, nodes, n, y)
      BY <1>2
    <3> HIDE DEF C
    <3> QED
      BY <2>1, <2>2, <3>1 DEF Reaches
  <2> QED
    BY <2>3
<1> QED
  BY <1>1, <1>2 DEF HasCycle

(* A path whose last stage leads back to one of its stages. *)
LEMMA ClosedPath ==
  ASSUME NEW nodes, NEW edges \in SUBSET (nodes \X nodes), NEW path \in Seq(nodes), path # <<>>,
         \A i \in 1..(Len(path) - 1) : <<path[i], path[i + 1]>> \in edges,
         NEW j \in 1..Len(path), <<path[Len(path)], path[j]>> \in edges
  PROVE  /\ path[Len(path)] \in nodes
         /\ Reaches(edges, nodes, path[Len(path)], path[Len(path)])
         /\ HasCycle(edges, nodes)
<1> DEFINE k == Len(path)
           top == path[k]
<1>1. k \in Nat \ {0} /\ top \in nodes
  BY FrontFacts
<1>2. \A i \in 1..(k - 1) : path[i + 1] \in Successors(edges, path[i])
  BY Neighbours
<1>3. path[j] \in Successors(edges, top)
  BY Neighbours
<1> HIDE DEF k
<1>4. Reaches(edges, nodes, top, top)
  <2>1. SUFFICES ASSUME NEW C \in SUBSET nodes, Successors(edges, top) \subseteq C,
                        \A n \in C : Successors(edges, n) \subseteq C, top \notin C
                 PROVE  FALSE
    BY DEF Reaches
  <2> DEFINE Out == {i \in j..k : path[i] \notin C}
  <2>2. k \in Out /\ Out \in SUBSET Nat
    BY <1>1, <2>1 DEF k
  <2>3. PICK i \in Out : \A l \in Out : i <= l
    <3> HIDE DEF Out
    <3> QED
      BY <2>2, LeastNatural
  <2>4. i # j
    BY <1>3, <2>1, <2>3
  <2>5. i - 1 \in j..k /\ i - 1 \in 1..(k - 1) /\ (i - 1) + 1 = i /\ ~(i <= i - 1)
    BY <1>1, <2>3, <2>4 DEF k
  <2>6. path[i - 1] \in C
    BY <2>3, <2>5
  <2>7. path[i] \in C
    BY <1>2, <2>1, <2>5, <2>6
  <2> QED
    BY <2>3, <2>7
<1>5. HasCycle(edges, nodes)
  <2> HIDE DEF top
  <2> QED
    BY <1>1, <1>4, SelfReachingIsCyclic
<1> QED
  BY <1>1, <1>4, <1>5 DEF k

(* The part of the stack from a successor of the top up to the top is a      *)
(* cycle.                                                                    *)
LEMMA FoundCycle ==
  TypeOK /\ SearchInv /\ phase = "cyclic" =>
    /\ HasCycle(local, Direct(pipeline))
    /\ Reaches(local, Direct(pipeline), Top, Top) /\ Top \in Direct(pipeline)
<1> SUFFICES ASSUME TypeOK, SearchInv, phase = "cyclic"
             PROVE  /\ HasCycle(local, Direct(pipeline))
                    /\ Reaches(local, Direct(pipeline), Top, Top) /\ Top \in Direct(pipeline)
  OBVIOUS
<1>1. /\ \A i \in 1..(Len(stack) - 1) : <<stack[i], stack[i + 1]>> \in local
      /\ stack # <<>>
  BY DEF SearchInv, LookedAt, StackIsPath
<1>2. PICK j \in 1..Len(stack) : <<stack[Len(stack)], stack[j]>> \in local
  BY DEF SearchInv, LookedAt, Top
<1>3. stack \in Seq(Direct(pipeline)) /\ local \in SUBSET (Direct(pipeline) \X Direct(pipeline))
  BY LocalFacts DEF TypeOK
<1> QED
  BY <1>1, <1>2, <1>3, ClosedPath DEF Top

(* When nothing is white or gray, there is no cycle. *)
LEMMA AcceptedIsAcyclic ==
  TypeOK /\ SearchInv /\ Accepted => ~HasCycle(local, Direct(pipeline))
<1> SUFFICES ASSUME TypeOK, SearchInv, Accepted PROVE ~HasCycle(local, Direct(pipeline))
  OBVIOUS
<1>1. StackIsPath /\ BlackAcyclic /\ stack = <<>> /\ White = {}
  BY DEF SearchInv, Accepted
<1>2. color \in [Direct(pipeline) -> {"white", "gray", "black"}]
  BY DEF TypeOK, Accepted
<1>3. Range(stack) = {}
  BY <1>1 DEF Range
<1>4. Black = Direct(pipeline)
  BY <1>1, <1>2, <1>3 DEF StackIsPath, White, Black
<1> QED
  BY <1>1, <1>4 DEF BlackAcyclic, HasCycle

LEMMA PassedInit == Init => PassedInv
<1> SUFFICES ASSUME Init PROVE PassedInv
  OBVIOUS
<1>1. Analyzed = {}
  BY DEF Init, Analyzed, Passed
<1> QED
  BY <1>1 DEF PassedInv, Init

LEMMA PassedNext ==
  TypeOK /\ SearchInv /\ PassedInv /\ [Next]_vars /\ TypeOK' /\ SearchInv' => PassedInv'
<1> SUFFICES ASSUME TypeOK, SearchInv, PassedInv, [Next]_vars, TypeOK', SearchInv' PROVE PassedInv'
  OBVIOUS
<1>1. schedule' = schedule
  BY DEF Next, NextPipeline, BeginSearch, Look, Retreat, Leave, Stitch, StartSort, Emit, FinishSort,
         FinishRound, Ended, vars
<1>2. \A p : Direct(p)' = Direct(p) /\ Local(p)' = Local(p) /\ HasCycle(Local(p), Direct(p))' = HasCycle(Local(p), Direct(p))
  BY <1>1 DEF Direct, Local
<1>3. Pipelines(schedule)' = Pipelines(schedule)
  BY <1>1
<1>4. CASE Stitch
  <2>1. /\ phase = "search" /\ phase' = "next" /\ round = "build"
        /\ UNCHANGED <<round, todo, pipeline, local>> /\ dag' = dag \cup Stitched(schedule, local)
    BY <1>4 DEF Stitch, Accepted
  <2>2. pipeline \in Pipelines(schedule) \ todo /\ local = Local(pipeline)
    BY <2>1 DEF TypeOK
  <2>3. ~HasCycle(Local(pipeline), Direct(pipeline))
    BY <1>4, <2>2, AcceptedIsAcyclic DEF Stitch
  <2>4. Analyzed' = Analyzed \cup {pipeline}
    BY <1>3, <2>1, <2>2 DEF Analyzed, Passed
  <2> DEFINE E(p) == Stitched(schedule, Local(p))
  <2>5. dag' = UNION {E(p) : p \in Analyzed'}
    <3>1. dag = UNION {E(p) : p \in Analyzed}
      BY DEF PassedInv
    <3> HIDE DEF E
    <3>2. dag' = dag \cup E(pipeline)
      BY <2>1, <2>2 DEF E
    <3> QED
      BY <2>4, <3>1, <3>2
  <2>6. \A p \in Analyzed' : ~HasCycle(Local(p), Direct(p))
    BY <2>3, <2>4 DEF PassedInv
  <2> QED
    BY <1>1, <1>2, <2>1, <2>5, <2>6 DEF PassedInv
<1>5. CASE ~Stitch
  <2>1. dag' = dag
    BY <1>5 DEF Next, NextPipeline, BeginSearch, Look, Retreat, Leave, StartSort, Emit, FinishSort,
           FinishRound, Ended, vars, searched
  <2>2. Analyzed' = Analyzed
    <3>1. CASE NextPipeline
      <4>1. PICK p \in todo : pipeline' = p /\ todo' = todo \ {p}
        BY <3>1 DEF NextPipeline
      <4>2. phase = "next" /\ phase' = "search" /\ round' = round /\ todo \subseteq Pipelines(schedule)
        BY <3>1 DEF NextPipeline, TypeOK
      <4> QED
        BY <1>3, <4>1, <4>2 DEF Analyzed, Passed
    <3>2. CASE BeginSearch \/ Look \/ Retreat
      <4>1. phase = "search" /\ phase' \in {"search", "cyclic"} /\ UNCHANGED <<round, todo, pipeline>>
        BY <3>2 DEF BeginSearch, Look, Retreat, Leave
      <4> QED
        BY <1>3, <4>1 DEF Analyzed, Passed
    <3>3. CASE StartSort \/ Emit \/ FinishSort
      <4>1. round = "sort" /\ round' = "sort"
        BY <3>3 DEF StartSort, Emit, FinishSort, TypeOK
      <4> QED
        BY <1>3, <4>1 DEF Analyzed
    <3>4. CASE FinishRound
      <4>1. CASE round = "build"
        <5>1. round' = "sort" /\ phase = "next" /\ todo = {}
          BY <3>4, <4>1 DEF FinishRound
        <5> QED
          BY <1>3, <4>1, <5>1 DEF Analyzed, Passed
      <4>2. CASE round = "sort"
        <5>1. round' = "sort"
          BY <3>4, <4>2 DEF FinishRound
        <5> QED
          BY <1>3, <4>2, <5>1 DEF Analyzed
      <4> QED
        BY <4>1, <4>2 DEF TypeOK
    <3>5. CASE Ended \/ UNCHANGED vars
      BY <1>3, <3>5 DEF Ended, vars, Analyzed, Passed
    <3> QED
      BY <1>5, <3>1, <3>2, <3>3, <3>4, <3>5 DEF Next
  <2>3. \A p \in Analyzed' : ~HasCycle(Local(p), Direct(p))'
    BY <1>2, <2>2 DEF PassedInv
  <2>4. dag' = UNION {Stitched(schedule, Local(p)) : p \in Analyzed}
    BY <2>1 DEF PassedInv
  <2>5. dag' = UNION {Stitched(schedule', Local(p)') : p \in Analyzed'}
    BY <1>1, <1>2, <2>2, <2>4
  <2>6. SUFFICES ASSUME round' = "sort", phase' = "cyclic" PROVE FALSE
    BY <2>3, <2>5 DEF PassedInv
  <2>7. HasCycle(local, Direct(pipeline))'
    <3> DEFINE top == stack'[Len(stack')]
               nodes == Direct(pipeline)'
    <3>1. /\ \A i \in 1..(Len(stack') - 1) : <<stack'[i], stack'[i + 1]>> \in local'
          /\ stack' # <<>>
      BY <2>6 DEF SearchInv, LookedAt, StackIsPath
    <3>2. PICK j \in 1..Len(stack') : <<stack'[Len(stack')], stack'[j]>> \in local'
      BY <2>6 DEF SearchInv, LookedAt, Top
    <3>3. stack' \in Seq(nodes) /\ local' = Local(pipeline)'
      BY <2>6 DEF TypeOK
    <3>4. local' \in SUBSET (nodes \X nodes)
      BY <3>3, EdgesInside DEF Local
    <3> HIDE DEF nodes
    <3>5. HasCycle(local', nodes)
      BY <3>1, <3>2, <3>3, <3>4, ClosedPath
    <3> QED
      BY <3>5 DEF nodes
  <2>8. local' = Local(pipeline') /\ pipeline' \in Pipelines(schedule)'
    BY <1>1, <2>6 DEF TypeOK, Local, Direct
  <2>9. pipeline' \in Analyzed'
    BY <2>6, <2>8 DEF Analyzed
  <2> QED
    BY <1>1, <2>3, <2>7, <2>8, <2>9 DEF Direct, Local
<1> QED
  BY <1>4, <1>5
------------------------------------------------------------------------------
(* The sort. *)

LEMMA SortInit == Init => SortInv
BY DEF Init, SortInv, Passed

(* Steps that neither sort nor change what has passed. *)
LEMMA SortKept ==
  ASSUME TypeOK, SortInv, UNCHANGED <<schedule, order>>, phase # "sort", phase' \notin {"sort", "unsorted"},
         round' = round, Passed' = Passed \/ round = "build"
  PROVE  SortInv'
<1>1. \A p \in Pipelines(schedule) :
        \/ order[p] = <<>> /\ (round = "build" \/ p \notin Passed)
        \/ round = "sort" /\ p \in Passed /\ InOrder(p) /\ Range(order[p]) = Direct(p)
  BY DEF SortInv
<1>2. \A p : Direct(p)' = Direct(p) /\ InOrder(p)' = InOrder(p)
  BY DEF Direct, InOrder, Local
<1>3. ASSUME NEW p \in Pipelines(schedule)
      PROVE  \/ order'[p] = <<>> /\ (round' = "build" \/ p \notin Passed')
             \/ round' = "sort" /\ p \in Passed' /\ InOrder(p)' /\ Range(order'[p]) = Direct(p)'
  BY <1>1, <1>2
<1> QED
  BY <1>3 DEF SortInv

LEMMA SortStart == TypeOK /\ SortInv /\ StartSort => SortInv'
<1> SUFFICES ASSUME TypeOK, SortInv, StartSort PROVE SortInv'
  OBVIOUS
<1> DEFINE D == Direct(pipeline)
<1>1. /\ phase = "search" /\ phase' = "sort" /\ round = "sort" /\ round' = "sort"
      /\ UNCHANGED <<schedule, todo, pipeline, local, order>>
      /\ degree' = [n \in D |-> Cardinality(Awaited(n))]
      /\ queue' = Ordered({n \in D : degree'[n] = 0}, Len(schedule))
  BY DEF StartSort, Accepted
<1>2. WellFormed(schedule) /\ pipeline \in Pipelines(schedule) /\ pipeline \notin Passed
  BY <1>1 DEF TypeOK, Passed
<1>3. Passed' = Passed /\ \A p : Direct(p)' = Direct(p) /\ InOrder(p)' = InOrder(p)
  BY <1>1 DEF Passed, Direct, InOrder, Local
<1>4. \A p \in Pipelines(schedule) :
        \/ order[p] = <<>> /\ p \notin Passed
        \/ p \in Passed /\ InOrder(p) /\ Range(order[p]) = Direct(p)
  BY <1>1 DEF SortInv
<1>5. order[pipeline] = <<>> /\ Range(order[pipeline]) = {} /\ InOrder(pipeline)
  <2>1. order[pipeline] = <<>>
    BY <1>2, <1>4
  <2>2. DOMAIN order[pipeline] = {}
    BY <2>1
  <2> QED
    BY <2>1, <2>2 DEF Range, InOrder, IsInjective
<1>6. \A n \in D : degree'[n] = Cardinality(OpenTokens(schedule, D, D, n)) /\ degree'[n] \in Nat
  BY <1>1, <1>2, OpenFacts DEF Awaited, Direct
<1>7. degree' \in [D -> Nat]
  BY <1>1, <1>6
<1>8. IsInjective(queue') /\ Range(queue') = {n \in D : degree'[n] = 0}
  BY <1>1, <1>2, ListedStages
<1>9. D \ Range(order[pipeline]) = D
  BY <1>5
<1> HIDE DEF D
<1>10. D = Direct(pipeline) /\ D' = D
  BY <1>1, <1>3 DEF D
<1>11. ASSUME NEW n \in D
       PROVE  /\ degree'[n] = Cardinality(OpenTokens(schedule, D, D \ Range(order[pipeline]), n))
              /\ degree'[n] = 0 <=> n \in Range(order[pipeline]) \cup Range(queue')
  BY <1>5, <1>6, <1>8, <1>9
<1>12. ASSUME NEW p \in Pipelines(schedule)
       PROVE  \/ order'[p] = <<>> /\ (round' = "build" \/ p \notin Passed')
              \/ round' = "sort" /\ p \in Passed' /\ InOrder(p)' /\ Range(order'[p]) = Direct(p)'
  BY <1>1, <1>3, <1>4
<1>13. InOrder(pipeline)' /\ order'[pipeline'] = order[pipeline]
  BY <1>1, <1>3, <1>5 DEF InOrder, Local, Direct
<1>14. Direct(pipeline)' = D
  BY <1>1, <1>3, <1>10 DEF Direct
<1> QED
  BY <1>1, <1>5, <1>7, <1>8, <1>11, <1>12, <1>13, <1>14 DEF SortInv
(* The first stage of the queue waits for nothing, so its predecessors are   *)
(* out; the stages it is the last one for have not been in the queue before. *)
LEMMA SortEmit == TypeOK /\ SortInv /\ Emit => SortInv'
<1> SUFFICES ASSUME TypeOK, SortInv, Emit PROVE SortInv'
  OBVIOUS
<1> DEFINE D == Direct(pipeline)
           out == order[pipeline]
           h == Head(queue)
           closing == {n \in Successors(local, h) : degree'[n] = 0}
           Open(S, n) == OpenTokens(schedule, D, S, n)
<1>1. /\ phase = "sort" /\ phase' = "sort" /\ round = "sort" /\ round' = "sort" /\ queue # <<>>
      /\ UNCHANGED <<schedule, todo, pipeline, local>>
      /\ order' = [order EXCEPT ![pipeline] = Append(out, h)]
      /\ degree' = [n \in D |-> degree[n] - Cardinality(TokensFrom(schedule, D, h, n))]
      /\ queue' = Tail(queue) \o Ordered(closing, Len(schedule))
  BY DEF Emit, TypeOK
<1>2. /\ WellFormed(schedule) /\ pipeline \in Pipelines(schedule) /\ local = Local(pipeline)
      /\ order \in [Pipelines(schedule) -> Seq(Stages(schedule))] /\ queue \in Seq(D)
  BY <1>1 DEF TypeOK
<1>3. /\ InOrder(pipeline) /\ Range(out) \subseteq D /\ IsInjective(queue) /\ Range(queue) \cap Range(out) = {}
      /\ \A n \in D : /\ degree[n] = Cardinality(Open(D \ Range(out), n))
                      /\ degree[n] = 0 <=> n \in Range(out) \cup Range(queue)
      /\ degree \in [D -> Nat]
  BY <1>1 DEF SortInv
<1>4. /\ h \in D /\ Tail(queue) \in Seq(D) /\ Range(queue) = Range(Tail(queue)) \cup {h}
      /\ IsInjective(Tail(queue)) /\ h \notin Range(Tail(queue))
  BY <1>1, <1>2, <1>3, TailDistinct
<1>5. h \notin Range(out) /\ degree[h] = 0 /\ h \in D \ Range(out)
  BY <1>3, <1>4
<1>6. Successors(local, h) \subseteq D /\ D \subseteq Stages(schedule)
  BY <1>2, LocalFacts, DirectFacts DEF Direct
<1>7. \A n \in D : /\ Cardinality(Open(D \ Range(out), n)) \in Nat
                   /\ Cardinality(Open(D \ Range(out), n)) = 0
                        <=> \A m \in D \ Range(out) : <<m, n>> \notin local
  <2>1. TAKE n \in D
  <2>2. D \ Range(out) \in SUBSET D /\ D = DirectStages(schedule, pipeline)
    BY DEF Direct
  <2> HIDE DEF out
  <2> QED
    BY <1>2, <2>2, OpenFacts DEF Local, Direct
(* What is put out. *)
<1>8. /\ Append(out, h) \in Seq(Stages(schedule)) /\ IsInjective(Append(out, h))
      /\ Range(Append(out, h)) = Range(out) \cup {h}
  <2>1. out \in Seq(Stages(schedule)) /\ h \in Stages(schedule) /\ IsInjective(out)
    BY <1>2, <1>3, <1>4, <1>6 DEF InOrder
  <2> HIDE DEF out, h
  <2> QED
    BY <1>5, <2>1, AppendDistinct
<1>9. order'[pipeline] = Append(out, h) /\ \A p \in Pipelines(schedule) : p # pipeline => order'[p] = order[p]
  BY <1>1, <1>2
<1>10. InOrder(pipeline)'
  <2>1. \A n \in Predecessors(Local(pipeline), h) : n \in Range(out)
    <3>1. TAKE n \in Predecessors(Local(pipeline), h)
    <3>2. n \in D /\ <<n, h>> \in local
      BY <1>2, LocalFacts
    <3> QED
      BY <1>3, <1>4, <1>5, <1>7, <3>2
  <2>2. Len(out) \in Nat /\ DOMAIN out = 1..Len(out) /\ out \in Seq(Stages(schedule))
    BY <1>2, LenProperties
  <2>3. /\ DOMAIN Append(out, h) = 1..(Len(out) + 1) /\ Append(out, h)[Len(out) + 1] = h
        /\ \A i \in 1..Len(out) : Append(out, h)[i] = out[i]
    BY <1>4, <1>6, <2>2, AppendProperties
  <2> DEFINE next == Append(out, h)
  <2>4. ASSUME NEW j \in DOMAIN next, NEW n \in Predecessors(Local(pipeline), next[j])
        PROVE  \E i \in 1..(j - 1) : next[i] = n
    <3>1. CASE j \in 1..Len(out)
      <4>1. next[j] = out[j]
        BY <2>3, <3>1
      <4>2. PICK i \in 1..(j - 1) : out[i] = n
        BY <1>3, <2>2, <2>4, <3>1, <4>1 DEF InOrder
      <4>3. i \in 1..Len(out)
        BY <2>2, <3>1, <4>2
      <4> QED
        BY <2>3, <4>2, <4>3
    <3>2. CASE j = Len(out) + 1
      <4>1. n \in Range(out)
        BY <2>1, <2>3, <2>4, <3>2
      <4>2. PICK i \in 1..Len(out) : out[i] = n
        BY <2>2, <4>1 DEF Range
      <4>3. i \in 1..(j - 1)
        BY <2>2, <3>2, <4>2
      <4> QED
        BY <2>3, <4>2, <4>3
    <3> QED
      BY <2>2, <2>3, <3>1, <3>2
  <2>5. Local(pipeline)' = Local(pipeline) /\ order'[pipeline'] = next
    BY <1>1, <1>9 DEF Local, Direct
  <2> QED
    BY <1>8, <2>4, <2>5 DEF InOrder
(* What is counted. *)
<1>11. \A n \in D : degree'[n] = Cardinality(Open((D \ Range(out)) \ {h}, n))
  <2>1. TAKE n \in D
  <2>2. D \ Range(out) \in SUBSET D /\ D = DirectStages(schedule, pipeline)
    BY DEF Direct
  <2>3. degree'[n] = degree[n] - Cardinality(TokensFrom(schedule, D, h, n))
    BY <1>1
  <2> HIDE DEF out, h
  <2>4. Cardinality(Open((D \ Range(out)) \ {h}, n))
          = Cardinality(Open(D \ Range(out), n)) - Cardinality(TokensFrom(schedule, D, h, n))
    BY <1>2, <1>5, <2>2, OneProducerLess DEF Direct
  <2> QED
    BY <1>3, <2>3, <2>4
<1>12. \A n \in D : /\ degree'[n] \in Nat
                    /\ degree'[n] = 0 <=> \A m \in (D \ Range(out)) \ {h} : <<m, n>> \notin local
  <2>1. TAKE n \in D
  <2> DEFINE S == (D \ Range(out)) \ {h}
  <2>2. S \in SUBSET D /\ D = DirectStages(schedule, pipeline)
    BY DEF Direct
  <2>3. degree'[n] = Cardinality(Open(S, n))
    BY <1>11
  <2> HIDE DEF S, out, h
  <2>4. /\ Cardinality(Open(S, n)) \in Nat
        /\ Cardinality(Open(S, n)) = 0 <=> \A m \in S : <<m, n>> \notin local
    BY <1>2, <2>2, OpenFacts DEF Local, Direct
  <2>5. /\ degree'[n] \in Nat
        /\ degree'[n] = 0 <=> \A m \in S : <<m, n>> \notin local
    BY <2>3, <2>4
  <2> QED
    BY <2>5 DEF S
<1>13. closing \subseteq D /\ closing \cap (Range(out) \cup Range(queue)) = {}
  <2>1. closing \subseteq D
    BY <1>6
  <2>2. ASSUME NEW n \in closing PROVE n \notin Range(out) \cup Range(queue)
    <3>1. n \in D /\ <<h, n>> \in local
      BY <1>2, <1>6, LocalFacts
    <3>2. degree[n] # 0
      BY <1>3, <1>5, <1>7, <3>1
    <3> QED
      BY <1>3, <3>1, <3>2
  <2> QED
    BY <2>1, <2>2
<1>14. /\ Ordered(closing, Len(schedule)) \in Seq(D) /\ IsInjective(Ordered(closing, Len(schedule)))
       /\ Range(Ordered(closing, Len(schedule))) = closing
  <2>1. closing \in SUBSET Direct(pipeline)
    BY <1>13
  <2> HIDE DEF closing
  <2> QED
    BY <1>2, <2>1, ListedStages
<1>15. /\ IsInjective(queue') /\ Range(queue') = Range(Tail(queue)) \cup closing
  <2> DEFINE rest == Tail(queue)
             ready == Ordered(closing, Len(schedule))
  <2>1. Range(rest) \cap closing = {}
    BY <1>4, <1>13
  <2>2. /\ rest \in Seq(D) /\ ready \in Seq(D) /\ IsInjective(rest) /\ IsInjective(ready)
        /\ Range(ready) = closing /\ Range(rest) \cap Range(ready) = {}
    BY <1>4, <1>14, <2>1
  <2>3. queue' = rest \o ready
    BY <1>1
  <2> HIDE DEF closing, rest, ready, D
  <2>4. IsInjective(rest \o ready) /\ Range(rest \o ready) = Range(rest) \cup Range(ready)
    BY <2>2, ConcatDistinct
  <2> QED
    BY <2>2, <2>3, <2>4 DEF rest
<1>16. Range(queue') \cap Range(Append(out, h)) = {}
  <2>1. Range(Tail(queue)) \cap Range(out) = {} /\ closing \cap Range(out) = {} /\ h \notin closing
    BY <1>3, <1>4, <1>13
  <2> HIDE DEF closing, out, h
  <2> QED
    BY <1>4, <1>8, <1>15, <2>1
<1>17. ASSUME NEW n \in D
       PROVE  degree'[n] = 0 <=> n \in Range(Append(out, h)) \cup Range(queue')
  <2>1. n \in Range(Append(out, h)) \cup Range(queue')
          <=> n \in Range(out) \/ n \in Range(queue) \/ n \in closing
    BY <1>4, <1>8, <1>15
  <2>2. CASE n \in Range(out) \/ n \in Range(queue)
    <3>1. \A m \in D \ Range(out) : <<m, n>> \notin local
      BY <1>3, <1>7, <2>2
    <3>2. degree'[n] = 0
      BY <1>12, <3>1
    <3> QED
      BY <2>1, <2>2, <3>2
  <2>3. CASE ~(n \in Range(out) \/ n \in Range(queue))
    <3>1. degree[n] # 0
      BY <1>3, <2>3
    <3>2. PICK m \in D \ Range(out) : <<m, n>> \in local
      BY <1>3, <1>7, <3>1
    <3>3. ASSUME degree'[n] = 0 PROVE n \in closing
      <4>1. m = h
        BY <1>12, <3>2, <3>3
      <4>2. n \in Successors(local, h)
        BY <1>2, <3>2, <4>1, LocalFacts
      <4> QED
        BY <3>3, <4>2
    <3> QED
      BY <2>1, <2>3, <3>3
  <2> QED
    BY <2>2, <2>3
<1>18. degree' \in [D -> Nat]
  BY <1>1, <1>12
<1>19. Range(Append(out, h)) \subseteq D /\ D \ Range(Append(out, h)) = (D \ Range(out)) \ {h}
  <2> HIDE DEF out, h, D
  <2> QED
    BY <1>3, <1>4, <1>8
<1>20. /\ Passed' = Passed /\ \A p : Direct(p)' = Direct(p)
       /\ \A p \in Pipelines(schedule) : p # pipeline => InOrder(p)' = InOrder(p)
  BY <1>1, <1>9 DEF Passed, Direct, InOrder, Local
<1>21. ASSUME NEW p \in Pipelines(schedule)
       PROVE  \/ order'[p] = <<>> /\ (round' = "build" \/ p \notin Passed')
              \/ round' = "sort" /\ p \in Passed' /\ InOrder(p)' /\ Range(order'[p]) = Direct(p)'
              \/ phase' = "sort" /\ p = pipeline'
  BY <1>1, <1>9, <1>20 DEF SortInv
<1> DEFINE next == Append(out, h)
<1> HIDE DEF D, out, h, closing, next
<1>22. order'[pipeline'] = next /\ Direct(pipeline)' = D /\ schedule' = schedule
  BY <1>1, <1>9, <1>20 DEF next, D, out, h
<1>23. ASSUME NEW n \in D
       PROVE  /\ degree'[n] = Cardinality(OpenTokens(schedule, D, D \ Range(next), n))
              /\ degree'[n] = 0 <=> n \in Range(next) \cup Range(queue')
  BY <1>11, <1>17, <1>19 DEF next
<1>24. Range(next) \subseteq D /\ Range(queue') \cap Range(next) = {}
  BY <1>16, <1>19 DEF next
<1> QED
  BY <1>1, <1>10, <1>15, <1>18, <1>21, <1>22, <1>23, <1>24 DEF SortInv
(* With the queue empty, stages that are not out would wait for each other:  *)
(* the sort of a pipeline that has no cycle puts out all of its stages.      *)
LEMMA SortFinish == TypeOK /\ PassedInv /\ SortInv /\ FinishSort => SortInv'
<1> SUFFICES ASSUME TypeOK, PassedInv, SortInv, FinishSort PROVE SortInv'
  OBVIOUS
<1> DEFINE D == Direct(pipeline)
           out == order[pipeline]
<1>1. /\ phase = "sort" /\ round = "sort" /\ round' = "sort" /\ queue = <<>>
      /\ UNCHANGED <<schedule, todo, pipeline, local, order>>
      /\ phase' = IF Len(out) = Cardinality(D) THEN "next" ELSE "unsorted"
  BY DEF FinishSort, sorting, TypeOK
<1>2. /\ WellFormed(schedule) /\ pipeline \in Pipelines(schedule) \ todo /\ local = Local(pipeline)
      /\ order \in [Pipelines(schedule) -> Seq(Stages(schedule))]
  BY <1>1 DEF TypeOK
<1>3. /\ InOrder(pipeline) /\ Range(out) \subseteq D
      /\ \A n \in D : /\ degree[n] = Cardinality(OpenTokens(schedule, D, D \ Range(out), n))
                      /\ degree[n] = 0 <=> n \in Range(out) \cup Range(queue)
  BY <1>1 DEF SortInv
<1>4. Range(queue) = {}
  <2>1. DOMAIN queue = {}
    BY <1>1
  <2> QED
    BY <2>1 DEF Range
<1>5. ASSUME NEW n \in D \ Range(out) PROVE \E m \in D \ Range(out) : <<m, n>> \in Local(pipeline)
  <2>1. degree[n] # 0
    BY <1>3, <1>4
  <2>2. D \ Range(out) \in SUBSET D /\ D = DirectStages(schedule, pipeline)
    BY DEF Direct
  <2>3. Cardinality(OpenTokens(schedule, D, D \ Range(out), n)) # 0
    BY <1>3, <2>1
  <2> HIDE DEF out
  <2> QED
    BY <1>2, <2>2, <2>3, OpenFacts DEF Local, Direct
<1>6. Range(out) = D
  <2>1. SUFFICES ASSUME D \ Range(out) # {} PROVE FALSE
    BY <1>3
  <2>2. \A n \in D \ Range(out) : Predecessors(Local(pipeline), n) \cap (D \ Range(out)) # {}
    BY <1>5, LocalFacts
  <2>3. HasCycle(Local(pipeline), D)
    <3> DEFINE c == D \ Range(out)
    <3>1. c \in SUBSET D /\ c # {} /\ \A n \in c : Predecessors(Local(pipeline), n) \cap c # {}
      BY <2>1, <2>2
    <3> HIDE DEF c, D
    <3> QED
      BY <3>1 DEF HasCycle
  <2> QED
    BY <1>1, <1>2, <2>3 DEF PassedInv, Analyzed
<1>7. Len(out) = Cardinality(D)
  <2>1. out \in Seq(Stages(schedule)) /\ IsInjective(out)
    BY <1>2, <1>3 DEF InOrder
  <2> HIDE DEF out, D
  <2> QED
    BY <1>6, <2>1, DistinctLength
<1>8. phase' = "next"
  BY <1>1, <1>7
<1>9. Passed' = Passed \cup {pipeline} /\ \A p : Direct(p)' = Direct(p) /\ InOrder(p)' = InOrder(p)
  BY <1>1, <1>2, <1>8 DEF Passed, Direct, InOrder, Local
<1>10. ASSUME NEW p \in Pipelines(schedule)
       PROVE  \/ order'[p] = <<>> /\ (round' = "build" \/ p \notin Passed')
              \/ round' = "sort" /\ p \in Passed' /\ InOrder(p)' /\ Range(order'[p]) = Direct(p)'
  <2>1. CASE p = pipeline
    BY <1>1, <1>3, <1>6, <1>9, <2>1
  <2>2. CASE p # pipeline
    BY <1>1, <1>9, <2>2 DEF SortInv
  <2> QED
    BY <2>1, <2>2
<1> QED
  BY <1>1, <1>8, <1>10 DEF SortInv

LEMMA SortNext == TypeOK /\ PassedInv /\ SortInv /\ [Next]_vars => SortInv'
<1> SUFFICES ASSUME TypeOK, PassedInv, SortInv, [Next]_vars PROVE SortInv'
  OBVIOUS
<1>1. CASE NextPipeline
  <2>1. PICK p \in todo : pipeline' = p /\ todo' = todo \ {p}
    BY <1>1 DEF NextPipeline
  <2>2. phase = "next" /\ phase' = "search" /\ UNCHANGED <<schedule, round, order>> /\ todo \subseteq Pipelines(schedule)
    BY <1>1 DEF NextPipeline, TypeOK, sorting
  <2>3. Passed' = Passed
    BY <2>1, <2>2 DEF Passed
  <2> QED
    BY <2>2, <2>3, SortKept
<1>2. CASE BeginSearch \/ Look \/ Retreat
  <2>1. /\ phase = "search" /\ phase' \in {"search", "cyclic"}
        /\ UNCHANGED <<schedule, round, order, todo, pipeline>>
    BY <1>2 DEF BeginSearch, Look, Retreat, Leave, sorting
  <2>2. Passed' = Passed
    BY <2>1 DEF Passed
  <2> QED
    BY <2>1, <2>2, SortKept
<1>3. CASE Stitch
  <2>1. phase = "search" /\ phase' = "next" /\ round = "build" /\ UNCHANGED <<schedule, round, order>>
    BY <1>3 DEF Stitch, Accepted, sorting
  <2> QED
    BY <2>1, SortKept
<1>4. CASE StartSort
  BY <1>4, SortStart
<1>5. CASE Emit
  BY <1>5, SortEmit
<1>6. CASE FinishSort
  BY <1>6, SortFinish
<1>7. CASE FinishRound
  <2>1. phase = "next" /\ todo = {} /\ phase' \in {"next", "done"} /\ UNCHANGED <<schedule, order>>
    BY <1>7 DEF FinishRound, sorting
  <2>2. CASE round = "build"
    <3>1. round' = "sort" /\ todo' = Pipelines(schedule) /\ phase' = "next"
      BY <1>7, <2>2 DEF FinishRound
    <3>2. \A p \in Pipelines(schedule) : order[p] = <<>>
      BY <2>1, <2>2 DEF SortInv
    <3>3. Passed' = {}
      BY <2>1, <3>1 DEF Passed
    <3> QED
      BY <2>1, <3>1, <3>2, <3>3 DEF SortInv
  <2>3. CASE round = "sort"
    <3>1. round' = round /\ phase' = "done" /\ todo' = todo
      BY <1>7, <2>3 DEF FinishRound
    <3>2. Passed' = Passed
      BY <2>1, <3>1 DEF Passed
    <3> QED
      BY <2>1, <3>1, <3>2, SortKept
  <2> QED
    BY <2>2, <2>3 DEF TypeOK
<1>8. CASE Ended \/ UNCHANGED vars
  <2>1. UNCHANGED <<schedule, round, phase, todo, pipeline, local, degree, queue, order>>
    BY <1>8 DEF Ended, vars, sorting
  <2>2. Passed' = Passed /\ \A p : Direct(p)' = Direct(p) /\ InOrder(p)' = InOrder(p)
    BY <2>1 DEF Passed, Direct, InOrder, Local
  <2> QED
    BY <2>1, <2>2 DEF SortInv
<1> QED
  BY <1>1, <1>2, <1>3, <1>4, <1>5, <1>6, <1>7, <1>8 DEF Next

------------------------------------------------------------------------------
(* The theorems. *)

(* The invariant of the search, of the pipelines that are accepted and of    *)
(* the sort is inductive.                                                    *)
THEOREM StageInvariant == Spec => []StageInv
<1>1. Init => StageInv
  BY TypeInit, SearchInit, PassedInit, SortInit DEF StageInv
<1>2. StageInv /\ [Next]_vars => StageInv'
  <2> SUFFICES ASSUME StageInv, [Next]_vars PROVE StageInv'
    OBVIOUS
  <2>1. TypeOK /\ SearchInv /\ PassedInv /\ SortInv
    BY DEF StageInv
  <2>2. TypeOK'
    BY <2>1, TypeNext
  <2>3. SearchInv'
    BY <2>1, SearchNext
  <2>4. PassedInv'
    BY <2>1, <2>2, <2>3, PassedNext
  <2>5. SortInv'
    BY <2>1, SortNext
  <2> QED
    BY <2>2, <2>3, <2>4, <2>5 DEF StageInv
<1> QED
  BY <1>1, <1>2, PTL DEF Spec

(* analyzeStageDependencies rejects a pipeline exactly when one of its       *)
(* stages waits for itself, over others, and what it accepts once it accepts *)
(* again when the stages are sorted.                                         *)
THEOREM RejectedForCycles == Spec => []CyclesRejected
<1>1. StageInv => CyclesRejected
  <2> SUFFICES ASSUME StageInv PROVE CyclesRejected
    OBVIOUS
  <2>1. TypeOK /\ SearchInv /\ PassedInv
    BY DEF StageInv
  <2>2. phase = "cyclic" => round = "build" /\ \E n \in Direct(pipeline) : Reaches(local, Direct(pipeline), n, n)
    <3>1. SUFFICES ASSUME phase = "cyclic"
                   PROVE  round = "build" /\ \E n \in Direct(pipeline) : Reaches(local, Direct(pipeline), n, n)
      OBVIOUS
    <3>2. Reaches(local, Direct(pipeline), Top, Top) /\ Top \in Direct(pipeline)
      BY <2>1, <3>1, FoundCycle
    <3>3. round = "build"
      BY <2>1, <3>1 DEF PassedInv, TypeOK
    <3> QED
      BY <3>2, <3>3
  <2>3. ASSUME NEW p \in Analyzed, NEW n \in Direct(p), Reaches(Local(p), Direct(p), n, n) PROVE FALSE
    <3>1. ~HasCycle(Local(p), Direct(p))
      BY <2>1 DEF PassedInv
    <3> QED
      BY <2>3, <3>1, LocalFacts, SelfReachingIsCyclic
  <2> QED
    BY <2>2, <2>3 DEF CyclesRejected, Analyzed
<1> QED
  BY <1>1, StageInvariant, PTL

(* topologicalSortStages never fails after analyzeStageDependencies, and     *)
(* lists each stage of a pipeline once and behind those it waits for.        *)
THEOREM SortedByTokens == Spec => []SortRespectsTokens
<1>1. StageInv => SortRespectsTokens
  <2> SUFFICES ASSUME StageInv PROVE SortRespectsTokens
    OBVIOUS
  <2>1. TypeOK /\ SortInv
    BY DEF StageInv
  <2>2. phase # "unsorted"
    BY <2>1 DEF SortInv
  <2>3. ASSUME round = "sort", NEW p \in Passed
        PROVE  /\ IsInjective(order[p]) /\ Range(order[p]) = Direct(p)
               /\ \A i, j \in DOMAIN order[p] : <<order[p][i], order[p][j]>> \in Local(p) => i < j
    <3>1. InOrder(p) /\ Range(order[p]) = Direct(p)
      BY <2>1, <2>3 DEF SortInv, Passed
    <3>2. order[p] \in Seq(Stages(schedule))
      BY <2>1, <2>3 DEF TypeOK, Passed
    <3>3. Len(order[p]) \in Nat /\ DOMAIN order[p] = 1..Len(order[p])
      BY <3>2, LenProperties
    <3>4. ASSUME NEW i \in DOMAIN order[p], NEW j \in DOMAIN order[p],
                 <<order[p][i], order[p][j]>> \in Local(p)
          PROVE  i < j
      <4>1. order[p][i] \in Predecessors(Local(p), order[p][j])
        BY <3>4, LocalFacts
      <4>2. PICK k \in 1..(j - 1) : order[p][k] = order[p][i]
        BY <3>1, <3>4, <4>1 DEF InOrder
      <4>3. k \in DOMAIN order[p]
        BY <3>3, <3>4, <4>2
      <4>4. k = i
        BY <3>1, <3>4, <4>2, <4>3 DEF InOrder, IsInjective
      <4> QED
        BY <3>3, <3>4, <4>2, <4>4
    <3> QED
      BY <3>1, <3>4 DEF InOrder
  <2> QED
    BY <2>2, <2>3 DEF SortRespectsTokens
<1> QED
  BY <1>1, StageInvariant, PTL

(* buildGlobalStageDAG fails for a cyclic schedule, and otherwise comes to   *)
(* the edges of all pipelines: what signal insertion is checked with.        *)
THEOREM DAGIsBuilt == Spec => []BuildsDAG
<1>1. StageInv => BuildsDAG
  <2> SUFFICES ASSUME StageInv PROVE BuildsDAG
    OBVIOUS
  <2>1. TypeOK /\ SearchInv /\ PassedInv
    BY DEF StageInv
  <2>2. BuildGlobalStageDAG(schedule) =
          [ok |-> \A p \in Pipelines(schedule) : ~HasCycle(Local(p), Direct(p)),
           edges |-> UNION {Stitched(schedule, Local(p)) : p \in Pipelines(schedule)}]
    BY DEF BuildGlobalStageDAG, AnalyzeStageDependencies, Local, Direct
  <2>3. ASSUME phase = "cyclic" PROVE ~BuildGlobalStageDAG(schedule).ok
    <3>1. HasCycle(local, Direct(pipeline))
      BY <2>1, <2>3, FoundCycle
    <3>2. pipeline \in Pipelines(schedule) /\ local = Local(pipeline)
      BY <2>1, <2>3 DEF TypeOK
    <3> QED
      BY <2>2, <3>1, <3>2
  <2>4. ASSUME round = "sort"
        PROVE  BuildGlobalStageDAG(schedule).ok /\ dag = BuildGlobalStageDAG(schedule).edges
    <3>1. Analyzed = Pipelines(schedule)
      BY <2>4 DEF Analyzed
    <3>2. \A p \in Pipelines(schedule) : ~HasCycle(Local(p), Direct(p))
      BY <2>1, <3>1 DEF PassedInv
    <3>3. dag = UNION {Stitched(schedule, Local(p)) : p \in Pipelines(schedule)}
      BY <2>1, <3>1 DEF PassedInv
    <3> QED
      BY <2>2, <3>2, <3>3
  <2> QED
    BY <2>3, <2>4 DEF BuildsDAG
<1> QED
  BY <1>1, StageInvariant, PTL
=============================================================================
