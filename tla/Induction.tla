------------------------------ MODULE Induction ------------------------------
(* Facts about numbers that replace induction in the proofs: sets of numbers *)
(* have a least and a greatest element, and functions that are defined       *)
(* recursively over numbers exist.                                           *)
EXTENDS Integers, FiniteSetTheorems, WellFoundedInduction, TLAPS

(* A nonempty set of naturals has a least element: the initial segments      *)
(* 1..c of its members are finite, and strict inclusion is well-founded.     *)
LEMMA LeastNatural ==
  ASSUME NEW T \in SUBSET Nat, T # {}
  PROVE  \E x \in T : \A y \in T : x <= y
<1> DEFINE Segments == {1..c : c \in T}
<1>1. \A c \in T : 1..c \in FiniteSubsetsOf(Nat)
  BY FS_Interval DEF FiniteSubsetsOf
<1>2. Segments \subseteq FiniteSubsetsOf(Nat) /\ Segments # {}
  BY <1>1
<1>3. PICK s \in Segments :
        \A r \in Segments : ~(<<r, s>> \in StrictSubsetOrdering(Nat))
  BY <1>2, FS_StrictSubsetOrderingWellFounded, WFMin
<1>4. PICK x \in T : s = 1..x
  BY <1>3
<1>5. ASSUME NEW y \in T PROVE x <= y
  <2>1. SUFFICES ASSUME y < x PROVE FALSE
    OBVIOUS
  <2>2. 1..y \subseteq 1..x /\ 1..y # 1..x
    <3>1. x \in 1..x /\ x \notin 1..y
      BY <2>1
    <3> QED
      BY <2>1, <3>1
  <2>3. <<1..y, 1..x>> \in StrictSubsetOrdering(Nat)
    BY <2>2 DEF StrictSubsetOrdering
  <2> QED
    BY <1>3, <1>4, <2>3
<1> QED
  BY <1>5

(* A set with 0 in it that is left at no step holds all the numbers.         *)
LEMMA UpTo ==
  ASSUME NEW n \in Nat, NEW T, 0 \in T, \A k \in 1..n : k - 1 \in T => k \in T
  PROVE  \A k \in 0..n : k \in T
<1> DEFINE Out == {k \in 0..n : k \notin T}
<1>1. SUFFICES ASSUME Out # {} PROVE FALSE
  OBVIOUS
<1>2. PICK k \in Out : \A j \in Out : k <= j
  <2>1. Out \in SUBSET Nat
    OBVIOUS
  <2> HIDE DEF Out
  <2> QED
    BY <1>1, <2>1, LeastNatural
<1>3. k \in 1..n /\ k \notin T
  BY <1>2
<1>4. k - 1 \notin T
  BY <1>3
<1>5. k - 1 \in Out /\ ~(k <= k - 1)
  BY <1>3, <1>4
<1> QED
  BY <1>2, <1>5

(* A nonempty set of naturals up to n has a greatest element. *)
LEMMA GreatestNatural ==
  ASSUME NEW n \in Nat, NEW T \in SUBSET (0..n), T # {}
  PROVE  \E x \in T : \A y \in T : y <= x
<1> DEFINE D == {d \in 0..n : n - d \in T}
<1>1. D \in SUBSET Nat
  OBVIOUS
<1>2. D # {}
  <2>1. PICK t \in T : TRUE
    OBVIOUS
  <2>2. n - t \in 0..n /\ n - (n - t) = t
    BY <2>1
  <2> QED
    BY <2>1, <2>2
<1> HIDE DEF D
<1>3. PICK d \in D : \A e \in D : d <= e
  BY <1>1, <1>2, LeastNatural
<1>4. d \in 0..n /\ n - d \in T
  BY <1>3 DEF D
<1>5. ASSUME NEW y \in T PROVE y <= n - d
  <2>1. n - y \in 0..n /\ n - (n - y) = y
    OBVIOUS
  <2>2. n - y \in D
    BY <2>1 DEF D
  <2>3. d <= n - y
    BY <1>3, <2>2
  <2> QED
    BY <1>4, <2>1, <2>3
<1> QED
  BY <1>4, <1>5

(* The nonempty finite subsets of a set that some family holds: one of the   *)
(* family has no other one of the family inside it.                          *)
LEMMA LeastSubset ==
  ASSUME NEW S, IsFiniteSet(S), NEW F \in SUBSET (SUBSET S), F # {}
  PROVE  \E c \in F : \A d \in F : d \subseteq c => d = c
<1>1. F \subseteq FiniteSubsetsOf(S)
  <2>1. \A c \in F : IsFiniteSet(c)
    BY FS_Subset
  <2> QED
    BY <2>1 DEF FiniteSubsetsOf
<1>2. PICK c \in F : \A d \in F : ~(<<d, c>> \in StrictSubsetOrdering(S))
  BY <1>1, FS_StrictSubsetOrderingWellFounded, WFMin
<1> QED
  BY <1>2 DEF StrictSubsetOrdering

(* A table of n values, each computed from the one before. *)
StepTable(n, S, base, step, g) ==
  /\ g \in [0..n -> S]
  /\ g[0] = base /\ \A k \in 1..n : g[k] = step[<<k, g[k - 1]>>]

LEMMA StepRecursion ==
  ASSUME NEW n \in Nat, NEW S, NEW base \in S, NEW step \in [(1..n) \X S -> S]
  PROVE  \E g : StepTable(n, S, base, step, g)
<1> DEFINE Good(m, g) == g[0] = base /\ \A k \in 1..m : g[k] = step[<<k, g[k - 1]>>]
           Bad == {m \in 0..n : ~ \E g \in [0..m -> S] : Good(m, g)}
<1>1. SUFFICES ASSUME ~ \E g \in [0..n -> S] : Good(n, g) PROVE FALSE
  BY DEF StepTable
<1>2. Bad # {}
  <2>1. n \in Bad
    BY <1>1
  <2> QED
    BY <2>1
<1>3. PICK m \in Bad : \A k \in Bad : m <= k
  <2>1. Bad \in SUBSET Nat
    OBVIOUS
  <2> HIDE DEF Bad
  <2> QED
    BY <1>2, <2>1, LeastNatural
<1>4. m \in 0..n /\ ~ \E g \in [0..m -> S] : Good(m, g)
  BY <1>3
<1>5. m # 0
  <2>1. SUFFICES ASSUME m = 0 PROVE FALSE
    OBVIOUS
  <2> DEFINE g == [k \in 0..0 |-> base]
  <2>2. g \in [0..0 -> S] /\ Good(0, g)
    OBVIOUS
  <2> QED
    BY <1>4, <2>1, <2>2
<1>6. m - 1 \in 0..n /\ m - 1 \notin Bad
  <2>1. m - 1 \in 0..n /\ ~(m <= m - 1)
    BY <1>4, <1>5
  <2> HIDE DEF Bad
  <2> QED
    BY <1>3, <2>1
<1>7. PICK g \in [0..(m - 1) -> S] : Good(m - 1, g)
  BY <1>6
<1> DEFINE h == [k \in 0..m |-> IF k = m THEN step[<<m, g[m - 1]>>] ELSE g[k]]
<1>8. g[m - 1] \in S /\ <<m, g[m - 1]>> \in (1..n) \X S
  BY <1>4, <1>5, <1>7
<1>9. step[<<m, g[m - 1]>>] \in S
  BY <1>8
<1>10. h \in [0..m -> S]
  BY <1>4, <1>7, <1>9
<1>11. h[0] = base
  BY <1>4, <1>5, <1>7
<1>12. ASSUME NEW k \in 1..m PROVE h[k] = step[<<k, h[k - 1]>>]
  <2>1. k - 1 \in 0..m /\ k - 1 # m /\ h[k - 1] = g[k - 1]
    BY <1>4
  <2>2. CASE k = m
    BY <1>4, <1>5, <2>1, <2>2
  <2>3. CASE k # m
    <3>1. k \in 1..(m - 1) /\ k \in 0..m
      BY <1>4, <2>3
    <3>2. h[k] = g[k] /\ g[k] = step[<<k, g[k - 1]>>]
      BY <1>7, <2>3, <3>1
    <3> QED
      BY <2>1, <3>2
  <2> QED
    BY <2>2, <2>3
<1> QED
  BY <1>4, <1>10, <1>11, <1>12

(* A table in which the value of a number m comes from that of parent[m],    *)
(* some smaller number: here the set of numbers from m on to parents.        *)
ParentTable(n, parent, up) ==
  /\ up \in [0..n -> SUBSET (1..n)]
  /\ up[0] = {} /\ \A m \in 1..n : up[m] = {m} \cup up[parent[m]]

LEMMA ParentRecursion ==
  ASSUME NEW n \in Nat, NEW parent, \A m \in 1..n : parent[m] \in 0..(m - 1)
  PROVE  \E up : ParentTable(n, parent, up)
<1> DEFINE S == SUBSET (1..n)
           Good(m, g) == g[0] = {} /\ \A k \in 1..m : g[k] = {k} \cup g[parent[k]]
           Bad == {m \in 0..n : ~ \E g \in [0..m -> S] : Good(m, g)}
<1>1. SUFFICES ASSUME ~ \E g \in [0..n -> S] : Good(n, g) PROVE FALSE
  BY DEF ParentTable
<1>2. Bad # {}
  <2>1. n \in Bad
    BY <1>1
  <2> QED
    BY <2>1
<1>3. PICK m \in Bad : \A k \in Bad : m <= k
  <2>1. Bad \in SUBSET Nat
    OBVIOUS
  <2> HIDE DEF Bad
  <2> QED
    BY <1>2, <2>1, LeastNatural
<1>4. m \in 0..n /\ ~ \E g \in [0..m -> S] : Good(m, g)
  BY <1>3
<1>5. m # 0
  <2>1. SUFFICES ASSUME m = 0 PROVE FALSE
    OBVIOUS
  <2> DEFINE g == [k \in 0..0 |-> {}]
  <2>2. g \in [0..0 -> S] /\ Good(0, g)
    OBVIOUS
  <2> QED
    BY <1>4, <2>1, <2>2
<1>6. m - 1 \in 0..n /\ m - 1 \notin Bad
  <2>1. m - 1 \in 0..n /\ ~(m <= m - 1)
    BY <1>4, <1>5
  <2> HIDE DEF Bad
  <2> QED
    BY <1>3, <2>1
<1>7. PICK g \in [0..(m - 1) -> S] : Good(m - 1, g)
  BY <1>6
<1>8. parent[m] \in 0..(m - 1)
  BY <1>4, <1>5
<1> DEFINE h == [k \in 0..m |-> IF k = m THEN {m} \cup g[parent[m]] ELSE g[k]]
<1>9. g[parent[m]] \in S /\ m \in 1..n
  BY <1>4, <1>5, <1>7, <1>8
<1>10. h \in [0..m -> S]
  BY <1>4, <1>7, <1>9
<1>11. h[0] = {}
  BY <1>4, <1>5, <1>7
<1>12. ASSUME NEW k \in 1..m PROVE h[k] = {k} \cup h[parent[k]]
  <2>1. parent[k] \in 0..(k - 1)
    BY <1>4
  <2>2. parent[k] \in 0..m /\ parent[k] # m
    BY <1>4, <2>1
  <2>3. h[parent[k]] = g[parent[k]]
    BY <2>2
  <2>4. CASE k = m
    BY <1>4, <2>3, <2>4
  <2>5. CASE k # m
    <3>1. k \in 1..(m - 1) /\ k \in 0..m
      BY <1>4, <2>5
    <3>2. h[k] = g[k]
      BY <2>5, <3>1
    <3> QED
      BY <1>7, <2>3, <3>1, <3>2
  <2> QED
    BY <2>4, <2>5
<1> QED
  BY <1>4, <1>10, <1>11, <1>12
=============================================================================
