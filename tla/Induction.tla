------------------------------- MODULE Induction --------------------------------
(***************************************************************************)
(* Induction for the proof modules.  A theorem with an operator for the      *)
(* property cannot be instantiated by the provers used here, so the property *)
(* is the set of the numbers that have it.  And what recursive functions,    *)
(* folds over finite sets and concatenations come to, one step at a time.     *)
(***************************************************************************)
EXTENDS Integers, FiniteSets, SequencesExt, FiniteSetTheorems, SequenceTheorems,
        WellFoundedInduction, TLAPS

\* A nonempty set of natural numbers has a least element.
LEMMA LeastNatural ==
  ASSUME NEW T \in SUBSET Nat, T # {}
  PROVE  \E m \in T : \A k \in T : m <= k
<1> DEFINE R == OpToRel(<, Nat)
<1>1. IsWellFoundedOn(R, Nat)
  BY NatLessThanWellFounded
<1>2. \A x, y \in Nat : y < x => <<y, x>> \in R
  BY DEF OpToRel
<1>3. T \subseteq Nat
  OBVIOUS
<1> HIDE DEF R
<1>4. PICK m \in T : \A k \in T : ~(<<k, m>> \in R)
  BY <1>1, <1>3, WFMin
<1>5. \A k \in T : ~(k < m)
  BY <1>2, <1>3, <1>4
<1>6. QED BY <1>5

\* A set that holds 0 and the successor of each number in it holds all.
LEMMA SetInduction ==
  ASSUME NEW S, 0 \in S, \A n \in Nat : n \in S => n + 1 \in S
  PROVE  \A n \in Nat : n \in S
<1> DEFINE T == {n \in Nat : n \notin S}
<1>1. SUFFICES ASSUME T # {} PROVE FALSE
  OBVIOUS
<1>2. PICK m \in T : \A k \in T : m <= k
  BY <1>1, LeastNatural
<1>3. m \in Nat \ {0} /\ m - 1 \in Nat
  BY <1>2
<1>4. m - 1 \in S
  BY <1>2, <1>3
<1>5. QED BY <1>2, <1>3, <1>4

\* A nonempty set of natural numbers that is bounded has a greatest element.
LEMMA GreatestNatural ==
  ASSUME NEW T \in SUBSET Nat, T # {}, NEW b \in Nat, \A k \in T : k <= b
  PROVE  \E m \in T : \A k \in T : k <= m
<1> DEFINE U == {n \in Nat : \A k \in T : k <= n}
<1>1. U \in SUBSET Nat /\ b \in U
  OBVIOUS
<1>2. PICK m \in U : \A n \in U : m <= n
  BY <1>1, LeastNatural
<1>3. CASE m \in T
  BY <1>2, <1>3
<1>4. CASE m \notin T
  <2>1. \A k \in T : k < m
    BY <1>2, <1>4
  <2>2. m # 0
    <3>1. PICK k \in T : TRUE
      OBVIOUS
    <3>2. QED BY <2>1, <3>1
  <2>3. m - 1 \in U
    BY <1>2, <2>1, <2>2
  <2>4. QED BY <1>2, <2>3
<1>5. QED BY <1>3, <1>4

-------------------------------------------------------------------------------
(* Recursive functions on the first numbers.                                 *)

\* The function that starts with base and takes a step for each number up to N.
IsRecursion(g, base, step, N) ==
  \A n \in 0 .. N : g[n] = IF n = 0 THEN base ELSE step[n][g[n - 1]]

\* A recursion from one number to the next has a value for each.
LEMMA RecursionExists ==
  ASSUME NEW N \in Nat, NEW X, NEW base \in X, NEW step \in [1 .. N -> [X -> X]]
  PROVE  \E g \in [0 .. N -> X] : IsRecursion(g, base, step, N)
<1> DEFINE Holds(g, m) == \A n \in 0 .. m : g[n] = IF n = 0 THEN base ELSE step[n][g[n - 1]]
           Q == {m \in Nat : m <= N => \E g \in [0 .. m -> X] : Holds(g, m)}
<1>1. 0 \in Q
  <2> DEFINE g == [n \in 0 .. 0 |-> base]
  <2>1. g \in [0 .. 0 -> X] /\ Holds(g, 0)
    OBVIOUS
  <2> HIDE DEF g
  <2>2. QED BY <2>1
<1>2. ASSUME NEW m \in Nat, m \in Q PROVE m + 1 \in Q
  <2>1. SUFFICES ASSUME m + 1 <= N PROVE \E g \in [0 .. m + 1 -> X] : Holds(g, m + 1)
    OBVIOUS
  <2>2. PICK g \in [0 .. m -> X] : Holds(g, m)
    BY <1>2, <2>1
  <2> DEFINE h == [n \in 0 .. m + 1 |-> IF n <= m THEN g[n] ELSE step[m + 1][g[m]]]
  <2>3. m + 1 \in 1 .. N /\ g[m] \in X
    BY <2>1
  <2>4. step[m + 1][g[m]] \in X
    BY <2>3
  <2>5. h \in [0 .. m + 1 -> X]
    BY <2>4
  <2>6. \A n \in 0 .. m : h[n] = g[n]
    OBVIOUS
  <2>7. h[m + 1] = step[m + 1][h[m]]
    BY <2>6
  <2> HIDE DEF h
  <2>8. Holds(h, m + 1)
    BY <2>2, <2>6, <2>7
  <2>9. QED BY <2>5, <2>8
<1>3. \A m \in Nat : m \in Q
  <2> HIDE DEF Q
  <2> QED BY <1>1, <1>2, SetInduction
<1>4. QED BY <1>3 DEF IsRecursion

-------------------------------------------------------------------------------
(* Folds over a finite set, which take out one element after another.        *)

TakenFirst(s) == CHOOSE x \in s : TRUE

\* The function a fold is the value of: g[s] for every subset s, from the one
\* without the element that is taken out.
IsFold(g, base, step, S) ==
  \A s \in SUBSET S :
    g[s] = IF s = {} THEN base ELSE step[TakenFirst(s)][g[s \ {TakenFirst(s)}]]

SmallSubsets(S, n) == {s \in SUBSET S : Cardinality(s) <= n}

\* Taking the element out leaves a smaller set.
LEMMA TakenOut ==
  ASSUME NEW S, IsFiniteSet(S), NEW s \in SUBSET S, s # {}
  PROVE  /\ TakenFirst(s) \in s /\ TakenFirst(s) \in S
         /\ IsFiniteSet(s) /\ s \ {TakenFirst(s)} \in SUBSET S
         /\ Cardinality(s) \in Nat \ {0}
         /\ Cardinality(s \ {TakenFirst(s)}) = Cardinality(s) - 1
<1>1. TakenFirst(s) \in s
  BY DEF TakenFirst
<1>2. IsFiniteSet(s)
  BY FS_Subset
<1>3. Cardinality(s) \in Nat /\ Cardinality(s) # 0
  BY <1>2, FS_CardinalityType, FS_EmptySet
<1>4. QED BY <1>1, <1>2, <1>3, FS_RemoveElement

\* A set of subsets that holds the empty one, and each subset when it holds the one
\* with an element taken out, holds all of them.
LEMMA SubsetInduction ==
  ASSUME NEW S, IsFiniteSet(S), NEW T, {} \in T,
         \A s \in SUBSET S : s # {} /\ s \ {TakenFirst(s)} \in T => s \in T
  PROVE  \A s \in SUBSET S : s \in T
<1> DEFINE N == {n \in Nat : SmallSubsets(S, n) \subseteq T}
<1>0. \A s \in SUBSET S : IsFiniteSet(s) /\ Cardinality(s) \in Nat /\ (Cardinality(s) = 0 <=> s = {})
  BY FS_Subset, FS_CardinalityType, FS_EmptySet
<1>1. 0 \in N
  <2>1. \A s \in SmallSubsets(S, 0) : s = {}
    BY <1>0 DEF SmallSubsets
  <2>2. QED BY <2>1
<1>2. ASSUME NEW n \in Nat, n \in N PROVE n + 1 \in N
  <2>1. ASSUME NEW s \in SmallSubsets(S, n + 1), s # {} PROVE s \ {TakenFirst(s)} \in T
    BY <1>2, <2>1, TakenOut DEF SmallSubsets
  <2>2. \A s \in SmallSubsets(S, n + 1) : s \in T
    BY <2>1 DEF SmallSubsets
  <2>3. QED BY <2>2
<1>3. \A n \in Nat : n \in N
  <2> HIDE DEF N
  <2> QED BY <1>1, <1>2, SetInduction
<1>4. QED BY <1>0, <1>3 DEF SmallSubsets

\* A fold has a value for every subset.
LEMMA FoldExists ==
  ASSUME NEW S, IsFiniteSet(S), NEW X, NEW base \in X, NEW step \in [S -> [X -> X]]
  PROVE  \E g \in [SUBSET S -> X] : IsFold(g, base, step, S)
<1> DEFINE Holds(g, n) ==
             \A s \in SmallSubsets(S, n) :
               g[s] = IF s = {} THEN base ELSE step[TakenFirst(s)][g[s \ {TakenFirst(s)}]]
           Q == {n \in Nat : \E g \in [SmallSubsets(S, n) -> X] : Holds(g, n)}
<1>0. \A s \in SUBSET S : IsFiniteSet(s) /\ Cardinality(s) \in Nat /\ (Cardinality(s) = 0 <=> s = {})
  BY FS_Subset, FS_CardinalityType, FS_EmptySet
<1>1. 0 \in Q
  <2>1. \A s \in SmallSubsets(S, 0) : s = {}
    BY <1>0 DEF SmallSubsets
  <2>2. [s \in SmallSubsets(S, 0) |-> base] \in [SmallSubsets(S, 0) -> X]
    OBVIOUS
  <2>3. QED BY <2>1, <2>2
<1>2. ASSUME NEW n \in Nat, n \in Q PROVE n + 1 \in Q
  <2>1. PICK g \in [SmallSubsets(S, n) -> X] : Holds(g, n)
    BY <1>2
  <2> DEFINE h == [s \in SmallSubsets(S, n + 1) |->
                     IF s = {} THEN base ELSE step[TakenFirst(s)][g[s \ {TakenFirst(s)}]]]
  <2>2. ASSUME NEW s \in SmallSubsets(S, n + 1), s # {}
        PROVE  s \ {TakenFirst(s)} \in SmallSubsets(S, n) /\ TakenFirst(s) \in S
    BY <2>2, TakenOut DEF SmallSubsets
  <2>3. SmallSubsets(S, n) \subseteq SmallSubsets(S, n + 1)
    BY <1>0 DEF SmallSubsets
  <2>4. h \in [SmallSubsets(S, n + 1) -> X]
    BY <2>2
  <2>5. \A s \in SmallSubsets(S, n) : h[s] = g[s]
    BY <2>1, <2>3
  <2>6. Holds(h, n + 1)
    BY <2>2, <2>5
  <2> HIDE DEF h
  <2>7. \E f \in [SmallSubsets(S, n + 1) -> X] : Holds(f, n + 1)
    BY <2>4, <2>6
  <2> HIDE DEF Holds
  <2>8. QED BY <2>7
<1>3. \A n \in Nat : n \in Q
  <2> HIDE DEF Q
  <2> QED BY <1>1, <1>2, SetInduction
<1>4. Cardinality(S) \in Nat
  BY FS_CardinalityType
<1>5. SmallSubsets(S, Cardinality(S)) = SUBSET S
  BY FS_Subset DEF SmallSubsets
<1>6. PICK g \in [SUBSET S -> X] : Holds(g, Cardinality(S))
  BY <1>3, <1>4, <1>5
<1>7. QED BY <1>5, <1>6 DEF IsFold

\* A concatenation of sequences is what it starts with, and one more after it.
LEMMA FlattenStep ==
  ASSUME NEW T, NEW N \in Nat, NEW f \in [1 .. N -> Seq(T)]
  PROVE  /\ FlattenSeq([k \in 1 .. 0 |-> f[k]]) = <<>>
         /\ \A n \in 0 .. N : FlattenSeq([k \in 1 .. n |-> f[k]]) \in Seq(T)
         /\ \A n \in 1 .. N :
              FlattenSeq([k \in 1 .. n |-> f[k]]) = FlattenSeq([k \in 1 .. n - 1 |-> f[k]]) \o f[n]
<1> DEFINE step == [n \in 1 .. N |-> [s \in Seq(T) |-> s \o f[n]]]
           First(n) == [k \in 1 .. n |-> f[k]]
<1>1. <<>> \in Seq(T) /\ step \in [1 .. N -> [Seq(T) -> Seq(T)]]
  <2>1. ASSUME NEW n \in 1 .. N, NEW s \in Seq(T) PROVE s \o f[n] \in Seq(T)
    BY ConcatProperties
  <2>2. QED BY <2>1
<1>2. PICK g \in [0 .. N -> Seq(T)] : IsRecursion(g, <<>>, step, N)
  <2> HIDE DEF step
  <2> QED BY <1>1, RecursionExists
<1>3. g[0] = <<>> /\ \A n \in 1 .. N : g[n] = g[n - 1] \o f[n]
  <2>1. ASSUME NEW n \in 1 .. N PROVE g[n] = step[n][g[n - 1]] /\ g[n - 1] \in Seq(T)
    <3>1. n \in 0 .. N /\ n # 0 /\ n - 1 \in 0 .. N
      OBVIOUS
    <3> HIDE DEF step
    <3>2. QED BY <1>2, <3>1 DEF IsRecursion
  <2>2. 0 \in 0 .. N
    OBVIOUS
  <2>3. g[0] = <<>>
    BY <1>2, <2>2 DEF IsRecursion
  <2>4. QED BY <2>1, <2>3
<1> HIDE DEF step
<1>4. ASSUME NEW n \in 0 .. N PROVE FlattenSeq(First(n)) = g[n]
  <2>1. First(n) \in [1 .. n -> Seq(T)] /\ n \in Nat /\ Len(First(n)) = n
        /\ \A k \in 1 .. n : First(n)[k] = f[k]
    OBVIOUS
  <2>2. CASE n = 0
    <3>1. First(n) = <<>>
      BY <2>2
    <3> HIDE DEF First
    <3>2. FlattenSeq(First(n)) = First(n)
      BY <2>1, <2>2 DEF FlattenSeq
    <3>3. QED BY <1>3, <2>2, <3>1, <3>2
  <2>3. CASE n # 0
    <3> DEFINE body(h) == [i \in 1 .. Len(First(n)) |->
                             IF i = 1 THEN First(n)[i] ELSE h[i - 1] \o First(n)[i]]
               flatten == CHOOSE h : h = body(h)
               G == [i \in 1 .. n |-> g[i]]
    <3>1. FlattenSeq(First(n)) = flatten[Len(First(n))]
      <4> HIDE DEF First
      <4> QED BY <2>1, <2>3 DEF FlattenSeq
    <3>2. G = body(G)
      <4>1. ASSUME NEW i \in 1 .. n
            PROVE  G[i] = IF i = 1 THEN First(n)[i] ELSE G[i - 1] \o First(n)[i]
        <5>1. i \in 1 .. N /\ G[i] = g[i] /\ First(n)[i] = f[i] /\ f[i] \in Seq(T)
          BY <2>1
        <5>2. CASE i = 1
          <6>0. i - 1 = 0
            BY <5>2
          <6>1. g[i] = <<>> \o f[i]
            BY <1>3, <5>1, <6>0
          <6>2. QED BY <5>1, <5>2, <6>1, ConcatEmptySeq
        <5>3. CASE i # 1
          <6>1. i - 1 \in 1 .. n
            BY <5>3
          <6>2. G[i - 1] = g[i - 1]
            BY <6>1
          <6>3. QED BY <1>3, <5>1, <5>3, <6>2
        <5>4. QED BY <5>2, <5>3
      <4> HIDE DEF First
      <4>2. QED BY <2>1, <4>1
    <3>3. flatten = body(flatten)
      <4> HIDE DEF body, G
      <4> QED BY <3>2
    <3> HIDE DEF flatten
    <3> DEFINE Q == {i \in Nat : i + 1 <= n => flatten[i + 1] = g[i + 1]}
    <3>4. \A i \in 1 .. n : flatten[i] = IF i = 1 THEN f[i] ELSE flatten[i - 1] \o f[i]
      <4>1. ASSUME NEW i \in 1 .. n
            PROVE  flatten[i] = IF i = 1 THEN f[i] ELSE flatten[i - 1] \o f[i]
        <5>1. body(flatten)[i] = IF i = 1 THEN First(n)[i] ELSE flatten[i - 1] \o First(n)[i]
          <6> HIDE DEF First
          <6> QED BY <2>1
        <5> HIDE DEF body, First
        <5>2. QED BY <2>1, <3>3, <5>1
      <4>2. QED BY <4>1
    <3>5. 0 \in Q
      <4>1. 1 \in 1 .. n /\ 1 \in 1 .. N /\ f[1] \in Seq(T)
        BY <2>3
      <4>2. flatten[1] = f[1]
        BY <3>4, <4>1
      <4>0. 1 - 1 = 0
        OBVIOUS
      <4>3. g[1] = <<>> \o f[1]
        BY <1>3, <4>0, <4>1
      <4>4. QED BY <4>1, <4>2, <4>3, ConcatEmptySeq
    <3>6. ASSUME NEW i \in Nat, i \in Q PROVE i + 1 \in Q
      <4>1. SUFFICES ASSUME (i + 1) + 1 <= n PROVE flatten[(i + 1) + 1] = g[(i + 1) + 1]
        OBVIOUS
      <4>2. i + 1 + 1 \in 1 .. n /\ i + 1 + 1 \in 1 .. N /\ i + 1 + 1 # 1 /\ (i + 1 + 1) - 1 = i + 1
        BY <4>1
      <4>3. flatten[i + 1 + 1] = flatten[i + 1] \o f[i + 1 + 1]
        BY <3>4, <4>2
      <4>4. g[i + 1 + 1] = g[i + 1] \o f[i + 1 + 1]
        BY <1>3, <4>2
      <4>5. flatten[i + 1] = g[i + 1]
        BY <3>6, <4>1
      <4>6. QED BY <4>3, <4>4, <4>5
    <3>7. \A i \in Nat : i \in Q
      <4> HIDE DEF Q
      <4> QED BY <3>5, <3>6, SetInduction
    <3>8. n - 1 \in Nat /\ n - 1 + 1 = n /\ n - 1 + 1 <= n
      BY <2>1, <2>3
    <3>9. n - 1 \in Q
      <4> HIDE DEF Q
      <4> QED BY <3>7, <3>8
    <3>10. flatten[n] = g[n]
      BY <3>8, <3>9
    <3>11. QED BY <2>1, <3>1, <3>10
  <2>4. QED BY <2>2, <2>3
<1>5. ASSUME NEW n \in 1 .. N
      PROVE  FlattenSeq(First(n)) = FlattenSeq(First(n - 1)) \o f[n]
  <2>1. n \in 0 .. N /\ n - 1 \in 0 .. N
    OBVIOUS
  <2> HIDE DEF First
  <2>2. QED BY <1>3, <1>4, <2>1
<1>6. 0 \in 0 .. N
  OBVIOUS
<1>7. \A n \in 0 .. N : FlattenSeq(First(n)) \in Seq(T)
  <2> HIDE DEF First
  <2> QED BY <1>4
<1>8. FlattenSeq(First(0)) = <<>>
  <2> HIDE DEF First
  <2> QED BY <1>3, <1>4, <1>6
<1>9. QED BY <1>5, <1>7, <1>8
================================================================================
