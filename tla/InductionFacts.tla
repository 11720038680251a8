---------------------------- MODULE InductionFacts ----------------------------
(***************************************************************************)
(* Induction over data, with a set where the library's theorems have a     *)
(* predicate: a set of numbers that has 0 and the successor of each of its *)
(* members has them all, and so for sets of finite sets.                   *)
(***************************************************************************)
EXTENDS SequencesExt, FiniteSetTheorems, SequenceTheorems, WellFoundedInduction, TLAPS

\* A set of numbers has a least one.
LEMMA LeastNumber ==
  ASSUME NEW T \in SUBSET Nat, T # {}
  PROVE  \E m \in T : \A k \in T : m <= k
<1> DEFINE R == {ss \in Nat \X Nat : ss[1] < ss[2]}
<1>1. IsWellFoundedOn(R, Nat)
  BY NatLessThanWellFounded DEF OpToRel
<1>2. \A x, y \in Nat : <<y, x>> \in R <=> y < x
  OBVIOUS
<1> HIDE DEF R
<1>3. PICK x \in T : \A y \in T : ~ (<<y, x>> \in R)
  BY <1>1, WFMin
<1>4. \A y \in T : ~ (y < x)
  BY <1>2, <1>3
<1>5. \A y \in T : x <= y
  BY <1>4
<1> QED BY <1>5

LEMMA NumberInduction ==
  ASSUME NEW S, 0 \in S, \A n \in Nat : n \in S => n + 1 \in S
  PROVE  Nat \subseteq S
<1> SUFFICES ASSUME Nat \ S # {} PROVE FALSE
  OBVIOUS
<1>1. PICK m \in Nat \ S : \A k \in Nat \ S : m <= k
  BY LeastNumber
<1>2. m # 0 /\ m - 1 \in Nat /\ m - 1 \in S
  BY <1>1
<1>3. (m - 1) + 1 = m
  OBVIOUS
<1> QED BY <1>2, <1>3

\* A family of subsets of a finite set has them all, if it has every set that it
\* has with any one element taken away.
LEMMA SubsetInduction ==
  ASSUME NEW S, IsFiniteSet(S), NEW F,
         \A T \in SUBSET S : (\A x \in T : T \ {x} \in F) => T \in F
  PROVE  SUBSET S \subseteq F
<1> DEFINE Sizes == {n \in Nat : \A T \in SUBSET S : Cardinality(T) = n => T \in F}
<1>1. \A T \in SUBSET S : IsFiniteSet(T)
  BY FS_Subset
<1>2. 0 \in Sizes
  BY <1>1, FS_EmptySet
<1>3. ASSUME NEW n \in Nat, n \in Sizes PROVE n + 1 \in Sizes
  <2> SUFFICES ASSUME NEW T \in SUBSET S, Cardinality(T) = n + 1 PROVE T \in F
    OBVIOUS
  <2> HIDE DEF Sizes
  <2>1. ASSUME NEW x \in T PROVE T \ {x} \in F
    <3>1. IsFiniteSet(T)
      BY <1>1
    <3>2. Cardinality(T \ {x}) = Cardinality(T) - 1
      BY <3>1, FS_RemoveElement
    <3> QED BY <1>3, <3>2 DEF Sizes
  <2> QED BY <2>1
<1> HIDE DEF Sizes
<1>4. Nat \subseteq Sizes
  BY <1>2, <1>3, NumberInduction
<1>5. ASSUME NEW T \in SUBSET S PROVE T \in F
  <2>1. Cardinality(T) \in Nat
    BY <1>1, FS_CardinalityType
  <2> QED BY <1>4, <2>1 DEF Sizes
<1> QED BY <1>5

-----------------------------------------------------------------------------
\* A function that is defined by recursion on the numbers up to N exists, when
\* each value is made of the one before.
IsChain(g, N, V, base, G) ==
  /\ g \in [1 .. N -> V]
  /\ \A i \in 1 .. N : g[i] = IF i = 1 THEN base ELSE G[<<i, g[i - 1]>>]

LEMMA ChainExists ==
  ASSUME NEW N \in Nat, NEW V, NEW base \in V, NEW G \in [(1 .. N) \X V -> V]
  PROVE  \E g : IsChain(g, N, V, base, G)
<1> USE DEF IsChain
<1> DEFINE Is(g, n) == /\ g \in [1 .. n -> V]
                       /\ \A i \in 1 .. n : g[i] = IF i = 1 THEN base ELSE G[<<i, g[i - 1]>>]
           Good == {n \in Nat : n <= N => \E g : Is(g, n)}
<1>1. 0 \in Good
  <2>1. Is([i \in 1 .. 0 |-> base], 0)
    OBVIOUS
  <2> QED BY <2>1
<1>2. ASSUME NEW n \in Nat, n \in Good PROVE n + 1 \in Good
  <2> SUFFICES ASSUME n + 1 <= N PROVE \E g : Is(g, n + 1)
    OBVIOUS
  <2>1. PICK g : Is(g, n)
    BY <1>2
  <2> DEFINE v == IF n = 0 THEN base ELSE G[<<n + 1, g[n]>>]
             h == [i \in 1 .. n + 1 |-> IF i = n + 1 THEN v ELSE g[i]]
  <2>2. v \in V
    <3>1. CASE n # 0
      <4>1. g[n] \in V /\ n + 1 \in 1 .. N
        BY <2>1, <3>1
      <4> QED BY <3>1, <4>1
    <3> QED BY <3>1
  <2> HIDE DEF v
  <2>3. h \in [1 .. n + 1 -> V]
    BY <2>1, <2>2
  <2>4. ASSUME NEW i \in 1 .. n + 1
        PROVE  h[i] = IF i = 1 THEN base ELSE G[<<i, h[i - 1]>>]
    <3>1. CASE i = n + 1 /\ n = 0
      BY <3>1 DEF v
    <3>2. CASE i = n + 1 /\ n # 0
      <4>1. h[i - 1] = g[n] /\ h[i] = v /\ i # 1
        BY <3>2
      <4> QED BY <3>2, <4>1 DEF v
    <3>3. CASE i # n + 1
      <4>1. i \in 1 .. n /\ h[i] = g[i] /\ (i # 1 => h[i - 1] = g[i - 1])
        BY <3>3
      <4> QED BY <2>1, <4>1
    <3> QED BY <3>1, <3>2, <3>3
  <2> QED BY <2>3, <2>4
<1> HIDE DEF Good
<1>3. Nat \subseteq Good
  BY <1>1, <1>2, NumberInduction
<1> QED BY <1>3 DEF Good

\* So does one that is defined by recursion on the subsets of a finite set, when
\* each value is made of the one for the subset without a chosen element.
IsFold(g, S, V, base, c, G) ==
  /\ g \in [SUBSET S -> V]
  /\ \A s \in SUBSET S : g[s] = IF s = {} THEN base ELSE G[<<c[s], g[s \ {c[s]}]>>]

LEMMA FoldExists ==
  ASSUME NEW S, IsFiniteSet(S), NEW V, NEW base \in V, NEW c,
         \A s \in SUBSET S : s # {} => c[s] \in s,
         NEW G \in [S \X V -> V]
  PROVE  \E g : IsFold(g, S, V, base, c, G)
<1> USE DEF IsFold
<1> DEFINE Upto(n)  == {s \in SUBSET S : Cardinality(s) <= n}
           Is(g, n) == /\ g \in [Upto(n) -> V]
                       /\ \A s \in Upto(n) :
                            g[s] = IF s = {} THEN base ELSE G[<<c[s], g[s \ {c[s]}]>>]
           Good == {n \in Nat : \E g : Is(g, n)}
<1>0. \A s \in SUBSET S : IsFiniteSet(s) /\ Cardinality(s) \in Nat
  BY FS_Subset, FS_CardinalityType
<1>1. \A n \in Nat : \A s \in Upto(n + 1) : s # {} => s \ {c[s]} \in Upto(n)
  <2> SUFFICES ASSUME NEW n \in Nat, NEW s \in SUBSET S, Cardinality(s) <= n + 1, s # {}
               PROVE  Cardinality(s \ {c[s]}) <= n
    OBVIOUS
  <2>1. Cardinality(s \ {c[s]}) = Cardinality(s) - 1
    BY <1>0, FS_RemoveElement
  <2> QED BY <1>0, <2>1
<1>2. \A n \in Nat : Upto(n) \subseteq Upto(n + 1)
  BY <1>0
<1>3. 0 \in Good
  <2>1. \A s \in Upto(0) : s = {}
    BY <1>0, FS_EmptySet
  <2>2. Is([s \in Upto(0) |-> base], 0)
    BY <2>1
  <2> QED BY <2>2
<1>4. ASSUME NEW n \in Nat, n \in Good PROVE n + 1 \in Good
  <2>1. PICK g : Is(g, n)
    BY <1>4
  <2> DEFINE h == [s \in Upto(n + 1) |->
                     IF s = {} THEN base ELSE G[<<c[s], g[s \ {c[s]}]>>]]
  <2> HIDE DEF Upto
  <2>2. \A s \in Upto(n) : h[s] = g[s]
    BY <1>2, <2>1
  <2>3. \A s \in Upto(n + 1) : s # {} => c[s] \in S /\ g[s \ {c[s]}] \in V
    <3>1. \A s \in Upto(n + 1) : s # {} => c[s] \in S
      BY DEF Upto
    <3> QED BY <1>1, <2>1, <3>1
  <2>4. h \in [Upto(n + 1) -> V]
    BY <2>3
  <2>5. \A s \in Upto(n + 1) : s # {} => h[s \ {c[s]}] = g[s \ {c[s]}]
    BY <1>1, <2>2
  <2>6. \A s \in Upto(n + 1) :
          h[s] = IF s = {} THEN base ELSE G[<<c[s], h[s \ {c[s]}]>>]
    BY <2>5
  <2>7. Is(h, n + 1)
    BY <2>4, <2>6
  <2> HIDE DEF Is
  <2> QED BY <2>7
<1> HIDE DEF Good
<1>5. Cardinality(S) \in Good
  BY <1>0, <1>3, <1>4, NumberInduction
<1>6. Upto(Cardinality(S)) = SUBSET S
  BY FS_Subset
<1>7. PICK g : Is(g, Cardinality(S))
  BY <1>5 DEF Good
<1> QED BY <1>6, <1>7

-----------------------------------------------------------------------------
\* FlattenSeq is a sequence of what is in the sequences it is made of.
LEMMA Flattened ==
  ASSUME NEW S, NEW ss \in Seq(Seq(S))
  PROVE  /\ FlattenSeq(ss) \in Seq(S)
         /\ \A m : m \in Range(FlattenSeq(ss)) <=> \E i \in 1 .. Len(ss) : m \in Range(ss[i])
<1>1. CASE Len(ss) = 0
  <2>1. ss = <<>> /\ FlattenSeq(ss) = <<>>
    BY <1>1 DEF FlattenSeq
  <2>2. Range(<<>>) = {}
    BY DEF Range
  <2>3. <<>> \in Seq(S)
    OBVIOUS
  <2>4. FlattenSeq(ss) \in Seq(S) /\ Range(FlattenSeq(ss)) = {}
    BY <2>1, <2>2, <2>3, Zenon
  <2>5. 1 .. Len(ss) = {}
    BY <1>1
  <2> QED BY <2>4, <2>5, Zenon
<1>2. CASE Len(ss) # 0
  <2> DEFINE N == Len(ss)
             Is(f) == f = [i \in 1 .. N |-> IF i = 1 THEN ss[i] ELSE f[i - 1] \o ss[i]]
             f == CHOOSE g : Is(g)
             G == [p \in (1 .. N) \X Seq(S) |-> p[2] \o ss[p[1]]]
  <2>1. N \in Nat \ {0} /\ \A i \in 1 .. N : ss[i] \in Seq(S)
    BY <1>2
  <2>2. G \in [(1 .. N) \X Seq(S) -> Seq(S)] /\ ss[1] \in Seq(S)
    BY <2>1
  <2>0. \A i \in 1 .. N, s \in Seq(S) : G[<<i, s>>] = s \o ss[i]
    OBVIOUS
  <2> HIDE DEF G, N
  <2>12. \E g : IsChain(g, N, Seq(S), ss[1], G)
    BY <2>1, <2>2, ChainExists
  <2>3. PICK g \in [1 .. N -> Seq(S)] :
          \A i \in 1 .. N : g[i] = IF i = 1 THEN ss[1] ELSE G[<<i, g[i - 1]>>]
    BY <2>12 DEF IsChain
  <2>4. Is(g)
    <3>1. ASSUME NEW i \in 1 .. N
          PROVE  g[i] = IF i = 1 THEN ss[i] ELSE g[i - 1] \o ss[i]
      <4>1. i # 1 => g[i - 1] \in Seq(S)
        BY <2>1, <2>3
      <4> QED BY <2>0, <2>3, <4>1
    <3>2. g = [i \in 1 .. N |-> g[i]]
      BY <2>3
    <3> QED BY <3>1, <3>2
  <2>5. Is(f)
    BY <2>4
  <2>6. FlattenSeq(ss) = f[N]
    BY <1>2 DEF FlattenSeq, N
  <2> HIDE DEF f
  <2>7. \A i \in 1 .. N : f[i] = IF i = 1 THEN ss[i] ELSE f[i - 1] \o ss[i]
    BY <2>5
  <2> HIDE DEF Is
  <2> DEFINE Good == {n \in Nat : n + 1 <= N =>
                        /\ f[n + 1] \in Seq(S)
                        /\ \A m : m \in Range(f[n + 1])
                                 <=> \E i \in 1 .. n + 1 : m \in Range(ss[i])}
  <2>8. 0 \in Good
    <3>1. 1 .. 1 = {1} /\ 0 + 1 = 1
      OBVIOUS
    <3>2. 1 \in 1 .. N /\ f[1] = ss[1] /\ f[1] \in Seq(S)
      BY <2>1, <2>7
    <3>3. \A m : m \in Range(f[1]) <=> \E i \in 1 .. 1 : m \in Range(ss[i])
      BY <3>1, <3>2
    <3> QED BY <3>1, <3>2, <3>3
  <2>9. ASSUME NEW n \in Nat, n \in Good PROVE n + 1 \in Good
    <3> SUFFICES ASSUME n + 2 <= N
                 PROVE  /\ f[n + 2] \in Seq(S)
                        /\ \A m : m \in Range(f[n + 2])
                                 <=> \E i \in 1 .. n + 2 : m \in Range(ss[i])
      OBVIOUS
    <3>1. /\ f[n + 1] \in Seq(S)
          /\ \A m : m \in Range(f[n + 1]) <=> \E i \in 1 .. n + 1 : m \in Range(ss[i])
      BY <2>1, <2>9
    <3>2. f[n + 2] = f[n + 1] \o ss[n + 2] /\ ss[n + 2] \in Seq(S)
      <4>1. n + 2 \in 1 .. N /\ n + 2 # 1 /\ (n + 2) - 1 = n + 1
        BY <2>1
      <4> QED BY <2>1, <2>7, <4>1
    <3>3. Range(f[n + 2]) = Range(f[n + 1]) \union Range(ss[n + 2]) /\ f[n + 2] \in Seq(S)
      BY <3>1, <3>2, RangeConcatenation, ConcatProperties
    <3>4. \A i : i \in 1 .. n + 2 <=> i \in 1 .. n + 1 \/ i = n + 2
      OBVIOUS
    <3> QED BY <3>1, <3>3, <3>4
  <2> HIDE DEF Good
  <2>10. Nat \subseteq Good
    BY <2>8, <2>9, NumberInduction
  <2>11. N - 1 \in Good /\ (N - 1) + 1 = N
    BY <2>1, <2>10
  <2> QED BY <2>1, <2>6, <2>11 DEF Good, N
<1> QED BY <1>1, <1>2
=============================================================================
