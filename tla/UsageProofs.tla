------------------------------ MODULE UsageProofs ------------------------------
(***************************************************************************)
(* Proofs about Usage for every set of numbers and every quota: what a sum *)
(* over the lines of an account is, and what the figures shown say of it.  *)
(***************************************************************************)
EXTENDS Usage, InductionFacts

-----------------------------------------------------------------------------
\* SumFunctionOnSet, whose recursion chooses an element of each subset.

Amounts(f, S) == IsFiniteSet(S) /\ \A x \in S : f[x] \in Nat

Choice(s) == CHOOSE x \in s : TRUE

\* The sums over the subsets of S, as one function.
Adds(g, f, S) ==
  \A s \in SUBSET S : g[s] = IF s = {} THEN 0 ELSE f[Choice(s)] + g[s \ {Choice(s)}]
IsSum(g, f, S) == g \in [SUBSET S -> Nat] /\ Adds(g, f, S)

\* There is only one.
LEMMA SumUnique ==
  ASSUME NEW f, NEW T, IsFiniteSet(T), NEW g, NEW h, Adds(g, f, T), Adds(h, f, T)
  PROVE  \A s \in SUBSET T : g[s] = h[s]
<1> USE DEF Adds
<1> DEFINE F == {s \in SUBSET T : g[s] = h[s]}
<1>1. \A s \in SUBSET T : s # {} => Choice(s) \in s
  BY DEF Choice
<1>2. ASSUME NEW s \in SUBSET T, \A x \in s : s \ {x} \in F PROVE s \in F
  BY <1>1, <1>2
<1> HIDE DEF F
<1>3. SUBSET T \subseteq F
  BY <1>2, SubsetInduction
<1> QED BY <1>3 DEF F

LEMMA SumExists ==
  ASSUME NEW S, NEW f, Amounts(f, S)
  PROVE  \E g : IsSum(g, f, S) /\ SumFunctionOnSet(f, S) = g[S]
<1> DEFINE c == [s \in SUBSET S |-> Choice(s)]
           G == [p \in S \X Nat |-> f[p[1]] + p[2]]
           Is(g) == g = [s \in SUBSET S |->
                           IF s = {} THEN 0 ELSE f[Choice(s)] + g[s \ {Choice(s)}]]
           iter == CHOOSE g : Is(g)
<1>1. \A s \in SUBSET S : s # {} => Choice(s) \in s
  BY DEF Choice
<1>2. G \in [S \X Nat -> Nat] /\ \A x \in S, n \in Nat : G[<<x, n>>] = f[x] + n
  BY DEF Amounts
<1>3. \A s \in SUBSET S : c[s] = Choice(s)
  OBVIOUS
<1> HIDE DEF c, G
<1>4. \A s \in SUBSET S : s # {} => c[s] \in s
  BY <1>1, <1>3
<1>5. \E g : IsFold(g, S, Nat, 0, c, G)
  BY <1>2, <1>4, FoldExists DEF Amounts
<1>6. PICK g : IsFold(g, S, Nat, 0, c, G)
  BY <1>5
<1>7. IsSum(g, f, S)
  <2>1. g \in [SUBSET S -> Nat]
    BY <1>6 DEF IsFold
  <2>2. ASSUME NEW s \in SUBSET S
        PROVE  g[s] = IF s = {} THEN 0 ELSE f[Choice(s)] + g[s \ {Choice(s)}]
    <3>1. s # {} => Choice(s) \in S /\ g[s \ {Choice(s)}] \in Nat
      BY <1>1, <2>1
    <3>2. g[s] = IF s = {} THEN 0 ELSE G[<<c[s], g[s \ {c[s]}]>>]
      BY <1>6 DEF IsFold
    <3> QED BY <1>2, <1>3, <3>1, <3>2
  <2> QED BY <2>1, <2>2 DEF IsSum, Adds
<1>8. Is(g)
  <2>1. g = [s \in SUBSET S |-> g[s]]
    BY <1>7 DEF IsSum
  <2> QED BY <1>7, <2>1 DEF IsSum, Adds
<1>9. Is(iter)
  BY <1>8
<1>10. SumFunctionOnSet(f, S) = iter[S]
  BY DEF SumFunctionOnSet, FoldFunctionOnSet, MapThenFoldSet, Choice
<1> HIDE DEF iter
<1>11. Adds(iter, f, S)
  BY <1>9 DEF Adds
<1>12. iter[S] = g[S]
  BY <1>7, <1>11, SumUnique DEF IsSum, Amounts
<1> QED BY <1>7, <1>10, <1>12

\* A sum is a number; that of nothing is zero; and it is any one of its amounts
\* more than the sum of the others.
LEMMA SumFacts ==
  ASSUME NEW S, NEW f, Amounts(f, S)
  PROVE  /\ SumFunctionOnSet(f, S) \in Nat
         /\ SumFunctionOnSet(f, {}) = 0
         /\ \A x \in S : SumFunctionOnSet(f, S) = f[x] + SumFunctionOnSet(f, S \ {x})
<1>1. PICK g : IsSum(g, f, S) /\ SumFunctionOnSet(f, S) = g[S]
  BY SumExists
<1>2. ASSUME NEW T \in SUBSET S PROVE SumFunctionOnSet(f, T) = g[T]
  <2>1. Amounts(f, T) /\ IsFiniteSet(T)
    BY FS_Subset DEF Amounts
  <2>2. PICK h : IsSum(h, f, T) /\ SumFunctionOnSet(f, T) = h[T]
    BY <2>1, SumExists
  <2>3. Adds(g, f, T)
    BY <1>1 DEF IsSum, Adds
  <2>4. Adds(h, f, T)
    BY <2>2 DEF IsSum
  <2>5. g[T] = h[T]
    BY <2>1, <2>3, <2>4, SumUnique
  <2> QED BY <2>2, <2>5
<1> DEFINE F == {s \in SUBSET S : \A x \in s : g[s] = f[x] + g[s \ {x}]}
<1>3. \A s \in SUBSET S : s # {} => Choice(s) \in s
  BY DEF Choice
<1>4. ASSUME NEW s \in SUBSET S, \A x \in s : s \ {x} \in F PROVE s \in F
  <2> SUFFICES ASSUME NEW x \in s, x # Choice(s) PROVE g[s] = f[x] + g[s \ {x}]
    BY <1>1, <1>3 DEF IsSum, Adds
  <2> DEFINE c == Choice(s)
  <2>0. c \in s
    BY <1>3
  <2> HIDE DEF c
  <2>1. g[s] = f[c] + g[s \ {c}]
    BY <1>1 DEF IsSum, Adds, c
  <2>2. g[s \ {c}] = f[x] + g[(s \ {c}) \ {x}]
    BY <1>4, <2>0 DEF c
  <2>3. g[s \ {x}] = f[c] + g[(s \ {x}) \ {c}]
    BY <1>4, <2>0 DEF c
  <2>4. (s \ {c}) \ {x} = (s \ {x}) \ {c}
    OBVIOUS
  <2>5. f[c] \in Nat /\ f[x] \in Nat /\ g[(s \ {x}) \ {c}] \in Nat
    BY <1>1, <2>0 DEF IsSum, Amounts
  <2>6. f[c] + (f[x] + g[(s \ {x}) \ {c}]) = f[x] + (f[c] + g[(s \ {x}) \ {c}])
    BY <2>5
  <2>7. g[s] = f[x] + g[s \ {x}]
    BY <2>1, <2>2, <2>3, <2>4, <2>6, Zenon
  <2> QED BY <2>7
<1> HIDE DEF F
<1>5. S \in F
  BY <1>4, SubsetInduction DEF Amounts
<1>6. \A x \in S : S \ {x} \in SUBSET S
  OBVIOUS
<1> QED BY <1>1, <1>2, <1>5, <1>6 DEF F, IsSum, Adds

\* A comparison that holds of every amount holds of the sums.
LEMMA SumCompare ==
  ASSUME NEW S, NEW f, NEW g, Amounts(f, S), Amounts(g, S), NEW a \in Nat, NEW b \in Nat,
         \A x \in S : a * f[x] <= b * g[x]
  PROVE  a * SumFunctionOnSet(f, S) <= b * SumFunctionOnSet(g, S)
<1> DEFINE F == {s \in SUBSET S : a * SumFunctionOnSet(f, s) <= b * SumFunctionOnSet(g, s)}
<1>1. ASSUME NEW s \in SUBSET S, \A x \in s : s \ {x} \in F PROVE s \in F
  <2>1. Amounts(f, s) /\ Amounts(g, s)
    BY FS_Subset DEF Amounts
  <2>2. CASE s = {}
    BY <2>1, <2>2, SumFacts
  <2>3. CASE s # {}
    <3>1. PICK x \in s : TRUE
      BY <2>3
    <3>2. Amounts(f, s \ {x}) /\ Amounts(g, s \ {x})
      BY FS_Subset, <2>1 DEF Amounts
    <3>3. PICK p : p = SumFunctionOnSet(f, s \ {x})
      OBVIOUS
    <3>4. PICK q : q = SumFunctionOnSet(g, s \ {x})
      OBVIOUS
    <3>5. p \in Nat /\ q \in Nat
      BY <3>2, <3>3, <3>4, SumFacts
    <3>6. /\ SumFunctionOnSet(f, s) = f[x] + p
          /\ SumFunctionOnSet(g, s) = g[x] + q
      BY <2>1, <3>3, <3>4, SumFacts
    <3>7. a * p <= b * q /\ a * f[x] <= b * g[x] /\ f[x] \in Nat /\ g[x] \in Nat
      BY <1>1, <2>1, <3>3, <3>4 DEF Amounts
    <3>8. \A k, m, n \in Nat : k * (m + n) = k * m + k * n
      OBVIOUS
    <3>9. /\ a * (f[x] + p) = a * f[x] + a * p /\ b * (g[x] + q) = b * g[x] + b * q
          /\ a * f[x] \in Nat /\ b * g[x] \in Nat /\ a * p \in Nat /\ b * q \in Nat
      BY <3>5, <3>7, <3>8
    <3>10. a * (f[x] + p) <= b * (g[x] + q)
      BY <3>7, <3>9
    <3> QED BY <3>6, <3>10
  <2> QED BY <2>2, <2>3
<1> HIDE DEF F
<1>2. S \in F
  BY <1>1, SubsetInduction DEF Amounts
<1> QED BY <1>2 DEF F

LEMMA SumLess ==
  ASSUME NEW S, NEW f, NEW g, Amounts(f, S), Amounts(g, S), \A x \in S : f[x] <= g[x]
  PROVE  SumFunctionOnSet(f, S) <= SumFunctionOnSet(g, S)
<1>1. 1 * SumFunctionOnSet(f, S) <= 1 * SumFunctionOnSet(g, S)
  <2>1. \A x \in S : 1 * f[x] <= 1 * g[x]
    BY DEF Amounts
  <2> QED BY <2>1, SumCompare
<1> QED BY <1>1, SumFacts

LEMMA SumSame ==
  ASSUME NEW S, NEW f, NEW g, Amounts(f, S), \A x \in S : f[x] = g[x]
  PROVE  SumFunctionOnSet(f, S) = SumFunctionOnSet(g, S)
<1>1. Amounts(g, S)
  BY DEF Amounts
<1>2. /\ SumFunctionOnSet(f, S) <= SumFunctionOnSet(g, S)
      /\ SumFunctionOnSet(g, S) <= SumFunctionOnSet(f, S)
  BY <1>1, SumLess DEF Amounts
<1> QED BY <1>1, <1>2, SumFacts

\* Amounts of zero change no sum.
LEMMA SumZeros ==
  ASSUME NEW S, NEW f, Amounts(f, S), NEW T \in SUBSET S, \A x \in S \ T : f[x] = 0
  PROVE  SumFunctionOnSet(f, S) = SumFunctionOnSet(f, T)
<1> DEFINE F == {s \in SUBSET S : T \subseteq s => SumFunctionOnSet(f, s) = SumFunctionOnSet(f, T)}
<1>1. ASSUME NEW s \in SUBSET S, \A x \in s : s \ {x} \in F PROVE s \in F
  <2> SUFFICES ASSUME T \subseteq s, s # T
               PROVE  SumFunctionOnSet(f, s) = SumFunctionOnSet(f, T)
    OBVIOUS
  <2>1. PICK x \in s \ T : TRUE
    OBVIOUS
  <2>2. SumFunctionOnSet(f, s \ {x}) = SumFunctionOnSet(f, T)
    BY <1>1, <2>1
  <2>3. Amounts(f, s) /\ Amounts(f, s \ {x})
    BY FS_Subset DEF Amounts
  <2>4. SumFunctionOnSet(f, s \ {x}) \in Nat
    BY <2>3, SumFacts
  <2>5. SumFunctionOnSet(f, s) = f[x] + SumFunctionOnSet(f, s \ {x}) /\ f[x] = 0
    BY <2>1, <2>3, SumFacts
  <2> QED BY <2>2, <2>4, <2>5
<1> HIDE DEF F
<1>2. S \in F
  BY <1>1, SubsetInduction DEF Amounts
<1> QED BY <1>2 DEF F

\* What is reached and rounded is still reached.
LEMMA Quotient ==
  ASSUME NEW a \in Nat, NEW b \in Nat \ {0}, NEW k \in Nat, k * b <= a
  PROVE  k <= a \div b /\ a \div b \in Nat
  OBVIOUS

-----------------------------------------------------------------------------
\* A result that an account may have stored: the figures of its lines are those
\* of the last fetch, and a synthetic main line is their sum.
ResultOK(r) ==
  /\ r = [lines |-> r.lines, agg |-> agg, extra |-> r.extra, of |-> r.of]
  /\ r.lines \subseteq Secondaries /\ r.extra \in {0, 1}
  /\ \A l \in r.lines \union {Own} : r.of[l].consumed \in Nat /\ r.of[l].quota \in Nat
  /\ \A l \in r.lines : r.of[l].consumed = basis[l]
  /\ \A l \in Secondaries \ r.lines : basis[l] = 0
  /\ ~agg => r.of[Own].consumed = basis[Own]
  /\ agg => /\ r.lines # {} /\ basis[Own] = 0
            /\ r.of[Own].consumed = SumFunctionOnSet(basis, r.lines)
            /\ r.of[Own].quota = SumFunctionOnSet(LineQuota, r.lines)
            /\ \A l \in r.lines : r.of[l].quota = LineQuota[l]

\* The main device shows the stored result, as the fetch returned it or as
\* state.json gives it back.
ShownOK == shown = Panel(IF fresh THEN stored ELSE Reloaded(stored))

\* A secondary's device shows the stored result, or what an earlier one said of a
\* line it no longer has.
LinesOK ==
  /\ Known => \A l \in stored.lines : shownOf[l] = PanelOf(stored, l)
  /\ \A l \in Secondaries :
       shownOf[l] # NoPanel => \E x, q \in Nat : /\ shownOf[l].percent = Percent(x, q)
                                                 /\ shownOf[l].danger = OverQuota(x, q)

Amounted ==
  /\ agg \in BOOLEAN /\ fresh \in BOOLEAN
  /\ used \in [Lines -> 0 .. MaxUsed] /\ extra \in {0, 1}
  /\ basis \in [Lines -> 0 .. MaxUsed]

UsageInv ==
  /\ Amounted
  /\ stored # NoResult => Known
  /\ Known => ResultOK(stored) /\ ShownOK
  /\ LinesOK

LEMMA BasisAmounts ==
  ASSUME Amounted, NEW S \in SUBSET Lines
  PROVE  Amounts(basis, S)
<1>1. IsFiniteSet(Lines)
  BY LinesAssumption, FS_AddElement DEF Lines
<1> QED BY <1>1, FS_Subset, AmountsAssumption DEF Amounts, Amounted

LEMMA SumOfBasis == Amounted => SumFunction(basis) = SumFunctionOnSet(basis, Lines)
  BY DEF Amounted, SumFunction

\* The total of a result is the sum of what the lines reported; without
\* is_aggregate it is no less.
LEMMA TotalOf ==
  ASSUME Amounted, NEW r, ResultOK(r)
  PROVE  /\ Total(r) = SumFunction(basis) /\ Total(r) \in Nat
         /\ Total(Reloaded(r)) \in Nat /\ Total(Reloaded(r)) >= Total(r)
         /\ ~agg => Total(Reloaded(r)) = Total(r)
<1> DEFINE consumed == [l \in r.lines \union {Own} |-> r.of[l].consumed]
<1>1. /\ r.agg = agg
      /\ Reloaded(r).agg = FALSE /\ Reloaded(r).lines = r.lines /\ Reloaded(r).of = r.of
  BY DEF ResultOK, Reloaded
<1>2. /\ Total(r) = IF agg THEN consumed[Own] ELSE SumFunction(consumed)
      /\ Total(Reloaded(r)) = SumFunction(consumed)
  BY <1>1 DEF Total
<1>3. /\ r.lines \subseteq Lines /\ Own \in Lines /\ r.lines \union {Own} \subseteq Lines
      /\ Own \notin r.lines
  BY LinesAssumption DEF ResultOK, Lines
<1>4. SumFunction(consumed) = SumFunctionOnSet(consumed, r.lines \union {Own})
  BY DEF SumFunction
<1>5. \A l \in r.lines \union {Own} : consumed[l] = r.of[l].consumed /\ consumed[l] \in Nat
  BY DEF ResultOK
<1>6. /\ \A l \in r.lines : consumed[l] = basis[l]
      /\ ~agg => consumed[Own] = basis[Own]
      /\ agg => consumed[Own] = SumFunctionOnSet(basis, r.lines) /\ basis[Own] = 0
  BY <1>5 DEF ResultOK
<1>7. \A l \in Lines \ (r.lines \union {Own}) : basis[l] = 0
  BY DEF ResultOK, Lines
<1> HIDE DEF consumed
<1>8. Amounts(basis, Lines) /\ Amounts(basis, r.lines \union {Own}) /\ Amounts(basis, r.lines)
  BY <1>3, BasisAmounts
<1>9. Amounts(consumed, r.lines \union {Own}) /\ Amounts(consumed, r.lines)
  BY <1>5, <1>8 DEF Amounts
<1>10. SumFunction(basis) = SumFunctionOnSet(basis, r.lines \union {Own})
  BY <1>3, <1>7, <1>8, SumOfBasis, SumZeros
<1>11. SumFunction(basis) \in Nat
  BY <1>8, <1>10, SumFacts
<1>12. CASE ~agg
  <2>1. SumFunction(consumed) = SumFunction(basis)
    BY <1>4, <1>6, <1>9, <1>10, <1>12, SumSame
  <2> QED BY <1>2, <1>11, <1>12, <2>1
<1>13. CASE agg
  <2>1. SumFunction(basis) = SumFunctionOnSet(basis, r.lines)
    BY <1>3, <1>6, <1>7, <1>8, <1>13, SumOfBasis, SumZeros
  <2>2. SumFunctionOnSet(consumed, r.lines) = SumFunctionOnSet(basis, r.lines)
    BY <1>6, <1>9, SumSame
  <2>3. SumFunction(consumed) = consumed[Own] + SumFunctionOnSet(consumed, r.lines)
    <3>1. (r.lines \union {Own}) \ {Own} = r.lines
      BY <1>3
    <3> QED BY <1>4, <1>9, <3>1, SumFacts
  <2>4. Total(r) = SumFunction(basis)
    BY <1>2, <1>6, <1>13, <2>1
  <2>5. Total(Reloaded(r)) = SumFunction(basis) + SumFunction(basis)
    BY <1>2, <1>6, <1>13, <2>1, <2>2, <2>3
  <2> QED BY <1>11, <1>13, <2>4, <2>5
<1> QED BY <1>12, <1>13

\* What is shown of an amount and its quota.
LEMMA Figure ==
  ASSUME NEW x \in Nat, NEW q \in Nat
  PROVE  /\ Remaining(x, q) \in Nat /\ Percent(x, q) \in Nat /\ OverQuota(x, q) \in BOOLEAN
         /\ OverQuota(x, q) => Percent(x, q) >= 10 * DangerPercent
<1>1. DangerPercent \in Nat
  BY AmountsAssumption
<1>2. Remaining(x, q) \in Nat /\ OverQuota(x, q) \in BOOLEAN
  BY DEF Remaining, OverQuota
<1>3. CASE q = 0
  <2>1. Percent(x, q) \in Nat /\ ~OverQuota(x, q)
    BY <1>3 DEF Percent, OverQuota
  <2> QED BY <1>2, <2>1
<1>4. CASE q # 0
  <2>1. Percent(x, q) = (2000 * x + q) \div (2 * q)
    BY <1>4 DEF Percent, Tenths
  <2>2. 2000 * x + q \in Nat /\ 2 * q \in Nat \ {0}
    BY <1>4
  <2>3. Percent(x, q) \in Nat
    <3>1. 0 * (2 * q) <= 2000 * x + q
      OBVIOUS
    <3> QED BY <2>1, <2>2, <3>1, Quotient
  <2>4. ASSUME OverQuota(x, q) PROVE Percent(x, q) >= 10 * DangerPercent
    <3>1. PICK d \in Nat : d = DangerPercent
      BY <1>1
    <3>2. x * 100 >= d * q
      BY <2>4, <3>1 DEF OverQuota
    <3>3. (10 * d) * (2 * q) = 20 * (d * q)
      OBVIOUS
    <3>4. d * q \in Nat /\ 10 * d \in Nat
      OBVIOUS
    <3>5. (10 * d) * (2 * q) <= 2000 * x + q
      BY <3>2, <3>3, <3>4
    <3>6. 10 * d <= (2000 * x + q) \div (2 * q)
      BY <2>2, <3>4, <3>5, Quotient
    <3> QED BY <2>1, <2>3, <3>1, <3>6
  <2> QED BY <1>2, <2>3, <2>4
<1> QED BY <1>2, <1>3, <1>4

LEMMA InitUsage == Init => UsageInv
  BY AmountsAssumption DEF Init, UsageInv, Amounted, LinesOK, Known, NoResult, NoPanel

\* The result of a fetch is one that the account may store.
LEMMA FetchedOK ==
  ASSUME Amounted, NEW S \in SUBSET Secondaries, FetchOk(S)
  PROVE  ResultOK(stored)' /\ Amounted'
<1>1. /\ stored' = Fetched(S) /\ UNCHANGED <<agg, used, extra>> /\ fresh' = TRUE
      /\ basis' = [l \in Lines |-> IF l \in S \/ (l = Own /\ ~agg) THEN used[l] ELSE 0]
      /\ agg => S # {}
  BY DEF FetchOk
<1>2. S \subseteq Lines /\ Own \in Lines /\ Own \notin S
  BY LinesAssumption DEF Lines
<1>3. used \in [Lines -> 0 .. MaxUsed] /\ agg \in BOOLEAN /\ extra \in {0, 1} /\ MaxUsed \in Nat
  BY AmountsAssumption DEF Amounted
<1>4. Amounted'
  BY <1>1, <1>3 DEF Amounted
<1>5. /\ stored'.lines = S /\ stored'.extra = (IF agg THEN 0 ELSE extra)
      /\ stored' = [lines |-> stored'.lines, agg |-> agg', extra |-> stored'.extra, of |-> stored'.of]
      /\ stored'.of[Own] = OwnLine(S)
      /\ \A l \in S : stored'.of[l] = Line(used[l], IF agg THEN LineQuota[l] ELSE 0)
  BY <1>1, <1>2 DEF Fetched
<1>6. /\ \A l \in S : /\ stored'.of[l].consumed = used[l]
                      /\ stored'.of[l].quota = IF agg THEN LineQuota[l] ELSE 0
      /\ ~agg => stored'.of[Own].consumed = used[Own] /\ stored'.of[Own].quota = BundleQuota
      /\ agg => /\ stored'.of[Own].consumed = SumFunctionOnSet(used, S)
                /\ stored'.of[Own].quota = SumFunctionOnSet(LineQuota, S)
  <2>1. \A u, q : Line(u, q).consumed = u /\ Line(u, q).quota = q
    BY DEF Line
  <2>2. agg => stored'.of[Own] = Line(SumFunctionOnSet(used, S), SumFunctionOnSet(LineQuota, S))
    BY <1>5 DEF OwnLine
  <2>3. ~agg => stored'.of[Own] = Line(used[Own], BundleQuota)
    BY <1>5 DEF OwnLine
  <2>4. agg => /\ stored'.of[Own].consumed = SumFunctionOnSet(used, S)
               /\ stored'.of[Own].quota = SumFunctionOnSet(LineQuota, S)
    BY <2>1, <2>2
  <2>5. ~agg => stored'.of[Own].consumed = used[Own] /\ stored'.of[Own].quota = BundleQuota
    BY <2>1, <2>3
  <2>6. \A l \in S : /\ stored'.of[l].consumed = used[l]
                     /\ stored'.of[l].quota = IF agg THEN LineQuota[l] ELSE 0
    BY <1>5, <2>1
  <2> QED BY <2>4, <2>5, <2>6
<1>7. Amounts(used, S) /\ Amounts(LineQuota, S)
  BY <1>2, <1>3, LinesAssumption, AmountsAssumption, FS_Subset DEF Amounts
<1>8. \A l \in S : used[l] = basis'[l]
  BY <1>1, <1>2
<1>9. SumFunctionOnSet(used, S) = SumFunctionOnSet(basis', S)
  BY <1>7, <1>8, SumSame
<1>10. SumFunctionOnSet(used, S) \in Nat /\ SumFunctionOnSet(LineQuota, S) \in Nat
  BY <1>7, SumFacts
<1>11. \A l \in S \union {Own} : stored'.of[l].consumed \in Nat /\ stored'.of[l].quota \in Nat
  <2>1. \A l \in S : stored'.of[l].consumed \in Nat /\ stored'.of[l].quota \in Nat
    BY <1>6, <1>7 DEF Amounts
  <2>2. stored'.of[Own].consumed \in Nat /\ stored'.of[Own].quota \in Nat
    BY <1>2, <1>3, <1>6, <1>10, AmountsAssumption
  <2> QED BY <2>1, <2>2
<1>12. /\ \A l \in S : stored'.of[l].consumed = basis'[l]
       /\ \A l \in Secondaries \ S : basis'[l] = 0
       /\ ~agg => stored'.of[Own].consumed = basis'[Own]
       /\ agg => basis'[Own] = 0
  BY <1>1, <1>2, <1>6, <1>8, LinesAssumption DEF Lines
<1>13. stored'.extra \in {0, 1}
  BY <1>3, <1>5
<1> QED
  BY <1>1, <1>4, <1>5, <1>6, <1>9, <1>11, <1>12, <1>13 DEF ResultOK

LEMMA PanelKnown == \A r : Panel(r) # NoPanel
<1> SUFFICES ASSUME NEW r PROVE Panel(r) # NoPanel
  OBVIOUS
<1>1. "danger" \in DOMAIN Panel(r)
  BY DEF Panel
<1>2. "danger" \notin DOMAIN NoPanel
  BY DEF NoPanel
<1> QED BY <1>1, <1>2

\* The lines of a result that is shown and stored are shown as LinesOK says.
LEMMA ShowStep ==
  ASSUME LinesOK, NEW r, r.lines \subseteq Secondaries,
         \A l \in r.lines : r.of[l].consumed \in Nat /\ r.of[l].quota \in Nat,
         stored'.lines = r.lines, stored'.of = r.of, Show(r)
  PROVE  LinesOK'
<1>1. shownOf' = [l \in Secondaries |-> IF l \in r.lines THEN PanelOf(r, l) ELSE shownOf[l]]
  BY DEF Show
<1>2. \A l \in r.lines : PanelOf(r, l) = PanelOf(stored', l)
  BY DEF PanelOf
<1>3. \A l \in stored'.lines : shownOf'[l] = PanelOf(stored', l)
  BY <1>1, <1>2
<1>4. ASSUME NEW l \in r.lines
      PROVE  \E x, q \in Nat : /\ PanelOf(r, l).percent = Percent(x, q)
                               /\ PanelOf(r, l).danger = OverQuota(x, q)
  BY DEF PanelOf
<1>5. ASSUME NEW l \in Secondaries, shownOf'[l] # NoPanel
      PROVE  \E x, q \in Nat : /\ shownOf'[l].percent = Percent(x, q)
                               /\ shownOf'[l].danger = OverQuota(x, q)
  <2>1. CASE l \in r.lines
    BY <1>1, <1>4, <2>1
  <2>2. CASE l \notin r.lines
    BY <1>1, <1>5, <2>2 DEF LinesOK
  <2> QED BY <2>1, <2>2
<1> QED BY <1>3, <1>5 DEF LinesOK

LEMMA NextUsage == UsageInv /\ [Next]_vars => UsageInv'
<1> SUFFICES ASSUME UsageInv, [Next]_vars PROVE UsageInv'
  OBVIOUS
<1> USE AmountsAssumption DEF UsageInv
<1>1. ASSUME NEW l \in Lines, Consume(l) PROVE UsageInv'
  <2>1. UNCHANGED <<agg, extra, stored, shown, shownOf, basis, fresh>>
    BY <1>1 DEF Consume
  <2>2. used' \in [Lines -> 0 .. MaxUsed]
    BY <1>1 DEF Consume, Amounted
  <2> QED BY <2>1, <2>2 DEF Amounted, ResultOK, ShownOK, LinesOK, Known
<1>2. CASE ConsumeExtra
  BY <1>2 DEF ConsumeExtra, Amounted, ResultOK, ShownOK, LinesOK, Known
<1>3. ASSUME NEW S \in SUBSET Secondaries, FetchOk(S) PROVE UsageInv'
  <2>1. ResultOK(stored)' /\ Amounted'
    BY <1>3, FetchedOK
  <2>2. stored' = Fetched(S) /\ Show(stored') /\ fresh' = TRUE
    BY <1>3 DEF FetchOk
  <2>3. ShownOK' /\ Known'
    BY <2>2, PanelKnown DEF ShownOK, Show, Known
  <2>4. LinesOK'
    <3>1. \A l \in stored'.lines : stored'.of[l].consumed \in Nat /\ stored'.of[l].quota \in Nat
      BY <2>1 DEF ResultOK
    <3>2. stored'.lines \subseteq Secondaries
      BY <2>1 DEF ResultOK
    <3> QED BY <2>2, <3>1, <3>2, ShowStep
  <2> QED BY <2>1, <2>3, <2>4
<1>4. ASSUME NEW q \in {0, BundleQuota}, FetchBundle(q) PROVE UsageInv'
  <2>0. /\ stored' = Bundle(q) /\ Show(stored') /\ fresh' = TRUE /\ ~agg
        /\ basis' = [l \in Lines |-> 0] /\ UNCHANGED <<agg, used, extra>>
    BY <1>4 DEF FetchBundle
  <2>1. Amounted'
    BY <2>0 DEF Amounted
  <2>2. /\ stored'.lines = {} /\ stored'.extra = 0 /\ stored'.of[Own] = Line(0, q)
        /\ stored' = [lines |-> stored'.lines, agg |-> agg', extra |-> stored'.extra, of |-> stored'.of]
    BY <2>0 DEF Bundle, Amounted
  <2>3. stored'.of[Own].consumed = 0 /\ stored'.of[Own].quota = q /\ q \in Nat
    BY <2>2 DEF Line
  <2>4. \A l \in Secondaries \union {Own} : basis'[l] = 0
    BY <2>0 DEF Lines
  <2>5. ResultOK(stored)'
    BY <2>0, <2>2, <2>3, <2>4 DEF ResultOK
  <2>6. ShownOK' /\ Known'
    BY <2>0, PanelKnown DEF ShownOK, Show, Known
  <2>7. LinesOK'
    BY <2>0, <2>2, ShowStep
  <2> QED BY <2>1, <2>5, <2>6, <2>7
<1>5. CASE FetchFail
  <2>1. /\ stored # NoResult /\ shown' = Panel(Reloaded(stored)) /\ fresh' = FALSE
        /\ UNCHANGED <<agg, used, extra, stored, shownOf, basis>>
    BY <1>5 DEF FetchFail
  <2>2. Amounted' /\ ResultOK(stored)'
    BY <2>1 DEF Amounted, ResultOK
  <2>3. ShownOK' /\ Known'
    BY <2>1, PanelKnown DEF ShownOK, Known
  <2>4. LinesOK'
    BY <2>1 DEF LinesOK
  <2> QED BY <2>2, <2>3, <2>4
<1>6. CASE Restart
  <2>1. /\ stored # NoResult /\ Show(Reloaded(stored)) /\ fresh' = FALSE
        /\ UNCHANGED <<agg, used, extra, stored, basis>>
    BY <1>6 DEF Restart
  <2>2. Amounted' /\ ResultOK(stored)'
    BY <2>1 DEF Amounted, ResultOK
  <2>3. ShownOK' /\ Known'
    BY <2>1, PanelKnown DEF ShownOK, Known, Show
  <2>4. ResultOK(stored)
    BY <2>1
  <2>5. Reloaded(stored).lines = stored.lines /\ Reloaded(stored).of = stored.of
    BY <2>4 DEF ResultOK, Reloaded
  <2>6. /\ \A l \in stored.lines : stored.of[l].consumed \in Nat /\ stored.of[l].quota \in Nat
        /\ stored.lines \subseteq Secondaries
    BY <2>4 DEF ResultOK
  <2>7. LinesOK'
    BY <2>1, <2>5, <2>6, ShowStep
  <2> QED BY <2>2, <2>3, <2>7
<1>7. CASE UNCHANGED vars
  BY <1>7 DEF vars, Amounted, ResultOK, ShownOK, LinesOK, Known
<1> QED BY <1>1, <1>2, <1>3, <1>4, <1>5, <1>6, <1>7 DEF Next

\* What the total shown is, whatever has happened since the last fetch.
TotalsOK ==
  Known => /\ shown.total \in Nat /\ shown.total >= SumFunction(basis)
           /\ ~agg \/ fresh => shown.total = SumFunction(basis)

LEMMA UsageTotals == UsageInv => TotalsOK
<1> SUFFICES ASSUME UsageInv, Known PROVE TotalsOK
  BY DEF TotalsOK
<1>1. ResultOK(stored) /\ ShownOK /\ Amounted
  BY DEF UsageInv
<1>2. shown.total = IF fresh THEN Total(stored) ELSE Total(Reloaded(stored))
  BY <1>1 DEF ShownOK, Panel
<1> QED BY <1>1, <1>2, TotalOf DEF TotalsOK

LEMMA UsageCorrect == Spec => [](UsageInv /\ TotalsOK)
  BY InitUsage, NextUsage, UsageTotals, PTL DEF Spec

\* Every figure shown is a number, and danger a Boolean, whatever the portal
\* reported and wherever the result came from (discovery.py:316-376).
THEOREM UsageTyped == Spec => []TypeOK
<1>1. UsageInv /\ TotalsOK => TypeOK
  <2> SUFFICES ASSUME UsageInv, TotalsOK PROVE TypeOK
    OBVIOUS
  <2>1. stored # NoResult => stored.lines \subseteq Secondaries
    BY DEF UsageInv, ResultOK
  <2>2. ASSUME Known
        PROVE  /\ shown.total \in Nat /\ shown.quota \in Nat /\ shown.remaining \in Nat
               /\ shown.percent \in Nat /\ shown.danger \in BOOLEAN
    <3>1. ResultOK(stored) /\ ShownOK
      BY <2>2 DEF UsageInv
    <3>2. PICK r : shown = Panel(r) /\ r.of = stored.of
      BY <3>1 DEF ShownOK, ResultOK, Reloaded
    <3>3. r.of[Own].quota \in Nat
      BY <3>1, <3>2 DEF ResultOK
    <3>4. /\ shown.total = Total(r) /\ shown.quota = r.of[Own].quota
          /\ shown.remaining = Remaining(Total(r), r.of[Own].quota)
          /\ shown.percent = Percent(Total(r), r.of[Own].quota)
          /\ shown.danger \in BOOLEAN
      BY <3>2 DEF Panel
    <3>5. Total(r) \in Nat
      BY <2>2, <3>4 DEF TotalsOK
    <3> QED BY <3>3, <3>4, <3>5, Figure
  <2>3. Amounted
    BY DEF UsageInv
  <2> QED BY <2>1, <2>2, <2>3 DEF TypeOK, Amounted
<1> QED BY <1>1, UsageCorrect, PTL

\* The total counts each line once, as the adapters and _main_state_message do
\* between them (discovery.py:324-328), for any numbers and amounts.
THEOREM LinesCounted == Spec => []EachLineOnce
<1>1. UsageInv /\ TotalsOK => EachLineOnce
  BY DEF UsageInv, Amounted, TotalsOK, EachLineOnce
<1> QED BY <1>1, UsageCorrect, PTL

\* A total falls only for a line that is no longer reported, or after a synthetic
\* line was counted twice (discovery.py:324-328, scheduler.py:195-199, 216-239, 258-276).
THEOREM DropsCorrect == Spec => DropsExplained
<1> DEFINE Drop == Known /\ shown'.total < shown.total =>
                     (\E l \in Lines : basis'[l] < basis[l]) \/ (agg /\ ~fresh)
<1>1. UsageInv /\ TotalsOK /\ UsageInv' /\ TotalsOK' /\ [Next]_vars => [Drop]_vars
  <2> SUFFICES ASSUME UsageInv, TotalsOK, UsageInv', TotalsOK', Next,
                      Known, shown'.total < shown.total, ~(agg /\ ~fresh)
               PROVE  \E l \in Lines : basis'[l] < basis[l]
    OBVIOUS
  <2>1. Known' /\ shown' # shown
    <3>1. shown' # shown
      BY DEF TotalsOK
    <3>2. CASE \E l \in Lines : Consume(l)
      BY <3>1, <3>2 DEF Consume
    <3>3. CASE ConsumeExtra
      BY <3>1, <3>3 DEF ConsumeExtra
    <3>4. CASE \E S \in SUBSET Secondaries : FetchOk(S)
      BY <3>1, <3>4, PanelKnown DEF FetchOk, Show, Known
    <3>5. CASE \E q \in {0, BundleQuota} : FetchBundle(q)
      BY <3>1, <3>5, PanelKnown DEF FetchBundle, Show, Known
    <3>6. CASE FetchFail \/ Restart
      BY <3>1, <3>6, PanelKnown DEF FetchFail, Restart, Show, Known
    <3> QED BY <3>2, <3>3, <3>4, <3>5, <3>6 DEF Next
  <2>2. shown.total = SumFunction(basis) /\ shown.total \in Nat
    BY DEF TotalsOK, UsageInv, Amounted
  <2>3. shown'.total >= SumFunction(basis') /\ shown'.total \in Nat
    BY <2>1 DEF TotalsOK
  <2>4. Amounts(basis, Lines)
    BY BasisAmounts DEF UsageInv
  <2>5. basis' \in [Lines -> 0 .. MaxUsed] /\ DOMAIN basis = Lines
    BY DEF UsageInv, Amounted
  <2>6. Amounts(basis', Lines)
    BY <2>4, <2>5, AmountsAssumption DEF Amounts
  <2>7. /\ SumFunction(basis) = SumFunctionOnSet(basis, Lines)
        /\ SumFunction(basis') = SumFunctionOnSet(basis', Lines)
    BY <2>5 DEF SumFunction
  <2>8. SumFunctionOnSet(basis', Lines) \in Nat
    BY <2>6, SumFacts
  <2>9. ~ (SumFunctionOnSet(basis, Lines) <= SumFunctionOnSet(basis', Lines))
    BY <2>2, <2>3, <2>7, <2>8
  <2>10. ~ \A l \in Lines : basis[l] <= basis'[l]
    BY <2>4, <2>6, <2>9, SumLess
  <2> QED BY <2>4, <2>6, <2>10 DEF Amounts
<1> QED BY <1>1, UsageCorrect, PTL DEF Spec, DropsExplained

\* A panel in danger shows its threshold reached after rounding, or extra
\* consumption (discovery.py:329-346, 352-376), for any amounts.
THEOREM DangerCorrect == Spec => []DangerExplained
<1>1. UsageInv /\ TotalsOK => DangerExplained
  <2> SUFFICES ASSUME UsageInv, TotalsOK PROVE DangerExplained
    OBVIOUS
  <2>1. ASSUME Known, shown.danger
        PROVE  shown.percent >= 10 * DangerPercent \/ shown.extra > 0
    <3>1. ResultOK(stored) /\ ShownOK
      BY <2>1 DEF UsageInv
    <3>2. PICK r : shown = Panel(r) /\ r.of = stored.of
      BY <3>1 DEF ShownOK, ResultOK, Reloaded
    <3>3. PICK t : t = Total(r)
      OBVIOUS
    <3>4. PICK q : q = r.of[Own].quota
      OBVIOUS
    <3>5. /\ shown.total = t /\ shown.percent = Percent(t, q) /\ shown.extra = r.extra
          /\ shown.danger <=> OverQuota(t, q) \/ r.extra > 0
      BY <3>2, <3>3, <3>4 DEF Panel
    <3>6. t \in Nat /\ q \in Nat
      BY <2>1, <3>1, <3>2, <3>4, <3>5 DEF TotalsOK, ResultOK
    <3> QED BY <2>1, <3>5, <3>6, Figure
  <2>2. ASSUME NEW l \in Secondaries, shownOf[l] # NoPanel, shownOf[l].danger
        PROVE  shownOf[l].percent >= 10 * DangerPercent
    <3>1. PICK x, q \in Nat : /\ shownOf[l].percent = Percent(x, q)
                              /\ shownOf[l].danger = OverQuota(x, q)
      BY <2>2 DEF UsageInv, LinesOK
    <3> QED BY <2>2, <3>1, Figure
  <2> QED BY <2>1, <2>2 DEF DangerExplained
<1> QED BY <1>1, UsageCorrect, PTL

\* The sum of numbers that are all in danger is in danger
\* (touch_lb.py:198-209, ogero_lb.py:243-254), however they are weighed.
THEOREM AllInDangerCorrect == Spec => []AllLinesInDanger
<1>1. UsageInv /\ TotalsOK => AllLinesInDanger
  <2> SUFFICES ASSUME UsageInv, TotalsOK, Known, agg, \A l \in stored.lines : shownOf[l].danger
               PROVE  shown.danger
    BY DEF AllLinesInDanger
  <2>1. ResultOK(stored) /\ ShownOK /\ Amounted /\ LinesOK
    BY DEF UsageInv
  <2>2. PICK S : S = stored.lines
    OBVIOUS
  <2>3. S # {} /\ S \subseteq Secondaries /\ S \subseteq Lines
    BY <2>1, <2>2 DEF ResultOK, Lines
  <2>4. Amounts(basis, S) /\ Amounts(LineQuota, S) /\ Amounts(basis, Lines)
    <3>1. Amounts(basis, S) /\ Amounts(basis, Lines)
      BY <2>1, <2>3, BasisAmounts
    <3> QED BY <2>3, <3>1, AmountsAssumption DEF Amounts
  <2>5. PICK D \in Nat : D = DangerPercent
    BY AmountsAssumption
  <2>6. ASSUME NEW l \in S PROVE LineQuota[l] # 0 /\ D * LineQuota[l] <= 100 * basis[l]
    <3>1. shownOf[l] = PanelOf(stored, l) /\ shownOf[l].danger
      BY <2>1, <2>2 DEF LinesOK
    <3>2. stored.of[l].consumed = basis[l] /\ stored.of[l].quota = LineQuota[l]
      BY <2>1, <2>2 DEF ResultOK
    <3>0. PanelOf(stored, l).danger = OverQuota(stored.of[l].consumed, stored.of[l].quota)
      BY DEF PanelOf
    <3>3. shownOf[l].danger = OverQuota(basis[l], LineQuota[l])
      BY <3>0, <3>1, <3>2, Zenon
    <3>4. LineQuota[l] # 0 /\ basis[l] * 100 >= D * LineQuota[l]
      BY <2>5, <3>1, <3>3 DEF OverQuota
    <3>5. basis[l] \in Nat /\ LineQuota[l] \in Nat
      BY <2>4 DEF Amounts
    <3> QED BY <3>4, <3>5
  <2>7. PICK q : q = SumFunctionOnSet(LineQuota, S)
    OBVIOUS
  <2>8. PICK u : u = SumFunctionOnSet(basis, S)
    OBVIOUS
  <2>9. D * q <= 100 * u
    BY <2>4, <2>6, <2>7, <2>8, SumCompare
  <2>10. q \in Nat \ {0} /\ u \in Nat
    <3>1. PICK l \in S : TRUE
      BY <2>3
    <3>2. q = LineQuota[l] + SumFunctionOnSet(LineQuota, S \ {l})
      BY <2>4, <2>7, SumFacts
    <3>3. Amounts(LineQuota, S \ {l})
      BY <2>4, FS_Subset DEF Amounts
    <3>4. SumFunctionOnSet(LineQuota, S \ {l}) \in Nat
      BY <3>3, SumFacts
    <3>5. LineQuota[l] \in Nat /\ LineQuota[l] # 0
      BY <2>4, <2>6 DEF Amounts
    <3> QED BY <2>4, <2>8, <3>2, <3>4, <3>5, SumFacts
  <2>11. PICK r : shown = Panel(r) /\ r.of = stored.of
    BY <2>1 DEF ShownOK, ResultOK, Reloaded
  <2>12. PICK t : t = Total(r)
    OBVIOUS
  <2>13. r.of[Own].quota = q
    BY <2>1, <2>2, <2>7, <2>11 DEF ResultOK
  <2>14. shown.total = t /\ (OverQuota(t, q) => shown.danger)
    BY <2>11, <2>12, <2>13 DEF Panel
  <2>15. t \in Nat /\ t >= u
    <3>1. t \in Nat /\ t >= SumFunction(basis)
      BY <2>14 DEF TotalsOK
    <3>2. basis[Own] = 0 /\ \A l \in Lines \ S : basis[l] = 0
      BY <2>1, <2>2 DEF ResultOK, Lines
    <3>3. SumFunction(basis) = SumFunctionOnSet(basis, Lines)
      BY <2>1, SumOfBasis
    <3>4. SumFunctionOnSet(basis, Lines) = u
      BY <2>3, <2>4, <2>8, <3>2, SumZeros
    <3> QED BY <3>1, <3>3, <3>4
  <2>16. t * 100 >= D * q /\ q # 0
    <3>1. D * q \in Nat
      BY <2>10
    <3> QED BY <2>9, <2>10, <2>15, <3>1
  <2>17. OverQuota(t, q)
    BY <2>5, <2>16 DEF OverQuota
  <2> QED BY <2>14, <2>17
<1> QED BY <1>1, UsageCorrect, PTL
=============================================================================
