----------------------------- MODULE EntitiesProofs -----------------------------
(***************************************************************************)
(* Proofs about Entities for any contents of options.json, any slugs and   *)
(* any numbers the portals show: which accounts a process has, and that    *)
(* the entities of each of them show its own figures.                      *)
(***************************************************************************)
EXTENDS Entities, InductionFacts

-----------------------------------------------------------------------------
(* load_config's loop. *)

\* What the loop has read so far.
Reads == [failed : BOOLEAN, seen : SUBSET Usernames, accounts : Seq(Account)]

Nothing(file) == [failed |-> ~file.valid, seen |-> {}, accounts |-> <<>>]

LEMMA Items ==
  ASSUME NEW file \in Forms
  PROVE  /\ Len(file.items) \in Nat /\ DOMAIN file.items = 1 .. Len(file.items)
         /\ \A k \in 1 .. Len(file.items) :
              /\ file.items[k].user \in Usernames
              /\ file.items[k].provider \in Providers => file.items[k] \in Account
<1>1. file.items \in Seq(Range(file.items))
  BY FormsAssumption
<1>2. Len(file.items) \in Nat /\ DOMAIN file.items = 1 .. Len(file.items)
  BY <1>1, LenProperties
<1>3. \A k \in 1 .. Len(file.items) : file.items[k] \in Range(file.items)
  BY <1>2 DEF Range
<1>4. \A item \in Range(file.items) :
        /\ item.user \in Usernames
        /\ item = [user |-> item.user, provider |-> item.provider]
  BY FormsAssumption
<1>5. \A item \in Range(file.items) : item.provider \in Providers => item \in Account
  BY <1>4 DEF Account
<1> QED BY <1>2, <1>3, <1>4, <1>5

LEMMA TakenRead ==
  ASSUME NEW read \in Reads, NEW item, item.user \in Usernames,
         item.provider \in Providers => item \in Account
  PROVE  TakeItem(read, item) \in Reads
<1>1. /\ read.failed \in BOOLEAN /\ read.seen \in SUBSET Usernames
      /\ read.accounts \in Seq(Account)
  BY DEF Reads
<1>2. CASE read.failed \/ item.provider \notin Providers \/ item.user \in read.seen
  BY <1>2 DEF TakeItem, Reads
<1>3. CASE ~read.failed /\ item.provider \in Providers /\ item.user \notin read.seen
  <2>1. Append(read.accounts, item) \in Seq(Account)
    BY <1>1, <1>3
  <2> QED BY <1>1, <1>3, <2>1 DEF TakeItem, Reads
<1> QED BY <1>2, <1>3

LEMMA Greatest ==
  ASSUME NEW N \in Nat, NEW s \in SUBSET (1 .. N), s # {}
  PROVE  Max(s) \in s /\ \A k \in s : k <= Max(s)
<1> DEFINE T == {n \in Nat : \E k \in s : n = N - k}
<1>1. T # {} /\ T \in SUBSET Nat
  <2>1. PICK k \in s : TRUE
    OBVIOUS
  <2>2. k \in Nat /\ N - k \in Nat
    BY <2>1
  <2> QED BY <2>1, <2>2
<1>2. PICK m \in T : \A n \in T : m <= n
  BY <1>1, LeastNumber
<1>3. PICK x \in s : m = N - x
  BY <1>2
<1>4. \A k \in s : N - k \in T
  OBVIOUS
<1> HIDE DEF T
<1>5. \A k \in s : N - x <= N - k
  BY <1>2, <1>3, <1>4
<1>6. \A k \in s : x >= k
  BY <1>5
<1>7. \E y \in s : \A k \in s : y >= k
  BY <1>6
<1>8. Max(s) \in s /\ \A k \in s : Max(s) >= k
  BY <1>7 DEF Max
<1> QED BY <1>8

\* The loop as a chain of its turns.
IsLoop(h, file) ==
  /\ h \in [0 .. Len(file.items) -> Reads] /\ h[0] = Nothing(file)
  /\ \A n \in 1 .. Len(file.items) : h[n] = TakeItem(h[n - 1], file.items[n])

LEMMA LoopExists ==
  ASSUME NEW file \in Forms
  PROVE  \E h : IsLoop(h, file) /\ LoadConfig(file) = h[Len(file.items)]
<1>0. PICK items : items = file.items
  OBVIOUS
<1> DEFINE N == Len(items)
           S == 1 .. N
           base == Nothing(file)
           c == [s \in SUBSET S |-> Max(s)]
           G == [p \in S \X Reads |-> TakeItem(p[2], items[p[1]])]
           Adds(g) == \A s \in SUBSET S : g[s] = IF s = {} THEN base
                                                ELSE TakeItem(g[s \ {Max(s)}], items[Max(s)])
           Is(g) == g = [s \in SUBSET S |-> IF s = {} THEN base
                                            ELSE TakeItem(g[s \ {Max(s)}], items[Max(s)])]
           iter == CHOOSE g : Is(g)
<1>1. /\ N \in Nat /\ DOMAIN items = S /\ IsFiniteSet(S)
      /\ \A k \in S : /\ items[k].user \in Usernames
                      /\ items[k].provider \in Providers => items[k] \in Account
  BY <1>0, Items, FS_Interval
<1>2. base \in Reads
  <2>1. file.valid \in BOOLEAN
    BY FormsAssumption
  <2> QED BY <2>1 DEF Reads, Nothing
<1>3. G \in [S \X Reads -> Reads] /\ \A k \in S, v \in Reads : G[<<k, v>>] = TakeItem(v, items[k])
  <2>1. \A k \in S, v \in Reads : TakeItem(v, items[k]) \in Reads
    BY <1>1, TakenRead
  <2> QED BY <2>1
<1>4. \A s \in SUBSET S : s # {} => Max(s) \in s
  BY <1>1, Greatest
<1>5. \A s \in SUBSET S : c[s] = Max(s)
  OBVIOUS
<1>6. LoadConfig(file) = iter[S]
  BY <1>0, <1>1 DEF LoadConfig, FoldLeft, MapThenFoldSet, Nothing
<1> HIDE DEF G, c, N, S, base
<1>7. \A s \in SUBSET S : s # {} => c[s] \in s
  BY <1>4, <1>5
<1>8. \E g : IsFold(g, S, Reads, base, c, G)
  BY <1>1, <1>2, <1>3, <1>7, FoldExists
<1>9. PICK g : IsFold(g, S, Reads, base, c, G)
  BY <1>8
<1>10. g \in [SUBSET S -> Reads] /\ Adds(g)
  <2>1. g \in [SUBSET S -> Reads]
    BY <1>9 DEF IsFold
  <2>2. ASSUME NEW s \in SUBSET S
        PROVE  g[s] = IF s = {} THEN base ELSE TakeItem(g[s \ {Max(s)}], items[Max(s)])
    <3>1. s # {} => Max(s) \in S /\ g[s \ {Max(s)}] \in Reads
      BY <1>4, <2>1
    <3>2. g[s] = IF s = {} THEN base ELSE G[<<c[s], g[s \ {c[s]}]>>]
      BY <1>9 DEF IsFold
    <3> QED BY <1>3, <1>5, <3>1, <3>2
  <2> QED BY <2>1, <2>2
<1>11. Is(g)
  <2>1. g = [s \in SUBSET S |-> g[s]]
    BY <1>10
  <2> QED BY <1>10, <2>1
<1>12. Is(iter)
  BY <1>11
<1> HIDE DEF iter
<1>13. Adds(iter)
  BY <1>12
<1> HIDE DEF Is
<1>14. iter[S] = g[S]
  <2> DEFINE F == {s \in SUBSET S : iter[s] = g[s]}
  <2>1. ASSUME NEW s \in SUBSET S, \A x \in s : s \ {x} \in F PROVE s \in F
    BY <1>4, <1>10, <1>13, <2>1
  <2> HIDE DEF F
  <2>2. IsFiniteSet(S)
    BY <1>1
  <2>3. SUBSET S \subseteq F
    BY <2>1, <2>2, SubsetInduction
  <2> QED BY <2>3 DEF F
<1> DEFINE h == [n \in 0 .. N |-> g[1 .. n]]
<1>15. \A n \in 0 .. N : 1 .. n \in SUBSET S
  BY <1>1 DEF S
<1>16. h \in [0 .. N -> Reads] /\ h[0] = base
  <2>1. h \in [0 .. N -> Reads]
    BY <1>10, <1>15
  <2>2. 1 .. 0 = {} /\ 0 \in 0 .. N
    BY <1>1
  <2> QED BY <1>10, <1>15, <2>1, <2>2
<1>17. ASSUME NEW n \in 1 .. N PROVE h[n] = TakeItem(h[n - 1], items[n])
  <2>1. n \in 0 .. N /\ n - 1 \in 0 .. N /\ 1 .. n # {} /\ n \in Nat /\ 1 .. n \in SUBSET (1 .. n)
    BY <1>1
  <2>2. Max(1 .. n) = n
    <3>1. Max(1 .. n) \in 1 .. n /\ \A k \in 1 .. n : k <= Max(1 .. n)
      BY <2>1, Greatest
    <3> QED BY <2>1, <3>1
  <2>3. (1 .. n) \ {n} = 1 .. n - 1
    BY <2>1
  <2>4. g[1 .. n] = TakeItem(g[(1 .. n) \ {n}], items[n])
    BY <1>10, <1>15, <2>1, <2>2
  <2> QED BY <2>1, <2>3, <2>4
<1>18. IsLoop(h, file)
  BY <1>0, <1>16, <1>17 DEF IsLoop, N, base
<1>19. h[N] = g[S]
  BY <1>1 DEF S
<1> QED BY <1>0, <1>6, <1>14, <1>18, <1>19 DEF N

-----------------------------------------------------------------------------
(* What the loop makes of the items. *)

\* The indices of the first items of each username, among the first n.
Firsts(items, n) == {k \in 1 .. n : \A j \in 1 .. k - 1 : items[j].user # items[k].user}

\* What has been read after n turns, if nothing was wrong.
WasRead(read, items, n) ==
  /\ \A k \in 1 .. n : items[k].provider \in Providers
  /\ read.seen = {items[k].user : k \in 1 .. n}
  /\ Len(read.accounts) = Cardinality(Firsts(items, n))
  /\ \A k \in Firsts(items, n) :
       /\ Cardinality(Firsts(items, k)) \in 1 .. Len(read.accounts)
       /\ read.accounts[Cardinality(Firsts(items, k))] = items[k]
  /\ \A i \in DOMAIN read.accounts : read.accounts[i].user \in read.seen
  /\ \A i, j \in DOMAIN read.accounts : read.accounts[i].user = read.accounts[j].user => i = j

ReadSoFar(read, file, n) == ~read.failed => file.valid /\ WasRead(read, file.items, n)

\* The first items so far, with one item more.
LEMMA FirstsStep ==
  ASSUME NEW items, NEW n \in Nat
  PROVE  /\ IsFiniteSet(Firsts(items, n)) /\ Cardinality(Firsts(items, n)) \in Nat
         /\ IF items[n + 1].user \in {items[k].user : k \in 1 .. n}
              THEN Firsts(items, n + 1) = Firsts(items, n)
              ELSE /\ Firsts(items, n + 1) = Firsts(items, n) \union {n + 1}
                   /\ Cardinality(Firsts(items, n + 1)) = Cardinality(Firsts(items, n)) + 1
<1> DEFINE F == Firsts(items, n)
<1>1. IsFiniteSet(F) /\ Cardinality(F) \in Nat
  <2>1. IsFiniteSet(1 .. n) /\ F \subseteq 1 .. n
    BY FS_Interval DEF Firsts
  <2> QED BY <2>1, FS_Subset, FS_CardinalityType
<1>2. 1 .. n + 1 = (1 .. n) \union {n + 1} /\ (n + 1) - 1 = n /\ n + 1 \notin 1 .. n
  OBVIOUS
<1>3. CASE items[n + 1].user \in {items[k].user : k \in 1 .. n}
  BY <1>1, <1>2, <1>3 DEF Firsts
<1>4. CASE items[n + 1].user \notin {items[k].user : k \in 1 .. n}
  <2>1. Firsts(items, n + 1) = F \union {n + 1} /\ n + 1 \notin F
    BY <1>2, <1>4 DEF Firsts
  <2>2. Cardinality(F \union {n + 1}) = Cardinality(F) + 1
    BY <1>1, <2>1, FS_AddElement
  <2> QED BY <1>1, <1>4, <2>1, <2>2
<1> QED BY <1>3, <1>4

LEMMA TakeCases ==
  ASSUME NEW read \in Reads, NEW item
  PROVE  LET new == TakeItem(read, item) IN
         /\ ~new.failed => ~read.failed /\ item.provider \in Providers
         /\ ~new.failed /\ item.user \in read.seen => new = read
         /\ ~new.failed /\ item.user \notin read.seen =>
              /\ new.seen = read.seen \union {item.user}
              /\ new.accounts = Append(read.accounts, item)
<1>1. CASE read.failed
  BY <1>1 DEF TakeItem
<1>2. CASE ~read.failed /\ item.provider \notin Providers
  <2>1. TakeItem(read, item) = [read EXCEPT !.failed = TRUE]
    BY <1>2 DEF TakeItem
  <2>2. TakeItem(read, item).failed
    BY <2>1 DEF Reads
  <2> QED BY <2>2
<1>3. CASE ~read.failed /\ item.provider \in Providers /\ item.user \in read.seen
  BY <1>3 DEF TakeItem
<1>4. CASE ~read.failed /\ item.provider \in Providers /\ item.user \notin read.seen
  <2>1. TakeItem(read, item) = [read EXCEPT !.seen = @ \union {item.user},
                                            !.accounts = Append(@, item)]
    BY <1>4 DEF TakeItem
  <2> QED BY <1>4, <2>1 DEF Reads
<1> QED BY <1>1, <1>2, <1>3, <1>4

LEMMA ReadStep ==
  ASSUME NEW file \in Forms, NEW n \in Nat, n + 1 <= Len(file.items),
         NEW read \in Reads, ReadSoFar(read, file, n)
  PROVE  ReadSoFar(TakeItem(read, file.items[n + 1]), file, n + 1)
<1>0. PICK items : items = file.items
  OBVIOUS
<1>1. PICK item : item = items[n + 1]
  OBVIOUS
<1> DEFINE new == TakeItem(read, item)
<1>2. CASE new.failed
  BY <1>0, <1>1, <1>2 DEF ReadSoFar
<1>3. CASE ~new.failed
  <2>1. ~read.failed /\ item.provider \in Providers
    BY <1>3, TakeCases
  <2>0. file.valid /\ WasRead(read, items, n)
    BY <1>0, <2>1 DEF ReadSoFar
  <2>2. /\ \A k \in 1 .. n : items[k].provider \in Providers
        /\ read.seen = {items[k].user : k \in 1 .. n}
        /\ Len(read.accounts) = Cardinality(Firsts(items, n))
        /\ \A k \in Firsts(items, n) :
             /\ Cardinality(Firsts(items, k)) \in 1 .. Len(read.accounts)
             /\ read.accounts[Cardinality(Firsts(items, k))] = items[k]
        /\ \A i \in DOMAIN read.accounts : read.accounts[i].user \in read.seen
        /\ \A i, j \in DOMAIN read.accounts : read.accounts[i].user = read.accounts[j].user => i = j
    BY <2>0 DEF WasRead
  <2>3. 1 .. n + 1 = (1 .. n) \union {n + 1}
    OBVIOUS
  <2>4. \A k \in 1 .. n + 1 : items[k].provider \in Providers
    BY <1>1, <2>1, <2>2, <2>3
  <2>5. {items[k].user : k \in 1 .. n + 1} = read.seen \union {item.user}
    BY <1>1, <2>2, <2>3
  <2>6. CASE item.user \in read.seen
    <3>1. new = read
      BY <1>3, <2>6, TakeCases
    <3>2. Firsts(items, n + 1) = Firsts(items, n)
      BY <1>1, <2>2, <2>6, FirstsStep
    <3>3. {items[k].user : k \in 1 .. n + 1} = read.seen
      BY <2>5, <2>6
    <3> HIDE DEF new
    <3>4. \A k \in Firsts(items, n + 1) :
            /\ Cardinality(Firsts(items, k)) \in 1 .. Len(read.accounts)
            /\ read.accounts[Cardinality(Firsts(items, k))] = items[k]
      BY <2>2, <3>2
    <3>5. WasRead(read, items, n + 1)
      BY <2>2, <2>4, <3>2, <3>3, <3>4 DEF WasRead
    <3>6. ReadSoFar(new, file, n + 1)
      BY <1>0, <2>0, <3>1, <3>5 DEF ReadSoFar
    <3> QED BY <1>0, <1>1, <3>6 DEF new
  <2>7. CASE item.user \notin read.seen
    <3>1. /\ new.seen = read.seen \union {item.user}
          /\ new.accounts = Append(read.accounts, item)
      BY <1>3, <2>7, TakeCases
    <3>2. read.accounts \in Seq(Account) /\ Len(read.accounts) \in Nat
      BY DEF Reads
    <3>3. /\ Firsts(items, n + 1) = Firsts(items, n) \union {n + 1}
          /\ Cardinality(Firsts(items, n + 1)) = Cardinality(Firsts(items, n)) + 1
      BY <1>1, <2>2, <2>7, FirstsStep
    <3>4. item \in Account
      BY <1>0, <1>1, <2>1, Items
    <3> HIDE DEF new
    <3>5. PICK old : old = read.accounts
      OBVIOUS
    <3>6. PICK l \in Nat : l = Len(old)
      BY <3>2, <3>5
    <3>7. /\ Len(new.accounts) = l + 1 /\ DOMAIN new.accounts = 1 .. l + 1 /\ DOMAIN old = 1 .. l
          /\ new.accounts[l + 1] = item
          /\ \A i \in 1 .. l : new.accounts[i] = old[i]
      BY <3>1, <3>2, <3>4, <3>5, <3>6
    <3>8. Len(new.accounts) = Cardinality(Firsts(items, n + 1))
      BY <2>2, <3>3, <3>5, <3>6, <3>7
    <3>9. ASSUME NEW k \in Firsts(items, n + 1)
          PROVE  /\ Cardinality(Firsts(items, k)) \in 1 .. Len(new.accounts)
                 /\ new.accounts[Cardinality(Firsts(items, k))] = items[k]
      <4>1. CASE k = n + 1
        <5>1. Cardinality(Firsts(items, k)) = l + 1
          BY <3>7, <3>8, <4>1
        <5> QED BY <1>1, <3>7, <4>1, <5>1
      <4>2. CASE k \in Firsts(items, n)
        <5>1. PICK c : c = Cardinality(Firsts(items, k))
          OBVIOUS
        <5>2. c \in 1 .. l /\ old[c] = items[k]
          BY <2>2, <3>5, <3>6, <4>2, <5>1
        <5> QED BY <3>7, <5>1, <5>2
      <4> QED BY <3>3, <3>9, <4>1, <4>2
    <3>10. 1 .. l + 1 = (1 .. l) \union {l + 1}
      OBVIOUS
    <3>11. \A i \in DOMAIN new.accounts : new.accounts[i].user \in new.seen
      BY <2>2, <3>1, <3>5, <3>7, <3>10
    <3>12. ASSUME NEW i \in DOMAIN new.accounts, NEW j \in DOMAIN new.accounts,
                  new.accounts[i].user = new.accounts[j].user
           PROVE  i = j
      <4>1. \A m \in 1 .. l : new.accounts[m].user \in read.seen
        BY <2>2, <3>5, <3>7
      <4>2. new.accounts[l + 1].user \notin read.seen
        BY <2>7, <3>7
      <4>3. CASE i \in 1 .. l /\ j \in 1 .. l
        BY <2>2, <3>5, <3>7, <3>12, <4>3
      <4> QED BY <3>7, <3>10, <3>12, <4>1, <4>2, <4>3
    <3>13. new.seen = {items[k].user : k \in 1 .. n + 1}
      BY <2>5, <3>1
    <3>14. WasRead(new, items, n + 1)
      BY <2>4, <3>8, <3>9, <3>11, <3>12, <3>13 DEF WasRead
    <3>15. ReadSoFar(new, file, n + 1)
      BY <1>0, <2>0, <3>14 DEF ReadSoFar
    <3> QED BY <1>0, <1>1, <3>15 DEF new
  <2> QED BY <2>6, <2>7
<1> QED BY <1>2, <1>3

\* load_config makes of the options what the property says of them.
LEMMA Loaded ==
  ASSUME NEW file \in Forms
  PROVE  /\ LoadConfig(file) \in Reads
         /\ ReadSoFar(LoadConfig(file), file, Len(file.items))
<1>1. PICK h : IsLoop(h, file) /\ LoadConfig(file) = h[Len(file.items)]
  BY LoopExists
<1>2. PICK N \in Nat : N = Len(file.items)
  BY Items
<1>3. /\ h \in [0 .. N -> Reads] /\ h[0] = Nothing(file)
      /\ \A n \in 1 .. N : h[n] = TakeItem(h[n - 1], file.items[n])
  BY <1>1, <1>2 DEF IsLoop
<1> DEFINE Good == {n \in Nat : n <= N => ReadSoFar(h[n], file, n)}
<1>4. 0 \in Good
  <2>1. ReadSoFar(Nothing(file), file, 0)
    <3>1. 1 .. 0 = {}
      OBVIOUS
    <3>2. Firsts(file.items, 0) = {} /\ Cardinality({}) = 0
      BY <3>1, FS_EmptySet DEF Firsts
    <3>3. ~Nothing(file).failed => file.valid
      BY FormsAssumption DEF Nothing
    <3>4. Nothing(file).seen = {} /\ Nothing(file).accounts = <<>>
      BY DEF Nothing
    <3>5. Len(<<>>) = 0 /\ DOMAIN <<>> = {}
      OBVIOUS
    <3> QED BY <3>1, <3>2, <3>3, <3>4, <3>5 DEF ReadSoFar, WasRead
  <2> QED BY <1>3, <2>1
<1>5. ASSUME NEW n \in Nat, n \in Good PROVE n + 1 \in Good
  <2> SUFFICES ASSUME n + 1 <= N PROVE ReadSoFar(h[n + 1], file, n + 1)
    OBVIOUS
  <2>1. ReadSoFar(h[n], file, n) /\ h[n] \in Reads
    BY <1>3, <1>5
  <2>2. h[n + 1] = TakeItem(h[n], file.items[n + 1])
    <3>1. n + 1 \in 1 .. N /\ (n + 1) - 1 = n
      OBVIOUS
    <3> QED BY <1>3, <3>1
  <2> QED BY <1>2, <2>1, <2>2, ReadStep
<1> HIDE DEF Good
<1>6. N \in Good
  BY <1>4, <1>5, NumberInduction
<1>7. h[N] \in Reads
  BY <1>3
<1> QED BY <1>1, <1>2, <1>6, <1>7 DEF Good

-----------------------------------------------------------------------------
(* The invariant. *)

\* A line of an account has its entity, and the entity shows the line's figures -
\* or is of a result that came from another provider.
TopicsOf(a, line) ==
  {LineTopic(a.provider, IdOf(a), line)}
    \union IF line = IdOf(a) THEN {MainTopic(a.provider, line)} ELSE {}

LineShown(a, line) ==
  LET e == <<a.provider, line>> IN
    /\ e \in DOMAIN entities
    /\ \/ entities[e].moved
       \/ /\ entities[e].topic \in TopicsOf(a, line)
          /\ entities[e].topic \in DOMAIN shown
          /\ shown[entities[e].topic] = Figures(a.user, line)

LinesShown(a, r) == \A line \in r.numbers \union {r.id} : Own(a, line) => LineShown(a, line)

\* The stored result of an account is shown, unless it is another provider's.
StoredShown(a) ==
  stored[a.user] # None /\ stored[a.user].from = a.provider => LinesShown(a, stored[a.user])

\* A result that user u may have, from whichever provider.
From(u, p) == [user |-> u, provider |-> p]
IsResultOf(r, u) == r.from \in Providers /\ r \in ResultsOf(From(u, r.from))

\* Where the process is: its accounts are those of the options of its start.
Processed ==
  /\ pc \in {"down", "start", "run"} /\ options \in Forms /\ form \in Forms
  /\ edits \in 0 .. MaxEdits
  /\ pc # "down" => ~LoadConfig(form).failed /\ accounts = LoadConfig(form).accounts
  /\ pc = "down" => accounts = <<>>
  /\ todo \in Seq(Range(accounts)) /\ (pc # "start" => todo = <<>>)

\* What it has stored and is about to store.
Results ==
  /\ stored \in [Usernames -> AllResults \union {None}]
  /\ \A u \in Usernames : stored[u] # None => IsResultOf(stored[u], u)
  /\ pending # None => /\ pc = "run" /\ pending.account \in Range(accounts)
                       /\ pending.result \in ResultsOf(pending.account)

\* Every entity has the state its discovery names.
TopicsRetained == \A e \in DOMAIN entities : entities[e].topic \in DOMAIN shown

\* What is shown of it: startup has come to the accounts no longer in todo.
AllShown ==
  /\ \A a \in Range(accounts) : a \in Range(todo) \/ StoredShown(a)
  /\ pending # None => LinesShown(pending.account, pending.result)
  /\ TopicsRetained

EntitiesInv == Processed /\ Results /\ AllShown

-----------------------------------------------------------------------------
(* What publishing does to the entities. *)

\* The lines of an account's results are its own.
LEMMA OwnLines ==
  ASSUME NEW a \in Account, NEW r \in ResultsOf(a)
  PROVE  /\ r.id = IdOf(a) /\ r.from = a.provider
         /\ r.numbers \union {r.id} \subseteq LinesOf(a)
BY DEF ResultsOf, LinesOf

\* What a user's result from an account's provider is to that account.
LEMMA IsOwn ==
  ASSUME NEW a \in Account, NEW r, IsResultOf(r, a.user), r.from = a.provider
  PROVE  r \in ResultsOf(a)
<1>1. From(a.user, r.from) = a
  BY DEF From, Account
<1> QED BY <1>1 DEF IsResultOf

\* A published result shows each of its lines, unless it is another provider's.
LEMMA PublishSets ==
  ASSUME NEW b \in Account, NEW r \in ResultsOf(b), NEW line \in r.numbers \union {r.id},
         PublishResult(b.provider, b.user, r)
  PROVE  LineShown(b, line)'
<1> DEFINE e == <<b.provider, line>>
           E == EntitiesOf(b.provider, r)
           S == ShownOf(b.provider, b.user, r)
<1>1. r.id = IdOf(b) /\ r.from = b.provider
  BY OwnLines
<1>2. /\ e \in DOMAIN E
      /\ E[e].topic = IF line \in r.numbers THEN LineTopic(b.provider, r.id, line)
                                            ELSE MainTopic(b.provider, r.id)
  BY DEF EntitiesOf, Pid
<1> DEFINE T == E[e].topic
<1>3. T \in TopicsOf(b, line) /\ T \in DOMAIN S /\ S[T] = Figures(b.user, line)
  <2>1. CASE line \notin r.numbers
    <3>1. T = <<b.provider, r.id>> /\ line = r.id
      BY <1>2, <2>1 DEF MainTopic, Pid
    <3>2. Len(<<b.provider, r.id>>) = 2
      OBVIOUS
    <3>3. T = MainTopic(b.provider, line) /\ line = IdOf(b)
      BY <1>1, <3>1 DEF MainTopic, Pid
    <3> HIDE DEF E
    <3>4. T \in DOMAIN S /\ S[T] = Figures(b.user, line)
      BY <3>1, <3>2 DEF ShownOf, MainTopic, Pid
    <3> QED BY <3>3, <3>4 DEF TopicsOf
  <2>2. CASE line \in r.numbers
    <3>1. T = <<b.provider, r.id, line>>
      BY <1>2, <2>2 DEF LineTopic, Pid
    <3>2. /\ Len(<<b.provider, r.id, line>>) # 2
          /\ <<b.provider, r.id, line>>[3] = line
      OBVIOUS
    <3>3. T = LineTopic(b.provider, IdOf(b), line)
      BY <1>1, <3>1 DEF LineTopic, Pid
    <3> HIDE DEF E
    <3>4. T \in DOMAIN S /\ S[T] = Figures(b.user, line)
      BY <2>2, <3>1, <3>2 DEF ShownOf, LineTopic, Pid
    <3> QED BY <3>3, <3>4 DEF TopicsOf
  <2> QED BY <2>1, <2>2
<1>4. entities' = Retain(E, entities) /\ shown' = Retain(S, shown)
  BY DEF PublishResult
<1> HIDE DEF E, S
<1>5. e \in DOMAIN entities' /\ entities'[e] = E[e]
  BY <1>2, <1>4 DEF Retain
<1>6. T \in DOMAIN shown' /\ shown'[T] = S[T]
  BY <1>3, <1>4 DEF Retain
<1> QED BY <1>3, <1>5, <1>6 DEF LineShown

\* A result that is published takes no line from an account that has it for itself.
LEMMA PublishKeeps ==
  ASSUME NEW a \in Account, NEW line \in LinesOf(a), Own(a, line), LineShown(a, line),
         NEW b \in Account, b \in Range(accounts), NEW r, IsResultOf(r, b.user),
         PublishResult(b.provider, b.user, r)
  PROVE  LineShown(a, line)'
<1> DEFINE e == <<a.provider, line>>
           E == EntitiesOf(b.provider, r)
           S == ShownOf(b.provider, b.user, r)
<1>1. entities' = Retain(E, entities) /\ shown' = Retain(S, shown)
  BY DEF PublishResult
<1>2. CASE e \in DOMAIN E
  <2>1. a.provider = b.provider /\ line \in r.numbers \union {r.id}
    BY <1>2 DEF EntitiesOf, Pid
  <2>2. CASE r.from = b.provider
    <3>1. r \in ResultsOf(b)
      BY <2>2, IsOwn
    <3>2. line \in LinesOf(b)
      BY <2>1, <3>1, OwnLines
    <3>3. a = b
      BY <2>1, <3>2 DEF Own
    <3> QED BY <2>1, <3>1, <3>3, PublishSets
  <2>3. CASE r.from # b.provider
    <3>1. E[e].moved
      BY <1>2, <2>3 DEF EntitiesOf
    <3> HIDE DEF E
    <3>2. e \in DOMAIN entities' /\ entities'[e] = E[e]
      BY <1>1, <1>2 DEF Retain
    <3> QED BY <3>1, <3>2 DEF LineShown
  <2> QED BY <2>2, <2>3
<1>3. CASE e \notin DOMAIN E
  <2>1. ASSUME NEW T \in TopicsOf(a, line) PROVE T \notin DOMAIN S
    <3>1. \A l \in r.numbers \union {r.id} : e # <<b.provider, l>>
      BY <1>3 DEF EntitiesOf, Pid
    <3>2. CASE line = IdOf(a) /\ T = MainTopic(a.provider, line)
      <4>1. T = e
        BY <3>2 DEF MainTopic, Pid
      <4>2. \A n : <<b.provider, r.id, n>> # e
        OBVIOUS
      <4> QED BY <3>1, <4>1, <4>2 DEF ShownOf, MainTopic, LineTopic, Pid
    <3>3. CASE T = LineTopic(a.provider, IdOf(a), line)
      <4>1. T = <<a.provider, IdOf(a), line>>
        BY <3>3 DEF LineTopic, Pid
      <4>2. T # <<b.provider, r.id>>
        BY <4>1
      <4>3. \A n \in r.numbers : T # <<b.provider, r.id, n>>
        BY <3>1, <4>1
      <4> QED BY <4>2, <4>3 DEF ShownOf, MainTopic, LineTopic, Pid
    <3> QED BY <3>2, <3>3 DEF TopicsOf
  <2> HIDE DEF E, S
  <2>2. e \in DOMAIN entities /\ e \in DOMAIN entities' /\ entities'[e] = entities[e]
    BY <1>1, <1>3 DEF Retain, LineShown
  <2>3. \A T \in TopicsOf(a, line) :
          T \in DOMAIN shown => T \in DOMAIN shown' /\ shown'[T] = shown[T]
    BY <1>1, <2>1 DEF Retain
  <2> QED BY <2>2, <2>3 DEF LineShown
<1> QED BY <1>2, <1>3

\* An entity's state is published with it.
LEMMA PublishRetains ==
  ASSUME NEW p, NEW u, NEW r, TopicsRetained, PublishResult(p, u, r)
  PROVE  TopicsRetained'
<1> DEFINE E == EntitiesOf(p, r)
           S == ShownOf(p, u, r)
<1>1. entities' = Retain(E, entities) /\ shown' = Retain(S, shown)
  BY DEF PublishResult
<1>2. \A e \in DOMAIN E : E[e].topic \in DOMAIN S
  BY DEF EntitiesOf, ShownOf
<1> HIDE DEF E, S
<1>3. ASSUME NEW e \in DOMAIN entities' PROVE entities'[e].topic \in DOMAIN shown'
  <2>1. CASE e \in DOMAIN E
    BY <1>1, <1>2, <2>1 DEF Retain
  <2>2. CASE e \notin DOMAIN E
    <3>1. e \in DOMAIN entities /\ entities'[e] = entities[e]
      BY <1>1, <1>3, <2>2 DEF Retain
    <3> QED BY <1>1, <3>1 DEF Retain, TopicsRetained
  <2> QED BY <2>1, <2>2
<1> QED BY <1>3 DEF TopicsRetained

\* A failed fetch writes at most the main figures of its own account, which it
\* leaves as they are if a result is stored.
LEMMA FailKeeps ==
  ASSUME EntitiesInv, NEW a \in Account, NEW b \in Account, b \in Range(accounts),
         FetchFail(b), StoredShown(a)
  PROVE  StoredShown(a)'
<1> DEFINE M == MainTopic(b.provider, b.user)
           figures == Figures(b.user, IF stored[b.user] = None THEN "none" ELSE stored[b.user].id)
           S == [t \in {M} |-> figures]
<1>1. shown' = Retain(S, shown) /\ UNCHANGED <<entities, stored, accounts>>
  BY DEF FetchFail
<1> SUFFICES ASSUME stored[a.user] # None, stored[a.user].from = a.provider,
                    NEW line \in stored[a.user].numbers \union {stored[a.user].id},
                    Own(a, line)
             PROVE  LineShown(a, line)'
  BY <1>1 DEF StoredShown, LinesShown, Own
<1> DEFINE T == entities[<<a.provider, line>>].topic
<1>2. stored[a.user] \in ResultsOf(a)
  <2>1. a.user \in Usernames
    BY DEF Account
  <2> QED BY <2>1, IsOwn DEF EntitiesInv, Results
<1>3. stored[a.user].id = IdOf(a) /\ line \in LinesOf(a)
  BY <1>2, OwnLines
<1>4. LineShown(a, line)
  BY DEF StoredShown, LinesShown
<1>5. DOMAIN S = {M} /\ S[M] = figures
  OBVIOUS
<1>6. CASE entities[<<a.provider, line>>].moved
  BY <1>1, <1>4, <1>6 DEF LineShown
<1>7. CASE ~entities[<<a.provider, line>>].moved /\ T = M
  <2>0. T \in TopicsOf(a, line)
    BY <1>4, <1>7 DEF LineShown
  <2>1. line = IdOf(a) /\ a.provider = b.provider /\ line = b.user
    <3>1. M = <<b.provider, b.user>>
      BY DEF MainTopic, Pid
    <3>2. LineTopic(a.provider, IdOf(a), line) # M
      <4>1. LineTopic(a.provider, IdOf(a), line) = <<a.provider, IdOf(a), line>>
        BY DEF LineTopic, Pid
      <4> QED BY <3>1, <4>1
    <3> HIDE DEF M, T
    <3>3. line = IdOf(a) /\ T = MainTopic(a.provider, line)
      BY <1>7, <2>0, <3>2 DEF TopicsOf
    <3>4. T = <<a.provider, line>>
      BY <3>3 DEF MainTopic, Pid
    <3> QED BY <1>7, <3>1, <3>3, <3>4
  <2>2. IdOf(b) = line
    <3>1. a.user \in Usernames /\ b.user \in Usernames
      BY DEF Account
    <3> QED BY <2>1, <3>1, SlugAssumption DEF IdOf
  <2>3. a = b
    <3>1. line \in LinesOf(b)
      BY <2>2 DEF LinesOf
    <3> QED BY <2>1, <3>1 DEF Own
  <2>4. figures = Figures(a.user, line)
    BY <1>3, <2>1, <2>3
  <2> HIDE DEF S, figures, M
  <2>5. T \in DOMAIN shown' /\ shown'[T] = figures
    BY <1>1, <1>5, <1>7 DEF Retain
  <2> QED BY <1>1, <1>4, <2>0, <2>4, <2>5 DEF LineShown
<1>8. CASE ~entities[<<a.provider, line>>].moved /\ T # M
  <2> HIDE DEF S, M
  <2>1. T \in DOMAIN shown => T \in DOMAIN shown' /\ shown'[T] = shown[T]
    BY <1>1, <1>5, <1>8 DEF Retain
  <2> QED BY <1>1, <1>4, <2>1 DEF LineShown
<1> QED BY <1>6, <1>7, <1>8

\* What is stored of an account stays shown while other results are published.
LEMMA StoredKept ==
  ASSUME EntitiesInv, NEW a \in Account, NEW b \in Account, b \in Range(accounts),
         NEW r, IsResultOf(r, b.user), PublishResult(b.provider, b.user, r),
         UNCHANGED <<stored, accounts>>, StoredShown(a)
  PROVE  StoredShown(a)'
<1> SUFFICES ASSUME stored[a.user] # None, stored[a.user].from = a.provider,
                    NEW line \in stored[a.user].numbers \union {stored[a.user].id},
                    Own(a, line)
             PROVE  LineShown(a, line)'
  BY DEF StoredShown, LinesShown, Own
<1>1. a.user \in Usernames
  BY DEF Account
<1>2. line \in LinesOf(a)
  BY <1>1, IsOwn, OwnLines DEF EntitiesInv, Results
<1>3. LineShown(a, line)
  BY DEF StoredShown, LinesShown
<1> QED BY <1>2, <1>3, PublishKeeps

\* The accounts of a process are accounts.
LEMMA AccountsTyped ==
  ASSUME EntitiesInv
  PROVE  accounts \in Seq(Account) /\ Range(accounts) \subseteq Account
<1>1. accounts \in Seq(Account)
  <2>1. CASE pc = "down"
    BY <2>1 DEF EntitiesInv, Processed
  <2>2. CASE pc # "down"
    BY <2>2, Loaded DEF EntitiesInv, Processed, Reads
  <2> QED BY <2>1, <2>2
<1> QED BY <1>1 DEF Range

\* The accounts startup has still to come to.
LEMMA TodoSplit ==
  ASSUME NEW R, NEW s \in Seq(R), s # <<>>
  PROVE  /\ Head(s) \in R /\ Tail(s) \in Seq(R)
         /\ Range(s) = {Head(s)} \union Range(Tail(s))
<1>1. Len(s) \in Nat /\ DOMAIN s = 1 .. Len(s) /\ Len(s) # 0
  OBVIOUS
<1>2. PICK n \in Nat : n = Len(s)
  BY <1>1
<1>3. n >= 1 /\ Head(s) = s[1] /\ Head(s) \in R /\ Tail(s) \in Seq(R)
  BY <1>1, <1>2
<1>4. /\ Len(Tail(s)) = n - 1 /\ DOMAIN Tail(s) = 1 .. n - 1
      /\ \A i \in 1 .. n - 1 : Tail(s)[i] = s[i + 1]
  BY <1>1, <1>2, <1>3
<1>5. 1 .. n = {1} \union {i + 1 : i \in 1 .. n - 1}
  <2>1. \A i \in 1 .. n : i = 1 \/ (i - 1 \in 1 .. n - 1 /\ i = (i - 1) + 1)
    BY <1>3
  <2>2. \A i \in 1 .. n - 1 : i + 1 \in 1 .. n
    BY <1>3
  <2> QED BY <1>3, <2>1, <2>2
<1>6. Range(s) = {s[i] : i \in {1} \union {j + 1 : j \in 1 .. n - 1}}
  BY <1>1, <1>2, <1>5 DEF Range
<1>7. Range(Tail(s)) = {s[j + 1] : j \in 1 .. n - 1}
  BY <1>4 DEF Range
<1>8. Range(s) = {s[1]} \union {s[j + 1] : j \in 1 .. n - 1}
  BY <1>6
<1> QED BY <1>3, <1>7, <1>8

LEMMA InitEntities == Init => EntitiesInv
<1> SUFFICES ASSUME Init PROVE EntitiesInv
  OBVIOUS
<1>1. Range(accounts) = {} /\ DOMAIN entities = {}
  BY DEF Init, Range
<1>2. Processed
  <2>1. 0 \in 0 .. MaxEdits
    BY EditsAssumption
  <2>2. <<>> \in Seq(Range(accounts))
    OBVIOUS
  <2> QED BY <2>1, <2>2 DEF Init, Processed
<1>3. Results
  BY DEF Init, Results
<1>4. AllShown
  BY <1>1 DEF Init, AllShown, TopicsRetained
<1> QED BY <1>2, <1>3, <1>4 DEF EntitiesInv

LEMMA NextEntities == EntitiesInv /\ [Next]_vars => EntitiesInv'
<1> SUFFICES ASSUME EntitiesInv, [Next]_vars PROVE EntitiesInv'
  OBVIOUS
<1> USE DEF EntitiesInv
<1>1. Range(accounts) \subseteq Account
  BY AccountsTyped
<1>2. \A a \in Account : a.user \in Usernames
  BY DEF Account
<1>3. CASE UNCHANGED vars \/ BootRefused
  <2>1. UNCHANGED vars
    BY <1>3 DEF BootRefused
  <2> QED BY <2>1 DEF vars, config, broker, Processed, Results, AllShown, TopicsRetained,
                      StoredShown, LinesShown, LineShown, Own
<1>4. CASE Edit
  <2>1. options' \in Forms /\ edits' \in 0 .. MaxEdits
    BY <1>4, EditsAssumption DEF Edit, Processed
  <2> QED BY <1>4, <2>1 DEF Edit, broker, Processed, Results, AllShown, TopicsRetained,
                            StoredShown, LinesShown, LineShown, Own
<1>5. CASE Boot
  <2>1. /\ accounts' = LoadConfig(options).accounts /\ ~LoadConfig(options).failed
        /\ todo' = accounts' /\ form' = options /\ options \in Forms
    BY <1>5 DEF Boot, Processed
  <2>2. accounts' \in Seq(Account)
    BY <2>1, Loaded DEF Reads
  <2>3. accounts' \in Seq(Range(accounts'))
    <3>1. PICK s \in Seq(Account) : s = accounts'
      BY <2>2
    <3>2. s \in Seq(Range(s))
      BY DEF Range
    <3> QED BY <3>1, <3>2
  <2>4. Processed'
    BY <1>5, <2>1, <2>3 DEF Boot, config, Processed
  <2>5. pending = None
    BY <1>5 DEF Boot, Results
  <2>6. Results'
    BY <1>5, <2>5 DEF Boot, Results
  <2>7. AllShown'
    BY <1>5, <2>1, <2>5 DEF Boot, broker, AllShown, TopicsRetained
  <2> QED BY <2>4, <2>6, <2>7
<1>6. CASE Republish
  <2>0. PICK b : b = Head(todo)
    OBVIOUS
  <2>1. todo \in Seq(Range(accounts)) /\ todo # <<>>
    BY <1>6 DEF Republish, Processed
  <2>2. b \in Range(accounts) /\ Tail(todo) \in Seq(Range(accounts))
        /\ Range(todo) = {b} \union Range(Tail(todo))
    BY <2>0, <2>1, TodoSplit
  <2>3. b \in Account /\ b.user \in Usernames
    BY <1>1, <1>2, <2>2
  <2>4. /\ pc = "start" /\ todo' = Tail(todo)
        /\ UNCHANGED <<config, pc, form, accounts, stored, pending>>
        /\ stored[b.user] = None => UNCHANGED broker
        /\ stored[b.user] # None => PublishResult(b.provider, b.user, stored[b.user])
    BY <1>6, <2>0 DEF Republish
  <2>5. Processed'
    BY <2>2, <2>4 DEF config, Processed
  <2>6. pending = None /\ Results'
    BY <2>4 DEF Results
  <2>7. CASE stored[b.user] = None
    <3>1. \A a \in Range(accounts) : a \in Range(todo)' \/ StoredShown(a)'
      BY <2>2, <2>4, <2>7 DEF broker, AllShown, StoredShown, LinesShown, LineShown, Own
    <3>2. TopicsRetained'
      BY <2>4, <2>7 DEF broker, AllShown, TopicsRetained
    <3> QED BY <2>4, <2>5, <2>6, <3>1, <3>2 DEF AllShown
  <2>8. CASE stored[b.user] # None
    <3>0. PICK r : r = stored[b.user]
      OBVIOUS
    <3>1. IsResultOf(r, b.user) /\ PublishResult(b.provider, b.user, r)
      BY <2>3, <2>4, <2>8, <3>0 DEF Results
    <3>2. r.from = b.provider => \A line \in r.numbers \union {r.id} : LineShown(b, line)'
      BY <2>3, <3>1, IsOwn, PublishSets
    <3>3. StoredShown(b)'
      <4>1. stored'[b.user] = r
        BY <2>4, <3>0
      <4> QED BY <3>2, <4>1 DEF StoredShown, LinesShown
    <3>4. ASSUME NEW a \in Range(accounts) PROVE a \in Range(todo)' \/ StoredShown(a)'
      <4>1. CASE a = b
        BY <3>3, <4>1
      <4>2. CASE a \in Range(Tail(todo))
        BY <2>4, <4>2
      <4>3. CASE StoredShown(a)
        BY <1>1, <2>2, <2>3, <2>4, <3>1, <4>3, StoredKept
      <4> QED BY <2>2, <4>1, <4>2, <4>3 DEF AllShown
    <3>5. TopicsRetained'
      BY <3>1, PublishRetains DEF AllShown
    <3> QED BY <2>4, <2>5, <2>6, <3>4, <3>5 DEF AllShown
  <2> QED BY <2>7, <2>8
<1>7. CASE EnterLoop
  <2>1. Range(todo) = Range(todo')
    BY <1>7 DEF EnterLoop
  <2> QED BY <1>7, <2>1 DEF EnterLoop, config, broker, Processed, Results, AllShown, TopicsRetained,
                            StoredShown, LinesShown, LineShown, Own
<1>8. CASE SaveResult
  <2>0. PICK b, r : b = pending.account /\ r = pending.result
    OBVIOUS
  <2>1. /\ b \in Range(accounts) /\ b \in Account /\ b.user \in Usernames /\ r \in ResultsOf(b)
        /\ pc = "run" /\ todo = <<>> /\ pending' = None /\ LinesShown(b, r)
        /\ stored' = [stored EXCEPT ![b.user] = r]
        /\ UNCHANGED <<config, pc, form, accounts, todo, broker>>
    BY <1>1, <1>2, <1>8, <2>0 DEF SaveResult, Results, AllShown, Processed
  <2>2. Processed'
    BY <2>1 DEF config, Processed
  <2>3. r.from = b.provider /\ From(b.user, r.from) = b /\ b.provider \in Providers
    BY <2>1, OwnLines DEF From, Account
  <2>4. IsResultOf(r, b.user) /\ r \in AllResults
    BY <2>1, <2>3 DEF IsResultOf, AllResults
  <2>5. \A u \in Usernames : stored'[u] = IF u = b.user THEN r ELSE stored[u]
    BY <2>1 DEF Results
  <2>6. Results'
    BY <2>1, <2>4, <2>5 DEF Results
  <2>7. ASSUME NEW a \in Range(accounts) PROVE StoredShown(a)'
    <3>1. a \in Account /\ a.user \in Usernames /\ StoredShown(a)
      <4>1. Range(todo) = {}
        BY <2>1 DEF Range
      <4> QED BY <1>1, <1>2, <4>1 DEF AllShown
    <3>2. CASE a.user = b.user
      <4>1. r.from = a.provider => a = b
        <5>1. \A x, y \in Account : x.user = y.user /\ x.provider = y.provider => x = y
          BY DEF Account
        <5> QED BY <2>1, <2>3, <3>1, <3>2, <5>1
      <4> QED BY <2>1, <2>5, <3>1, <3>2, <4>1 DEF broker, StoredShown, LinesShown, LineShown, Own
    <3>3. CASE a.user # b.user
      BY <2>1, <2>5, <3>1, <3>3 DEF broker, StoredShown, LinesShown, LineShown, Own
    <3> QED BY <3>2, <3>3
  <2>8. AllShown'
    BY <2>1, <2>7 DEF broker, AllShown, TopicsRetained
  <2> QED BY <2>2, <2>6, <2>8
<1>9. CASE Down
  <2>1. /\ Range(<<>>) = {} /\ <<>> \in Seq(Range(<<>>))
    BY DEF Range
  <2>2. Processed'
    BY <1>9, <2>1 DEF Down, config, Processed
  <2>3. Results'
    BY <1>9 DEF Down, Results
  <2>4. TopicsRetained'
    <3>1. CASE UNCHANGED broker
      BY <3>1 DEF broker, AllShown, TopicsRetained
    <3>2. CASE entities' = <<>>
      BY <3>2 DEF TopicsRetained
    <3> QED BY <1>9, <3>1, <3>2 DEF Down
  <2>5. AllShown'
    BY <1>9, <2>1, <2>4 DEF Down, AllShown
  <2> QED BY <2>2, <2>3, <2>5
<1>10. ASSUME NEW b \in Range(accounts), FetchOk(b) PROVE EntitiesInv'
  <2>1. PICK r \in ResultsOf(b) : /\ PublishResult(b.provider, b.user, r)
                                  /\ pending' = [account |-> b, result |-> r]
    BY <1>10 DEF FetchOk
  <2>2. pc = "run" /\ todo = <<>> /\ UNCHANGED <<config, pc, form, accounts, todo, stored>>
    BY <1>10 DEF FetchOk, Processed
  <2>3. b \in Account /\ b.user \in Usernames
    BY <1>1, <1>2
  <2>4. IsResultOf(r, b.user)
    <3>1. r.from = b.provider /\ From(b.user, r.from) = b /\ b.provider \in Providers
      BY <2>3, OwnLines DEF From, Account
    <3> QED BY <3>1 DEF IsResultOf
  <2>5. Processed'
    BY <2>2 DEF config, Processed
  <2>6. Results'
    BY <2>1, <2>2 DEF Results
  <2>7. ASSUME NEW a \in Range(accounts) PROVE StoredShown(a)'
    <3>1. Range(todo) = {}
      BY <2>2 DEF Range
    <3>2. a \in Account /\ StoredShown(a)
      BY <1>1, <3>1 DEF AllShown
    <3> QED BY <2>1, <2>2, <2>3, <2>4, <3>2, StoredKept
  <2>8. LinesShown(b, r)'
    <3>1. \A line \in r.numbers \union {r.id} : LineShown(b, line)'
      BY <2>1, <2>3, PublishSets
    <3> QED BY <3>1 DEF LinesShown
  <2>9. TopicsRetained'
    BY <2>1, PublishRetains DEF AllShown
  <2>10. AllShown'
    <3>1. pending'.account = b /\ pending'.result = r
      BY <2>1
    <3> QED BY <2>2, <2>7, <2>8, <2>9, <3>1 DEF AllShown
  <2> QED BY <2>5, <2>6, <2>10
<1>11. ASSUME NEW b \in Range(accounts), FetchFail(b) PROVE EntitiesInv'
  <2>1. /\ pc = "run" /\ pending = None /\ todo = <<>>
        /\ UNCHANGED <<config, pc, form, accounts, todo, stored, pending, entities>>
    BY <1>11 DEF FetchFail, Processed
  <2>2. b \in Account
    BY <1>1
  <2>3. Processed' /\ Results'
    BY <2>1 DEF config, Processed, Results
  <2>4. ASSUME NEW a \in Range(accounts) PROVE StoredShown(a)'
    <3>1. Range(todo) = {}
      BY <2>1 DEF Range
    <3>2. a \in Account /\ StoredShown(a)
      BY <1>1, <3>1 DEF AllShown
    <3> QED BY <1>11, <2>2, <3>2, FailKeeps
  <2>5. TopicsRetained'
    <3>1. DOMAIN shown \subseteq DOMAIN shown'
      BY <1>11 DEF FetchFail, Retain
    <3> QED BY <2>1, <3>1 DEF AllShown, TopicsRetained
  <2>6. AllShown'
    BY <2>1, <2>4, <2>5 DEF AllShown
  <2> QED BY <2>3, <2>6
<1> QED BY <1>3, <1>4, <1>5, <1>6, <1>7, <1>8, <1>9, <1>10, <1>11 DEF Next

LEMMA EntitiesInvariant == Spec => []EntitiesInv
BY InitEntities, NextEntities, PTL DEF Spec

-----------------------------------------------------------------------------
(* What follows. *)

\* What the process has of accounts, results and entities has its type, and the
\* account whose result waits to be saved is one of the process (scheduler.py:179-276).
THEOREM EntitiesTyped == Spec => []TypeOK
<1>1. EntitiesInv => TypeOK
  <2> SUFFICES ASSUME EntitiesInv PROVE TypeOK
    OBVIOUS
  <2>1. accounts \in Seq(Account)
    BY AccountsTyped
  <2>2. Range(todo) \subseteq Range(accounts)
    BY DEF EntitiesInv, Processed, Range
  <2> QED BY <2>1, <2>2 DEF EntitiesInv, Processed, Results, AllShown, TopicsRetained, TypeOK
<1> QED BY <1>1, EntitiesInvariant, PTL

\* The accounts are the first entries of their usernames, in the order of the
\* options, which were all valid (config.py:61-81).
THEOREM FirstWinsCorrect == Spec => []FirstWins
<1>1. EntitiesInv => FirstWins
  <2> SUFFICES ASSUME EntitiesInv, pc # "down" PROVE FirstWins
    BY DEF FirstWins
  <2> DEFINE items == form.items
             of(u) == {k \in DOMAIN items : items[k].user = u}
             first == {k \in DOMAIN items : \A j \in of(items[k].user) : k <= j}
  <2>1. form \in Forms /\ ~LoadConfig(form).failed /\ accounts = LoadConfig(form).accounts
    BY DEF EntitiesInv, Processed
  <2>2. PICK N \in Nat : N = Len(items) /\ DOMAIN items = 1 .. N
    BY <2>1, Items
  <2>3. ReadSoFar(LoadConfig(form), form, N)
    BY <2>1, <2>2, Loaded
  <2>4. /\ form.valid /\ \A k \in 1 .. N : items[k].provider \in Providers
        /\ Len(accounts) = Cardinality(Firsts(items, N))
        /\ \A k \in Firsts(items, N) :
             accounts[Cardinality(Firsts(items, k))] = items[k]
    BY <2>1, <2>3 DEF ReadSoFar, WasRead
  <2>5. first = Firsts(items, N)
    <3>1. ASSUME NEW k \in 1 .. N
          PROVE  (\A j \in of(items[k].user) : k <= j)
                   <=> (\A j \in 1 .. k - 1 : items[j].user # items[k].user)
      <4>1. \A j \in 1 .. N : j \in 1 .. k - 1 <=> ~(k <= j)
        OBVIOUS
      <4>2. 1 .. k - 1 \subseteq 1 .. N
        OBVIOUS
      <4> QED BY <2>2, <4>1, <4>2
    <3> QED BY <2>2, <3>1 DEF Firsts
  <2>6. ASSUME NEW k \in first PROVE {j \in first : j <= k} = Firsts(items, k)
    <3>1. k \in 1 .. N
      BY <2>5 DEF Firsts
    <3>2. \A j \in 1 .. N : j <= k <=> j \in 1 .. k
      BY <3>1
    <3>3. 1 .. k \subseteq 1 .. N
      BY <3>1
    <3> QED BY <2>5, <3>2, <3>3 DEF Firsts
  <2>7. Len(accounts) = Cardinality(first)
    BY <2>4, <2>5
  <2>8. \A k \in first : accounts[Cardinality({j \in first : j <= k})] = items[k]
    BY <2>4, <2>5, <2>6
  <2> QED BY <2>2, <2>4, <2>7, <2>8 DEF FirstWins
<1> QED BY <1>1, EntitiesInvariant, PTL

\* Each line of each stored result of a configured account has an entity with that
\* account's own figures, if the result is of the account's provider and no other
\* configured account of the provider may have the line: whatever other slugs and
\* numbers collide (discovery.py:77-108, scheduler.py:179-276).
THEOREM LinesShownCorrect == Spec => []EachLineShown
<1>1. EntitiesInv => EachLineShown
  <2> SUFFICES ASSUME EntitiesInv, pc = "run", NEW a \in Range(accounts),
                      stored[a.user] # None, stored[a.user].from = a.provider,
                      NEW line \in stored[a.user].numbers \union {stored[a.user].id},
                      Own(a, line)
               PROVE  LET e == <<a.provider, line>> IN
                        /\ e \in DOMAIN entities
                        /\ \/ shown[entities[e].topic] = Figures(a.user, line)
                           \/ entities[e].moved
    BY DEF EachLineShown, Pid
  <2>1. todo = <<>>
    BY DEF EntitiesInv, Processed
  <2>2. Range(todo) = {}
    BY <2>1 DEF Range
  <2>3. StoredShown(a)
    BY <2>2 DEF EntitiesInv, AllShown
  <2>4. LineShown(a, line)
    BY <2>3 DEF StoredShown, LinesShown
  <2> QED BY <2>4 DEF LineShown
<1> QED BY <1>1, EntitiesInvariant, PTL
=============================================================================
