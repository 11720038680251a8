--------------------------- MODULE StateStoreProofs ---------------------------
(***************************************************************************)
(* Proofs about StateStore for any set of accounts and any number of       *)
(* updates: the file operations implement the atomic map.                  *)
(***************************************************************************)
EXTENDS StateStore, TLAPS

\* Loading any file yields a map from accounts to results.
LEMMA LoadedType ==
  ASSUME NEW f \in Files PROVE Loaded(f) \in [Accounts -> Results \union {None}]
  BY DEF Loaded, Files, Empty, State, NoFile, Garbled, Alien

\* Files of different kinds differ.
LEMMA Kinds ==
  /\ Garbled # Alien /\ NoFile # Garbled /\ NoFile # Alien
  /\ \A m : State(m) # Garbled /\ State(m) # Alien
  BY DEF State, NoFile, Garbled, Alien

\* Moving a garbled file aside changes nothing of what a load returns.
LEMMA LoadFilesKeeps ==
  ASSUME TypeOK, LoadFiles
  PROVE  /\ Loaded(file') = Loaded(file)
         /\ file' \in Files /\ backup' \in {NoFile, Garbled}
         /\ file' # Garbled
         /\ file # Alien => file' # Alien
  BY Kinds DEF LoadFiles, Loaded, TypeOK, Files, NoFile, Garbled

\* The invariant of the save: TypeOK and SaveInv are inductive together.
LEMMA SaveInvStep == TypeOK /\ SaveInv /\ [Next]_vars => TypeOK' /\ SaveInv'
<1> SUFFICES ASSUME TypeOK, SaveInv, [Next]_vars PROVE TypeOK' /\ SaveInv'
  OBVIOUS
<1>1. CASE Start
  BY <1>1, LoadFilesKeeps DEF Start, TypeOK, SaveInv
<1>2. CASE StartFails
  BY <1>2 DEF StartFails, TypeOK, SaveInv
<1>3. ASSUME NEW a \in Accounts, Update(a) PROVE TypeOK' /\ SaveInv'
  <2>1. /\ Loaded(file') = Loaded(file)
        /\ file' \in Files /\ backup' \in {NoFile, Garbled}
        /\ file' # Garbled /\ file' # Alien
    BY <1>3, LoadFilesKeeps DEF Update, SaveInv
  <2>2. updates + 1 \in Results
    BY <1>3, BoundsAssumption DEF Update, TypeOK, Results
  <2>3. mem' = [Loaded(file') EXCEPT ![a] = updates + 1]
    BY <1>3, <2>1 DEF Update
  <2>4. mem' \in [Accounts -> Results \union {None}]
    BY <2>1, <2>2, <2>3, LoadedType
  <2>5. TypeOK'
    BY <1>3, <2>1, <2>2, <2>4 DEF Update, TypeOK, Results
  <2> QED BY <1>3, <2>1, <2>2, <2>3, <2>5 DEF Update, SaveInv
<1>4. CASE OpenTmp
  BY <1>4 DEF OpenTmp, TypeOK, SaveInv, Files
<1>5. CASE WriteTmp
  <2>1. State(mem) \in Files
    BY DEF TypeOK, Files
  <2> QED BY <1>5, <2>1 DEF WriteTmp, TypeOK, SaveInv
<1>6. CASE Replace
  <2>1. file' = State(mem)
    BY <1>6 DEF Replace, SaveInv
  <2> QED BY <1>6, <2>1, Kinds DEF Replace, TypeOK, SaveInv, Files
<1>7. CASE SaveRaises
  BY <1>7 DEF SaveRaises, TypeOK, SaveInv
<1>8. CASE Crash
  BY <1>8 DEF Crash, TypeOK, SaveInv
<1>9. CASE Damage
  <2>1. file' \in Files
    <3>1. CASE file' \in {Garbled, Alien}
      BY <3>1 DEF Files
    <3>2. ASSUME NEW a \in Accounts,
                 file' = State([file.results EXCEPT ![a] = IF @ = None THEN None ELSE Bad])
          PROVE  file' \in Files
      <4>1. PICK m \in [Accounts -> Results \union {None, Bad}] : file = State(m)
        BY <1>9 DEF Damage, TypeOK, Files, NoFile, Garbled, Alien
      <4>2. file.results = m
        BY <4>1 DEF State
      <4> QED BY <3>2, <4>2 DEF Files
    <3> QED BY <1>9, <3>1, <3>2 DEF Damage
  <2> QED BY <1>9, <2>1 DEF Damage, TypeOK, SaveInv
<1>10. CASE UNCHANGED vars
  BY <1>10 DEF vars, TypeOK, SaveInv
<1> QED BY <1>1, <1>2, <1>3, <1>4, <1>5, <1>6, <1>7, <1>8, <1>9, <1>10 DEF Next

\* Every file operation is a step of the atomic map or changes nothing of it.
LEMMA StoreStepRefines ==
  TypeOK /\ SaveInv /\ [Next]_vars => [Store!Next]_(Store!vars)
<1> SUFFICES ASSUME TypeOK, SaveInv, Next
             PROVE  Store!Next \/ UNCHANGED <<Loaded(file), Running>>
  BY DEF vars, Loaded, Running, Store!vars
<1> USE DEF Store!Next, Running
<1>1. CASE file' = file \/ LoadFiles
  <2>1. Loaded(file)' = Loaded(file)
    BY <1>1, LoadFilesKeeps DEF Loaded
  <2>2. CASE Start
    <3>1. Store!Start BY <2>1, <2>2 DEF Start, Store!Start
    <3> QED BY <3>1
  <2>3. CASE Crash /\ pc # "failed"
    <3>1. Store!Stop BY <2>1, <2>3 DEF Crash, Store!Stop
    <3> QED BY <3>1
  <2>4. CASE Replace
    BY <1>1, <2>1, <2>4 DEF Replace
  <2>5. CASE Damage
    BY <2>1, <2>5 DEF Damage
  <2> QED BY <2>1, <2>2, <2>3, <2>4, <2>5
          DEF Next, StartFails, Update, OpenTmp, WriteTmp, SaveRaises, Crash
<1>2. CASE Replace
  <2>1. Loaded(file)' = mem
    <3>1. file' = State(mem)
      BY <1>2 DEF Replace, SaveInv
    <3>2. \A a \in Accounts : mem[a] # Bad
      BY BoundsAssumption DEF TypeOK, Results, None, Bad
    <3> QED BY <3>1, <3>2 DEF Loaded, State, TypeOK
  <2>2. PICK a \in Accounts, r \in Results : mem = [Loaded(file) EXCEPT ![a] = r]
    BY <1>2 DEF Replace, SaveInv
  <2>3. Running /\ Running'
    BY <1>2 DEF Replace
  <2>4. Store!Put(a, r)
    BY <2>1, <2>2, <2>3 DEF Store!Put
  <2> QED BY <2>4
<1>3. CASE Damage
  <2>0. ~Running /\ ~Running'
    BY <1>3 DEF Damage
  <2>1. CASE file' \in {Garbled, Alien}
    <3>1. Loaded(file)' = [a \in Accounts |-> None]
      BY <2>1 DEF Loaded, Garbled, Alien, Empty
    <3>2. Store!Lose(Accounts)
      BY <2>0, <3>1 DEF Store!Lose
    <3> QED BY <3>2
  <2>2. ASSUME NEW b \in Accounts,
               file' = State([file.results EXCEPT ![b] = IF @ = None THEN None ELSE Bad])
        PROVE  Store!Next
    <3>1. PICK m \in [Accounts -> Results \union {None, Bad}] : file = State(m)
      BY <1>3 DEF Damage, TypeOK, Files, NoFile, Garbled, Alien
    <3>2. file.results = m /\ file.kind = "state"
      BY <3>1 DEF State
    <3> DEFINE n == [m EXCEPT ![b] = IF m[b] = None THEN None ELSE Bad]
    <3>3. file'.results = n /\ file'.kind = "state"
      BY <2>2, <3>2 DEF State
    <3>4. Loaded(file)' = [a \in Accounts |-> IF n[a] = Bad THEN None ELSE n[a]]
      BY <3>3 DEF Loaded
    <3>5. \A a \in Accounts : n[a] = IF a = b THEN (IF m[b] = None THEN None ELSE Bad) ELSE m[a]
      OBVIOUS
    <3>6. Loaded(file) = [a \in Accounts |-> IF m[a] = Bad THEN None ELSE m[a]]
      BY <3>2 DEF Loaded
    <3> HIDE DEF n
    <3>7. Store!Lose({b})
      BY <2>0, <3>4, <3>5, <3>6 DEF Store!Lose
    <3> QED BY <3>7
  <2> QED BY <1>3, <2>1, <2>2 DEF Damage
<1> QED BY <1>1, <1>2, <1>3
        DEF Next, Start, StartFails, Update, OpenTmp, WriteTmp, SaveRaises, Crash

\* state.json implements the atomic map, whatever a crash interrupts.
THEOREM StoreIsAtomic == Spec => Store!Spec
<1>1. Init => TypeOK /\ SaveInv /\ Store!Init
  BY BoundsAssumption
     DEF Init, TypeOK, SaveInv, Store!Init, Running, Loaded, NoFile, Files, Empty
<1> QED BY <1>1, SaveInvStep, StoreStepRefines, PTL DEF Spec, Store!Spec

\* The types, and the invariant behind it, hold in every reachable state.
LEMMA StoreInv == Spec => [](TypeOK /\ SaveInv)
<1>1. Init => TypeOK /\ SaveInv
  BY BoundsAssumption
     DEF Init, TypeOK, SaveInv, Loaded, NoFile, Files, Empty
<1> QED BY <1>1, SaveInvStep, PTL DEF Spec

\* The files only ever hold what load and save put there, or what damage makes
\* of it.
THEOREM StoreTyped == Spec => []TypeOK
  BY StoreInv, PTL

\* Between load and replace the State in memory is the file but for one account,
\* and the temporary file is whole before it replaces (state_store.py:57-66).
THEOREM SaveInvCorrect == Spec => []SaveInv
  BY StoreInv, PTL
=============================================================================
