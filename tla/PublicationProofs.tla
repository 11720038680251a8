--------------------------- MODULE PublicationProofs ---------------------------
(***************************************************************************)
(* Proofs about Publication for any number of accounts, any choice of      *)
(* faults and any number of fetches: state.json holds the newest           *)
(* successful fetch of every account that is at rest; saves and metrics do *)
(* not go back; the topics of an account at rest agree with state.json;    *)
(* errors are not covered; and a startup shows again what is persisted.    *)
(***************************************************************************)
EXTENDS Publication, InductionFacts

\* Task t has a result of account a that it has not saved yet.
Holds(t, a) == job[t].acct = a /\ job[t].res # NoResult

\* The shape of a task: a refresh task is at its own account, and a task has a
\* result only while it publishes.
IsJob(j) == \E s, a, r, m : j = [stage |-> s, acct |-> a, res |-> r, msgs |-> m]

JobOK(t, j) ==
  /\ IsJob(j)
  /\ j.stage \in {"idle", "startup", "fetch", "publish"}
  /\ j.stage \in {"fetch", "publish"} => j.acct \in Accounts
  /\ j.res # NoResult => j.stage = "publish"
  /\ t # Main => j = Idle \/ j.acct = t

Shape ==
  /\ fetched \in Nat /\ wire \in Seq(Tasks)
  /\ DOMAIN job = Tasks /\ \A t \in Tasks : JobOK(t, job[t])
  /\ store \in [Accounts -> {store[a] : a \in Accounts}]
  /\ lastOk \in [Accounts -> {lastOk[a] : a \in Accounts}]
  /\ Overlap \subseteq overlapped

\* Unless the tasks met at an account or its publication was cut short: what a
\* task holds of it is the newest, and if none holds anything it is saved.
Saved ==
  \A a \in Accounts \ overlapped :
    /\ \A t \in Tasks : Holds(t, a) => job[t].res.at = lastOk[a]
    /\ \/ a \in cut
       \/ store[a].at = lastOk[a]
       \/ \E t \in Tasks : Holds(t, a)

PublicationInv == Shape /\ Saved

LEMMA TaskFacts == /\ Main \in Tasks /\ Main \notin Accounts /\ 0 \notin Accounts
                   /\ Accounts \subseteq Tasks
  BY NumAccountsAssumption DEF Main, Tasks, Accounts

LEMMA IdleFacts == /\ Idle = [stage |-> "idle", acct |-> 0, res |-> NoResult, msgs |-> <<>>]
                   /\ \A t : JobOK(t, Idle)
  BY DEF Idle, JobOK, IsJob

LEMMA FetchingFacts ==
  ASSUME NEW a \in Accounts
  PROVE  /\ JobOK(Main, Fetching(a)) /\ JobOK(a, Fetching(a)) /\ Fetching(a) # Idle
         /\ Fetching(a).acct = a /\ Fetching(a).res = NoResult
  BY DEF JobOK, IsJob, Fetching, Idle

\* Two tasks at one account are the cycle and its refresh, and they overlap.
LEMMA TwoTasks ==
  ASSUME Shape, NEW a \in Accounts, NEW t \in Tasks, NEW u \in Tasks,
         job[t].acct = a, job[u].acct = a, t # u
  PROVE  a \in overlapped
<1>1. \A v \in Tasks : v # Main /\ job[v].acct = a => v = a /\ job[v] # Idle
  BY TaskFacts, IdleFacts DEF Shape, JobOK
<1> QED BY <1>1, TaskFacts DEF Shape, Overlap, Tasks

\* Going on with j makes t a task like j, but for the messages.
LEMMA GoOnJob ==
  ASSUME DOMAIN job = Tasks, NEW t \in Tasks, NEW j, NEW rest \in Seq(Tasks),
         IsJob(j), GoOn(t, j, rest)
  PROVE  /\ DOMAIN job' = Tasks
         /\ \A u \in Tasks \ {t} : job'[u] = job[u]
         /\ IsJob(job'[t])
         /\ job'[t].stage = j.stage /\ job'[t].acct = j.acct /\ job'[t].res = j.res
         /\ j = Idle => job'[t] = Idle
         /\ wire' \in Seq(Tasks)
<1>1. PICK s, a, r, m : j = [stage |-> s, acct |-> a, res |-> r, msgs |-> m]
  BY DEF IsJob
<1>2. PICK n : job' = [job EXCEPT ![t] = [stage |-> s, acct |-> a, res |-> r, msgs |-> n]]
  BY <1>1 DEF GoOn
<1>3. wire' \in Seq(Tasks)
  BY DEF GoOn
<1> QED BY <1>1, <1>2, <1>3 DEF IsJob, GoOn, Idle

\* The invariant after a step in which one task goes on.
LEMMA OneTask ==
  ASSUME PublicationInv, NEW t \in Tasks, JobOK(t, job'[t]),
         DOMAIN job' = Tasks, \A u \in Tasks \ {t} : job'[u] = job[u],
         overlapped' = overlapped \union Overlap',
         fetched' \in Nat, wire' \in Seq(Tasks),
         store' \in [Accounts -> {store'[a] : a \in Accounts}],
         lastOk' \in [Accounts -> {lastOk'[a] : a \in Accounts}],
         \A a \in Accounts \ overlapped' : a # job[t].acct =>
           /\ store'[a] = store[a] /\ lastOk'[a] = lastOk[a]
           /\ a \in cut => a \in cut'
           /\ ~Holds(t, a)',
         \A a \in Accounts \ overlapped' : a = job[t].acct =>
           /\ Holds(t, a)' => job'[t].res.at = lastOk'[a]
           /\ \/ Holds(t, a)' \/ a \in cut' \/ store'[a].at = lastOk'[a]
              \/ /\ ~Holds(t, a) /\ store'[a] = store[a] /\ lastOk'[a] = lastOk[a]
                 /\ a \in cut => a \in cut'
           /\ \A u \in Tasks \ {t} : ~Holds(u, a)
  PROVE  PublicationInv'
<1>1. Shape'
  BY DEF PublicationInv, Shape
<1>2. Saved'
  <2> SUFFICES ASSUME NEW a \in Accounts, a \notin overlapped'
               PROVE  /\ \A u \in Tasks : Holds(u, a)' => job'[u].res.at = lastOk'[a]
                      /\ \/ a \in cut'
                         \/ store'[a].at = lastOk'[a]
                         \/ \E u \in Tasks : Holds(u, a)'
    BY DEF Saved
  <2>1. \A u \in Tasks \ {t} : Holds(u, a)' <=> Holds(u, a)
    BY DEF Holds
  <2>2. /\ \A u \in Tasks : Holds(u, a) => job[u].res.at = lastOk[a]
        /\ \/ a \in cut
           \/ store[a].at = lastOk[a]
           \/ \E u \in Tasks : Holds(u, a)
    BY DEF PublicationInv, Saved
  <2>3. CASE a # job[t].acct
    <3>1. ~Holds(t, a)
      BY <2>3 DEF Holds
    <3>2. /\ store'[a] = store[a] /\ lastOk'[a] = lastOk[a]
          /\ a \in cut => a \in cut'
          /\ ~Holds(t, a)'
      BY <2>3
    <3> QED BY <2>1, <2>2, <3>1, <3>2
  <2>4. CASE a = job[t].acct
    <3>1. /\ Holds(t, a)' => job'[t].res.at = lastOk'[a]
          /\ \/ Holds(t, a)' \/ a \in cut' \/ store'[a].at = lastOk'[a]
             \/ /\ ~Holds(t, a) /\ store'[a] = store[a] /\ lastOk'[a] = lastOk[a]
                /\ a \in cut => a \in cut'
          /\ \A u \in Tasks \ {t} : ~Holds(u, a)
      BY <2>4
    <3>2. \A u \in Tasks : Holds(u, a)' => u = t
      BY <2>1, <3>1
    <3> QED BY <2>2, <3>1, <3>2
  <2> QED BY <2>3, <2>4
<1> QED BY <1>1, <1>2 DEF PublicationInv

LEMMA InitPublication == Init => PublicationInv
<1> SUFFICES ASSUME Init PROVE PublicationInv
  OBVIOUS
<1>1. \A t \in Tasks : job[t] = Idle
  BY DEF Init
<1>2. Shape
  BY <1>1, IdleFacts, TaskFacts DEF Init, Shape, Overlap
<1>3. Saved
  <2>1. \A a \in Accounts : store[a].at = 0 /\ lastOk[a] = 0
    BY DEF Init, NoResult
  <2>2. \A t \in Tasks, a \in Accounts : ~Holds(t, a)
    BY <1>1, IdleFacts DEF Holds
  <2> QED BY <2>1, <2>2 DEF Saved
<1> QED BY <1>2, <1>3 DEF PublicationInv

\* A fetch ends: its task publishes the newest result of the account, or none.
LEMMA FetchStep ==
  ASSUME PublicationInv, NEW t \in Tasks, job[t].stage = "fetch",
         NEW r, NEW m, r = NoResult \/ r.at = lastOk'[job[t].acct],
         GoOn(t, [stage |-> "publish", acct |-> job[t].acct, res |-> r, msgs |-> m], wire),
         overlapped' = overlapped \union Overlap', fetched' \in Nat,
         UNCHANGED <<store, cut>>,
         r = NoResult => lastOk' = lastOk,
         \E n : lastOk' = [lastOk EXCEPT ![job[t].acct] = n]
  PROVE  PublicationInv'
<1> DEFINE a == job[t].acct
           j == [stage |-> "publish", acct |-> a, res |-> r, msgs |-> m]
<1>0. a \in Accounts /\ job[t].res = NoResult /\ a # 0
  BY TaskFacts DEF PublicationInv, Shape, JobOK
<1>1. /\ IsJob(j) /\ j.stage = "publish" /\ j.acct = a /\ j.res = r
  BY DEF IsJob
<1>2. DOMAIN job = Tasks
  BY DEF PublicationInv, Shape
<1> HIDE DEF j
<1>3. /\ DOMAIN job' = Tasks /\ \A u \in Tasks \ {t} : job'[u] = job[u]
      /\ IsJob(job'[t])
      /\ job'[t].stage = "publish" /\ job'[t].acct = a /\ job'[t].res = r
      /\ wire' \in Seq(Tasks)
  <2>1. GoOn(t, j, wire) /\ wire \in Seq(Tasks)
    BY DEF j, PublicationInv, Shape
  <2> QED BY <1>1, <1>2, <2>1, GoOnJob
<1>4. JobOK(t, job'[t])
  <2>1. t # Main => a = t
    BY <1>0, IdleFacts DEF PublicationInv, Shape, JobOK
  <2> QED BY <1>0, <1>3, <2>1 DEF JobOK
<1>6. \A u \in Tasks \ {t} : Holds(u, a) => a \in overlapped
  BY <1>0, TwoTasks DEF Holds, PublicationInv
<1>7. /\ \A b \in Accounts : b # a => lastOk'[b] = lastOk[b]
      /\ lastOk' \in [Accounts -> {lastOk'[b] : b \in Accounts}]
      /\ store' \in [Accounts -> {store'[b] : b \in Accounts}]
  BY <1>0 DEF PublicationInv, Shape
<1>8. ~Holds(t, a) /\ (Holds(t, a)' <=> r # NoResult)
  BY <1>0, <1>3 DEF Holds
<1>9. \A b \in Accounts : b # a => ~Holds(t, b)'
  BY <1>3 DEF Holds
<1> QED BY <1>3, <1>4, <1>6, <1>7, <1>8, <1>9, OneTask

\* An ack that lets its task send the next message changes nothing else.
LEMMA AckMore ==
  ASSUME PublicationInv, NEW t \in Tasks, NEW rest \in Seq(Tasks), GoOn(t, job[t], rest),
         overlapped' = overlapped \union Overlap',
         UNCHANGED <<fetched, store, lastOk, cut>>
  PROVE  PublicationInv'
<1>1. JobOK(t, job[t]) /\ DOMAIN job = Tasks
  BY DEF PublicationInv, Shape
<1>2. /\ DOMAIN job' = Tasks /\ \A u \in Tasks \ {t} : job'[u] = job[u]
      /\ IsJob(job'[t])
      /\ job'[t].stage = job[t].stage /\ job'[t].acct = job[t].acct /\ job'[t].res = job[t].res
      /\ job[t] = Idle => job'[t] = Idle
      /\ wire' \in Seq(Tasks)
  BY <1>1, GoOnJob DEF JobOK
<1>3. JobOK(t, job'[t])
  BY <1>1, <1>2 DEF JobOK
<1>4. Shape'
  BY <1>2, <1>3 DEF PublicationInv, Shape
<1>5. \A u \in Tasks, a \in Accounts :
        (Holds(u, a)' <=> Holds(u, a)) /\ (Holds(u, a) => job'[u].res.at = job[u].res.at)
  BY <1>2 DEF Holds
<1>6. Saved'
  BY <1>5 DEF PublicationInv, Saved
<1> QED BY <1>4, <1>6 DEF PublicationInv

\* What the task does after its last message.
LEMMA NextJobFacts ==
  ASSUME PublicationInv, NEW t \in Tasks
  PROVE  JobOK(t, NextJob(t)) /\ NextJob(t).res = NoResult
<1>1. CASE t = Main /\ job[t].stage = "publish" /\ job[t].acct < NumAccounts
  <2>1. job[t].acct + 1 \in Accounts
    <3>1. job[t].acct \in Accounts
      BY <1>1 DEF PublicationInv, Shape, JobOK
    <3> QED BY <1>1, <3>1, NumAccountsAssumption DEF Accounts
  <2> QED BY <1>1, <2>1, FetchingFacts DEF NextJob
<1>2. CASE ~(t = Main /\ job[t].stage = "publish" /\ job[t].acct < NumAccounts)
  BY <1>2, IdleFacts DEF NextJob
<1> QED BY <1>1, <1>2

\* The ack of a task's last message: its result is saved.
LEMMA AckLast ==
  ASSUME PublicationInv, NEW t \in Tasks, NEW rest \in Seq(Tasks), GoOn(t, NextJob(t), rest),
         overlapped' = overlapped \union Overlap',
         UNCHANGED <<fetched, lastOk>>,
         cut' = IF job[t].res = NoResult THEN cut ELSE cut \ {job[t].acct},
         store' = IF job[t].res = NoResult THEN store
                  ELSE [store EXCEPT ![job[t].acct] = job[t].res]
  PROVE  PublicationInv'
<1> DEFINE a == job[t].acct
<1>0. JobOK(t, job[t]) /\ DOMAIN job = Tasks
  BY DEF PublicationInv, Shape
<1>1. /\ DOMAIN job' = Tasks /\ \A u \in Tasks \ {t} : job'[u] = job[u]
      /\ IsJob(job'[t]) /\ wire' \in Seq(Tasks)
      /\ job'[t].stage = NextJob(t).stage /\ job'[t].acct = NextJob(t).acct
      /\ job'[t].res = NoResult
      /\ NextJob(t) = Idle => job'[t] = Idle
  BY <1>0, NextJobFacts, GoOnJob DEF JobOK
<1>2. JobOK(t, job'[t])
  BY <1>1, NextJobFacts DEF JobOK
<1>3. \A b \in Accounts : ~Holds(t, b)'
  BY <1>1 DEF Holds
<1>4. /\ store' \in [Accounts -> {store'[b] : b \in Accounts}]
      /\ lastOk' \in [Accounts -> {lastOk'[b] : b \in Accounts}]
      /\ \A b \in Accounts : b # a => store'[b] = store[b]
      /\ \A b : b # a /\ b \in cut => b \in cut'
  BY DEF PublicationInv, Shape
<1>5. ASSUME NEW b \in Accounts \ overlapped', b = a
      PROVE  /\ \/ store'[b].at = lastOk'[b]
                \/ ~Holds(t, b) /\ store'[b] = store[b] /\ (b \in cut => b \in cut')
             /\ \A u \in Tasks \ {t} : ~Holds(u, b)
  <2>1. \A u \in Tasks \ {t} : ~Holds(u, b)
    BY <1>5, TwoTasks DEF Holds, PublicationInv
  <2>2. CASE job[t].res = NoResult
    BY <2>1, <2>2 DEF Holds
  <2>3. CASE job[t].res # NoResult
    <3>1. job[t].res.at = lastOk[b]
      BY <1>5, <2>3 DEF Holds, PublicationInv, Saved
    <3>2. store'[b] = job[t].res
      BY <1>5, <2>3 DEF PublicationInv, Shape
    <3> QED BY <2>1, <3>1, <3>2
  <2> QED BY <2>2, <2>3
<1>6. fetched' \in Nat
  BY DEF PublicationInv, Shape
<1> QED BY <1>1, <1>2, <1>3, <1>4, <1>5, <1>6, OneTask

\* The wire without task t.
LEMMA RemoveAtType ==
  ASSUME NEW s \in Seq(Tasks), NEW k \in 1 .. Len(s)
  PROVE  RemoveAt(s, k) \in Seq(Tasks)
<1>1. \A n \in 1 .. Len(s) : s[n] \in Tasks
  OBVIOUS
<1>2. SubSeq(s, 1, k - 1) \in Seq(Tasks)
  BY <1>1, SubSeqProperties
<1>3. SubSeq(s, k + 1, Len(s)) \in Seq(Tasks)
  BY <1>1, SubSeqProperties
<1> QED BY <1>2, <1>3, ConcatProperties DEF RemoveAt

LEMMA RaiseStep ==
  ASSUME PublicationInv, NEW t \in Tasks, Raise(t), overlapped' = overlapped \union Overlap'
  PROVE  PublicationInv'
<1> DEFINE a == job[t].acct
<1>1. /\ DOMAIN job = Tasks /\ JobOK(t, job[t]) /\ wire \in Seq(Tasks)
  BY DEF PublicationInv, Shape
<1>2. /\ DOMAIN job' = Tasks /\ \A u \in Tasks \ {t} : job'[u] = job[u]
      /\ job'[t] = Idle /\ JobOK(t, job'[t])
  BY <1>1, IdleFacts DEF Raise
<1>3. wire' \in Seq(Tasks)
  BY <1>1, RemoveAtType DEF Raise
<1>4. \A b \in Accounts : ~Holds(t, b)'
  BY <1>2, IdleFacts DEF Holds
<1>5. cut \subseteq cut' /\ (Holds(t, a) => a \in cut')
  BY DEF Raise, Unsaved, Holds
<1>6. \A b \in Accounts \ overlapped', u \in Tasks \ {t} : b = a => ~Holds(u, b)
  BY TwoTasks DEF Holds, PublicationInv
<1>7. /\ fetched' \in Nat /\ UNCHANGED <<store, lastOk>>
      /\ store' \in [Accounts -> {store'[b] : b \in Accounts}]
      /\ lastOk' \in [Accounts -> {lastOk'[b] : b \in Accounts}]
  BY DEF Raise, PublicationInv, Shape
<1> QED BY <1>2, <1>3, <1>4, <1>5, <1>6, <1>7, OneTask

\* A task that begins to fetch.
LEMMA StartStep ==
  ASSUME PublicationInv, NEW t \in Tasks, NEW a \in Accounts, t \in {Main, a}, job[t] = Idle,
         job' = [job EXCEPT ![t] = Fetching(a)], overlapped' = overlapped \union Overlap',
         UNCHANGED <<fetched, wire, store, lastOk, cut>>
  PROVE  PublicationInv'
<1>1. /\ DOMAIN job' = Tasks /\ \A u \in Tasks \ {t} : job'[u] = job[u]
      /\ job'[t] = Fetching(a) /\ JobOK(t, job'[t])
  BY FetchingFacts DEF PublicationInv, Shape
<1>2. Shape'
  BY <1>1 DEF PublicationInv, Shape
<1>3. \A u \in Tasks, b \in Accounts :
        (Holds(u, b)' <=> Holds(u, b)) /\ (Holds(u, b) => job'[u].res.at = job[u].res.at)
  BY <1>1, FetchingFacts, IdleFacts DEF Holds
<1>4. Saved'
  BY <1>3 DEF PublicationInv, Saved
<1> QED BY <1>2, <1>4 DEF PublicationInv

\* A fetch of which nothing goes out: it failed, or its account is in cut.
LEMMA LoseStep ==
  ASSUME PublicationInv, NEW t \in Tasks, job[t].stage = "fetch",
         job' = [job EXCEPT ![t] = Idle], overlapped' = overlapped \union Overlap',
         fetched' \in Nat, UNCHANGED <<wire, store>>,
         \/ lastOk' = lastOk /\ cut' = cut
         \/ /\ \E n : lastOk' = [lastOk EXCEPT ![job[t].acct] = n]
            /\ cut' = cut \union {job[t].acct}
  PROVE  PublicationInv'
<1> DEFINE a == job[t].acct
<1>1. a \in Accounts /\ job[t].res = NoResult /\ DOMAIN job = Tasks
  BY DEF PublicationInv, Shape, JobOK
<1>2. /\ DOMAIN job' = Tasks /\ \A u \in Tasks \ {t} : job'[u] = job[u]
      /\ job'[t] = Idle /\ JobOK(t, job'[t])
  BY <1>1, IdleFacts
<1>3. \A b \in Accounts : ~Holds(t, b)' /\ ~Holds(t, b)
  BY <1>1, <1>2, IdleFacts DEF Holds
<1>4. \A b \in Accounts \ overlapped', u \in Tasks \ {t} : b = a => ~Holds(u, b)
  BY TwoTasks DEF Holds, PublicationInv
<1>5. /\ wire' \in Seq(Tasks)
      /\ store' \in [Accounts -> {store'[b] : b \in Accounts}]
      /\ lastOk' \in [Accounts -> {lastOk'[b] : b \in Accounts}]
      /\ \A b \in Accounts : b # a => lastOk'[b] = lastOk[b]
      /\ cut \subseteq cut' /\ (a \in cut' \/ lastOk'[a] = lastOk[a])
  BY <1>1 DEF PublicationInv, Shape
<1> QED BY <1>2, <1>3, <1>4, <1>5, OneTask

LEMMA RestartStep ==
  ASSUME PublicationInv, Restart, overlapped' = overlapped \union Overlap'
  PROVE  PublicationInv'
<1>1. PICK m : job' = [t \in Tasks |-> IF t = Main THEN Starting(m) ELSE Idle]
               \/ job' = [t \in Tasks |-> Idle]
  BY DEF Restart
<1>2. DOMAIN job' = Tasks /\ \A t \in Tasks : JobOK(t, job'[t]) /\ job'[t].res = NoResult
  <2>1. JobOK(Main, Starting(m)) /\ Starting(m).res = NoResult
    BY DEF JobOK, IsJob, Starting
  <2> QED BY <1>1, <2>1, IdleFacts
<1>3. wire' \in Seq(Tasks)
  <2>1. <<Main>> \in Seq(Tasks) /\ <<>> \in Seq(Tasks)
    BY TaskFacts
  <2>2. wire' = <<>> \/ wire' = <<Main>>
    BY DEF Restart
  <2> QED BY <2>1, <2>2
<1>4. Shape'
  BY <1>2, <1>3 DEF Restart, PublicationInv, Shape
<1>5. \A t \in Tasks, a \in Accounts : ~Holds(t, a)' /\ (Holds(t, a) => a \in cut')
  BY <1>2 DEF Holds, Restart, Unsaved
<1>6. cut \subseteq cut' /\ UNCHANGED <<store, lastOk>>
  BY DEF Restart
<1>7. Saved'
  BY <1>5, <1>6 DEF PublicationInv, Saved
<1> QED BY <1>4, <1>7 DEF PublicationInv

LEMMA NextPublication == PublicationInv /\ [Next]_vars => PublicationInv'
<1> SUFFICES ASSUME PublicationInv, [Next]_vars PROVE PublicationInv'
  OBVIOUS
<1>0. CASE UNCHANGED vars
  <2>1. UNCHANGED <<fetched, job, wire, store, lastOk, cut, overlapped>>
    BY <1>0 DEF vars
  <2>2. Overlap' = Overlap
    BY <2>1 DEF Overlap
  <2>3. Shape'
    BY <2>1, <2>2 DEF PublicationInv, Shape
  <2>4. Saved'
    BY <2>1 DEF PublicationInv, Saved, Holds
  <2> QED BY <2>3, <2>4 DEF PublicationInv
<1> SUFFICES ASSUME Step, overlapped' = overlapped \union Overlap' PROVE PublicationInv'
  BY <1>0 DEF Next
<1>1. CASE StartCycle
  <2>1. 1 \in Accounts
    BY NumAccountsAssumption DEF Accounts
  <2> QED BY <1>1, <2>1, TaskFacts, StartStep DEF StartCycle
<1>2. ASSUME NEW a \in Accounts, StartRefresh(a) PROVE PublicationInv'
  BY <1>2, TaskFacts, StartStep DEF StartRefresh
<1>3. ASSUME NEW t \in Tasks, NEW twin \in Shapes, FetchOk(t, twin) PROVE PublicationInv'
  <2> DEFINE a == job[t].acct
             r == [at |-> fetched + 1, twin |-> twin]
  <2>1. a \in Accounts
    BY <1>3 DEF FetchOk, PublicationInv, Shape, JobOK
  <2>2. fetched' \in Nat /\ r # NoResult
    BY <1>3 DEF FetchOk, PublicationInv, Shape, NoResult
  <2>3. r.at = lastOk'[a]
    BY <1>3, <2>1 DEF FetchOk, PublicationInv, Shape
  <2> QED BY <1>3, <2>2, <2>3, FetchStep DEF FetchOk
<1>4. ASSUME NEW t \in Tasks, FetchFail(t) PROVE PublicationInv'
  <2>1. fetched' \in Nat
    BY <1>4 DEF FetchFail, PublicationInv, Shape
  <2>2. lastOk' = [lastOk EXCEPT ![job[t].acct] = lastOk[job[t].acct]]
    BY <1>4 DEF FetchFail, PublicationInv, Shape
  <2> QED BY <1>4, <2>1, <2>2, FetchStep DEF FetchFail
<1>5. ASSUME NEW t \in Tasks, Raise(t) PROVE PublicationInv'
  BY <1>5, RaiseStep
<1>6. CASE Ack
  <2> DEFINE t == Head(wire)
  <2>1. t \in Tasks /\ Tail(wire) \in Seq(Tasks)
    BY <1>6 DEF Ack, PublicationInv, Shape
  <2>2. CASE job[t].msgs # <<>>
    BY <1>6, <2>1, <2>2, AckMore DEF Ack
  <2>3. CASE job[t].msgs = <<>>
    BY <1>6, <2>1, <2>3, AckLast DEF Ack
  <2> QED BY <2>2, <2>3
<1>7. CASE Restart
  BY <1>7, RestartStep
<1>8. ASSUME NEW t \in Tasks, LostError(t) \/ LostResult(t) PROVE PublicationInv'
  <2>1. fetched' \in Nat
    BY <1>8 DEF LostError, LostResult, PublicationInv, Shape
  <2> QED BY <1>8, <2>1, LoseStep DEF LostError, LostResult
<1> QED BY <1>1, <1>2, <1>3, <1>4, <1>5, <1>6, <1>7, <1>8 DEF Step

\* Between its fetches, state.json holds the newest successful one of an account
\* (scheduler.py:195-199, state_store.py:57-66), whatever the other accounts'
\* tasks interleave with its save and whatever fails or crashes.
THEOREM StoreCorrect == Spec => []StoreIsLastSuccess
<1>1. PublicationInv => StoreIsLastSuccess
  <2> SUFFICES ASSUME PublicationInv, NEW a \in Accounts, Settled(a)
               PROVE  store[a].at = lastOk[a]
    BY DEF StoreIsLastSuccess
  <2>1. \A t \in Tasks : ~Holds(t, a)
    BY DEF Settled, Busy, Holds, PublicationInv, Shape, JobOK
  <2> QED BY <2>1 DEF PublicationInv, Saved, Settled
<1> QED BY <1>1, InitPublication, NextPublication, PTL DEF Spec

-----------------------------------------------------------------------------
(* The messages of a result, and those of a start. *)

Message == [topic : Topics, payload : Payload]

LEMMA TopicFacts ==
  ASSUME NEW a \in Accounts
  PROVE  /\ \A k \in {"config", "state", "twinConfig", "twinState", "userState"} :
              <<k, a>> \in Topics
         /\ ErrorTopic(a) \in Topics
         /\ ErrorTopic(a) \in {<<"state", a>>, <<"userState", a>>}
         /\ a \notin Slugged => ErrorTopic(a) = <<"state", a>>
  BY DEF Topics, ErrorTopic

LEMMA PayloadFacts ==
  /\ Config \in Payload
  /\ \A r \in Result : Success(r) \in Payload /\ Success(r).synced = r.at /\ Success(r).ok
  BY MaxFetchesAssumption DEF Config, Success, Payload, Result

\* Discovery before state, the account before its secondary line.
LEMMA MessagesFacts ==
  ASSUME NEW a \in Accounts, NEW r \in Result
  PROVE  /\ Messages(a, r) \in Seq(Message)
         /\ Len(Messages(a, r)) = IF r.twin THEN 4 ELSE 2
         /\ Messages(a, r)[1] = [topic |-> <<"config", a>>, payload |-> Config]
         /\ Messages(a, r)[2] = [topic |-> <<"state", a>>, payload |-> Success(r)]
         /\ r.twin =>
              /\ Messages(a, r)[3] = [topic |-> <<"twinConfig", a>>, payload |-> Config]
              /\ Messages(a, r)[4] = [topic |-> <<"twinState", a>>, payload |-> Success(r)]
<1> DEFINE Msg(k, p) == [topic |-> <<k, a>>, payload |-> p]
<1>1. /\ Msg("config", Config) \in Message /\ Msg("state", Success(r)) \in Message
      /\ Msg("twinConfig", Config) \in Message /\ Msg("twinState", Success(r)) \in Message
  BY TopicFacts, PayloadFacts DEF Message
<1>2. MainMessages(a, r) = <<Msg("config", Config), Msg("state", Success(r))>>
  BY DEF MainMessages
<1>3. TwinMessages(a, r) =
        IF r.twin THEN <<Msg("twinConfig", Config), Msg("twinState", Success(r))>> ELSE <<>>
  BY DEF TwinMessages
<1> HIDE DEF Msg
<1>4. /\ MainMessages(a, r) \in Seq(Message) /\ Len(MainMessages(a, r)) = 2
      /\ MainMessages(a, r)[1] = Msg("config", Config)
      /\ MainMessages(a, r)[2] = Msg("state", Success(r))
  BY <1>1, <1>2
<1>5. /\ TwinMessages(a, r) \in Seq(Message)
      /\ Len(TwinMessages(a, r)) = IF r.twin THEN 2 ELSE 0
      /\ r.twin => /\ TwinMessages(a, r)[1] = Msg("twinConfig", Config)
                   /\ TwinMessages(a, r)[2] = Msg("twinState", Success(r))
  BY <1>1, <1>3
<1>6. /\ Messages(a, r) \in Seq(Message)
      /\ Len(Messages(a, r)) = IF r.twin THEN 4 ELSE 2
      /\ \A i \in 1 .. Len(Messages(a, r)) :
           Messages(a, r)[i] = IF i <= 2 THEN MainMessages(a, r)[i] ELSE TwinMessages(a, r)[i - 2]
  <2>1. PICK p \in Seq(Message), q \in Seq(Message) :
          p = MainMessages(a, r) /\ q = TwinMessages(a, r)
    BY <1>4, <1>5
  <2>2. /\ p \o q \in Seq(Message) /\ Len(p \o q) = Len(p) + Len(q)
        /\ \A i \in 1 .. Len(p) + Len(q) :
             (p \o q)[i] = IF i <= Len(p) THEN p[i] ELSE q[i - Len(p)]
    BY ConcatProperties
  <2>3. Len(p) = 2 /\ Len(q) = IF r.twin THEN 2 ELSE 0
    BY <1>4, <1>5, <2>1
  <2>4. Len(p) + Len(q) = IF r.twin THEN 4 ELSE 2
    BY <2>3
  <2>5. Messages(a, r) = p \o q
    BY <2>1 DEF Messages
  <2> QED BY <2>1, <2>2, <2>3, <2>4, <2>5
<1>7. Messages(a, r)[1] = MainMessages(a, r)[1] /\ Messages(a, r)[2] = MainMessages(a, r)[2]
  BY <1>6
<1>8. r.twin => /\ Messages(a, r)[3] = TwinMessages(a, r)[1]
                /\ Messages(a, r)[4] = TwinMessages(a, r)[2]
  BY <1>6
<1> QED BY <1>4, <1>5, <1>6, <1>7, <1>8 DEF Msg

\* A message's topic names its account, and no account has two messages to one
\* topic.
LEMMA TopicsDiffer ==
  ASSUME NEW a \in Accounts, NEW r \in Result, NEW m \in Range(Messages(a, r))
  PROVE  /\ m \in Message
         /\ m.topic[2] = a
         /\ m.topic[1] # "userState"
         /\ m.topic # <<"state", a>> \/ m.payload = Success(r)
         /\ \A n \in Range(Messages(a, r)) : n.topic = m.topic => n = m
<1> DEFINE M == Messages(a, r)
<1>1. M \in Seq(Message) /\ \A n \in Range(M) : \E i \in 1 .. Len(M) : n = M[i]
  <2>1. M \in Seq(Message)
    BY MessagesFacts
  <2> HIDE DEF M
  <2> QED BY <2>1 DEF Range
<1>2. \A i, j \in 1 .. Len(M) :
        /\ M[i].topic[2] = a /\ M[i].topic[1] # "userState"
        /\ M[i].topic # <<"state", a>> \/ M[i].payload = Success(r)
        /\ M[i].topic = M[j].topic => M[i] = M[j]
  <2>1. /\ Len(M) = IF r.twin THEN 4 ELSE 2
        /\ M[1] = [topic |-> <<"config", a>>, payload |-> Config]
        /\ M[2] = [topic |-> <<"state", a>>, payload |-> Success(r)]
        /\ r.twin =>
             /\ M[3] = [topic |-> <<"twinConfig", a>>, payload |-> Config]
             /\ M[4] = [topic |-> <<"twinState", a>>, payload |-> Success(r)]
    BY MessagesFacts
  <2> HIDE DEF M
  <2>2. /\ M[1].topic = <<"config", a>>
        /\ M[2].topic = <<"state", a>> /\ M[2].payload = Success(r)
        /\ r.twin => M[3].topic = <<"twinConfig", a>> /\ M[4].topic = <<"twinState", a>>
    BY <2>1
  <2>3. \A i \in 1 .. Len(M) : i \in {1, 2} \/ (r.twin /\ i \in {3, 4})
    BY <2>1
  <2> QED BY <2>2, <2>3
<1>3. \A i \in 1 .. Len(M) : M[i] \in Message
  BY <1>1
<1> HIDE DEF M
<1> QED BY <1>1, <1>2, <1>3 DEF M

\* What is sent when the process starts: the messages of the stored results, and
\* nothing else.
LEMMA StartupFacts ==
  ASSUME NEW s \in [Accounts -> Result \union {NoResult}]
  PROVE  /\ StartupMessages(s) \in Seq(Message)
         /\ \A m : m \in Range(StartupMessages(s))
                  <=> \E a \in Accounts : s[a] # NoResult /\ m \in Range(Messages(a, s[a]))
<1> DEFINE M(a) == IF s[a] = NoResult THEN <<>> ELSE Messages(a, s[a])
           parts == [a \in Accounts |-> M(a)]
           known == FlattenSeq(parts)
<1>1. NumAccounts \in Nat /\ Accounts = 1 .. NumAccounts
  BY NumAccountsAssumption DEF Accounts
<1>2. \A a \in Accounts : M(a) \in Seq(Message)
  <2> SUFFICES ASSUME NEW a \in Accounts, s[a] # NoResult
               PROVE  Messages(a, s[a]) \in Seq(Message)
    OBVIOUS
  <2>1. s[a] \in Result
    OBVIOUS
  <2> QED BY <2>1, MessagesFacts
<1>3. \A a \in Accounts : \A m : m \in Range(M(a))
                                 <=> s[a] # NoResult /\ m \in Range(Messages(a, s[a]))
  <2>1. Range(<<>>) = {}
    BY DEF Range
  <2> QED BY <2>1
<1> HIDE DEF M
<1>4. parts \in Seq(Seq(Message)) /\ Len(parts) = NumAccounts
  BY <1>1, <1>2
<1>5. \A a \in Accounts : parts[a] = M(a)
  OBVIOUS
<1> HIDE DEF parts
<1>6. /\ known \in Seq(Message)
      /\ \A m : m \in Range(known) <=> \E i \in 1 .. Len(parts) : m \in Range(parts[i])
  BY <1>4, Flattened
<1>7. \A m : m \in Range(known) <=> \E a \in Accounts : m \in Range(M(a))
  BY <1>1, <1>4, <1>5, <1>6
<1>8. StartupMessages(s) = known \o known
  BY DEF StartupMessages, parts, M
<1> HIDE DEF known
<1>9. /\ StartupMessages(s) \in Seq(Message)
      /\ Range(StartupMessages(s)) = Range(known)
  <2>1. known \o known \in Seq(Message)
    BY <1>6, ConcatProperties
  <2>2. Range(known \o known) = Range(known) \union Range(known)
    BY <1>6, RangeConcatenation
  <2> QED BY <1>8, <2>1, <2>2
<1> QED BY <1>3, <1>7, <1>9

-----------------------------------------------------------------------------
(* The types, and that no result is newer than the last fetch. *)

JobTyped(j) ==
  /\ j.stage \in {"idle", "startup", "fetch", "publish"}
  /\ j.acct \in Accounts \union {0}
  /\ j.res \in Result \union {NoResult}
  /\ j.msgs \in Seq(Message)

Dates == /\ \A t \in Tasks : job[t].res.at <= fetched
         /\ \A a \in Accounts : store[a].at <= fetched

Typed == TypeOK /\ Dates

LEMMA TypedJobs == TypeOK => \A t \in Tasks : JobTyped(job[t])
  BY DEF TypeOK, JobTyped, Message

LEMMA JobsTyped ==
  ASSUME TypeOK, NEW t \in Tasks, JobTyped(job'[t]), \A u \in Tasks \ {t} : job'[u] = job[u]
  PROVE  \A u \in Tasks : JobTyped(job'[u])
  BY TypedJobs

\* A task that goes on sends the first of its messages, or rests.
LEMMA GoOnSends ==
  ASSUME DOMAIN job = Tasks, NEW t \in Tasks, NEW j, IsJob(j), NEW rest,
         GoOn(t, j, rest), j.msgs # <<>>
  PROVE  /\ job' = [job EXCEPT ![t] = [stage |-> j.stage, acct |-> j.acct, res |-> j.res,
                                       msgs |-> Tail(j.msgs)]]
         /\ wire' = Append(rest, t)
         /\ retained' = [retained EXCEPT ![Head(j.msgs).topic] = Head(j.msgs).payload]
<1>1. [j EXCEPT !.msgs = Tail(j.msgs)]
        = [stage |-> j.stage, acct |-> j.acct, res |-> j.res, msgs |-> Tail(j.msgs)]
  <2>1. PICK s, a, r, m : j = [stage |-> s, acct |-> a, res |-> r, msgs |-> m]
    BY DEF IsJob
  <2>2. j.stage = s /\ j.acct = a /\ j.res = r
    BY <2>1
  <2>3. PICK tail : tail = Tail(j.msgs)
    OBVIOUS
  <2>4. [j EXCEPT !.msgs = tail] = [stage |-> s, acct |-> a, res |-> r, msgs |-> tail]
    BY <2>1
  <2> QED BY <2>2, <2>3, <2>4
<1> QED BY <1>1 DEF GoOn

LEMMA GoOnRests ==
  ASSUME NEW t, NEW j, NEW rest, GoOn(t, j, rest), j.msgs = <<>>
  PROVE  job' = [job EXCEPT ![t] = j] /\ wire' = rest /\ retained' = retained
  BY DEF GoOn

LEMMA GoOnTyped ==
  ASSUME TypeOK, DOMAIN job = Tasks, NEW t \in Tasks, NEW j, IsJob(j), JobTyped(j),
         NEW rest \in Seq(Tasks), GoOn(t, j, rest)
  PROVE  /\ \A u \in Tasks : JobTyped(job'[u])
         /\ wire' \in Seq(Tasks)
         /\ retained' \in [Topics -> Payload]
<1>1. retained \in [Topics -> Payload]
  BY DEF TypeOK
<1>2. CASE j.msgs = <<>>
  <2>1. job' = [job EXCEPT ![t] = j] /\ wire' = rest /\ retained' = retained
    BY <1>2, GoOnRests
  <2>2. job'[t] = j /\ \A u \in Tasks \ {t} : job'[u] = job[u]
    BY <2>1
  <2>3. \A u \in Tasks : JobTyped(job'[u])
    BY <2>2, JobsTyped
  <2> QED BY <1>1, <2>1, <2>3
<1>3. CASE j.msgs # <<>>
  <2> DEFINE k == [stage |-> j.stage, acct |-> j.acct, res |-> j.res, msgs |-> Tail(j.msgs)]
             m == Head(j.msgs)
  <2>1. /\ job' = [job EXCEPT ![t] = k] /\ wire' = Append(rest, t)
        /\ retained' = [retained EXCEPT ![m.topic] = m.payload]
    BY <1>3, GoOnSends
  <2>2. j.msgs \in Seq(Message)
    BY DEF JobTyped
  <2>3. m \in Message /\ Tail(j.msgs) \in Seq(Message)
    BY <1>3, <2>2, HeadTailProperties
  <2>4. JobTyped(k)
    BY <2>3 DEF JobTyped
  <2>5. retained' \in [Topics -> Payload]
    <3>1. m.topic \in Topics /\ m.payload \in Payload
      BY <2>3 DEF Message
    <3> HIDE DEF m
    <3> QED BY <1>1, <2>1, <3>1
  <2> HIDE DEF k, m
  <2>6. job'[t] = k /\ \A u \in Tasks \ {t} : job'[u] = job[u]
    BY <2>1
  <2>7. \A u \in Tasks : JobTyped(job'[u])
    BY <2>4, <2>6, JobsTyped
  <2> QED BY <2>1, <2>5, <2>7
<1> QED BY <1>2, <1>3

LEMMA NoResultFacts == NoResult.at = 0 /\ NoResult \notin Result
  BY DEF NoResult, Result

LEMMA IdleTyped == JobTyped(Idle) /\ \A a \in Accounts : JobTyped(Fetching(a))
  BY DEF JobTyped, Idle, Fetching

LEMMA NextJobTyped == ASSUME TypeOK, NEW t \in Tasks, JobTyped(job[t])
                      PROVE  IsJob(NextJob(t)) /\ JobTyped(NextJob(t)) /\ NextJob(t).msgs = <<>>
<1>1. CASE t = Main /\ job[t].stage = "publish" /\ job[t].acct < NumAccounts
  <2>1. job[t].acct + 1 \in Accounts
    BY <1>1, NumAccountsAssumption DEF JobTyped, Accounts
  <2> QED BY <1>1, <2>1, IdleTyped DEF NextJob, IsJob, Fetching
<1>2. CASE ~(t = Main /\ job[t].stage = "publish" /\ job[t].acct < NumAccounts)
  BY <1>2, IdleTyped DEF NextJob, IsJob, Idle
<1> QED BY <1>1, <1>2

\* The types after a step in which task t goes on with j.
LEMMA TypedStep ==
  ASSUME Typed, DOMAIN job = Tasks, NEW t \in Tasks, NEW j, IsJob(j), JobTyped(j),
         NEW rest \in Seq(Tasks), GoOn(t, j, rest),
         overlapped' = overlapped \union Overlap',
         fetched' \in 0 .. MaxFetches, fetched <= fetched', j.res.at <= fetched',
         store' \in [Accounts -> Result \union {NoResult}],
         \A a \in Accounts : store'[a].at <= fetched',
         lastOk' \in [Accounts -> 0 .. MaxFetches],
         failed' \in [Accounts -> 0 .. MaxFetches], said' \in [Accounts -> BOOLEAN],
         cut' \subseteq Accounts
  PROVE  Typed'
<1>1. /\ \A u \in Tasks : JobTyped(job'[u])
      /\ wire' \in Seq(Tasks) /\ retained' \in [Topics -> Payload]
  BY GoOnTyped DEF Typed
<1>2. overlapped' \subseteq Accounts
  BY DEF Typed, TypeOK, Overlap
<1>3. TypeOK'
  BY <1>1, <1>2 DEF TypeOK, JobTyped, Message
<1>4. \A u \in Tasks \ {t} : job'[u] = job[u]
  BY GoOnJob
<1>5. job'[t].res = j.res
  BY GoOnJob
<1>6. \A u \in Tasks : job[u].res.at \in Nat
  BY TypedJobs, NoResultFacts, MaxFetchesAssumption DEF Typed, JobTyped, Result
<1>7. \A u \in Tasks : job'[u].res.at <= fetched'
  <2> SUFFICES ASSUME NEW u \in Tasks PROVE job'[u].res.at <= fetched'
    OBVIOUS
  <2>1. CASE u = t
    BY <1>5, <2>1
  <2>2. CASE u # t
    BY <1>4, <1>6, <2>2, MaxFetchesAssumption DEF Typed, Dates, TypeOK
  <2> QED BY <2>1, <2>2
<1> QED BY <1>3, <1>7 DEF Typed, Dates

LEMMA InitTyped == Init => Typed
<1> SUFFICES ASSUME Init PROVE Typed
  OBVIOUS
<1>1. \A t \in Tasks : job[t] = Idle
  BY DEF Init
<1>2. \A t \in Tasks : JobTyped(job[t]) /\ job[t].res.at = 0
  BY <1>1, IdleTyped, IdleFacts, NoResultFacts
<1>3. Absent \in Payload
  BY MaxFetchesAssumption DEF Absent, Payload
<1>4. TypeOK
  <2>1. /\ fetched \in 0 .. MaxFetches
        /\ lastOk \in [Accounts -> 0 .. MaxFetches]
        /\ failed \in [Accounts -> 0 .. MaxFetches] /\ said \in [Accounts -> BOOLEAN]
        /\ overlapped \subseteq Accounts /\ cut \subseteq Accounts
    BY MaxFetchesAssumption DEF Init
  <2>2. wire \in Seq(Tasks)
    <3>1. <<>> \in Seq(Tasks)
      OBVIOUS
    <3> QED BY <3>1 DEF Init
  <2>3. retained \in [Topics -> Payload]
    BY <1>3 DEF Init
  <2>4. store \in [Accounts -> Result \union {NoResult}]
    BY DEF Init
  <2>5. \A t \in Tasks :
          /\ job[t].stage \in {"idle", "startup", "fetch", "publish"}
          /\ job[t].acct \in Accounts \union {0}
          /\ job[t].res \in Result \union {NoResult}
          /\ job[t].msgs \in Seq([topic : Topics, payload : Payload])
    BY <1>2 DEF JobTyped, Message
  <2> QED BY <2>1, <2>2, <2>3, <2>4, <2>5 DEF TypeOK
<1>5. Dates
  BY <1>2, NoResultFacts DEF Init, Dates
<1> QED BY <1>4, <1>5 DEF Typed

LEMMA RestartTyped ==
  ASSUME Typed, PublicationInv, Restart, overlapped' = overlapped \union Overlap'
  PROVE  Typed'
<1> DEFINE m == StartupMessages(store)
<1>1. store \in [Accounts -> Result \union {NoResult}] /\ retained \in [Topics -> Payload]
  BY DEF Typed, TypeOK
<1>2. m \in Seq(Message)
  BY <1>1, StartupFacts
<1>3. m # <<>> => Head(m) \in Message /\ Tail(m) \in Seq(Message)
  BY <1>2, HeadTailProperties
<1>4. \/ /\ m = <<>> /\ job' = [t \in Tasks |-> Idle] /\ wire' = <<>> /\ retained' = retained
      \/ /\ m # <<>>
         /\ job' = [t \in Tasks |-> IF t = Main THEN Starting(Tail(m)) ELSE Idle]
         /\ wire' = <<Main>>
         /\ retained' = [retained EXCEPT ![Head(m).topic] = Head(m).payload]
  BY DEF Restart
<1> HIDE DEF m
<1>5. m # <<>> => JobTyped(Starting(Tail(m))) /\ Starting(Tail(m)).res = NoResult
  BY <1>3 DEF JobTyped, Starting
<1>6. \A t \in Tasks : JobTyped(job'[t]) /\ job'[t].res.at = 0
  BY <1>4, <1>5, IdleTyped, IdleFacts, NoResultFacts
<1>7. wire' \in Seq(Tasks)
  <2>1. <<Main>> \in Seq(Tasks) /\ <<>> \in Seq(Tasks)
    BY TaskFacts
  <2> QED BY <1>4, <2>1
<1>8. retained' \in [Topics -> Payload]
  <2>1. m # <<>> => Head(m).topic \in Topics /\ Head(m).payload \in Payload
    BY <1>3 DEF Message
  <2> QED BY <1>1, <1>4, <2>1
<1>9. cut' \subseteq Accounts
  <2>1. \A t \in Tasks : job[t].res # NoResult => job[t].acct \in Accounts
    BY DEF PublicationInv, Shape, JobOK
  <2> QED BY <2>1 DEF Restart, Unsaved, Typed, TypeOK
<1>10. overlapped' \subseteq Accounts
  BY DEF Typed, TypeOK, Overlap
<1>11. TypeOK'
  BY <1>6, <1>7, <1>8, <1>9, <1>10 DEF Restart, Typed, TypeOK, JobTyped, Message
<1>12. Dates'
  BY <1>6 DEF Restart, Typed, TypeOK, Dates
<1> QED BY <1>11, <1>12 DEF Typed

\* A step of a task, seen as going on: to fetch, or to be idle.
LEMMA GoesToFetch ==
  ASSUME NEW t, NEW a, job' = [job EXCEPT ![t] = Fetching(a)], UNCHANGED <<wire, retained>>
  PROVE  GoOn(t, Fetching(a), wire) /\ IsJob(Fetching(a))
  BY DEF GoOn, Fetching, IsJob

LEMMA GoesIdle ==
  ASSUME NEW t, job' = [job EXCEPT ![t] = Idle], UNCHANGED retained
  PROVE  GoOn(t, Idle, wire') /\ IsJob(Idle)
  BY DEF GoOn, Idle, IsJob

\* A step that starts a fetch or gives a task up leaves the file alone.
LEMMA StartTyped ==
  ASSUME Typed, DOMAIN job = Tasks, NEW t \in Tasks, NEW a \in Accounts,
         job' = [job EXCEPT ![t] = Fetching(a)],
         UNCHANGED <<fetched, wire, retained, store, lastOk, failed, said, cut>>,
         overlapped' = overlapped \union Overlap'
  PROVE  Typed'
<1>1. GoOn(t, Fetching(a), wire) /\ IsJob(Fetching(a))
  BY GoesToFetch
<1>2. JobTyped(Fetching(a)) /\ Fetching(a).res.at = 0
  BY IdleTyped, FetchingFacts, NoResultFacts
<1>3. /\ wire \in Seq(Tasks) /\ fetched' \in 0 .. MaxFetches /\ fetched <= fetched' /\ 0 <= fetched'
      /\ store' \in [Accounts -> Result \union {NoResult}]
      /\ \A b \in Accounts : store'[b].at <= fetched'
      /\ lastOk' \in [Accounts -> 0 .. MaxFetches]
      /\ failed' \in [Accounts -> 0 .. MaxFetches] /\ said' \in [Accounts -> BOOLEAN]
      /\ cut' \subseteq Accounts
  BY MaxFetchesAssumption DEF Typed, TypeOK, Dates
<1> QED BY <1>1, <1>2, <1>3, TypedStep

LEMMA RaiseTyped ==
  ASSUME Typed, PublicationInv, NEW t \in Tasks, Raise(t),
         overlapped' = overlapped \union Overlap'
  PROVE  Typed'
<1>1. GoOn(t, Idle, wire') /\ IsJob(Idle) /\ JobTyped(Idle) /\ Idle.res.at = 0
  BY GoesIdle, IdleTyped, IdleFacts, NoResultFacts DEF Raise
<1>2. DOMAIN job = Tasks /\ wire' \in Seq(Tasks)
  <2>1. DOMAIN job = Tasks /\ wire \in Seq(Tasks)
    BY DEF PublicationInv, Shape
  <2>2. wire' = wire \/ \E k \in 1 .. Len(wire) : wire' = RemoveAt(wire, k)
    BY <2>1 DEF Raise
  <2> QED BY <2>1, <2>2, RemoveAtType
<1>3. cut' \subseteq Accounts
  <2>1. job[t].res # NoResult => job[t].acct \in Accounts
    BY DEF PublicationInv, Shape, JobOK
  <2> QED BY <2>1 DEF Raise, Unsaved, Typed, TypeOK
<1>4. /\ fetched' \in 0 .. MaxFetches /\ fetched <= fetched' /\ 0 <= fetched'
      /\ store' \in [Accounts -> Result \union {NoResult}]
      /\ \A b \in Accounts : store'[b].at <= fetched'
      /\ lastOk' \in [Accounts -> 0 .. MaxFetches]
      /\ failed' \in [Accounts -> 0 .. MaxFetches] /\ said' \in [Accounts -> BOOLEAN]
  BY MaxFetchesAssumption DEF Raise, Typed, TypeOK, Dates
<1> QED BY <1>1, <1>2, <1>3, <1>4, TypedStep

LEMMA TypedUpdate ==
  ASSUME NEW S, NEW f \in [Accounts -> S], NEW a, NEW x \in S
  PROVE  [f EXCEPT ![a] = x] \in [Accounts -> S]
OBVIOUS

LEMMA LoseTyped ==
  ASSUME Typed, PublicationInv, NEW t \in Tasks, LostError(t) \/ LostResult(t),
         overlapped' = overlapped \union Overlap'
  PROVE  Typed'
<1>1. /\ fetched < MaxFetches /\ fetched' = fetched + 1 /\ job' = [job EXCEPT ![t] = Idle]
      /\ UNCHANGED <<wire, retained, store>> /\ job[t].stage = "fetch"
  BY DEF LostError, LostResult
<1>2. GoOn(t, Idle, wire') /\ IsJob(Idle) /\ JobTyped(Idle) /\ Idle.res.at = 0
  BY <1>1, GoesIdle, IdleTyped, IdleFacts, NoResultFacts
<1>3. /\ DOMAIN job = Tasks /\ wire' \in Seq(Tasks) /\ job[t].acct \in Accounts
  BY <1>1 DEF PublicationInv, Shape, JobOK
<1>4. /\ fetched \in 0 .. MaxFetches /\ fetched' \in 0 .. MaxFetches /\ fetched <= fetched'
      /\ 0 <= fetched'
  BY <1>1, MaxFetchesAssumption DEF Typed, TypeOK
<1>5. /\ store' \in [Accounts -> Result \union {NoResult}]
      /\ \A b \in Accounts : store'[b].at <= fetched'
  <2>1. \A b \in Accounts : store[b].at \in Nat
    BY NoResultFacts DEF Typed, TypeOK, Result
  <2> QED BY <1>1, <1>4, <2>1 DEF Typed, TypeOK, Dates
<1>6. /\ fetched + 1 \in 0 .. MaxFetches /\ 0 \in 0 .. MaxFetches
      /\ lastOk \in [Accounts -> 0 .. MaxFetches] /\ failed \in [Accounts -> 0 .. MaxFetches]
      /\ said \in [Accounts -> BOOLEAN] /\ cut \subseteq Accounts
  BY <1>1, <1>4, MaxFetchesAssumption DEF Typed, TypeOK
<1>7. lastOk' \in [Accounts -> 0 .. MaxFetches]
  <2>1. lastOk' = lastOk \/ lastOk' = [lastOk EXCEPT ![job[t].acct] = fetched + 1]
    BY DEF LostError, LostResult
  <2> QED BY <1>6, <2>1, TypedUpdate
<1>8. failed' \in [Accounts -> 0 .. MaxFetches]
  <2>1. \/ failed' = [failed EXCEPT ![job[t].acct] = fetched + 1]
        \/ failed' = [failed EXCEPT ![job[t].acct] = 0]
    BY DEF LostError, LostResult
  <2> QED BY <1>6, <2>1, TypedUpdate
<1>9. said' \in [Accounts -> BOOLEAN]
  <2>1. said' = [said EXCEPT ![job[t].acct] = FALSE]
    BY DEF LostError, LostResult
  <2> QED BY <1>6, <2>1, TypedUpdate
<1>10. cut' \subseteq Accounts
  <2>1. cut' = cut \/ cut' = cut \union {job[t].acct}
    BY DEF LostError, LostResult
  <2> QED BY <1>3, <1>6, <2>1
<1> QED BY <1>2, <1>3, <1>4, <1>5, <1>7, <1>8, <1>9, <1>10, TypedStep

\* A fetch ends, well or not.
LEMMA FetchTyped ==
  ASSUME Typed, PublicationInv, NEW t \in Tasks, job[t].stage = "fetch",
         NEW r \in Result \union {NoResult}, r.at <= fetched', NEW m \in Seq(Message),
         GoOn(t, [stage |-> "publish", acct |-> job[t].acct, res |-> r, msgs |-> m], wire),
         overlapped' = overlapped \union Overlap', fetched < MaxFetches,
         fetched' = fetched + 1, UNCHANGED <<store, cut>>,
         lastOk' \in [Accounts -> 0 .. MaxFetches],
         failed' \in [Accounts -> 0 .. MaxFetches], said' \in [Accounts -> BOOLEAN]
  PROVE  Typed'
<1> DEFINE j == [stage |-> "publish", acct |-> job[t].acct, res |-> r, msgs |-> m]
<1>1. IsJob(j) /\ JobTyped(j) /\ j.res.at <= fetched'
  BY DEF IsJob, JobTyped, PublicationInv, Shape, JobOK
<1>2. GoOn(t, j, wire)
  OBVIOUS
<1>3. \A a \in Accounts : store[a].at \in Nat
  BY NoResultFacts DEF Typed, TypeOK, Result
<1>4. /\ fetched \in 0 .. MaxFetches /\ store' = store /\ cut' = cut
      /\ store \in [Accounts -> Result \union {NoResult}] /\ cut \subseteq Accounts
      /\ \A a \in Accounts : store[a].at <= fetched
  BY DEF Typed, TypeOK, Dates
<1>5. fetched' \in 0 .. MaxFetches /\ fetched <= fetched'
  BY <1>4, MaxFetchesAssumption
<1>6. \A a \in Accounts : store'[a].at <= fetched'
  BY <1>3, <1>4, <1>5
<1>7. DOMAIN job = Tasks /\ wire \in Seq(Tasks)
  BY DEF PublicationInv, Shape
<1> HIDE DEF j
<1> QED BY <1>1, <1>2, <1>4, <1>5, <1>6, <1>7, TypedStep

LEMMA FetchOkTyped ==
  ASSUME Typed, PublicationInv, NEW t \in Tasks, NEW twin \in Shapes, FetchOk(t, twin),
         overlapped' = overlapped \union Overlap'
  PROVE  Typed'
<1> DEFINE a == job[t].acct
           r == [at |-> fetched + 1, twin |-> twin]
<1>1. /\ job[t].stage = "fetch" /\ fetched < MaxFetches
      /\ fetched' = fetched + 1 /\ UNCHANGED <<store, cut>>
      /\ GoOn(t, [stage |-> "publish", acct |-> a, res |-> r, msgs |-> Messages(a, r)], wire)
      /\ lastOk' = [lastOk EXCEPT ![a] = r.at]
      /\ failed' = [failed EXCEPT ![a] = 0] /\ said' = [said EXCEPT ![a] = FALSE]
  BY DEF FetchOk
<1>2. a \in Accounts
  BY <1>1 DEF PublicationInv, Shape, JobOK
<1>3. r \in Result /\ r.at \in 0 .. MaxFetches /\ r.at <= fetched'
  BY <1>1, ShapesAssumption, MaxFetchesAssumption DEF Result, Typed, TypeOK
<1> HIDE DEF r
<1>4. Messages(a, r) \in Seq(Message)
  BY <1>2, <1>3, MessagesFacts
<1>5. /\ lastOk' \in [Accounts -> 0 .. MaxFetches]
      /\ failed' \in [Accounts -> 0 .. MaxFetches] /\ said' \in [Accounts -> BOOLEAN]
  <2>1. 0 \in 0 .. MaxFetches
    BY MaxFetchesAssumption
  <2> QED BY <1>1, <1>3, <2>1, TypedUpdate DEF Typed, TypeOK
<1> QED BY <1>1, <1>3, <1>4, <1>5, FetchTyped

\* The message of a failed fetch.
LEMMA ErrorFacts ==
  ASSUME NEW a \in Accounts, NEW prev \in Result \union {NoResult}, NEW now \in 0 .. MaxFetches
  PROVE  LET p == [synced |-> prev.at, attempted |-> now, ok |-> FALSE]
         IN /\ p \in Payload
            /\ ErrorMessages(a, prev, now) = <<[topic |-> ErrorTopic(a), payload |-> p]>>
            /\ ErrorMessages(a, prev, now) \in Seq(Message)
<1>1. [synced |-> prev.at, attempted |-> now, ok |-> FALSE] \in Payload
  BY NoResultFacts, MaxFetchesAssumption DEF Result, Payload
<1> DEFINE m == [topic   |-> ErrorTopic(a),
                 payload |-> [synced |-> prev.at, attempted |-> now, ok |-> FALSE]]
<1>2. m \in Message
  BY <1>1, TopicFacts DEF Message
<1>3. ErrorMessages(a, prev, now) = <<m>>
  BY DEF ErrorMessages
<1> HIDE DEF m
<1>4. ErrorMessages(a, prev, now) \in Seq(Message)
  BY <1>2, <1>3
<1> QED BY <1>1, <1>3, <1>4 DEF m

LEMMA FetchFailTyped ==
  ASSUME Typed, PublicationInv, NEW t \in Tasks, FetchFail(t),
         overlapped' = overlapped \union Overlap'
  PROVE  Typed'
<1> DEFINE a == job[t].acct
           m == ErrorMessages(a, store[a], fetched + 1)
<1>1. /\ job[t].stage = "fetch" /\ fetched < MaxFetches
      /\ fetched' = fetched + 1 /\ UNCHANGED <<store, cut, lastOk>>
      /\ GoOn(t, [stage |-> "publish", acct |-> a, res |-> NoResult, msgs |-> m], wire)
      /\ failed' = [failed EXCEPT ![a] = fetched + 1] /\ said' = [said EXCEPT ![a] = TRUE]
  BY DEF FetchFail
<1>2. a \in Accounts
  BY <1>1 DEF PublicationInv, Shape, JobOK
<1>3. /\ store[a] \in Result \union {NoResult} /\ fetched + 1 \in 0 .. MaxFetches
      /\ NoResult.at <= fetched'
  BY <1>1, <1>2, NoResultFacts, MaxFetchesAssumption DEF Typed, TypeOK
<1>4. m \in Seq(Message)
  BY <1>2, <1>3, ErrorFacts
<1> HIDE DEF m
<1>5. /\ lastOk' \in [Accounts -> 0 .. MaxFetches]
      /\ failed' \in [Accounts -> 0 .. MaxFetches] /\ said' \in [Accounts -> BOOLEAN]
  BY <1>1, <1>3, TypedUpdate DEF Typed, TypeOK
<1> QED BY <1>1, <1>3, <1>4, <1>5, FetchTyped

\* The ack of a message: of the last, or of one before.
LEMMA AckTyped ==
  ASSUME Typed, PublicationInv, Ack, overlapped' = overlapped \union Overlap'
  PROVE  Typed'
<1> DEFINE t == Head(wire)
           a == job[t].acct
           more == job[t].msgs # <<>>
           j == IF more THEN job[t] ELSE NextJob(t)
<1>1. /\ t \in Tasks /\ Tail(wire) \in Seq(Tasks) /\ DOMAIN job = Tasks
      /\ JobOK(t, job[t]) /\ JobTyped(job[t])
  BY TypedJobs DEF Ack, PublicationInv, Shape, Typed
<1>2. GoOn(t, j, Tail(wire))
  BY DEF Ack
<1>3. IsJob(j) /\ JobTyped(j) /\ (~more => j.res = NoResult)
  BY <1>1, NextJobTyped, NextJobFacts DEF Typed, JobOK
<1>4. /\ UNCHANGED <<fetched, lastOk, failed, said>>
      /\ \/ store' = store
         \/ job[t].res # NoResult /\ store' = [store EXCEPT ![a] = job[t].res]
      /\ cut' \subseteq cut
  BY DEF Ack
<1>5. job[t].res \in Result \union {NoResult} /\ job[t].res.at <= fetched
  BY <1>1 DEF JobTyped, Typed, Dates
<1>6. job[t].res # NoResult => a \in Accounts
  BY <1>1 DEF JobOK
<1>7. /\ store' \in [Accounts -> Result \union {NoResult}]
      /\ \A b \in Accounts : store'[b].at <= fetched'
  BY <1>4, <1>5, <1>6 DEF Typed, TypeOK, Dates
<1>8. j.res.at <= fetched'
  BY <1>3, <1>4, <1>5, NoResultFacts, MaxFetchesAssumption DEF Typed, TypeOK
<1>9. /\ fetched' \in 0 .. MaxFetches /\ fetched <= fetched'
      /\ lastOk' \in [Accounts -> 0 .. MaxFetches]
      /\ failed' \in [Accounts -> 0 .. MaxFetches] /\ said' \in [Accounts -> BOOLEAN]
      /\ cut' \subseteq Accounts
  BY <1>4, MaxFetchesAssumption DEF Typed, TypeOK
<1> HIDE DEF j, t
<1> QED BY <1>1, <1>2, <1>3, <1>7, <1>8, <1>9, TypedStep

LEMMA NextTyped ==
  ASSUME Typed, PublicationInv, [Next]_vars
  PROVE  Typed'
<1>1. CASE UNCHANGED vars
  BY <1>1 DEF Typed, TypeOK, Dates, vars
<1>2. CASE Next
  <2> USE <1>2 DEF Next
  <2>0. DOMAIN job = Tasks
    BY DEF PublicationInv, Shape
  <2>1. CASE StartCycle
    <3>1. 1 \in Accounts
      BY NumAccountsAssumption DEF Accounts
    <3> QED BY <2>0, <2>1, <3>1, TaskFacts, StartTyped DEF StartCycle
  <2>2. CASE \E a \in Accounts : StartRefresh(a)
    BY <2>0, <2>2, TaskFacts, StartTyped DEF StartRefresh
  <2>3. CASE \E t \in Tasks, twin \in Shapes : FetchOk(t, twin)
    BY <2>3, FetchOkTyped
  <2>4. CASE \E t \in Tasks : FetchFail(t)
    BY <2>4, FetchFailTyped
  <2>5. CASE \E t \in Tasks : Raise(t)
    BY <2>5, RaiseTyped
  <2>6. CASE Ack
    BY <2>6, AckTyped
  <2>7. CASE Restart
    BY <2>7, RestartTyped
  <2>8. CASE \E t \in Tasks : LostError(t) \/ LostResult(t)
    BY <2>8, LoseTyped
  <2> QED BY <2>1, <2>2, <2>3, <2>4, <2>5, <2>6, <2>7, <2>8 DEF Step
<1> QED BY <1>1, <1>2

\* The types of the data path hold in every state (scheduler.py:136-239,
\* 258-276, state_store.py:35-66).
THEOREM PublicationTyped == Spec => []TypeOK
<1>1. Typed => TypeOK
  BY DEF Typed
<1> QED BY <1>1, InitTyped, NextTyped, InitPublication, NextPublication, PTL DEF Spec

-----------------------------------------------------------------------------
(* The order of the messages: a task sends those of its result one by one,   *)
(* and the tasks that await an ack are in the order in which they sent.      *)

\* s is the end of m.
Suffix(s, m) == Len(s) <= Len(m) /\ \A i \in 1 .. Len(s) : s[i] = m[Len(m) - Len(s) + i]

LEMMA SuffixTail ==
  ASSUME NEW S, NEW s \in Seq(S), NEW m \in Seq(S), s # <<>>, Suffix(s, m)
  PROVE  /\ Len(Tail(s)) = Len(s) - 1
         /\ Suffix(Tail(s), m) /\ Len(Tail(s)) < Len(m)
         /\ Head(s) = m[Len(m) - Len(s) + 1]
         /\ Len(m) - Len(s) + 1 \in 1 .. Len(m)
<1>1. /\ Len(s) \in Nat \ {0} /\ Len(m) \in Nat
      /\ Tail(s) \in Seq(S) /\ Len(Tail(s)) = Len(s) - 1
      /\ \A i \in 1 .. Len(s) - 1 : Tail(s)[i] = s[i + 1]
      /\ Head(s) = s[1]
  BY HeadTailProperties, EmptySeq
<1>2. \A i \in 1 .. Len(s) - 1 : s[i + 1] = m[Len(m) - (Len(s) - 1) + i]
  <2> SUFFICES ASSUME NEW i \in 1 .. Len(s) - 1
               PROVE  s[i + 1] = m[Len(m) - (Len(s) - 1) + i]
    OBVIOUS
  <2>1. /\ i + 1 \in 1 .. Len(s)
        /\ Len(m) - Len(s) + (i + 1) = Len(m) - (Len(s) - 1) + i
    BY <1>1
  <2>2. s[i + 1] = m[Len(m) - Len(s) + (i + 1)]
    BY <2>1 DEF Suffix
  <2> QED BY <2>1, <2>2
<1> QED BY <1>1, <1>2 DEF Suffix

LEMMA Whole ==
  ASSUME NEW S, NEW m \in Seq(S)
  PROVE  Suffix(m, m) /\ (Len(m) # 0 => m # <<>>)
<1>1. Len(m) \in Nat /\ \A i \in 1 .. Len(m) : m[Len(m) - Len(m) + i] = m[i]
  OBVIOUS
<1> QED BY <1>1 DEF Suffix

LEMMA Single ==
  ASSUME NEW x
  PROVE  /\ <<x>> # <<>> /\ Len(<<x>>) = 1
         /\ Head(<<x>>) = x /\ Tail(<<x>>) = <<>>
  OBVIOUS

\* Of a wire: who is on it, that nobody is twice, and who is before whom.
OnWire(w, t)    == \E i \in 1 .. Len(w) : w[i] = t
Once(w)         == \A i, k \in 1 .. Len(w) : w[i] = w[k] => i = k
Before(w, t, u) == \E i, k \in 1 .. Len(w) : i < k /\ w[i] = t /\ w[k] = u

\* rest is the wire w without task t.
Without(w, t, rest) ==
  /\ rest \in Seq(Tasks) /\ Once(rest)
  /\ \A u \in Tasks : OnWire(rest, u) <=> u # t /\ OnWire(w, u)
  /\ \A u, v \in Tasks \ {t} : Before(w, u, v) => Before(rest, u, v)

LEMMA WithoutNone ==
  ASSUME NEW w \in Seq(Tasks), Once(w), NEW t, ~OnWire(w, t)
  PROVE  Without(w, t, w)
  BY DEF Without

LEMMA WithoutOne ==
  ASSUME NEW w \in Seq(Tasks), Once(w), NEW k \in 1 .. Len(w)
  PROVE  Without(w, w[k], RemoveAt(w, k))
<1> DEFINE rest == RemoveAt(w, k)
           Old(i) == IF i < k THEN i ELSE i + 1
           New(i) == IF i < k THEN i ELSE i - 1
<1>1. Len(w) \in Nat /\ k \in Nat
  OBVIOUS
<1>2. rest \in Seq(Tasks)
  BY RemoveAtType
<1>3. Len(rest) = Len(w) - 1 /\ \A i \in 1 .. Len(w) - 1 : rest[i] = w[Old(i)]
  <2> DEFINE l == SubSeq(w, 1, k - 1)
             r == SubSeq(w, k + 1, Len(w))
  <2>0. \A i \in 1 .. Len(w) : w[i] \in Tasks
    OBVIOUS
  <2>1. l \in Seq(Tasks) /\ Len(l) = k - 1 /\ \A i \in 1 .. k - 1 : l[i] = w[i]
    BY <1>1, <2>0, SubSeqProperties
  <2>2. /\ r \in Seq(Tasks) /\ Len(r) = Len(w) - k
        /\ \A i \in 1 .. Len(w) - k : r[i] = w[k + i]
    BY <1>1, <2>0, SubSeqProperties
  <2>3. rest = l \o r
    BY DEF RemoveAt
  <2> HIDE DEF l, r
  <2>4. /\ Len(rest) = Len(l) + Len(r)
        /\ \A i \in 1 .. Len(l) + Len(r) : rest[i] = IF i <= Len(l) THEN l[i] ELSE r[i - Len(l)]
    <3>1. /\ Len(l \o r) = Len(l) + Len(r)
          /\ \A i \in 1 .. Len(l) + Len(r) :
               (l \o r)[i] = IF i <= Len(l) THEN l[i] ELSE r[i - Len(l)]
      BY <2>1, <2>2, ConcatProperties
    <3> QED BY <2>3, <3>1
  <2> HIDE DEF rest
  <2>5. Len(rest) = Len(w) - 1
    BY <1>1, <2>1, <2>2, <2>4
  <2>6. ASSUME NEW i \in 1 .. Len(w) - 1, i < k PROVE rest[i] = w[i]
    <3>1. /\ i \in 1 .. Len(l) + Len(r) /\ i <= Len(l) /\ i \in 1 .. k - 1
      BY <1>1, <2>1, <2>2, <2>6
    <3> QED BY <2>1, <2>4, <3>1
  <2>7. ASSUME NEW i \in 1 .. Len(w) - 1, ~(i < k) PROVE rest[i] = w[i + 1]
    <3>1. /\ rest[i] = r[i - (k - 1)] /\ i - (k - 1) \in 1 .. Len(w) - k
          /\ k + (i - (k - 1)) = i + 1
      <4>1. PICK n \in Nat : n = Len(w)
        BY <1>1
      <4>2. k \in 1 .. n /\ i \in 1 .. n - 1 /\ Len(l) = k - 1 /\ Len(r) = n - k
        BY <1>1, <2>1, <2>2, <4>1
      <4>3. i \in 1 .. Len(l) + Len(r) /\ ~(i <= Len(l))
        BY <2>7, <4>2
      <4>4. rest[i] = r[i - Len(l)]
        BY <2>4, <4>3
      <4>5. i - (k - 1) \in 1 .. n - k /\ k + (i - (k - 1)) = i + 1
        BY <2>7, <4>2
      <4> QED BY <4>1, <4>2, <4>4, <4>5
    <3> QED BY <2>2, <3>1
  <2> QED BY <2>5, <2>6, <2>7
<1> HIDE DEF rest
<1>4. \A i \in 1 .. Len(w) - 1 : Old(i) \in 1 .. Len(w) /\ Old(i) # k
  BY <1>1
<1>5. \A i, n \in 1 .. Len(w) - 1 : Old(i) = Old(n) => i = n
  BY <1>1
<1>6. \A i \in 1 .. Len(w) : i # k =>
        New(i) \in 1 .. Len(w) - 1 /\ Old(New(i)) = i
  BY <1>1
<1>7. \A i, n \in 1 .. Len(w) : i # k /\ n # k /\ i < n => New(i) < New(n)
  BY <1>1
<1> HIDE DEF Old, New
<1>8. Once(rest)
  <2>1. ASSUME NEW i \in 1 .. Len(w) - 1, NEW n \in 1 .. Len(w) - 1, rest[i] = rest[n]
        PROVE  i = n
    <3>1. w[Old(i)] = w[Old(n)] /\ Old(i) \in 1 .. Len(w) /\ Old(n) \in 1 .. Len(w)
      BY <1>3, <1>4, <2>1
    <3>2. Old(i) = Old(n)
      BY <3>1 DEF Once
    <3> QED BY <1>5, <3>2
  <2> QED BY <1>3, <2>1 DEF Once
<1>9. \A i \in 1 .. Len(w) : i # k => rest[New(i)] = w[i] /\ New(i) \in 1 .. Len(rest)
  BY <1>3, <1>6
<1>10. \A u \in Tasks : OnWire(rest, u) <=> u # w[k] /\ OnWire(w, u)
  <2>1. \A i \in 1 .. Len(rest) : rest[i] # w[k]
    BY <1>3, <1>4 DEF Once
  <2> QED BY <1>3, <1>4, <1>9, <2>1 DEF OnWire
<1>11. \A u, v \in Tasks \ {w[k]} : Before(w, u, v) => Before(rest, u, v)
  BY <1>7, <1>9 DEF Before
<1> QED BY <1>2, <1>8, <1>10, <1>11 DEF Without, rest

LEMMA WithoutHead ==
  ASSUME NEW w \in Seq(Tasks), Once(w), w # <<>>
  PROVE  Without(w, Head(w), Tail(w)) /\ \A u : ~Before(w, u, Head(w))
<1>1. /\ Len(w) \in Nat \ {0} /\ Tail(w) \in Seq(Tasks) /\ Len(Tail(w)) = Len(w) - 1
      /\ \A i \in 1 .. Len(w) - 1 : Tail(w)[i] = w[i + 1]
      /\ Head(w) = w[1]
  BY HeadTailProperties, EmptySeq
<1>2. Once(Tail(w)) /\ \A i \in 1 .. Len(Tail(w)) : Tail(w)[i] # w[1]
  BY <1>1 DEF Once
<1>3. \A i \in 1 .. Len(w) : w[i] # w[1] => Tail(w)[i - 1] = w[i] /\ i - 1 \in 1 .. Len(Tail(w))
  BY <1>1
<1>4. \A u \in Tasks : OnWire(Tail(w), u) <=> u # w[1] /\ OnWire(w, u)
  BY <1>1, <1>2, <1>3 DEF OnWire
<1>5. \A u, v \in Tasks \ {w[1]} : Before(w, u, v) => Before(Tail(w), u, v)
  <2> SUFFICES ASSUME NEW u \in Tasks \ {w[1]}, NEW v \in Tasks \ {w[1]},
                      NEW i \in 1 .. Len(w), NEW k \in 1 .. Len(w),
                      i < k, w[i] = u, w[k] = v
               PROVE  Before(Tail(w), u, v)
    BY DEF Before
  <2>1. /\ Tail(w)[i - 1] = u /\ i - 1 \in 1 .. Len(Tail(w))
        /\ Tail(w)[k - 1] = v /\ k - 1 \in 1 .. Len(Tail(w)) /\ i - 1 < k - 1
    BY <1>1, <1>3
  <2> QED BY <2>1 DEF Before
<1>6. \A u : ~Before(w, u, w[1])
  BY <1>1 DEF Before, Once
<1> QED BY <1>1, <1>2, <1>4, <1>5, <1>6 DEF Without

\* A task that is not on the wire joins it at its end.
LEMMA JoinWire ==
  ASSUME NEW w, NEW t \in Tasks, NEW rest, Without(w, t, rest)
  PROVE  /\ Append(rest, t) \in Seq(Tasks) /\ Once(Append(rest, t))
         /\ \A u \in Tasks : OnWire(Append(rest, t), u) <=> u = t \/ OnWire(w, u)
         /\ \A u, v \in Tasks \ {t} : Before(w, u, v) => Before(Append(rest, t), u, v)
         /\ \A u \in Tasks \ {t} : OnWire(w, u) => Before(Append(rest, t), u, t)
<1> DEFINE x == Append(rest, t)
<1>1. /\ rest \in Seq(Tasks) /\ Len(rest) \in Nat
      /\ x \in Seq(Tasks) /\ Len(x) = Len(rest) + 1
      /\ \A i \in 1 .. Len(rest) : x[i] = rest[i]
      /\ x[Len(rest) + 1] = t
  BY AppendProperties DEF Without
<1> HIDE DEF x
<1>2. \A i \in 1 .. Len(rest) : rest[i] # t
  BY <1>1 DEF Without, OnWire
<1>3. Once(x)
  BY <1>1, <1>2 DEF Without, Once
<1>4. \A u \in Tasks : OnWire(x, u) <=> u = t \/ OnWire(w, u)
  <2>1. \A u : OnWire(x, u) <=> u = t \/ OnWire(rest, u)
    BY <1>1 DEF OnWire
  <2>2. \A u \in Tasks : OnWire(rest, u) <=> u # t /\ OnWire(w, u)
    BY DEF Without
  <2> QED BY <2>1, <2>2
<1>5. \A u, v \in Tasks \ {t} : Before(w, u, v) => Before(x, u, v)
  <2>1. \A u, v : Before(rest, u, v) => Before(x, u, v)
    BY <1>1 DEF Before
  <2>2. \A u, v \in Tasks \ {t} : Before(w, u, v) => Before(rest, u, v)
    BY DEF Without
  <2> QED BY <2>1, <2>2
<1>6. \A u \in Tasks \ {t} : OnWire(w, u) => Before(x, u, t)
  <2>1. \A u \in Tasks \ {t} : OnWire(w, u) => OnWire(rest, u)
    BY DEF Without
  <2>2. \A u : OnWire(rest, u) => Before(x, u, t)
    BY <1>1 DEF OnWire, Before
  <2> QED BY <2>1, <2>2
<1> QED BY <1>1, <1>3, <1>4, <1>5, <1>6 DEF x

\* A task is on the wire while it starts or publishes, and has sent at least one
\* message then; after an error it has nothing else to send.
JobSends(t, j) ==
  /\ j.stage = "startup" => t = Main
  /\ j.stage \in {"idle", "fetch"} => j.msgs = <<>>
  /\ j.stage = "publish" /\ j.res = NoResult => j.msgs = <<>>
  /\ j.res # NoResult => /\ Suffix(j.msgs, Messages(j.acct, j.res))
                         /\ Len(j.msgs) < Len(Messages(j.acct, j.res))

Queue == /\ Once(wire)
         /\ \A t \in Tasks : OnWire(wire, t) <=> job[t].stage \in {"startup", "publish"}

Flow == Queue /\ \A t \in Tasks : JobSends(t, job[t])

\* What a task may go on with: it has messages just when it starts or publishes.
Ready(t, j) ==
  /\ j.stage = "startup" => t = Main
  /\ j.stage \in {"startup", "publish"} <=> j.msgs # <<>>
  /\ j.stage = "publish" /\ j.res = NoResult => Len(j.msgs) <= 1
  /\ j.res # NoResult => Suffix(j.msgs, Messages(j.acct, j.res))

\* The job of a task after it has gone on.
LEMMA GoOnSent ==
  ASSUME DOMAIN job = Tasks, NEW t \in Tasks, NEW j, IsJob(j), NEW rest,
         GoOn(t, j, rest), j.msgs # <<>>
  PROVE  /\ job'[t] = [stage |-> j.stage, acct |-> j.acct, res |-> j.res, msgs |-> Tail(j.msgs)]
         /\ \A u \in Tasks \ {t} : job'[u] = job[u]
         /\ wire' = Append(rest, t)
         /\ retained' = [retained EXCEPT ![Head(j.msgs).topic] = Head(j.msgs).payload]
<1>1. job' = [job EXCEPT ![t] = [stage |-> j.stage, acct |-> j.acct, res |-> j.res,
                                 msgs |-> Tail(j.msgs)]]
  BY GoOnSends
<1>2. wire' = Append(rest, t)
      /\ retained' = [retained EXCEPT ![Head(j.msgs).topic] = Head(j.msgs).payload]
  BY GoOnSends
<1> QED BY <1>1, <1>2

LEMMA WireStep ==
  ASSUME DOMAIN job = Tasks, NEW t \in Tasks, NEW j, IsJob(j), NEW rest,
         Without(wire, t, rest), GoOn(t, j, rest)
  PROVE  /\ Once(wire')
         /\ \A u \in Tasks \ {t} : OnWire(wire', u) <=> OnWire(wire, u)
         /\ OnWire(wire', t) <=> j.msgs # <<>>
         /\ \A u, v \in Tasks \ {t} : Before(wire, u, v) => Before(wire', u, v)
         /\ j.msgs # <<>> => \A u \in Tasks \ {t} : OnWire(wire, u) => Before(wire', u, t)
<1>1. CASE j.msgs = <<>>
  <2>1. wire' = rest
    BY <1>1, GoOnRests
  <2> QED BY <1>1, <2>1 DEF Without
<1>2. CASE j.msgs # <<>>
  <2>1. wire' = Append(rest, t)
    BY <1>2, GoOnSends
  <2>2. /\ Once(Append(rest, t))
        /\ \A u \in Tasks : OnWire(Append(rest, t), u) <=> u = t \/ OnWire(wire, u)
        /\ \A u, v \in Tasks \ {t} : Before(wire, u, v) => Before(Append(rest, t), u, v)
        /\ \A u \in Tasks \ {t} : OnWire(wire, u) => Before(Append(rest, t), u, t)
    BY JoinWire
  <2> QED BY <1>2, <2>1, <2>2
<1> QED BY <1>1, <1>2

LEMMA JobSendsStep ==
  ASSUME NEW t, NEW j, JobTyped(j), j.res # NoResult => j.acct \in Accounts,
         Ready(t, j), j.msgs # <<>>
  PROVE  JobSends(t, [stage |-> j.stage, acct |-> j.acct, res |-> j.res, msgs |-> Tail(j.msgs)])
<1> DEFINE k == [stage |-> j.stage, acct |-> j.acct, res |-> j.res, msgs |-> Tail(j.msgs)]
<1>1. /\ k.stage = j.stage /\ k.acct = j.acct /\ k.res = j.res /\ k.msgs = Tail(j.msgs)
  OBVIOUS
<1> HIDE DEF k
<1>2. j.msgs \in Seq(Message)
  BY DEF JobTyped
<1>3. j.stage = "publish" /\ j.res = NoResult => Tail(j.msgs) = <<>>
  <2> SUFFICES ASSUME Len(j.msgs) <= 1 PROVE Tail(j.msgs) = <<>>
    BY DEF Ready
  <2>1. Len(j.msgs) \in Nat /\ Len(j.msgs) # 0
    BY <1>2, EmptySeq
  <2>2. Tail(j.msgs) \in Seq(Message) /\ Len(Tail(j.msgs)) = Len(j.msgs) - 1
    BY <1>2, HeadTailProperties
  <2> DEFINE n == Len(j.msgs)
  <2>3. n = 1
    <3>1. n \in Nat /\ n # 0 /\ n <= 1
      BY <2>1
    <3> HIDE DEF n
    <3> QED BY <3>1
  <2>4. Len(Tail(j.msgs)) = 0
    BY <2>2, <2>3
  <2> QED BY <2>2, <2>4, EmptySeq
<1>4. j.res # NoResult => /\ Suffix(Tail(j.msgs), Messages(j.acct, j.res))
                          /\ Len(Tail(j.msgs)) < Len(Messages(j.acct, j.res))
  <2> SUFFICES ASSUME j.res # NoResult
               PROVE  /\ Suffix(Tail(j.msgs), Messages(j.acct, j.res))
                      /\ Len(Tail(j.msgs)) < Len(Messages(j.acct, j.res))
    OBVIOUS
  <2>1. Messages(j.acct, j.res) \in Seq(Message)
    BY MessagesFacts DEF JobTyped
  <2>2. Suffix(j.msgs, Messages(j.acct, j.res))
    BY DEF Ready
  <2> QED BY <1>2, <2>1, <2>2, SuffixTail
<1>5. JobSends(t, k)
  BY <1>1, <1>3, <1>4 DEF JobSends, Ready
<1> QED BY <1>5 DEF k

\* The flow after a step in which task t goes on with j.
LEMMA FlowStep ==
  ASSUME Flow, DOMAIN job = Tasks, NEW t \in Tasks, NEW j, IsJob(j), JobTyped(j),
         j.res # NoResult => j.stage = "publish" /\ j.acct \in Accounts, Ready(t, j),
         NEW rest, Without(wire, t, rest), GoOn(t, j, rest)
  PROVE  Flow'
<1>1. /\ Once(wire')
      /\ \A u \in Tasks \ {t} : OnWire(wire', u) <=> OnWire(wire, u)
      /\ OnWire(wire', t) <=> j.msgs # <<>>
  BY WireStep
<1>2. \A u \in Tasks \ {t} : job'[u] = job[u]
  BY GoOnJob DEF Without
<1>3. JobSends(t, job'[t]) /\ job'[t].stage = j.stage
  <2>1. CASE j.msgs = <<>>
    <3>1. job'[t] = j
      BY <2>1, GoOnRests
    <3>2. JobSends(t, j)
      BY <2>1 DEF JobSends, Ready
    <3> QED BY <3>1, <3>2
  <2>2. CASE j.msgs # <<>>
    <3>1. job'[t] = [stage |-> j.stage, acct |-> j.acct, res |-> j.res, msgs |-> Tail(j.msgs)]
      BY <2>2, GoOnSent
    <3> QED BY <2>2, <3>1, JobSendsStep
  <2> QED BY <2>1, <2>2
<1>4. \A u \in Tasks : JobSends(u, job'[u])
  BY <1>2, <1>3 DEF Flow
<1>5. Queue'
  BY <1>1, <1>2, <1>3 DEF Flow, Queue, Ready
<1> QED BY <1>4, <1>5 DEF Flow

LEMMA IdleReady == /\ \A t : Ready(t, Idle)
                   /\ \A t, a : Ready(t, Fetching(a))
  BY DEF Ready, Idle, Fetching

LEMMA InitFlow == Init => Flow
<1> SUFFICES ASSUME Init PROVE Flow
  OBVIOUS
<1>1. \A t \in Tasks : JobSends(t, job[t]) /\ job[t].stage = "idle"
  BY DEF Init, JobSends, Idle
<1>2. wire = <<>> /\ Len(wire) = 0
  BY DEF Init
<1>3. Once(wire) /\ \A t : ~OnWire(wire, t)
  BY <1>2 DEF Once, OnWire
<1> QED BY <1>1, <1>3 DEF Flow, Queue

-----------------------------------------------------------------------------
(* Every step but a restart is one task's, which goes on with some job.      *)

Goes(t, j, rest) ==
  /\ IsJob(j) /\ JobTyped(j) /\ Ready(t, j)
  /\ j.res # NoResult => j.stage = "publish" /\ j.acct \in Accounts
  /\ Without(wire, t, rest) /\ GoOn(t, j, rest)

Begins(t, j) ==
  /\ job[t] = Idle /\ (t # Main => job[Main].stage # "startup")
  /\ \E a \in Accounts : j = Fetching(a)
  /\ UNCHANGED <<fetched, store, failed, said, cut>>

Fetches(t, j) ==
  /\ job[t].stage = "fetch" /\ job[t].acct \in Accounts /\ job[t].res = NoResult
  /\ j.stage = "publish" /\ j.acct = job[t].acct
  /\ j.res \in Result /\ j.res.at = fetched + 1 /\ j.msgs = Messages(j.acct, j.res)
  /\ fetched' = fetched + 1 /\ failed' = [failed EXCEPT ![j.acct] = 0]
  /\ said' = [said EXCEPT ![j.acct] = FALSE]
  /\ UNCHANGED <<store, cut>>

Fails(t, j) ==
  /\ job[t].stage = "fetch" /\ job[t].acct \in Accounts /\ job[t].res = NoResult
  /\ j.stage = "publish" /\ j.acct = job[t].acct /\ j.res = NoResult
  /\ j.msgs = <<[topic   |-> ErrorTopic(j.acct),
                 payload |-> [synced |-> store[j.acct].at, attempted |-> fetched + 1,
                              ok |-> FALSE]]>>
  /\ fetched' = fetched + 1 /\ failed' = [failed EXCEPT ![j.acct] = fetched + 1]
  /\ said' = [said EXCEPT ![j.acct] = TRUE]
  /\ UNCHANGED <<store, cut>>

\* The ack is for t, which was before all others.
Acked(t) == OnWire(wire, t) /\ \A u : ~Before(wire, u, t)

SendsMore(t, j) ==
  /\ Acked(t) /\ job[t].msgs # <<>> /\ j = job[t]
  /\ UNCHANGED <<fetched, store, failed, said, cut>>

Saves(t, j) ==
  /\ Acked(t) /\ job[t].msgs = <<>> /\ j = NextJob(t)
  /\ UNCHANGED <<fetched, failed, said>>
  /\ IF job[t].res = NoResult
       THEN UNCHANGED <<store, cut>>
       ELSE /\ store' = [store EXCEPT ![job[t].acct] = job[t].res]
            /\ cut' = cut \ {job[t].acct}

GivesUp(t, j) ==
  /\ job[t].stage \in {"fetch", "publish"} /\ j = Idle
  /\ cut' = cut \union Unsaved({t}) /\ UNCHANGED <<fetched, store, failed, said>>

\* A fetch of which nothing goes out.
Loses(t, j) ==
  /\ job[t].stage = "fetch" /\ job[t].acct \in Accounts /\ job[t].res = NoResult
  /\ j = Idle /\ fetched' = fetched + 1 /\ store' = store /\ cut \subseteq cut'
  /\ said' = [said EXCEPT ![job[t].acct] = FALSE]
  /\ \A a \in Accounts : a # job[t].acct => failed'[a] = failed[a]

Does(t, j) == \/ Begins(t, j) \/ Fetches(t, j) \/ Fails(t, j) \/ Loses(t, j)
              \/ SendsMore(t, j) \/ Saves(t, j) \/ GivesUp(t, j)

Inv == PublicationInv /\ Typed /\ Flow

\* A task that neither starts nor publishes is not on the wire.
LEMMA NotOnWire ==
  ASSUME Inv, NEW t \in Tasks, job[t].stage \notin {"startup", "publish"}
  PROVE  Without(wire, t, wire)
<1>1. wire \in Seq(Tasks) /\ Once(wire) /\ ~OnWire(wire, t)
  BY DEF Inv, PublicationInv, Shape, Flow, Queue
<1> QED BY <1>1, WithoutNone

LEMMA BeginKind ==
  ASSUME Inv, NEW t \in Tasks, NEW a \in Accounts, job[t] = Idle,
         t # Main => job[Main].stage # "startup",
         job' = [job EXCEPT ![t] = Fetching(a)],
         UNCHANGED <<fetched, wire, retained, store, failed, said, cut>>
  PROVE  \E j, rest : Goes(t, j, rest) /\ Does(t, j)
<1>1. GoOn(t, Fetching(a), wire) /\ IsJob(Fetching(a))
  BY GoesToFetch
<1>2. /\ JobTyped(Fetching(a)) /\ Ready(t, Fetching(a)) /\ Fetching(a).res = NoResult
  BY IdleTyped, IdleReady, FetchingFacts
<1>3. Without(wire, t, wire)
  <2>1. job[t].stage = "idle"
    BY IdleFacts
  <2> QED BY <2>1, NotOnWire
<1>4. Goes(t, Fetching(a), wire)
  BY <1>1, <1>2, <1>3 DEF Goes
<1>5. Begins(t, Fetching(a))
  BY DEF Begins
<1> QED BY <1>4, <1>5 DEF Does

LEMMA FetchOkKind ==
  ASSUME Inv, NEW t \in Tasks, NEW twin \in Shapes, FetchOk(t, twin)
  PROVE  \E j, rest : Goes(t, j, rest) /\ Does(t, j)
<1> DEFINE a == job[t].acct
           r == [at |-> fetched + 1, twin |-> twin]
           j == [stage |-> "publish", acct |-> a, res |-> r, msgs |-> Messages(a, r)]
<1>1. /\ job[t].stage = "fetch" /\ fetched < MaxFetches
      /\ fetched' = fetched + 1 /\ UNCHANGED <<store, cut>>
      /\ GoOn(t, j, wire)
      /\ failed' = [failed EXCEPT ![a] = 0] /\ said' = [said EXCEPT ![a] = FALSE]
  BY DEF FetchOk
<1>2. a \in Accounts /\ job[t].res = NoResult
  BY <1>1 DEF Inv, PublicationInv, Shape, JobOK
<1>3. r \in Result /\ r.at = fetched + 1 /\ r # NoResult
  BY <1>1, ShapesAssumption, MaxFetchesAssumption, NoResultFacts DEF Result, Inv, Typed, TypeOK
<1> HIDE DEF r
<1>4. /\ Messages(a, r) \in Seq(Message) /\ Len(Messages(a, r)) # 0
  <2> DEFINE M == Messages(a, r)
  <2>1. M \in Seq(Message) /\ Len(M) = IF r.twin THEN 4 ELSE 2
    BY <1>2, <1>3, MessagesFacts
  <2> HIDE DEF M
  <2>2. Len(M) # 0
    BY <2>1
  <2> QED BY <2>1, <2>2 DEF M
<1>5. /\ Messages(a, r) # <<>> /\ Suffix(Messages(a, r), Messages(a, r))
  BY <1>4, Whole
<1>6. /\ j.stage = "publish" /\ j.acct = a /\ j.res = r /\ j.msgs = Messages(a, r) /\ IsJob(j)
  BY DEF IsJob
<1> HIDE DEF j
<1>7. JobTyped(j) /\ Ready(t, j)
  BY <1>2, <1>3, <1>4, <1>5, <1>6 DEF JobTyped, Ready
<1>8. Goes(t, j, wire)
  BY <1>1, <1>2, <1>6, <1>7, NotOnWire DEF Goes
<1>9. Fetches(t, j)
  BY <1>1, <1>2, <1>3, <1>6 DEF Fetches
<1> QED BY <1>8, <1>9 DEF Does

LEMMA FetchFailKind ==
  ASSUME Inv, NEW t \in Tasks, FetchFail(t)
  PROVE  \E j, rest : Goes(t, j, rest) /\ Does(t, j)
<1> DEFINE a == job[t].acct
           m == ErrorMessages(a, store[a], fetched + 1)
           j == [stage |-> "publish", acct |-> a, res |-> NoResult, msgs |-> m]
<1>1. /\ job[t].stage = "fetch" /\ fetched < MaxFetches
      /\ fetched' = fetched + 1 /\ UNCHANGED <<store, cut>>
      /\ GoOn(t, j, wire)
      /\ failed' = [failed EXCEPT ![a] = fetched + 1] /\ said' = [said EXCEPT ![a] = TRUE]
  BY DEF FetchFail
<1>2. a \in Accounts /\ job[t].res = NoResult
  BY <1>1 DEF Inv, PublicationInv, Shape, JobOK
<1>3. store[a] \in Result \union {NoResult} /\ fetched + 1 \in 0 .. MaxFetches
  BY <1>1, <1>2, MaxFetchesAssumption DEF Inv, Typed, TypeOK
<1>4. /\ m = <<[topic   |-> ErrorTopic(a),
                payload |-> [synced |-> store[a].at, attempted |-> fetched + 1, ok |-> FALSE]]>>
      /\ m \in Seq(Message)
  BY <1>2, <1>3, ErrorFacts
<1>5. m # <<>> /\ Len(m) = 1
  BY <1>4, Single
<1> HIDE DEF m
<1>6. /\ j.stage = "publish" /\ j.acct = a /\ j.res = NoResult /\ j.msgs = m /\ IsJob(j)
  BY DEF IsJob
<1> HIDE DEF j
<1>7. JobTyped(j) /\ Ready(t, j)
  BY <1>2, <1>4, <1>5, <1>6 DEF JobTyped, Ready
<1>8. Goes(t, j, wire)
  BY <1>1, <1>6, <1>7, NotOnWire DEF Goes
<1>9. Fails(t, j)
  BY <1>1, <1>2, <1>4, <1>6 DEF Fails
<1> QED BY <1>8, <1>9 DEF Does

LEMMA AckKind ==
  ASSUME Inv, Ack
  PROVE  \E t \in Tasks : \E j, rest : Goes(t, j, rest) /\ Does(t, j)
<1> DEFINE t == Head(wire)
           more == job[t].msgs # <<>>
           j == IF more THEN job[t] ELSE NextJob(t)
<1>1. /\ wire \in Seq(Tasks) /\ wire # <<>> /\ Once(wire) /\ t \in Tasks /\ DOMAIN job = Tasks
  BY DEF Ack, Inv, PublicationInv, Shape, Flow, Queue
<1>2. Without(wire, t, Tail(wire)) /\ (\A u : ~Before(wire, u, t))
  BY <1>1, WithoutHead
<1>3. OnWire(wire, t)
  <2>1. t = wire[1] /\ 1 \in 1 .. Len(wire)
    BY <1>1
  <2> QED BY <2>1 DEF OnWire
<1>4. JobOK(t, job[t]) /\ JobTyped(job[t]) /\ JobSends(t, job[t])
      /\ job[t].stage \in {"startup", "publish"}
  BY <1>1, <1>3, TypedJobs DEF Inv, PublicationInv, Shape, Typed, Flow, Queue
<1>5. CASE more
  <2>1. GoOn(t, job[t], Tail(wire)) /\ UNCHANGED <<fetched, store, failed, said, cut>>
    BY <1>5 DEF Ack
  <2>2. Ready(t, job[t])
    BY <1>4, <1>5 DEF JobSends, Ready
  <2>3. Goes(t, job[t], Tail(wire))
    BY <1>2, <1>4, <2>1, <2>2 DEF Goes, JobOK
  <2>4. SendsMore(t, job[t])
    BY <1>2, <1>3, <1>5, <2>1 DEF SendsMore, Acked
  <2> QED BY <1>1, <2>3, <2>4 DEF Does
<1>6. CASE ~more
  <2>1. /\ GoOn(t, NextJob(t), Tail(wire)) /\ UNCHANGED <<fetched, failed, said>>
        /\ IF job[t].res = NoResult
             THEN UNCHANGED <<store, cut>>
             ELSE /\ store' = [store EXCEPT ![job[t].acct] = job[t].res]
                  /\ cut' = cut \ {job[t].acct}
    BY <1>6 DEF Ack
  <2>2. /\ IsJob(NextJob(t)) /\ JobTyped(NextJob(t)) /\ NextJob(t).res = NoResult
    BY <1>1, <1>4, NextJobTyped, NextJobFacts DEF Inv, Typed
  <2>3. Ready(t, NextJob(t))
    BY IdleReady DEF NextJob
  <2>4. Goes(t, NextJob(t), Tail(wire))
    BY <1>2, <2>1, <2>2, <2>3 DEF Goes
  <2>5. Saves(t, NextJob(t))
    BY <1>2, <1>3, <1>6, <2>1 DEF Saves, Acked
  <2> QED BY <1>1, <2>4, <2>5 DEF Does
<1> QED BY <1>5, <1>6

LEMMA RaiseKind ==
  ASSUME Inv, NEW t \in Tasks, Raise(t)
  PROVE  \E j, rest : Goes(t, j, rest) /\ Does(t, j)
<1>1. wire \in Seq(Tasks) /\ Once(wire)
  BY DEF Inv, PublicationInv, Shape, Flow, Queue
<1>2. Without(wire, t, wire')
  <2>1. CASE t \in Range(wire)
    <3>1. PICK k \in DOMAIN wire : wire[k] = t /\ wire' = RemoveAt(wire, k)
      BY <2>1 DEF Raise
    <3>2. k \in 1 .. Len(wire)
      BY <1>1
    <3>3. Without(wire, wire[k], RemoveAt(wire, k))
      BY <1>1, <3>2, WithoutOne
    <3> QED BY <3>1, <3>3
  <2>2. CASE t \notin Range(wire)
    <3>1. wire' = wire /\ ~OnWire(wire, t)
      BY <1>1, <2>2 DEF Raise, OnWire, Range
    <3> QED BY <1>1, <3>1, WithoutNone
  <2> QED BY <2>1, <2>2
<1>3. GoOn(t, Idle, wire') /\ IsJob(Idle)
  BY GoesIdle DEF Raise
<1>4. Goes(t, Idle, wire')
  BY <1>2, <1>3, IdleTyped, IdleReady, IdleFacts DEF Goes
<1>5. GivesUp(t, Idle)
  BY DEF Raise, GivesUp
<1> QED BY <1>4, <1>5 DEF Does

LEMMA LoseKind ==
  ASSUME Inv, NEW t \in Tasks, LostError(t) \/ LostResult(t)
  PROVE  \E j, rest : Goes(t, j, rest) /\ Does(t, j)
<1>1. /\ job[t].stage = "fetch" /\ fetched' = fetched + 1 /\ job' = [job EXCEPT ![t] = Idle]
      /\ UNCHANGED <<wire, retained, store>> /\ cut \subseteq cut'
      /\ said' = [said EXCEPT ![job[t].acct] = FALSE]
  BY DEF LostError, LostResult
<1>2. job[t].acct \in Accounts /\ job[t].res = NoResult
  BY <1>1 DEF Inv, PublicationInv, Shape, JobOK
<1>3. \A a \in Accounts : a # job[t].acct => failed'[a] = failed[a]
  BY DEF LostError, LostResult, Inv, Typed, TypeOK
<1>4. GoOn(t, Idle, wire) /\ IsJob(Idle)
  BY <1>1, GoesIdle
<1>5. Goes(t, Idle, wire)
  BY <1>1, <1>4, NotOnWire, IdleTyped, IdleReady, IdleFacts DEF Goes
<1>6. Loses(t, Idle)
  BY <1>1, <1>2, <1>3 DEF Loses
<1> QED BY <1>5, <1>6 DEF Does

LEMMA StepKinds ==
  ASSUME Inv, Step
  PROVE  Restart \/ \E t \in Tasks : \E j, rest : Goes(t, j, rest) /\ Does(t, j)
<1>1. CASE StartCycle
  <2>1. 1 \in Accounts
    BY NumAccountsAssumption DEF Accounts
  <2>2. /\ job[Main] = Idle /\ job' = [job EXCEPT ![Main] = Fetching(1)]
        /\ UNCHANGED <<fetched, wire, retained, store, failed, said, cut>>
    BY <1>1 DEF StartCycle
  <2> QED BY <2>1, <2>2, TaskFacts, BeginKind
<1>2. CASE \E a \in Accounts : StartRefresh(a)
  <2>1. PICK a \in Accounts : StartRefresh(a)
    BY <1>2
  <2>2. /\ job[a] = Idle /\ job[Main].stage # "startup" /\ job' = [job EXCEPT ![a] = Fetching(a)]
        /\ UNCHANGED <<fetched, wire, retained, store, failed, said, cut>>
    BY <2>1 DEF StartRefresh
  <2> QED BY <2>2, TaskFacts, BeginKind
<1>3. CASE \E t \in Tasks : \E twin \in Shapes : FetchOk(t, twin)
  BY <1>3, FetchOkKind
<1>4. CASE \E t \in Tasks : FetchFail(t)
  BY <1>4, FetchFailKind
<1>5. CASE \E t \in Tasks : Raise(t)
  BY <1>5, RaiseKind
<1>6. CASE Ack
  BY <1>6, AckKind
<1>7. CASE Restart
  BY <1>7
<1>8. CASE \E t \in Tasks : LostError(t) \/ LostResult(t)
  BY <1>8, LoseKind
<1> QED BY <1>1, <1>2, <1>3, <1>4, <1>5, <1>6, <1>7, <1>8 DEF Step

\* What a restart leaves.
LEMMA RestartFacts ==
  ASSUME Inv, Restart, NEW m, m = StartupMessages(store)
  PROVE  /\ m \in Seq(Message)
         /\ \A n : n \in Range(m)
                  <=> \E a \in Accounts : store[a] # NoResult /\ n \in Range(Messages(a, store[a]))
         /\ \/ /\ m = <<>> /\ \A t \in Tasks : job'[t] = Idle
               /\ wire' = <<>> /\ retained' = retained
            \/ /\ m # <<>>
               /\ Head(m) \in Message /\ Tail(m) \in Seq(Message)
               /\ job'[Main] = Starting(Tail(m)) /\ \A t \in Tasks \ {Main} : job'[t] = Idle
               /\ wire' = <<Main>>
               /\ retained' = [retained EXCEPT ![Head(m).topic] = Head(m).payload]
<1>1. store \in [Accounts -> Result \union {NoResult}]
  BY DEF Inv, Typed, TypeOK
<1>2. /\ m \in Seq(Message)
      /\ \A n : n \in Range(m)
               <=> \E a \in Accounts : store[a] # NoResult /\ n \in Range(Messages(a, store[a]))
  BY <1>1, StartupFacts
<1>3. m # <<>> => Head(m) \in Message /\ Tail(m) \in Seq(Message)
  BY <1>2, HeadTailProperties
<1>4. \/ /\ m = <<>> /\ job' = [t \in Tasks |-> Idle] /\ wire' = <<>> /\ retained' = retained
      \/ /\ m # <<>>
         /\ job' = [t \in Tasks |-> IF t = Main THEN Starting(Tail(m)) ELSE Idle]
         /\ wire' = <<Main>>
         /\ retained' = [retained EXCEPT ![Head(m).topic] = Head(m).payload]
  BY DEF Restart
<1> QED BY <1>2, <1>3, <1>4, TaskFacts

LEMMA RestartFlow ==
  ASSUME Inv, Restart
  PROVE  Flow'
<1> DEFINE m == StartupMessages(store)
<1>1. \/ /\ \A t \in Tasks : job'[t] = Idle
         /\ wire' = <<>>
      \/ /\ job'[Main] = Starting(Tail(m)) /\ \A t \in Tasks \ {Main} : job'[t] = Idle
         /\ wire' = <<Main>>
  BY RestartFacts
<1>2. \A t : JobSends(t, Idle) /\ Idle.stage = "idle"
  BY DEF JobSends, Idle
<1>3. \A n : JobSends(Main, Starting(n)) /\ Starting(n).stage = "startup"
  BY DEF JobSends, Starting
<1>4. \A t \in Tasks : JobSends(t, job'[t])
  BY <1>1, <1>2, <1>3
<1>5. Queue'
  <2>1. CASE /\ \A t \in Tasks : job'[t] = Idle
             /\ wire' = <<>>
    <3>1. Len(wire') = 0
      BY <2>1
    <3> QED BY <1>2, <2>1, <3>1 DEF Queue, Once, OnWire
  <2>2. CASE /\ job'[Main] = Starting(Tail(m)) /\ \A t \in Tasks \ {Main} : job'[t] = Idle
             /\ wire' = <<Main>>
    <3>1. Len(wire') = 1 /\ wire'[1] = Main
      BY <2>2
    <3>2. Once(wire') /\ \A t \in Tasks : OnWire(wire', t) <=> t = Main
      BY <3>1 DEF Once, OnWire
    <3> QED BY <1>2, <1>3, <2>2, <3>2 DEF Queue
  <2> QED BY <1>1, <2>1, <2>2
<1> QED BY <1>4, <1>5 DEF Flow

LEMMA InitInv == Init => Inv
  BY InitPublication, InitTyped, InitFlow DEF Inv

LEMMA NextInv == Inv /\ [Next]_vars => Inv'
<1> SUFFICES ASSUME Inv, [Next]_vars PROVE Inv'
  OBVIOUS
<1>1. PublicationInv' /\ Typed'
  BY NextPublication, NextTyped DEF Inv
<1>2. Flow'
  <2>1. CASE UNCHANGED vars
    BY <2>1 DEF Inv, Flow, Queue, vars
  <2>2. CASE Restart
    BY <2>2, RestartFlow
  <2>3. CASE \E t \in Tasks : \E j, rest : Goes(t, j, rest) /\ Does(t, j)
    <3>1. DOMAIN job = Tasks
      BY DEF Inv, PublicationInv, Shape
    <3> QED BY <2>3, <3>1, FlowStep DEF Goes, Inv
  <2> QED BY <2>1, <2>2, <2>3, StepKinds DEF Next
<1> QED BY <1>1, <1>2 DEF Inv

-----------------------------------------------------------------------------
(* Of two fetches of an account the newer one does not overtake the older.   *)

\* How many messages of its result a task has sent.
Sent(t) == Len(Messages(job[t].acct, job[t].res)) - Len(job[t].msgs)

\* A task with an older result of an account than another's is ahead of it; and
\* it is behind state.json only if it has more messages to send.
Ahead(t, u) ==
  \A a \in Accounts : Holds(t, a) /\ Holds(u, a) /\ job[t].res.at < job[u].res.at =>
    Sent(t) > Sent(u) \/ (Sent(t) = Sent(u) /\ Before(wire, t, u))

Behind(t) ==
  \A a \in Accounts : Holds(t, a) /\ job[t].res.at < store[a].at =>
    a \in overlapped /\ job[t].res.twin /\ ~store[a].twin /\ Sent(t) > 2

Order == \A t \in Tasks : Behind(t) /\ \A u \in Tasks : Ahead(t, u)

\* Of a task with a result.
LEMMA HoldFacts ==
  ASSUME Inv, NEW t \in Tasks, NEW a \in Accounts, Holds(t, a)
  PROVE  /\ job[t].res \in Result /\ job[t].acct = a
         /\ job[t].res.at \in Nat /\ job[t].res.at <= fetched
         /\ job[t].stage = "publish" /\ OnWire(wire, t)
         /\ Len(Messages(job[t].acct, job[t].res)) = IF job[t].res.twin THEN 4 ELSE 2
         /\ Len(job[t].msgs) \in Nat /\ Suffix(job[t].msgs, Messages(a, job[t].res))
         /\ Sent(t) \in Nat /\ Sent(t) >= 1
         /\ Sent(t) + Len(job[t].msgs) = IF job[t].res.twin THEN 4 ELSE 2
<1> DEFINE L == Len(Messages(job[t].acct, job[t].res))
           n == Len(job[t].msgs)
<1>1. job[t].res \in Result /\ job[t].acct = a
  BY TypedJobs DEF Holds, Inv, Typed, JobTyped
<1>2. job[t].res.at \in Nat /\ job[t].res.at <= fetched
  BY <1>1, MaxFetchesAssumption DEF Result, Inv, Typed, Dates
<1>3. job[t].stage = "publish" /\ OnWire(wire, t)
  BY DEF Holds, Inv, PublicationInv, Shape, JobOK, Flow, Queue
<1>4. L = IF job[t].res.twin THEN 4 ELSE 2
  BY <1>1, MessagesFacts
<1>5. n \in Nat /\ n < L /\ Suffix(job[t].msgs, Messages(a, job[t].res))
  <2>1. job[t].msgs \in Seq(Message)
    BY TypedJobs DEF Inv, Typed, JobTyped
  <2> QED BY <1>1, <2>1 DEF Holds, Inv, Flow, JobSends
<1>6. Sent(t) = L - n
  BY DEF Sent
<1> HIDE DEF L, n
<1>7. L \in Nat
  BY <1>4
<1>8. Sent(t) \in Nat /\ Sent(t) >= 1 /\ Sent(t) + n = L
  BY <1>5, <1>6, <1>7
<1> QED BY <1>1, <1>2, <1>3, <1>4, <1>5, <1>8 DEF L, n

\* What does not change for the tasks that do not go on.
LEMMA OtherTasks ==
  ASSUME Inv, NEW t \in Tasks, NEW j, NEW rest, Goes(t, j, rest)
  PROVE  /\ \A u \in Tasks \ {t} : /\ job'[u] = job[u] /\ Sent(u)' = Sent(u)
                                   /\ \A a : Holds(u, a)' <=> Holds(u, a)
         /\ \A u, v \in Tasks \ {t} : Before(wire, u, v) => Before(wire', u, v)
         /\ \A a : Holds(t, a)' <=> j.acct = a /\ j.res # NoResult
         /\ job'[t].acct = j.acct /\ job'[t].res = j.res
<1>1. DOMAIN job = Tasks
  BY DEF Inv, PublicationInv, Shape
<1>2. /\ IsJob(j) /\ Without(wire, t, rest) /\ GoOn(t, j, rest) /\ rest \in Seq(Tasks)
  BY DEF Goes, Without
<1>3. /\ \A u \in Tasks \ {t} : job'[u] = job[u]
      /\ job'[t].acct = j.acct /\ job'[t].res = j.res
  BY <1>1, <1>2, GoOnJob
<1>4. \A u, v \in Tasks \ {t} : Before(wire, u, v) => Before(wire', u, v)
  BY <1>1, <1>2, WireStep
<1> QED BY <1>3, <1>4 DEF Sent, Holds

\* What does change for the one that does, when it sends.
LEMMA TaskSends ==
  ASSUME Inv, NEW t \in Tasks, NEW j, NEW rest, Goes(t, j, rest), j.msgs # <<>>
  PROVE  /\ job'[t].stage = j.stage /\ job'[t].msgs = Tail(j.msgs)
         /\ Len(job'[t].msgs) = Len(j.msgs) - 1 /\ Len(j.msgs) \in Nat
         /\ retained' = [retained EXCEPT ![Head(j.msgs).topic] = Head(j.msgs).payload]
         /\ Head(j.msgs) \in Message
         /\ \A u \in Tasks \ {t} : OnWire(wire, u) => Before(wire', u, t)
<1>1. DOMAIN job = Tasks
  BY DEF Inv, PublicationInv, Shape
<1>2. /\ IsJob(j) /\ Without(wire, t, rest) /\ GoOn(t, j, rest) /\ j.msgs \in Seq(Message)
  BY DEF Goes, JobTyped
<1>3. /\ job'[t] = [stage |-> j.stage, acct |-> j.acct, res |-> j.res, msgs |-> Tail(j.msgs)]
      /\ retained' = [retained EXCEPT ![Head(j.msgs).topic] = Head(j.msgs).payload]
  BY <1>1, <1>2, GoOnSent
<1>4. \A u \in Tasks \ {t} : OnWire(wire, u) => Before(wire', u, t)
  BY <1>1, <1>2, WireStep
<1>5. /\ Len(Tail(j.msgs)) = Len(j.msgs) - 1 /\ Len(j.msgs) \in Nat /\ Head(j.msgs) \in Message
  BY <1>2, HeadTailProperties
<1> QED BY <1>3, <1>4, <1>5

\* A step in which t does not send for a result it holds.
LEMMA OrderOthers ==
  ASSUME Inv, Order, NEW t \in Tasks, NEW j, NEW rest, Goes(t, j, rest),
         NEW u \in Tasks \ {t}, NEW v \in Tasks \ {t}
  PROVE  Ahead(u, v)'
<1>1. Ahead(u, v)
  BY DEF Order
<1> QED BY <1>1, OtherTasks DEF Ahead

\* No step but a save can put state.json before a task.
LEMMA BehindOthers ==
  ASSUME Inv, Order, NEW t \in Tasks, NEW j, NEW rest, Goes(t, j, rest),
         overlapped \subseteq overlapped', store' = store, NEW u \in Tasks \ {t}
  PROVE  Behind(u)'
<1>1. Behind(u)
  BY DEF Order
<1> QED BY <1>1, OtherTasks DEF Behind

LEMMA OrderRests ==
  ASSUME Inv, Order, NEW t \in Tasks, NEW j, NEW rest, Goes(t, j, rest),
         overlapped \subseteq overlapped', store' = store, j.res = NoResult
  PROVE  Order'
<1>1. \A a : ~Holds(t, a)'
  BY OtherTasks
<1>2. \A u \in Tasks : Behind(u)'
  BY <1>1, BehindOthers DEF Behind
<1>3. \A u, v \in Tasks : Ahead(u, v)'
  BY <1>1, OrderOthers DEF Ahead
<1> QED BY <1>2, <1>3 DEF Order

\* The fetch that has just ended is the newest of all and the last on the wire.
LEMMA OrderFetches ==
  ASSUME Inv, Inv', Order, NEW t \in Tasks, NEW j, NEW rest, Goes(t, j, rest), Fetches(t, j),
         overlapped \subseteq overlapped'
  PROVE  Order'
<1>1. /\ j.res \in Result /\ j.res # NoResult /\ j.res.at = fetched + 1 /\ store' = store
      /\ j.acct \in Accounts /\ fetched \in Nat
  BY NoResultFacts DEF Fetches, Inv, PublicationInv, Shape
<1>2. j.msgs # <<>>
  BY DEF Goes, Ready, Fetches
<1>3. \A u \in Tasks \ {t} : OnWire(wire, u) => Before(wire', u, t)
  BY <1>2, TaskSends
<1>4. Sent(t)' = 1
  <2>1. /\ job'[t].acct = j.acct /\ job'[t].res = j.res
    BY OtherTasks
  <2>2. Len(job'[t].msgs) = Len(Messages(j.acct, j.res)) - 1
    BY <1>2, TaskSends DEF Fetches
  <2> DEFINE M == Messages(j.acct, j.res)
  <2>3. Len(M) = IF j.res.twin THEN 4 ELSE 2
    BY <1>1, MessagesFacts
  <2>4. Sent(t)' = Len(M) - Len(job'[t].msgs)
    BY <2>1 DEF Sent
  <2> HIDE DEF M
  <2>5. Len(job'[t].msgs) = Len(M) - 1
    BY <2>2 DEF M
  <2>6. Len(M) \in Nat
    BY <2>3
  <2> QED BY <2>4, <2>5, <2>6
<1>5. \A a \in Accounts : store[a].at \in Nat /\ store[a].at <= fetched
  BY NoResultFacts DEF Inv, Typed, TypeOK, Dates, Result
<1>6. job'[t].res.at = fetched + 1
  BY <1>1, OtherTasks
<1>7. Behind(t)'
  BY <1>1, <1>5, <1>6 DEF Behind
<1>8. ASSUME NEW u \in Tasks \ {t} PROVE Ahead(u, t)' /\ Ahead(t, u)'
  <2> SUFFICES ASSUME NEW a \in Accounts, Holds(u, a)', Holds(t, a)'
               PROVE  /\ Sent(u)' > Sent(t)' \/ (Sent(u)' = Sent(t)' /\ Before(wire', u, t))
                      /\ ~(job'[t].res.at < job'[u].res.at)
    BY DEF Ahead
  <2>1. Holds(u, a) /\ Sent(u)' = Sent(u) /\ job'[u] = job[u]
    BY OtherTasks
  <2>2. /\ job[u].res.at \in Nat /\ job[u].res.at <= fetched
        /\ OnWire(wire, u) /\ Sent(u) \in Nat /\ Sent(u) >= 1
    BY <2>1, HoldFacts
  <2>3. Before(wire', u, t)
    BY <1>3, <2>2
  <2>4. Sent(u)' > Sent(t)' \/ Sent(u)' = Sent(t)'
    BY <1>4, <2>1, <2>2
  <2>5. ~(job'[t].res.at < job'[u].res.at)
    BY <1>1, <1>6, <2>1, <2>2
  <2> QED BY <2>3, <2>4, <2>5
<1>9. Ahead(t, t)'
  BY <1>1, <1>6 DEF Ahead
<1>10. \A u, v \in Tasks : Ahead(u, v)'
  BY <1>8, <1>9, OrderOthers
<1>11. \A u \in Tasks : Behind(u)'
  BY <1>1, <1>7, BehindOthers
<1> QED BY <1>10, <1>11 DEF Order

\* Acks come in the order of the messages: who gets one was before all others,
\* and is behind them when it has sent again.
LEMMA OrderSendsMore ==
  ASSUME Inv, Inv', Order, NEW t \in Tasks, NEW j, NEW rest, Goes(t, j, rest), SendsMore(t, j),
         overlapped \subseteq overlapped'
  PROVE  Order'
<1>1. /\ j = job[t] /\ j.msgs # <<>> /\ store' = store
      /\ \A u : ~Before(wire, u, t)
  BY DEF SendsMore, Acked
<1>2. \A u \in Tasks \ {t} : OnWire(wire, u) => Before(wire', u, t)
  BY <1>1, TaskSends
<1>3. \A a : Holds(t, a)' <=> Holds(t, a)
  BY <1>1, OtherTasks DEF Holds
<1>4. ASSUME NEW a \in Accounts, Holds(t, a) PROVE Sent(t)' = Sent(t) + 1
  <2>1. /\ job'[t].acct = job[t].acct /\ job'[t].res = job[t].res
    BY <1>1, OtherTasks
  <2>2. Len(job'[t].msgs) = Len(job[t].msgs) - 1 /\ Len(job[t].msgs) \in Nat
    BY <1>1, TaskSends
  <2> DEFINE M == Messages(job[t].acct, job[t].res)
  <2>3. Len(M) \in Nat
    <3>1. Len(M) = IF job[t].res.twin THEN 4 ELSE 2
      BY <1>4, HoldFacts
    <3> HIDE DEF M
    <3> QED BY <3>1
  <2>4. Sent(t) = Len(M) - Len(job[t].msgs) /\ Sent(t)' = Len(M) - Len(job'[t].msgs)
    BY <2>1 DEF Sent
  <2> HIDE DEF M
  <2> QED BY <2>2, <2>3, <2>4
<1>5. job'[t].res = job[t].res
  BY <1>1, OtherTasks
<1>6. Behind(t)'
  <2> SUFFICES ASSUME NEW a \in Accounts, Holds(t, a), job[t].res.at < store[a].at
               PROVE  a \in overlapped' /\ job[t].res.twin /\ ~store[a].twin /\ Sent(t)' > 2
    BY <1>1, <1>3, <1>5 DEF Behind
  <2>1. a \in overlapped /\ job[t].res.twin /\ ~store[a].twin /\ Sent(t) > 2
    BY DEF Order, Behind
  <2>2. Sent(t) \in Nat
    BY HoldFacts
  <2> QED BY <1>4, <2>1, <2>2
<1>7. ASSUME NEW u \in Tasks \ {t} PROVE Ahead(u, t)' /\ Ahead(t, u)'
  <2> SUFFICES ASSUME NEW a \in Accounts, Holds(u, a)', Holds(t, a)'
               PROVE  /\ job'[u].res.at < job'[t].res.at =>
                           Sent(u)' > Sent(t)' \/ (Sent(u)' = Sent(t)' /\ Before(wire', u, t))
                      /\ job'[t].res.at < job'[u].res.at => Sent(t)' > Sent(u)'
    BY DEF Ahead
  <2>1. Holds(u, a) /\ Sent(u)' = Sent(u) /\ job'[u] = job[u] /\ Holds(t, a)
    BY <1>3, OtherTasks
  <2>2. OnWire(wire, u) /\ Sent(u) \in Nat /\ Sent(t) \in Nat /\ Sent(t)' = Sent(t) + 1
    BY <1>4, <2>1, HoldFacts
  <2>3. job[u].res.at < job[t].res.at => Sent(u) > Sent(t)
    BY <1>1, <2>1 DEF Order, Ahead
  <2>4. job[t].res.at < job[u].res.at => Sent(t) > Sent(u) \/ Sent(t) = Sent(u)
    BY <2>1 DEF Order, Ahead
  <2>5. Before(wire', u, t)
    BY <1>2, <2>2
  <2>6. ASSUME job'[u].res.at < job'[t].res.at
        PROVE  Sent(u)' > Sent(t)' \/ Sent(u)' = Sent(t)'
    BY <1>5, <2>1, <2>2, <2>3, <2>6
  <2>7. ASSUME job'[t].res.at < job'[u].res.at PROVE Sent(t)' > Sent(u)'
    BY <1>5, <2>1, <2>2, <2>4, <2>7
  <2> QED BY <2>5, <2>6, <2>7
<1>8. Ahead(t, t)'
  BY <1>3, <1>5, HoldFacts DEF Ahead
<1>9. \A u, v \in Tasks : Ahead(u, v)'
  BY <1>7, <1>8, OrderOthers
<1>10. \A u \in Tasks : Behind(u)'
  BY <1>1, <1>6, BehindOthers
<1> QED BY <1>9, <1>10 DEF Order

\* Who saves first of two has sent all its messages, and the other one, if it is
\* older, even more.
LEMMA OrderSaves ==
  ASSUME Inv, Inv', Order, NEW t \in Tasks, NEW j, NEW rest, Goes(t, j, rest), Saves(t, j),
         overlapped \subseteq overlapped'
  PROVE  Order'
<1>1. j.res = NoResult
  BY NextJobFacts DEF Saves, Inv
<1>2. CASE job[t].res = NoResult
  <2>1. store' = store
    BY <1>2 DEF Saves
  <2> QED BY <1>1, <2>1, OrderRests
<1>3. CASE job[t].res # NoResult
  <2> DEFINE a == job[t].acct
  <2>0. store' = [store EXCEPT ![a] = job[t].res]
    BY <1>3 DEF Saves
  <2>1. a \in Accounts /\ Holds(t, a)
    BY <1>3 DEF Holds, Inv, PublicationInv, Shape, JobOK
  <2>2. /\ store'[a] = job[t].res
        /\ \A b \in Accounts : b # a => store'[b] = store[b]
    BY <2>0, <2>1 DEF Inv, Typed, TypeOK
  <2>3. \A b : ~Holds(t, b)'
    BY <1>1, OtherTasks
  <2>4. Sent(t) = IF job[t].res.twin THEN 4 ELSE 2
    <3>1. Len(job[t].msgs) = 0
      BY DEF Saves
    <3>2. Sent(t) \in Nat /\ Sent(t) + Len(job[t].msgs) = IF job[t].res.twin THEN 4 ELSE 2
      BY <2>1, HoldFacts
    <3> QED BY <3>1, <3>2
  <2>5. ASSUME NEW u \in Tasks \ {t} PROVE Behind(u)'
    <3> SUFFICES ASSUME NEW b \in Accounts, Holds(u, b)', job'[u].res.at < store'[b].at
                 PROVE  /\ b \in overlapped' /\ job'[u].res.twin /\ ~store'[b].twin
                        /\ Sent(u)' > 2
      BY DEF Behind
    <3>1. Holds(u, b) /\ job'[u] = job[u] /\ Sent(u)' = Sent(u)
      BY OtherTasks
    <3>2. CASE b # a
      BY <2>2, <3>1, <3>2 DEF Order, Behind
    <3>3. CASE b = a
      <4>1. a \in overlapped
        BY <2>1, <3>1, <3>3, TwoTasks DEF Holds, Inv, PublicationInv
      <4>2. Sent(u) > Sent(t) \/ (Sent(u) = Sent(t) /\ Before(wire, u, t))
        BY <2>1, <2>2, <3>1, <3>3 DEF Order, Ahead
      <4>3. Sent(u) > Sent(t)
        BY <4>2 DEF Saves, Acked
      <4>4. /\ Sent(u) \in Nat /\ Len(job[u].msgs) \in Nat /\ job[u].res \in Result
            /\ Sent(u) + Len(job[u].msgs) = IF job[u].res.twin THEN 4 ELSE 2
        BY <3>1, HoldFacts
      <4>5. job[u].res.twin /\ ~job[t].res.twin /\ Sent(u) > 2
        BY <2>4, <4>3, <4>4
      <4> QED BY <2>2, <3>1, <3>3, <4>1, <4>5
    <3> QED BY <3>2, <3>3
  <2>6. Behind(t)' /\ \A u \in Tasks : Ahead(t, u)' /\ Ahead(u, t)'
    BY <2>3 DEF Behind, Ahead
  <2>7. \A u, v \in Tasks : Ahead(u, v)'
    BY <2>6, OrderOthers
  <2> QED BY <2>5, <2>6, <2>7 DEF Order
<1> QED BY <1>2, <1>3

LEMMA OrderRestart ==
  ASSUME Inv, Restart
  PROVE  Order'
<1>1. \A t \in Tasks : job'[t].res = NoResult
  <2>1. \A m : Starting(m).res = NoResult
    BY DEF Starting
  <2> QED BY <2>1, RestartFacts, IdleFacts
<1>2. \A t \in Tasks : \A a : ~Holds(t, a)'
  BY <1>1 DEF Holds
<1> QED BY <1>2 DEF Order, Ahead, Behind

LEMMA InitOrder == Init => Order
<1> SUFFICES ASSUME Init PROVE Order
  OBVIOUS
<1>1. \A t \in Tasks : \A a : ~Holds(t, a)
  BY IdleFacts DEF Init, Holds
<1> QED BY <1>1 DEF Order, Ahead, Behind

LEMMA NextOrder == Inv /\ Inv' /\ Order /\ [Next]_vars => Order'
<1> SUFFICES ASSUME Inv, Inv', Order, [Next]_vars PROVE Order'
  OBVIOUS
<1>1. CASE UNCHANGED vars
  <2>1. job' = job /\ store' = store /\ overlapped' = overlapped /\ wire' = wire
    BY <1>1 DEF vars
  <2>2. \A t \in Tasks : Sent(t)' = Sent(t) /\ \A a : Holds(t, a)' <=> Holds(t, a)
    BY <2>1 DEF Sent, Holds
  <2>3. \A t \in Tasks : Behind(t)'
    BY <2>1, <2>2 DEF Order, Behind
  <2>4. \A t, u \in Tasks : Ahead(t, u)'
    BY <2>1, <2>2 DEF Order, Ahead
  <2> QED BY <2>3, <2>4 DEF Order
<1>2. CASE Restart
  BY <1>2, OrderRestart
<1>3. ASSUME NEW t \in Tasks, NEW j, NEW rest, Goes(t, j, rest), Does(t, j),
             overlapped \subseteq overlapped'
      PROVE  Order'
  <2>1. CASE Begins(t, j)
    <3>1. store' = store /\ j.res = NoResult
      BY <2>1, FetchingFacts DEF Begins
    <3> QED BY <1>3, <3>1, OrderRests
  <2>2. CASE Fetches(t, j)
    BY <1>3, <2>2, OrderFetches
  <2>3. CASE Fails(t, j)
    <3>1. store' = store /\ j.res = NoResult
      BY <2>3 DEF Fails
    <3> QED BY <1>3, <3>1, OrderRests
  <2>4. CASE SendsMore(t, j)
    BY <1>3, <2>4, OrderSendsMore
  <2>5. CASE Saves(t, j)
    BY <1>3, <2>5, OrderSaves
  <2>6. CASE GivesUp(t, j)
    <3>1. store' = store /\ j.res = NoResult
      BY <2>6, IdleFacts DEF GivesUp
    <3> QED BY <1>3, <3>1, OrderRests
  <2>7. CASE Loses(t, j)
    <3>1. store' = store /\ j.res = NoResult
      BY <2>7, IdleFacts DEF Loses
    <3> QED BY <1>3, <3>1, OrderRests
  <2> QED BY <1>3, <2>1, <2>2, <2>3, <2>4, <2>5, <2>6, <2>7 DEF Does
<1>4. CASE Next
  <2>1. overlapped \subseteq overlapped' /\ Step
    BY <1>4 DEF Next
  <2> QED BY <1>2, <1>3, <2>1, StepKinds
<1> QED BY <1>1, <1>4

LEMMA StepNotOlder ==
  ASSUME Inv, Order, [Next]_vars
  PROVE  \A a \in Accounts : \/ store'[a].at >= store[a].at
                             \/ a \in overlapped /\ store'[a].twin /\ ~store[a].twin
<1>0. \A a \in Accounts : store[a].at \in Nat
  BY NoResultFacts DEF Inv, Typed, TypeOK, Result
<1>1. CASE store' = store
  BY <1>0, <1>1
<1>2. ASSUME NEW t \in Tasks, NEW j, Does(t, j), store' # store
      PROVE  \A a \in Accounts : \/ store'[a].at >= store[a].at
                                 \/ a \in overlapped /\ store'[a].twin /\ ~store[a].twin
  <2> DEFINE a == job[t].acct
  <2>1. store' = [store EXCEPT ![a] = job[t].res] /\ job[t].res # NoResult
    BY <1>2 DEF Does, Begins, Fetches, Fails, Loses, SendsMore, Saves, GivesUp
  <2>2. a \in Accounts /\ Holds(t, a)
    BY <2>1 DEF Holds, Inv, PublicationInv, Shape, JobOK
  <2>3. /\ store'[a] = job[t].res
        /\ \A b \in Accounts : b # a => store'[b] = store[b]
    BY <2>1, <2>2 DEF Inv, Typed, TypeOK
  <2>4. job[t].res.at \in Nat
    BY <2>2, HoldFacts
  <2>5. job[t].res.at < store[a].at => a \in overlapped /\ job[t].res.twin /\ ~store[a].twin
    BY <2>2 DEF Order, Behind
  <2> HIDE DEF a
  <2> QED BY <1>0, <2>2, <2>3, <2>4, <2>5
<1>3. CASE UNCHANGED vars
  BY <1>1, <1>3 DEF vars
<1>4. CASE Next
  <2>1. Step
    BY <1>4 DEF Next
  <2>2. CASE Restart
    <3>1. store' = store
      BY <2>2 DEF Restart
    <3> QED BY <1>1, <3>1
  <2>3. CASE \E t \in Tasks : \E j, rest : Goes(t, j, rest) /\ Does(t, j)
    BY <1>1, <1>2, <2>3
  <2> QED BY <2>1, <2>2, <2>3, StepKinds
<1> QED BY <1>3, <1>4

\* A save never replaces a result of state.json by an older one, whichever task
\* saves (scheduler.py:195-199): two fetches of an account publish and save in
\* the order in which they ended, unless the older one has more messages.
THEOREM SavesInOrder == Spec => StoreNotOlder
<1>1. Inv /\ Order /\ [Next]_vars =>
        [\A a \in Accounts : \/ store'[a].at >= store[a].at
                             \/ a \in overlapped /\ store'[a].twin /\ ~store[a].twin]_vars
  BY StepNotOlder
<1> QED BY <1>1, InitInv, NextInv, InitOrder, NextOrder, PTL DEF Spec, StoreNotOlder

-----------------------------------------------------------------------------
(* What the broker is sent.                                                  *)

\* The next message of a result is one of its messages, and the second is the
\* state of the account.
LEMMA NextMessage ==
  ASSUME NEW a \in Accounts, NEW r \in Result, NEW s \in Seq(Message), s # <<>>,
         Suffix(s, Messages(a, r))
  PROVE  /\ Head(s) \in Range(Messages(a, r)) /\ Head(s).topic[2] = a
         /\ Head(s).topic = <<"state", a>> =>
              Head(s).payload = Success(r) /\ Len(Messages(a, r)) - Len(s) = 1
<1> DEFINE M == Messages(a, r)
<1>1. /\ M \in Seq(Message) /\ Len(M) = IF r.twin THEN 4 ELSE 2
      /\ M[1] = [topic |-> <<"config", a>>, payload |-> Config]
      /\ M[2] = [topic |-> <<"state", a>>, payload |-> Success(r)]
      /\ r.twin =>
           /\ M[3] = [topic |-> <<"twinConfig", a>>, payload |-> Config]
           /\ M[4] = [topic |-> <<"twinState", a>>, payload |-> Success(r)]
  BY MessagesFacts
<1>2. \A m \in Range(M) : m.topic[2] = a /\ (m.topic # <<"state", a>> \/ m.payload = Success(r))
  BY TopicsDiffer
<1>3. Suffix(s, M)
  OBVIOUS
<1> HIDE DEF M
<1>4. /\ Head(s) = M[Len(M) - Len(s) + 1] /\ Len(M) - Len(s) + 1 \in 1 .. Len(M)
  BY <1>1, <1>3, SuffixTail
<1>5. Head(s) \in Range(M)
  BY <1>1, <1>4 DEF Range
<1>6. \A i \in 1 .. Len(M) : M[i].topic = <<"state", a>> => i = 2
  <2>1. /\ M[1].topic # <<"state", a>>
        /\ r.twin => M[3].topic # <<"state", a>> /\ M[4].topic # <<"state", a>>
    BY <1>1
  <2>2. \A i \in 1 .. Len(M) : i = 1 \/ i = 2 \/ (r.twin /\ (i = 3 \/ i = 4))
    BY <1>1
  <2> QED BY <2>1, <2>2
<1>7. Head(s).topic = <<"state", a>> => Len(M) - Len(s) = 1
  <2>1. Len(M) \in Nat /\ Len(s) \in Nat
    BY <1>1
  <2>2. Head(s).topic = <<"state", a>> => Len(M) - Len(s) + 1 = 2
    BY <1>4, <1>6
  <2> QED BY <2>1, <2>2
<1> QED BY <1>2, <1>5, <1>7 DEF M

\* The retained payloads after a task has gone on.
LEMMA RetainedStep ==
  ASSUME Inv, NEW t \in Tasks, NEW j, NEW rest, Goes(t, j, rest)
  PROVE  /\ j.msgs = <<>> => retained' = retained
         /\ j.msgs # <<>> =>
              /\ \A x \in Topics : x # Head(j.msgs).topic => retained'[x] = retained[x]
              /\ retained'[Head(j.msgs).topic] = Head(j.msgs).payload
              /\ Head(j.msgs) \in Message
<1>1. retained \in [Topics -> Payload]
  BY DEF Inv, Typed, TypeOK
<1>2. CASE j.msgs = <<>>
  <2>1. GoOn(t, j, rest)
    BY DEF Goes
  <2>2. retained' = retained
    BY <1>2, <2>1, GoOnRests
  <2> QED BY <1>2, <2>2
<1>3. CASE j.msgs # <<>>
  <2> DEFINE m == Head(j.msgs)
  <2>1. m \in Message /\ retained' = [retained EXCEPT ![m.topic] = m.payload]
    BY <1>3, TaskSends
  <2> HIDE DEF m
  <2>2. m.topic \in Topics
    BY <2>1 DEF Message
  <2>3. /\ \A x \in Topics : x # m.topic => retained'[x] = retained[x]
        /\ retained'[m.topic] = m.payload
    BY <1>1, <2>1, <2>2
  <2> QED BY <1>3, <2>1, <2>3 DEF m
<1> QED BY <1>2, <1>3

\* A task that sends more without a result is the one that starts.
LEMMA Restores ==
  ASSUME Inv, NEW t \in Tasks, job[t].msgs # <<>>, job[t].res = NoResult
  PROVE  t = Main /\ job[t].stage = "startup"
  BY DEF Inv, PublicationInv, Shape, JobOK, Flow, JobSends

\* What is retained as the state of account a changes with three messages: the
\* second of a result, an error, and one of a start.
LEMMA StateSent ==
  ASSUME Inv, NEW t \in Tasks, NEW j, NEW rest, Goes(t, j, rest), Does(t, j),
         NEW a \in Accounts
  PROVE  \/ retained'[<<"state", a>>] = retained[<<"state", a>>]
         \/ /\ SendsMore(t, j) /\ Holds(t, a) /\ Sent(t) = 1
            /\ retained'[<<"state", a>>] = Success(job[t].res)
         \/ /\ Fails(t, j) /\ j.acct = a /\ a \notin Slugged
            /\ retained'[<<"state", a>>].synced = store[a].at
            /\ ~retained'[<<"state", a>>].ok
         \/ /\ SendsMore(t, j) /\ t = Main /\ j.stage = "startup"
<1> DEFINE m == Head(j.msgs)
           x == <<"state", a>>
<1>0. x \in Topics
  BY TopicFacts
<1>1. CASE j.msgs = <<>>
  BY <1>1, RetainedStep
<1>2. CASE j.msgs # <<>> /\ m.topic # x
  BY <1>0, <1>2, RetainedStep
<1>3. CASE j.msgs # <<>> /\ m.topic = x
  <2>1. retained'[x] = m.payload
    BY <1>3, RetainedStep
  <2>2. ASSUME j.res # NoResult
        PROVE  /\ j.acct = a /\ m.payload = Success(j.res)
               /\ Len(Messages(a, j.res)) - Len(j.msgs) = 1
    <3>1. /\ j.acct \in Accounts /\ j.res \in Result /\ j.msgs \in Seq(Message)
          /\ Suffix(j.msgs, Messages(j.acct, j.res))
      BY <2>2 DEF Goes, JobTyped, Ready
    <3>2. /\ m.topic[2] = j.acct
          /\ m.topic = <<"state", j.acct>> =>
               m.payload = Success(j.res) /\ Len(Messages(j.acct, j.res)) - Len(j.msgs) = 1
      BY <1>3, <3>1, NextMessage
    <3>3. j.acct = a
      BY <1>3, <3>2
    <3> QED BY <1>3, <3>2, <3>3
  <2>3. CASE Begins(t, j) \/ Loses(t, j) \/ Saves(t, j) \/ GivesUp(t, j)
    <3>1. j.msgs = <<>>
      BY <2>3 DEF Begins, Loses, Saves, GivesUp, Fetching, NextJob, Idle
    <3> QED BY <1>3, <3>1
  <2>4. CASE Fetches(t, j)
    <3>1. j.res # NoResult /\ j.acct = a /\ Len(Messages(a, j.res)) - Len(j.msgs) = 1
      BY <2>2, <2>4, NoResultFacts DEF Fetches
    <3> DEFINE L == Len(Messages(a, j.res))
    <3>2. L = Len(j.msgs)
      BY <2>4, <3>1 DEF Fetches
    <3>3. L \in Nat
      <4>1. j.msgs \in Seq(Message)
        BY DEF Goes, JobTyped
      <4> QED BY <3>2, <4>1
    <3>4. L - L = 1
      BY <3>1, <3>2
    <3> HIDE DEF L
    <3> QED BY <3>3, <3>4
  <2>5. CASE Fails(t, j)
    <3> DEFINE p == [synced |-> store[j.acct].at, attempted |-> fetched + 1, ok |-> FALSE]
    <3>1. m = [topic |-> ErrorTopic(j.acct), payload |-> p] /\ j.acct \in Accounts
      BY <2>5, Single DEF Fails
    <3> HIDE DEF m, p
    <3>2. m.topic = ErrorTopic(j.acct) /\ m.payload = p
      BY <3>1
    <3>3. j.acct = a /\ a \notin Slugged
      BY <1>3, <3>1, <3>2 DEF ErrorTopic
    <3>4. retained'[x] = p
      BY <2>1, <3>2
    <3> QED BY <2>5, <3>3, <3>4 DEF p
  <2>6. CASE SendsMore(t, j)
    <3>1. j = job[t]
      BY <2>6 DEF SendsMore
    <3>2. CASE job[t].res = NoResult
      BY <1>3, <2>6, <3>1, <3>2, Restores
    <3>3. CASE job[t].res # NoResult
      <4>1. Holds(t, a)
        BY <2>2, <3>1, <3>3 DEF Holds
      <4>2. Sent(t) = 1
        BY <2>2, <3>1, <3>3 DEF Sent
      <4>3. retained'[x] = Success(job[t].res)
        BY <2>1, <2>2, <3>1, <3>3
      <4> QED BY <2>6, <4>1, <4>2, <4>3
    <3> QED BY <3>2, <3>3
  <2> QED BY <2>3, <2>4, <2>5, <2>6 DEF Does
<1> QED BY <1>1, <1>2, <1>3

LEMMA ShownType ==
  ASSUME Inv, NEW a \in Accounts
  PROVE  Shown(a) \in Nat /\ store[a].at \in Nat
<1>1. <<"state", a>> \in Topics
  BY TopicFacts
<1> QED BY <1>1, NoResultFacts, MaxFetchesAssumption DEF Inv, Typed, TypeOK, Shown, Payload, Result

LEMMA StepMetrics ==
  ASSUME Inv, Inv', Order, [Next]_vars, NEW a \in Accounts, store[a].at >= Shown(a),
         job'[Main].stage # "startup"
  PROVE  Shown(a)' >= Shown(a)
<1>0. Shown(a) \in Nat /\ store[a].at \in Nat
  BY ShownType
<1>1. CASE retained'[<<"state", a>>] = retained[<<"state", a>>]
  BY <1>0, <1>1 DEF Shown
<1>2. CASE Restart
  <2>1. \/ retained' = retained
        \/ \E m : job'[Main] = Starting(m)
    BY <1>2, RestartFacts
  <2>2. \A m : Starting(m).stage = "startup"
    BY DEF Starting
  <2> QED BY <1>1, <2>1, <2>2
<1>3. ASSUME NEW t \in Tasks, NEW j, NEW rest, Goes(t, j, rest), Does(t, j)
      PROVE  Shown(a)' >= Shown(a)
  <2>1. CASE SendsMore(t, j) /\ Holds(t, a) /\ Sent(t) = 1
             /\ retained'[<<"state", a>>] = Success(job[t].res)
    <3>1. job[t].res \in Result /\ job[t].res.at \in Nat
      BY <2>1, HoldFacts
    <3>2. ~(job[t].res.at < store[a].at)
      BY <2>1 DEF Order, Behind
    <3>3. Shown(a)' = job[t].res.at
      BY <2>1, <3>1, PayloadFacts DEF Shown
    <3> QED BY <1>0, <3>1, <3>2, <3>3
  <2>2. CASE retained'[<<"state", a>>].synced = store[a].at
    BY <2>2 DEF Shown
  <2>3. CASE SendsMore(t, j) /\ t = Main /\ j.stage = "startup"
    <3>1. job'[t].stage = j.stage
      BY <1>3, <2>3, TaskSends DEF SendsMore
    <3> QED BY <2>3, <3>1
  <2> QED BY <1>1, <1>3, <2>1, <2>2, <2>3, StateSent
<1>4. CASE UNCHANGED vars
  BY <1>1, <1>4 DEF vars
<1>5. CASE Next
  BY <1>2, <1>3, <1>5, StepKinds DEF Next
<1> QED BY <1>4, <1>5

\* The metrics HA shows go back only while a restarted process republishes, or
\* after a fetch whose result is not persisted (scheduler.py:179-199).
THEOREM MetricsInOrder == Spec => MetricsNotOlder
<1>1. Inv /\ Inv' /\ Order /\ [Next]_vars =>
        [\A a \in Accounts :
           Shown(a)' >= Shown(a) \/ job'[Main].stage = "startup" \/ store[a].at < Shown(a)]_vars
  <2> SUFFICES ASSUME Inv, Inv', Order, [Next]_vars, NEW a \in Accounts,
                      job'[Main].stage # "startup", ~(store[a].at < Shown(a))
               PROVE  Shown(a)' >= Shown(a)
    OBVIOUS
  <2>1. store[a].at >= Shown(a)
    BY ShownType
  <2> QED BY <2>1, StepMetrics
<1> QED BY <1>1, InitInv, NextInv, InitOrder, NextOrder, PTL DEF Spec, MetricsNotOlder

-----------------------------------------------------------------------------
(* What a start restores.                                                    *)

\* Only messages of the stored results are left to send.
Known(ms) ==
  \A m \in Range(ms) : \E a \in Accounts : store[a] # NoResult /\ m \in Range(Messages(a, store[a]))

\* Those that are not left are retained.
SentBut(ms) ==
  \A a \in Accounts : store[a] # NoResult =>
    \A m \in Range(Messages(a, store[a])) : m \in Range(ms) \/ retained[m.topic] = m.payload

Startup ==
  job[Main].stage = "startup" =>
    /\ \A a \in Accounts : job[a] = Idle /\ ~said[a]
    /\ Known(job[Main].msgs) /\ SentBut(job[Main].msgs)

LEMMA InRange ==
  ASSUME NEW S, NEW q \in Seq(S)
  PROVE  \A x : x \in Range(q) <=> \E i \in 1 .. Len(q) : x = q[i]
<1>1. DOMAIN q = 1 .. Len(q)
  OBVIOUS
<1> QED BY <1>1 DEF Range

LEMMA RangeOfTail ==
  ASSUME NEW S, NEW s \in Seq(S), s # <<>>
  PROVE  \A x : x \in Range(s) <=> x = Head(s) \/ x \in Range(Tail(s))
<1>1. /\ Len(s) \in Nat \ {0} /\ Tail(s) \in Seq(S) /\ Len(Tail(s)) = Len(s) - 1
      /\ \A i \in 1 .. Len(s) - 1 : Tail(s)[i] = s[i + 1]
      /\ Head(s) = s[1]
  BY HeadTailProperties, EmptySeq
<1>2. \A q \in Seq(S) : \A x : x \in Range(q) <=> \E i \in 1 .. Len(q) : x = q[i]
  BY InRange
<1> DEFINE tail == Tail(s)
<1>3. /\ \A x : x \in Range(s) <=> \E i \in 1 .. Len(s) : x = s[i]
      /\ \A x : x \in Range(tail) <=> \E i \in 1 .. Len(tail) : x = tail[i]
  BY <1>1, <1>2
<1>4. tail = Tail(s)
  OBVIOUS
<1> HIDE DEF tail
<1>5. /\ Len(s) \in Nat \ {0} /\ Len(tail) = Len(s) - 1 /\ Head(s) = s[1]
      /\ \A i \in 1 .. Len(s) - 1 : tail[i] = s[i + 1]
  BY <1>1, <1>4
<1>6. \A i \in 1 .. Len(s) : i = 1 \/ (i - 1 \in 1 .. Len(tail) /\ s[i] = tail[i - 1])
  BY <1>5
<1>7. \A i \in 1 .. Len(tail) : i + 1 \in 1 .. Len(s) /\ tail[i] = s[i + 1]
  BY <1>5
<1>8. 1 \in 1 .. Len(s)
  BY <1>5
<1>9. \A x : x \in Range(s) => x = Head(s) \/ x \in Range(tail)
  BY <1>3, <1>5, <1>6
<1>10. \A x : x = Head(s) \/ x \in Range(tail) => x \in Range(s)
  BY <1>3, <1>5, <1>7, <1>8
<1> QED BY <1>4, <1>9, <1>10

LEMMA StoredResult ==
  ASSUME Inv, NEW a \in Accounts, store[a] # NoResult
  PROVE  store[a] \in Result
  BY DEF Inv, Typed, TypeOK

\* No message of a stored result takes back another.
LEMMA SendStored ==
  ASSUME Inv, NEW s \in Seq(Message), s # <<>>, Known(s), SentBut(s), store' = store,
         retained' = [retained EXCEPT ![Head(s).topic] = Head(s).payload]
  PROVE  Known(Tail(s))' /\ SentBut(Tail(s))'
<1> DEFINE n == Head(s)
<1>1. \A x : x \in Range(s) <=> x = n \/ x \in Range(Tail(s))
  BY RangeOfTail
<1>2. Known(Tail(s))'
  BY <1>1 DEF Known
<1>3. PICK b \in Accounts : store[b] # NoResult /\ n \in Range(Messages(b, store[b]))
  BY <1>1 DEF Known
<1>4. /\ n \in Message /\ n.topic[2] = b
      /\ \A m \in Range(Messages(b, store[b])) : m.topic = n.topic => m = n
  BY <1>3, StoredResult, TopicsDiffer
<1>5. n.topic \in Topics /\ retained \in [Topics -> Payload]
  BY <1>4 DEF Message, Inv, Typed, TypeOK
<1> HIDE DEF n
<1>6. retained' = [retained EXCEPT ![n.topic] = n.payload]
  BY DEF n
<1>7. ASSUME NEW a \in Accounts, store[a] # NoResult, NEW m \in Range(Messages(a, store[a]))
      PROVE  m \in Range(Tail(s)) \/ retained'[m.topic] = m.payload
  <2>1. m \in Range(s) \/ retained[m.topic] = m.payload
    BY <1>7 DEF SentBut
  <2>2. m.topic[2] = a /\ m \in Message
    BY <1>7, StoredResult, TopicsDiffer
  <2>3. m.topic = n.topic => m = n
    BY <1>4, <1>7, <2>2
  <2>4. m = n => retained'[m.topic] = m.payload
    BY <1>5, <1>6
  <2>5. m.topic # n.topic => retained'[m.topic] = retained[m.topic]
    <3>1. m.topic \in Topics
      BY <2>2 DEF Message
    <3> QED BY <1>5, <1>6, <3>1
  <2> QED BY <1>1, <2>1, <2>3, <2>4, <2>5
<1>8. SentBut(Tail(s))'
  BY <1>7 DEF SentBut
<1> QED BY <1>2, <1>8

LEMMA InitStartup == Init => Startup
<1> SUFFICES ASSUME Init PROVE Startup
  OBVIOUS
<1>1. job[Main].stage = "idle"
  BY TaskFacts, IdleFacts DEF Init
<1> QED BY <1>1 DEF Startup

LEMMA RestartStartup ==
  ASSUME Inv, Restart
  PROVE  Startup'
<1>0. PICK m : m = StartupMessages(store)
  OBVIOUS
<1>1. /\ m \in Seq(Message)
      /\ \A n : n \in Range(m)
               <=> \E a \in Accounts : store[a] # NoResult /\ n \in Range(Messages(a, store[a]))
  BY <1>0, RestartFacts
<1>2. \/ /\ m = <<>> /\ \A t \in Tasks : job'[t] = Idle
         /\ wire' = <<>> /\ retained' = retained
      \/ /\ m # <<>>
         /\ Head(m) \in Message /\ Tail(m) \in Seq(Message)
         /\ job'[Main] = Starting(Tail(m)) /\ \A t \in Tasks \ {Main} : job'[t] = Idle
         /\ wire' = <<Main>>
         /\ retained' = [retained EXCEPT ![Head(m).topic] = Head(m).payload]
  BY <1>0, RestartFacts
<1>3. store' = store /\ \A a \in Accounts : ~said'[a]
  BY DEF Restart
<1>4. CASE \A t \in Tasks : job'[t] = Idle
  BY <1>4, TaskFacts, IdleFacts DEF Startup
<1>5. CASE /\ m # <<>>
           /\ job'[Main] = Starting(Tail(m)) /\ \A t \in Tasks \ {Main} : job'[t] = Idle
           /\ retained' = [retained EXCEPT ![Head(m).topic] = Head(m).payload]
  <2>1. Known(m) /\ SentBut(m)
    BY <1>1 DEF Known, SentBut
  <2>2. Known(Tail(m))' /\ SentBut(Tail(m))'
    BY <1>1, <1>3, <1>5, <2>1, SendStored
  <2>3. job'[Main].msgs = Tail(m)
    BY <1>5 DEF Starting
  <2>4. \A a \in Accounts : job'[a] = Idle
    BY <1>5, TaskFacts
  <2>5. (/\ Known(job[Main].msgs) /\ SentBut(job[Main].msgs))'
    BY <2>2, <2>3 DEF Known, SentBut
  <2> QED BY <1>3, <2>4, <2>5 DEF Startup
<1> QED BY <1>2, <1>4, <1>5

\* While the main task starts nothing else goes on.
LEMMA OnlyMain ==
  ASSUME Inv, Startup, NEW t \in Tasks, NEW j, Does(t, j), job[Main].stage = "startup"
  PROVE  t = Main /\ (SendsMore(t, j) \/ Saves(t, j))
<1>1. t # Main => job[t] = Idle /\ job[t].stage = "idle"
  BY IdleFacts DEF Startup, Tasks
<1>2. OnWire(wire, t) => job[t].stage \in {"startup", "publish"}
  BY DEF Inv, Flow, Queue
<1>3. CASE t = Main
  <2>1. job[t].stage = "startup" /\ Idle.stage = "idle"
    BY <1>3, IdleFacts
  <2> QED BY <1>3, <2>1 DEF Does, Begins, Fetches, Fails, Loses, GivesUp
<1>4. CASE t # Main
  BY <1>1, <1>2, <1>4 DEF Does, Begins, Fetches, Fails, Loses, SendsMore, Saves, GivesUp, Acked
<1> QED BY <1>3, <1>4

LEMMA NextStartup == Inv /\ Startup /\ [Next]_vars => Startup'
<1> SUFFICES ASSUME Inv, Startup, [Next]_vars, job'[Main].stage = "startup" PROVE Startup'
  BY DEF Startup
<1>1. CASE UNCHANGED vars
  BY <1>1 DEF vars, Startup, Known, SentBut
<1>2. CASE Restart
  BY <1>2, RestartStartup
<1>3. ASSUME NEW t \in Tasks, NEW j, NEW rest, Goes(t, j, rest), Does(t, j) PROVE Startup'
  <2>0. DOMAIN job = Tasks /\ Main \in Tasks
    BY TaskFacts DEF Inv, PublicationInv, Shape
  <2>1. job'[t].stage = j.stage
    <3>1. IsJob(j) /\ GoOn(t, j, rest) /\ rest \in Seq(Tasks)
      BY <1>3 DEF Goes, Without
    <3> QED BY <2>0, <3>1, GoOnJob
  <2>2. job[Main].stage = "startup"
    <3>1. CASE t = Main
      <4>1. j.stage = "startup"
        BY <2>1, <3>1
      <4> QED BY <1>3, <3>1, <4>1 DEF Does, Begins, Fetches, Fails, Loses, SendsMore, Saves, GivesUp,
                                      Fetching, Idle, NextJob
    <3>2. CASE t # Main
      BY <1>3, <2>0, <3>2, OtherTasks
    <3> QED BY <3>1, <3>2
  <2>3. t = Main /\ (SendsMore(t, j) \/ Saves(t, j))
    BY <1>3, <2>2, OnlyMain
  <2>4. SendsMore(t, j)
    BY <2>1, <2>3 DEF Saves, NextJob, Idle, Fetching
  <2>5. /\ j = job[Main] /\ j.msgs # <<>> /\ store' = store /\ said' = said
    BY <2>3, <2>4 DEF SendsMore
  <2>6. /\ job'[Main].msgs = Tail(j.msgs)
        /\ retained' = [retained EXCEPT ![Head(j.msgs).topic] = Head(j.msgs).payload]
    BY <1>3, <2>3, <2>5, TaskSends
  <2>7. j.msgs \in Seq(Message) /\ Known(j.msgs) /\ SentBut(j.msgs)
    BY <1>3, <2>2, <2>5 DEF Goes, JobTyped, Startup
  <2>8. Known(Tail(j.msgs))' /\ SentBut(Tail(j.msgs))'
    <3> DEFINE s == j.msgs
    <3> HIDE DEF s
    <3>1. s \in Seq(Message) /\ s # <<>> /\ Known(s) /\ SentBut(s) /\ store' = store
          /\ retained' = [retained EXCEPT ![Head(s).topic] = Head(s).payload]
      BY <2>5, <2>6, <2>7 DEF s
    <3>2. Known(Tail(s))' /\ SentBut(Tail(s))'
      BY <3>1, SendStored
    <3> QED BY <3>2 DEF s
  <2>9. (Known(job[Main].msgs) /\ SentBut(job[Main].msgs))'
    BY <2>6, <2>8 DEF Known, SentBut
  <2>10. \A a \in Accounts : job'[a] = Idle /\ ~said'[a]
    BY <1>3, <2>2, <2>3, <2>5, TaskFacts, OtherTasks DEF Startup
  <2> QED BY <2>9, <2>10 DEF Startup
<1> QED BY <1>1, <1>2, <1>3, StepKinds DEF Next

\* The topics of account a show r, and its secondary line's do if r has one.
Matches(a, r) ==
  /\ Shown(a) = r.at /\ retained[<<"config", a>>] = Config
  /\ r.twin => /\ retained[<<"twinState", a>>].synced = r.at
               /\ retained[<<"twinConfig", a>>] = Config

\* When all messages of a result are retained its account's topics show it.
LEMMA AllSent ==
  ASSUME NEW a \in Accounts, NEW r \in Result,
         \A m \in Range(Messages(a, r)) : retained[m.topic] = m.payload
  PROVE  Matches(a, r)
<1> DEFINE M == Messages(a, r)
<1>1. /\ M \in Seq(Message) /\ Len(M) = IF r.twin THEN 4 ELSE 2
      /\ M[1] = [topic |-> <<"config", a>>, payload |-> Config]
      /\ M[2] = [topic |-> <<"state", a>>, payload |-> Success(r)]
      /\ r.twin =>
           /\ M[3] = [topic |-> <<"twinConfig", a>>, payload |-> Config]
           /\ M[4] = [topic |-> <<"twinState", a>>, payload |-> Success(r)]
  BY MessagesFacts
<1>2. \A m \in Range(M) : retained[m.topic] = m.payload
  OBVIOUS
<1> HIDE DEF M
<1>3. \A i \in 1 .. Len(M) : retained[M[i].topic] = M[i].payload
  <2>1. \A i \in 1 .. Len(M) : M[i] \in Range(M)
    <3>1. M \in Seq(Message)
      BY <1>1
    <3> QED BY <3>1, InRange
  <2> QED BY <1>2, <2>1
<1>4. 1 \in 1 .. Len(M) /\ 2 \in 1 .. Len(M) /\ (r.twin => 3 \in 1 .. Len(M) /\ 4 \in 1 .. Len(M))
  BY <1>1
<1>5. retained[<<"config", a>>] = Config /\ retained[<<"state", a>>] = Success(r)
  <2>1. retained[M[1].topic] = M[1].payload /\ retained[M[2].topic] = M[2].payload
    BY <1>3, <1>4
  <2> QED BY <1>1, <2>1
<1>6. r.twin => /\ retained[<<"twinConfig", a>>] = Config
                /\ retained[<<"twinState", a>>] = Success(r)
  <2> SUFFICES ASSUME r.twin PROVE /\ retained[<<"twinConfig", a>>] = Config
                                   /\ retained[<<"twinState", a>>] = Success(r)
    OBVIOUS
  <2>1. /\ retained[M[3].topic] = M[3].payload
        /\ retained[M[4].topic] = M[4].payload
    BY <1>3, <1>4
  <2>2. /\ M[3].topic = <<"twinConfig", a>> /\ M[3].payload = Config
        /\ M[4].topic = <<"twinState", a>> /\ M[4].payload = Success(r)
    BY <1>1
  <2> QED BY <2>1, <2>2
<1> QED BY <1>5, <1>6, PayloadFacts DEF Matches, Shown

LEMMA StepRestores ==
  ASSUME Inv, Startup, [Next]_vars, job[Main].stage = "startup", job'[Main].stage = "idle",
         NEW a \in Accounts, store[a] # NoResult
  PROVE  Matches(a, store[a])' /\ store' = store
<1>0. Main \in Tasks /\ store[a] \in Result
  BY TaskFacts, StoredResult
<1>1. ASSUME Restart PROVE FALSE
  <2>0. PICK m : m = StartupMessages(store)
    OBVIOUS
  <2>1. /\ m \in Seq(Message)
        /\ \A n \in Range(Messages(a, store[a])) : n \in Range(m)
    BY <1>1, <2>0, RestartFacts
  <2>2. m # <<>>
    <3> DEFINE M == Messages(a, store[a])
    <3>1. M \in Seq(Message) /\ Len(M) = IF store[a].twin THEN 4 ELSE 2
      BY <1>0, MessagesFacts
    <3> HIDE DEF M
    <3>2. M[1] \in Range(M)
      <4>1. 1 \in 1 .. Len(M)
        BY <3>1
      <4> QED BY <3>1, <4>1 DEF Range
    <3>3. M[1] \in Range(m)
      BY <2>1, <3>2 DEF M
    <3>4. Range(<<>>) = {}
      BY DEF Range
    <3> QED BY <3>3, <3>4
  <2>3. job'[Main] = Starting(Tail(m))
    BY <1>1, <2>0, <2>2, RestartFacts
  <2> QED BY <2>3 DEF Starting
<1>2. ASSUME UNCHANGED vars PROVE FALSE
  BY <1>2 DEF vars
<1>3. ASSUME NEW t \in Tasks, NEW j, NEW rest, Goes(t, j, rest), Does(t, j)
      PROVE  Matches(a, store[a])' /\ store' = store
  <2>1. t = Main /\ (SendsMore(t, j) \/ Saves(t, j))
    BY <1>3, OnlyMain
  <2>2. job'[t].stage = j.stage
    <3>1. IsJob(j) /\ GoOn(t, j, rest) /\ rest \in Seq(Tasks) /\ DOMAIN job = Tasks
      BY <1>3 DEF Goes, Without, Inv, PublicationInv, Shape
    <3> QED BY <3>1, GoOnJob
  <2>3. Saves(t, j)
    BY <2>1, <2>2 DEF SendsMore
  <2>4. job[t].res = NoResult /\ job[t].msgs = <<>>
    BY <2>1, <2>3 DEF Saves, Inv, PublicationInv, Shape, JobOK
  <2>5. store' = store
    BY <2>3, <2>4 DEF Saves
  <2>6. retained' = retained
    <3>1. j.msgs = <<>>
      BY <2>3 DEF Saves, NextJob, Fetching, Idle
    <3> QED BY <1>3, <3>1, RetainedStep
  <2>7. \A m \in Range(Messages(a, store[a])) : retained[m.topic] = m.payload
    <3>1. Range(<<>>) = {}
      BY DEF Range
    <3> QED BY <2>1, <2>4, <3>1 DEF Startup, SentBut
  <2>8. Matches(a, store[a])
    BY <1>0, <2>7, AllSent
  <2> QED BY <2>5, <2>6, <2>8 DEF Matches, Shown
<1> QED BY <1>1, <1>2, <1>3, StepKinds DEF Next

\* When startup is over every account with a stored result shows that result,
\* its secondary line included (scheduler.py:241-276).
THEOREM StartupCorrect == Spec => StartupRestores
<1>1. Inv /\ Startup /\ [Next]_vars =>
        [job[Main].stage = "startup" /\ job'[Main].stage = "idle" /\ Len(wire') = 0
         => \A a \in Accounts : store[a] # NoResult =>
              /\ Shown(a)' = store[a].at
              /\ store[a].twin => retained'[<<"twinState", a>>].synced = store[a].at]_vars
  <2> SUFFICES ASSUME Inv, Startup, [Next]_vars, job[Main].stage = "startup",
                      job'[Main].stage = "idle", NEW a \in Accounts, store[a] # NoResult
               PROVE  /\ Shown(a)' = store[a].at
                      /\ store[a].twin => retained'[<<"twinState", a>>].synced = store[a].at
    OBVIOUS
  <2>1. Matches(a, store[a])' /\ store' = store
    BY StepRestores
  <2> QED BY <2>1 DEF Matches
<1> QED BY <1>1, InitInv, NextInv, InitStartup, NextStartup, PTL DEF Spec, StartupRestores

-----------------------------------------------------------------------------
(* What the topics of an account show.                                       *)

\* The topic of errors of an account has that of its last fetch.
Reported(a) ==
  retained[ErrorTopic(a)] = [synced |-> store[a].at, attempted |-> failed[a], ok |-> FALSE]

AgreeAt(a) ==
  /\ \A t \in Tasks : Holds(t, a) =>
       /\ ~said[a] /\ store[a].at <= job[t].res.at
       /\ \A m \in Range(Messages(a, job[t].res)) :
            m \in Range(job[t].msgs) \/ retained[m.topic] = m.payload
  /\ a \notin cut /\ store[a] # NoResult /\ (\A t \in Tasks : ~Holds(t, a))
       => Matches(a, store[a])
  /\ store[a].at <= Shown(a)
  /\ said[a] => Reported(a)

\* While the tasks of an account take turns: what its task has sent is retained;
\* if none has a result and none was cut short the topics show what is stored;
\* nothing is stored that was not shown; and an error that was sent is there.
Agree == \A a \in Accounts \ overlapped : AgreeAt(a)

LEMMA MessagePayloads ==
  ASSUME NEW a \in Accounts, NEW r \in Result, NEW n \in Range(Messages(a, r))
  PROVE  /\ n.topic \in {<<"config", a>>, <<"twinConfig", a>>} => n.payload = Config
         /\ n.topic \in {<<"state", a>>, <<"twinState", a>>} => n.payload = Success(r)
<1> DEFINE M == Messages(a, r)
<1>1. /\ M \in Seq(Message) /\ Len(M) = IF r.twin THEN 4 ELSE 2
      /\ M[1] = [topic |-> <<"config", a>>, payload |-> Config]
      /\ M[2] = [topic |-> <<"state", a>>, payload |-> Success(r)]
      /\ r.twin =>
           /\ M[3] = [topic |-> <<"twinConfig", a>>, payload |-> Config]
           /\ M[4] = [topic |-> <<"twinState", a>>, payload |-> Success(r)]
  BY MessagesFacts
<1>2. n \in Range(M)
  OBVIOUS
<1> HIDE DEF M
<1>3. PICK i \in 1 .. Len(M) : n = M[i]
  <2>1. M \in Seq(Message)
    BY <1>1
  <2> QED BY <1>2, <2>1, InRange
<1>4. i = 1 \/ i = 2 \/ (r.twin /\ (i = 3 \/ i = 4))
  BY <1>1
<1>5. CASE i = 1
  BY <1>1, <1>3, <1>5
<1>6. CASE i = 2
  BY <1>1, <1>3, <1>6
<1>7. CASE r.twin /\ i = 3
  BY <1>1, <1>3, <1>7
<1>8. CASE r.twin /\ i = 4
  BY <1>1, <1>3, <1>8
<1> QED BY <1>4, <1>5, <1>6, <1>7, <1>8

\* Sent again, a message of what an account shows changes nothing.
LEMMA SendShown ==
  ASSUME Inv, NEW a \in Accounts, NEW r \in Result, NEW n \in Range(Messages(a, r)),
         \A x \in Topics : x # n.topic => retained'[x] = retained[x],
         retained'[n.topic] = n.payload
  PROVE  /\ Matches(a, r) => Matches(a, r)'
         /\ Shown(a)' = Shown(a) \/ Shown(a)' = r.at
<1>1. /\ n.topic \in {<<"config", a>>, <<"twinConfig", a>>} => n.payload = Config
      /\ n.topic \in {<<"state", a>>, <<"twinState", a>>} => n.payload = Success(r)
  BY MessagePayloads
<1>2. Success(r).synced = r.at
  BY PayloadFacts
<1>3. \A k \in {"config", "state", "twinConfig", "twinState"} : <<k, a>> \in Topics
  BY TopicFacts
<1>4. \A k \in {"config", "state", "twinConfig", "twinState"} :
        \/ retained'[<<k, a>>] = retained[<<k, a>>]
        \/ retained'[<<k, a>>] = n.payload /\ n.topic = <<k, a>>
  BY <1>3
<1>5. /\ \/ retained'[<<"config", a>>] = retained[<<"config", a>>]
         \/ retained'[<<"config", a>>] = Config
      /\ \/ retained'[<<"twinConfig", a>>] = retained[<<"twinConfig", a>>]
         \/ retained'[<<"twinConfig", a>>] = Config
      /\ \/ retained'[<<"state", a>>] = retained[<<"state", a>>]
         \/ retained'[<<"state", a>>] = Success(r)
      /\ \/ retained'[<<"twinState", a>>] = retained[<<"twinState", a>>]
         \/ retained'[<<"twinState", a>>] = Success(r)
  BY <1>1, <1>4
<1> QED BY <1>2, <1>5 DEF Matches, Shown

\* A step that is about another account.
Untouched(a) ==
  /\ \A u \in Tasks : (Holds(u, a)' <=> Holds(u, a)) /\ (Holds(u, a) => job'[u] = job[u])
  /\ \A x \in Topics : x[2] = a => retained'[x] = retained[x]
  /\ store'[a] = store[a] /\ said'[a] = said[a] /\ failed'[a] = failed[a]
  /\ a \in cut => a \in cut'

LEMMA UntouchedAgree ==
  ASSUME Inv, NEW a \in Accounts, AgreeAt(a), Untouched(a)
  PROVE  AgreeAt(a)'
<1>1. \A k \in {"config", "state", "twinConfig", "twinState"} :
        retained'[<<k, a>>] = retained[<<k, a>>]
  <2>1. \A k \in {"config", "state", "twinConfig", "twinState"} :
          <<k, a>> \in Topics /\ <<k, a>>[2] = a
    BY TopicFacts
  <2> QED BY <2>1 DEF Untouched
<1>2. Shown(a)' = Shown(a) /\ (Matches(a, store[a])' <=> Matches(a, store[a]))
  <2>1. /\ retained'[<<"config", a>>] = retained[<<"config", a>>]
        /\ retained'[<<"state", a>>] = retained[<<"state", a>>]
        /\ retained'[<<"twinConfig", a>>] = retained[<<"twinConfig", a>>]
        /\ retained'[<<"twinState", a>>] = retained[<<"twinState", a>>]
    BY <1>1
  <2> QED BY <2>1 DEF Matches, Shown, Untouched
<1>3. ASSUME NEW t \in Tasks, Holds(t, a)'
      PROVE  /\ ~said'[a] /\ store'[a].at <= job'[t].res.at
             /\ \A m \in Range(Messages(a, job'[t].res)) :
                  m \in Range(job'[t].msgs) \/ retained'[m.topic] = m.payload
  <2>1. Holds(t, a) /\ job'[t] = job[t]
    BY <1>3 DEF Untouched
  <2>2. job[t].res \in Result
    BY <2>1, HoldFacts
  <2>3. \A m \in Range(Messages(a, job[t].res)) : retained'[m.topic] = retained[m.topic]
    BY <2>2, TopicsDiffer DEF Untouched, Message
  <2> QED BY <2>1, <2>3 DEF Untouched, AgreeAt
<1>4. a \notin cut' /\ store'[a] # NoResult /\ (\A t \in Tasks : ~Holds(t, a)')
        => Matches(a, store[a])'
  BY <1>2 DEF Untouched, AgreeAt
<1>5. /\ store'[a].at <= Shown(a)'
      /\ said'[a] => Reported(a)'
  <2>1. ErrorTopic(a) \in Topics /\ ErrorTopic(a)[2] = a
    BY TopicFacts DEF ErrorTopic
  <2> QED BY <1>2, <2>1 DEF Untouched, AgreeAt, Reported
<1> QED BY <1>3, <1>4, <1>5 DEF AgreeAt

\* A step after which no task has a result of the account.
LEMMA NobodyHolds ==
  ASSUME NEW a \in Accounts, \A t \in Tasks : ~Holds(t, a)',
         a \notin cut' /\ store'[a] # NoResult => Matches(a, store[a])',
         store'[a].at <= Shown(a)',
         said'[a] => Reported(a)'
  PROVE  AgreeAt(a)'
  BY DEF AgreeAt

\* Of the accounts that do not overlap a task is alone at its own.
LEMMA Alone ==
  ASSUME Inv, NEW t \in Tasks, NEW a \in Accounts, a \notin overlapped, job[t].acct = a
  PROVE  \A u \in Tasks \ {t} : ~Holds(u, a)
  BY TwoTasks DEF Inv, PublicationInv, Holds

LEMMA AgreeBegins ==
  ASSUME Inv, NEW a \in Accounts, AgreeAt(a), NEW t \in Tasks, NEW j, NEW rest,
         Goes(t, j, rest), Begins(t, j)
  PROVE  AgreeAt(a)'
<1>1. /\ j.msgs = <<>> /\ j.res = NoResult /\ job[t].res = NoResult
      /\ UNCHANGED <<store, failed, said, cut>>
  BY IdleFacts DEF Begins, Fetching
<1>2. retained' = retained /\ \A u \in Tasks : Holds(u, a)' <=> Holds(u, a)
  BY <1>1, RetainedStep, OtherTasks DEF Holds
<1>3. Untouched(a)
  BY <1>1, <1>2, OtherTasks DEF Untouched, Holds
<1> QED BY <1>3, UntouchedAgree

\* A task without a result of the account, before and after, that sends nothing
\* to its topics.
LEMMA OtherAccount ==
  ASSUME Inv, NEW a \in Accounts, AgreeAt(a), NEW t \in Tasks, NEW j, NEW rest,
         Goes(t, j, rest), ~Holds(t, a), j.acct # a \/ j.res = NoResult,
         j.msgs = <<>> \/ Head(j.msgs).topic[2] # a,
         store'[a] = store[a], said'[a] = said[a], failed'[a] = failed[a],
         a \in cut => a \in cut'
  PROVE  AgreeAt(a)'
<1>1. \A x \in Topics : x[2] = a => retained'[x] = retained[x]
  BY RetainedStep
<1>2. \A u \in Tasks : (Holds(u, a)' <=> Holds(u, a)) /\ (Holds(u, a) => job'[u] = job[u])
  BY OtherTasks
<1> QED BY <1>1, <1>2, UntouchedAgree DEF Untouched

\* After its first message a task holds what is left.
LEMMA Remaining ==
  ASSUME Inv, NEW a \in Accounts, NEW r \in Result, NEW s \in Seq(Message), s # <<>>,
         Head(s) \in Range(Messages(a, r)),
         \A m \in Range(Messages(a, r)) : m \in Range(s) \/ retained[m.topic] = m.payload,
         \A x \in Topics : x # Head(s).topic => retained'[x] = retained[x],
         retained'[Head(s).topic] = Head(s).payload
  PROVE  \A m \in Range(Messages(a, r)) : m \in Range(Tail(s)) \/ retained'[m.topic] = m.payload
<1> SUFFICES ASSUME NEW m \in Range(Messages(a, r)), m \notin Range(Tail(s))
             PROVE  retained'[m.topic] = m.payload
  OBVIOUS
<1>1. m = Head(s) \/ retained[m.topic] = m.payload
  <2>1. m \in Range(s) => m = Head(s) \/ m \in Range(Tail(s))
    BY RangeOfTail
  <2> QED BY <2>1
<1>2. m \in Message /\ (Head(s).topic = m.topic => Head(s) = m)
  BY TopicsDiffer
<1>3. m.topic \in Topics
  BY <1>2 DEF Message
<1>4. CASE m.topic = Head(s).topic
  BY <1>2, <1>4
<1>5. CASE m.topic # Head(s).topic
  BY <1>1, <1>3, <1>5
<1> QED BY <1>4, <1>5

LEMMA AgreeFetches ==
  ASSUME Inv, NEW a \in Accounts, a \notin overlapped, AgreeAt(a), NEW t \in Tasks,
         NEW j, NEW rest, Goes(t, j, rest), Fetches(t, j)
  PROVE  AgreeAt(a)'
<1>1. /\ j.acct \in Accounts /\ j.acct = job[t].acct /\ j.res \in Result /\ j.res # NoResult
      /\ job[t].res = NoResult /\ j.res.at = fetched + 1 /\ j.msgs = Messages(j.acct, j.res)
      /\ store' = store /\ cut' = cut
      /\ failed' = [failed EXCEPT ![j.acct] = 0] /\ said' = [said EXCEPT ![j.acct] = FALSE]
  BY NoResultFacts DEF Fetches
<1>2. /\ j.msgs # <<>> /\ j.msgs \in Seq(Message) /\ Suffix(j.msgs, Messages(j.acct, j.res))
  <2>1. j.stage = "publish"
    BY DEF Fetches
  <2> QED BY <1>1, <2>1 DEF Goes, JobTyped, Ready
<1>3. Head(j.msgs) \in Range(Messages(j.acct, j.res)) /\ Head(j.msgs).topic[2] = j.acct
  BY <1>1, <1>2, NextMessage
<1>4. /\ \A x \in Topics : x # Head(j.msgs).topic => retained'[x] = retained[x]
      /\ retained'[Head(j.msgs).topic] = Head(j.msgs).payload
  BY <1>2, RetainedStep
<1>5. said \in [Accounts -> BOOLEAN] /\ failed \in [Accounts -> 0 .. MaxFetches]
  BY DEF Inv, Typed, TypeOK
<1>6. CASE j.acct # a
  <2>1. ~Holds(t, a)
    BY <1>1 DEF Holds
  <2> QED BY <1>1, <1>3, <1>5, <1>6, <2>1, OtherAccount
<1>7. CASE j.acct = a
  <2>1. \A u \in Tasks : Holds(u, a)' <=> u = t
    <3>1. \A u \in Tasks \ {t} : ~Holds(u, a)
      BY <1>1, <1>7, Alone
    <3>2. \A u \in Tasks \ {t} : ~Holds(u, a)'
      BY <3>1, OtherTasks
    <3>3. Holds(t, a)'
      BY <1>1, <1>7, OtherTasks
    <3> QED BY <3>2, <3>3
  <2>2. job'[t].res = j.res /\ job'[t].msgs = Tail(j.msgs)
    BY <1>2, OtherTasks, TaskSends
  <2>3. \A m \in Range(Messages(a, j.res)) :
          m \in Range(Tail(j.msgs)) \/ retained'[m.topic] = m.payload
    <3> DEFINE s == j.msgs
               r == j.res
    <3>1. s = Messages(a, r)
      BY <1>1, <1>7
    <3>2. /\ s \in Seq(Message) /\ s # <<>> /\ r \in Result
          /\ Head(s) \in Range(Messages(a, r))
          /\ \A x \in Topics : x # Head(s).topic => retained'[x] = retained[x]
          /\ retained'[Head(s).topic] = Head(s).payload
      BY <1>1, <1>2, <1>3, <1>4, <1>7
    <3> HIDE DEF s, r
    <3>3. \A m \in Range(Messages(a, r)) : m \in Range(s)
      BY <3>1
    <3>4. \A m \in Range(Messages(a, r)) : m \in Range(Tail(s)) \/ retained'[m.topic] = m.payload
      BY <3>2, <3>3, Remaining
    <3> QED BY <3>4 DEF s, r
  <2>4. store[a].at \in Nat /\ store[a].at <= fetched /\ fetched \in Nat
    BY ShownType DEF Inv, Typed, Dates, PublicationInv, Shape
  <2>5. ~said'[a]
    BY <1>1, <1>5, <1>7
  <2>6. Shown(a)' = Shown(a)
    <3>1. ~SendsMore(t, j) /\ ~Fails(t, j)
      <4>1. j.res # job[t].res
        BY <1>1
      <4> QED BY <1>1, <4>1 DEF SendsMore, Fails
    <3> QED BY <3>1, StateSent DEF Does, Shown
  <2>7. store'[a].at <= Shown(a)'
    BY <1>1, <2>6 DEF AgreeAt
  <2>8. store'[a].at <= j.res.at
    BY <1>1, <2>4
  <2> QED BY <1>1, <2>1, <2>2, <2>3, <2>5, <2>7, <2>8 DEF AgreeAt
<1> QED BY <1>6, <1>7

LEMMA AgreeFails ==
  ASSUME Inv, NEW a \in Accounts, a \notin overlapped, AgreeAt(a), NEW t \in Tasks,
         NEW j, NEW rest, Goes(t, j, rest), Fails(t, j)
  PROVE  AgreeAt(a)'
<1> DEFINE p == [synced |-> store[j.acct].at, attempted |-> fetched + 1, ok |-> FALSE]
           m == Head(j.msgs)
<1>1. /\ j.acct \in Accounts /\ j.acct = job[t].acct /\ j.res = NoResult
      /\ job[t].res = NoResult /\ j.msgs # <<>>
      /\ m = [topic |-> ErrorTopic(j.acct), payload |-> p]
      /\ store' = store /\ cut' = cut
      /\ failed' = [failed EXCEPT ![j.acct] = fetched + 1] /\ said' = [said EXCEPT ![j.acct] = TRUE]
  BY Single DEF Fails
<1>2. /\ p.synced = store[j.acct].at /\ ~p.ok
  OBVIOUS
<1> HIDE DEF m, p
<1>3. m.topic = ErrorTopic(j.acct) /\ m.payload = p
  BY <1>1
<1>4. /\ \A x \in Topics : x # m.topic => retained'[x] = retained[x]
      /\ retained'[m.topic] = m.payload
  BY <1>1, RetainedStep DEF m
<1>5. said \in [Accounts -> BOOLEAN] /\ failed \in [Accounts -> 0 .. MaxFetches]
  BY DEF Inv, Typed, TypeOK
<1>6. CASE j.acct # a
  <2>1. ~Holds(t, a)
    BY <1>1 DEF Holds
  <2>2. m.topic[2] # a
    BY <1>3, <1>6 DEF ErrorTopic
  <2> QED BY <1>1, <1>5, <1>6, <2>1, <2>2, OtherAccount DEF m
<1>7. CASE j.acct = a
  <2>1. \A u \in Tasks : ~Holds(u, a)' /\ ~Holds(u, a)
    <3>1. ~Holds(t, a)
      BY <1>1 DEF Holds
    <3>2. \A u \in Tasks \ {t} : ~Holds(u, a)
      BY <1>1, <1>7, Alone
    <3>3. /\ \A u \in Tasks \ {t} : Holds(u, a)' <=> Holds(u, a)
          /\ Holds(t, a)' <=> j.acct = a /\ j.res # NoResult
      BY OtherTasks
    <3> QED BY <1>1, <3>1, <3>2, <3>3
  <2>2. /\ \A k \in {"config", "twinConfig", "twinState"} :
             retained'[<<k, a>>] = retained[<<k, a>>]
        /\ \/ retained'[<<"state", a>>] = retained[<<"state", a>>] /\ a \in Slugged
           \/ retained'[<<"state", a>>] = p
    <3>1. /\ \A k \in {"config", "twinConfig", "twinState", "state"} : <<k, a>> \in Topics
          /\ \A k \in {"config", "twinConfig", "twinState"} : <<k, a>> # ErrorTopic(a)
          /\ ErrorTopic(a) = <<"state", a>> \/ (ErrorTopic(a) # <<"state", a>> /\ a \in Slugged)
      BY TopicFacts DEF ErrorTopic
    <3> QED BY <1>3, <1>4, <1>7, <3>1
  <2>3. /\ retained'[<<"config", a>>] = retained[<<"config", a>>]
        /\ retained'[<<"twinConfig", a>>] = retained[<<"twinConfig", a>>]
        /\ retained'[<<"twinState", a>>] = retained[<<"twinState", a>>]
    BY <2>2
  <2>4. Matches(a, store[a]) => Matches(a, store[a])'
    BY <1>1, <1>2, <1>7, <2>2, <2>3 DEF Matches, Shown
  <2>5. store'[a].at <= Shown(a)'
    <3>1. Shown(a)' = Shown(a) \/ Shown(a)' = store[a].at
      BY <1>2, <1>7, <2>2 DEF Shown
    <3>2. store[a].at \in Nat /\ store[a].at <= Shown(a)
      BY ShownType DEF AgreeAt
    <3> QED BY <1>1, <3>1, <3>2
  <2>6. Reported(a)'
    <3>1. ErrorTopic(a) \in Topics
      BY TopicFacts
    <3>2. retained'[ErrorTopic(a)] = p
      BY <1>3, <1>4, <1>7, <3>1
    <3>3. failed'[a] = fetched + 1
      BY <1>1, <1>5, <1>7
    <3> QED BY <1>1, <1>7, <3>2, <3>3 DEF Reported, p
  <2>7. a \notin cut' /\ store'[a] # NoResult => Matches(a, store[a])'
    BY <1>1, <2>1, <2>4 DEF AgreeAt
  <2> QED BY <2>1, <2>5, <2>6, <2>7, NobodyHolds
<1> QED BY <1>6, <1>7

\* The main task restores what is stored; nothing else is at hand then.
LEMMA AgreeRestores ==
  ASSUME Inv, Startup, NEW a \in Accounts, AgreeAt(a), NEW t \in Tasks,
         NEW j, NEW rest, Goes(t, j, rest), SendsMore(t, j), job[t].res = NoResult
  PROVE  AgreeAt(a)'
<1>1. /\ j = job[t] /\ j.msgs # <<>> /\ UNCHANGED <<store, failed, said, cut>>
      /\ t = Main /\ job[Main].stage = "startup"
  BY Restores DEF SendsMore
<1>2. j.msgs \in Seq(Message)
  BY DEF Goes, JobTyped
<1>3. PICK b \in Accounts : store[b] # NoResult /\ Head(j.msgs) \in Range(Messages(b, store[b]))
  <2>1. Head(j.msgs) \in Range(j.msgs)
    BY <1>1, <1>2, RangeOfTail
  <2> QED BY <1>1, <2>1 DEF Startup, Known
<1>4. Head(j.msgs).topic[2] = b
  BY <1>3, StoredResult, TopicsDiffer
<1>5. /\ \A x \in Topics : x # Head(j.msgs).topic => retained'[x] = retained[x]
      /\ retained'[Head(j.msgs).topic] = Head(j.msgs).payload
  BY <1>1, RetainedStep
<1>6. \A u \in Tasks : \A c : ~Holds(u, c)
  BY <1>1, IdleFacts DEF Startup, Holds, Tasks
<1>7. CASE b # a
  BY <1>1, <1>4, <1>6, <1>7, OtherAccount
<1>8. CASE b = a
  <2>1. \A u \in Tasks : ~Holds(u, a)'
    BY <1>1, <1>6, OtherTasks
  <2>2. /\ Matches(a, store[a]) => Matches(a, store[a])'
        /\ Shown(a)' = Shown(a) \/ Shown(a)' = store[a].at
    <3> DEFINE n == Head(j.msgs)
               r == store[a]
    <3>1. /\ r \in Result /\ n \in Range(Messages(a, r))
          /\ \A x \in Topics : x # n.topic => retained'[x] = retained[x]
          /\ retained'[n.topic] = n.payload
      BY <1>3, <1>5, <1>8, StoredResult
    <3>2. PICK q : q = r
      OBVIOUS
    <3> HIDE DEF n, r
    <3>3. /\ Matches(a, q) => Matches(a, q)'
          /\ Shown(a)' = Shown(a) \/ Shown(a)' = q.at
      BY <3>1, <3>2, SendShown
    <3> QED BY <1>1, <3>2, <3>3 DEF r, Matches
  <2>3. a \notin cut' /\ store'[a] # NoResult => Matches(a, store[a])'
    BY <1>1, <1>6, <2>2 DEF AgreeAt
  <2>4. store'[a].at <= Shown(a)'
    <3>1. store[a].at \in Nat /\ store[a].at <= Shown(a)
      BY ShownType DEF AgreeAt
    <3> QED BY <1>1, <2>2, <3>1
  <2>5. ~said'[a]
    BY <1>1 DEF Startup
  <2> QED BY <2>1, <2>3, <2>4, <2>5, NobodyHolds
<1> QED BY <1>7, <1>8

LEMMA AgreeSendsMore ==
  ASSUME Inv, NEW a \in Accounts, a \notin overlapped, AgreeAt(a), NEW t \in Tasks,
         NEW j, NEW rest, Goes(t, j, rest), SendsMore(t, j), job[t].res # NoResult
  PROVE  AgreeAt(a)'
<1>1. /\ j = job[t] /\ j.msgs # <<>> /\ UNCHANGED <<store, failed, said, cut>>
  BY DEF SendsMore
<1>2. /\ j.msgs \in Seq(Message) /\ j.res \in Result /\ j.acct \in Accounts
      /\ Suffix(j.msgs, Messages(j.acct, j.res))
  BY <1>1 DEF Goes, JobTyped, Ready
<1>3. Head(j.msgs) \in Range(Messages(j.acct, j.res)) /\ Head(j.msgs).topic[2] = j.acct
  BY <1>1, <1>2, NextMessage
<1>4. /\ \A x \in Topics : x # Head(j.msgs).topic => retained'[x] = retained[x]
      /\ retained'[Head(j.msgs).topic] = Head(j.msgs).payload
  BY <1>1, RetainedStep
<1>5. CASE j.acct # a
  <2>1. ~Holds(t, a)
    BY <1>1, <1>5 DEF Holds
  <2> QED BY <1>1, <1>3, <1>5, <2>1, OtherAccount
<1>6. CASE j.acct = a
  <2>1. \A u \in Tasks : (Holds(u, a) <=> u = t) /\ (Holds(u, a)' <=> u = t)
    <3>1. Holds(t, a)
      BY <1>1, <1>6 DEF Holds
    <3> QED BY <1>1, <1>6, <3>1, Alone, OtherTasks
  <2>2. job'[t].res = j.res /\ job'[t].msgs = Tail(j.msgs)
    BY <1>1, OtherTasks, TaskSends
  <2>3. /\ ~said[a] /\ store[a].at <= j.res.at
        /\ \A m \in Range(Messages(a, j.res)) : m \in Range(j.msgs) \/ retained[m.topic] = m.payload
        /\ store[a].at <= Shown(a)
    BY <1>1, <2>1 DEF AgreeAt
  <2> DEFINE s == j.msgs
             r == j.res
  <2>4. /\ s \in Seq(Message) /\ s # <<>> /\ r \in Result
        /\ Head(s) \in Range(Messages(a, r))
        /\ \A x \in Topics : x # Head(s).topic => retained'[x] = retained[x]
        /\ retained'[Head(s).topic] = Head(s).payload
        /\ \A m \in Range(Messages(a, r)) : m \in Range(s) \/ retained[m.topic] = m.payload
    BY <1>1, <1>2, <1>3, <1>4, <1>6, <2>3
  <2>5. job'[t].res = r /\ job'[t].msgs = Tail(s) /\ store[a].at <= r.at
    BY <2>2, <2>3
  <2> HIDE DEF s, r
  <2>6. \A m \in Range(Messages(a, r)) : m \in Range(Tail(s)) \/ retained'[m.topic] = m.payload
    BY <2>4, Remaining
  <2>7. Shown(a)' = Shown(a) \/ Shown(a)' = r.at
    BY <2>4, SendShown
  <2>8. store'[a].at <= Shown(a)'
    BY <1>1, <2>3, <2>5, <2>7
  <2> QED BY <1>1, <2>1, <2>3, <2>5, <2>6, <2>8 DEF AgreeAt
<1> QED BY <1>5, <1>6

LEMMA AgreeSaves ==
  ASSUME Inv, NEW a \in Accounts, a \notin overlapped, AgreeAt(a), NEW t \in Tasks,
         NEW j, NEW rest, Goes(t, j, rest), Saves(t, j)
  PROVE  AgreeAt(a)'
<1>1. /\ j.msgs = <<>> /\ job[t].msgs = <<>> /\ UNCHANGED <<failed, said>>
      /\ j.res = NoResult
  BY NextJobFacts DEF Saves, NextJob, Idle, Fetching, Inv
<1>2. retained' = retained
  BY <1>1, RetainedStep
<1>3. CASE ~Holds(t, a)
  <2>1. store'[a] = store[a] /\ (a \in cut => a \in cut')
    BY <1>3 DEF Saves, Holds, Inv, Typed, TypeOK
  <2> QED BY <1>1, <1>3, <2>1, OtherAccount
<1>4. CASE Holds(t, a)
  <2>1. job[t].acct = a /\ job[t].res # NoResult /\ job[t].res \in Result
    BY <1>4, HoldFacts DEF Holds
  <2>2. store'[a] = job[t].res
    BY <2>1 DEF Saves, Inv, Typed, TypeOK
  <2>3. /\ ~said[a]
        /\ \A m \in Range(Messages(a, job[t].res)) : retained[m.topic] = m.payload
    <3>1. Range(<<>>) = {}
      BY DEF Range
    <3> QED BY <1>1, <1>4, <3>1 DEF AgreeAt
  <2>4. Matches(a, job[t].res)
    BY <2>1, <2>3, AllSent
  <2>5. Matches(a, store[a])' /\ store'[a].at <= Shown(a)'
    <3>1. Shown(a)' = store'[a].at /\ Matches(a, store[a])'
      BY <1>2, <2>2, <2>4 DEF Matches, Shown
    <3>2. store'[a].at \in Nat
      BY <1>4, <2>2, HoldFacts
    <3> QED BY <3>1, <3>2
  <2>6. \A u \in Tasks : ~Holds(u, a)'
    BY <1>1, <2>1, Alone, OtherTasks
  <2> QED BY <1>1, <2>3, <2>5, <2>6, NobodyHolds
<1> QED BY <1>3, <1>4

LEMMA AgreeGivesUp ==
  ASSUME Inv, NEW a \in Accounts, a \notin overlapped, AgreeAt(a), NEW t \in Tasks,
         NEW j, NEW rest, Goes(t, j, rest), GivesUp(t, j)
  PROVE  AgreeAt(a)'
<1>1. /\ j.msgs = <<>> /\ j.res = NoResult /\ UNCHANGED <<store, failed, said>>
      /\ cut' = cut \union Unsaved({t})
  BY IdleFacts DEF GivesUp
<1>2. retained' = retained
  BY <1>1, RetainedStep
<1>3. CASE ~Holds(t, a)
  BY <1>1, <1>3, OtherAccount
<1>4. CASE Holds(t, a)
  <2>1. \A u \in Tasks : ~Holds(u, a)'
    BY <1>1, <1>4, Alone, OtherTasks DEF Holds
  <2>2. a \in cut'
    BY <1>1, <1>4 DEF Unsaved, Holds
  <2>3. store'[a].at <= Shown(a)' /\ (said'[a] => Reported(a)')
    BY <1>1, <1>2 DEF AgreeAt, Shown, Reported
  <2> QED BY <2>1, <2>2, <2>3, NobodyHolds
<1> QED BY <1>3, <1>4

LEMMA AgreeLoses ==
  ASSUME Inv, NEW a \in Accounts, a \notin overlapped, AgreeAt(a), NEW t \in Tasks,
         NEW j, NEW rest, Goes(t, j, rest), Loses(t, j)
  PROVE  AgreeAt(a)'
<1>1. /\ j.msgs = <<>> /\ j.res = NoResult /\ store' = store /\ cut \subseteq cut'
      /\ job[t].acct \in Accounts /\ job[t].res = NoResult
  BY IdleFacts DEF Loses
<1>2. retained' = retained
  BY <1>1, RetainedStep
<1>3. ~Holds(t, a) /\ said \in [Accounts -> BOOLEAN]
  BY <1>1 DEF Holds, Inv, Typed, TypeOK
<1>4. CASE job[t].acct # a
  <2>1. said'[a] = said[a] /\ failed'[a] = failed[a]
    BY <1>3, <1>4 DEF Loses
  <2> QED BY <1>1, <1>3, <2>1, OtherAccount
<1>5. CASE job[t].acct = a
  <2>1. \A u \in Tasks : ~Holds(u, a)' /\ ~Holds(u, a)
    BY <1>1, <1>3, <1>5, Alone, OtherTasks
  <2>2. ~said'[a]
    BY <1>3, <1>5 DEF Loses
  <2>3. /\ a \notin cut' /\ store'[a] # NoResult => Matches(a, store[a])'
        /\ store'[a].at <= Shown(a)'
    BY <1>1, <1>2, <2>1 DEF AgreeAt, Matches, Shown
  <2> QED BY <2>1, <2>2, <2>3, NobodyHolds
<1> QED BY <1>4, <1>5

LEMMA AgreeRestart ==
  ASSUME Inv, Restart, NEW a \in Accounts, AgreeAt(a)
  PROVE  AgreeAt(a)'
<1>0. PICK m : m = StartupMessages(store)
  OBVIOUS
<1>1. /\ m \in Seq(Message)
      /\ \A n : n \in Range(m)
               <=> \E b \in Accounts : store[b] # NoResult /\ n \in Range(Messages(b, store[b]))
  BY <1>0, RestartFacts
<1>2. \/ /\ m = <<>> /\ \A t \in Tasks : job'[t] = Idle
         /\ wire' = <<>> /\ retained' = retained
      \/ /\ m # <<>>
         /\ Head(m) \in Message /\ Tail(m) \in Seq(Message)
         /\ job'[Main] = Starting(Tail(m)) /\ \A t \in Tasks \ {Main} : job'[t] = Idle
         /\ wire' = <<Main>>
         /\ retained' = [retained EXCEPT ![Head(m).topic] = Head(m).payload]
  BY <1>0, RestartFacts
<1>3. store' = store /\ ~said'[a] /\ cut' = cut \union Unsaved(Tasks)
  BY DEF Restart
<1>4. \A t \in Tasks : ~Holds(t, a)' /\ (Holds(t, a) => a \in cut')
  <2>1. \A t \in Tasks : job'[t].res = NoResult
    <3>1. Starting(Tail(m)).res = NoResult
      BY DEF Starting
    <3> QED BY <1>2, <3>1, IdleFacts
  <2> QED BY <1>3, <2>1 DEF Holds, Unsaved
<1>5. a \notin cut' /\ store[a] # NoResult => Matches(a, store[a])
  BY <1>3, <1>4 DEF AgreeAt
<1>6. store[a].at \in Nat /\ Shown(a) \in Nat /\ store[a].at <= Shown(a)
  BY ShownType DEF AgreeAt
<1>7. CASE retained' = retained
  <2>1. Shown(a)' = Shown(a) /\ (Matches(a, store[a])' <=> Matches(a, store[a]))
    BY <1>3, <1>7 DEF Matches, Shown
  <2> QED BY <1>3, <1>4, <1>5, <1>6, <2>1, NobodyHolds
<1>8. CASE m # <<>> /\ retained' = [retained EXCEPT ![Head(m).topic] = Head(m).payload]
  <2> DEFINE n == Head(m)
  <2>1. n \in Range(m) /\ n \in Message
    BY <1>1, <1>2, <1>8, RangeOfTail, HeadTailProperties
  <2>2. PICK b \in Accounts : store[b] # NoResult /\ n \in Range(Messages(b, store[b]))
    BY <1>1, <2>1
  <2> HIDE DEF n
  <2>3. n.topic[2] = b /\ n.topic \in Topics
    BY <2>1, <2>2, StoredResult, TopicsDiffer DEF Message
  <2>4. /\ \A x \in Topics : x # n.topic => retained'[x] = retained[x]
        /\ retained'[n.topic] = n.payload
    BY <1>8, <2>3 DEF n, Inv, Typed, TypeOK
  <2>5. CASE b # a
    <3>1. \A k \in {"config", "state", "twinConfig", "twinState"} :
            retained'[<<k, a>>] = retained[<<k, a>>]
      <4>1. \A x \in Topics : x[2] = a => retained'[x] = retained[x]
        BY <2>3, <2>4, <2>5
      <4>2. \A k \in {"config", "state", "twinConfig", "twinState"} :
              <<k, a>> \in Topics /\ <<k, a>>[2] = a
        BY TopicFacts
      <4> QED BY <4>1, <4>2
    <3>2. Shown(a)' = Shown(a) /\ (Matches(a, store[a])' <=> Matches(a, store[a]))
      <4>1. /\ retained'[<<"config", a>>] = retained[<<"config", a>>]
            /\ retained'[<<"state", a>>] = retained[<<"state", a>>]
            /\ retained'[<<"twinConfig", a>>] = retained[<<"twinConfig", a>>]
            /\ retained'[<<"twinState", a>>] = retained[<<"twinState", a>>]
        BY <3>1
      <4> QED BY <1>3, <4>1 DEF Matches, Shown
    <3> QED BY <1>3, <1>4, <1>5, <1>6, <3>2, NobodyHolds
  <2>6. CASE b = a
    <3>1. PICK q : q = store[a]
      OBVIOUS
    <3>2. /\ q \in Result /\ n \in Range(Messages(a, q))
      BY <2>2, <2>6, <3>1, StoredResult
    <3>3. PICK x : x = n
      OBVIOUS
    <3>4. /\ x \in Range(Messages(a, q)) /\ \A y \in Topics : y # x.topic => retained'[y] = retained[y]
          /\ retained'[x.topic] = x.payload
      BY <2>4, <3>2, <3>3
    <3>5. /\ Matches(a, q) => Matches(a, q)'
          /\ Shown(a)' = Shown(a) \/ Shown(a)' = q.at
      BY <3>2, <3>4, SendShown
    <3>6. Matches(a, store[a]) => Matches(a, store[a])'
      BY <1>3, <3>1, <3>5 DEF Matches
    <3>7. store'[a].at <= Shown(a)'
      BY <1>3, <1>6, <3>1, <3>5
    <3> QED BY <1>3, <1>4, <1>5, <3>6, <3>7, NobodyHolds
  <2> QED BY <2>5, <2>6
<1> QED BY <1>2, <1>7, <1>8

LEMMA InitAgree == Init => Agree
<1> SUFFICES ASSUME Init, NEW a \in Accounts PROVE AgreeAt(a)
  BY DEF Agree
<1>1. \A t \in Tasks : ~Holds(t, a)
  BY IdleFacts DEF Init, Holds
<1>2. store[a] = NoResult /\ ~said[a]
  BY DEF Init
<1>3. Shown(a) = 0
  BY TopicFacts DEF Init, Shown, Absent
<1>4. store[a].at <= Shown(a)
  BY <1>2, <1>3, NoResultFacts
<1> QED BY <1>1, <1>2, <1>4 DEF AgreeAt

LEMMA NextAgree == Inv /\ Startup /\ Agree /\ [Next]_vars => Agree'
<1> SUFFICES ASSUME Inv, Startup, Agree, [Next]_vars,
                    NEW a \in Accounts, a \notin overlapped'
             PROVE  AgreeAt(a)'
  BY DEF Agree
<1>1. CASE UNCHANGED vars
  <2>1. AgreeAt(a)
    BY <1>1 DEF Agree, vars
  <2>2. Untouched(a)
    BY <1>1 DEF Untouched, Holds, vars
  <2> QED BY <2>1, <2>2, UntouchedAgree
<1>2. CASE Next
  <2>1. a \notin overlapped /\ Step
    BY <1>2 DEF Next
  <2>2. AgreeAt(a)
    BY <2>1 DEF Agree
  <2>3. CASE Restart
    BY <2>2, <2>3, AgreeRestart
  <2>4. ASSUME NEW t \in Tasks, NEW j, NEW rest, Goes(t, j, rest), Does(t, j)
        PROVE  AgreeAt(a)'
    <3>1. CASE Begins(t, j)
      BY <2>2, <2>4, <3>1, AgreeBegins
    <3>2. CASE Fetches(t, j)
      BY <2>1, <2>2, <2>4, <3>2, AgreeFetches
    <3>3. CASE Fails(t, j)
      BY <2>1, <2>2, <2>4, <3>3, AgreeFails
    <3>4. CASE SendsMore(t, j) /\ job[t].res = NoResult
      BY <2>2, <2>4, <3>4, AgreeRestores
    <3>5. CASE SendsMore(t, j) /\ job[t].res # NoResult
      BY <2>1, <2>2, <2>4, <3>5, AgreeSendsMore
    <3>6. CASE Saves(t, j)
      BY <2>1, <2>2, <2>4, <3>6, AgreeSaves
    <3>7. CASE GivesUp(t, j)
      BY <2>1, <2>2, <2>4, <3>7, AgreeGivesUp
    <3>8. CASE Loses(t, j)
      BY <2>1, <2>2, <2>4, <3>8, AgreeLoses
    <3> QED BY <2>4, <3>1, <3>2, <3>3, <3>4, <3>5, <3>6, <3>7, <3>8 DEF Does
  <2> QED BY <2>1, <2>3, <2>4, StepKinds
<1> QED BY <1>1, <1>2

\* Between its fetches the topics of an account agree with state.json and with
\* each other: no mixture of two fetches (scheduler.py:179-239).
THEOREM TopicsCorrect == Spec => []TopicsAgree
<1>1. Inv /\ Agree => TopicsAgree
  <2> SUFFICES ASSUME Inv, Agree, NEW a \in Accounts, Settled(a), store[a] # NoResult
               PROVE  Matches(a, store[a])
    BY DEF TopicsAgree, Matches
  <2>1. \A t \in Tasks : ~Holds(t, a)
    BY DEF Settled, Busy, Holds, Inv, PublicationInv, Shape, JobOK
  <2> QED BY <2>1 DEF Settled, Agree, AgreeAt
<1> QED BY <1>1, InitInv, NextInv, InitStartup, NextStartup, InitAgree, NextAgree, PTL DEF Spec

\* An error that was sent of the newest attempt of an account is what its topic
\* holds, with the metrics of the stored result (scheduler.py:212-239); the topic
\* is the one of the username, with or without a slug.
THEOREM FailuresReported == Spec => []FailureReported
<1>1. Agree => FailureReported
  BY DEF Agree, AgreeAt, Reported, FailureReported
<1> QED BY <1>1, InitInv, NextInv, InitStartup, NextStartup, InitAgree, NextAgree, PTL DEF Spec

\* Nothing is persisted that HA has not been shown, whatever fails or crashes
\* between the messages and the save (scheduler.py:195-199).
THEOREM StoreIsShown == Spec => []StoreNotAhead
<1>1. Agree => StoreNotAhead
  BY DEF Agree, AgreeAt, StoreNotAhead
<1> QED BY <1>1, InitInv, NextInv, InitStartup, NextStartup, InitAgree, NextAgree, PTL DEF Spec
=============================================================================
