----------------------------- MODULE Publication -----------------------------
(***************************************************************************)
(* The data path of scheduler.py: from the end of a fetch through the MQTT *)
(* messages, one awaited PUBACK at a time, to state.json; and back from    *)
(* state.json to the broker when the process starts again.                 *)
(*                                                                         *)
(* Two kinds of tasks publish: the main task (startup, then cycles over    *)
(* all accounts) and at most one refresh task per account (Scheduler       *)
(* proves that bound).  Nothing keeps the two off the same account.        *)
(***************************************************************************)
EXTENDS Naturals, Sequences, SequencesExt

CONSTANTS
  NumAccounts,  \* length of config.accounts
  Pressed,      \* accounts whose refresh button is pressed
  Slugged,      \* accounts whose ProviderResult.account_id is not the username
  Shapes,       \* whether a result may have a secondary line: a set of BOOLEAN
  MayFail,      \* fetches may fail
  Faults,       \* "crash": the process dies; "raise": a publish or a save raises
  MaxFetches    \* bound: fetches that end

Accounts == 1 .. NumAccounts
Main     == 0                        \* the task of run_forever
Tasks    == {Main} \union Accounts   \* a \in Accounts: the refresh task of a

ASSUME NumAccountsAssumption == NumAccounts \in Nat \ {0}
ASSUME PressedAssumption     == Pressed \subseteq Accounts
ASSUME SluggedAssumption     == Slugged \subseteq Accounts
ASSUME ShapesAssumption      == Shapes \subseteq BOOLEAN /\ Shapes # {}
ASSUME SwitchesAssumption    == MayFail \in BOOLEAN /\ Faults \subseteq {"crash", "raise"}
ASSUME MaxFetchesAssumption  == MaxFetches \in Nat

VARIABLES
  fetched,     \* fetches that have ended; the time stamp of the last one
  job,         \* job[t]: what task t is doing
  wire,        \* tasks awaiting a PUBACK, in the order they sent
  retained,    \* the broker's retained payload of each topic
  store,       \* state.json: last_results
  lastOk,      \* history: when the last successful fetch of an account ended
  failed,      \* history: when the last fetch of an account ended, if it failed,
               \* and 0 if it did not
  said,        \* history: the last fetch of an account failed, and this process
               \* has said so to the broker
  cut,         \* history: accounts with a result whose publication was cut short,
               \* and none saved since
  overlapped   \* history: accounts the cycle and a refresh were at, both at once

vars == <<fetched, job, wire, retained, store, lastOk, failed, said, cut, overlapped>>

\* A ProviderResult: when it was fetched and whether it has a secondary line.
Result   == [at : 1 .. MaxFetches, twin : BOOLEAN]
NoResult == [at |-> 0, twin |-> FALSE]

\* The topics of an account.  An error goes to the topic of the username, which
\* is another one than the state topic of a slugged account.
Topics == {"config", "state", "twinConfig", "twinState", "userState"} \X Accounts
ErrorTopic(a) == <<IF a \in Slugged THEN "userState" ELSE "state", a>>

\* Of a payload: the fetch its metrics come from (last_synced), the attempt it
\* reports (last_attempted) and sync_ok.
Payload   == [synced : 0 .. MaxFetches, attempted : 0 .. MaxFetches, ok : BOOLEAN]
Absent    == [synced |-> 0, attempted |-> 0, ok |-> FALSE]
Config    == [synced |-> 0, attempted |-> 0, ok |-> TRUE]
Success(r) == [synced |-> r.at, attempted |-> r.at, ok |-> TRUE]

\* Discovery and state of the account.
MainMessages(a, r) ==
  <<[topic |-> <<"config", a>>, payload |-> Config],
    [topic |-> <<"state", a>>,  payload |-> Success(r)]>>

\* Fault: the secondary line gets its discovery only.
TwinDiscoveryOnly(a, r) ==
  IF r.twin THEN <<[topic |-> <<"twinConfig", a>>, payload |-> Config]>> ELSE <<>>

\* Discovery and state of its secondary line.
TwinMessages(a, r) ==
  IF r.twin
    THEN <<[topic |-> <<"twinConfig", a>>, payload |-> Config],
           [topic |-> <<"twinState", a>>,  payload |-> Success(r)]>>
    ELSE <<>>

\* build_account_messages.
Messages(a, r) == MainMessages(a, r) \o TwinMessages(a, r)

\* Fault: the error replaces the payload instead of being merged into it.
ErrorWithoutMetrics(a, prev, now) ==
  <<[topic |-> ErrorTopic(a), payload |-> [synced |-> 0, attempted |-> now, ok |-> FALSE]]>>

\* Fault: the previous payload wins over the error's fields.
ErrorOverridden(a, prev, now) ==
  <<[topic |-> ErrorTopic(a), payload |-> [synced |-> prev.at, attempted |-> now, ok |-> TRUE]]>>

\* _publish_error_state: the last stored result, marked as not ok.
ErrorMessages(a, prev, now) ==
  <<[topic   |-> ErrorTopic(a),
     payload |-> [synced |-> prev.at, attempted |-> now, ok |-> FALSE]]>>

\* Fault: the loops over the accounts miss the last one.
StartupMissesLast(s) ==
  LET known == FlattenSeq([a \in 1 .. NumAccounts - 1 |->
                             IF s[a] = NoResult THEN <<>> ELSE Messages(a, s[a])])
  IN known \o known

\* Discovery, then the known state, of the accounts that have a stored result.
StartupMessages(s) ==
  LET known == FlattenSeq([a \in Accounts |->
                             IF s[a] = NoResult THEN <<>> ELSE Messages(a, s[a])])
  IN known \o known

\* A task: the account and its result, the messages not sent yet.  An idle main
\* task awaits a cycle.
Idle        == [stage |-> "idle",    acct |-> 0, res |-> NoResult, msgs |-> <<>>]
Starting(m) == [stage |-> "startup", acct |-> 0, res |-> NoResult, msgs |-> m]
Fetching(a) == [stage |-> "fetch",   acct |-> a, res |-> NoResult, msgs |-> <<>>]

Busy(a) == \E t \in Tasks : job[t].stage \in {"fetch", "publish"} /\ job[t].acct = a

TypeOK ==
  /\ fetched \in 0 .. MaxFetches
  /\ \A t \in Tasks :
       /\ job[t].stage \in {"idle", "startup", "fetch", "publish"}
       /\ job[t].acct \in Accounts \union {0}
       /\ job[t].res \in Result \union {NoResult}
       /\ job[t].msgs \in Seq([topic : Topics, payload : Payload])
  /\ wire \in Seq(Tasks)
  /\ retained \in [Topics -> Payload]
  /\ store \in [Accounts -> Result \union {NoResult}]
  /\ lastOk \in [Accounts -> 0 .. MaxFetches]
  /\ failed \in [Accounts -> 0 .. MaxFetches]
  /\ said \in [Accounts -> BOOLEAN]
  /\ overlapped \subseteq Accounts /\ cut \subseteq Accounts

Init ==
  /\ fetched = 0
  /\ job = [t \in Tasks |-> Idle]
  /\ wire = <<>>
  /\ retained = [t \in Topics |-> Absent]
  /\ store = [a \in Accounts |-> NoResult]
  /\ lastOk = [a \in Accounts |-> 0]
  /\ failed = [a \in Accounts |-> 0]
  /\ said = [a \in Accounts |-> FALSE]
  /\ overlapped = {} /\ cut = {}

-----------------------------------------------------------------------------
\* Task t goes on as j while the tasks of rest await their acks: it sends its
\* next message, if it has one, and then awaits the ack itself.
GoOn(t, j, rest) ==
  IF j.msgs = <<>>
    THEN /\ job' = [job EXCEPT ![t] = j]
         /\ wire' = rest
         /\ UNCHANGED retained
    ELSE LET m == Head(j.msgs) IN
         /\ job' = [job EXCEPT ![t] = [j EXCEPT !.msgs = Tail(j.msgs)]]
         /\ wire' = Append(rest, t)
         /\ retained' = [retained EXCEPT ![m.topic] = m.payload]

\* Fault: the cycle goes one account too far.
NextJobOneMore(t) == IF t = Main /\ job[t].stage = "publish" /\ job[t].acct <= NumAccounts
                     THEN Fetching(job[t].acct + 1)
                     ELSE Idle

\* What a task does after its last message: the cycle takes the next account.
NextJob(t) == IF t = Main /\ job[t].stage = "publish" /\ job[t].acct < NumAccounts
              THEN Fetching(job[t].acct + 1)
              ELSE Idle

StartCycle ==
  /\ job[Main] = Idle /\ fetched < MaxFetches
  /\ job' = [job EXCEPT ![Main] = Fetching(1)]
  /\ UNCHANGED <<fetched, wire, retained, store, lastOk, failed, said, cut>>

StartRefresh(a) ==
  /\ a \in Pressed /\ job[a] = Idle /\ job[Main].stage # "startup"
  /\ fetched < MaxFetches
  /\ job' = [job EXCEPT ![a] = Fetching(a)]
  /\ UNCHANGED <<fetched, wire, retained, store, lastOk, failed, said, cut>>

\* Fault: the result is saved before it is published.
FetchOkSavesFirst(t, twin) ==
  /\ job[t].stage = "fetch" /\ fetched < MaxFetches
  /\ LET a == job[t].acct
         r == [at |-> fetched + 1, twin |-> twin]
     IN /\ fetched' = r.at
        /\ GoOn(t, [stage |-> "publish", acct |-> a, res |-> r, msgs |-> Messages(a, r)], wire)
        /\ store' = [store EXCEPT ![a] = r]
        /\ lastOk' = [lastOk EXCEPT ![a] = r.at]
        /\ failed' = [failed EXCEPT ![a] = 0]
        /\ said' = [said EXCEPT ![a] = FALSE]
        /\ UNCHANGED cut

\* run_one_account returned a result: its messages are built and the first sent.
FetchOk(t, twin) ==
  /\ job[t].stage = "fetch" /\ fetched < MaxFetches
  /\ LET a == job[t].acct
         r == [at |-> fetched + 1, twin |-> twin]
     IN /\ fetched' = r.at
        /\ GoOn(t, [stage |-> "publish", acct |-> a, res |-> r, msgs |-> Messages(a, r)], wire)
        /\ lastOk' = [lastOk EXCEPT ![a] = r.at]
        /\ failed' = [failed EXCEPT ![a] = 0]
        /\ said' = [said EXCEPT ![a] = FALSE]
  /\ UNCHANGED <<store, cut>>

\* run_one_account returned an exception: the stored result goes out as stale.
FetchFail(t) ==
  /\ MayFail /\ job[t].stage = "fetch" /\ fetched < MaxFetches
  /\ LET a == job[t].acct
     IN /\ fetched' = fetched + 1
        /\ GoOn(t, [stage |-> "publish", acct |-> a, res |-> NoResult,
                    msgs |-> ErrorMessages(a, store[a], fetched + 1)], wire)
        /\ failed' = [failed EXCEPT ![a] = fetched + 1]
        /\ said' = [said EXCEPT ![a] = TRUE]
  /\ UNCHANGED <<store, lastOk, cut>>

\* run_one_account returned an exception, but its error does not go out: the
\* load before it raises, or the publish before the broker has the message.
LostError(t) ==
  /\ "raise" \in Faults /\ MayFail /\ job[t].stage = "fetch" /\ fetched < MaxFetches
  /\ fetched' = fetched + 1
  /\ job' = [job EXCEPT ![t] = Idle]
  /\ failed' = [failed EXCEPT ![job[t].acct] = fetched + 1]
  /\ said' = [said EXCEPT ![job[t].acct] = FALSE]
  /\ UNCHANGED <<wire, retained, store, lastOk, cut>>

\* run_one_account returned a result, but none of its messages goes out: they
\* cannot be built, or the first publish raises.
LostResult(t) ==
  /\ "raise" \in Faults /\ job[t].stage = "fetch" /\ fetched < MaxFetches
  /\ fetched' = fetched + 1
  /\ job' = [job EXCEPT ![t] = Idle]
  /\ lastOk' = [lastOk EXCEPT ![job[t].acct] = fetched + 1]
  /\ failed' = [failed EXCEPT ![job[t].acct] = 0]
  /\ said' = [said EXCEPT ![job[t].acct] = FALSE]
  /\ cut' = cut \union {job[t].acct}
  /\ UNCHANGED <<wire, retained, store>>

\* Fault: a result in the file is kept.
AckKeepsStored ==
  /\ wire # <<>>
  /\ LET t == Head(wire) IN
     IF job[t].msgs # <<>>
       THEN GoOn(t, job[t], Tail(wire)) /\ UNCHANGED <<store, cut>>
       ELSE /\ GoOn(t, NextJob(t), Tail(wire))
            /\ cut' = IF job[t].res = NoResult THEN cut ELSE cut \ {job[t].acct}
            /\ store' = IF job[t].res = NoResult \/ store[job[t].acct] # NoResult THEN store
                        ELSE [store EXCEPT ![job[t].acct] = job[t].res]
  /\ UNCHANGED <<fetched, lastOk, failed, said>>

\* Fault: the file is written without what it held of the other accounts.
AckForgetsOthers ==
  /\ wire # <<>>
  /\ LET t == Head(wire) IN
     IF job[t].msgs # <<>>
       THEN GoOn(t, job[t], Tail(wire)) /\ UNCHANGED <<store, cut>>
       ELSE /\ GoOn(t, NextJob(t), Tail(wire))
            /\ cut' = IF job[t].res = NoResult THEN cut ELSE cut \ {job[t].acct}
            /\ store' = IF job[t].res = NoResult THEN store
                        ELSE [a \in Accounts |-> IF a = job[t].acct THEN job[t].res
                                                                  ELSE NoResult]
  /\ UNCHANGED <<fetched, lastOk, failed, said>>

\* The oldest ack arrives and its task sends on; after the last message it
\* loads, updates and saves state.json without an await in between.
Ack ==
  /\ wire # <<>>
  /\ LET t == Head(wire) IN
     IF job[t].msgs # <<>>
       THEN GoOn(t, job[t], Tail(wire)) /\ UNCHANGED <<store, cut>>
       ELSE /\ GoOn(t, NextJob(t), Tail(wire))
            /\ cut' = IF job[t].res = NoResult THEN cut ELSE cut \ {job[t].acct}
            /\ store' = IF job[t].res = NoResult THEN store
                        ELSE [store EXCEPT ![job[t].acct] = job[t].res]
  /\ UNCHANGED <<fetched, lastOk, failed, said>>

\* The accounts some of these tasks have a result of that is not saved yet.
Unsaved(ts) == {job[t].acct : t \in {u \in ts : job[u].res # NoResult}}

\* A publish after the first message raises, or the load or the save at the end; or
\* the browser that a cycle or a refresh begins with does not start.  The task is
\* over, and the cycle with it: nothing is saved.
Raise(t) ==
  /\ "raise" \in Faults
  /\ \/ job[t].stage = "publish"
     \/ job[t].stage = "fetch" /\ (t = Main => job[t].acct = 1)
  /\ job' = [job EXCEPT ![t] = Idle]
  /\ IF t \in Range(wire)
       THEN \E k \in DOMAIN wire : wire[k] = t /\ wire' = RemoveAt(wire, k)
       ELSE UNCHANGED wire
  /\ cut' = cut \union Unsaved({t})
  /\ UNCHANGED <<fetched, retained, store, lastOk, failed, said>>

\* The process dies and starts again; the broker and the file are what is left.
Restart ==
  /\ "crash" \in Faults
  /\ LET m == StartupMessages(store) IN
     IF m = <<>>
       THEN /\ job' = [t \in Tasks |-> Idle]
            /\ wire' = <<>>
            /\ UNCHANGED retained
       ELSE /\ job' = [t \in Tasks |-> IF t = Main THEN Starting(Tail(m)) ELSE Idle]
            /\ wire' = <<Main>>
            /\ retained' = [retained EXCEPT ![Head(m).topic] = Head(m).payload]
  /\ cut' = cut \union Unsaved(Tasks)
  /\ said' = [a \in Accounts |-> FALSE]
  /\ UNCHANGED <<fetched, store, lastOk, failed>>

Step == \/ StartCycle \/ \E a \in Accounts : StartRefresh(a)
        \/ \E t \in Tasks : \/ \E twin \in Shapes : FetchOk(t, twin)
                            \/ FetchFail(t) \/ LostError(t) \/ LostResult(t) \/ Raise(t)
        \/ Ack \/ Restart

\* The accounts two tasks are at.
Overlap == {a \in Accounts : job[a] # Idle /\ job[Main].acct = a}

Next == Step /\ overlapped' = overlapped \union Overlap'

Spec == Init /\ [][Next]_vars

-----------------------------------------------------------------------------
(* What HA and state.json hold. *)

Shown(a) == retained[<<"state", a>>].synced

\* The account is at rest, its tasks have taken turns so far, and its newest
\* result was published to the end.
Settled(a) == ~Busy(a) /\ a \notin overlapped \union cut

\* Between its fetches, state.json holds the newest successful one of an account,
\* whatever the other accounts' tasks were doing around its save, and whatever
\* was cut short before.
StoreIsLastSuccess == \A a \in Accounts : Settled(a) => store[a].at = lastOk[a]

\* Between its fetches, failed ones included, the topics of an account agree with
\* state.json and with each other: no mixture of two fetches, and no state
\* without its discovery.
TopicsAgree ==
  \A a \in Accounts : Settled(a) /\ store[a] # NoResult =>
    /\ Shown(a) = store[a].at
    /\ store[a].twin => retained[<<"twinState", a>>].synced = store[a].at
    /\ retained[<<"config", a>>] = Config
    /\ store[a].twin => retained[<<"twinConfig", a>>] = Config

\* The error that was sent of the newest attempt is what its topic holds, with the
\* metrics of the stored result beside it: no task of this or another account
\* covers it, and nothing is stored that its metrics would lack.
FailureReported ==
  \A a \in Accounts \ overlapped : said[a] =>
    retained[ErrorTopic(a)] = [synced |-> store[a].at, attempted |-> failed[a], ok |-> FALSE]

\* Nothing is persisted that HA has not been shown: a restart, which shows what
\* is persisted, never invents metrics.
StoreNotAhead == \A a \in Accounts \ overlapped : store[a].at <= Shown(a)

\* A save never replaces a result by an older one - of its own account, even when
\* a cycle and a refresh save the same account, or, because the whole file is
\* rewritten, of another.  The fetch that ends later is saved later unless it has
\* fewer messages to send: only then, and only where both overlap, it is replaced.
StoreNotOlder ==
  [][\A a \in Accounts :
       \/ store'[a].at >= store[a].at
       \/ a \in overlapped /\ store'[a].twin /\ ~store[a].twin]_vars

\* The metrics HA shows go back only while a restarted process republishes what
\* it has persisted, or after a fetch whose result is not persisted.
MetricsNotOlder ==
  [][\A a \in Accounts :
       Shown(a)' >= Shown(a) \/ job'[Main].stage = "startup" \/ store[a].at < Shown(a)]_vars

\* When startup is over, every account with a stored result shows that result.
StartupRestores ==
  [][job[Main].stage = "startup" /\ job'[Main].stage = "idle" /\ Len(wire') = 0
       => \A a \in Accounts : store[a] # NoResult =>
            /\ Shown(a)' = store[a].at
            /\ store[a].twin => retained'[<<"twinState", a>>].synced = store[a].at]_vars

-----------------------------------------------------------------------------
(* What the documents say and the code does otherwise. *)

\* state_store.py: the file holds the last successful result of every account -
\* also when a cycle and a refresh have fetched it at once.
StoreIsAlwaysLast == \A a \in Accounts : ~Busy(a) => store[a].at = lastOk[a]

\* README.md: sync_ok says whether the last fetch of the account succeeded - also
\* when the account has a slug, when the error did not go out, and when the
\* process was started again since.
SyncOkIsLastFetch ==
  \A a \in Accounts : Settled(a) /\ failed[a] # 0 => ~retained[<<"state", a>>].ok
=============================================================================
