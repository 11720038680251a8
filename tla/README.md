# TLA+ models of Carriers Sync

Carriers Sync is a Home Assistant App: it logs in to the portals of three
Lebanese carriers with a headless browser, reads the data usage of the
configured accounts once per poll interval or when a button is pressed,
publishes it as retained MQTT messages with discovery, and keeps the last result
of every account in `/data/state.json`. These modules model the program's own
logic (`carriers_sync/src/carriers_sync/`, 2355 lines of Python), TLC checks them
on small instances, and TLAPS proves for every instance what is checked of safety.

Paths below are relative to `carriers_sync/src/carriers_sync/`; "design" is
`docs/superpowers/specs/2026-04-28-ha-carriers-design.md`.

## Inventory

| Part | State | Operations | Interacts with |
|---|---|---|---|
| Scheduler (`scheduler.py:117-335`) | the Events `_refresh_all` and `_stop`, the queue `_account_refresh`, the worker's `in_flight` set; four kinds of asyncio tasks | startup, cycle, wait, stop; listen, debounce, refresh one account | publisher, state store, browser, retry |
| Retry policy (`scheduler.py:57-114`) | loop variable, last exception | `run_one_account`, `classify_outcome` | adapters |
| Publication (`scheduler.py:179-276`, `discovery.py`, `mqtt_publisher.py:72-80`) | retained topics at the broker | success, error, startup republication, one awaited PUBACK after the other | state store, broker |
| State store (`state_store.py`) | `state.json`, its temporary file and its backup | load, save, move aside | file system |
| Usage figures (`discovery.py:316-376`, `scheduler.py:338-361`, the `parse_*` functions) | the published numbers | totals, remaining, percent, danger | adapters, state store |
| MQTT session (`mqtt_publisher.py:40-70`, `__main__.py`) | the broker's session and will, the retained availability | connect, online, offline, disconnect | broker, Supervisor |
| Commands (`mqtt_publisher.py:82-109`) | subscription | topic to `RefreshCommand` | scheduler, discovery (which gives the buttons their topics) |
| Adapters (`providers/*.py`) | one browser context per fetch | login, page flow, parsing, classification of errors | portals |
| Configuration (`config.py`) | the list of accounts of one process | `load_config` at every start | the user's form, scheduler |
| Entities (`discovery.py:77-126`, `scheduler.py:241-276`) | retained discovery and states, which outlive the options they came from | publish, republish after a restart | configuration, state store, broker |
| Entry point (`__main__.py`) | where the process is in its start or exit, the exit code | look up, connect, run, say goodbye, exit | all of them |
| Logging, provider registry | none that changes | | |

What is hard here, and to test in particular: four kinds of tasks that
interleave at every await; two of them may work on the same account; a result is
published message by message and saved only after the last PUBACK; the
connection may be lost anywhere and is noticed only by the next publish; the
process is killed and started again with what the broker and the file retain;
commands and the poll timer race for one Event; the will of an old session may be
published late; an attempt to fetch may fail at every await, in ways that the
retry loop treats differently, on a browser that other accounts share; the
options change between two starts while the entities stay. `PROJECT.json` lists the hazards one by one, each with the line
where it bites and the properties that cover it.

What makes the parts correct:

- scheduler: one refresh per id in flight, no id stuck, no browser left behind,
  no press lost, the status tells the truth, `stop()` and a lost connection end
  the process;
- publication: file and topics follow the newest successful fetch and never go back,
  an error that is sent stays and keeps the last good metrics, a restart shows what
  was persisted;
- state store: `load` returns a whole old or a whole new map, whatever crashed;
- figures: every line counted once, a total falls only for a reason, danger is
  explained by what is shown;
- retry and adapters: bounded, final errors final, each retry after its backoff,
  the error reported is the last one, a result whole, contexts closed, a rejected
  login not sent again, and a fetch that returns unless an await without a timeout
  hangs;
- session and process: an "online" is always vouched for, a failure shows in the
  exit code;
- configuration and entities: the first entry of a username wins, and every line
  that one configured account alone has is shown by an entity with its own figures.

## Modules

| Module | Models | Checked by |
|---|---|---|
| `Scheduler` | the tasks of `scheduler.Scheduler` in one process, its connection, its end and restart | `MCScheduler`: safety, liveness |
| `RefreshContract` | abstract: what the refresh buttons promise | implemented by `Scheduler` |
| `Publication` | from the end of a fetch through the messages to `state.json`, and back after a restart | `MCPublication`: publish, overlap_store, sync_ok |
| `Retry` | the attempts of one call of `run_one_account` | through `Fetch` |
| `Fetch` | extends `Retry`: one attempt of each adapter, await by await, on a shared browser | `MCFetch`: fetch, crash_retry |
| `MqttSession` | connection, will and availability | through `Process` |
| `StateStore` | `load` and `save` file operation by file operation | through `Process` |
| `AtomicStore` | abstract: the map that `state.json` is to its users | implemented by `StateStore`, and by `Process` |
| `Process` | `_amain`: composes `MqttSession` and `StateStore` with the start, the exit and the exit code | `MCProcess`: process, stale_will |
| `Bounds` | the bounds these three share | |
| `Usage` | how the figures of an account come about, and what persistence does to them | `MCUsage`: usage, usage_reload |
| `Entities` | `load_config`, and the retained entities over options that change | `MCEntities`: entities |
| `SchedulerProofs`, `PublicationProofs`, `StateStoreProofs`, `UsageProofs`, `EntitiesProofs` | theorems about the module of that name, and their proofs | TLAPS |
| `FetchProofs`, `ProcessProofs` | the same, `FetchProofs` for `Retry` and `Fetch`, `ProcessProofs` for `MqttSession` and `Process` | TLAPS |
| `InductionFacts` | lemmas: induction over numbers and over finite sets, and that folds over finite sets exist | TLAPS |

`PROJECT.json` maps every definition to the lines it stands for. Definitions
whose comment begins with "Fault:" are not part of the models. Each is a changed
form of the definition that follows it, as a plausible mistake would change the
code, and stands for the question which property would notice.

### Scheduler

A task runs without interruption between two awaits, so an action is the code
from one await to the next. `main` is the await at which `run_forever` stands:
`boot` (discovery, known state, "starting"), `subscribe`, then per cycle
`launch`, `fetch` and `publish` for each account, `close`, `running` or
`errored`, `wait`. `PublishRaises`, `RunningRaises`, `ErroredRaises` and so on
are the exception paths, one action for each place where the code treats an
exception differently; which exception it was makes no difference to control.
`failed` records that an exception left the `try` of the current cycle.
`task[s]` are the `_refresh_one` tasks. There is one slot more than accounts, and
`Debounce` says it is never needed. `inbox` is aiomqtt's message queue,
`account_refresh` the asyncio queue behind the listener. `open` is the set of
owners of a running browser. `app_status` is the retained status, which survives
a `Crash` and a `Restart`. `Leave` is the `finally` of `run_forever`, which
cancels listener and worker; the refresh tasks run on until `Exit`, when
`asyncio.run` cancels them.

A publish succeeds only while the connection is up, and may raise at any time;
`MaybeStatus` covers the publish that raised although the broker got it. The
Event is cleared by the `finally` of `_await_next_cycle` whether the wait ended by
the Event (`Wake`) or by the clock (`Timeout`).

aiomqtt queues commands from the subscription on, so `Receive` needs no listener; what
arrives when `run_forever` is over nobody reads, and it is left out. `CloseBrowser` and
`RefreshClose` count a browser as closed when its `close()` raises: it does so when
the browser is gone. `stop()` has no caller in the repository; `Stop` is the action of
whoever uses the class, and `StopTerminates` what the method promises.

`Button[a]` is the id in the command topic of account `a`'s button. Discovery
takes it from `result.account_id`, the worker compares it with the username;
they differ for an Ogero account with a slug, whose presses are `DropUnknown`'s like those
of a stranger. The instances have them equal, the proofs hold for any `Button`.

### Publication

`wire` holds the tasks that await a PUBACK, in the order they sent; brokers
acknowledge in order, and a task sends its next message when it resumes. A
result's messages are those of `build_account_messages`: discovery and state of
the account, then of its secondary line, if the result has one. The many
discovery topics of a device count as one, since they are sent in a row and have
constant payloads. Of a payload the model keeps which fetch its metrics come from,
which attempt it reports and `sync_ok`. `load`, update and `save` have no await
in between and are one step, at the ack of the last message. `StateStore` opens
that step up.

`Slugged` are the accounts whose `account_id` is not the username, `Pressed`
those that may be refreshed outside the cycle, `Faults` whether publishes raise
and the process dies. A fetch may end without a word to the broker: `LostError` is
the failed one whose `load` or publish raises (`scheduler.py:219,231`), `LostResult`
the successful one whose messages are not built or not sent. `Raise` is an exception
later on, or a browser that does not start.

`lastOk`, `failed`, `said`, `cut` and `overlapped` are history variables for the
properties. `failed` is when the last fetch of an account ended if it failed, whether
or not anybody heard of it; `said` is that this process has told the broker. What holds
of `said` is `FailureReported`; that it does not hold of `failed` is
`SyncOkIsLastFetch` and its run.

### StateStore

`write_text` is two steps (truncate, fill), `os.replace` one. A crash may come
between any two. `Damage` is what a power loss may do to a file that was never
fsynced, or what an older version or an editor may have left: a file
`json.loads` rejects, one that makes `load` fail otherwise, or single entries that
`_result_from_dict` rejects. A result is the number of the fetch it came from.

### Usage

Amounts are whole units. The rounding to three decimals in the code plays no
part in the properties; the rounding of `usage_percent` to one decimal does and is
modelled, against the danger test on the exact ratio. `agg` is the kind of the
account: Alfa's main line with secondaries that share its bundle, or the
synthetic line of Touch and Ogero. `Reloaded` is what `_result_to_dict` and
`_result_from_dict` do to a result. The error of a failed fetch goes to the topic of the
username, so with `Slugged`, an Ogero account with a slug, `FetchFail` changes nothing
that is shown. The instance has it `FALSE`; an account with a slug has fewer
behaviours, and the proofs are for both.

### Retry

`i` is the loop variable of `run_one_account`; the histories `errors` and `slept`
record what was raised and which backoffs were slept. "timeout" stands for the
built-in `TimeoutError` that `classify_outcome` has a token for; no adapter lets
one out, so it is in `Retry` and not in `Fetch`.

### Fetch

The three adapters are one script each: the sequence of their awaits, `at` being
the place in it. What differs between them is data: which awaits stand under a
`try` that makes every exception transient (`Guarded`), and what an answer of
another shape becomes (`Unfit`). An await of several Playwright calls that fail
alike (filling two fields, the selectors tried for one submission, the re-reads of
a settling page) is one step. `Raises` ends the attempt with the error's kind,
`Close` is the `finally`: it closes the context, may raise itself when the browser
is gone, and hands the outcome to the action of `Retry` it belongs to.

The portal decides on the credentials at `submit` (`verdict`); the adapter learns
it, or not: Alfa looks for words of a rejection on the page that is there after
the click, Ogero may read the page it is about to leave, and only Touch reads the
answer to its own request. `AnswersEarly` is the XHR that comes before
`expect_response` waits for it. `Die` kills the browser, which the accounts of a
cycle share: `NextAccount` keeps it or starts the next cycle with a new one.
`Untimed` are the awaits Playwright gives no timeout: of the browser itself, of
`page.content()`, of a body. `MayHang` is an attempt that stands at one of them, or at
the close of its context. `late`, `bare` and `told` are history variables for the
properties.

### MqttSession

Every process opens one connection. The broker holds its session, and with it
the will, until a DISCONNECT arrives or it notices that the connection is dead,
by the closed socket or after the keep-alive time. No client id is given, so a
new connection does not take over an old session.

### Process

`phase` is where `_amain` is: options, broker, connect, online, load, run, bye,
close. `proc` of `MqttSession` and `pc` of `StateStore` follow it. Options that are
refused, a broker that is not known or not reachable, and an "online" without PUBACK
end the start before `run_forever`; a `load` that raises ends it after "online" was
said, so that `__aexit__` has to take it back. Saves interleave with everything
up to the exit, because a refresh task outlives `run_forever`; load and save
themselves have no await, so nothing but a kill comes in between their file
operations. `__aexit__` publishes "offline" and disconnects; either may raise, and
then the exit code is not 0.

### Entities

`options` is `options.json`, which the user edits at any time and the process
reads at its start. `LoadConfig` folds `TakeItem` over the entries: an invalid one
refuses the start, also as a duplicate, and a username that was seen is skipped.
Discovery is a function from provider and line to the state topic an entity reads,
states a function from topics to the figures in them: whose, and of which line.
One account is published at a time; what overlapping publications do is
`Publication`'s. `Down` ends the process anywhere, and may lose what the broker
retained, which ends the process as well.

Accounts of one provider may share a line, through a slug, through a number that two
logins list, or through a number that is a username: nothing in the code excludes it,
nor does the model. The instance has two usernames with one slug and a twin that has
an account of its own. Two such accounts write the same
topics, and the last one wins. `Own(a, line)` is a line no other configured account of
the provider can have; `EachLineShown` speaks of those, whatever else collides.
`SlugAssumption` is what
`_sanitize_username` does (`ogero_lb.py:112-115`): the slug of a slug is that slug.
A failed fetch of an account writes to the topic of its username, and the
assumption tells that this is no own line of another account.

## Runs

| Run | Instance | What it shows |
|---|---|---|
| `safety` | 2 accounts, 2 pending commands; 827,117 states | `Debounce`, `NoBrowserLeak`, `StatusTellsLastCycle` as invariants, `RequestNotDropped` of every step |
| `liveness` | 1 account, 2 pending commands; 28,787 states | presses are served, `stop()` and a lost connection end the process; `RefreshContract` is implemented with its fairness |
| `publish` | 2 accounts, one slugged, 4 fetches, all faults, overlaps; 1,990,465 states | between the fetches of an account, file and topics are those of its newest successful fetch, an error that was sent stays; the file is never ahead of HA, neither goes back, startup restores |
| `process` | 2 accounts, 3 saves, 3 connections; 140,352 states | availability, exit code and file through starts, exits and kills; the file implements `AtomicStore` |
| `usage` | 2 numbers, usage up to 5; 161,784 states | the figures of both kinds of accounts |
| `fetch` | 3 adapters, 4 attempts, up to 3 numbers; 4,876 states | contexts, numbers, retries and their errors, whatever await fails and wherever the browser dies |
| `entities` | 2 usernames, 3 providers, 7 forms, 2 edits, shared lines; 874,750 states | which accounts a start has, and that their lines are shown |
| `overlap_store`, `sync_ok`, `usage_reload`, `crash_retry`, `stale_will` | | the findings below |

Why the bounds are enough. The hazards of the scheduler are between the cycle
and one refresh, or between two refreshes; two accounts give both, and two
pending commands give a duplicate, and an unknown id in front of a valid one. The
liveness properties are each about one account or none, and one account with two
pending commands has all the queue positions they speak of. Four fetches of two
accounts are enough for a first result of both and a further success or failure
of each while the other is under way, cut short at any message. Three saves of two
accounts overwrite one entry and keep the other, and three connections leave two
dead sessions behind a living one. Usage up to 5 with bundles of 7, 5 and 1 reaches
below, at and over the danger threshold and over the quota. The program has three
attempts; four leave room for one more in every mix of errors, and the proofs
cover any number. Lists of one to three numbers, not in order, have a first, a
middle and a last number to skip. The seven forms have duplicates at one and at
two providers, invalid entries in front of, behind and as duplicates, a username
that moves, and a number that is a twin at one carrier and a line at another; two
edits remove an account and add it again.

The bounds are `MaxPending` (guard of `Receive`), `MaxFetches` (guard of
`StartCycle`, `StartRefresh` and every end of a fetch), `MaxUpdates` (guard of
`Update`), `MaxUsed` (guard of `Consume`), `MaxConns` (guard of `Connect`), `MaxEdits`
(guard of `Edit`). Only `overlap_store` and `sync_ok`, whose instances have no crash, stop when their fetches are used up; deadlock is checked in every other run.

Fairness. `Scheduler` assumes that the event loop runs every task that can
run, and that a browser launch, a fetch, a publish and a close end, well or badly. For
publishes aiomqtt's timeout justifies it. For a fetch it is an assumption: the
adapters' timeouts hold for every navigation, click and wait for a response, but
`response.json()` (`alfa_lb.py:276`), `page.content()` (`touch_lb.py:127`,
`ogero_lb.py:156`), `context.close()` and `browser.close()` have none, and nothing in
the scheduler limits a fetch. A hang of one of them stops the cycles for good, and the
liveness of the buttons with them. Nothing is assumed of the users, of Supervisor or of the
connection. The poll timer is not assumed either, so that the liveness of the
buttons does not rest on it; only `DisconnectNoticed` does, and names it as its
premise, since a lost connection is noticed by the next publish and, without a
press, that is up to a poll interval away. `Process` assumes that the broker
notices dead connections in the end (the keep-alive), and that the two awaits of
`__aexit__` end, which have aiomqtt's timeouts; it does not assume that the
process ever starts, connects or leaves its loop. `Fetch` assumes only that an await
with a timeout ends (`_DEFAULT_TIMEOUT_MS`), and that sleeps do (`FairFetch`); of the
awaits in `Untimed` and of the close of a context it assumes nothing. `FetchReturns`
says accordingly that a call returns or that it hangs at one of these: every other
await, among them the one for an XHR that has come and gone, is got over.

## Findings

The five runs that expect a violation each check a sentence of the documents.

- `overlap_store` (`scheduler.py:195,313`): the debounce does not see the cycle.
  When both fetch an account and the newer result has fewer lines, it is saved
  first and the older result overwrites it, in a file that "persists last
  successful ProviderResult per account".
- `sync_ok` (`scheduler.py:234`, `providers/ogero_lb.py:208,256`): the error of an account
  with a slug goes to a topic no entity reads, so after a failed fetch its `sync_ok` stays
  on, of which `README.md` (line 25) says "last fetch succeeded".
- `crash_retry` (`scheduler.py:110`): `base.py:58` and the design (line 150) have a browser
  crash "worth retrying". Where it hits decides: under a guarded await it is transient,
  but `new_context` of the next attempt stands under none, so what it raises is
  unclassified and ends the call, for this and every later account of the cycle. (The
  design says at line 393 that a crash aborts the cycle; it does not do that either.)
- `usage_reload` (`state_store.py:82`): `is_aggregate` is not persisted. After a
  restart, and after a failed fetch, the total of a Touch or Ogero account is
  twice its usage.
- `stale_will` (`mqtt_publisher.py:55`): "online" is published once. The will of an
  earlier connection that the broker gives up later turns every entity
  unavailable until the next restart.

Divergences seen while modelling that no run is spent on; the properties above
state what holds beside them:

- the design (line 291) drops a press while the account's fetch is running; the
  worker does so only for its own refreshes. The root of `overlap_store`;
- in such an overlap a failed fetch publishes the result before the one that is
  on its way (`scheduler.py:219`), and a late success covers a failure.
  `Settled` in `TopicsAgree`, and `overlapped` in `FailureReported`, exclude it;
- the mismatch of `sync_ok` makes the refresh button of an account with a slug dead: it
  publishes on a topic with the slug, the worker looks for an account with that username
  and drops the press as unknown (`scheduler.py:316`);
- `sync_ok` is wrong without a slug, too, and `SyncOkIsLastFetch` fails with `Slugged = {}`
  when `Faults` has "raise" or "crash". An error is lost when `load` raises
  (`scheduler.py:219`), or the publish does before the broker has the message
  (`scheduler.py:231`). And a restart publishes the stored result with `sync_ok` on,
  whatever the last attempt was (`scheduler.py:263-276`); the design (line 347) has the
  last error in `state.json`;
- nothing removes what an account that left the options has left behind
  (`scheduler.py:266`). Its entities stay, with `sync_ok` as it was, and its result stays
  in `state.json`; the design (line 257) describes a diff against
  `last_published_entities`, which no code fills or reads;
- the design (line 381) bridges a disconnect with a buffer; the code raises out of
  `run_forever` and leaves it to Supervisor. `DisconnectNoticed` states that;
- `load` fails on damage other than a JSON syntax error (`state_store.py:40`),
  against the docstring of its module: `StartFails`, and `LoadFailureShown` for what
  the user sees of it;
- `danger` of an account is not "any line > danger_percent" (design, line 198), only
  that of the total. What does hold is `AllLinesInDanger`;
- an unknown error is tried again only as the first one of a fetch
  (`scheduler.py:105`; `base.py:66` says "One retry only");
- `DOCS.md` (line 126) says of `auth` that the App "will not retry until you fix the
  credentials", and line 127 that it "retries 3 times per cycle". Every cycle logs in
  again, and three is the number of attempts. `NoLoginAfterRejection` is about one
  call;
- a rejected login is sent again within a call where the adapter does not see the
  rejection: Alfa when the page still is the form (`alfa_lb.py:259`), the XHR then
  times out and the error is transient; Touch when the portal answers with an error
  status (`touch_lb.py:142`). Hence `told` in that property;
- a login that works may be taken for a rejection when Ogero's settled page is the
  old one (`ogero_lb.py:183`);
- the token "timeout" (`scheduler.py:67`) is never produced: Playwright's
  `TimeoutError` is another class, and Alfa's is turned into a transient error;
- the design (line 256) republishes discovery on startup and changes, "not every
  cycle"; every successful fetch publishes it;
- a username that moved to another provider is republished, until its first fetch,
  as that provider's (`scheduler.py:262`); lines the new provider does not have stay as
  entities for good. `moved` in `EachLineShown`;
- the second account of a username at another provider is dropped
  (`config.py:67`), though every id and topic carries the provider;
- `stop()` has no caller, and SIGTERM no handler, so Supervisor's stop is a kill; the
  "offline" of the design's shutdown (line 258) then comes from the will.

## Proofs

TLAPS proves the theorems for every value of the constants: any number of accounts,
any assignment of button topics, any portal, any options and every bound. The
theorems cover each invariant and each action property that the passing runs check;
`PROJECT.json` names the property of each. Along which argument:

Scheduler.

- `TypeCorrect`: `TypeOK` is inductive by itself; one lemma per group of actions. It
  needs `ButtonAssumption` (a button's id is some id).
- `DebounceCorrect`: `Debounce` is inductive given `TypeOK`. Its third conjunct,
  no two tasks of one id, is what makes the discard of a finishing task leave no
  other task without its id.
- `StatusCorrect`: strengthened by `StatusInv`, which says what `failed` must be at
  `running` and `errored`, where the status is still to be published.
- `BrowserCorrect`: `NoBrowserLeak` is an equation between `open` and the places
  of the tasks, and inductive as it is.
- `RequestKept`: no step clears the Event but the start of a cycle and the end.
- `Implements`: `Spec => Contract!Spec`. It rests on `HelperInv`: before the loop
  is entered there is no listener and only a stop sets the Event; a process that
  is leaving or gone has neither listener nor worker; an exited one has nothing
  requested or in flight, so a refresh never begins in a halted process.

Publication. Four invariants, each on top of the one before.

- `PublicationInv` (`StoreCorrect`): `Shape` says which task may be at which account: a
  refresh task only at its own, the main task at one or none, and no account is
  between two tasks without being in `overlapped`. `Saved` says where the newest result
  of an account is: in the file, or in the job of the one task that is publishing it,
  or lost with a task in `cut`. A save of one task does not touch the account of
  another, which is the whole-file rewrite.
- `Typed` and `Flow` (`PublicationTyped`): a task is on the wire, once, exactly while it
  has a message out, and what it has left to send is a proper suffix of its result's
  messages. `Typed` needs the dates, that no result is from a later fetch than the
  last. After `StepKinds`, which sorts the actions into what one task does (`Begins`,
  `Fetches`, `Fails`, `Loses`, `SendsMore`, `Saves`, `GivesUp`), every further proof has one
  case per kind.
- `Order` (`SavesInOrder`, `MetricsInOrder`): of two tasks with results of one account
  the newer has sent less, or as much and is behind on the wire (`Ahead`), because the
  broker acknowledges in order; and a task whose result is older than the stored one
  is of an overlap, with more messages than the newer had (`Behind`). This is the
  argument why only a result with fewer lines can be overwritten by an older one.
- `Startup` (`StartupCorrect`): while the main task starts, nobody else works, what it
  has left to send are messages of stored results, and those not left are retained.
- `Agree` (`TopicsCorrect`, `FailuresReported`, `StoreIsShown`): for an account without
  overlap, what its task has sent is retained, what no task has touched is as stored,
  nothing is stored that was not shown, and an error that was said is retained as it was
  sent (`Reported`), since the topics of accounts and of errors are apart.

Retry and Fetch.

- `RetryInv` counts. The attempts so far are `i`, or one more once the last has failed;
  the backoffs slept are those of the transient errors among them, in order.
  `LastErrorCorrect`, `BackoffCorrect`, `FinalCorrect` and `AttemptsCorrect` follow.
- `FetchIsRetried`: every step of an attempt is a step of `Retry` or a stutter, so
  `FetchErrorCorrect` and `FetchBackoffCorrect` are those theorems again.
- `AttemptInv` (`ContextCorrect`, `RejectionCorrect`): a context is open exactly between the
  first await and the close, and an attempt that has read a rejection is over or about
  to end the call - also when its close raises.
- `NumbersInv` (`CompleteCorrect`, `FetchTyped`): after the first n numbers of the
  portal's list the lines are those n without the bare ones, in order, and the rest is
  still to read; a new attempt has none of the numbers of the one before; a result
  is made only when no number is left.

Usage. `UsageInv` says what a stored result can be: its lines carry the figures of the
last fetch, a synthetic main line is their sum, and what is shown is the panel of the
stored result or of what `state.json` gives back of it. `UsageTyped`, `LinesCounted`,
`DropsCorrect`, `DangerCorrect` and `AllInDangerCorrect` follow from it with facts about
sums over finite sets: a larger summand makes a larger sum, and a weighed sum of lines
that are all at the threshold is at the threshold. `Quotient` is the rounding: a
ratio at the threshold is never rounded below it.

Entities.

- `Loaded`: `load_config`'s loop, by induction on the entries read. After n entries,
  none of them wrong, the accounts are the first entries of each username among them,
  and the i-th account is the i-th of those. Hence `FirstWinsCorrect`.
- `EntitiesInv` (`EntitiesTyped`, `LinesShownCorrect`): every account that startup has
  come to has its stored result shown, line by line, and so has the result that is
  about to be saved, as far as a line is its own. `PublishSets` says that a
  published result shows its lines; `PublishKeeps` that it takes no own line from another
  account; `FailKeeps` the same of the topic of a failed fetch, which is where
  `SlugAssumption` is needed.

Files, session and process.

- `SaveInvCorrect`, `StoreTyped` and `StoreIsAtomic`: between load and replace the
  `State` in memory is the file's with one entry replaced, and the temporary file is
  complete before it replaces; hence every step is a step of `AtomicStore` or a stutter.
- `OnlineCorrect` and `SessionTyped`: strengthened by `SessionInv`; a process about to
  send its DISCONNECT on a living connection has said "offline" before.
- `ProcessProofs`: every step of the process is a step or a stutter of its session
  and of its files, so the theorems of those two hold of it
  (`ProcessOnlineCorrect`, `ProcessStoreCorrect`, `ProcessTyped`). `ExitCorrect` is
  about both and has an invariant of its own: a process that is closing with code 0
  has said "offline", and one whose state did not load has code "failed" from there on.

Sums and folds. The library's induction theorems take the property as an operator,
which the installed provers cannot instantiate. `InductionFacts` states induction
about sets instead - a set of numbers that has 0 and every successor has all numbers,
a set of subsets that has each set whose smaller ones it has has all of them - so that
the property is a set defined by it. `FoldExists` shows that the function which
`MapThenFoldSet` chooses exists; with it `SumFunctionOnSet` (in `UsageProofs`),
`FoldLeft` (in `LoadConfig`) and `FlattenSeq` (`StartupMessages`) can be reasoned about.
`SelectSeq`, `@@` and `:>` have no definition that the provers can use; hence
`NumbersComplete` says of the order of lines what it says with indices, and `Retain` of
`Entities` is a function of its own.

The assumptions are the named `ASSUME`s on constants in the modules, which TLC
evaluates in the runs. Most are types and bounds. Those that say more:
`SlugAssumption` (above), which is a fact of the code, and `PagesAssumption`, that a portal
lists no number twice, which the adapters do not check.

Model-checked only: all liveness (`PressStartsCycle`, `QueueServed`,
`StopTerminates`, `DisconnectNoticed`, `FetchReturns`, `GoneIsShown`,
`LoadFailureShown`) and the fairness part of `ImplementsContract`, which are out of the
prover's reach.

## Not modelled

Regular expressions, selectors and unit conversion of the adapters; which price
of several `parse_internet_usage` takes; that Ogero's form may be submitted twice by
a click that times out; the names, units and templates in discovery payloads; topic
syntax; which check of a field of the options fails; the parsing of the broker's
address and the developer's filter of accounts; logging. They are pure or hold no
state that other parts read. Browser, portals, broker, file system, Supervisor and
users appear as the environment's actions.

## Plan

Done: `Scheduler` and its contract, `Publication`, `StateStore` and `AtomicStore`,
`Usage`, `Retry`, `MqttSession`, then `Fetch`, `Process` and `Entities`, and a theorem
for every invariant and every action property that a passing run checks. What could
follow, in this order:

1. An abstract specification of `Publication`: a map from accounts to results, with
   the file and the topics as two views of it that may lag, implemented by
   `Publication` as `AtomicStore` is by `StateStore`.
2. `Scheduler` with `Publication` in place of its steps `fetch` and `publish`, so that
   crash points, saves and messages are those of one process. The state space of the
   two together needs a symmetry argument first; by proof it needs only that the steps
   of the whole are steps or stutters of the two, as in `ProcessProofs`.
