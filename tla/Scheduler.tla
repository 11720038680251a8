------------------------------ MODULE Scheduler ------------------------------
(***************************************************************************)
(* The asyncio tasks of scheduler.Scheduler inside one process of the app: *)
(*                                                                         *)
(*   main       run_forever: startup, then one cycle after the other       *)
(*   listener   _listen_commands: turns MQTT commands into an Event (all)  *)
(*              or a queue entry (one account)                             *)
(*   worker     _account_refresh_worker: debounces the queue and spawns    *)
(*   task[s]    the _refresh_one tasks it spawned, one slot each           *)
(*                                                                         *)
(* A task runs without interruption between two awaits, so an action is    *)
(* the code from one await to the next.  What a fetch returns and what is  *)
(* published is in Publication; here a fetch or a publish only ends or     *)
(* raises.                                                                 *)
(***************************************************************************)
EXTENDS Naturals, Sequences, FiniteSets

CONSTANTS
  NumAccounts,   \* length of config.accounts
  Button,        \* Button[a]: the account id in the command topic of a's button
  MaxPending     \* bound: commands received and not yet taken by the worker

Accounts   == 1 .. NumAccounts     \* an account is its position in the config
Stranger   == NumAccounts + 1      \* an id no configured account has as username
RefreshAll == 0                    \* RefreshCommand(account_id=None)
Ids        == 1 .. NumAccounts + 1

ASSUME NumAccountsAssumption == NumAccounts \in Nat
ASSUME ButtonAssumption == Button \in [Accounts -> Ids]
ASSUME MaxPendingAssumption == MaxPending \in Nat

\* Room for one refresh task more than the debounce should ever allow.
Slots == 1 .. NumAccounts + 1
\* The main task's name among the browser owners.
Main == 0

VARIABLES
  main,            \* where run_forever is, by the await it stands at
  next,            \* the account the cycle is at
  failed,          \* an exception left the current (or last) cycle's try block
  refresh_all,     \* Scheduler._refresh_all, an asyncio.Event
  stop_set,        \* Scheduler._stop, an asyncio.Event
  account_refresh, \* Scheduler._account_refresh, a queue of ids
  in_flight,       \* the worker's set of ids under refresh
  task,            \* task[s]: where the refresh task of slot s is, and for whom
  listener,        \* the listener task is alive
  worker,          \* the worker task is alive
  inbox,           \* commands aiomqtt received and the listener has not taken
  conn,            \* the MQTT connection of this process
  open,            \* owners of a running browser process
  app_status       \* the retained payload of carriers_sync/app/state

cycleVars == <<main, next, failed>>
signals   == <<refresh_all, stop_set>>
refresher == <<account_refresh, in_flight, task, worker>>
intake    == <<listener, inbox>>
vars == <<cycleVars, signals, refresher, intake, conn, open, app_status>>

MainStates == {"boot", "subscribe", "launch", "fetch", "publish", "close",
               "running", "errored", "wait", "returned", "raised", "exited"}
TaskStages == {"none", "launch", "fetch", "publish", "close"}
Statuses   == {"unset", "starting", "running", "errored"}

\* run_one_cycle and the status publish that ends it.
InCycle == main \in {"launch", "fetch", "publish", "close", "running", "errored"}
\* run_forever is over; its finally clause has cancelled listener and worker.
Leaving == main \in {"returned", "raised"}
Live(s) == task[s].stage # "none"
NoTask  == [stage |-> "none", acct |-> 0]

TypeOK ==
  /\ main \in MainStates
  /\ next \in 1 .. NumAccounts + 1
  /\ failed \in BOOLEAN
  /\ refresh_all \in BOOLEAN
  /\ stop_set \in BOOLEAN
  /\ account_refresh \in Seq(Ids)
  /\ in_flight \subseteq Accounts
  /\ task \in [Slots -> [stage : TaskStages, acct : 0 .. NumAccounts]]
  /\ listener \in BOOLEAN
  /\ worker \in BOOLEAN
  /\ inbox \in Seq(Ids \union {RefreshAll})
  /\ conn \in {"up", "down"}
  /\ open \subseteq Slots \union {Main}
  /\ app_status \in Statuses

Init ==
  /\ main = "boot" /\ next = 1 /\ failed = FALSE
  /\ refresh_all = FALSE /\ stop_set = FALSE
  /\ account_refresh = <<>> /\ in_flight = {} /\ task = [s \in Slots |-> NoTask]
  /\ listener = FALSE /\ worker = FALSE /\ inbox = <<>>
  /\ conn = "up" /\ open = {} /\ app_status = "unset"

-----------------------------------------------------------------------------
(* run_forever and run_one_cycle. *)

\* Fault: a publish without connection is taken for done.
PublishNeverFails == TRUE

\* Publishing needs the connection; aiomqtt raises MqttError without it.
CanPublish == conn = "up"

\* A publish that raised may still have reached the broker (lost PUBACK).
MaybeStatus(s) == app_status' \in IF CanPublish THEN {app_status, s} ELSE {app_status}

\* The finally clause of run_forever.
Leave(how) == /\ main' = how
              /\ listener' = FALSE
              /\ worker' = FALSE

\* Discovery, the known state and "starting" go out; nothing listens yet.
StartupPublish ==
  /\ main = "boot" /\ CanPublish
  /\ main' = "subscribe"
  /\ app_status' = "starting"
  /\ UNCHANGED <<next, failed, signals, refresher, intake, conn, open>>

\* An exception before the try block leaves run_forever at once.
StartupRaises ==
  /\ main \in {"boot", "subscribe"}
  /\ Leave("raised")
  /\ IF main = "boot" THEN MaybeStatus("starting") ELSE UNCHANGED app_status
  /\ UNCHANGED <<next, failed, signals, account_refresh, in_flight, task, inbox,
                 conn, open>>

\* Subscribed: the two helper tasks are created and the loop tests _stop.
Subscribe ==
  /\ main = "subscribe" /\ CanPublish
  /\ IF stop_set
       THEN Leave("returned")
       ELSE main' = "launch" /\ listener' = TRUE /\ worker' = TRUE
  /\ failed' = FALSE
  /\ UNCHANGED <<next, signals, account_refresh, in_flight, task, inbox, conn,
                 open, app_status>>

LaunchBrowser ==
  /\ main = "launch"
  /\ main' = IF Accounts = {} THEN "close" ELSE "fetch"
  /\ next' = 1
  /\ open' = open \union {Main}
  /\ UNCHANGED <<failed, signals, refresher, intake, conn, app_status>>

LaunchFails ==
  /\ main = "launch"
  /\ main' = "errored"
  /\ failed' = TRUE
  /\ UNCHANGED <<next, signals, refresher, intake, conn, open, app_status>>

\* run_one_account returns a result or an exception; both are published.
FetchDone ==
  /\ main = "fetch"
  /\ main' = "publish"
  /\ UNCHANGED <<next, failed, signals, refresher, intake, conn, open, app_status>>

PublishDone ==
  /\ main = "publish" /\ CanPublish
  /\ IF next < NumAccounts
       THEN main' = "fetch" /\ next' = next + 1
       ELSE main' = "close" /\ UNCHANGED next
  /\ UNCHANGED <<failed, signals, refresher, intake, conn, open, app_status>>

\* Fault: no finally clause around the accounts of a cycle.
RaiseSkipsClose ==
  /\ main = "publish"
  /\ main' = "errored"
  /\ failed' = TRUE
  /\ UNCHANGED <<next, signals, refresher, intake, conn, open, app_status>>

\* A publish or the save of state.json raised: the other accounts are skipped.
PublishRaises ==
  /\ main = "publish"
  /\ main' = "close"
  /\ failed' = TRUE
  /\ UNCHANGED <<next, signals, refresher, intake, conn, open, app_status>>

\* The finally clause of run_one_cycle.  close() itself may raise; it does when the
\* browser is gone, so it counts as closed all the same.
CloseBrowser ==
  /\ main = "close"
  /\ failed' \in {failed, TRUE}
  /\ main' = IF failed' THEN "errored" ELSE "running"
  /\ open' = open \ {Main}
  /\ UNCHANGED <<next, signals, refresher, intake, conn, app_status>>

\* Fault: the Event is cleared before the wait, too.
RunningClearsEvent ==
  /\ main = "running" /\ CanPublish
  /\ main' = "wait"
  /\ app_status' = "running"
  /\ refresh_all' = FALSE
  /\ UNCHANGED <<next, failed, stop_set, refresher, intake, conn, open>>

PublishRunning ==
  /\ main = "running" /\ CanPublish
  /\ main' = "wait"
  /\ app_status' = "running"
  /\ UNCHANGED <<next, failed, signals, refresher, intake, conn, open>>

\* Fault: an error of the publish of "running" is swallowed.
RunningRaisesUnseen ==
  /\ main = "running"
  /\ main' = "wait"
  /\ failed' = TRUE
  /\ MaybeStatus("running")
  /\ UNCHANGED <<next, signals, refresher, intake, conn, open>>

\* The publish of "running" is inside the try block.
RunningRaises ==
  /\ main = "running"
  /\ main' = "errored"
  /\ failed' = TRUE
  /\ MaybeStatus("running")
  /\ UNCHANGED <<next, signals, refresher, intake, conn, open>>

PublishErrored ==
  /\ main = "errored" /\ CanPublish
  /\ main' = "wait"
  /\ app_status' = "errored"
  /\ UNCHANGED <<next, failed, signals, refresher, intake, conn, open>>

\* The publish of "errored" is outside of it: run_forever raises.
ErroredRaises ==
  /\ main = "errored"
  /\ Leave("raised")
  /\ MaybeStatus("errored")
  /\ UNCHANGED <<next, failed, signals, account_refresh, in_flight, task, inbox,
                 conn, open>>

\* Fault: the loop does not test _stop.
NextCycleAlways ==
  /\ main = "wait"
  /\ refresh_all' = FALSE
  /\ main' = "launch" /\ failed' = FALSE
  /\ UNCHANGED <<next, stop_set, refresher, intake, conn, open, app_status>>

\* Fault: nothing clears the Event after the wait.
NextCycleKeepsEvent ==
  /\ main = "wait"
  /\ IF stop_set
       THEN Leave("returned") /\ UNCHANGED failed
       ELSE main' = "launch" /\ failed' = FALSE /\ UNCHANGED <<listener, worker>>
  /\ UNCHANGED <<next, signals, account_refresh, in_flight, task, inbox, conn,
                 open, app_status>>

\* _await_next_cycle returns, its finally clause clears the Event, and the
\* loop tests _stop.
NextCycle ==
  /\ main = "wait"
  /\ refresh_all' = FALSE
  /\ IF stop_set
       THEN Leave("returned") /\ UNCHANGED failed
       ELSE main' = "launch" /\ failed' = FALSE /\ UNCHANGED <<listener, worker>>
  /\ UNCHANGED <<next, stop_set, account_refresh, in_flight, task, inbox, conn,
                 open, app_status>>

\* The wait ends because the Event was set ...
Wake == refresh_all /\ NextCycle
\* ... or because poll_interval_minutes have passed.
Timeout == NextCycle

\* Scheduler.stop(): both Events, in one step.
Stop ==
  /\ main # "exited" /\ ~stop_set
  /\ stop_set' = TRUE
  /\ refresh_all' = TRUE
  /\ UNCHANGED <<cycleVars, refresher, intake, conn, open, app_status>>

-----------------------------------------------------------------------------
(* Commands: the broker, the listener and the worker. *)

\* Commands are subscribed to: aiomqtt queues what the broker delivers, whether
\* the listener reads yet or not.  Of a run_forever that is over nobody ever reads.
Subscribed == main \in {"subscribe", "wait"} \/ InCycle

Receive(cmd) ==
  /\ Subscribed /\ conn = "up"
  /\ Len(inbox) + Len(account_refresh) < MaxPending
  /\ inbox' = Append(inbox, cmd)
  /\ UNCHANGED <<cycleVars, signals, refresher, listener, conn, open, app_status>>

PressRefreshAll == Receive(RefreshAll)
PressRefresh(a) == Receive(Button[a])
\* A button that discovery left retained for an account since removed.
PressStale == Receive(Stranger)

\* Fault: a command without account id is ignored.
ListenOnlyAccounts ==
  /\ listener /\ inbox # <<>>
  /\ inbox' = Tail(inbox)
  /\ account_refresh' = IF Head(inbox) = RefreshAll THEN account_refresh
                         ELSE Append(account_refresh, Head(inbox))
  /\ UNCHANGED <<cycleVars, signals, in_flight, task, worker, listener, conn,
                 open, app_status>>

Listen ==
  /\ listener /\ inbox # <<>>
  /\ inbox' = Tail(inbox)
  /\ IF Head(inbox) = RefreshAll
       THEN refresh_all' = TRUE /\ UNCHANGED account_refresh
       ELSE /\ account_refresh' = Append(account_refresh, Head(inbox))
            /\ UNCHANGED refresh_all
  /\ UNCHANGED <<cycleVars, stop_set, in_flight, task, worker, listener, conn,
                 open, app_status>>

\* The message iterator raises MqttError; nobody awaits or restarts the task.
ListenerDies ==
  /\ listener /\ conn = "down"
  /\ listener' = FALSE
  /\ UNCHANGED <<cycleVars, signals, refresher, inbox, conn, open, app_status>>

TakeCommand == /\ worker /\ account_refresh # <<>>
               /\ account_refresh' = Tail(account_refresh)
               /\ UNCHANGED <<cycleVars, signals, intake, worker, conn, open, app_status>>

\* The account is under refresh already: the press is dropped.
DropDuplicate == /\ TakeCommand
                 /\ Head(account_refresh) \in in_flight
                 /\ UNCHANGED <<in_flight, task>>

\* Fault: an id of no account ends the worker.
UnknownEndsWorker ==
  /\ worker /\ account_refresh # <<>>
  /\ Head(account_refresh) \notin in_flight \union Accounts
  /\ account_refresh' = Tail(account_refresh)
  /\ worker' = FALSE
  /\ UNCHANGED <<cycleVars, signals, in_flight, task, intake, conn, open, app_status>>

\* No account in the config has this username.
DropUnknown == /\ TakeCommand
               /\ Head(account_refresh) \notin in_flight \union Accounts
               /\ UNCHANGED <<in_flight, task>>

\* Fault: the id is not looked up in the config before it is in flight.
SpawnUnchecked ==
  /\ TakeCommand
  /\ Head(account_refresh) \notin in_flight
  /\ in_flight' = in_flight \union {Head(account_refresh)}
  /\ UNCHANGED task

Spawn ==
  /\ TakeCommand
  /\ Head(account_refresh) \in Accounts \ in_flight
  /\ in_flight' = in_flight \union {Head(account_refresh)}
  /\ \E s \in Slots :
       /\ ~Live(s) /\ \A r \in Slots : r < s => Live(r)
       /\ task' = [task EXCEPT ![s] = [stage |-> "launch", acct |-> Head(account_refresh)]]

-----------------------------------------------------------------------------
(* _refresh_one, in slot s. *)

RefreshFrame == UNCHANGED <<cycleVars, signals, account_refresh, worker, intake,
                            conn, app_status>>

Goto(s, stage) == task' = [task EXCEPT ![s].stage = stage]

\* Fault: the id is not discarded.
EndWithoutDiscard(s) == /\ task' = [task EXCEPT ![s] = NoTask]
                        /\ UNCHANGED in_flight

\* The outer finally clause: the account leaves in_flight, the task ends.
EndRefresh(s) == /\ task' = [task EXCEPT ![s] = NoTask]
                 /\ in_flight' = in_flight \ {task[s].acct}

RefreshLaunch(s) == /\ task[s].stage = "launch"
                    /\ Goto(s, "fetch")
                    /\ open' = open \union {s}
                    /\ UNCHANGED in_flight
                    /\ RefreshFrame

RefreshLaunchFails(s) == /\ task[s].stage = "launch"
                         /\ EndRefresh(s)
                         /\ UNCHANGED open
                         /\ RefreshFrame

RefreshFetched(s) == /\ task[s].stage = "fetch"
                     /\ Goto(s, "publish")
                     /\ UNCHANGED <<in_flight, open>>
                     /\ RefreshFrame

\* Published and saved, or raised: the inner finally clause is next.
RefreshPublished(s) == /\ task[s].stage = "publish"
                       /\ Goto(s, "close")
                       /\ UNCHANGED <<in_flight, open>>
                       /\ RefreshFrame

\* close() returned or raised: either way the outer finally clause runs.
RefreshClose(s) == /\ task[s].stage = "close"
                   /\ open' = open \ {s}
                   /\ EndRefresh(s)
                   /\ RefreshFrame

-----------------------------------------------------------------------------
(* The process and its connection. *)

ConnLost == /\ conn = "up" /\ main # "exited"
            /\ conn' = "down"
            /\ UNCHANGED <<cycleVars, signals, refresher, intake, open, app_status>>

\* Nothing of the process is left; the broker keeps the retained status.
Dead ==
  /\ main' = "exited" /\ next' = 1 /\ failed' = FALSE
  /\ refresh_all' = FALSE /\ stop_set' = FALSE
  /\ account_refresh' = <<>> /\ in_flight' = {} /\ task' = [s \in Slots |-> NoTask]
  /\ listener' = FALSE /\ worker' = FALSE /\ inbox' = <<>>
  /\ conn' = "down" /\ open' = {} /\ UNCHANGED app_status

\* __main__: the publisher disconnects, asyncio.run cancels what still runs.
Exit  == Leaving /\ Dead
\* The container is killed.
Crash == main # "exited" /\ Dead

\* External: Supervisor starts the container again.
Restart == /\ main = "exited"
           /\ main' = "boot" /\ conn' = "up"
           /\ UNCHANGED <<next, failed, signals, refresher, intake, open, app_status>>

-----------------------------------------------------------------------------
CycleStep ==
  \/ StartupPublish \/ StartupRaises \/ Subscribe
  \/ LaunchBrowser \/ LaunchFails \/ FetchDone \/ PublishDone \/ PublishRaises
  \/ CloseBrowser
  \/ PublishRunning \/ RunningRaises \/ PublishErrored \/ ErroredRaises
  \/ Wake

WorkerStep == DropDuplicate \/ DropUnknown \/ Spawn

RefreshStep(s) ==
  \/ RefreshLaunch(s) \/ RefreshLaunchFails(s) \/ RefreshFetched(s)
  \/ RefreshPublished(s) \/ RefreshClose(s)

Environment ==
  \/ PressRefreshAll \/ (\E a \in Accounts : PressRefresh(a)) \/ PressStale
  \/ Stop \/ ConnLost \/ Crash \/ Restart

Next == \/ CycleStep \/ Timeout
        \/ Listen \/ ListenerDies \/ WorkerStep \/ \E s \in Slots : RefreshStep(s)
        \/ Exit
        \/ Environment

Spec == Init /\ [][Next]_vars

\* The event loop runs every task that can run, and every await of a browser, a
\* portal or the broker ends.  That is assumed: most have a timeout of their own,
\* but reading a page or an answer and closing the browser have none (Fetch).
Fairness == /\ WF_vars(CycleStep) /\ WF_vars(Exit)
            /\ WF_vars(Listen) /\ WF_vars(ListenerDies) /\ WF_vars(WorkerStep)
            /\ \A s \in Slots : WF_vars(RefreshStep(s))

FairSpec == Spec /\ Fairness

-----------------------------------------------------------------------------
(* Safety. *)

\* The worker's debounce (scheduler.py:313-323, 327-335): on every path through
\* _refresh_one, raising or not, the tasks alive are one per id in in_flight.
\* An id left behind would make an account's button dead for good; an id
\* removed early would let two refreshes of one account run.
Debounce ==
  /\ \A s \in Slots : Live(s) => task[s].acct \in in_flight
  /\ \A a \in in_flight : \E s \in Slots : Live(s) /\ task[s].acct = a
  /\ \A s, r \in Slots : Live(s) /\ Live(r) /\ task[s].acct = task[r].acct => s = r

\* Every launched browser has an owner that will close it, whichever step
\* raised (the nested finally clauses of run_one_cycle and _refresh_one).
NoBrowserLeak ==
  open = {s \in Slots : task[s].stage \in {"fetch", "publish", "close"}}
           \union (IF main \in {"fetch", "publish", "close"} THEN {Main} ELSE {})

\* While the app waits for the next cycle, the retained app status says how the
\* last one ended: "errored" exactly when an exception left the try block of
\* run_forever, even if that exception was the publish of "running".
StatusTellsLastCycle ==
  main = "wait" => app_status = IF failed THEN "errored" ELSE "running"

\* A refresh-all request is used up by a cycle that starts after it, or by the
\* end of the process: no path clears the Event and goes on waiting.
RequestNotDropped ==
  [][refresh_all /\ ~refresh_all' => main' \in {"launch", "returned", "exited"}]_vars

-----------------------------------------------------------------------------
(* Liveness. *)

\* The received press of "Refresh all", once its turn has come, leads to a cycle
\* that fetches after it, or the process ends or has lost its listener.
PressStartsCycle ==
  (listener /\ inbox # <<>> /\ Head(inbox) = RefreshAll)
    ~> (main = "launch" \/ ~listener)

\* A queued press is never stuck behind others, be they duplicates or ids of no
\* account: its account comes under refresh, or run_forever is over.
QueueServed ==
  \A a \in Accounts :
    (worker /\ \E k \in 1 .. Len(account_refresh) : account_refresh[k] = a)
      ~> (a \in in_flight \/ Leaving \/ main = "exited")

\* stop() ends the process.
StopTerminates == stop_set ~> main = "exited"

\* With the poll timer running, a lost connection is noticed: the next cycle's
\* publish raises and the process exits, for Supervisor to restart it.
DisconnectNoticed == WF_vars(Timeout) => ((conn = "down") ~> main = "exited")

-----------------------------------------------------------------------------
(* The contract with the user of the buttons. *)

Contract == INSTANCE RefreshContract WITH
  Accounts   <- Accounts,
  requested  <- refresh_all,
  cycling    <- InCycle,
  refreshing <- in_flight,
  halted     <- Leaving \/ main = "exited"

\* The tasks together are what the buttons promise: every request is followed
\* by a cycle that begins after it, one refresh of an account at a time, and
\* what was begun ends.
ImplementsContract == Contract!FairSpec
=============================================================================
