---------------------------- MODULE SchedulerProofs ----------------------------
(***************************************************************************)
(* Proofs about Scheduler for any number of accounts, any button ids and   *)
(* any bound on the pending commands.                                      *)
(***************************************************************************)
EXTENDS Scheduler, SequenceTheorems, TLAPS

-----------------------------------------------------------------------------
(* Type correctness. *)

\* The steps of the main task keep the types.
LEMMA CycleStepType == TypeOK /\ (CycleStep \/ Timeout) => TypeOK'
<1> SUFFICES ASSUME TypeOK, CycleStep \/ Timeout PROVE TypeOK'
  OBVIOUS
<1> USE NumAccountsAssumption DEF TypeOK, MainStates, Statuses, Accounts, Slots, Main,
    cycleVars, signals, refresher, intake
<1>1. CASE StartupPublish BY <1>1 DEF StartupPublish
<1>2. CASE StartupRaises BY <1>2 DEF StartupRaises, Leave, MaybeStatus
<1>3. CASE Subscribe BY <1>3 DEF Subscribe, Leave
<1>4. CASE LaunchBrowser BY <1>4 DEF LaunchBrowser
<1>5. CASE LaunchFails BY <1>5 DEF LaunchFails
<1>6. CASE FetchDone BY <1>6 DEF FetchDone
<1>7. CASE PublishDone BY <1>7, SMTT(20) DEF PublishDone
<1>8. CASE PublishRaises BY <1>8 DEF PublishRaises
<1>9. CASE CloseBrowser BY <1>9 DEF CloseBrowser
<1>10. CASE PublishRunning BY <1>10 DEF PublishRunning
<1>11. CASE RunningRaises BY <1>11 DEF RunningRaises, MaybeStatus
<1>12. CASE PublishErrored BY <1>12 DEF PublishErrored
<1>13. CASE ErroredRaises BY <1>13 DEF ErroredRaises, Leave, MaybeStatus
<1>14. CASE NextCycle BY <1>14 DEF NextCycle, Leave
<1> QED BY <1>1, <1>2, <1>3, <1>4, <1>5, <1>6, <1>7, <1>8, <1>9, <1>10, <1>11, <1>12,
           <1>13, <1>14 DEF CycleStep, Wake, Timeout

\* The steps of the listener and of the worker keep the types.
LEMMA CommandStepType == TypeOK /\ (Listen \/ ListenerDies \/ WorkerStep) => TypeOK'
<1> SUFFICES ASSUME TypeOK, Listen \/ ListenerDies \/ WorkerStep PROVE TypeOK'
  OBVIOUS
<1> USE NumAccountsAssumption DEF TypeOK, Accounts, Ids, Slots, RefreshAll, TaskStages,
    cycleVars, signals, refresher, intake
<1>1. CASE Listen
  <2>1. /\ Head(inbox) \in Ids \union {RefreshAll}
        /\ Tail(inbox) \in Seq(Ids \union {RefreshAll})
    BY <1>1, HeadTailProperties DEF Listen
  <2>2. CASE Head(inbox) = RefreshAll
    BY <1>1, <2>1, <2>2 DEF Listen
  <2>3. CASE Head(inbox) # RefreshAll
    <3>1. Append(account_refresh, Head(inbox)) \in Seq(Ids)
      BY <2>1, <2>3, AppendProperties
    <3> QED BY <1>1, <2>1, <2>3, <3>1 DEF Listen
  <2> QED BY <2>2, <2>3
<1>2. CASE ListenerDies BY <1>2 DEF ListenerDies
<1>3. CASE WorkerStep
  <2>1. TakeCommand BY <1>3 DEF WorkerStep, DropDuplicate, DropUnknown, Spawn
  <2>2. /\ Head(account_refresh) \in Ids
        /\ account_refresh' \in Seq(Ids)
    BY <2>1, HeadTailProperties DEF TakeCommand
  <2>3. CASE UNCHANGED <<in_flight, task>>
    BY <2>1, <2>2, <2>3 DEF TakeCommand
  <2>4. CASE Spawn
    <3>1. Head(account_refresh) \in 1 .. NumAccounts
      BY <2>4 DEF Spawn
    <3>2. PICK s \in Slots :
            task' = [task EXCEPT ![s] = [stage |-> "launch", acct |-> Head(account_refresh)]]
      BY <2>4 DEF Spawn
    <3>3. task' \in [Slots -> [stage : TaskStages, acct : 0 .. NumAccounts]]
      BY <3>1, <3>2
    <3>4. in_flight' \subseteq Accounts
      BY <3>1, <2>4 DEF Spawn
    <3> QED BY <2>1, <2>2, <3>3, <3>4 DEF TakeCommand
  <2> QED BY <1>3, <2>3, <2>4 DEF WorkerStep, DropDuplicate, DropUnknown
<1> QED BY <1>1, <1>2, <1>3

\* The steps of a refresh task keep the types.
LEMMA RefreshStepType == ASSUME TypeOK, NEW s \in Slots, RefreshStep(s) PROVE TypeOK'
<1> USE NumAccountsAssumption DEF TypeOK, Slots, TaskStages, NoTask, RefreshFrame, Goto,
    EndRefresh, cycleVars, signals, refresher, intake
<1>1. CASE RefreshLaunch(s) BY <1>1 DEF RefreshLaunch
<1>2. CASE RefreshLaunchFails(s) BY <1>2 DEF RefreshLaunchFails
<1>3. CASE RefreshFetched(s) BY <1>3 DEF RefreshFetched
<1>4. CASE RefreshPublished(s) BY <1>4 DEF RefreshPublished
<1>5. CASE RefreshClose(s) BY <1>5 DEF RefreshClose
<1> QED BY <1>1, <1>2, <1>3, <1>4, <1>5 DEF RefreshStep

\* What happens around the tasks keeps the types.
LEMMA EnvironmentType == TypeOK /\ (Environment \/ Exit) => TypeOK'
<1> SUFFICES ASSUME TypeOK, Environment \/ Exit PROVE TypeOK'
  OBVIOUS
<1> USE NumAccountsAssumption DEF TypeOK, cycleVars, signals, refresher, intake
<1>1. ASSUME NEW cmd \in Ids \union {RefreshAll}, Receive(cmd) PROVE TypeOK'
  BY <1>1 DEF Receive
<1>2. CASE PressRefreshAll BY <1>1, <1>2 DEF PressRefreshAll
<1>3. CASE \E a \in Accounts : PressRefresh(a)
  BY <1>1, <1>3, ButtonAssumption DEF PressRefresh
<1>4. CASE PressStale
  <2>1. Stranger \in Ids BY DEF Stranger, Ids
  <2> QED BY <1>1, <1>4, <2>1 DEF PressStale
<1>5. CASE Stop BY <1>5 DEF Stop
<1>6. CASE ConnLost BY <1>6 DEF ConnLost
<1>7. CASE Restart BY <1>7 DEF Restart, MainStates
<1>8. CASE Crash \/ Exit
  <2>1. Dead BY <1>8 DEF Crash, Exit
  <2>2. task' \in [Slots -> [stage : TaskStages, acct : 0 .. NumAccounts]]
    BY <2>1 DEF Dead, NoTask, TaskStages
  <2>3. /\ account_refresh' \in Seq(Ids)
        /\ inbox' \in Seq(Ids \union {RefreshAll})
    BY <2>1 DEF Dead
  <2>4. next' \in 1 .. NumAccounts + 1
    BY <2>1 DEF Dead
  <2> QED BY <2>1, <2>2, <2>3, <2>4 DEF Dead, MainStates
<1> QED BY <1>2, <1>3, <1>4, <1>5, <1>6, <1>7, <1>8 DEF Environment

\* Every variable of the tasks of scheduler.py keeps its type.
THEOREM TypeCorrect == Spec => []TypeOK
<1>1. Init => TypeOK
  <2> SUFFICES ASSUME Init PROVE TypeOK
    OBVIOUS
  <2>1. /\ account_refresh \in Seq(Ids)
        /\ inbox \in Seq(Ids \union {RefreshAll})
    BY DEF Init
  <2>2. task \in [Slots -> [stage : TaskStages, acct : 0 .. NumAccounts]]
    BY NumAccountsAssumption DEF Init, TaskStages, NoTask
  <2>3. next \in 1 .. NumAccounts + 1
    BY NumAccountsAssumption DEF Init
  <2> QED BY <2>1, <2>2, <2>3 DEF Init, TypeOK, MainStates, Statuses
<1>2. TypeOK /\ [Next]_vars => TypeOK'
  <2> SUFFICES ASSUME TypeOK, [Next]_vars PROVE TypeOK'
    OBVIOUS
  <2>1. CASE UNCHANGED vars
    BY <2>1 DEF TypeOK, vars, cycleVars, signals, refresher, intake
  <2>2. CASE Next
    BY <2>2, CycleStepType, CommandStepType, RefreshStepType, EnvironmentType DEF Next
  <2> QED BY <2>1, <2>2
<1> QED BY <1>1, <1>2, PTL DEF Spec

-----------------------------------------------------------------------------
(* The debounce of the worker. *)

\* Only the worker's spawn, the refresh tasks and the end of the process touch
\* the refresh tasks and in_flight.
LEMMA TasksFrame ==
  ASSUME Next, ~Spawn, ~(\E s \in Slots : RefreshStep(s)), ~Dead
  PROVE  UNCHANGED <<task, in_flight>>
<1> USE DEF cycleVars, signals, refresher, intake
<1>1. CASE CycleStep \/ Timeout
  BY <1>1 DEF CycleStep, Timeout, Wake, StartupPublish, StartupRaises, Subscribe, LaunchBrowser,
     LaunchFails, FetchDone, PublishDone, PublishRaises, CloseBrowser, PublishRunning,
     RunningRaises, PublishErrored, ErroredRaises, NextCycle
<1>2. CASE Listen \/ ListenerDies BY <1>2 DEF Listen, ListenerDies
<1>3. CASE WorkerStep BY <1>3 DEF WorkerStep, DropDuplicate, DropUnknown
<1>4. CASE Environment
  BY <1>4 DEF Environment, PressRefreshAll, PressRefresh, PressStale, Receive, Stop, ConnLost,
     Restart, Crash
<1> QED BY <1>1, <1>2, <1>3, <1>4 DEF Next, Exit

\* A spawn adds one task, for an account without one, in a free slot.
LEMMA SpawnDebounce == TypeOK /\ Debounce /\ Spawn => Debounce'
<1> SUFFICES ASSUME TypeOK, Debounce, Spawn PROVE Debounce'
  OBVIOUS
<1> DEFINE a == Head(account_refresh)
<1>1. a \in Accounts \ in_flight /\ in_flight' = in_flight \union {a}
  BY DEF Spawn
<1>2. PICK s \in Slots : /\ ~Live(s)
                         /\ task' = [task EXCEPT ![s] = [stage |-> "launch", acct |-> a]]
  BY DEF Spawn
<1>3. \A r \in Slots : IF r = s THEN Live(r)' /\ task'[r].acct = a
                                 ELSE Live(r)' = Live(r) /\ task'[r].acct = task[r].acct
  BY <1>2 DEF TypeOK, Live
<1> HIDE DEF a
<1> QED BY <1>1, <1>2, <1>3 DEF Debounce

\* A refresh task moves on, or ends and takes its account out of in_flight.
LEMMA RefreshDebounce ==
  ASSUME TypeOK, Debounce, NEW s \in Slots, RefreshStep(s) PROVE Debounce'
<1>1. CASE EndRefresh(s)
  <2>1. Live(s)
    BY DEF RefreshStep, RefreshLaunch, RefreshLaunchFails, RefreshFetched, RefreshPublished,
       RefreshClose, Live
  <2>2. \A r \in Slots : IF r = s THEN ~Live(r)'
                                   ELSE Live(r)' = Live(r) /\ task'[r].acct = task[r].acct
    BY <1>1 DEF EndRefresh, NoTask, Live, TypeOK
  <2> QED BY <1>1, <2>1, <2>2 DEF EndRefresh, Debounce
<1>2. CASE ~EndRefresh(s)
  <2>1. Live(s) /\ in_flight' = in_flight
    BY <1>2 DEF RefreshStep, RefreshLaunch, RefreshLaunchFails, RefreshFetched, RefreshPublished,
       RefreshClose, Live
  <2>2. PICK stage \in TaskStages \ {"none"} : task' = [task EXCEPT ![s].stage = stage]
    BY <1>2 DEF RefreshStep, RefreshLaunch, RefreshLaunchFails, RefreshFetched, RefreshPublished,
       RefreshClose, Goto, TaskStages
  <2>3. \A r \in Slots : Live(r)' = Live(r) /\ task'[r].acct = task[r].acct
    BY <2>1, <2>2 DEF Live, TypeOK
  <2> QED BY <2>1, <2>3 DEF Debounce
<1> QED BY <1>1, <1>2

\* The refresh tasks alive are one per id in in_flight, on every path.
THEOREM DebounceCorrect == Spec => []Debounce
<1>1. Init => Debounce
  BY DEF Init, Debounce, Live, NoTask
<1>2. TypeOK /\ Debounce /\ [Next]_vars => Debounce'
  <2> SUFFICES ASSUME TypeOK, Debounce, [Next]_vars PROVE Debounce'
    OBVIOUS
  <2>1. CASE UNCHANGED <<task, in_flight>>
    BY <2>1 DEF Debounce, Live
  <2>2. CASE Dead
    BY <2>2 DEF Dead, Debounce, Live, NoTask
  <2>3. CASE UNCHANGED vars
    BY <2>1, <2>3 DEF vars, refresher
  <2> QED BY <2>1, <2>2, <2>3, TasksFrame, SpawnDebounce, RefreshDebounce
<1> QED BY <1>1, <1>2, TypeCorrect, PTL DEF Spec

-----------------------------------------------------------------------------
(* The app status and the browsers. *)

\* A status is published with the outcome of the cycle it reports: the steps
\* between the end of a cycle and the wait carry the exception, if there is one.
StatusInv ==
  /\ StatusTellsLastCycle
  /\ main = "running" => ~failed
  /\ main = "errored" => failed

\* While the app waits, the retained status says how the last cycle ended.
THEOREM StatusCorrect == Spec => []StatusTellsLastCycle
<1> USE DEF StatusInv, StatusTellsLastCycle, cycleVars
<1>1. Init => StatusInv
  BY DEF Init
<1>2. StatusInv /\ [Next]_vars => StatusInv'
  <2> SUFFICES ASSUME StatusInv, [Next]_vars PROVE StatusInv'
    OBVIOUS
  <2>1. CASE UNCHANGED <<main, failed, app_status>>
    BY <2>1
  <2>2. CASE CycleStep \/ Timeout
    <3>1. CASE main' \notin {"running", "errored", "wait"}
      BY <3>1
    <3>2. CASE LaunchFails \/ RunningRaises
      BY <3>2 DEF LaunchFails, RunningRaises
    <3>3. CASE CloseBrowser
      BY <3>3 DEF CloseBrowser
    <3>4. CASE PublishRunning \/ PublishErrored
      BY <3>4 DEF PublishRunning, PublishErrored
    <3>5. CASE ~(LaunchFails \/ RunningRaises \/ CloseBrowser \/ PublishRunning \/ PublishErrored)
      BY <2>2, <3>1, <3>5 DEF CycleStep, Timeout, Wake, StartupPublish, StartupRaises, Subscribe,
         LaunchBrowser, FetchDone, PublishDone, PublishRaises, ErroredRaises, NextCycle, Leave
    <3> QED BY <3>2, <3>3, <3>4, <3>5
  <2>3. CASE Dead \/ Restart
    BY <2>3 DEF Dead, Restart
  <2>4. CASE Listen \/ ListenerDies \/ WorkerStep
    BY <2>1, <2>4 DEF Listen, ListenerDies, WorkerStep, DropDuplicate, DropUnknown, Spawn, TakeCommand
  <2>5. CASE \E s \in Slots : RefreshStep(s)
    BY <2>1, <2>5 DEF RefreshStep, RefreshLaunch, RefreshLaunchFails, RefreshFetched,
       RefreshPublished, RefreshClose, RefreshFrame
  <2>6. CASE Environment
    BY <2>1, <2>3, <2>6 DEF Environment, PressRefreshAll, PressRefresh, PressStale, Receive,
       Stop, ConnLost, Crash
  <2>7. CASE UNCHANGED vars
    BY <2>1, <2>7 DEF vars
  <2> QED BY <2>2, <2>3, <2>4, <2>5, <2>6, <2>7 DEF Next, Exit
<1>3. StatusInv => StatusTellsLastCycle
  OBVIOUS
<1> QED BY <1>1, <1>2, <1>3, PTL DEF Spec

\* A step of a refresh task opens or closes the browser of its own slot only.
LEMMA RefreshBrowser ==
  ASSUME TypeOK, NoBrowserLeak, NEW s \in Slots, RefreshStep(s) PROVE NoBrowserLeak'
<1>1. /\ main' = main
      /\ task' \in [Slots -> [stage : TaskStages, acct : 0 .. NumAccounts]]
  BY RefreshStepType
     DEF RefreshStep, RefreshLaunch, RefreshLaunchFails, RefreshFetched, RefreshPublished,
         RefreshClose, RefreshFrame, cycleVars, TypeOK
<1>2. \A r \in Slots \ {s} : task'[r] = task[r]
  BY DEF RefreshStep, RefreshLaunch, RefreshLaunchFails, RefreshFetched, RefreshPublished,
         RefreshClose, Goto, EndRefresh, TypeOK
<1>3. s # Main
  BY NumAccountsAssumption DEF Slots, Main
<1>4. CASE RefreshLaunch(s)
  BY <1>1, <1>2, <1>4 DEF RefreshLaunch, Goto, TypeOK, NoBrowserLeak
<1>5. CASE RefreshLaunchFails(s)
  BY <1>1, <1>2, <1>5 DEF RefreshLaunchFails, EndRefresh, NoTask, TypeOK, NoBrowserLeak
<1>6. CASE RefreshFetched(s)
  BY <1>1, <1>2, <1>6 DEF RefreshFetched, Goto, TypeOK, NoBrowserLeak
<1>7. CASE RefreshPublished(s)
  BY <1>1, <1>2, <1>7 DEF RefreshPublished, Goto, TypeOK, NoBrowserLeak
<1>8. CASE RefreshClose(s)
  BY <1>1, <1>2, <1>3, <1>8 DEF RefreshClose, EndRefresh, NoTask, TypeOK, NoBrowserLeak
<1> QED BY <1>4, <1>5, <1>6, <1>7, <1>8 DEF RefreshStep

\* Every running browser has an owner whose finally clause will close it.
THEOREM BrowserCorrect == Spec => []NoBrowserLeak
<1>1. Init => NoBrowserLeak
  BY DEF Init, NoBrowserLeak, NoTask
<1>2. TypeOK /\ NoBrowserLeak /\ [Next]_vars => NoBrowserLeak'
  <2> SUFFICES ASSUME TypeOK, NoBrowserLeak, [Next]_vars PROVE NoBrowserLeak'
    OBVIOUS
  <2>0. Main \notin Slots
    BY NumAccountsAssumption DEF Slots, Main
  <2>1. CASE UNCHANGED <<main, task, open>>
    BY <2>1 DEF NoBrowserLeak
  <2>2. CASE CycleStep \/ Timeout
    <3>1. UNCHANGED task
      BY <2>2 DEF CycleStep, Timeout, Wake, StartupPublish, StartupRaises, Subscribe,
         LaunchBrowser, LaunchFails, FetchDone, PublishDone, PublishRaises, CloseBrowser,
         PublishRunning, RunningRaises, PublishErrored, ErroredRaises, NextCycle, refresher
    <3>2. CASE LaunchBrowser \/ CloseBrowser
      BY <2>0, <3>1, <3>2 DEF LaunchBrowser, CloseBrowser, NoBrowserLeak
    <3>3. CASE ~LaunchBrowser /\ ~CloseBrowser
      <4>1. /\ UNCHANGED open
            /\ main \in {"fetch", "publish", "close"} <=> main' \in {"fetch", "publish", "close"}
        BY <2>2, <3>3 DEF CycleStep, Timeout, Wake, StartupPublish, StartupRaises, Subscribe,
           LaunchFails, FetchDone, PublishDone, PublishRaises, PublishRunning, RunningRaises,
           PublishErrored, ErroredRaises, NextCycle, Leave
      <4> QED BY <3>1, <4>1 DEF NoBrowserLeak
    <3> QED BY <3>2, <3>3
  <2>3. CASE Dead
    BY <2>3 DEF Dead, NoTask, NoBrowserLeak
  <2>4. CASE Listen \/ ListenerDies \/ DropDuplicate \/ DropUnknown
    BY <2>1, <2>4 DEF Listen, ListenerDies, DropDuplicate, DropUnknown, TakeCommand, cycleVars,
       refresher
  <2>5. CASE Spawn
    <3>1. PICK s \in Slots : /\ ~Live(s)
                             /\ task' = [task EXCEPT ![s] =
                                          [stage |-> "launch", acct |-> Head(account_refresh)]]
      BY <2>5 DEF Spawn
    <3>2. \A r \in Slots : \/ task'[r].stage = task[r].stage
                           \/ task[r].stage = "none" /\ task'[r].stage = "launch"
      BY <3>1 DEF Live, TypeOK
    <3>3. \A r \in Slots : task'[r].stage \in {"fetch", "publish", "close"}
                            <=> task[r].stage \in {"fetch", "publish", "close"}
      BY <3>2
    <3>4. UNCHANGED <<main, open>>
      BY <2>5 DEF Spawn, TakeCommand, cycleVars
    <3> QED BY <3>3, <3>4 DEF NoBrowserLeak
  <2>6. CASE Environment \/ Exit
    <3>1. CASE Restart
      BY <3>1 DEF Restart, refresher, NoBrowserLeak
    <3> QED BY <2>1, <2>3, <2>6, <3>1 DEF Environment, Exit, PressRefreshAll, PressRefresh,
               PressStale, Receive, Stop, ConnLost, Crash, cycleVars, refresher
  <2>7. CASE UNCHANGED vars
    BY <2>1, <2>7 DEF vars, cycleVars, refresher
  <2> QED BY <2>2, <2>3, <2>4, <2>5, <2>6, <2>7, RefreshBrowser DEF Next, WorkerStep
<1> QED BY <1>1, <1>2, TypeCorrect, PTL DEF Spec

-----------------------------------------------------------------------------
(* The tasks implement the contract of the refresh buttons. *)

\* Who can be alive where: nothing listens before the first cycle, so that a
\* request made by then is stop()'s; nothing takes commands once run_forever is
\* over; nothing is left of a process that has exited.
HelperInv ==
  /\ main \in {"boot", "subscribe"} => ~listener /\ (refresh_all => stop_set)
  /\ Leaving \/ main = "exited" => ~listener /\ ~worker
  /\ main = "exited" => ~refresh_all /\ in_flight = {}

\* Every step keeps HelperInv.
LEMMA HelperInvStep == TypeOK /\ HelperInv /\ [Next]_vars => HelperInv'
<1> SUFFICES ASSUME TypeOK, HelperInv, [Next]_vars PROVE HelperInv'
  OBVIOUS
<1> USE DEF HelperInv, Leaving, cycleVars, signals, refresher, intake
<1>1. CASE UNCHANGED vars BY <1>1 DEF vars
<1>2. CASE CycleStep \/ Timeout
  <2>1. CASE StartupPublish BY <2>1 DEF StartupPublish
  <2>2. CASE StartupRaises BY <2>2 DEF StartupRaises, Leave
  <2>3. CASE Subscribe BY <2>3 DEF Subscribe, Leave
  <2>4. CASE ErroredRaises BY <2>4 DEF ErroredRaises, Leave
  <2>5. CASE NextCycle BY <2>5 DEF NextCycle, Leave
  <2>6. CASE ~StartupPublish /\ ~StartupRaises /\ ~Subscribe /\ ~ErroredRaises /\ ~NextCycle
    <3>1. main' \in MainStates \ {"boot", "subscribe", "returned", "raised", "exited"}
      BY <1>2, <2>6 DEF CycleStep, Timeout, Wake, LaunchBrowser, LaunchFails, FetchDone,
         PublishDone, PublishRaises, CloseBrowser, PublishRunning, RunningRaises,
         PublishErrored, MainStates
    <3> QED BY <3>1
  <2> QED BY <2>1, <2>2, <2>3, <2>4, <2>5, <2>6
<1>3. CASE Listen \/ ListenerDies BY <1>3 DEF Listen, ListenerDies
<1>4. CASE WorkerStep
  BY <1>4 DEF WorkerStep, DropDuplicate, DropUnknown, Spawn, TakeCommand
<1>5. ASSUME NEW s \in Slots, RefreshStep(s) PROVE HelperInv'
  BY <1>5 DEF RefreshStep, RefreshLaunch, RefreshLaunchFails, RefreshFetched, RefreshPublished,
     RefreshClose, EndRefresh, RefreshFrame
<1>6. CASE Dead BY <1>6 DEF Dead
<1>7. CASE Environment /\ ~Dead
  <2>1. CASE Stop BY <2>1 DEF Stop
  <2>2. CASE ConnLost BY <2>2 DEF ConnLost
  <2>3. CASE Restart BY <2>3 DEF Restart
  <2>4. CASE \E cmd : Receive(cmd) BY <2>4 DEF Receive
  <2> QED BY <1>7, <2>1, <2>2, <2>3, <2>4
          DEF Environment, PressRefreshAll, PressRefresh, PressStale, Crash
<1> QED BY <1>1, <1>2, <1>3, <1>4, <1>5, <1>6, <1>7 DEF Next, Exit

\* Every step of the tasks is a step of the contract, or changes nothing of it.
LEMMA StepRefines ==
  TypeOK /\ Debounce /\ HelperInv /\ [Next]_vars => [Contract!Next]_(Contract!vars)
<1> SUFFICES ASSUME TypeOK, Debounce, HelperInv, [Next]_vars
             PROVE  Contract!Next \/ UNCHANGED Contract!vars
  BY DEF Contract!Next, Contract!vars
<1> USE DEF InCycle, Leaving, cycleVars, signals, refresher, intake
<1>1. CASE UNCHANGED <<main, refresh_all, in_flight>>
  BY <1>1 DEF Contract!vars
<1>2. CASE CycleStep \/ Timeout
  <2>1. CASE StartupRaises \/ ErroredRaises
    <3>1. Contract!Halt
      BY <2>1 DEF StartupRaises, ErroredRaises, Leave, TypeOK, Contract!Halt
    <3> QED BY <3>1 DEF Contract!Next
  <2>2. CASE (Subscribe \/ NextCycle) /\ stop_set
    <3>1. /\ main \in {"subscribe", "wait"} /\ main' = "returned"
          /\ UNCHANGED in_flight
      BY <2>2 DEF Subscribe, NextCycle, Leave
    <3>2. refresh_all' = refresh_all \/ refresh_all' = FALSE
      BY <2>2 DEF Subscribe, NextCycle
    <3>3. refresh_all' \in BOOLEAN /\ (refresh_all' => refresh_all)
      <4>1. CASE refresh_all' = refresh_all BY <4>1 DEF TypeOK
      <4>2. CASE refresh_all' = FALSE BY <4>2
      <4> QED BY <3>2, <4>1, <4>2
    <3>4. Contract!Halt
      BY <3>1, <3>3 DEF Contract!Halt
    <3> QED BY <3>4 DEF Contract!Next
  <2>3. CASE (Subscribe \/ NextCycle) /\ ~stop_set
    <3>1. Contract!BeginCycle
      BY <2>3 DEF Subscribe, NextCycle, HelperInv, TypeOK, Contract!BeginCycle
    <3> QED BY <3>1 DEF Contract!Next
  <2>4. CASE PublishRunning \/ PublishErrored
    <3>1. Contract!EndCycle
      BY <2>4 DEF PublishRunning, PublishErrored, Contract!EndCycle
    <3> QED BY <3>1 DEF Contract!Next
  <2>5. CASE StartupPublish
    BY <2>5 DEF StartupPublish, Contract!vars
  <2>6. CASE LaunchBrowser \/ LaunchFails \/ FetchDone \/ PublishDone \/ PublishRaises
               \/ CloseBrowser \/ RunningRaises
    <3>1. InCycle /\ InCycle' /\ UNCHANGED <<refresh_all, in_flight>>
      BY <2>6 DEF LaunchBrowser, LaunchFails, FetchDone, PublishDone, PublishRaises,
         CloseBrowser, RunningRaises
    <3> QED BY <3>1 DEF Contract!vars
  <2> QED BY <1>2, <2>1, <2>2, <2>3, <2>4, <2>5, <2>6 DEF CycleStep, Timeout, Wake
<1>3. CASE Listen
  <2>1. CASE Head(inbox) = RefreshAll
    <3>1. Contract!Request
      BY <1>3, <2>1 DEF Listen, Contract!Request
    <3> QED BY <3>1 DEF Contract!Next
  <2> QED BY <1>1, <1>3, <2>1 DEF Listen
<1>4. CASE Spawn
  <2>1. Contract!BeginRefresh(Head(account_refresh)) /\ Head(account_refresh) \in Accounts
    BY <1>4 DEF Spawn, TakeCommand, HelperInv, Contract!BeginRefresh
  <2> QED BY <2>1 DEF Contract!Next
<1>5. ASSUME NEW s \in Slots, RefreshStep(s), EndRefresh(s)
      PROVE  Contract!Next
  <2>1. task[s].acct \in in_flight /\ UNCHANGED <<main, refresh_all>>
    BY <1>5 DEF RefreshStep, RefreshLaunch, RefreshLaunchFails, RefreshFetched,
       RefreshPublished, RefreshClose, RefreshFrame, Debounce, Live
  <2>2. Contract!EndRefresh(task[s].acct)
    BY <1>5, <2>1 DEF EndRefresh, Contract!EndRefresh
  <2> QED BY <2>1, <2>2 DEF Contract!Next, TypeOK
<1>6. ASSUME NEW s \in Slots, RefreshStep(s), ~EndRefresh(s)
      PROVE  UNCHANGED <<main, refresh_all, in_flight>>
  BY <1>6 DEF RefreshStep, RefreshLaunch, RefreshLaunchFails, RefreshFetched,
       RefreshPublished, RefreshClose, RefreshFrame
<1>7. CASE Dead
  <2>1. CASE Leaving
    <3>1. Contract!Vanish
      BY <1>7, <2>1 DEF Dead, Contract!Vanish
    <3> QED BY <3>1 DEF Contract!Next
  <2>2. CASE main = "exited"
    BY <1>1, <1>7, <2>2 DEF Dead, HelperInv, TypeOK
  <2>3. CASE ~Leaving /\ main # "exited"
    <3>1. /\ refresh_all' \in BOOLEAN
          /\ refresh_all' => refresh_all
      BY <1>7 DEF Dead
    <3>2. Contract!Halt
      BY <1>7, <2>3, <3>1 DEF Dead, Contract!Halt
    <3> QED BY <3>2 DEF Contract!Next
  <2> QED BY <2>1, <2>2, <2>3
<1>8. CASE Stop
  <2>1. Contract!Request
    BY <1>8 DEF Stop, Contract!Request
  <2> QED BY <2>1 DEF Contract!Next
<1>9. CASE Restart
  <2>1. Contract!Revive
    BY <1>9 DEF Restart, HelperInv, Contract!Revive
  <2> QED BY <2>1 DEF Contract!Next
<1>10. CASE ListenerDies \/ DropDuplicate \/ DropUnknown \/ ConnLost \/ (\E cmd : Receive(cmd))
  BY <1>1, <1>10 DEF ListenerDies, DropDuplicate, DropUnknown, TakeCommand, ConnLost, Receive
<1>11. CASE UNCHANGED vars BY <1>1, <1>11 DEF vars
<1>12. CASE Next
  BY <1>1, <1>2, <1>3, <1>4, <1>5, <1>6, <1>7, <1>8, <1>9, <1>10, <1>12
     DEF Next, Exit, WorkerStep, Environment, PressRefreshAll, PressRefresh, PressStale, Crash
<1> QED BY <1>11, <1>12

\* The tasks of scheduler.py keep the safety part of the buttons' contract.
THEOREM Implements == Spec => Contract!Spec
<1>1. Init => Contract!Init
  BY DEF Init, InCycle, Leaving, Contract!Init
<1>2. Init => HelperInv
  BY DEF Init, HelperInv, Leaving
<1> QED BY <1>1, <1>2, TypeCorrect, DebounceCorrect, HelperInvStep, StepRefines, PTL
        DEF Spec, Contract!Spec

-----------------------------------------------------------------------------
(* What a step may never do. *)

\* A refresh-all request is used up only by a cycle that begins after it or by
\* the end of the process.
THEOREM RequestKept == Spec => RequestNotDropped
<1>1. [Next]_vars => [refresh_all /\ ~refresh_all' => main' \in {"launch", "returned", "exited"}]_vars
  <2> SUFFICES ASSUME Next, refresh_all # refresh_all', ~refresh_all'
               PROVE  main' \in {"launch", "returned", "exited"}
    OBVIOUS
  <2> USE DEF signals
  <2>1. CASE CycleStep \/ Timeout
    BY <2>1 DEF CycleStep, Timeout, Wake, StartupPublish, StartupRaises, Subscribe, LaunchBrowser,
       LaunchFails, FetchDone, PublishDone, PublishRaises, CloseBrowser, PublishRunning,
       RunningRaises, PublishErrored, ErroredRaises, NextCycle, Leave
  <2>2. CASE Listen \/ ListenerDies \/ WorkerStep
    BY <2>2 DEF Listen, ListenerDies, WorkerStep, DropDuplicate, DropUnknown, Spawn, TakeCommand
  <2>3. CASE \E s \in Slots : RefreshStep(s)
    BY <2>3 DEF RefreshStep, RefreshLaunch, RefreshLaunchFails, RefreshFetched, RefreshPublished,
       RefreshClose, RefreshFrame
  <2>4. CASE Exit \/ Environment
    BY <2>4 DEF Exit, Environment, PressRefreshAll, PressRefresh, PressStale, Receive, Stop,
       ConnLost, Crash, Dead, Restart
  <2> QED BY <2>1, <2>2, <2>3, <2>4 DEF Next
<1> QED BY <1>1, PTL DEF Spec, RequestNotDropped
=============================================================================
