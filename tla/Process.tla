------------------------------- MODULE Process -------------------------------
(***************************************************************************)
(* The process of the app as __main__._amain puts it together: the options *)
(* and the broker are looked up, the MQTT session is opened, the state is  *)
(* loaded, the scheduler runs and saves results, and the session is closed *)
(* - the session (MqttSession), the state file (StateStore) and the exit   *)
(* code through any sequence of starts, failures, kills and lost           *)
(* connections.                                                            *)
(***************************************************************************)
EXTENDS Bounds

CONSTANT Accounts   \* of StateStore

VARIABLES
  proc, opened, conn, sessions, avail,     \* of MqttSession
  file, tmp, backup, pc, mem, updates,     \* of StateStore
  phase,    \* where _amain is, in more detail than proc
  code      \* the exit code, or what it will be if nothing fails any more

session == <<proc, opened, conn, sessions, avail>>
disk    == <<file, tmp, backup, pc, mem, updates>>
vars    == <<session, disk, phase, code>>

Session == INSTANCE MqttSession
Disk    == INSTANCE StateStore

Init == Session!Init /\ Disk!Init /\ phase = "down" /\ code = "none"

\* Where proc of MqttSession is in each phase.
ProcIn == [down    |-> "down",  options |-> "start", broker |-> "start",
           connect |-> "start", online  |-> "hello", load   |-> "run",
           run     |-> "run",   bye     |-> "bye",   close  |-> "close"]

TypeOK == /\ Session!TypeOK /\ Disk!TypeOK
          /\ phase \in DOMAIN ProcIn /\ proc = ProcIn[phase]
          /\ code \in {"none", "ok", "failed", "killed"}
          /\ pc # "down" => phase \in {"run", "bye", "close"}

\* load() and save() do not await: in between, _amain does nothing else.
InSave == pc \in {"open", "write", "replace"}

From(p)    == phase = p /\ ~InSave
Goto(p)    == phase' = p
DiskStops  == IF pc = "down" THEN UNCHANGED disk ELSE Disk!Crash
Gone(c)    == phase' = "down" /\ code' = c /\ DiskStops

Boot == /\ From("down")
        /\ Session!Start
        /\ Goto("options") /\ code' = "none"
        /\ UNCHANGED disk

\* load_config returns, and the logging is set up.
ReadOptions == From("options") /\ Goto("broker") /\ UNCHANGED <<session, disk, code>>

\* _mqtt_config finds the broker in the environment or asks Supervisor.
FindBroker == From("broker") /\ Goto("connect") /\ UNCHANGED <<session, disk, code>>

\* ConfigError, no broker known or reachable: _amain returns 1 or raises.
StartRefused == /\ \E p \in {"options", "broker", "connect"} : From(p)
                /\ Session!ConnectFails
                /\ Gone("failed")

Connect == /\ From("connect")
           /\ Session!Connect
           /\ Goto("online")
           /\ UNCHANGED <<disk, code>>

Online == /\ From("online")
          /\ Session!PublishOnline
          /\ Goto("load")
          /\ UNCHANGED <<disk, code>>

OnlineRaises == /\ From("online")
                /\ Session!OnlineRaises
                /\ Gone("failed")

\* run_forever begins with the state.
Load == /\ From("load")
        /\ Disk!Start
        /\ Goto("run")
        /\ UNCHANGED <<session, code>>

\* Fault: the exception of load() leaves the process without __aexit__.
LoadFailsHard == /\ From("load")
                 /\ Disk!StartFails
                 /\ proc' = "close" /\ Goto("close") /\ code' = "failed"
                 /\ UNCHANGED <<opened, conn, sessions, avail>>

\* load() raises; so does run_forever, and __aexit__ begins.
LoadFails == /\ From("load")
             /\ Disk!StartFails
             /\ Session!RunEnds
             /\ Goto("bye") /\ code' = "failed"

\* Results are saved while the event loop runs: a refresh task outlives
\* run_forever.
Save == /\ phase \in {"run", "bye", "close"} /\ pc # "failed"
        /\ \/ ~InSave /\ \E a \in Accounts : Disk!Update(a)
           \/ Disk!OpenTmp \/ Disk!WriteTmp \/ Disk!Replace \/ Disk!SaveRaises
        /\ UNCHANGED <<session, phase, code>>

\* run_forever returns after stop(), or raises with the publish that notices a
\* lost connection or any other error outside a cycle.
RunEnds == /\ From("run")
           /\ Session!RunEnds
           /\ Goto("bye") /\ code' \in {"ok", "failed"}
           /\ UNCHANGED disk

\* Fault: an error of the last publish is suppressed.
OfflineQuietly == /\ From("bye")
                  /\ Session!PublishOffline
                  /\ Goto("close")
                  /\ UNCHANGED <<disk, code>>

\* __aexit__ publishes "offline"; without a PUBACK in time that raises, and so
\* does _amain in the end.
Offline == /\ From("bye")
           /\ Session!PublishOffline
           /\ Goto("close")
           /\ code' \in IF conn = "open" THEN {code, "failed"} ELSE {"failed"}
           /\ UNCHANGED disk

\* Disconnected, or the wait for it raises.
Leave == /\ From("close")
         /\ Session!Disconnect
         /\ \E c \in {code, "failed"} : Gone(c)

\* The container is killed, in the middle of a save if it must be.
Kill == /\ phase # "down"
        /\ Session!Kill
        /\ Gone("killed")

\* External: the network, the broker and the file system.
World == \/ /\ Session!Break \/ \E c \in Session!Conns : Session!WillFires(c)
            /\ UNCHANGED <<disk, phase, code>>
         \/ /\ phase = "down" /\ Disk!Damage
            /\ UNCHANGED <<session, phase, code>>

Next == \/ Boot \/ ReadOptions \/ FindBroker \/ StartRefused \/ Connect \/ Online
        \/ OnlineRaises \/ Load \/ LoadFails \/ Save \/ RunEnds \/ Offline
        \/ Leave \/ Kill \/ World

Spec == Init /\ [][Next]_vars
\* The keep-alive time is finite, and every await of __aexit__ has a timeout.
FairSpec == /\ Spec
            /\ \A c \in Session!Conns : WF_vars(Session!WillFires(c) /\ UNCHANGED <<disk, phase, code>>)
            /\ WF_vars(Offline) /\ WF_vars(Leave)

-----------------------------------------------------------------------------
\* "online" is vouched for, by a process that is connected or by a will the
\* broker has yet to publish, whatever fails between the options and the exit.
OnlineVouchedFor == Session!OnlineVouchedFor

\* An app that is gone, or cut off, is shown as unavailable in the end, unless
\* it connects again before.
GoneIsShown == Session!GoneIsShown

\* state.json is an atomic map for the process as a whole: a failed start, an
\* exit or a kill anywhere changes no entry but the one being saved.
ImplementsStore == Disk!ImplementsStore

\* A process that exits with 0 has told Home Assistant so, and has had a state
\* it could load: every failure on the way out shows in the exit code.
ExitTellsFailure == /\ phase = "down" /\ code = "ok" => avail = "offline"
                    /\ pc = "failed" => code # "ok"

\* Design, "Lifecycle": a connected, running app is not shown as unavailable.
RunningIsOnline == Session!RunningIsOnline

\* A start that fails over its state file has already said "online"; it is
\* unsaid, also when the connection is lost on the way.
LoadFailureShown == pc = "failed" ~> avail = "offline"
=============================================================================
