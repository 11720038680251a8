----------------------------- MODULE ProcessProofs -----------------------------
(***************************************************************************)
(* Proofs about MqttSession and Process for any set of accounts and any    *)
(* bounds: what the process does with its session is a behaviour of        *)
(* MqttSession, what it does with its file is one of StateStore, so that   *)
(* their theorems hold of the whole.                                       *)
(***************************************************************************)
EXTENDS Process, TLAPS

DiskFacts == INSTANCE StateStoreProofs

-----------------------------------------------------------------------------
(* MqttSession, for every number of connections. *)

\* The inductive invariant: an open connection has its session at the broker, a
\* process about to send the DISCONNECT has said "offline", and whoever is not
\* connected leaves an "online" only with a session whose will is pending.
SessionInv ==
  /\ conn = "open" => opened \in sessions /\ proc \in {"hello", "run", "bye", "close"}
  /\ proc = "close" /\ conn = "open" => avail # "online"
  /\ avail = "online" => sessions # {}

LEMMA InitSession == Session!Init => SessionInv
  BY DEF Session!Init, SessionInv

LEMMA NextSession == SessionInv /\ [Session!Next]_(Session!vars) => SessionInv'
<1> SUFFICES ASSUME SessionInv, [Session!Next]_(Session!vars) PROVE SessionInv'
  OBVIOUS
<1> USE DEF SessionInv
<1>1. CASE Session!Start
  BY <1>1 DEF Session!Start
<1>2. CASE Session!Connect
  BY <1>2 DEF Session!Connect
<1>3. CASE Session!ConnectFails
  BY <1>3 DEF Session!ConnectFails
<1>4. CASE Session!PublishOnline
  BY <1>4 DEF Session!PublishOnline
<1>5. CASE Session!OnlineRaises
  BY <1>5 DEF Session!OnlineRaises
<1>6. CASE Session!RunEnds
  BY <1>6 DEF Session!RunEnds
<1>7. CASE Session!PublishOffline
  BY <1>7 DEF Session!PublishOffline
<1>8. CASE Session!Disconnect
  BY <1>8 DEF Session!Disconnect
<1>9. CASE Session!Kill
  BY <1>9 DEF Session!Kill
<1>10. CASE Session!Break
  BY <1>10 DEF Session!Break
<1>11. ASSUME NEW c \in Session!Conns, Session!WillFires(c) PROVE SessionInv'
  BY <1>11 DEF Session!WillFires, Session!DeadSessions
<1>12. CASE UNCHANGED Session!vars
  BY <1>12 DEF Session!vars
<1> QED
  BY <1>1, <1>2, <1>3, <1>4, <1>5, <1>6, <1>7, <1>8, <1>9, <1>10, <1>11, <1>12
     DEF Session!Next

\* An "online" is always vouched for by a connected process or by a will that
\* the broker has yet to publish (mqtt_publisher.py:40-70), however many
\* connections were opened, cut or left behind.
THEOREM OnlineCorrect == Session!Spec => []Session!OnlineVouchedFor
<1>1. SessionInv => Session!OnlineVouchedFor
  BY DEF SessionInv, Session!OnlineVouchedFor, Session!DeadSessions
<1> QED
  BY <1>1, InitSession, NextSession, PTL DEF Session!Spec

\* The types of the session.
THEOREM SessionTyped == Session!Spec => []Session!TypeOK
<1>1. Session!Init => Session!TypeOK
  BY BoundsAssumption DEF Session!Init, Session!TypeOK
<1>2. Session!TypeOK /\ [Session!Next]_(Session!vars) => Session!TypeOK'
  <2> SUFFICES ASSUME Session!TypeOK, [Session!Next]_(Session!vars) PROVE Session!TypeOK'
    OBVIOUS
  <2> USE DEF Session!TypeOK
  <2>1. CASE Session!Connect
    BY <2>1, BoundsAssumption DEF Session!Connect, Session!Conns
  <2>2. ASSUME NEW c \in Session!Conns, Session!WillFires(c) PROVE Session!TypeOK'
    BY <2>2 DEF Session!WillFires
  <2>3. CASE \/ Session!Start \/ Session!ConnectFails \/ Session!PublishOnline
             \/ Session!OnlineRaises \/ Session!RunEnds \/ Session!PublishOffline
             \/ Session!Disconnect \/ Session!Kill \/ Session!Break \/ UNCHANGED Session!vars
    BY <2>3 DEF Session!Start, Session!ConnectFails, Session!PublishOnline,
                Session!OnlineRaises, Session!RunEnds, Session!PublishOffline,
                Session!Disconnect, Session!Kill, Session!Break, Session!vars
  <2> QED BY <2>1, <2>2, <2>3 DEF Session!Next
<1> QED BY <1>1, <1>2, PTL DEF Session!Spec

-----------------------------------------------------------------------------
(* The process. *)

\* Every step of the process is a step of the session or leaves it alone.
LEMMA SessionStep == [Next]_vars => [Session!Next]_(Session!vars)
<1> SUFFICES ASSUME Next, ~ UNCHANGED session PROVE Session!Next
  BY DEF vars, session, Session!vars
<1> QED
  BY DEF Next, Boot, ReadOptions, FindBroker, StartRefused, Connect, Online, OnlineRaises,
         Load, LoadFails, Save, RunEnds, Offline, Leave, Kill, World, Session!Next

\* Every step of the process is a step of the store or leaves it alone.
LEMMA DiskStep == [Next]_vars => [DiskFacts!Next]_(DiskFacts!vars)
<1> SUFFICES ASSUME Next, ~ UNCHANGED disk PROVE DiskFacts!Next
  BY DEF vars, disk, DiskFacts!vars
<1>1. Disk!Next
  BY DEF Next, Boot, ReadOptions, FindBroker, StartRefused, Connect, Online, OnlineRaises,
         Load, LoadFails, Save, RunEnds, Offline, Leave, Kill, World, Gone, DiskStops,
         Disk!Next
<1> QED
  BY <1>1
     DEF Disk!Next, DiskFacts!Next,
         Disk!Start, DiskFacts!Start, Disk!StartFails, DiskFacts!StartFails,
         Disk!Update, DiskFacts!Update, Disk!OpenTmp, DiskFacts!OpenTmp,
         Disk!WriteTmp, DiskFacts!WriteTmp, Disk!Replace, DiskFacts!Replace,
         Disk!SaveRaises, DiskFacts!SaveRaises, Disk!Crash, DiskFacts!Crash,
         Disk!Damage, DiskFacts!Damage, Disk!LoadFiles, DiskFacts!LoadFiles,
         Disk!Loaded, DiskFacts!Loaded, Disk!Empty, DiskFacts!Empty,
         Disk!State, DiskFacts!State, Disk!NoFile, DiskFacts!NoFile,
         Disk!Garbled, DiskFacts!Garbled, Disk!Alien, DiskFacts!Alien,
         Disk!Results, DiskFacts!Results, Disk!None, DiskFacts!None,
         Disk!Bad, DiskFacts!Bad

LEMMA SessionBehaviour == Spec => Session!Spec
<1>1. Init => Session!Init
  BY DEF Init
<1> QED BY <1>1, SessionStep, PTL DEF Spec, Session!Spec

LEMMA DiskBehaviour == Spec => DiskFacts!Spec
<1>1. Init => DiskFacts!Init
  BY DEF Init, Disk!Init, DiskFacts!Init, Disk!NoFile, DiskFacts!NoFile, Disk!Empty,
         DiskFacts!Empty, Disk!None, DiskFacts!None
<1> QED BY <1>1, DiskStep, PTL DEF Spec, DiskFacts!Spec

\* An "online" is always vouched for by a connected process or by a will that
\* the broker has yet to publish (__main__.py:174-188, mqtt_publisher.py:40-70),
\* wherever the process fails or is killed.
THEOREM ProcessOnlineCorrect == Spec => []OnlineVouchedFor
  BY SessionBehaviour, OnlineCorrect, PTL DEF OnlineVouchedFor

\* state.json is an atomic map also for the process as a whole
\* (state_store.py:57-66), through failed starts, exits and kills.
THEOREM ProcessStoreCorrect == Spec => ImplementsStore
<1>1. DiskFacts!Spec => DiskFacts!Store!Spec
  BY DiskFacts!StoreIsAtomic, BoundsAssumption
<1>2. /\ Disk!Loaded(file) = DiskFacts!Loaded(file) /\ Disk!Running = DiskFacts!Running
      /\ Disk!Results = DiskFacts!Results /\ Disk!None = DiskFacts!None
  BY DEF Disk!Loaded, DiskFacts!Loaded, Disk!Running, DiskFacts!Running, Disk!Results,
         DiskFacts!Results, Disk!None, DiskFacts!None, Disk!Empty, DiskFacts!Empty,
         Disk!Bad, DiskFacts!Bad
<1>3. Disk!Loaded(file)' = DiskFacts!Loaded(file)' /\ Disk!Running' = DiskFacts!Running'
  BY DEF Disk!Loaded, DiskFacts!Loaded, Disk!Running, DiskFacts!Running,
         Disk!None, DiskFacts!None, Disk!Empty, DiskFacts!Empty, Disk!Bad, DiskFacts!Bad
<1>4. DiskFacts!Store!Init => Disk!Store!Init
  BY <1>2 DEF DiskFacts!Store!Init, Disk!Store!Init
<1>5. [DiskFacts!Store!Next]_(DiskFacts!Store!vars) => [Disk!Store!Next]_(Disk!Store!vars)
  BY <1>2, <1>3
     DEF DiskFacts!Store!Next, DiskFacts!Store!Start, DiskFacts!Store!Stop,
         DiskFacts!Store!Put, DiskFacts!Store!Lose, DiskFacts!Store!vars,
         Disk!Store!Next, Disk!Store!Start, Disk!Store!Stop, Disk!Store!Put,
         Disk!Store!Lose, Disk!Store!vars
<1> QED BY <1>1, <1>4, <1>5, DiskBehaviour, PTL
        DEF ImplementsStore, Disk!ImplementsStore, Disk!Store!Spec, DiskFacts!Store!Spec

\* Where the state and the exit code may be in each phase, beyond the types.
ExitInv ==
  /\ phase \in DOMAIN ProcIn /\ proc = ProcIn[phase]
  /\ code \in {"none", "ok", "failed", "killed"}
  /\ pc # "down" => phase \in {"run", "bye", "close"}
  /\ pc = "failed" => code = "failed" /\ phase \in {"bye", "close"}
  /\ phase \in {"down", "close"} /\ code = "ok" => avail = "offline"

LEMMA InitExit == Init => ExitInv
  BY DEF Init, ExitInv, ProcIn, Session!Init, Disk!Init

LEMMA NextExit == ExitInv /\ [Next]_vars => ExitInv'
<1> SUFFICES ASSUME ExitInv, [Next]_vars PROVE ExitInv'
  OBVIOUS
<1> USE DEF ExitInv, ProcIn, From, Goto, InSave, session, disk
<1>1. CASE Boot
  BY <1>1 DEF Boot, Session!Start
<1>2. CASE ReadOptions
  BY <1>2 DEF ReadOptions
<1>3. CASE FindBroker
  BY <1>3 DEF FindBroker
<1>4. CASE StartRefused
  BY <1>4 DEF StartRefused, Session!ConnectFails, Gone, DiskStops, Disk!Crash
<1>5. CASE Connect
  BY <1>5 DEF Connect, Session!Connect
<1>6. CASE Online
  BY <1>6 DEF Online, Session!PublishOnline
<1>7. CASE OnlineRaises
  BY <1>7 DEF OnlineRaises, Session!OnlineRaises, Gone, DiskStops, Disk!Crash
<1>8. CASE Load
  BY <1>8 DEF Load, Disk!Start
<1>9. CASE LoadFails
  BY <1>9 DEF LoadFails, Disk!StartFails, Session!RunEnds
<1>10. CASE Save
  BY <1>10 DEF Save, Disk!Update, Disk!OpenTmp, Disk!WriteTmp, Disk!Replace, Disk!SaveRaises
<1>11. CASE RunEnds
  BY <1>11 DEF RunEnds, Session!RunEnds
<1>12. CASE Offline
  BY <1>12 DEF Offline, Session!PublishOffline
<1>13. CASE Leave
  BY <1>13 DEF Leave, Session!Disconnect, Gone, DiskStops, Disk!Crash
<1>14. CASE Kill
  BY <1>14 DEF Kill, Session!Kill, Gone, DiskStops, Disk!Crash
<1>15. CASE World
  BY <1>15 DEF World, Session!Break, Session!WillFires, Disk!Damage
<1>16. CASE UNCHANGED vars
  BY <1>16 DEF vars
<1> QED
  BY <1>1, <1>2, <1>3, <1>4, <1>5, <1>6, <1>7, <1>8, <1>9, <1>10, <1>11, <1>12, <1>13,
     <1>14, <1>15, <1>16 DEF Next

\* Every failure on the way out shows in the exit code (__main__.py:154-195):
\* 0 is only returned after "offline" was published.
THEOREM ExitCorrect == Spec => []ExitTellsFailure
<1>1. ExitInv => ExitTellsFailure
  BY DEF ExitInv, ExitTellsFailure
<1> QED BY <1>1, InitExit, NextExit, PTL DEF Spec

\* The types of the process, of its session and of its files.
THEOREM ProcessTyped == Spec => []TypeOK
<1>1. DiskFacts!Spec => []DiskFacts!TypeOK
  BY DiskFacts!StoreTyped, BoundsAssumption
<1>2. DiskFacts!TypeOK => Disk!TypeOK
  BY DEF Disk!TypeOK, DiskFacts!TypeOK, Disk!Files, DiskFacts!Files, Disk!State,
         DiskFacts!State, Disk!NoFile, DiskFacts!NoFile, Disk!Garbled, DiskFacts!Garbled,
         Disk!Alien, DiskFacts!Alien, Disk!Results, DiskFacts!Results, Disk!None,
         DiskFacts!None, Disk!Bad, DiskFacts!Bad
<1>3. ExitInv /\ Session!TypeOK /\ Disk!TypeOK => TypeOK
  BY DEF ExitInv, TypeOK
<1> QED
  BY <1>1, <1>2, <1>3, SessionBehaviour, SessionTyped, DiskBehaviour, InitExit, NextExit, PTL
     DEF Spec
=============================================================================
