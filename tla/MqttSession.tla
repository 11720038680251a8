------------------------------ MODULE MqttSession ------------------------------
(***************************************************************************)
(* The MQTT session of the process and the retained availability topic     *)
(* that every entity of the app refers to: "online" and "offline" as       *)
(* mqtt_publisher.__aenter__ and __aexit__ publish them, and "offline" as  *)
(* the broker publishes it for a session that ended without a DISCONNECT   *)
(* (the will).  Connections have no client id, so a new one never takes an *)
(* old one's session over.                                                 *)
(***************************************************************************)
EXTENDS Bounds

VARIABLES
  proc,     \* where _amain is
  opened,   \* connections opened so far; the last one is the process's own
  conn,     \* the process's connection
  sessions, \* connections whose session, and will, the broker still holds
  avail     \* the retained payload of carriers_sync/availability

vars == <<proc, opened, conn, sessions, avail>>

Conns == 1 .. MaxConns

TypeOK == /\ proc \in {"down", "start", "hello", "run", "bye", "close"}
          /\ opened \in 0 .. MaxConns
          /\ conn \in {"none", "open", "broken"}
          /\ sessions \subseteq Conns
          /\ avail \in {"none", "online", "offline"}

Init == /\ proc = "down" /\ opened = 0 /\ conn = "none"
        /\ sessions = {} /\ avail = "none"

\* External: Supervisor starts the container.
Start == /\ proc = "down"
         /\ proc' = "start"
         /\ UNCHANGED <<opened, conn, sessions, avail>>

\* __aenter__: the broker accepts the connection, with its will.
Connect == /\ proc = "start" /\ opened < MaxConns
           /\ proc' = "hello"
           /\ opened' = opened + 1
           /\ conn' = "open"
           /\ sessions' = sessions \union {opened + 1}
           /\ UNCHANGED avail

\* The broker does not answer, or the options are invalid: the process exits.
ConnectFails == /\ proc = "start"
                /\ proc' = "down"
                /\ UNCHANGED <<opened, conn, sessions, avail>>

PublishOnline == /\ proc = "hello" /\ conn = "open"
                 /\ proc' = "run"
                 /\ avail' = "online"
                 /\ UNCHANGED <<opened, conn, sessions>>

\* __aenter__ raises, so __aexit__ is not called.  What was sent may arrive.
OnlineRaises == /\ proc = "hello"
                /\ proc' = "down"
                /\ conn' = "none"
                /\ avail' \in IF conn = "open" THEN {avail, "online"} ELSE {avail}
                /\ UNCHANGED <<opened, sessions>>

\* run_forever returns or raises; __aexit__ begins.
RunEnds == /\ proc = "run"
           /\ proc' = "bye"
           /\ UNCHANGED <<opened, conn, sessions, avail>>

\* Fault: __aexit__ only disconnects.
NoGoodbye == /\ proc = "bye"
             /\ proc' = "close"
             /\ UNCHANGED <<opened, conn, sessions, avail>>

\* The publish of "offline" goes out before the DISCONNECT on the same stream,
\* whether it is acknowledged in time or raises.
PublishOffline == /\ proc = "bye"
                  /\ proc' = "close"
                  /\ avail' = IF conn = "open" THEN "offline" ELSE avail
                  /\ UNCHANGED <<opened, conn, sessions>>

\* The finally clause: a DISCONNECT that arrives ends the session and drops its
\* will.
Disconnect == /\ proc = "close"
              /\ proc' = "down"
              /\ conn' = "none"
              /\ sessions' = IF conn = "open" THEN sessions \ {opened} ELSE sessions
              /\ UNCHANGED <<opened, avail>>

\* The container is killed.
Kill == /\ proc # "down"
        /\ proc' = "down"
        /\ conn' = "none"
        /\ UNCHANGED <<opened, sessions, avail>>

\* External: the network between the process and the broker fails.
Break == /\ conn = "open"
         /\ conn' = "broken"
         /\ UNCHANGED <<proc, opened, sessions, avail>>

\* Sessions of connections that are no more; the broker has yet to notice.
DeadSessions == IF conn = "open" THEN sessions \ {opened} ELSE sessions

\* Fault: the will is not retained.
WillVanishes(c) == /\ c \in DeadSessions
                   /\ sessions' = sessions \ {c}
                   /\ UNCHANGED <<proc, opened, conn, avail>>

\* The broker notices, by the closed socket or after the keep-alive time.
WillFires(c) == /\ c \in DeadSessions
                /\ sessions' = sessions \ {c}
                /\ avail' = "offline"
                /\ UNCHANGED <<proc, opened, conn>>

Next == \/ Start \/ Connect \/ ConnectFails \/ PublishOnline \/ OnlineRaises
        \/ RunEnds \/ PublishOffline \/ Disconnect \/ Kill \/ Break
        \/ \E c \in Conns : WillFires(c)

Spec == Init /\ [][Next]_vars

-----------------------------------------------------------------------------
\* "online" is vouched for: by a process that is connected, or by a will the
\* broker has yet to publish.  No exit, however it goes wrong, drops the will
\* and leaves "online" behind.
OnlineVouchedFor ==
  avail = "online" =>
    sessions # {} /\ (proc \in {"down", "start"} => DeadSessions # {})

\* An app that is gone, or cut off, is shown as unavailable in the end, unless
\* it connects again before.
GoneIsShown ==
  (avail = "online" /\ conn # "open") ~> (avail = "offline" \/ conn = "open")

\* Design, "Lifecycle": a startup publishes "online", and "offline" is for the
\* shutdown and for a connection that dies - not for a connected, running app.
RunningIsOnline == proc = "run" /\ conn = "open" => avail = "online"
=============================================================================
