----------------------------- MODULE MCScheduler -----------------------------
(* The instances of Scheduler that TLC checks. *)
EXTENDS Scheduler

\* The button carries the configured username, as for Alfa and Touch.
ButtonByUsername == [a \in Accounts |-> a]
=============================================================================
