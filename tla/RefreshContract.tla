---------------------------- MODULE RefreshContract ----------------------------
(***************************************************************************)
(* What the refresh buttons promise, without tasks, queues, browsers or a  *)
(* connection: a requested cycle begins and ends, an account is refreshed  *)
(* by one refresh at a time, and a process that halts drops its promises.  *)
(***************************************************************************)
CONSTANT Accounts

VARIABLES
  requested,   \* "Refresh all" was pressed and no cycle has begun since
  cycling,     \* a full cycle is under way
  refreshing,  \* accounts with an out-of-band refresh under way
  halted       \* the process is stopping or has stopped

vars == <<requested, cycling, refreshing, halted>>

TypeOK == /\ requested \in BOOLEAN
          /\ cycling \in BOOLEAN
          /\ refreshing \subseteq Accounts
          /\ halted \in BOOLEAN

Init == ~requested /\ ~cycling /\ refreshing = {} /\ ~halted

Request == /\ requested' = TRUE
           /\ UNCHANGED <<cycling, refreshing, halted>>

\* The poll timer may begin a cycle too; either way the request is used up.
BeginCycle == /\ ~halted /\ ~cycling
              /\ cycling' = TRUE
              /\ requested' = FALSE
              /\ UNCHANGED <<refreshing, halted>>

EndCycle == /\ cycling
            /\ cycling' = FALSE
            /\ UNCHANGED <<requested, refreshing, halted>>

BeginRefresh(a) == /\ ~halted /\ a \notin refreshing
                   /\ refreshing' = refreshing \union {a}
                   /\ UNCHANGED <<requested, cycling, halted>>

EndRefresh(a) == /\ a \in refreshing
                 /\ refreshing' = refreshing \ {a}
                 /\ UNCHANGED <<requested, cycling, halted>>

\* The loop ends, dropping promises now or (Vanish) later.
Halt == /\ ~halted
        /\ halted' = TRUE
        /\ cycling' = FALSE
        /\ requested' \in BOOLEAN /\ (requested' => requested)
        /\ refreshing' \in SUBSET refreshing

\* The halted process goes away with all it had promised.
Vanish == /\ halted
          /\ requested' = FALSE
          /\ refreshing' = {}
          /\ UNCHANGED <<cycling, halted>>

Revive == /\ halted /\ ~requested /\ refreshing = {}
          /\ halted' = FALSE
          /\ UNCHANGED <<requested, cycling, refreshing>>

Next == \/ Request \/ BeginCycle \/ EndCycle
        \/ (\E a \in Accounts : BeginRefresh(a) \/ EndRefresh(a))
        \/ Halt \/ Vanish \/ Revive

Spec == Init /\ [][Next]_vars

\* A requested cycle begins, a cycle ends, a refresh ends.
FairSpec == /\ Spec
            /\ WF_vars(requested /\ (BeginCycle \/ Halt))
            /\ WF_vars(EndCycle \/ (cycling /\ Halt))
            /\ \A a \in Accounts : WF_vars(EndRefresh(a) \/ Vanish)
=============================================================================
