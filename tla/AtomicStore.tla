------------------------------ MODULE AtomicStore ------------------------------
(***************************************************************************)
(* What state.json promises its users: a map from accounts to their last   *)
(* results that changes by one whole result at a time, whatever crashes,   *)
(* and that may only ever lose entries, never invent or mix them.          *)
(***************************************************************************)
CONSTANTS Accounts, Results, None

VARIABLES results,   \* what a load returns
          running    \* a process uses the map

vars == <<results, running>>

TypeOK == /\ results \in [Accounts -> Results \union {None}]
          /\ running \in BOOLEAN

Init == results = [a \in Accounts |-> None] /\ ~running

Start == ~running /\ running' = TRUE  /\ UNCHANGED results
Stop  == running  /\ running' = FALSE /\ UNCHANGED results

\* A save: one account gets a new result.
Put(a, r) == /\ running
             /\ results' = [results EXCEPT ![a] = r]
             /\ UNCHANGED running

\* Damage to the file of a stopped process: entries are lost.
Lose(S) == /\ ~running
           /\ results' = [a \in Accounts |-> IF a \in S THEN None ELSE results[a]]
           /\ UNCHANGED running

Next == \/ Start \/ Stop
        \/ \E a \in Accounts, r \in Results : Put(a, r)
        \/ \E S \in SUBSET Accounts : Lose(S)

Spec == Init /\ [][Next]_vars
=============================================================================
