------------------------------ MODULE StateStore ------------------------------
(***************************************************************************)
(* state_store.StateStore and its use by the scheduler: load() at startup  *)
(* and before every change, save() through a temporary file.  All of it is *)
(* synchronous, so only a crash can come between two of its file           *)
(* operations; without an fsync a crash may also damage the file.          *)
(***************************************************************************)
EXTENDS Bounds

CONSTANT Accounts   \* usernames, the keys of last_results

VARIABLES
  file,     \* state.json
  tmp,      \* state.json.tmp
  backup,   \* state.json.corrupt
  pc,       \* where the process is
  mem,      \* the State a save is about to write
  updates   \* results fetched so far; a result is its number

vars == <<file, tmp, backup, pc, mem, updates>>

Results == 1 .. MaxUpdates
None    == 0                 \* no entry
Bad     == MaxUpdates + 1    \* an entry _result_from_dict rejects

\* The content of a file: a state, bytes json.loads rejects with
\* JSONDecodeError, or bytes that fail otherwise (not UTF-8, not an object).
NoFile   == [kind |-> "none"]
Garbled  == [kind |-> "garbled"]
Alien    == [kind |-> "alien"]
State(m) == [kind |-> "state", results |-> m]
Files    == {NoFile, Garbled, Alien}
              \union {State(m) : m \in [Accounts -> Results \union {None, Bad}]}

Empty == [a \in Accounts |-> None]

\* Fault: rejected entries are kept.
LoadedRaw(f) == IF f.kind = "state" THEN f.results ELSE Empty

\* What load() makes of a file: rejected entries are dropped, with the others
\* kept; a garbled file counts as none.
Loaded(f) == IF f.kind = "state"
               THEN [a \in Accounts |-> IF f.results[a] = Bad THEN None ELSE f.results[a]]
               ELSE Empty

TypeOK == /\ file \in Files /\ tmp \in Files /\ backup \in {NoFile, Garbled}
          /\ pc \in {"down", "idle", "open", "write", "replace", "failed"}
          /\ mem \in [Accounts -> Results \union {None}]
          /\ updates \in 0 .. MaxUpdates

Init == /\ file = NoFile /\ tmp = NoFile /\ backup = NoFile
        /\ pc = "down" /\ mem = Empty /\ updates = 0

\* The effect of load() on the files: a garbled file is moved aside, or, if
\* that fails, unlinked.
LoadFiles ==
  IF file = Garbled
    THEN /\ file' = NoFile
         /\ backup' \in {Garbled, backup}
    ELSE UNCHANGED <<file, backup>>

\* run_forever loads the state first.
Start == /\ pc = "down" /\ file # Alien
         /\ LoadFiles
         /\ pc' = "idle"
         /\ UNCHANGED <<tmp, mem, updates>>

\* load() handles JSONDecodeError only; the process exits.
StartFails == /\ pc = "down" /\ file = Alien
              /\ pc' = "failed"
              /\ UNCHANGED <<file, tmp, backup, mem, updates>>

\* A result of account a: load, set last_results[a], begin the save.
Update(a) == /\ pc = "idle" /\ updates < MaxUpdates
             /\ updates' = updates + 1
             /\ mem' = [Loaded(file) EXCEPT ![a] = updates + 1]
             /\ LoadFiles
             /\ pc' = "open"
             /\ UNCHANGED tmp

\* Fault: state.json itself is opened for writing.
OpenInPlace == /\ pc = "open"
               /\ file' = Garbled
               /\ pc' = "write"
               /\ UNCHANGED <<tmp, backup, mem, updates>>

\* write_text truncates the temporary file ...
OpenTmp == /\ pc = "open"
           /\ tmp' = Garbled
           /\ pc' = "write"
           /\ UNCHANGED <<file, backup, mem, updates>>

\* ... and fills it.
WriteTmp == /\ pc = "write"
            /\ tmp' = State(mem)
            /\ pc' = "replace"
            /\ UNCHANGED <<file, backup, mem, updates>>

\* os.replace.
Replace == /\ pc = "replace"
           /\ file' = tmp
           /\ tmp' = NoFile
           /\ pc' = "idle"
           /\ UNCHANGED <<backup, mem, updates>>

\* OSError in write_text or os.replace: the cycle logs it and goes on later.
SaveRaises == /\ pc \in {"open", "write", "replace"}
              /\ pc' = "idle"
              /\ UNCHANGED <<file, tmp, backup, mem, updates>>

Crash == /\ pc # "down"
         /\ pc' = "down"
         /\ UNCHANGED <<file, tmp, backup, mem, updates>>

\* External: with the process down the file system loses written blocks, or an
\* entry is of a shape _result_from_dict does not accept.
Damage == /\ pc = "down" /\ file.kind = "state"
          /\ \/ file' \in {Garbled, Alien}
             \/ \E a \in Accounts :
                  file' = State([file.results EXCEPT ![a] = IF @ = None THEN None ELSE Bad])
          /\ UNCHANGED <<tmp, backup, pc, mem, updates>>

Next == \/ Start \/ StartFails \/ \E a \in Accounts : Update(a)
        \/ OpenTmp \/ WriteTmp \/ Replace \/ SaveRaises \/ Crash \/ Damage

Spec == Init /\ [][Next]_vars

-----------------------------------------------------------------------------
Running == pc \notin {"down", "failed"}

\* Whatever a crash interrupts, what the next load() returns is what the map
\* promises: the old results or the old results with one replaced.
Store == INSTANCE AtomicStore WITH Accounts <- Accounts, Results <- Results,
                                   None <- None, results <- Loaded(file),
                                   running <- Running
ImplementsStore == Store!Spec

\* The inductive invariant: between load and replace, mem is what the file holds
\* but for one account, and the temporary file is complete before it replaces.
SaveInv ==
  /\ pc \in {"open", "write", "replace"} =>
       /\ file # Garbled /\ file # Alien
       /\ \E a \in Accounts, r \in Results : mem = [Loaded(file) EXCEPT ![a] = r]
  /\ pc = "replace" => tmp = State(mem)
  /\ pc = "idle" => file # Garbled /\ file # Alien
=============================================================================
