-------------------------------- MODULE Retry --------------------------------
(***************************************************************************)
(* scheduler.run_one_account and classify_outcome: the attempts to fetch   *)
(* one account, which errors are tried again and after what, and the token *)
(* that last_error and the cycle's summary get.                            *)
(***************************************************************************)
EXTENDS Naturals, Sequences

CONSTANT Attempts   \* len(RetryPolicy.transient_backoffs)

ASSUME AttemptsAssumption == Attempts \in Nat \ {0}

VARIABLES
  i,        \* the loop variable, from 0
  pc,       \* "fetch", "sleep" or "done"
  errors,   \* history: the errors of the attempts so far, in order
  slept,    \* history: indices of the backoffs slept
  outcome   \* the pair returned, as the error's kind, or "result"

vars == <<i, pc, errors, slept, outcome>>

\* The exceptions provider.fetch raises: those of base.py, the built-in
\* TimeoutError and anything else (a crashed browser, a bad JSON body).
Kinds == {"transient", "auth", "unknown", "timeout", "other"}

\* The kinds run_one_account returns at once.
NotRetried == {"auth", "timeout", "other"}

\* classify_outcome, "" for a result.
Token(o) == CASE o = "result" -> "" [] o = "other" -> "unknown" [] OTHER -> o

TypeOK == /\ i \in 0 .. Attempts - 1
          /\ pc \in {"fetch", "sleep", "done"}
          /\ errors \in Seq(Kinds)
          /\ slept \in Seq(0 .. Attempts - 1)
          /\ outcome \in Kinds \union {"none", "result"}

Init == i = 0 /\ pc = "fetch" /\ errors = <<>> /\ slept = <<>> /\ outcome = "none"

Return(o) == pc' = "done" /\ outcome' = o /\ UNCHANGED <<i, slept>>

Result == pc = "fetch" /\ Return("result") /\ UNCHANGED errors

\* Fault: the last attempt sleeps and goes on, too.
TransientOneMore == /\ pc = "fetch"
                    /\ errors' = Append(errors, "transient")
                    /\ IF i < Attempts
                         THEN /\ pc' = "sleep"
                              /\ slept' = Append(slept, i)
                              /\ UNCHANGED <<i, outcome>>
                         ELSE Return("transient")

\* Fault: the error of the first attempt is returned.
TransientFirst == /\ pc = "fetch"
                  /\ errors' = Append(errors, "transient")
                  /\ IF i < Attempts - 1
                       THEN /\ pc' = "sleep"
                            /\ slept' = Append(slept, i)
                            /\ UNCHANGED <<i, outcome>>
                       ELSE Return(Head(errors'))

\* Fault: the next attempt follows at once.
TransientAtOnce == /\ pc = "fetch"
                   /\ errors' = Append(errors, "transient")
                   /\ IF i < Attempts - 1
                        THEN i' = i + 1 /\ UNCHANGED <<pc, slept, outcome>>
                        ELSE Return("transient")

\* A transient error sleeps a backoff before the next attempt, if there is one.
Transient == /\ pc = "fetch"
             /\ errors' = Append(errors, "transient")
             /\ IF i < Attempts - 1
                  THEN /\ pc' = "sleep"
                       /\ slept' = Append(slept, i)
                       /\ UNCHANGED <<i, outcome>>
                  ELSE Return("transient")

WakeUp == /\ pc = "sleep"
          /\ pc' = "fetch"
          /\ i' = i + 1
          /\ UNCHANGED <<errors, slept, outcome>>

\* An unknown error of the first attempt is tried again at once; a loop of one
\* attempt ends instead and returns the error.
Unknown == /\ pc = "fetch"
           /\ errors' = Append(errors, "unknown")
           /\ IF i = 0 /\ Attempts > 1
                THEN i' = 1 /\ UNCHANGED <<pc, slept, outcome>>
                ELSE Return("unknown")

\* Auth errors and whatever is not classified are not tried again.
Final(kind) == /\ pc = "fetch"
               /\ errors' = Append(errors, kind)
               /\ Return(kind)

\* The next cycle calls again.
Again == /\ pc = "done"
         /\ pc' = "fetch" /\ i' = 0 /\ errors' = <<>> /\ slept' = <<>> /\ outcome' = "none"

Next == \/ Result \/ Transient \/ WakeUp \/ Unknown
        \/ \E kind \in NotRetried : Final(kind)
        \/ Again

Spec == Init /\ [][Next]_vars

-----------------------------------------------------------------------------
\* The error returned is that of the last attempt, never one a later attempt
\* has superseded, and last_error is "" exactly when an attempt succeeded.
LastErrorReported ==
  pc = "done" =>
    /\ outcome # "result" => errors # <<>> /\ outcome = errors[Len(errors)]
    /\ Token(outcome) = "" <=> outcome = "result"

\* A portal that rejected the credentials is not tried again in this cycle, nor
\* one that failed in a way nobody classified: a lockout or a loop of crashes
\* would follow.
NoRetryAfterFinal ==
  \A k \in 1 .. Len(errors) : errors[k] \in NotRetried
                               => k = Len(errors) /\ pc = "done"

\* Every attempt after a transient error waited first, each time for the backoff
\* of its attempt; no backoff is slept twice or when no attempt follows it.
BackoffPerRetry ==
  /\ \A k \in 1 .. Len(slept) : slept[k] < Attempts - 1 /\ errors[slept[k] + 1] = "transient"
  /\ \A k \in 1 .. Len(errors) - 1 : errors[k] = "transient" => \E j \in 1 .. Len(slept) : slept[j] = k - 1
  /\ \A j, k \in 1 .. Len(slept) : j < k => slept[j] < slept[k]

\* The loop gives up after Attempts attempts whatever the mix of errors.
AttemptsBounded == Len(errors) <= Attempts

=============================================================================
