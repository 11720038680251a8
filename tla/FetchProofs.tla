------------------------------ MODULE FetchProofs ------------------------------
(***************************************************************************)
(* Proofs about Retry and Fetch for every number of attempts and every set *)
(* of pages: the last error and the backoffs of the retry loop, that the   *)
(* attempts of Fetch are Retry's, what a browser context and a rejected    *)
(* login come to, and which numbers a result has.                          *)
(***************************************************************************)
EXTENDS Fetch, SequenceTheorems, TLAPS

-----------------------------------------------------------------------------
(* The retry loop, with attempts that end in any way. *)

\* Where the loop is: an attempt is counted by its error, and only the last
\* error ends a call.
Count ==
  /\ pc = "fetch" => Len(errors) = i /\ outcome = "none"
  /\ pc = "sleep" => Len(errors) = i + 1 /\ i < Attempts - 1 /\ outcome = "none"
  /\ pc = "done"  => Len(errors) <= Attempts /\ outcome # "none"
  /\ pc = "done" /\ outcome # "result" => errors # <<>> /\ outcome = errors[Len(errors)]

\* The backoffs slept, before the loop goes on: one for each transient error so
\* far, in order.
Backoffs ==
  /\ \A k \in 1 .. Len(slept) : /\ slept[k] < Attempts - 1
                                /\ slept[k] < Len(errors)
                                /\ errors[slept[k] + 1] = "transient"
  /\ \A k \in 1 .. Len(errors) :
       errors[k] = "transient" /\ (pc # "done" \/ k < Len(errors))
         => \E j \in 1 .. Len(slept) : slept[j] = k - 1
  /\ \A j, k \in 1 .. Len(slept) : j < k => slept[j] < slept[k]

RetryInv == TypeOK /\ Count /\ NoRetryAfterFinal /\ Backoffs

LEMMA InitRetry == Init => RetryInv
  BY AttemptsAssumption DEF Init, RetryInv, TypeOK, Count, NoRetryAfterFinal, Backoffs

\* An error added at the end leaves the others where they are.
LEMMA Added ==
  ASSUME NEW s \in Seq(Kinds), NEW e \in Kinds
  PROVE  /\ Append(s, e) \in Seq(Kinds)
         /\ Len(Append(s, e)) = Len(s) + 1
         /\ Append(s, e)[Len(s) + 1] = e
         /\ \A k \in 1 .. Len(s) : Append(s, e)[k] = s[k]
         /\ Append(s, e) # <<>>
  OBVIOUS

LEMMA InSeq ==
  ASSUME NEW S, NEW s \in Seq(S), NEW k \in 1 .. Len(s)
  PROVE  s[k] \in S
  OBVIOUS

\* A call that ends with the error of its last attempt keeps the invariant.
LEMMA ReturnStep ==
  ASSUME RetryInv, pc = "fetch", NEW e \in Kinds,
         errors' = Append(errors, e), Return(e)
  PROVE  RetryInv'
<1> USE DEF RetryInv, Return
<1>0. /\ errors' \in Seq(Kinds) /\ errors' # <<>>
      /\ Len(errors') = Len(errors) + 1 /\ errors'[Len(errors) + 1] = e
      /\ \A k \in 1 .. Len(errors) : errors'[k] = errors[k]
  BY Added DEF TypeOK
<1>1. TypeOK'
  BY <1>0 DEF TypeOK
<1>2. Count'
  <2>1. Len(errors) <= Attempts - 1
    BY AttemptsAssumption DEF TypeOK, Count
  <2>2. Len(errors') <= Attempts
    BY <1>0, <2>1, AttemptsAssumption DEF TypeOK
  <2> QED BY <1>0, <2>2 DEF Count, Kinds
<1>3. NoRetryAfterFinal'
  BY <1>0 DEF TypeOK, Count, NoRetryAfterFinal
<1>4. Backoffs'
  <2>1. \A k \in 1 .. Len(slept) : /\ slept[k] < Attempts - 1
                                   /\ slept[k] < Len(errors')
                                   /\ errors'[slept[k] + 1] = "transient"
    <3> SUFFICES ASSUME NEW k \in 1 .. Len(slept)
                 PROVE  slept[k] < Len(errors') /\ errors'[slept[k] + 1] = errors[slept[k] + 1]
      BY DEF Backoffs
    <3>1. slept[k] \in Nat /\ slept[k] < Len(errors)
      <4>1. slept \in Seq(0 .. Attempts - 1)
        BY DEF TypeOK
      <4>2. slept[k] \in 0 .. Attempts - 1
        BY <4>1, InSeq
      <4> QED BY <4>2 DEF Backoffs
    <3> QED BY <1>0, <3>1 DEF TypeOK
  <2>2. \A k \in 1 .. Len(errors') :
          errors'[k] = "transient" /\ k < Len(errors')
            => \E j \in 1 .. Len(slept) : slept[j] = k - 1
    BY <1>0 DEF TypeOK, Backoffs
  <2> QED BY <2>1, <2>2 DEF Backoffs
<1> QED BY <1>1, <1>2, <1>3, <1>4

LEMMA NextRetry == RetryInv /\ [Next]_vars => RetryInv'
<1> SUFFICES ASSUME RetryInv, [Next]_vars PROVE RetryInv'
  OBVIOUS
<1> USE AttemptsAssumption DEF RetryInv
<1>1. CASE Result
  BY <1>1 DEF Result, Return, TypeOK, Count, NoRetryAfterFinal, Backoffs
<1>2. CASE Transient /\ i < Attempts - 1
  <2>0. /\ pc = "fetch" /\ pc' = "sleep" /\ UNCHANGED <<i, outcome>>
        /\ errors' = Append(errors, "transient") /\ slept' = Append(slept, i)
    BY <1>2 DEF Transient
  <2>1. /\ Len(errors') = i + 1 /\ errors' \in Seq(Kinds) /\ errors'[i + 1] = "transient"
        /\ \A k \in 1 .. i : errors'[k] = errors[k]
    BY <2>0, Added DEF TypeOK, Count, Kinds
  <2>2. /\ Len(slept') = Len(slept) + 1 /\ slept' \in Seq(0 .. Attempts - 1)
        /\ slept'[Len(slept) + 1] = i
        /\ \A k \in 1 .. Len(slept) : slept'[k] = slept[k]
    BY <2>0 DEF TypeOK
  <2>3. TypeOK' /\ Count'
    BY <1>2, <2>0, <2>1, <2>2 DEF TypeOK, Count
  <2>4. NoRetryAfterFinal'
    BY <2>0, <2>1 DEF TypeOK, Count, NoRetryAfterFinal, NotRetried
  <2>5. \A k \in 1 .. Len(slept') : /\ slept'[k] < Attempts - 1
                                    /\ slept'[k] < Len(errors')
                                    /\ errors'[slept'[k] + 1] = "transient"
    <3> SUFFICES ASSUME NEW k \in 1 .. Len(slept')
                 PROVE  /\ slept'[k] < Attempts - 1 /\ slept'[k] < Len(errors')
                        /\ errors'[slept'[k] + 1] = "transient"
      OBVIOUS
    <3>1. /\ i \in Nat /\ Len(errors) = i /\ Len(slept) \in Nat
          /\ slept \in Seq(0 .. Attempts - 1)
      BY <2>0 DEF TypeOK, Count
    <3>2. CASE k = Len(slept) + 1
      BY <1>2, <2>1, <2>2, <3>1, <3>2
    <3>3. CASE k \in 1 .. Len(slept)
      <4>1. slept'[k] = slept[k] /\ slept[k] \in 0 .. Attempts - 1
        BY <2>2, <3>1, <3>3, InSeq
      <4>2. /\ slept[k] < Attempts - 1 /\ slept[k] < i
            /\ errors[slept[k] + 1] = "transient"
        BY <3>1, <3>3 DEF Backoffs
      <4>3. slept[k] + 1 \in 1 .. i
        BY <3>1, <4>1, <4>2
      <4> QED BY <2>1, <3>1, <4>1, <4>2, <4>3
    <3>4. k \in 1 .. Len(slept) \/ k = Len(slept) + 1
      <4>1. Len(slept) \in Nat /\ k \in 1 .. Len(slept) + 1
        BY <2>2, <3>1
      <4> QED BY <4>1
    <3> QED BY <3>2, <3>3, <3>4
  <2>6. \A k \in 1 .. Len(errors') :
          errors'[k] = "transient" => \E j \in 1 .. Len(slept') : slept'[j] = k - 1
    BY <2>0, <2>1, <2>2 DEF TypeOK, Count, Backoffs
  <2>7. \A j, k \in 1 .. Len(slept') : j < k => slept'[j] < slept'[k]
    <3> SUFFICES ASSUME NEW j \in 1 .. Len(slept'), NEW k \in 1 .. Len(slept'), j < k
                 PROVE  slept'[j] < slept'[k]
      OBVIOUS
    <3>1. j \in 1 .. Len(slept)
      BY <2>2 DEF TypeOK
    <3>2. slept[j] < i
      BY <2>0, <3>1 DEF Count, Backoffs
    <3>3. k \in 1 .. Len(slept) \/ k = Len(slept) + 1
      <4>1. Len(slept) \in Nat /\ k \in 1 .. Len(slept) + 1
        BY <2>2 DEF TypeOK
      <4> QED BY <4>1
    <3> QED BY <2>2, <3>1, <3>2, <3>3 DEF Backoffs
  <2> QED BY <2>3, <2>4, <2>5, <2>6, <2>7 DEF Backoffs
<1>3. CASE Transient /\ ~(i < Attempts - 1)
  BY <1>3, ReturnStep DEF Transient, Kinds
<1>4. CASE WakeUp
  BY <1>4 DEF WakeUp, TypeOK, Count, NoRetryAfterFinal, Backoffs
<1>5. CASE Unknown /\ i = 0 /\ Attempts > 1
  <2>0. /\ pc = "fetch" /\ pc' = "fetch" /\ i' = 1 /\ UNCHANGED <<slept, outcome>>
        /\ errors' = Append(errors, "unknown")
    BY <1>5 DEF Unknown
  <2>1. Len(errors') = 1 /\ errors' \in Seq(Kinds) /\ errors'[1] = "unknown"
    BY <1>5, <2>0, Added DEF TypeOK, Count, Kinds
  <2>2. slept = <<>>
    BY <1>5, <2>0 DEF TypeOK, Count, Backoffs
  <2> QED BY <1>5, <2>0, <2>1, <2>2 DEF TypeOK, Count, NoRetryAfterFinal, NotRetried, Backoffs
<1>6. CASE Unknown /\ ~(i = 0 /\ Attempts > 1)
  BY <1>6, ReturnStep DEF Unknown, Kinds
<1>7. ASSUME NEW k \in NotRetried, Final(k) PROVE RetryInv'
  BY <1>7, ReturnStep DEF Final, NotRetried, Kinds
<1>8. CASE Again
  BY <1>8 DEF Again, TypeOK, Count, NoRetryAfterFinal, Backoffs
<1>9. CASE UNCHANGED vars
  BY <1>9 DEF vars, TypeOK, Count, NoRetryAfterFinal, Backoffs
<1> QED BY <1>1, <1>2, <1>3, <1>4, <1>5, <1>6, <1>7, <1>8, <1>9 DEF Next

LEMMA RetryCorrect == Spec => []RetryInv
  BY InitRetry, NextRetry, PTL DEF Spec

\* What the invariant says of a call.
LEMMA RetryImplied ==
  RetryInv => TypeOK /\ LastErrorReported /\ NoRetryAfterFinal /\ BackoffPerRetry /\ AttemptsBounded
<1> SUFFICES ASSUME RetryInv
             PROVE  LastErrorReported /\ NoRetryAfterFinal /\ BackoffPerRetry /\ AttemptsBounded
  BY DEF RetryInv
<1> USE DEF RetryInv
<1>1. LastErrorReported
  BY DEF LastErrorReported, TypeOK, Count, Token, Kinds
<1>2. BackoffPerRetry
  BY DEF BackoffPerRetry, Backoffs, TypeOK
<1>3. AttemptsBounded
  BY AttemptsAssumption DEF AttemptsBounded, TypeOK, Count
<1> QED BY <1>1, <1>2, <1>3

\* The error of the last attempt is the one returned, and an empty last_error
\* means a result (scheduler.py:71-114), for every number of attempts.
THEOREM LastErrorCorrect == Spec => []LastErrorReported
  BY RetryCorrect, RetryImplied, PTL

\* An attempt after a transient error waited first, once and for its own backoff
\* (scheduler.py:87-99).
THEOREM BackoffCorrect == Spec => []BackoffPerRetry
  BY RetryCorrect, RetryImplied, PTL

\* A rejected login, a TimeoutError and an unclassified error end the call
\* (scheduler.py:100-112).
THEOREM FinalCorrect == Spec => []NoRetryAfterFinal
  BY RetryCorrect, RetryImplied, PTL

\* No more attempts than backoffs, whatever the mix of errors
\* (scheduler.py:84-114).
THEOREM AttemptsCorrect == Spec => []AttemptsBounded
  BY RetryCorrect, RetryImplied, PTL

-----------------------------------------------------------------------------
(* What an attempt does. *)

-----------------------------------------------------------------------------
\* An attempt ends as one of Retry, or none of Retry's state changes.
LEMMA FetchStep == [FetchNext]_fetchVars => [Next]_vars
<1> SUFFICES ASSUME FetchNext, ~ UNCHANGED vars PROVE Next
  BY DEF fetchVars
<1>1. CASE Attempt
  <2>1. \E k \in {kind, "other"} : Outcome(k)
    BY <1>1 DEF Attempt, OpenContext, Pass, Submit, Accepted, Rejected, Consumption, Parsed,
                NoConsumption, List, Number, Skip, Finish, Raises, Close
  <2> QED BY <2>1 DEF Outcome, Next
<1>2. CASE Sleep \/ NextAccount
  BY <1>2 DEF Sleep, NextAccount, Next
<1>3. CASE AnswersEarly \/ Die
  BY <1>3 DEF AnswersEarly, Die
<1> QED BY <1>1, <1>2, <1>3 DEF FetchNext

\* The attempts of a fetch, with all that the portal and the browser may do, are
\* attempts as the retry loop counts them (scheduler.py:71-114).
THEOREM FetchIsRetried == FetchSpec => Spec
<1>1. FetchInit => Init
  BY DEF FetchInit
<1> QED BY <1>1, FetchStep, PTL DEF FetchSpec, Spec

\* So what Retry promises of errors and backoffs holds of the adapters: the
\* error reported is the last one,
THEOREM FetchErrorCorrect == FetchSpec => []LastErrorReported
  BY FetchIsRetried, LastErrorCorrect, PTL

\* ... and a retry after a transient error waited for its own backoff.
THEOREM FetchBackoffCorrect == FetchSpec => []BackoffPerRetry
  BY FetchIsRetried, BackoffCorrect, PTL

-----------------------------------------------------------------------------
\* A script begins with the context, and only its last await has no successor.
LEMMA Scripts ==
  ASSUME NEW p \in Providers
  PROVE  /\ 1 \in 1 .. Len(Script[p])
         /\ \A n \in 1 .. Len(Script[p]) :
              /\ n \in Nat
              /\ Script[p][n] = "context" <=> n = 1
              /\ Script[p][n] \notin {"bundle", "number"} => n + 1 \in 1 .. Len(Script[p])
<1>1. CASE p = "alfa"
  BY <1>1 DEF Script
<1>2. CASE p = "touch"
  BY <1>2 DEF Script
<1>3. CASE p = "ogero"
  BY <1>3 DEF Script
<1> QED BY <1>1, <1>2, <1>3 DEF Providers

\* The invariant of an attempt: its context is open from the first await after
\* new_context() to its close; an attempt that met a dead browser, or has read a
\* rejection, ends the call.
AttemptInv ==
  /\ provider \in Providers /\ at \in 1 .. Len(Script[provider])
  /\ pc \in {"fetch", "sleep", "done"}
  /\ pc = "fetch" => contexts = IF at = 1 THEN 0 ELSE 1
  /\ pc = "sleep" => contexts = 0 /\ at = 1 /\ kind = "none"
  /\ pc \in {"fetch", "sleep"} => outcome = "none"
  /\ pc = "done" => contexts = 0
  /\ late \in {0, 1}
  /\ late = 1 => \/ pc = "fetch" /\ at = 1 /\ kind = "other"
                 \/ pc = "done" /\ outcome = "other"
  /\ told => pc = "done" \/ (pc = "fetch" /\ kind = "auth")

LEMMA InitAttempt == FetchInit => AttemptInv
  BY Scripts DEF FetchInit, Init, AttemptInv

\* The awaits that let the adapter go on.
LEMMA GoStep ==
  ASSUME AttemptInv, Under, Step \notin {"bundle", "number", "context"}, Go,
         UNCHANGED <<vars, provider, kind, contexts, late, told>>
  PROVE  AttemptInv'
  BY Scripts DEF AttemptInv, Under, Step, Go, vars

\* The awaits that end the attempt, or read one number more.
LEMMA StayStep ==
  ASSUME AttemptInv, Under,
         UNCHANGED <<vars, provider, at, contexts>>,
         late' = late \/ (Step = "context" /\ kind' = "other" /\ late' = late + 1),
         told' = told \/ kind' = "auth"
  PROVE  AttemptInv'
<1>1. late = 0 /\ ~told
  BY DEF AttemptInv, Under
<1>2. CASE late' = late
  BY <1>1, <1>2 DEF AttemptInv, Under, vars
<1>3. CASE Step = "context" /\ kind' = "other" /\ late' = late + 1
  BY <1>1, <1>3, Scripts DEF AttemptInv, Under, Step, vars
<1> QED BY <1>2, <1>3

LEMMA NextAttempt == AttemptInv /\ [FetchNext]_fetchVars => AttemptInv'
<1> SUFFICES ASSUME AttemptInv, [FetchNext]_fetchVars PROVE AttemptInv'
  OBVIOUS
<1> USE DEF Here, world, Ends, vars
<1>1. CASE OpenContext
  BY <1>1, Scripts DEF OpenContext, Under, Step, Go, AttemptInv, vars
<1>2. CASE Pass
  BY <1>2, GoStep DEF Pass
<1>3. CASE Submit
  BY <1>3, GoStep DEF Submit
<1>4. CASE Accepted
  BY <1>4, GoStep DEF Accepted
<1>5. CASE Rejected
  BY <1>5, StayStep DEF Rejected
<1>6. CASE Consumption
  BY <1>6, GoStep DEF Consumption
<1>7. CASE Parsed
  <2>1. Under /\ UNCHANGED <<vars, provider, at, contexts>>
    BY <1>7 DEF Parsed
  <2>2. late' = late /\ told' = told
    BY <1>7 DEF Parsed
  <2> QED BY <2>1, <2>2, StayStep
<1>8. CASE NoConsumption
  BY <1>8, GoStep DEF NoConsumption
<1>9. CASE List
  BY <1>9, GoStep DEF List
<1>10. CASE Number
  BY <1>10, StayStep DEF Number
<1>11. CASE Skip
  BY <1>11, StayStep DEF Skip
<1>12. CASE Finish
  BY <1>12, StayStep DEF Finish
<1>13. CASE Raises
  <2>1. Step = "context" /\ ~alive => kind' = "other"
    BY <1>13 DEF Raises, Raised, Guarded, AttemptInv, Providers
  <2> QED BY <1>13, <2>1, StayStep DEF Raises
<1>14. CASE Close
  <2>1. PICK k \in {kind, "other"} : Outcome(k)
    BY <1>14 DEF Close
  <2>2. /\ UNCHANGED <<provider, alive, late, told>> /\ contexts' = 0
        /\ pc' \in {"fetch", "sleep"} => at' = 1 /\ kind' = "none"
        /\ pc' \notin {"fetch", "sleep"} => UNCHANGED <<at, kind>>
        /\ pc = "fetch" /\ kind # "none"
    BY <1>14 DEF Close, NewAttempt
  <2>3. pc' \in {"fetch", "sleep", "done"}
    BY <2>1, <2>2 DEF Outcome, Result, Transient, Unknown, Final, Return
  <2>4. late = 1 => pc' = "done" /\ outcome' = "other"
    <3>1. late = 1 => k = "other"
      BY <2>1, <2>2 DEF AttemptInv
    <3> QED BY <2>1, <3>1 DEF Outcome, Final, Return
  <2>5. told => pc' = "done"
    <3>1. told => k \in {"auth", "other"}
      BY <2>1, <2>2 DEF AttemptInv
    <3> QED BY <2>1, <3>1 DEF Outcome, Final, Return
  <2>6. at' \in 1 .. Len(Script[provider'])
    BY <2>2, <2>3, Scripts DEF AttemptInv
  <2>7. pc' \in {"fetch", "sleep"} => outcome' = "none"
    BY <2>1, <2>2 DEF AttemptInv, Outcome, Result, Transient, Unknown, Final, Return
  <2> QED BY <2>2, <2>3, <2>4, <2>5, <2>6, <2>7 DEF AttemptInv
<1>15. CASE Sleep
  BY <1>15 DEF Sleep, WakeUp, page_, AttemptInv
<1>16. CASE NextAccount
  BY <1>16, Scripts DEF NextAccount, Again, NewAttempt, AttemptInv
<1>17. CASE AnswersEarly
  BY <1>17 DEF AnswersEarly, AttemptInv, vars
<1>18. CASE Die
  BY <1>18 DEF Die, AttemptInv, vars, page_
<1>19. CASE UNCHANGED fetchVars
  BY <1>19 DEF fetchVars, AttemptInv, vars, page_
<1> QED
  BY <1>1, <1>2, <1>3, <1>4, <1>5, <1>6, <1>7, <1>8, <1>9, <1>10, <1>11, <1>12, <1>13,
     <1>14, <1>15, <1>16, <1>17, <1>18, <1>19 DEF FetchNext, Attempt

LEMMA AttemptCorrect == FetchSpec => []AttemptInv
  BY InitAttempt, NextAttempt, PTL DEF FetchSpec

\* No browser context outlives its attempt, however the attempt ends
\* (alfa_lb.py:242-288, touch_lb.py:116-217, ogero_lb.py:129-261).
THEOREM ContextCorrect == FetchSpec => []ContextClosed
<1>1. AttemptInv => ContextClosed
  BY DEF AttemptInv, ContextClosed
<1> QED BY <1>1, AttemptCorrect, PTL

\* Credentials that were seen rejected are not sent again by the same call
\* (base.py:61-62, scheduler.py:100-102).
THEOREM RejectionCorrect == FetchSpec => NoLoginAfterRejection
<1>1. AttemptInv /\ [FetchNext]_fetchVars
        => [verdict = "none" /\ verdict' # "none" => ~told]_fetchVars
  <2> SUFFICES ASSUME AttemptInv, FetchNext, verdict = "none", verdict' # "none" PROVE ~told
    OBVIOUS
  <2>1. Submit
    BY DEF FetchNext, Attempt, OpenContext, Pass, Accepted, Rejected, Consumption, Parsed,
           NoConsumption, List, Number, Skip, Finish, Raises, Close, NewAttempt, Sleep,
           NextAccount, AnswersEarly, Die, portal, page_
  <2> QED BY <2>1 DEF Submit, Here, Under, AttemptInv
<1> QED BY <1>1, AttemptCorrect, PTL DEF FetchSpec, NoLoginAfterRejection

-----------------------------------------------------------------------------
(* The numbers of a portal and those of a result. *)

\* Where the reading is: the first n of the portal's numbers have been read, the
\* others are still to read; lines are in the portal's order.
ReadUpTo(n) ==
  /\ todo = [k \in 1 .. Len(listed) - n |-> listed[n + k]]
  /\ bare \subseteq {listed[k] : k \in 1 .. n}
  /\ Range(lines) = {listed[k] : k \in 1 .. n} \ bare
  /\ \A j, k \in DOMAIN lines : j < k =>
       \E m, o \in DOMAIN listed : m < o /\ lines[j] = listed[m] /\ lines[k] = listed[o]

\* The invariant of the numbers: none before the portal has listed them, and a
\* result only when all of them are read.
NumbersInv ==
  /\ listed \in Pages \union {<<>>} /\ lines \in Seq(Range(listed))
  /\ \E n \in 0 .. Len(listed) : ReadUpTo(n)
  /\ Step # "number" => listed = <<>> /\ todo = <<>> /\ lines = <<>> /\ bare = {}
  /\ kind \in (Kinds \ {"timeout"}) \union {"none", "result"}
  /\ kind = "result" /\ provider # "alfa" => todo = <<>> /\ lines # <<>>
  /\ pc = "done" /\ outcome = "result" => kind = "result"
  /\ verdict \in {"none", "accepted", "rejected"}
  /\ missed \in BOOLEAN /\ told \in BOOLEAN /\ alive \in BOOLEAN

LEMMA Left ==
  ASSUME NEW c \in Nat, NEW n \in 0 .. c
  PROVE  c - n \in Nat /\ (n # c => n + 1 \in 1 .. c) /\ (c - n = 0 => n = c)
  OBVIOUS

\* The pages are sequences that list no number twice.
LEMMA Listed ==
  ASSUME NumbersInv
  PROVE  /\ listed \in Seq(Range(listed)) /\ Len(listed) \in Nat /\ DOMAIN listed = 1 .. Len(listed)
         /\ \A j, k \in 1 .. Len(listed) : listed[j] = listed[k] => j = k
<1>1. CASE listed \in Pages
  <2>1. listed \in Seq(Range(listed)) /\ IsInjective(listed)
    BY <1>1, PagesAssumption
  <2>2. Len(listed) \in Nat /\ DOMAIN listed = 1 .. Len(listed)
    BY <2>1, LenProperties
  <2> QED BY <2>1, <2>2 DEF IsInjective
<1>2. CASE listed = <<>>
  <2>1. <<>> \in Seq(Range(<<>>))
    OBVIOUS
  <2> QED BY <1>2, <2>1
<1> QED BY <1>1, <1>2 DEF NumbersInv

\* No number listed yet.
LEMMA NoNumbers ==
  ASSUME listed' = <<>>, todo' = <<>>, lines' = <<>>, bare' = {}
  PROVE  /\ listed' \in Pages \union {<<>>} /\ lines' \in Seq(Range(listed'))
         /\ \E n \in 0 .. Len(listed') : ReadUpTo(n)'
<1>1. <<>> \in Seq(Range(<<>>)) /\ Range(<<>>) = {} /\ Len(<<>>) = 0
  BY DEF Range
<1>2. ReadUpTo(0)'
  BY <1>1 DEF ReadUpTo
<1> QED BY <1>1, <1>2

\* The steps that leave the numbers alone.
LEMMA SameNumbers ==
  ASSUME NumbersInv, UNCHANGED numbers, Step # "number" \/ UNCHANGED <<provider, at>>,
         kind' \in (Kinds \ {"timeout"}) \union {"none", "result"},
         kind' = "result" /\ provider' # "alfa" => \/ (kind = "result" /\ UNCHANGED provider)
                                                  \/ (todo = <<>> /\ lines # <<>>),
         pc' = "done" /\ outcome' = "result" => kind' = "result",
         verdict' \in {"none", "accepted", "rejected"},
         missed' \in BOOLEAN, told' \in BOOLEAN, alive' \in BOOLEAN
  PROVE  NumbersInv'
<1>1. \A n \in 0 .. Len(listed) : ReadUpTo(n) => ReadUpTo(n)'
  BY DEF ReadUpTo, numbers
<1>2. (Step # "number")' => listed = <<>> /\ todo = <<>> /\ lines = <<>> /\ bare = {}
  BY DEF NumbersInv, Step
<1> QED BY <1>1, <1>2 DEF NumbersInv, numbers

LEMMA NextNumbers == AttemptInv /\ NumbersInv /\ [FetchNext]_fetchVars => NumbersInv'
<1> SUFFICES ASSUME AttemptInv, NumbersInv, [FetchNext]_fetchVars PROVE NumbersInv'
  OBVIOUS
<1>0. /\ kind \in (Kinds \ {"timeout"}) \union {"none", "result"}
      /\ verdict \in {"none", "accepted", "rejected"}
      /\ missed \in BOOLEAN /\ told \in BOOLEAN /\ alive \in BOOLEAN
      /\ kind = "result" /\ provider # "alfa" => todo = <<>> /\ lines # <<>>
      /\ pc = "done" /\ outcome = "result" => kind = "result"
      /\ provider \in Providers
  BY DEF NumbersInv, AttemptInv
<1> USE DEF Here, Under, world, Ends, vars, portal
<1>1. CASE OpenContext
  BY <1>0, <1>1, SameNumbers DEF OpenContext
<1>2. CASE Pass
  BY <1>0, <1>2, SameNumbers DEF Pass
<1>3. CASE Submit
  BY <1>0, <1>3, SameNumbers DEF Submit
<1>4. CASE Accepted
  BY <1>0, <1>4, SameNumbers DEF Accepted
<1>5. CASE Rejected
  BY <1>0, <1>5, SameNumbers DEF Rejected, Kinds
<1>6. CASE Consumption
  BY <1>0, <1>6, SameNumbers DEF Consumption
<1>7. CASE Parsed
  <2>1. provider = "alfa"
    <3>1. Step \in {"body", "bundle"}
      BY <1>7 DEF Parsed
    <3>2. CASE provider = "touch"
      BY <3>1, <3>2 DEF Step, Script, AttemptInv
    <3>3. CASE provider = "ogero"
      BY <3>1, <3>3 DEF Step, Script, AttemptInv
    <3> QED BY <1>0, <3>2, <3>3 DEF Providers
  <2> QED BY <1>0, <1>7, <2>1, SameNumbers DEF Parsed
<1>8. CASE NoConsumption
  BY <1>0, <1>8, SameNumbers DEF NoConsumption
<1>9. CASE List
  <2>0. /\ Step = "list" /\ kind = "none" /\ pc = "fetch"
        /\ \E page \in Pages \ {<<>>} : listed' = page /\ todo' = page
        /\ at' = at + 1
        /\ UNCHANGED <<vars, world, kind, contexts, portal, lines, bare, told>>
    BY <1>9 DEF List, Go
  <2>1. lines' = <<>> /\ bare' = {}
    BY <2>0 DEF NumbersInv
  <2>2. listed' \in Pages /\ todo' = listed'
    BY <2>0
  <2>3. listed' \in Seq(Range(listed'))
    BY <2>2, PagesAssumption
  <2>4. Len(listed') \in Nat /\ listed' = [k \in 1 .. Len(listed') |-> listed'[k]]
    BY <2>3
  <2>5. ReadUpTo(0)'
    <3>1. todo' = [k \in 1 .. Len(listed') - 0 |-> listed'[0 + k]]
      BY <2>2, <2>4
    <3>2. Range(lines') = {} /\ DOMAIN lines' = {}
      BY <2>1 DEF Range
    <3>3. 1 .. 0 = {}
      OBVIOUS
    <3> QED BY <2>1, <3>1, <3>2, <3>3 DEF ReadUpTo
  <2>6. Step' = "number"
    <3>1. CASE provider = "alfa"
      BY <2>0, <3>1 DEF Step, Script, AttemptInv
    <3>2. CASE provider = "touch"
      BY <2>0, <3>2 DEF Step, Script, AttemptInv
    <3>3. CASE provider = "ogero"
      BY <2>0, <3>3 DEF Step, Script, AttemptInv
    <3> QED BY <1>0, <3>1, <3>2, <3>3 DEF Providers
  <2>7. lines' \in Seq(Range(listed'))
    BY <2>1
  <2>8. 0 \in 0 .. Len(listed')
    BY <2>4
  <2> QED BY <1>0, <2>0, <2>2, <2>5, <2>6, <2>7, <2>8 DEF NumbersInv
<1>10. ASSUME Here("number"), todo # <<>>, todo' = Tail(todo),
              \/ lines' = Append(lines, Head(todo)) /\ UNCHANGED bare
              \/ bare' = bare \union {Head(todo)} /\ UNCHANGED lines,
              UNCHANGED <<vars, world, at, kind, contexts, portal, listed, told>>
       PROVE  NumbersInv'
  <2>1. PICK n \in 0 .. Len(listed) : ReadUpTo(n)
    BY DEF NumbersInv
  <2>2. /\ Len(listed) \in Nat /\ DOMAIN listed = 1 .. Len(listed)
        /\ \A j, k \in 1 .. Len(listed) : listed[j] = listed[k] => j = k
    BY Listed
  <2>3. todo = [k \in 1 .. Len(listed) - n |-> listed[n + k]]
    BY <2>1 DEF ReadUpTo
  <2>4. n + 1 \in 1 .. Len(listed) /\ Len(todo) = Len(listed) - n
    <3>1. n # Len(listed)
      BY <1>10, <2>3
    <3>2. n + 1 \in 1 .. Len(listed) /\ Len(listed) - n \in Nat
      <4>1. Len(listed) \in Nat
        BY <2>2
      <4> QED BY <3>1, <4>1, Left
    <3>3. PICK l \in Nat : l = Len(listed) - n
      BY <3>2
    <3>4. Len(todo) = l
      BY <2>3, <3>3
    <3> QED BY <3>2, <3>3, <3>4
  <2>5. Head(todo) = listed[n + 1]
    BY <2>3, <2>4
  <2>6. todo' = [k \in 1 .. Len(listed) - (n + 1) |-> listed[(n + 1) + k]]
    <3>1. PICK N \in Nat : N = Len(listed)
      BY <2>2
    <3>2. N - n \in Nat /\ Len(todo) = N - n /\ (N - n) - 1 = N - (n + 1) /\ n \in Nat
      BY <2>4, <3>1
    <3>3. todo' = [k \in 1 .. Len(todo) - 1 |-> todo[k + 1]]
      BY <1>10, <2>3
    <3>4. ASSUME NEW k \in 1 .. N - (n + 1) PROVE todo[k + 1] = listed[(n + 1) + k]
      <4>1. k + 1 \in 1 .. N - n /\ n + (k + 1) = (n + 1) + k
        BY <3>2
      <4> QED BY <2>3, <3>1, <4>1
    <3> QED BY <3>1, <3>2, <3>3, <3>4
  <2>7. {listed[k] : k \in 1 .. n + 1} = {listed[k] : k \in 1 .. n} \union {listed[n + 1]}
    <3>1. 1 .. n + 1 = (1 .. n) \union {n + 1}
      OBVIOUS
    <3> QED BY <3>1
  <2>8. listed[n + 1] \notin {listed[k] : k \in 1 .. n}
    BY <2>2, <2>4
  <2>9. /\ bare \subseteq {listed[k] : k \in 1 .. n}
        /\ Range(lines) = {listed[k] : k \in 1 .. n} \ bare
        /\ \A j, k \in DOMAIN lines : j < k =>
             \E m, o \in DOMAIN listed : m < o /\ lines[j] = listed[m] /\ lines[k] = listed[o]
        /\ lines \in Seq(Range(listed))
    BY <2>1 DEF ReadUpTo, NumbersInv
  <2>10. listed[n + 1] \in Range(listed)
    BY <2>2, <2>4 DEF Range
  <2>11. ReadUpTo(n + 1)' /\ lines' \in Seq(Range(listed'))
    <3>1. CASE bare' = bare \union {Head(todo)} /\ UNCHANGED lines
      <4>1. bare' = bare \union {listed[n + 1]} /\ lines' = lines /\ listed' = listed
        BY <1>10, <2>5, <3>1
      <4>2. bare' \subseteq {listed[k] : k \in 1 .. n + 1}
        BY <2>7, <2>9, <4>1
      <4>3. Range(lines') = {listed[k] : k \in 1 .. n + 1} \ bare'
        BY <2>7, <2>8, <2>9, <4>1
      <4> QED BY <2>6, <2>9, <4>1, <4>2, <4>3 DEF ReadUpTo
    <3>2. CASE lines' = Append(lines, Head(todo)) /\ UNCHANGED bare
      <4>1. lines' = Append(lines, listed[n + 1]) /\ listed' = listed /\ bare' = bare
        BY <1>10, <2>5, <3>2
      <4>2. lines' \in Seq(Range(listed)) /\ Range(lines') = Range(lines) \union {listed[n + 1]}
        <5>1. lines' \in Seq(Range(listed))
          BY <2>9, <2>10, <4>1
        <5>2. /\ Len(lines) \in Nat /\ DOMAIN lines = 1 .. Len(lines)
              /\ DOMAIN lines' = 1 .. Len(lines) + 1
              /\ \A k \in 1 .. Len(lines) : lines'[k] = lines[k]
              /\ lines'[Len(lines) + 1] = listed[n + 1]
          BY <2>9, <2>10, <4>1
        <5>3. 1 .. Len(lines) + 1 = (1 .. Len(lines)) \union {Len(lines) + 1}
          BY <5>2
        <5> QED BY <5>1, <5>2, <5>3 DEF Range
      <4>3. ASSUME NEW j \in DOMAIN lines', NEW k \in DOMAIN lines', j < k
            PROVE  \E m, o \in DOMAIN listed : m < o /\ lines'[j] = listed[m] /\ lines'[k] = listed[o]
        <5>1. /\ Len(lines) \in Nat /\ DOMAIN lines = 1 .. Len(lines)
              /\ DOMAIN lines' = 1 .. Len(lines) + 1
              /\ \A l \in 1 .. Len(lines) : lines'[l] = lines[l]
              /\ lines'[Len(lines) + 1] = listed[n + 1]
          BY <2>9, <2>10, <4>1
        <5>2. CASE k \in 1 .. Len(lines)
          BY <2>9, <4>3, <5>1, <5>2
        <5>3. CASE k = Len(lines) + 1
          <6>1. j \in 1 .. Len(lines) /\ lines'[j] = lines[j]
            BY <4>3, <5>1, <5>3
          <6>2. lines[j] \in Range(lines)
            BY <5>1, <6>1 DEF Range
          <6>3. PICK m \in 1 .. n : lines[j] = listed[m]
            BY <2>9, <6>2
          <6>4. m < n + 1 /\ m \in DOMAIN listed /\ n + 1 \in DOMAIN listed
            BY <2>2, <2>4
          <6> QED BY <5>1, <5>3, <6>1, <6>3, <6>4
        <5> QED BY <4>3, <5>1, <5>2, <5>3
      <4>4. Range(lines') = {listed[k] : k \in 1 .. n + 1} \ bare
        BY <2>7, <2>8, <2>9, <4>2
      <4>5. bare \subseteq {listed[k] : k \in 1 .. n + 1}
        BY <2>7, <2>9
      <4>6. ReadUpTo(n + 1)'
        <5>1. todo' = [k \in 1 .. Len(listed') - (n + 1) |-> listed'[(n + 1) + k]]
          BY <2>6, <4>1
        <5>2. {listed'[k] : k \in 1 .. n + 1} = {listed[k] : k \in 1 .. n + 1}
          BY <4>1
        <5>3. /\ bare' \subseteq {listed'[k] : k \in 1 .. n + 1}
              /\ Range(lines') = {listed'[k] : k \in 1 .. n + 1} \ bare'
          BY <4>1, <4>4, <4>5, <5>2
        <5>4. \A j, k \in DOMAIN lines' : j < k =>
                \E m, o \in DOMAIN listed' : m < o /\ lines'[j] = listed'[m] /\ lines'[k] = listed'[o]
          BY <4>1, <4>3
        <5> QED BY <5>1, <5>3, <5>4 DEF ReadUpTo
      <4> QED BY <4>1, <4>2, <4>6
    <3> QED BY <1>10, <3>1, <3>2
  <2>12. n + 1 \in 0 .. Len(listed') /\ Step' = "number" /\ UNCHANGED <<pc, kind, outcome>>
    BY <1>10, <2>4 DEF Step
  <2> QED BY <1>0, <1>10, <2>11, <2>12 DEF NumbersInv
<1>11. CASE Number
  BY <1>10, <1>11 DEF Number
<1>12. CASE Skip
  BY <1>10, <1>12 DEF Skip
<1>13. CASE Finish
  <2>1. kind' = (IF lines = <<>> THEN "unknown" ELSE "result") /\ todo = <<>> /\ pc = "fetch"
    BY <1>13 DEF Finish
  <2> QED BY <1>0, <1>13, <2>1, SameNumbers DEF Finish, Kinds
<1>14. CASE Raises
  <2>1. kind' \in {"transient", "other", "unknown"}
    BY <1>14 DEF Raises, Raised, Unfit
  <2> QED BY <1>0, <1>14, <2>1, SameNumbers DEF Raises, Kinds
<1>15. CASE Close
  <2>1. PICK k \in {kind, "other"} : Outcome(k)
    BY <1>15 DEF Close
  <2>2. pc' = "done" /\ outcome' = "result" => k = "result"
    BY <2>1 DEF Outcome, Result, Transient, Unknown, Final, Return, NotRetried
  <2>3. CASE pc' = "fetch" \/ pc' = "sleep"
    BY <1>0, <1>15, <2>3, NoNumbers DEF Close, NewAttempt, NumbersInv
  <2>4. CASE ~(pc' = "fetch" \/ pc' = "sleep")
    <3>1. pc' = "done" /\ outcome' = "result" => kind = "result"
      BY <2>2
    <3> QED BY <1>0, <1>15, <2>4, <3>1, SameNumbers DEF Close
  <2> QED BY <2>3, <2>4
<1>16. CASE Sleep
  BY <1>0, <1>16, SameNumbers DEF Sleep, WakeUp, page_
<1>17. CASE NextAccount
  BY <1>0, <1>17, NoNumbers DEF NextAccount, Again, NewAttempt, NumbersInv
<1>18. CASE AnswersEarly
  BY <1>0, <1>18, SameNumbers DEF AnswersEarly
<1>19. CASE Die
  BY <1>0, <1>19, SameNumbers DEF Die, page_
<1>20. CASE UNCHANGED fetchVars
  BY <1>0, <1>20, SameNumbers DEF fetchVars, page_
<1> QED
  BY <1>1, <1>2, <1>3, <1>4, <1>5, <1>6, <1>7, <1>8, <1>9, <1>11, <1>12, <1>13, <1>14,
     <1>15, <1>16, <1>17, <1>18, <1>19, <1>20 DEF FetchNext, Attempt

LEMMA NumbersCorrect == FetchSpec => [](AttemptInv /\ NumbersInv)
<1>1. FetchInit => NumbersInv
  <2> SUFFICES ASSUME FetchInit PROVE NumbersInv
    OBVIOUS
  <2>1. listed = <<>> /\ todo = <<>> /\ lines = <<>> /\ bare = {}
    BY DEF FetchInit
  <2>2. <<>> \in Seq(Range(<<>>)) /\ Range(<<>>) = {} /\ Len(<<>>) = 0
    BY DEF Range
  <2>3. ReadUpTo(0)
    BY <2>1, <2>2 DEF ReadUpTo
  <2>4. listed \in Pages \union {<<>>} /\ lines \in Seq(Range(listed)) /\ Len(listed) = 0
    BY <2>1, <2>2
  <2>5. \E n \in 0 .. Len(listed) : ReadUpTo(n)
    BY <2>3, <2>4
  <2> QED BY <2>1, <2>4, <2>5 DEF FetchInit, Init, NumbersInv
<1> QED BY <1>1, NextNumbers, InitAttempt, NextAttempt, PTL DEF FetchSpec

\* A result has the portal's numbers, once each and in the portal's order, except
\* those whose own page had no figures (touch_lb.py:162-196, ogero_lb.py:200-241),
\* for pages of any numbers.
THEOREM CompleteCorrect == FetchSpec => []NumbersComplete
<1>1. AttemptInv /\ NumbersInv => NumbersComplete
  <2> SUFFICES ASSUME AttemptInv, NumbersInv, pc = "done", outcome = "result", provider # "alfa"
               PROVE  /\ lines # <<>>
                      /\ Range(lines) = Range(listed) \ bare
                      /\ \A j, k \in DOMAIN lines : j < k =>
                           \E m, n \in DOMAIN listed : m < n /\ lines[j] = listed[m] /\ lines[k] = listed[n]
    BY DEF NumbersComplete
  <2>1. todo = <<>> /\ lines # <<>>
    BY DEF NumbersInv
  <2>2. PICK n \in 0 .. Len(listed) : ReadUpTo(n)
    BY DEF NumbersInv
  <2>3. Len(listed) \in Nat /\ DOMAIN listed = 1 .. Len(listed)
    BY Listed
  <2>4. n = Len(listed)
    <3>0. Len(listed) \in Nat
      BY <2>3
    <3>1. PICK l \in Nat : l = Len(listed) - n
      BY <3>0, Left
    <3>2. todo = [k \in 1 .. l |-> listed[n + k]]
      BY <2>2, <3>1 DEF ReadUpTo
    <3>3. l = 0
      BY <2>1, <3>2
    <3> QED BY <3>0, <3>1, <3>3, Left
  <2>5. Range(listed) = {listed[k] : k \in 1 .. n}
    BY <2>3, <2>4 DEF Range
  <2> QED BY <2>1, <2>2, <2>5 DEF ReadUpTo
<1> QED BY <1>1, NumbersCorrect, PTL

\* The types of an attempt: the lines read and to be read, and those without
\* figures, are among the numbers the portal listed.
THEOREM FetchTyped == FetchSpec => []FetchTypeOK
<1>1. AttemptInv /\ NumbersInv /\ RetryInv => FetchTypeOK
  <2> SUFFICES ASSUME AttemptInv, NumbersInv, RetryInv PROVE FetchTypeOK
    OBVIOUS
  <2>1. TypeOK /\ late \in 0 .. Attempts /\ contexts \in 0 .. 1
    BY AttemptsAssumption DEF RetryInv, AttemptInv, TypeOK
  <2>2. PICK n \in 0 .. Len(listed) : ReadUpTo(n)
    BY DEF NumbersInv
  <2>3. Len(listed) \in Nat /\ DOMAIN listed = 1 .. Len(listed)
    BY Listed
  <2>4. \A k \in 1 .. n : listed[k] \in Range(listed)
    BY <2>3 DEF Range
  <2>5. bare \subseteq Range(listed) /\ Range(lines) \subseteq Range(listed)
    BY <2>2, <2>4 DEF ReadUpTo
  <2>6. Range(todo) \subseteq Range(listed)
    <3>1. todo = [k \in 1 .. Len(listed) - n |-> listed[n + k]]
      BY <2>2 DEF ReadUpTo
    <3>2. \A k \in 1 .. Len(listed) - n : n + k \in DOMAIN listed
      BY <2>3
    <3> QED BY <3>1, <3>2 DEF Range
  <2> QED BY <2>1, <2>5, <2>6 DEF FetchTypeOK, AttemptInv, NumbersInv
<1> QED BY <1>1, NumbersCorrect, FetchIsRetried, RetryCorrect, PTL
=============================================================================
