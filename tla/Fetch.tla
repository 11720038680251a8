-------------------------------- MODULE Fetch --------------------------------
(***************************************************************************)
(* provider.fetch inside run_one_account: what one attempt does with the   *)
(* shared browser and the carrier's portal, await by await, and which      *)
(* error an await that fails becomes.  The three adapters have one shape:  *)
(* a browser context is opened, the login page is read, the credentials    *)
(* are sent, the portal's answer is read, figures are requested, and the   *)
(* context is closed whatever happened.                                    *)
(***************************************************************************)
EXTENDS Retry, SequencesExt

CONSTANT Pages   \* the lists of numbers a portal may show, without repetition

ASSUME PagesAssumption == \A page \in Pages : page \in Seq(Range(page)) /\ IsInjective(page)

VARIABLES
  provider,  \* the adapter of the account
  alive,     \* the browser runs; all accounts of a cycle share it
  late,      \* history: attempts of this call begun with a dead browser
  at,        \* the place of the attempt in its script
  kind,      \* how the attempt ends once its context is closed, or "none"
  contexts,  \* browser contexts open
  verdict,   \* the portal on the credentials last sent, or "none"
  missed,    \* Alfa: the consumption XHR was answered before it was waited for
  listed, todo, lines,  \* the portal's numbers, those still to read, those read
  bare,      \* history: numbers whose page had no figures
  told       \* history: an attempt of this call has read a rejection

numbers == <<listed, todo, lines, bare>>
portal  == <<verdict, missed>>
page_  == <<at, kind, contexts, portal, numbers>>
world  == <<provider, alive, late>>
fetchVars == <<vars, world, page_, told>>

Providers == {"alfa", "touch", "ogero"}

\* The awaits of an attempt in their order; "number" repeats.
Script == [
  alfa  |-> <<"context", "page", "goto", "guard", "fill", "submit", "answer",
              "consumption", "body", "services", "bundle">>,
  touch |-> <<"context", "page", "goto", "guard", "submit", "answer",
              "list", "number">>,
  ogero |-> <<"context", "page", "goto", "look", "fill", "submit", "answer",
              "dashboard", "list", "number">>]

Step == Script[provider][at]

\* The awaits under a try that turns every exception into TransientFetchError.
Guarded == [alfa  |-> {"goto", "consumption", "services"},
            touch |-> {"goto", "submit", "list", "number"},
            ogero |-> {"goto", "fill", "submit", "dashboard", "number"}]

\* The awaits, or the last of several at one place, that wait without a timeout:
\* for the browser itself, for page.content(), a body or an evaluate().  All others
\* have that of their call or of the context.
Untimed == [alfa  |-> {"context", "page", "body", "bundle"},
            touch |-> {"context", "page", "guard", "answer", "list", "number"},
            ogero |-> {"context", "page", "look", "submit", "answer", "list", "number"}]

\* What an exception of the await becomes.
Raised(p, s) == IF s \in Guarded[p] THEN "transient" ELSE "other"

\* What an answer that came, but is not the expected one, becomes: a rejected
\* URL, an HTTP status, a page that does not settle; a page or a body of another
\* shape; a body that is no JSON, or a number that is none.
Unfit(p, s) ==
  CASE s \in {"guard", "answer"}   -> {"transient", "other"}
    [] s = "services" \/ (s = "submit" /\ p = "touch") -> {"transient"}
    [] s \in {"body", "bundle"}    -> {"unknown", "other"}
    [] s = "list"                  -> {"transient", "unknown", "other"}
    [] s = "number"                -> {"transient", "other"}
    [] OTHER                       -> {}

FetchTypeOK ==
  /\ TypeOK
  /\ provider \in Providers /\ alive \in BOOLEAN /\ late \in 0 .. Attempts
  /\ at \in 1 .. Len(Script[provider])
  /\ kind \in (Kinds \ {"timeout"}) \union {"none", "result"}
  /\ contexts \in 0 .. 1
  /\ verdict \in {"none", "accepted", "rejected"}
  /\ missed \in BOOLEAN /\ told \in BOOLEAN
  /\ listed \in Pages \union {<<>>}
  /\ Range(todo) \subseteq Range(listed) /\ Range(lines) \subseteq Range(listed)
  /\ bare \subseteq Range(listed)

NewAttempt == /\ at' = 1 /\ kind' = "none" /\ verdict' = "none" /\ missed' = FALSE
              /\ listed' = <<>> /\ todo' = <<>> /\ lines' = <<>> /\ bare' = {}

FetchInit == /\ Init
             /\ provider \in Providers /\ alive = TRUE /\ late = 0
             /\ at = 1 /\ kind = "none" /\ contexts = 0
             /\ verdict = "none" /\ missed = FALSE
             /\ listed = <<>> /\ todo = <<>> /\ lines = <<>> /\ bare = {}
             /\ told = FALSE

\* The adapter is at await s, and the browser answers.
Under  == pc = "fetch" /\ kind = "none"
Here(s) == Under /\ Step = s /\ alive
Go      == at' = at + 1
Ends(k) == kind' = k /\ UNCHANGED at

OpenContext == /\ Here("context")
               /\ contexts' = contexts + 1
               /\ Go
               /\ UNCHANGED <<vars, world, kind, portal, numbers, told>>

\* Awaits whose answer only lets the adapter go on.
Pass == /\ \E s \in {"page", "goto", "guard", "look", "fill", "dashboard", "services"} : Here(s)
        /\ Go
        /\ UNCHANGED <<vars, world, kind, contexts, portal, numbers, told>>

\* The credentials are sent; the portal makes up its mind.
Submit == /\ Here("submit")
          /\ verdict' \in {"accepted", "rejected"}
          /\ Go
          /\ UNCHANGED <<vars, world, kind, contexts, missed, numbers, told>>

\* The answer of the portal is read.  Alfa looks for words of a rejection on
\* whatever page is there after the click, which may still be the form.
Accepted == /\ Here("answer")
            /\ verdict = "accepted" \/ provider = "alfa"
            /\ Go
            /\ UNCHANGED <<vars, world, kind, contexts, portal, numbers, told>>

\* Fault: the rejection is an error like any unexpected page.
RejectedUnknown == /\ Here("answer")
                   /\ verdict = "rejected" \/ provider = "ogero"
                   /\ told' = TRUE
                   /\ Ends("unknown")
                   /\ UNCHANGED <<vars, world, contexts, portal, numbers>>

\* A page without the marks of a login, or with those of a rejection.  Ogero may
\* read the page it is about to leave, and take it for a rejection.
Rejected == /\ Here("answer")
            /\ verdict = "rejected" \/ provider = "ogero"
            /\ told' = TRUE
            /\ Ends("auth")
            /\ UNCHANGED <<vars, world, contexts, portal, numbers>>

\* External: the page Alfa's login leads to asks for the figures on its own.
AnswersEarly == /\ Under /\ provider = "alfa" /\ Step = "answer"
                /\ verdict = "accepted" /\ ~missed
                /\ missed' = TRUE
                /\ UNCHANGED <<vars, world, at, kind, contexts, verdict, numbers, told>>

\* expect_response yields the answer of an XHR it did not miss.
Consumption == /\ Here("consumption") /\ verdict = "accepted" /\ ~missed
               /\ Go
               /\ UNCHANGED <<vars, world, kind, contexts, portal, numbers, told>>

\* parse_response or parse_services returns.
Parsed == /\ Here("body") \/ Here("bundle")
          /\ Ends("result")
          /\ UNCHANGED <<vars, world, contexts, portal, numbers, told>>

\* NoConsumptionDataError: the services are asked for.
NoConsumption == /\ Here("body")
                 /\ Go
                 /\ UNCHANGED <<vars, world, kind, contexts, portal, numbers, told>>

\* parse_number_list; without a number the attempt ends (Unfit).
List == /\ Here("list")
        /\ \E page \in Pages \ {<<>>} : listed' = page /\ todo' = page
        /\ Go
        /\ UNCHANGED <<vars, world, kind, contexts, portal, lines, bare, told>>

Number == /\ Here("number") /\ todo # <<>>
          /\ lines' = Append(lines, Head(todo))
          /\ todo' = Tail(todo)
          /\ UNCHANGED <<vars, world, at, kind, contexts, portal, listed, bare, told>>

\* UnknownFetchError of one number's page: the number is left out.
Skip == /\ Here("number") /\ todo # <<>>
        /\ bare' = bare \union {Head(todo)}
        /\ todo' = Tail(todo)
        /\ UNCHANGED <<vars, world, at, kind, contexts, portal, listed, lines, told>>

\* All numbers are read: a result, unless none has figures.
Finish == /\ Under /\ Step = "number" /\ todo = <<>>
          /\ Ends(IF lines = <<>> THEN "unknown" ELSE "result")
          /\ UNCHANGED <<vars, world, contexts, portal, numbers, told>>

\* Fault: a number whose request fails is left out of the result.
RaisesNotNumber == /\ Under
                   /\ IF Step = "number"
                        THEN /\ todo # <<>> /\ todo' = Tail(todo)
                             /\ UNCHANGED <<at, kind>>
                        ELSE /\ kind' \in {Raised(provider, Step)}
                                            \union IF alive THEN Unfit(provider, Step) ELSE {}
                             /\ UNCHANGED <<at, todo>>
                   /\ late' = IF Step = "context" /\ ~alive THEN late + 1 ELSE late
                   /\ UNCHANGED <<vars, provider, alive, contexts, portal, listed, lines, bare, told>>

\* Fault: the answer to the XHR is waited for without a timeout.
RaisesNotXhr == /\ Under /\ ~(Step = "number" /\ todo = <<>>)
                /\ IF Step = "consumption"
                     THEN UNCHANGED kind
                     ELSE kind' \in {Raised(provider, Step)}
                                      \union IF alive THEN Unfit(provider, Step) ELSE {}
                /\ late' = IF Step = "context" /\ ~alive THEN late + 1 ELSE late
                /\ UNCHANGED <<vars, provider, alive, at, contexts, portal, numbers, told>>

\* The await raises - by its timeout if it has one, for the network, because the
\* browser is gone - or its answer is not fit.
Raises == /\ Under /\ ~(Step = "number" /\ todo = <<>>)
          /\ kind' \in {Raised(provider, Step)}
                         \union IF alive THEN Unfit(provider, Step) ELSE {}
          /\ late' = IF Step = "context" /\ ~alive THEN late + 1 ELSE late
          /\ UNCHANGED <<vars, provider, alive, at, contexts, portal, numbers, told>>

\* What run_one_account makes of the attempt.
Outcome(k) == \/ k = "result" /\ Result
              \/ k = "transient" /\ Transient
              \/ k = "unknown" /\ Unknown
              \/ k \in NotRetried /\ Final(k)

\* Fault: the context is closed at the end of a fetch that returns.
CloseReturned == /\ pc = "fetch" /\ kind # "none"
                 /\ Outcome(kind)
                 /\ contexts' = IF kind = "result" THEN 0 ELSE contexts
                 /\ NewAttempt
                 /\ UNCHANGED <<world, told>>

\* The finally clause: a close() that raises, the browser being gone, replaces
\* the result or the error.  A context that was not opened is not closed.
Close == /\ pc = "fetch" /\ kind # "none"
         /\ \/ Outcome(kind)
            \/ ~alive /\ contexts = 1 /\ Outcome("other")
         /\ contexts' = 0
         /\ IF pc' = "fetch" \/ pc' = "sleep"
              THEN NewAttempt
              ELSE UNCHANGED <<at, kind, portal, numbers>>
         /\ UNCHANGED <<world, told>>

\* Chromium crashes.
Die == /\ alive /\ pc # "done"
       /\ alive' = FALSE
       /\ UNCHANGED <<vars, provider, late, page_, told>>

Sleep == WakeUp /\ UNCHANGED <<world, page_, told>>

\* The next account of the cycle, with the same browser, or the next cycle.
NextAccount == /\ Again
               /\ provider' \in Providers
               /\ alive' \in {alive, TRUE}
               /\ late' = 0 /\ told' = FALSE /\ contexts' = 0
               /\ NewAttempt

Attempt == \/ OpenContext \/ Pass \/ Submit \/ Accepted \/ Rejected \/ Consumption
           \/ Parsed \/ NoConsumption \/ List \/ Number \/ Skip \/ Finish
           \/ Raises \/ Close

FetchNext == Attempt \/ Sleep \/ NextAccount \/ AnswersEarly \/ Die

FetchSpec == FetchInit /\ [][FetchNext]_fetchVars

\* The attempt may wait for ever: at an await without a timeout, or for the close
\* of its context, which has none either.
MayHang == /\ pc = "fetch"
           /\ IF kind = "none"
                THEN Step \in Untimed[provider] /\ ~(Step = "number" /\ todo = <<>>)
                ELSE contexts = 1

\* An await with a timeout ends, and so does a sleep.  Of the others nothing is
\* known.
FairFetch == FetchSpec /\ WF_fetchVars(Attempt /\ ~MayHang) /\ WF_fetchVars(Sleep)

-----------------------------------------------------------------------------
\* No attempt leaves a browser context behind, and no two are open at once: the
\* browser of a refresh-all cycle lives through every account and every retry.
ContextClosed == contexts = 1 => pc = "fetch" /\ at > 1

\* A result has every number the portal listed in this very attempt, once and in
\* the portal's order, except those whose own page has no figures: a request
\* that fails fails the whole attempt, and no number of an earlier one stays.
NumbersComplete ==
  pc = "done" /\ outcome = "result" /\ provider # "alfa" =>
    /\ lines # <<>>
    /\ Range(lines) = Range(listed) \ bare
    /\ \A j, k \in DOMAIN lines : j < k =>
         \E m, n \in DOMAIN listed : m < n /\ lines[j] = listed[m] /\ lines[k] = listed[n]

\* Credentials an attempt has seen rejected are not sent again in this cycle,
\* even when closing the context fails and hides the rejection: base.py, "Do NOT
\* retry this cycle".
NoLoginAfterRejection == [][verdict = "none" /\ verdict' # "none" => ~told]_fetchVars

\* A fetch returns, whatever it waits for with a timeout - also when the XHR was
\* answered before it was waited for - unless one of its awaits without a timeout
\* never ends.
FetchReturns == []<>(pc = "done") \/ <>[]MayHang

-----------------------------------------------------------------------------
(* What the documents say and the code does otherwise. *)

\* base.py, TransientFetchError: "browser crash. Worth retrying with backoff".  An
\* attempt begun with a crashed browser is not the last one but for being the last
\* the loop has.
CrashIsRetried == pc = "done" /\ late > 0 => i = Attempts - 1
=============================================================================
