------------------------------- MODULE Entities -------------------------------
(***************************************************************************)
(* The accounts over a changing options.json: load_config makes a list of  *)
(* accounts of it at every start, stored results are published again for   *)
(* the accounts still configured, fetched results are published and saved  *)
(* - and the entities the broker retains, which are named by provider and  *)
(* line, outlive the options they came from.  One account is published at  *)
(* a time; what overlapping publications do is Publication's.              *)
(***************************************************************************)
EXTENDS Naturals, SequencesExt

CONSTANTS
  Usernames,
  Providers,   \* KNOWN_PROVIDERS
  Slugged,     \* providers whose account_id is a slug of the username
  Slug,        \* _sanitize_username, as a function
  Bundles,     \* for each username and provider the sets of numbers the portal
               \* may show
  Forms,       \* contents of options.json
  MaxEdits     \* bound: edits of options.json

ASSUME SluggedAssumption == Slugged \subseteq Providers
ASSUME EditsAssumption == MaxEdits \in Nat
\* A slug is its own slug.
ASSUME SlugAssumption ==
  \A u \in Usernames : Slug[u] \in Usernames => Slug[Slug[u]] = Slug[u]
ASSUME FormsAssumption ==
  \A file \in Forms :
    /\ file.valid \in BOOLEAN /\ file.items \in Seq(Range(file.items))
    /\ \A item \in Range(file.items) :
         /\ item.user \in Usernames
         /\ item = [user |-> item.user, provider |-> item.provider]

Account == [user : Usernames, provider : Providers]

\* account_id of a result; line_id of its main line is the same.
IdOf(a) == IF a.provider \in Slugged THEN Slug[a.user] ELSE a.user

ASSUME BundlesAssumption == DOMAIN Bundles = Account

\* The lines an account's results may have.
LinesOf(a) == {IdOf(a)} \union UNION Bundles[a]

VARIABLES
  options,   \* options.json: its own fields valid or not, and its accounts
  edits,     \* edits so far
  pc,        \* "down", "start" or "run"
  form,      \* history: the options of the last start
  accounts,  \* AppConfig.accounts of the process
  todo,      \* accounts startup has still to look up in the state and publish
  stored,    \* state.json: the last result of each username, or None
  pending,   \* a result that is published and not saved yet, or None
  entities,  \* retained discovery: from <<pid, line>> to its state topic, and
             \* whether the result was from another provider, which is history
  shown      \* retained states: from a state topic to the figures in it

config == <<options, edits>>
broker == <<entities, shown>>
vars   == <<config, pc, form, accounts, todo, stored, pending, broker>>

None == <<>>

\* Fault: without the provider.
PidLess(p) == "carriers_sync"

\* The provider's part of identifiers and topics.
Pid(p) == p

MainTopic(p, id)    == <<Pid(p), id>>
LineTopic(p, id, n) == <<Pid(p), id, n>>

\* The figures of a line of an account.
Figures(u, line) == [user |-> u, line |-> line]

\* ProviderResult.  That it is from a provider is history: nothing reads it.
ResultsOf(a) == [id : {IdOf(a)}, numbers : Bundles[a], from : {a.provider}]
AllResults   == UNION {ResultsOf(a) : a \in Account}

\* What the broker retains once it has new messages over those of before.
Retain(new, old) ==
  [t \in DOMAIN new \union DOMAIN old |-> IF t \in DOMAIN new THEN new[t] ELSE old[t]]

\* build_account_messages for the result r of username u under provider p.  The
\* main line comes first: a number that is the account_id takes its entity over.
EntitiesOf(p, r) ==
  [e \in {<<Pid(p), line>> : line \in r.numbers \union {r.id}} |->
     [topic |-> IF e[2] \in r.numbers THEN LineTopic(p, r.id, e[2]) ELSE MainTopic(p, r.id),
      moved |-> r.from # p]]
ShownOf(p, u, r) ==
  [t \in {LineTopic(p, r.id, n) : n \in r.numbers} \union {MainTopic(p, r.id)} |->
     Figures(u, IF Len(t) = 2 THEN r.id ELSE t[3])]
PublishResult(p, u, r) == /\ entities' = Retain(EntitiesOf(p, r), entities)
                          /\ shown'    = Retain(ShownOf(p, u, r), shown)

-----------------------------------------------------------------------------
\* Fault: the last account of a username wins.
TakeLast(read, item) ==
  IF read.failed \/ item.provider \notin Providers
    THEN [read EXCEPT !.failed = TRUE]
    ELSE [read EXCEPT !.seen = @ \union {item.user},
                      !.accounts = Append(SelectSeq(@, LAMBDA a : a.user # item.user), item)]

\* Fault: an entry that is not valid is skipped over, like a duplicate.
TakeAny(read, item) ==
  IF read.failed \/ item.user \in read.seen
    THEN read
    ELSE [read EXCEPT !.seen = @ \union {item.user}, !.accounts = Append(@, item)]

\* One turn of the loop over the configured accounts: an entry that is not
\* valid ends it with ConfigError, also as a duplicate; a username that was seen
\* is skipped.
TakeItem(read, item) ==
  IF read.failed THEN read
  ELSE IF item.provider \notin Providers THEN [read EXCEPT !.failed = TRUE]
  ELSE IF item.user \in read.seen THEN read
  ELSE [read EXCEPT !.seen = @ \union {item.user}, !.accounts = Append(@, item)]

\* load_config.
LoadConfig(file) ==
  FoldLeft(TakeItem, [failed |-> ~file.valid, seen |-> {}, accounts |-> <<>>], file.items)

TypeOK == /\ options \in Forms /\ form \in Forms /\ edits \in 0 .. MaxEdits
          /\ pc \in {"down", "start", "run"}
          /\ accounts \in Seq(Account) /\ Range(todo) \subseteq Range(accounts)
          /\ stored \in [Usernames -> AllResults \union {None}]
          /\ pending = None \/ pending.account \in Range(accounts)
          /\ \A e \in DOMAIN entities : entities[e].topic \in DOMAIN shown

Init == /\ options \in Forms /\ form = options /\ edits = 0
        /\ pc = "down" /\ accounts = <<>> /\ todo = <<>>
        /\ stored = [u \in Usernames |-> None] /\ pending = None
        /\ entities = <<>> /\ shown = <<>>

\* External: the user saves the form; the process reads it at its next start.
Edit == /\ edits < MaxEdits
        /\ options' \in Forms \ {options}
        /\ edits' = edits + 1
        /\ UNCHANGED <<pc, form, accounts, todo, stored, pending, broker>>

\* ConfigError: the process exits before it has a session.
BootRefused == /\ pc = "down" /\ LoadConfig(options).failed
               /\ UNCHANGED vars

\* load_config, and the way to run_forever.
Boot == /\ pc = "down"
        /\ LET read == LoadConfig(options) IN
             /\ ~read.failed
             /\ accounts' = read.accounts
             /\ todo' = read.accounts
        /\ pc' = "start" /\ form' = options
        /\ UNCHANGED <<config, stored, pending, broker>>

\* _publish_discovery and _republish_known_state, for one account: its stored
\* result under the provider it has now.  Others' stored results are skipped.
Republish == /\ pc = "start" /\ todo # <<>>
             /\ LET a == Head(todo) IN
                IF stored[a.user] = None
                  THEN UNCHANGED broker
                  ELSE PublishResult(a.provider, a.user, stored[a.user])
             /\ todo' = Tail(todo)
             /\ UNCHANGED <<config, pc, form, accounts, stored, pending>>

EnterLoop == /\ pc = "start" /\ todo = <<>>
             /\ pc' = "run"
             /\ UNCHANGED <<config, form, accounts, todo, stored, pending, broker>>

\* A fetch succeeds: all messages of the result are published ...
FetchOk(a) == /\ pc = "run" /\ pending = None
              /\ \E r \in ResultsOf(a) :
                   /\ PublishResult(a.provider, a.user, r)
                   /\ pending' = [account |-> a, result |-> r]
              /\ UNCHANGED <<config, pc, form, accounts, todo, stored>>

\* ... and the result is saved.
SaveResult == /\ pc = "run" /\ pending # None
              /\ stored' = [stored EXCEPT ![pending.account.user] = pending.result]
              /\ pending' = None
              /\ UNCHANGED <<config, pc, form, accounts, todo, broker>>

\* _publish_error_state: to the topic of the username, with the figures of the
\* stored result if there is one.
FetchFail(a) == /\ pc = "run" /\ pending = None
                /\ shown' = Retain([t \in {MainTopic(a.provider, a.user)} |->
                                      Figures(a.user, IF stored[a.user] = None THEN "none"
                                                      ELSE stored[a.user].id)], shown)
                /\ UNCHANGED <<config, pc, form, accounts, todo, stored, pending, entities>>

\* The process ends, at any point; the broker may restart and lose what it
\* retained, which ends the process too.
Down == /\ pc # "down"
        /\ pc' = "down" /\ pending' = None /\ todo' = <<>> /\ accounts' = <<>>
        /\ \/ UNCHANGED broker
           \/ entities' = <<>> /\ shown' = <<>>
        /\ UNCHANGED <<config, form, stored>>

Next == \/ Edit \/ BootRefused \/ Boot \/ Republish \/ EnterLoop \/ SaveResult \/ Down
        \/ \E a \in Range(accounts) : FetchOk(a) \/ FetchFail(a)

Spec == Init /\ [][Next]_vars

-----------------------------------------------------------------------------
\* The accounts of a process are, for every username of valid options, its first
\* entry, in the order of the options: no username has two accounts, whichever
\* providers they name, and a start with an entry that is not valid is refused.
FirstWins ==
  pc # "down" =>
    LET of(u)  == {k \in DOMAIN form.items : form.items[k].user = u}
        first  == {k \in DOMAIN form.items : \A j \in of(form.items[k].user) : k <= j}
    IN /\ form.valid /\ \A k \in DOMAIN form.items : form.items[k].provider \in Providers
       /\ Len(accounts) = Cardinality(first)
       /\ \A k \in first : accounts[Cardinality({j \in first : j <= k})] = form.items[k]

\* No other configured account of the provider can have the line: not by the same
\* slug, not by a number both logins list, not by a number that is a username.
\* Nothing in the code sees to it.
Own(a, line) == \A b \in Range(accounts) :
                  b.provider = a.provider /\ b # a => line \notin LinesOf(b)

\* While the app runs, every line of a configured account's stored result that no
\* other configured account shares has an entity that shows that very account's
\* and that line's figures - whatever else collides, whatever was configured,
\* removed, added again, or forgotten by the broker before, and if two providers
\* have lines of the same number.  The one way out is a username that moved to
\* another provider: its stored result names lines of the old provider as the
\* new one's.
EachLineShown ==
  pc = "run" =>
    \A a \in Range(accounts) :
      LET r == stored[a.user] IN
        r # None /\ r.from = a.provider =>
          \A line \in {l \in r.numbers \union {r.id} : Own(a, l)} :
            LET e == <<Pid(a.provider), line>> IN
              /\ e \in DOMAIN entities
              /\ \/ shown[entities[e].topic] = Figures(a.user, line)
                 \/ entities[e].moved
=============================================================================
