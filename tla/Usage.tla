-------------------------------- MODULE Usage --------------------------------
(***************************************************************************)
(* The figures of one account: how an adapter builds a ProviderResult from *)
(* the lines the portal reports, what state.json keeps of it, and what the *)
(* state messages say - after a fetch, after a failed one, and after a     *)
(* restart.                                                                *)
(*                                                                         *)
(* Alfa has a main line and U-share secondaries that share its quota; for  *)
(* Touch and Ogero the main line is synthetic, the sum of the numbers.     *)
(* Amounts are whole units; a float and its rounding to three decimals do  *)
(* not tell the properties apart, the rounding of usage_percent does.      *)
(***************************************************************************)
EXTENDS Integers, FiniteSets, Functions

CONSTANTS
  Secondaries,    \* the account's other numbers
  BundleQuota,    \* Alfa: the quota of the main line, which the others share
  LineQuota,      \* Touch, Ogero: LineQuota[l], the quota of each number
  Slugged,        \* Ogero: account_id, and with it every topic, is a slug of the username
  DangerPercent,  \* AppConfig.danger_percent
  MaxUsed         \* bound on the usage of a line

Own   == "own"
Lines == Secondaries \union {Own}

ASSUME LinesAssumption == IsFiniteSet(Secondaries) /\ Own \notin Secondaries
ASSUME SluggedAssumption == Slugged \in BOOLEAN
ASSUME AmountsAssumption == /\ MaxUsed \in Nat /\ BundleQuota \in Nat
                            /\ LineQuota \in [Secondaries -> Nat]
                            /\ DangerPercent \in 1 .. 100

VARIABLES
  agg,     \* the account's adapter makes a synthetic main line (Touch, Ogero)
  used,    \* the portal: usage of every line in this billing period
  extra,   \* the portal: usage beyond the main line's bundle
  stored,  \* state.json's result of the account, or NoResult
  shown,   \* the retained state of the main device, or NoPanel
  shownOf, \* the retained state of each secondary's device
  basis,   \* history: what each line reported at the last successful fetch
  fresh    \* history: what is shown comes from a fetch, not from state.json

vars == <<agg, used, extra, stored, shown, shownOf, basis, fresh>>

NoResult == [lines |-> {}]
NoPanel  == [total |-> -1]

\* Secondaries and their figures in a result; Own is the main line's.
Line(u, q) == [consumed |-> u, quota |-> q]

\* Fault: the synthetic quota includes numbers that were skipped.
OwnAllQuotas(S) ==
  IF agg THEN Line(SumFunctionOnSet(used, S), SumFunction(LineQuota))
         ELSE Line(used[Own], BundleQuota)

\* The main line when the portal reports the secondaries S with a bundle.
OwnLine(S) ==
  IF agg THEN Line(SumFunctionOnSet(used, S), SumFunctionOnSet(LineQuota, S))
         ELSE Line(used[Own], BundleQuota)

\* What parse_response (Alfa) or fetch (Touch, Ogero) returns then.
Fetched(S) ==
  [lines |-> S, agg |-> agg, extra |-> IF agg THEN 0 ELSE extra,
   of |-> [l \in S \union {Own} |->
             IF l = Own THEN OwnLine(S)
                        ELSE Line(used[l], IF agg THEN LineQuota[l] ELSE 0)]]

\* A result through _result_to_dict and _result_from_dict, which know nothing
\* of is_aggregate.
Reloaded(r) == [r EXCEPT !.agg = FALSE]

\* round(x / y * 100, 1), in tenths.
Tenths(x, y) == (2000 * x + y) \div (2 * y)

\* Fault: the secondaries are added to a main line that includes them.
TotalTwice(r) == SumFunction([l \in r.lines \union {Own} |-> r.of[l].consumed])

Total(r) == LET consumed == [l \in r.lines \union {Own} |-> r.of[l].consumed]
            IN IF r.agg THEN consumed[Own] ELSE SumFunction(consumed)

\* Fault: the threshold is rounded down to a whole amount.
OverQuotaRounded(x, q) == q # 0 /\ x >= (DangerPercent * q) \div 100
\* Fault: what remains may be negative.
RemainingSigned(x, q) == IF q # 0 THEN q - x ELSE 0

OverQuota(x, q) == q # 0 /\ x * 100 >= DangerPercent * q
Remaining(x, q) == IF x < q THEN q - x ELSE 0
Percent(x, q)   == IF q = 0 THEN 0 ELSE Tenths(x, q)

\* _main_state_message, and _payload_from_result.
Panel(r) ==
  LET t == Total(r)
      q == r.of[Own].quota
  IN [consumed |-> r.of[Own].consumed, total |-> t, quota |-> q,
      remaining |-> Remaining(t, q), percent |-> Percent(t, q),
      extra |-> r.extra, danger |-> OverQuota(t, q) \/ r.extra > 0]

\* _secondary_state_message: without a quota only the consumption.
PanelOf(r, l) ==
  LET x == r.of[l].consumed
      q == r.of[l].quota
  IN [consumed |-> x, quota |-> q, remaining |-> Remaining(x, q),
      percent |-> Percent(x, q), danger |-> OverQuota(x, q)]

Init == /\ agg \in BOOLEAN
        /\ used = [l \in Lines |-> 0] /\ extra = 0
        /\ stored = NoResult /\ shown = NoPanel
        /\ shownOf = [l \in Secondaries |-> NoPanel]
        /\ basis = [l \in Lines |-> 0]
        /\ fresh = TRUE

\* External: somebody uses the line.
Consume(l) == /\ used[l] < MaxUsed
              /\ used' = [used EXCEPT ![l] = @ + 1]
              /\ UNCHANGED <<agg, extra, stored, shown, shownOf, basis, fresh>>

ConsumeExtra == /\ extra < 1 /\ used[Own] = MaxUsed
                /\ extra' = extra + 1
                /\ UNCHANGED <<agg, used, stored, shown, shownOf, basis, fresh>>

\* A result's messages: the main device's and those of the lines it has.
Show(r) == /\ shown' = Panel(r)
           /\ shownOf' = [l \in Secondaries |->
                            IF l \in r.lines THEN PanelOf(r, l) ELSE shownOf[l]]

\* A successful fetch is published and saved.
FetchOk(S) == /\ agg => S # {}
              /\ Show(Fetched(S))
              /\ stored' = Fetched(S)
              /\ basis' = [l \in Lines |->
                             IF l \in S \/ (l = Own /\ ~agg) THEN used[l] ELSE 0]
              /\ fresh' = TRUE
              /\ UNCHANGED <<agg, used, extra>>

\* Alfa's fallback: getmyservices names the bundle, or none, and no usage.
Bundle(q) == [lines |-> {}, agg |-> FALSE, extra |-> 0, of |-> [l \in {Own} |-> Line(0, q)]]

FetchBundle(q) == /\ ~agg
                  /\ Show(Bundle(q))
                  /\ stored' = Bundle(q)
                  /\ basis' = [l \in Lines |-> 0]
                  /\ fresh' = TRUE
                  /\ UNCHANGED <<agg, used, extra>>

\* Fault: a failed fetch publishes zeros.
FetchFailZero == /\ stored # NoResult /\ ~(agg /\ Slugged)
                 /\ shown' = Panel(Bundle(0))
                 /\ fresh' = FALSE
                 /\ UNCHANGED <<agg, used, extra, stored, shownOf, basis>>

\* A failed fetch publishes the main device's figures of the stored result, on the
\* topic of the username: of a slugged account nothing that is shown changes.
FetchFail == /\ stored # NoResult /\ ~(agg /\ Slugged)
             /\ shown' = Panel(Reloaded(stored))
             /\ fresh' = FALSE
             /\ UNCHANGED <<agg, used, extra, stored, shownOf, basis>>

\* A restart publishes the stored result, and the next save writes it back.
Restart == /\ stored # NoResult
           /\ Show(Reloaded(stored))
           /\ fresh' = FALSE
           /\ UNCHANGED <<agg, used, extra, stored, basis>>

Next == \/ \E l \in Lines : Consume(l)
        \/ ConsumeExtra
        \/ \E S \in SUBSET Secondaries : FetchOk(S)
        \/ \E q \in {0, BundleQuota} : FetchBundle(q)
        \/ FetchFail \/ Restart

Spec == Init /\ [][Next]_vars

-----------------------------------------------------------------------------
Known == shown # NoPanel

TypeOK ==
  /\ agg \in BOOLEAN /\ fresh \in BOOLEAN
  /\ used \in [Lines -> 0 .. MaxUsed] /\ extra \in {0, 1}
  /\ stored # NoResult => stored.lines \subseteq Secondaries
  /\ Known => /\ shown.total \in Nat /\ shown.quota \in Nat /\ shown.remaining \in Nat
              /\ shown.percent \in Nat /\ shown.danger \in BOOLEAN
  /\ basis \in [Lines -> 0 .. MaxUsed]

\* The total shown is what the lines reported at the last successful fetch, each
\* line counted once: by is_aggregate or by the sum.  For a synthetic line this
\* is so as long as the figures have not been through state.json.
EachLineOnce == Known /\ (agg => fresh) => shown.total = SumFunction(basis)

\* The total, which Home Assistant takes for a meter that only increases, falls
\* only when the new result does not report a line the one before did - a number
\* whose page had no figures, or Alfa's fallback - or when the one shown before
\* counted a synthetic line twice.  No failure and no restart makes it fall.
DropsExplained ==
  [][Known /\ shown'.total < shown.total =>
       (\E l \in Lines : basis'[l] < basis[l]) \/ (agg /\ ~fresh)]_vars

\* Danger is decided on the exact ratio and usage_percent is rounded: still a
\* panel in danger shows its threshold reached, or extra consumption.
DangerExplained ==
  /\ Known /\ shown.danger => shown.percent >= 10 * DangerPercent \/ shown.extra > 0
  /\ \A l \in Secondaries : shownOf[l] # NoPanel /\ shownOf[l].danger
                              => shownOf[l].percent >= 10 * DangerPercent

\* An account of numbers that are all in danger is in danger itself: the
\* synthetic quota weighs the numbers so that their sum cannot hide it.
AllLinesInDanger ==
  Known /\ agg /\ (\A l \in stored.lines : shownOf[l].danger) => shown.danger

-----------------------------------------------------------------------------
(* What the documents say and the code does otherwise. *)

\* base.py: with is_aggregate the main line already has the secondaries' usage,
\* and it is not summed again.
NotSummedAgain == Known /\ agg => shown.total = SumFunction(basis)
=============================================================================
