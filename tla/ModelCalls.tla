----------------------------- MODULE ModelCalls -----------------------------
(***************************************************************************)
(* Calls to the language model under the daily budget.  A call reserves    *)
(* its worst case in its workspace's ledger and in everyone's, each by one *)
(* conditional UPDATE; the provider is asked, model after model, and once  *)
(* more when the JSON it answered does not fit; then the reservation is    *)
(* settled to what was reported, given back, or left standing.             *)
(***************************************************************************)
EXTENDS Integers, FiniteSets

CONSTANTS
  Callers,    \* calls in flight at once, each in an instance of the server
  Tenants,    \* workspaces
  Cap,        \* LLM_DAILY_BUDGET_USD, in worst cases of one attempt
  TenantCap,  \* WORKSPACE_DAILY_BUDGET_USD
  Costs,      \* what one attempt may be reported to cost, above its worst case too
  LastDay,    \* days pass up to this one
  MaxBilled   \* bound on what a workspace is billed in a day

ASSUME CallersAssumption == IsFiniteSet(Callers)
ASSUME BudgetAssumption ==
  Cap \in Nat /\ TenantCap \in Nat /\ Costs \subseteq Nat /\ LastDay \in Nat /\ MaxBilled \in Nat

VARIABLES
  today,
  ledger,   \* control.llm_spend by day
  share,    \* control.llm_spend_ws by workspace and day
  ask,      \* calls in flight
  billed,   \* history: what the provider reported, by workspace and day
  bill,     \* history: the same, by day
  above,    \* history: what settlements above zero have added to each day's ledger
  aboveOf,  \* history: the same, for each workspace's ledger
  lapsed,   \* history: workspaces and days with an unwritten settlement above zero
  repriced  \* history: the same, where a repair attempt was refused

budgetVars == <<today, ledger, share, ask, billed, bill, above, aboveOf, lapsed, repriced>>

Days == 0 .. LastDay
NoCall == [phase |-> "idle", ws |-> "none", day |-> 0, left |-> 0, held |-> 0, cost |-> 0,
           back |-> 0]

BudgetInit ==
  /\ today = 0
  /\ ledger = [d \in Days |-> 0]
  /\ share = [w \in Tenants |-> [d \in Days |-> 0]]
  /\ ask = [c \in Callers |-> NoCall]
  /\ billed = [w \in Tenants |-> [d \in Days |-> 0]]
  /\ bill = [d \in Days |-> 0]
  /\ above = [d \in Days |-> 0]
  /\ aboveOf = [w \in Tenants |-> [d \in Days |-> 0]]
  /\ lapsed = {} /\ repriced = {}

Floor(n) == IF n > 0 THEN n ELSE 0
Billing(c) == <<ask[c].ws, ask[c].day>>
Hang(c) == ask' = [ask EXCEPT ![c] = NoCall]

\* Midnight, UTC.
NextDay ==
  /\ today < LastDay
  /\ today' = today + 1
  /\ UNCHANGED <<ledger, share, ask, billed, bill, above, aboveOf, lapsed, repriced>>

----------------------------------------------------------------------------
(* Reserving *)

\* guarded(): the day is fixed here.  A text call reserves one attempt, a JSON
\* call two.
BeginCall(c, w, attempts) ==
  /\ ask[c].phase = "idle"
  /\ billed[w][today] < MaxBilled
  /\ ask' = [ask EXCEPT ![c] = [phase |-> "own", ws |-> w, day |-> today, left |-> attempts,
                               held |-> attempts, cost |-> 0, back |-> 0]]
  /\ UNCHANGED <<today, ledger, share, billed, bill, above, aboveOf, lapsed, repriced>>

\* Mutant: the workspace's cap is compared with what it has spent before this call.
ReserveShareLate(c) ==
  LET w == ask[c].ws
      d == ask[c].day
  IN
  /\ ask[c].phase = "own"
  /\ IF share[w][d] < TenantCap
     THEN /\ share' = [share EXCEPT ![w][d] = @ + ask[c].held]
          /\ ask' = [ask EXCEPT ![c].phase = "all"]
     ELSE Hang(c) /\ UNCHANGED share
  /\ UNCHANGED <<today, ledger, billed, bill, above, aboveOf, lapsed, repriced>>

ReserveShare(c) ==
  LET w == ask[c].ws
      d == ask[c].day
  IN
  /\ ask[c].phase = "own"
  /\ IF share[w][d] + ask[c].held <= TenantCap
     THEN /\ share' = [share EXCEPT ![w][d] = @ + ask[c].held]
          /\ ask' = [ask EXCEPT ![c].phase = "all"]
     ELSE Hang(c) /\ UNCHANGED share
  /\ UNCHANGED <<today, ledger, billed, bill, above, aboveOf, lapsed, repriced>>

ReserveAll(c) ==
  LET d == ask[c].day IN
  /\ ask[c].phase = "all"
  /\ IF ledger[d] + ask[c].held <= Cap
     THEN /\ ledger' = [ledger EXCEPT ![d] = @ + ask[c].held]
          /\ ask' = [ask EXCEPT ![c].phase = "ask"]
     ELSE /\ ask' = [ask EXCEPT ![c].phase = "return"]
          /\ UNCHANGED ledger
  /\ UNCHANGED <<today, share, billed, bill, above, aboveOf, lapsed, repriced>>

\* The workspace gets its reservation back when there is none for everyone.
ReturnShare(c) ==
  LET w == ask[c].ws
      d == ask[c].day
  IN
  /\ ask[c].phase = "return"
  /\ share' = [share EXCEPT ![w][d] = Floor(@ - ask[c].held)]
  /\ Hang(c)
  /\ UNCHANGED <<today, ledger, billed, bill, above, aboveOf, lapsed, repriced>>

----------------------------------------------------------------------------
(* Asking: the models in turn, each with its own retries *)

Reported(a, cost) ==
  [a EXCEPT !.phase = "settle", !.cost = a.cost + cost, !.back = a.cost + cost - a.held]
Repaired(a, cost) == [a EXCEPT !.left = a.left - 1, !.cost = a.cost + cost]
GivenBack(a) == [a EXCEPT !.phase = "settle", !.back = -a.held]

\* An answer that fits ends the call.  One that does not is asked for again, with
\* what failed, if an attempt is left; else the call fails, billed all the same.
\* Mutant: output that never fits counts as not billed.
AnswerFailuresFree(c) ==
  \E cost \in Costs, fits \in BOOLEAN :
    /\ ask[c].phase = "ask"
    /\ billed' = [billed EXCEPT ![ask[c].ws][ask[c].day] = @ + cost]
    /\ bill' = [bill EXCEPT ![ask[c].day] = @ + cost]
    /\ ask' = [ask EXCEPT ![c] =
         IF fits THEN Reported(@, cost)
         ELSE IF ask[c].left > 1 THEN Repaired(@, cost)
         ELSE GivenBack(@)]
    /\ UNCHANGED <<today, ledger, share, above, aboveOf, lapsed, repriced>>

Answer(c) ==
  \E cost \in Costs, fits \in BOOLEAN :
    /\ ask[c].phase = "ask"
    /\ billed' = [billed EXCEPT ![ask[c].ws][ask[c].day] = @ + cost]
    /\ bill' = [bill EXCEPT ![ask[c].day] = @ + cost]
    /\ ask' = [ask EXCEPT ![c] =
         IF fits THEN Reported(@, cost)
         ELSE IF ask[c].left > 1 THEN Repaired(@, cost)
         ELSE NoCall]
    /\ lapsed' = IF ~fits /\ ask[c].left = 1 /\ ask[c].cost + cost > ask[c].held
                 THEN lapsed \cup {Billing(c)} ELSE lapsed
    /\ UNCHANGED <<today, ledger, share, above, aboveOf, repriced>>

\* A rate limit that outlasts the retries, a 4xx, or no model left: wasNotBilled
\* gives the whole reservation back, whatever an earlier attempt has cost.
Refused(c) ==
  /\ ask[c].phase = "ask"
  /\ ask' = [ask EXCEPT ![c] = GivenBack(@)]
  /\ repriced' = IF ask[c].cost > 0 THEN repriced \cup {Billing(c)} ELSE repriced
  /\ UNCHANGED <<today, ledger, share, billed, bill, above, aboveOf, lapsed>>

\* Time runs out, a server error outlasts the retries, or the process dies: what
\* was used is unknown and the reservation stands.
CallLost(c) ==
  /\ ask[c].phase \in {"own", "all", "return", "ask"}
  /\ Hang(c)
  /\ lapsed' = IF ask[c].cost > ask[c].held THEN lapsed \cup {Billing(c)} ELSE lapsed
  /\ UNCHANGED <<today, ledger, share, billed, bill, above, aboveOf, repriced>>

----------------------------------------------------------------------------
(* Settling: on the day of the reservation, everyone's ledger first *)

Settle(c) ==
  LET d == ask[c].day IN
  /\ ask[c].phase = "settle"
  /\ ledger' = [ledger EXCEPT ![d] = Floor(@ + ask[c].back)]
  /\ above' = [above EXCEPT ![d] = @ + Floor(ask[c].back)]
  /\ ask' = [ask EXCEPT ![c].phase = "share"]
  /\ UNCHANGED <<today, share, billed, bill, aboveOf, lapsed, repriced>>

SettleShare(c) ==
  LET w == ask[c].ws
      d == ask[c].day
  IN
  /\ ask[c].phase = "share"
  /\ share' = [share EXCEPT ![w][d] = Floor(@ + ask[c].back)]
  /\ aboveOf' = [aboveOf EXCEPT ![w][d] = @ + Floor(ask[c].back)]
  /\ Hang(c)
  /\ UNCHANGED <<today, ledger, billed, bill, above, lapsed, repriced>>

\* "Ledger writes after the provider answered must never fail the call": one that
\* fails is logged, and the second one is not tried after the first has failed.
SettleLost(c) ==
  /\ ask[c].phase \in {"settle", "share"}
  /\ Hang(c)
  /\ lapsed' = IF ask[c].back > 0 THEN lapsed \cup {Billing(c)} ELSE lapsed
  /\ UNCHANGED <<today, ledger, share, billed, bill, above, aboveOf, repriced>>

BudgetNext ==
  \/ NextDay
  \/ \E c \in Callers :
       \/ \E w \in Tenants, attempts \in 1 .. 2 : BeginCall(c, w, attempts)
       \/ ReserveShare(c) \/ ReserveAll(c) \/ ReturnShare(c)
       \/ Answer(c) \/ Refused(c) \/ CallLost(c)
       \/ Settle(c) \/ SettleShare(c) \/ SettleLost(c)

BudgetSpec == BudgetInit /\ [][BudgetNext]_budgetVars

----------------------------------------------------------------------------
BudgetTypeOK ==
  /\ today \in Days
  /\ ledger \in [Days -> Nat]
  /\ share \in [Tenants -> [Days -> Nat]]
  /\ billed \in [Tenants -> [Days -> Nat]]
  /\ bill \in [Days -> Nat]
  /\ above \in [Days -> Nat]
  /\ aboveOf \in [Tenants -> [Days -> Nat]]
  /\ \A c \in Callers :
       /\ ask[c].phase \in {"idle", "own", "all", "return", "ask", "settle", "share"}
       /\ ask[c].phase # "idle" => ask[c].ws \in Tenants /\ ask[c].day \in Days
       /\ ask[c].held \in 0 .. 2 /\ ask[c].left \in 0 .. 2
       /\ ask[c].cost \in Nat /\ ask[c].back \in Int

\* "a call can overshoot by its own cost but concurrent calls cannot all slip
\* through on the same remaining budget" (provider.ts:284): a day's ledgers pass
\* their caps only by what calls cost above what they had reserved.
CapsHold ==
  \A d \in Days :
    /\ ledger[d] <= Cap + above[d]
    /\ \A w \in Tenants : share[w][d] <= TenantCap + aboveOf[w][d]

\* Calls that have a settlement to write, or will have one upwards at least.
Settling(d) ==
  {c \in Callers :
     /\ ask[c].day = d
     /\ ask[c].phase \in {"settle", "share"} \/ ask[c].cost > ask[c].held}

\* What the provider reported stays in the workspace's ledger and in everyone's,
\* through failed calls, midnight and lost processes: unless a settlement upwards
\* was lost, or a repair attempt was refused.
SpendStays ==
  \A d \in Days :
    Settling(d) = {} =>
      /\ \A w \in Tenants :
           <<w, d>> \notin lapsed \cup repriced => share[w][d] >= billed[w][d]
      /\ (\A w \in Tenants : <<w, d>> \notin lapsed \cup repriced) =>
           ledger[d] >= bill[d]

\* "True when a failed call cannot have been billed" (provider.ts:139): once the
\* calls of a day are over, nothing that was billed has been given back.
RefundsNothingBilled ==
  \A w \in Tenants, d \in Days :
    /\ <<w, d>> \notin lapsed
    /\ \A c \in Callers : ask[c].phase # "idle" => Billing(c) # <<w, d>>
    => share[w][d] >= billed[w][d]
=============================================================================
