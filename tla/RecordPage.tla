------------------------------ MODULE RecordPage ------------------------------
(***************************************************************************)
(* The full record of an insight (InsightDetail): one component that stays *)
(* mounted while the address moves from one insight to the next.  What is  *)
(* shown is whatever was fetched last; what is done goes to the address.   *)
(* Editing the wording against other editors is the module Wording.  A     *)
(* ticket, a proof and a draft are each the latest of their kind.          *)
(***************************************************************************)
EXTENDS Naturals, FiniteSets

Map == INSTANCE Transitions

CONSTANTS
  Outings,    \* one behaviour each: the rows at the start, and what the reader does
  MaxSteps,   \* bound on the insights opened and the requests made
  MaxGets,    \* bound on the fetches in flight
  MaxDeeds    \* bound on the requests in flight

Records == {"A", "B"}
RowSet == [state : Map!States, ticket : {"none", "draft", "raised"},
           proof : {"none", "proposed", "confirmed", "rejected"},
           mail : {"none", "draft", "copied", "sent"}]

ASSUME RecordAssumption ==
  /\ \A o \in Outings : o.rows \in [Records -> RowSet]
  /\ MaxSteps \in Nat /\ MaxGets \in Nat /\ MaxDeeds \in Nat

VARIABLES
  outing,  \* the behaviour's rows and deeds
  stored,  \* the server's rows
  here,    \* the insight in the address, or "list"
  spent,   \* insights opened and requests made so far
  page,    \* loading, failed, and the data: whose, and which row
  body,    \* the mounted record: whose text it holds, unsaved or not, and its open modal
  gets,    \* fetches answered but still on their way
  deeds,   \* requests on their way, and what of the page still waits for them
  stray,   \* history: has an answer for an insight left behind been taken in
  astray   \* history: requests sent to another insight than the one being looked at

recordVars == <<outing, stored, here, spent, page, body, gets, deeds, stray, astray>>

NoPage == [loading |-> FALSE, failed |-> FALSE, of |-> "none", row |-> "none"]
NoBody == [of |-> "none", dirty |-> FALSE, modal |-> "none"]

RecordInit ==
  /\ outing \in Outings
  /\ stored = outing.rows
  /\ here = "list" /\ spent = 0 /\ page = NoPage /\ body = NoBody
  /\ gets = {} /\ deeds = {} /\ stray = FALSE /\ astray = {}

Up == here # "list" /\ ~page.loading /\ ~page.failed /\ page.of # "none"
Fetch(i, then) == [id |-> i, then |-> then, row |-> stored[i]]

----------------------------------------------------------------------------
(* Going places *)

\* What still waits for the requests under way: nothing of a body that unmounted.
Unmounted(what) == {[d EXCEPT !.waits = IF @ = "body" THEN what ELSE @] : d \in deeds}

\* Mutant: the record stays up while the next one loads.
OpenStill(i) ==
  /\ here # i /\ spent < MaxSteps /\ Cardinality(gets) < MaxGets
  /\ here' = i /\ spent' = spent + 1
  /\ page' = [page EXCEPT !.failed = FALSE, !.loading = here = "list"]
  /\ gets' = gets \cup {Fetch(i, "load")}
  /\ UNCHANGED <<outing, stored, body, deeds, stray, astray>>

\* From the list the page mounts; from another record it only loads again.
Open(i) ==
  /\ here # i /\ spent < MaxSteps /\ Cardinality(gets) < MaxGets
  /\ here' = i /\ spent' = spent + 1
  /\ page' = [page EXCEPT !.loading = TRUE, !.failed = FALSE]
  /\ body' = NoBody
  /\ deeds' = Unmounted("page")
  /\ gets' = gets \cup {Fetch(i, "load")}
  /\ UNCHANGED <<outing, stored, stray, astray>>

Gone == /\ here' = "list" /\ page' = NoPage /\ body' = NoBody
        /\ deeds' = {[d EXCEPT !.waits = "nothing"] : d \in deeds}

BackToLibrary ==
  /\ here # "list"
  /\ Gone
  /\ gets' = {g \in gets : g.then = "leave"}
  /\ UNCHANGED <<outing, stored, spent, stray, astray>>

LoadRecordAgain ==
  /\ here # "list" /\ page.failed /\ ~page.loading /\ Cardinality(gets) < MaxGets
  /\ page' = [page EXCEPT !.loading = TRUE, !.failed = FALSE]
  /\ gets' = gets \cup {Fetch(here, "load")}
  /\ UNCHANGED <<outing, stored, here, spent, body, deeds, stray, astray>>

\* The answer of a load or a refresh, of whichever insight it was asked.  The text
\* follows unless it is being edited.
FetchArrives(g) ==
  /\ g \in gets /\ g.then # "leave" /\ here # "list"
  /\ gets' = gets \ {g}
  /\ page' = [page EXCEPT !.of = g.id, !.row = g.row, !.loading = @ /\ g.then # "load"]
  /\ body' = IF ~page.failed /\ (g.then = "load" \/ ~page.loading) /\ ~body.dirty
             THEN [body EXCEPT !.of = g.id] ELSE body
  /\ stray' = (stray \/ g.id # here)
  /\ UNCHANGED <<outing, stored, here, spent, deeds, astray>>

FetchFails(g) ==
  /\ g \in gets /\ g.then # "leave"
  /\ gets' = gets \ {g}
  /\ page' = IF g.then = "load" THEN [page EXCEPT !.failed = TRUE, !.loading = FALSE] ELSE page
  /\ body' = IF g.then = "load" THEN NoBody ELSE body
  /\ deeds' = IF g.then = "load" THEN Unmounted("page") ELSE deeds
  /\ UNCHANGED <<outing, stored, here, spent, stray, astray>>

\* A merged record is left for the library, refreshed or not, whatever is open by then.
MergeLeaves(g) ==
  /\ g \in gets /\ g.then = "leave"
  /\ Gone
  /\ gets' = {f \in gets \ {g} : f.then = "leave"}
  /\ UNCHANGED <<outing, stored, spent, stray, astray>>

----------------------------------------------------------------------------
(* The record *)

State == page.row.state
Ended(s) == s \in {"rejected", "merged", "closed"}
Final(s) == s \in {"finalized", "ticketed", "shipped", "client_notified"}

TypeText(dirty) ==
  /\ Up /\ ~Ended(State) /\ ~Final(State) /\ "save" \in outing.deeds
  /\ body' = [body EXCEPT !.dirty = dirty, !.of = IF dirty THEN @ ELSE page.of]
  /\ UNCHANGED <<outing, stored, here, spent, page, gets, deeds, stray, astray>>

\* Reject, Merge and Close open a modal; Cancel closes it.
Modal(kind) ==
  /\ Up /\ kind \in outing.deeds
  /\ \/ kind \in {"reject", "merge"} /\ ~Ended(State)
     \/ kind = "close" /\ Final(State)
  /\ body' = [body EXCEPT !.modal = IF @ = "none" THEN kind ELSE "none"]
  /\ UNCHANGED <<outing, stored, here, spent, page, gets, deeds, stray, astray>>

TicketOffers(kind) == kind = "raise" => page.row.ticket = "draft"
ProofOffers(kind) == kind \in {"confirm", "refuse"} => page.row.proof = "proposed"
MailOffers(kind) == kind \in {"copied", "sent"} => page.row.mail # "none"

OfferedActions(kind) ==
  CASE kind = "save" -> body.dirty /\ ~Ended(State) /\ ~Final(State)
    [] kind = "triage" -> ~Ended(State)
    [] kind = "finalize" -> State = "triaged" /\ ~body.dirty
    [] kind \in {"reject", "merge", "close"} -> body.modal = kind
    [] OTHER -> TicketOffers(kind) /\ ProofOffers(kind) /\ MailOffers(kind)

\* A ticket, a proof and a draft have ids of their own; the rest goes to the address.
OfAnItem == {"raise", "confirm", "refuse", "copied", "sent"}
Target(kind) == IF kind \in OfAnItem THEN page.of ELSE here
LookedAt(kind) == IF kind = "save" THEN body.of ELSE page.of

Do(kind) ==
  /\ Up /\ kind \in outing.deeds /\ OfferedActions(kind)
  /\ spent < MaxSteps /\ Cardinality(deeds) < MaxDeeds
  /\ \A d \in deeds : d.kind # kind
  /\ spent' = spent + 1
  /\ deeds' = deeds \cup {[kind |-> kind, to |-> Target(kind), from |-> here,
                           at |-> "sent", waits |-> "body"]}
  /\ astray' = IF Target(kind) # LookedAt(kind) THEN astray \cup {kind} ELSE astray
  /\ UNCHANGED <<outing, stored, here, page, body, gets, stray>>

----------------------------------------------------------------------------
(* The server *)

GoesTo == [finalize |-> "finalized", reject |-> "rejected", merge |-> "merged",
           close |-> "closed"]

Allowed(kind, r) ==
  CASE kind \in DOMAIN GoesTo -> Map!canTransition(r.state, GoesTo[kind])
    [] kind \in {"draft", "propose"} -> r.state \in {"finalized", "ticketed"}
    [] kind = "raise" -> r.ticket = "draft"
    [] kind \in {"confirm", "refuse"} -> r.proof = "proposed"
    [] kind = "write" -> r.state \in {"shipped", "client_notified"}
    [] kind \in {"copied", "sent"} -> r.mail # "none"
    [] OTHER -> TRUE

RecordStep(r, from, to) == IF r.state \in from THEN [r EXCEPT !.state = to] ELSE r

Result(kind, r) ==
  CASE kind \in DOMAIN GoesTo -> [r EXCEPT !.state = GoesTo[kind]]
    [] kind = "triage" -> RecordStep(r, {"extracted"}, "triaged")
    [] kind = "draft" -> [r EXCEPT !.ticket = "draft"]
    [] kind = "raise" -> RecordStep([r EXCEPT !.ticket = "raised"], {"finalized"}, "ticketed")
    [] kind = "propose" -> [r EXCEPT !.proof = "proposed"]
    [] kind = "confirm" -> RecordStep([r EXCEPT !.proof = "confirmed"], {"finalized", "ticketed"}, "shipped")
    [] kind = "refuse" -> [r EXCEPT !.proof = "rejected"]
    [] kind = "write" -> [r EXCEPT !.mail = "draft"]
    [] kind = "copied" -> RecordStep([r EXCEPT !.mail = "copied"], {"shipped"}, "client_notified")
    [] kind = "sent" -> [r EXCEPT !.mail = "sent"]
    [] OTHER -> r

Serves(d) ==
  /\ d \in deeds /\ d.at = "sent"
  /\ stored' = IF Allowed(d.kind, stored[d.to]) THEN [stored EXCEPT ![d.to] = Result(d.kind, @)]
               ELSE stored
  /\ deeds' = (deeds \ {d}) \cup {[d EXCEPT !.at = IF Allowed(d.kind, stored[d.to]) THEN "ok" ELSE "no"]}
  /\ UNCHANGED <<outing, here, spent, page, body, gets, stray, astray>>

\* Done: the modal and the unsaved mark go with the body that asked; the page fetches
\* the insight it was asked on.
Succeeds(d) ==
  /\ d \in deeds /\ d.at = "ok"
  /\ Cardinality(gets) < MaxGets
  /\ deeds' = deeds \ {d}
  /\ body' = IF d.waits # "body" THEN body
             ELSE [body EXCEPT !.modal = IF @ = d.kind THEN "none" ELSE @,
                               !.dirty = @ /\ d.kind # "save"]
  /\ gets' = IF d.kind = "merge" THEN gets \cup {Fetch(d.from, "leave")}
             ELSE IF d.waits = "nothing" THEN gets ELSE gets \cup {Fetch(d.from, "refresh")}
  /\ UNCHANGED <<outing, stored, here, spent, page, stray, astray>>

\* Refused, or no answer: a toast.
Fails(d) ==
  /\ d \in deeds
  /\ deeds' = deeds \ {d}
  /\ UNCHANGED <<outing, stored, here, spent, page, body, gets, stray, astray>>

RecordNext ==
  \/ BackToLibrary \/ LoadRecordAgain
  \/ \E i \in Records : Open(i)
  \/ \E g \in gets : FetchArrives(g) \/ FetchFails(g) \/ MergeLeaves(g)
  \/ \E dirty \in BOOLEAN : TypeText(dirty)
  \/ \E kind \in outing.deeds : Modal(kind) \/ Do(kind)
  \/ \E d \in deeds : Serves(d) \/ Succeeds(d) \/ Fails(d)

RecordSpec == RecordInit /\ [][RecordNext]_recordVars

----------------------------------------------------------------------------
RecordTypeOK ==
  /\ stored \in [Records -> RowSet]
  /\ here \in Records \cup {"list"} /\ spent \in 0 .. MaxSteps
  /\ page.of \in Records => page.row \in RowSet
  /\ body.of \in Records \cup {"none"} /\ Cardinality(gets) <= MaxGets
  /\ here = "list" => page = NoPage /\ body = NoBody

\* What is pressed or saved on a record goes to the insight that is shown there,
\* unless the page has taken in the answer of an insight left behind, which nothing
\* in load or refresh tells apart (InsightDetail.tsx:120, :154): loads, failures,
\* retries, refreshes after an action and going back and forth do not mix two up.
AddressedAsShown == astray # {} => stray
=============================================================================
