----------------------------- MODULE ReviewQueue -----------------------------
(***************************************************************************)
(* The review page: the queue on the left, the insight open on the right,  *)
(* and the keys j and k that walk the queue.  The page keeps the selected  *)
(* insight and the position of the keyboard apart and chases each with the *)
(* other in two effects.  An effect runs after the render that changed     *)
(* what it reads, with that render's values; keys, clicks and answers come *)
(* when the page is at rest.  Requests are served when they are made and   *)
(* answered at any later time, in any order.                               *)
(***************************************************************************)
EXTENDS Naturals, Sequences, FiniteSets

CONSTANTS
  Order,       \* the insights, by priority
  Desks,       \* what may wait at the start: the row of each insight
  MaxFetches,  \* bound on the queue's loads in flight
  MaxActs      \* bound on the panels' requests in flight

ASSUME ReviewAssumption ==
  /\ Order \in Seq(STRING) /\ MaxFetches \in Nat \ {0} /\ MaxActs \in Nat
  /\ Desks \subseteq [{Order[n] : n \in DOMAIN Order} ->
                        [state : {"extracted", "triaged", "finalized", "rejected"}, proof : BOOLEAN]]

VARIABLES
  row,      \* the server's rows: state, and whether proof of completion is proposed
  flat,     \* the queue shown, its five buckets end to end
  failedLoad,   \* the queue is replaced by an error
  sel, idx, \* selectedId and the keyboard's position
  sawAt, sawIdx,  \* what the two effects saw last
  flush,    \* renders that have not brought the page to rest
  adrift,   \* history: the last queue came with the keyboard on a second card of the selected
            \* insight, and the page has been at rest since
  coming,   \* queues on their way
  panel,    \* the panel of the selected insight
  acts      \* requests of panels, live while their panel is

reviewVars == <<row, flat, failedLoad, sel, idx, sawAt, sawIdx, flush, adrift, coming, panel, acts>>

Reviewed == {Order[n] : n \in DOMAIN Order}
MaxFlush == 4

----------------------------------------------------------------------------
(* The queue *)

Bucket(ids) ==
  LET places == {n \in DOMAIN Order : Order[n] \in ids} IN
  [k \in 1 .. Cardinality(places) |->
     Order[CHOOSE n \in places : Cardinality({m \in places : m <= n}) = k]]
InState(rows, s) == {i \in Reviewed : rows[i].state = s}
QueueOf(rows) ==
  Bucket(InState(rows, "extracted")) \o Bucket(InState(rows, "triaged"))
  \o Bucket(InState(rows, "finalized")) \o Bucket({i \in Reviewed : rows[i].proof})
  \o Bucket(InState(rows, "shipped"))

SelPlace == LET hits == {n \in DOMAIN flat : flat[n] = sel}
      IN IF hits = {} THEN 0 ELSE CHOOSE n \in hits : \A m \in hits : n <= m
LastPlace == IF flat = <<>> THEN 1 ELSE Len(flat)
AtRest == SelPlace = sawAt /\ idx = sawIdx /\ idx <= LastPlace

Opened(i) == [up |-> IF i = "none" THEN "none" ELSE "loading", form |-> FALSE,
              shown |-> [state |-> "unknown", proof |-> FALSE],
              due |-> IF i = "none" THEN {} ELSE {row[i]}]

\* A panel is keyed by its insight: another selection unmounts it.
Select(i) ==
  /\ sel' = i
  /\ IF i = sel THEN UNCHANGED <<panel, acts>>
     ELSE panel' = Opened(i) /\ acts' = {[a EXCEPT !.live = FALSE] : a \in acts}

ReviewInit ==
  /\ row \in Desks
  /\ flat = <<>> /\ failedLoad = FALSE /\ sel = "none" /\ idx = 1 /\ sawAt = 0 /\ sawIdx = 1
  /\ flush = 0 /\ adrift = FALSE /\ coming = {[list |-> QueueOf(row), keep |-> FALSE]}
  /\ panel = Opened("none") /\ acts = {}

\* Both effects in the order of the hooks.  A selection that moved pulls the position
\* along, even over the clamp to a shorter queue; a position that moved selects.
\* Mutant: without looking whether their own source moved.
ChaseUnguarded ==
  /\ ~AtRest
  /\ idx' = IF SelPlace # 0 THEN SelPlace ELSE IF idx > LastPlace THEN LastPlace ELSE idx
  /\ IF idx \in DOMAIN flat THEN Select(flat[idx]) ELSE UNCHANGED <<sel, panel, acts>>
  /\ sawAt' = SelPlace /\ sawIdx' = idx /\ adrift' = FALSE
  /\ UNCHANGED <<row, flat, failedLoad, coming>>
  /\ flush' = IF AtRest' THEN 0 ELSE IF flush < MaxFlush THEN flush + 1 ELSE flush

Chase ==
  /\ ~AtRest
  /\ idx' = IF SelPlace # sawAt /\ SelPlace # 0 THEN SelPlace ELSE IF idx > LastPlace THEN LastPlace ELSE idx
  /\ IF idx # sawIdx /\ idx \in DOMAIN flat THEN Select(flat[idx]) ELSE UNCHANGED <<sel, panel, acts>>
  /\ sawAt' = SelPlace /\ sawIdx' = idx /\ adrift' = FALSE
  /\ UNCHANGED <<row, flat, failedLoad, coming>>
  /\ flush' = IF AtRest' THEN 0 ELSE IF flush < MaxFlush THEN flush + 1 ELSE flush

Settled == AtRest /\ UNCHANGED <<sawAt, sawIdx, flush>>
FromOutside == Settled /\ UNCHANGED adrift

ClickCard(i) ==
  /\ FromOutside /\ ~failedLoad /\ i \in {flat[n] : n \in DOMAIN flat}
  /\ Select(i)
  /\ UNCHANGED <<row, flat, failedLoad, idx, coming>>

\* j and k, and Enter, which selects where the keyboard is.
Walk ==
  /\ FromOutside /\ flat # <<>>
  /\ \/ /\ idx' \in {IF idx < Len(flat) THEN idx + 1 ELSE idx, IF idx > 1 THEN idx - 1 ELSE idx}
        /\ UNCHANGED <<sel, panel, acts>>
     \/ Select(flat[idx]) /\ UNCHANGED idx
  /\ UNCHANGED <<row, flat, failedLoad, coming>>

Ask(keep) ==
  /\ Cardinality(coming) < MaxFetches
  /\ coming' = coming \cup {[list |-> QueueOf(row), keep |-> keep]}
  /\ failedLoad' = FALSE

\* Refresh, or Try again on the error.
Refresh ==
  /\ FromOutside
  /\ Ask(~failedLoad)
  /\ UNCHANGED <<row, flat, sel, idx, panel, acts>>

QueueArrives(f) ==
  /\ Settled /\ adrift' = (SelPlace # 0 /\ idx # SelPlace)
  /\ coming' = coming \ {f} /\ flat' = f.list
  /\ IF ~f.keep /\ sel = "none" /\ f.list # <<>> THEN Select(f.list[1])
     ELSE UNCHANGED <<sel, panel, acts>>
  /\ UNCHANGED <<row, failedLoad, idx>>

QueueFails(f) ==
  /\ FromOutside
  /\ coming' = coming \ {f} /\ failedLoad' = TRUE
  /\ UNCHANGED <<row, flat, sel, idx, panel, acts>>

----------------------------------------------------------------------------
(* The panel *)

PanelStep == FromOutside /\ UNCHANGED <<flat, idx, sel>>

Detail(d) ==
  /\ PanelStep /\ d \in panel.due
  /\ panel' = [panel EXCEPT !.due = @ \ {d}, !.up = "shown", !.shown = d]
  /\ UNCHANGED <<row, failedLoad, coming, acts>>

DetailFails(d) ==
  /\ PanelStep /\ d \in panel.due
  /\ panel' = [panel EXCEPT !.due = @ \ {d}, !.up = "error"]
  /\ UNCHANGED <<row, failedLoad, coming, acts>>

ReloadPanel ==
  /\ PanelStep /\ panel.up = "error"
  /\ panel' = [panel EXCEPT !.due = @ \cup {row[sel]},
                             !.up = IF panel.shown.state = "unknown" THEN "loading" ELSE "shown"]
  /\ UNCHANGED <<row, failedLoad, coming, acts>>

Busy == \E a \in acts : a.live
Early == panel.shown.state \in {"unknown", "extracted", "triaged"}

\* Reject or the key r, which takes an insight still loading for extracted; Cancel.
ToggleForm ==
  /\ PanelStep /\ sel # "none"
  /\ \/ panel.form /\ panel.up = "shown"
     \/ ~panel.form /\ Early /\ ~Busy
  /\ panel' = [panel EXCEPT !.form = ~@]
  /\ UNCHANGED <<row, failedLoad, coming, acts>>

Offers(kind) ==
  /\ panel.up = "shown"
  /\ CASE kind = "triage" -> Early
       [] kind = "finalize" -> panel.shown.state = "triaged"
       [] kind = "reject" -> panel.form
       [] kind = "ticket" -> panel.shown.state = "finalized"
       [] kind = "confirm" -> panel.shown.proof
       [] kind = "email" -> panel.shown.state = "shipped"

\* Where a rejection goes on to is settled when it is pressed.
NextCard == IF SelPlace < Len(flat) THEN flat[SelPlace + 1] ELSE IF SelPlace > 1 THEN flat[SelPlace - 1] ELSE "none"

PressAction(kind) ==
  /\ PanelStep /\ ~Busy /\ Offers(kind)
  /\ Cardinality(acts) < MaxActs
  /\ acts' = acts \cup {[kind |-> kind, id |-> sel, at |-> "sent", next |-> NextCard, live |-> TRUE]}
  /\ UNCHANGED <<row, failedLoad, coming, panel>>

\* The reviewer is an admin, whom the map lets reject a finalized insight too.
Legal(kind, r) ==
  \/ kind \in {"triage", "reject"} /\ r.state \in {"extracted", "triaged"}
  \/ kind = "reject" /\ r.state = "finalized"
  \/ kind = "finalize" /\ r.state = "triaged"
  \/ kind = "ticket" /\ r.state = "finalized"
  \/ kind = "confirm" /\ r.proof
  \/ kind = "email" /\ r.state = "shipped"

Moved(kind, r) ==
  CASE kind = "triage" -> [r EXCEPT !.state = "triaged"]
    [] kind = "finalize" -> [r EXCEPT !.state = "finalized"]
    [] kind = "reject" -> [r EXCEPT !.state = "rejected"]
    [] kind = "confirm" -> [state |-> IF r.state = "finalized" THEN "shipped" ELSE r.state, proof |-> FALSE]
    [] OTHER -> r

ServeAct(a) ==
  /\ a \in acts /\ a.at = "sent"
  /\ row' = IF Legal(a.kind, row[a.id]) THEN [row EXCEPT ![a.id] = Moved(a.kind, @)] ELSE row
  /\ acts' = (acts \ {a}) \cup {[a EXCEPT !.at = IF Legal(a.kind, row[a.id]) THEN "ok" ELSE "no"]}
  /\ UNCHANGED <<flat, failedLoad, sel, idx, sawAt, sawIdx, flush, adrift, coming, panel>>

\* Done: the panel, if it is still there, loads again; the queue in any case.
PressAnswered(a) ==
  /\ PanelStep /\ a \in acts /\ a.at = "ok" /\ a.kind # "reject"
  /\ Ask(TRUE)
  /\ acts' = acts \ {a}
  /\ panel' = IF a.live THEN [panel EXCEPT !.due = @ \cup {row[sel]}] ELSE panel
  /\ UNCHANGED row

\* A rejection moves on, from wherever the reader is by now.
RejectionAnswered(a) ==
  /\ FromOutside /\ a \in acts /\ a.at = "ok" /\ a.kind = "reject"
  /\ Ask(TRUE)
  /\ sel' = a.next
  /\ panel' = IF a.next = sel THEN [panel EXCEPT !.form = @ /\ ~a.live] ELSE Opened(a.next)
  /\ acts' = {[b EXCEPT !.live = @ /\ a.next = sel] : b \in acts \ {a}}
  /\ UNCHANGED <<row, flat, idx>>

\* Refused, or the answer is lost, which may be after it was served.
Toasted(a) ==
  /\ PanelStep /\ a \in acts
  /\ acts' = acts \ {a}
  /\ UNCHANGED <<row, failedLoad, coming, panel>>

ReviewNext ==
  \/ Chase \/ Walk \/ Refresh
  \/ \E i \in Reviewed : ClickCard(i)
  \/ \E f \in coming : QueueArrives(f) \/ QueueFails(f)
  \/ \E d \in panel.due : Detail(d) \/ DetailFails(d)
  \/ ReloadPanel \/ ToggleForm
  \/ \E kind \in {"triage", "finalize", "reject", "ticket", "confirm", "email"} : PressAction(kind)
  \/ \E a \in acts : ServeAct(a) \/ PressAnswered(a) \/ RejectionAnswered(a) \/ Toasted(a)

ReviewSpec == ReviewInit /\ [][ReviewNext]_reviewVars

----------------------------------------------------------------------------
ReviewTypeOK ==
  /\ \A i \in Reviewed : row[i].state \in {"extracted", "triaged", "finalized", "shipped", "rejected"}
  /\ sel \in Reviewed \cup {"none"}
  /\ {idx, sawIdx} \subseteq {1} \cup 1 .. 2 * Len(Order)
  /\ flush \in 0 .. MaxFlush /\ adrift \in BOOLEAN
  /\ Cardinality(coming) <= MaxFetches /\ Cardinality(acts) <= MaxActs
  /\ panel.up \in {"none", "loading", "shown", "error"} /\ (panel.up = "none" <=> sel = "none")

\* Whatever is clicked, typed or answered, the page comes to rest in a few renders
\* with the keyboard at the selected insight.  The comment at Review.tsx:170 tells of
\* the two effects chasing each other for ever; queues of another length, an insight
\* in two buckets and a selection that left the queue are the cases to get right.  One
\* is left: the keyboard on the second card of the selected insight, and a new queue
\* that puts another card there while the first stays where it was.  Neither effect
\* has seen its own source move, and the keyboard stays off the selection until
\* something moves.
SelectionSettles ==
  /\ flush < MaxFlush
  /\ AtRest /\ SelPlace # 0 => flat[idx] = sel \/ adrift
=============================================================================
