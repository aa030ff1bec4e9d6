------------------------- MODULE InsightLifecycle -------------------------
(***************************************************************************)
(* The life of an insight, from extraction to closing, as concurrent HTTP  *)
(* requests drive it.                                                      *)
(*                                                                         *)
(* A request is a process.  Its handler reads rows first, often outside    *)
(* any transaction, decides on what it read, and writes later, in one      *)
(* READ COMMITTED transaction: a plain SELECT takes no lock, and an UPDATE *)
(* holds its row until the commit.  transitionInsight itself reads the     *)
(* insight, checks the transition map, INSERTs the event (which draws the  *)
(* event's id) and UPDATEs the state without comparing it to what it read. *)
(* Each of those steps is an action here, so that requests interleave the  *)
(* way the database lets them.                                             *)
(*                                                                         *)
(* A transaction's writes become visible at its Commit action.  The rows a *)
(* transaction has already updated are the ones it Holds.                  *)
(***************************************************************************)
EXTENDS Naturals, Sequences, FiniteSets, Transitions

CONSTANTS
  Insights,     \* rows of insights
  Members,      \* users with role member
  Admins,       \* users with role admin
  Tickets,      \* rows tickets may come to hold
  Proposals,    \* rows completion_evidence and release_matches may come to hold
  Matches,      \* the proposals that are release_matches
  Tracks,       \* tracks an insight may be routed to
  TicketTracks, \* engineering and product_polish, the tracks that get tickets
  Requests,     \* requests that can be in flight at once
  Ops,          \* the operations clients call in this instance
  Crashes,      \* whether requests may die half-way in this instance
  MaxEvents,    \* bound on state_changed events drawn
  MaxVersion,   \* bound on body versions
  MaxIssues,    \* bound on GitHub issues filed for one ticket
  None

ASSUME MatchesAssumption == Matches \subseteq Proposals
ASSUME BoundsAssumption ==
  /\ MaxEvents \in Nat
  /\ MaxVersion \in Nat
  /\ MaxIssues \in Nat
ASSUME NoneAssumption == None \notin Insights \cup Members \cup Admins

VARIABLES
  insight,      \* insights: state, assignee, track, body, merge pointer
  ticket,       \* tickets, with the GitHub issues filed for each
  proposal,     \* completion_evidence / release_matches, with their events
  draft,        \* per insight: email drafts generated and copied
  log,          \* events of type insight.state_changed, by id
  req           \* the requests in flight

vars == <<insight, ticket, proposal, draft, log, req>>

Users == Members \cup Admins

----------------------------------------------------------------------------
(* Rows *)

\* body: is body_current empty after trim; edits[k] is the version that the
\* author of the k-th saved edit had loaded, so that version = 1 + Len(edits).
NewInsight ==
  [state |-> "extracted", assignee |-> None, track |-> "unset", body |-> "text",
   edits |-> <<>>, mergedInto |-> None, finalizedBy |-> None]

version(i) == 1 + Len(insight[i].edits)

NoTicket   == [insight |-> None, state |-> "absent", issues |-> 0, events |-> {}]
NoProposal == [insight |-> None, status |-> "absent", rows |-> 0, events |-> {}]

\* A request between two calls of a client.  saw is the insight state its
\* handler read before transitionInsight, from the state transitionInsight read.
Idle ==
  [op |-> "none", phase |-> "idle", insight |-> None, actor |-> None,
   row |-> None, rows |-> {}, arg |-> None, track |-> "unset", saw |-> "unset",
   from |-> "unset", base |-> 0, ev |-> 0]

Init ==
  /\ insight  = [i \in Insights |-> NewInsight]
  /\ ticket   = [t \in Tickets |-> NoTicket]
  /\ proposal = [p \in Proposals |-> NoProposal]
  /\ draft    = [i \in Insights |-> "none"]
  /\ log      = <<>>
  /\ req      = [r \in Requests |-> Idle]

----------------------------------------------------------------------------
(* What a request is doing *)

\* Operations whose transaction starts by updating a row of its own.
LocksRowFirst == {"triage", "markRaised", "createDirect", "confirm"}
RaiseOps      == {"markRaised", "createDirect"}

\* The state the operation asks transitionInsight for.
To(op) ==
  CASE op = "triage"    -> "triaged"
    [] op = "finalize"  -> "finalized"
    [] op = "reject"    -> "rejected"
    [] op = "merge"     -> "merged"
    [] op = "close"     -> "closed"
    [] op \in RaiseOps  -> "ticketed"
    [] op = "confirm"   -> "shipped"
    [] op = "copy"      -> "client_notified"
    [] OTHER            -> "unset"

\* Does the handler, given what it saw, call transitionInsight?
CallsTransition(q) ==
  \/ q.op \in {"finalize", "reject", "merge", "close"}
  \/ q.op = "triage"   /\ q.saw = "extracted"
  \/ q.op \in RaiseOps /\ q.saw = "finalized"
  \/ q.op = "confirm"  /\ q.saw \notin PastShipped
  \/ q.op = "copy"     /\ q.saw = "shipped"

\* Rows r's transaction has updated and not yet committed.
Holds(r, x) ==
  \/ /\ req[r].op \in LocksRowFirst
     /\ req[r].phase \in {"writing", "checked", "appended"}
     /\ x = req[r].row
  \/ /\ req[r].phase = "moved"
     /\ x = req[r].insight

Free(r, x) == \A s \in Requests \ {r} : ~Holds(s, x)

InFlight == {r \in Requests : req[r].phase # "idle"}

\* Bound: every request in flight can still draw its event.
Room == Len(log) + Cardinality(InFlight) < MaxEvents

----------------------------------------------------------------------------
(* A request arrives, and its handler reads what it reads before the       *)
(* transaction.  A request refused on that reading changes nothing and is  *)
(* not an action.                                                          *)

Begin(r, q) ==
  /\ req[r].phase = "idle"
  /\ q.op \in Ops
  /\ Room
  /\ req' = [req EXCEPT ![r] = q]
  /\ UNCHANGED <<insight, ticket, proposal, draft, log>>

Call(op, i, u) ==
  [Idle EXCEPT !.op = op, !.phase = "begun", !.insight = i, !.actor = u]

\* The handler remembers the state it read.
Reading(op, i, u) == [Call(op, i, u) EXCEPT !.saw = insight[i].state]

\* assignee_user_id is optional: None keeps the current assignee.
BeginTriage(r, i, u) ==
  \E a \in Users \cup {None}, track \in Tracks :
    Begin(r, [Reading("triage", i, u) EXCEPT !.row = i, !.arg = a, !.track = track])

\* The client loads the insight into the editor; it saves later.
BeginEdit(r, i, u) ==
  \E body \in {"text", "empty"} :
    /\ version(i) < MaxVersion
    /\ Begin(r, [Call("edit", i, u) EXCEPT !.arg = body, !.base = version(i)])

BeginFinalize(r, i, u) ==
  /\ insight[i].body # "empty"
  /\ Begin(r, Call("finalize", i, u))

BeginReject(r, i, u) == Begin(r, Call("reject", i, u))

\* Mutant: a terminal target is accepted.
BeginMergeAnywhere(r, i, u) ==
  \E into \in Insights \ {i} : Begin(r, [Call("merge", i, u) EXCEPT !.arg = into])

BeginMerge(r, i, u) ==
  \E into \in Insights \ {i} :
    /\ insight[into].state \notin Terminal
    /\ Begin(r, [Call("merge", i, u) EXCEPT !.arg = into])

BeginClose(r, i, u) ==
  \E reason \in {"reason", "none"} :
    /\ insight[i].state = "shipped" => reason = "reason"
    /\ Begin(r, [Call("close", i, u) EXCEPT !.arg = reason])

\* Both raise paths refuse a ticket they read as raised; a stale one may be raised.
BeginRaise(r, op, t, u) ==
  /\ ticket[t].state \in {"draft", "stale"}
  /\ op = "createDirect" => ticket[t].issues < MaxIssues
  /\ Begin(r, [Call(op, ticket[t].insight, u) EXCEPT !.row = t])

BeginConfirm(r, p, u) ==
  /\ proposal[p].status = "proposed"
  /\ u \in Admins \/ insight[proposal[p].insight].assignee = u
  /\ Begin(r, [Reading("confirm", proposal[p].insight, u) EXCEPT !.row = p])

\* rejectEvidence refuses only a confirmed row; rejectMatch returns a rejected one as it is.
BeginRejectProposal(r, p, u) ==
  /\ proposal[p].status \in IF p \in Matches THEN {"proposed"}
                                            ELSE {"proposed", "rejected"}
  /\ Begin(r, [Call("rejectProposal", proposal[p].insight, u) EXCEPT !.row = p])

BeginCopy(r, i, u) ==
  /\ draft[i] # "none"
  /\ Begin(r, Reading("copy", i, u))

\* The daily job selects the drafts older than a week, whichever those are.
BeginMarkStale(r) ==
  \E old \in (SUBSET {t \in Tickets : ticket[t].state = "draft"}) \ {{}} :
    Begin(r, [Idle EXCEPT !.op = "markStale", !.phase = "begun", !.rows = old])

----------------------------------------------------------------------------
(* Rows are proposed.  The gate reads the insight; the row it inserts is   *)
(* read by nobody before the insert, so both are one step.                 *)

DraftTicket(t, i) ==
  /\ "markRaised" \in Ops \/ "createDirect" \in Ops
  /\ ticket[t].state = "absent"
  /\ insight[i].state \in {"finalized", "ticketed"}
  /\ insight[i].track \in TicketTracks
  /\ ticket' = [ticket EXCEPT ![t].insight = i, ![t].state = "draft"]
  /\ UNCHANGED <<insight, proposal, draft, log, req>>

Propose(p, i) ==
  /\ "confirm" \in Ops
  /\ proposal[p].status = "absent"
  /\ insight[i].state \in {"finalized", "ticketed"}
  /\ p \in Matches => insight[i].track \in TicketTracks
  /\ proposal' = [proposal EXCEPT ![p].insight = i, ![p].status = "proposed"]
  /\ UNCHANGED <<insight, ticket, draft, log, req>>

DraftEmails(i) ==
  /\ "copy" \in Ops
  /\ draft[i] = "none"
  /\ insight[i].state \in {"shipped", "client_notified"}
  /\ draft' = [draft EXCEPT ![i] = "drafted"]
  /\ UNCHANGED <<insight, ticket, proposal, log, req>>

----------------------------------------------------------------------------
(* Inside the handler                                                      *)

Phase(r, p) == req' = [req EXCEPT ![r].phase = p]

\* createDirect reads the insight's state and assignee, then creates the
\* GitHub issue: a side effect no rollback undoes.
FileIssue(r) ==
  LET q == req[r] IN
  /\ q.op = "createDirect" /\ q.phase = "begun"
  /\ insight[q.insight].state = "finalized" =>
       \E rule \in TRANSITIONS :
         /\ rule.from = "finalized" /\ rule.to = "ticketed"
         /\ isActorAllowed(rule, q.actor \in Admins, insight[q.insight].assignee = q.actor)
  /\ ticket[q.row].issues < MaxIssues
  /\ ticket' = [ticket EXCEPT ![q.row].issues = @ + 1]
  /\ Phase(r, "filed")
  /\ UNCHANGED <<insight, proposal, draft, log>>

\* The actor may not take the edge (403), or GitHub refuses.
GiveUpIssue(r) ==
  /\ req[r].op = "createDirect" /\ req[r].phase = "begun"
  /\ req' = [req EXCEPT ![r] = Idle]
  /\ UNCHANGED <<insight, ticket, proposal, draft, log>>

\* The transaction opens with an UPDATE of the operation's own row, which waits
\* for the row's lock.  persistRaise then reads the insight's state.
EnterTx(r) ==
  LET q == req[r] IN
  /\ q.op \in LocksRowFirst
  /\ q.phase = IF q.op = "createDirect" THEN "filed" ELSE "begun"
  /\ Free(r, q.row)
  /\ req' = [req EXCEPT ![r].phase = "writing",
                        ![r].saw = IF q.op \in RaiseOps THEN insight[q.insight].state ELSE @]
  /\ UNCHANGED <<insight, ticket, proposal, draft, log>>

AtCheck(r) ==
  /\ CallsTransition(req[r])
  /\ req[r].phase = IF req[r].op \in LocksRowFirst THEN "writing" ELSE "begun"

\* Mutant: the role is checked, the transition map is not.
PermittedOffMap(q) ==
  LET row == insight[q.insight] IN
  /\ q.actor \in Admins \/ row.assignee = q.actor
  /\ q.op = "close" /\ RequiresReason(row.state, "closed") => q.arg = "reason"

Permitted(q) ==
  LET row == insight[q.insight] IN
  /\ \E rule \in TRANSITIONS :
       /\ rule.from = row.state /\ rule.to = To(q.op)
       /\ isActorAllowed(rule, q.actor \in Admins, row.assignee = q.actor)
  /\ q.op = "close" /\ RequiresReason(row.state, "closed") => q.arg = "reason"

\* Mutant: the state is updated on its own, before the event is appended.
CheckUpdatesState(r) ==
  /\ AtCheck(r)
  /\ Permitted(req[r])
  /\ insight' = [insight EXCEPT ![req[r].insight].state = To(req[r].op)]
  /\ req' = [req EXCEPT ![r].phase = "checked", ![r].from = insight[req[r].insight].state]
  /\ UNCHANGED <<ticket, proposal, draft, log>>

\* transitionInsight reads the insight and consults the map ...
Check(r) ==
  /\ AtCheck(r)
  /\ Permitted(req[r])
  /\ req' = [req EXCEPT ![r].phase = "checked", ![r].from = insight[req[r].insight].state]
  /\ UNCHANGED <<insight, ticket, proposal, draft, log>>

\* Mutant: confirmEvidence swallows the TransitionError and keeps its row.
RefuseKeepsRow(r) ==
  /\ AtCheck(r)
  /\ ~Permitted(req[r])
  /\ req' = [req EXCEPT ![r] = Idle]
  /\ proposal' = IF req[r].op = "confirm"
                 THEN [proposal EXCEPT ![req[r].row].status = "confirmed",
                                       ![req[r].row].events = @ \cup {"confirmed"}]
                 ELSE proposal
  /\ UNCHANGED <<insight, ticket, draft, log>>

\* ... or throws TransitionError, which rolls the transaction back ...
Refuse(r) ==
  /\ AtCheck(r)
  /\ ~Permitted(req[r])
  /\ req' = [req EXCEPT ![r] = Idle]
  /\ UNCHANGED <<insight, ticket, proposal, draft, log>>

\* Mutant: the event is taken for a duplicate and not inserted.
AppendEventSkipped(r) ==
  /\ req[r].phase = "checked"
  /\ req' = [req EXCEPT ![r].phase = "appended"]
  /\ UNCHANGED <<insight, ticket, proposal, draft, log>>

\* ... and appends the event, from the state it read.
AppendEvent(r) ==
  LET q == req[r] IN
  /\ q.phase = "checked"
  /\ log' = Append(log, [insight |-> q.insight, from |-> q.from, to |-> To(q.op),
                         status |-> "pending"])
  /\ req' = [req EXCEPT ![r].phase = "appended", ![r].ev = Len(log) + 1]
  /\ UNCHANGED <<insight, ticket, proposal, draft>>

\* A merge updates its source row before its target row.
MoveSource(r) ==
  /\ req[r].op = "merge" /\ req[r].phase = "appended"
  /\ Free(r, req[r].insight)
  /\ Phase(r, "moved")
  /\ UNCHANGED <<insight, ticket, proposal, draft, log>>

----------------------------------------------------------------------------
(* The end of a transaction: COMMIT or ROLLBACK                            *)

\* A rolled back event leaves a gap in the ids.
Gap == [insight |-> None, from |-> "unset", to |-> "unset", status |-> "aborted"]

HasEvent(r) == req[r].ev \in DOMAIN log

Finish(r) ==
  /\ log' = IF HasEvent(r) THEN [log EXCEPT ![req[r].ev].status = "committed"] ELSE log
  /\ req' = [req EXCEPT ![r] = Idle]

Rollback(r) ==
  /\ log' = IF HasEvent(r) THEN [log EXCEPT ![req[r].ev] = Gap] ELSE log
  /\ req' = [req EXCEPT ![r] = Idle]
  /\ UNCHANGED <<insight, ticket, proposal, draft>>

\* The unconditional UPDATE of the cached state, once the row is free.
SetState(r) ==
  /\ Free(r, req[r].insight)
  /\ insight' = [insight EXCEPT ![req[r].insight].state = To(req[r].op)]

\* The transaction of an operation that may transition: it commits with the
\* transition, or without one when the handler decided against it.
MaySetState(r) ==
  \/ /\ CallsTransition(req[r]) /\ req[r].phase = "appended"
     /\ SetState(r)
  \/ /\ ~CallsTransition(req[r])
     /\ req[r].phase = IF req[r].op \in LocksRowFirst THEN "writing" ELSE "begun"
     /\ UNCHANGED insight

\* Triage of an insight read as extracted transitions; of any other, it only routes.
CommitTriage(r) ==
  LET q == req[r] IN
  /\ q.op = "triage"
  /\ q.phase = IF CallsTransition(q) THEN "appended" ELSE "writing"
  /\ insight' = [insight EXCEPT
       ![q.insight].track = q.track,
       ![q.insight].assignee = IF q.arg = None THEN @ ELSE q.arg,
       ![q.insight].state = IF CallsTransition(q) THEN "triaged" ELSE @]
  /\ Finish(r)
  /\ UNCHANGED <<ticket, proposal, draft>>

\* Mutant: the UPDATE does not compare versions.
CommitEditAnyVersion(r) ==
  LET q == req[r] IN
  /\ q.op = "edit"
  /\ Free(r, q.insight)
  /\ insight' = [insight EXCEPT ![q.insight].body = q.arg,
                                ![q.insight].edits = Append(@, q.base)]
  /\ Finish(r)
  /\ UNCHANGED <<ticket, proposal, draft>>

\* UPDATE ... WHERE id = ? AND version = ?
CommitEdit(r) ==
  LET q == req[r] IN
  /\ q.op = "edit"
  /\ Free(r, q.insight)
  /\ q.base = version(q.insight)
  /\ insight' = [insight EXCEPT ![q.insight].body = q.arg,
                                ![q.insight].edits = Append(@, q.base)]
  /\ Finish(r)
  /\ UNCHANGED <<ticket, proposal, draft>>

\* Mutant: a version conflict is retried with the version that conflicted.
EditConflictRetries(r) ==
  /\ req[r].op = "edit"
  /\ req[r].base # version(req[r].insight)
  /\ UNCHANGED vars

EditConflict(r) ==
  /\ req[r].op = "edit"
  /\ Free(r, req[r].insight)
  /\ req[r].base # version(req[r].insight)
  /\ Rollback(r)

CommitFinalize(r) ==
  LET q == req[r] IN
  /\ q.op = "finalize" /\ q.phase = "appended"
  /\ Free(r, q.insight)
  /\ insight' = [insight EXCEPT ![q.insight].state = "finalized",
                                ![q.insight].finalizedBy = q.actor]
  /\ Finish(r)
  /\ UNCHANGED <<ticket, proposal, draft>>

CommitReject(r) ==
  /\ req[r].op = "reject" /\ req[r].phase = "appended"
  /\ SetState(r)
  /\ Finish(r)
  /\ UNCHANGED <<ticket, proposal, draft>>

\* Mutant: the second UPDATE of the source row, the merge pointer, is forgotten.
CommitMergeNoPointer(r) ==
  LET q == req[r] IN
  /\ q.op = "merge" /\ q.phase = "moved"
  /\ Free(r, q.arg)
  /\ insight' = [insight EXCEPT ![q.insight].state = "merged"]
  /\ Finish(r)
  /\ UNCHANGED <<ticket, proposal, draft>>

\* The target's UPDATE (its priority) needs the target's lock too.
CommitMerge(r) ==
  LET q == req[r] IN
  /\ q.op = "merge" /\ q.phase = "moved"
  /\ Free(r, q.arg)
  /\ insight' = [insight EXCEPT ![q.insight].state = "merged",
                                ![q.insight].mergedInto = q.arg]
  /\ Finish(r)
  /\ UNCHANGED <<ticket, proposal, draft>>

CommitClose(r) ==
  /\ req[r].op = "close" /\ req[r].phase = "appended"
  /\ SetState(r)
  /\ Finish(r)
  /\ UNCHANGED <<ticket, proposal, draft>>

CommitRaise(r) ==
  LET q == req[r] IN
  /\ q.op \in RaiseOps
  /\ MaySetState(r)
  /\ ticket' = [ticket EXCEPT ![q.row].state = "raised",
                              ![q.row].events = @ \cup {"raised"}]
  /\ Finish(r)
  /\ UNCHANGED <<proposal, draft>>

\* Confirming a match INSERTs a confirmed evidence row each time it runs.
CommitConfirm(r) ==
  LET q == req[r] IN
  /\ q.op = "confirm"
  /\ MaySetState(r)
  /\ proposal' = [proposal EXCEPT
       ![q.row].status = "confirmed",
       ![q.row].events = @ \cup {"confirmed"},
       ![q.row].rows   = IF q.row \in Matches THEN @ + 1 ELSE 1]
  /\ Finish(r)
  /\ UNCHANGED <<ticket, draft>>

CommitRejectProposal(r) ==
  LET q == req[r] IN
  /\ q.op = "rejectProposal"
  /\ Free(r, q.row)
  /\ proposal' = [proposal EXCEPT ![q.row].status = "rejected",
                                  ![q.row].events = @ \cup {"rejected"}]
  /\ Finish(r)
  /\ UNCHANGED <<insight, ticket, draft>>

\* Mutant: the copy is recorded as a sending.
CommitCopyAsSent(r) ==
  /\ req[r].op = "copy"
  /\ MaySetState(r)
  /\ draft' = [draft EXCEPT ![req[r].insight] = "sent"]
  /\ Finish(r)
  /\ UNCHANGED <<ticket, proposal>>

CommitCopy(r) ==
  /\ req[r].op = "copy"
  /\ MaySetState(r)
  /\ draft' = [draft EXCEPT ![req[r].insight] = "copied"]
  /\ Finish(r)
  /\ UNCHANGED <<ticket, proposal>>

\* The job updates the drafts it selected by id.
CommitMarkStale(r) ==
  LET q == req[r] IN
  /\ q.op = "markStale"
  /\ \A t \in q.rows : Free(r, t)
  /\ ticket' = [t \in Tickets |->
       IF t \in q.rows
       THEN [ticket[t] EXCEPT !.state = "stale", !.events = @ \cup {"stale"}]
       ELSE ticket[t]]
  /\ Finish(r)
  /\ UNCHANGED <<insight, proposal, draft>>

----------------------------------------------------------------------------
(* Aborts                                                                  *)

\* Postgres aborts one of the merges that wait for each other's rows.
DeadlockAbort(r) ==
  /\ \E S \in SUBSET Requests :
       /\ r \in S
       /\ \A s \in S : req[s].phase = "moved"
       /\ {req[s].arg : s \in S} = {req[s].insight : s \in S}
  /\ Rollback(r)

\* The process or its connection dies under the request.
Crash(r) ==
  /\ Crashes
  /\ req[r].phase # "idle"
  /\ Rollback(r)

----------------------------------------------------------------------------
(* The specification                                                       *)

Arrive(r) ==
  \/ \E u \in Users :
       \/ \E i \in Insights :
            \/ BeginTriage(r, i, u)
            \/ BeginEdit(r, i, u)
            \/ BeginFinalize(r, i, u)
            \/ BeginReject(r, i, u)
            \/ BeginMerge(r, i, u)
            \/ BeginClose(r, i, u)
            \/ BeginCopy(r, i, u)
       \/ \E t \in Tickets, op \in RaiseOps : BeginRaise(r, op, t, u)
       \/ \E p \in Proposals :
            \/ BeginConfirm(r, p, u)
            \/ BeginRejectProposal(r, p, u)
  \/ BeginMarkStale(r)

\* The steps a request takes on its own once it has arrived.
Step(r) ==
  \/ FileIssue(r)
  \/ GiveUpIssue(r)
  \/ EnterTx(r)
  \/ Check(r)
  \/ Refuse(r)
  \/ AppendEvent(r)
  \/ MoveSource(r)
  \/ CommitTriage(r)
  \/ CommitEdit(r)
  \/ EditConflict(r)
  \/ CommitFinalize(r)
  \/ CommitReject(r)
  \/ CommitMerge(r)
  \/ CommitClose(r)
  \/ CommitRaise(r)
  \/ CommitConfirm(r)
  \/ CommitRejectProposal(r)
  \/ CommitCopy(r)
  \/ CommitMarkStale(r)
  \/ DeadlockAbort(r)

Suggest ==
  \E i \in Insights :
    \/ \E t \in Tickets : DraftTicket(t, i)
    \/ \E p \in Proposals : Propose(p, i)
    \/ DraftEmails(i)

Next ==
  \/ \E r \in Requests : Arrive(r) \/ Step(r) \/ Crash(r)
  \/ Suggest

Spec == Init /\ [][Next]_vars

\* A handler that has started runs on, and a waiting UPDATE is granted its row:
\* Postgres queues waiters, so a row that keeps becoming free reaches each one.
FairSpec == Spec /\ \A r \in Requests : SF_vars(Step(r))

----------------------------------------------------------------------------
(* Properties                                                              *)

Ids       == DOMAIN log
Committed == {k \in Ids : log[k].status = "committed"}

\* The committed transition events of insight i into state s.
Into(i, s) == {k \in Committed : log[k].insight = i /\ log[k].to = s}

Phases == {"idle", "begun", "filed", "writing", "checked", "appended", "moved"}
OpNames == {"none", "triage", "edit", "finalize", "reject", "merge", "close", "copy",
            "markRaised", "createDirect", "confirm", "rejectProposal", "markStale"}

InsightRow ==
  [state : States, assignee : Users \cup {None}, track : Tracks \cup {"unset"},
   body : {"text", "empty"}, edits : Seq(Nat), mergedInto : Insights \cup {None},
   finalizedBy : Users \cup {None}]

TicketRow ==
  [insight : Insights \cup {None}, state : {"absent", "draft", "raised", "stale"},
   issues : Nat, events : SUBSET {"raised", "stale"}]

ProposalRow ==
  [insight : Insights \cup {None},
   status : {"absent", "proposed", "confirmed", "rejected"},
   rows : Nat, events : SUBSET {"confirmed", "rejected"}]

Event ==
  [insight : Insights, from : States, to : States, status : {"pending", "committed"}]
  \cup {Gap}

Request ==
  [op : OpNames, phase : Phases, insight : Insights \cup {None}, actor : Users \cup {None},
   row : Insights \cup Tickets \cup Proposals \cup {None}, rows : SUBSET Tickets,
   arg : Users \cup Insights \cup {None, "text", "empty", "reason", "none"},
   track : Tracks \cup {"unset"}, saw : States \cup {"unset"}, from : States \cup {"unset"},
   base : Nat, ev : Nat]

TypeOK ==
  /\ insight  \in [Insights -> InsightRow]
  /\ ticket   \in [Tickets -> TicketRow]
  /\ proposal \in [Proposals -> ProposalRow]
  /\ draft    \in [Insights -> {"none", "drafted", "copied"}]
  /\ log      \in Seq(Event)
  /\ req      \in [Requests -> Request]

\* Every committed transition starts from the state the insight was extracted
\* in or from one that an earlier event had committed it to: transitionInsight
\* records as from_state only what some transaction really wrote, however its
\* read, its INSERT and its UPDATE interleave with others (events.ts 134-176).
LogGrounded ==
  \A k \in Committed :
    \/ log[k].from = "extracted"
    \/ \E j \in Into(log[k].insight, log[k].from) : j < k

\* The cached state is one the log knows: no event, and the insight is still
\* extracted; otherwise some committed event leads to it.  A handler that
\* updated the state and failed before its event, or the other way round,
\* would break it (events.ts 155-177: one transaction).
CacheInLog ==
  \A i \in Insights :
    IF \E k \in Committed : log[k].insight = i
    THEN Into(i, insight[i].state) # {}
    ELSE insight[i].state = "extracted"

\* Turnaround times are differences of the first events into two states
\* (insight_milestones), and are never negative: an insight's first ticketed
\* or shipped event comes after its first finalized event, its first
\* notification and its first closing after its first shipped event.
MilestonesInOrder ==
  \A i \in Insights :
    /\ \A k \in Into(i, "ticketed") \cup Into(i, "shipped") :
         \E j \in Into(i, "finalized") : j < k
    /\ \A k \in Into(i, "client_notified") \cup Into(i, "closed") :
         \E j \in Into(i, "shipped") : j < k

\* The log and the tables it cites agree, whatever was rolled back: a shipped
\* insight has a proposal confirmed by a human, a confirmed proposal has a
\* shipped insight, a ticketed insight has a raised ticket, and a notified
\* client was copied a draft (evidence, tickets and emails: one transaction
\* for the row, its event and the transition).
TablesAgreeWithLog ==
  /\ \A i \in Insights :
       /\ Into(i, "shipped") # {} =>
            \E p \in Proposals : proposal[p].insight = i /\ "confirmed" \in proposal[p].events
       /\ Into(i, "ticketed") # {} =>
            \E t \in Tickets : ticket[t].insight = i /\ "raised" \in ticket[t].events
       /\ Into(i, "client_notified") # {} => draft[i] = "copied"
  /\ \A p \in Proposals :
       "confirmed" \in proposal[p].events => Into(proposal[p].insight, "shipped") # {}

\* No edit of the body is lost: the author of the k-th saved edit had loaded
\* version k, which holds every edit saved before (updateBody's WHERE version = ?).
NoLostEdit ==
  \A i \in Insights : \A k \in DOMAIN insight[i].edits : insight[i].edits[k] = k

\* What a second UPDATE of the same row records stays with its event: an insight
\* has a merge pointer exactly when the log holds its merge, and a signatory
\* exactly when the log holds its finalization, whatever other transitions write
\* the row in between (events.ts 165-175, insights/service.ts 400-405).
SecondUpdatesMatchLog ==
  \A i \in Insights :
    /\ (insight[i].mergedInto # None)  <=> (Into(i, "merged") # {})
    /\ (insight[i].finalizedBy # None) <=> (Into(i, "finalized") # {})

\* Every request is answered: waits for rows end, and merges that wait for each
\* other are broken up.
RequestsAnswered ==
  \A r \in Requests : req[r].phase # "idle" ~> req[r].phase = "idle"

(* The abstract specifications that the cache and the log implement: the   *)
(* ledger always, the board, which the docs describe, one request at a     *)
(* time.                                                                   *)

Standing == [i \in Insights |-> insight[i].state]

\* The committed events, by id.
Moves ==
  {[no |-> k, insight |-> log[k].insight, from |-> log[k].from, to |-> log[k].to] :
     k \in Committed}

Board == INSTANCE LifecycleBoard WITH state <- Standing, moves <- Moves

\* The insights walk the transition map one committed event at a time, in the
\* order of the event ids (SPEC.md section 4): the abstract board is implemented.
BoardSpec == Board!BoardSpec

\* However requests interleave, a commit sets the cached state to the target of
\* the event it commits with it and of no other; that event is an edge of the
\* map, from a state that the log holds under a smaller id; and no step rewrites
\* or withdraws a committed event or moves a state without one: the abstract
\* ledger is implemented (events.ts 134-177).
LedgerSpec == Board!LedgerSpec

\* Following merge pointers never comes back: mergeInsight refuses a target
\* that is itself merged, so a merged insight has a live survivor.
MergesAreAcyclic ==
  \A S \in (SUBSET Insights) \ {{}} : \E i \in S : insight[i].mergedInto \notin S

(* What the docs say and concurrent or unusual requests break.             *)

\* "Transitions validated against a single transition map in code" (SPEC.md 55):
\* an insight's state changes only along an edge of the map.
StateFollowsMap ==
  [][\A i \in Insights :
       insight'[i].state # insight[i].state
       => canTransition(insight[i].state, insight'[i].state)]_insight

\* "Admin-only reopen (closed -> finalized, reason required)" (SPEC.md 54): no
\* event reopens an insight without a reason.  Only finalizeInsight asks for
\* that edge, and it passes no payload.
ReopenHasReason ==
  ~\E k \in Committed : log[k].from = "closed" /\ log[k].to = "finalized"

\* "Evidence already confirmed; rejection would contradict the event log"
\* (evidence/service.ts 195): what a human has confirmed, and the log has
\* recorded, is never rejected.
ConfirmedStands ==
  [][\A p \in Proposals :
       proposal[p].status = "confirmed" => proposal'[p].status = "confirmed"]_proposal
=============================================================================
