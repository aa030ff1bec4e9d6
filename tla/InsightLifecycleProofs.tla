---------------------- MODULE InsightLifecycleProofs ----------------------
(***************************************************************************)
(* Theorems about InsightLifecycle, for every set of insights, users,      *)
(* tickets, proposals and requests, and every bound.                       *)
(*                                                                         *)
(* TypeOK is not inductive: a commit writes the row its request names, so  *)
(* the requests in flight must name rows that exist, of the insight they    *)
(* act on (RequestOK, NamesRows, RowsKnown).                               *)
(* LogGrounded is not inductive either: it must hold of the events still   *)
(* pending, of the state each request has read and of the cached states    *)
(* (Grounded), and a transaction must own the event it commits or rolls    *)
(* back (EventsOwned).                                                     *)
(***************************************************************************)
EXTENDS InsightLifecycle, TLAPS

----------------------------------------------------------------------------
(* The inductive invariant                                                 *)

RequestOK(q) ==
  /\ q \in Request
  /\ q.op \notin {"none", "markStale"} => q.insight \in Insights
  /\ q.op = "triage" => q.row = q.insight /\ q.arg \in Users \cup {None} /\ q.track \in Tracks
  /\ q.op = "edit" => q.arg \in {"text", "empty"}
  /\ q.op = "merge" => q.arg \in Insights
  /\ q.op \in RaiseOps => q.row \in Tickets
  /\ q.op \in {"confirm", "rejectProposal"} => q.row \in Proposals

\* The rows a request names are there, and belong to the insight it acts on.
NamesRows(q) ==
  /\ q.op \in RaiseOps =>
       ticket[q.row].state # "absent" /\ ticket[q.row].insight = q.insight
  /\ q.op \in {"confirm", "rejectProposal"} =>
       proposal[q.row].status # "absent" /\ proposal[q.row].insight = q.insight
  /\ \A t \in q.rows : ticket[t].state # "absent"

RowsKnown ==
  /\ \A t \in Tickets : ticket[t].state # "absent" => ticket[t].insight \in Insights
  /\ \A p \in Proposals : proposal[p].status # "absent" => proposal[p].insight \in Insights
  /\ \A r \in Requests : RequestOK(req[r]) /\ NamesRows(req[r])

TypeInv == TypeOK /\ RowsKnown

\* The event a request between its INSERT and the end of its transaction owns.
Pending(q) == [insight |-> q.insight, from |-> q.from, to |-> To(q.op), status |-> "pending"]

EventsOwned ==
  /\ \A r \in Requests :
       /\ req[r].phase \in {"checked", "appended", "moved"} => CallsTransition(req[r])
       /\ req[r].phase = "checked" => req[r].from \in States
       /\ req[r].phase = "moved" => req[r].op = "merge"
       /\ IF req[r].phase \in {"appended", "moved"}
          THEN req[r].ev \in Ids /\ log[req[r].ev] = Pending(req[r])
          ELSE req[r].ev = 0
  /\ \A r, s \in Requests : r # s /\ req[r].ev # 0 => req[r].ev # req[s].ev

\* Some event before id n has committed insight i to s, or s needs none.
GroundedAt(i, s, n) == s = "extracted" \/ \E j \in Into(i, s) : j < n

Grounded ==
  /\ \A i \in Insights : GroundedAt(i, insight[i].state, Len(log) + 1)
  /\ \A r \in Requests :
       req[r].phase = "checked" => GroundedAt(req[r].insight, req[r].from, Len(log) + 1)
  /\ \A k \in Ids :
       log[k].status # "aborted" => GroundedAt(log[k].insight, log[k].from, k)

IndInv == TypeInv /\ EventsOwned /\ Grounded

----------------------------------------------------------------------------
(* Type correctness                                                        *)

\* The empty database is well-typed, and no request names a row yet.
LEMMA InitTypeInv == Init => TypeInv
  BY DEF Init, TypeInv, TypeOK, RowsKnown, RequestOK, NamesRows, NewInsight, NoTicket, NoProposal, Idle,
         InsightRow, TicketRow, ProposalRow, Request, States, OpNames, Phases, Event, RaiseOps, Ids

\* What an arriving request does: nothing but take its slot, well-formed.
Arrived(r) ==
  /\ req[r].phase = "idle"
  /\ RequestOK(req'[r]) /\ NamesRows(req'[r])
  /\ req'[r].phase = "begun" /\ req'[r].ev = 0
  /\ req' = [req EXCEPT ![r] = req'[r]]
  /\ UNCHANGED <<insight, ticket, proposal, draft, log>>

\* Begin fills one free slot and writes no table: it is an arrival.
LEMMA BeginArrives ==
  ASSUME TypeInv, NEW r \in Requests, NEW q, RequestOK(q), NamesRows(q), q.phase = "begun", q.ev = 0, Begin(r, q)
  PROVE  Arrived(r)
<1>1. req'[r] = q
  BY DEF Begin, TypeInv, TypeOK
<1>2. QED
  BY <1>1 DEF Begin, Arrived

\* Every handler of Arrive fills one slot with a well-formed request that names
\* rows which are there.
LEMMA ArriveArrives ==
  ASSUME TypeInv, NEW r \in Requests, Arrive(r)
  PROVE  Arrived(r)
<1> USE DEF RequestOK, NamesRows, Request, OpNames, Phases, Idle, RaiseOps
<1>1. ASSUME NEW u \in Users, NEW i \in Insights, BeginTriage(r, i, u) PROVE Arrived(r)
  <2>1. PICK a \in Users \cup {None}, track \in Tracks : Begin(r, [Reading("triage", i, u) EXCEPT !.row = i, !.arg = a, !.track = track])
    BY <1>1 DEF BeginTriage
  <2> DEFINE q == [Reading("triage", i, u) EXCEPT !.row = i, !.arg = a, !.track = track]
  <2>2. RequestOK(q) /\ NamesRows(q) /\ q.phase = "begun" /\ q.ev = 0
    BY <1>1 DEF BeginTriage, Call, TypeInv, TypeOK, Reading, InsightRow
  <2> HIDE DEF q
  <2>3. QED
    BY <2>1, <2>2, BeginArrives DEF q
<1>2. ASSUME NEW u \in Users, NEW i \in Insights, BeginEdit(r, i, u) PROVE Arrived(r)
  <2>1. PICK body \in {"text", "empty"} : Begin(r, [Call("edit", i, u) EXCEPT !.arg = body, !.base = version(i)])
    BY <1>2 DEF BeginEdit
  <2> DEFINE q == [Call("edit", i, u) EXCEPT !.arg = body, !.base = version(i)]
  <2>2. version(i) \in Nat
    BY DEF TypeInv, TypeOK, version, InsightRow
  <2>3. RequestOK(q) /\ NamesRows(q) /\ q.phase = "begun" /\ q.ev = 0
    BY <2>2 DEF Call
  <2> HIDE DEF q
  <2>4. QED
    BY <2>1, <2>3, BeginArrives DEF q
<1>3. ASSUME NEW u \in Users, NEW i \in Insights, BeginFinalize(r, i, u) PROVE Arrived(r)
  <2>1. Begin(r, Call("finalize", i, u))
    BY <1>3 DEF BeginFinalize
  <2> DEFINE q == Call("finalize", i, u)
  <2>2. RequestOK(q) /\ NamesRows(q) /\ q.phase = "begun" /\ q.ev = 0
    BY <1>3 DEF BeginFinalize, Call, TypeInv, TypeOK
  <2> HIDE DEF q
  <2>3. QED
    BY <2>1, <2>2, BeginArrives DEF q
<1>4. ASSUME NEW u \in Users, NEW i \in Insights, BeginReject(r, i, u) PROVE Arrived(r)
  <2>1. Begin(r, Call("reject", i, u))
    BY <1>4 DEF BeginReject
  <2> DEFINE q == Call("reject", i, u)
  <2>2. RequestOK(q) /\ NamesRows(q) /\ q.phase = "begun" /\ q.ev = 0
    BY <1>4 DEF BeginReject, Call, TypeInv, TypeOK
  <2> HIDE DEF q
  <2>3. QED
    BY <2>1, <2>2, BeginArrives DEF q
<1>5. ASSUME NEW u \in Users, NEW i \in Insights, BeginMerge(r, i, u) PROVE Arrived(r)
  <2>1. PICK into \in Insights \ {i} : Begin(r, [Call("merge", i, u) EXCEPT !.arg = into])
    BY <1>5 DEF BeginMerge
  <2> DEFINE q == [Call("merge", i, u) EXCEPT !.arg = into]
  <2>2. RequestOK(q) /\ NamesRows(q) /\ q.phase = "begun" /\ q.ev = 0
    BY <1>5 DEF BeginMerge, Call, TypeInv, TypeOK
  <2> HIDE DEF q
  <2>3. QED
    BY <2>1, <2>2, BeginArrives DEF q
<1>6. ASSUME NEW u \in Users, NEW i \in Insights, BeginClose(r, i, u) PROVE Arrived(r)
  <2>1. PICK reason \in {"reason", "none"} : Begin(r, [Call("close", i, u) EXCEPT !.arg = reason])
    BY <1>6 DEF BeginClose
  <2> DEFINE q == [Call("close", i, u) EXCEPT !.arg = reason]
  <2>2. RequestOK(q) /\ NamesRows(q) /\ q.phase = "begun" /\ q.ev = 0
    BY <1>6 DEF BeginClose, Call, TypeInv, TypeOK
  <2> HIDE DEF q
  <2>3. QED
    BY <2>1, <2>2, BeginArrives DEF q
<1>7. ASSUME NEW u \in Users, NEW i \in Insights, BeginCopy(r, i, u) PROVE Arrived(r)
  <2>1. Begin(r, Reading("copy", i, u))
    BY <1>7 DEF BeginCopy
  <2> DEFINE q == Reading("copy", i, u)
  <2>2. RequestOK(q) /\ NamesRows(q) /\ q.phase = "begun" /\ q.ev = 0
    BY <1>7 DEF BeginCopy, Call, TypeInv, TypeOK, Reading, InsightRow
  <2> HIDE DEF q
  <2>3. QED
    BY <2>1, <2>2, BeginArrives DEF q
<1>8. ASSUME NEW u \in Users, NEW t \in Tickets, NEW op \in RaiseOps, BeginRaise(r, op, t, u) PROVE Arrived(r)
  <2>1. Begin(r, [Call(op, ticket[t].insight, u) EXCEPT !.row = t])
    BY <1>8 DEF BeginRaise
  <2> DEFINE q == [Call(op, ticket[t].insight, u) EXCEPT !.row = t]
  <2>2. RequestOK(q) /\ NamesRows(q) /\ q.phase = "begun" /\ q.ev = 0
    BY ZenonT(40), <1>8 DEF BeginRaise, Call, TypeInv, TypeOK, RowsKnown
  <2> HIDE DEF q
  <2>3. QED
    BY <2>1, <2>2, BeginArrives DEF q
<1>9. ASSUME NEW u \in Users, NEW p \in Proposals, BeginConfirm(r, p, u) PROVE Arrived(r)
  <2>1. Begin(r, [Reading("confirm", proposal[p].insight, u) EXCEPT !.row = p])
    BY <1>9 DEF BeginConfirm
  <2> DEFINE q == [Reading("confirm", proposal[p].insight, u) EXCEPT !.row = p]
  <2>2. RequestOK(q) /\ NamesRows(q) /\ q.phase = "begun" /\ q.ev = 0
    BY ZenonT(40), <1>9 DEF BeginConfirm, Call, TypeInv, TypeOK, Reading, InsightRow, RowsKnown
  <2> HIDE DEF q
  <2>3. QED
    BY <2>1, <2>2, BeginArrives DEF q
<1>10. ASSUME NEW u \in Users, NEW p \in Proposals, BeginRejectProposal(r, p, u) PROVE Arrived(r)
  <2>1. Begin(r, [Call("rejectProposal", proposal[p].insight, u) EXCEPT !.row = p])
    BY <1>10 DEF BeginRejectProposal
  <2> DEFINE q == [Call("rejectProposal", proposal[p].insight, u) EXCEPT !.row = p]
  <2>2. RequestOK(q) /\ NamesRows(q) /\ q.phase = "begun" /\ q.ev = 0
    BY ZenonT(40), <1>10 DEF BeginRejectProposal, Call, TypeInv, TypeOK, RowsKnown
  <2> HIDE DEF q
  <2>3. QED
    BY <2>1, <2>2, BeginArrives DEF q
<1>11. ASSUME BeginMarkStale(r) PROVE Arrived(r)
  <2>1. PICK old \in (SUBSET {t \in Tickets : ticket[t].state = "draft"}) \ {{}} : Begin(r, [Idle EXCEPT !.op = "markStale", !.phase = "begun", !.rows = old])
    BY <1>11 DEF BeginMarkStale
  <2> DEFINE q == [Idle EXCEPT !.op = "markStale", !.phase = "begun", !.rows = old]
  <2>2. RequestOK(q) /\ NamesRows(q) /\ q.phase = "begun" /\ q.ev = 0
    BY <1>11 DEF BeginMarkStale, Call, TypeInv, TypeOK
  <2> HIDE DEF q
  <2>3. QED
    BY <2>1, <2>2, BeginArrives DEF q
<1>12. QED
  BY <1>1, <1>2, <1>3, <1>4, <1>5, <1>6, <1>7, <1>8, <1>9, <1>10, <1>11 DEF Arrive

----------------------------------------------------------------------------
(* What each kind of step does, as the invariants see it                    *)

RowsOK ==
  /\ insight  \in [Insights -> InsightRow]
  /\ ticket   \in [Tickets -> TicketRow]
  /\ proposal \in [Proposals -> ProposalRow]
  /\ draft    \in [Insights -> {"none", "drafted", "copied"}]
  /\ \A t \in Tickets : ticket[t].state # "absent" => ticket[t].insight \in Insights
  /\ \A p \in Proposals : proposal[p].status # "absent" => proposal[p].insight \in Insights

\* Rows of tickets and proposals stay, and stay with their insight.
RowsPersist ==
  /\ \A t \in Tickets : ticket[t].state # "absent" =>
       ticket'[t].state # "absent" /\ ticket'[t].insight = ticket[t].insight
  /\ \A p \in Proposals : proposal[p].status # "absent" =>
       proposal'[p].status # "absent" /\ proposal'[p].insight = proposal[p].insight

StatesKept == \A i \in Insights : insight'[i].state = insight[i].state

\* The request goes on: its slot alone changes, and it neither checks nor appends.
GoesOn(r) ==
  /\ RequestOK(req'[r]) /\ NamesRows(req'[r])
  /\ req'[r].phase \in {"filed", "writing"} /\ req'[r].ev = 0
  /\ req' = [req EXCEPT ![r] = req'[r]]
  /\ StatesKept /\ UNCHANGED log

\* The transaction commits, moving no insight but its own, to the state its event says.
Commits(r) ==
  /\ Finish(r)
  /\ \A i \in Insights :
       \/ insight'[i].state = insight[i].state
       \/ /\ i = req[r].insight
          /\ insight'[i].state = To(req[r].op)
          /\ req[r].phase \in {"appended", "moved"}

\* A fresh slot is well-formed.
LEMMA IdleOK == RequestOK(Idle) /\ Idle.ev = 0 /\ Idle.phase = "idle"
  BY DEF RequestOK, Idle, Request, OpNames, Phases, RaiseOps

\* A handler calls transitionInsight only for one of the lifecycle's states.
LEMMA ToIsState ==
  ASSUME NEW q \in Request, CallsTransition(q)
  PROVE  To(q.op) \in States
  BY DEF CallsTransition, To, RaiseOps, States

\* Writing one field of a request leaves the others, and keeps it well-formed.
LEMMA PhaseOK ==
  ASSUME NEW q, RequestOK(q), NEW p \in Phases
  PROVE  LET n == [q EXCEPT !.phase = p] IN
         /\ RequestOK(n) /\ n.phase = p
         /\ n.op = q.op /\ n.saw = q.saw /\ n.from = q.from /\ n.ev = q.ev /\ n.insight = q.insight
         /\ n.row = q.row /\ n.rows = q.rows
  BY DEF RequestOK, Request, RaiseOps

\* So does writing the state the handler saw.
LEMMA SawOK ==
  ASSUME NEW q, RequestOK(q), NEW state \in States \cup {"unset"}
  PROVE  LET n == [q EXCEPT !.saw = state] IN
         /\ RequestOK(n) /\ n.saw = state
         /\ n.op = q.op /\ n.phase = q.phase /\ n.from = q.from /\ n.ev = q.ev /\ n.insight = q.insight
         /\ n.row = q.row /\ n.rows = q.rows
  BY DEF RequestOK, Request, RaiseOps

\* So does writing the state transitionInsight read.
LEMMA FromOK ==
  ASSUME NEW q, RequestOK(q), NEW state \in States \cup {"unset"}
  PROVE  LET n == [q EXCEPT !.from = state] IN
         /\ RequestOK(n) /\ n.from = state
         /\ n.op = q.op /\ n.saw = q.saw /\ n.phase = q.phase /\ n.ev = q.ev /\ n.insight = q.insight
         /\ n.row = q.row /\ n.rows = q.rows
  BY DEF RequestOK, Request, RaiseOps

\* So does writing the id of the event the transaction appended.
LEMMA EvOK ==
  ASSUME NEW q, RequestOK(q), NEW e \in Nat
  PROVE  LET n == [q EXCEPT !.ev = e] IN
         /\ RequestOK(n) /\ n.ev = e
         /\ n.op = q.op /\ n.saw = q.saw /\ n.phase = q.phase /\ n.from = q.from /\ n.insight = q.insight
         /\ n.row = q.row /\ n.rows = q.rows
  BY DEF RequestOK, Request, RaiseOps

\* FileIssue and EnterTx leave the log and the insights' states as they are.
LEMMA AdvanceGoesOn ==
  ASSUME TypeInv, EventsOwned, NEW r \in Requests, FileIssue(r) \/ EnterTx(r)
  PROVE  GoesOn(r) /\ RowsOK' /\ RowsPersist
<1>1. req \in [Requests -> Request] /\ RequestOK(req[r]) /\ NamesRows(req[r])
  BY DEF TypeInv, TypeOK, RowsKnown
<1>2. req[r].phase \notin {"appended", "moved"} => req[r].ev = 0
  BY DEF EventsOwned
<1>3. CASE FileIssue(r)
  <2> DEFINE q == [req[r] EXCEPT !.phase = "filed"]
             t == [ticket[req[r].row] EXCEPT !.issues = @ + 1]
  <2>1. /\ req' = [req EXCEPT ![r] = q]
        /\ req[r].phase = "begun" /\ req[r].op = "createDirect"
        /\ ticket' = [ticket EXCEPT ![req[r].row] = t]
        /\ UNCHANGED <<insight, proposal, draft, log>>
    BY <1>3 DEF FileIssue, Phase
  <2>2. /\ RequestOK(q) /\ q.phase = "filed" /\ q.ev = req[r].ev /\ q.op = req[r].op
        /\ q.insight = req[r].insight /\ q.row = req[r].row /\ q.rows = req[r].rows
    BY ZenonT(40), <1>1, PhaseOK DEF Phases
  <2>3. req[r].row \in Tickets /\ ticket[req[r].row] \in TicketRow
    BY <1>1, <2>1 DEF RequestOK, RaiseOps, TypeInv, TypeOK
  <2>4. t \in TicketRow /\ t.state = ticket[req[r].row].state /\ t.insight = ticket[req[r].row].insight
    BY <2>3 DEF TicketRow
  <2> HIDE DEF q, t
  <2>5. GoesOn(r)
    BY <1>1, <1>2, <2>1, <2>2 DEF GoesOn, StatesKept, NamesRows
  <2>6. RowsOK' /\ RowsPersist
    BY <2>1, <2>3, <2>4 DEF RowsOK, RowsPersist, TypeInv, TypeOK, RowsKnown
  <2>7. QED
    BY <2>5, <2>6
<1>4. CASE EnterTx(r)
  <2> DEFINE seen == IF req[r].op \in RaiseOps THEN insight[req[r].insight].state ELSE req[r].saw
             q1 == [req[r] EXCEPT !.phase = "writing"]
             q  == [q1 EXCEPT !.saw = seen]
  <2>1. seen \in States \cup {"unset"}
    BY <1>1 DEF RequestOK, Request, RaiseOps, TypeInv, TypeOK, InsightRow
  <2>2. /\ req' = [req EXCEPT ![r] = q]
        /\ req[r].phase \in {"begun", "filed"}
        /\ UNCHANGED <<insight, ticket, proposal, draft, log>>
    BY <1>4 DEF EnterTx
  <2> HIDE DEF seen
  <2>3. /\ RequestOK(q1) /\ q1.phase = "writing" /\ q1.ev = req[r].ev /\ q1.op = req[r].op
        /\ q1.insight = req[r].insight /\ q1.row = req[r].row /\ q1.rows = req[r].rows
    BY <1>1, PhaseOK DEF Phases
  <2> HIDE DEF q1
  <2>4. /\ RequestOK(q) /\ q.phase = "writing" /\ q.ev = req[r].ev /\ q.op = req[r].op
        /\ q.insight = req[r].insight /\ q.row = req[r].row /\ q.rows = req[r].rows
    BY <2>1, <2>3, SawOK
  <2> HIDE DEF q
  <2>5. GoesOn(r)
    BY <1>1, <1>2, <2>2, <2>4 DEF GoesOn, StatesKept, NamesRows
  <2>6. RowsOK' /\ RowsPersist
    BY <2>2 DEF RowsOK, RowsPersist, TypeInv, TypeOK, RowsKnown
  <2>7. QED
    BY <2>5, <2>6
<1>5. QED
  BY <1>3, <1>4

Commit(r) ==
  \/ CommitTriage(r)
  \/ CommitEdit(r)
  \/ CommitFinalize(r)
  \/ CommitReject(r)
  \/ CommitMerge(r)
  \/ CommitClose(r)
  \/ CommitRaise(r)
  \/ CommitConfirm(r)
  \/ CommitRejectProposal(r)
  \/ CommitCopy(r)
  \/ CommitMarkStale(r)

\* One row of insights is written: the others, and the type, are kept.
LEMMA InsightWritten ==
  ASSUME TypeInv, NEW i \in Insights, NEW row \in InsightRow,
         insight' = [insight EXCEPT ![i] = row]
  PROVE  /\ insight' \in [Insights -> InsightRow]
         /\ insight'[i] = row
         /\ \A j \in Insights \ {i} : insight'[j] = insight[j]
  BY DEF TypeInv, TypeOK

\* SetState writes the state of the request's insight, and nothing else.
LEMMA SetStateWrites ==
  ASSUME TypeInv, EventsOwned, NEW r \in Requests, SetState(r), CallsTransition(req[r])
  PROVE  /\ insight' \in [Insights -> InsightRow]
         /\ \A i \in Insights :
              \/ insight'[i].state = insight[i].state
              \/ i = req[r].insight /\ insight'[i].state = To(req[r].op)
<1> DEFINE i == req[r].insight
           row == [insight[i] EXCEPT !.state = To(req[r].op)]
<1>1. RequestOK(req[r]) /\ req[r] \in Request
  BY DEF TypeInv, RowsKnown, RequestOK
<1>2. To(req[r].op) \in States
  BY <1>1, ToIsState
<1>3. i \in Insights
  BY <1>1 DEF RequestOK, CallsTransition, RaiseOps
<1>4. insight[i] \in InsightRow
  BY <1>3 DEF TypeInv, TypeOK
<1>5. row \in InsightRow /\ row.state = To(req[r].op)
  BY <1>2, <1>4 DEF InsightRow
<1>6. insight' = [insight EXCEPT ![i] = row]
  BY DEF SetState
<1> HIDE DEF row, i
<1>7. QED
  BY <1>3, <1>5, <1>6, InsightWritten DEF i

\* MaySetState writes that state too, or no insight at all.
LEMMA MaySetStateWrites ==
  ASSUME TypeInv, EventsOwned, NEW r \in Requests, MaySetState(r)
  PROVE  /\ insight' \in [Insights -> InsightRow]
         /\ \A i \in Insights :
              \/ insight'[i].state = insight[i].state
              \/ /\ i = req[r].insight /\ insight'[i].state = To(req[r].op)
                 /\ req[r].phase \in {"appended", "moved"}
<1>1. CASE CallsTransition(req[r]) /\ req[r].phase = "appended" /\ SetState(r)
  BY <1>1, SetStateWrites
<1>2. CASE UNCHANGED insight
  BY <1>2 DEF TypeInv, TypeOK
<1>3. QED
  BY <1>1, <1>2 DEF MaySetState

\* Every commit writes well-formed rows, and moves its own insight at most.
LEMMA CommitCommits ==
  ASSUME TypeInv, EventsOwned, NEW r \in Requests, Commit(r)
  PROVE  Commits(r) /\ RowsOK' /\ RowsPersist
<1> DEFINE q == req[r]
<1>0. /\ RequestOK(q) /\ NamesRows(q) /\ q \in Request
      /\ ticket \in [Tickets -> TicketRow] /\ proposal \in [Proposals -> ProposalRow]
      /\ draft \in [Insights -> {"none", "drafted", "copied"}]
      /\ insight \in [Insights -> InsightRow]
      /\ \A t \in Tickets : ticket[t].state # "absent" => ticket[t].insight \in Insights
      /\ \A p \in Proposals : proposal[p].status # "absent" => proposal[p].insight \in Insights
      /\ q.phase \in {"checked", "appended", "moved"} => CallsTransition(q)
  BY DEF TypeInv, TypeOK, RowsKnown, RequestOK, EventsOwned
<1> HIDE DEF q
<1>1. CASE CommitTriage(r)
  <2> DEFINE i == q.insight
             state == IF CallsTransition(q) THEN "triaged" ELSE insight[i].state
             who == IF q.arg = None THEN insight[i].assignee ELSE q.arg
             routed == [insight[i] EXCEPT !.track = q.track]
             given  == [routed EXCEPT !.assignee = who]
             row    == [given EXCEPT !.state = state]
  <2>1. /\ q.op = "triage" /\ Finish(r)
        /\ CallsTransition(q) => q.phase = "appended"
        /\ insight' = [insight EXCEPT ![i] = row]
        /\ UNCHANGED <<ticket, proposal, draft>>
    BY <1>1 DEF CommitTriage, q
  <2>2. i \in Insights /\ insight[i] \in InsightRow /\ q.track \in Tracks /\ q.arg \in Users \cup {None}
    BY <1>0, <2>1 DEF RequestOK
  <2>3. state \in States /\ who \in Users \cup {None}
    BY <1>0, <2>2 DEF States, InsightRow
  <2> HIDE DEF state, who
  <2>4. routed \in InsightRow
    BY <2>2 DEF InsightRow
  <2> HIDE DEF routed
  <2>5. given \in InsightRow
    BY <2>3, <2>4 DEF InsightRow
  <2> HIDE DEF given
  <2>6. row \in InsightRow /\ row.state = state
    BY <2>3, <2>5 DEF InsightRow
  <2> HIDE DEF row
  <2>7. /\ insight' \in [Insights -> InsightRow]
        /\ insight'[i].state = state
        /\ \A j \in Insights \ {i} : insight'[j] = insight[j]
    BY <2>1, <2>2, <2>6, InsightWritten
  <2>8. CallsTransition(q) => To(q.op) = "triaged"
    BY <2>1 DEF To, RaiseOps
  <2>9. QED
    BY <1>0, <2>1, <2>2, <2>7, <2>8 DEF Commits, RowsOK, RowsPersist, NamesRows, state, q
<1>2. CASE CommitEdit(r)
  <2> DEFINE i == q.insight
             edits == Append(insight[i].edits, q.base)
             typed == [insight[i] EXCEPT !.body = q.arg]
             row   == [typed EXCEPT !.edits = edits]
  <2>1. /\ q.op = "edit" /\ Finish(r)
        /\ insight' = [insight EXCEPT ![i] = row]
        /\ UNCHANGED <<ticket, proposal, draft>>
    BY <1>2 DEF CommitEdit, q
  <2>2. i \in Insights /\ insight[i] \in InsightRow /\ q.arg \in {"text", "empty"} /\ q.base \in Nat
    BY <1>0, <2>1 DEF RequestOK, Request
  <2>3. edits \in Seq(Nat)
    BY <1>0, <2>2 DEF InsightRow
  <2> HIDE DEF edits
  <2>4. typed \in InsightRow /\ typed.state = insight[i].state
    BY <2>2 DEF InsightRow
  <2> HIDE DEF typed
  <2>5. row \in InsightRow /\ row.state = insight[i].state
    BY <2>3, <2>4 DEF InsightRow, edits
  <2> HIDE DEF row
  <2>6. /\ insight' \in [Insights -> InsightRow]
        /\ \A j \in Insights : insight'[j].state = insight[j].state
    BY <2>1, <2>2, <2>5, InsightWritten
  <2>7. QED
    BY <1>0, <2>1, <2>6 DEF Commits, RowsOK, RowsPersist, NamesRows
<1>3. CASE CommitFinalize(r)
  <2> DEFINE i == q.insight
             moved == [insight[i] EXCEPT !.state = "finalized"]
             row   == [moved EXCEPT !.finalizedBy = q.actor]
  <2>1. /\ q.op = "finalize" /\ q.phase = "appended" /\ Finish(r)
        /\ insight' = [insight EXCEPT ![i] = row]
        /\ UNCHANGED <<ticket, proposal, draft>>
    BY <1>3 DEF CommitFinalize, q
  <2>2. i \in Insights /\ insight[i] \in InsightRow /\ q.actor \in Users \cup {None}
    BY <1>0, <2>1 DEF RequestOK, Request
  <2>3. moved \in InsightRow /\ moved.state = "finalized"
    BY <2>2 DEF InsightRow, States
  <2> HIDE DEF moved
  <2>4. row \in InsightRow /\ row.state = "finalized"
    BY <2>2, <2>3 DEF InsightRow
  <2> HIDE DEF row
  <2>5. /\ insight' \in [Insights -> InsightRow]
        /\ insight'[i].state = "finalized"
        /\ \A j \in Insights \ {i} : insight'[j] = insight[j]
    BY <2>1, <2>2, <2>4, InsightWritten
  <2>6. To(q.op) = "finalized"
    BY <2>1 DEF To, RaiseOps
  <2>7. QED
    BY <1>0, <2>1, <2>2, <2>5, <2>6 DEF Commits, RowsOK, RowsPersist, NamesRows, q
<1>4. CASE CommitReject(r) \/ CommitClose(r)
  <2>1. /\ q.phase = "appended" /\ SetState(r) /\ Finish(r)
        /\ UNCHANGED <<ticket, proposal, draft>>
    BY <1>4 DEF CommitReject, CommitClose, q
  <2>2. CallsTransition(req[r])
    BY <1>0, <2>1 DEF q
  <2>3. QED
    BY <1>0, <2>1, <2>2, SetStateWrites DEF Commits, RowsOK, RowsPersist, NamesRows, q
<1>5. CASE CommitMerge(r)
  <2> DEFINE i == q.insight
             moved == [insight[i] EXCEPT !.state = "merged"]
             row   == [moved EXCEPT !.mergedInto = q.arg]
  <2>1. /\ q.op = "merge" /\ q.phase = "moved" /\ Finish(r)
        /\ insight' = [insight EXCEPT ![i] = row]
        /\ UNCHANGED <<ticket, proposal, draft>>
    BY <1>5 DEF CommitMerge, q
  <2>2. i \in Insights /\ insight[i] \in InsightRow /\ q.arg \in Insights
    BY <1>0, <2>1 DEF RequestOK
  <2>3. moved \in InsightRow /\ moved.state = "merged"
    BY <2>2 DEF InsightRow, States
  <2> HIDE DEF moved
  <2>4. row \in InsightRow /\ row.state = "merged"
    BY <2>2, <2>3 DEF InsightRow
  <2> HIDE DEF row
  <2>5. /\ insight' \in [Insights -> InsightRow]
        /\ insight'[i].state = "merged"
        /\ \A j \in Insights \ {i} : insight'[j] = insight[j]
    BY <2>1, <2>2, <2>4, InsightWritten
  <2>6. To(q.op) = "merged"
    BY <2>1 DEF To, RaiseOps
  <2>7. QED
    BY <1>0, <2>1, <2>2, <2>5, <2>6 DEF Commits, RowsOK, RowsPersist, NamesRows, q
<1>6. CASE CommitRaise(r)
  <2> DEFINE t == q.row
             raised == [ticket[t] EXCEPT !.state = "raised"]
             row    == [raised EXCEPT !.events = @ \cup {"raised"}]
  <2>1. /\ q.op \in RaiseOps /\ MaySetState(r) /\ Finish(r)
        /\ ticket' = [ticket EXCEPT ![t] = row]
        /\ UNCHANGED <<proposal, draft>>
    BY <1>6 DEF CommitRaise, q
  <2>2. t \in Tickets
    BY <1>0, <2>1 DEF RequestOK
  <2>3. raised \in TicketRow /\ raised.insight = ticket[t].insight /\ raised.state = "raised"
    BY <1>0, <2>2 DEF TicketRow
  <2> HIDE DEF raised
  <2>4. row \in TicketRow /\ row.insight = ticket[t].insight /\ row.state = "raised"
    BY <2>3 DEF TicketRow
  <2> HIDE DEF row
  <2>5. QED
    BY <1>0, <2>1, <2>2, <2>4, MaySetStateWrites DEF Commits, RowsOK, RowsPersist, NamesRows, q
<1>7. CASE CommitConfirm(r)
  <2> DEFINE p == q.row
             n == IF p \in Matches THEN proposal[p].rows + 1 ELSE 1
             confirmed == [proposal[p] EXCEPT !.status = "confirmed"]
             logged    == [confirmed EXCEPT !.events = @ \cup {"confirmed"}]
             row       == [logged EXCEPT !.rows = n]
  <2>1. /\ q.op = "confirm" /\ MaySetState(r) /\ Finish(r)
        /\ proposal' = [proposal EXCEPT ![p] = row]
        /\ UNCHANGED <<ticket, draft>>
    BY <1>7 DEF CommitConfirm, q
  <2>2. p \in Proposals
    BY <1>0, <2>1 DEF RequestOK
  <2>3. n \in Nat
    BY <1>0, <2>2 DEF ProposalRow
  <2> HIDE DEF n
  <2>4. /\ confirmed \in ProposalRow /\ confirmed.insight = proposal[p].insight
        /\ confirmed.status = "confirmed"
    BY <1>0, <2>2 DEF ProposalRow
  <2> HIDE DEF confirmed
  <2>5. logged \in ProposalRow /\ logged.insight = proposal[p].insight /\ logged.status = "confirmed"
    BY <2>4 DEF ProposalRow
  <2> HIDE DEF logged
  <2>6. row \in ProposalRow /\ row.insight = proposal[p].insight /\ row.status = "confirmed"
    BY <2>3, <2>5 DEF ProposalRow
  <2> HIDE DEF row
  <2>7. QED
    BY <1>0, <2>1, <2>2, <2>6, MaySetStateWrites DEF Commits, RowsOK, RowsPersist, NamesRows, q
<1>8. CASE CommitRejectProposal(r)
  <2> DEFINE p == q.row
             rejected == [proposal[p] EXCEPT !.status = "rejected"]
             row      == [rejected EXCEPT !.events = @ \cup {"rejected"}]
  <2>1. /\ q.op = "rejectProposal" /\ Finish(r)
        /\ proposal' = [proposal EXCEPT ![p] = row]
        /\ UNCHANGED <<insight, ticket, draft>>
    BY <1>8 DEF CommitRejectProposal, q
  <2>2. p \in Proposals
    BY <1>0, <2>1 DEF RequestOK
  <2>3. /\ rejected \in ProposalRow /\ rejected.insight = proposal[p].insight
        /\ rejected.status = "rejected"
    BY <1>0, <2>2 DEF ProposalRow
  <2> HIDE DEF rejected
  <2>4. row \in ProposalRow /\ row.insight = proposal[p].insight /\ row.status = "rejected"
    BY <2>3 DEF ProposalRow
  <2> HIDE DEF row
  <2>5. QED
    BY <1>0, <2>1, <2>2, <2>4 DEF Commits, RowsOK, RowsPersist, NamesRows
<1>9. CASE CommitCopy(r)
  <2>1. /\ MaySetState(r) /\ Finish(r)
        /\ draft' = [draft EXCEPT ![q.insight] = "copied"]
        /\ UNCHANGED <<ticket, proposal>>
    BY <1>9 DEF CommitCopy, q
  <2>2. draft' \in [Insights -> {"none", "drafted", "copied"}]
    BY <1>0, <2>1
  <2>3. QED
    BY <1>0, <2>1, <2>2, MaySetStateWrites DEF Commits, RowsOK, RowsPersist, NamesRows, q
<1>10. CASE CommitMarkStale(r)
  <2> DEFINE stale(t) == [ticket[t] EXCEPT !.state = "stale"]
             row(t)   == [stale(t) EXCEPT !.events = @ \cup {"stale"}]
  <2>1. /\ Finish(r)
        /\ ticket' = [t \in Tickets |-> IF t \in q.rows THEN row(t) ELSE ticket[t]]
        /\ UNCHANGED <<insight, proposal, draft>>
    BY <1>10 DEF CommitMarkStale, q
  <2>2. ASSUME NEW t \in Tickets
        PROVE  row(t) \in TicketRow /\ row(t).insight = ticket[t].insight /\ row(t).state = "stale"
    <3>1. /\ stale(t) \in TicketRow /\ stale(t).insight = ticket[t].insight
          /\ stale(t).state = "stale"
      BY <1>0 DEF TicketRow
    <3> HIDE DEF stale
    <3>2. QED
      BY <3>1 DEF TicketRow
  <2> HIDE DEF row
  <2>3. QED
    BY <1>0, <2>1, <2>2 DEF Commits, RowsOK, RowsPersist, NamesRows
<1>11. QED
  BY <1>1, <1>2, <1>3, <1>4, <1>5, <1>6, <1>7, <1>8, <1>9, <1>10 DEF Commit

\* A step that keeps rows well-formed, and writes one slot, keeps TypeInv.
LEMMA TypeInvKept ==
  ASSUME TypeInv, RowsOK', RowsPersist, log' \in Seq(Event), NEW r \in Requests,
         RequestOK(req'[r]), NamesRows(req'[r]), req' = [req EXCEPT ![r] = req'[r]]
  PROVE  TypeInv'
<1>1. ASSUME NEW s \in Requests
      PROVE  RequestOK(req'[s]) /\ NamesRows(req'[s])
  BY DEF TypeInv, TypeOK, RowsKnown
<1>2. req' \in [Requests -> Request]
  BY <1>1 DEF TypeInv, TypeOK, RequestOK
<1>3. ASSUME NEW s \in Requests
      PROVE  NamesRows(req[s])'
  <2>1. /\ req'[s].op \in RaiseOps => req'[s].row \in Tickets
        /\ req'[s].op \in {"confirm", "rejectProposal"} => req'[s].row \in Proposals
        /\ req'[s].rows \subseteq Tickets
    BY <1>1 DEF RequestOK, Request
  <2>2. QED
    BY <1>1, <2>1 DEF NamesRows, RowsPersist
<1>4. QED
  BY <1>1, <1>2, <1>3 DEF TypeInv, TypeOK, RowsKnown, RowsOK, RequestOK

\* DraftTicket, Propose and DraftEmails insert a row nobody names yet.
LEMMA SuggestKeeps ==
  ASSUME TypeInv, Suggest
  PROVE  RowsOK' /\ RowsPersist /\ UNCHANGED <<insight, log, req>>
<1>1. PICK i \in Insights :
        \/ \E t \in Tickets : DraftTicket(t, i)
        \/ \E p \in Proposals : Propose(p, i)
        \/ DraftEmails(i)
  BY DEF Suggest
<1>2. CASE \E t \in Tickets : DraftTicket(t, i)
  <2>1. PICK t \in Tickets : DraftTicket(t, i)
    BY <1>2
  <2> DEFINE owned == [ticket[t] EXCEPT !.insight = i]
             row   == [owned EXCEPT !.state = "draft"]
  <2>2. /\ ticket' = [ticket EXCEPT ![t] = row] /\ ticket[t].state = "absent"
        /\ UNCHANGED <<insight, proposal, draft, log, req>>
    BY <2>1 DEF DraftTicket
  <2>3. owned \in TicketRow /\ owned.insight = i
    BY DEF TypeInv, TypeOK, TicketRow
  <2> HIDE DEF owned
  <2>4. row \in TicketRow /\ row.insight = i /\ row.state = "draft"
    BY <2>3 DEF TicketRow
  <2> HIDE DEF row
  <2>5. QED
    BY <2>2, <2>4 DEF RowsOK, RowsPersist, TypeInv, TypeOK, RowsKnown
<1>3. CASE \E p \in Proposals : Propose(p, i)
  <2>1. PICK p \in Proposals : Propose(p, i)
    BY <1>3
  <2> DEFINE owned == [proposal[p] EXCEPT !.insight = i]
             row   == [owned EXCEPT !.status = "proposed"]
  <2>2. /\ proposal' = [proposal EXCEPT ![p] = row] /\ proposal[p].status = "absent"
        /\ UNCHANGED <<insight, ticket, draft, log, req>>
    BY <2>1 DEF Propose
  <2>3. owned \in ProposalRow /\ owned.insight = i
    BY DEF TypeInv, TypeOK, ProposalRow
  <2> HIDE DEF owned
  <2>4. row \in ProposalRow /\ row.insight = i /\ row.status = "proposed"
    BY <2>3 DEF ProposalRow
  <2> HIDE DEF row
  <2>5. QED
    BY <2>2, <2>4 DEF RowsOK, RowsPersist, TypeInv, TypeOK, RowsKnown
<1>4. CASE DraftEmails(i)
  BY <1>4 DEF DraftEmails, RowsOK, RowsPersist, TypeInv, TypeOK, RowsKnown
<1>5. QED
  BY <1>1, <1>2, <1>3, <1>4

----------------------------------------------------------------------------
(* The log                                                                 *)

\* What a transaction's event becomes when it commits.
Done(q) == [insight |-> q.insight, from |-> q.from, to |-> To(q.op), status |-> "committed"]

\* The end of a transaction writes at most the event it owns.
LEMMA EndWritesOwnEvent ==
  ASSUME TypeInv, EventsOwned, NEW r \in Requests, NEW e,
         HasEvent(r) => e \in Event,
         log' = IF HasEvent(r) THEN [log EXCEPT ![req[r].ev] = e] ELSE log,
         req' = [req EXCEPT ![r] = Idle]
  PROVE  /\ log' \in Seq(Event) /\ Len(log') = Len(log)
         /\ \A k \in Ids : log'[k] = IF HasEvent(r) /\ k = req[r].ev THEN e ELSE log[k]
         /\ EventsOwned'
<1>1. log \in Seq(Event) /\ req \in [Requests -> Request]
  BY DEF TypeInv, TypeOK
<1>2. log' \in Seq(Event) /\ Len(log') = Len(log) /\ DOMAIN log' = DOMAIN log
  BY <1>1 DEF HasEvent
<1>3. \A k \in Ids : log'[k] = IF HasEvent(r) /\ k = req[r].ev THEN e ELSE log[k]
  BY <1>1 DEF HasEvent, Ids
<1>4. /\ req'[r] = Idle
      /\ \A s \in Requests \ {r} : req'[s] = req[s]
  BY <1>1
<1>5. 0 \notin Ids
  BY <1>1 DEF Ids
<1>6. ASSUME NEW s \in Requests, s # r, req[s].phase \in {"appended", "moved"}
      PROVE  log'[req[s].ev] = Pending(req[s])
  BY <1>3, <1>5, <1>6 DEF EventsOwned, HasEvent, Ids
<1>7. ASSUME NEW s \in Requests
      PROVE  /\ req'[s].phase \in {"checked", "appended", "moved"} => CallsTransition(req'[s])
             /\ req'[s].phase = "checked" => req'[s].from \in States
             /\ req'[s].phase = "moved" => req'[s].op = "merge"
             /\ IF req'[s].phase \in {"appended", "moved"}
                THEN req'[s].ev \in DOMAIN log' /\ log'[req'[s].ev] = Pending(req'[s])
                ELSE req'[s].ev = 0
  <2>1. CASE s = r
    BY <1>4, <2>1, IdleOK
  <2>2. CASE s # r
    BY <1>2, <1>4, <1>6, <2>2 DEF EventsOwned, Ids
  <2>3. QED
    BY <2>1, <2>2
<1>8. ASSUME NEW s1 \in Requests, NEW s2 \in Requests, s1 # s2, req'[s1].ev # 0
      PROVE  req'[s1].ev # req'[s2].ev
  BY <1>4, <1>8, IdleOK DEF EventsOwned
<1>9. QED
  BY <1>2, <1>3, <1>7, <1>8 DEF EventsOwned, Ids

\* An event a transaction owns is pending and well-formed.
LEMMA OwnEvent ==
  ASSUME TypeInv, EventsOwned, NEW r \in Requests, HasEvent(r)
  PROVE  /\ req[r].phase \in {"appended", "moved"}
         /\ log[req[r].ev] = Pending(req[r])
         /\ Done(req[r]) = [log[req[r].ev] EXCEPT !.status = "committed"]
         /\ Done(req[r]) \in Event
<1>1. log \in Seq(Event) /\ 0 \notin Ids
  BY DEF TypeInv, TypeOK, Ids
<1>2. /\ req[r].phase \in {"appended", "moved"}
      /\ log[req[r].ev] = Pending(req[r])
  BY <1>1 DEF EventsOwned, HasEvent, Ids
<1>3. log[req[r].ev] \in Event
  BY <1>1 DEF HasEvent
<1>4. /\ req[r].insight \in Insights /\ req[r].from \in States /\ To(req[r].op) \in States
  BY <1>2, <1>3 DEF Pending, Event, Gap
<1>5. Done(req[r]) \in Event
  BY <1>4 DEF Done, Event
<1>6. Done(req[r]) = [log[req[r].ev] EXCEPT !.status = "committed"]
  BY <1>2 DEF Pending, Done
<1>7. QED
  BY <1>2, <1>5, <1>6

\* Committing turns the own event, if any, into a committed one.
LEMMA FinishEffect ==
  ASSUME TypeInv, EventsOwned, NEW r \in Requests, Finish(r)
  PROVE  /\ log' \in Seq(Event) /\ Len(log') = Len(log)
         /\ \A k \in Ids : log'[k] = IF HasEvent(r) /\ k = req[r].ev THEN Done(req[r]) ELSE log[k]
         /\ EventsOwned'
<1>1. HasEvent(r) => Done(req[r]) \in Event
  BY OwnEvent
<1>2. HasEvent(r) => log' = [log EXCEPT ![req[r].ev] = Done(req[r])]
  BY OwnEvent DEF Finish
<1>3. QED
  BY <1>1, <1>2, EndWritesOwnEvent DEF Finish

\* Rolling back turns it into a gap; a request without an event changes no event.
LEMMA RollbackEffect ==
  ASSUME TypeInv, EventsOwned, NEW r \in Requests, Rollback(r)
  PROVE  /\ log' \in Seq(Event) /\ Len(log') = Len(log)
         /\ \A k \in Ids : log'[k] = IF HasEvent(r) /\ k = req[r].ev THEN Gap ELSE log[k]
         /\ EventsOwned'
<1>1. Gap \in Event
  BY DEF Event
<1>2. QED
  BY <1>1, EndWritesOwnEvent DEF Rollback

----------------------------------------------------------------------------
(* One step at a time                                                      *)

\* GroundedAt in the next state, of values of either state.
GroundedNext(i, s, n) ==
  \/ s = "extracted"
  \/ \E j \in DOMAIN log' :
       log'[j].status = "committed" /\ log'[j].insight = i /\ log'[j].to = s /\ j < n

\* Committed events are never lost or rewritten, so what was grounded stays so.
LEMMA GroundedStays ==
  ASSUME \A k \in Committed :
           /\ k \in DOMAIN log' /\ log'[k].status = "committed"
           /\ log'[k].insight = log[k].insight /\ log'[k].to = log[k].to,
         NEW i, NEW s, NEW n \in Nat, NEW m \in Nat, n <= m, GroundedAt(i, s, n), log \in Seq(Event)
  PROVE  GroundedNext(i, s, m)
<1>1. CASE s = "extracted"
  BY <1>1 DEF GroundedNext
<1>2. CASE \E j \in Into(i, s) : j < n
  <2>1. PICK j \in Into(i, s) : j < n
    BY <1>2
  <2>2. j \in Committed /\ log[j].insight = i /\ log[j].to = s /\ j \in Nat
    BY <2>1 DEF Into, Committed, Ids
  <2>3. QED
    BY <2>1, <2>2 DEF GroundedNext
<1>3. QED
  BY <1>1, <1>2 DEF GroundedAt

\* Grounded in the next state, from what each part of it says of that state.
LEMMA NextGrounded ==
  ASSUME \A i \in Insights : GroundedNext(i, insight'[i].state, Len(log') + 1),
         \A s \in Requests : req'[s].phase = "checked" =>
           GroundedNext(req'[s].insight, req'[s].from, Len(log') + 1),
         \A k \in DOMAIN log' : log'[k].status # "aborted" =>
           GroundedNext(log'[k].insight, log'[k].from, k)
  PROVE  Grounded'
  BY DEF Grounded, GroundedAt, GroundedNext, Into, Committed, Ids

\* The log is the same, and no state moves.
LEMMA QuietStep ==
  ASSUME IndInv, RowsOK', RowsPersist, StatesKept, UNCHANGED log, NEW r \in Requests,
         RequestOK(req'[r]), NamesRows(req'[r]), req' = [req EXCEPT ![r] = req'[r]],
         req'[r].ev = req[r].ev,
         \/ req'[r].phase \notin {"checked", "appended", "moved"} /\ req[r].ev = 0
         \/ /\ req'[r].phase = "checked" /\ req[r].ev = 0 /\ CallsTransition(req'[r])
            /\ req'[r].from \in States
            /\ req'[r].from = insight[req'[r].insight].state /\ req'[r].insight \in Insights
         \/ /\ req'[r].phase = "moved" /\ req'[r].op = "merge" /\ CallsTransition(req'[r])
            /\ req[r].phase = "appended" /\ Pending(req'[r]) = Pending(req[r])
  PROVE  IndInv'
<1>1. TypeInv /\ EventsOwned /\ Grounded
  BY DEF IndInv
<1>2. log \in Seq(Event) /\ req \in [Requests -> Request]
  BY <1>1 DEF TypeInv, TypeOK
<1>3. TypeInv'
  BY <1>1, <1>2, TypeInvKept
<1>4. \A s \in Requests \ {r} : req'[s] = req[s]
  BY <1>2
<1>5. EventsOwned'
  <2>1. ASSUME NEW s \in Requests
        PROVE  /\ req'[s].phase \in {"checked", "appended", "moved"} => CallsTransition(req'[s])
               /\ req'[s].phase = "checked" => req'[s].from \in States
               /\ req'[s].phase = "moved" => req'[s].op = "merge"
               /\ IF req'[s].phase \in {"appended", "moved"}
                  THEN req'[s].ev \in Ids /\ log[req'[s].ev] = Pending(req'[s])
                  ELSE req'[s].ev = 0
    <3>1. CASE s = r
      BY <1>1, <3>1 DEF EventsOwned
    <3>2. CASE s # r
      BY <1>1, <1>4, <3>2 DEF EventsOwned
    <3>3. QED
      BY <3>1, <3>2
  <2>2. ASSUME NEW s1 \in Requests, NEW s2 \in Requests, s1 # s2, req'[s1].ev # 0
        PROVE  req'[s1].ev # req'[s2].ev
    BY <1>1, <1>4, <2>2 DEF EventsOwned
  <2>3. QED
    BY <2>1, <2>2 DEF EventsOwned, Ids
<1>6. Grounded'
  <2>1. \A i, s, n : GroundedAt(i, s, n)' <=> GroundedAt(i, s, n)
    BY DEF GroundedAt, Into, Committed, Ids
  <2>2. ASSUME NEW i \in Insights
        PROVE  GroundedAt(i, insight'[i].state, Len(log) + 1)
    BY <1>1 DEF Grounded, StatesKept
  <2>3. ASSUME NEW s \in Requests, req'[s].phase = "checked"
        PROVE  GroundedAt(req'[s].insight, req'[s].from, Len(log) + 1)
    <3>1. CASE s = r
      BY <1>1, <2>3, <3>1 DEF Grounded
    <3>2. CASE s # r
      BY <1>1, <1>4, <2>3, <3>2 DEF Grounded
    <3>3. QED
      BY <3>1, <3>2
  <2>4. QED
    BY <1>1, <2>2, <2>3 DEF Grounded, GroundedAt, Into, Committed, Ids
<1>7. QED
  BY <1>3, <1>5, <1>6 DEF IndInv

\* transitionInsight's INSERT: the new event is grounded by what was read.
LEMMA AppendStep ==
  ASSUME IndInv, NEW r \in Requests, AppendEvent(r)
  PROVE  IndInv'
<1> DEFINE q1 == [req[r] EXCEPT !.phase = "appended"]
           id == Len(log) + 1
           q  == [q1 EXCEPT !.ev = id]
           e  == Pending(req[r])
<1>1. TypeInv /\ EventsOwned /\ Grounded
  BY DEF IndInv
<1>2. /\ log \in Seq(Event) /\ req \in [Requests -> Request]
      /\ RequestOK(req[r]) /\ NamesRows(req[r])
  BY <1>1 DEF TypeInv, TypeOK, RowsKnown
<1>3. /\ req[r].phase = "checked" /\ log' = Append(log, e) /\ req' = [req EXCEPT ![r] = q]
      /\ UNCHANGED <<insight, ticket, proposal, draft>>
  BY DEF AppendEvent, Pending
<1>4. CallsTransition(req[r]) /\ req[r].from \in States
  BY <1>1, <1>3 DEF EventsOwned
<1>5. req[r].insight \in Insights /\ To(req[r].op) \in States
  BY <1>2, <1>4, ToIsState DEF RequestOK, CallsTransition, RaiseOps
<1>6. e \in Event
  BY <1>4, <1>5 DEF Pending, Event
<1>7. /\ RequestOK(q1) /\ q1.phase = "appended" /\ q1.op = req[r].op /\ q1.saw = req[r].saw
      /\ q1.from = req[r].from /\ q1.insight = req[r].insight
      /\ q1.row = req[r].row /\ q1.rows = req[r].rows
  BY <1>2, PhaseOK DEF Phases
<1> HIDE DEF q1
<1>8. /\ RequestOK(q) /\ q.phase = "appended" /\ q.op = req[r].op /\ q.saw = req[r].saw
      /\ q.from = req[r].from /\ q.insight = req[r].insight
      /\ q.row = req[r].row /\ q.rows = req[r].rows /\ q.ev = id
  <2>1. id \in Nat
    BY <1>2
  <2> HIDE DEF id
  <2>2. QED
    BY <1>7, <2>1, EvOK
<1>9. CallsTransition(q) /\ Pending(q) = e
  BY <1>4, <1>8 DEF CallsTransition, Pending
<1> HIDE DEF q, e
<1>10. /\ log' \in Seq(Event) /\ Len(log') = Len(log) + 1 /\ DOMAIN log' = 1 .. Len(log) + 1
       /\ \A k \in Ids : log'[k] = log[k]
       /\ log'[Len(log) + 1] = e
       /\ Ids = 1 .. Len(log) /\ Len(log) \in Nat
  BY <1>2, <1>3, <1>6 DEF Ids
<1>11. req'[r] = q /\ \A s \in Requests \ {r} : req'[s] = req[s]
  BY <1>2, <1>3
<1>12. RowsOK' /\ RowsPersist
  BY <1>1, <1>3 DEF RowsOK, RowsPersist, TypeInv, TypeOK, RowsKnown
<1>13. TypeInv'
  <2>1. NamesRows(req'[r])
    BY <1>2, <1>8, <1>11 DEF NamesRows
  <2>2. QED
    BY <1>1, <1>3, <1>8, <1>10, <1>11, <1>12, <2>1, TypeInvKept
<1>14. EventsOwned'
  <2>1. ASSUME NEW s \in Requests
        PROVE  /\ req'[s].phase \in {"checked", "appended", "moved"} => CallsTransition(req'[s])
               /\ req'[s].phase = "checked" => req'[s].from \in States
               /\ req'[s].phase = "moved" => req'[s].op = "merge"
               /\ IF req'[s].phase \in {"appended", "moved"}
                  THEN req'[s].ev \in DOMAIN log' /\ log'[req'[s].ev] = Pending(req'[s])
                  ELSE req'[s].ev = 0
    <3>1. CASE s = r
      BY <1>8, <1>9, <1>10, <1>11, <3>1
    <3>2. CASE s # r
      BY <1>1, <1>10, <1>11, <3>2 DEF EventsOwned
    <3>3. QED
      BY <3>1, <3>2
  <2>2. ASSUME NEW s1 \in Requests, NEW s2 \in Requests, s1 # s2, req'[s1].ev # 0
        PROVE  req'[s1].ev # req'[s2].ev
    <3>1. \A s \in Requests : req[s].ev \in 0 .. Len(log)
      BY <1>1, <1>10 DEF EventsOwned
    <3>2. QED
      BY <1>1, <1>8, <1>10, <1>11, <2>2, <3>1 DEF EventsOwned
  <2>3. QED
    BY <2>1, <2>2 DEF EventsOwned, Ids
<1>15. \A k \in Committed :
         /\ k \in DOMAIN log' /\ log'[k].status = "committed"
         /\ log'[k].insight = log[k].insight /\ log'[k].to = log[k].to
  BY <1>10 DEF Committed, Ids
<1>16. Grounded'
  <2>1. ASSUME NEW i \in Insights
        PROVE  GroundedNext(i, insight'[i].state, Len(log') + 1)
    BY <1>1, <1>2, <1>3, <1>10, <1>15, GroundedStays DEF Grounded
  <2>2. ASSUME NEW s \in Requests, req'[s].phase = "checked"
        PROVE  GroundedNext(req'[s].insight, req'[s].from, Len(log') + 1)
    <3>1. s # r /\ req'[s] = req[s] /\ req[s].phase = "checked"
      BY <1>8, <1>11, <2>2
    <3>2. GroundedAt(req[s].insight, req[s].from, Len(log) + 1)
      BY <1>1, <3>1 DEF Grounded
    <3>3. QED
      BY <1>2, <1>10, <1>15, <3>1, <3>2, GroundedStays
  <2>3. ASSUME NEW k \in DOMAIN log', log'[k].status # "aborted"
        PROVE  GroundedNext(log'[k].insight, log'[k].from, k)
    <3>1. CASE k \in Ids
      <4>1. log'[k] = log[k] /\ k \in Nat
        BY <1>10, <3>1
      <4>2. GroundedAt(log[k].insight, log[k].from, k)
        BY <1>1, <2>3, <3>1, <4>1 DEF Grounded
      <4>3. QED
        BY <1>2, <1>15, <4>1, <4>2, GroundedStays
    <3>2. CASE k = Len(log) + 1
      <4>1. log'[k].insight = req[r].insight /\ log'[k].from = req[r].from
        BY <1>10, <3>2 DEF e, Pending
      <4>2. GroundedAt(req[r].insight, req[r].from, Len(log) + 1)
        BY <1>1, <1>3 DEF Grounded
      <4>3. QED
        BY <1>2, <1>10, <1>15, <3>2, <4>1, <4>2, GroundedStays
    <3>3. QED
      BY <1>10, <3>1, <3>2
  <2>4. QED
    BY <2>1, <2>2, <2>3, NextGrounded
<1>17. QED
  BY <1>13, <1>14, <1>16 DEF IndInv

\* The end of a transaction, whichever way: its own event becomes e, and an
\* insight moves only to the state that e, committed, records.
LEMMA EndStep ==
  ASSUME IndInv, RowsOK', RowsPersist, NEW r \in Requests, NEW e,
         req' = [req EXCEPT ![r] = Idle], log' \in Seq(Event), Len(log') = Len(log),
         \A k \in Ids : log'[k] = IF HasEvent(r) /\ k = req[r].ev THEN e ELSE log[k],
         EventsOwned', e = Done(req[r]) \/ e = Gap,
         \A i \in Insights :
           \/ insight'[i].state = insight[i].state
           \/ /\ i = req[r].insight /\ insight'[i].state = To(req[r].op)
              /\ req[r].phase \in {"appended", "moved"} /\ e = Done(req[r])
  PROVE  IndInv'
<1>1. TypeInv /\ EventsOwned /\ Grounded
  BY DEF IndInv
<1>2. /\ log \in Seq(Event) /\ req \in [Requests -> Request]
      /\ Ids = 1 .. Len(log) /\ DOMAIN log' = 1 .. Len(log) /\ Len(log) \in Nat
  BY <1>1 DEF TypeInv, TypeOK, Ids
<1>3. req'[r] = Idle /\ \A s \in Requests \ {r} : req'[s] = req[s]
  BY <1>2
<1>4. TypeInv'
  <2>1. NamesRows(Idle)
    BY DEF NamesRows, Idle, RaiseOps
  <2>2. QED
    BY <1>1, <1>3, <2>1, IdleOK, TypeInvKept
<1>5. HasEvent(r) => log[req[r].ev] = Pending(req[r])
  BY <1>1, OwnEvent
<1>6. \A k \in Committed :
        /\ k \in DOMAIN log' /\ log'[k].status = "committed"
        /\ log'[k].insight = log[k].insight /\ log'[k].to = log[k].to
  BY <1>2, <1>5 DEF Committed, Pending, HasEvent, Ids
<1>7. Grounded'
  <2>1. ASSUME NEW i \in Insights
        PROVE  GroundedNext(i, insight'[i].state, Len(log') + 1)
    <3>1. CASE insight'[i].state = insight[i].state
      <4>1. GroundedAt(i, insight[i].state, Len(log) + 1)
        BY <1>1 DEF Grounded
      <4>2. QED
        BY <1>2, <1>6, <3>1, <4>1, GroundedStays
    <3>2. CASE /\ i = req[r].insight /\ insight'[i].state = To(req[r].op)
               /\ req[r].phase \in {"appended", "moved"} /\ e = Done(req[r])
      <4>1. HasEvent(r) /\ req[r].ev \in Ids
        BY <1>1, <3>2 DEF EventsOwned, HasEvent, Ids
      <4>2. log'[req[r].ev] = Done(req[r])
        BY <3>2, <4>1
      <4>3. QED
        BY SMTT(20), <1>2, <3>2, <4>1, <4>2 DEF GroundedNext, Done
    <3>3. QED
      BY <3>1, <3>2
  <2>2. ASSUME NEW s \in Requests, req'[s].phase = "checked"
        PROVE  GroundedNext(req'[s].insight, req'[s].from, Len(log') + 1)
    <3>1. req'[s] = req[s] /\ req[s].phase = "checked"
      BY <1>3, <2>2, IdleOK
    <3>2. GroundedAt(req[s].insight, req[s].from, Len(log) + 1)
      BY <1>1, <3>1 DEF Grounded
    <3>3. QED
      BY <1>2, <1>6, <3>1, <3>2, GroundedStays
  <2>3. ASSUME NEW k \in DOMAIN log', log'[k].status # "aborted"
        PROVE  GroundedNext(log'[k].insight, log'[k].from, k)
    <3>1. /\ log[k].status # "aborted"
          /\ log'[k].insight = log[k].insight /\ log'[k].from = log[k].from
      BY <1>2, <1>5, <2>3 DEF Pending, Done, Gap
    <3>2. GroundedAt(log[k].insight, log[k].from, k)
      BY <1>1, <1>2, <3>1 DEF Grounded
    <3>3. QED
      BY <1>2, <1>6, <3>1, <3>2, GroundedStays
  <2>4. QED
    BY <2>1, <2>2, <2>3, NextGrounded
<1>8. QED
  BY <1>4, <1>7 DEF IndInv

\* The read of transitionInsight: what it read is what the row said.
LEMMA CheckStep ==
  ASSUME IndInv, NEW r \in Requests, Check(r)
  PROVE  IndInv'
<1> DEFINE q1 == [req[r] EXCEPT !.phase = "checked"]
           was == insight[req[r].insight].state
           q  == [q1 EXCEPT !.from = was]
<1>1. TypeInv /\ EventsOwned
  BY DEF IndInv
<1>2. /\ req \in [Requests -> Request] /\ insight \in [Insights -> InsightRow]
      /\ RequestOK(req[r]) /\ NamesRows(req[r])
  BY <1>1 DEF TypeInv, TypeOK, RowsKnown
<1>3. /\ CallsTransition(req[r]) /\ req' = [req EXCEPT ![r] = q]
      /\ req[r].phase \in {"begun", "writing"}
      /\ UNCHANGED <<insight, ticket, proposal, draft, log>>
  BY DEF Check, AtCheck
<1>4. req[r].insight \in Insights
  BY <1>2, <1>3 DEF RequestOK, CallsTransition, RaiseOps
<1>5. was \in States
  BY <1>2, <1>4 DEF InsightRow
<1> HIDE DEF was
<1>6. /\ RequestOK(q1) /\ q1.phase = "checked" /\ q1.op = req[r].op /\ q1.saw = req[r].saw
      /\ q1.ev = req[r].ev /\ q1.insight = req[r].insight
      /\ q1.row = req[r].row /\ q1.rows = req[r].rows
  BY <1>2, PhaseOK DEF Phases
<1> HIDE DEF q1
<1>7. /\ RequestOK(q) /\ q.phase = "checked" /\ q.op = req[r].op /\ q.saw = req[r].saw
      /\ q.ev = req[r].ev /\ q.insight = req[r].insight /\ q.from = was
      /\ q.row = req[r].row /\ q.rows = req[r].rows
  BY <1>5, <1>6, FromOK
<1> HIDE DEF q
<1>8. req[r].ev = 0
  BY <1>1, <1>3 DEF EventsOwned
<1>9. CallsTransition(q) /\ NamesRows(q)
  BY <1>2, <1>3, <1>7 DEF CallsTransition, NamesRows
<1>10. RowsOK' /\ RowsPersist /\ StatesKept
  BY <1>1, <1>3 DEF RowsOK, RowsPersist, StatesKept, TypeInv, TypeOK, RowsKnown
<1>11. req'[r] = q
  BY <1>2, <1>3
<1>12. QED
  BY <1>3, <1>4, <1>5, <1>7, <1>8, <1>9, <1>10, <1>11, QuietStep DEF was

\* A merge takes its source row's lock between its INSERT and its COMMIT.
LEMMA MoveSourceStep ==
  ASSUME IndInv, NEW r \in Requests, MoveSource(r)
  PROVE  IndInv'
<1> DEFINE q == [req[r] EXCEPT !.phase = "moved"]
<1>1. TypeInv /\ EventsOwned
  BY DEF IndInv
<1>2. /\ req \in [Requests -> Request] /\ RequestOK(req[r]) /\ NamesRows(req[r])
  BY <1>1 DEF TypeInv, TypeOK, RowsKnown
<1>3. /\ req[r].op = "merge" /\ req[r].phase = "appended" /\ req' = [req EXCEPT ![r] = q]
      /\ UNCHANGED <<insight, ticket, proposal, draft, log>>
  BY DEF MoveSource, Phase
<1>4. /\ RequestOK(q) /\ q.phase = "moved" /\ q.op = req[r].op /\ q.saw = req[r].saw
      /\ q.ev = req[r].ev /\ q.insight = req[r].insight /\ q.from = req[r].from
      /\ q.row = req[r].row /\ q.rows = req[r].rows
  BY <1>2, PhaseOK DEF Phases
<1> HIDE DEF q
<1>5. CallsTransition(q) /\ NamesRows(q) /\ Pending(q) = Pending(req[r])
  BY <1>2, <1>3, <1>4 DEF CallsTransition, NamesRows, Pending
<1>6. RowsOK' /\ RowsPersist /\ StatesKept
  BY <1>1, <1>3 DEF RowsOK, RowsPersist, StatesKept, TypeInv, TypeOK, RowsKnown
<1>7. req'[r] = q
  BY <1>2, <1>3
<1>8. QED
  BY <1>3, <1>4, <1>5, <1>6, <1>7, QuietStep

\* A request that dies, is refused or conflicts rolls back what it wrote.
LEMMA RollbackStep ==
  ASSUME IndInv, NEW r \in Requests,
         \/ Refuse(r) \/ GiveUpIssue(r) \/ EditConflict(r) \/ DeadlockAbort(r) \/ Crash(r)
  PROVE  IndInv'
<1>1. TypeInv /\ EventsOwned
  BY DEF IndInv
<1>2. CASE Rollback(r)
  <2>1. RowsOK' /\ RowsPersist /\ StatesKept
    BY <1>1, <1>2 DEF Rollback, RowsOK, RowsPersist, StatesKept, TypeInv, TypeOK, RowsKnown
  <2>2. /\ log' \in Seq(Event) /\ Len(log') = Len(log)
        /\ \A k \in Ids : log'[k] = IF HasEvent(r) /\ k = req[r].ev THEN Gap ELSE log[k]
        /\ EventsOwned'
    BY <1>1, <1>2, RollbackEffect
  <2>3. req' = [req EXCEPT ![r] = Idle]
    BY <1>2 DEF Rollback
  <2>4. QED
    BY <2>1, <2>2, <2>3, EndStep DEF StatesKept
<1>3. CASE Refuse(r) \/ GiveUpIssue(r)
  <2>1. req[r].ev = 0
    BY <1>1, <1>3 DEF EventsOwned, Refuse, GiveUpIssue, AtCheck
  <2>2. ~HasEvent(r)
    BY <1>1, <2>1 DEF HasEvent, TypeInv, TypeOK
  <2>3. Rollback(r)
    BY <1>3, <2>2 DEF Rollback, Refuse, GiveUpIssue
  <2>4. QED
    BY <1>2, <2>3
<1>4. QED
  BY <1>2, <1>3 DEF EditConflict, DeadlockAbort, Crash

\* A commit keeps the invariant: the event it owns becomes committed as the
\* insight's state follows it.
LEMMA CommitStep ==
  ASSUME IndInv, NEW r \in Requests, Commit(r)
  PROVE  IndInv'
<1>1. TypeInv /\ EventsOwned
  BY DEF IndInv
<1>2. Commits(r) /\ RowsOK' /\ RowsPersist
  BY <1>1, CommitCommits
<1>3. Finish(r)
  BY <1>2 DEF Commits
<1>4. /\ log' \in Seq(Event) /\ Len(log') = Len(log)
      /\ \A k \in Ids : log'[k] = IF HasEvent(r) /\ k = req[r].ev THEN Done(req[r]) ELSE log[k]
      /\ EventsOwned'
  BY <1>1, <1>3, FinishEffect
<1>5. req' = [req EXCEPT ![r] = Idle]
  BY <1>3 DEF Finish
<1>6. \A i \in Insights :
        \/ insight'[i].state = insight[i].state
        \/ /\ i = req[r].insight /\ insight'[i].state = To(req[r].op)
           /\ req[r].phase \in {"appended", "moved"}
  BY <1>2 DEF Commits
<1>7. QED
  BY <1>2, <1>4, <1>5, <1>6, EndStep

\* FileIssue and EnterTx keep the invariant: neither event nor state moves.
LEMMA AdvanceStep ==
  ASSUME IndInv, NEW r \in Requests, FileIssue(r) \/ EnterTx(r)
  PROVE  IndInv'
<1>1. TypeInv /\ EventsOwned
  BY DEF IndInv
<1>2. GoesOn(r) /\ RowsOK' /\ RowsPersist
  BY <1>1, AdvanceGoesOn
<1>3. req[r].ev = 0
  BY <1>1 DEF EventsOwned, FileIssue, EnterTx
<1>4. QED
  BY <1>2, <1>3, QuietStep DEF GoesOn

\* An arriving request keeps the invariant: it owns no event and read no state.
LEMMA ArriveStep ==
  ASSUME IndInv, NEW r \in Requests, Arrive(r)
  PROVE  IndInv'
<1>1. TypeInv /\ EventsOwned
  BY DEF IndInv
<1>2. Arrived(r)
  BY <1>1, ArriveArrives
<1>3. RowsOK' /\ RowsPersist /\ StatesKept
  BY <1>1, <1>2 DEF Arrived, RowsOK, RowsPersist, StatesKept, TypeInv, TypeOK, RowsKnown
<1>4. req[r].ev = 0
  BY <1>1, <1>2 DEF Arrived, EventsOwned
<1>5. QED
  BY <1>2, <1>3, <1>4, QuietStep DEF Arrived

\* The invariant holds of the empty database.
LEMMA InitInd == Init => IndInv
<1> SUFFICES ASSUME Init PROVE IndInv
  OBVIOUS
<1>1. TypeInv
  BY InitTypeInv
<1>2. Ids = {} /\ \A r \in Requests : req[r] = Idle
  BY DEF Init, Ids
<1>3. EventsOwned
  BY <1>2, IdleOK DEF EventsOwned
<1>4. Grounded
  BY <1>2, IdleOK DEF Grounded, GroundedAt, Init, NewInsight
<1>5. QED
  BY <1>1, <1>3, <1>4 DEF IndInv

\* Every step keeps the invariant, action by action.
LEMMA NextInd == IndInv /\ [Next]_vars => IndInv'
<1> SUFFICES ASSUME IndInv, [Next]_vars PROVE IndInv'
  OBVIOUS
<1>1. ASSUME NEW r \in Requests, Arrive(r) PROVE IndInv'
  BY <1>1, ArriveStep
<1>2. ASSUME NEW r \in Requests, Step(r) PROVE IndInv'
  BY <1>2, AdvanceStep, CheckStep, AppendStep, MoveSourceStep, RollbackStep, CommitStep
     DEF Step, Commit
<1>3. ASSUME NEW r \in Requests, Crash(r) PROVE IndInv'
  BY <1>3, RollbackStep
<1>4. ASSUME Suggest PROVE IndInv'
  <2>1. TypeInv
    BY DEF IndInv
  <2>2. RowsOK' /\ RowsPersist /\ UNCHANGED <<insight, log, req>>
    BY <1>4, <2>1, SuggestKeeps
  <2>3. TypeInv'
    <3>1. ASSUME NEW r \in Requests PROVE NamesRows(req[r])'
      BY <2>1, <2>2 DEF NamesRows, RowsPersist, TypeInv, TypeOK, RowsKnown, RequestOK, Request
    <3>2. QED
      BY <2>1, <2>2, <3>1 DEF TypeInv, TypeOK, RowsKnown, RowsOK, RequestOK, NamesRows
  <2>4. EventsOwned' /\ Grounded'
    BY <2>2 DEF IndInv, EventsOwned, Grounded, GroundedAt, Into, Committed, Ids
  <2>5. QED
    BY <2>3, <2>4 DEF IndInv
<1>5. CASE UNCHANGED vars
  BY <1>5 DEF vars, IndInv, TypeInv, TypeOK, RowsKnown, RequestOK, NamesRows, EventsOwned,
     Grounded, GroundedAt, Into, Committed, Ids
<1>6. QED
  BY <1>1, <1>2, <1>3, <1>4, <1>5 DEF Next

----------------------------------------------------------------------------
(* Theorems                                                                *)

\* The strengthening holds in every reachable state, of every instance.
THEOREM Invariance == Spec => []IndInv
  BY InitInd, NextInd, PTL DEF Spec

\* Type correctness: every row, event and request in flight keeps its type,
\* whatever requests interleave, crash or deadlock.
THEOREM TypeCorrect == Spec => []TypeOK
<1>1. IndInv => TypeOK
  BY DEF IndInv, TypeInv
<1>2. QED
  BY <1>1, Invariance, PTL

\* transitionInsight's events chain: from_state is always a state that an
\* earlier committed event recorded, although it is read without a lock.
THEOREM LogIsGrounded == Spec => []LogGrounded
<1>1. IndInv => LogGrounded
  BY DEF IndInv, Grounded, GroundedAt, LogGrounded, Committed
<1>2. QED
  BY <1>1, Invariance, PTL

----------------------------------------------------------------------------
(***************************************************************************)
(* What the event log of InsightLifecycle tells a reader, for every        *)
(* instance: the cached states can be read from it, and the milestones of  *)
(* an insight come in the order of the transition map.                     *)
(*                                                                         *)
(* Both follow from IndInv and two facts about single events: an event is  *)
(* always an edge of the map (Check consulted it, and nobody rewrites the  *)
(* event), and the commit of an event moves its insight away from          *)
(* extracted, to which no edge leads back.                                 *)
(***************************************************************************)

\* Every event is an edge of the map, and so is one about to be appended.
EdgesKnown ==
  /\ \A r \in Requests :
       req[r].phase = "checked" => canTransition(req[r].from, To(req[r].op))
  /\ \A k \in Ids : log[k].status # "aborted" => canTransition(log[k].from, log[k].to)

\* An insight with a committed event has left extracted.
EventsMoved == \A k \in Committed : insight[log[k].insight].state # "extracted"

LogInv == IndInv /\ EdgesKnown /\ EventsMoved

----------------------------------------------------------------------------

\* No edge of the transition map leads back to extracted.
LEMMA NothingBackToExtracted ==
  ASSUME NEW from, NEW to, canTransition(from, to)
  PROVE  to # "extracted"
  BY DEF canTransition, TRANSITIONS, Edge

\* A transaction that commits an event also moves the event's insight.
LEMMA CommitMovesOwn ==
  ASSUME IndInv, NEW r \in Requests, Commit(r), HasEvent(r)
  PROVE  insight'[req[r].insight].state = To(req[r].op)
<1> DEFINE q == req[r]
<1>1. TypeInv /\ EventsOwned
  BY DEF IndInv
<1>2. q.phase \in {"appended", "moved"}
  BY <1>1, OwnEvent
<1>3. CallsTransition(q) /\ (q.phase = "moved" => q.op = "merge")
  BY <1>1, <1>2 DEF EventsOwned
<1>4. insight \in [Insights -> InsightRow] /\ RequestOK(q)
  BY <1>1 DEF TypeInv, TypeOK, RowsKnown
<1>5. q.insight \in Insights /\ insight[q.insight] \in InsightRow
  BY <1>3, <1>4 DEF RequestOK, CallsTransition, RaiseOps
<1> HIDE DEF q
<1>6. CASE SetState(r)
  <2>1. insight' = [insight EXCEPT ![q.insight].state = To(q.op)]
    BY <1>6 DEF SetState, q
  <2>2. QED
    BY <1>4, <1>5, <2>1 DEF InsightRow, q
<1>7. CASE CommitTriage(r)
  <2> DEFINE who == IF q.arg = None THEN insight[q.insight].assignee ELSE q.arg
             routed == [insight[q.insight] EXCEPT !.track = q.track]
             given  == [routed EXCEPT !.assignee = who]
             row    == [given EXCEPT !.state = "triaged"]
  <2>1. q.op = "triage" /\ insight' = [insight EXCEPT ![q.insight] = row]
    BY <1>3, <1>7 DEF CommitTriage, q
  <2> HIDE DEF who
  <2>2. routed.state = insight[q.insight].state /\ DOMAIN routed = DOMAIN insight[q.insight]
    BY <1>5 DEF InsightRow
  <2> HIDE DEF routed
  <2>3. DOMAIN given = DOMAIN insight[q.insight]
    BY <2>2
  <2> HIDE DEF given
  <2>4. row.state = "triaged"
    BY <1>5, <2>3 DEF InsightRow
  <2> HIDE DEF row
  <2>5. To(q.op) = "triaged"
    BY <2>1 DEF To, RaiseOps
  <2>6. QED
    BY <1>4, <1>5, <2>1, <2>4, <2>5 DEF q
<1>8. CASE CommitFinalize(r)
  <2> DEFINE moved == [insight[q.insight] EXCEPT !.state = "finalized"]
             row   == [moved EXCEPT !.finalizedBy = q.actor]
  <2>1. q.op = "finalize" /\ insight' = [insight EXCEPT ![q.insight] = row]
    BY <1>8 DEF CommitFinalize, q
  <2>2. moved.state = "finalized" /\ DOMAIN moved = DOMAIN insight[q.insight]
    BY <1>5 DEF InsightRow
  <2> HIDE DEF moved
  <2>3. row.state = "finalized"
    BY <1>5, <2>2 DEF InsightRow
  <2> HIDE DEF row
  <2>4. To(q.op) = "finalized"
    BY <2>1 DEF To, RaiseOps
  <2>5. QED
    BY <1>4, <1>5, <2>1, <2>3, <2>4 DEF q
<1>9. CASE CommitMerge(r)
  <2> DEFINE moved == [insight[q.insight] EXCEPT !.state = "merged"]
             row   == [moved EXCEPT !.mergedInto = q.arg]
  <2>1. q.op = "merge" /\ insight' = [insight EXCEPT ![q.insight] = row]
    BY <1>9 DEF CommitMerge, q
  <2>2. moved.state = "merged" /\ DOMAIN moved = DOMAIN insight[q.insight]
    BY <1>5 DEF InsightRow
  <2> HIDE DEF moved
  <2>3. row.state = "merged"
    BY <1>5, <2>2 DEF InsightRow
  <2> HIDE DEF row
  <2>4. To(q.op) = "merged"
    BY <2>1 DEF To, RaiseOps
  <2>5. QED
    BY <1>4, <1>5, <2>1, <2>3, <2>4 DEF q
<1>10. CASE CommitEdit(r) \/ CommitRejectProposal(r) \/ CommitMarkStale(r)
  BY <1>3, <1>10 DEF CommitEdit, CommitRejectProposal, CommitMarkStale, CallsTransition, RaiseOps, q
<1>11. CASE CommitReject(r) \/ CommitClose(r)
  BY <1>6, <1>11 DEF CommitReject, CommitClose
<1>12. CASE CommitRaise(r) \/ CommitConfirm(r) \/ CommitCopy(r)
  BY <1>3, <1>6, <1>12 DEF CommitRaise, CommitConfirm, CommitCopy, MaySetState, q
<1>13. QED
  BY <1>7, <1>8, <1>9, <1>10, <1>11, <1>12 DEF Commit

\* A step that appends no event and writes only its own, turning it into e,
\* keeps EdgesKnown.
LEMMA EdgesStay ==
  ASSUME LogInv, NEW r \in Requests, NEW e, req' = [req EXCEPT ![r] = req'[r]],
         log' \in Seq(Event), Len(log') = Len(log),
         \A k \in Ids : log'[k] = IF HasEvent(r) /\ k = req[r].ev THEN e ELSE log[k],
         e = Done(req[r]) \/ e = Gap,
         req'[r].phase = "checked" => canTransition(req'[r].from, To(req'[r].op))
  PROVE  EdgesKnown'
<1>1. TypeInv /\ EventsOwned /\ EdgesKnown
  BY DEF LogInv, IndInv
<1>2. /\ req \in [Requests -> Request] /\ log \in Seq(Event)
      /\ Ids = 1 .. Len(log) /\ DOMAIN log' = Ids
  BY <1>1 DEF TypeInv, TypeOK, Ids
<1>3. HasEvent(r) => log[req[r].ev] = Pending(req[r])
  BY <1>1, OwnEvent
<1>4. ASSUME NEW k \in Ids, log'[k].status # "aborted"
      PROVE  canTransition(log'[k].from, log'[k].to)
  <2>1. log[k].status # "aborted" /\ log'[k].from = log[k].from /\ log'[k].to = log[k].to
    BY <1>3, <1>4 DEF Done, Gap, Pending
  <2>2. QED
    BY <1>1, <2>1 DEF EdgesKnown
<1>5. ASSUME NEW s \in Requests, req'[s].phase = "checked"
      PROVE  canTransition(req'[s].from, To(req'[s].op))
  BY <1>1, <1>2, <1>5 DEF EdgesKnown
<1>6. QED
  BY <1>2, <1>4, <1>5 DEF EdgesKnown, Ids

\* A step that commits no event and moves no state keeps EventsMoved.
LEMMA MovedStay ==
  ASSUME LogInv, StatesKept, log \in Seq(Event),
         \A k \in Committed' : k \in Ids /\ log[k] = log'[k]
  PROVE  EventsMoved'
<1>1. ASSUME NEW k \in Committed'
      PROVE  insight'[log'[k].insight].state # "extracted"
  <2>1. k \in Committed /\ log[k] = log'[k]
    BY <1>1 DEF Committed, Ids
  <2>2. log[k].insight \in Insights
    BY <2>1 DEF Committed, Ids, Event, Gap
  <2>3. QED
    BY <2>1, <2>2 DEF LogInv, EventsMoved, StatesKept
<1>2. QED
  BY <1>1 DEF EventsMoved

\* A step that writes no event.
LEMMA LogUntouched ==
  ASSUME LogInv, NEW r \in Requests, UNCHANGED log, StatesKept,
         req' = [req EXCEPT ![r] = req'[r]],
         req'[r].phase = "checked" => canTransition(req'[r].from, To(req'[r].op))
  PROVE  EdgesKnown' /\ EventsMoved'
<1>1. /\ EdgesKnown /\ EventsMoved
      /\ req \in [Requests -> Request] /\ log \in Seq(Event)
  BY DEF LogInv, IndInv, TypeInv, TypeOK
<1>2. \A s \in Requests \ {r} : req'[s] = req[s]
  BY <1>1
<1>3. \A s \in Requests : req'[s].phase = "checked" => canTransition(req'[s].from, To(req'[s].op))
  BY <1>1, <1>2 DEF EdgesKnown
<1>4. EdgesKnown'
  BY <1>1, <1>3 DEF EdgesKnown, Ids
<1>5. EventsMoved'
  BY <1>1, MovedStay DEF Committed, Ids
<1>6. QED
  BY <1>4, <1>5

\* transitionInsight's INSERT keeps the log invariant: the edge was checked
\* against the transition map, and the event is still pending.
LEMMA LogAppend ==
  ASSUME LogInv, NEW r \in Requests, AppendEvent(r)
  PROVE  EdgesKnown' /\ EventsMoved'
<1> DEFINE e == Pending(req[r])
           q == [req[r] EXCEPT !.phase = "appended", !.ev = Len(log) + 1]
<1>1. /\ EdgesKnown /\ EventsMoved
      /\ req \in [Requests -> Request] /\ log \in Seq(Event)
  BY DEF LogInv, IndInv, TypeInv, TypeOK
<1>2. /\ req[r].phase = "checked" /\ log' = Append(log, e) /\ req' = [req EXCEPT ![r] = q]
      /\ UNCHANGED insight
  BY DEF AppendEvent, Pending
<1>3. q.phase = "appended"
  <2>1. DOMAIN req[r] = DOMAIN Idle
    BY <1>1 DEF Request, Idle
  <2>2. QED
    BY <2>1 DEF Idle
<1>4. canTransition(req[r].from, To(req[r].op))
  BY <1>1, <1>2 DEF EdgesKnown
<1>5. e.from = req[r].from /\ e.to = To(req[r].op) /\ e.status = "pending"
  BY DEF Pending
<1> HIDE DEF e, q
<1>6. /\ Ids = 1 .. Len(log) /\ DOMAIN log' = 1 .. Len(log) + 1 /\ Len(log) \in Nat
      /\ \A k \in Ids : log'[k] = log[k]
      /\ log'[Len(log) + 1] = e
  BY <1>1, <1>2 DEF Ids
<1>7. EdgesKnown'
  <2>1. ASSUME NEW k \in DOMAIN log', log'[k].status # "aborted"
        PROVE  canTransition(log'[k].from, log'[k].to)
    BY <1>1, <1>4, <1>5, <1>6, <2>1 DEF EdgesKnown
  <2>2. ASSUME NEW s \in Requests, req'[s].phase = "checked"
        PROVE  canTransition(req'[s].from, To(req'[s].op))
    BY <1>1, <1>2, <1>3, <2>2 DEF EdgesKnown
  <2>3. QED
    BY <2>1, <2>2 DEF EdgesKnown, Ids
<1>8. EventsMoved'
  <2>1. \A k \in Committed' : k \in Ids /\ log[k] = log'[k]
    BY <1>5, <1>6 DEF Committed, Ids
  <2>2. QED
    BY <1>1, <1>2, <2>1, MovedStay DEF StatesKept
<1>9. QED
  BY <1>7, <1>8

\* A rollback turns the own event into a gap, which both conjuncts ignore.
LEMMA LogRollback ==
  ASSUME LogInv, NEW r \in Requests, Rollback(r)
  PROVE  EdgesKnown' /\ EventsMoved'
<1>1. TypeInv /\ EventsOwned /\ log \in Seq(Event) /\ req \in [Requests -> Request]
  BY DEF LogInv, IndInv, TypeInv, TypeOK
<1>2. /\ log' \in Seq(Event) /\ Len(log') = Len(log)
      /\ \A k \in Ids : log'[k] = IF HasEvent(r) /\ k = req[r].ev THEN Gap ELSE log[k]
  BY <1>1, RollbackEffect
<1>3. req' = [req EXCEPT ![r] = Idle] /\ req'[r] = Idle /\ StatesKept
  BY <1>1 DEF Rollback, StatesKept
<1>4. EdgesKnown'
  BY <1>2, <1>3, IdleOK, EdgesStay
<1>5. \A k \in Committed' : k \in Ids /\ log[k] = log'[k]
  BY <1>1, <1>2 DEF Committed, Ids, Gap
<1>6. QED
  BY <1>1, <1>3, <1>4, <1>5, MovedStay

\* A commit keeps the log invariant: its event and its state move together.
LEMMA LogCommit ==
  ASSUME LogInv, NEW r \in Requests, Commit(r)
  PROVE  EdgesKnown' /\ EventsMoved'
<1>1. /\ IndInv /\ TypeInv /\ EventsOwned /\ EdgesKnown /\ EventsMoved
      /\ log \in Seq(Event) /\ req \in [Requests -> Request]
  BY DEF LogInv, IndInv, TypeInv, TypeOK
<1>2. Commits(r)
  BY <1>1, CommitCommits
<1>3. /\ log' \in Seq(Event) /\ Len(log') = Len(log)
      /\ \A k \in Ids : log'[k] = IF HasEvent(r) /\ k = req[r].ev THEN Done(req[r]) ELSE log[k]
  BY <1>1, <1>2, FinishEffect DEF Commits
<1>4. req' = [req EXCEPT ![r] = Idle] /\ req'[r] = Idle
  BY <1>1, <1>2 DEF Commits, Finish
<1>5. EdgesKnown'
  BY <1>3, <1>4, IdleOK, EdgesStay
<1>6. req[r].phase \in {"appended", "moved"} => HasEvent(r) /\ log[req[r].ev] = Pending(req[r])
  BY <1>1 DEF EventsOwned, HasEvent, Ids
<1>7. HasEvent(r) => To(req[r].op) # "extracted"
  <2>1. ASSUME HasEvent(r)
        PROVE  canTransition(log[req[r].ev].from, log[req[r].ev].to) /\ log[req[r].ev].to = To(req[r].op)
    <3>1. log[req[r].ev] = Pending(req[r]) /\ req[r].ev \in Ids
      BY <1>1, <2>1, OwnEvent DEF HasEvent, Ids
    <3>2. QED
      BY <1>1, <3>1 DEF EdgesKnown, Pending
  <2>2. QED
    BY <2>1, NothingBackToExtracted
<1>8. ASSUME NEW k \in Committed'
      PROVE  insight'[log'[k].insight].state # "extracted"
  <2>1. k \in Ids
    BY <1>1, <1>3 DEF Committed, Ids
  <2>2. CASE HasEvent(r) /\ k = req[r].ev
    <3>1. log'[k].insight = req[r].insight
      BY <1>3, <2>1, <2>2 DEF Done
    <3>2. QED
      BY <1>1, <1>7, <2>2, <3>1, CommitMovesOwn
  <2>3. CASE ~(HasEvent(r) /\ k = req[r].ev)
    <3>1. k \in Committed /\ log'[k] = log[k]
      BY <1>3, <1>8, <2>1, <2>3 DEF Committed, Ids
    <3>2. insight[log[k].insight].state # "extracted" /\ log[k].insight \in Insights
      BY <1>1, <3>1 DEF EventsMoved, Committed, Ids, Event, Gap
    <3>3. QED
      BY <1>2, <1>6, <1>7, <3>1, <3>2 DEF Commits
  <2>4. QED
    BY <2>2, <2>3
<1>9. QED
  BY <1>5, <1>8 DEF EventsMoved

\* The log invariant holds of the empty database.
LEMMA LogInvInit == Init => LogInv
<1> SUFFICES ASSUME Init PROVE LogInv
  OBVIOUS
<1>1. Ids = {} /\ \A r \in Requests : req[r] = Idle
  BY DEF Init, Ids
<1>2. EdgesKnown /\ EventsMoved
  BY <1>1, IdleOK DEF EdgesKnown, EventsMoved, Committed
<1>3. QED
  BY <1>2, InitInd DEF LogInv

\* Every step keeps the log invariant, action by action.
LEMMA LogInvNext == LogInv /\ [Next]_vars => LogInv'
<1> SUFFICES ASSUME LogInv, [Next]_vars PROVE LogInv'
  OBVIOUS
<1>1. /\ IndInv /\ IndInv' /\ TypeInv /\ EventsOwned
      /\ req \in [Requests -> Request]
  BY NextInd DEF LogInv, IndInv, TypeInv, TypeOK
<1>2. ASSUME NEW r \in Requests, Arrive(r) PROVE EdgesKnown' /\ EventsMoved'
  <2>1. Arrived(r)
    BY <1>1, <1>2, ArriveArrives
  <2>2. QED
    BY <2>1, LogUntouched DEF Arrived, StatesKept
<1>3. ASSUME NEW r \in Requests, FileIssue(r) \/ EnterTx(r) PROVE EdgesKnown' /\ EventsMoved'
  <2>1. GoesOn(r)
    BY <1>1, <1>3, AdvanceGoesOn
  <2>2. QED
    BY <2>1, LogUntouched DEF GoesOn
<1>4. ASSUME NEW r \in Requests, Check(r) PROVE EdgesKnown' /\ EventsMoved'
  <2> DEFINE was == insight[req[r].insight].state
             q1 == [req[r] EXCEPT !.phase = "checked"]
             q  == [q1 EXCEPT !.from = was]
  <2>1. req' = [req EXCEPT ![r] = q] /\ Permitted(req[r]) /\ StatesKept /\ UNCHANGED log
    BY <1>4 DEF Check, StatesKept
  <2>2. canTransition(was, To(req[r].op))
    BY <2>1 DEF Permitted, canTransition
  <2> HIDE DEF was
  <2>3. /\ q1.op = req[r].op /\ DOMAIN q1 = DOMAIN req[r]
        /\ "from" \in DOMAIN req[r]
    BY <1>1 DEF Request
  <2> HIDE DEF q1
  <2>4. q.op = req[r].op /\ q.from = was
    BY <2>3
  <2> HIDE DEF q
  <2>5. req'[r] = q
    BY <1>1, <2>1
  <2>6. QED
    BY <2>1, <2>2, <2>4, <2>5, LogUntouched
<1>5. ASSUME NEW r \in Requests, MoveSource(r) PROVE EdgesKnown' /\ EventsMoved'
  <2> DEFINE q == [req[r] EXCEPT !.phase = "moved"]
  <2>1. req' = [req EXCEPT ![r] = q] /\ StatesKept /\ UNCHANGED log
    BY <1>5 DEF MoveSource, Phase, StatesKept
  <2>2. q.phase = "moved"
    BY <1>1 DEF Request
  <2> HIDE DEF q
  <2>3. req'[r] = q
    BY <1>1, <2>1
  <2>4. QED
    BY <2>1, <2>2, <2>3, LogUntouched
<1>6. ASSUME NEW r \in Requests, Refuse(r) \/ GiveUpIssue(r) PROVE EdgesKnown' /\ EventsMoved'
  <2>1. req' = [req EXCEPT ![r] = Idle] /\ StatesKept /\ UNCHANGED log
    BY <1>6 DEF Refuse, GiveUpIssue, StatesKept
  <2>2. req'[r] = Idle
    BY <1>1, <2>1
  <2>3. QED
    BY <2>1, <2>2, IdleOK, LogUntouched
<1>7. ASSUME NEW r \in Requests, EditConflict(r) \/ DeadlockAbort(r) \/ Crash(r)
      PROVE  EdgesKnown' /\ EventsMoved'
  BY <1>7, LogRollback DEF EditConflict, DeadlockAbort, Crash
<1>8. ASSUME Suggest PROVE EdgesKnown' /\ EventsMoved'
  <2>1. UNCHANGED <<insight, log, req>>
    BY <1>1, <1>8, SuggestKeeps
  <2>2. QED
    BY <2>1 DEF LogInv, EdgesKnown, EventsMoved, Committed, Ids
<1>9. CASE UNCHANGED vars
  BY <1>9 DEF vars, LogInv, EdgesKnown, EventsMoved, Committed, Ids, IndInv, TypeInv, TypeOK,
     RowsKnown, RequestOK, NamesRows, EventsOwned, Grounded, GroundedAt, Into
<1>10. ASSUME NEW r \in Requests, Step(r) PROVE EdgesKnown' /\ EventsMoved'
  BY <1>3, <1>4, <1>5, <1>6, <1>7, <1>10, LogAppend, LogCommit DEF Step, Commit
<1>11. QED
  BY <1>1, <1>2, <1>7, <1>8, <1>9, <1>10 DEF LogInv, Next

\* The log invariant holds in every reachable state, of every instance.
THEOREM LogInvariance == Spec => []LogInv
  BY LogInvInit, LogInvNext, PTL DEF Spec

\* "Status columns are caches": once a transition is committed, the cached
\* state of an insight is one the event log records for it, and before that it
\* is extracted (events.ts 155-177).
THEOREM CacheIsInLog == Spec => []CacheInLog
<1>1. LogInv => CacheInLog
  <2> SUFFICES ASSUME LogInv, NEW i \in Insights
               PROVE  IF \E k \in Committed : log[k].insight = i
                      THEN Into(i, insight[i].state) # {}
                      ELSE insight[i].state = "extracted"
    BY DEF CacheInLog
  <2>1. insight[i].state = "extracted" \/ \E j \in Into(i, insight[i].state) : TRUE
    BY DEF LogInv, IndInv, Grounded, GroundedAt
  <2>2. (\E k \in Committed : log[k].insight = i) => insight[i].state # "extracted"
    BY DEF LogInv, EventsMoved
  <2>3. QED
    BY <2>1, <2>2 DEF Into
<1>2. QED
  BY <1>1, LogInvariance, PTL

\* An event into a milestone comes after one into the milestone before: its edge leaves
\* no other state to come from, and that state is in the log.
LEMMA OrderedByLog == LogInv => MilestonesInOrder
<1> SUFFICES ASSUME LogInv PROVE MilestonesInOrder
  OBVIOUS
<1>1. ASSUME NEW i, NEW s, s # "triaged", s # "rejected", s # "merged", NEW k \in Into(i, s)
      PROVE  /\ k \in Nat /\ canTransition(log[k].from, s)
             /\ log[k].from = "extracted" \/ \E j \in Into(i, log[k].from) : j < k
  BY DEF LogInv, IndInv, TypeInv, TypeOK, EdgesKnown, Grounded, GroundedAt, Into, Committed, Ids
<1>2. ASSUME NEW i, NEW k \in Into(i, "ticketed")
      PROVE  \E j \in Into(i, "finalized") : j < k
  <2>1. log[k].from = "finalized"
    BY <1>1 DEF canTransition, TRANSITIONS, Edge
  <2>2. QED
    BY <1>1, <2>1
<1>3. ASSUME NEW i, NEW k \in Into(i, "shipped")
      PROVE  \E j \in Into(i, "finalized") : j < k
  <2>1. log[k].from \in {"finalized", "ticketed"}
    BY <1>1 DEF canTransition, TRANSITIONS, Edge
  <2>2. CASE log[k].from = "finalized"
    BY <1>1, <2>2
  <2>3. CASE log[k].from = "ticketed"
    <3>1. PICK t \in Into(i, "ticketed") : t < k
      BY <1>1, <2>3
    <3>2. PICK j \in Into(i, "finalized") : j < t
      BY <1>2
    <3>3. j \in Nat /\ t \in Nat /\ k \in Nat
      BY <1>1
    <3>4. QED
      BY <3>1, <3>2, <3>3
  <2>4. QED
    BY <2>1, <2>2, <2>3
<1>4. ASSUME NEW i, NEW k \in Into(i, "client_notified")
      PROVE  \E j \in Into(i, "shipped") : j < k
  <2>1. log[k].from = "shipped"
    BY <1>1 DEF canTransition, TRANSITIONS, Edge
  <2>2. QED
    BY <1>1, <2>1
<1>5. ASSUME NEW i, NEW k \in Into(i, "closed")
      PROVE  \E j \in Into(i, "shipped") : j < k
  <2>1. log[k].from \in {"shipped", "client_notified"}
    BY <1>1 DEF canTransition, TRANSITIONS, Edge
  <2>2. CASE log[k].from = "shipped"
    BY <1>1, <2>2
  <2>3. CASE log[k].from = "client_notified"
    <3>1. PICK n \in Into(i, "client_notified") : n < k
      BY <1>1, <2>3
    <3>2. PICK j \in Into(i, "shipped") : j < n
      BY <1>4
    <3>3. j \in Nat /\ n \in Nat /\ k \in Nat
      BY <1>1
    <3>4. QED
      BY <3>1, <3>2, <3>3
  <2>4. QED
    BY <2>1, <2>2, <2>3
<1>6. QED
  BY <1>2, <1>3, <1>4, <1>5 DEF MilestonesInOrder

\* The turnaround times of insight_milestones are never negative: the first
\* event into each milestone comes after the first event into the one before,
\* however the requests that wrote them interleaved.
THEOREM MilestonesAreOrdered == Spec => []MilestonesInOrder
  BY OrderedByLog, LogInvariance, PTL

----------------------------------------------------------------------------
(*****************************************************************************)
(* What is written beside the event log of InsightLifecycle agrees with      *)
(* it, for every instance: bodies lose no edit, second UPDATEs of an         *)
(* insight stay with their event, and the tables of tickets, proposals and   *)
(* drafts hold what the log's events cite.  Then, what holds only while      *)
(* requests come one at a time, and that the abstract ledger and board are   *)
(* implemented.                                                              *)
(*****************************************************************************)

----------------------------------------------------------------------------
(*****************************************************************************)
(* The agreement with the tables is not inductive: a confirmation that       *)
(* makes no transition relies on what it saw before its transaction, so      *)
(* what it saw must be in the log (SeenShipped), and rows that hold events   *)
(* must be there, so that they stay with their insight (EventRows).          *)
(*****************************************************************************)

\* A request that finalizes names its actor.
ActorsKnown == \A r \in Requests : req[r].op = "finalize" => req[r].actor \in Users

\* A confirmation that saw the insight shipped saw what the log says.
SeenShipped ==
  \A r \in Requests :
    req[r].op = "confirm" /\ req[r].saw \in PastShipped => Into(req[r].insight, "shipped") # {}

\* A row with an event is there.
EventRows ==
  /\ \A t \in Tickets : ticket[t].events # {} => ticket[t].state # "absent"
  /\ \A p \in Proposals : proposal[p].events # {} => proposal[p].status # "absent"

TableInv ==
  /\ LogInv /\ ActorsKnown /\ SeenShipped /\ EventRows
  /\ NoLostEdit /\ SecondUpdatesMatchLog /\ TablesAgreeWithLog

----------------------------------------------------------------------------
(* What an arriving request holds, and what it keeps                        *)

Sound(q) ==
  /\ q.op = "finalize" => q.actor \in Users
  /\ q.op = "confirm" => q.saw = insight[q.insight].state

\* Begin puts q into its slot.
LEMMA BeginPuts ==
  ASSUME TypeInv, NEW r \in Requests, NEW q, Begin(r, q), Sound(q)
  PROVE  Sound(req'[r])
<1>1. req'[r] = q
  BY DEF Begin, TypeInv, TypeOK
<1>2. QED
  BY <1>1

\* Every handler knows its user, and confirmEvidence reads the state it goes by.
LEMMA ArriveSound ==
  ASSUME TypeInv, NEW r \in Requests, Arrive(r)
  PROVE  Sound(req'[r])
<1> USE DEF Sound, Idle, Call, Reading
<1>1. ASSUME NEW u \in Users, NEW i \in Insights, BeginTriage(r, i, u) PROVE Sound(req'[r])
  <2>1. PICK a \in Users \cup {None}, track \in Tracks :
          Begin(r, [Reading("triage", i, u) EXCEPT !.row = i, !.arg = a, !.track = track])
    BY <1>1 DEF BeginTriage
  <2> DEFINE q == [Reading("triage", i, u) EXCEPT !.row = i, !.arg = a, !.track = track]
  <2>2. Sound(q)
    OBVIOUS
  <2> HIDE DEF q
  <2>3. QED
    BY <2>1, <2>2, BeginPuts DEF q
<1>2. ASSUME NEW u \in Users, NEW i \in Insights, BeginEdit(r, i, u) PROVE Sound(req'[r])
  <2>1. PICK body \in {"text", "empty"} :
          Begin(r, [Call("edit", i, u) EXCEPT !.arg = body, !.base = version(i)])
    BY <1>2 DEF BeginEdit
  <2> DEFINE q == [Call("edit", i, u) EXCEPT !.arg = body, !.base = version(i)]
  <2>2. Sound(q)
    OBVIOUS
  <2> HIDE DEF q
  <2>3. QED
    BY <2>1, <2>2, BeginPuts DEF q
<1>3. ASSUME NEW u \in Users, NEW i \in Insights,
             BeginFinalize(r, i, u) \/ BeginReject(r, i, u) \/ BeginCopy(r, i, u)
      PROVE  Sound(req'[r])
  <2>1. Sound(Call("finalize", i, u)) /\ Sound(Call("reject", i, u)) /\ Sound(Reading("copy", i, u))
    OBVIOUS
  <2> HIDE DEF Sound, Call, Reading
  <2>2. QED
    BY <1>3, <2>1, BeginPuts DEF BeginFinalize, BeginReject, BeginCopy
<1>4. ASSUME NEW u \in Users, NEW i \in Insights, BeginMerge(r, i, u) PROVE Sound(req'[r])
  <2>1. PICK into \in Insights \ {i} : Begin(r, [Call("merge", i, u) EXCEPT !.arg = into])
    BY <1>4 DEF BeginMerge
  <2> DEFINE q == [Call("merge", i, u) EXCEPT !.arg = into]
  <2>2. Sound(q)
    OBVIOUS
  <2> HIDE DEF q
  <2>3. QED
    BY <2>1, <2>2, BeginPuts DEF q
<1>5. ASSUME NEW u \in Users, NEW i \in Insights, BeginClose(r, i, u) PROVE Sound(req'[r])
  <2>1. PICK reason \in {"reason", "none"} : Begin(r, [Call("close", i, u) EXCEPT !.arg = reason])
    BY <1>5 DEF BeginClose
  <2> DEFINE q == [Call("close", i, u) EXCEPT !.arg = reason]
  <2>2. Sound(q)
    OBVIOUS
  <2> HIDE DEF q
  <2>3. QED
    BY <2>1, <2>2, BeginPuts DEF q
<1>6. ASSUME NEW u \in Users, NEW t \in Tickets, NEW op \in RaiseOps, BeginRaise(r, op, t, u)
      PROVE  Sound(req'[r])
  <2> DEFINE q == [Call(op, ticket[t].insight, u) EXCEPT !.row = t]
  <2>1. Begin(r, q)
    BY <1>6 DEF BeginRaise
  <2>2. Sound(q)
    BY DEF RaiseOps
  <2> HIDE DEF q
  <2>3. QED
    BY <2>1, <2>2, BeginPuts
<1>7. ASSUME NEW u \in Users, NEW p \in Proposals, BeginConfirm(r, p, u) PROVE Sound(req'[r])
  <2> DEFINE q == [Reading("confirm", proposal[p].insight, u) EXCEPT !.row = p]
  <2>1. Begin(r, q)
    BY <1>7 DEF BeginConfirm
  <2>2. Sound(q)
    OBVIOUS
  <2> HIDE DEF q
  <2>3. QED
    BY <2>1, <2>2, BeginPuts
<1>8. ASSUME NEW u \in Users, NEW p \in Proposals, BeginRejectProposal(r, p, u) PROVE Sound(req'[r])
  <2> DEFINE q == [Call("rejectProposal", proposal[p].insight, u) EXCEPT !.row = p]
  <2>1. Begin(r, q)
    BY <1>8 DEF BeginRejectProposal
  <2>2. Sound(q)
    OBVIOUS
  <2> HIDE DEF q
  <2>3. QED
    BY <2>1, <2>2, BeginPuts
<1>9. ASSUME BeginMarkStale(r) PROVE Sound(req'[r])
  <2>1. PICK old \in (SUBSET {t \in Tickets : ticket[t].state = "draft"}) \ {{}} :
          Begin(r, [Idle EXCEPT !.op = "markStale", !.phase = "begun", !.rows = old])
    BY <1>9 DEF BeginMarkStale
  <2> DEFINE q == [Idle EXCEPT !.op = "markStale", !.phase = "begun", !.rows = old]
  <2>2. Sound(q)
    OBVIOUS
  <2> HIDE DEF q
  <2>3. QED
    BY <2>1, <2>2, BeginPuts DEF q
<1>10. QED
  BY <1>1, <1>2, <1>3, <1>4, <1>5, <1>6, <1>7, <1>8, <1>9 DEF Arrive

\* The request has ended, or is the one it was; what it saw changes only when a ticket
\* is raised.
Same(r) ==
  /\ req' = [req EXCEPT ![r] = req'[r]]
  /\ \/ req'[r] = Idle
     \/ /\ req'[r].op = req[r].op /\ req'[r].insight = req[r].insight
        /\ req'[r].actor = req[r].actor
        /\ req[r].op = "confirm" => req'[r].saw = req[r].saw

\* Every step of a request leaves it the same request, or ends it.
LEMMA StepSame ==
  ASSUME TypeInv, NEW r \in Requests, Step(r) \/ Crash(r)
  PROVE  Same(r)
<1>1. req \in [Requests -> Request] /\ req[r] \in Request
  BY DEF TypeInv, TypeOK
<1>2. ASSUME NEW p, req' = [req EXCEPT ![r] = [req[r] EXCEPT !.phase = p]]
      PROVE  Same(r)
  <2> DEFINE q == [req[r] EXCEPT !.phase = p]
  <2>1. q.op = req[r].op /\ q.insight = req[r].insight /\ q.actor = req[r].actor /\ q.saw = req[r].saw
    BY <1>1 DEF Request
  <2> HIDE DEF q
  <2>2. req'[r] = q /\ req' = [req EXCEPT ![r] = q]
    BY <1>1, <1>2 DEF q
  <2>3. QED
    BY <2>1, <2>2 DEF Same
<1>3. CASE req' = [req EXCEPT ![r] = Idle]
  BY <1>1, <1>3 DEF Same
<1>4. CASE EnterTx(r)
  <2> DEFINE seen == IF req[r].op \in RaiseOps THEN insight[req[r].insight].state ELSE req[r].saw
             q1 == [req[r] EXCEPT !.phase = "writing"]
             q  == [q1 EXCEPT !.saw = seen]
  <2>1. req' = [req EXCEPT ![r] = q]
    BY <1>4 DEF EnterTx
  <2>2. req[r].op = "confirm" => seen = req[r].saw
    BY DEF RaiseOps
  <2> HIDE DEF seen
  <2>3. /\ q1.op = req[r].op /\ q1.insight = req[r].insight /\ q1.actor = req[r].actor
        /\ DOMAIN q1 = DOMAIN req[r] /\ "saw" \in DOMAIN req[r]
    BY <1>1 DEF Request
  <2> HIDE DEF q1
  <2>4. q.op = q1.op /\ q.insight = q1.insight /\ q.actor = q1.actor /\ q.saw = seen
    BY <2>3
  <2> HIDE DEF q
  <2>5. req'[r] = q
    BY <1>1, <2>1
  <2>6. QED
    BY <2>1, <2>2, <2>3, <2>4, <2>5 DEF Same
<1>5. CASE Check(r)
  <2> DEFINE was == insight[req[r].insight].state
             q1 == [req[r] EXCEPT !.phase = "checked"]
             q  == [q1 EXCEPT !.from = was]
  <2>1. req' = [req EXCEPT ![r] = q]
    BY <1>5 DEF Check
  <2> HIDE DEF was
  <2>2. /\ q1.op = req[r].op /\ q1.insight = req[r].insight /\ q1.actor = req[r].actor
        /\ q1.saw = req[r].saw
    BY <1>1 DEF Request
  <2> HIDE DEF q1
  <2>3. q.op = q1.op /\ q.insight = q1.insight /\ q.actor = q1.actor /\ q.saw = q1.saw
    OBVIOUS
  <2> HIDE DEF q
  <2>4. req'[r] = q
    BY <1>1, <2>1
  <2>5. QED
    BY <2>1, <2>2, <2>3, <2>4 DEF Same
<1>6. CASE AppendEvent(r)
  <2> DEFINE id == Len(log) + 1
             q1 == [req[r] EXCEPT !.phase = "appended"]
             q  == [q1 EXCEPT !.ev = id]
  <2>1. req' = [req EXCEPT ![r] = q]
    BY <1>6 DEF AppendEvent
  <2> HIDE DEF id
  <2>2. /\ q1.op = req[r].op /\ q1.insight = req[r].insight /\ q1.actor = req[r].actor
        /\ q1.saw = req[r].saw
    BY <1>1 DEF Request
  <2> HIDE DEF q1
  <2>3. q.op = q1.op /\ q.insight = q1.insight /\ q.actor = q1.actor /\ q.saw = q1.saw
    OBVIOUS
  <2> HIDE DEF q
  <2>4. req'[r] = q
    BY <1>1, <2>1
  <2>5. QED
    BY <2>1, <2>2, <2>3, <2>4 DEF Same
<1>7. CASE FileIssue(r) \/ MoveSource(r)
  BY <1>2, <1>7 DEF FileIssue, MoveSource, Phase
<1>8. QED
  BY <1>3, <1>4, <1>5, <1>6, <1>7 DEF Step, Crash, GiveUpIssue, Refuse, EditConflict, DeadlockAbort,
     Rollback, Finish, CommitTriage, CommitEdit, CommitFinalize, CommitReject, CommitMerge,
     CommitClose, CommitRaise, CommitConfirm, CommitRejectProposal, CommitCopy, CommitMarkStale

----------------------------------------------------------------------------
(* What a commit writes                                                     *)

\* Each commit records in the rows of insights, beside a state, what its operation says.
SecondWrites(r) ==
  \A i \in Insights :
    /\ \/ insight'[i].edits = insight[i].edits
       \/ /\ req[r].base = version(i)
          /\ insight'[i].edits = Append(insight[i].edits, req[r].base)
    /\ insight'[i].mergedInto =
         IF req[r].op = "merge" /\ i = req[r].insight THEN req[r].arg ELSE insight[i].mergedInto
    /\ insight'[i].finalizedBy =
         IF req[r].op = "finalize" /\ i = req[r].insight THEN req[r].actor ELSE insight[i].finalizedBy

\* A state set leaves the rest of the row.
LEMMA SetStateSeconds ==
  ASSUME TypeInv, NEW r \in Requests, SetState(r) \/ UNCHANGED insight,
         req[r].op \notin {"merge", "finalize"}
  PROVE  SecondWrites(r)
<1>1. CASE UNCHANGED insight
  BY <1>1 DEF SecondWrites
<1>2. CASE SetState(r)
  <2> DEFINE j == req[r].insight
             row == [insight[j] EXCEPT !.state = To(req[r].op)]
  <2>1. insight' = [insight EXCEPT ![j] = row] /\ insight \in [Insights -> InsightRow]
    BY <1>2 DEF SetState, TypeInv, TypeOK
  <2>2. row.edits = insight[j].edits /\ row.mergedInto = insight[j].mergedInto
        /\ row.finalizedBy = insight[j].finalizedBy
    OBVIOUS
  <2> HIDE DEF row, j
  <2>3. \A i \in Insights : insight'[i] = IF i = j THEN row ELSE insight[i]
    BY <2>1
  <2>4. QED
    BY <2>2, <2>3 DEF SecondWrites
<1>3. QED
  BY <1>1, <1>2

\* So does every commit, but for the field its operation is about.
LEMMA CommitSeconds ==
  ASSUME IndInv, NEW r \in Requests, Commit(r)
  PROVE  SecondWrites(r)
<1> DEFINE q == req[r]
           j == req[r].insight
<1>1. /\ TypeInv /\ RequestOK(q) /\ insight \in [Insights -> InsightRow]
      /\ \A i \in Insights : insight[i] \in InsightRow
  BY DEF IndInv, TypeInv, TypeOK, RowsKnown
<1>2. ASSUME NEW row, insight' = [insight EXCEPT ![j] = row]
      PROVE  \A i \in Insights : insight'[i] = IF i = j THEN row ELSE insight[i]
  BY <1>1, <1>2
<1>3. CASE CommitTriage(r)
  <2> DEFINE who == IF q.arg = None THEN insight[j].assignee ELSE q.arg
             state == IF CallsTransition(q) THEN "triaged" ELSE insight[j].state
             routed == [insight[j] EXCEPT !.track = q.track]
             given  == [routed EXCEPT !.assignee = who]
             row    == [given EXCEPT !.state = state]
  <2>1. q.op = "triage" /\ insight' = [insight EXCEPT ![j] = row]
    BY <1>3 DEF CommitTriage
  <2> HIDE DEF who, state
  <2>2. row.edits = insight[j].edits /\ row.mergedInto = insight[j].mergedInto
        /\ row.finalizedBy = insight[j].finalizedBy
    OBVIOUS
  <2> HIDE DEF row
  <2>3. QED
    BY <1>2, <2>1, <2>2 DEF SecondWrites
<1>4. CASE CommitEdit(r)
  <2> DEFINE edits == Append(insight[j].edits, q.base)
             typed == [insight[j] EXCEPT !.body = q.arg]
             row   == [typed EXCEPT !.edits = edits]
  <2>1. q.op = "edit" /\ q.base = version(j) /\ j \in Insights
        /\ insight' = [insight EXCEPT ![j] = row]
    BY <1>1, <1>4 DEF CommitEdit, RequestOK
  <2>2. /\ typed.mergedInto = insight[j].mergedInto /\ typed.finalizedBy = insight[j].finalizedBy
        /\ "edits" \in DOMAIN typed
    BY <1>1, <2>1 DEF InsightRow
  <2> HIDE DEF typed, edits
  <2>3. row.edits = edits /\ row.mergedInto = insight[j].mergedInto
        /\ row.finalizedBy = insight[j].finalizedBy
    BY <2>2
  <2> HIDE DEF row
  <2>4. QED
    BY SMTT(20), <1>2, <2>1, <2>3 DEF SecondWrites, edits
<1>5. CASE CommitFinalize(r)
  <2> DEFINE moved == [insight[j] EXCEPT !.state = "finalized"]
             row   == [moved EXCEPT !.finalizedBy = q.actor]
  <2>1. q.op = "finalize" /\ j \in Insights /\ insight' = [insight EXCEPT ![j] = row]
    BY <1>1, <1>5 DEF CommitFinalize, RequestOK
  <2>2. /\ moved.edits = insight[j].edits /\ moved.mergedInto = insight[j].mergedInto
        /\ "finalizedBy" \in DOMAIN moved
    BY <1>1, <2>1 DEF InsightRow
  <2> HIDE DEF moved
  <2>3. row.edits = insight[j].edits /\ row.mergedInto = insight[j].mergedInto
        /\ row.finalizedBy = q.actor
    BY <2>2
  <2> HIDE DEF row
  <2>4. \A i \in Insights : insight'[i] = IF i = j THEN row ELSE insight[i]
    BY <1>2, <2>1
  <2>5. ASSUME NEW i \in Insights, i = j
        PROVE  /\ insight'[i].edits = insight[i].edits
               /\ insight'[i].mergedInto = IF q.op = "merge" THEN q.arg ELSE insight[i].mergedInto
               /\ insight'[i].finalizedBy = IF q.op = "finalize" THEN q.actor ELSE insight[i].finalizedBy
    BY <2>1, <2>3, <2>4, <2>5
  <2>6. QED
    BY <2>4, <2>5 DEF SecondWrites
<1>6. CASE CommitMerge(r)
  <2> DEFINE moved == [insight[j] EXCEPT !.state = "merged"]
             row   == [moved EXCEPT !.mergedInto = q.arg]
  <2>1. q.op = "merge" /\ j \in Insights /\ insight' = [insight EXCEPT ![j] = row]
    BY <1>1, <1>6 DEF CommitMerge, RequestOK
  <2>2. /\ moved.edits = insight[j].edits /\ moved.finalizedBy = insight[j].finalizedBy
        /\ "mergedInto" \in DOMAIN moved
    BY <1>1, <2>1 DEF InsightRow
  <2> HIDE DEF moved
  <2>3. row.edits = insight[j].edits /\ row.mergedInto = q.arg
        /\ row.finalizedBy = insight[j].finalizedBy
    BY <2>2
  <2> HIDE DEF row
  <2>4. \A i \in Insights : insight'[i] = IF i = j THEN row ELSE insight[i]
    BY <1>2, <2>1
  <2>5. ASSUME NEW i \in Insights, i = j
        PROVE  /\ insight'[i].edits = insight[i].edits
               /\ insight'[i].mergedInto = IF q.op = "merge" THEN q.arg ELSE insight[i].mergedInto
               /\ insight'[i].finalizedBy = IF q.op = "finalize" THEN q.actor ELSE insight[i].finalizedBy
    BY <2>1, <2>3, <2>4, <2>5
  <2>6. QED
    BY <2>4, <2>5 DEF SecondWrites
<1>7. CASE CommitReject(r) \/ CommitClose(r)
  BY <1>1, <1>7, SetStateSeconds DEF CommitReject, CommitClose
<1>8. CASE CommitRaise(r) \/ CommitConfirm(r) \/ CommitCopy(r)
  BY <1>1, <1>8, SetStateSeconds DEF CommitRaise, CommitConfirm, CommitCopy, MaySetState, RaiseOps
<1>9. CASE CommitRejectProposal(r) \/ CommitMarkStale(r)
  BY <1>1, <1>9, SetStateSeconds DEF CommitRejectProposal, CommitMarkStale
<1>10. QED
  BY <1>3, <1>4, <1>5, <1>6, <1>7, <1>8, <1>9 DEF Commit

\* Each commit records in the tables what its event cites; nothing recorded is lost.
TableWrites(r) ==
  /\ \A t \in Tickets : ticket[t].events \subseteq ticket'[t].events
  /\ \A t \in Tickets : ticket'[t].events # {} => ticket'[t].state # "absent"
  /\ \A p \in Proposals : proposal[p].events \subseteq proposal'[p].events
  /\ \A p \in Proposals : proposal'[p].events # {} => proposal'[p].status # "absent"
  /\ \A p \in Proposals : "confirmed" \in proposal'[p].events =>
       "confirmed" \in proposal[p].events \/ (req[r].op = "confirm" /\ p = req[r].row)
  /\ req[r].op = "confirm" => "confirmed" \in proposal'[req[r].row].events
  /\ req[r].op \in RaiseOps => "raised" \in ticket'[req[r].row].events
  /\ req[r].op = "copy" => draft'[req[r].insight] = "copied"
  /\ \A i \in Insights : draft[i] = "copied" => draft'[i] = "copied"

\* Every commit does so.
LEMMA CommitTables ==
  ASSUME IndInv, EventRows, NEW r \in Requests, Commit(r)
  PROVE  TableWrites(r)
<1> DEFINE q == req[r]
<1>1. /\ RequestOK(q)
      /\ ticket \in [Tickets -> TicketRow] /\ proposal \in [Proposals -> ProposalRow]
      /\ \A t \in Tickets : ticket[t] \in TicketRow
      /\ \A p \in Proposals : proposal[p] \in ProposalRow
      /\ draft \in [Insights -> {"none", "drafted", "copied"}]
  BY DEF IndInv, TypeInv, TypeOK, RowsKnown
<1> HIDE DEF q
<1>2. CASE CommitRaise(r)
  <2> DEFINE t == q.row
             raised == [ticket[t] EXCEPT !.state = "raised"]
             row    == [raised EXCEPT !.events = @ \cup {"raised"}]
  <2>1. /\ q.op \in RaiseOps /\ ticket' = [ticket EXCEPT ![t] = row]
        /\ UNCHANGED <<proposal, draft>>
    BY <1>2 DEF CommitRaise, q
  <2>2. t \in Tickets
    BY <1>1, <2>1 DEF RequestOK
  <2>3. /\ raised.events = ticket[t].events /\ raised.state = "raised"
        /\ "events" \in DOMAIN raised
    BY <1>1, <2>2 DEF TicketRow
  <2> HIDE DEF raised
  <2>4. row.events = ticket[t].events \cup {"raised"} /\ row.state = "raised"
    BY <2>3
  <2> HIDE DEF row
  <2>5. \A u \in Tickets : ticket'[u] = IF u = t THEN row ELSE ticket[u]
    BY <1>1, <2>1
  <2>6. QED
    BY <2>1, <2>2, <2>4, <2>5 DEF TableWrites, EventRows, RaiseOps, q
<1>3. CASE CommitConfirm(r)
  <2> DEFINE p == q.row
             n == IF p \in Matches THEN proposal[p].rows + 1 ELSE 1
             confirmed == [proposal[p] EXCEPT !.status = "confirmed"]
             logged    == [confirmed EXCEPT !.events = @ \cup {"confirmed"}]
             row       == [logged EXCEPT !.rows = n]
  <2>1. /\ q.op = "confirm" /\ proposal' = [proposal EXCEPT ![p] = row]
        /\ UNCHANGED <<ticket, draft>>
    BY <1>3 DEF CommitConfirm, q
  <2>2. p \in Proposals
    BY <1>1, <2>1 DEF RequestOK
  <2> HIDE DEF n
  <2>3. /\ confirmed.events = proposal[p].events /\ confirmed.status = "confirmed"
        /\ "events" \in DOMAIN confirmed
    BY <1>1, <2>2 DEF ProposalRow
  <2> HIDE DEF confirmed
  <2>4. logged.events = proposal[p].events \cup {"confirmed"} /\ logged.status = "confirmed"
    BY <2>3
  <2> HIDE DEF logged
  <2>5. row.events = logged.events /\ row.status = logged.status
    OBVIOUS
  <2> HIDE DEF row
  <2>6. \A u \in Proposals : proposal'[u] = IF u = p THEN row ELSE proposal[u]
    BY <1>1, <2>1
  <2>7. QED
    BY <2>1, <2>2, <2>4, <2>5, <2>6 DEF TableWrites, EventRows, RaiseOps, q
<1>4. CASE CommitRejectProposal(r)
  <2> DEFINE p == q.row
             rejected == [proposal[p] EXCEPT !.status = "rejected"]
             row      == [rejected EXCEPT !.events = @ \cup {"rejected"}]
  <2>1. /\ q.op = "rejectProposal" /\ proposal' = [proposal EXCEPT ![p] = row]
        /\ UNCHANGED <<ticket, draft>>
    BY <1>4 DEF CommitRejectProposal, q
  <2>2. p \in Proposals
    BY <1>1, <2>1 DEF RequestOK
  <2>3. /\ rejected.events = proposal[p].events /\ rejected.status = "rejected"
        /\ "events" \in DOMAIN rejected
    BY <1>1, <2>2 DEF ProposalRow
  <2> HIDE DEF rejected
  <2>4. row.events = proposal[p].events \cup {"rejected"} /\ row.status = "rejected"
    BY <2>3
  <2> HIDE DEF row
  <2>5. \A u \in Proposals : proposal'[u] = IF u = p THEN row ELSE proposal[u]
    BY <1>1, <2>1
  <2>6. QED
    BY <2>1, <2>2, <2>4, <2>5 DEF TableWrites, EventRows, RaiseOps, q
<1>5. CASE CommitCopy(r)
  <2>1. /\ q.op = "copy" /\ draft' = [draft EXCEPT ![q.insight] = "copied"]
        /\ UNCHANGED <<ticket, proposal>>
    BY <1>5 DEF CommitCopy, q
  <2>2. q.insight \in Insights
    BY <1>1, <2>1 DEF RequestOK
  <2>3. QED
    BY <1>1, <2>1, <2>2 DEF TableWrites, EventRows, RaiseOps, q
<1>6. CASE CommitMarkStale(r)
  <2> DEFINE stale(t) == [ticket[t] EXCEPT !.state = "stale"]
             row(t)   == [stale(t) EXCEPT !.events = @ \cup {"stale"}]
  <2>1. /\ q.op = "markStale"
        /\ ticket' = [t \in Tickets |-> IF t \in q.rows THEN row(t) ELSE ticket[t]]
        /\ UNCHANGED <<proposal, draft>>
    BY <1>6 DEF CommitMarkStale, q
  <2>2. ASSUME NEW t \in Tickets
        PROVE  row(t).events = ticket[t].events \cup {"stale"} /\ row(t).state = "stale"
    <3>1. /\ stale(t).events = ticket[t].events /\ stale(t).state = "stale"
          /\ "events" \in DOMAIN stale(t)
      BY <1>1 DEF TicketRow
    <3> HIDE DEF stale
    <3>2. QED
      BY <3>1
  <2> HIDE DEF row
  <2>3. QED
    BY <2>1, <2>2 DEF TableWrites, EventRows, RaiseOps, q
<1>7. CASE CommitTriage(r) \/ CommitEdit(r) \/ CommitFinalize(r) \/ CommitReject(r)
           \/ CommitMerge(r) \/ CommitClose(r)
  <2>1. /\ q.op \notin RaiseOps \cup {"confirm", "copy"}
        /\ UNCHANGED <<ticket, proposal, draft>>
    BY <1>7 DEF CommitTriage, CommitEdit, CommitFinalize, CommitReject, CommitMerge, CommitClose,
       RaiseOps, q
  <2>2. QED
    BY <2>1 DEF TableWrites, EventRows, q
<1>8. QED
  BY <1>2, <1>3, <1>4, <1>5, <1>6, <1>7 DEF Commit

----------------------------------------------------------------------------
(* What becomes of the committed events                                     *)

\* The committed events stay, and no others come.
LogQuiet ==
  /\ \A k \in DOMAIN log' : log'[k].status = "committed" => k \in Ids /\ log'[k] = log[k]
  /\ \A k \in Committed : k \in DOMAIN log' /\ log'[k] = log[k]

\* The rows of tickets keep what the properties are about.
TicketsQuiet ==
  \A t \in Tickets : /\ ticket'[t].events = ticket[t].events
                     /\ ticket'[t].state = ticket[t].state
                     /\ ticket'[t].insight = ticket[t].insight

Quiet == LogQuiet /\ TicketsQuiet /\ UNCHANGED <<insight, proposal, draft>>

\* Then the transitions into a state are the ones there were.
LEMMA IntoQuiet == LogQuiet => \A i, s : Into(i, s)' = Into(i, s)
  BY DEF LogQuiet, Into, Committed, Ids

\* A commit adds its own event, if it has one.
LEMMA IntoCommit ==
  ASSUME IndInv, NEW r \in Requests, Commit(r)
  PROVE  \A i, s : Into(i, s)' = Into(i, s) \cup
           (IF req[r].phase \in {"appended", "moved"} /\ i = req[r].insight /\ s = To(req[r].op)
            THEN {req[r].ev} ELSE {})
<1>1. /\ TypeInv /\ EventsOwned /\ Commits(r) /\ log \in Seq(Event)
  BY CommitCommits DEF IndInv, TypeInv, TypeOK
<1>2. /\ log' \in Seq(Event) /\ Len(log') = Len(log)
      /\ \A k \in Ids : log'[k] = IF HasEvent(r) /\ k = req[r].ev THEN Done(req[r]) ELSE log[k]
  BY <1>1, FinishEffect DEF Commits
<1>3. DOMAIN log' = Ids /\ Ids = 1 .. Len(log)
  BY <1>1, <1>2 DEF Ids
<1>4. HasEvent(r) <=> req[r].phase \in {"appended", "moved"}
  <2>1. HasEvent(r) => req[r].phase \in {"appended", "moved"}
    BY <1>1, OwnEvent
  <2>2. req[r].phase \in {"appended", "moved"} => HasEvent(r)
    BY <1>1 DEF EventsOwned, HasEvent, Ids
  <2>3. QED
    BY <2>1, <2>2
<1>5. HasEvent(r) => req[r].ev \in Ids /\ log[req[r].ev].status = "pending"
  <2>1. HasEvent(r) => log[req[r].ev] = Pending(req[r])
    BY <1>1, OwnEvent
  <2>2. Pending(req[r]).status = "pending"
    BY DEF Pending
  <2>3. QED
    BY <2>1, <2>2 DEF HasEvent, Ids
<1>6. /\ Done(req[r]).insight = req[r].insight /\ Done(req[r]).to = To(req[r].op)
      /\ Done(req[r]).status = "committed"
  BY DEF Done
<1>7. ASSUME NEW i, NEW s, NEW k \in Ids
      PROVE  k \in Into(i, s)' <=>
               \/ k \in Into(i, s)
               \/ HasEvent(r) /\ k = req[r].ev /\ i = req[r].insight /\ s = To(req[r].op)
  BY <1>2, <1>3, <1>5, <1>6 DEF Into, Committed, Ids
<1>8. QED
  BY <1>3, <1>4, <1>5, <1>7 DEF Into, Committed, Ids

\* A step of a request that is no commit leaves the tables and the committed events.
LEMMA StepQuiet ==
  ASSUME IndInv, NEW r \in Requests,
         \/ FileIssue(r) \/ GiveUpIssue(r) \/ EnterTx(r) \/ Check(r) \/ Refuse(r)
         \/ AppendEvent(r) \/ MoveSource(r) \/ EditConflict(r) \/ DeadlockAbort(r) \/ Crash(r)
  PROVE  Quiet
<1>1. /\ TypeInv /\ EventsOwned /\ log \in Seq(Event) /\ ticket \in [Tickets -> TicketRow]
      /\ RequestOK(req[r])
  BY DEF IndInv, TypeInv, TypeOK, RowsKnown
<1>2. UNCHANGED log => LogQuiet
  BY DEF LogQuiet, Committed, Ids
<1>3. CASE GiveUpIssue(r) \/ EnterTx(r) \/ Check(r) \/ Refuse(r) \/ MoveSource(r)
  BY <1>2, <1>3 DEF GiveUpIssue, EnterTx, Check, Refuse, MoveSource, Quiet, TicketsQuiet
<1>4. CASE FileIssue(r)
  <2> DEFINE row == [ticket[req[r].row] EXCEPT !.issues = @ + 1]
  <2>1. /\ req[r].op = "createDirect" /\ ticket' = [ticket EXCEPT ![req[r].row] = row]
        /\ UNCHANGED <<insight, proposal, draft, log>>
    BY <1>4 DEF FileIssue
  <2>2. req[r].row \in Tickets
    BY <1>1, <2>1 DEF RequestOK, RaiseOps
  <2>3. /\ row.events = ticket[req[r].row].events /\ row.state = ticket[req[r].row].state
        /\ row.insight = ticket[req[r].row].insight
    OBVIOUS
  <2> HIDE DEF row
  <2>4. QED
    BY <1>1, <1>2, <2>1, <2>2, <2>3 DEF Quiet, TicketsQuiet
<1>5. CASE AppendEvent(r)
  <2> DEFINE e == Pending(req[r])
  <2>1. log' = Append(log, e) /\ UNCHANGED <<insight, ticket, proposal, draft>>
    BY <1>5 DEF AppendEvent, Pending
  <2>2. e.status = "pending"
    BY DEF Pending
  <2> HIDE DEF e
  <2>3. /\ Ids = 1 .. Len(log) /\ DOMAIN log' = 1 .. Len(log) + 1 /\ Len(log) \in Nat
        /\ \A k \in Ids : log'[k] = log[k]
        /\ log'[Len(log) + 1] = e
    BY <1>1, <2>1 DEF Ids
  <2>4. LogQuiet
    BY <2>2, <2>3 DEF LogQuiet, Committed
  <2>5. QED
    BY <2>1, <2>4 DEF Quiet, TicketsQuiet
<1>6. CASE Rollback(r)
  <2>1. /\ log' \in Seq(Event) /\ Len(log') = Len(log)
        /\ \A k \in Ids : log'[k] = IF HasEvent(r) /\ k = req[r].ev THEN Gap ELSE log[k]
    BY <1>1, <1>6, RollbackEffect
  <2>2. HasEvent(r) => log[req[r].ev].status = "pending"
    <3>1. HasEvent(r) => log[req[r].ev] = Pending(req[r])
      BY <1>1, OwnEvent
    <3>2. Pending(req[r]).status = "pending"
      BY DEF Pending
    <3>3. QED
      BY <3>1, <3>2
  <2>3. DOMAIN log' = Ids /\ Gap.status = "aborted"
    BY <1>1, <2>1 DEF Ids, Gap
  <2>4. LogQuiet
    BY <2>1, <2>2, <2>3 DEF LogQuiet, Committed
  <2>5. QED
    BY <1>6, <2>4 DEF Quiet, TicketsQuiet, Rollback
<1>7. QED
  BY <1>3, <1>4, <1>5, <1>6 DEF EditConflict, DeadlockAbort, Crash

----------------------------------------------------------------------------
(* The invariant is kept                                                    *)

\* Only a finalization leads to finalized, only a merge to merged, and so on.
LEMMA ToNames ==
  ASSUME NEW q, CallsTransition(q)
  PROVE  /\ To(q.op) = "merged" <=> q.op = "merge"
         /\ To(q.op) = "finalized" <=> q.op = "finalize"
         /\ To(q.op) = "ticketed" <=> q.op \in RaiseOps
         /\ To(q.op) = "shipped" <=> q.op = "confirm"
         /\ To(q.op) = "client_notified" <=> q.op = "copy"
  BY DEF CallsTransition, To, RaiseOps

\* What the state of an insight past shipped says, the log says.
LEMMA PastShippedLogged ==
  ASSUME LogInv, NEW i \in Insights, insight[i].state \in PastShipped
  PROVE  Into(i, "shipped") # {}
<1>1. MilestonesInOrder
  BY OrderedByLog
<1>2. Into(i, insight[i].state) # {}
  BY DEF LogInv, IndInv, Grounded, GroundedAt, PastShipped
<1>3. QED
  BY <1>1, <1>2 DEF MilestonesInOrder, PastShipped

\* A step that leaves tables and committed events keeps the invariant, if the request
\* it is of stays the same or arrives sound.
LEMMA QuietKeeps ==
  ASSUME TableInv, LogInv', Quiet, NEW r \in Requests, req' = [req EXCEPT ![r] = req'[r]],
         \/ Same(r)
         \/ Sound(req'[r]) /\ RequestOK(req'[r])
  PROVE  TableInv'
<1>1. \A i, s : Into(i, s)' = Into(i, s)
  BY IntoQuiet DEF Quiet
<1>2. req \in [Requests -> Request] /\ \A s \in Requests \ {r} : req'[s] = req[s]
  BY DEF TableInv, LogInv, IndInv, TypeInv, TypeOK
<1>3. Idle.op = "none"
  BY DEF Idle
<1>4. ActorsKnown'
  <2>1. req'[r].op = "finalize" => req'[r].actor \in Users
    BY <1>3 DEF Same, Sound, TableInv, ActorsKnown
  <2>2. QED
    BY <1>2, <2>1 DEF TableInv, ActorsKnown
<1>5. SeenShipped'
  <2>1. ASSUME req'[r].op = "confirm", req'[r].saw \in PastShipped
        PROVE  Into(req'[r].insight, "shipped") # {}
    <3>1. CASE Same(r)
      BY <1>3, <2>1, <3>1 DEF Same, TableInv, SeenShipped
    <3>2. CASE Sound(req'[r]) /\ RequestOK(req'[r])
      <4>1. req'[r].insight \in Insights /\ insight[req'[r].insight].state \in PastShipped
        BY <2>1, <3>2 DEF Sound, RequestOK
      <4>2. QED
        BY <4>1, PastShippedLogged DEF TableInv
    <3>3. QED
      BY <3>1, <3>2
  <2>2. QED
    BY <1>1, <1>2, <2>1 DEF TableInv, SeenShipped
<1>6. EventRows'
  BY DEF Quiet, TicketsQuiet, TableInv, EventRows
<1>7. NoLostEdit'
  BY DEF Quiet, TableInv, NoLostEdit
<1>8. SecondUpdatesMatchLog'
  BY <1>1 DEF Quiet, TableInv, SecondUpdatesMatchLog
<1>9. TablesAgreeWithLog'
  BY <1>1 DEF Quiet, TicketsQuiet, TableInv, TablesAgreeWithLog
<1>10. QED
  BY <1>4, <1>5, <1>6, <1>7, <1>8, <1>9 DEF TableInv

\* A commit keeps the bodies: the edit it saves was made on the version it follows.
LEMMA CommitKeepsEdits ==
  ASSUME TableInv, NEW r \in Requests, Commit(r)
  PROVE  NoLostEdit'
<1> SUFFICES ASSUME NEW i \in Insights, NEW k \in DOMAIN insight'[i].edits
             PROVE  insight'[i].edits[k] = k
  BY DEF NoLostEdit
<1>1. SecondWrites(r)
  BY CommitSeconds DEF TableInv, LogInv
<1>2. insight[i].edits \in Seq(Nat)
  BY DEF TableInv, LogInv, IndInv, TypeInv, TypeOK, InsightRow
<1>3. \A n \in DOMAIN insight[i].edits : insight[i].edits[n] = n
  BY DEF TableInv, NoLostEdit
<1>4. CASE insight'[i].edits = insight[i].edits
  BY <1>3, <1>4
<1>5. CASE /\ req[r].base = 1 + Len(insight[i].edits)
           /\ insight'[i].edits = Append(insight[i].edits, req[r].base)
  BY <1>2, <1>3, <1>5
<1>6. QED
  BY <1>1, <1>4, <1>5 DEF SecondWrites, version

\* A commit writes the merge pointer or the signatory with their event.
LEMMA CommitKeepsSeconds ==
  ASSUME TableInv, NEW r \in Requests, Commit(r)
  PROVE  SecondUpdatesMatchLog'
<1> DEFINE q == req[r]
           ends == q.phase \in {"appended", "moved"}
<1>1. /\ IndInv /\ RequestOK(q) /\ SecondWrites(r) /\ (ends => CallsTransition(q))
      /\ q.op = "finalize" => q.actor \in Users
  BY CommitSeconds DEF TableInv, LogInv, IndInv, TypeInv, RowsKnown, EventsOwned, ActorsKnown
<1>2. \A i, s : Into(i, s)' = Into(i, s) \cup
        (IF ends /\ i = q.insight /\ s = To(q.op) THEN {q.ev} ELSE {})
  BY <1>1, IntoCommit
<1>3. q.op \in {"merge", "finalize"} => ends
  BY DEF Commit, CommitTriage, CommitEdit, CommitFinalize, CommitReject, CommitMerge, CommitClose,
     CommitRaise, CommitConfirm, CommitRejectProposal, CommitCopy, CommitMarkStale, RaiseOps
<1>4. /\ ends => (To(q.op) = "merged" <=> q.op = "merge")
      /\ ends => (To(q.op) = "finalized" <=> q.op = "finalize")
  BY <1>1, ToNames
<1>5. /\ q.op = "merge" => q.arg # None
      /\ q.op = "finalize" => q.actor # None
  BY <1>1, NoneAssumption DEF RequestOK, Users
<1> HIDE DEF q, ends
<1>6. ASSUME NEW i \in Insights
      PROVE  /\ (insight'[i].mergedInto # None) <=> (Into(i, "merged")' # {})
             /\ (insight'[i].finalizedBy # None) <=> (Into(i, "finalized")' # {})
  <2>1. /\ (insight[i].mergedInto # None) <=> (Into(i, "merged") # {})
        /\ (insight[i].finalizedBy # None) <=> (Into(i, "finalized") # {})
    BY DEF TableInv, SecondUpdatesMatchLog
  <2>2. /\ insight'[i].mergedInto =
             IF q.op = "merge" /\ i = q.insight THEN q.arg ELSE insight[i].mergedInto
        /\ insight'[i].finalizedBy =
             IF q.op = "finalize" /\ i = q.insight THEN q.actor ELSE insight[i].finalizedBy
    BY <1>1 DEF SecondWrites, q
  <2>3. (insight'[i].mergedInto # None) <=> (Into(i, "merged")' # {})
    <3>1. CASE q.op = "merge" /\ i = q.insight
      BY <1>2, <1>3, <1>4, <1>5, <2>2, <3>1
    <3>2. CASE ~(q.op = "merge" /\ i = q.insight)
      <4>1. Into(i, "merged")' = Into(i, "merged")
        BY <1>2, <1>4, <3>2
      <4>2. QED
        BY <2>1, <2>2, <3>2, <4>1
    <3>3. QED
      BY <3>1, <3>2
  <2>4. (insight'[i].finalizedBy # None) <=> (Into(i, "finalized")' # {})
    <3>1. CASE q.op = "finalize" /\ i = q.insight
      BY <1>2, <1>3, <1>4, <1>5, <2>2, <3>1
    <3>2. CASE ~(q.op = "finalize" /\ i = q.insight)
      <4>1. Into(i, "finalized")' = Into(i, "finalized")
        BY <1>2, <1>4, <3>2
      <4>2. QED
        BY <2>1, <2>2, <3>2, <4>1
    <3>3. QED
      BY <3>1, <3>2
  <2>5. QED
    BY <2>3, <2>4
<1>7. QED
  BY <1>6 DEF SecondUpdatesMatchLog

\* A commit records the row its event cites in the same transaction; a confirmation
\* without a transition saw the insight shipped.
LEMMA CommitKeepsTables ==
  ASSUME TableInv, NEW r \in Requests, Commit(r)
  PROVE  TablesAgreeWithLog'
<1> DEFINE q == req[r]
           ends == q.phase \in {"appended", "moved"}
<1>1. /\ IndInv /\ RequestOK(q) /\ NamesRows(q) /\ TableWrites(r) /\ RowsPersist
      /\ ends => CallsTransition(q)
      /\ EventRows /\ TablesAgreeWithLog
  BY CommitTables, CommitCommits DEF TableInv, LogInv, IndInv, TypeInv, RowsKnown, EventsOwned
<1>2. \A i, s : Into(i, s)' = Into(i, s) \cup
        (IF ends /\ i = q.insight /\ s = To(q.op) THEN {q.ev} ELSE {})
  BY <1>1, IntoCommit
<1>3. q.op = "confirm" => ends \/ q.saw \in PastShipped
  BY DEF Commit, CommitTriage, CommitEdit, CommitFinalize, CommitReject, CommitMerge, CommitClose,
     CommitRaise, CommitConfirm, CommitRejectProposal, CommitCopy, CommitMarkStale, RaiseOps,
     MaySetState, CallsTransition
<1>4. /\ ends => (To(q.op) = "ticketed" <=> q.op \in RaiseOps)
      /\ ends => (To(q.op) = "shipped" <=> q.op = "confirm")
      /\ ends => (To(q.op) = "client_notified" <=> q.op = "copy")
  BY <1>1, ToNames
<1>5. /\ \A t \in Tickets : ticket[t].events # {} => ticket'[t].insight = ticket[t].insight
      /\ \A p \in Proposals : proposal[p].events # {} => proposal'[p].insight = proposal[p].insight
  BY <1>1 DEF EventRows, RowsPersist
<1>6. q.op = "confirm" =>
        /\ q.row \in Proposals /\ proposal'[q.row].insight = q.insight
        /\ "confirmed" \in proposal'[q.row].events
  BY <1>1 DEF RequestOK, NamesRows, RowsPersist, TableWrites
<1>7. q.op \in RaiseOps =>
        /\ q.row \in Tickets /\ ticket'[q.row].insight = q.insight
        /\ "raised" \in ticket'[q.row].events
  BY <1>1 DEF RequestOK, NamesRows, RowsPersist, TableWrites
<1>8. q.op = "confirm" /\ ~ends => Into(q.insight, "shipped") # {}
  BY <1>3 DEF TableInv, SeenShipped
<1>9. /\ \A t \in Tickets : ticket[t].events \subseteq ticket'[t].events
      /\ \A p \in Proposals : proposal[p].events \subseteq proposal'[p].events
      /\ \A p \in Proposals : "confirmed" \in proposal'[p].events =>
           "confirmed" \in proposal[p].events \/ (q.op = "confirm" /\ p = q.row)
      /\ q.op = "copy" => draft'[q.insight] = "copied"
      /\ \A i \in Insights : draft[i] = "copied" => draft'[i] = "copied"
  BY <1>1 DEF TableWrites
<1> HIDE DEF q, ends
<1>10. ASSUME NEW i \in Insights, Into(i, "shipped")' # {}
       PROVE  \E p \in Proposals : proposal'[p].insight = i /\ "confirmed" \in proposal'[p].events
  <2>1. CASE Into(i, "shipped") # {}
    <3>1. PICK p \in Proposals : proposal[p].insight = i /\ "confirmed" \in proposal[p].events
      BY <1>1, <2>1 DEF TablesAgreeWithLog
    <3>2. QED
      BY <1>5, <1>9, <3>1
  <2>2. CASE Into(i, "shipped") = {}
    BY <1>2, <1>4, <1>6, <1>10, <2>2
  <2>3. QED
    BY <2>1, <2>2
<1>11. ASSUME NEW i \in Insights, Into(i, "ticketed")' # {}
       PROVE  \E t \in Tickets : ticket'[t].insight = i /\ "raised" \in ticket'[t].events
  <2>1. CASE Into(i, "ticketed") # {}
    <3>1. PICK t \in Tickets : ticket[t].insight = i /\ "raised" \in ticket[t].events
      BY <1>1, <2>1 DEF TablesAgreeWithLog
    <3>2. QED
      BY <1>5, <1>9, <3>1
  <2>2. CASE Into(i, "ticketed") = {}
    BY <1>2, <1>4, <1>7, <1>11, <2>2
  <2>3. QED
    BY <2>1, <2>2
<1>12. ASSUME NEW i \in Insights, Into(i, "client_notified")' # {}
       PROVE  draft'[i] = "copied"
  <2>1. CASE Into(i, "client_notified") # {}
    BY <1>1, <1>9, <2>1 DEF TablesAgreeWithLog
  <2>2. CASE Into(i, "client_notified") = {}
    BY <1>2, <1>4, <1>9, <1>12, <2>2
  <2>3. QED
    BY <2>1, <2>2
<1>13. ASSUME NEW p \in Proposals, NEW i, proposal'[p].insight = i,
             "confirmed" \in proposal'[p].events
       PROVE  Into(i, "shipped")' # {}
  <2>1. CASE "confirmed" \in proposal[p].events
    <3>1. proposal[p].insight = i
      BY <1>5, <1>13, <2>1
    <3>2. Into(i, "shipped") # {}
      BY <1>1, <2>1, <3>1 DEF TablesAgreeWithLog
    <3>3. QED
      BY <1>2, <3>2
  <2>2. CASE q.op = "confirm" /\ p = q.row
    <3>1. i = q.insight
      BY <1>6, <1>13, <2>2
    <3>2. CASE ends
      BY <1>2, <1>4, <2>2, <3>1, <3>2
    <3>3. CASE ~ends
      BY <1>2, <1>8, <2>2, <3>1, <3>3
    <3>4. QED
      BY <3>2, <3>3
  <2>3. QED
    BY <1>9, <1>13, <2>1, <2>2
<1>14. QED
  BY <1>10, <1>11, <1>12, <1>13 DEF TablesAgreeWithLog, Into, Committed, Ids

\* A commit keeps the invariant.
LEMMA CommitKeeps ==
  ASSUME TableInv, LogInv', NEW r \in Requests, Commit(r)
  PROVE  TableInv'
<1>1. /\ IndInv /\ TypeInv /\ EventsOwned /\ req \in [Requests -> Request]
  BY DEF TableInv, LogInv, IndInv, TypeInv, TypeOK
<1>2. req' = [req EXCEPT ![r] = Idle] /\ Idle.op = "none"
  BY <1>1, CommitCommits DEF Commits, Finish, Idle
<1>3. /\ req'[r].op = "none"
      /\ \A s \in Requests \ {r} : req'[s] = req[s]
  BY <1>1, <1>2
<1>4. \A i, s : Into(i, s) \subseteq Into(i, s)'
  BY <1>1, IntoCommit
<1>5. ActorsKnown'
  BY <1>3 DEF TableInv, ActorsKnown
<1>6. SeenShipped'
  <2>1. ASSUME NEW s \in Requests, NEW i, req'[s].op = "confirm", req'[s].saw \in PastShipped,
               req'[s].insight = i
        PROVE  Into(i, "shipped")' # {}
    <3>1. s # r /\ req'[s] = req[s]
      BY <1>3, <2>1
    <3>2. Into(i, "shipped") # {}
      BY <2>1, <3>1 DEF TableInv, SeenShipped
    <3>3. QED
      BY <1>4, <3>2
  <2>2. QED
    BY <2>1 DEF SeenShipped, Into, Committed, Ids
<1>7. EventRows'
  BY <1>1, CommitTables DEF TableInv, TableWrites, EventRows
<1>8. QED
  BY <1>5, <1>6, <1>7, CommitKeepsEdits, CommitKeepsSeconds, CommitKeepsTables DEF TableInv

\* What the model, the releases and the drafts suggest is new, and holds no event.
LEMMA SuggestionsKeep ==
  ASSUME TableInv, LogInv', Suggest
  PROVE  TableInv'
<1>1. /\ TypeInv /\ EventRows /\ TablesAgreeWithLog
      /\ ticket \in [Tickets -> TicketRow] /\ proposal \in [Proposals -> ProposalRow]
      /\ draft \in [Insights -> {"none", "drafted", "copied"}]
  BY DEF TableInv, LogInv, IndInv, TypeInv, TypeOK
<1>2. RowsPersist /\ UNCHANGED <<insight, log, req>>
  BY <1>1, SuggestKeeps
<1>3. \A i, s : Into(i, s)' = Into(i, s)
  BY <1>2 DEF Into, Committed, Ids
<1>4. PICK i \in Insights :
        \/ \E t \in Tickets : DraftTicket(t, i)
        \/ \E p \in Proposals : Propose(p, i)
        \/ DraftEmails(i)
  BY DEF Suggest
<1>5. /\ \A t \in Tickets : ticket'[t].events = ticket[t].events
      /\ \A p \in Proposals : proposal'[p].events = proposal[p].events
      /\ \A j \in Insights : draft[j] = "copied" => draft'[j] = "copied"
  <2>1. ASSUME NEW t \in Tickets, DraftTicket(t, i)
        PROVE  /\ \A u \in Tickets : ticket'[u].events = ticket[u].events
               /\ UNCHANGED <<proposal, draft>>
    <3> DEFINE owned == [ticket[t] EXCEPT !.insight = i]
               row   == [owned EXCEPT !.state = "draft"]
    <3>1. ticket' = [ticket EXCEPT ![t] = row] /\ UNCHANGED <<proposal, draft>>
      BY <2>1 DEF DraftTicket
    <3>2. owned.events = ticket[t].events
      OBVIOUS
    <3> HIDE DEF owned
    <3>3. row.events = ticket[t].events
      BY <3>2
    <3> HIDE DEF row
    <3>4. QED
      BY <1>1, <3>1, <3>3
  <2>2. ASSUME NEW p \in Proposals, Propose(p, i)
        PROVE  /\ \A u \in Proposals : proposal'[u].events = proposal[u].events
               /\ UNCHANGED <<ticket, draft>>
    <3> DEFINE owned == [proposal[p] EXCEPT !.insight = i]
               row   == [owned EXCEPT !.status = "proposed"]
    <3>1. proposal' = [proposal EXCEPT ![p] = row] /\ UNCHANGED <<ticket, draft>>
      BY <2>2 DEF Propose
    <3>2. owned.events = proposal[p].events
      OBVIOUS
    <3> HIDE DEF owned
    <3>3. row.events = proposal[p].events
      BY <3>2
    <3> HIDE DEF row
    <3>4. QED
      BY <1>1, <3>1, <3>3
  <2>3. CASE DraftEmails(i)
    BY <1>1, <2>3 DEF DraftEmails
  <2>4. QED
    BY <1>4, <2>1, <2>2, <2>3
<1>6. EventRows'
  BY <1>1, <1>2, <1>5 DEF EventRows, RowsPersist
<1>7. /\ \A t \in Tickets : ticket[t].events # {} => ticket'[t].insight = ticket[t].insight
      /\ \A p \in Proposals : proposal[p].events # {} => proposal'[p].insight = proposal[p].insight
  BY <1>1, <1>2 DEF EventRows, RowsPersist
<1>8. TablesAgreeWithLog'
  <2>1. ASSUME NEW j \in Insights, Into(j, "shipped") # {}
        PROVE  \E p \in Proposals : proposal'[p].insight = j /\ "confirmed" \in proposal'[p].events
    <3>1. PICK p \in Proposals : proposal[p].insight = j /\ "confirmed" \in proposal[p].events
      BY <1>1, <2>1 DEF TablesAgreeWithLog
    <3>2. QED
      BY <1>5, <1>7, <3>1
  <2>2. ASSUME NEW j \in Insights, Into(j, "ticketed") # {}
        PROVE  \E t \in Tickets : ticket'[t].insight = j /\ "raised" \in ticket'[t].events
    <3>1. PICK t \in Tickets : ticket[t].insight = j /\ "raised" \in ticket[t].events
      BY <1>1, <2>2 DEF TablesAgreeWithLog
    <3>2. QED
      BY <1>5, <1>7, <3>1
  <2>3. ASSUME NEW p \in Proposals, "confirmed" \in proposal'[p].events
        PROVE  Into(proposal'[p].insight, "shipped") # {}
    BY <1>1, <1>5, <1>7, <2>3 DEF TablesAgreeWithLog
  <2>4. \A j \in Insights : Into(j, "client_notified") # {} => draft'[j] = "copied"
    BY <1>1, <1>5 DEF TablesAgreeWithLog
  <2>5. QED
    BY <1>3, <2>1, <2>2, <2>3, <2>4 DEF TablesAgreeWithLog
<1>9. ActorsKnown' /\ SeenShipped' /\ NoLostEdit' /\ SecondUpdatesMatchLog'
  BY <1>2, <1>3 DEF TableInv, ActorsKnown, SeenShipped, NoLostEdit, SecondUpdatesMatchLog
<1>10. QED
  BY <1>6, <1>8, <1>9 DEF TableInv

\* The invariant holds of the empty database ...
LEMMA TableInvInit == Init => TableInv
<1> SUFFICES ASSUME Init PROVE TableInv
  OBVIOUS
<1>1. LogInv
  BY LogInvInit
<1>2. \A i, s : Into(i, s) = {}
  BY DEF Init, Into, Committed, Ids
<1>3. ActorsKnown /\ SeenShipped
  BY DEF Init, Idle, ActorsKnown, SeenShipped
<1>4. EventRows
  BY DEF Init, NoTicket, NoProposal, EventRows
<1>5. NoLostEdit /\ SecondUpdatesMatchLog
  BY <1>2 DEF Init, NewInsight, NoLostEdit, SecondUpdatesMatchLog
<1>6. TablesAgreeWithLog
  BY <1>2 DEF Init, NoProposal, TablesAgreeWithLog
<1>7. QED
  BY <1>1, <1>3, <1>4, <1>5, <1>6 DEF TableInv

\* ... and every step keeps it.
LEMMA TableInvNext == TableInv /\ [Next]_vars => TableInv'
<1> SUFFICES ASSUME TableInv, [Next]_vars PROVE TableInv'
  OBVIOUS
<1>1. LogInv /\ LogInv' /\ IndInv /\ TypeInv
  BY LogInvNext DEF TableInv, LogInv, IndInv
<1>2. ASSUME NEW r \in Requests, Arrive(r) PROVE TableInv'
  <2>1. Arrived(r) /\ Sound(req'[r])
    BY <1>1, <1>2, ArriveArrives, ArriveSound
  <2>2. Quiet
    BY <2>1 DEF Arrived, Quiet, LogQuiet, TicketsQuiet, Committed, Ids
  <2>3. QED
    BY <1>1, <2>1, <2>2, QuietKeeps DEF Arrived
<1>3. ASSUME NEW r \in Requests,
             \/ FileIssue(r) \/ GiveUpIssue(r) \/ EnterTx(r) \/ Check(r) \/ Refuse(r)
             \/ AppendEvent(r) \/ MoveSource(r) \/ EditConflict(r) \/ DeadlockAbort(r) \/ Crash(r)
      PROVE  TableInv'
  <2>1. Quiet
    BY <1>1, <1>3, StepQuiet
  <2>2. Same(r)
    BY <1>1, <1>3, StepSame DEF Step
  <2>3. QED
    BY <1>1, <2>1, <2>2, QuietKeeps DEF Same
<1>4. ASSUME NEW r \in Requests, Commit(r) PROVE TableInv'
  BY <1>1, <1>4, CommitKeeps
<1>5. ASSUME Suggest PROVE TableInv'
  BY <1>1, <1>5, SuggestionsKeep
<1>6. CASE UNCHANGED vars
  BY <1>1, <1>6 DEF vars, TableInv, ActorsKnown, SeenShipped, EventRows, NoLostEdit,
     SecondUpdatesMatchLog, TablesAgreeWithLog, Into, Committed, Ids
<1>7. ASSUME NEW r \in Requests, Step(r) PROVE TableInv'
  BY <1>3, <1>4, <1>7 DEF Step, Commit
<1>8. QED
  BY <1>2, <1>3, <1>5, <1>6, <1>7 DEF Next

\* It holds in every reachable state, of every instance.
THEOREM TableInvariance == Spec => []TableInv
  BY TableInvInit, TableInvNext, PTL DEF Spec

\* No saved edit of a body is lost, however many authors save at once
\* (updateBody's WHERE version = ?).
THEOREM NoEditIsLost == Spec => []NoLostEdit
<1>1. TableInv => NoLostEdit
  BY DEF TableInv
<1>2. QED
  BY <1>1, TableInvariance, PTL

\* The merge pointer and the signatory of an insight are there exactly when the log
\* holds their event (events.ts 165-175, insights/service.ts 400-405).
THEOREM SecondUpdatesStay == Spec => []SecondUpdatesMatchLog
<1>1. TableInv => SecondUpdatesMatchLog
  BY DEF TableInv
<1>2. QED
  BY <1>1, TableInvariance, PTL

\* The tables of proposals, tickets and drafts hold what the log's events cite, and a
\* confirmed proposal has a shipped insight, whatever is rolled back.
THEOREM TablesAlwaysAgree == Spec => []TablesAgreeWithLog
<1>1. TableInv => TablesAgreeWithLog
  BY DEF TableInv
<1>2. QED
  BY <1>1, TableInvariance, PTL

----------------------------------------------------------------------------
(*****************************************************************************)
(* One request at a time: what a request has checked still holds when it     *)
(* writes (ChecksHold).  The runs show each of these properties violated     *)
(* with two requests.                                                        *)
(*****************************************************************************)

\* One request at a time.
Alone == \A r, s \in Requests : r = s

\* What a request that is alone has checked still holds when it writes.
StillHolds(q) ==
  /\ q.phase \in {"checked", "appended", "moved"} =>
       insight[q.insight].state = q.from /\ canTransition(q.from, To(q.op))
  /\ q.op = "merge" => q.arg # q.insight /\ insight[q.arg].state \notin Terminal
  /\ q.op = "rejectProposal" => proposal[q.row].status # "confirmed"

ChecksHold == \A r \in Requests : StillHolds(req[r])

MergedStay == \A i \in Insights : insight[i].mergedInto # None => insight[i].state = "merged"

AloneInv == TableInv /\ ChecksHold /\ MergedStay /\ MergesAreAcyclic

\* No edge of the map leaves a terminal state.
LEMMA NothingAfterMerged ==
  ASSUME NEW from, NEW to, canTransition(from, to)
  PROVE  from \notin Terminal
  BY DEF canTransition, TRANSITIONS, Edge, Terminal

\* What a request has checked when it begins holds then.
LEMMA BeginHolds ==
  ASSUME TypeInv, NEW r \in Requests, NEW q, Begin(r, q), q.phase = "begun",
         q.op = "merge" => q.arg # q.insight /\ insight[q.arg].state \notin Terminal,
         q.op = "rejectProposal" => proposal[q.row].status # "confirmed"
  PROVE  StillHolds(req'[r])
<1>1. req'[r] = q
  BY DEF Begin, TypeInv, TypeOK
<1>2. QED
  BY <1>1 DEF StillHolds

\* A request that arrives has checked nothing that does not hold.
LEMMA ArriveHolds ==
  ASSUME TypeInv, NEW r \in Requests, Arrive(r)
  PROVE  StillHolds(req'[r])
<1>1. ASSUME NEW u \in Users, NEW i \in Insights, BeginTriage(r, i, u) PROVE StillHolds(req'[r])
  <2>1. PICK a \in Users \cup {None}, track \in Tracks :
          Begin(r, [Reading("triage", i, u) EXCEPT !.row = i, !.arg = a, !.track = track])
    BY <1>1 DEF BeginTriage
  <2> DEFINE q == [Reading("triage", i, u) EXCEPT !.row = i, !.arg = a, !.track = track]
  <2>2. q.op = "triage" /\ q.phase = "begun"
    BY DEF Idle, Call, Reading
  <2> HIDE DEF q
  <2>3. QED
    BY <2>1, <2>2, BeginHolds DEF q
<1>2. ASSUME NEW u \in Users, NEW i \in Insights, BeginEdit(r, i, u) PROVE StillHolds(req'[r])
  <2>1. PICK body \in {"text", "empty"} : Begin(r, [Call("edit", i, u) EXCEPT !.arg = body, !.base = version(i)])
    BY <1>2 DEF BeginEdit
  <2> DEFINE q == [Call("edit", i, u) EXCEPT !.arg = body, !.base = version(i)]
  <2>2. q.op = "edit" /\ q.phase = "begun"
    BY DEF Idle, Call
  <2> HIDE DEF q
  <2>3. QED
    BY <2>1, <2>2, BeginHolds DEF q
<1>3. ASSUME NEW u \in Users, NEW i \in Insights, BeginFinalize(r, i, u) \/ BeginReject(r, i, u) \/ BeginCopy(r, i, u)
      PROVE  StillHolds(req'[r])
  <2>1. \E op \in {"finalize", "reject", "copy"} : Begin(r, Call(op, i, u)) \/ Begin(r, Reading(op, i, u))
    BY <1>3 DEF BeginFinalize, BeginReject, BeginCopy
  <2>2. PICK op \in {"finalize", "reject", "copy"} : Begin(r, Call(op, i, u)) \/ Begin(r, Reading(op, i, u))
    BY <2>1
  <2>3. /\ Call(op, i, u).op = op /\ Call(op, i, u).phase = "begun"
        /\ Reading(op, i, u).op = op /\ Reading(op, i, u).phase = "begun"
    BY DEF Idle, Call, Reading
  <2>4. CASE Begin(r, Call(op, i, u))
    BY <2>3, <2>4, BeginHolds
  <2>5. CASE Begin(r, Reading(op, i, u))
    BY <2>3, <2>5, BeginHolds
  <2>6. QED
    BY <2>2, <2>4, <2>5
<1>4. ASSUME NEW u \in Users, NEW i \in Insights, BeginMerge(r, i, u) PROVE StillHolds(req'[r])
  <2>1. PICK into \in Insights \ {i} :
          /\ insight[into].state \notin Terminal
          /\ Begin(r, [Call("merge", i, u) EXCEPT !.arg = into])
    BY <1>4 DEF BeginMerge
  <2> DEFINE q == [Call("merge", i, u) EXCEPT !.arg = into]
  <2>2. q.op = "merge" /\ q.phase = "begun" /\ q.arg = into /\ q.insight = i
    BY DEF Idle, Call
  <2> HIDE DEF q
  <2>3. Begin(r, q)
    BY <2>1 DEF q
  <2>4. QED
    BY <2>1, <2>2, <2>3, BeginHolds
<1>5. ASSUME NEW u \in Users, NEW i \in Insights, BeginClose(r, i, u) PROVE StillHolds(req'[r])
  <2>1. PICK reason \in {"reason", "none"} : Begin(r, [Call("close", i, u) EXCEPT !.arg = reason])
    BY <1>5 DEF BeginClose
  <2> DEFINE q == [Call("close", i, u) EXCEPT !.arg = reason]
  <2>2. q.op = "close" /\ q.phase = "begun"
    BY DEF Idle, Call
  <2> HIDE DEF q
  <2>3. QED
    BY <2>1, <2>2, BeginHolds DEF q
<1>6. ASSUME NEW u \in Users, NEW t \in Tickets, NEW op \in RaiseOps, BeginRaise(r, op, t, u)
      PROVE  StillHolds(req'[r])
  <2> DEFINE q == [Call(op, ticket[t].insight, u) EXCEPT !.row = t]
  <2>1. Begin(r, q)
    BY <1>6 DEF BeginRaise
  <2>2. q.op = op /\ q.phase = "begun"
    BY DEF Idle, Call
  <2> HIDE DEF q
  <2>3. QED
    BY <2>1, <2>2, BeginHolds DEF RaiseOps
<1>7. ASSUME NEW u \in Users, NEW p \in Proposals, BeginConfirm(r, p, u) PROVE StillHolds(req'[r])
  <2> DEFINE q == [Reading("confirm", proposal[p].insight, u) EXCEPT !.row = p]
  <2>1. Begin(r, q)
    BY <1>7 DEF BeginConfirm
  <2>2. q.op = "confirm" /\ q.phase = "begun"
    BY DEF Idle, Call, Reading
  <2> HIDE DEF q
  <2>3. QED
    BY <2>1, <2>2, BeginHolds
<1>8. ASSUME NEW u \in Users, NEW p \in Proposals, BeginRejectProposal(r, p, u) PROVE StillHolds(req'[r])
  <2> DEFINE q == [Call("rejectProposal", proposal[p].insight, u) EXCEPT !.row = p]
  <2>1. Begin(r, q) /\ proposal[p].status # "confirmed"
    BY <1>8 DEF BeginRejectProposal
  <2>2. q.op = "rejectProposal" /\ q.phase = "begun" /\ q.row = p
    BY DEF Idle, Call
  <2> HIDE DEF q
  <2>3. QED
    BY <2>1, <2>2, BeginHolds
<1>9. ASSUME BeginMarkStale(r) PROVE StillHolds(req'[r])
  <2>1. PICK old \in (SUBSET {t \in Tickets : ticket[t].state = "draft"}) \ {{}} :
          Begin(r, [Idle EXCEPT !.op = "markStale", !.phase = "begun", !.rows = old])
    BY <1>9 DEF BeginMarkStale
  <2> DEFINE q == [Idle EXCEPT !.op = "markStale", !.phase = "begun", !.rows = old]
  <2>2. q.op = "markStale" /\ q.phase = "begun"
    BY DEF Idle
  <2> HIDE DEF q
  <2>3. QED
    BY <2>1, <2>2, BeginHolds DEF q
<1>10. QED
  BY <1>1, <1>2, <1>3, <1>4, <1>5, <1>6, <1>7, <1>8, <1>9 DEF Arrive

\* A step that is no commit keeps what was checked.
LEMMA StepHolds ==
  ASSUME IndInv, NEW r \in Requests, StillHolds(req[r]),
         \/ FileIssue(r) \/ GiveUpIssue(r) \/ EnterTx(r) \/ Check(r) \/ Refuse(r)
         \/ AppendEvent(r) \/ MoveSource(r) \/ EditConflict(r) \/ DeadlockAbort(r) \/ Crash(r)
  PROVE  StillHolds(req'[r])
<1>1. req \in [Requests -> Request] /\ req[r] \in Request
  BY DEF IndInv, TypeInv, TypeOK
<1>2. UNCHANGED <<insight, proposal>>
  BY StepQuiet DEF Quiet
<1> DEFINE i == req[r].insight
           kept(q) == /\ q.op = req[r].op /\ q.insight = req[r].insight /\ q.arg = req[r].arg
                      /\ q.row = req[r].row
<1>3. ASSUME NEW p, NEW q, req' = [req EXCEPT ![r] = q], kept(q), q.phase = p,
             p \in {"checked", "appended", "moved"} =>
               insight[i].state = q.from /\ canTransition(q.from, To(req[r].op))
      PROVE  StillHolds(req'[r])
  <2>1. req'[r] = q
    BY <1>1, <1>3
  <2>2. QED
    BY <1>3, <2>1 DEF StillHolds
<1>4. CASE req' = [req EXCEPT ![r] = Idle]
  <2>1. req'[r] = Idle
    BY <1>1, <1>4
  <2>2. QED
    BY <2>1 DEF StillHolds, Idle
<1>5. CASE FileIssue(r)
  <2> DEFINE q == [req[r] EXCEPT !.phase = "filed"]
  <2>1. req' = [req EXCEPT ![r] = q]
    BY <1>5 DEF FileIssue, Phase
  <2>2. kept(q) /\ q.phase = "filed"
    BY <1>1 DEF Request
  <2> HIDE DEF q, kept
  <2>3. QED
    BY <1>3, <2>1, <2>2
<1>6. CASE EnterTx(r)
  <2> DEFINE seen == IF req[r].op \in RaiseOps THEN insight[req[r].insight].state ELSE req[r].saw
             q1 == [req[r] EXCEPT !.phase = "writing"]
             q  == [q1 EXCEPT !.saw = seen]
  <2>1. req' = [req EXCEPT ![r] = q]
    BY <1>6 DEF EnterTx
  <2> HIDE DEF seen
  <2>2. kept(q1) /\ q1.phase = "writing"
    BY <1>1 DEF Request
  <2> HIDE DEF q1
  <2>3. kept(q) /\ q.phase = "writing"
    BY <2>2
  <2> HIDE DEF q, kept
  <2>4. QED
    BY <1>3, <2>1, <2>3
<1>7. CASE Check(r)
  <2> DEFINE was == insight[req[r].insight].state
             q1 == [req[r] EXCEPT !.phase = "checked"]
             q  == [q1 EXCEPT !.from = was]
  <2>1. req' = [req EXCEPT ![r] = q] /\ canTransition(was, To(req[r].op))
    BY <1>7 DEF Check, Permitted, canTransition
  <2>2. was = insight[i].state
    OBVIOUS
  <2> HIDE DEF was
  <2>3. kept(q1) /\ q1.phase = "checked" /\ "from" \in DOMAIN q1
    BY <1>1 DEF Request
  <2> HIDE DEF q1
  <2>4. kept(q) /\ q.phase = "checked" /\ q.from = was
    BY <2>3
  <2> HIDE DEF q, kept
  <2>5. QED
    BY <1>3, <2>1, <2>2, <2>4
<1>8. CASE AppendEvent(r)
  <2> DEFINE id == Len(log) + 1
             q1 == [req[r] EXCEPT !.phase = "appended"]
             q  == [q1 EXCEPT !.ev = id]
  <2>1. req' = [req EXCEPT ![r] = q] /\ req[r].phase = "checked"
    BY <1>8 DEF AppendEvent
  <2> HIDE DEF id
  <2>2. kept(q1) /\ q1.phase = "appended" /\ q1.from = req[r].from
    BY <1>1 DEF Request
  <2> HIDE DEF q1
  <2>3. kept(q) /\ q.phase = "appended" /\ q.from = req[r].from
    BY <2>2
  <2>4. insight[i].state = req[r].from /\ canTransition(req[r].from, To(req[r].op))
    BY <2>1 DEF StillHolds
  <2> HIDE DEF q, kept
  <2>5. QED
    BY <1>3, <2>1, <2>3, <2>4
<1>9. CASE MoveSource(r)
  <2> DEFINE q == [req[r] EXCEPT !.phase = "moved"]
  <2>1. req' = [req EXCEPT ![r] = q] /\ req[r].phase = "appended"
    BY <1>9 DEF MoveSource, Phase
  <2>2. kept(q) /\ q.phase = "moved" /\ q.from = req[r].from
    BY <1>1 DEF Request
  <2>3. insight[i].state = req[r].from /\ canTransition(req[r].from, To(req[r].op))
    BY <2>1 DEF StillHolds
  <2> HIDE DEF q, kept
  <2>4. QED
    BY <1>3, <2>1, <2>2, <2>3
<1>10. QED
  BY <1>4, <1>5, <1>6, <1>7, <1>8, <1>9 DEF GiveUpIssue, Refuse, EditConflict, DeadlockAbort, Crash, Rollback

\* A merge points its insight to one that points nowhere; nobody else writes a pointer.
LEMMA CommitMerges ==
  ASSUME AloneInv, NEW r \in Requests, Commit(r)
  PROVE  MergedStay' /\ MergesAreAcyclic'
<1> DEFINE q == req[r]
<1>1. /\ IndInv /\ TypeInv /\ EventsOwned /\ StillHolds(q) /\ RequestOK(q)
      /\ SecondWrites(r) /\ Commits(r)
  BY CommitSeconds, CommitCommits DEF AloneInv, TableInv, LogInv, IndInv, ChecksHold, TypeInv, RowsKnown
<1>2. CASE q.op = "merge"
  <2>1. q.phase = "moved"
    BY <1>2 DEF Commit, CommitTriage, CommitEdit, CommitFinalize, CommitReject, CommitMerge, CommitClose,
         CommitRaise, CommitConfirm, CommitRejectProposal, CommitCopy, CommitMarkStale, RaiseOps
  <2>2. HasEvent(r)
    BY <1>1, <2>1 DEF EventsOwned, HasEvent, Ids
  <2>3. To(q.op) = "merged"
    BY <1>2 DEF To, RaiseOps
  <2>4. insight'[q.insight].state = "merged"
    BY <1>1, <2>2, <2>3, CommitMovesOwn
  <2>5. /\ q.insight \in Insights /\ q.arg \in Insights /\ q.arg # q.insight
        /\ insight[q.arg].state \notin Terminal
    BY <1>1, <1>2 DEF RequestOK, StillHolds
  <2>6. insight[q.arg].mergedInto = None
    BY <2>5 DEF AloneInv, MergedStay, Terminal
  <2>7. \A i \in Insights : insight'[i].mergedInto = IF i = q.insight THEN q.arg ELSE insight[i].mergedInto
    BY <1>1, <1>2 DEF SecondWrites
  <2>8. \A i \in Insights \ {q.insight} : insight'[i].state = insight[i].state
    BY <1>1 DEF Commits
  <2>9. MergedStay'
    BY <2>4, <2>7, <2>8 DEF AloneInv, MergedStay
  <2>10. ASSUME NEW S \in (SUBSET Insights) \ {{}} PROVE \E i \in S : insight'[i].mergedInto \notin S
    <3>1. CASE q.arg \in S
      <4>1. insight'[q.arg].mergedInto = None
        BY <2>5, <2>6, <2>7
      <4>2. None \notin S
        BY NoneAssumption
      <4>3. QED
        BY <3>1, <4>1, <4>2
    <3>2. CASE q.arg \notin S /\ q.insight \in S
      BY <2>5, <2>7, <3>2
    <3>3. CASE q.insight \notin S
      <4>1. PICK i \in S : insight[i].mergedInto \notin S
        BY DEF AloneInv, MergesAreAcyclic
      <4>2. insight'[i].mergedInto = insight[i].mergedInto
        BY <2>7, <3>3
      <4>3. QED
        BY <4>1, <4>2
    <3>4. QED
      BY <3>1, <3>2, <3>3
  <2>11. QED
    BY <2>9, <2>10 DEF MergesAreAcyclic
<1>3. CASE q.op # "merge"
  <2>1. \A i \in Insights : insight'[i].mergedInto = insight[i].mergedInto
    BY <1>1, <1>3 DEF SecondWrites
  <2>2. ASSUME NEW i \in Insights, insight[i].state = "merged" PROVE insight'[i].state = "merged"
    <3>1. SUFFICES ASSUME i = q.insight, q.phase \in {"appended", "moved"} PROVE FALSE
      BY <1>1, <2>2 DEF Commits
    <3>2. canTransition("merged", To(q.op))
      BY <1>1, <2>2, <3>1 DEF StillHolds
    <3>3. QED
      BY <3>2, NothingAfterMerged DEF Terminal
  <2>3. MergedStay'
    BY <2>1, <2>2 DEF AloneInv, MergedStay
  <2>4. MergesAreAcyclic'
    BY <2>1 DEF AloneInv, MergesAreAcyclic
  <2>5. QED
    BY <2>3, <2>4
<1>4. QED
  BY <1>2, <1>3

\* Initially no request has checked anything.
LEMMA AloneInvInit == Init => AloneInv
<1> SUFFICES ASSUME Init PROVE AloneInv
  OBVIOUS
<1>1. TableInv
  BY TableInvInit
<1>2. ChecksHold
  BY DEF Init, Idle, ChecksHold, StillHolds
<1>3. \A i \in Insights : insight[i].mergedInto = None
  BY DEF Init, NewInsight
<1>4. MergedStay
  BY <1>3 DEF MergedStay
<1>5. ASSUME NEW S, S \subseteq Insights, S # {} PROVE \E i \in S : insight[i].mergedInto \notin S
  <2>1. None \notin S
    BY <1>5, NoneAssumption
  <2>2. PICK i : i \in S
    BY <1>5
  <2>3. insight[i].mergedInto = None
    BY <1>3, <1>5, <2>2
  <2>4. QED
    BY <2>1, <2>2, <2>3
<1>6. \A S \in (SUBSET Insights) \ {{}} : S \subseteq Insights /\ S # {}
  OBVIOUS
<1>7. MergesAreAcyclic
  BY <1>5, <1>6 DEF MergesAreAcyclic
<1>8. QED
  BY <1>1, <1>2, <1>4, <1>7 DEF AloneInv

\* A suggestion is beside the point of every check.
LEMMA SuggestHolds ==
  ASSUME AloneInv, Suggest
  PROVE  ChecksHold'
<1>1. /\ TypeInv /\ ChecksHold /\ proposal \in [Proposals -> ProposalRow]
      /\ \A r \in Requests : RequestOK(req[r]) /\ NamesRows(req[r])
  BY DEF AloneInv, TableInv, LogInv, IndInv, TypeInv, TypeOK, RowsKnown
<1>2. UNCHANGED <<insight, req>>
  BY <1>1, SuggestKeeps
<1>3. \A p \in Proposals : proposal[p].status # "absent" => proposal'[p].status = proposal[p].status
  <2>1. ASSUME NEW p \in Proposals, NEW i \in Insights, Propose(p, i)
        PROVE  \A s \in Proposals : proposal[s].status # "absent" => proposal'[s].status = proposal[s].status
    <3> DEFINE owned == [proposal[p] EXCEPT !.insight = i]
               row   == [owned EXCEPT !.status = "proposed"]
    <3>1. proposal' = [proposal EXCEPT ![p] = row] /\ proposal[p].status = "absent"
      BY <2>1 DEF Propose
    <3> HIDE DEF row
    <3>2. QED
      BY <1>1, <3>1
  <2>2. QED
    BY <2>1 DEF Suggest, DraftTicket, DraftEmails
<1>4. ASSUME NEW r \in Requests PROVE StillHolds(req[r])'
  <2>1. StillHolds(req[r])
    BY <1>1 DEF ChecksHold
  <2>2. req[r].op = "rejectProposal" =>
          req[r].row \in Proposals /\ proposal[req[r].row].status # "absent"
    BY <1>1 DEF RequestOK, NamesRows
  <2>3. QED
    BY <1>2, <1>3, <2>1, <2>2 DEF StillHolds
<1>5. QED
  BY <1>4 DEF ChecksHold

\* A request that is alone finds what it checked when it writes.
LEMMA AloneInvNext ==
  ASSUME Alone, AloneInv, [Next]_vars
  PROVE  AloneInv'
<1>1. TableInv' /\ TypeInv /\ IndInv /\ req \in [Requests -> Request]
  BY TableInvNext DEF AloneInv, TableInv, LogInv, IndInv, TypeInv, TypeOK
<1>2. ASSUME UNCHANGED insight PROVE MergedStay' /\ MergesAreAcyclic'
  BY <1>2 DEF AloneInv, MergedStay, MergesAreAcyclic
<1>3. ASSUME NEW r \in Requests, StillHolds(req[r])' PROVE ChecksHold'
  BY <1>3 DEF Alone, ChecksHold
<1>4. ASSUME NEW r \in Requests, Arrive(r) PROVE AloneInv'
  <2>1. StillHolds(req'[r]) /\ UNCHANGED <<insight, proposal>>
    BY <1>1, <1>4, ArriveArrives, ArriveHolds DEF Arrived
  <2>2. StillHolds(req[r])'
    BY <2>1 DEF StillHolds
  <2>3. QED
    BY <1>1, <1>2, <1>3, <2>1, <2>2 DEF AloneInv
<1>5. ASSUME NEW r \in Requests,
             \/ FileIssue(r) \/ GiveUpIssue(r) \/ EnterTx(r) \/ Check(r) \/ Refuse(r)
             \/ AppendEvent(r) \/ MoveSource(r) \/ EditConflict(r) \/ DeadlockAbort(r) \/ Crash(r)
      PROVE  AloneInv'
  <2>1. UNCHANGED <<insight, proposal>>
    BY <1>1, <1>5, StepQuiet DEF Quiet
  <2>2. StillHolds(req'[r])
    BY <1>1, <1>5, StepHolds DEF AloneInv, ChecksHold
  <2>3. StillHolds(req[r])'
    BY <2>1, <2>2 DEF StillHolds
  <2>4. QED
    BY <1>1, <1>2, <1>3, <2>1, <2>3 DEF AloneInv
<1>6. ASSUME NEW r \in Requests, Commit(r) PROVE AloneInv'
  <2>1. req' = [req EXCEPT ![r] = Idle]
    BY <1>1, <1>6, CommitCommits DEF IndInv, Commits, Finish
  <2>2. req'[r] = Idle
    BY <1>1, <2>1
  <2>3. StillHolds(req[r])'
    BY <2>2 DEF StillHolds, Idle
  <2>4. QED
    BY <1>1, <1>3, <1>6, <2>3, CommitMerges DEF AloneInv
<1>7. ASSUME Suggest PROVE AloneInv'
  <2>1. UNCHANGED insight
    BY <1>1, <1>7, SuggestKeeps
  <2>2. QED
    BY <1>1, <1>2, <1>7, <2>1, SuggestHolds DEF AloneInv
<1>8. CASE UNCHANGED vars
  BY <1>1, <1>2, <1>8 DEF vars, AloneInv, ChecksHold, StillHolds
<1>9. ASSUME NEW r \in Requests, Step(r) PROVE AloneInv'
  BY <1>5, <1>6, <1>9 DEF Step, Commit
<1>10. QED
  BY <1>4, <1>5, <1>7, <1>8, <1>9 DEF Next

\* With one request at a time, the tables agree with the log and every check stands until
\* its write.
THEOREM AloneInvariance == ASSUME Alone PROVE Spec => []AloneInv
<1>1. Init => AloneInv
  BY AloneInvInit
<1>2. AloneInv /\ [Next]_vars => AloneInv'
  BY AloneInvNext
<1>3. QED
  BY <1>1, <1>2, PTL DEF Spec

\* With one request at a time following merge pointers never comes back: mergeInsight
\* refuses a target that is itself merged.
THEOREM AloneMergesAreAcyclic == ASSUME Alone PROVE Spec => []MergesAreAcyclic
<1>1. AloneInv => MergesAreAcyclic
  BY DEF AloneInv
<1>2. QED
  BY <1>1, AloneInvariance, PTL

\* A step moves an insight only when it commits what the request had checked.
LEMMA AloneMoves ==
  ASSUME AloneInv, Next
  PROVE  \A i \in Insights : insight'[i].state # insight[i].state
           => canTransition(insight[i].state, insight'[i].state)
<1>1. IndInv /\ TypeInv /\ EventsOwned /\ ChecksHold
  BY DEF AloneInv, TableInv, LogInv, IndInv
<1>2. SUFFICES ASSUME ~UNCHANGED insight
               PROVE  \A i \in Insights : insight'[i].state # insight[i].state
                        => canTransition(insight[i].state, insight'[i].state)
  OBVIOUS
<1>3. PICK r \in Requests : Commit(r)
  <2>1. ASSUME NEW r \in Requests, Arrive(r) PROVE FALSE
    BY <1>1, <1>2, <2>1, ArriveArrives DEF Arrived
  <2>2. ASSUME NEW r \in Requests,
             \/ FileIssue(r) \/ GiveUpIssue(r) \/ EnterTx(r) \/ Check(r) \/ Refuse(r)
             \/ AppendEvent(r) \/ MoveSource(r) \/ EditConflict(r) \/ DeadlockAbort(r) \/ Crash(r)
      PROVE  FALSE
    BY <1>1, <1>2, <2>2, StepQuiet DEF Quiet
  <2>3. ASSUME Suggest PROVE FALSE
    BY <1>1, <1>2, <2>3, SuggestKeeps
  <2>4. QED
    BY <2>1, <2>2, <2>3 DEF Next, Step, Commit
<1>4. Commits(r) /\ StillHolds(req[r])
  BY <1>1, <1>3, CommitCommits DEF ChecksHold
<1>5. QED
  BY <1>4 DEF Commits, StillHolds

\* With one request at a time every change of a state is an edge of the transition map
\* (SPEC.md 55).
THEOREM AloneStatesFollowMap == ASSUME Alone PROVE Spec => StateFollowsMap
<1>1. AloneInv /\ [Next]_vars =>
        [\A i \in Insights : insight'[i].state # insight[i].state
           => canTransition(insight[i].state, insight'[i].state)]_insight
  BY AloneMoves DEF vars
<1>2. QED
  BY <1>1, AloneInvariance, PTL DEF Spec, StateFollowsMap

\* A confirmed proposal stays so by every step.
LEMMA AloneConfirmed ==
  ASSUME AloneInv, Next
  PROVE  \A p \in Proposals : proposal[p].status = "confirmed" => proposal'[p].status = "confirmed"
<1>1. /\ IndInv /\ TypeInv /\ EventsOwned /\ ChecksHold /\ proposal \in [Proposals -> ProposalRow]
      /\ \A p \in Proposals : proposal[p] \in ProposalRow
  BY DEF AloneInv, TableInv, LogInv, IndInv, TypeInv, TypeOK
<1>2. SUFFICES ASSUME ~UNCHANGED proposal
               PROVE  \A p \in Proposals : proposal[p].status = "confirmed" => proposal'[p].status = "confirmed"
  OBVIOUS
<1>3. ASSUME NEW p, NEW row, proposal' = [proposal EXCEPT ![p] = row],
             row.status = "confirmed" \/ proposal[p].status # "confirmed"
      PROVE  \A s \in Proposals : proposal[s].status = "confirmed" => proposal'[s].status = "confirmed"
  BY <1>1, <1>3
<1>4. ASSUME NEW r \in Requests, CommitConfirm(r)
      PROVE  \A s \in Proposals : proposal[s].status = "confirmed" => proposal'[s].status = "confirmed"
  <2> DEFINE p == req[r].row
             n == IF p \in Matches THEN proposal[p].rows + 1 ELSE 1
             ev == proposal[p].events \cup {"confirmed"}
             set == [proposal[p] EXCEPT !.status = "confirmed"]
             told == [set EXCEPT !.events = ev]
             row == [told EXCEPT !.rows = n]
  <2>1. proposal' = [proposal EXCEPT ![p] = row] /\ p \in Proposals
    BY <1>1, <1>4 DEF CommitConfirm, TypeInv, RowsKnown, RequestOK
  <2> HIDE DEF n, ev
  <2>2. set.status = "confirmed"
    BY <1>1, <2>1 DEF ProposalRow
  <2> HIDE DEF set
  <2>3. row.status = "confirmed"
    BY <2>2
  <2> HIDE DEF row, p
  <2>4. QED
    BY <1>3, <2>1, <2>3
<1>5. ASSUME NEW r \in Requests, CommitRejectProposal(r)
      PROVE  \A s \in Proposals : proposal[s].status = "confirmed" => proposal'[s].status = "confirmed"
  <2> DEFINE p == req[r].row
             ev == proposal[p].events \cup {"rejected"}
             set == [proposal[p] EXCEPT !.status = "rejected"]
             row == [set EXCEPT !.events = ev]
  <2>1. proposal' = [proposal EXCEPT ![p] = row] /\ proposal[p].status # "confirmed"
    BY <1>1, <1>5 DEF CommitRejectProposal, ChecksHold, StillHolds
  <2> HIDE DEF row, p
  <2>2. QED
    BY <1>3, <2>1
<1>6. ASSUME NEW p \in Proposals, NEW i \in Insights, Propose(p, i)
      PROVE  \A s \in Proposals : proposal[s].status = "confirmed" => proposal'[s].status = "confirmed"
  <2> DEFINE owned == [proposal[p] EXCEPT !.insight = i]
             row   == [owned EXCEPT !.status = "proposed"]
  <2>1. proposal' = [proposal EXCEPT ![p] = row] /\ proposal[p].status = "absent"
    BY <1>6 DEF Propose
  <2> HIDE DEF row
  <2>2. QED
    BY <1>3, <2>1
<1>7. ASSUME NEW r \in Requests, Arrive(r) PROVE FALSE
  BY <1>1, <1>2, <1>7, ArriveArrives DEF Arrived
<1>8. ASSUME NEW r \in Requests,
           \/ FileIssue(r) \/ GiveUpIssue(r) \/ EnterTx(r) \/ Check(r) \/ Refuse(r)
           \/ AppendEvent(r) \/ MoveSource(r) \/ EditConflict(r) \/ DeadlockAbort(r) \/ Crash(r)
    PROVE  FALSE
  BY <1>1, <1>2, <1>8, StepQuiet DEF Quiet
<1>9. ASSUME NEW r \in Requests, Step(r)
      PROVE  \A s \in Proposals : proposal[s].status = "confirmed" => proposal'[s].status = "confirmed"
  BY <1>2, <1>4, <1>5, <1>8, <1>9 DEF Step, CommitTriage, CommitEdit, CommitFinalize, CommitReject,
     CommitMerge, CommitClose, CommitRaise, CommitCopy, CommitMarkStale
<1>10. QED
  BY <1>2, <1>6, <1>7, <1>8, <1>9 DEF Next, Suggest, DraftTicket, DraftEmails

\* With one request at a time a confirmed proposal stays confirmed
\* (evidence/service.ts:195).
THEOREM AloneConfirmedStands == ASSUME Alone PROVE Spec => ConfirmedStands
<1>1. AloneInv /\ [Next]_vars =>
        [\A p \in Proposals : proposal[p].status = "confirmed" => proposal'[p].status = "confirmed"]_proposal
  BY AloneConfirmed DEF vars
<1>2. QED
  BY <1>1, AloneInvariance, PTL DEF Spec, ConfirmedStands

----------------------------------------------------------------------------
(*****************************************************************************)
(* The abstract specifications are implemented, step by step: a commit with  *)
(* an event is a move of the abstract ledger, and every other step leaves    *)
(* the cached states and the committed events as they are.                   *)
(*****************************************************************************)

\* The move that r's transaction makes when it commits.
OwnMove(r) ==
  [no |-> req[r].ev, insight |-> req[r].insight, from |-> req[r].from, to |-> To(req[r].op)]

\* A step that commits no event and moves no state is a stutter of the board.
LEMMA QuietStutters ==
  ASSUME LogQuiet, StatesKept
  PROVE  UNCHANGED <<Standing, Moves>>
<1>1. Committed' = Committed /\ \A k \in Committed : log'[k] = log[k]
  BY DEF LogQuiet, Committed, Ids
<1>2. Moves' = Moves
  BY <1>1 DEF Moves
<1>3. Standing' = Standing
  BY DEF StatesKept, Standing
<1>4. QED
  BY <1>2, <1>3

\* So is a commit without an event: triage of an insight already routed, an edit.
LEMMA EventlessStutters ==
  ASSUME IndInv, NEW r \in Requests, Commit(r), ~HasEvent(r)
  PROVE  UNCHANGED <<Standing, Moves>>
<1>1. TypeInv /\ EventsOwned /\ Commits(r)
  BY CommitCommits DEF IndInv
<1>2. req[r].phase \notin {"appended", "moved"}
  BY <1>1 DEF EventsOwned, HasEvent, Ids
<1>3. StatesKept
  BY <1>1, <1>2 DEF Commits, StatesKept
<1>4. UNCHANGED log
  BY <1>1 DEF Commits, Finish
<1>5. QED
  BY <1>3, <1>4, QuietStutters DEF LogQuiet, Committed, Ids

\* A commit with an event records the event's move, under the event's id.
LEMMA CommitRecords ==
  ASSUME LogInv, NEW r \in Requests, Commit(r), HasEvent(r)
  PROVE  Board!Recorded(OwnMove(r))
<1> DEFINE m == OwnMove(r)
<1>1. /\ IndInv /\ TypeInv /\ EventsOwned /\ EdgesKnown /\ Commits(r)
      /\ log \in Seq(Event) /\ insight \in [Insights -> InsightRow]
  BY CommitCommits DEF LogInv, IndInv, TypeInv, TypeOK
<1>2. /\ req[r].ev \in Ids /\ log[req[r].ev] = Pending(req[r])
      /\ req[r].phase \in {"appended", "moved"}
  BY <1>1, OwnEvent DEF HasEvent, Ids
<1>3. /\ DOMAIN log' = Ids
      /\ \A k \in Ids : log'[k] = IF k = req[r].ev THEN Done(req[r]) ELSE log[k]
  BY <1>1, FinishEffect DEF Commits, Ids
<1>4. /\ log[req[r].ev].status = "pending" /\ Done(req[r]).status = "committed"
      /\ Done(req[r]).insight = m.insight /\ Done(req[r]).from = m.from /\ Done(req[r]).to = m.to
      /\ log[req[r].ev].from = m.from /\ log[req[r].ev].to = m.to
      /\ m.no = req[r].ev /\ m.insight = req[r].insight /\ m.to = To(req[r].op)
      /\ m = [no |-> m.no, insight |-> m.insight, from |-> m.from, to |-> m.to]
  BY <1>2 DEF Done, Pending, OwnMove
<1>5. m.insight \in Insights
  BY <1>1, <1>2, <1>4 DEF Event, Gap, Pending, Ids
<1> HIDE DEF m
<1>6. Committed' = Committed \cup {m.no} /\ m.no \notin Committed
  BY <1>2, <1>3, <1>4 DEF Committed, Ids
<1>7. Moves' = Moves \cup {m}
  <2>1. \A k \in Committed : log'[k] = log[k]
    BY <1>3, <1>4, <1>6 DEF Committed
  <2>2. log'[m.no].insight = m.insight /\ log'[m.no].from = m.from /\ log'[m.no].to = m.to
    BY <1>2, <1>3, <1>4
  <2>3. QED
    BY <1>4, <1>6, <2>1, <2>2 DEF Moves
<1>8. \A p \in Moves : p.no # m.no
  BY <1>6 DEF Moves
<1>9. Board!canTransition(m.from, m.to)
  <2>1. canTransition(m.from, m.to)
    BY <1>1, <1>2, <1>4 DEF EdgesKnown
  <2>2. QED
    BY <2>1 DEF canTransition, TRANSITIONS, Edge,
                Board!canTransition, Board!TRANSITIONS, Board!Edge
<1>10. Standing' = [Standing EXCEPT ![m.insight] = m.to]
  <2>1. insight'[m.insight].state = m.to
    BY <1>1, <1>4, CommitMovesOwn
  <2>2. \A i \in Insights : i # m.insight => insight'[i].state = insight[i].state
    BY <1>1, <1>4 DEF Commits
  <2>3. QED
    BY <1>5, <2>1, <2>2 DEF Standing
<1>11. QED
  BY <1>5, <1>7, <1>8, <1>9, <1>10 DEF Board!Recorded, m

\* Every step is a commit with an event, or a stutter of the board.
LEMMA CommitsOrStutters ==
  ASSUME LogInv, [Next]_vars
  PROVE  \/ UNCHANGED <<Standing, Moves>>
         \/ \E r \in Requests : Commit(r) /\ HasEvent(r)
<1>1. IndInv /\ TypeInv
  BY DEF LogInv, IndInv
<1>2. CASE UNCHANGED vars
  BY <1>2, QuietStutters DEF vars, LogQuiet, Committed, Ids, StatesKept
<1>3. ASSUME NEW r \in Requests, Arrive(r) PROVE UNCHANGED <<Standing, Moves>>
  <2>1. UNCHANGED <<insight, log>>
    BY <1>1, <1>3, ArriveArrives DEF Arrived
  <2>2. QED
    BY <2>1, QuietStutters DEF LogQuiet, Committed, Ids, StatesKept
<1>4. ASSUME Suggest PROVE UNCHANGED <<Standing, Moves>>
  <2>1. UNCHANGED <<insight, log>>
    BY <1>1, <1>4, SuggestKeeps
  <2>2. QED
    BY <2>1, QuietStutters DEF LogQuiet, Committed, Ids, StatesKept
<1>5. ASSUME NEW r \in Requests, Step(r) \/ Crash(r), ~Commit(r)
      PROVE  UNCHANGED <<Standing, Moves>>
  <2>1. Quiet
    BY <1>1, <1>5, StepQuiet DEF Step, Commit
  <2>2. QED
    BY <2>1, QuietStutters DEF Quiet, StatesKept
<1>6. ASSUME NEW r \in Requests, Commit(r), ~HasEvent(r)
      PROVE  UNCHANGED <<Standing, Moves>>
  BY <1>1, <1>6, EventlessStutters
<1>7. QED
  BY <1>2, <1>3, <1>4, <1>5, <1>6 DEF Next

\* The empty database is the empty board.
LEMMA BoardStarts == Init => Board!BoardInit
<1> SUFFICES ASSUME Init PROVE Board!BoardInit
  OBVIOUS
<1>1. Committed = {}
  BY DEF Init, Committed, Ids
<1>2. Moves = {}
  BY <1>1 DEF Moves
<1>3. Standing = [i \in Insights |-> "extracted"]
  BY DEF Init, Standing, NewInsight
<1>4. QED
  BY <1>2, <1>3 DEF Board!BoardInit

\* Every step is a move of the ledger, from a state it holds under a smaller number,
\* or a stutter.
LEMMA LedgerSteps ==
  ASSUME LogInv, [Next]_vars
  PROVE  [\E m \in Moves' : Board!Record(m)]_<<Standing, Moves>>
<1>1. SUFFICES ASSUME NEW r \in Requests, Commit(r), HasEvent(r)
               PROVE  \E m \in Moves' : Board!Record(m)
  BY CommitsOrStutters
<1> DEFINE m == OwnMove(r)
<1>2. Board!Recorded(m)
  BY <1>1, CommitRecords
<1>3. m \in Moves'
  BY <1>2 DEF Board!Recorded
<1>4. /\ TypeInv /\ EventsOwned /\ Grounded
      /\ m.no = req[r].ev /\ m.insight = req[r].insight /\ m.from = req[r].from
  BY DEF LogInv, IndInv, OwnMove
<1>5. req[r].ev \in Ids /\ log[req[r].ev] = Pending(req[r])
  BY <1>1, <1>4, OwnEvent DEF HasEvent, Ids
<1>6. GroundedAt(m.insight, m.from, m.no)
  BY <1>4, <1>5 DEF Grounded, Pending
<1> HIDE DEF m
<1>7. ASSUME NEW j \in Into(m.insight, m.from), j < m.no
      PROVE  \E p \in Moves : p.insight = m.insight /\ p.to = m.from /\ p.no < m.no
  <2> DEFINE p == [no |-> j, insight |-> log[j].insight, from |-> log[j].from, to |-> log[j].to]
  <2>1. p \in Moves /\ p.insight = m.insight /\ p.to = m.from /\ p.no < m.no
    BY <1>7 DEF Into, Moves
  <2> HIDE DEF p
  <2>2. QED
    BY <2>1
<1>8. m.from = "extracted" \/ \E p \in Moves : p.insight = m.insight /\ p.to = m.from /\ p.no < m.no
  BY <1>6, <1>7 DEF GroundedAt
<1>9. QED
  BY <1>2, <1>3, <1>8 DEF Board!Record

\* The cache and the log are a ledger of numbered moves, however requests interleave,
\* die and roll back: a commit moves one insight along an edge of the map, together with
\* its one new event, and nothing else moves an insight or touches a committed event
\* (events.ts 134-177).
THEOREM LedgerIsImplemented == Spec => LedgerSpec
<1>1. Init => Board!BoardInit
  BY BoardStarts
<1>2. LogInv /\ [Next]_vars => [\E m \in Moves' : Board!Record(m)]_<<Standing, Moves>>
  BY LedgerSteps
<1>3. QED
  BY <1>1, <1>2, LogInvariance, PTL DEF Spec, LedgerSpec, Board!LedgerSpec, Board!boardVars

\* The event of a request that is alone is the last of the log.
OwnIsLast == \A r \in Requests : req[r].ev \in {0, Len(log)}

\* A request that is alone draws its event after every other.
LEMMA OwnStaysLast ==
  ASSUME Alone, AloneInv, OwnIsLast, [Next]_vars
  PROVE  OwnIsLast'
<1>1. /\ IndInv /\ TypeInv /\ EventsOwned /\ EventsOwned'
      /\ req \in [Requests -> Request] /\ log \in Seq(Event)
  BY AloneInvNext DEF AloneInv, TableInv, LogInv, IndInv, TypeInv, TypeOK
<1>2. ASSUME NEW r \in Requests, req'[r].ev \in {0, Len(log')} PROVE OwnIsLast'
  BY <1>2 DEF Alone, OwnIsLast
<1>3. ASSUME NEW r \in Requests, req'[r].phase \notin {"appended", "moved"} PROVE OwnIsLast'
  BY <1>1, <1>2, <1>3 DEF EventsOwned
<1>4. ASSUME NEW r \in Requests, NEW q, req' = [req EXCEPT ![r] = q],
             q.phase \notin {"appended", "moved"} PROVE OwnIsLast'
  BY <1>1, <1>3, <1>4
<1>5. CASE UNCHANGED <<req, log>>
  BY <1>5 DEF OwnIsLast
<1>6. ASSUME NEW r \in Requests, Arrive(r) PROVE OwnIsLast'
  BY <1>1, <1>3, <1>6, ArriveArrives DEF Arrived
<1>7. ASSUME NEW r \in Requests, FileIssue(r) \/ EnterTx(r) PROVE OwnIsLast'
  BY <1>1, <1>3, <1>7, AdvanceGoesOn DEF GoesOn
<1>8. ASSUME NEW r \in Requests, Check(r) PROVE OwnIsLast'
  <2> DEFINE was == insight[req[r].insight].state
             q1 == [req[r] EXCEPT !.phase = "checked"]
             q  == [q1 EXCEPT !.from = was]
  <2>1. req' = [req EXCEPT ![r] = q]
    BY <1>8 DEF Check
  <2> HIDE DEF was
  <2>2. q1.phase = "checked"
    BY <1>1 DEF Request
  <2> HIDE DEF q1
  <2>3. q.phase = "checked"
    BY <2>2
  <2> HIDE DEF q
  <2>4. QED
    BY <1>4, <2>1, <2>3
<1>9. ASSUME NEW r \in Requests, AppendEvent(r) PROVE OwnIsLast'
  <2> DEFINE e  == Pending(req[r])
             q1 == [req[r] EXCEPT !.phase = "appended"]
             q  == [q1 EXCEPT !.ev = Len(log) + 1]
  <2>1. req' = [req EXCEPT ![r] = q] /\ log' = Append(log, e)
    BY <1>9 DEF AppendEvent, Pending
  <2> HIDE DEF e
  <2>2. Len(log') = Len(log) + 1
    BY <1>1, <2>1
  <2>3. DOMAIN q1 = DOMAIN req[r] /\ "ev" \in DOMAIN req[r]
    BY <1>1 DEF Request
  <2> HIDE DEF q1
  <2>4. q.ev = Len(log) + 1
    BY <2>3
  <2> HIDE DEF q
  <2>5. req'[r].ev = Len(log')
    BY <1>1, <2>1, <2>2, <2>4
  <2>6. QED
    BY <1>2, <2>5
<1>10. ASSUME NEW r \in Requests, MoveSource(r) PROVE OwnIsLast'
  <2> DEFINE q == [req[r] EXCEPT !.phase = "moved"]
  <2>1. req' = [req EXCEPT ![r] = q] /\ UNCHANGED log
    BY <1>10 DEF MoveSource, Phase
  <2>2. q.ev = req[r].ev
    BY <1>1 DEF Request
  <2> HIDE DEF q
  <2>3. req'[r].ev = req[r].ev
    BY <1>1, <2>1, <2>2
  <2>4. QED
    BY <1>2, <2>1, <2>3 DEF OwnIsLast
<1>11. ASSUME NEW r \in Requests,
              \/ GiveUpIssue(r) \/ Refuse(r) \/ EditConflict(r) \/ DeadlockAbort(r) \/ Crash(r)
              \/ Commit(r)
       PROVE  OwnIsLast'
  <2>1. req' = [req EXCEPT ![r] = Idle]
    BY <1>1, <1>11, CommitCommits
    DEF GiveUpIssue, Refuse, EditConflict, DeadlockAbort, Crash, Rollback, Commits, Finish
  <2>2. QED
    BY <1>4, <2>1, IdleOK
<1>12. ASSUME Suggest PROVE OwnIsLast'
  BY <1>1, <1>5, <1>12, SuggestKeeps
<1>13. ASSUME NEW r \in Requests, Step(r) PROVE OwnIsLast'
  BY <1>7, <1>8, <1>9, <1>10, <1>11, <1>13 DEF Step, Commit
<1>14. QED
  BY <1>5, <1>6, <1>11, <1>12, <1>13 DEF Next, vars

\* Every step of a request that is alone is a move of the board or a stutter.
LEMMA BoardSteps ==
  ASSUME AloneInv, OwnIsLast, [Next]_vars
  PROVE  [\E m \in Moves' : Board!Move(m)]_<<Standing, Moves>>
<1>1. LogInv /\ TypeInv /\ EventsOwned /\ ChecksHold /\ log \in Seq(Event)
  BY DEF AloneInv, TableInv, LogInv, IndInv, TypeInv, TypeOK
<1>2. SUFFICES ASSUME NEW r \in Requests, Commit(r), HasEvent(r)
               PROVE  \E m \in Moves' : Board!Move(m)
  BY <1>1, CommitsOrStutters
<1> DEFINE m == OwnMove(r)
<1>3. Board!Recorded(m)
  BY <1>1, <1>2, CommitRecords
<1>4. m \in Moves' /\ m.insight \in Insights /\ \A p \in Moves : p.no # m.no
  BY <1>3 DEF Board!Recorded
<1>5. m.no = req[r].ev /\ m.insight = req[r].insight /\ m.from = req[r].from
  BY DEF OwnMove
<1> HIDE DEF m
<1>6. insight[m.insight].state = m.from
  <2>1. req[r].phase \in {"appended", "moved"}
    BY <1>1, <1>2, OwnEvent
  <2>2. StillHolds(req[r])
    BY <1>1 DEF ChecksHold
  <2>3. QED
    BY <1>5, <2>1, <2>2 DEF StillHolds
<1>7. m.from = Standing[m.insight]
  BY <1>4, <1>6 DEF Standing
<1>8. m.no = Len(log)
  BY <1>1, <1>2, <1>5 DEF OwnIsLast, HasEvent
<1>9. ASSUME NEW p \in Moves PROVE p.no < m.no
  <2>1. p.no \in 1 .. Len(log) /\ Len(log) \in Nat
    BY <1>1 DEF Moves, Committed, Ids
  <2>2. QED
    BY <1>4, <1>8, <2>1
<1>10. QED
  BY <1>3, <1>4, <1>7, <1>9 DEF Board!Move

\* With one request at a time the lifecycle is what the docs say: each insight walks the
\* transition map from where it stands, one numbered event at a time (SPEC.md section 4).
THEOREM AloneBoardIsImplemented == ASSUME Alone PROVE Spec => BoardSpec
<1>1. Init => OwnIsLast /\ Board!BoardInit
  BY BoardStarts DEF Init, OwnIsLast, Idle
<1>2. AloneInv /\ OwnIsLast /\ [Next]_vars => OwnIsLast'
  BY OwnStaysLast
<1>3. AloneInv /\ OwnIsLast /\ [Next]_vars
        => [\E m \in Moves' : Board!Move(m)]_<<Standing, Moves>>
  BY BoardSteps
<1>4. QED
  BY <1>1, <1>2, <1>3, AloneInvariance, PTL
  DEF Spec, BoardSpec, Board!BoardSpec, Board!boardVars
=============================================================================
