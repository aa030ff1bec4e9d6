------------------------------- MODULE Wording -------------------------------
(***************************************************************************)
(* The wording of one insight, edited by several people at once: in the    *)
(* full record (InsightDetail) and in the panel of the review queue        *)
(* (Review).  Both keep their own text, the version it was loaded with and *)
(* a dirty flag, save with that version, and finalize what the server has; *)
(* they differ in what they do when the server's wording comes in again.   *)
(* A wording is named by the version it was saved as.                      *)
(***************************************************************************)
EXTENDS Naturals, FiniteSets

CONSTANTS
  Pages,       \* people on the full record
  Panels,      \* people in the review queue
  Sessions,    \* what happens together in one behaviour: which acts, up to which version
  MaxLoads     \* bound on the loads of one editor in flight

ASSUME WordingAssumption ==
  /\ Sessions \subseteq [acts : SUBSET {"blank", "finalize", "lose", "reload"}, versions : Nat \ {0}]
  /\ MaxLoads \in Nat

VARIABLES
  session,  \* the behaviour's acts and its bound on saves
  record,      \* the insight: its version, whether its body is blank, its state
  ed,       \* each editor's state
  loads,    \* what the server has answered to each editor's loads, still on its way
  req,      \* each editor's save or finalization in flight
  blind,    \* history: saves over a wording their author was not shown: were they
            \* pressed while that editor was loading?
  sealed    \* history: the version finalized, whether it was blank, and the version checked

wordingVars == <<session, record, ed, loads, req, blind, sealed>>

Editors == Pages \cup Panels
NoReq == [at |-> "none", then |-> "none", version |-> 0, empty |-> FALSE, seen |-> 0,
          hasty |-> FALSE]
Blank == [up |-> "loading", empty |-> FALSE, version |-> 0, dirty |-> FALSE,
          stored |-> 0, locked |-> FALSE, seen |-> 0]

WordingInit ==
  /\ session \in Sessions
  /\ record = [version |-> 1, empty |-> FALSE, locked |-> FALSE]
  /\ ed = [e \in Editors |-> Blank]
  /\ loads = [e \in Editors |-> {}]
  /\ req = [e \in Editors |-> NoReq]
  /\ blind = {}
  /\ sealed = [version |-> 0, empty |-> FALSE, checked |-> 0]

Snapshot == [version |-> record.version, locked |-> record.locked]
LoadFor(e) == Cardinality(loads[e]) < MaxLoads /\ loads' = [loads EXCEPT ![e] = @ \cup {Snapshot}]
\* A load clears the error and shows again what the editor had, if it had anything.
Asking(e) ==
  [ed[e] EXCEPT !.up = IF @ # "error" THEN @ ELSE IF ed[e].stored = 0 THEN "loading" ELSE "shown"]
Unasked(e) == req[e].at = "none"
ReqEnds(e) == req' = [req EXCEPT ![e] = NoReq]

----------------------------------------------------------------------------
(* Loads *)

\* The page opens, an error is tried again, a conflict is reloaded, or another
\* panel of the page, or a route, has gone through and the insight is fetched anew.
Load(e) ==
  /\ ed[e].up = "shown" => "reload" \in session.acts
  /\ LoadFor(e) /\ ed' = [ed EXCEPT ![e] = Asking(e)]
  /\ UNCHANGED <<session, record, req, blind, sealed>>

\* Mutant: the version follows the server while the author's text stays.
PageLoadedMidEdit(e, s) ==
  /\ e \in Pages /\ s \in loads[e]
  /\ loads' = [loads EXCEPT ![e] = @ \ {s}]
  /\ ed' = [ed EXCEPT ![e] =
       LET kept == [ed[e] EXCEPT !.up = "shown", !.stored = s.version, !.locked = s.locked,
                             !.version = s.version] IN
       IF @.up # "shown" \/ (~@.dirty /\ s.version # @.stored)
       THEN [kept EXCEPT !.seen = s.version, !.dirty = FALSE]
       ELSE kept]
  /\ UNCHANGED <<session, record, req, blind, sealed>>

\* The full record: new server values replace the text only if nothing is unsaved.
\* The effect runs when they differ from the last ones.
PageLoaded(e, s) ==
  /\ e \in Pages /\ s \in loads[e]
  /\ loads' = [loads EXCEPT ![e] = @ \ {s}]
  /\ ed' = [ed EXCEPT ![e] =
       LET kept == [ed[e] EXCEPT !.up = "shown", !.stored = s.version, !.locked = s.locked] IN
       IF @.up # "shown" \/ (~@.dirty /\ s.version # @.stored)
       THEN [kept EXCEPT !.version = s.version, !.seen = s.version, !.dirty = FALSE]
       ELSE kept]
  /\ UNCHANGED <<session, record, req, blind, sealed>>

\* The panel: whatever is loaded replaces everything.
PanelLoaded(e, s) ==
  /\ e \in Panels /\ s \in loads[e]
  /\ loads' = [loads EXCEPT ![e] = @ \ {s}]
  /\ ed' = [ed EXCEPT ![e] = [ed[e] EXCEPT !.up = "shown", !.version = s.version,
                !.stored = s.version, !.seen = s.version, !.dirty = FALSE, !.locked = s.locked]]
  /\ UNCHANGED <<session, record, req, blind, sealed>>

\* A load that fails leaves the full record as it is; the panel shows the error
\* instead of its editor until a load is asked for again.
LoadFails(e, s) ==
  /\ s \in loads[e] /\ "lose" \in session.acts
  /\ loads' = [loads EXCEPT ![e] = @ \ {s}]
  /\ ed' = [ed EXCEPT ![e].up = IF e \in Panels \/ @ = "loading" THEN "error" ELSE @]
  /\ UNCHANGED <<session, record, req, blind, sealed>>

----------------------------------------------------------------------------
(* Typing and saving *)

\* The text area is live until the wording is known to be final; the page's is
\* dead while it saves, the panel's only while Save itself is under way.
Live(e) ==
  /\ ed[e].up = "shown" /\ ~ed[e].locked
  /\ req[e].at # "none" => e \in Panels /\ req[e].then # "nothing"

Type(e, empty) ==
  /\ Live(e) /\ (empty => "blank" \in session.acts)
  /\ ed' = [ed EXCEPT ![e].empty = empty, ![e].dirty = TRUE]
  /\ UNCHANGED <<session, record, loads, req, blind, sealed>>

\* Back to what the server is known to have.
TypeBack(e) ==
  /\ Live(e) /\ ed[e].dirty
  /\ ed' = [ed EXCEPT ![e].empty = FALSE, ![e].dirty = FALSE]
  /\ UNCHANGED <<session, record, loads, req, blind, sealed>>

\* Save, or in the panel an action that saves first.
PressSave(e, next) ==
  /\ ed[e].up = "shown" /\ ~ed[e].locked /\ Unasked(e) /\ ed[e].dirty
  /\ next \in (IF e \in Panels /\ "finalize" \in session.acts THEN {"nothing", "finalize"} ELSE {"nothing"})
  /\ req' = [req EXCEPT ![e] = [NoReq EXCEPT !.at = "save", !.then = next,
       !.version = ed[e].version, !.empty = ed[e].empty, !.seen = ed[e].seen,
       !.hasty = loads[e] # {}]]
  /\ UNCHANGED <<session, record, ed, loads, blind, sealed>>

\* updateBody: the version decides, and nothing else.
SaveArrives(e) ==
  /\ req[e].at = "save"
  /\ IF record.version = req[e].version /\ record.version < session.versions
     THEN /\ record' = [record EXCEPT !.version = @ + 1, !.empty = req[e].empty]
          /\ blind' = IF req[e].seen # record.version THEN blind \cup {req[e].hasty} ELSE blind
          /\ req' = [req EXCEPT ![e].at = "saved", ![e].version = record.version + 1]
     ELSE /\ record.version # req[e].version
          /\ req' = [req EXCEPT ![e].at = "refused", ![e].version = record.version]
          /\ UNCHANGED <<record, blind>>
  /\ UNCHANGED <<session, ed, loads, sealed>>

\* Saved: the text counts as the server's, even if the panel's has been typed on
\* meanwhile.
Saved(e) ==
  LET n == req[e].version IN
  /\ req[e].at = "saved"
  /\ ed' = [ed EXCEPT ![e] = [ed[e] EXCEPT !.version = n, !.dirty = FALSE, !.empty = FALSE,
                !.seen = n, !.stored = IF e \in Panels THEN n ELSE @]]
  /\ IF e \in Pages THEN LoadFor(e) ELSE UNCHANGED loads
  /\ req' = [req EXCEPT ![e] = IF @.then = "finalize"
                               THEN [NoReq EXCEPT !.at = "check", !.then = "finalize"] ELSE NoReq]
  /\ UNCHANGED <<session, record, blind, sealed>>

\* Refused with 409: the page offers a reload; the panel takes the server's version
\* and loads.
SaveRefused(e) ==
  /\ req[e].at = "refused"
  /\ IF e \in Pages
     THEN UNCHANGED <<ed, loads>>
     ELSE ed' = [ed EXCEPT ![e] = [Asking(e) EXCEPT !.version = req[e].version]] /\ LoadFor(e)
  /\ ReqEnds(e)
  /\ UNCHANGED <<session, record, blind, sealed>>

\* No answer: a toast, whether or not the server has saved.
AnswerLost(e) ==
  /\ req[e].at # "none" /\ "lose" \in session.acts
  /\ ReqEnds(e)
  /\ UNCHANGED <<session, record, ed, loads, blind, sealed>>

----------------------------------------------------------------------------
(* Finalizing *)

PressFinalize(e) ==
  /\ "finalize" \in session.acts
  /\ ed[e].up = "shown" /\ ~ed[e].locked /\ Unasked(e) /\ ~ed[e].dirty
  /\ req' = [req EXCEPT ![e] = [NoReq EXCEPT !.at = "check", !.then = "finalize"]]
  /\ UNCHANGED <<session, record, ed, loads, blind, sealed>>

\* finalizeInsight looks at the body before its transaction ...
CheckWording(e) ==
  /\ req[e].at = "check"
  /\ IF record.empty THEN ReqEnds(e)
     ELSE req' = [req EXCEPT ![e].at = "finalize", ![e].seen = record.version]
  /\ UNCHANGED <<session, record, ed, loads, blind, sealed>>

\* ... which locks whatever it is by then, once.
CommitFinal(e) ==
  /\ req[e].at = "finalize"
  /\ IF record.locked THEN ReqEnds(e) /\ UNCHANGED <<record, sealed>>
     ELSE /\ record' = [record EXCEPT !.locked = TRUE]
          /\ sealed' = [version |-> record.version, empty |-> record.empty, checked |-> req[e].seen]
          /\ req' = [req EXCEPT ![e].at = "done"]
  /\ UNCHANGED <<session, ed, loads, blind>>

Finalized(e) ==
  /\ req[e].at = "done"
  /\ LoadFor(e) /\ ed' = [ed EXCEPT ![e] = Asking(e)]
  /\ ReqEnds(e)
  /\ UNCHANGED <<session, record, blind, sealed>>

WordingNext ==
  \E e \in Editors :
    \/ Load(e)
    \/ \E s \in loads[e] : PageLoaded(e, s) \/ PanelLoaded(e, s) \/ LoadFails(e, s)
    \/ \E empty \in BOOLEAN : Type(e, empty)
    \/ TypeBack(e)
    \/ \E next \in {"nothing", "finalize"} : PressSave(e, next)
    \/ SaveArrives(e) \/ Saved(e) \/ SaveRefused(e) \/ AnswerLost(e)
    \/ PressFinalize(e) \/ CheckWording(e) \/ CommitFinal(e) \/ Finalized(e)

WordingSpec == WordingInit /\ [][WordingNext]_wordingVars

----------------------------------------------------------------------------
WordingTypeOK ==
  /\ record \in [version : 1 .. session.versions, empty : BOOLEAN, locked : BOOLEAN]
  /\ \A e \in Editors :
       /\ ed[e].up \in {"loading", "shown", "error"}
       /\ ed[e].version \in 0 .. record.version
       /\ ed[e].up = "shown" => ed[e].version > 0 /\ ed[e].stored > 0
       /\ req[e].at \in {"none", "save", "saved", "refused", "check", "finalize", "done"}
       /\ \A s \in loads[e] : s.version \in 1 .. record.version

\* A save goes over a wording its author was never shown only when it was pressed
\* while the editor was loading (the panel has taken the server's version by then
\* and still shows the old text, Review.tsx:568): stale answers, lost answers, text
\* typed while saving and conflicts lead to no other one.
BlindOnlyWhileLoading == blind \subseteq {TRUE}

\* finalizeInsight's check for a blank body (service.ts:396) fails only by an edit
\* between it and the transaction, however the panel chains its save before it.
BlankOnlyByRace == sealed.empty => sealed.checked # sealed.version

\* What two editors of one insight can do to its wording: nothing is saved over unread
\* but while loading, nothing blank is finalized but by a race (insights/service.ts:347-412).
WordingKept == BlindOnlyWhileLoading /\ BlankOnlyByRace

\* "Finalize locks the wording - you cannot edit the summary afterwards"
\* (InsightDetail.tsx:797, Review.tsx:997).
LockedWordingStays == sealed.version # 0 => record.version = sealed.version
=============================================================================
