------------------------------ MODULE ProofPage ------------------------------
(***************************************************************************)
(* "Confirm shipped" (Proof): matches of releases with insights, proposed  *)
(* by the model, are confirmed or rejected one by one; an admin may add a  *)
(* changelog by hand, which proposes more.  All matches here are of one    *)
(* insight.  The server decides a match in two steps, a read and a         *)
(* transaction; how the judge proposes is the module ReleaseWatch.         *)
(***************************************************************************)
EXTENDS Naturals, FiniteSets

CONSTANTS
  Matches,      \* matches proposed, from the start or by the changelog added by hand
  Plots         \* one behaviour each: the matches proposed at the start, what is done here
                \* and elsewhere, and bounds on the decisions and changelogs asked for, and
                \* on the tabs opened and the refreshes pressed

ASSUME ProofPageAssumption ==
  /\ \A p \in Plots : p.start \subseteq Matches /\ p.asks \in Nat /\ p.looks \in Nat
  /\ "none" \notin Matches

VARIABLES
  plot,       \* the plot of this behaviour
  verdict,    \* the server's matches
  proofs,     \* rows of completion evidence a match has
  delivered,  \* is the insight at or past shipped
  onRecord,   \* is the changelog stored
  cards,      \* the matches shown, {"none"} before the first answer
  tab,        \* the open tab, and what it says of the releases
  busy,       \* the one match the page holds for busy
  modal,      \* the rejection being written: of which match, and for which its reason was typed
  changelog,  \* the changelog being written: its notes, a file being read, an answer awaited
  clicks,     \* decisions and changelogs on their way
  looks,      \* loads on their way, with what they read and the decisions heard of since
  tally,      \* clicks and looks so far
  told,       \* history: matches whose decision this page has heard of
  returned,   \* history: shown again by a load that had left before the page heard
  crossed,    \* history: matches two decisions of which overlapped on the server
  misplaced   \* history: has a match been rejected for a reason typed for another

proofVars == <<plot, verdict, proofs, delivered, onRecord, cards, tab, busy, modal, changelog, clicks, looks,
               tally, told, returned, crossed, misplaced>>
matchStore == <<verdict, proofs, delivered, onRecord>>
writing == <<modal, changelog>>
proofHistory == <<told, returned, crossed, misplaced>>

NoModal == [of |-> "none", reason |-> "none"]
NoForm == [notes |-> "", reading |-> FALSE, saving |-> FALSE]

\* A load reads what there is when it is served, at once or after waiting its turn.
Look(kind) ==
  [of |-> kind, sees |-> IF kind = "matches" THEN {m \in Matches : verdict[m] = "proposed"} ELSE {},
   heard |-> {}]

ProofInit ==
  /\ plot \in Plots
  /\ verdict = [m \in Matches |-> IF m \in plot.start THEN "proposed" ELSE "absent"]
  /\ proofs = [m \in Matches |-> 0]
  /\ delivered \in BOOLEAN /\ onRecord = FALSE
  /\ cards = {"none"} /\ busy = "none" /\ modal = NoModal /\ changelog = NoForm
  /\ tab = [open |-> "matches", releases |-> "unread"]
  /\ clicks = {} /\ looks = {Look("matches")} /\ tally = [asks |-> 0, looks |-> 0]
  /\ told = {} /\ returned = {} /\ crossed = {} /\ misplaced = FALSE

----------------------------------------------------------------------------
(* Looking *)

Free == modal.of = "none"  \* a modal takes the clicks

\* A tab loads the releases until they have been answered once; the form goes with its tab.
OpenTab(t) ==
  /\ Free /\ tab.open # t /\ tally.looks < plot.looks
  /\ tab' = [tab EXCEPT !.open = t]
  /\ looks' = IF t = "releases" /\ tab.releases = "unread" THEN looks \cup {Look("releases")} ELSE looks
  /\ changelog' = NoForm
  /\ clicks' = {[a EXCEPT !.mounted = FALSE] : a \in clicks}
  /\ tally' = [tally EXCEPT !.looks = @ + 1]
  /\ UNCHANGED <<matchStore, cards, busy, modal, proofHistory>>

PressRefresh ==
  /\ Free /\ tally.looks < plot.looks
  /\ looks' = looks \cup {Look(tab.open)}
  /\ tally' = [tally EXCEPT !.looks = @ + 1]
  /\ UNCHANGED <<matchStore, cards, tab, busy, writing, clicks, proofHistory>>

\* Whatever was shown gives way, whichever load this is; a failed one shows none.
MatchesArrive(l, ok) ==
  /\ l \in looks /\ l.of = "matches"
  /\ looks' = looks \ {l}
  /\ cards' = IF ok THEN l.sees ELSE {}
  /\ returned' = l.heard
  /\ UNCHANGED <<matchStore, tab, busy, writing, clicks, tally, told, crossed, misplaced>>

ReleasesArrive(l, ok) ==
  /\ l \in looks /\ l.of = "releases"
  /\ looks' = looks \ {l}
  /\ tab' = [tab EXCEPT !.releases = IF ok THEN "shown" ELSE "failed"]
  /\ UNCHANGED <<matchStore, cards, busy, writing, clicks, tally, proofHistory>>

----------------------------------------------------------------------------
(* Deciding *)

SendOff(kind, m, where) ==
  /\ tally.asks < plot.asks
  /\ clicks' = clicks \cup {[n |-> tally.asks, kind |-> kind, of |-> m, where |-> where, at |-> "sent",
                         past |-> FALSE, mounted |-> TRUE, listed |-> tab.releases # "unread"]}
  /\ tally' = [tally EXCEPT !.asks = @ + 1]

OnCard(m) == Free /\ tab.open = "matches" /\ m \in cards /\ busy # m

PressConfirm(m) ==
  /\ OnCard(m) /\ "confirm" \in plot.deeds
  /\ SendOff("confirm", m, "here")
  /\ busy' = m
  /\ UNCHANGED <<matchStore, cards, tab, writing, looks, proofHistory>>

OpenReject(m) ==
  /\ OnCard(m) /\ "reject" \in plot.deeds /\ tally.asks < plot.asks
  /\ modal' = [modal EXCEPT !.of = m]
  /\ UNCHANGED <<matchStore, cards, tab, busy, changelog, clicks, looks, tally, proofHistory>>

TypeReason ==
  /\ ~Free /\ modal.reason = "none"
  /\ modal' = [modal EXCEPT !.reason = modal.of]
  /\ UNCHANGED <<matchStore, cards, tab, busy, changelog, clicks, looks, tally, proofHistory>>

\* Cancel, which waits for the answer, or Escape, which does not.
CloseReject ==
  /\ ~Free
  /\ modal' = NoModal
  /\ UNCHANGED <<matchStore, cards, tab, busy, changelog, clicks, looks, tally, proofHistory>>

PressReject ==
  /\ ~Free /\ modal.reason # "none" /\ busy # modal.of
  /\ SendOff("reject", modal.of, "here")
  /\ busy' = modal.of
  /\ misplaced' = (misplaced \/ modal.reason # modal.of)
  /\ UNCHANGED <<matchStore, cards, tab, writing, looks, told, returned, crossed>>

DecideElsewhere(kind, m) ==
  /\ "elsewhere" \in plot.deeds /\ verdict[m] # "absent"
  /\ SendOff(kind, m, "elsewhere")
  /\ UNCHANGED <<matchStore, cards, tab, busy, writing, looks, proofHistory>>

Moves(a, at) == clicks' = (clicks \ {a}) \cup {[a EXCEPT !.at = at]}

\* Mutant: a match already confirmed is confirmed once more.
ReadMatchAgain(a) ==
  /\ a \in clicks /\ a.at = "sent" /\ a.kind # "file"
  /\ LET at == IF verdict[a.of] = "rejected" THEN "no" ELSE "read"
     IN clicks' = (clicks \ {a}) \cup {[a EXCEPT !.at = at, !.past = delivered]}
  /\ UNCHANGED <<matchStore, cards, tab, busy, writing, looks, tally, proofHistory>>

\* A match decided the same way already is answered as it is; the other way, refused.
ReadMatch(a) ==
  /\ a \in clicks /\ a.at = "sent" /\ a.kind # "file"
  /\ LET at == CASE verdict[a.of] = "proposed" -> "read"
                 [] verdict[a.of] = "confirmed" -> IF a.kind = "confirm" THEN "ok" ELSE "no"
                 [] verdict[a.of] = "rejected" -> IF a.kind = "reject" THEN "ok" ELSE "no"
     IN clicks' = (clicks \ {a}) \cup {[a EXCEPT !.at = at, !.past = delivered]}
  /\ UNCHANGED <<matchStore, cards, tab, busy, writing, looks, tally, proofHistory>>

Crossing(a) ==
  crossed' = IF \E b \in clicks \ {a} : b.of = a.of /\ b.at = "read" THEN crossed \cup {a.of} ELSE crossed

\* An insight read short of shipped and shipped by now refuses the transition, and with
\* it the whole confirmation.
ConfirmMatch(a) ==
  /\ a \in clicks /\ a.at = "read" /\ a.kind = "confirm"
  /\ IF ~a.past /\ delivered THEN Moves(a, "no") /\ UNCHANGED <<verdict, proofs, delivered>>
     ELSE /\ Moves(a, "ok")
          /\ verdict' = [verdict EXCEPT ![a.of] = "confirmed"]
          /\ proofs' = [proofs EXCEPT ![a.of] = @ + 1]
          /\ delivered' = TRUE
  /\ Crossing(a)
  /\ UNCHANGED <<onRecord, cards, tab, busy, writing, looks, tally, told, returned, misplaced>>

RejectMatch(a) ==
  /\ a \in clicks /\ a.at = "read" /\ a.kind = "reject"
  /\ Moves(a, "ok")
  /\ verdict' = [verdict EXCEPT ![a.of] = "rejected"]
  /\ Crossing(a)
  /\ UNCHANGED <<proofs, delivered, onRecord, cards, tab, busy, writing, looks, tally, told, returned, misplaced>>

Heard(a) == a \in clicks /\ clicks' = clicks \ {a}

\* The card goes, and whatever rejection is being written is closed by the answer of one.
\* The page holds nothing for busy then, whichever match was answered.
Decided(a) ==
  /\ a.where = "here" /\ a.at = "ok" /\ a.kind # "file"
  /\ Heard(a)
  /\ cards' = cards \ {a.of}
  /\ busy' = "none"
  /\ modal' = IF a.kind = "reject" THEN NoModal ELSE modal
  /\ looks' = {[l EXCEPT !.heard = @ \cup {a.of}] : l \in looks}
              \cup (IF a.kind = "confirm" /\ a.listed THEN {Look("releases")} ELSE {})
  /\ told' = told \cup {a.of}
  /\ UNCHANGED <<matchStore, tab, changelog, tally, returned, crossed, misplaced>>

\* Refused, or the answer is lost, which does not stop the server.
NotDecided(a) ==
  /\ a \in clicks /\ a.where = "here" /\ a.kind # "file"
  /\ clicks' = (clicks \ {a}) \cup (IF a.at \in {"sent", "read"} THEN {[a EXCEPT !.where = "elsewhere"]} ELSE {})
  /\ busy' = "none"
  /\ UNCHANGED <<matchStore, cards, tab, writing, looks, tally, proofHistory>>

DecidedElsewhere(a) ==
  /\ a.where = "elsewhere" /\ a.at \in {"ok", "no"}
  /\ Heard(a)
  /\ UNCHANGED <<matchStore, cards, tab, busy, writing, looks, tally, proofHistory>>

----------------------------------------------------------------------------
(* A changelog by hand *)

AtForm == "file" \in plot.deeds /\ Free /\ tab.open = "releases" /\ tab.releases # "unread"

TypeNotes ==
  /\ AtForm /\ changelog.notes = "" /\ tally.asks < plot.asks
  /\ changelog' = [changelog EXCEPT !.notes = "typed"]
  /\ UNCHANGED <<matchStore, cards, tab, busy, modal, clicks, looks, tally, proofHistory>>

PickNotes ==
  /\ AtForm /\ tally.asks < plot.asks
  /\ changelog' = [changelog EXCEPT !.reading = TRUE]
  /\ UNCHANGED <<matchStore, cards, tab, busy, modal, clicks, looks, tally, proofHistory>>

\* What is in the box by then gives way to the file.
NotesRead(ok) ==
  /\ changelog.reading
  /\ changelog' = [changelog EXCEPT !.reading = FALSE, !.notes = IF ok THEN "file" ELSE @]
  /\ UNCHANGED <<matchStore, cards, tab, busy, modal, clicks, looks, tally, proofHistory>>

SaveChangelog ==
  /\ AtForm /\ changelog.notes # "" /\ ~changelog.saving
  /\ SendOff("file", "none", "here")
  /\ changelog' = [changelog EXCEPT !.saving = TRUE]
  /\ UNCHANGED <<matchStore, cards, tab, busy, modal, looks, proofHistory>>

\* A tag is onRecord once; what the judge finds in it, if anything, is proposed.
FileChangelog(a) ==
  /\ a \in clicks /\ a.at = "sent" /\ a.kind = "file"
  /\ onRecord' = TRUE
  /\ IF onRecord THEN Moves(a, "no") /\ UNCHANGED verdict
     ELSE /\ Moves(a, "ok")
          /\ \E found \in SUBSET (Matches \ plot.start) :
               verdict' = [m \in Matches |-> IF m \in found THEN "proposed" ELSE verdict[m]]
  /\ UNCHANGED <<proofs, delivered, cards, tab, busy, writing, looks, tally, proofHistory>>

\* The form is emptied, with what was typed meanwhile, unless its tab was left; both
\* lists are loaded all the same.
ChangelogSaved(a) ==
  /\ a.at = "ok" /\ a.kind = "file"
  /\ Heard(a)
  /\ changelog' = IF a.mounted THEN [changelog EXCEPT !.notes = "", !.saving = FALSE] ELSE changelog
  /\ looks' = looks \cup {Look("releases"), Look("matches")}
  /\ UNCHANGED <<matchStore, cards, tab, busy, modal, tally, proofHistory>>

ChangelogNotSaved(a) ==
  /\ a.kind = "file"
  /\ Heard(a)
  /\ changelog' = IF a.mounted THEN [changelog EXCEPT !.saving = FALSE] ELSE changelog
  /\ UNCHANGED <<matchStore, cards, tab, busy, modal, looks, tally, proofHistory>>

ProofPageStep ==
  \/ PressRefresh \/ TypeReason \/ CloseReject \/ PressReject
  \/ \E t \in {"matches", "releases"} : OpenTab(t)
  \/ \E l \in looks, ok \in BOOLEAN : MatchesArrive(l, ok) \/ ReleasesArrive(l, ok)
  \/ \E m \in Matches : PressConfirm(m) \/ OpenReject(m)
  \/ \E m \in Matches, kind \in {"confirm", "reject"} : DecideElsewhere(kind, m)
  \/ \E a \in clicks : ReadMatch(a) \/ ConfirmMatch(a) \/ RejectMatch(a)
  \/ \E a \in clicks : Decided(a) \/ NotDecided(a) \/ DecidedElsewhere(a)
  \/ TypeNotes \/ PickNotes \/ SaveChangelog
  \/ \E ok \in BOOLEAN : NotesRead(ok)
  \/ \E a \in clicks : FileChangelog(a) \/ ChangelogSaved(a) \/ ChangelogNotSaved(a)

ProofNext == ProofPageStep /\ UNCHANGED plot

ProofSpec == ProofInit /\ [][ProofNext]_proofVars

----------------------------------------------------------------------------
ProofTypeOK ==
  /\ verdict \in [Matches -> {"absent", "proposed", "confirmed", "rejected"}]
  /\ proofs \in [Matches -> 0 .. plot.asks]
  /\ cards \subseteq Matches \cup {"none"} /\ busy \in Matches \cup {"none"}
  /\ modal.of \in Matches \cup {"none"} /\ changelog.notes \in {"", "typed", "file"}
  /\ Cardinality(clicks) <= plot.asks /\ {told, returned, crossed} \subseteq SUBSET Matches

\* A match is decided once.  It has the one row of evidence of its confirmation, though
\* the busy mark of one card lifts that of another and lets both be pressed again,
\* unless two decisions of it overlapped on the server (releases/routes.ts:160).  A card
\* the page knows decided stays away, unless a load that left before brings it back
\* (Proof.tsx:91).  A reason goes to the match it was typed for.
DecidedOnce ==
  /\ \A m \in Matches \ crossed : proofs[m] = IF verdict[m] = "confirmed" THEN 1 ELSE 0
  /\ told \cap cards \subseteq returned
  /\ ~misplaced
=============================================================================
