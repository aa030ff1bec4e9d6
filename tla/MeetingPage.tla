----------------------------- MODULE MeetingPage -----------------------------
(***************************************************************************)
(* The page of one meeting: the conversation is added or transcribed, its  *)
(* insights are extracted, and what was found is routed or rejected in one *)
(* go.  The page shows two answers laid over each other, the meeting's     *)
(* detail and the client's list, each of its own time; what is ticked is   *)
(* reset when the found insights they show change, or come in another      *)
(* order.                                                                  *)
(***************************************************************************)
EXTENDS Naturals, FiniteSets

CONSTANTS
  Occasions,      \* what the page may be opened on: the meeting, the deeds done there, and
                  \* bounds on what the page posts, on the loads that nothing but a retry
                  \* or the timer asks for, and on what others do meanwhile
  Findings,       \* insights an extraction adds
  Texts           \* what may be pasted or loaded from a file

ASSUME MeetingPageAssumption ==
  /\ \A o \in Occasions : /\ DOMAIN o.meeting = {"status", "text", "audio", "ins"}
                          /\ o.meeting.status # "none" /\ {o.loads, o.posts, o.others} \subseteq Nat
  /\ Texts \cap {"detail", "list", "run"} = {}

VARIABLES
  occasion,   \* the occasion of this behaviour
  onFile,     \* the server's meeting: status, text, audio, and its insights' states
  seen,       \* the detail shown
  notShown,   \* did the last detail load fail: the page shows the error instead
  listed,     \* the client's list shown, laid over the detail's insights
  flows,      \* what the page is doing: of a kind, awaiting an answer, numbered
  ticked,     \* the found insights ticked
  unticked,   \* history: those the user unticked since everything found was ticked
  asking,     \* is the rejection being confirmed, and what was ticked when it was asked
  pasted,     \* the text box
  reading,    \* a file being read into the text box
  extras,     \* loads, posts and doings of others, counted
  surprised   \* history: was another set rejected than the one asked about

meetingPageVars == <<occasion, onFile, seen, notShown, listed, flows, ticked, unticked, asking, pasted, reading, extras,
              surprised>>
tickVars == <<ticked, unticked>>
texting == <<pasted, reading>>

NoDetail == [status |-> "none", text |-> FALSE, audio |-> FALSE, ins |-> <<>>]
LoadFailed == [NoDetail EXCEPT !.status = "failed"]
NotAsked == [open |-> FALSE, about |-> {}, changed |-> FALSE]

MeetingPageInit ==
  /\ occasion \in Occasions /\ onFile = occasion.meeting
  /\ seen = NoDetail /\ notShown = FALSE /\ listed = <<>>
  /\ flows = {[of |-> "open", wants |-> "detail", got |-> NoDetail, ids |-> {}, nr |-> 0]}
  /\ ticked = {} /\ unticked = {} /\ asking = NotAsked
  /\ pasted = "" /\ reading = "" /\ extras = [loads |-> 0, posts |-> 0, others |-> 0]
  /\ surprised = FALSE

----------------------------------------------------------------------------
(* What is shown *)

\* The list's row overrides the detail's.
Over(detail, list) ==
  [i \in DOMAIN detail.ins \cup DOMAIN list |-> IF i \in DOMAIN list THEN list[i] ELSE detail.ins[i]]
FoundIn(detail, list) == {i \in DOMAIN Over(detail, list) : Over(detail, list)[i] = "extracted"}
Found == FoundIn(seen, listed)

Showing == seen # NoDetail /\ ~notShown
Under(kind) == \E f \in flows : f.of = kind
Page == Showing /\ ~asking.open

\* Mutant: everything is ticked anew whenever an answer arrives.
LayAndTick(detail, list) ==
  /\ seen' = detail /\ listed' = list
  /\ ticked' = FoundIn(detail, list) /\ UNCHANGED unticked
  /\ asking' = [asking EXCEPT !.changed = @ \/ FoundIn(detail, list) # Found]

\* Everything found is ticked anew when the found insights change, or show in another
\* order: the detail's rows come by created_at, which those of one run share, and rows
\* that only the list has come after them.
Lay(detail, list) ==
  LET found == FoundIn(detail, list) IN
  /\ seen' = detail /\ listed' = list
  /\ \/ found = Found /\ UNCHANGED <<ticked, unticked, asking>>
     \/ /\ found # Found \/ Cardinality(found) > 1
        /\ ticked' = found /\ unticked' = {}
        /\ asking' = [asking EXCEPT !.changed = TRUE]

Begins(kind, wants, ids) ==
  flows' = flows \cup {[of |-> kind, wants |-> wants, got |-> NoDetail, ids |-> ids,
                        nr |-> extras.loads + extras.posts + 1]}

Sends(kind, wants, ids) ==
  /\ kind \in occasion.deeds /\ extras.posts < occasion.posts
  /\ Begins(kind, wants, ids)
  /\ extras' = [extras EXCEPT !.posts = @ + 1]

----------------------------------------------------------------------------
(* Loads *)

\* A retry, or the timer's look at a meeting that is being transcribed: every five seconds,
\* whether or not the one before has been answered.
LoadAgain ==
  /\ extras.loads < occasion.loads
  /\ notShown \/ (seen.status = "transcribing" /\ ~Under("transcribe"))
  /\ Begins("poll", "detail", {})
  /\ extras' = [extras EXCEPT !.loads = @ + 1]
  /\ notShown' = FALSE
  /\ UNCHANGED <<onFile, seen, listed, tickVars, asking, texting, surprised>>

ServeLoad(f) ==
  /\ f \in flows /\ f.wants \in {"detail", "list"} /\ f.got = NoDetail
  /\ \E got \in {onFile, LoadFailed} : flows' = (flows \ {f}) \cup {[f EXCEPT !.got = got]}
  /\ UNCHANGED <<onFile, seen, notShown, listed, tickVars, asking, texting, extras, surprised>>

\* The flow goes on when its detail has come, also when that failed: a batch still reads
\* the list, and an extraction has it read on the side, as the first detail does.
AfterDetail(f) ==
  IF f.of = "bulk" THEN {[f EXCEPT !.wants = "list", !.got = NoDetail]}
  ELSE IF f.of = "extract" \/ (f.got # LoadFailed /\ seen = NoDetail)
       THEN {[of |-> "side", wants |-> "list", got |-> NoDetail, ids |-> {}, nr |-> f.nr]}
  ELSE {}

DetailArrives(f) ==
  /\ f \in flows /\ f.wants = "detail" /\ f.got # NoDetail
  /\ flows' = (flows \ {f}) \cup AfterDetail(f)
  /\ notShown' = (f.got = LoadFailed)
  /\ IF f.got = LoadFailed THEN UNCHANGED <<seen, listed, tickVars, asking>> ELSE Lay(f.got, listed)
  /\ UNCHANGED <<onFile, texting, extras, surprised>>

\* A list that did not load leaves the one before.
ListArrives(f) ==
  /\ f \in flows /\ f.wants = "list" /\ f.got # NoDetail
  /\ flows' = flows \ {f}
  /\ IF f.got = LoadFailed THEN UNCHANGED <<seen, listed, tickVars, asking>> ELSE Lay(seen, f.got.ins)
  /\ UNCHANGED <<onFile, notShown, texting, extras, surprised>>

----------------------------------------------------------------------------
(* The review of what was found *)

TickOne(i) ==
  /\ Page /\ "bulk" \in occasion.deeds /\ ~Under("bulk") /\ i \in Found
  /\ IF i \in ticked THEN ticked' = ticked \ {i} /\ unticked' = unticked \cup {i}
     ELSE ticked' = ticked \cup {i} /\ unticked' = unticked \ {i}
  /\ UNCHANGED <<onFile, seen, notShown, listed, flows, asking, texting, extras, surprised>>

\* "Select all", or "Select none" when all are; offered while a batch is under way too.
TickAll ==
  /\ Page /\ "bulk" \in occasion.deeds /\ Found # {}
  /\ IF Found \subseteq ticked THEN ticked' = {} /\ unticked' = Found
     ELSE ticked' = Found /\ unticked' = {}
  /\ UNCHANGED <<onFile, seen, notShown, listed, flows, asking, texting, extras, surprised>>

AskReject ==
  /\ Page /\ ~Under("bulk") /\ ticked # {}
  /\ asking' = [open |-> TRUE, about |-> ticked, changed |-> FALSE]
  /\ UNCHANGED <<onFile, seen, notShown, listed, flows, tickVars, texting, extras, surprised>>

CancelReject ==
  /\ Showing /\ asking.open /\ ~Under("bulk")
  /\ asking' = NotAsked
  /\ UNCHANGED <<onFile, seen, notShown, listed, flows, tickVars, texting, extras, surprised>>

RouteTicked ==
  /\ Page /\ ~Under("bulk") /\ ticked # {}
  /\ Sends("bulk", "triaged", ticked)
  /\ UNCHANGED <<onFile, seen, notShown, listed, tickVars, asking, texting, surprised>>

\* What is ticked by then is rejected.
RejectTicked ==
  /\ Showing /\ asking.open /\ ~Under("bulk") /\ ticked # {}
  /\ Sends("bulk", "rejected", ticked)
  /\ surprised' = (surprised \/ (ticked # asking.about /\ ~asking.changed))
  /\ UNCHANGED <<onFile, seen, notShown, listed, tickVars, asking, texting>>

\* The server takes the insights one by one.  One it fails on stays as it is and is counted
\* as failed; one already rejected stays as it is, and counts as done all the same.
BulkOne(f, i) ==
  /\ f \in flows /\ f.of = "bulk" /\ f.wants \in {"triaged", "rejected"} /\ i \in f.ids
  /\ onFile' \in {onFile, IF onFile.ins[i] = "rejected" THEN onFile
                          ELSE [onFile EXCEPT !.ins[i] = f.wants]}
  /\ flows' = (flows \ {f}) \cup {[f EXCEPT !.ids = @ \ {i}]}
  /\ UNCHANGED <<seen, notShown, listed, tickVars, asking, texting, extras, surprised>>

\* The page goes on in the same way whether or not some failed.
BulkAnswered(f) ==
  /\ f \in flows /\ f.of = "bulk" /\ f.wants \in {"triaged", "rejected"} /\ f.ids = {}
  /\ flows' = (flows \ {f}) \cup {[f EXCEPT !.wants = "detail"]}
  /\ asking' = NotAsked /\ notShown' = FALSE
  /\ UNCHANGED <<onFile, seen, listed, tickVars, texting, extras, surprised>>

\* PostRefused, or the answer lost: nothing is loaded, and the question stays open.
BulkFails(f) ==
  /\ f \in flows /\ f.of = "bulk" /\ f.wants \in {"triaged", "rejected"}
  /\ flows' = flows \ {f}
  /\ UNCHANGED <<onFile, seen, notShown, listed, tickVars, asking, texting, extras, surprised>>

OthersMove(i, s) ==
  /\ "others" \in occasion.deeds /\ extras.others < occasion.others
  /\ i \in DOMAIN onFile.ins /\ onFile.ins[i] = "extracted"
  /\ onFile' = [onFile EXCEPT !.ins[i] = s]
  /\ extras' = [extras EXCEPT !.others = @ + 1]
  /\ UNCHANGED <<seen, notShown, listed, flows, tickVars, asking, texting, surprised>>

----------------------------------------------------------------------------
(* The conversation, and what is found in it *)

Texted == UNCHANGED <<seen, notShown, listed, tickVars, asking, extras, surprised>>

Paste(t) ==
  /\ Page /\ "save" \in occasion.deeds /\ ~seen.text /\ ~Under("save")
  /\ pasted' = t
  /\ UNCHANGED <<onFile, flows, reading>> /\ Texted

ChooseFile(t) ==
  /\ Page /\ "save" \in occasion.deeds /\ ~seen.text /\ ~Under("save") /\ reading = ""
  /\ reading' = t
  /\ UNCHANGED <<onFile, flows, pasted>> /\ Texted

\* It fills the box whatever is going on by then.
FileRead ==
  /\ reading # ""
  /\ pasted' = reading /\ reading' = ""
  /\ UNCHANGED <<onFile, flows>> /\ Texted

SaveTranscript ==
  /\ Page /\ ~seen.text /\ ~Under("save") /\ pasted # ""
  /\ Sends("save", pasted, {})
  /\ UNCHANGED <<onFile, seen, notShown, listed, tickVars, asking, texting, surprised>>

Extract ==
  /\ Page /\ seen.text /\ ~Under("extract")
  /\ seen.status # "extracted" \/ DOMAIN Over(seen, listed) = {}
  /\ Sends("extract", "run", {})
  /\ UNCHANGED <<onFile, seen, notShown, listed, tickVars, asking, texting, surprised>>

Transcribe ==
  /\ Page /\ seen.audio /\ ~seen.text /\ seen.status # "transcribing" /\ ~Under("transcribe")
  /\ Sends("transcribe", "run", {})
  /\ UNCHANGED <<onFile, seen, notShown, listed, tickVars, asking, texting, surprised>>

\* The server's side of the three; each may be refused, and its answer may be lost.
Posted(f) == f \in flows /\ f.wants \in {"run"} \cup Texts

RunStarts(f) ==
  /\ Posted(f) /\ f.of = "transcribe" /\ onFile.status \notin {"transcribing", "extracted"}
  /\ onFile' = [onFile EXCEPT !.status = "transcribing"]
  /\ UNCHANGED <<flows, texting>> /\ Texted

\* The page goes on to read the detail; text typed since it was sent stays in the box.
PostDone(f) ==
  /\ Posted(f)
  /\ onFile' = CASE f.of = "extract" ->
                    [onFile EXCEPT !.status = "extracted",
                       !.ins = [i \in DOMAIN @ \cup Findings |-> IF i \in DOMAIN @ THEN @[i] ELSE "extracted"]]
               [] OTHER -> [onFile EXCEPT !.text = TRUE, !.status = "transcribed"]
  /\ flows' = (flows \ {f}) \cup {[f EXCEPT !.wants = "detail"]}
  /\ pasted' = IF f.of = "save" /\ pasted = f.wants THEN "" ELSE pasted
  /\ UNCHANGED <<seen, listed, tickVars, asking, reading, extras, surprised>>
  /\ notShown' = FALSE

\* A failed transcription still reads the detail.
PostRefused(f) ==
  /\ Posted(f)
  /\ onFile' \in {onFile, IF f.of = "transcribe" /\ onFile.status = "transcribing"
                      THEN [onFile EXCEPT !.status = "transcribe_failed"] ELSE onFile}
  /\ flows' = (flows \ {f}) \cup
              (IF f.of = "transcribe" THEN {[f EXCEPT !.wants = "detail"]} ELSE {})
  /\ notShown' = (notShown /\ f.of # "transcribe")
  /\ UNCHANGED <<seen, listed, tickVars, asking, texting, extras, surprised>>

MeetingPageStep ==
  \/ LoadAgain
  \/ \E f \in flows : ServeLoad(f) \/ DetailArrives(f) \/ ListArrives(f)
  \/ \E i \in DOMAIN onFile.ins : TickOne(i) \/ (\E f \in flows : BulkOne(f, i))
  \/ \E i \in DOMAIN onFile.ins, s \in {"triaged", "rejected"} : OthersMove(i, s)
  \/ TickAll \/ AskReject \/ CancelReject \/ RouteTicked \/ RejectTicked
  \/ \E f \in flows : BulkAnswered(f) \/ BulkFails(f) \/ RunStarts(f) \/ PostDone(f) \/ PostRefused(f)
  \/ \E t \in Texts : Paste(t) \/ ChooseFile(t)
  \/ FileRead \/ SaveTranscript \/ Extract \/ Transcribe

MeetingPageNext == MeetingPageStep /\ UNCHANGED occasion

MeetingPageSpec == MeetingPageInit /\ [][MeetingPageNext]_meetingPageVars

----------------------------------------------------------------------------
MeetingPageTypeOK ==
  /\ ticked \subseteq Found /\ unticked \subseteq Found
  /\ asking.about \subseteq DOMAIN onFile.ins
  /\ pasted \in Texts \cup {""} /\ reading \in Texts \cup {""}
  /\ extras.loads <= occasion.loads /\ extras.others <= occasion.others

\* What a batch takes is what is ticked: answers that arrive, in any order and of any
\* time, never tick again what the user unticked, and a confirmed rejection takes what was
\* asked about, as long as the found insights stay the same and in the same order
\* (Meeting.tsx:215-226, :249-251).
AnswersLeaveChoices ==
  /\ ticked \cap unticked = {}
  /\ ~surprised
=============================================================================
