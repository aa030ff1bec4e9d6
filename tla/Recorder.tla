------------------------------- MODULE Recorder -------------------------------
(***************************************************************************)
(* The browser extension that records a call.  Three contexts talk by      *)
(* messages: the popup, which may close and open at any time; the service  *)
(* worker, which keeps the canonical state and owns the offscreen          *)
(* document; and that document, which records, holds the finished          *)
(* recording in memory, uploads it, and pushes what happens to the worker. *)
(* Messages of one sender arrive in order; a handler's awaits let the      *)
(* others run in between.                                                  *)
(***************************************************************************)
EXTENDS Naturals, Sequences, FiniteSets

CONSTANTS
  Orders,     \* handlers of the popup's messages that can run at once
  MaxTapes,   \* bound on recordings
  MaxRetries, \* bound on uploads of one recording, or at one time
  Patient,    \* people click, and open the popup again, only when the messages and
              \* commands before have been answered
  DocDies     \* the browser may close the offscreen document

ASSUME RecorderAssumption == MaxTapes \in Nat /\ MaxRetries \in Nat \ {0} /\ Patient \in BOOLEAN

VARIABLES
  rec,       \* rec_state in chrome.storage.session
  doc,       \* the offscreen document
  pushes,    \* its messages to the worker, in order
  order,     \* the handlers of the popup's commands
  popup,     \* the popup's own copy of the state, the command it waits for, and whether it
             \* shows the start button for want of an answer to GET_STATE (blind)
  tapes,     \* recordings begun
  finished,  \* history: recordings that ended with audio
  excused    \* history: those uploaded, discarded by the user, closed by the browser, or
             \* lost to a start from a blind popup

recorderVars == <<rec, doc, pushes, order, popup, tapes, finished, excused>>

Idle == [phase |-> "idle", retry |-> FALSE]
NoDoc == [open |-> FALSE, mic |-> "off", tape |-> 0, blob |-> 0, sending |-> 0, out |-> 0, sent |-> 0]
NoOrder == [kind |-> "none", at |-> "none", blind |-> FALSE]
Closed == [open |-> FALSE, view |-> Idle, waits |-> "none", blind |-> FALSE]

RecorderInit ==
  /\ rec = Idle
  /\ doc = NoDoc
  /\ pushes = <<>>
  /\ order = [o \in Orders |-> NoOrder]
  /\ popup = Closed
  /\ tapes = 0 /\ finished = {} /\ excused = {}

\* pushState(payload), with the change of the document that comes with it.
Push(d, m) == doc' = d /\ pushes' = Append(pushes, m)
Stands(o, kind, at) == order[o].kind = kind /\ order[o].at = at
Goes(o, at) == order' = [order EXCEPT ![o].at = at]

----------------------------------------------------------------------------
(* The popup *)

\* init: GET_STATE, and the view of its phase; without an answer, that of idle.
OpenPopup ==
  /\ ~popup.open
  /\ Patient => \A o \in Orders : order[o] = NoOrder
  /\ \E seen \in BOOLEAN :
       popup' = [open |-> TRUE, view |-> IF seen THEN rec ELSE Idle, waits |-> "none", blind |-> ~seen]
  /\ UNCHANGED <<rec, doc, pushes, order, tapes, finished, excused>>

ClosePopup ==
  /\ popup.open
  /\ popup' = Closed
  /\ UNCHANGED <<rec, doc, pushes, order, tapes, finished, excused>>

\* Every 600 ms, in two of the views only.
PollPopup ==
  /\ popup.open /\ popup.view.phase \in {"recording", "uploading"}
  /\ popup.view # rec
  /\ popup' = [popup EXCEPT !.view = rec, !.waits = "none"]
  /\ UNCHANGED <<rec, doc, pushes, order, tapes, finished, excused>>

\* The buttons each view has.
Offered ==
  CASE popup.view.phase = "idle"      -> {"start"}
    [] popup.view.phase = "recording" -> {"stop"}
    [] popup.view.phase = "uploading" -> {}
    [] popup.view.phase = "done"      -> {"reset"}
    [] popup.view.phase = "error"     -> {"reset"} \cup (IF popup.view.retry THEN {"retry"} ELSE {})

\* The upload that the end of a recording under way will bring: it counts for the bound.
Coming == IF doc.mic = "on" THEN 1 ELSE 0

\* Buttons to start and to stop are dead until they are answered, the others not.
Press(o, kind) ==
  /\ popup.open /\ kind \in Offered
  /\ kind \in {"start", "stop"} => popup.waits # kind
  /\ order[o] = NoOrder
  /\ Patient => pushes = <<>> /\ \A p \in Orders : order[p] = NoOrder
  /\ kind = "start" => tapes < MaxTapes /\ doc.sending + Coming < MaxRetries
  /\ kind = "retry" => doc.sent + Coming < MaxRetries /\ ~\E p \in Orders : order[p].kind = "retry"
  /\ order' = [order EXCEPT ![o] = [kind |-> kind, at |-> "begin", blind |-> popup.blind]]
  /\ popup' = [popup EXCEPT !.waits = kind]
  /\ UNCHANGED <<rec, doc, pushes, tapes, finished, excused>>

\* The answer, in the popup that asked if it is still there: the view the button
\* promises, whatever the worker answered, but for a start that was refused.
Answered(o, ok) ==
  LET k == order[o].kind
      phase == CASE k = "start" -> IF ok THEN "recording" ELSE popup.view.phase
                 [] k \in {"stop", "retry"} -> "uploading"
                 [] k = "reset" -> "idle"
  IN
  /\ order' = [order EXCEPT ![o] = NoOrder]
  /\ popup' = IF popup.open /\ popup.waits = k
              THEN [popup EXCEPT !.waits = "none", !.view.phase = phase, !.blind = @ /\ ~ok] ELSE popup

----------------------------------------------------------------------------
(* handleStart and the document's start *)

\* The phase is checked; then the active tab and its stream are asked for.
StartCheck(o) ==
  /\ Stands(o, "start", "begin")
  /\ IF rec.phase \in {"recording", "uploading"}
     THEN Answered(o, FALSE)
     ELSE Goes(o, "stream") /\ UNCHANGED popup
  /\ UNCHANGED <<rec, doc, pushes, tapes, finished, excused>>

\* The tab's stream id, or a page Chrome does not capture; then ensureOffscreen.
StartOpens(o) ==
  /\ Stands(o, "start", "stream")
  /\ \/ Answered(o, FALSE) /\ UNCHANGED doc
     \/ /\ doc' = IF doc.open THEN doc ELSE [NoDoc EXCEPT !.open = TRUE]
        /\ Goes(o, "send") /\ UNCHANGED popup
  /\ UNCHANGED <<rec, pushes, tapes, finished, excused>>

\* What a start from a blind popup may lose: the recording the document holds; and,
\* over an upload that is still under way or has not reported, whatever follows.
Blindly(o) ==
  IF ~order[o].blind THEN {}
  ELSE IF doc.sending = 0 /\ pushes = <<>> THEN {doc.blob} \ {0} ELSE 1 .. MaxTapes

\* OFFSCREEN_START arrives: a document that records refuses and drops everything;
\* another one forgets what it held and asks for the microphone.
StartArrives(o) ==
  /\ Stands(o, "start", "send")
  /\ IF ~doc.open THEN Answered(o, FALSE) /\ UNCHANGED <<doc, excused>>
     ELSE IF doc.mic = "on"
     THEN /\ doc' = [doc EXCEPT !.mic = "off", !.tape = 0, !.blob = 0]
          /\ Goes(o, "close") /\ UNCHANGED <<popup, excused>>
     ELSE /\ doc' = [doc EXCEPT !.mic = "asking", !.blob = 0, !.sent = doc.sending]
          /\ excused' = excused \cup Blindly(o)
          /\ Goes(o, "mic") /\ UNCHANGED popup
  /\ UNCHANGED <<rec, pushes, tapes, finished>>

\* The stream is there and the worker, told so before anything else the document
\* says, records the phase; or it is not, and the document goes.
StartRecords(o) ==
  /\ Stands(o, "start", "mic")
  /\ IF ~doc.open THEN Answered(o, FALSE) /\ UNCHANGED <<rec, doc, tapes>>
     ELSE \/ /\ doc' = [doc EXCEPT !.mic = "on", !.tape = tapes + 1]
             /\ tapes' = tapes + 1
             /\ rec' = [phase |-> "recording", retry |-> FALSE]
             /\ Answered(o, TRUE)
          \/ /\ doc' = [doc EXCEPT !.mic = "off", !.tape = 0, !.blob = 0]
             /\ Goes(o, "close") /\ UNCHANGED <<rec, popup, tapes>>
  /\ UNCHANGED <<pushes, finished, excused>>

StartFails(o) ==
  /\ Stands(o, "start", "close")
  /\ doc' = NoDoc
  /\ Answered(o, FALSE)
  /\ UNCHANGED <<rec, pushes, tapes, finished, excused>>

----------------------------------------------------------------------------
(* handleStop, and the end of a recording *)

\* finalize: the chunks become the recording, and upload() says so or has nothing.
Finalize(d, audio) ==
  LET held == [d EXCEPT !.mic = "off", !.tape = 0, !.blob = IF audio THEN d.tape ELSE 0] IN
  /\ IF audio THEN Push([held EXCEPT !.sending = @ + 1, !.out = d.tape, !.sent = @ + 1],
                        [phase |-> "uploading", retry |-> "kept"])
              ELSE Push(held, [phase |-> "error", retry |-> "no"])
  /\ finished' = IF audio THEN finished \cup {d.tape} ELSE finished

StopCheck(o) ==
  /\ Stands(o, "stop", "begin")
  /\ IF rec.phase # "recording" THEN Answered(o, FALSE) ELSE Goes(o, "send") /\ UNCHANGED popup
  /\ UNCHANGED <<rec, doc, pushes, tapes, finished, excused>>

\* OFFSCREEN_STOP: nobody there is an error; a document that does not record any
\* more takes no notice.
StopArrives(o) ==
  /\ Stands(o, "stop", "send")
  /\ IF doc.open /\ doc.mic = "on"
     THEN (\E audio \in BOOLEAN : Finalize(doc, audio)) /\ UNCHANGED rec
     ELSE /\ rec' = IF doc.open THEN rec ELSE [phase |-> "error", retry |-> FALSE]
          /\ UNCHANGED <<doc, pushes, finished>>
  /\ Answered(o, TRUE)
  /\ UNCHANGED <<tapes, excused>>

\* The tab is closed, or its capture revoked.
TrackEnds ==
  /\ doc.open /\ doc.mic = "on"
  /\ \E audio \in BOOLEAN : Finalize(doc, audio)
  /\ UNCHANGED <<rec, order, popup, tapes, excused>>

----------------------------------------------------------------------------
(* upload *)

\* Mutant: the recording leaves memory whatever the server answered.
UploadErrsForgets ==
  /\ doc.open /\ doc.sending # 0
  /\ Push([doc EXCEPT !.sending = @ - 1, !.blob = 0], [phase |-> "error", retry |-> "yes"])
  /\ UNCHANGED <<rec, order, popup, tapes, finished, excused>>

\* Mutant: the worker hears of a failure without being offered another try.
UploadErrsFinally ==
  /\ doc.open /\ doc.sending # 0
  /\ Push([doc EXCEPT !.sending = @ - 1], [phase |-> "error", retry |-> "no"])
  /\ UNCHANGED <<rec, order, popup, tapes, finished, excused>>

\* No server, an expired session, a refusal, or an answer that is lost: the
\* recording stays in memory.
UploadErrs ==
  /\ doc.open /\ doc.sending # 0
  /\ Push([doc EXCEPT !.sending = @ - 1], [phase |-> "error", retry |-> "yes"])
  /\ UNCHANGED <<rec, order, popup, tapes, finished, excused>>

UploadDone ==
  /\ doc.open /\ doc.sending # 0
  /\ Push([doc EXCEPT !.sending = @ - 1, !.blob = 0], [phase |-> "done", retry |-> "kept"])
  /\ excused' = excused \cup {doc.out}
  /\ UNCHANGED <<rec, order, popup, tapes, finished>>

\* handleRetry: without a document there is nothing left; else OFFSCREEN_RETRY, and
\* the upload starts again if something is held, beside one that is still under way.
Retry(o) ==
  /\ Stands(o, "retry", "begin")
  /\ IF ~doc.open
     THEN rec' = [phase |-> "error", retry |-> FALSE] /\ UNCHANGED <<doc, pushes>>
     ELSE /\ IF doc.blob = 0 THEN Push(doc, [phase |-> "error", retry |-> "no"])
             ELSE Push([doc EXCEPT !.sending = @ + 1, !.out = doc.blob, !.sent = @ + 1],
                       [phase |-> "uploading", retry |-> "kept"])
          /\ UNCHANGED rec
  /\ Answered(o, TRUE)
  /\ UNCHANGED <<tapes, finished, excused>>

----------------------------------------------------------------------------
(* handleReset *)

\* hasOffscreen, then OFFSCREEN_DISCARD: discard() stops and forgets everything.
ResetDiscards(o) ==
  /\ Stands(o, "reset", "begin")
  /\ doc' = IF doc.open THEN [doc EXCEPT !.mic = "off", !.tape = 0, !.blob = 0] ELSE doc
  /\ excused' = excused \cup ({doc.blob} \ {0})
  /\ Goes(o, IF doc.open THEN "close" ELSE "idle")
  /\ UNCHANGED <<rec, pushes, popup, tapes, finished>>

ResetCloses(o) ==
  /\ Stands(o, "reset", "close")
  /\ doc' = NoDoc
  /\ excused' = excused \cup ({doc.blob} \ {0})
  /\ Goes(o, "idle")
  /\ UNCHANGED <<rec, pushes, popup, tapes, finished>>

ResetEnds(o) ==
  /\ Stands(o, "reset", "idle")
  /\ rec' = Idle
  /\ Answered(o, TRUE)
  /\ UNCHANGED <<doc, pushes, tapes, finished, excused>>

----------------------------------------------------------------------------
(* handleOffscreenState *)

\* {...cur, ...payload}: a field the payload has not keeps its value.
Merged(m) == [phase |-> m.phase, retry |-> IF m.retry = "kept" THEN rec.retry ELSE m.retry = "yes"]

\* The state is merged; after an upload the document is closed.
TakePush ==
  /\ pushes # <<>>
  /\ rec' = Merged(Head(pushes))
  /\ pushes' = Tail(pushes)
  /\ doc' = IF Head(pushes).phase = "done" THEN NoDoc ELSE doc
  /\ UNCHANGED <<order, popup, tapes, finished, excused>>

\* Chrome closes the document while it waits for the user.
DocGone ==
  /\ DocDies /\ doc.open /\ doc.mic = "off" /\ doc.sending = 0
  /\ doc' = NoDoc
  /\ excused' = excused \cup ({doc.blob} \ {0})
  /\ UNCHANGED <<rec, pushes, order, popup, tapes, finished>>

Serve(o) ==
  \/ StartCheck(o) \/ StartOpens(o) \/ StartArrives(o) \/ StartRecords(o) \/ StartFails(o)
  \/ StopCheck(o) \/ StopArrives(o)
  \/ Retry(o)
  \/ ResetDiscards(o) \/ ResetCloses(o) \/ ResetEnds(o)

RecorderNext ==
  \/ OpenPopup \/ ClosePopup \/ PollPopup
  \/ \E o \in Orders, k \in {"start", "stop", "retry", "reset"} : Press(o, k)
  \/ \E o \in Orders : Serve(o)
  \/ TrackEnds \/ UploadErrs \/ UploadDone \/ TakePush \/ DocGone

\* Messages are delivered; nothing is assumed of people and servers.
RecorderFairness == WF_recorderVars(TakePush)

RecorderSpec == RecorderInit /\ [][RecorderNext]_recorderVars /\ RecorderFairness

----------------------------------------------------------------------------
Phases == {"idle", "recording", "uploading", "done", "error"}
RecorderTypeOK ==
  /\ rec \in [phase : Phases, retry : BOOLEAN]
  /\ doc \in [open : BOOLEAN, mic : {"off", "asking", "on"}, tape : 0 .. MaxTapes,
              blob : 0 .. MaxTapes, sending : 0 .. MaxRetries, out : 0 .. MaxTapes,
              sent : 0 .. MaxRetries]
  /\ popup.view \in [phase : Phases, retry : BOOLEAN] /\ popup.blind \in BOOLEAN
  /\ tapes \in 0 .. MaxTapes /\ finished \subseteq 1 .. tapes

\* "Audio is held in memory until it is uploaded and is discarded after upload or
\* when the user presses Discard" (STORE_LISTING.md:87): no order of commands, failures,
\* retries and reopened popups loses a recording in any other way, but a Start pressed in
\* a popup whose GET_STATE failed, which shows the start button whatever there is
\* (popup.ts:454-459) and, unless the worker records or uploads, empties the document
\* (background.ts:66-69, offscreen.ts:46): that one loses what is held, or, over an upload
\* whose end is still to be reported, also what is recorded next.
RecordingKept == \A t \in finished : doc.blob = t \/ t \in excused

\* "If an upload fails, the recording is kept in memory and the popup offers Retry
\* upload" (extension/README.md:39): what the document holds and does not send is
\* offered for a retry in the end, unless it is sent again or given up.
RetryOffered ==
  \A t \in 1 .. MaxTapes :
    (doc.blob = t /\ doc.sending = 0) ~>
      \/ rec = [phase |-> "error", retry |-> TRUE]
      \/ doc.blob # t \/ doc.sending > 0
=============================================================================
