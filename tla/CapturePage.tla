----------------------------- MODULE CapturePage -----------------------------
(***************************************************************************)
(* The capture page: a form that files a meeting, and after it the screen  *)
(* that turns the meeting into insights.  One component for both, so what  *)
(* was begun for one meeting may be answered when the page shows the next. *)
(* A conversation is named by the way it is entered; entering it again is  *)
(* the duplicate the server recognizes.                                    *)
(***************************************************************************)
EXTENDS Naturals, Sequences

CONSTANTS
  Errands      \* what the page is used for: the clients, in the list or being created, the
               \* tabs the conversation is entered in, the clients the calendar's events
               \* suggest, and a bound on the meetings the server comes to hold

ASSUME CaptureAssumption ==
  \A e \in Errands : e.maxFiled \in Nat /\ e.hints \subseteq e.clients

VARIABLES
  errand,    \* what this behaviour uses the page for
  filed,     \* the server's meetings: client and conversation
  form,      \* client, consent, the tab and the conversations entered
  chosen,    \* history: the client the user chose last
  lateChoice, \* history: has a client's creation been answered after another choice
  adding,    \* clients being created
  sending,   \* the meeting being added
  screen,    \* the meeting shown (0 is the form), and what is shown of it
  jobs,      \* extractions, briefs and transcriptions under way: kind and meeting
  carried,   \* history: was the page cleared while one was under way
  misfiled   \* history: was a meeting sent under another client than chosen

captureVars == <<errand, filed, form, chosen, lateChoice, adding, sending, screen, jobs, carried,
                 misfiled>>

EmptyForm == [client |-> "none", consent |-> FALSE, way |-> "paste", has |-> {}]
NoScreen == [meeting |-> 0, summary |-> 0, wait |-> 0, audio |-> FALSE]
NotSending == [client |-> "none", way |-> "none", at |-> "none"]

CaptureInit ==
  /\ errand \in Errands
  /\ filed = <<>>
  /\ form = EmptyForm /\ chosen = "none" /\ lateChoice = FALSE /\ adding = {}
  /\ sending = NotSending /\ screen = NoScreen /\ jobs = {} /\ carried = FALSE
  /\ misfiled = FALSE

----------------------------------------------------------------------------
(* The form; its fields stay live while it is sent *)

OnForm == screen.meeting = 0 /\ UNCHANGED <<filed, sending, screen, jobs, carried, misfiled>>

PickClient(c) ==
  /\ OnForm
  /\ form' = [form EXCEPT !.client = c] /\ chosen' = c
  /\ UNCHANGED <<lateChoice, adding>>

\* Mutant: an event does not replace a client that is there.
PickEventIntoBlank(hint) ==
  /\ OnForm
  /\ form' = [form EXCEPT !.client = IF @ = "none" THEN hint ELSE @] /\ chosen' = hint
  /\ UNCHANGED <<lateChoice, adding>>

\* A calendar event fills in the form; a client it does not know stays as it was.
PickEvent(hint) ==
  /\ OnForm
  /\ form' = [form EXCEPT !.client = hint] /\ chosen' = hint
  /\ UNCHANGED <<lateChoice, adding>>

CreateClient(c) ==
  /\ OnForm /\ adding = {}
  /\ adding' = {c} /\ chosen' = c
  /\ UNCHANGED <<form, lateChoice>>

\* The new client is selected whatever was selected since, on whatever is shown.
ClientCreated(c) ==
  /\ c \in adding
  /\ form' = [form EXCEPT !.client = c]
  /\ lateChoice' = (lateChoice \/ chosen # c)
  /\ adding' = {}
  /\ UNCHANGED <<filed, chosen, sending, screen, jobs, carried, misfiled>>

ClientRefused(c) ==
  /\ c \in adding
  /\ adding' = {}
  /\ chosen' = IF chosen = c THEN form.client ELSE chosen
  /\ UNCHANGED <<filed, form, lateChoice, sending, screen, jobs, carried, misfiled>>

Converse(way, text) ==
  /\ OnForm
  /\ form' = [form EXCEPT !.way = way, !.has = IF text THEN @ \cup {way} ELSE @]
  /\ UNCHANGED <<chosen, lateChoice, adding>>

Consent ==
  /\ OnForm
  /\ form' = [form EXCEPT !.consent = ~@]
  /\ UNCHANGED <<chosen, lateChoice, adding>>

----------------------------------------------------------------------------
(* Adding the meeting *)

Submit ==
  /\ screen.meeting = 0 /\ sending = NotSending
  /\ form.client # "none" /\ form.consent /\ form.way \in form.has
  /\ sending' = [client |-> form.client, way |-> form.way, at |-> "sent"]
  /\ misfiled' = (misfiled \/ chosen \notin {form.client} \cup adding)
  /\ UNCHANGED <<filed, form, chosen, lateChoice, adding, screen, jobs, carried>>

KnownAs(way) == {n \in DOMAIN filed : filed[n].way = way}

FileMeeting ==
  /\ sending.at = "sent"
  /\ IF KnownAs(sending.way) # {} THEN sending' = [sending EXCEPT !.at = "known"] /\ UNCHANGED filed
     ELSE /\ Len(filed) < errand.maxFiled
          /\ filed' = Append(filed, [client |-> sending.client, way |-> sending.way])
          /\ sending' = [sending EXCEPT !.at = "new"]
  /\ UNCHANGED <<form, chosen, lateChoice, adding, screen, jobs, carried, misfiled>>

Filed ==
  /\ sending.at \in {"new", "known"}
  /\ screen' = [screen EXCEPT !.meeting = CHOOSE n \in KnownAs(sending.way) : TRUE,
                              !.audio = sending.way = "audio_file" /\ sending.at = "new"]
  /\ sending' = NotSending
  /\ UNCHANGED <<filed, form, chosen, lateChoice, adding, jobs, carried, misfiled>>

\* The answer may be lost after the meeting was filed; adding it again then finds it.
NotFiled ==
  /\ sending.at # "none"
  /\ sending' = NotSending
  /\ UNCHANGED <<filed, form, chosen, lateChoice, adding, screen, jobs, carried, misfiled>>

----------------------------------------------------------------------------
(* The meeting's screen *)

OnScreen == screen.meeting # 0 /\ UNCHANGED <<filed, chosen, lateChoice, adding, sending, misfiled>>
Doing(kinds) == \E j \in jobs : j.kind \in kinds

PressExtract ==
  /\ OnScreen /\ ~Doing({"extract", "brief"})
  /\ jobs' = jobs \cup {[kind |-> "extract", of |-> screen.meeting]}
  /\ screen' = [screen EXCEPT !.wait = 0]
  /\ UNCHANGED <<form, carried>>

PressTranscribe ==
  /\ OnScreen /\ screen.audio /\ ~Doing({"transcribe"})
  /\ jobs' = jobs \cup {[kind |-> "transcribe", of |-> screen.meeting]}
  /\ UNCHANGED <<form, screen, carried>>

Ends(j) == j \in jobs /\ jobs' = jobs \ {j}
NothingElse == UNCHANGED <<filed, form, chosen, lateChoice, adding, sending, carried, misfiled>>

\* A long extraction leaves the brief for a second request.
BriefPending(j) ==
  /\ j \in jobs /\ j.kind = "extract"
  /\ jobs' = (jobs \ {j}) \cup {[j EXCEPT !.kind = "brief"]}
  /\ UNCHANGED screen /\ NothingElse

\* With its brief, or without if that failed.
Extracted(j) ==
  /\ Ends(j) /\ j.kind \in {"extract", "brief"}
  /\ screen' = [screen EXCEPT !.summary = j.of]
  /\ NothingElse

\* The model is busy or its budget spent: the screen says where the meeting waits,
\* which is the meeting it shows.
ExtractWaits(j) ==
  /\ Ends(j) /\ j.kind = "extract"
  /\ screen' = [screen EXCEPT !.wait = j.of]
  /\ NothingElse

Transcribed(j) ==
  /\ Ends(j) /\ j.kind = "transcribe"
  /\ screen' = [screen EXCEPT !.audio = FALSE]
  /\ NothingElse

JobFails(j) ==
  /\ Ends(j) /\ j.kind # "brief"
  /\ UNCHANGED screen /\ NothingElse

StartAnother ==
  /\ screen.meeting # 0
  /\ screen' = NoScreen /\ form' = EmptyForm /\ chosen' = "none"
  /\ carried' = (carried \/ jobs # {})
  /\ UNCHANGED <<filed, lateChoice, adding, sending, jobs, misfiled>>

CaptureStep ==
  \/ \E c \in errand.clients : PickClient(c) \/ CreateClient(c) \/ ClientCreated(c) \/ ClientRefused(c)
  \/ \E hint \in errand.hints : PickEvent(hint)
  \/ \E way \in errand.ways, text \in BOOLEAN : Converse(way, text)
  \/ Consent \/ Submit \/ FileMeeting \/ Filed \/ NotFiled
  \/ PressExtract \/ PressTranscribe
  \/ \E j \in jobs : BriefPending(j) \/ Extracted(j) \/ ExtractWaits(j) \/ Transcribed(j) \/ JobFails(j)
  \/ StartAnother

CaptureNext == CaptureStep /\ UNCHANGED errand

CaptureSpec == CaptureInit /\ [][CaptureNext]_captureVars

----------------------------------------------------------------------------
CaptureTypeOK ==
  /\ Len(filed) <= errand.maxFiled
  /\ form.client \in errand.clients \cup {"none"} /\ form.has \subseteq errand.ways
  /\ screen.meeting \in 0 .. Len(filed) /\ screen.summary \in 0 .. Len(filed)
  /\ adding \subseteq errand.clients
  /\ \A j \in jobs : j.of \in DOMAIN filed

\* A meeting is filed under the client its user chose last, and what the page then
\* shows is of the meeting it names.  Two answers are let in without a look at what
\* is shown by then: a client's creation (Capture.tsx:190) and an extraction's summary
\* after "Add another" (Capture.tsx:332); everything else keeps the meetings apart.
KeepsToItsMeeting ==
  /\ misfiled => lateChoice
  /\ screen.meeting # 0 /\ ~carried =>
       {screen.summary, screen.wait} \subseteq {0, screen.meeting}
=============================================================================
