---------------------------- MODULE MeetingLife ----------------------------
(***************************************************************************)
(* One recorded meeting after its upload: transcription, a pasted          *)
(* transcript, extraction, the meeting brief, insights entered by hand,    *)
(* and the purge that must undo all of them.                               *)
(*                                                                         *)
(* A call is one HTTP request (or the daily job).  It reads rows, then     *)
(* waits for minutes on Deepgram or a language model, and writes in one    *)
(* READ COMMITTED transaction whose effect is applied at its commit.  The  *)
(* only row two transactions fight over for long is the meeting's: the     *)
(* purge updates it first and holds it until it commits.                   *)
(*                                                                         *)
(* A transcript is the set of quotes one can cite from it.  Redacted       *)
(* quotes are "[purged]" in the code; here a mention's quote is Purged.    *)
(***************************************************************************)
EXTENDS Naturals, Sequences, FiniteSets

CONSTANTS
  Calls,        \* requests that can be in flight at once
  Quotes,       \* what clients say
  Runs,         \* rows extraction_runs may come to hold
  OldInsights,  \* insights of the client extracted from earlier meetings
  NewInsights,  \* rows insights may come to hold
  Menus,        \* what clients may do in one behaviour: operations and transcripts
  MaxTexts,     \* no paste begins once this many transcripts are stored
  Crashes,      \* whether calls may die half-way in this instance
  SweepsLive    \* whether a run may outlive STALE_RUN_MINUTES and be swept alive

ASSUME MenusAssumption == \A m \in Menus : m.texts \subseteq SUBSET Quotes
ASSUME RunsAssumption == "none" \notin Runs /\ "manual" \notin Runs
ASSUME MaxTextsAssumption == MaxTexts \in Nat
ASSUME FlagsAssumption == Crashes \in BOOLEAN /\ SweepsLive \in BOOLEAN

VARIABLES
  menu,      \* the menu of this behaviour
  meeting,   \* meetings row: status, deleted_at, the audio asset's reference
  blob,      \* is the recording still in the blob store
  texts,     \* transcripts, oldest first: the quotes each contains
  run,       \* extraction_runs: status by id
  ins,       \* insights: state and whether the row points at a run
  mention,   \* insight_mentions
  index,     \* fts_insights: the quotes each insight can be found by
  brief,     \* the quotes meeting_analyses may repeat
  call,      \* the calls in flight
  daily,     \* the runs the daily job has read as stale and is about to fail
  raced,     \* history: was another call in flight during the purge
  crashed    \* history: did a call die while transcribing

lifeVars == <<meeting, blob, texts, run, ins, mention, index, brief,
              call, daily, raced, crashed, menu>>

Purged == "purged"
Insights == OldInsights \cup NewInsights

\* A call between two requests.  said is what the handler has read of the
\* transcript, plan what the model passes decided to write, and alone whether no
\* other call has run since this purge began.
Resting ==
  [op |-> "none", phase |-> "idle", run |-> "none", said |-> {}, plan |-> {},
   touched |-> {}, read |-> {}, alone |-> TRUE]

LifeInit ==
  /\ menu \in Menus
  /\ texts \in {<<>>} \cup {<<t>> : t \in menu.texts}
  /\ meeting = [status |-> IF texts = <<>> THEN "uploaded" ELSE "transcribed",
                deleted |-> FALSE, audio |-> "stored"]
  /\ blob = TRUE
  /\ run = [r \in Runs |-> "absent"]
  /\ ins = [i \in Insights |-> IF i \in OldInsights THEN "open" ELSE "absent"]
  /\ mention = {}
  /\ index = [i \in Insights |-> {}]
  /\ brief = {}
  /\ call = [c \in Calls |-> Resting]
  /\ daily = {}
  /\ raced = FALSE
  /\ crashed = FALSE

----------------------------------------------------------------------------
(* Helpers *)

Last(s) == s[Len(s)]

\* A request arrives.
Enter(c, op, said) ==
  /\ op \in menu.ops
  /\ call[c].phase = "idle"
  /\ call' = [d \in Calls |->
       IF d = c THEN [Resting EXCEPT !.op = op, !.phase = "begun", !.said = said]
       ELSE [call[d] EXCEPT !.alone = FALSE]]

Advance(c, phase) == call' = [call EXCEPT ![c].phase = phase]
Done(c) == call' = [call EXCEPT ![c] = Resting]

\* The purge transaction holds the meeting's row from its first UPDATE on.
MeetingRowFree == \A c \in Calls : call[c].phase # "marked"

rows == <<meeting, blob, texts, run, ins, mention, index, brief>>
others == <<daily, raced, crashed, menu>>

----------------------------------------------------------------------------
(* Transcription *)

\* transcribeMeeting's checks: not deleted, no transcript yet, not in progress.
BeginTranscribe(c) ==
  /\ ~meeting.deleted
  /\ texts = <<>>
  /\ meeting.status # "transcribing"
  /\ Enter(c, "transcribe", {})
  /\ UNCHANGED <<rows, others>>

\* The status is set without repeating the checks.
StartTranscribing(c) ==
  /\ call[c].op = "transcribe" /\ call[c].phase = "begun"
  /\ MeetingRowFree
  /\ meeting' = [meeting EXCEPT !.status = "transcribing"]
  /\ Advance(c, "calling")
  /\ UNCHANGED <<blob, texts, run, ins, mention, index, brief, others>>

\* Deepgram answered, having fetched the recording: the transcript and the status
\* commit together, and neither is conditional on what was read at the start.
TranscribeCommit(c) ==
  /\ call[c].op = "transcribe" /\ call[c].phase = "calling"
  /\ MeetingRowFree
  /\ \E said \in menu.texts : texts' = Append(texts, said)
  /\ meeting' = [meeting EXCEPT !.status = "transcribed"]
  /\ Done(c)
  /\ UNCHANGED <<blob, run, ins, mention, index, brief, others>>

\* The catch of transcribeMeeting: any error on the way, a missing blob included.
TranscribeFails(c) ==
  /\ call[c].op = "transcribe" /\ call[c].phase = "calling"
  /\ MeetingRowFree
  /\ meeting' = [meeting EXCEPT !.status = "transcription_failed"]
  /\ Done(c)
  /\ UNCHANGED <<blob, texts, run, ins, mention, index, brief, others>>

----------------------------------------------------------------------------
(* Pasting a transcript *)

\* Mutant: the paste does not look at deleted_at.
BeginPasteAnyway(c) ==
  /\ Len(texts) < MaxTexts
  /\ Enter(c, "paste", {})
  /\ UNCHANGED <<rows, others>>

BeginPaste(c) ==
  /\ Len(texts) < MaxTexts
  /\ ~meeting.deleted
  /\ Enter(c, "paste", {})
  /\ UNCHANGED <<rows, others>>

\* The status moves only from the three states before a transcript; the row is
\* locked only then.
PasteCommit(c) ==
  LET moves == meeting.status \in {"uploaded", "transcribing", "transcription_failed"}
  IN /\ call[c].op = "paste" /\ call[c].phase = "begun"
     /\ moves => MeetingRowFree
     /\ \E said \in menu.texts : texts' = Append(texts, said)
     /\ meeting' = IF moves THEN [meeting EXCEPT !.status = "transcribed"] ELSE meeting
     /\ Done(c)
     /\ UNCHANGED <<blob, run, ins, mention, index, brief, others>>

----------------------------------------------------------------------------
(* Extraction *)

\* loadMeeting and latestTranscript.
BeginExtract(c) ==
  /\ Cardinality({r \in Runs : run[r] = "absent"}) >
       Cardinality({d \in Calls : call[d].op = "extract" /\ call[d].run = "none"})
  /\ ~meeting.deleted
  /\ texts # <<>>
  /\ Enter(c, "extract", Last(texts))
  /\ UNCHANGED <<rows, others>>

Alive(r) == \E c \in Calls : call[c].run = r

\* Runs the sweep may pick: still running and old enough.  A run is cut off by
\* its function's time limit before that, unless SweepsLive.
Stale == {r \in Runs : run[r] = "running" /\ (SweepsLive \/ ~Alive(r))}

\* Each UPDATE repeats the test of the status.
\* Mutant: the sweep only appends its event.
FailStaleOnlyLogs(rs) == UNCHANGED run

\* Mutant: the sweep writes a status of its own.
FailStaleAbandons(rs) ==
  run' = [r \in Runs |-> IF r \in rs /\ run[r] = "running" THEN "abandoned" ELSE run[r]]

FailStale(rs) ==
  run' = [r \in Runs |-> IF r \in rs /\ run[r] = "running" THEN "failed" ELSE run[r]]

\* failStaleExtractionRuns as the daily job calls it: one SELECT, then the UPDATEs.
DailyRead ==
  /\ daily = {} /\ Stale # {}
  /\ daily' = Stale
  /\ UNCHANGED <<rows, call, raced, crashed, menu>>

DailyWrite ==
  /\ daily # {}
  /\ FailStale(daily)
  /\ daily' = {}
  /\ UNCHANGED <<meeting, blob, texts, ins, mention, index, brief, call, raced, crashed, menu>>

\* The same sweep as the first thing runExtraction does.
ReadStale(c) ==
  /\ call[c].op = "extract" /\ call[c].phase = "begun"
  /\ call' = [call EXCEPT ![c].phase = "sweeping", ![c].read = Stale]
  /\ UNCHANGED <<rows, others>>

SweepStale(c) ==
  /\ call[c].phase = "sweeping"
  /\ FailStale(call[c].read)
  /\ call' = [call EXCEPT ![c].phase = "swept", ![c].read = {}]
  /\ UNCHANGED <<meeting, blob, texts, ins, mention, index, brief, others>>

CheckRunning(c) ==
  /\ call[c].phase = "swept"
  /\ IF \E r \in Runs : run[r] = "running" THEN Done(c) ELSE Advance(c, "clear")
  /\ UNCHANGED <<rows, others>>

\* already_extracted, unless the caller forces a re-run.
CheckDone(c) ==
  /\ call[c].phase = "clear"
  /\ \/ "force" \in menu.ops /\ Advance(c, "free")
     \/ /\ \A r \in Runs : run[r] # "succeeded"
        /\ Advance(c, "free")
     \/ /\ \E r \in Runs : run[r] = "succeeded"
        /\ Done(c)
  /\ UNCHANGED <<rows, others>>

\* The INSERT fails on the unique index when a run is running, and on the
\* foreign key when the transcript it read has been purged.  (Meeting and transcript
\* are read one after the other, so a paste that lands on a purged meeting between the
\* two reads lets the run start all the same.)
InsertRun(c) ==
  /\ call[c].phase = "free"
  /\ texts # <<>>
  /\ \A r \in Runs : run[r] # "running"
  /\ \E r \in Runs :
       /\ run[r] = "absent"
       /\ run' = [run EXCEPT ![r] = "running"]
       /\ call' = [call EXCEPT ![c].phase = "running", ![c].run = r]
  /\ UNCHANGED <<meeting, blob, texts, ins, mention, index, brief, others>>

InsertRefused(c) ==
  /\ call[c].phase = "free"
  /\ texts = <<>> \/ \E r \in Runs : run[r] = "running"
  /\ Done(c)
  /\ UNCHANGED <<rows, others>>

Recorded == {m.quote : m \in mention} \ {Purged}

\* Passes 1 and 2 keep any of the transcript's quotes: a quote that is not in the
\* transcript, or that instructs the tool, or that the verifier rejects is
\* dropped, and so is one already recorded for the client.
ReadCandidates(c) ==
  /\ call[c].phase = "running"
  /\ \E found \in SUBSET call[c].said :
       call' = [call EXCEPT ![c].phase = "matching", ![c].said = found \ Recorded]
  /\ UNCHANGED <<rows, others>>

\* The two matching passes.  Clustering gives each candidate a representative;
\* the dedup pass may attach a representative to an insight open at this moment.
\* A sibling of an attached representative is dropped, as in the code.
\* Mutant: what is attached to an open insight also goes on as a candidate.
MatchCandidatesBoth(c) ==
  /\ call[c].phase = "matching"
  /\ \E old \in [call[c].said -> {i \in Insights : ins[i] = "open"} \cup {"new"}] :
       call' = [call EXCEPT ![c].phase = "persisting", ![c].said = {},
         ![c].plan = {[quote |-> q, rep |-> q, to |-> t] :
                       q \in call[c].said, t \in {"new"}}
                     \cup {[quote |-> q, rep |-> q, to |-> old[q]] : q \in call[c].said}]
  /\ UNCHANGED <<rows, others>>

MatchCandidates(c) ==
  /\ call[c].phase = "matching"
  /\ \E reps \in SUBSET call[c].said :
     \E cluster \in [call[c].said -> reps] :
     \E old \in [reps -> {i \in Insights : ins[i] = "open"} \cup {"new"}] :
       /\ \A q \in reps : cluster[q] = q
       /\ call' = [call EXCEPT ![c].phase = "persisting", ![c].said = {},
            ![c].plan = {[quote |-> q, rep |-> cluster[q], to |-> old[cluster[q]]] :
                          q \in {x \in call[c].said :
                                   old[cluster[x]] = "new" \/ cluster[x] = x}}]
  /\ UNCHANGED <<rows, others>>

NewReps(c) == {p.rep : p \in {x \in call[c].plan : x.to = "new"}}

\* The persisting transaction.  A new insight references the run, so it needs the
\* run's row; a plan that only attaches does not, and then updates no run at all
\* when the purge has deleted it.  Nothing is read again.
Persist(c) ==
  /\ call[c].phase = "persisting"
  /\ MeetingRowFree
  /\ NewReps(c) # {} => run[call[c].run] # "deleted"
  /\ \E row \in [NewReps(c) -> {i \in NewInsights : ins[i] = "absent"}] :
       LET target(p) == IF p.to = "new" THEN row[p.rep] ELSE p.to
           added == {[insight |-> target(p), quote |-> p.quote, by |-> call[c].run] :
                      p \in call[c].plan}
       IN /\ \A p, q \in NewReps(c) : row[p] = row[q] => p = q
          /\ ins' = [i \in Insights |->
                       IF \E p \in NewReps(c) : row[p] = i THEN "open" ELSE ins[i]]
          /\ mention' = mention \cup added
          /\ call' = [call EXCEPT ![c].phase = "syncing", ![c].plan = {},
                                  ![c].touched = {m.insight : m \in added}]
  /\ run' = [run EXCEPT ![call[c].run] = IF @ = "deleted" THEN @ ELSE "succeeded"]
  /\ meeting' = [meeting EXCEPT !.status = "extracted"]
  /\ UNCHANGED <<blob, texts, index, brief, others>>

\* The catch of runExtraction: a model call failed, the run's row is gone, the
\* transaction was a deadlock's victim, or the index could not be refreshed.  The
\* UPDATE is unconditional, so it may hit a run that has already succeeded.
ExtractFails(c) ==
  /\ call[c].op = "extract"
  /\ call[c].phase \in {"running", "matching", "persisting", "syncing", "indexing"}
  /\ run' = [run EXCEPT ![call[c].run] = IF @ = "deleted" THEN @ ELSE "failed"]
  /\ Done(c)
  /\ UNCHANGED <<meeting, blob, texts, ins, mention, index, brief, others>>

----------------------------------------------------------------------------
(* The full-text index, refreshed after the commit, insight by insight, each in
   separate statements: DELETE, two SELECTs, INSERT *)

QuotesOf(i) == {m.quote : m \in {x \in mention : x.insight = i}} \ {Purged}

SyncRead(c) ==
  /\ call[c].phase = "syncing"
  /\ \E i \in call[c].touched :
       /\ index' = [index EXCEPT ![i] = {}]
       /\ call' = [call EXCEPT ![c].phase = "indexing", ![c].read = {<<i, QuotesOf(i)>>}]
  /\ UNCHANGED <<meeting, blob, texts, run, ins, mention, brief, others>>

SyncWrite(c) ==
  /\ call[c].phase = "indexing"
  /\ \E e \in call[c].read :
       /\ index' = [index EXCEPT ![e[1]] = @ \cup e[2]]
       /\ call' = [call EXCEPT ![c].phase = "syncing", ![c].read = {},
                               ![c].touched = @ \ {e[1]}]
  /\ UNCHANGED <<meeting, blob, texts, run, ins, mention, brief, others>>

SyncDone(c) ==
  /\ call[c].phase = "syncing"
  /\ call[c].touched = {}
  /\ Done(c)
  /\ UNCHANGED <<rows, others>>

----------------------------------------------------------------------------
(* Insights entered by hand, and the brief *)

\* A quote must be in the latest transcript.  There is no test for a quote that
\* is recorded already.
BeginManual(c) ==
  /\ \E i \in NewInsights : ins[i] = "absent"
  /\ ~meeting.deleted
  /\ texts # <<>>
  /\ \E q \in Last(texts) : Enter(c, "manual", {q})
  /\ UNCHANGED <<rows, others>>

ManualCommit(c) ==
  /\ call[c].op = "manual" /\ call[c].phase = "begun"
  /\ \E i \in NewInsights, q \in call[c].said :
       /\ ins[i] = "absent"
       /\ ins' = [ins EXCEPT ![i] = "open"]
       /\ mention' = mention \cup {[insight |-> i, quote |-> q, by |-> "manual"]}
       /\ call' = [call EXCEPT ![c].phase = "syncing", ![c].said = {}, ![c].touched = {i}]
  /\ UNCHANGED <<meeting, blob, texts, run, index, brief, others>>

\* runMeetingAnalysis looks for a transcript, not at deleted_at.
BeginAnalyze(c) ==
  /\ texts # <<>>
  /\ Enter(c, "analyze", Last(texts))
  /\ UNCHANGED <<rows, others>>

\* The brief may quote fragments of what was said.
AnalyzeCommit(c) ==
  /\ call[c].op = "analyze" /\ call[c].phase = "begun"
  /\ brief' = brief \cup call[c].said
  /\ Done(c)
  /\ UNCHANGED <<meeting, blob, texts, run, ins, mention, index, others>>

\* The model's answer is an error: nothing is written.
AnalyzeFails(c) ==
  /\ call[c].op = "analyze" /\ call[c].phase = "begun"
  /\ Done(c)
  /\ UNCHANGED <<rows, others>>

\* An insight of the client is closed, rejected or merged elsewhere.
InsightLeaves(i) ==
  /\ "leave" \in menu.ops
  /\ ins[i] = "open"
  /\ ins' = [ins EXCEPT ![i] = "gone"]
  /\ UNCHANGED <<meeting, blob, texts, run, mention, index, brief, call, others>>

----------------------------------------------------------------------------
(* The purge *)

OthersAtWork(c) ==
  \E d \in Calls \ {c} : call[d].phase # "idle" /\ call[d].op # "purge"

\* The insights whose index rows will be refreshed are read before the transaction.
BeginPurge(c) ==
  /\ "purge" \in menu.ops
  /\ call[c].phase = "idle"
  /\ ~meeting.deleted
  /\ call' = [call EXCEPT ![c] =
       [Resting EXCEPT !.op = "purge", !.phase = "begun", !.alone = ~OthersAtWork(c),
                       !.touched = {m.insight : m \in mention}]]
  /\ UNCHANGED <<rows, others>>

\* The first UPDATE of the transaction locks the meeting's row.
PurgeMark(c) ==
  /\ call[c].op = "purge" /\ call[c].phase = "begun"
  /\ MeetingRowFree
  /\ Advance(c, "marked")
  /\ UNCHANGED <<rows, others>>

\* A persisting transaction that already references the run and now waits for
\* the meeting's row deadlocks with the purge's DELETE of the run.  Its own abort
\* is ExtractFails; this is the purge being the victim.
PurgeAborted(c) ==
  /\ call[c].op = "purge" /\ call[c].phase = "marked"
  /\ \E d \in Calls : call[d].phase = "persisting" /\ NewReps(d) # {}
  /\ Done(c)
  /\ UNCHANGED <<rows, others>>

\* The rest of the transaction, on the rows committed by now.
PurgeCommit(c) ==
  /\ call[c].op = "purge" /\ call[c].phase = "marked"
  /\ meeting' = [meeting EXCEPT !.deleted = TRUE, !.audio = Purged]
  /\ run' = [r \in Runs |-> IF run[r] = "absent" THEN "absent" ELSE "deleted"]
  /\ texts' = <<>>
  /\ mention' = {[m EXCEPT !.quote = Purged] : m \in mention}
  /\ index' = [i \in Insights |-> IF i \in call[c].touched THEN {} ELSE index[i]]
  /\ raced' = (raced \/ ~call[c].alone)
  /\ Advance(c, "purged")
  /\ UNCHANGED <<blob, ins, brief, daily, crashed, menu>>

\* The file goes after the commit; a failure is logged and the file left behind.
PurgeBlob(c) ==
  /\ call[c].phase = "purged"
  /\ \/ blob' = FALSE
     \/ blob' = blob
  /\ Done(c)
  /\ UNCHANGED <<meeting, texts, run, ins, mention, index, brief, others>>

\* sweepOrphanUploads of the daily job may find the object once no media_assets row
\* points at it; which folders its listing reaches is MeetingIntake's subject.
SweepBlob ==
  /\ blob
  /\ meeting.audio = Purged
  /\ blob' = FALSE
  /\ UNCHANGED <<meeting, texts, run, ins, mention, index, brief, call, others>>

----------------------------------------------------------------------------
\* The process dies: its open transaction is rolled back, what it committed stays.
Crash(c) ==
  /\ Crashes
  /\ call[c].phase # "idle"
  /\ crashed' = (crashed \/ call[c].phase = "calling")
  /\ Done(c)
  /\ UNCHANGED <<rows, daily, raced, menu>>

Begin(c) ==
  \/ BeginTranscribe(c) \/ BeginPaste(c) \/ BeginExtract(c)
  \/ BeginManual(c) \/ BeginAnalyze(c) \/ BeginPurge(c)

Step(c) ==
  \/ StartTranscribing(c) \/ TranscribeCommit(c) \/ TranscribeFails(c)
  \/ PasteCommit(c)
  \/ ReadStale(c) \/ SweepStale(c) \/ CheckRunning(c) \/ CheckDone(c)
  \/ InsertRun(c) \/ InsertRefused(c)
  \/ ReadCandidates(c) \/ MatchCandidates(c) \/ Persist(c) \/ ExtractFails(c)
  \/ SyncRead(c) \/ SyncWrite(c) \/ SyncDone(c)
  \/ ManualCommit(c) \/ AnalyzeCommit(c) \/ AnalyzeFails(c)
  \/ PurgeMark(c) \/ PurgeAborted(c) \/ PurgeCommit(c) \/ PurgeBlob(c)

LifeNext ==
  \/ \E c \in Calls : Begin(c) \/ Step(c) \/ Crash(c)
  \/ \E i \in OldInsights : InsightLeaves(i)
  \/ DailyRead \/ DailyWrite
  \/ SweepBlob

LifeFairness ==
  /\ \A c \in Calls : SF_lifeVars(Step(c))
  /\ WF_lifeVars(DailyRead)
  /\ WF_lifeVars(DailyWrite)

LifeSpec == LifeInit /\ [][LifeNext]_lifeVars /\ LifeFairness

----------------------------------------------------------------------------
(* Properties *)

CallRecord ==
  [op : {"none"} \cup UNION {m.ops : m \in Menus},
   phase : {"idle", "begun", "calling", "sweeping", "swept", "clear", "free", "running",
            "matching", "persisting", "syncing", "indexing", "marked", "purged"},
   run : Runs \cup {"none"}, said : SUBSET Quotes,
   plan : SUBSET [quote : Quotes, rep : Quotes, to : Insights \cup {"new"}],
   touched : SUBSET Insights,
   read : SUBSET (Runs \cup (Insights \X SUBSET Quotes)), alone : BOOLEAN]

\* Types of the rows of retention/service.ts, extract/pipeline.ts and stt/routes.ts.
LifeTypeOK ==
  /\ meeting \in
       [status : {"uploaded", "transcribing", "transcribed", "transcription_failed", "extracted"},
        deleted : BOOLEAN, audio : {"stored", Purged}]
  /\ blob \in BOOLEAN /\ raced \in BOOLEAN /\ crashed \in BOOLEAN
  /\ texts \in Seq(SUBSET Quotes)
  /\ run \in [Runs -> {"absent", "running", "succeeded", "failed", "deleted"}]
  /\ ins \in [Insights -> {"absent", "open", "gone"}]
  /\ mention \subseteq
       [insight : Insights, quote : Quotes \cup {Purged}, by : Runs \cup {"manual"}]
  /\ index \in [Insights -> SUBSET Quotes]
  /\ brief \in SUBSET Quotes
  /\ call \in [Calls -> CallRecord]
  /\ daily \in SUBSET Runs
  /\ menu \in Menus

\* Extracting a meeting again, after a failure, a crash or by force, never records
\* a quote of it a second time, whatever the calls do meanwhile (SPEC.md:68, and
\* the comment at extract/pipeline.ts:36).  It rests on the unique index: a second
\* run starts only when the first can no longer commit.  A purge ends that: it deletes
\* the row of a run at work, which may still attach quotes to older insights while a
\* run on a transcript pasted meanwhile finds them too.
NoQuoteTwice ==
  ~meeting.deleted =>
  \A a, b \in {m \in mention : m.by \in Runs /\ m.quote # Purged} :
    a.quote = b.quote => a = b

\* When no other call was in flight during the purge, nothing of the meeting
\* can be read again: no transcript, no quote, no hit in the search index, and no
\* reference to the recording (retention/service.ts:100-138).
PurgeAloneIsFinal ==
  meeting.deleted /\ ~raced =>
    /\ texts = <<>>
    /\ \A m \in mention : m.quote = Purged
    /\ \A i \in Insights : index[i] = {}
    /\ meeting.audio = Purged

\* A meeting shows "transcribing", and so refuses another attempt, only while a
\* transcription is under way or after one died (stt/routes.ts:81-95,132).
StuckOnlyByCrash ==
  meeting.status = "transcribing" =>
    crashed \/ \E c \in Calls : call[c].phase = "calling"

\* What calls that overlap leave of a meeting: a purge nobody raced is final, and the
\* meeting can be transcribed again unless the process died (retention/service.ts:100,
\* stt/routes.ts:132).
MeetingSettles == PurgeAloneIsFinal /\ StuckOnlyByCrash

\* A run that a crash left running is failed in the end, so the meeting can be
\* extracted again (extract/pipeline.ts:254-287).
RunsEnd == \A r \in Runs : run[r] = "running" ~> run[r] # "running"

\* A purge destroys the transcript, the quotes and what was derived from them
\* (SPEC.md:109).  Refuted: the brief is kept.
PurgeLeavesNothing ==
  meeting.deleted =>
    texts = <<>> /\ brief = {} /\ \A m \in mention : m.quote = Purged
=============================================================================
