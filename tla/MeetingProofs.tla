--------------------------- MODULE MeetingProofs ----------------------------
(*****************************************************************************)
(* Theorems about a meeting and its recording, for every set of calls,       *)
(* uploads, quotes and insights: how it lives and is purged (MeetingLife),   *)
(* how it comes in (MeetingIntake), and how the extension records it         *)
(* (Recorder).  Each part first strengthens what it proves until a step of   *)
(* any actor keeps it.                                                       *)
(*****************************************************************************)
EXTENDS MeetingLife, MeetingIntake, Recorder, NaturalFacts

----------------------------------------------------------------------------
(*****************************************************************************)
(* MeetingLife.  MeetingSettles is about the end of a purge, so the          *)
(* invariant follows a purge from its beginning: one that is still alone has *)
(* only purges beside it and will refresh every insight that has a mention   *)
(* (PurgesAlone), and what is found by a quote has a mention                 *)
(* (IndexMentioned).                                                         *)
(*                                                                           *)
(* NoQuoteTwice needs who wrote what: a run that is persisting has claimed   *)
(* its meeting, and only the run that succeeded has its mentions standing.   *)
(*****************************************************************************)

MeetingFields ==
  [status : {"uploaded", "transcribing", "transcribed", "transcription_failed", "extracted"},
   deleted : BOOLEAN, audio : {"stored", Purged}]
MentionRow == [insight : Insights, quote : Quotes \cup {Purged}, by : Runs \cup {"manual"}]
PlanItem == [quote : Quotes, rep : Quotes, to : Insights \cup {"new"}]
Mentioned == {m.insight : m \in mention}
Working == {"running", "matching", "persisting"}

RowsShape ==
  /\ meeting \in MeetingFields
  /\ blob \in BOOLEAN /\ raced \in BOOLEAN /\ crashed \in BOOLEAN
  /\ texts \in Seq(SUBSET Quotes)
  /\ run \in [Runs -> {"absent", "running", "succeeded", "failed", "deleted"}]
  /\ ins \in [Insights -> {"absent", "open", "gone"}]
  /\ mention \subseteq MentionRow
  /\ index \in [Insights -> SUBSET Quotes]
  /\ brief \in SUBSET Quotes
  /\ daily \in SUBSET Runs
  /\ menu \in Menus

\* What the record of a call holds in each of its phases.
FitsPhase(q) ==
  /\ q.phase = "idle" => q.op = "none"
  /\ q.phase # "idle" => q.op # "none"
  /\ q.op = "purge" => q.phase \in {"begun", "marked", "purged"}
  /\ q.phase \in {"marked", "purged"} => q.op = "purge"
  /\ q.phase \in Working => q.run \in Runs
  /\ q.phase = "sweeping" => q.read \subseteq Runs
  /\ q.phase = "indexing" => q.read \subseteq Insights \X SUBSET Quotes

CallsFit ==
  /\ call \in [Calls -> CallRecord]
  /\ \A c \in Calls : FitsPhase(call[c])

\* Only insights with a mention are found by a quote, or about to be.
IndexMentioned ==
  /\ \A i \in Insights : index[i] # {} => i \in Mentioned
  /\ \A c \in Calls : call[c].phase = "indexing" =>
       \A e \in call[c].read : e[2] # {} => e[1] \in Mentioned

\* A purge that is still alone has only purges beside it, and will refresh every
\* insight that has a mention.
PurgesAlone ==
  \A c \in Calls :
    call[c].op = "purge" /\ call[c].phase \in {"begun", "marked"} /\ call[c].alone =>
      /\ \A d \in Calls \ {c} : call[d].phase = "idle" \/ call[d].op = "purge"
      /\ Mentioned \subseteq call[c].touched

\* After such a purge nothing is left, and only purges can still run.
PurgedForGood ==
  meeting.deleted /\ ~raced =>
    /\ texts = <<>>
    /\ \A m \in mention : m.quote = Purged
    /\ \A i \in Insights : index[i] = {}
    /\ meeting.audio = Purged
    /\ \A d \in Calls : call[d].phase = "idle" \/ call[d].op = "purge"

LifeInv ==
  RowsShape /\ CallsFit /\ IndexMentioned /\ PurgesAlone /\ PurgedForGood /\ StuckOnlyByCrash

----------------------------------------------------------------------------
\* The fields of a call's record, each with a name.
Ops == {"none"} \cup UNION {m.ops : m \in Menus}
CallPhases == {"idle", "begun", "calling", "sweeping", "swept", "clear", "free", "running",
           "matching", "persisting", "syncing", "indexing", "marked", "purged"}
RunIds == Runs \cup {"none"}
Plans == SUBSET PlanItem
ReadSet == SUBSET (Runs \cup (Insights \X SUBSET Quotes))

\* The fields of a call's record.
LEMMA CallFields ==
  CallRecord = [op : Ops, phase : CallPhases, run : RunIds, said : SUBSET Quotes, plan : Plans,
                touched : SUBSET Insights, read : ReadSet, alone : BOOLEAN]
BY DEF CallRecord, Ops, CallPhases, RunIds, Plans, PlanItem, ReadSet

\* The record of a call that is not there.
LEMMA RestingFits ==
  /\ Resting \in CallRecord /\ FitsPhase(Resting) /\ Resting.phase = "idle" /\ Resting.op = "none"
  /\ Resting.run = "none" /\ Resting.read = {} /\ Resting.plan = {} /\ Resting.said = {}
  /\ Resting.touched = {} /\ Resting.alone = TRUE
<1>1. Resting \in CallRecord
  BY DEF Resting, CallRecord
<1> QED
  BY <1>1 DEF Resting, FitsPhase, Working

\* A meeting that has just come in is not purged, and nothing is found by a quote.
LEMMA LifeStart == LifeInit => LifeInv
<1> SUFFICES ASSUME LifeInit PROVE LifeInv
  OBVIOUS
<1>1. /\ menu \in Menus /\ menu.texts \subseteq SUBSET Quotes /\ blob = TRUE /\ mention = {}
      /\ brief = {} /\ daily = {} /\ raced = FALSE /\ crashed = FALSE
      /\ run \in [Runs -> {"absent", "running", "succeeded", "failed", "deleted"}]
      /\ ins \in [Insights -> {"absent", "open", "gone"}]
      /\ index = [i \in Insights |-> {}]
      /\ call = [c \in Calls |-> Resting]
      /\ meeting = [status |-> IF texts = <<>> THEN "uploaded" ELSE "transcribed",
                    deleted |-> FALSE, audio |-> "stored"]
      /\ texts \in {<<>>} \cup {<<t>> : t \in menu.texts}
  BY MenusAssumption DEF LifeInit
<1>2. texts \in Seq(SUBSET Quotes)
  <2>1. \A t \in SUBSET Quotes : <<t>> \in Seq(SUBSET Quotes)
    OBVIOUS
  <2>2. <<>> \in Seq(SUBSET Quotes)
    OBVIOUS
  <2> QED
    BY <1>1, <2>1, <2>2
<1>3. meeting \in MeetingFields /\ meeting.deleted = FALSE /\ meeting.status # "transcribing"
  BY <1>1 DEF MeetingFields
<1>4. RowsShape
  BY <1>1, <1>2, <1>3 DEF RowsShape
<1>5. CallsFit
  BY <1>1, RestingFits DEF CallsFit
<1>6. IndexMentioned /\ PurgesAlone
  BY <1>1, RestingFits DEF IndexMentioned, PurgesAlone
<1> QED
  BY <1>3, <1>4, <1>5, <1>6 DEF LifeInv, PurgedForGood, StuckOnlyByCrash

----------------------------------------------------------------------------
\* A step of a call that is not a purge: there is no purge alone beside it, before
\* or after, so only the rows and the call's own record need a look.
LEMMA WorkKeeps ==
  ASSUME LifeInv, NEW c \in Calls, call[c].phase # "idle", call[c].op # "purge",
         NEW q \in CallRecord, FitsPhase(q), call' = [call EXCEPT ![c] = q],
         q.op = call[c].op \/ q.phase = "idle",
         RowsShape', raced' = raced,
         meeting'.deleted = meeting.deleted,
         Mentioned \subseteq Mentioned',
         \A i \in Insights : index'[i] # {} => i \in Mentioned',
         q.phase = "indexing" => \A e \in q.read : e[2] # {} => e[1] \in Mentioned',
         call[c].phase = "calling" => meeting'.status # "transcribing" \/ crashed',
         crashed => crashed',
         meeting'.status = "transcribing" => meeting.status = "transcribing" \/ q.phase = "calling"
  PROVE  LifeInv'
<1>1. /\ call' \in [Calls -> CallRecord] /\ call'[c] = q
      /\ \A d \in Calls : d # c => call'[d] = call[d]
  BY DEF LifeInv, CallsFit
<1>2. CallsFit'
  BY <1>1 DEF LifeInv, CallsFit
<1>3. IndexMentioned'
  BY <1>1 DEF LifeInv, IndexMentioned
<1>4. \A d \in Calls : d # c => ~(call[d].op = "purge" /\ call[d].phase \in {"begun", "marked"} /\ call[d].alone)
  BY DEF LifeInv, PurgesAlone
<1>5. PurgesAlone'
  <2>1. ~(q.op = "purge" /\ q.phase \in {"begun", "marked"})
    BY DEF FitsPhase
  <2> QED
    BY <1>1, <1>4, <2>1 DEF PurgesAlone
<1>6. PurgedForGood'
  BY DEF LifeInv, PurgedForGood
<1>7. StuckOnlyByCrash'
  BY <1>1 DEF LifeInv, StuckOnlyByCrash
<1> QED
  BY <1>2, <1>3, <1>5, <1>6, <1>7 DEF LifeInv

\* A request other than a purge comes in: no purge is alone any more.
LEMMA EnterKeeps ==
  ASSUME LifeInv, NEW c \in Calls, NEW op, op \notin {"none", "purge"},
         NEW said \in SUBSET Quotes, Enter(c, op, said), UNCHANGED <<rows, others>>,
         ~meeting.deleted \/ texts # <<>>
  PROVE  LifeInv'
<1> DEFINE q == [Resting EXCEPT !.op = op, !.phase = "begun", !.said = said]
<1>1. op \in {"none"} \cup UNION {m.ops : m \in Menus}
  BY DEF Enter, LifeInv, RowsShape
<1>2. /\ q \in CallRecord /\ q.op = op /\ q.phase = "begun" /\ q.read = {}
  BY <1>1, RestingFits, CallFields DEF Ops, CallPhases, Resting
<1>3. FitsPhase(q)
  BY <1>2 DEF FitsPhase, Working
<1>4. /\ call \in [Calls -> CallRecord] /\ call[c].phase = "idle"
      /\ call' = [d \in Calls |-> IF d = c THEN q ELSE [call[d] EXCEPT !.alone = FALSE]]
  BY DEF Enter, LifeInv, CallsFit
<1> HIDE DEF q
<1>5. \A d \in Calls : d # c =>
        /\ call'[d] \in CallRecord /\ call'[d].phase = call[d].phase /\ call'[d].op = call[d].op
        /\ call'[d].run = call[d].run /\ call'[d].read = call[d].read /\ call'[d].alone = FALSE
  BY <1>4, CallFields
<1>6. CallsFit'
  <2>1. \A d \in Calls : call'[d] \in CallRecord
    BY <1>2, <1>4, <1>5
  <2>2. call' \in [Calls -> CallRecord]
    BY <1>4, <2>1
  <2>3. \A d \in Calls : FitsPhase(call'[d])
    <3> SUFFICES ASSUME NEW d \in Calls, d # c PROVE FitsPhase(call'[d])
      BY <1>3, <1>4
    <3> QED
      BY <1>5 DEF FitsPhase, LifeInv, CallsFit
  <2> QED
    BY <2>2, <2>3 DEF CallsFit
<1>7. RowsShape' /\ Mentioned' = Mentioned
  BY DEF LifeInv, RowsShape, rows, others, Mentioned
<1>8. IndexMentioned'
  BY <1>2, <1>4, <1>5, <1>7 DEF LifeInv, IndexMentioned, rows
<1>9. PurgesAlone'
  BY <1>2, <1>4, <1>5 DEF PurgesAlone
<1>10. PurgedForGood'
  BY DEF LifeInv, PurgedForGood, rows, others
<1>11. StuckOnlyByCrash'
  BY <1>4, <1>5 DEF LifeInv, StuckOnlyByCrash, rows, others
<1> QED
  BY <1>6, <1>7, <1>8, <1>9, <1>10, <1>11 DEF LifeInv

----------------------------------------------------------------------------
\* A call goes on without touching more than the runs.
LEMMA MoveKeeps ==
  ASSUME LifeInv, NEW c \in Calls, call[c].phase # "idle", call[c].op # "purge",
         NEW q \in CallRecord, FitsPhase(q), call' = [call EXCEPT ![c] = q],
         q.op = call[c].op \/ q.phase = "idle", call[c].phase # "calling", q.phase # "indexing",
         run' \in [Runs -> {"absent", "running", "succeeded", "failed", "deleted"}],
         UNCHANGED <<meeting, blob, texts, ins, mention, index, brief, others>>
  PROVE  LifeInv'
<1>1. RowsShape' /\ Mentioned' = Mentioned
  BY DEF LifeInv, RowsShape, others, Mentioned
<1>2. /\ raced' = raced /\ crashed' = crashed /\ meeting' = meeting
      /\ \A i \in Insights : index'[i] # {} => i \in Mentioned'
  BY <1>1 DEF LifeInv, IndexMentioned, others
<1> QED
  BY <1>1, <1>2, WorkKeeps

\* The phases of a call that is not a purge, and what its record holds there.
LEMMA AtWork ==
  ASSUME LifeInv, NEW c \in Calls
  PROVE  /\ call[c] \in CallRecord /\ FitsPhase(call[c]) /\ call \in [Calls -> CallRecord]
         /\ call[c].said \in SUBSET Quotes /\ call[c].plan \in SUBSET PlanItem
         /\ call[c].touched \in SUBSET Insights /\ call[c].run \in RunIds
         /\ call[c].phase \notin {"idle", "begun", "marked", "purged"} =>
              call[c].op # "purge" /\ call[c].op # "none"
<1>1. call[c] \in CallRecord /\ FitsPhase(call[c]) /\ call \in [Calls -> CallRecord]
  BY DEF LifeInv, CallsFit
<1>2. /\ call[c].said \in SUBSET Quotes /\ call[c].plan \in SUBSET PlanItem
      /\ call[c].touched \in SUBSET Insights /\ call[c].run \in RunIds
  BY <1>1, CallFields DEF Plans
<1> QED
  BY <1>1, <1>2 DEF FitsPhase

\* The matching passes leave a plan with one item at most for each quote they were given.
LEMMA MatchingPlans ==
  ASSUME LifeInv, NEW c \in Calls, MatchCandidates(c)
  PROVE  \E plan \in Plans :
           /\ call' = [call EXCEPT ![c].phase = "persisting", ![c].said = {}, ![c].plan = plan]
           /\ \A a \in plan : a.quote \in call[c].said
           /\ \A a, b \in plan : a.quote = b.quote => a = b
<1> USE AtWork
<1>1. \E reps \in SUBSET call[c].said :
      \E cluster \in [call[c].said -> reps] :
      \E known \in [reps -> {i \in Insights : ins[i] = "open"} \cup {"new"}] :
        /\ \A x \in reps : cluster[x] = x
        /\ call' = [call EXCEPT ![c].phase = "persisting", ![c].said = {},
              ![c].plan = {[quote |-> x, rep |-> cluster[x], to |-> known[cluster[x]]] :
                            x \in {y \in call[c].said :
                                     known[cluster[y]] = "new" \/ cluster[y] = y}}]
  BY Zenon DEF MatchCandidates
<1>2. PICK reps \in SUBSET call[c].said :
      \E cluster \in [call[c].said -> reps] :
      \E known \in [reps -> {i \in Insights : ins[i] = "open"} \cup {"new"}] :
        /\ \A x \in reps : cluster[x] = x
        /\ call' = [call EXCEPT ![c].phase = "persisting", ![c].said = {},
              ![c].plan = {[quote |-> x, rep |-> cluster[x], to |-> known[cluster[x]]] :
                            x \in {y \in call[c].said :
                                     known[cluster[y]] = "new" \/ cluster[y] = y}}]
  BY <1>1, Zenon
<1>3. PICK cluster \in [call[c].said -> reps] :
      \E known \in [reps -> {i \in Insights : ins[i] = "open"} \cup {"new"}] :
        /\ \A x \in reps : cluster[x] = x
        /\ call' = [call EXCEPT ![c].phase = "persisting", ![c].said = {},
              ![c].plan = {[quote |-> x, rep |-> cluster[x], to |-> known[cluster[x]]] :
                            x \in {y \in call[c].said :
                                     known[cluster[y]] = "new" \/ cluster[y] = y}}]
  BY <1>2, Zenon
<1>4. PICK known \in [reps -> {i \in Insights : ins[i] = "open"} \cup {"new"}] :
        /\ \A x \in reps : cluster[x] = x
        /\ call' = [call EXCEPT ![c].phase = "persisting", ![c].said = {},
              ![c].plan = {[quote |-> x, rep |-> cluster[x], to |-> known[cluster[x]]] :
                            x \in {y \in call[c].said :
                                     known[cluster[y]] = "new" \/ cluster[y] = y}}]
  BY <1>3, Zenon
<1> DEFINE item(x) == [quote |-> x, rep |-> cluster[x], to |-> known[cluster[x]]]
           plan == {item(x) : x \in {y \in call[c].said : known[cluster[y]] = "new" \/ cluster[y] = y}}
<1>5. \A x \in call[c].said : /\ x \in Quotes /\ cluster[x] \in Quotes
                              /\ known[cluster[x]] \in Insights \cup {"new"}
  OBVIOUS
<1>6. \A x \in call[c].said : item(x) \in PlanItem /\ item(x).quote = x
  BY <1>5 DEF PlanItem
<1>7. plan \in Plans
  BY <1>6 DEF Plans
<1> HIDE DEF item
<1>8. \A a \in plan : a.quote \in call[c].said /\ a = item(a.quote)
  BY <1>6
<1>9. \A a, b \in plan : a.quote = b.quote => a = b
  BY <1>8
<1>10. call' = [call EXCEPT ![c].phase = "persisting", ![c].said = {}, ![c].plan = plan]
  BY <1>4 DEF item
<1> HIDE DEF plan
<1> QED
  BY <1>7, <1>8, <1>9, <1>10

\* The persisting transaction adds one mention for each item of the plan.
LEMMA PersistAdds ==
  ASSUME LifeInv, NEW c \in Calls, Persist(c)
  PROVE  \E added \in SUBSET MentionRow :
           /\ mention' = mention \cup added
           /\ ins' \in [Insights -> {"absent", "open", "gone"}]
           /\ call' = [call EXCEPT ![c].phase = "syncing", ![c].plan = {},
                                   ![c].touched = {m.insight : m \in added}]
           /\ \A m \in added : m.by = call[c].run /\ \E p \in call[c].plan : m.quote = p.quote
           /\ (\A a, b \in call[c].plan : a.quote = b.quote => a = b) =>
                \A a, b \in added : a.quote = b.quote => a = b
<1> USE AtWork
<1>1. call[c].run \in Runs /\ call[c].phase = "persisting"
  BY DEF Persist, FitsPhase, Working
<1>2. PICK row \in [NewReps(c) -> {i \in NewInsights : ins[i] = "absent"}] :
        LET target(p) == IF p.to = "new" THEN row[p.rep] ELSE p.to
            added == {[insight |-> target(p), quote |-> p.quote, by |-> call[c].run] :
                       p \in call[c].plan}
        IN /\ \A p, q \in NewReps(c) : row[p] = row[q] => p = q
           /\ ins' = [i \in Insights |->
                        IF \E p \in NewReps(c) : row[p] = i THEN "open" ELSE ins[i]]
           /\ mention' = mention \cup added
           /\ call' = [call EXCEPT ![c].phase = "syncing", ![c].plan = {},
                                   ![c].touched = {m.insight : m \in added}]
  BY Zenon DEF Persist
<1> DEFINE target(p) == IF p.to = "new" THEN row[p.rep] ELSE p.to
           item(p) == [insight |-> target(p), quote |-> p.quote, by |-> call[c].run]
           added == {item(p) : p \in call[c].plan}
<1>3. \A p \in call[c].plan : target(p) \in Insights
  <2>1. \A p \in call[c].plan : p.to \in Insights \cup {"new"}
    BY DEF PlanItem
  <2>2. \A p \in call[c].plan : p.to = "new" => p.rep \in NewReps(c)
    BY DEF NewReps
  <2>3. \A x \in NewReps(c) : row[x] \in NewInsights
    OBVIOUS
  <2> QED
    BY <2>1, <2>2, <2>3 DEF Insights
<1> HIDE DEF target
<1>4. \A p \in call[c].plan : item(p) \in MentionRow /\ item(p).quote = p.quote /\ item(p).by = call[c].run
  <2>1. \A p \in call[c].plan : p.quote \in Quotes
    BY DEF PlanItem
  <2> QED
    BY <1>1, <1>3, <2>1 DEF MentionRow
<1>5. /\ mention' = mention \cup added
      /\ call' = [call EXCEPT ![c].phase = "syncing", ![c].plan = {},
                              ![c].touched = {m.insight : m \in added}]
  BY <1>2, Zenon DEF target
<1>6. ins' \in [Insights -> {"absent", "open", "gone"}]
  <2>1. ins' = [i \in Insights |-> IF \E p \in NewReps(c) : row[p] = i THEN "open" ELSE ins[i]]
    BY <1>2, Zenon
  <2> QED
    BY <2>1 DEF LifeInv, RowsShape
<1> HIDE DEF item
<1>7. \A m \in added : m.by = call[c].run /\ \E p \in call[c].plan : m = item(p) /\ m.quote = p.quote
  BY <1>4
<1>8. (\A a, b \in call[c].plan : a.quote = b.quote => a = b) =>
         \A a, b \in added : a.quote = b.quote => a = b
  BY <1>7
<1>9. added \in SUBSET MentionRow
  BY <1>4
<1>10. \A m \in added : m.by = call[c].run /\ \E p \in call[c].plan : m.quote = p.quote
  BY <1>7
<1> HIDE DEF added
<1> WITNESS added \in SUBSET MentionRow
<1> QED
  BY <1>5, <1>6, <1>8, <1>10, Zenon

\* The steps of an extraction that write no mention.
LEMMA ExtractStepsKeep ==
  ASSUME LifeInv, NEW c \in Calls,
         \/ ReadStale(c) \/ SweepStale(c) \/ CheckRunning(c) \/ CheckDone(c)
         \/ InsertRun(c) \/ InsertRefused(c) \/ ReadCandidates(c) \/ MatchCandidates(c)
         \/ ExtractFails(c) \/ SyncDone(c) \/ AnalyzeFails(c)
  PROVE  LifeInv'
<1> USE AtWork
<1>0. /\ run \in [Runs -> {"absent", "running", "succeeded", "failed", "deleted"}]
      /\ menu \in Menus /\ daily \in SUBSET Runs
  BY DEF LifeInv, RowsShape
<1>1. ASSUME call[c].phase # "idle", call[c].op # "purge", call[c].phase # "calling", Done(c),
             run' \in [Runs -> {"absent", "running", "succeeded", "failed", "deleted"}],
             UNCHANGED <<meeting, blob, texts, ins, mention, index, brief, others>>
      PROVE  LifeInv'
  BY <1>1, RestingFits, MoveKeeps DEF Done
<1>2. ASSUME NEW q \in CallRecord, call' = [call EXCEPT ![c] = q], q.op = call[c].op,
             call[c].phase # "idle", call[c].op # "purge", call[c].phase # "calling",
             q.phase \in {"sweeping", "swept", "clear", "free", "running", "matching", "persisting"},
             q.phase \in Working => q.run \in Runs, q.phase = "sweeping" => q.read \subseteq Runs,
             run' \in [Runs -> {"absent", "running", "succeeded", "failed", "deleted"}],
             UNCHANGED <<meeting, blob, texts, ins, mention, index, brief, others>>
      PROVE  LifeInv'
  <2>1. FitsPhase(q)
    BY <1>2 DEF FitsPhase
  <2> QED
    BY <1>2, <2>1, MoveKeeps
<1>3. CASE ReadStale(c)
  <2> DEFINE q == [call[c] EXCEPT !.phase = "sweeping", !.read = Stale]
  <2>1. Stale \in ReadSet /\ Stale \subseteq Runs
    BY DEF Stale, ReadSet
  <2>2. q \in CallRecord /\ q.op = call[c].op /\ q.phase = "sweeping" /\ q.read = Stale
    BY <2>1, CallFields DEF CallPhases
  <2>3. /\ call' = [call EXCEPT ![c] = q] /\ call[c].op = "extract" /\ call[c].phase = "begun"
        /\ UNCHANGED <<rows, others>>
    BY <1>3 DEF ReadStale
  <2> HIDE DEF q
  <2> QED
    BY <1>0, <1>2, <2>1, <2>2, <2>3 DEF rows, Working
<1>4. CASE SweepStale(c)
  <2> DEFINE q == [call[c] EXCEPT !.phase = "swept", !.read = {}]
  <2>1. {} \in ReadSet
    BY DEF ReadSet
  <2>2. q \in CallRecord /\ q.op = call[c].op /\ q.phase = "swept"
    BY <2>1, CallFields DEF CallPhases
  <2>3. run' \in [Runs -> {"absent", "running", "succeeded", "failed", "deleted"}]
    BY <1>0, <1>4 DEF SweepStale, FailStale
  <2>4. /\ call' = [call EXCEPT ![c] = q] /\ call[c].phase = "sweeping"
        /\ UNCHANGED <<meeting, blob, texts, ins, mention, index, brief, others>>
    BY <1>4 DEF SweepStale
  <2> HIDE DEF q
  <2> QED
    BY <1>2, <2>2, <2>3, <2>4 DEF Working
<1>5. ASSUME NEW p \in {"clear", "free"}, Advance(c, p), UNCHANGED <<rows, others>>,
             call[c].phase \in {"swept", "clear"}
      PROVE  LifeInv'
  <2> DEFINE q == [call[c] EXCEPT !.phase = p]
  <2>1. q \in CallRecord /\ q.op = call[c].op /\ q.phase = p
    BY CallFields DEF CallPhases
  <2>2. call' = [call EXCEPT ![c] = q]
    BY <1>5 DEF Advance
  <2> HIDE DEF q
  <2> QED
    BY <1>0, <1>2, <1>5, <2>1, <2>2 DEF rows, Working
<1>6. CASE CheckRunning(c) \/ CheckDone(c)
  BY <1>0, <1>1, <1>5, <1>6 DEF CheckRunning, CheckDone, rows
<1>7. CASE InsertRefused(c) \/ SyncDone(c) \/ AnalyzeFails(c)
  BY <1>0, <1>1, <1>7 DEF InsertRefused, SyncDone, AnalyzeFails, rows
<1>8. CASE InsertRun(c)
  <2>1. PICK r \in Runs : /\ run' = [run EXCEPT ![r] = "running"]
                          /\ call' = [call EXCEPT ![c].phase = "running", ![c].run = r]
    BY <1>8 DEF InsertRun
  <2> DEFINE q == [call[c] EXCEPT !.phase = "running", !.run = r]
  <2>2. q \in CallRecord /\ q.op = call[c].op /\ q.phase = "running" /\ q.run = r
    BY CallFields DEF CallPhases, RunIds
  <2>3. call' = [call EXCEPT ![c] = q] /\ call[c].phase = "free"
    BY <1>8, <2>1 DEF InsertRun
  <2>4. run' \in [Runs -> {"absent", "running", "succeeded", "failed", "deleted"}]
    BY <1>0, <2>1
  <2>5. UNCHANGED <<meeting, blob, texts, ins, mention, index, brief, others>>
    BY <1>8 DEF InsertRun
  <2> HIDE DEF q
  <2> QED
    BY <1>2, <2>2, <2>3, <2>4, <2>5
<1>9. CASE ReadCandidates(c)
  <2>1. PICK found \in SUBSET call[c].said :
          call' = [call EXCEPT ![c].phase = "matching", ![c].said = found \ Recorded]
    BY <1>9 DEF ReadCandidates
  <2> DEFINE q == [call[c] EXCEPT !.phase = "matching", !.said = found \ Recorded]
  <2>2. found \ Recorded \in SUBSET Quotes
    OBVIOUS
  <2>3. q \in CallRecord /\ q.op = call[c].op /\ q.phase = "matching" /\ q.run = call[c].run
    BY <2>2, CallFields DEF CallPhases
  <2>4. /\ call' = [call EXCEPT ![c] = q] /\ call[c].phase = "running" /\ call[c].run \in Runs
        /\ UNCHANGED <<rows, others>>
    BY <1>9, <2>1 DEF ReadCandidates, FitsPhase, Working
  <2> HIDE DEF q
  <2> QED
    BY <1>0, <1>2, <2>3, <2>4 DEF rows
<1>10. CASE MatchCandidates(c)
  <2>1. PICK plan \in Plans :
          call' = [call EXCEPT ![c].phase = "persisting", ![c].said = {}, ![c].plan = plan]
    BY <1>10, MatchingPlans
  <2> DEFINE q == [call[c] EXCEPT !.phase = "persisting", !.said = {}, !.plan = plan]
  <2>2. call' = [call EXCEPT ![c] = q]
    BY <2>1
  <2>3. q \in CallRecord /\ q.op = call[c].op /\ q.phase = "persisting" /\ q.run = call[c].run
    BY CallFields DEF CallPhases
  <2>4. /\ call[c].phase = "matching" /\ call[c].run \in Runs
        /\ UNCHANGED <<rows, others>>
    BY <1>10 DEF MatchCandidates, FitsPhase, Working
  <2> HIDE DEF q
  <2> QED
    BY <1>0, <1>2, <2>2, <2>3, <2>4 DEF rows
<1>11. CASE ExtractFails(c)
  <2>1. run' \in [Runs -> {"absent", "running", "succeeded", "failed", "deleted"}]
    BY <1>0, <1>11 DEF ExtractFails
  <2> QED
    BY <1>1, <1>11, <2>1 DEF ExtractFails
<1> QED
  BY <1>3, <1>4, <1>6, <1>7, <1>8, <1>9, <1>10, <1>11

\* What an extraction commits: every insight it refreshes later has a mention.
LEMMA PersistKeeps ==
  ASSUME LifeInv, NEW c \in Calls, Persist(c) PROVE LifeInv'
<1> USE AtWork
<1>1. PICK added \in SUBSET MentionRow :
        /\ mention' = mention \cup added
        /\ ins' \in [Insights -> {"absent", "open", "gone"}]
        /\ call' = [call EXCEPT ![c].phase = "syncing", ![c].plan = {},
                                ![c].touched = {m.insight : m \in added}]
  BY PersistAdds
<1> DEFINE touched == {m.insight : m \in added}
           q == [call[c] EXCEPT !.phase = "syncing", !.plan = {}, !.touched = touched]
<1>2. touched \in SUBSET Insights /\ {} \in Plans
  BY DEF MentionRow, Plans
<1>3. call' = [call EXCEPT ![c] = q]
  BY <1>1, Zenon
<1> HIDE DEF touched
<1>4. q \in CallRecord /\ q.op = call[c].op /\ q.phase = "syncing"
  BY <1>2, CallFields DEF CallPhases
<1> HIDE DEF q
<1>5. FitsPhase(q) /\ call[c].phase = "persisting"
  BY <1>4 DEF FitsPhase, Working, Persist
<1>6. /\ run' = [run EXCEPT ![call[c].run] = IF @ = "deleted" THEN @ ELSE "succeeded"]
      /\ meeting' = [meeting EXCEPT !.status = "extracted"]
      /\ UNCHANGED <<blob, texts, index, brief, others>>
  BY DEF Persist
<1>7. /\ meeting' \in MeetingFields /\ meeting'.deleted = meeting.deleted
      /\ meeting'.status = "extracted"
  BY <1>6 DEF LifeInv, RowsShape, MeetingFields
<1>8. run' \in [Runs -> {"absent", "running", "succeeded", "failed", "deleted"}]
  BY <1>6 DEF LifeInv, RowsShape
<1>9. mention' \subseteq MentionRow /\ Mentioned \subseteq Mentioned'
  BY <1>1 DEF LifeInv, RowsShape, Mentioned
<1>10. RowsShape'
  BY <1>1, <1>6, <1>7, <1>8, <1>9 DEF LifeInv, RowsShape, others
<1>11. /\ raced' = raced /\ crashed' = crashed
       /\ \A i \in Insights : index'[i] # {} => i \in Mentioned'
  BY <1>6, <1>9 DEF LifeInv, IndexMentioned, others
<1> QED
  BY <1>3, <1>4, <1>5, <1>7, <1>9, <1>10, <1>11, WorkKeeps

\* The other calls that write: a transcription, a paste, a hand-made insight, the brief,
\* and the refresh of the index.
LEMMA WritesKeep ==
  ASSUME LifeInv, NEW c \in Calls,
         \/ StartTranscribing(c) \/ TranscribeCommit(c) \/ TranscribeFails(c) \/ PasteCommit(c)
         \/ ManualCommit(c) \/ AnalyzeCommit(c) \/ SyncRead(c) \/ SyncWrite(c)
  PROVE  LifeInv'
<1> USE AtWork
<1>1. /\ RowsShape /\ meeting \in MeetingFields /\ texts \in Seq(SUBSET Quotes)
      /\ menu.texts \subseteq SUBSET Quotes /\ index \in [Insights -> SUBSET Quotes]
      /\ mention \subseteq MentionRow /\ {} \in ReadSet
      /\ \A i \in Insights : index[i] # {} => i \in Mentioned
  BY MenusAssumption DEF LifeInv, RowsShape, IndexMentioned, ReadSet
<1>2. ASSUME NEW status \in {"transcribing", "transcribed", "transcription_failed"},
             meeting' = [meeting EXCEPT !.status = status]
      PROVE  /\ meeting' \in MeetingFields /\ meeting'.deleted = meeting.deleted
             /\ meeting'.status = status
  BY <1>1, <1>2 DEF MeetingFields
<1>3. CASE StartTranscribing(c)
  <2> DEFINE q == [call[c] EXCEPT !.phase = "calling"]
  <2>1. q \in CallRecord /\ q.op = call[c].op /\ q.phase = "calling"
    BY CallFields DEF CallPhases
  <2>2. /\ call' = [call EXCEPT ![c] = q] /\ call[c].op = "transcribe" /\ call[c].phase = "begun"
        /\ meeting' = [meeting EXCEPT !.status = "transcribing"]
        /\ UNCHANGED <<blob, texts, run, ins, mention, index, brief, others>>
    BY <1>3 DEF StartTranscribing, Advance
  <2> HIDE DEF q
  <2>3. FitsPhase(q)
    BY <2>1, <2>2 DEF FitsPhase, Working
  <2>4. meeting' \in MeetingFields /\ meeting'.deleted = meeting.deleted
    BY <1>2, <2>2
  <2>5. RowsShape' /\ Mentioned' = Mentioned
    BY <1>1, <2>2, <2>4 DEF RowsShape, others, Mentioned
  <2>6. raced' = raced /\ crashed' = crashed /\ index' = index
    BY <2>2 DEF others
  <2> QED
    BY <1>1, <2>1, <2>2, <2>3, <2>4, <2>5, <2>6, WorkKeeps
<1>4. CASE TranscribeCommit(c) \/ TranscribeFails(c) \/ PasteCommit(c)
  <2>1. PICK status \in {"transcribed", "transcription_failed"} :
          meeting' = [meeting EXCEPT !.status = status] \/ (meeting' = meeting /\ PasteCommit(c))
    BY <1>4 DEF TranscribeCommit, TranscribeFails, PasteCommit
  <2>2. /\ meeting' \in MeetingFields /\ meeting'.deleted = meeting.deleted
        /\ meeting'.status # "transcribing" \/ PasteCommit(c)
        /\ meeting'.status = "transcribing" => meeting.status = "transcribing"
    BY <1>1, <1>2, <2>1
  <2>3. /\ call[c].phase \in {"begun", "calling"} /\ call[c].op # "purge"
        /\ PasteCommit(c) => call[c].phase = "begun"
        /\ call' = [call EXCEPT ![c] = Resting]
        /\ UNCHANGED <<blob, run, ins, mention, index, brief, others>>
    BY <1>4 DEF TranscribeCommit, TranscribeFails, PasteCommit, Done
  <2>4. texts' \in Seq(SUBSET Quotes)
    <3>1. texts' = texts \/ \E said \in menu.texts : texts' = Append(texts, said)
      BY <1>4 DEF TranscribeCommit, TranscribeFails, PasteCommit
    <3>2. \A said \in SUBSET Quotes : Append(texts, said) \in Seq(SUBSET Quotes)
      BY <1>1
    <3> QED
      BY <1>1, <3>1, <3>2
  <2>5. RowsShape' /\ Mentioned' = Mentioned
    BY <1>1, <2>2, <2>3, <2>4 DEF RowsShape, others, Mentioned
  <2>6. raced' = raced /\ crashed' = crashed /\ index' = index
    BY <2>3 DEF others
  <2> QED
    BY <1>1, <2>2, <2>3, <2>5, <2>6, RestingFits, WorkKeeps
<1>5. CASE AnalyzeCommit(c)
  <2>1. /\ call' = [call EXCEPT ![c] = Resting] /\ brief' = brief \cup call[c].said
        /\ UNCHANGED <<meeting, blob, texts, run, ins, mention, index, others>>
        /\ call[c].op = "analyze" /\ call[c].phase = "begun"
    BY <1>5 DEF AnalyzeCommit, Done
  <2>2. RowsShape' /\ Mentioned' = Mentioned
    BY <1>1, <2>1 DEF RowsShape, others, Mentioned
  <2>3. raced' = raced /\ crashed' = crashed /\ index' = index
    BY <2>1 DEF others
  <2> QED
    BY <1>1, <2>1, <2>2, <2>3, RestingFits, WorkKeeps
<1>6. CASE ManualCommit(c)
  <2>1. PICK i \in NewInsights, x \in call[c].said :
          /\ ins' = [ins EXCEPT ![i] = "open"]
          /\ mention' = mention \cup {[insight |-> i, quote |-> x, by |-> "manual"]}
          /\ call' = [call EXCEPT ![c].phase = "syncing", ![c].said = {}, ![c].touched = {i}]
    BY <1>6 DEF ManualCommit
  <2> DEFINE q == [call[c] EXCEPT !.phase = "syncing", !.said = {}, !.touched = {i}]
             new == [insight |-> i, quote |-> x, by |-> "manual"]
  <2>2. i \in Insights /\ x \in Quotes /\ {i} \in SUBSET Insights
    BY DEF Insights
  <2>3. q \in CallRecord /\ q.op = call[c].op /\ q.phase = "syncing"
    BY <2>2, CallFields DEF CallPhases
  <2>4. new \in MentionRow
    BY <2>2 DEF MentionRow
  <2>5. /\ call' = [call EXCEPT ![c] = q] /\ mention' = mention \cup {new}
        /\ call[c].op = "manual" /\ call[c].phase = "begun"
        /\ UNCHANGED <<meeting, blob, texts, run, index, brief, others>>
    BY <1>6, <2>1 DEF ManualCommit
  <2> HIDE DEF q, new
  <2>6. FitsPhase(q)
    BY <2>3, <2>5 DEF FitsPhase, Working
  <2>7. ins' \in [Insights -> {"absent", "open", "gone"}]
    BY <1>1, <2>1 DEF RowsShape
  <2>8. mention' \subseteq MentionRow /\ Mentioned \subseteq Mentioned'
    BY <1>1, <2>4, <2>5 DEF Mentioned
  <2>9. RowsShape'
    BY <1>1, <2>5, <2>7, <2>8 DEF RowsShape, others
  <2>10. raced' = raced /\ crashed' = crashed /\ index' = index /\ meeting' = meeting
    BY <2>5 DEF others
  <2> QED
    BY <1>1, <2>3, <2>5, <2>6, <2>8, <2>9, <2>10, WorkKeeps
<1>7. CASE SyncRead(c)
  <2>1. PICK i \in call[c].touched :
          /\ index' = [index EXCEPT ![i] = {}]
          /\ call' = [call EXCEPT ![c].phase = "indexing", ![c].read = {<<i, QuotesOf(i)>>}]
    BY <1>7 DEF SyncRead
  <2> DEFINE read == {<<i, QuotesOf(i)>>}
             q == [call[c] EXCEPT !.phase = "indexing", !.read = read]
  <2>2. i \in Insights /\ QuotesOf(i) \subseteq Quotes
    BY <1>1 DEF QuotesOf, MentionRow
  <2>3. read \subseteq Insights \X SUBSET Quotes /\ read \in ReadSet
    BY <2>2 DEF ReadSet
  <2>4. \A e \in read : e[2] # {} => e[1] \in Mentioned
    BY DEF QuotesOf, Mentioned
  <2>5. call' = [call EXCEPT ![c] = q]
    BY <2>1
  <2> HIDE DEF read
  <2>6. q \in CallRecord /\ q.op = call[c].op /\ q.phase = "indexing" /\ q.read = read
    BY <2>3, CallFields DEF CallPhases
  <2> HIDE DEF q
  <2>7. /\ UNCHANGED <<meeting, blob, texts, run, ins, mention, brief, others>>
        /\ call[c].phase = "syncing"
    BY <1>7 DEF SyncRead
  <2>8. FitsPhase(q)
    BY <2>3, <2>6, <2>7 DEF FitsPhase, Working
  <2>9. index' \in [Insights -> SUBSET Quotes] /\ \A j \in Insights : index'[j] # {} => index[j] # {}
    BY <1>1, <2>1
  <2>10. RowsShape' /\ Mentioned' = Mentioned
    BY <1>1, <2>7, <2>9 DEF RowsShape, others, Mentioned
  <2>11. raced' = raced /\ crashed' = crashed /\ meeting' = meeting
    BY <2>7 DEF others
  <2> QED
    BY <1>1, <2>4, <2>5, <2>6, <2>7, <2>8, <2>9, <2>10, <2>11, WorkKeeps
<1>8. CASE SyncWrite(c)
  <2>1. PICK e \in call[c].read :
          /\ index' = [index EXCEPT ![e[1]] = @ \cup e[2]]
          /\ call' = [call EXCEPT ![c].phase = "syncing", ![c].read = {},
                                  ![c].touched = @ \ {e[1]}]
    BY <1>8 DEF SyncWrite
  <2> DEFINE rest == call[c].touched \ {e[1]}
             q == [call[c] EXCEPT !.phase = "syncing", !.read = {}, !.touched = rest]
  <2>2. call[c].phase = "indexing" /\ UNCHANGED <<meeting, blob, texts, run, ins, mention, brief, others>>
    BY <1>8 DEF SyncWrite
  <2>3. e \in Insights \X SUBSET Quotes /\ (e[2] # {} => e[1] \in Mentioned)
    BY <2>2 DEF FitsPhase, LifeInv, IndexMentioned
  <2>4. e[1] \in Insights /\ e[2] \in SUBSET Quotes
    BY <2>3
  <2>6. call' = [call EXCEPT ![c] = q]
    BY <2>1
  <2>11. rest \in SUBSET Insights
    OBVIOUS
  <2>12. {} \in ReadSet
    BY DEF ReadSet
  <2> HIDE DEF rest
  <2>5. q \in CallRecord /\ q.op = call[c].op /\ q.phase = "syncing"
    BY <2>11, <2>12, CallFields DEF CallPhases
  <2> HIDE DEF q
  <2>7. FitsPhase(q)
    BY <2>2, <2>5 DEF FitsPhase, Working
  <2>8. index' \in [Insights -> SUBSET Quotes] /\ \A j \in Insights : index'[j] # {} => j \in Mentioned
    BY <1>1, <2>1, <2>3, <2>4
  <2>9. RowsShape' /\ Mentioned' = Mentioned
    BY <1>1, <2>2, <2>8 DEF RowsShape, others, Mentioned
  <2>10. raced' = raced /\ crashed' = crashed /\ meeting' = meeting
    BY <2>2 DEF others
  <2> QED
    BY <1>1, <2>2, <2>5, <2>6, <2>7, <2>8, <2>9, <2>10, WorkKeeps
<1> QED
  BY <1>3, <1>4, <1>5, <1>6, <1>7, <1>8

----------------------------------------------------------------------------
\* A purge, or a call that dies: its record moves on and the rows stay.
LEMMA PurgeMoves ==
  ASSUME LifeInv, NEW c \in Calls, call[c].op = "purge" \/ call[c].phase = "idle",
         NEW q \in CallRecord, FitsPhase(q), call' = [call EXCEPT ![c] = q],
         q.op = "purge" \/ q.phase = "idle",
         q.op = "purge" /\ q.phase \in {"begun", "marked"} /\ q.alone =>
           /\ \A d \in Calls \ {c} : call[d].phase = "idle" \/ call[d].op = "purge"
           /\ Mentioned \subseteq q.touched,
         blob' \in BOOLEAN, crashed' \in BOOLEAN, crashed => crashed',
         UNCHANGED <<meeting, texts, run, ins, mention, index, brief, daily, raced, menu>>
  PROVE  LifeInv'
<1>1. /\ call' \in [Calls -> CallRecord] /\ call'[c] = q
      /\ \A d \in Calls : d # c => call'[d] = call[d]
  BY DEF LifeInv, CallsFit
<1>2. CallsFit'
  BY <1>1 DEF LifeInv, CallsFit
<1>3. RowsShape' /\ Mentioned' = Mentioned
  BY DEF LifeInv, RowsShape, Mentioned
<1>4. q.phase # "indexing" /\ call[c].phase # "calling" /\ q.phase # "calling"
  BY DEF FitsPhase, LifeInv, CallsFit
<1>5. IndexMentioned'
  BY <1>1, <1>3, <1>4 DEF LifeInv, IndexMentioned
<1>6. PurgesAlone'
  BY <1>1, <1>3 DEF LifeInv, PurgesAlone
<1>7. PurgedForGood'
  BY <1>1 DEF LifeInv, PurgedForGood
<1>8. StuckOnlyByCrash'
  BY <1>1, <1>4 DEF LifeInv, StuckOnlyByCrash
<1> QED
  BY <1>2, <1>3, <1>5, <1>6, <1>7, <1>8 DEF LifeInv

\* The steps of a purge, and a crash.
LEMMA PurgeStepsKeep ==
  ASSUME LifeInv, NEW c \in Calls,
         BeginPurge(c) \/ PurgeMark(c) \/ PurgeAborted(c) \/ PurgeBlob(c) \/ Crash(c)
  PROVE  LifeInv'
<1> USE AtWork
<1>1. RowsShape /\ blob \in BOOLEAN /\ crashed \in BOOLEAN
  BY DEF LifeInv, RowsShape
<1>2. CASE BeginPurge(c)
  <2> DEFINE q == [Resting EXCEPT !.op = "purge", !.phase = "begun", !.alone = ~OthersAtWork(c),
                                  !.touched = {m.insight : m \in mention}]
  <2>1. /\ "purge" \in Ops /\ Mentioned \in SUBSET Insights
        /\ {m.insight : m \in mention} = Mentioned /\ (~OthersAtWork(c)) \in BOOLEAN
    BY <1>1, <1>2 DEF BeginPurge, RowsShape, Ops, Mentioned, MentionRow
  <2>2. q \in CallRecord
    BY <2>1, RestingFits, CallFields DEF CallPhases
  <2>3. q.op = "purge" /\ q.phase = "begun" /\ q.touched = Mentioned /\ q.alone = ~OthersAtWork(c)
    BY <2>1, RestingFits DEF Resting
  <2>4. /\ call' = [call EXCEPT ![c] = q] /\ call[c].phase = "idle"
        /\ UNCHANGED <<rows, others>>
    BY <1>2 DEF BeginPurge
  <2>5. q.alone => \A d \in Calls \ {c} : call[d].phase = "idle" \/ call[d].op = "purge"
    BY <2>3 DEF OthersAtWork
  <2> HIDE DEF q
  <2>6. FitsPhase(q)
    BY <2>3 DEF FitsPhase, Working
  <2> QED
    BY <1>1, <2>2, <2>3, <2>4, <2>5, <2>6, PurgeMoves DEF rows, others
<1>3. CASE PurgeMark(c)
  <2> DEFINE q == [call[c] EXCEPT !.phase = "marked"]
  <2>1. /\ q \in CallRecord /\ q.op = call[c].op /\ q.phase = "marked" /\ q.alone = call[c].alone
        /\ q.touched = call[c].touched
    BY CallFields DEF CallPhases
  <2>2. /\ call' = [call EXCEPT ![c] = q] /\ call[c].op = "purge" /\ call[c].phase = "begun"
        /\ UNCHANGED <<rows, others>>
    BY <1>3 DEF PurgeMark, Advance
  <2> HIDE DEF q
  <2>3. FitsPhase(q)
    BY <2>1, <2>2 DEF FitsPhase, Working
  <2>4. q.alone => /\ \A d \in Calls \ {c} : call[d].phase = "idle" \/ call[d].op = "purge"
                   /\ Mentioned \subseteq q.touched
    BY <2>1, <2>2 DEF LifeInv, PurgesAlone
  <2> QED
    BY <1>1, <2>1, <2>2, <2>3, <2>4, PurgeMoves DEF rows, others
<1>4. CASE PurgeAborted(c) \/ PurgeBlob(c)
  <2>1. /\ call' = [call EXCEPT ![c] = Resting] /\ call[c].op = "purge" /\ blob' \in BOOLEAN
        /\ UNCHANGED <<meeting, texts, run, ins, mention, index, brief, others>>
    BY <1>1, <1>4 DEF PurgeAborted, PurgeBlob, Done, rows, FitsPhase
  <2> QED
    BY <1>1, <2>1, RestingFits, PurgeMoves DEF others
<1>5. CASE Crash(c)
  <2>1. /\ call' = [call EXCEPT ![c] = Resting] /\ call[c].phase # "idle"
        /\ crashed' = (crashed \/ call[c].phase = "calling") /\ UNCHANGED <<rows, daily, raced, menu>>
    BY <1>5 DEF Crash, Done
  <2>2. CASE call[c].op = "purge"
    BY <1>1, <2>1, <2>2, RestingFits, PurgeMoves DEF rows
  <2>3. CASE call[c].op # "purge"
    <3>1. RowsShape' /\ Mentioned' = Mentioned /\ index' = index /\ meeting' = meeting
      BY <1>1, <2>1 DEF RowsShape, Mentioned, rows
    <3>2. \A i \in Insights : index[i] # {} => i \in Mentioned
      BY DEF LifeInv, IndexMentioned
    <3> QED
      BY <2>1, <2>3, <3>1, <3>2, RestingFits, WorkKeeps
  <2> QED
    BY <2>2, <2>3
<1> QED
  BY <1>2, <1>3, <1>4, <1>5

\* The purge's transaction.
LEMMA PurgeCommitKeeps ==
  ASSUME LifeInv, NEW c \in Calls, PurgeCommit(c) PROVE LifeInv'
<1> USE AtWork
<1> DEFINE q == [call[c] EXCEPT !.phase = "purged"]
<1>1. /\ q \in CallRecord /\ q.op = call[c].op /\ q.phase = "purged"
  BY CallFields DEF CallPhases
<1>2. /\ call[c].op = "purge" /\ call[c].phase = "marked"
      /\ meeting' = [meeting EXCEPT !.deleted = TRUE, !.audio = Purged]
      /\ run' = [r \in Runs |-> IF run[r] = "absent" THEN "absent" ELSE "deleted"]
      /\ texts' = <<>>
      /\ mention' = {[m EXCEPT !.quote = Purged] : m \in mention}
      /\ index' = [i \in Insights |-> IF i \in call[c].touched THEN {} ELSE index[i]]
      /\ raced' = (raced \/ ~call[c].alone)
      /\ call' = [call EXCEPT ![c] = q]
      /\ UNCHANGED <<blob, ins, brief, daily, crashed, menu>>
  BY DEF PurgeCommit, Advance
<1> HIDE DEF q
<1>3. /\ RowsShape /\ mention \subseteq MentionRow /\ index \in [Insights -> SUBSET Quotes]
      /\ meeting \in MeetingFields /\ raced \in BOOLEAN
  BY DEF LifeInv, RowsShape
<1>4. \A m \in mention : /\ [m EXCEPT !.quote = Purged] \in MentionRow
                          /\ [m EXCEPT !.quote = Purged].insight = m.insight
                          /\ [m EXCEPT !.quote = Purged].quote = Purged
  BY <1>3 DEF MentionRow
<1>5. /\ mention' \subseteq MentionRow /\ \A m \in mention' : m.quote = Purged
      /\ Mentioned' = Mentioned
  <2> DEFINE redacted(m) == [m EXCEPT !.quote = Purged]
  <2>1. mention' = {redacted(m) : m \in mention}
    BY <1>2
  <2> HIDE DEF redacted
  <2>2. \A m \in mention : /\ redacted(m) \in MentionRow /\ redacted(m).insight = m.insight
                            /\ redacted(m).quote = Purged
    BY <1>4 DEF redacted
  <2> QED
    BY <2>1, <2>2 DEF Mentioned
<1>6. /\ meeting' \in MeetingFields /\ meeting'.status = meeting.status /\ meeting'.deleted = TRUE
      /\ meeting'.audio = Purged
  BY <1>2, <1>3 DEF MeetingFields
<1>7. /\ index' \in [Insights -> SUBSET Quotes]
      /\ \A i \in Insights : index'[i] # {} => index[i] # {} /\ i \notin call[c].touched
  BY <1>2, <1>3
<1>8. RowsShape'
  <2>1. run' \in [Runs -> {"absent", "running", "succeeded", "failed", "deleted"}]
    BY <1>2
  <2>2. texts' \in Seq(SUBSET Quotes) /\ raced' \in BOOLEAN
    BY <1>2
  <2> QED
    BY <1>2, <1>3, <1>5, <1>6, <1>7, <2>1, <2>2 DEF RowsShape
<1>9. /\ call' \in [Calls -> CallRecord] /\ call'[c] = q
      /\ \A d \in Calls : d # c => call'[d] = call[d]
  BY <1>1, <1>2
<1>10. CallsFit'
  <2>1. FitsPhase(q)
    BY <1>1, <1>2 DEF FitsPhase, Working
  <2> QED
    BY <1>9, <2>1 DEF CallsFit
<1>11. IndexMentioned'
  BY <1>1, <1>5, <1>7, <1>9 DEF LifeInv, IndexMentioned
<1>12. PurgesAlone'
  BY <1>1, <1>2, <1>5, <1>9 DEF LifeInv, PurgesAlone
<1>13. PurgedForGood'
  <2> SUFFICES ASSUME ~raced'
               PROVE  /\ texts' = <<>> /\ \A m \in mention' : m.quote = Purged
                      /\ \A i \in Insights : index'[i] = {}
                      /\ meeting'.audio = Purged
                      /\ \A d \in Calls : call'[d].phase = "idle" \/ call'[d].op = "purge"
    BY DEF PurgedForGood
  <2>1. /\ \A d \in Calls \ {c} : call[d].phase = "idle" \/ call[d].op = "purge"
        /\ Mentioned \subseteq call[c].touched
    BY <1>2 DEF LifeInv, PurgesAlone
  <2>2. \A i \in Insights : index'[i] = {}
    BY <1>7, <2>1 DEF LifeInv, IndexMentioned
  <2> QED
    BY <1>1, <1>2, <1>5, <1>6, <1>9, <2>1, <2>2
<1>14. StuckOnlyByCrash'
  BY <1>1, <1>2, <1>6, <1>9 DEF LifeInv, StuckOnlyByCrash
<1> QED
  BY <1>8, <1>10, <1>11, <1>12, <1>13, <1>14 DEF LifeInv

----------------------------------------------------------------------------
\* What happens around the calls.
LEMMA OutsideKeeps ==
  ASSUME LifeInv,
         \/ \E i \in OldInsights : InsightLeaves(i)
         \/ DailyRead \/ DailyWrite \/ SweepBlob \/ UNCHANGED lifeVars
  PROVE  LifeInv'
<1>1. /\ run' \in [Runs -> {"absent", "running", "succeeded", "failed", "deleted"}]
      /\ ins' \in [Insights -> {"absent", "open", "gone"}]
      /\ blob' \in BOOLEAN /\ daily' \in SUBSET Runs
  BY DEF LifeInv, RowsShape, InsightLeaves, DailyRead, DailyWrite, SweepBlob, lifeVars, rows, others,
         FailStale, Stale, Insights
<1>2. UNCHANGED <<meeting, texts, mention, index, brief, call, raced, crashed, menu>>
  BY DEF InsightLeaves, DailyRead, DailyWrite, SweepBlob, lifeVars, rows, others
<1> QED
  BY <1>1, <1>2 DEF LifeInv, RowsShape, CallsFit, IndexMentioned, Mentioned, PurgesAlone, PurgedForGood,
                    StuckOnlyByCrash

\* A call that begins disturbs a purge that was alone.
LEMMA BeginKeeps ==
  ASSUME LifeInv, NEW c \in Calls, Begin(c) PROVE LifeInv'
<1>1. /\ \A x \in SUBSET Quotes : \A q \in x : {q} \in SUBSET Quotes
      /\ texts # <<>> => Last(texts) \in SUBSET Quotes
  BY DEF LifeInv, RowsShape, Last
<1>2. CASE BeginTranscribe(c) \/ BeginPaste(c)
  BY <1>2, EnterKeeps DEF BeginTranscribe, BeginPaste
<1>3. CASE BeginExtract(c) \/ BeginAnalyze(c)
  BY <1>1, <1>3, EnterKeeps DEF BeginExtract, BeginAnalyze
<1>4. CASE BeginManual(c)
  BY <1>1, <1>4, EnterKeeps DEF BeginManual
<1> QED
  BY <1>2, <1>3, <1>4, PurgeStepsKeep DEF Begin

\* Every step keeps the invariant of a meeting's life.
LEMMA LifeStep == LifeInv /\ [LifeNext]_lifeVars => LifeInv'
<1> SUFFICES ASSUME LifeInv, [LifeNext]_lifeVars PROVE LifeInv'
  OBVIOUS
<1>1. ASSUME NEW c \in Calls, Begin(c) \/ Step(c) \/ Crash(c) PROVE LifeInv'
  BY <1>1, BeginKeeps, ExtractStepsKeep, PersistKeeps, WritesKeep, PurgeStepsKeep, PurgeCommitKeeps
     DEF Step
<1> QED
  BY <1>1, OutsideKeeps DEF LifeNext

\* What MeetingSettles and NoQuoteTwice rest on holds in every reachable state of a
\* meeting under extractions, pastes, transcriptions, retention and purges.
THEOREM LifeInvariance == LifeSpec => []LifeInv
BY LifeStart, LifeStep, PTL DEF LifeSpec

\* What the invariant of a meeting says of its end, and of the types.
LEMMA LifeSettles == LifeInv => LifeTypeOK /\ MeetingSettles
BY DEF LifeInv, RowsShape, CallsFit, LifeTypeOK, MeetingSettles, PurgedForGood, PurgeAloneIsFinal,
       MeetingFields, MentionRow

\* A purge that nobody raced is final, and the meeting can be transcribed again unless the
\* process died (retention/service.ts:100, stt/routes.ts:132), for any number of calls,
\* quotes and insights.
THEOREM MeetingAlwaysSettles == LifeSpec => [](LifeTypeOK /\ MeetingSettles)
BY LifeSettles, LifeInvariance, PTL

----------------------------------------------------------------------------
(* NoQuoteTwice, when a run never outlives its function and is swept alive *)

ByRuns == {m \in mention : m.by \in Runs}

\* Runs somebody is about to fail have nobody left to commit them.
SweptAreDead ==
  /\ \A r \in daily : ~Alive(r) /\ run[r] # "absent"
  /\ \A c \in Calls : call[c].phase = "sweeping" =>
       \A r \in call[c].read : ~Alive(r) /\ run[r] # "absent"

\* A run belongs to one call, and runs or is deleted until that call has committed.
RunsAreOwned ==
  /\ \A c \in Calls : call[c].run \in Runs => run[call[c].run] # "absent"
  /\ \A c, d \in Calls : call[c].run \in Runs /\ call[c].run = call[d].run => c = d
  /\ \A c \in Calls : call[c].phase \in Working => run[call[c].run] \in {"running", "deleted"}
  /\ \A r \in Runs : run[r] = "deleted" => meeting.deleted

\* One call at most is at work on a meeting that stands, on quotes not recorded yet.
OneAtWork ==
  ~meeting.deleted =>
    /\ \A c, d \in Calls : call[c].phase \in Working /\ call[d].phase \in Working => c = d
    /\ \A c \in Calls : call[c].phase = "matching" =>
         \A m \in ByRuns : m.quote # Purged => m.quote \notin call[c].said
    /\ \A c \in Calls : call[c].phase = "persisting" =>
         /\ \A p \in call[c].plan : \A m \in ByRuns : m.quote # Purged => m.quote # p.quote
         /\ \A p, q \in call[c].plan : p.quote = q.quote => p = q

QuoteInv == LifeInv /\ SweptAreDead /\ RunsAreOwned /\ OneAtWork /\ NoQuoteTwice

SameWork(d) ==
  /\ call'[d].phase = call[d].phase /\ call'[d].run = call[d].run /\ call'[d].read = call[d].read
  /\ call'[d].said = call[d].said /\ call'[d].plan = call[d].plan

\* Steps that neither start nor advance the work of a run.
LEMMA QuietKeeps ==
  ASSUME QuoteInv, LifeInv',
         \A d \in Calls : \/ SameWork(d)
                          \/ /\ call'[d].run \in {call[d].run, "none"}
                             /\ call'[d].phase \notin Working \cup {"sweeping"},
         daily' \subseteq daily,
         \A r \in Runs : run'[r] # run[r] =>
           /\ run[r] # "absent" /\ run'[r] # "absent"
           /\ run'[r] = "deleted" \/ \A d \in Calls : call[d].run = r => call'[d].phase \notin Working,
         \A r \in Runs : run'[r] = "deleted" => run[r] = "deleted" \/ meeting'.deleted,
         meeting.deleted => meeting'.deleted,
         ~meeting'.deleted => ByRuns' \subseteq ByRuns
  PROVE  QuoteInv'
<1> USE RunsAssumption
<1>1. \A r \in Runs : Alive(r)' => Alive(r)
  BY DEF Alive, SameWork
<1>2. \A r \in Runs : run[r] # "absent" => run'[r] # "absent"
  OBVIOUS
<1>3. SweptAreDead'
  <2>1. \A c \in Calls : call'[c].phase = "sweeping" => call'[c].read \subseteq Runs /\ SameWork(c)
    BY DEF LifeInv, CallsFit, FitsPhase
  <2>2. \A r \in daily : r \in Runs
    BY DEF QuoteInv, LifeInv, RowsShape
  <2>3. ASSUME NEW r \in daily' PROVE ~Alive(r)' /\ run'[r] # "absent"
    BY <1>1, <1>2, <2>2 DEF QuoteInv, SweptAreDead
  <2>4. ASSUME NEW c \in Calls, call'[c].phase = "sweeping", NEW r \in call'[c].read
        PROVE  ~Alive(r)' /\ run'[r] # "absent"
    <3>1. call[c].phase = "sweeping" /\ r \in call[c].read /\ r \in Runs
      BY <2>1, <2>4 DEF SameWork
    <3> QED
      BY <1>1, <1>2, <3>1 DEF QuoteInv, SweptAreDead
  <2> QED
    BY <2>3, <2>4 DEF SweptAreDead
<1>4. RunsAreOwned'
  <2>1. \A c \in Calls : call'[c].run \in Runs => call'[c].run = call[c].run
    BY DEF SameWork
  <2>2. \A c \in Calls : call'[c].phase \in Working =>
          call[c].phase \in Working /\ call'[c].run = call[c].run /\ call[c].run \in Runs
    BY DEF SameWork, QuoteInv, LifeInv, CallsFit, FitsPhase
  <2>3. ASSUME NEW c \in Calls, call'[c].run \in Runs PROVE run'[call'[c].run] # "absent"
    BY <1>2, <2>1, <2>3 DEF QuoteInv, RunsAreOwned
  <2>4. ASSUME NEW c \in Calls, NEW d \in Calls, call'[c].run \in Runs,
               call'[c].run = call'[d].run PROVE c = d
    BY <2>1, <2>4 DEF QuoteInv, RunsAreOwned
  <2>5. ASSUME NEW c \in Calls, call'[c].phase \in Working
        PROVE  run'[call'[c].run] \in {"running", "deleted"}
    BY <2>2, <2>5 DEF QuoteInv, RunsAreOwned
  <2>6. ASSUME NEW r \in Runs, run'[r] = "deleted" PROVE meeting'.deleted
    BY <2>6 DEF QuoteInv, RunsAreOwned
  <2> QED
    BY <2>3, <2>4, <2>5, <2>6 DEF RunsAreOwned
<1>5. \A c \in Calls : call'[c].phase \in Working => SameWork(c)
  OBVIOUS
<1>6. OneAtWork'
  <2> SUFFICES ASSUME ~meeting'.deleted
               PROVE  /\ \A c, d \in Calls : call'[c].phase \in Working /\ call'[d].phase \in Working => c = d
                      /\ \A c \in Calls : call'[c].phase = "matching" =>
                           \A m \in ByRuns' : m.quote # Purged => m.quote \notin call'[c].said
                      /\ \A c \in Calls : call'[c].phase = "persisting" =>
                           /\ \A p \in call'[c].plan : \A m \in ByRuns' : m.quote # Purged => m.quote # p.quote
                           /\ \A p, q \in call'[c].plan : p.quote = q.quote => p = q
    BY DEF OneAtWork
  <2>1. OneAtWork /\ ~meeting.deleted
    BY DEF QuoteInv
  <2>2. \A c, d \in Calls : call'[c].phase \in Working /\ call'[d].phase \in Working => c = d
    BY <1>5, <2>1 DEF OneAtWork, SameWork
  <2>3. ASSUME NEW c \in Calls, call'[c].phase = "matching"
        PROVE  \A m \in ByRuns' : m.quote # Purged => m.quote \notin call'[c].said
    <3>1. SameWork(c)
      BY <1>5, <2>3 DEF Working
    <3> QED
      BY <2>1, <2>3, <3>1 DEF OneAtWork, SameWork
  <2>4. ASSUME NEW c \in Calls, call'[c].phase = "persisting"
        PROVE  /\ \A p \in call'[c].plan : \A m \in ByRuns' : m.quote # Purged => m.quote # p.quote
               /\ \A p, q \in call'[c].plan : p.quote = q.quote => p = q
    <3>1. SameWork(c)
      BY <1>5, <2>4 DEF Working
    <3> QED
      BY <2>1, <2>4, <3>1 DEF OneAtWork, SameWork
  <2> QED
    BY <2>2, <2>3, <2>4
<1>7. NoQuoteTwice'
  BY DEF QuoteInv, NoQuoteTwice, ByRuns
<1> QED
  BY <1>3, <1>4, <1>6, <1>7 DEF QuoteInv

\* Steps that move calls outside the work of runs and leave the runs alone.
LEMMA CallsMoveQuietly ==
  ASSUME QuoteInv, LifeInv', NEW c \in Calls,
         \A d \in Calls : d # c => SameWork(d),
         call'[c].run \in {call[c].run, "none"}, call'[c].phase \notin Working \cup {"sweeping"},
         UNCHANGED <<run, daily>>, meeting'.deleted = meeting.deleted,
         ByRuns' \subseteq ByRuns
  PROVE  QuoteInv'
BY QuietKeeps

\* Steps that write no mention and end no run.
LEMMA QuietCallSteps ==
  ASSUME QuoteInv, NEW c \in Calls,
         \/ Begin(c) \/ Crash(c) \/ StartTranscribing(c) \/ TranscribeCommit(c) \/ TranscribeFails(c)
         \/ PasteCommit(c) \/ CheckRunning(c) \/ CheckDone(c) \/ InsertRefused(c)
         \/ SyncRead(c) \/ SyncWrite(c) \/ SyncDone(c) \/ ManualCommit(c)
         \/ AnalyzeCommit(c) \/ AnalyzeFails(c)
         \/ PurgeMark(c) \/ PurgeAborted(c) \/ PurgeBlob(c)
  PROVE  QuoteInv'
<1>1. LifeInv
  BY DEF QuoteInv
<1>2. LifeInv'
  <2>1. Begin(c) \/ Step(c) \/ Crash(c)
    BY DEF Step
  <2> QED
    BY <1>1, <2>1, LifeStep DEF LifeNext
<1>3. call \in [Calls -> CallRecord] /\ meeting \in MeetingFields
  BY <1>1 DEF LifeInv, CallsFit, RowsShape
<1>4. UNCHANGED <<run, daily>>
  BY DEF Begin, BeginTranscribe, BeginPaste, BeginExtract, BeginManual, BeginAnalyze, BeginPurge, Crash,
         StartTranscribing, TranscribeCommit, TranscribeFails, PasteCommit, CheckRunning, CheckDone,
         InsertRefused, SyncRead, SyncWrite, SyncDone, ManualCommit, AnalyzeCommit, AnalyzeFails,
         PurgeMark, PurgeAborted, PurgeBlob, rows, others
<1>5. \/ meeting' = meeting
      \/ \E status \in {"transcribing", "transcribed", "transcription_failed"} :
           meeting' = [meeting EXCEPT !.status = status]
  BY DEF Begin, BeginTranscribe, BeginPaste, BeginExtract, BeginManual, BeginAnalyze, BeginPurge, Crash,
         StartTranscribing, TranscribeCommit, TranscribeFails, PasteCommit, CheckRunning, CheckDone,
         InsertRefused, SyncRead, SyncWrite, SyncDone, ManualCommit, AnalyzeCommit, AnalyzeFails,
         PurgeMark, PurgeAborted, PurgeBlob, rows, others
<1>6. meeting'.deleted = meeting.deleted
  BY <1>3, <1>5 DEF MeetingFields
<1>7. \/ mention' = mention
      \/ \E i, x : mention' = mention \cup {[insight |-> i, quote |-> x, by |-> "manual"]}
  <2>1. CASE ManualCommit(c)
    BY <2>1 DEF ManualCommit
  <2>2. CASE ~ManualCommit(c)
    BY <2>2 DEF Begin, BeginTranscribe, BeginPaste, BeginExtract, BeginManual, BeginAnalyze, BeginPurge,
           Crash, StartTranscribing, TranscribeCommit, TranscribeFails, PasteCommit, CheckRunning,
           CheckDone, InsertRefused, SyncRead, SyncWrite, SyncDone, AnalyzeCommit, AnalyzeFails,
           PurgeMark, PurgeAborted, PurgeBlob, rows, others
  <2> QED
    BY <2>1, <2>2
<1>8. ByRuns' \subseteq ByRuns
  BY <1>7, RunsAssumption DEF ByRuns
<1>9. /\ \A d \in Calls : d # c => SameWork(d)
      /\ call'[c].run \in {call[c].run, "none"} /\ call'[c].phase \notin Working \cup {"sweeping"}
  <2>1. ASSUME NEW op, NEW said, Enter(c, op, said)
        PROVE  /\ \A d \in Calls : d # c => SameWork(d)
               /\ call'[c].run = "none" /\ call'[c].phase = "begun"
    BY <1>3, <2>1, CallFields DEF Enter, SameWork, Resting
  <2>2. ASSUME Begin(c), ~BeginPurge(c) PROVE \E op, said : Enter(c, op, said)
    BY <2>2 DEF Begin, BeginTranscribe, BeginPaste, BeginExtract, BeginManual, BeginAnalyze
  <2>3. ASSUME NEW p \in {"calling", "clear", "free", "marked"}, Advance(c, p)
        PROVE  /\ \A d \in Calls : d # c => SameWork(d)
               /\ call'[c].run = call[c].run /\ call'[c].phase = p
    BY <1>3, <2>3, CallFields DEF Advance, SameWork
  <2>4. ASSUME Done(c)
        PROVE  /\ \A d \in Calls : d # c => SameWork(d)
               /\ call'[c].run = "none" /\ call'[c].phase = "idle"
    BY <1>3, <2>4, RestingFits DEF Done, SameWork
  <2>5. CASE Begin(c) /\ ~BeginPurge(c)
    <3>1. PICK op, said : Enter(c, op, said)
      BY <2>2, <2>5
    <3> QED
      BY <2>1, <3>1 DEF Working
  <2>6. CASE BeginPurge(c)
    BY <1>3, <2>6 DEF BeginPurge, SameWork, Resting, Working
  <2>7. CASE SyncRead(c) \/ SyncWrite(c) \/ ManualCommit(c)
    <3>1. \/ \E i : call' = [call EXCEPT ![c].phase = "indexing", ![c].read = {<<i, QuotesOf(i)>>}]
          \/ \E e : call' = [call EXCEPT ![c].phase = "syncing", ![c].read = {},
                                         ![c].touched = @ \ {e[1]}]
          \/ \E i : call' = [call EXCEPT ![c].phase = "syncing", ![c].said = {}, ![c].touched = {i}]
      BY <2>7 DEF SyncRead, SyncWrite, ManualCommit
    <3>2. /\ \A d \in Calls : d # c => SameWork(d)
          /\ call'[c].run = call[c].run /\ call'[c].phase \in {"indexing", "syncing"}
      BY <1>3, <3>1, CallFields DEF SameWork
    <3> QED
      BY <3>2 DEF Working
  <2>8. CASE ~Begin(c) /\ ~SyncRead(c) /\ ~SyncWrite(c) /\ ~ManualCommit(c)
    <3>1. Done(c) \/ \E p \in {"calling", "clear", "free", "marked"} : Advance(c, p)
      BY <2>8 DEF Crash, StartTranscribing, TranscribeCommit, TranscribeFails, PasteCommit, CheckRunning,
           CheckDone, InsertRefused, SyncDone, AnalyzeCommit, AnalyzeFails, PurgeMark, PurgeAborted, PurgeBlob
    <3> QED
      BY <2>3, <2>4, <3>1 DEF Working
  <2> QED
    BY <2>5, <2>6, <2>7, <2>8 DEF Begin
<1> QED
  BY <1>2, <1>4, <1>6, <1>8, <1>9, CallsMoveQuietly

\* Steps that change runs: the sweep, the failure of an extraction, the purge.
LEMMA RunsEndQuietly ==
  ASSUME QuoteInv, LifeInv',
         DailyWrite \/ \E c \in Calls : SweepStale(c) \/ ExtractFails(c) \/ PurgeCommit(c)
  PROVE  QuoteInv'
<1>1. /\ call \in [Calls -> CallRecord] /\ meeting \in MeetingFields
      /\ run \in [Runs -> {"absent", "running", "succeeded", "failed", "deleted"}]
  BY DEF QuoteInv, LifeInv, CallsFit, RowsShape
<1>3. CASE DailyWrite
  <2>1. \A r \in daily : ~Alive(r)
    BY DEF QuoteInv, SweptAreDead
  <2>2. /\ daily' = {} /\ FailStale(daily)
        /\ meeting' = meeting /\ call' = call /\ mention' = mention
    BY <1>3 DEF DailyWrite
  <2>3. \A r \in Runs : /\ run'[r] # run[r] =>
                            /\ run[r] # "absent" /\ run'[r] # "absent"
                            /\ \A d \in Calls : call[d].run # r
                        /\ run'[r] = "deleted" => run[r] = "deleted"
    BY <1>1, <2>1, <2>2 DEF FailStale, Alive
  <2>4. /\ \A d \in Calls : SameWork(d)
        /\ ByRuns' \subseteq ByRuns /\ daily' \subseteq daily
        /\ meeting'.deleted = meeting.deleted
    BY <2>2 DEF SameWork, ByRuns
  <2> QED
    BY <2>3, <2>4, QuietKeeps
<1>4. ASSUME NEW c \in Calls, SweepStale(c) PROVE QuoteInv'
  <2>1. \A r \in call[c].read : ~Alive(r)
    BY <1>4 DEF QuoteInv, SweptAreDead, SweepStale
  <2>2. /\ FailStale(call[c].read) /\ UNCHANGED <<meeting, mention, daily>>
        /\ call' = [call EXCEPT ![c].phase = "swept", ![c].read = {}]
    BY <1>4 DEF SweepStale, others
  <2>3. /\ \A d \in Calls : d # c => SameWork(d)
        /\ call'[c].run = call[c].run /\ call'[c].phase = "swept"
    BY <1>1, <2>2, CallFields DEF SameWork
  <2>4. \A r \in Runs : /\ run'[r] # run[r] =>
                            /\ run[r] # "absent" /\ run'[r] # "absent"
                            /\ \A d \in Calls : call[d].run # r
                        /\ run'[r] = "deleted" => run[r] = "deleted"
    BY <1>1, <2>1, <2>2 DEF FailStale, Alive
  <2>5. ByRuns' \subseteq ByRuns /\ daily' = daily /\ meeting'.deleted = meeting.deleted
    BY <2>2 DEF ByRuns
  <2> QED
    BY <2>3, <2>4, <2>5, QuietKeeps DEF Working
<1>5. ASSUME NEW c \in Calls, ExtractFails(c) PROVE QuoteInv'
  <2>1. /\ run' = [run EXCEPT ![call[c].run] = IF @ = "deleted" THEN @ ELSE "failed"]
        /\ call' = [call EXCEPT ![c] = Resting] /\ UNCHANGED <<meeting, mention, daily>>
    BY <1>5 DEF ExtractFails, Done, others
  <2>2. /\ \A d \in Calls : d # c => SameWork(d)
        /\ call'[c].run = "none" /\ call'[c].phase = "idle"
    BY <1>1, <2>1, RestingFits DEF SameWork
  <2>3. \A r \in Runs : run'[r] # run[r] => r = call[c].run /\ run'[r] = "failed"
    BY <1>1, <2>1
  <2>4. \A r \in Runs : run'[r] # run[r] =>
          /\ run[r] # "absent" /\ run'[r] # "absent"
          /\ \A d \in Calls : call[d].run = r => d = c
    BY <2>3 DEF QuoteInv, RunsAreOwned
  <2>5. \A r \in Runs : run'[r] = "deleted" => run[r] = "deleted"
    BY <2>3
  <2> QED
    BY <2>1, <2>2, <2>4, <2>5, QuietKeeps DEF Working, ByRuns
<1>6. ASSUME NEW c \in Calls, PurgeCommit(c) PROVE QuoteInv'
  <2>1. /\ run' = [r \in Runs |-> IF run[r] = "absent" THEN "absent" ELSE "deleted"]
        /\ meeting' = [meeting EXCEPT !.deleted = TRUE, !.audio = Purged]
        /\ Advance(c, "purged") /\ UNCHANGED daily
    BY <1>6 DEF PurgeCommit
  <2>2. /\ \A d \in Calls : d # c => SameWork(d)
        /\ call'[c].run = call[c].run /\ call'[c].phase = "purged"
    BY <1>1, <2>1, CallFields DEF SameWork, Advance
  <2>3. meeting'.deleted = TRUE
    BY <1>1, <2>1 DEF MeetingFields
  <2>4. \A r \in Runs : run'[r] # run[r] =>
          run[r] # "absent" /\ run'[r] # "absent" /\ run'[r] = "deleted"
    BY <2>1
  <2> QED
    BY <2>1, <2>2, <2>3, <2>4, QuietKeeps DEF Working
<1> QED
  BY <1>3, <1>4, <1>5, <1>6

\* One call goes on with its work, or starts it, on runs nobody else holds.
LEMMA WorkGoesOn ==
  ASSUME QuoteInv, LifeInv', NEW c \in Calls, \A d \in Calls : d # c => SameWork(d),
         UNCHANGED <<daily, mention>>, meeting' = meeting,
         call'[c].phase \in Working, call'[c].run \in Runs,
         \/ call[c].phase \in Working /\ call'[c].run = call[c].run /\ run' = run
         \/ /\ run[call'[c].run] = "absent" /\ run' = [run EXCEPT ![call'[c].run] = "running"]
            /\ \A r \in Runs : run[r] # "running"
            /\ call'[c].phase = "running",
         ~meeting.deleted /\ call'[c].phase = "matching" =>
           \A m \in ByRuns : m.quote # Purged => m.quote \notin call'[c].said,
         ~meeting.deleted /\ call'[c].phase = "persisting" =>
           /\ \A p \in call'[c].plan : \A m \in ByRuns : m.quote # Purged => m.quote # p.quote
           /\ \A p, q \in call'[c].plan : p.quote = q.quote => p = q
  PROVE  QuoteInv'
<1> USE RunsAssumption
<1>0. run \in [Runs -> {"absent", "running", "succeeded", "failed", "deleted"}] /\ daily \subseteq Runs
  BY DEF QuoteInv, LifeInv, RowsShape
<1>1. /\ ByRuns' = ByRuns
      /\ \A r \in Runs : run[r] # "absent" => run'[r] = run[r]
      /\ run'[call'[c].run] \in {"running", "deleted"}
      /\ \A r \in Runs : run'[r] = "deleted" => run[r] = "deleted"
  BY <1>0 DEF ByRuns, QuoteInv, RunsAreOwned
<1>2. \A r \in Runs : run[r] # "absent" /\ Alive(r)' => Alive(r)
  BY DEF Alive, SameWork
<1>3. SweptAreDead'
  <2>1. \A r \in daily : ~Alive(r)' /\ run'[r] # "absent"
    BY <1>0, <1>1, <1>2 DEF QuoteInv, SweptAreDead
  <2>2. ASSUME NEW d \in Calls, call'[d].phase = "sweeping", NEW r \in call'[d].read
        PROVE  ~Alive(r)' /\ run'[r] # "absent"
    <3>1. d # c /\ SameWork(d)
      BY <2>2 DEF Working
    <3>2. call[d].phase = "sweeping" /\ r \in call[d].read /\ r \in Runs
      BY <2>2, <3>1 DEF SameWork, QuoteInv, LifeInv, CallsFit, FitsPhase
    <3> QED
      BY <1>1, <1>2, <3>2 DEF QuoteInv, SweptAreDead
  <2> QED
    BY <2>1, <2>2 DEF SweptAreDead
<1>4. RunsAreOwned'
  <2>1. ASSUME NEW d \in Calls, call'[d].run \in Runs PROVE run'[call'[d].run] # "absent"
    <3>1. CASE d = c
      BY <1>1, <3>1
    <3>2. CASE d # c
      BY <1>1, <2>1, <3>2 DEF SameWork, QuoteInv, RunsAreOwned
    <3> QED
      BY <3>1, <3>2
  <2>2. ASSUME NEW d \in Calls, d # c PROVE call'[d].run # call'[c].run
    <3>1. call'[d].run = call[d].run
      BY <2>2 DEF SameWork
    <3>2. CASE call'[c].run = call[c].run /\ call[c].phase \in Working
      BY <2>2, <3>1, <3>2 DEF QuoteInv, RunsAreOwned
    <3>3. CASE run[call'[c].run] = "absent"
      BY <3>1, <3>3 DEF QuoteInv, RunsAreOwned
    <3> QED
      BY <3>2, <3>3
  <2>3. ASSUME NEW d \in Calls, NEW e \in Calls, call'[d].run \in Runs,
               call'[d].run = call'[e].run PROVE d = e
    <3>1. CASE d # c /\ e # c
      BY <2>3, <3>1 DEF SameWork, QuoteInv, RunsAreOwned
    <3> QED
      BY <2>2, <2>3, <3>1
  <2>4. ASSUME NEW d \in Calls, call'[d].phase \in Working
        PROVE  run'[call'[d].run] \in {"running", "deleted"}
    <3>1. CASE d = c
      BY <1>1, <3>1
    <3>2. CASE d # c
      <4>1. SameWork(d) /\ call[d].run \in Runs
        BY <2>4, <3>2 DEF SameWork, QuoteInv, LifeInv, CallsFit, FitsPhase
      <4> QED
        BY <1>1, <2>4, <4>1 DEF SameWork, QuoteInv, RunsAreOwned
    <3> QED
      BY <3>1, <3>2
  <2>5. \A r \in Runs : run'[r] = "deleted" => meeting'.deleted
    BY <1>1 DEF QuoteInv, RunsAreOwned
  <2> QED
    BY <2>1, <2>3, <2>4, <2>5 DEF RunsAreOwned
<1>5. OneAtWork'
  <2> SUFFICES ASSUME ~meeting.deleted
               PROVE  /\ \A d, e \in Calls : call'[d].phase \in Working /\ call'[e].phase \in Working => d = e
                      /\ \A d \in Calls : call'[d].phase = "matching" =>
                           \A m \in ByRuns : m.quote # Purged => m.quote \notin call'[d].said
                      /\ \A d \in Calls : call'[d].phase = "persisting" =>
                           /\ \A p \in call'[d].plan : \A m \in ByRuns : m.quote # Purged => m.quote # p.quote
                           /\ \A p, q \in call'[d].plan : p.quote = q.quote => p = q
    BY <1>1 DEF OneAtWork
  <2>1. \A d \in Calls : d # c => call'[d].phase \notin Working
    <3>1. \A d \in Calls : d # c => call[d].phase \notin Working
      <4>1. CASE call[c].phase \in Working
        BY <4>1 DEF QuoteInv, OneAtWork
      <4>2. CASE \A r \in Runs : run[r] # "running"
        BY <4>2 DEF QuoteInv, RunsAreOwned, LifeInv, CallsFit, FitsPhase
      <4> QED
        BY <4>1, <4>2
    <3> QED
      BY <3>1 DEF SameWork
  <2>2. \A d \in Calls : call'[d].phase \in {"matching", "persisting"} => d = c
    BY <2>1 DEF Working
  <2> QED
    BY <2>1, <2>2
<1>6. NoQuoteTwice'
  BY DEF QuoteInv, NoQuoteTwice
<1> QED
  BY <1>3, <1>4, <1>5, <1>6 DEF QuoteInv

\* What is neither a call's own record nor a run changes no work.
LEMMA OutsideQuietly ==
  ASSUME QuoteInv, LifeInv', (\E i \in OldInsights : InsightLeaves(i)) \/ SweepBlob \/ UNCHANGED lifeVars
  PROVE  QuoteInv'
<1>1. UNCHANGED <<meeting, run, mention, call, daily>>
  BY DEF InsightLeaves, SweepBlob, lifeVars, others
<1>2. /\ \A d \in Calls : SameWork(d)
      /\ ByRuns' \subseteq ByRuns /\ daily' \subseteq daily
      /\ meeting'.deleted = meeting.deleted /\ run' = run
  BY <1>1 DEF SameWork, ByRuns
<1> QED
  BY <1>2, QuietKeeps

\* The two reads of the sweep: what they find has nobody left to commit it.
LEMMA SweepsReadTheDead ==
  ASSUME QuoteInv, LifeInv', ~SweepsLive, DailyRead \/ \E c \in Calls : ReadStale(c)
  PROVE  QuoteInv'
<1>1. /\ call \in [Calls -> CallRecord]
      /\ \A r \in Stale : r \in Runs /\ ~Alive(r) /\ run[r] # "absent"
  BY DEF QuoteInv, LifeInv, CallsFit, Stale
<1>2. /\ UNCHANGED <<meeting, run, mention>> /\ ByRuns' = ByRuns
  BY DEF DailyRead, ReadStale, rows, ByRuns
<1>3. CASE DailyRead
  <2>1. call' = call /\ daily' = Stale
    BY <1>3 DEF DailyRead
  <2>2. SweptAreDead'
    <3>1. \A r \in Stale : ~Alive(r)'
      BY <1>1, <2>1 DEF Alive
    <3>2. \A r \in daily' : ~Alive(r)' /\ run'[r] # "absent"
      BY <1>1, <1>2, <2>1, <3>1
    <3>3. \A c \in Calls : call[c].phase = "sweeping" =>
            \A r \in call[c].read : ~Alive(r) /\ run[r] # "absent"
      BY DEF QuoteInv, SweptAreDead
    <3> QED
      BY <1>2, <2>1, <3>2, <3>3 DEF SweptAreDead, Alive
  <2> QED
    BY <1>2, <2>1, <2>2 DEF QuoteInv, RunsAreOwned, OneAtWork, NoQuoteTwice
<1>4. ASSUME NEW c \in Calls, ReadStale(c) PROVE QuoteInv'
  <2>1. /\ call' = [call EXCEPT ![c].phase = "sweeping", ![c].read = Stale] /\ daily' = daily
        /\ call[c].phase = "begun"
    BY <1>4 DEF ReadStale, others
  <2>2. /\ \A d \in Calls : d # c => SameWork(d)
        /\ call'[c].run = call[c].run /\ call'[c].phase = "sweeping" /\ call'[c].read = Stale
    BY <1>1, <2>1, CallFields DEF SameWork
  <2>3. \A r : Alive(r)' => Alive(r)
    BY <2>2 DEF Alive, SameWork
  <2>4. SweptAreDead'
    <3>1. \A r \in daily : ~Alive(r)' /\ run'[r] # "absent"
      BY <1>2, <2>3 DEF QuoteInv, SweptAreDead
    <3>2. \A r \in Stale : ~Alive(r)' /\ run'[r] # "absent"
      BY <1>1, <1>2, <2>3
    <3>3. ASSUME NEW d \in Calls, d # c, call'[d].phase = "sweeping", NEW r \in call'[d].read
          PROVE  ~Alive(r)' /\ run'[r] # "absent"
      <4>1. call[d].phase = "sweeping" /\ r \in call[d].read
        BY <2>2, <3>3 DEF SameWork
      <4> QED
        BY <1>2, <2>3, <4>1 DEF QuoteInv, SweptAreDead
    <3> QED
      BY <2>1, <2>2, <3>1, <3>2, <3>3 DEF SweptAreDead
  <2>5. RunsAreOwned'
    <3>1. \A d \in Calls : call'[d].run = call[d].run /\ (call'[d].phase \in Working => call[d].phase \in Working)
      BY <2>2 DEF SameWork, Working
    <3> QED
      BY <1>2, <3>1 DEF QuoteInv, RunsAreOwned
  <2>6. OneAtWork'
    <3>1. \A d \in Calls : call'[d].phase \in Working => SameWork(d)
      BY <2>2 DEF Working
    <3>2. \A d \in Calls : /\ call'[d].phase \in Working => call[d].phase \in Working
                           /\ call'[d].phase = "matching" => call[d].phase = "matching" /\ call'[d].said = call[d].said
                           /\ call'[d].phase = "persisting" => call[d].phase = "persisting" /\ call'[d].plan = call[d].plan
      BY <3>1 DEF SameWork, Working
    <3> QED
      BY <1>2, <3>2 DEF QuoteInv, OneAtWork
  <2> QED
    BY <1>2, <2>4, <2>5, <2>6 DEF QuoteInv, NoQuoteTwice
<1> QED
  BY <1>3, <1>4

\* A run starts, reads its candidates, and matches them.
LEMMA RunsGoOn ==
  ASSUME QuoteInv, LifeInv', NEW c \in Calls, InsertRun(c) \/ ReadCandidates(c) \/ MatchCandidates(c)
  PROVE  QuoteInv'
<1>1. /\ LifeInv /\ call \in [Calls -> CallRecord] /\ FitsPhase(call[c])
      /\ run \in [Runs -> {"absent", "running", "succeeded", "failed", "deleted"}]
  BY DEF QuoteInv, LifeInv, CallsFit, RowsShape
<1>2. /\ UNCHANGED <<daily, mention>> /\ meeting' = meeting /\ ByRuns' = ByRuns
  BY DEF InsertRun, ReadCandidates, MatchCandidates, rows, others, ByRuns
<1>3. CASE InsertRun(c)
  <2>1. PICK r \in Runs : /\ run[r] = "absent" /\ run' = [run EXCEPT ![r] = "running"]
                          /\ call' = [call EXCEPT ![c].phase = "running", ![c].run = r]
                          /\ \A x \in Runs : run[x] # "running"
    BY <1>3 DEF InsertRun
  <2>2. /\ \A d \in Calls : d # c => SameWork(d)
        /\ call'[c].phase = "running" /\ call'[c].run = r
    BY <1>1, <2>1, CallFields DEF SameWork
  <2> QED
    BY <1>2, <2>1, <2>2, WorkGoesOn DEF Working
<1>4. CASE ReadCandidates(c)
  <2>1. PICK found \in SUBSET call[c].said :
          call' = [call EXCEPT ![c].phase = "matching", ![c].said = found \ Recorded]
    BY <1>4 DEF ReadCandidates
  <2>2. call[c].phase = "running" /\ run' = run /\ call[c].run \in Runs
    BY <1>1, <1>4 DEF ReadCandidates, rows, FitsPhase, Working
  <2>3. /\ \A d \in Calls : d # c => SameWork(d)
        /\ call'[c].phase = "matching" /\ call'[c].run = call[c].run
        /\ call'[c].said = found \ Recorded
    BY <1>1, <2>1, CallFields DEF SameWork
  <2>4. \A m \in ByRuns : m.quote # Purged => m.quote \notin call'[c].said
    BY <2>3 DEF ByRuns, Recorded
  <2> QED
    BY <1>2, <2>2, <2>3, <2>4, WorkGoesOn DEF Working
<1>5. CASE MatchCandidates(c)
  <2>1. PICK plan \in Plans :
           /\ call' = [call EXCEPT ![c].phase = "persisting", ![c].said = {}, ![c].plan = plan]
           /\ \A a \in plan : a.quote \in call[c].said
           /\ \A a, b \in plan : a.quote = b.quote => a = b
    BY <1>1, <1>5, MatchingPlans
  <2>2. call[c].phase = "matching" /\ run' = run /\ call[c].run \in Runs
    BY <1>1, <1>5 DEF MatchCandidates, rows, FitsPhase, Working
  <2>3. /\ \A d \in Calls : d # c => SameWork(d)
        /\ call'[c].phase = "persisting" /\ call'[c].run = call[c].run
        /\ call'[c].plan = plan
    BY <1>1, <2>1, CallFields DEF SameWork
  <2>4. ~meeting.deleted => \A p \in plan : \A m \in ByRuns : m.quote # Purged => m.quote # p.quote
    BY <2>1, <2>2 DEF QuoteInv, OneAtWork
  <2> QED
    BY <1>2, <2>1, <2>2, <2>3, <2>4, WorkGoesOn DEF Working
<1> QED
  BY <1>3, <1>4, <1>5

\* The persisting transaction records what no run has recorded, each quote once.
LEMMA PersistRecordsOnce ==
  ASSUME QuoteInv, LifeInv', NEW c \in Calls, Persist(c)
  PROVE  QuoteInv'
<1>1. /\ LifeInv /\ call \in [Calls -> CallRecord] /\ FitsPhase(call[c]) /\ meeting \in MeetingFields
      /\ run \in [Runs -> {"absent", "running", "succeeded", "failed", "deleted"}]
  BY DEF QuoteInv, LifeInv, CallsFit, RowsShape
<1>2. PICK added \in SUBSET MentionRow :
           /\ mention' = mention \cup added
           /\ call' = [call EXCEPT ![c].phase = "syncing", ![c].plan = {},
                                   ![c].touched = {m.insight : m \in added}]
           /\ \A m \in added : m.by = call[c].run /\ \E p \in call[c].plan : m.quote = p.quote
           /\ (\A a, b \in call[c].plan : a.quote = b.quote => a = b) =>
                \A a, b \in added : a.quote = b.quote => a = b
  BY <1>1, PersistAdds
<1>3. /\ call[c].phase = "persisting" /\ call[c].run \in Runs /\ daily' = daily
      /\ run' = [run EXCEPT ![call[c].run] = IF @ = "deleted" THEN @ ELSE "succeeded"]
      /\ meeting' = [meeting EXCEPT !.status = "extracted"]
  BY <1>1 DEF Persist, others, FitsPhase, Working
<1>4. meeting'.deleted = meeting.deleted
  BY <1>1, <1>3 DEF MeetingFields
<1>5. /\ \A d \in Calls : d # c => SameWork(d)
      /\ call'[c].phase = "syncing" /\ call'[c].run = call[c].run
  BY <1>1, <1>2, CallFields DEF SameWork
<1>6. /\ \A d \in Calls : call'[d].run = call[d].run
      /\ \A d \in Calls : call'[d].phase \in Working \cup {"sweeping"} => d # c /\ SameWork(d)
  BY <1>5 DEF SameWork, Working
<1>7. \A d \in Calls : call[d].run = call[c].run => d = c
  BY <1>3 DEF QuoteInv, RunsAreOwned
<1>8. /\ \A r \in Runs : r # call[c].run => run'[r] = run[r]
      /\ \A r \in Runs : (run'[r] = "absent" <=> run[r] = "absent") /\ (run'[r] = "deleted" <=> run[r] = "deleted")
  <2>1. run[call[c].run] \in {"running", "deleted"}
    BY <1>3 DEF QuoteInv, RunsAreOwned, Working
  <2> QED
    BY <1>1, <1>3, <2>1
<1>9. SweptAreDead'
  <2>1. \A r : Alive(r)' => Alive(r)
    BY <1>6 DEF Alive
  <2>2. \A r \in daily : ~Alive(r)' /\ run'[r] # "absent"
    BY <1>1, <1>8, <2>1 DEF QuoteInv, SweptAreDead, LifeInv, RowsShape
  <2>3. ASSUME NEW d \in Calls, call'[d].phase = "sweeping", NEW r \in call'[d].read
        PROVE  ~Alive(r)' /\ run'[r] # "absent"
    <3>1. call[d].phase = "sweeping" /\ r \in call[d].read /\ r \in Runs
      BY <1>6, <2>3 DEF SameWork, LifeInv, QuoteInv, CallsFit, FitsPhase
    <3> QED
      BY <1>8, <2>1, <3>1 DEF QuoteInv, SweptAreDead
  <2> QED
    BY <1>3, <2>2, <2>3 DEF SweptAreDead
<1>10. RunsAreOwned'
  <2>1. ASSUME NEW d \in Calls, call'[d].phase \in Working PROVE run'[call'[d].run] \in {"running", "deleted"}
    <3>1. d # c /\ call[d].phase \in Working /\ call[d].run \in Runs /\ call'[d].run = call[d].run
      BY <1>6, <2>1 DEF SameWork, QuoteInv, LifeInv, CallsFit, FitsPhase
    <3>2. call[d].run # call[c].run
      BY <1>7, <3>1
    <3> QED
      BY <1>8, <3>1, <3>2 DEF QuoteInv, RunsAreOwned
  <2>2. /\ \A d \in Calls : call'[d].run \in Runs => run'[call'[d].run] # "absent"
        /\ \A d, e \in Calls : call'[d].run \in Runs /\ call'[d].run = call'[e].run => d = e
        /\ \A r \in Runs : run'[r] = "deleted" => meeting'.deleted
    BY <1>4, <1>6, <1>8 DEF QuoteInv, RunsAreOwned
  <2> QED
    BY <2>1, <2>2 DEF RunsAreOwned
<1>11. OneAtWork'
  <2> SUFFICES ASSUME ~meeting.deleted PROVE \A d \in Calls : call'[d].phase \notin Working
    BY <1>4 DEF OneAtWork, Working
  <2> QED
    BY <1>3, <1>6 DEF QuoteInv, OneAtWork, SameWork, Working
<1>12. NoQuoteTwice'
  <2> SUFFICES ASSUME ~meeting.deleted, NEW a \in mention', NEW b \in mention', a.by \in Runs, b.by \in Runs,
                      a.quote # Purged, b.quote # Purged, a.quote = b.quote
               PROVE  a = b
    BY <1>4 DEF NoQuoteTwice
  <2>1. /\ \A p \in call[c].plan : \A m \in ByRuns : m.quote # Purged => m.quote # p.quote
        /\ \A p, q \in call[c].plan : p.quote = q.quote => p = q
    BY <1>3 DEF QuoteInv, OneAtWork
  <2>2. a \in added \/ a \in ByRuns
    BY <1>2 DEF ByRuns
  <2>3. b \in added \/ b \in ByRuns
    BY <1>2 DEF ByRuns
  <2>4. CASE a \in added /\ b \in added
    BY <1>2, <2>1, <2>4
  <2>5. CASE a \in ByRuns /\ b \in ByRuns
    BY <2>5 DEF QuoteInv, NoQuoteTwice, ByRuns
  <2>6. CASE a \in added /\ b \in ByRuns
    BY <1>2, <2>1, <2>6
  <2>7. CASE a \in ByRuns /\ b \in added
    BY <1>2, <2>1, <2>7
  <2> QED
    BY <2>2, <2>3, <2>4, <2>5, <2>6, <2>7
<1> QED
  BY <1>9, <1>10, <1>11, <1>12 DEF QuoteInv

\* Initially nobody has written a mention.
LEMMA QuoteStart == LifeInit => QuoteInv
<1> SUFFICES ASSUME LifeInit PROVE QuoteInv
  OBVIOUS
<1>1. /\ LifeInv /\ daily = {} /\ mention = {} /\ run = [r \in Runs |-> "absent"]
      /\ call = [c \in Calls |-> Resting]
  BY LifeStart DEF LifeInit
<1>2. \A c \in Calls : call[c].phase = "idle" /\ call[c].run = "none"
  BY <1>1, RestingFits
<1> QED
  BY <1>1, <1>2, RunsAssumption DEF QuoteInv, SweptAreDead, RunsAreOwned, OneAtWork, NoQuoteTwice, Working

\* Every step keeps the account of who wrote which mention.
LEMMA QuoteStep ==
  ASSUME ~SweepsLive PROVE QuoteInv /\ [LifeNext]_lifeVars => QuoteInv'
<1> SUFFICES ASSUME QuoteInv, [LifeNext]_lifeVars PROVE QuoteInv'
  OBVIOUS
<1>1. LifeInv'
  BY LifeStep DEF QuoteInv
<1>2. ASSUME NEW c \in Calls, Begin(c) \/ Step(c) \/ Crash(c) PROVE QuoteInv'
  BY <1>1, <1>2, QuietCallSteps, RunsEndQuietly, SweepsReadTheDead, RunsGoOn, PersistRecordsOnce DEF Step
<1> QED
  BY <1>1, <1>2, OutsideQuietly, RunsEndQuietly, SweepsReadTheDead DEF LifeNext

\* Extracting a meeting again, after a failure, a crash or by force, never records a quote of it
\* a second time while the meeting stands, as long as a function is cut off before its run is known
\* enough to be swept.
THEOREM QuotesNeverTwice ==
  ASSUME ~SweepsLive PROVE LifeSpec => []NoQuoteTwice
<1>1. QuoteInv => NoQuoteTwice
  BY DEF QuoteInv
<1> QED
  BY <1>1, QuoteStart, QuoteStep, PTL DEF LifeSpec

----------------------------------------------------------------------------
(*****************************************************************************)
(* MeetingIntake.  IntakeExact needs what an upload knows between its steps: *)
(* the number it has read (NumbersRead), the object it writes a row for      *)
(* (PutBacked) or removes (MismatchedIsCut), that every charge given back by *)
(* mistake has its meeting (UnpaidHaveMeetings), and that a sweep is only at *)
(* keys that were old when it listed them (SweepIsOld).                      *)
(*****************************************************************************)

MeetingRow ==
  [seq : Nat \ {0}, sha : Shas, deleted : BOOLEAN, looked : Nat, audio : Keys \cup {None}]
AssetRow == [row : {"none", "live", "purged"}, sha : Shas \cup {None}, for : Nat]
Kinds == {None, "direct", "inline", "file", "text"}
UploadPhases ==
  {"idle", "reserved", "fresh", "unmeasured", "mismatched", "put", "stored", "numbered", "made",
   "refund"}
UploadRecord ==
  [phase : UploadPhases, kind : Kinds, sha : Shas \cup {None}, key : Keys \cup {None}, seq : Nat,
   looked : Nat]
ObjectStates == {"unissued", "issued", "whole", "cut", "removed", "emptied"}
FolderRecord == [ulid : Nat, inside : BOOLEAN]
SweepRecord ==
  [phase : {"idle", "listed", "opened", "compared"}, keys : SUBSET Keys, at : Keys \cup {None}]
BusyUploads == {u \in Uploads : ~At(u, "idle") /\ ~At(u, "made")}
MadeUploads == {u \in Uploads : At(u, "made")}

\* Types, and what an upload has by when it needs it.
IntakeShape ==
  /\ mix \in Mixes
  /\ meetings \in Seq(MeetingRow)
  /\ claimed \in [Shas -> Nat]
  /\ asset \in [Keys -> AssetRow]
  /\ store \in [Keys -> ObjectStates]
  /\ folder \in [Keys -> FolderRecord]
  /\ old \in SUBSET Keys /\ late \in SUBSET Keys
  /\ up \in [Uploads -> UploadRecord]
  /\ used \in Nat /\ lost \in Nat /\ unpaid \in Nat
  /\ sweep \in SweepRecord
  /\ \A u \in Uploads :
       /\ ~At(u, "idle") => up[u].sha \in Shas
       /\ up[u].phase \in {"put", "unmeasured", "mismatched"} \/ up[u].kind = "direct" => up[u].key \in Keys

\* A number that was read is at most one beyond the numbers taken by now.
NumbersRead ==
  \A u \in Uploads : At(u, "numbered") => up[u].seq \in 1 .. (Len(meetings) + 1)

\* A charge given back although the meeting was stored has that meeting, and an upload whose
\* meeting is stored has its own.
UnpaidHaveMeetings == unpaid + Cardinality(MadeUploads) <= Len(meetings)

\* The object was whole, and is, or a sweep, a purge or a refusal has removed it.
WasWhole(k) == store[k] \in {"whole", "removed", "emptied"}
WasCut(k) == store[k] \in {"cut", "removed", "emptied"}

\* Rows are written for whole objects only.
RowsHaveFiles == \A k \in Keys : asset[k].row # "none" => WasWhole(k)

\* A row is written for an object that is there, or was, before a sweep or a purge.
PutBacked ==
  \A u \in Uploads : At(u, "put") =>
    /\ WasWhole(up[u].key)
    /\ \/ store[up[u].key] = "whole"
       \/ up[u].key \in old
       \/ asset[up[u].key].row # "none"

\* An object of another size never becomes a whole one.
MismatchedIsCut == \A u \in Uploads : At(u, "mismatched") => WasCut(up[u].key)

\* The sweep's keys are old, and a row of the one it is about to remove was written late.
SweepIsOld ==
  /\ sweep.keys \subseteq old
  /\ sweep.phase \in {"opened", "compared"} => sweep.at \in sweep.keys
  /\ sweep.phase = "compared" /\ asset[sweep.at].row = "live" => sweep.at \in late

IntakeInv ==
  /\ IntakeShape /\ NumbersRead /\ SeqsDense /\ QuotaCounts /\ UnpaidHaveMeetings
  /\ RowsHaveFiles /\ PutBacked /\ MismatchedIsCut /\ SweepIsOld /\ RecordingsKept

----------------------------------------------------------------------------
\* The rows of the meetings, by number.
LEMMA MeetingsAreASequence ==
  ASSUME IntakeShape
  PROVE  /\ Len(meetings) \in Nat /\ DOMAIN meetings = 1 .. Len(meetings)
         /\ \A m \in 1 .. Len(meetings) :
              meetings[m] \in MeetingRow /\ meetings[m].seq \in Nat
<1>1. meetings \in Seq(MeetingRow)
  BY DEF IntakeShape
<1>2. Len(meetings) \in Nat /\ \A m \in 1 .. Len(meetings) : meetings[m] \in MeetingRow
  BY <1>1
<1> QED
  BY <1>1, <1>2 DEF MeetingRow

\* Uploads in flight are finitely many.
LEMMA UploadsAreCounted ==
  ASSUME NEW S \in SUBSET Uploads PROVE IsFiniteSet(S) /\ Cardinality(S) \in Nat
<1>1. IsFiniteSet(S)
  BY UploadsAssumption, FS_Subset
<1> QED
  BY <1>1, FS_CardinalityType

\* How many of them there are when one of them comes or goes.
LEMMA OneComesOrGoes ==
  ASSUME NEW S \in SUBSET Uploads, NEW T \in SUBSET Uploads, NEW u \in Uploads,
         \A v \in Uploads : v # u => (v \in T <=> v \in S)
  PROVE  /\ u \in S /\ u \in T => Cardinality(T) = Cardinality(S)
         /\ u \notin S /\ u \notin T => Cardinality(T) = Cardinality(S)
         /\ u \notin S /\ u \in T => Cardinality(T) = Cardinality(S) + 1
         /\ u \in S /\ u \notin T => Cardinality(S) = Cardinality(T) + 1
<1>1. IsFiniteSet(S) /\ IsFiniteSet(T)
  BY UploadsAreCounted
<1>2. /\ u \in S /\ u \in T => T = S
      /\ u \notin S /\ u \notin T => T = S
      /\ u \notin S /\ u \in T => T = S \cup {u}
      /\ u \in S /\ u \notin T => S = T \cup {u}
  OBVIOUS
<1> QED
  BY <1>1, <1>2, FS_AddElement

\* The record of an upload that is not there.
LEMMA WaitingIsQuiet ==
  /\ Waiting \in UploadRecord /\ Waiting.phase = "idle" /\ Waiting.kind = "none"
  /\ Waiting.key = "none"
<1>1. None \in Kinds /\ None = "none"
  BY DEF Kinds, None
<1> QED
  BY <1>1 DEF Waiting, UploadRecord, UploadPhases

\* Initially there are no meetings and no keys.
LEMMA IntakeStart == IntakeInit => IntakeInv
<1> SUFFICES ASSUME IntakeInit PROVE IntakeInv
  OBVIOUS
<1>1. /\ mix \in Mixes /\ meetings = <<>> /\ used = 0 /\ lost = 0 /\ unpaid = 0 /\ old = {}
      /\ late = {} /\ claimed \in [Shas -> Nat] /\ sweep = NoSweep
      /\ asset = [k \in Keys |-> NoAsset] /\ up = [u \in Uploads |-> Waiting]
      /\ store \in [Keys -> ObjectStates] /\ folder = [k \in Keys |-> Unnamed]
  BY DEF IntakeInit, ObjectStates
<1>2. /\ NoAsset \in AssetRow /\ NoAsset.row = "none" /\ NoSweep \in SweepRecord
      /\ NoSweep.keys = {} /\ NoSweep.phase = "idle" /\ Unnamed \in FolderRecord
  BY DEF NoAsset, AssetRow, NoSweep, SweepRecord, None, Unnamed, FolderRecord
<1>3. /\ asset \in [Keys -> AssetRow] /\ up \in [Uploads -> UploadRecord]
      /\ folder \in [Keys -> FolderRecord]
      /\ \A u \in Uploads : up[u] = Waiting
  BY <1>1, <1>2, WaitingIsQuiet
<1>4. meetings \in Seq(MeetingRow) /\ Len(meetings) = 0
  BY <1>1
<1>5. IntakeShape
  BY <1>1, <1>2, <1>3, <1>4, WaitingIsQuiet DEF IntakeShape, At
<1>6. NumbersRead /\ PutBacked /\ MismatchedIsCut /\ RowsHaveFiles /\ SweepIsOld /\ RecordingsKept
  BY <1>1, <1>2, <1>3, WaitingIsQuiet
     DEF NumbersRead, PutBacked, MismatchedIsCut, RowsHaveFiles, SweepIsOld, RecordingsKept, At
<1>7. SeqsDense
  BY <1>1, <1>4 DEF SeqsDense
<1>8. Cardinality({u \in Uploads : ~At(u, "idle") /\ ~At(u, "made")}) = 0 /\ Cardinality(MadeUploads) = 0
  <2>1. {u \in Uploads : ~At(u, "idle") /\ ~At(u, "made")} = {} /\ MadeUploads = {}
    BY <1>3, WaitingIsQuiet DEF At, MadeUploads
  <2> QED
    BY <2>1, FS_EmptySet
<1>9. QuotaCounts /\ UnpaidHaveMeetings
  BY <1>1, <1>4, <1>8, QuotaAssumption DEF QuotaCounts, UnpaidHaveMeetings
<1> QED
  BY <1>5, <1>6, <1>7, <1>9 DEF IntakeInv

----------------------------------------------------------------------------
\* One upload's record is replaced.
Becomes(u, q) == up' = [up EXCEPT ![u] = q]

\* A step of an upload changes its own record only.
LEMMA UploadChanges ==
  ASSUME IntakeShape, NEW u \in Uploads, NEW q \in UploadRecord, Becomes(u, q)
  PROVE  /\ up' \in [Uploads -> UploadRecord] /\ up'[u] = q
         /\ \A v \in Uploads : v # u => up'[v] = up[v]
         /\ up[u] \in UploadRecord
BY DEF IntakeShape, Becomes

\* Is the request under way, with its meeting yet to come?
UploadUnderWay(phase) == phase \notin {"idle", "made"}

\* The quota when a request goes on, comes in, stores its meeting, or is over.
LEMMA QuotaKept ==
  ASSUME IntakeShape, QuotaCounts, UnpaidHaveMeetings, NEW u \in Uploads, NEW q \in UploadRecord,
         Becomes(u, q), mix' = mix,
         used' \in Nat, Len(meetings') \in Nat, lost' \in Nat, unpaid' \in Nat,
         \/ /\ UploadUnderWay(q.phase) /\ UploadUnderWay(up[u].phase)
            /\ UNCHANGED <<used, lost, unpaid>> /\ Len(meetings') = Len(meetings)
         \/ /\ At(u, "idle") /\ UploadUnderWay(q.phase)
            /\ Hosted => used < Quota /\ used' = used + 1
            /\ UNCHANGED <<lost, unpaid>> /\ Len(meetings') = Len(meetings)
         \/ /\ UploadUnderWay(up[u].phase) /\ q.phase = "made"
            /\ UNCHANGED <<used, lost, unpaid>> /\ Len(meetings') = Len(meetings) + 1
         \/ /\ At(u, "made") /\ q.phase = "idle"
            /\ UNCHANGED <<used, lost, unpaid>> /\ Len(meetings') = Len(meetings)
         \/ /\ At(u, "made") /\ UploadUnderWay(q.phase) /\ unpaid' = IF Hosted THEN unpaid + 1 ELSE unpaid
            /\ UNCHANGED <<used, lost>> /\ Len(meetings') = Len(meetings)
         \/ /\ UploadUnderWay(up[u].phase) /\ q.phase = "idle" /\ Len(meetings') = Len(meetings)
            /\ unpaid' = unpaid
            /\ Hosted => \/ used' = used /\ lost' = lost + 1
                         \/ used' = (IF used > 0 THEN used - 1 ELSE used) /\ lost' = lost
  PROVE  QuotaCounts' /\ UnpaidHaveMeetings'
<1>1. /\ up' \in [Uploads -> UploadRecord] /\ up'[u] = q
      /\ \A v \in Uploads : v # u => up'[v] = up[v]
  BY UploadChanges
<1>2. /\ Cardinality(BusyUploads) \in Nat /\ Len(meetings) \in Nat /\ Cardinality(MadeUploads) \in Nat
      /\ Cardinality(BusyUploads') \in Nat /\ Cardinality(MadeUploads') \in Nat
      /\ used \in Nat /\ lost \in Nat /\ unpaid \in Nat /\ Quota \in Nat
      /\ unpaid + Cardinality(MadeUploads) <= Len(meetings)
      /\ Hosted => used + unpaid = Len(meetings) + lost + Cardinality(BusyUploads) /\ used <= Quota
  <2>1. BusyUploads \in SUBSET Uploads /\ MadeUploads \in SUBSET Uploads
    BY DEF BusyUploads, MadeUploads
  <2>2. BusyUploads' \in SUBSET Uploads /\ MadeUploads' \in SUBSET Uploads
    BY DEF BusyUploads, MadeUploads
  <2> QED
    BY <2>1, <2>2, UploadsAreCounted, MeetingsAreASequence, QuotaAssumption
       DEF QuotaCounts, UnpaidHaveMeetings, BusyUploads, IntakeShape
<1>3. /\ BusyUploads' = {v \in Uploads : UploadUnderWay(up'[v].phase)} /\ BusyUploads = {v \in Uploads : UploadUnderWay(up[v].phase)}
      /\ MadeUploads' = {v \in Uploads : up'[v].phase = "made"} /\ MadeUploads = {v \in Uploads : up[v].phase = "made"}
  BY DEF BusyUploads, MadeUploads, At, UploadUnderWay
<1>4. /\ \A v \in Uploads : v # u => (v \in BusyUploads' <=> v \in BusyUploads) /\ (v \in MadeUploads' <=> v \in MadeUploads)
      /\ u \in BusyUploads <=> UploadUnderWay(up[u].phase)
      /\ u \in BusyUploads' <=> UploadUnderWay(q.phase)
      /\ u \in MadeUploads <=> up[u].phase = "made"
      /\ u \in MadeUploads' <=> q.phase = "made"
  BY <1>1, <1>3
<1>5. /\ BusyUploads \in SUBSET Uploads /\ BusyUploads' \in SUBSET Uploads
      /\ MadeUploads \in SUBSET Uploads /\ MadeUploads' \in SUBSET Uploads
  BY <1>3
<1>6. /\ u \in BusyUploads /\ u \in BusyUploads' => Cardinality(BusyUploads') = Cardinality(BusyUploads)
      /\ u \notin BusyUploads /\ u \notin BusyUploads' => Cardinality(BusyUploads') = Cardinality(BusyUploads)
      /\ u \notin BusyUploads /\ u \in BusyUploads' => Cardinality(BusyUploads') = Cardinality(BusyUploads) + 1
      /\ u \in BusyUploads /\ u \notin BusyUploads' => Cardinality(BusyUploads) = Cardinality(BusyUploads') + 1
  BY <1>4, <1>5, OneComesOrGoes
<1>7. /\ u \in MadeUploads /\ u \in MadeUploads' => Cardinality(MadeUploads') = Cardinality(MadeUploads)
      /\ u \notin MadeUploads /\ u \notin MadeUploads' => Cardinality(MadeUploads') = Cardinality(MadeUploads)
      /\ u \notin MadeUploads /\ u \in MadeUploads' => Cardinality(MadeUploads') = Cardinality(MadeUploads) + 1
      /\ u \in MadeUploads /\ u \notin MadeUploads' => Cardinality(MadeUploads) = Cardinality(MadeUploads') + 1
  BY <1>4, <1>5, OneComesOrGoes
<1>8. Hosted' = Hosted
  BY DEF Hosted
<1> DEFINE b == Cardinality(BusyUploads)  c == Cardinality(BusyUploads')
           m == Cardinality(MadeUploads)  n == Cardinality(MadeUploads')
           k == Len(meetings)      j == Len(meetings')
<1> SUFFICES /\ unpaid' + n <= j
             /\ Hosted => used' + unpaid' = j + lost' + c /\ used' <= Quota
  BY <1>8 DEF QuotaCounts, UnpaidHaveMeetings, BusyUploads
<1>9. /\ used \in Nat /\ lost \in Nat /\ unpaid \in Nat /\ Quota \in Nat
      /\ b \in Nat /\ c \in Nat /\ m \in Nat /\ n \in Nat /\ k \in Nat /\ j \in Nat
      /\ unpaid + m <= k
      /\ Hosted => used + unpaid = k + lost + b /\ used <= Quota
  BY <1>2
<1>10. CASE /\ UploadUnderWay(q.phase) /\ UploadUnderWay(up[u].phase)
            /\ UNCHANGED <<used, lost, unpaid>> /\ Len(meetings') = Len(meetings)
  <2>1. c = b /\ n = m /\ j = k
    BY <1>4, <1>6, <1>7, <1>10 DEF UploadUnderWay
  <2> HIDE DEF b, c, m, n, k, j
  <2> QED
    BY <1>9, <1>10, <2>1
<1>11. CASE /\ At(u, "idle") /\ UploadUnderWay(q.phase)
            /\ Hosted => used < Quota /\ used' = used + 1
            /\ UNCHANGED <<lost, unpaid>> /\ Len(meetings') = Len(meetings)
  <2>1. c = b + 1 /\ n = m /\ j = k
    BY <1>4, <1>6, <1>7, <1>11 DEF UploadUnderWay, At
  <2> HIDE DEF b, c, m, n, k, j
  <2>3. unpaid' + n <= j
    BY <1>9, <1>11, <2>1
  <2>4. ASSUME Hosted PROVE used' + unpaid' = j + lost' + c /\ used' <= Quota
    <3>1. used' = used + 1 /\ used < Quota /\ unpaid' = unpaid /\ lost' = lost
      BY <1>11, <2>4
    <3> QED
      BY <1>9, <2>1, <2>4, <3>1
  <2> QED
    BY <2>3, <2>4
<1>12. CASE /\ UploadUnderWay(up[u].phase) /\ q.phase = "made"
            /\ UNCHANGED <<used, lost, unpaid>> /\ Len(meetings') = Len(meetings) + 1
  <2>1. b = c + 1 /\ n = m + 1 /\ j = k + 1
    BY <1>4, <1>6, <1>7, <1>12 DEF UploadUnderWay
  <2> HIDE DEF b, c, m, n, k, j
  <2> QED
    BY <1>9, <1>12, <2>1
<1>13. CASE /\ At(u, "made") /\ q.phase = "idle"
            /\ UNCHANGED <<used, lost, unpaid>> /\ Len(meetings') = Len(meetings)
  <2>1. c = b /\ m = n + 1 /\ j = k
    BY <1>4, <1>6, <1>7, <1>13 DEF UploadUnderWay, At
  <2> HIDE DEF b, c, m, n, k, j
  <2> QED
    BY <1>9, <1>13, <2>1
<1>14. CASE /\ At(u, "made") /\ UploadUnderWay(q.phase) /\ unpaid' = IF Hosted THEN unpaid + 1 ELSE unpaid
            /\ UNCHANGED <<used, lost>> /\ Len(meetings') = Len(meetings)
  <2>1. c = b + 1 /\ m = n + 1 /\ j = k
    BY <1>4, <1>6, <1>7, <1>14 DEF UploadUnderWay, At
  <2> HIDE DEF b, c, m, n, k, j
  <2> QED
    BY <1>9, <1>14, <2>1
<1>15. CASE /\ UploadUnderWay(up[u].phase) /\ q.phase = "idle" /\ Len(meetings') = Len(meetings)
            /\ unpaid' = unpaid
            /\ Hosted => \/ used' = used /\ lost' = lost + 1
                         \/ used' = (IF used > 0 THEN used - 1 ELSE used) /\ lost' = lost
  <2>1. b = c + 1 /\ n = m /\ j = k
    BY <1>4, <1>6, <1>7, <1>15 DEF UploadUnderWay
  <2> HIDE DEF b, c, m, n, k, j
  <2>2. Hosted => used > 0
    <3> SUFFICES ASSUME Hosted PROVE used > 0
      OBVIOUS
    <3>1. used + unpaid = k + lost + b /\ unpaid <= k /\ b >= 1
      BY <1>9, <2>1
    <3> QED
      BY <1>9, <3>1
  <2>3. unpaid' + n <= j
    BY <1>9, <1>15, <2>1
  <2>4. ASSUME Hosted PROVE used' + unpaid' = j + lost' + c /\ used' <= Quota
    <3>1. /\ unpaid' = unpaid
          /\ (used' = used /\ lost' = lost + 1) \/ (used' = used - 1 /\ lost' = lost)
      BY <1>15, <2>2, <2>4
    <3> QED
      BY <1>9, <2>1, <2>4, <3>1
  <2> QED
    BY <2>3, <2>4
<1> QED
  BY <1>10, <1>11, <1>12, <1>13, <1>14, <1>15

\* What an upload does between its reservation and its meeting, and after it.
LEMMA UploadKeeps ==
  ASSUME IntakeInv, NEW u \in Uploads, NEW q \in UploadRecord, Becomes(u, q),
         UNCHANGED <<mix, meetings, claimed, old, sweep>>,
         used' \in Nat, lost' \in Nat, unpaid' \in Nat, QuotaCounts', UnpaidHaveMeetings',
         asset' \in [Keys -> AssetRow], store' \in [Keys -> ObjectStates],
         folder' \in [Keys -> FolderRecord], late' \in SUBSET Keys,
         q.phase # "idle" => q.sha \in Shas,
         q.phase \in {"put", "unmeasured", "mismatched"} \/ q.kind = "direct" => q.key \in Keys,
         q.phase = "numbered" => q.seq \in 1 .. (Len(meetings) + 1),
         q.phase = "put" => store'[q.key] = "whole",
         q.phase = "mismatched" => WasCut(q.key)',
         late \subseteq late',
         \A k \in Keys : /\ asset[k].row # "none" => asset'[k].row # "none"
                         /\ asset'[k].row # "none" => WasWhole(k)'
                         /\ WasWhole(k) => WasWhole(k)'
                         /\ WasCut(k) => WasCut(k)'
                         /\ store[k] = "whole" => store'[k] = "whole"
                         /\ asset'[k].row = "live" => HasObject(k)' \/ k \in late'
                         /\ asset'[k].row = "live" => asset[k].row = "live" \/ k \notin old \/ k \in late'
  PROVE  IntakeInv'
<1>1. /\ up' \in [Uploads -> UploadRecord] /\ up'[u] = q
      /\ \A v \in Uploads : v # u => up'[v] = up[v]
  BY UploadChanges DEF IntakeInv
<1>2. IntakeShape'
  BY <1>1 DEF IntakeInv, IntakeShape, At
<1>3. NumbersRead' /\ SeqsDense'
  BY <1>1 DEF IntakeInv, NumbersRead, SeqsDense, At
<1>4. PutBacked'
  <2> SUFFICES ASSUME NEW v \in Uploads, up'[v].phase = "put"
               PROVE  /\ WasWhole(up[v].key)'
                      /\ \/ store'[up'[v].key] = "whole"
                         \/ up'[v].key \in old
                         \/ asset'[up'[v].key].row # "none"
    BY DEF PutBacked, At, WasWhole
  <2>1. CASE v = u
    BY <1>1, <2>1 DEF WasWhole
  <2>2. CASE v # u
    <3>1. up'[v] = up[v] /\ At(v, "put") /\ up[v].key \in Keys
      BY <1>1, <2>2 DEF IntakeInv, IntakeShape, At
    <3> QED
      BY <3>1 DEF IntakeInv, PutBacked
  <2> QED
    BY <2>1, <2>2
<1>5. MismatchedIsCut'
  <2> SUFFICES ASSUME NEW v \in Uploads, up'[v].phase = "mismatched" PROVE WasCut(up[v].key)'
    BY DEF MismatchedIsCut, At, WasCut
  <2>1. CASE v = u
    BY <1>1, <2>1
  <2>2. CASE v # u
    <3>1. up'[v] = up[v] /\ At(v, "mismatched") /\ up[v].key \in Keys
      BY <1>1, <2>2 DEF IntakeInv, IntakeShape, At
    <3> QED
      BY <3>1 DEF IntakeInv, MismatchedIsCut
  <2> QED
    BY <2>1, <2>2
<1>6. SweepIsOld'
  BY DEF IntakeInv, IntakeShape, SweepIsOld
<1>7. RecordingsKept' /\ RowsHaveFiles'
  BY DEF RecordingsKept, RowsHaveFiles
<1> QED
  BY <1>2, <1>3, <1>4, <1>5, <1>6, <1>7 DEF IntakeInv

\* A fresh key gets its name.
LEMMA KeyIsNamed ==
  ASSUME folder \in [Keys -> FolderRecord], NEW k \in Keys, NEW inside \in BOOLEAN,
         IssueKey(k, inside)
  PROVE  store[k] = "unissued" /\ folder' \in [Keys -> FolderRecord]
<1>1. Cardinality({j \in Keys : store[j] # "unissued"}) \in Nat
  <2>1. IsFiniteSet({j \in Keys : store[j] # "unissued"})
    BY KeysAssumption, FS_Subset
  <2> QED
    BY <2>1, FS_CardinalityType
<1> DEFINE n == Cardinality({j \in Keys : store[j] # "unissued"})
<1> HIDE DEF n
<1>2. store[k] = "unissued" /\ folder' = [folder EXCEPT ![k] = [ulid |-> n + 1, inside |-> inside]]
  BY DEF IssueKey, n
<1>3. n \in Nat
  BY <1>1 DEF n
<1>4. [ulid |-> n + 1, inside |-> inside] \in FolderRecord
  BY <1>3 DEF FolderRecord
<1> QED
  BY <1>2, <1>4

\* An upload goes on, or is over, and what it stored stays as it is.
LEMMA UploadMoves ==
  ASSUME IntakeInv, NEW u \in Uploads, NEW q \in UploadRecord, Becomes(u, q),
         UNCHANGED <<mix, meetings, claimed, asset, store, folder, old, sweep, late>>,
         used' \in Nat, lost' \in Nat, unpaid' \in Nat, QuotaCounts', UnpaidHaveMeetings',
         q.phase # "idle" => q.sha \in Shas,
         q.phase \in {"put", "unmeasured", "mismatched"} \/ q.kind = "direct" => q.key \in Keys,
         q.phase = "numbered" => q.seq \in 1 .. (Len(meetings) + 1),
         q.phase = "put" => store[q.key] = "whole",
         q.phase = "mismatched" => store[q.key] = "cut"
  PROVE  IntakeInv'
<1>1. /\ asset \in [Keys -> AssetRow] /\ store \in [Keys -> ObjectStates]
      /\ folder \in [Keys -> FolderRecord] /\ late \in SUBSET Keys
      /\ RecordingsKept /\ RowsHaveFiles
  BY DEF IntakeInv, IntakeShape
<1>2. \A k \in Keys : /\ WasWhole(k)' = WasWhole(k) /\ WasCut(k)' = WasCut(k)
                      /\ HasObject(k)' = HasObject(k)
  BY DEF WasWhole, WasCut, HasObject
<1>3. q.phase = "mismatched" => WasCut(q.key)'
  BY DEF WasCut
<1>4. \A k \in Keys : /\ asset[k].row # "none" => asset'[k].row # "none"
                      /\ asset'[k].row # "none" => WasWhole(k)'
                      /\ asset'[k].row = "live" => HasObject(k)' \/ k \in late'
  BY <1>1, <1>2 DEF RecordingsKept, RowsHaveFiles
<1>5. /\ asset' \in [Keys -> AssetRow] /\ store' \in [Keys -> ObjectStates]
      /\ folder' \in [Keys -> FolderRecord] /\ late' \in SUBSET Keys
      /\ late \subseteq late' /\ asset' = asset
      /\ q.phase = "put" => store'[q.key] = "whole"
      /\ \A k \in Keys : store[k] = "whole" => store'[k] = "whole"
  BY <1>1
<1> QED
  BY <1>2, <1>3, <1>4, <1>5, UploadKeeps

\* Such a step that only changes the phase.
LEMMA UploadGoes ==
  ASSUME IntakeInv, NEW u \in Uploads,
         NEW phase \in {"fresh", "unmeasured", "mismatched", "put", "stored", "refund"},
         Goto(u, phase), ~At(u, "idle"),
         UNCHANGED <<mix, meetings, claimed, asset, store, folder, old, used, sweep, late, lost>>,
         phase \in {"put", "unmeasured", "mismatched"} => up[u].key \in Keys,
         phase = "put" => store[up[u].key] = "whole",
         phase = "mismatched" => store[up[u].key] = "cut",
         unpaid' = IF At(u, "made") /\ Hosted THEN unpaid + 1 ELSE unpaid
  PROVE  IntakeInv'
<1> DEFINE q == [up[u] EXCEPT !.phase = phase]
<1>1. /\ IntakeShape /\ QuotaCounts /\ UnpaidHaveMeetings /\ up[u] \in UploadRecord
      /\ used \in Nat /\ lost \in Nat /\ unpaid \in Nat /\ Len(meetings) \in Nat
  BY MeetingsAreASequence DEF IntakeInv, IntakeShape
<1>2. /\ q \in UploadRecord /\ q.phase = phase /\ q.sha = up[u].sha /\ q.key = up[u].key
      /\ q.kind = up[u].kind
  BY <1>1 DEF UploadRecord, UploadPhases
<1>3. Becomes(u, q)
  BY DEF Goto, Becomes
<1>4. /\ q.sha \in Shas /\ UploadUnderWay(q.phase) /\ q.phase \notin {"idle", "numbered"}
      /\ q.kind = "direct" => q.key \in Keys
  BY <1>1, <1>2 DEF IntakeShape, UploadUnderWay
<1> HIDE DEF q
<1>5. unpaid' \in Nat /\ (UploadUnderWay(up[u].phase) \/ At(u, "made"))
  BY <1>1 DEF UploadUnderWay, At
<1>6. QuotaCounts' /\ UnpaidHaveMeetings'
  <2>1. CASE At(u, "made")
    BY <1>1, <1>2, <1>3, <1>4, <1>5, <2>1, QuotaKept
  <2>2. CASE ~At(u, "made")
    BY <1>1, <1>2, <1>3, <1>4, <1>5, <2>2, QuotaKept
  <2> QED
    BY <2>1, <2>2
<1> QED
  BY <1>1, <1>2, <1>3, <1>4, <1>5, <1>6, UploadMoves

\* The look for the same bytes, the checks of an object, the answer and the failures.
LEMMA UploadChecksKeep ==
  ASSUME IntakeInv, NEW u \in Uploads,
         CheckKey(u) \/ MeasureObject(u) \/ AnswerFails(u) \/ UploadFails(u)
  PROVE  IntakeInv'
<1>1. IntakeShape
  BY DEF IntakeInv
<1>2. CASE CheckKey(u)
  <2>1. /\ UNCHANGED <<mix, meetings, claimed, asset, store, folder, old, used, sweep, late, lost>>
        /\ unpaid' = unpaid /\ ~At(u, "idle") /\ ~At(u, "made") /\ up[u].key \in Keys
        /\ Goto(u, "refund") \/ Goto(u, "unmeasured")
    BY <1>1, <1>2 DEF CheckKey, notes, At, IntakeShape
  <2> QED
    BY <2>1, UploadGoes
<1>3. CASE MeasureObject(u)
  <2>1. /\ UNCHANGED <<mix, meetings, claimed, asset, store, folder, old, used, sweep, late, lost>>
        /\ unpaid' = unpaid /\ ~At(u, "idle") /\ ~At(u, "made") /\ up[u].key \in Keys
    BY <1>1, <1>3 DEF MeasureObject, notes, At, IntakeShape
  <2>2. \/ store[up[u].key] = "whole" /\ Goto(u, "put")
        \/ store[up[u].key] = "cut" /\ Goto(u, "mismatched")
        \/ Goto(u, "refund")
    BY <1>3 DEF MeasureObject
  <2> QED
    BY <2>1, <2>2, UploadGoes
<1>4. CASE AnswerFails(u)
  <2>1. /\ UNCHANGED <<mix, meetings, claimed, asset, store, folder, old, used, sweep, late, lost>>
        /\ unpaid' = (IF Hosted THEN unpaid + 1 ELSE unpaid) /\ At(u, "made") /\ ~At(u, "idle")
        /\ Goto(u, "refund")
    BY <1>4 DEF AnswerFails, At
  <2> QED
    BY <2>1, UploadGoes
<1>5. CASE UploadFails(u)
  <2>1. /\ UNCHANGED <<mix, meetings, claimed, asset, store, folder, old, used, sweep, late, lost>>
        /\ unpaid' = unpaid /\ ~At(u, "made") /\ ~At(u, "idle") /\ Goto(u, "refund")
    BY <1>5 DEF UploadFails, At, notes
  <2> QED
    BY <2>1, UploadGoes
<1> QED
  BY <1>2, <1>3, <1>4, <1>5

\* A request comes in, looks, reads its number, and is over.
LEMMA UploadStepsKeep ==
  ASSUME IntakeInv, NEW u \in Uploads,
         BeginUpload(u) \/ FindDuplicate(u) \/ ReadSeq(u) \/ AnswerMeeting(u) \/ Refund(u)
           \/ UploadCrash(u)
  PROVE  IntakeInv'
<1>1. /\ IntakeShape /\ QuotaCounts /\ UnpaidHaveMeetings /\ up[u] \in UploadRecord
      /\ used \in Nat /\ lost \in Nat /\ unpaid \in Nat /\ Len(meetings) \in Nat
  BY MeetingsAreASequence DEF IntakeInv, IntakeShape
<1>2. Waiting \in UploadRecord /\ Waiting.phase = "idle" /\ Waiting.kind = "none"
  BY WaitingIsQuiet
<1>3. CASE BeginUpload(u)
  <2>1. PICK kind \in mix.ways, s \in Shas, k \in Keys \cup {None} :
          /\ (kind = "direct") = (k # None)
          /\ up' = [up EXCEPT ![u] = [Waiting EXCEPT !.phase = "reserved", !.kind = kind,
                                                     !.sha = s, !.key = k]]
    BY <1>3 DEF BeginUpload
  <2> DEFINE q == [Waiting EXCEPT !.phase = "reserved", !.kind = kind, !.sha = s, !.key = k]
  <2>2. kind \in Kinds
    BY <1>1, <2>1, MixesAssumption DEF IntakeShape, Kinds
  <2>3. /\ q \in UploadRecord /\ q.phase = "reserved" /\ q.sha \in Shas
        /\ q.kind = "direct" => q.key \in Keys
    BY <2>1, <2>2 DEF UploadRecord, UploadPhases, Waiting
  <2>4. /\ Becomes(u, q) /\ At(u, "idle")
        /\ used' = IF Hosted THEN used + 1 ELSE used
        /\ UNCHANGED <<mix, meetings, claimed, asset, store, folder, old, sweep, late, lost, unpaid>>
    BY <1>3, <2>1 DEF BeginUpload, Becomes, notes
  <2>5. Hosted => used < Quota /\ used' = used + 1
    BY <1>3, <2>4 DEF BeginUpload
  <2> HIDE DEF q
  <2>6. used' \in Nat /\ lost' \in Nat /\ unpaid' \in Nat /\ Len(meetings') = Len(meetings)
    BY <1>1, <2>4
  <2>7. UploadUnderWay(q.phase)
    BY <2>3 DEF UploadUnderWay
  <2>8. QuotaCounts' /\ UnpaidHaveMeetings'
    BY <1>1, <2>3, <2>4, <2>5, <2>6, <2>7, QuotaKept
  <2> QED
    BY <1>1, <2>3, <2>4, <2>6, <2>8, UploadMoves
<1>4. CASE FindDuplicate(u)
  <2>1. PICK phase \in {"refund", "stored", "fresh"} :
          up' = [up EXCEPT ![u].looked = Len(meetings), ![u].phase = phase]
    BY <1>4, Zenon DEF FindDuplicate
  <2> DEFINE q == [up[u] EXCEPT !.looked = Len(meetings), !.phase = phase]
  <2>2. /\ q \in UploadRecord /\ q.phase = phase /\ q.sha = up[u].sha /\ q.key = up[u].key
        /\ q.kind = up[u].kind
    BY <1>1, <2>1 DEF UploadRecord, UploadPhases
  <2>3. /\ Becomes(u, q) /\ ~At(u, "idle") /\ UploadUnderWay(up[u].phase) /\ UploadUnderWay(q.phase)
        /\ up[u].sha \in Shas
        /\ up[u].kind = "direct" => up[u].key \in Keys
    BY <1>1, <1>4, <2>1, <2>2 DEF FindDuplicate, Becomes, At, UploadUnderWay, IntakeShape
  <2>4. UNCHANGED <<mix, meetings, claimed, asset, store, folder, old, used, sweep, late, lost, unpaid>>
    BY <1>4 DEF FindDuplicate, notes
  <2> HIDE DEF q
  <2>5. QuotaCounts' /\ UnpaidHaveMeetings'
    BY <1>1, <2>2, <2>3, <2>4, QuotaKept
  <2>6. /\ q.phase \notin {"idle", "put", "unmeasured", "mismatched", "numbered"}
        /\ q.sha \in Shas /\ (q.kind = "direct" => q.key \in Keys)
    BY <2>1, <2>2, <2>3
  <2> QED
    BY <1>1, <2>2, <2>3, <2>4, <2>5, <2>6, UploadMoves
<1>5. CASE ReadSeq(u)
  <2> DEFINE taken == {meetings[m].seq : m \in DOMAIN meetings} \cup {0}
             top == CHOOSE n \in taken : \A t \in taken : t <= n
             q == [up[u] EXCEPT !.phase = "numbered", !.seq = top + 1]
  <2>1. top = Len(meetings)
    <3>1. taken = 0 .. Len(meetings)
      BY <1>1, MeetingsAreASequence DEF IntakeInv, SeqsDense
    <3>2. Len(meetings) \in taken /\ \A t \in taken : t <= Len(meetings)
      BY <1>1, <3>1
    <3> HIDE DEF taken
    <3>3. \A n \in taken : (\A t \in taken : t <= n) => n = Len(meetings)
      BY <1>1, <3>1, <3>2
    <3> QED
      BY <3>2, <3>3
  <2>2. Becomes(u, q)
    <3>1. up' = [up EXCEPT ![u].phase = "numbered", ![u].seq = top + 1]
      BY <1>5, Zenon DEF ReadSeq
    <3> HIDE DEF top
    <3> QED
      BY <3>1 DEF Becomes
  <2>3. /\ ~At(u, "idle") /\ UploadUnderWay(up[u].phase) /\ up[u].sha \in Shas
        /\ up[u].kind = "direct" => up[u].key \in Keys
        /\ UNCHANGED <<mix, meetings, claimed, asset, store, folder, old, used, sweep, late, lost, unpaid>>
    BY <1>1, <1>5 DEF ReadSeq, At, UploadUnderWay, IntakeShape, notes
  <2> HIDE DEF top
  <2>4. /\ q \in UploadRecord /\ q.phase = "numbered" /\ q.sha = up[u].sha /\ q.kind = up[u].kind
        /\ q.key = up[u].key /\ q.seq \in 1 .. (Len(meetings) + 1)
    <3>1. top \in Nat /\ top + 1 \in 1 .. (Len(meetings) + 1) /\ top + 1 \in Nat
      BY <1>1, <2>1
    <3> QED
      BY <1>1, <3>1 DEF UploadRecord, UploadPhases
  <2>5. UploadUnderWay(q.phase)
    BY <2>4 DEF UploadUnderWay
  <2> HIDE DEF q
  <2>6. QuotaCounts' /\ UnpaidHaveMeetings'
    BY <1>1, <2>2, <2>3, <2>4, <2>5, QuotaKept
  <2> QED
    BY <1>1, <2>2, <2>3, <2>4, <2>6, UploadMoves
<1>6. CASE AnswerMeeting(u) \/ (UploadCrash(u) /\ At(u, "made"))
  <2>1. /\ Becomes(u, Waiting) /\ At(u, "made")
        /\ UNCHANGED <<mix, meetings, claimed, asset, store, folder, old, used, sweep, late, lost, unpaid>>
    BY <1>6 DEF AnswerMeeting, UploadCrash, Becomes, notes
  <2>2. QuotaCounts' /\ UnpaidHaveMeetings'
    BY <1>1, <1>2, <2>1, QuotaKept
  <2> QED
    BY <1>1, <1>2, <2>1, <2>2, UploadMoves
<1>7. CASE Refund(u) \/ (UploadCrash(u) /\ ~At(u, "made"))
  <2>1. /\ Becomes(u, Waiting) /\ UploadUnderWay(up[u].phase)
        /\ UNCHANGED <<mix, meetings, claimed, asset, store, folder, old, sweep, late, unpaid>>
    BY <1>7 DEF Refund, UploadCrash, Becomes, notes, At, UploadUnderWay
  <2>2. \/ /\ lost' = (IF Hosted THEN lost + 1 ELSE lost) /\ used' = used
        \/ /\ lost' = lost /\ used' = IF Hosted /\ used > 0 THEN used - 1 ELSE used
    BY <1>7 DEF Refund, UploadCrash, notes
  <2>3. used' \in Nat /\ lost' \in Nat
    BY <1>1, <2>2
  <2>4. Hosted => \/ used' = used /\ lost' = lost + 1
                  \/ used' = (IF used > 0 THEN used - 1 ELSE used) /\ lost' = lost
    BY <2>2
  <2>5. QuotaCounts' /\ UnpaidHaveMeetings'
    BY <1>1, <1>2, <2>1, <2>3, <2>4, QuotaKept
  <2> QED
    BY <1>1, <1>2, <2>1, <2>3, <2>5, UploadMoves
<1> QED
  BY <1>3, <1>4, <1>5, <1>6, <1>7

\* An object is stored, or removed because its size is not the one declared.
LEMMA UploadObjectsKeep ==
  ASSUME IntakeInv, NEW u \in Uploads, PutBlob(u) \/ RemoveMismatch(u) PROVE IntakeInv'
<1>1. /\ IntakeShape /\ QuotaCounts /\ UnpaidHaveMeetings /\ RecordingsKept /\ RowsHaveFiles
      /\ up[u] \in UploadRecord /\ asset \in [Keys -> AssetRow] /\ late \in SUBSET Keys
      /\ store \in [Keys -> ObjectStates] /\ folder \in [Keys -> FolderRecord]
      /\ used \in Nat /\ lost \in Nat /\ unpaid \in Nat /\ Len(meetings) \in Nat
  BY MeetingsAreASequence DEF IntakeInv, IntakeShape
<1>2. CASE PutBlob(u)
  <2>1. PICK k \in Keys : /\ IssueKey(k, FALSE) /\ store' = [store EXCEPT ![k] = "whole"]
                          /\ up' = [up EXCEPT ![u].phase = "put", ![u].key = k]
    BY <1>2 DEF PutBlob
  <2> DEFINE q == [up[u] EXCEPT !.phase = "put", !.key = k]
  <2>2. /\ q \in UploadRecord /\ q.phase = "put" /\ q.sha = up[u].sha /\ q.key = k
        /\ UploadUnderWay(q.phase)
    BY <1>1 DEF UploadRecord, UploadPhases, UploadUnderWay
  <2>3. /\ Becomes(u, q) /\ UploadUnderWay(up[u].phase) /\ up[u].sha \in Shas
        /\ UNCHANGED <<mix, meetings, claimed, asset, old, used, sweep, late, lost, unpaid>>
    BY <1>1, <1>2, <2>1 DEF PutBlob, Becomes, At, UploadUnderWay, IntakeShape, notes
  <2>4. store[k] = "unissued" /\ folder' \in [Keys -> FolderRecord]
    BY <1>1, <2>1, KeyIsNamed
  <2>5. /\ store'[k] = "whole" /\ \A j \in Keys : j # k => store'[j] = store[j]
        /\ store' \in [Keys -> ObjectStates]
    BY <1>1, <2>1 DEF ObjectStates
  <2>6. \A j \in Keys : /\ WasWhole(j) => WasWhole(j)'
                        /\ WasCut(j) => WasCut(j)'
                        /\ store[j] = "whole" => store'[j] = "whole"
                        /\ HasObject(j) => HasObject(j)'
    BY <2>4, <2>5 DEF WasWhole, WasCut, HasObject
  <2>7. \A j \in Keys : /\ asset[j].row # "none" => WasWhole(j)'
                        /\ asset[j].row = "live" => HasObject(j)' \/ j \in late
    BY <1>1, <2>6 DEF RecordingsKept, RowsHaveFiles
  <2> HIDE DEF q
  <2>8. QuotaCounts' /\ UnpaidHaveMeetings'
    BY <1>1, <2>2, <2>3, QuotaKept
  <2> QED
    BY <1>1, <2>2, <2>3, <2>4, <2>5, <2>6, <2>7, <2>8, UploadKeeps
<1>3. CASE RemoveMismatch(u)
  <2> DEFINE q == [up[u] EXCEPT !.phase = "refund"]
  <2>1. PICK k \in Keys : k = up[u].key
    BY <1>1, <1>3 DEF RemoveMismatch, At, IntakeShape
  <2>2. /\ q \in UploadRecord /\ q.phase = "refund" /\ q.sha = up[u].sha /\ q.key = k
        /\ UploadUnderWay(q.phase)
    BY <1>1, <2>1 DEF UploadRecord, UploadPhases, UploadUnderWay
  <2>3. /\ Becomes(u, q) /\ UploadUnderWay(up[u].phase) /\ up[u].sha \in Shas
        /\ UNCHANGED <<mix, meetings, claimed, asset, folder, old, used, sweep, late, lost, unpaid>>
    BY <1>1, <1>3 DEF RemoveMismatch, Goto, Becomes, At, UploadUnderWay, IntakeShape, notes
  <2>4. WasCut(k) /\ (store' = [store EXCEPT ![k] = Removed] \/ store' = store)
    BY <1>3, <2>1 DEF RemoveMismatch, IntakeInv, MismatchedIsCut
  <2>5. Removed \in {"removed", "emptied"}
    BY DEF Removed
  <2>6. /\ store' \in [Keys -> ObjectStates] /\ \A j \in Keys : j # k => store'[j] = store[j]
        /\ store'[k] \in {store[k], "removed", "emptied"}
    BY <1>1, <2>4, <2>5 DEF ObjectStates
  <2>7. \A j \in Keys : /\ WasWhole(j) => WasWhole(j)'
                        /\ WasCut(j) => WasCut(j)'
                        /\ store[j] = "whole" => store'[j] = "whole"
    BY <2>4, <2>6 DEF WasWhole, WasCut
  <2>8. \A j \in Keys : asset[j].row = "live" => HasObject(j)' \/ j \in late
    <3>1. \A j \in Keys : j # k => HasObject(j)' = HasObject(j)
      BY <2>6 DEF HasObject
    <3>2. asset[k].row # "none" => ~HasObject(k)
      BY <1>1, <2>4 DEF RowsHaveFiles, WasWhole, WasCut, HasObject
    <3> QED
      BY <1>1, <3>1, <3>2 DEF RecordingsKept
  <2>9. \A j \in Keys : asset[j].row # "none" => WasWhole(j)'
    BY <1>1, <2>7 DEF RowsHaveFiles
  <2> HIDE DEF q
  <2>10. QuotaCounts' /\ UnpaidHaveMeetings'
    BY <1>1, <2>2, <2>3, QuotaKept
  <2> QED
    BY <1>1, <2>1, <2>2, <2>3, <2>6, <2>7, <2>8, <2>9, <2>10, UploadKeeps
<1> QED
  BY <1>2, <1>3

\* The row of an object.
LEMMA UploadInsertKeeps ==
  ASSUME IntakeInv, NEW u \in Uploads, InsertAsset(u) PROVE IntakeInv'
<1>1. /\ IntakeShape /\ QuotaCounts /\ UnpaidHaveMeetings /\ RecordingsKept /\ RowsHaveFiles
      /\ up[u] \in UploadRecord /\ asset \in [Keys -> AssetRow] /\ late \in SUBSET Keys
      /\ store \in [Keys -> ObjectStates] /\ folder \in [Keys -> FolderRecord]
      /\ used \in Nat /\ lost \in Nat /\ unpaid \in Nat /\ Len(meetings) \in Nat
  BY MeetingsAreASequence DEF IntakeInv, IntakeShape
<1>2. CASE asset[up[u].key].row = "live"
  <2>1. /\ Goto(u, "refund") /\ ~At(u, "idle") /\ ~At(u, "made") /\ unpaid' = unpaid
        /\ UNCHANGED <<mix, meetings, claimed, asset, store, folder, old, used, sweep, late, lost>>
    BY <1>2 DEF InsertAsset, At
  <2> QED
    BY <2>1, UploadGoes
<1>3. CASE asset[up[u].key].row # "live"
  <2> DEFINE q == [up[u] EXCEPT !.phase = "stored"]
             new == [row |-> "live", sha |-> up[u].sha, for |-> 0]
  <2>1. PICK k \in Keys : k = up[u].key
    BY <1>1 DEF InsertAsset, At, IntakeShape
  <2>2. /\ q \in UploadRecord /\ q.phase = "stored" /\ q.sha = up[u].sha /\ q.kind = up[u].kind
        /\ q.key = k /\ up[u].sha \in Shas /\ UploadUnderWay(q.phase) /\ UploadUnderWay(up[u].phase)
    BY <1>1, <2>1 DEF UploadRecord, UploadPhases, InsertAsset, At, IntakeShape, UploadUnderWay
  <2>3. /\ Becomes(u, q) /\ asset' = [asset EXCEPT ![k] = new]
        /\ late' = IF k \in old \/ asset[k].row = "purged" THEN late \cup {k} ELSE late
        /\ UNCHANGED <<mix, meetings, claimed, store, folder, old, used, sweep, lost, unpaid>>
    BY <1>3, <2>1 DEF InsertAsset, Becomes, Goto
  <2>4. new \in AssetRow /\ new.row = "live"
    BY <2>2 DEF AssetRow
  <2> HIDE DEF q, new
  <2>5. asset' \in [Keys -> AssetRow] /\ asset'[k] = new /\ \A j \in Keys : j # k => asset'[j] = asset[j]
    BY <1>1, <2>3, <2>4
  <2>6. late' \in SUBSET Keys /\ late \subseteq late' /\ (k \in old \/ asset[k].row = "purged" => k \in late')
    BY <1>1, <2>3
  <2>7. WasWhole(k) /\ (store[k] = "whole" \/ k \in old \/ asset[k].row # "none")
    BY <2>1 DEF InsertAsset, IntakeInv, PutBacked
  <2>8. store[k] = "whole" \/ k \in late'
    <3>1. asset[k].row \in {"none", "live", "purged"}
      BY <1>1 DEF AssetRow
    <3> QED
      BY <1>3, <2>1, <2>6, <2>7, <3>1
  <2>9. \A j \in Keys : WasWhole(j)' = WasWhole(j) /\ WasCut(j)' = WasCut(j) /\ HasObject(j)' = HasObject(j)
    BY <2>3 DEF WasWhole, WasCut, HasObject
  <2>10. \A j \in Keys : asset'[j].row = "live" => HasObject(j)' \/ j \in late'
    BY <1>1, <2>5, <2>6, <2>8, <2>9 DEF RecordingsKept, HasObject
  <2>11. \A j \in Keys : /\ asset[j].row # "none" => asset'[j].row # "none"
                         /\ asset'[j].row # "none" => WasWhole(j)'
                         /\ asset'[j].row = "live" => asset[j].row = "live" \/ j \notin old \/ j \in late'
    BY <1>1, <2>4, <2>5, <2>6, <2>7, <2>9 DEF RowsHaveFiles
  <2>12. QuotaCounts' /\ UnpaidHaveMeetings'
    BY <1>1, <2>2, <2>3, QuotaKept
  <2>13. /\ q.phase \notin {"idle", "put", "unmeasured", "mismatched", "numbered"} /\ q.key \in Keys
         /\ \A j \in Keys : store[j] = "whole" => store'[j] = "whole"
    BY <2>2, <2>3
  <2> QED
    BY <1>1, <2>2, <2>3, <2>5, <2>6, <2>9, <2>10, <2>11, <2>12, <2>13, UploadKeeps
<1> QED
  BY <1>2, <1>3

----------------------------------------------------------------------------
\* The number that was read is committed only while it is the next one.
LEMMA CommitKeeps ==
  ASSUME IntakeInv, NEW u \in Uploads, CommitMeeting(u) PROVE IntakeInv'
<1> SUFFICES ASSUME NEW n, n = Len(meetings) + 1, NEW new, new = NewMeeting(u),
                    NEW q, q = [up[u] EXCEPT !.phase = "made"]
             PROVE  IntakeInv'
  OBVIOUS
<1>1. /\ IntakeShape /\ up[u] \in UploadRecord /\ up[u].sha \in Shas /\ Len(meetings) \in Nat
      /\ UploadUnderWay(up[u].phase) /\ meetings \in Seq(MeetingRow) /\ asset \in [Keys -> AssetRow]
      /\ up[u].kind = "direct" => up[u].key \in Keys
      /\ DOMAIN meetings = 1 .. Len(meetings) /\ claimed \in [Shas -> Nat]
  BY MeetingsAreASequence DEF CommitMeeting, At, IntakeInv, IntakeShape, UploadUnderWay
<1>2. up[u].seq = n
  <2>1. up[u].seq \in 1 .. n
    BY DEF CommitMeeting, IntakeInv, NumbersRead
  <2>2. up[u].seq \notin 1 .. Len(meetings)
    BY DEF CommitMeeting, IntakeInv, SeqsDense
  <2> QED
    BY <1>1, <2>1, <2>2
<1>3. new \in MeetingRow /\ new.seq = n
  BY <1>1, <1>2 DEF NewMeeting, MeetingRow, UploadRecord
<1>4. /\ meetings' = Append(meetings, new) /\ meetings' \in Seq(MeetingRow) /\ Len(meetings') = n
      /\ DOMAIN meetings' = 1 .. n /\ meetings'[n] = new /\ n \in Nat
      /\ \A m \in 1 .. Len(meetings) : meetings'[m] = meetings[m]
      /\ 1 .. n = (1 .. Len(meetings)) \cup {n}
  BY <1>1, <1>3 DEF CommitMeeting
<1>5. SeqsDense'
  <2>1. {meetings[m].seq : m \in 1 .. Len(meetings)} = 1 .. Len(meetings)
    BY <1>1 DEF IntakeInv, SeqsDense
  <2>2. {meetings'[m].seq : m \in 1 .. n} = {meetings[m].seq : m \in 1 .. Len(meetings)} \cup {n}
    BY <1>3, <1>4
  <2> QED
    BY <1>4, <2>1, <2>2 DEF SeqsDense
<1>6. q \in UploadRecord /\ q.phase = "made" /\ q.sha = up[u].sha /\ q.kind = up[u].kind /\ q.key = up[u].key
  BY <1>1 DEF UploadRecord, UploadPhases
<1>7. /\ Becomes(u, q)
      /\ UNCHANGED <<mix, store, folder, old, used, sweep, late, lost, unpaid>>
  BY DEF CommitMeeting, Becomes, Goto, notes
<1>8. QuotaCounts' /\ UnpaidHaveMeetings'
  <2>1. used' \in Nat /\ lost' \in Nat /\ unpaid' \in Nat /\ Len(meetings') = Len(meetings) + 1
    BY <1>1, <1>4, <1>7 DEF IntakeShape
  <2> QED
    BY <1>1, <1>4, <1>6, <1>7, <2>1, QuotaKept DEF IntakeInv
<1>9. /\ up' \in [Uploads -> UploadRecord] /\ up'[u] = q
      /\ \A v \in Uploads : v # u => up'[v] = up[v]
  BY <1>1, <1>6, <1>7, UploadChanges
<1>10. asset' \in [Keys -> AssetRow] /\ \A k \in Keys : asset'[k].row = asset[k].row
  <2>1. CASE asset' = asset
    BY <1>1, <2>1
  <2>2. CASE asset' = [asset EXCEPT ![up[u].key].for = n]
    BY ZenonT(40), <1>1, <1>4, <2>2 DEF AssetRow
  <2> QED
    BY <2>1, <2>2 DEF CommitMeeting
<1>11. claimed' \in [Shas -> Nat]
  BY <1>1, <1>4 DEF CommitMeeting
<1>12. IntakeShape'
  BY <1>1, <1>4, <1>6, <1>7, <1>9, <1>10, <1>11 DEF IntakeShape, At
<1>13. NumbersRead'
  <2>1. \A v \in Uploads : up'[v].phase = "numbered" => up'[v].seq \in 1 .. n
    BY <1>6, <1>9 DEF IntakeInv, NumbersRead, At
  <2>2. \A s \in 1 .. n : s \in 1 .. (n + 1)
    BY <1>4
  <2> QED
    BY <1>4, <2>1, <2>2 DEF NumbersRead, At
<1>14. \A v \in Uploads : /\ At(v, "put")' => At(v, "put") /\ up'[v] = up[v] /\ up[v].key \in Keys
                          /\ At(v, "mismatched")' => At(v, "mismatched") /\ up'[v] = up[v]
  BY <1>1, <1>6, <1>9 DEF IntakeShape, At
<1>15. PutBacked' /\ MismatchedIsCut'
  BY <1>7, <1>10, <1>14 DEF IntakeInv, PutBacked, MismatchedIsCut, WasWhole, WasCut
<1>16. SweepIsOld'
  BY <1>1, <1>7, <1>10 DEF IntakeInv, IntakeShape, SweepIsOld
<1>17. RecordingsKept' /\ RowsHaveFiles'
  BY <1>7, <1>10 DEF IntakeInv, RecordingsKept, RowsHaveFiles, HasObject, WasWhole
<1> QED
  BY <1>5, <1>8, <1>12, <1>13, <1>15, <1>16, <1>17 DEF IntakeInv

\* Steps on the store alone: a signed URL, the browser's PUT, a day gone by, the sweep.
LEMMA StoreKeeps ==
  ASSUME IntakeInv, UNCHANGED <<mix, meetings, claimed, asset, up, used, late, lost, unpaid>>,
         store' \in [Keys -> ObjectStates], folder' \in [Keys -> FolderRecord],
         old' \in SUBSET Keys, old \subseteq old',
         sweep' \in SweepRecord, sweep'.keys \subseteq old',
         sweep'.phase \in {"opened", "compared"} => sweep'.at \in sweep'.keys,
         sweep'.phase = "compared" /\ asset[sweep'.at].row = "live" => sweep'.at \in late,
         \A k \in Keys : /\ asset[k].row = "live" => HasObject(k)' \/ k \in late
                         /\ WasWhole(k) => WasWhole(k)'
                         /\ WasCut(k) => WasCut(k)'
                         /\ store[k] = "whole" => store'[k] = "whole" \/ k \in old
  PROVE  IntakeInv'
<1>1. IntakeShape' /\ NumbersRead' /\ SeqsDense'
  BY DEF IntakeInv, IntakeShape, NumbersRead, SeqsDense, At
<1>2. QuotaCounts' /\ UnpaidHaveMeetings'
  BY DEF IntakeInv, QuotaCounts, UnpaidHaveMeetings, MadeUploads, At, Hosted
<1>3. \A v \in Uploads : At(v, "put") \/ At(v, "mismatched") => up[v].key \in Keys
  BY DEF IntakeInv, IntakeShape, At
<1>4. PutBacked' /\ MismatchedIsCut'
  BY <1>3 DEF IntakeInv, PutBacked, MismatchedIsCut, At
<1>5. SweepIsOld' /\ RecordingsKept' /\ RowsHaveFiles'
  BY DEF IntakeInv, SweepIsOld, RecordingsKept, RowsHaveFiles
<1> QED
  BY <1>1, <1>2, <1>4, <1>5 DEF IntakeInv

\* The steps of the browser and of the store.
LEMMA StoreStepsKeep ==
  ASSUME IntakeInv, NEW k \in Keys, StartUpload(k) \/ BrowserPut(k) \/ GrowOld(k)
  PROVE  IntakeInv'
<1>1. /\ old \in SUBSET Keys /\ sweep \in SweepRecord /\ sweep.keys \in SUBSET Keys
      /\ store \in [Keys -> ObjectStates] /\ folder \in [Keys -> FolderRecord] /\ SweepIsOld
      /\ \A j \in Keys : asset[j].row = "live" => HasObject(j) \/ j \in late
  BY DEF IntakeInv, IntakeShape, RecordingsKept, SweepRecord
<1>2. ASSUME store[k] \in {"unissued", "issued"}, NEW s \in {"issued", "whole", "cut"},
             store' = [store EXCEPT ![k] = s],
             UNCHANGED <<mix, meetings, claimed, asset, old, up, used, sweep, late, lost, unpaid>>,
             folder' \in [Keys -> FolderRecord]
      PROVE  IntakeInv'
  <2>1. /\ store' \in [Keys -> ObjectStates] /\ \A j \in Keys : j # k => store'[j] = store[j]
    BY <1>1, <1>2 DEF ObjectStates
  <2>2. \A j \in Keys : /\ WasWhole(j) => WasWhole(j)'
                        /\ WasCut(j) => WasCut(j)'
                        /\ store[j] = "whole" => store'[j] = "whole"
                        /\ HasObject(j) => HasObject(j)'
    BY <1>2, <2>1 DEF HasObject, WasWhole, WasCut
  <2> QED
    BY <1>1, <1>2, <2>1, <2>2, StoreKeeps DEF SweepIsOld
<1>3. CASE StartUpload(k)
  <2>1. folder' \in [Keys -> FolderRecord] /\ store[k] = "unissued"
    BY <1>1, <1>3, KeyIsNamed DEF StartUpload, Hosted
  <2>2. /\ store' = [store EXCEPT ![k] = "issued"]
        /\ UNCHANGED <<mix, meetings, claimed, asset, old, up, used, sweep, late, lost, unpaid>>
    BY <1>3 DEF StartUpload, notes
  <2> QED
    BY <1>2, <2>1, <2>2
<1>4. CASE BrowserPut(k)
  <2>1. /\ folder' = folder /\ store[k] = "issued"
        /\ UNCHANGED <<mix, meetings, claimed, asset, old, up, used, sweep, late, lost, unpaid>>
        /\ \E s \in {"whole", "cut"} : store' = [store EXCEPT ![k] = s]
    BY <1>4 DEF BrowserPut, notes
  <2> QED
    BY <1>1, <1>2, <2>1
<1>5. CASE GrowOld(k)
  <2>1. /\ old' = old \cup {k}
        /\ UNCHANGED <<mix, meetings, claimed, asset, store, folder, up, used, sweep, late, lost, unpaid>>
    BY <1>5 DEF GrowOld, notes
  <2>2. \A j \in Keys : WasWhole(j)' = WasWhole(j) /\ WasCut(j)' = WasCut(j) /\ HasObject(j)' = HasObject(j)
    BY <2>1 DEF HasObject, WasWhole, WasCut
  <2> QED
    BY <1>1, <2>1, <2>2, StoreKeeps DEF SweepIsOld
<1> QED
  BY <1>3, <1>4, <1>5

\* The steps of the sweep: it removes what it found no row of.
LEMMA SweepStepsKeep ==
  ASSUME IntakeInv,
         (\E keys \in SUBSET Keys : SweepList(keys)) \/ \E k \in Keys : SweepFolder(k)
  PROVE  IntakeInv'
<1>1. /\ old \in SUBSET Keys /\ sweep \in SweepRecord /\ sweep.keys \in SUBSET Keys
      /\ sweep.keys \subseteq old
      /\ store \in [Keys -> ObjectStates] /\ folder \in [Keys -> FolderRecord] /\ SweepIsOld
      /\ \A j \in Keys : asset[j].row = "live" => HasObject(j) \/ j \in late
  BY DEF IntakeInv, IntakeShape, RecordingsKept, SweepRecord, SweepIsOld
<1>2. ASSUME UNCHANGED <<mix, meetings, claimed, asset, store, folder, old, up, used, late, lost, unpaid>>,
             sweep' \in SweepRecord, sweep'.keys \subseteq old,
             sweep'.phase \in {"opened", "compared"} => sweep'.at \in sweep'.keys,
             sweep'.phase = "compared" => asset[sweep'.at].row # "live"
      PROVE  IntakeInv'
  <2>1. \A j \in Keys : WasWhole(j)' = WasWhole(j) /\ WasCut(j)' = WasCut(j) /\ HasObject(j)' = HasObject(j)
    BY <1>2 DEF HasObject, WasWhole, WasCut
  <2> QED
    BY <1>1, <1>2, <2>1, StoreKeeps
<1>3. \A k \in Keys : MoveOn(k) => /\ sweep' \in SweepRecord /\ sweep'.keys \subseteq old
                                   /\ sweep'.phase \in {"idle", "listed"}
  BY <1>1 DEF MoveOn, NoSweep, SweepRecord
<1>4. ASSUME NEW keys \in SUBSET Keys, SweepList(keys) PROVE IntakeInv'
  <2>1. /\ sweep' = [phase |-> "listed", keys |-> keys, at |-> None] /\ keys \subseteq old
        /\ UNCHANGED <<mix, meetings, claimed, asset, store, folder, old, up, used, late, lost, unpaid>>
    BY <1>4 DEF SweepList, Reached, Listed, notes
  <2>2. sweep' \in SweepRecord /\ sweep'.phase = "listed" /\ sweep'.keys = keys
    BY <2>1 DEF SweepRecord
  <2> QED
    BY <1>2, <2>1, <2>2
<1>5. ASSUME NEW k \in Keys, SweepOpen(k) PROVE IntakeInv'
  <2>1. /\ UNCHANGED <<mix, meetings, claimed, asset, store, folder, old, up, used, late, lost, unpaid>>
        /\ k \in sweep.keys
        /\ MoveOn(k) \/ sweep' = [sweep EXCEPT !.phase = "opened", !.at = k]
    BY <1>5 DEF SweepOpen, notes
  <2>2. CASE MoveOn(k)
    BY <1>2, <1>3, <2>1, <2>2
  <2>3. CASE sweep' = [sweep EXCEPT !.phase = "opened", !.at = k]
    <3>1. /\ sweep' \in SweepRecord /\ sweep'.phase = "opened" /\ sweep'.keys = sweep.keys
          /\ sweep'.at = k
      BY <1>1, <2>3 DEF SweepRecord
    <3> QED
      BY <1>1, <1>2, <2>1, <3>1
  <2> QED
    BY <2>1, <2>2, <2>3
<1>6. ASSUME NEW k \in Keys, SweepCompare(k) PROVE IntakeInv'
  <2>1. /\ UNCHANGED <<mix, meetings, claimed, asset, store, folder, old, up, used, late, lost, unpaid>>
        /\ sweep.at = k /\ k \in sweep.keys
        /\ MoveOn(k) \/ (sweep' = [sweep EXCEPT !.phase = "compared"] /\ asset[k].row # "live")
    BY <1>1, <1>6 DEF SweepCompare, notes, SweepIsOld
  <2>2. CASE MoveOn(k)
    BY <1>2, <1>3, <2>1, <2>2
  <2>3. CASE sweep' = [sweep EXCEPT !.phase = "compared"] /\ asset[k].row # "live"
    <3>1. /\ sweep' \in SweepRecord /\ sweep'.phase = "compared" /\ sweep'.keys = sweep.keys
          /\ sweep'.at = k
      BY <1>1, <2>1, <2>3 DEF SweepRecord
    <3> QED
      BY <1>1, <1>2, <2>1, <2>3, <3>1
  <2> QED
    BY <2>1, <2>2, <2>3
<1>7. ASSUME NEW k \in Keys, SweepRemove(k) PROVE IntakeInv'
  <2>1. /\ UNCHANGED <<mix, meetings, claimed, asset, folder, old, up, used, late, lost, unpaid>>
        /\ store' = [store EXCEPT ![k] = Removed] /\ MoveOn(k)
        /\ k \in old /\ (asset[k].row = "live" => k \in late)
    BY <1>1, <1>7 DEF SweepRemove, notes, SweepIsOld
  <2>2. Removed \in {"removed", "emptied"}
    BY DEF Removed
  <2>3. /\ store' \in [Keys -> ObjectStates] /\ \A j \in Keys : j # k => store'[j] = store[j]
        /\ store'[k] \in {"removed", "emptied"}
    BY <1>1, <2>1, <2>2 DEF ObjectStates
  <2>4. \A j \in Keys : /\ WasWhole(j) => WasWhole(j)'
                        /\ WasCut(j) => WasCut(j)'
                        /\ store[j] = "whole" => store'[j] = "whole" \/ j \in old
                        /\ asset[j].row = "live" => HasObject(j)' \/ j \in late
    BY <1>1, <2>1, <2>3 DEF WasWhole, WasCut, HasObject
  <2> QED
    BY <1>1, <1>3, <2>1, <2>3, <2>4, StoreKeeps
<1> QED
  BY <1>4, <1>5, <1>6, <1>7 DEF SweepFolder

\* A purge frees the meeting's files and keeps its number.
LEMMA PurgeKeeps ==
  ASSUME IntakeInv, NEW m \in DOMAIN meetings, PurgeMeeting(m) PROVE IntakeInv'
<1>1. /\ IntakeShape /\ m \in 1 .. Len(meetings) /\ Len(meetings) \in Nat
      /\ DOMAIN meetings = 1 .. Len(meetings) /\ meetings \in Seq(MeetingRow)
      /\ asset \in [Keys -> AssetRow] /\ store \in [Keys -> ObjectStates]
      /\ \A n \in 1 .. Len(meetings) : meetings[n] \in MeetingRow
  BY MeetingsAreASequence DEF IntakeInv, IntakeShape
<1>2. PICK removed \in {{}, AssetsOf(m)} :
        store' = [k \in Keys |-> IF k \in removed /\ HasObject(k) THEN Removed ELSE store[k]]
  BY DEF PurgeMeeting
<1>3. /\ meetings' = [meetings EXCEPT ![m].deleted = TRUE]
      /\ asset' = [k \in Keys |-> IF k \in AssetsOf(m) THEN [asset[k] EXCEPT !.row = "purged"]
                                  ELSE asset[k]]
      /\ UNCHANGED <<mix, claimed, folder, old, up, used, sweep, late, lost, unpaid>>
  BY DEF PurgeMeeting, notes
<1>4. /\ meetings' \in Seq(MeetingRow) /\ Len(meetings') = Len(meetings)
      /\ DOMAIN meetings' = 1 .. Len(meetings)
      /\ \A n \in 1 .. Len(meetings) : meetings'[n].seq = meetings[n].seq
  <2>1. /\ meetings' \in [1 .. Len(meetings) -> MeetingRow]
        /\ \A n \in 1 .. Len(meetings) : meetings'[n].seq = meetings[n].seq
    BY <1>1, <1>3 DEF MeetingRow
  <2> QED
    BY <1>1, <2>1
<1>5. /\ asset' \in [Keys -> AssetRow]
      /\ \A k \in Keys : /\ k \in AssetsOf(m) => asset'[k].row = "purged"
                         /\ k \notin AssetsOf(m) => asset'[k] = asset[k]
  BY <1>1, <1>3 DEF AssetRow
<1>6. Removed \in {"removed", "emptied"}
  BY DEF Removed
<1>7. /\ store' \in [Keys -> ObjectStates]
      /\ \A k \in Keys : /\ k \notin AssetsOf(m) => store'[k] = store[k]
                         /\ store'[k] = store[k] \/ (HasObject(k) /\ store'[k] \in {"removed", "emptied"})
  BY <1>1, <1>2, <1>6 DEF ObjectStates
<1>8. \A k \in Keys : k \in AssetsOf(m) => asset[k].row = "live"
  BY DEF AssetsOf
<1>9. \A k \in Keys : (WasWhole(k) => WasWhole(k)') /\ (WasCut(k) => WasCut(k)')
  BY <1>7 DEF WasWhole, WasCut
<1>10. IntakeShape'
  BY <1>1, <1>3, <1>4, <1>5, <1>7 DEF IntakeShape, At
<1>11. NumbersRead' /\ SeqsDense'
  BY SMTT(20), <1>1, <1>3, <1>4 DEF IntakeInv, NumbersRead, SeqsDense, At
<1>12. QuotaCounts' /\ UnpaidHaveMeetings'
  BY <1>3, <1>4 DEF IntakeInv, QuotaCounts, UnpaidHaveMeetings, MadeUploads, At, Hosted
<1>13. PutBacked' /\ MismatchedIsCut'
  <2>1. \A v \in Uploads : At(v, "put") \/ At(v, "mismatched") => up[v].key \in Keys
    BY <1>1 DEF IntakeShape, At
  <2>2. \A k \in Keys : /\ store[k] = "whole" => store'[k] = "whole" \/ asset'[k].row # "none"
                        /\ asset[k].row # "none" => asset'[k].row # "none"
    BY <1>5, <1>7
  <2> QED
    BY <1>3, <1>9, <2>1, <2>2 DEF IntakeInv, PutBacked, MismatchedIsCut, At
<1>14. SweepIsOld'
  BY <1>1, <1>3, <1>5 DEF IntakeInv, IntakeShape, SweepIsOld
<1>15. RecordingsKept'
  BY <1>3, <1>5, <1>7 DEF IntakeInv, RecordingsKept, HasObject
<1>16. RowsHaveFiles'
  BY <1>5, <1>8, <1>9 DEF IntakeInv, RowsHaveFiles
<1> QED
  BY <1>10, <1>11, <1>12, <1>13, <1>14, <1>15, <1>16 DEF IntakeInv

\* Every step keeps the intake's invariant.
LEMMA IntakeStep == IntakeInv /\ [IntakeNext]_intakeVars => IntakeInv'
<1> SUFFICES ASSUME IntakeInv, [IntakeNext]_intakeVars PROVE IntakeInv'
  OBVIOUS
<1>1. CASE UNCHANGED intakeVars
  <2>1. UNCHANGED <<mix, meetings, claimed, asset, store, folder, old, up, used, sweep, late, lost, unpaid>>
    BY <1>1 DEF intakeVars, notes
  <2>2. IntakeShape' /\ NumbersRead' /\ SeqsDense' /\ RowsHaveFiles' /\ PutBacked'
    BY <2>1 DEF IntakeInv, IntakeShape, NumbersRead, SeqsDense, RowsHaveFiles, PutBacked, WasWhole, At
  <2>3. QuotaCounts' /\ UnpaidHaveMeetings' /\ MismatchedIsCut' /\ SweepIsOld' /\ RecordingsKept'
    BY <2>1 DEF IntakeInv, QuotaCounts, UnpaidHaveMeetings, MadeUploads, MismatchedIsCut, SweepIsOld,
                RecordingsKept, HasObject, WasCut, Hosted, At
  <2> QED
    BY <2>2, <2>3 DEF IntakeInv
<1>2. ASSUME NEW u \in Uploads, BeginUpload(u) \/ UploadStep(u) \/ UploadCrash(u) PROVE IntakeInv'
  BY <1>2, UploadStepsKeep, UploadChecksKeep, UploadObjectsKeep, UploadInsertKeeps, CommitKeeps DEF UploadStep
<1> QED
  BY <1>1, <1>2, StoreStepsKeep, SweepStepsKeep, PurgeKeeps DEF IntakeNext

\* What IntakeExact rests on holds in every reachable state of uploads, registrations,
\* sweeps and purges.
THEOREM IntakeInvariance == IntakeSpec => []IntakeInv
BY IntakeStart, IntakeStep, PTL DEF IntakeSpec

\* What the invariant of the intake says of its numbers and rows, and of the types.
LEMMA IntakeComesOut == IntakeInv => IntakeTypeOK /\ IntakeExact
BY DEF IntakeInv, IntakeShape, IntakeTypeOK, IntakeExact, MeetingRow, AssetRow, UploadRecord,
       UploadPhases, ObjectStates, FolderRecord, SweepRecord, Kinds

\* The numbers of a client's meetings, a hosted workspace's quota, but for answers that fail
\* after their meeting was stored, and the files that rows point at come out right
\* (ingest/service.ts:299, ingest/routes.ts:40, storage.ts:263-299), for any number of
\* uploads and keys.
THEOREM IntakeAlwaysExact == IntakeSpec => [](IntakeTypeOK /\ IntakeExact)
BY IntakeComesOut, IntakeInvariance, PTL

----------------------------------------------------------------------------
(*****************************************************************************)
(* SameBytesOnce needs whose the rows are: of the standing meeting that has  *)
(* the recording (AudioOwned), or of the upload that has written it          *)
(* (MeetingHeld, HeldApart); that every hash of a meeting is claimed by one      *)
(* (ClaimsKnown); and what an upload saw when it looked (LookedUp).          *)
(*****************************************************************************)

Looked == {"fresh", "unmeasured", "mismatched", "put", "stored", "numbered"}
Holding(v) == up[v].phase \in {"stored", "numbered"} /\ up[v].key # None

\* A copy of what meeting m holds is only made if no look could have found it.
Unseen(m, s) ==
  meetings[m].sha = s /\ ~meetings[m].deleted =>
    /\ meetings[m].audio = None
    /\ meetings[claimed[s]].deleted

ClaimsKnown ==
  /\ \A s \in Shas : claimed[s] # 0 => claimed[s] \in DOMAIN meetings /\ meetings[claimed[s]].sha = s
  /\ \A m \in DOMAIN meetings : claimed[meetings[m].sha] # 0

AudioOwned ==
  \A m \in DOMAIN meetings : ~meetings[m].deleted /\ meetings[m].audio # None =>
    /\ asset[meetings[m].audio].row = "live"
    /\ asset[meetings[m].audio].sha = meetings[m].sha
    /\ asset[meetings[m].audio].for = m

MeetingHeld ==
  \A u \in Uploads : Holding(u) =>
    /\ asset[up[u].key].row = "live" /\ asset[up[u].key].sha = up[u].sha
    /\ asset[up[u].key].for = 0

HeldApart ==
  \A u \in Uploads, v \in Uploads : Holding(u) /\ Holding(v) /\ u # v => up[u].key # up[v].key

LookedUp ==
  \A u \in Uploads : up[u].phase \in Looked =>
    /\ up[u].looked \in 0 .. Len(meetings)
    /\ \A m \in 1 .. up[u].looked : Unseen(m, up[u].sha)

LooksBack ==
  \A n \in DOMAIN meetings :
    /\ meetings[n].looked \in 0 .. Len(meetings)
    /\ \A m \in 1 .. meetings[n].looked : Unseen(m, meetings[n].sha)

TextsHaveNoKey == \A u \in Uploads : up[u].kind = "text" => up[u].key = None /\ ~At(u, "fresh")

CopyInv ==
  /\ ClaimsKnown /\ AudioOwned /\ MeetingHeld /\ HeldApart /\ LookedUp /\ LooksBack
  /\ TextsHaveNoKey

\* Initially there is nothing to copy.
LEMMA CopyStart == IntakeInit => CopyInv
<1> SUFFICES ASSUME IntakeInit PROVE CopyInv
  OBVIOUS
<1>1. meetings = <<>> /\ \A u \in Uploads : up[u] = Waiting
  BY DEF IntakeInit
<1>2. \A u \in Uploads : up[u].phase = "idle" /\ up[u].kind = "none"
  BY <1>1, WaitingIsQuiet
<1>3. DOMAIN meetings = {} /\ \A s \in Shas : claimed[s] = 0
  BY <1>1 DEF IntakeInit
<1>4. MeetingHeld /\ HeldApart /\ LookedUp /\ TextsHaveNoKey
  BY <1>2 DEF MeetingHeld, HeldApart, LookedUp, TextsHaveNoKey, Holding, Looked
<1>5. ClaimsKnown /\ AudioOwned /\ LooksBack
  BY <1>3 DEF ClaimsKnown, AudioOwned, LooksBack
<1> QED
  BY <1>4, <1>5 DEF CopyInv

\* An upload goes on, and no row or meeting changes.
LEMMA CopyQuiet ==
  ASSUME IntakeInv, CopyInv, UNCHANGED <<meetings, claimed, asset>>,
         NEW u \in Uploads, NEW q \in UploadRecord, Becomes(u, q),
         q.phase \in Looked => /\ q.looked \in 0 .. Len(meetings)
                               /\ \A m \in 1 .. q.looked : Unseen(m, q.sha),
         q.phase \in {"stored", "numbered"} /\ q.key # None =>
           Holding(u) /\ q.key = up[u].key /\ q.sha = up[u].sha,
         q.kind = "text" => q.key = None /\ q.phase # "fresh"
  PROVE  CopyInv'
<1>1. /\ up'[u] = q /\ \A v \in Uploads : v # u => up'[v] = up[v]
  BY UploadChanges DEF IntakeInv
<1>2. ClaimsKnown' /\ AudioOwned' /\ LooksBack'
  BY DEF CopyInv, ClaimsKnown, AudioOwned, LooksBack, Unseen
<1>3. \A v \in Uploads : Holding(v)' => Holding(v) /\ up'[v].key = up[v].key /\ up'[v].sha = up[v].sha
  BY <1>1 DEF Holding
<1>4. MeetingHeld' /\ HeldApart'
  BY <1>3 DEF CopyInv, MeetingHeld, HeldApart
<1>5. LookedUp'
  BY <1>1 DEF CopyInv, LookedUp, Unseen
<1>6. TextsHaveNoKey'
  BY <1>1 DEF CopyInv, TextsHaveNoKey, At
<1> QED
  BY <1>2, <1>4, <1>5, <1>6 DEF CopyInv

\* The steps of an upload that write no row.
LEMMA CopyGoesOn ==
  ASSUME IntakeInv, CopyInv, NEW u \in Uploads,
         \/ CheckKey(u) \/ MeasureObject(u) \/ RemoveMismatch(u) \/ AnswerFails(u) \/ UploadFails(u)
         \/ AnswerMeeting(u) \/ Refund(u) \/ UploadCrash(u)
  PROVE  CopyInv'
<1>1. /\ up[u] \in UploadRecord /\ UNCHANGED <<meetings, claimed, asset>>
      /\ Waiting \in UploadRecord /\ Waiting.phase = "idle" /\ Waiting.kind = "none"
  BY WaitingIsQuiet DEF IntakeInv, IntakeShape, CheckKey, MeasureObject, RemoveMismatch, AnswerFails,
     UploadFails, AnswerMeeting, Refund, UploadCrash
<1>2. CASE Becomes(u, Waiting)
  BY <1>1, <1>2, CopyQuiet DEF Looked
<1>3. ASSUME NEW phase \in {"refund", "unmeasured", "mismatched", "put"}, Goto(u, phase),
             phase # "refund" => up[u].phase \in Looked
      PROVE  CopyInv'
  <2> DEFINE q == [up[u] EXCEPT !.phase = phase]
  <2>1. /\ q \in UploadRecord /\ q.phase = phase /\ q.sha = up[u].sha /\ q.key = up[u].key
        /\ q.kind = up[u].kind /\ q.looked = up[u].looked
    BY <1>1 DEF UploadRecord, UploadPhases
  <2>2. Becomes(u, q)
    BY <1>3 DEF Goto, Becomes
  <2> HIDE DEF q
  <2>3. q.kind = "text" => q.key = None /\ q.phase # "fresh"
    BY <2>1 DEF CopyInv, TextsHaveNoKey
  <2>4. q.phase \in Looked => /\ q.looked \in 0 .. Len(meetings)
                              /\ \A m \in 1 .. q.looked : Unseen(m, q.sha)
    BY <1>3, <2>1 DEF CopyInv, LookedUp, Looked
  <2> QED
    BY <1>1, <2>1, <2>2, <2>3, <2>4, CopyQuiet
<1>4. CASE AnswerMeeting(u) \/ Refund(u) \/ UploadCrash(u)
  BY <1>2, <1>4 DEF AnswerMeeting, Refund, UploadCrash, Becomes
<1>5. CASE CheckKey(u)
  BY <1>3, <1>5 DEF CheckKey, At, Looked
<1>6. CASE MeasureObject(u)
  BY <1>3, <1>6 DEF MeasureObject, At, Looked
<1>7. CASE RemoveMismatch(u) \/ AnswerFails(u) \/ UploadFails(u)
  BY <1>3, <1>7 DEF RemoveMismatch, AnswerFails, UploadFails
<1> QED
  BY <1>4, <1>5, <1>6, <1>7

\* The look: what it does not find, no other could.
LEMMA CopyLooks ==
  ASSUME IntakeInv, CopyInv, NEW u \in Uploads, FindDuplicate(u) PROVE CopyInv'
<1>1. /\ up[u] \in UploadRecord /\ up[u].sha \in Shas /\ UNCHANGED <<meetings, claimed, asset>>
      /\ Len(meetings) \in Nat /\ DOMAIN meetings = 1 .. Len(meetings)
      /\ \A m \in 1 .. Len(meetings) : meetings[m] \in MeetingRow
      /\ ~At(u, "idle") /\ claimed \in [Shas -> Nat]
  BY MeetingsAreASequence DEF IntakeInv, IntakeShape, FindDuplicate, At
<1> DEFINE s == up[u].sha
           phase == IF Duplicates(s) # {} THEN "refund"
                    ELSE IF up[u].kind = "text" THEN "stored" ELSE "fresh"
           q == [up[u] EXCEPT !.looked = Len(meetings), !.phase = phase]
<1>2. /\ q \in UploadRecord /\ q.phase = phase /\ q.sha = s /\ q.key = up[u].key
      /\ q.kind = up[u].kind /\ q.looked = Len(meetings)
  BY <1>1 DEF UploadRecord, UploadPhases
<1>3. Becomes(u, q)
  BY Zenon DEF FindDuplicate, Becomes
<1>4. ASSUME Duplicates(s) = {}, NEW m \in 1 .. Len(meetings) PROVE Unseen(m, s)
  <2> SUFFICES ASSUME meetings[m].sha = s, ~meetings[m].deleted
               PROVE  meetings[m].audio = None /\ meetings[claimed[s]].deleted
    BY DEF Unseen
  <2>1. meetings[m].audio = None
    <3>1. meetings[m].audio # None => asset[meetings[m].audio].sha = s
      BY <1>1 DEF CopyInv, AudioOwned
    <3> QED
      BY <1>1, <1>4, <3>1 DEF Duplicates
  <2>2. meetings[claimed[s]].deleted
    <3>1. claimed[s] \in DOMAIN meetings
      BY <1>1 DEF CopyInv, ClaimsKnown
    <3>2. claimed[s] \notin Duplicates(s)
      BY <1>4
    <3>3. meetings[claimed[s]].deleted \in BOOLEAN
      BY <1>1, <3>1 DEF MeetingRow
    <3> QED
      BY <3>1, <3>2, <3>3 DEF Duplicates
  <2> QED
    BY <2>1, <2>2
<1>5. phase \in Looked => Duplicates(s) = {}
  BY DEF Looked
<1>6. /\ phase \in {"stored", "numbered"} => up[u].kind = "text"
      /\ phase = "fresh" => up[u].kind # "text"
  OBVIOUS
<1> HIDE DEF q, phase
<1>7. /\ q.kind = "text" => q.key = None /\ q.phase # "fresh"
      /\ q.phase \in {"stored", "numbered"} => q.key = None
  BY <1>2, <1>6 DEF CopyInv, TextsHaveNoKey
<1>8. q.phase \in Looked => /\ q.looked \in 0 .. Len(meetings)
                            /\ \A m \in 1 .. q.looked : Unseen(m, q.sha)
  BY <1>1, <1>2, <1>4, <1>5
<1> QED
  BY <1>1, <1>2, <1>3, <1>7, <1>8, CopyQuiet

\* A request comes in, stores its object, or reads its number.
LEMMA CopyMoves ==
  ASSUME IntakeInv, CopyInv, NEW u \in Uploads, BeginUpload(u) \/ PutBlob(u) \/ ReadSeq(u)
  PROVE  CopyInv'
<1>1. /\ up[u] \in UploadRecord /\ UNCHANGED <<meetings, claimed, asset>>
      /\ mix.ways \subseteq Kinds
  BY MixesAssumption DEF IntakeInv, IntakeShape, BeginUpload, PutBlob, ReadSeq, Kinds
<1>2. CASE BeginUpload(u)
  <2>1. PICK kind \in mix.ways, s \in Shas, k \in Keys \cup {None} :
          /\ (kind = "direct") = (k # None)
          /\ up' = [up EXCEPT ![u] = [Waiting EXCEPT !.phase = "reserved", !.kind = kind,
                                                     !.sha = s, !.key = k]]
    BY <1>2 DEF BeginUpload
  <2> DEFINE q == [Waiting EXCEPT !.phase = "reserved", !.kind = kind, !.sha = s, !.key = k]
  <2>2. /\ q \in UploadRecord /\ q.phase = "reserved" /\ (q.kind = "text" => q.key = None)
    BY <1>1, <2>1 DEF UploadRecord, UploadPhases, Waiting
  <2>3. Becomes(u, q)
    BY <2>1 DEF Becomes
  <2> HIDE DEF q
  <2> QED
    BY <1>1, <2>2, <2>3, CopyQuiet DEF Looked
<1>3. CASE PutBlob(u)
  <2>1. PICK k \in Keys : up' = [up EXCEPT ![u].phase = "put", ![u].key = k]
    BY <1>3 DEF PutBlob
  <2> DEFINE q == [up[u] EXCEPT !.phase = "put", !.key = k]
  <2>2. /\ q \in UploadRecord /\ q.phase = "put" /\ q.sha = up[u].sha /\ q.kind = up[u].kind
        /\ q.looked = up[u].looked /\ up[u].phase = "fresh"
    BY <1>1, <1>3 DEF UploadRecord, UploadPhases, PutBlob, At
  <2>3. Becomes(u, q)
    BY <2>1 DEF Becomes
  <2> HIDE DEF q
  <2>4. /\ q.looked \in 0 .. Len(meetings) /\ \A m \in 1 .. q.looked : Unseen(m, q.sha)
    BY <2>2 DEF CopyInv, LookedUp, Looked
  <2>5. q.kind # "text"
    BY <2>2 DEF CopyInv, TextsHaveNoKey, At
  <2> QED
    BY <1>1, <2>2, <2>3, <2>4, <2>5, CopyQuiet
<1>4. CASE ReadSeq(u)
  <2>1. PICK seq : up' = [up EXCEPT ![u].phase = "numbered", ![u].seq = seq]
    BY <1>4, Zenon DEF ReadSeq
  <2>2. up \in [Uploads -> UploadRecord] /\ up' \in [Uploads -> UploadRecord]
    BY <1>4, UploadStepsKeep DEF IntakeInv, IntakeShape
  <2> DEFINE q == [up[u] EXCEPT !.phase = "numbered", !.seq = seq]
  <2>3. Becomes(u, q) /\ up'[u] = q
    BY <2>1, <2>2 DEF Becomes
  <2>4. /\ q \in UploadRecord /\ q.phase = "numbered" /\ q.sha = up[u].sha /\ q.kind = up[u].kind
        /\ q.looked = up[u].looked /\ q.key = up[u].key /\ up[u].phase = "stored"
    BY <1>1, <1>4, <2>2, <2>3 DEF UploadRecord, ReadSeq, At
  <2> HIDE DEF q
  <2>5. /\ q.looked \in 0 .. Len(meetings)
        /\ \A m \in 1 .. q.looked : Unseen(m, q.sha)
        /\ q.kind = "text" => q.key = None
    BY <2>4 DEF CopyInv, LookedUp, Looked, TextsHaveNoKey
  <2>6. q.key # None => Holding(u)
    BY <2>4 DEF Holding
  <2> QED
    BY <1>1, <2>3, <2>4, <2>5, <2>6, CopyQuiet
<1> QED
  BY <1>2, <1>3, <1>4

\* The row of an object is the upload's, until its meeting has it.
LEMMA CopyInserts ==
  ASSUME IntakeInv, CopyInv, NEW u \in Uploads, InsertAsset(u) PROVE CopyInv'
<1>1. /\ up[u] \in UploadRecord /\ up[u].key \in Keys /\ up[u].phase = "put"
      /\ UNCHANGED <<meetings, claimed>> /\ asset \in [Keys -> AssetRow]
      /\ DOMAIN meetings = 1 .. Len(meetings) /\ Len(meetings) \in Nat
      /\ \A m \in 1 .. Len(meetings) : meetings[m] \in MeetingRow
  BY MeetingsAreASequence DEF IntakeInv, IntakeShape, InsertAsset, At
<1>2. PICK k \in Keys : k = up[u].key
  BY <1>1
<1>3. CASE asset[k].row = "live"
  <2> DEFINE q == [up[u] EXCEPT !.phase = "refund"]
  <2>1. Becomes(u, q) /\ asset' = asset
    BY <1>2, <1>3 DEF InsertAsset, Goto, Becomes
  <2>2. q \in UploadRecord /\ q.phase = "refund" /\ q.kind = up[u].kind /\ q.key = up[u].key
    BY <1>1 DEF UploadRecord, UploadPhases
  <2> HIDE DEF q
  <2>3. q.kind = "text" => q.key = None
    BY <2>2 DEF CopyInv, TextsHaveNoKey
  <2> QED
    BY <1>1, <2>1, <2>2, <2>3, CopyQuiet DEF Looked
<1>4. CASE asset[k].row # "live"
  <2> DEFINE q == [up[u] EXCEPT !.phase = "stored"]
             new == [row |-> "live", sha |-> up[u].sha, for |-> 0]
  <2>1. Becomes(u, q) /\ asset' = [asset EXCEPT ![k] = new]
    BY <1>2, <1>4 DEF InsertAsset, Goto, Becomes
  <2>2. /\ q \in UploadRecord /\ q.phase = "stored" /\ q.kind = up[u].kind /\ q.key = k
        /\ q.sha = up[u].sha /\ q.looked = up[u].looked
        /\ new.row = "live" /\ new.sha = up[u].sha /\ new.for = 0
    BY <1>1, <1>2 DEF UploadRecord, UploadPhases
  <2> HIDE DEF q, new
  <2>3. asset'[k] = new /\ \A j \in Keys : j # k => asset'[j] = asset[j]
    BY <1>1, <2>1
  <2>4. up'[u] = q /\ \A v \in Uploads : v # u => up'[v] = up[v]
    BY <2>1, <2>2, UploadChanges DEF IntakeInv
  <2>5. \A v \in Uploads : up[v].key # None => up[v].key \in Keys
    BY DEF IntakeInv, IntakeShape, UploadRecord
  <2>6. \A v \in Uploads : v # u /\ Holding(v)' => Holding(v) /\ up'[v] = up[v] /\ up[v].key # k
    BY <1>4, <2>4 DEF Holding, CopyInv, MeetingHeld
  <2>7. MeetingHeld'
    BY <2>2, <2>3, <2>4, <2>5, <2>6 DEF MeetingHeld, CopyInv, Holding
  <2>8. HeldApart'
    BY <2>2, <2>4, <2>6 DEF HeldApart, CopyInv
  <2>9. AudioOwned'
    <3> SUFFICES ASSUME NEW m \in DOMAIN meetings, ~meetings[m].deleted, meetings[m].audio # None
                 PROVE  asset'[meetings[m].audio] = asset[meetings[m].audio]
      BY <1>1 DEF CopyInv, AudioOwned
    <3>1. meetings[m].audio \in Keys /\ asset[meetings[m].audio].row = "live"
      BY <1>1 DEF CopyInv, AudioOwned, MeetingRow
    <3> QED
      BY <1>4, <2>3, <3>1
  <2>10. ClaimsKnown' /\ LooksBack'
    BY <1>1 DEF CopyInv, ClaimsKnown, LooksBack, Unseen
  <2>11. LookedUp'
    BY <1>1, <2>2, <2>4 DEF CopyInv, LookedUp, Unseen, Looked
  <2>12. TextsHaveNoKey'
    BY <2>2, <2>4, <1>2 DEF CopyInv, TextsHaveNoKey, At
  <2> QED
    BY <2>7, <2>8, <2>9, <2>10, <2>11, <2>12 DEF CopyInv
<1> QED
  BY <1>3, <1>4

\* The meeting takes its upload's row, and claims its hash if nothing has.
LEMMA CopyCommits ==
  ASSUME IntakeInv, CopyInv, NEW u \in Uploads, CommitMeeting(u) PROVE CopyInv'
<1> SUFFICES ASSUME NEW n, n = Len(meetings) + 1, NEW new, new = NewMeeting(u),
                    NEW q, q = [up[u] EXCEPT !.phase = "made"], NEW s, s = up[u].sha
             PROVE  CopyInv'
  OBVIOUS
<1>1. /\ IntakeInv' /\ up[u] \in UploadRecord /\ s \in Shas /\ up[u].phase = "numbered"
      /\ up \in [Uploads -> UploadRecord] /\ asset \in [Keys -> AssetRow]
      /\ Len(meetings) \in Nat /\ DOMAIN meetings = 1 .. Len(meetings)
      /\ meetings \in Seq(MeetingRow) /\ claimed \in [Shas -> Nat]
      /\ \A m \in 1 .. Len(meetings) : meetings[m] \in MeetingRow
  BY CommitKeeps, MeetingsAreASequence DEF IntakeInv, IntakeShape, CommitMeeting, At
<1>2. /\ meetings' = Append(meetings, new) /\ meetings' \in Seq(MeetingRow)
  BY <1>1 DEF CommitMeeting, IntakeInv, IntakeShape
<1>3. /\ Len(meetings') = n /\ DOMAIN meetings' = 1 .. n /\ meetings'[n] = new /\ n \in Nat
      /\ \A m \in 1 .. Len(meetings) : meetings'[m] = meetings[m] /\ m \in 1 .. n
      /\ 1 .. n = (1 .. Len(meetings)) \cup {n} /\ n \notin 1 .. Len(meetings) /\ n # 0
  <2>1. Len(Append(meetings, new)) = Len(meetings) + 1 /\ Append(meetings, new)[n] = new
    BY <1>1
  <2>2. \A m \in 1 .. Len(meetings) : Append(meetings, new)[m] = meetings[m]
    BY <1>1
  <2>3. DOMAIN meetings' = 1 .. Len(meetings')
    BY <1>2
  <2> QED
    BY <1>1, <1>2, <2>1, <2>2, <2>3
<1>4. /\ new.sha = s /\ ~new.deleted /\ new.looked = up[u].looked
      /\ new.audio = (IF up[u].kind \in {"direct", "inline"} THEN up[u].key ELSE None)
  BY DEF NewMeeting
<1>5. up'[u] = q /\ q.phase = "made" /\ q.key = up[u].key /\ q.kind = up[u].kind
      /\ \A v \in Uploads : v # u => up'[v] = up[v]
  BY <1>1 DEF CommitMeeting, Goto, UploadRecord
<1>6. /\ claimed[s] # 0 => claimed' = claimed
      /\ claimed[s] = 0 => claimed' = [claimed EXCEPT ![s] = n]
      /\ \A t \in Shas : t # s => claimed'[t] = claimed[t]
      /\ claimed[s] = 0 => claimed'[s] = n
  BY <1>1 DEF CommitMeeting
<1>7. \A m \in 1 .. Len(meetings) :
        claimed[meetings[m].sha] # 0 /\ claimed'[meetings[m].sha] = claimed[meetings[m].sha]
  <2> SUFFICES ASSUME NEW m \in 1 .. Len(meetings)
               PROVE  claimed[meetings[m].sha] # 0 /\ claimed'[meetings[m].sha] = claimed[meetings[m].sha]
    OBVIOUS
  <2>1. meetings[m].sha \in Shas /\ claimed[meetings[m].sha] # 0
    BY <1>1 DEF CopyInv, ClaimsKnown, MeetingRow
  <2> QED
    BY <1>6, <2>1
<1>8. /\ up[u].key = None => asset' = asset
      /\ up[u].key # None => /\ up[u].key \in Keys /\ asset[up[u].key].row = "live"
                             /\ asset[up[u].key].sha = s /\ asset[up[u].key].for = 0
                             /\ asset'[up[u].key] = [asset[up[u].key] EXCEPT !.for = n]
      /\ \A k \in Keys : k # up[u].key => asset'[k] = asset[k]
  <2>1. up[u].key # None => up[u].key \in Keys /\ Holding(u)
    BY <1>1 DEF UploadRecord, Holding
  <2> QED
    BY <1>1, <2>1 DEF CommitMeeting, CopyInv, MeetingHeld
<1>9. up[u].key # None => /\ asset'[up[u].key].row = "live" /\ asset'[up[u].key].sha = s
                          /\ asset'[up[u].key].for = n
  BY <1>1, <1>8 DEF AssetRow
<1>10. \A m \in 1 .. Len(meetings) : ~meetings[m].deleted /\ meetings[m].audio # None =>
         meetings[m].audio \in Keys /\ meetings[m].audio # up[u].key
  BY <1>1, <1>8 DEF CopyInv, AudioOwned, MeetingRow
<1>11. AudioOwned'
  <2> SUFFICES ASSUME NEW m \in 1 .. n, ~meetings'[m].deleted, meetings'[m].audio # None
               PROVE  /\ asset'[meetings'[m].audio].row = "live"
                      /\ asset'[meetings'[m].audio].sha = meetings'[m].sha
                      /\ asset'[meetings'[m].audio].for = m
    BY <1>3 DEF AudioOwned
  <2>1. CASE m = n
    BY <1>3, <1>4, <1>9, <2>1
  <2>2. CASE m \in 1 .. Len(meetings)
    BY <1>1, <1>3, <1>8, <1>10, <2>2 DEF CopyInv, AudioOwned
  <2> QED
    BY <1>3, <2>1, <2>2
<1>12. ClaimsKnown'
  <2>1. ASSUME NEW t \in Shas, claimed'[t] # 0
        PROVE  claimed'[t] \in 1 .. n /\ meetings'[claimed'[t]].sha = t
    <3>1. CASE claimed'[t] = claimed[t]
      BY <1>1, <1>3, <2>1, <3>1 DEF CopyInv, ClaimsKnown
    <3>2. CASE claimed'[t] # claimed[t]
      BY <1>3, <1>4, <1>6, <3>2
    <3> QED
      BY <3>1, <3>2
  <2>2. ASSUME NEW m \in 1 .. n PROVE claimed'[meetings'[m].sha] # 0
    BY <1>3, <1>4, <1>6, <1>7
  <2> QED
    BY <1>3, <2>1, <2>2 DEF ClaimsKnown
<1>13. \A t \in Shas, m \in 1 .. Len(meetings) : Unseen(m, t) => Unseen(m, t)'
  <2> SUFFICES ASSUME NEW t \in Shas, NEW m \in 1 .. Len(meetings), Unseen(m, t),
                      meetings'[m].sha = t, ~meetings'[m].deleted
               PROVE  meetings'[m].audio = None /\ meetings'[claimed'[t]].deleted
    BY DEF Unseen
  <2>1. /\ meetings[m].audio = None /\ meetings[claimed[t]].deleted /\ claimed'[t] = claimed[t]
        /\ claimed[t] \in 1 .. Len(meetings)
    BY <1>1, <1>3, <1>7 DEF Unseen, CopyInv, ClaimsKnown
  <2> QED
    BY <1>3, <2>1
<1>14. \A l \in 0 .. Len(meetings) : l \in 0 .. n /\ \A m \in 1 .. l : m \in 1 .. Len(meetings)
  BY <1>1
<1>15. LookedUp'
  <2> SUFFICES ASSUME NEW v \in Uploads, up'[v].phase \in Looked
               PROVE  /\ up'[v].looked \in 0 .. n
                      /\ \A m \in 1 .. up'[v].looked : Unseen(m, up[v].sha)' /\ up'[v] = up[v]
    BY <1>3 DEF LookedUp, Unseen
  <2>1. v # u /\ up'[v] = up[v] /\ up[v].phase \in Looked
    BY <1>5 DEF Looked
  <2>2. up[v].sha \in Shas
    BY <2>1 DEF IntakeInv, IntakeShape, At, Looked
  <2> QED
    BY <1>13, <1>14, <2>1, <2>2 DEF CopyInv, LookedUp
<1>16. LooksBack'
  <2> SUFFICES ASSUME NEW k \in 1 .. n
               PROVE  /\ meetings'[k].looked \in 0 .. n
                      /\ \E t \in Shas : t = meetings'[k].sha /\ \A m \in 1 .. meetings'[k].looked : Unseen(m, t)'
    BY <1>3 DEF LooksBack, Unseen
  <2>1. CASE k \in 1 .. Len(meetings)
    <3>1. meetings'[k] = meetings[k] /\ meetings[k].sha \in Shas
      BY <1>1, <1>3, <2>1 DEF MeetingRow
    <3> QED
      BY <1>1, <1>13, <1>14, <2>1, <3>1 DEF CopyInv, LooksBack
  <2>2. CASE k = n
    <3>1. meetings'[k] = new /\ up[u].phase \in Looked
      BY <1>1, <1>3, <2>2 DEF Looked
    <3> QED
      BY <1>1, <1>4, <1>13, <1>14, <3>1 DEF CopyInv, LookedUp
  <2> QED
    BY <1>3, <2>1, <2>2
<1>17. \A v \in Uploads : Holding(v)' => v # u /\ Holding(v) /\ up'[v] = up[v] /\ up[v].key \in Keys
  BY <1>1, <1>5 DEF Holding, UploadRecord
<1>18. \A v \in Uploads : Holding(v)' => up[v].key # up[u].key
  <2> SUFFICES ASSUME NEW v \in Uploads, Holding(v)', up[v].key = up[u].key PROVE FALSE
    OBVIOUS
  <2>1. v # u /\ Holding(v)
    BY <1>17
  <2>2. Holding(u)
    BY <1>1, <2>1 DEF Holding
  <2> QED
    BY <2>1, <2>2 DEF CopyInv, HeldApart
<1>19. MeetingHeld' /\ HeldApart'
  BY <1>8, <1>17, <1>18 DEF CopyInv, MeetingHeld, HeldApart
<1>20. TextsHaveNoKey'
  BY <1>5 DEF CopyInv, TextsHaveNoKey, At
<1> QED
  BY <1>11, <1>12, <1>15, <1>16, <1>19, <1>20 DEF CopyInv

\* A purge takes rows that are the meeting's own only.
LEMMA CopyPurges ==
  ASSUME IntakeInv, CopyInv, NEW p \in DOMAIN meetings, PurgeMeeting(p) PROVE CopyInv'
<1>1. /\ p \in 1 .. Len(meetings) /\ Len(meetings) \in Nat /\ meetings \in Seq(MeetingRow)
      /\ DOMAIN meetings = 1 .. Len(meetings) /\ claimed \in [Shas -> Nat]
      /\ asset \in [Keys -> AssetRow] /\ up \in [Uploads -> UploadRecord]
      /\ \A m \in 1 .. Len(meetings) : meetings[m] \in MeetingRow
  BY MeetingsAreASequence DEF IntakeInv, IntakeShape
<1>2. /\ meetings' = [meetings EXCEPT ![p].deleted = TRUE]
      /\ asset' = [k \in Keys |-> IF k \in AssetsOf(p) THEN [asset[k] EXCEPT !.row = "purged"]
                                  ELSE asset[k]]
      /\ UNCHANGED <<claimed, up>>
  BY DEF PurgeMeeting
<1>3. /\ DOMAIN meetings' = 1 .. Len(meetings) /\ meetings'[p].deleted
      /\ \A m \in 1 .. Len(meetings) : /\ meetings'[m].sha = meetings[m].sha
                                       /\ meetings'[m].audio = meetings[m].audio
                                       /\ meetings'[m].looked = meetings[m].looked
                                       /\ m # p => meetings'[m] = meetings[m]
                                       /\ meetings[m].deleted => meetings'[m].deleted
  BY <1>1, <1>2 DEF MeetingRow
<1>4. Len(meetings') = Len(meetings)
  BY <1>1, <1>2
<1>5. \A k \in Keys : asset'[k].sha = asset[k].sha /\ asset'[k].for = asset[k].for
                      /\ (k \notin AssetsOf(p) => asset'[k] = asset[k])
  BY <1>1, <1>2 DEF AssetRow
<1>6. ~meetings[p].deleted
  BY DEF PurgeMeeting
<1>7. \A k \in AssetsOf(p) : asset[k].for = p
  <2> SUFFICES ASSUME NEW k \in AssetsOf(p), meetings[p].audio = k PROVE asset[k].for = p
    BY DEF AssetsOf
  <2>1. k # None
    <3>1. k \in Keys /\ asset[k].row = "live"
      BY DEF AssetsOf
    <3> QED
      BY <3>1, KeysAssumption DEF None
  <2> QED
    BY <1>1, <1>6, <2>1 DEF CopyInv, AudioOwned
<1>8. AudioOwned'
  <2> SUFFICES ASSUME NEW m \in 1 .. Len(meetings), ~meetings'[m].deleted, meetings'[m].audio # None
               PROVE  /\ asset'[meetings'[m].audio].row = "live"
                      /\ asset'[meetings'[m].audio].sha = meetings'[m].sha
                      /\ asset'[meetings'[m].audio].for = m
    BY <1>3 DEF AudioOwned
  <2>1. m # p /\ meetings'[m] = meetings[m] /\ meetings[m].audio \in Keys
    BY <1>1, <1>3 DEF MeetingRow
  <2>2. /\ asset[meetings[m].audio].row = "live" /\ asset[meetings[m].audio].sha = meetings[m].sha
        /\ asset[meetings[m].audio].for = m
    BY <1>1, <2>1 DEF CopyInv, AudioOwned
  <2> QED
    BY <1>5, <1>7, <2>1, <2>2
<1>9. ClaimsKnown'
  <2>1. \A t \in Shas : claimed[t] # 0 => claimed[t] \in 1 .. Len(meetings) /\ meetings'[claimed[t]].sha = t
    BY <1>1, <1>3 DEF CopyInv, ClaimsKnown
  <2>2. \A m \in 1 .. Len(meetings) : claimed[meetings'[m].sha] # 0
    BY <1>1, <1>3 DEF CopyInv, ClaimsKnown
  <2> QED
    BY <1>2, <1>3, <2>1, <2>2 DEF ClaimsKnown
<1>10. \A t \in Shas, m \in 1 .. Len(meetings) : Unseen(m, t) => Unseen(m, t)'
  <2> SUFFICES ASSUME NEW t \in Shas, NEW m \in 1 .. Len(meetings), Unseen(m, t),
                      meetings'[m].sha = t, ~meetings'[m].deleted
               PROVE  meetings'[m].audio = None /\ meetings'[claimed'[t]].deleted
    BY DEF Unseen
  <2>1. meetings[m].sha = t /\ ~meetings[m].deleted
    BY <1>3
  <2>2. /\ meetings[m].audio = None /\ meetings[claimed[t]].deleted /\ claimed' = claimed
        /\ claimed[t] \in 1 .. Len(meetings)
    BY <1>1, <1>2, <2>1 DEF Unseen, CopyInv, ClaimsKnown
  <2> QED
    BY <1>3, <2>2
<1>11. \A l \in 0 .. Len(meetings) : \A m \in 1 .. l : m \in 1 .. Len(meetings)
  BY <1>1
<1>12. LookedUp'
  <2> SUFFICES ASSUME NEW v \in Uploads, up[v].phase \in Looked
               PROVE  /\ up[v].looked \in 0 .. Len(meetings)
                      /\ \A m \in 1 .. up[v].looked : Unseen(m, up[v].sha)'
    BY <1>2, <1>4 DEF LookedUp, Unseen
  <2>1. up[v].sha \in Shas
    BY DEF IntakeInv, IntakeShape, At, Looked
  <2>2. up[v].looked \in 0 .. Len(meetings) /\ \A m \in 1 .. up[v].looked : Unseen(m, up[v].sha)
    BY DEF CopyInv, LookedUp
  <2>3. \A m \in 1 .. up[v].looked : m \in 1 .. Len(meetings)
    BY <1>11, <2>2
  <2> QED
    BY <1>2, <1>10, <2>1, <2>2, <2>3
<1>13. LooksBack'
  <2> SUFFICES ASSUME NEW n \in 1 .. Len(meetings)
               PROVE  /\ meetings[n].looked \in 0 .. Len(meetings)
                      /\ \A m \in 1 .. meetings[n].looked : Unseen(m, meetings[n].sha)'
                         /\ meetings'[n].sha = meetings[n].sha
    BY <1>3, <1>4 DEF LooksBack, Unseen
  <2>1. meetings[n].sha \in Shas /\ meetings'[n].sha = meetings[n].sha
    BY <1>1, <1>3 DEF MeetingRow
  <2> QED
    BY <1>1, <1>10, <1>11, <2>1 DEF CopyInv, LooksBack
<1>14. MeetingHeld'
  <2> SUFFICES ASSUME NEW v \in Uploads, Holding(v)
               PROVE  /\ asset'[up[v].key].row = "live" /\ asset'[up[v].key].sha = up[v].sha
                      /\ asset'[up[v].key].for = 0
    BY <1>2 DEF MeetingHeld, Holding
  <2>1. /\ asset[up[v].key].row = "live" /\ asset[up[v].key].sha = up[v].sha
        /\ asset[up[v].key].for = 0 /\ up[v].key \in Keys
    BY <1>1 DEF CopyInv, MeetingHeld, Holding, UploadRecord
  <2> QED
    BY <1>1, <1>5, <1>7, <2>1
<1>15. HeldApart' /\ TextsHaveNoKey'
  BY <1>2 DEF CopyInv, HeldApart, TextsHaveNoKey, Holding, At
<1> QED
  BY <1>8, <1>9, <1>12, <1>13, <1>14, <1>15 DEF CopyInv

\* Every step keeps whose the rows are.
LEMMA CopyStep == IntakeInv /\ CopyInv /\ [IntakeNext]_intakeVars => CopyInv'
<1> SUFFICES ASSUME IntakeInv, CopyInv, [IntakeNext]_intakeVars PROVE CopyInv'
  OBVIOUS
<1>1. CASE UNCHANGED <<meetings, claimed, asset, up>>
  <2>1. ClaimsKnown' /\ AudioOwned' /\ LooksBack' /\ LookedUp'
    BY <1>1 DEF CopyInv, ClaimsKnown, AudioOwned, LooksBack, LookedUp, Unseen
  <2>2. MeetingHeld' /\ HeldApart' /\ TextsHaveNoKey'
    BY <1>1 DEF CopyInv, MeetingHeld, HeldApart, TextsHaveNoKey, Holding, At
  <2> QED
    BY <2>1, <2>2 DEF CopyInv
<1>2. ASSUME NEW u \in Uploads, BeginUpload(u) \/ UploadStep(u) \/ UploadCrash(u) PROVE CopyInv'
  BY <1>2, CopyGoesOn, CopyLooks, CopyMoves, CopyInserts, CopyCommits DEF UploadStep
<1>3. ASSUME NEW k \in Keys, StartUpload(k) \/ BrowserPut(k) \/ GrowOld(k) \/ SweepFolder(k) PROVE CopyInv'
  BY <1>1, <1>3 DEF StartUpload, BrowserPut, GrowOld, SweepFolder, SweepOpen, SweepCompare, SweepRemove
<1>4. ASSUME NEW keys \in SUBSET Keys, SweepList(keys) PROVE CopyInv'
  BY <1>1, <1>4 DEF SweepList
<1> QED
  BY <1>1, <1>2, <1>3, <1>4, CopyPurges DEF IntakeNext, intakeVars

\* What the invariant says of two meetings of the same bytes.
LEMMA CopyComesOut == CopyInv => SameBytesOnce
BY DEF CopyInv, LooksBack, Unseen, SameBytesOnce

\* "Same bytes for the same client attach, never duplicate" (ingest/service.ts:202): whatever
\* overlaps, no meeting is made of bytes that a standing one had when the request looked, but
\* for bytes whose upload event a purged meeting holds; for any number of uploads and keys.
THEOREM SameBytesAlwaysOnce == IntakeSpec => []SameBytesOnce
BY IntakeStart, IntakeStep, CopyStart, CopyStep, CopyComesOut, PTL DEF IntakeSpec
----------------------------------------------------------------------------
(*****************************************************************************)
(* Recorder.  That no recording is lost while people wait for the messages   *)
(* on their way (Patient) rests on agreement between the popup, the worker   *)
(* and the document: one command at a time (OneOrder), which finds them as   *)
(* the popup showed them (StartsFromNothing, RecordsAlone, HeldIsShown),     *)
(* but for a start from a popup that knew nothing.  Once such a start came   *)
(* over an upload, nothing is promised any more (Adrift).                    *)
(*****************************************************************************)

DocRecord == [open : BOOLEAN, mic : {"off", "asking", "on"}, tape : Nat, blob : Nat,
              sending : Nat, out : Nat, sent : Nat]
ViewRecord == [phase : Phases, retry : BOOLEAN]
PopupRecord == [open : BOOLEAN, view : ViewRecord,
                waits : {"none", "start", "stop", "retry", "reset"}, blind : BOOLEAN]
OrderRecord == [kind : {"none", "start", "stop", "retry", "reset"},
                at : {"none", "begin", "stream", "send", "mic", "close", "idle"}, blind : BOOLEAN]
PushRecord == [phase : {"uploading", "error", "done"}, retry : {"yes", "no", "kept"}]

RecorderShape ==
  /\ rec \in ViewRecord
  /\ doc \in DocRecord
  /\ pushes \in Seq(PushRecord)
  /\ order \in [Orders -> OrderRecord]
  /\ popup \in PopupRecord
  /\ tapes \in Nat /\ tapes <= MaxTapes /\ finished \subseteq 1 .. tapes

\* A person in a popup gives one command at a time.
OneOrder == \A o, p \in Orders : order[o] # NoOrder /\ order[p] # NoOrder => o = p

\* A document whose recordings have begun, and which sends none more often than it may.
Bounded(d, n) ==
  /\ d \in DocRecord
  /\ d.tape <= n /\ d.blob <= n /\ d.out <= n
  /\ d.sending <= d.sent /\ d.sent <= MaxRetries
  /\ d.mic = "on" => d.tape # 0 /\ d.sent < MaxRetries
  /\ d.mic # "off" => d.blob = 0

\* A command to start, or to retry, was given below its bound, and nothing else than
\* itself reaches that bound before it is answered.
BelowBounds ==
  /\ Bounded(doc, tapes)
  /\ \A o \in Orders : order[o].kind = "start" =>
       /\ tapes < MaxTapes /\ doc.sending + Coming < MaxRetries
       /\ order[o].at = "mic" => doc.sent < MaxRetries /\ doc.mic # "on" /\ doc.blob = 0
  /\ \A o \in Orders : order[o].kind = "retry" => doc.sent + Coming < MaxRetries

\* A command to start finds a document with nothing in it, and a popup that waits for it;
\* from a popup that knew nothing, only once the document has taken it.
StartsFromNothing ==
  \A o \in Orders : order[o].kind = "start" =>
    /\ ~order[o].blind \/ order[o].at \in {"mic", "close"} =>
         doc.blob = 0 /\ doc.sending = 0 /\ pushes = <<>>
    /\ ~order[o].blind \/ order[o].at # "begin" => doc.mic # "on"
    /\ popup.open => /\ popup.waits = "start" /\ popup.view.phase = "idle"
                     /\ order[o].blind => popup.blind

\* While it records, worker and popup know, and only a command to stop can be on its way,
\* or one to start that will be refused.
RecordsAlone ==
  doc.mic = "on" =>
    /\ doc.blob = 0 /\ doc.sending = 0 /\ pushes = <<>>
    /\ rec.phase = "recording"
    /\ popup.open => popup.view.phase = "recording" \/ popup.blind
    /\ \A o \in Orders : \/ order[o] = NoOrder \/ order[o].kind = "stop"
                         \/ order[o].kind = "start" /\ order[o].blind /\ order[o].at = "begin"

\* What is held or sent is never shown as idle, but by a popup that knew nothing.
HeldIsShown ==
  /\ doc.blob # 0 \/ doc.sending # 0 =>
       rec.phase # "idle" /\ (popup.open /\ ~popup.blind => popup.view.phase # "idle")
  /\ popup.blind => popup.view.phase = "idle" /\ popup.waits \in {"none", "start"}
  /\ \A o \in Orders : order[o].kind = "reset" =>
       /\ order[o].at = "close" => doc.blob = 0 /\ doc.mic # "on"
       /\ order[o].at = "idle" => ~doc.open

\* A document that is not there holds nothing, nor one that has uploaded.
DoneHoldsNothing ==
  /\ ~doc.open => doc = NoDoc
  /\ doc.blob # 0 /\ doc.sending # 0 => doc.out = doc.blob
  /\ \A i \in 1 .. Len(pushes) : pushes[i].phase = "done" => doc.blob = 0

\* A start from a popup that knew nothing came over an upload: all recordings are excused.
Adrift == 1 .. MaxTapes \subseteq excused

RecorderTyped == RecorderShape /\ OneOrder /\ BelowBounds
RecorderHeld ==
  /\ StartsFromNothing /\ RecordsAlone /\ HeldIsShown /\ DoneHoldsNothing /\ RecordingKept
RecorderInv == RecorderTyped /\ (Adrift \/ RecorderHeld)

----------------------------------------------------------------------------
\* The records of a document, an order and a popup that are not there.
LEMMA NothingsFit ==
  /\ NoDoc \in DocRecord /\ NoDoc.open = FALSE /\ NoDoc.mic = "off" /\ NoDoc.tape = 0 /\ NoDoc.blob = 0
  /\ NoDoc.sending = 0 /\ NoDoc.out = 0 /\ NoDoc.sent = 0
  /\ NoOrder \in OrderRecord /\ NoOrder.kind = "none" /\ NoOrder.at = "none"
  /\ Closed \in PopupRecord /\ Closed.open = FALSE /\ Closed.blind = FALSE
  /\ Idle \in ViewRecord /\ Idle.phase = "idle"
BY DEF NoDoc, DocRecord, NoOrder, OrderRecord, Closed, PopupRecord, Idle, ViewRecord, Phases

\* An order that goes on keeps its kind.
LEMMA GoesFits ==
  ASSUME RecorderShape, NEW o \in Orders,
         NEW at \in {"none", "begin", "stream", "send", "mic", "close", "idle"}, Goes(o, at)
  PROVE  /\ order' \in [Orders -> OrderRecord]
         /\ order'[o].kind = order[o].kind /\ order'[o].at = at /\ order'[o].blind = order[o].blind
         /\ \A p \in Orders : p # o => order'[p] = order[p]
<1>1. order[o] \in OrderRecord /\ order \in [Orders -> OrderRecord]
  BY DEF RecorderShape
<1>2. [order[o] EXCEPT !.at = at] \in OrderRecord
  BY <1>1 DEF OrderRecord
<1>3. order' = [order EXCEPT ![o] = [order[o] EXCEPT !.at = at]]
  BY <1>1 DEF Goes
<1> QED
  BY <1>1, <1>2, <1>3 DEF OrderRecord

\* An answered order is over, and tells the popup.
LEMMA AnsweredFits ==
  ASSUME RecorderShape, NEW o \in Orders, NEW ok \in BOOLEAN, order[o].kind # "none",
         Answered(o, ok)
  PROVE  /\ order' \in [Orders -> OrderRecord] /\ order'[o] = NoOrder
         /\ \A p \in Orders : p # o => order'[p] = order[p]
         /\ popup' \in PopupRecord /\ (popup'.open <=> popup.open)
         /\ order[o].kind = "start" /\ ~ok =>
              popup'.view.phase = popup.view.phase /\ (popup'.blind <=> popup.blind)
         /\ order[o].kind \in {"stop", "retry"} =>
              popup'.view.phase \in {popup.view.phase, "uploading"}
         /\ popup.open /\ popup.waits = "start" /\ order[o].kind = "start" /\ ok =>
              popup'.view.phase = "recording" /\ ~popup'.blind
         /\ popup' = popup \/ (popup'.waits = "none" /\ popup.waits = order[o].kind)
         /\ popup'.blind => popup.blind
         /\ ~popup.open => popup' = popup
<1> DEFINE k == order[o].kind
           ph == CASE k = "start" -> IF ok THEN "recording" ELSE popup.view.phase
                   [] k \in {"stop", "retry"} -> "uploading"
                   [] k = "reset" -> "idle"
           b == popup.blind /\ ~ok
<1>1. order \in [Orders -> OrderRecord] /\ popup \in PopupRecord /\ order[o] \in OrderRecord
  BY DEF RecorderShape
<1>2. order' = [order EXCEPT ![o] = NoOrder]
      /\ popup' = IF popup.open /\ popup.waits = k
                  THEN [popup EXCEPT !.waits = "none", !.view.phase = ph, !.blind = b] ELSE popup
  BY DEF Answered
<1>3. ph \in Phases
  BY <1>1 DEF OrderRecord, PopupRecord, ViewRecord, Phases
<1>4. order' \in [Orders -> OrderRecord] /\ order'[o] = NoOrder
      /\ \A p \in Orders : p # o => order'[p] = order[p]
  BY <1>1, <1>2, NothingsFit
<1>b. b \in BOOLEAN
  OBVIOUS
<1> HIDE DEF ph, b
<1> DEFINE told == [popup EXCEPT !.waits = "none", !.view.phase = ph, !.blind = b]
<1>t. told \in PopupRecord /\ told.open = popup.open /\ told.view.phase = ph /\ told.waits = "none"
      /\ told.blind = b
  BY <1>1, <1>3, <1>b DEF PopupRecord, ViewRecord
<1>w. popup' = IF popup.open /\ popup.waits = k THEN told ELSE popup
  BY <1>2
<1> HIDE DEF told
<1>5. /\ popup' \in PopupRecord /\ (popup'.open <=> popup.open)
      /\ popup' = popup \/ (popup.waits = k /\ popup'.view.phase = ph /\ popup'.waits = "none" /\ popup'.blind = b)
      /\ popup.open /\ popup.waits = k => popup'.view.phase = ph /\ popup'.blind = b
  <2>1. CASE popup.open /\ popup.waits = k
    BY <2>1, <1>t, <1>w
  <2>2. CASE ~(popup.open /\ popup.waits = k)
    <3>1. popup' = popup
      BY <2>2, <1>w, Zenon
    <3>2. popup' \in PopupRecord /\ (popup'.open <=> popup.open)
      BY <3>1, <1>1
    <3> QED
      BY <2>2, <3>1, <3>2
  <2> QED
    BY <2>1, <2>2
<1>6. /\ ok => ~b
      /\ ~ok => (b <=> popup.blind)
  BY DEF b
<1>7. k = "start" /\ ~ok => ph = popup.view.phase
  BY DEF ph
<1>8. k \in {"stop", "retry"} => ph = "uploading"
  BY DEF ph
<1>9. k = "start" /\ ok => ph = "recording"
  BY DEF ph
<1>10. popup'.blind => popup.blind
  BY <1>5 DEF b
<1>11. k = "start" /\ ~ok => popup'.view.phase = popup.view.phase /\ (popup'.blind <=> popup.blind)
  BY <1>5, <1>6, <1>7
<1>12. k \in {"stop", "retry"} => popup'.view.phase \in {popup.view.phase, "uploading"}
  BY <1>5, <1>8
<1>13. popup.open /\ popup.waits = "start" /\ k = "start" /\ ok => popup'.view.phase = "recording" /\ ~popup'.blind
  BY <1>5, <1>6, <1>9
<1>14. popup' \in PopupRecord /\ (popup'.open <=> popup.open)
  BY <1>5
<1>15. popup' = popup \/ (popup'.waits = "none" /\ popup.waits = k)
  BY <1>5
<1>16. ~popup.open => popup' = popup
  BY <1>w
<1> QED
  BY <1>4, <1>10, <1>11, <1>12, <1>13, <1>14, <1>15, <1>16, Zenon

\* A popup that opens shows what the worker knows, or that it knows nothing.
LEMMA OpenPopupKeeps ==
  ASSUME Patient, RecorderTyped, RecorderHeld, OpenPopup
  PROVE  RecorderHeld'
<1> USE NothingsFit
<1>1. /\ rec \in ViewRecord /\ doc \in DocRecord /\ pushes \in Seq(PushRecord)
      /\ order \in [Orders -> OrderRecord] /\ popup \in PopupRecord /\ tapes \in Nat
      /\ Len(pushes) \in Nat /\ \A i \in 1 .. Len(pushes) : pushes[i] \in PushRecord
  BY DEF RecorderTyped, RecorderShape
<1>20. /\ rec' = rec
       /\ pushes' = pushes
       /\ order' = order
       /\ tapes' = tapes
       /\ finished' = finished
       /\ excused' = excused
       /\ popup' \in PopupRecord
       /\ popup'.open
       /\ (popup'.view = rec /\ ~popup'.blind) \/ (popup'.view.phase = "idle" /\ popup'.blind)
       /\ popup'.waits = "none"
       /\ \A p \in Orders : order[p] = NoOrder
  <2>1. PICK seen \in BOOLEAN :
               popup' = [open |-> TRUE, view |-> IF seen THEN rec ELSE Idle, waits |-> "none", blind |-> ~seen]
    BY DEF OpenPopup
  <2>2. CASE seen
    BY <2>1, <2>2, <1>1 DEF OpenPopup, PopupRecord
  <2>3. CASE ~seen
    BY <2>1, <2>3, <1>1 DEF OpenPopup, PopupRecord
  <2> QED
    BY <2>2, <2>3
<1>21. /\ doc' = doc
  BY <1>1, <1>20 DEF OpenPopup, DocRecord
<1> USE <1>1, <1>20, <1>21 DEF RecorderTyped, RecorderHeld, OneOrder, StartsFromNothing, RecordsAlone,
        HeldIsShown, DoneHoldsNothing, RecordingKept
<1>5. StartsFromNothing'
  OBVIOUS
<1>6. RecordsAlone'
  OBVIOUS
<1>7. HeldIsShown'
  OBVIOUS
<1>8. DoneHoldsNothing'
  OBVIOUS
<1>9. RecordingKept'
  OBVIOUS
<1> QED
  BY <1>5, <1>6, <1>7, <1>8, <1>9 DEF RecorderHeld

\* A popup that closes forgets its view only.
LEMMA ClosePopupKeeps ==
  ASSUME Patient, RecorderTyped, RecorderHeld, ClosePopup
  PROVE  RecorderHeld'
<1> USE NothingsFit
<1>1. /\ rec \in ViewRecord /\ doc \in DocRecord /\ pushes \in Seq(PushRecord)
      /\ order \in [Orders -> OrderRecord] /\ popup \in PopupRecord /\ tapes \in Nat
      /\ Len(pushes) \in Nat /\ \A i \in 1 .. Len(pushes) : pushes[i] \in PushRecord
  BY DEF RecorderTyped, RecorderShape
<1>20. /\ rec' = rec
       /\ pushes' = pushes
       /\ order' = order
       /\ tapes' = tapes
       /\ finished' = finished
       /\ excused' = excused
       /\ popup' \in PopupRecord
       /\ ~popup'.open /\ ~popup'.blind
  BY <1>1 DEF ClosePopup, Stands, Goes, Answered, ViewRecord, PopupRecord, OrderRecord, PushRecord, Phases
<1>21. /\ doc' = doc
  BY <1>1, <1>20 DEF ClosePopup, DocRecord
<1> USE <1>1, <1>20, <1>21 DEF RecorderTyped, RecorderHeld, OneOrder, StartsFromNothing, RecordsAlone,
        HeldIsShown, DoneHoldsNothing, RecordingKept
<1>5. StartsFromNothing'
  OBVIOUS
<1>6. RecordsAlone'
  OBVIOUS
<1>7. HeldIsShown'
  OBVIOUS
<1>8. DoneHoldsNothing'
  OBVIOUS
<1>9. RecordingKept'
  OBVIOUS
<1> QED
  BY <1>5, <1>6, <1>7, <1>8, <1>9 DEF RecorderHeld

\* A poll brings the view up to date.
LEMMA PollPopupKeeps ==
  ASSUME Patient, RecorderTyped, RecorderHeld, PollPopup
  PROVE  RecorderHeld'
<1> USE NothingsFit
<1>1. /\ rec \in ViewRecord /\ doc \in DocRecord /\ pushes \in Seq(PushRecord)
      /\ order \in [Orders -> OrderRecord] /\ popup \in PopupRecord /\ tapes \in Nat
      /\ Len(pushes) \in Nat /\ \A i \in 1 .. Len(pushes) : pushes[i] \in PushRecord
  BY DEF RecorderTyped, RecorderShape
<1>20. /\ rec' = rec
       /\ pushes' = pushes
       /\ order' = order
       /\ tapes' = tapes
       /\ finished' = finished
       /\ excused' = excused
       /\ popup' \in PopupRecord
       /\ popup'.open
       /\ popup'.view = rec /\ popup'.blind = popup.blind /\ popup'.waits = "none"
       /\ popup.view.phase \in {"recording", "uploading"}
       /\ popup.open
  BY <1>1 DEF PollPopup, Stands, Goes, Answered, ViewRecord, PopupRecord, OrderRecord, PushRecord, Phases
<1>21. /\ doc' = doc
  BY <1>1, <1>20 DEF PollPopup, DocRecord
<1> USE <1>1, <1>20, <1>21 DEF RecorderTyped, RecorderHeld, OneOrder, StartsFromNothing, RecordsAlone,
        HeldIsShown, DoneHoldsNothing, RecordingKept
<1>5. StartsFromNothing'
  OBVIOUS
<1>6. RecordsAlone'
  OBVIOUS
<1>7. HeldIsShown'
  OBVIOUS
<1>8. DoneHoldsNothing'
  OBVIOUS
<1>9. RecordingKept'
  OBVIOUS
<1> QED
  BY <1>5, <1>6, <1>7, <1>8, <1>9 DEF RecorderHeld

\* A button is pressed when no order is under way.
LEMMA PressKeeps ==
  ASSUME Patient, RecorderTyped, RecorderHeld, NEW o \in Orders,
         NEW k \in {"start", "stop", "retry", "reset"}, Press(o, k)
  PROVE  RecorderHeld'
<1> USE NothingsFit
<1>1. /\ rec \in ViewRecord /\ doc \in DocRecord /\ pushes \in Seq(PushRecord)
      /\ order \in [Orders -> OrderRecord] /\ popup \in PopupRecord /\ tapes \in Nat
      /\ Len(pushes) \in Nat /\ \A i \in 1 .. Len(pushes) : pushes[i] \in PushRecord
  BY DEF RecorderTyped, RecorderShape
<1>20. /\ rec' = rec
       /\ pushes' = pushes
       /\ tapes' = tapes
       /\ finished' = finished
       /\ excused' = excused
       /\ popup' \in PopupRecord
       /\ popup'.open
       /\ popup.open
       /\ popup'.view = popup.view
       /\ popup'.waits = k
       /\ popup'.blind = popup.blind
       /\ order'[o].blind = popup.blind
       /\ pushes = <<>>
       /\ \A p \in Orders : order[p] = NoOrder
       /\ order' \in [Orders -> OrderRecord]
       /\ order'[o].kind = k
       /\ order'[o].at = "begin"
       /\ \A p \in Orders : p # o => order'[p] = NoOrder
       /\ k = "start" => popup.view.phase = "idle"
       /\ k = "stop" => popup.view.phase = "recording"
       /\ k \in {"retry", "reset"} => popup.view.phase \in {"done", "error"}
  BY <1>1 DEF Press, Offered, Stands, Goes, Answered, ViewRecord, PopupRecord, OrderRecord, PushRecord, Phases
<1>21. /\ doc' = doc
  BY <1>1, <1>20 DEF Press, Offered, DocRecord
<1> USE <1>1, <1>20, <1>21 DEF RecorderTyped, RecorderHeld, OneOrder, StartsFromNothing, RecordsAlone,
        HeldIsShown, DoneHoldsNothing, RecordingKept
<1>5. StartsFromNothing'
  OBVIOUS
<1>6. RecordsAlone'
  OBVIOUS
<1>7. HeldIsShown'
  OBVIOUS
<1>8. DoneHoldsNothing'
  OBVIOUS
<1>9. RecordingKept'
  OBVIOUS
<1> QED
  BY <1>5, <1>6, <1>7, <1>8, <1>9 DEF RecorderHeld

\* A start is refused over a recording.
LEMMA StartCheckKeepsA ==
  ASSUME Patient, RecorderTyped, RecorderHeld, NEW o \in Orders, StartCheck(o),
         rec.phase \in {"recording", "uploading"}
  PROVE  RecorderHeld'
<1> USE NothingsFit
<1>1. /\ rec \in ViewRecord /\ doc \in DocRecord /\ pushes \in Seq(PushRecord)
      /\ order \in [Orders -> OrderRecord] /\ popup \in PopupRecord /\ tapes \in Nat
      /\ Len(pushes) \in Nat /\ \A i \in 1 .. Len(pushes) : pushes[i] \in PushRecord
  BY DEF RecorderTyped, RecorderShape
<1>20. /\ order[o].kind = "start"
       /\ order[o].at = "begin"
  BY <1>1 DEF StartCheck, Stands
<1>21. /\ rec' = rec
       /\ pushes' = pushes
       /\ tapes' = tapes
       /\ finished' = finished
       /\ excused' = excused
  BY <1>1 DEF StartCheck, Stands, Goes, Answered, ViewRecord, PopupRecord, OrderRecord, PushRecord, Phases
<1>22. /\ doc' = doc
  BY <1>1, <1>21, <1>20 DEF StartCheck, DocRecord
<1>23. /\ order' \in [Orders -> OrderRecord]
       /\ order'[o] = NoOrder
       /\ \A p \in Orders : p # o => order'[p] = order[p]
       /\ popup' \in PopupRecord
       /\ popup'.open <=> popup.open
       /\ popup'.view.phase = popup.view.phase
       /\ popup'.blind <=> popup.blind
       /\ popup'.blind => popup.blind
       /\ ~popup.open => popup' = popup
       /\ popup' = popup \/ (popup'.waits = "none" /\ popup.waits = order[o].kind)
  <2>1. Answered(o, FALSE)
    BY <1>1, <1>20 DEF StartCheck, Stands, RecorderTyped, RecorderHeld, StartsFromNothing
  <2> QED
    BY <1>1, <1>20, <2>1, AnsweredFits DEF RecorderTyped, RecorderHeld, StartsFromNothing
<1> USE <1>1, <1>20, <1>21, <1>22, <1>23 DEF RecorderTyped, RecorderHeld, OneOrder, StartsFromNothing,
        RecordsAlone, HeldIsShown, DoneHoldsNothing, RecordingKept
<1>5. StartsFromNothing'
  OBVIOUS
<1>6. RecordsAlone'
  OBVIOUS
<1>7. HeldIsShown'
  OBVIOUS
<1>8. DoneHoldsNothing'
  OBVIOUS
<1>9. RecordingKept'
  OBVIOUS
<1> QED
  BY <1>5, <1>6, <1>7, <1>8, <1>9 DEF RecorderHeld

\* A start that is not refused goes on to the document.
LEMMA StartCheckKeepsB ==
  ASSUME Patient, RecorderTyped, RecorderHeld, NEW o \in Orders, StartCheck(o),
         rec.phase \notin {"recording", "uploading"}
  PROVE  RecorderHeld'
<1> USE NothingsFit
<1>1. /\ rec \in ViewRecord /\ doc \in DocRecord /\ pushes \in Seq(PushRecord)
      /\ order \in [Orders -> OrderRecord] /\ popup \in PopupRecord /\ tapes \in Nat
      /\ Len(pushes) \in Nat /\ \A i \in 1 .. Len(pushes) : pushes[i] \in PushRecord
  BY DEF RecorderTyped, RecorderShape
<1>20. /\ order[o].kind = "start"
       /\ order[o].at = "begin"
  BY <1>1 DEF StartCheck, Stands
<1>21. /\ rec' = rec
       /\ pushes' = pushes
       /\ popup' = popup
       /\ tapes' = tapes
       /\ finished' = finished
       /\ excused' = excused
  BY <1>1 DEF StartCheck, Stands, Goes, Answered, ViewRecord, PopupRecord, OrderRecord, PushRecord, Phases
<1>22. /\ doc' = doc
  BY <1>1, <1>21, <1>20 DEF StartCheck, DocRecord
<1>23. /\ order' \in [Orders -> OrderRecord]
       /\ order'[o].kind = order[o].kind
       /\ order'[o].blind = order[o].blind
       /\ order'[o].at = "stream"
       /\ \A p \in Orders : p # o => order'[p] = order[p]
  <2>1. Goes(o, "stream")
    BY <1>1, <1>20 DEF StartCheck, Stands, RecorderTyped, RecorderHeld, StartsFromNothing
  <2> QED
    BY <1>1, <1>20, <2>1, GoesFits DEF RecorderTyped
<1> USE <1>1, <1>20, <1>21, <1>22, <1>23 DEF RecorderTyped, RecorderHeld, OneOrder, StartsFromNothing,
        RecordsAlone, HeldIsShown, DoneHoldsNothing, RecordingKept
<1>5. StartsFromNothing'
  OBVIOUS
<1>6. RecordsAlone'
  OBVIOUS
<1>7. HeldIsShown'
  OBVIOUS
<1>8. DoneHoldsNothing'
  OBVIOUS
<1>9. RecordingKept'
  OBVIOUS
<1> QED
  BY <1>5, <1>6, <1>7, <1>8, <1>9 DEF RecorderHeld

\* The document fails to open: nothing was held.
LEMMA StartOpensKeepsA ==
  ASSUME Patient, RecorderTyped, RecorderHeld, NEW o \in Orders, StartOpens(o), Answered(o, FALSE), doc' = doc
  PROVE  RecorderHeld'
<1> USE NothingsFit
<1>1. /\ rec \in ViewRecord /\ doc \in DocRecord /\ pushes \in Seq(PushRecord)
      /\ order \in [Orders -> OrderRecord] /\ popup \in PopupRecord /\ tapes \in Nat
      /\ Len(pushes) \in Nat /\ \A i \in 1 .. Len(pushes) : pushes[i] \in PushRecord
  BY DEF RecorderTyped, RecorderShape
<1>20. /\ order[o].kind = "start"
       /\ order[o].at = "stream"
  BY <1>1 DEF StartOpens, Stands
<1>21. /\ rec' = rec
       /\ pushes' = pushes
       /\ tapes' = tapes
       /\ finished' = finished
       /\ excused' = excused
  BY <1>1 DEF StartOpens, Stands, Goes, Answered, ViewRecord, PopupRecord, OrderRecord, PushRecord, Phases
<1>22. /\ doc' = doc
  BY <1>1, <1>21, <1>20 DEF StartOpens, DocRecord, RecorderTyped, RecorderHeld, StartsFromNothing
<1>23. /\ order' \in [Orders -> OrderRecord]
       /\ order'[o] = NoOrder
       /\ \A p \in Orders : p # o => order'[p] = order[p]
       /\ popup' \in PopupRecord
       /\ popup'.open <=> popup.open
       /\ popup'.view.phase = popup.view.phase
       /\ popup'.blind <=> popup.blind
       /\ popup'.blind => popup.blind
       /\ ~popup.open => popup' = popup
       /\ popup' = popup \/ (popup'.waits = "none" /\ popup.waits = order[o].kind)
  <2>1. Answered(o, FALSE)
    BY <1>1, <1>20 DEF StartOpens, Stands, RecorderTyped, RecorderHeld, StartsFromNothing
  <2> QED
    BY <1>1, <1>20, <2>1, AnsweredFits DEF RecorderTyped, RecorderHeld, StartsFromNothing
<1> USE <1>1, <1>20, <1>21, <1>22, <1>23 DEF RecorderTyped, RecorderHeld, OneOrder, StartsFromNothing,
        RecordsAlone, HeldIsShown, DoneHoldsNothing, RecordingKept
<1>5. StartsFromNothing'
  OBVIOUS
<1>6. RecordsAlone'
  OBVIOUS
<1>7. HeldIsShown'
  OBVIOUS
<1>8. DoneHoldsNothing'
  OBVIOUS
<1>9. RecordingKept'
  OBVIOUS
<1> QED
  BY <1>5, <1>6, <1>7, <1>8, <1>9 DEF RecorderHeld

\* The document is open, a new one holding nothing.
LEMMA StartOpensKeepsB ==
  ASSUME Patient, RecorderTyped, RecorderHeld, NEW o \in Orders, StartOpens(o), Goes(o, "send"),
         popup' = popup, doc' = IF doc.open THEN doc ELSE [NoDoc EXCEPT !.open = TRUE]
  PROVE  RecorderHeld'
<1> USE NothingsFit
<1>1. /\ rec \in ViewRecord /\ doc \in DocRecord /\ pushes \in Seq(PushRecord)
      /\ order \in [Orders -> OrderRecord] /\ popup \in PopupRecord /\ tapes \in Nat
      /\ Len(pushes) \in Nat /\ \A i \in 1 .. Len(pushes) : pushes[i] \in PushRecord
  BY DEF RecorderTyped, RecorderShape
<1>20. /\ order[o].kind = "start"
       /\ order[o].at = "stream"
  BY <1>1 DEF StartOpens, Stands
<1>21. /\ rec' = rec
       /\ pushes' = pushes
       /\ popup' = popup
       /\ tapes' = tapes
       /\ finished' = finished
       /\ excused' = excused
  BY <1>1 DEF StartOpens, Stands, Goes, Answered, ViewRecord, PopupRecord, OrderRecord, PushRecord, Phases
<1>22. /\ doc' \in DocRecord
       /\ doc'.open
       /\ doc'.blob = doc.blob
       /\ doc'.sending = doc.sending
       /\ doc'.mic = doc.mic
       /\ doc'.out = doc.out
  BY <1>1, <1>21, <1>20 DEF StartOpens, NoDoc, DocRecord, RecorderHeld, DoneHoldsNothing
<1>23. /\ order' \in [Orders -> OrderRecord]
       /\ order'[o].kind = order[o].kind
       /\ order'[o].blind = order[o].blind
       /\ order'[o].at = "send"
       /\ \A p \in Orders : p # o => order'[p] = order[p]
  <2>1. Goes(o, "send")
    BY <1>1, <1>20 DEF StartOpens, Stands, RecorderTyped, RecorderHeld, StartsFromNothing
  <2> QED
    BY <1>1, <1>20, <2>1, GoesFits DEF RecorderTyped
<1> USE <1>1, <1>20, <1>21, <1>22, <1>23 DEF RecorderTyped, RecorderHeld, OneOrder, StartsFromNothing,
        RecordsAlone, HeldIsShown, DoneHoldsNothing, RecordingKept
<1>5. StartsFromNothing'
  OBVIOUS
<1>6. RecordsAlone'
  OBVIOUS
<1>7. HeldIsShown'
  OBVIOUS
<1>8. DoneHoldsNothing'
  OBVIOUS
<1>9. RecordingKept'
  OBVIOUS
<1> QED
  BY <1>5, <1>6, <1>7, <1>8, <1>9 DEF RecorderHeld

\* A start that finds no document ends.
LEMMA StartArrivesKeepsA ==
  ASSUME Patient, RecorderTyped, RecorderHeld, NEW o \in Orders, StartArrives(o), ~doc.open
  PROVE  RecorderHeld'
<1> USE NothingsFit
<1>1. /\ rec \in ViewRecord /\ doc \in DocRecord /\ pushes \in Seq(PushRecord)
      /\ order \in [Orders -> OrderRecord] /\ popup \in PopupRecord /\ tapes \in Nat
      /\ Len(pushes) \in Nat /\ \A i \in 1 .. Len(pushes) : pushes[i] \in PushRecord
  BY DEF RecorderTyped, RecorderShape
<1>20. /\ order[o].kind = "start"
       /\ order[o].at = "send"
  BY <1>1 DEF StartArrives, Stands
<1>21. /\ rec' = rec
       /\ pushes' = pushes
       /\ tapes' = tapes
       /\ finished' = finished
       /\ excused' = excused
  BY <1>1 DEF StartArrives, Stands, Goes, Answered, ViewRecord, PopupRecord, OrderRecord, PushRecord, Phases
<1>22. /\ doc' = doc
  BY <1>1, <1>21, <1>20 DEF StartArrives, DocRecord, RecorderTyped, RecorderHeld, StartsFromNothing
<1>23. /\ order' \in [Orders -> OrderRecord]
       /\ order'[o] = NoOrder
       /\ \A p \in Orders : p # o => order'[p] = order[p]
       /\ popup' \in PopupRecord
       /\ popup'.open <=> popup.open
       /\ popup'.view.phase = popup.view.phase
       /\ popup'.blind <=> popup.blind
       /\ popup'.blind => popup.blind
       /\ ~popup.open => popup' = popup
       /\ popup' = popup \/ (popup'.waits = "none" /\ popup.waits = order[o].kind)
  <2>1. Answered(o, FALSE)
    BY <1>1, <1>20 DEF StartArrives, Stands, RecorderTyped, RecorderHeld, StartsFromNothing
  <2> QED
    BY <1>1, <1>20, <2>1, AnsweredFits DEF RecorderTyped, RecorderHeld, StartsFromNothing
<1> USE <1>1, <1>20, <1>21, <1>22, <1>23 DEF RecorderTyped, RecorderHeld, OneOrder, StartsFromNothing,
        RecordsAlone, HeldIsShown, DoneHoldsNothing, RecordingKept
<1>5. StartsFromNothing'
  OBVIOUS
<1>6. RecordsAlone'
  OBVIOUS
<1>7. HeldIsShown'
  OBVIOUS
<1>8. DoneHoldsNothing'
  OBVIOUS
<1>9. RecordingKept'
  OBVIOUS
<1> QED
  BY <1>5, <1>6, <1>7, <1>8, <1>9 DEF RecorderHeld

\* A start asks for the microphone: nothing is held that it could overwrite, or it
\* came from a popup that knew nothing, and what is held is excused.
LEMMA StartArrivesKeepsB ==
  ASSUME Patient, RecorderTyped, RecorderHeld, NEW o \in Orders, StartArrives(o), doc.open
  PROVE  Adrift' \/ RecorderHeld'
<1> USE NothingsFit
<1>1. /\ rec \in ViewRecord /\ doc \in DocRecord /\ pushes \in Seq(PushRecord)
      /\ order \in [Orders -> OrderRecord] /\ popup \in PopupRecord /\ tapes \in Nat
      /\ Len(pushes) \in Nat /\ \A i \in 1 .. Len(pushes) : pushes[i] \in PushRecord
  BY DEF RecorderTyped, RecorderShape
<1>20. /\ order[o].kind = "start"
       /\ order[o].at = "send"
  BY <1>1 DEF StartArrives, Stands
<1>on. doc.mic # "on"
  BY <1>20 DEF RecorderHeld, StartsFromNothing
<1>21. /\ rec' = rec
       /\ pushes' = pushes
       /\ popup' = popup
       /\ tapes' = tapes
       /\ finished' = finished
       /\ excused' = excused \cup Blindly(o)
  BY <1>1, <1>on DEF StartArrives, Stands, Goes, Answered, ViewRecord, PopupRecord, OrderRecord,
     PushRecord, Phases
<1>22. /\ doc' \in DocRecord
       /\ doc' = [open |-> doc.open, mic |-> "asking", tape |-> doc.tape, blob |-> 0, sending |-> doc.sending, out |-> doc.out, sent |-> doc.sending]
       /\ doc'.mic = "asking"
       /\ doc'.tape = doc.tape
       /\ doc'.blob = 0
       /\ doc'.sending = doc.sending
       /\ doc'.out = doc.out
       /\ doc'.open <=> doc.open
  <2>1. doc' = [open |-> doc.open, mic |-> "asking", tape |-> doc.tape, blob |-> 0, sending |-> doc.sending, out |-> doc.out, sent |-> doc.sending]
    BY <1>1, <1>on, <1>21, <1>20 DEF StartArrives, DocRecord, RecorderTyped, RecorderHeld, StartsFromNothing
  <2> QED
    BY <2>1, <1>1 DEF DocRecord
<1>23. /\ order' \in [Orders -> OrderRecord]
       /\ order'[o].kind = order[o].kind
       /\ order'[o].blind = order[o].blind
       /\ order'[o].at = "mic"
       /\ \A p \in Orders : p # o => order'[p] = order[p]
  <2>1. Goes(o, "mic")
    BY <1>1, <1>on, <1>20 DEF StartArrives, Stands, RecorderTyped, RecorderHeld, StartsFromNothing
  <2> QED
    BY <1>1, <1>20, <2>1, GoesFits DEF RecorderTyped
<1>4. CASE Blindly(o) = 1 .. MaxTapes
  BY <1>4, <1>21 DEF Adrift
<1>k. CASE /\ ~order[o].blind \/ (doc.sending = 0 /\ pushes = <<>>)
           /\ {doc.blob} \ {0} \subseteq excused'
  <2>5. StartsFromNothing'
    BY <1>1, <1>20, <1>21, <1>22, <1>23, <1>k DEF RecorderTyped, RecorderHeld, OneOrder,
       StartsFromNothing, RecordsAlone, HeldIsShown, DoneHoldsNothing, RecordingKept
  <2>6. RecordsAlone'
    BY <1>1, <1>20, <1>21, <1>22, <1>23, <1>k DEF RecorderTyped, RecorderHeld, OneOrder,
       StartsFromNothing, RecordsAlone, HeldIsShown, DoneHoldsNothing, RecordingKept
  <2>7. HeldIsShown'
    BY <1>1, <1>20, <1>21, <1>22, <1>23, <1>k DEF RecorderTyped, RecorderHeld, OneOrder,
       StartsFromNothing, RecordsAlone, HeldIsShown, DoneHoldsNothing, RecordingKept
  <2>8. DoneHoldsNothing'
    BY <1>1, <1>20, <1>21, <1>22, <1>23, <1>k DEF RecorderTyped, RecorderHeld, OneOrder,
       StartsFromNothing, RecordsAlone, HeldIsShown, DoneHoldsNothing, RecordingKept
  <2>9. RecordingKept'
    BY <1>1, <1>20, <1>21, <1>22, <1>23, <1>k DEF RecorderTyped, RecorderHeld, OneOrder,
       StartsFromNothing, RecordsAlone, HeldIsShown, DoneHoldsNothing, RecordingKept
  <2> QED
    BY <2>5, <2>6, <2>7, <2>8, <2>9 DEF RecorderHeld
<1>5. CASE ~order[o].blind
  BY <1>5, <1>20, <1>k DEF RecorderHeld, StartsFromNothing
<1>6. CASE order[o].blind /\ doc.sending = 0 /\ pushes = <<>>
  BY <1>6, <1>21, <1>k DEF Blindly
<1> QED
  BY <1>4, <1>5, <1>6 DEF Blindly

\* The document went while it asked.
LEMMA StartRecordsKeepsA ==
  ASSUME Patient, RecorderTyped, RecorderHeld, NEW o \in Orders, StartRecords(o), ~doc.open
  PROVE  RecorderHeld'
<1> USE NothingsFit
<1>1. /\ rec \in ViewRecord /\ doc \in DocRecord /\ pushes \in Seq(PushRecord)
      /\ order \in [Orders -> OrderRecord] /\ popup \in PopupRecord /\ tapes \in Nat
      /\ Len(pushes) \in Nat /\ \A i \in 1 .. Len(pushes) : pushes[i] \in PushRecord
  BY DEF RecorderTyped, RecorderShape
<1>20. /\ order[o].kind = "start"
       /\ order[o].at = "mic"
  BY <1>1 DEF StartRecords, Stands
<1>21. /\ rec' = rec
       /\ pushes' = pushes
       /\ tapes' = tapes
       /\ finished' = finished
       /\ excused' = excused
  BY <1>1 DEF StartRecords, Stands, Goes, Answered, ViewRecord, PopupRecord, OrderRecord, PushRecord, Phases
<1>22. /\ doc' = doc
  BY <1>1, <1>21, <1>20 DEF StartRecords, DocRecord
<1>23. /\ order' \in [Orders -> OrderRecord]
       /\ order'[o] = NoOrder
       /\ \A p \in Orders : p # o => order'[p] = order[p]
       /\ popup' \in PopupRecord
       /\ popup'.open <=> popup.open
       /\ popup'.view.phase = popup.view.phase
       /\ popup'.blind <=> popup.blind
       /\ popup'.blind => popup.blind
       /\ ~popup.open => popup' = popup
       /\ popup' = popup \/ (popup'.waits = "none" /\ popup.waits = order[o].kind)
  <2>1. Answered(o, FALSE)
    BY <1>1, <1>20 DEF StartRecords, Stands, RecorderTyped, RecorderHeld, StartsFromNothing
  <2> QED
    BY <1>1, <1>20, <2>1, AnsweredFits DEF RecorderTyped, RecorderHeld, StartsFromNothing
<1> USE <1>1, <1>20, <1>21, <1>22, <1>23 DEF RecorderTyped, RecorderHeld, OneOrder, StartsFromNothing,
        RecordsAlone, HeldIsShown, DoneHoldsNothing, RecordingKept
<1>5. StartsFromNothing'
  OBVIOUS
<1>6. RecordsAlone'
  OBVIOUS
<1>7. HeldIsShown'
  OBVIOUS
<1>8. DoneHoldsNothing'
  OBVIOUS
<1>9. RecordingKept'
  OBVIOUS
<1> QED
  BY <1>5, <1>6, <1>7, <1>8, <1>9 DEF RecorderHeld

\* A new tape begins.
LEMMA StartRecordsKeepsB ==
  ASSUME Patient, RecorderTyped, RecorderHeld, NEW o \in Orders, StartRecords(o), doc.open,
         Answered(o, TRUE), doc' = [doc EXCEPT !.mic = "on", !.tape = tapes + 1], tapes' = tapes + 1,
         rec' = [phase |-> "recording", retry |-> FALSE]
  PROVE  RecorderHeld'
<1> USE NothingsFit
<1>1. /\ rec \in ViewRecord /\ doc \in DocRecord /\ pushes \in Seq(PushRecord)
      /\ order \in [Orders -> OrderRecord] /\ popup \in PopupRecord /\ tapes \in Nat
      /\ Len(pushes) \in Nat /\ \A i \in 1 .. Len(pushes) : pushes[i] \in PushRecord
  BY DEF RecorderTyped, RecorderShape
<1>20. /\ order[o].kind = "start"
       /\ order[o].at = "mic"
  BY <1>1 DEF StartRecords, Stands
<1>21. /\ pushes' = pushes
       /\ finished' = finished
       /\ excused' = excused
       /\ rec' \in ViewRecord
       /\ rec'.phase = "recording"
       /\ tapes' = tapes + 1
  BY <1>1 DEF StartRecords, Stands, Goes, Answered, ViewRecord, PopupRecord, OrderRecord, PushRecord, Phases
<1>22. /\ doc' \in DocRecord
       /\ doc' = [open |-> doc.open, mic |-> "on", tape |-> tapes + 1, blob |-> doc.blob, sending |-> doc.sending, out |-> doc.out, sent |-> doc.sent]
       /\ doc'.mic = "on"
       /\ doc'.tape = tapes + 1
       /\ doc'.blob = doc.blob
       /\ doc'.sending = doc.sending
       /\ doc'.out = doc.out
       /\ doc'.open <=> doc.open
  <2>1. doc' = [open |-> doc.open, mic |-> "on", tape |-> tapes + 1, blob |-> doc.blob, sending |-> doc.sending, out |-> doc.out, sent |-> doc.sent]
    BY <1>1, <1>21, <1>20 DEF StartRecords, DocRecord
  <2>2. tapes + 1 \in Nat
    BY <1>1
  <2>3. doc' \in DocRecord
    BY <1>1, <2>1, <2>2 DEF DocRecord
  <2> QED
    BY <2>1, <2>3
<1>23. /\ order' \in [Orders -> OrderRecord]
       /\ order'[o] = NoOrder
       /\ \A p \in Orders : p # o => order'[p] = order[p]
       /\ popup' \in PopupRecord
       /\ popup'.open <=> popup.open
       /\ popup.open => popup'.view.phase = "recording" /\ ~popup'.blind
       /\ popup'.blind => popup.blind
       /\ ~popup.open => popup' = popup
       /\ popup' = popup \/ (popup'.waits = "none" /\ popup.waits = order[o].kind)
  <2>1. Answered(o, TRUE)
    BY <1>1, <1>20 DEF StartRecords, Stands, RecorderTyped, RecorderHeld, StartsFromNothing
  <2> QED
    BY <1>1, <1>20, <2>1, AnsweredFits DEF RecorderTyped, RecorderHeld, StartsFromNothing
<1>5. StartsFromNothing'
  BY <1>1, <1>20, <1>21, <1>22, <1>23 DEF RecorderTyped, RecorderHeld, OneOrder, StartsFromNothing,
     RecordsAlone, HeldIsShown, DoneHoldsNothing, RecordingKept
<1>6. RecordsAlone'
  BY <1>1, <1>20, <1>21, <1>22, <1>23 DEF RecorderTyped, RecorderHeld, OneOrder, StartsFromNothing,
     RecordsAlone, HeldIsShown, DoneHoldsNothing, RecordingKept
<1>7. HeldIsShown'
  <2>1. doc'.blob = 0 /\ doc'.sending = 0
    BY <1>20, <1>21, <1>22 DEF RecorderHeld, StartsFromNothing, HeldIsShown, DoneHoldsNothing
  <2>2. popup'.blind => popup'.view.phase = "idle" /\ popup'.waits \in {"none", "start"}
    <3>1. popup' = popup => (popup'.blind => popup'.view.phase = "idle" /\ popup'.waits \in {"none", "start"})
      BY DEF RecorderHeld, HeldIsShown
    <3>2. popup' # popup => ~popup'.blind
      <4>1. ASSUME popup' # popup PROVE popup.open /\ popup.waits = order[o].kind
        BY <4>1, <1>23
      <4>2. popup.blind => popup.waits \in {"none", "start"}
        BY DEF RecorderHeld, HeldIsShown
      <4> QED
        BY <4>1, <4>2, <1>23, <1>20
    <3> QED
      BY <3>1, <3>2
  <2>3. \A p \in Orders : order'[p].kind # "reset"
    BY <1>20, <1>23 DEF RecorderTyped, OneOrder
  <2> QED
    BY <2>1, <2>2, <2>3 DEF HeldIsShown
<1>8. DoneHoldsNothing'
  BY <1>1, <1>20, <1>21, <1>22, <1>23 DEF RecorderTyped, RecorderHeld, OneOrder, StartsFromNothing,
     RecordsAlone, HeldIsShown, DoneHoldsNothing, RecordingKept
<1>9. RecordingKept'
  BY <1>1, <1>20, <1>21, <1>22, <1>23 DEF RecorderTyped, RecorderHeld, OneOrder, StartsFromNothing,
     RecordsAlone, HeldIsShown, DoneHoldsNothing, RecordingKept
<1> QED
  BY <1>5, <1>6, <1>7, <1>8, <1>9 DEF RecorderHeld

\* The microphone is refused: nothing was held.
LEMMA StartRecordsKeepsC ==
  ASSUME Patient, RecorderTyped, RecorderHeld, NEW o \in Orders, StartRecords(o), doc.open,
         Goes(o, "close"), doc' = [doc EXCEPT !.mic = "off", !.tape = 0, !.blob = 0], rec' = rec,
         popup' = popup, tapes' = tapes
  PROVE  RecorderHeld'
<1> USE NothingsFit
<1>1. /\ rec \in ViewRecord /\ doc \in DocRecord /\ pushes \in Seq(PushRecord)
      /\ order \in [Orders -> OrderRecord] /\ popup \in PopupRecord /\ tapes \in Nat
      /\ Len(pushes) \in Nat /\ \A i \in 1 .. Len(pushes) : pushes[i] \in PushRecord
  BY DEF RecorderTyped, RecorderShape
<1>20. /\ order[o].kind = "start"
       /\ order[o].at = "mic"
  BY <1>1 DEF StartRecords, Stands
<1>21. /\ rec' = rec
       /\ pushes' = pushes
       /\ popup' = popup
       /\ tapes' = tapes
       /\ finished' = finished
       /\ excused' = excused
  BY <1>1 DEF StartRecords, Stands, Goes, Answered, ViewRecord, PopupRecord, OrderRecord, PushRecord, Phases
<1>22. /\ doc' \in DocRecord
       /\ doc' = [open |-> doc.open, mic |-> "off", tape |-> 0, blob |-> 0, sending |-> doc.sending, out |-> doc.out, sent |-> doc.sent]
       /\ doc'.mic = "off"
       /\ doc'.tape = 0
       /\ doc'.blob = 0
       /\ doc'.sending = doc.sending
       /\ doc'.out = doc.out
       /\ doc'.open <=> doc.open
  <2>1. doc' = [open |-> doc.open, mic |-> "off", tape |-> 0, blob |-> 0, sending |-> doc.sending, out |-> doc.out, sent |-> doc.sent]
    BY <1>1, <1>21, <1>20 DEF StartRecords, DocRecord
  <2> QED
    BY <2>1, <1>1 DEF DocRecord
<1>23. /\ order' \in [Orders -> OrderRecord]
       /\ order'[o].kind = order[o].kind
       /\ order'[o].blind = order[o].blind
       /\ order'[o].at = "close"
       /\ \A p \in Orders : p # o => order'[p] = order[p]
  <2>1. Goes(o, "close")
    BY <1>1, <1>20 DEF StartRecords, Stands, RecorderTyped, RecorderHeld, StartsFromNothing
  <2> QED
    BY <1>1, <1>20, <2>1, GoesFits DEF RecorderTyped
<1> USE <1>1, <1>20, <1>21, <1>22, <1>23 DEF RecorderTyped, RecorderHeld, OneOrder, StartsFromNothing,
        RecordsAlone, HeldIsShown, DoneHoldsNothing, RecordingKept
<1>5. StartsFromNothing'
  OBVIOUS
<1>6. RecordsAlone'
  OBVIOUS
<1>7. HeldIsShown'
  OBVIOUS
<1>8. DoneHoldsNothing'
  OBVIOUS
<1>9. RecordingKept'
  OBVIOUS
<1> QED
  BY <1>5, <1>6, <1>7, <1>8, <1>9 DEF RecorderHeld

\* A start that failed ends.
LEMMA StartFailsKeeps ==
  ASSUME Patient, RecorderTyped, RecorderHeld, NEW o \in Orders, StartFails(o)
  PROVE  RecorderHeld'
<1> USE NothingsFit
<1>1. /\ rec \in ViewRecord /\ doc \in DocRecord /\ pushes \in Seq(PushRecord)
      /\ order \in [Orders -> OrderRecord] /\ popup \in PopupRecord /\ tapes \in Nat
      /\ Len(pushes) \in Nat /\ \A i \in 1 .. Len(pushes) : pushes[i] \in PushRecord
  BY DEF RecorderTyped, RecorderShape
<1>20. /\ order[o].kind = "start"
       /\ order[o].at = "close"
  BY <1>1 DEF StartFails, Stands
<1>21. /\ rec' = rec
       /\ pushes' = pushes
       /\ tapes' = tapes
       /\ finished' = finished
       /\ excused' = excused
  BY <1>1 DEF StartFails, Stands, Goes, Answered, ViewRecord, PopupRecord, OrderRecord, PushRecord, Phases
<1>22. /\ doc' = NoDoc
  BY <1>1, <1>21, <1>20 DEF StartFails, DocRecord
<1>23. /\ order' \in [Orders -> OrderRecord]
       /\ order'[o] = NoOrder
       /\ \A p \in Orders : p # o => order'[p] = order[p]
       /\ popup' \in PopupRecord
       /\ popup'.open <=> popup.open
       /\ popup'.view.phase = popup.view.phase
       /\ popup'.blind <=> popup.blind
       /\ popup'.blind => popup.blind
       /\ ~popup.open => popup' = popup
       /\ popup' = popup \/ (popup'.waits = "none" /\ popup.waits = order[o].kind)
  <2>1. Answered(o, FALSE)
    BY <1>1, <1>20 DEF StartFails, Stands, RecorderTyped, RecorderHeld, StartsFromNothing
  <2> QED
    BY <1>1, <1>20, <2>1, AnsweredFits DEF RecorderTyped, RecorderHeld, StartsFromNothing
<1> USE <1>1, <1>20, <1>21, <1>22, <1>23 DEF RecorderTyped, RecorderHeld, OneOrder, StartsFromNothing,
        RecordsAlone, HeldIsShown, DoneHoldsNothing, RecordingKept
<1>5. StartsFromNothing'
  OBVIOUS
<1>6. RecordsAlone'
  OBVIOUS
<1>7. HeldIsShown'
  OBVIOUS
<1>8. DoneHoldsNothing'
  OBVIOUS
<1>9. RecordingKept'
  OBVIOUS
<1> QED
  BY <1>5, <1>6, <1>7, <1>8, <1>9 DEF RecorderHeld

\* A stop that finds no recording ends.
LEMMA StopCheckKeepsA ==
  ASSUME Patient, RecorderTyped, RecorderHeld, NEW o \in Orders, StopCheck(o), rec.phase # "recording"
  PROVE  RecorderHeld'
<1> USE NothingsFit
<1>1. /\ rec \in ViewRecord /\ doc \in DocRecord /\ pushes \in Seq(PushRecord)
      /\ order \in [Orders -> OrderRecord] /\ popup \in PopupRecord /\ tapes \in Nat
      /\ Len(pushes) \in Nat /\ \A i \in 1 .. Len(pushes) : pushes[i] \in PushRecord
  BY DEF RecorderTyped, RecorderShape
<1>20. /\ order[o].kind = "stop"
       /\ order[o].at = "begin"
  BY <1>1 DEF StopCheck, Stands
<1>21. /\ rec' = rec
       /\ pushes' = pushes
       /\ tapes' = tapes
       /\ finished' = finished
       /\ excused' = excused
  BY <1>1 DEF StopCheck, Stands, Goes, Answered, ViewRecord, PopupRecord, OrderRecord, PushRecord, Phases
<1>22. /\ doc' = doc
  BY <1>1, <1>21, <1>20 DEF StopCheck, DocRecord
<1>23. /\ order' \in [Orders -> OrderRecord]
       /\ order'[o] = NoOrder
       /\ \A p \in Orders : p # o => order'[p] = order[p]
       /\ popup' \in PopupRecord
       /\ popup'.open <=> popup.open
       /\ popup'.view.phase \in {popup.view.phase, "uploading"}
       /\ popup'.blind => popup.blind
       /\ ~popup.open => popup' = popup
       /\ popup' = popup \/ (popup'.waits = "none" /\ popup.waits = order[o].kind)
  <2>1. Answered(o, FALSE)
    BY <1>1, <1>20 DEF StopCheck, Stands, RecorderTyped, RecorderHeld, StartsFromNothing
  <2> QED
    BY <1>1, <1>20, <2>1, AnsweredFits DEF RecorderTyped, RecorderHeld, StartsFromNothing
<1> USE <1>1, <1>20, <1>21, <1>22, <1>23 DEF RecorderTyped, RecorderHeld, OneOrder, StartsFromNothing,
        RecordsAlone, HeldIsShown, DoneHoldsNothing, RecordingKept
<1>5. StartsFromNothing'
  OBVIOUS
<1>6. RecordsAlone'
  OBVIOUS
<1>7. HeldIsShown'
  OBVIOUS
<1>8. DoneHoldsNothing'
  OBVIOUS
<1>9. RecordingKept'
  OBVIOUS
<1> QED
  BY <1>5, <1>6, <1>7, <1>8, <1>9 DEF RecorderHeld

\* A stop goes on to the document.
LEMMA StopCheckKeepsB ==
  ASSUME Patient, RecorderTyped, RecorderHeld, NEW o \in Orders, StopCheck(o), rec.phase = "recording"
  PROVE  RecorderHeld'
<1> USE NothingsFit
<1>1. /\ rec \in ViewRecord /\ doc \in DocRecord /\ pushes \in Seq(PushRecord)
      /\ order \in [Orders -> OrderRecord] /\ popup \in PopupRecord /\ tapes \in Nat
      /\ Len(pushes) \in Nat /\ \A i \in 1 .. Len(pushes) : pushes[i] \in PushRecord
  BY DEF RecorderTyped, RecorderShape
<1>20. /\ order[o].kind = "stop"
       /\ order[o].at = "begin"
  BY <1>1 DEF StopCheck, Stands
<1>21. /\ rec' = rec
       /\ pushes' = pushes
       /\ popup' = popup
       /\ tapes' = tapes
       /\ finished' = finished
       /\ excused' = excused
  BY <1>1 DEF StopCheck, Stands, Goes, Answered, ViewRecord, PopupRecord, OrderRecord, PushRecord, Phases
<1>22. /\ doc' = doc
  BY <1>1, <1>21, <1>20 DEF StopCheck, DocRecord
<1>23. /\ order' \in [Orders -> OrderRecord]
       /\ order'[o].kind = order[o].kind
       /\ order'[o].blind = order[o].blind
       /\ order'[o].at = "send"
       /\ \A p \in Orders : p # o => order'[p] = order[p]
  <2>1. Goes(o, "send")
    BY <1>1, <1>20 DEF StopCheck, Stands, RecorderTyped, RecorderHeld, StartsFromNothing
  <2> QED
    BY <1>1, <1>20, <2>1, GoesFits DEF RecorderTyped
<1> USE <1>1, <1>20, <1>21, <1>22, <1>23 DEF RecorderTyped, RecorderHeld, OneOrder, StartsFromNothing,
        RecordsAlone, HeldIsShown, DoneHoldsNothing, RecordingKept
<1>5. StartsFromNothing'
  OBVIOUS
<1>6. RecordsAlone'
  OBVIOUS
<1>7. HeldIsShown'
  OBVIOUS
<1>8. DoneHoldsNothing'
  OBVIOUS
<1>9. RecordingKept'
  OBVIOUS
<1> QED
  BY <1>5, <1>6, <1>7, <1>8, <1>9 DEF RecorderHeld

\* A stop that finds nothing recording ends.
LEMMA StopArrivesKeepsA ==
  ASSUME Patient, RecorderTyped, RecorderHeld, NEW o \in Orders, StopArrives(o), ~(doc.open /\ doc.mic = "on")
  PROVE  RecorderHeld'
<1> USE NothingsFit
<1>1. /\ rec \in ViewRecord /\ doc \in DocRecord /\ pushes \in Seq(PushRecord)
      /\ order \in [Orders -> OrderRecord] /\ popup \in PopupRecord /\ tapes \in Nat
      /\ Len(pushes) \in Nat /\ \A i \in 1 .. Len(pushes) : pushes[i] \in PushRecord
  BY DEF RecorderTyped, RecorderShape
<1>20. /\ order[o].kind = "stop"
       /\ order[o].at = "send"
  BY <1>1 DEF StopArrives, Stands
<1>21. /\ pushes' = pushes
       /\ tapes' = tapes
       /\ finished' = finished
       /\ excused' = excused
       /\ rec' \in ViewRecord
       /\ rec' = rec \/ rec'.phase = "error"
  <2>1. rec' = rec \/ rec' = [phase |-> "error", retry |-> FALSE]
    BY DEF StopArrives
  <2>2. [phase |-> "error", retry |-> FALSE] \in ViewRecord
    BY DEF ViewRecord, Phases
  <2>3. pushes' = pushes /\ tapes' = tapes /\ finished' = finished /\ excused' = excused
    BY DEF StopArrives
  <2>4. rec' \in ViewRecord /\ (rec' = rec \/ rec'.phase = "error")
    <3>1. CASE rec' = rec
      BY <1>1, <3>1
    <3>2. CASE rec' = [phase |-> "error", retry |-> FALSE]
      BY <2>2, <3>2
    <3> QED
      BY <2>1, <3>1, <3>2
  <2> QED
    BY <2>3, <2>4
<1>22. /\ doc' = doc
  BY <1>1, <1>21, <1>20 DEF StopArrives, DocRecord
<1>23. /\ order' \in [Orders -> OrderRecord]
       /\ order'[o] = NoOrder
       /\ \A p \in Orders : p # o => order'[p] = order[p]
       /\ popup' \in PopupRecord
       /\ popup'.open <=> popup.open
       /\ popup'.view.phase \in {popup.view.phase, "uploading"}
       /\ popup'.blind => popup.blind
       /\ ~popup.open => popup' = popup
       /\ popup' = popup \/ (popup'.waits = "none" /\ popup.waits = order[o].kind)
  <2>1. Answered(o, TRUE)
    BY <1>1, <1>20 DEF StopArrives, Stands, RecorderTyped, RecorderHeld, StartsFromNothing
  <2> QED
    BY <1>1, <1>20, <2>1, AnsweredFits DEF RecorderTyped, RecorderHeld, StartsFromNothing
<1> USE <1>1, <1>20, <1>21, <1>22, <1>23 DEF RecorderTyped, RecorderHeld, OneOrder, StartsFromNothing,
        RecordsAlone, HeldIsShown, DoneHoldsNothing, RecordingKept
<1>5. StartsFromNothing'
  OBVIOUS
<1>6. RecordsAlone'
  OBVIOUS
<1>7. HeldIsShown'
  OBVIOUS
<1>8. DoneHoldsNothing'
  OBVIOUS
<1>9. RecordingKept'
  OBVIOUS
<1> QED
  BY <1>5, <1>6, <1>7, <1>8, <1>9 DEF RecorderHeld

\* A stop leaves the tape's recording to be sent.
LEMMA StopArrivesKeepsB ==
  ASSUME Patient, RecorderTyped, RecorderHeld, NEW o \in Orders, StopArrives(o), doc.open,
         doc.mic = "on", Finalize(doc, TRUE)
  PROVE  RecorderHeld'
<1> USE NothingsFit
<1>1. /\ rec \in ViewRecord /\ doc \in DocRecord /\ pushes \in Seq(PushRecord)
      /\ order \in [Orders -> OrderRecord] /\ popup \in PopupRecord /\ tapes \in Nat
      /\ Len(pushes) \in Nat /\ \A i \in 1 .. Len(pushes) : pushes[i] \in PushRecord
  BY DEF RecorderTyped, RecorderShape
<1>20. /\ order[o].kind = "stop"
       /\ order[o].at = "send"
  BY <1>1 DEF StopArrives, Stands
<1>21. /\ rec' = rec
       /\ tapes' = tapes
       /\ excused' = excused
       /\ doc.open
       /\ doc.mic = "on"
       /\ finished' = finished \cup {doc.tape}
  BY <1>1 DEF StopArrives, Finalize, Push, Stands, Goes, Answered, ViewRecord, PopupRecord,
     OrderRecord, PushRecord, Phases
<1>22. /\ doc' \in DocRecord
       /\ doc' = [open |-> doc.open, mic |-> "off", tape |-> 0, blob |-> doc.tape, sending |-> doc.sending + 1, out |-> doc.tape, sent |-> doc.sent + 1]
       /\ doc'.mic = "off"
       /\ doc'.tape = 0
       /\ doc'.blob = doc.tape
       /\ doc'.sending = doc.sending + 1
       /\ doc'.out = doc.tape
       /\ doc'.open <=> doc.open
  <2>1. doc' = [open |-> doc.open, mic |-> "off", tape |-> 0, blob |-> doc.tape, sending |-> doc.sending + 1, out |-> doc.tape, sent |-> doc.sent + 1]
    BY <1>1, <1>21, <1>20 DEF StopArrives, Finalize, Push, DocRecord
  <2>2. doc.sending + 1 \in Nat /\ doc.sent + 1 \in Nat
    BY <1>1 DEF DocRecord
  <2> QED
    BY <2>1, <2>2, <1>1 DEF DocRecord
<1>23. /\ pushes' = Append(pushes, [phase |-> "uploading", retry |-> "kept"])
       /\ pushes' \in Seq(PushRecord)
       /\ Len(pushes') = Len(pushes) + 1
       /\ \A i \in 1 .. Len(pushes) : pushes'[i] = pushes[i]
       /\ pushes'[Len(pushes) + 1].phase = "uploading"
  <2>1. pushes' = Append(pushes, [phase |-> "uploading", retry |-> "kept"])
    BY <1>1 DEF StopArrives, Finalize, Push, PushRecord
  <2> QED
    BY <2>1, <1>1 DEF PushRecord
<1>24. /\ order' \in [Orders -> OrderRecord]
       /\ order'[o] = NoOrder
       /\ \A p \in Orders : p # o => order'[p] = order[p]
       /\ popup' \in PopupRecord
       /\ popup'.open <=> popup.open
       /\ popup'.view.phase \in {popup.view.phase, "uploading"}
       /\ popup'.blind => popup.blind
       /\ ~popup.open => popup' = popup
       /\ popup' = popup \/ (popup'.waits = "none" /\ popup.waits = order[o].kind)
  <2>1. Answered(o, TRUE)
    BY <1>1, <1>20 DEF StopArrives, Stands, RecorderTyped, RecorderHeld, StartsFromNothing
  <2> QED
    BY <1>1, <1>20, <2>1, AnsweredFits DEF RecorderTyped, RecorderHeld, StartsFromNothing
<1> USE <1>1, <1>20, <1>21, <1>22, <1>23, <1>24 DEF RecorderTyped, RecorderHeld, OneOrder,
        StartsFromNothing, RecordsAlone, HeldIsShown, DoneHoldsNothing, RecordingKept
<1>5. StartsFromNothing'
  OBVIOUS
<1>6. RecordsAlone'
  OBVIOUS
<1>7. HeldIsShown'
  OBVIOUS
<1>8. DoneHoldsNothing'
  OBVIOUS
<1>9. RecordingKept'
  <2>1. \A t \in finished : t \in excused
    BY <1>21 DEF RecorderTyped, RecorderShape, RecorderHeld, RecordsAlone, RecordingKept
  <2> QED
    BY <1>21, <1>22, <2>1 DEF RecordingKept
<1> QED
  BY <1>5, <1>6, <1>7, <1>8, <1>9 DEF RecorderHeld

\* A stop that fails to send leaves the recording held.
LEMMA StopArrivesKeepsC ==
  ASSUME Patient, RecorderTyped, RecorderHeld, NEW o \in Orders, StopArrives(o), doc.open,
         doc.mic = "on", Finalize(doc, FALSE)
  PROVE  RecorderHeld'
<1> USE NothingsFit
<1>1. /\ rec \in ViewRecord /\ doc \in DocRecord /\ pushes \in Seq(PushRecord)
      /\ order \in [Orders -> OrderRecord] /\ popup \in PopupRecord /\ tapes \in Nat
      /\ Len(pushes) \in Nat /\ \A i \in 1 .. Len(pushes) : pushes[i] \in PushRecord
  BY DEF RecorderTyped, RecorderShape
<1>20. /\ order[o].kind = "stop"
       /\ order[o].at = "send"
  BY <1>1 DEF StopArrives, Stands
<1>21. /\ rec' = rec
       /\ tapes' = tapes
       /\ excused' = excused
       /\ doc.open
       /\ doc.mic = "on"
       /\ finished' = finished
  BY <1>1 DEF StopArrives, Finalize, Push, Stands, Goes, Answered, ViewRecord, PopupRecord,
     OrderRecord, PushRecord, Phases
<1>22. /\ doc' \in DocRecord
       /\ doc' = [open |-> doc.open, mic |-> "off", tape |-> 0, blob |-> 0, sending |-> doc.sending, out |-> doc.out, sent |-> doc.sent]
       /\ doc'.mic = "off"
       /\ doc'.tape = 0
       /\ doc'.blob = 0
       /\ doc'.sending = doc.sending
       /\ doc'.out = doc.out
       /\ doc'.open <=> doc.open
  <2>1. doc' = [open |-> doc.open, mic |-> "off", tape |-> 0, blob |-> 0, sending |-> doc.sending, out |-> doc.out, sent |-> doc.sent]
    BY <1>1, <1>21, <1>20 DEF StopArrives, Finalize, Push, DocRecord
  <2> QED
    BY <2>1, <1>1 DEF DocRecord
<1>23. /\ pushes' = Append(pushes, [phase |-> "error", retry |-> "no"])
       /\ pushes' \in Seq(PushRecord)
       /\ Len(pushes') = Len(pushes) + 1
       /\ \A i \in 1 .. Len(pushes) : pushes'[i] = pushes[i]
       /\ pushes'[Len(pushes) + 1].phase = "error"
  <2>1. pushes' = Append(pushes, [phase |-> "error", retry |-> "no"])
    BY <1>1 DEF StopArrives, Finalize, Push, PushRecord
  <2> QED
    BY <2>1, <1>1 DEF PushRecord
<1>24. /\ order' \in [Orders -> OrderRecord]
       /\ order'[o] = NoOrder
       /\ \A p \in Orders : p # o => order'[p] = order[p]
       /\ popup' \in PopupRecord
       /\ popup'.open <=> popup.open
       /\ popup'.view.phase \in {popup.view.phase, "uploading"}
       /\ popup'.blind => popup.blind
       /\ ~popup.open => popup' = popup
       /\ popup' = popup \/ (popup'.waits = "none" /\ popup.waits = order[o].kind)
  <2>1. Answered(o, TRUE)
    BY <1>1, <1>20 DEF StopArrives, Stands, RecorderTyped, RecorderHeld, StartsFromNothing
  <2> QED
    BY <1>1, <1>20, <2>1, AnsweredFits DEF RecorderTyped, RecorderHeld, StartsFromNothing
<1> USE <1>1, <1>20, <1>21, <1>22, <1>23, <1>24 DEF RecorderTyped, RecorderHeld, OneOrder,
        StartsFromNothing, RecordsAlone, HeldIsShown, DoneHoldsNothing, RecordingKept
<1>5. StartsFromNothing'
  OBVIOUS
<1>6. RecordsAlone'
  OBVIOUS
<1>7. HeldIsShown'
  OBVIOUS
<1>8. DoneHoldsNothing'
  OBVIOUS
<1>9. RecordingKept'
  OBVIOUS
<1> QED
  BY <1>5, <1>6, <1>7, <1>8, <1>9 DEF RecorderHeld

\* A track that ends leaves the tape's recording to be sent.
LEMMA TrackEndsKeepsA ==
  ASSUME Patient, RecorderTyped, RecorderHeld, TrackEnds, Finalize(doc, TRUE)
  PROVE  RecorderHeld'
<1> USE NothingsFit
<1>1. /\ rec \in ViewRecord /\ doc \in DocRecord /\ pushes \in Seq(PushRecord)
      /\ order \in [Orders -> OrderRecord] /\ popup \in PopupRecord /\ tapes \in Nat
      /\ Len(pushes) \in Nat /\ \A i \in 1 .. Len(pushes) : pushes[i] \in PushRecord
  BY DEF RecorderTyped, RecorderShape
<1>20. /\ rec' = rec
       /\ order' = order
       /\ popup' = popup
       /\ tapes' = tapes
       /\ excused' = excused
       /\ doc.open
       /\ doc.mic = "on"
       /\ finished' = finished \cup {doc.tape}
  BY <1>1 DEF TrackEnds, Finalize, Push, Stands, Goes, Answered, ViewRecord, PopupRecord, OrderRecord,
     PushRecord, Phases
<1>21. /\ doc' \in DocRecord
       /\ doc' = [open |-> doc.open, mic |-> "off", tape |-> 0, blob |-> doc.tape, sending |-> doc.sending + 1, out |-> doc.tape, sent |-> doc.sent + 1]
       /\ doc'.mic = "off"
       /\ doc'.tape = 0
       /\ doc'.blob = doc.tape
       /\ doc'.sending = doc.sending + 1
       /\ doc'.out = doc.tape
       /\ doc'.open <=> doc.open
  <2>1. doc' = [open |-> doc.open, mic |-> "off", tape |-> 0, blob |-> doc.tape, sending |-> doc.sending + 1, out |-> doc.tape, sent |-> doc.sent + 1]
    BY <1>1, <1>20 DEF TrackEnds, Finalize, Push, DocRecord
  <2>2. doc.sending + 1 \in Nat /\ doc.sent + 1 \in Nat
    BY <1>1 DEF DocRecord
  <2> QED
    BY <2>1, <2>2, <1>1 DEF DocRecord
<1>22. /\ pushes' = Append(pushes, [phase |-> "uploading", retry |-> "kept"])
       /\ pushes' \in Seq(PushRecord)
       /\ Len(pushes') = Len(pushes) + 1
       /\ \A i \in 1 .. Len(pushes) : pushes'[i] = pushes[i]
       /\ pushes'[Len(pushes) + 1].phase = "uploading"
  <2>1. pushes' = Append(pushes, [phase |-> "uploading", retry |-> "kept"])
    BY <1>1 DEF TrackEnds, Finalize, Push, PushRecord
  <2> QED
    BY <2>1, <1>1 DEF PushRecord
<1> USE <1>1, <1>20, <1>21, <1>22 DEF RecorderTyped, RecorderHeld, OneOrder, StartsFromNothing,
        RecordsAlone, HeldIsShown, DoneHoldsNothing, RecordingKept
<1>5. StartsFromNothing'
  OBVIOUS
<1>6. RecordsAlone'
  OBVIOUS
<1>7. HeldIsShown'
  OBVIOUS
<1>8. DoneHoldsNothing'
  OBVIOUS
<1>9. RecordingKept'
  <2>1. \A t \in finished : t \in excused
    BY <1>20 DEF RecorderTyped, RecorderShape, RecorderHeld, RecordsAlone, RecordingKept
  <2> QED
    BY <1>20, <1>21, <2>1 DEF RecordingKept
<1> QED
  BY <1>5, <1>6, <1>7, <1>8, <1>9 DEF RecorderHeld

\* And where it cannot be sent, held.
LEMMA TrackEndsKeepsB ==
  ASSUME Patient, RecorderTyped, RecorderHeld, TrackEnds, Finalize(doc, FALSE)
  PROVE  RecorderHeld'
<1> USE NothingsFit
<1>1. /\ rec \in ViewRecord /\ doc \in DocRecord /\ pushes \in Seq(PushRecord)
      /\ order \in [Orders -> OrderRecord] /\ popup \in PopupRecord /\ tapes \in Nat
      /\ Len(pushes) \in Nat /\ \A i \in 1 .. Len(pushes) : pushes[i] \in PushRecord
  BY DEF RecorderTyped, RecorderShape
<1>20. /\ rec' = rec
       /\ order' = order
       /\ popup' = popup
       /\ tapes' = tapes
       /\ excused' = excused
       /\ doc.open
       /\ doc.mic = "on"
       /\ finished' = finished
  BY <1>1 DEF TrackEnds, Finalize, Push, Stands, Goes, Answered, ViewRecord, PopupRecord, OrderRecord,
     PushRecord, Phases
<1>21. /\ doc' \in DocRecord
       /\ doc' = [open |-> doc.open, mic |-> "off", tape |-> 0, blob |-> 0, sending |-> doc.sending, out |-> doc.out, sent |-> doc.sent]
       /\ doc'.mic = "off"
       /\ doc'.tape = 0
       /\ doc'.blob = 0
       /\ doc'.sending = doc.sending
       /\ doc'.out = doc.out
       /\ doc'.open <=> doc.open
  <2>1. doc' = [open |-> doc.open, mic |-> "off", tape |-> 0, blob |-> 0, sending |-> doc.sending, out |-> doc.out, sent |-> doc.sent]
    BY <1>1, <1>20 DEF TrackEnds, Finalize, Push, DocRecord
  <2> QED
    BY <2>1, <1>1 DEF DocRecord
<1>22. /\ pushes' = Append(pushes, [phase |-> "error", retry |-> "no"])
       /\ pushes' \in Seq(PushRecord)
       /\ Len(pushes') = Len(pushes) + 1
       /\ \A i \in 1 .. Len(pushes) : pushes'[i] = pushes[i]
       /\ pushes'[Len(pushes) + 1].phase = "error"
  <2>1. pushes' = Append(pushes, [phase |-> "error", retry |-> "no"])
    BY <1>1 DEF TrackEnds, Finalize, Push, PushRecord
  <2> QED
    BY <2>1, <1>1 DEF PushRecord
<1> USE <1>1, <1>20, <1>21, <1>22 DEF RecorderTyped, RecorderHeld, OneOrder, StartsFromNothing,
        RecordsAlone, HeldIsShown, DoneHoldsNothing, RecordingKept
<1>5. StartsFromNothing'
  OBVIOUS
<1>6. RecordsAlone'
  OBVIOUS
<1>7. HeldIsShown'
  OBVIOUS
<1>8. DoneHoldsNothing'
  OBVIOUS
<1>9. RecordingKept'
  OBVIOUS
<1> QED
  BY <1>5, <1>6, <1>7, <1>8, <1>9 DEF RecorderHeld

\* An upload that fails leaves the recording held.
LEMMA UploadErrsKeeps ==
  ASSUME Patient, RecorderTyped, RecorderHeld, UploadErrs
  PROVE  RecorderHeld'
<1> USE NothingsFit
<1>1. /\ rec \in ViewRecord /\ doc \in DocRecord /\ pushes \in Seq(PushRecord)
      /\ order \in [Orders -> OrderRecord] /\ popup \in PopupRecord /\ tapes \in Nat
      /\ Len(pushes) \in Nat /\ \A i \in 1 .. Len(pushes) : pushes[i] \in PushRecord
  BY DEF RecorderTyped, RecorderShape
<1>20. /\ rec' = rec
       /\ order' = order
       /\ popup' = popup
       /\ tapes' = tapes
       /\ finished' = finished
       /\ excused' = excused
       /\ doc.open
       /\ doc.sending # 0
  BY <1>1 DEF UploadErrs, Push, Stands, Goes, Answered, ViewRecord, PopupRecord, OrderRecord,
     PushRecord, Phases
<1>21. /\ doc' \in DocRecord
       /\ doc' = [open |-> doc.open, mic |-> doc.mic, tape |-> doc.tape, blob |-> doc.blob, sending |-> doc.sending - 1, out |-> doc.out, sent |-> doc.sent]
       /\ doc'.mic = doc.mic
       /\ doc'.tape = doc.tape
       /\ doc'.blob = doc.blob
       /\ doc'.sending = doc.sending - 1
       /\ doc'.out = doc.out
       /\ doc'.open <=> doc.open
  <2>1. doc' = [open |-> doc.open, mic |-> doc.mic, tape |-> doc.tape, blob |-> doc.blob, sending |-> doc.sending - 1, out |-> doc.out, sent |-> doc.sent]
    BY <1>1, <1>20 DEF UploadErrs, Push, DocRecord
  <2> QED
    BY <2>1, <1>1, <1>20 DEF DocRecord
<1>22. /\ pushes' = Append(pushes, [phase |-> "error", retry |-> "yes"])
       /\ pushes' \in Seq(PushRecord)
       /\ Len(pushes') = Len(pushes) + 1
       /\ \A i \in 1 .. Len(pushes) : pushes'[i] = pushes[i]
       /\ pushes'[Len(pushes) + 1].phase = "error"
  <2>1. pushes' = Append(pushes, [phase |-> "error", retry |-> "yes"])
    BY <1>1 DEF UploadErrs, Push, PushRecord
  <2> QED
    BY <2>1, <1>1, <1>20 DEF PushRecord
<1> USE <1>1, <1>20, <1>21, <1>22 DEF RecorderTyped, RecorderHeld, OneOrder, StartsFromNothing,
        RecordsAlone, HeldIsShown, DoneHoldsNothing, RecordingKept
<1>5. StartsFromNothing'
  OBVIOUS
<1>6. RecordsAlone'
  OBVIOUS
<1>7. HeldIsShown'
  OBVIOUS
<1>8. DoneHoldsNothing'
  OBVIOUS
<1>9. RecordingKept'
  OBVIOUS
<1> QED
  BY <1>5, <1>6, <1>7, <1>8, <1>9 DEF RecorderHeld

\* An upload that is done may let the recording go.
LEMMA UploadDoneKeeps ==
  ASSUME Patient, RecorderTyped, RecorderHeld, UploadDone
  PROVE  RecorderHeld'
<1> USE NothingsFit
<1>1. /\ rec \in ViewRecord /\ doc \in DocRecord /\ pushes \in Seq(PushRecord)
      /\ order \in [Orders -> OrderRecord] /\ popup \in PopupRecord /\ tapes \in Nat
      /\ Len(pushes) \in Nat /\ \A i \in 1 .. Len(pushes) : pushes[i] \in PushRecord
  BY DEF RecorderTyped, RecorderShape
<1>20. /\ rec' = rec
       /\ order' = order
       /\ popup' = popup
       /\ tapes' = tapes
       /\ finished' = finished
       /\ doc.open
       /\ doc.sending # 0
       /\ excused' = excused \cup {doc.out}
  BY <1>1 DEF UploadDone, Push, Stands, Goes, Answered, ViewRecord, PopupRecord, OrderRecord,
     PushRecord, Phases
<1>21. /\ doc' \in DocRecord
       /\ doc' = [open |-> doc.open, mic |-> doc.mic, tape |-> doc.tape, blob |-> 0, sending |-> doc.sending - 1, out |-> doc.out, sent |-> doc.sent]
       /\ doc'.mic = doc.mic
       /\ doc'.tape = doc.tape
       /\ doc'.blob = 0
       /\ doc'.sending = doc.sending - 1
       /\ doc'.out = doc.out
       /\ doc'.open <=> doc.open
  <2>1. doc' = [open |-> doc.open, mic |-> doc.mic, tape |-> doc.tape, blob |-> 0, sending |-> doc.sending - 1, out |-> doc.out, sent |-> doc.sent]
    BY <1>1, <1>20 DEF UploadDone, Push, DocRecord
  <2> QED
    BY <2>1, <1>1, <1>20 DEF DocRecord
<1>22. /\ pushes' = Append(pushes, [phase |-> "done", retry |-> "kept"])
       /\ pushes' \in Seq(PushRecord)
       /\ Len(pushes') = Len(pushes) + 1
       /\ \A i \in 1 .. Len(pushes) : pushes'[i] = pushes[i]
       /\ pushes'[Len(pushes) + 1].phase = "done"
  <2>1. pushes' = Append(pushes, [phase |-> "done", retry |-> "kept"])
    BY <1>1 DEF UploadDone, Push, PushRecord
  <2> QED
    BY <2>1, <1>1, <1>20 DEF PushRecord
<1> USE <1>1, <1>20, <1>21, <1>22 DEF RecorderTyped, RecorderHeld, OneOrder, StartsFromNothing,
        RecordsAlone, HeldIsShown, DoneHoldsNothing, RecordingKept
<1>5. StartsFromNothing'
  OBVIOUS
<1>6. RecordsAlone'
  OBVIOUS
<1>7. HeldIsShown'
  OBVIOUS
<1>8. DoneHoldsNothing'
  OBVIOUS
<1>9. RecordingKept'
  OBVIOUS
<1> QED
  BY <1>5, <1>6, <1>7, <1>8, <1>9 DEF RecorderHeld

\* A retry without a document: nothing was held.
LEMMA RetryKeepsA ==
  ASSUME Patient, RecorderTyped, RecorderHeld, NEW o \in Orders, Retry(o), ~doc.open
  PROVE  RecorderHeld'
<1> USE NothingsFit
<1>1. /\ rec \in ViewRecord /\ doc \in DocRecord /\ pushes \in Seq(PushRecord)
      /\ order \in [Orders -> OrderRecord] /\ popup \in PopupRecord /\ tapes \in Nat
      /\ Len(pushes) \in Nat /\ \A i \in 1 .. Len(pushes) : pushes[i] \in PushRecord
  BY DEF RecorderTyped, RecorderShape
<1>20. /\ order[o].kind = "retry"
       /\ order[o].at = "begin"
  BY <1>1 DEF Retry, Stands
<1>21. /\ pushes' = pushes
       /\ tapes' = tapes
       /\ finished' = finished
       /\ excused' = excused
  BY <1>1 DEF Retry, Stands, Goes, Answered, ViewRecord, PopupRecord, OrderRecord, PushRecord, Phases
<1>22. /\ rec' = [phase |-> "error", retry |-> FALSE]
       /\ rec' \in ViewRecord
       /\ rec'.phase = "error"
  <2>1. rec' = [phase |-> "error", retry |-> FALSE]
    BY <1>1 DEF Retry
  <2> QED
    BY <2>1, <1>1 DEF ViewRecord, Phases
<1>23. /\ doc' = doc
  BY <1>1, <1>21, <1>20 DEF Retry, DocRecord
<1>24. /\ order' \in [Orders -> OrderRecord]
       /\ order'[o] = NoOrder
       /\ \A p \in Orders : p # o => order'[p] = order[p]
       /\ popup' \in PopupRecord
       /\ popup'.open <=> popup.open
       /\ popup'.view.phase \in {popup.view.phase, "uploading"}
       /\ popup'.blind => popup.blind
       /\ ~popup.open => popup' = popup
       /\ popup' = popup \/ (popup'.waits = "none" /\ popup.waits = order[o].kind)
  <2>1. Answered(o, TRUE)
    BY <1>1, <1>20 DEF Retry, Stands, RecorderTyped, RecorderHeld, StartsFromNothing
  <2> QED
    BY <1>1, <1>20, <2>1, AnsweredFits DEF RecorderTyped, RecorderHeld, StartsFromNothing
<1> USE <1>1, <1>20, <1>21, <1>22, <1>23, <1>24 DEF RecorderTyped, RecorderHeld, OneOrder,
        StartsFromNothing, RecordsAlone, HeldIsShown, DoneHoldsNothing, RecordingKept
<1>5. StartsFromNothing'
  OBVIOUS
<1>6. RecordsAlone'
  OBVIOUS
<1>7. HeldIsShown'
  OBVIOUS
<1>8. DoneHoldsNothing'
  OBVIOUS
<1>9. RecordingKept'
  OBVIOUS
<1> QED
  BY <1>5, <1>6, <1>7, <1>8, <1>9 DEF RecorderHeld

\* A retry of nothing.
LEMMA RetryKeepsB ==
  ASSUME Patient, RecorderTyped, RecorderHeld, NEW o \in Orders, Retry(o), doc.open, doc.blob = 0
  PROVE  RecorderHeld'
<1> USE NothingsFit
<1>1. /\ rec \in ViewRecord /\ doc \in DocRecord /\ pushes \in Seq(PushRecord)
      /\ order \in [Orders -> OrderRecord] /\ popup \in PopupRecord /\ tapes \in Nat
      /\ Len(pushes) \in Nat /\ \A i \in 1 .. Len(pushes) : pushes[i] \in PushRecord
  BY DEF RecorderTyped, RecorderShape
<1>20. /\ order[o].kind = "retry"
       /\ order[o].at = "begin"
  BY <1>1 DEF Retry, Stands
<1>21. /\ rec' = rec
       /\ tapes' = tapes
       /\ finished' = finished
       /\ excused' = excused
  BY <1>1 DEF Retry, Push, Stands, Goes, Answered, ViewRecord, PopupRecord, OrderRecord, PushRecord, Phases
<1>22. /\ doc' = doc
  BY <1>1, <1>21, <1>20 DEF Retry, Push, DocRecord
<1>23. /\ pushes' = Append(pushes, [phase |-> "error", retry |-> "no"])
       /\ pushes' \in Seq(PushRecord)
       /\ Len(pushes') = Len(pushes) + 1
       /\ \A i \in 1 .. Len(pushes) : pushes'[i] = pushes[i]
       /\ pushes'[Len(pushes) + 1].phase = "error"
  <2>1. pushes' = Append(pushes, [phase |-> "error", retry |-> "no"])
    BY <1>1 DEF Retry, Push, PushRecord
  <2> QED
    BY <2>1, <1>1 DEF PushRecord
<1>24. /\ order' \in [Orders -> OrderRecord]
       /\ order'[o] = NoOrder
       /\ \A p \in Orders : p # o => order'[p] = order[p]
       /\ popup' \in PopupRecord
       /\ popup'.open <=> popup.open
       /\ popup'.view.phase \in {popup.view.phase, "uploading"}
       /\ popup'.blind => popup.blind
       /\ ~popup.open => popup' = popup
       /\ popup' = popup \/ (popup'.waits = "none" /\ popup.waits = order[o].kind)
  <2>1. Answered(o, TRUE)
    BY <1>1, <1>20 DEF Retry, Stands, RecorderTyped, RecorderHeld, StartsFromNothing
  <2> QED
    BY <1>1, <1>20, <2>1, AnsweredFits DEF RecorderTyped, RecorderHeld, StartsFromNothing
<1> USE <1>1, <1>20, <1>21, <1>22, <1>23, <1>24 DEF RecorderTyped, RecorderHeld, OneOrder,
        StartsFromNothing, RecordsAlone, HeldIsShown, DoneHoldsNothing, RecordingKept
<1>5. StartsFromNothing'
  OBVIOUS
<1>6. RecordsAlone'
  OBVIOUS
<1>7. HeldIsShown'
  OBVIOUS
<1>8. DoneHoldsNothing'
  OBVIOUS
<1>9. RecordingKept'
  OBVIOUS
<1> QED
  BY <1>5, <1>6, <1>7, <1>8, <1>9 DEF RecorderHeld

\* A retry sends what is held again.
LEMMA RetryKeepsC ==
  ASSUME Patient, RecorderTyped, RecorderHeld, NEW o \in Orders, Retry(o), doc.open, doc.blob # 0
  PROVE  RecorderHeld'
<1> USE NothingsFit
<1>1. /\ rec \in ViewRecord /\ doc \in DocRecord /\ pushes \in Seq(PushRecord)
      /\ order \in [Orders -> OrderRecord] /\ popup \in PopupRecord /\ tapes \in Nat
      /\ Len(pushes) \in Nat /\ \A i \in 1 .. Len(pushes) : pushes[i] \in PushRecord
  BY DEF RecorderTyped, RecorderShape
<1>20. /\ order[o].kind = "retry"
       /\ order[o].at = "begin"
  BY <1>1 DEF Retry, Stands
<1>21. /\ rec' = rec
       /\ tapes' = tapes
       /\ finished' = finished
       /\ excused' = excused
  BY <1>1 DEF Retry, Push, Stands, Goes, Answered, ViewRecord, PopupRecord, OrderRecord, PushRecord, Phases
<1>22. /\ doc' \in DocRecord
       /\ doc' = [open |-> doc.open, mic |-> doc.mic, tape |-> doc.tape, blob |-> doc.blob, sending |-> doc.sending + 1, out |-> doc.blob, sent |-> doc.sent + 1]
       /\ doc'.mic = doc.mic
       /\ doc'.tape = doc.tape
       /\ doc'.blob = doc.blob
       /\ doc'.sending = doc.sending + 1
       /\ doc'.out = doc.blob
       /\ doc'.open <=> doc.open
  <2>1. doc' = [open |-> doc.open, mic |-> doc.mic, tape |-> doc.tape, blob |-> doc.blob, sending |-> doc.sending + 1, out |-> doc.blob, sent |-> doc.sent + 1]
    BY <1>1, <1>21, <1>20 DEF Retry, Push, DocRecord
  <2> QED
    BY <2>1, <1>1 DEF DocRecord
<1>23. /\ pushes' = Append(pushes, [phase |-> "uploading", retry |-> "kept"])
       /\ pushes' \in Seq(PushRecord)
       /\ Len(pushes') = Len(pushes) + 1
       /\ \A i \in 1 .. Len(pushes) : pushes'[i] = pushes[i]
       /\ pushes'[Len(pushes) + 1].phase = "uploading"
  <2>1. pushes' = Append(pushes, [phase |-> "uploading", retry |-> "kept"])
    BY <1>1 DEF Retry, Push, PushRecord
  <2> QED
    BY <2>1, <1>1 DEF PushRecord
<1>24. /\ order' \in [Orders -> OrderRecord]
       /\ order'[o] = NoOrder
       /\ \A p \in Orders : p # o => order'[p] = order[p]
       /\ popup' \in PopupRecord
       /\ popup'.open <=> popup.open
       /\ popup'.view.phase \in {popup.view.phase, "uploading"}
       /\ popup'.blind => popup.blind
       /\ ~popup.open => popup' = popup
       /\ popup' = popup \/ (popup'.waits = "none" /\ popup.waits = order[o].kind)
  <2>1. Answered(o, TRUE)
    BY <1>1, <1>20 DEF Retry, Stands, RecorderTyped, RecorderHeld, StartsFromNothing
  <2> QED
    BY <1>1, <1>20, <2>1, AnsweredFits DEF RecorderTyped, RecorderHeld, StartsFromNothing
<1>5. StartsFromNothing'
  BY <1>1, <1>20, <1>21, <1>22, <1>23, <1>24 DEF RecorderTyped, RecorderHeld, OneOrder,
     StartsFromNothing, RecordsAlone, HeldIsShown, DoneHoldsNothing, RecordingKept
<1>6. RecordsAlone'
  BY <1>1, <1>20, <1>21, <1>22, <1>23, <1>24 DEF RecorderTyped, RecorderHeld, OneOrder,
     StartsFromNothing, RecordsAlone, HeldIsShown, DoneHoldsNothing, RecordingKept
<1>7. HeldIsShown'
  <2>1. rec.phase # "idle" /\ (popup.open /\ ~popup.blind => popup.view.phase # "idle")
        /\ (popup.blind => popup.view.phase = "idle" /\ popup.waits \in {"none", "start"})
    BY <1>21 DEF RecorderHeld, HeldIsShown
  <2>2. \A p \in Orders : order'[p].kind # "reset"
    BY <1>20, <1>24 DEF RecorderTyped, OneOrder
  <2> QED
    BY <1>20, <1>21, <1>24, <2>1, <2>2 DEF HeldIsShown
<1>8. DoneHoldsNothing'
  BY <1>1, <1>20, <1>21, <1>22, <1>23, <1>24 DEF RecorderTyped, RecorderHeld, OneOrder,
     StartsFromNothing, RecordsAlone, HeldIsShown, DoneHoldsNothing, RecordingKept
<1>9. RecordingKept'
  BY <1>1, <1>20, <1>21, <1>22, <1>23, <1>24 DEF RecorderTyped, RecorderHeld, OneOrder,
     StartsFromNothing, RecordsAlone, HeldIsShown, DoneHoldsNothing, RecordingKept
<1> QED
  BY <1>5, <1>6, <1>7, <1>8, <1>9 DEF RecorderHeld

\* What a reset discards was given up by hand.
LEMMA ResetDiscardsKeepsA ==
  ASSUME Patient, RecorderTyped, RecorderHeld, NEW o \in Orders, ResetDiscards(o), doc.open
  PROVE  RecorderHeld'
<1> USE NothingsFit
<1>1. /\ rec \in ViewRecord /\ doc \in DocRecord /\ pushes \in Seq(PushRecord)
      /\ order \in [Orders -> OrderRecord] /\ popup \in PopupRecord /\ tapes \in Nat
      /\ Len(pushes) \in Nat /\ \A i \in 1 .. Len(pushes) : pushes[i] \in PushRecord
  BY DEF RecorderTyped, RecorderShape
<1>20. /\ order[o].kind = "reset"
       /\ order[o].at = "begin"
  BY <1>1 DEF ResetDiscards, Stands
<1>21. /\ rec' = rec
       /\ pushes' = pushes
       /\ popup' = popup
       /\ tapes' = tapes
       /\ finished' = finished
       /\ excused' = excused \cup ({doc.blob} \ {0})
  BY <1>1 DEF ResetDiscards, Stands, Goes, Answered, ViewRecord, PopupRecord, OrderRecord, PushRecord, Phases
<1>22. /\ doc' \in DocRecord
       /\ doc' = [open |-> doc.open, mic |-> "off", tape |-> 0, blob |-> 0, sending |-> doc.sending, out |-> doc.out, sent |-> doc.sent]
       /\ doc'.mic = "off"
       /\ doc'.tape = 0
       /\ doc'.blob = 0
       /\ doc'.sending = doc.sending
       /\ doc'.out = doc.out
       /\ doc'.open <=> doc.open
  <2>1. doc' = [open |-> doc.open, mic |-> "off", tape |-> 0, blob |-> 0, sending |-> doc.sending, out |-> doc.out, sent |-> doc.sent]
    BY <1>1, <1>21, <1>20 DEF ResetDiscards, DocRecord
  <2> QED
    BY <2>1, <1>1 DEF DocRecord
<1>23. /\ order' \in [Orders -> OrderRecord]
       /\ order'[o].kind = order[o].kind
       /\ order'[o].blind = order[o].blind
       /\ order'[o].at = "close"
       /\ \A p \in Orders : p # o => order'[p] = order[p]
  <2>1. Goes(o, "close")
    BY <1>1, <1>20 DEF ResetDiscards, Stands, RecorderTyped, RecorderHeld, StartsFromNothing
  <2> QED
    BY <1>1, <1>20, <2>1, GoesFits DEF RecorderTyped
<1> USE <1>1, <1>20, <1>21, <1>22, <1>23 DEF RecorderTyped, RecorderHeld, OneOrder, StartsFromNothing,
        RecordsAlone, HeldIsShown, DoneHoldsNothing, RecordingKept
<1>5. StartsFromNothing'
  OBVIOUS
<1>6. RecordsAlone'
  OBVIOUS
<1>7. HeldIsShown'
  OBVIOUS
<1>8. DoneHoldsNothing'
  OBVIOUS
<1>9. RecordingKept'
  OBVIOUS
<1> QED
  BY <1>5, <1>6, <1>7, <1>8, <1>9 DEF RecorderHeld

\* A reset without a document.
LEMMA ResetDiscardsKeepsB ==
  ASSUME Patient, RecorderTyped, RecorderHeld, NEW o \in Orders, ResetDiscards(o), ~doc.open
  PROVE  RecorderHeld'
<1> USE NothingsFit
<1>1. /\ rec \in ViewRecord /\ doc \in DocRecord /\ pushes \in Seq(PushRecord)
      /\ order \in [Orders -> OrderRecord] /\ popup \in PopupRecord /\ tapes \in Nat
      /\ Len(pushes) \in Nat /\ \A i \in 1 .. Len(pushes) : pushes[i] \in PushRecord
  BY DEF RecorderTyped, RecorderShape
<1>20. /\ order[o].kind = "reset"
       /\ order[o].at = "begin"
  BY <1>1 DEF ResetDiscards, Stands
<1>21. /\ rec' = rec
       /\ pushes' = pushes
       /\ popup' = popup
       /\ tapes' = tapes
       /\ finished' = finished
       /\ excused' = excused \cup ({doc.blob} \ {0})
  BY <1>1 DEF ResetDiscards, Stands, Goes, Answered, ViewRecord, PopupRecord, OrderRecord, PushRecord, Phases
<1>22. /\ doc' = doc
  BY <1>1, <1>21, <1>20 DEF ResetDiscards, DocRecord
<1>23. /\ order' \in [Orders -> OrderRecord]
       /\ order'[o].kind = order[o].kind
       /\ order'[o].blind = order[o].blind
       /\ order'[o].at = "idle"
       /\ \A p \in Orders : p # o => order'[p] = order[p]
  <2>1. Goes(o, "idle")
    BY <1>1, <1>20 DEF ResetDiscards, Stands, RecorderTyped, RecorderHeld, StartsFromNothing
  <2> QED
    BY <1>1, <1>20, <2>1, GoesFits DEF RecorderTyped
<1> USE <1>1, <1>20, <1>21, <1>22, <1>23 DEF RecorderTyped, RecorderHeld, OneOrder, StartsFromNothing,
        RecordsAlone, HeldIsShown, DoneHoldsNothing, RecordingKept
<1>5. StartsFromNothing'
  OBVIOUS
<1>6. RecordsAlone'
  OBVIOUS
<1>7. HeldIsShown'
  OBVIOUS
<1>8. DoneHoldsNothing'
  OBVIOUS
<1>9. RecordingKept'
  OBVIOUS
<1> QED
  BY <1>5, <1>6, <1>7, <1>8, <1>9 DEF RecorderHeld

\* A reset closes a document that holds nothing any more.
LEMMA ResetClosesKeeps ==
  ASSUME Patient, RecorderTyped, RecorderHeld, NEW o \in Orders, ResetCloses(o)
  PROVE  RecorderHeld'
<1> USE NothingsFit
<1>1. /\ rec \in ViewRecord /\ doc \in DocRecord /\ pushes \in Seq(PushRecord)
      /\ order \in [Orders -> OrderRecord] /\ popup \in PopupRecord /\ tapes \in Nat
      /\ Len(pushes) \in Nat /\ \A i \in 1 .. Len(pushes) : pushes[i] \in PushRecord
  BY DEF RecorderTyped, RecorderShape
<1>20. /\ order[o].kind = "reset"
       /\ order[o].at = "close"
  BY <1>1 DEF ResetCloses, Stands
<1>21. /\ rec' = rec
       /\ pushes' = pushes
       /\ popup' = popup
       /\ tapes' = tapes
       /\ finished' = finished
       /\ excused' = excused \cup ({doc.blob} \ {0})
  BY <1>1 DEF ResetCloses, Stands, Goes, Answered, ViewRecord, PopupRecord, OrderRecord, PushRecord, Phases
<1>22. /\ doc' = NoDoc
  BY <1>1, <1>21, <1>20 DEF ResetCloses, DocRecord
<1>23. /\ order' \in [Orders -> OrderRecord]
       /\ order'[o].kind = order[o].kind
       /\ order'[o].blind = order[o].blind
       /\ order'[o].at = "idle"
       /\ \A p \in Orders : p # o => order'[p] = order[p]
  <2>1. Goes(o, "idle")
    BY <1>1, <1>20 DEF ResetCloses, Stands, RecorderTyped, RecorderHeld, StartsFromNothing
  <2> QED
    BY <1>1, <1>20, <2>1, GoesFits DEF RecorderTyped
<1> USE <1>1, <1>20, <1>21, <1>22, <1>23 DEF RecorderTyped, RecorderHeld, OneOrder, StartsFromNothing,
        RecordsAlone, HeldIsShown, DoneHoldsNothing, RecordingKept
<1>5. StartsFromNothing'
  OBVIOUS
<1>6. RecordsAlone'
  OBVIOUS
<1>7. HeldIsShown'
  OBVIOUS
<1>8. DoneHoldsNothing'
  OBVIOUS
<1>9. RecordingKept'
  OBVIOUS
<1> QED
  BY <1>5, <1>6, <1>7, <1>8, <1>9 DEF RecorderHeld

\* A reset ends.
LEMMA ResetEndsKeeps ==
  ASSUME Patient, RecorderTyped, RecorderHeld, NEW o \in Orders, ResetEnds(o)
  PROVE  RecorderHeld'
<1> USE NothingsFit
<1>1. /\ rec \in ViewRecord /\ doc \in DocRecord /\ pushes \in Seq(PushRecord)
      /\ order \in [Orders -> OrderRecord] /\ popup \in PopupRecord /\ tapes \in Nat
      /\ Len(pushes) \in Nat /\ \A i \in 1 .. Len(pushes) : pushes[i] \in PushRecord
  BY DEF RecorderTyped, RecorderShape
<1>20. /\ order[o].kind = "reset"
       /\ order[o].at = "idle"
  BY <1>1 DEF ResetEnds, Stands
<1>21. /\ pushes' = pushes
       /\ tapes' = tapes
       /\ finished' = finished
       /\ excused' = excused
       /\ rec' = Idle
  BY <1>1 DEF ResetEnds, Stands, Goes, Answered, ViewRecord, PopupRecord, OrderRecord, PushRecord, Phases
<1>22. /\ doc' = doc
  BY <1>1, <1>21, <1>20 DEF ResetEnds, DocRecord
<1>23. /\ order' \in [Orders -> OrderRecord]
       /\ order'[o] = NoOrder
       /\ \A p \in Orders : p # o => order'[p] = order[p]
       /\ popup' \in PopupRecord
       /\ popup'.open <=> popup.open
       /\ popup'.blind => popup.blind
       /\ ~popup.open => popup' = popup
       /\ popup' = popup \/ (popup'.waits = "none" /\ popup.waits = order[o].kind)
  <2>1. Answered(o, TRUE)
    BY <1>1, <1>20 DEF ResetEnds, Stands, RecorderTyped, RecorderHeld, StartsFromNothing
  <2> QED
    BY <1>1, <1>20, <2>1, AnsweredFits DEF RecorderTyped, RecorderHeld, StartsFromNothing
<1>5. StartsFromNothing'
  BY <1>1, <1>20, <1>21, <1>22, <1>23 DEF RecorderTyped, RecorderHeld, OneOrder, StartsFromNothing,
     RecordsAlone, HeldIsShown, DoneHoldsNothing, RecordingKept
<1>6. RecordsAlone'
  BY <1>1, <1>20, <1>21, <1>22, <1>23 DEF RecorderTyped, RecorderHeld, OneOrder, StartsFromNothing,
     RecordsAlone, HeldIsShown, DoneHoldsNothing, RecordingKept
<1>7. HeldIsShown'
  <2>1. doc'.blob = 0 /\ doc'.sending = 0
    BY <1>20, <1>21, <1>22 DEF RecorderHeld, StartsFromNothing, HeldIsShown, DoneHoldsNothing
  <2>2. popup'.blind => popup'.view.phase = "idle" /\ popup'.waits \in {"none", "start"}
    <3>1. popup' = popup => (popup'.blind => popup'.view.phase = "idle" /\ popup'.waits \in {"none", "start"})
      BY DEF RecorderHeld, HeldIsShown
    <3>2. popup' # popup => ~popup'.blind
      <4>1. ASSUME popup' # popup PROVE popup.open /\ popup.waits = order[o].kind
        BY <4>1, <1>23
      <4>2. popup.blind => popup.waits \in {"none", "start"}
        BY DEF RecorderHeld, HeldIsShown
      <4> QED
        BY <4>1, <4>2, <1>23, <1>20
    <3> QED
      BY <3>1, <3>2
  <2>3. \A p \in Orders : order'[p].kind # "reset"
    BY <1>20, <1>23 DEF RecorderTyped, OneOrder
  <2> QED
    BY <2>1, <2>2, <2>3 DEF HeldIsShown
<1>8. DoneHoldsNothing'
  BY <1>1, <1>20, <1>21, <1>22, <1>23 DEF RecorderTyped, RecorderHeld, OneOrder, StartsFromNothing,
     RecordsAlone, HeldIsShown, DoneHoldsNothing, RecordingKept
<1>9. RecordingKept'
  BY <1>1, <1>20, <1>21, <1>22, <1>23 DEF RecorderTyped, RecorderHeld, OneOrder, StartsFromNothing,
     RecordsAlone, HeldIsShown, DoneHoldsNothing, RecordingKept
<1> QED
  BY <1>5, <1>6, <1>7, <1>8, <1>9 DEF RecorderHeld

\* The worker learns of an upload that is done.
LEMMA TakePushKeepsA ==
  ASSUME Patient, RecorderTyped, RecorderHeld, TakePush, Head(pushes).phase = "done"
  PROVE  RecorderHeld'
<1> USE NothingsFit
<1>1. /\ rec \in ViewRecord /\ doc \in DocRecord /\ pushes \in Seq(PushRecord)
      /\ order \in [Orders -> OrderRecord] /\ popup \in PopupRecord /\ tapes \in Nat
      /\ Len(pushes) \in Nat /\ \A i \in 1 .. Len(pushes) : pushes[i] \in PushRecord
  BY DEF RecorderTyped, RecorderShape
<1>20. /\ pushes # <<>> /\ pushes[1] \in PushRecord /\ pushes[1].phase = "done" /\ Len(pushes) >= 1
       /\ rec' = Merged(pushes[1]) /\ pushes' = Tail(pushes) /\ doc' = NoDoc
       /\ order' = order /\ popup' = popup /\ tapes' = tapes /\ finished' = finished
       /\ excused' = excused
  BY <1>1 DEF TakePush
<1>21. /\ pushes' \in Seq(PushRecord) /\ Len(pushes') = Len(pushes) - 1
       /\ \A i \in 1 .. Len(pushes') : pushes'[i] = pushes[i + 1]
  BY <1>1, <1>20
<1>22. rec' \in ViewRecord /\ rec'.phase = "done"
  BY <1>1, <1>20 DEF Merged, ViewRecord, PushRecord, Phases
<1> USE <1>1, <1>20, <1>21, <1>22 DEF RecorderTyped, RecorderHeld, OneOrder, StartsFromNothing,
        RecordsAlone, HeldIsShown, DoneHoldsNothing, RecordingKept
<1>5. StartsFromNothing'
  OBVIOUS
<1>6. RecordsAlone'
  OBVIOUS
<1>7. HeldIsShown'
  OBVIOUS
<1>8. DoneHoldsNothing'
  OBVIOUS
<1>9. RecordingKept'
  OBVIOUS
<1> QED
  BY <1>5, <1>6, <1>7, <1>8, <1>9 DEF RecorderHeld

\* The worker learns of another phase.
LEMMA TakePushKeepsB ==
  ASSUME Patient, RecorderTyped, RecorderHeld, TakePush, Head(pushes).phase # "done"
  PROVE  RecorderHeld'
<1> USE NothingsFit
<1>1. /\ rec \in ViewRecord /\ doc \in DocRecord /\ pushes \in Seq(PushRecord)
      /\ order \in [Orders -> OrderRecord] /\ popup \in PopupRecord /\ tapes \in Nat
      /\ Len(pushes) \in Nat /\ \A i \in 1 .. Len(pushes) : pushes[i] \in PushRecord
  BY DEF RecorderTyped, RecorderShape
<1>20. /\ pushes # <<>> /\ pushes[1] \in PushRecord /\ Len(pushes) >= 1
       /\ rec' = Merged(pushes[1]) /\ pushes' = Tail(pushes) /\ doc' = doc
       /\ order' = order /\ popup' = popup /\ tapes' = tapes /\ finished' = finished
       /\ excused' = excused
  BY <1>1 DEF TakePush
<1>21. /\ pushes' \in Seq(PushRecord) /\ Len(pushes') = Len(pushes) - 1
       /\ \A i \in 1 .. Len(pushes') : pushes'[i] = pushes[i + 1] /\ i + 1 \in 1 .. Len(pushes)
  BY <1>1, <1>20
<1>22. rec' \in ViewRecord /\ rec'.phase # "idle"
  BY <1>1, <1>20 DEF Merged, ViewRecord, PushRecord, Phases
<1> USE <1>1, <1>20, <1>21, <1>22 DEF RecorderTyped, RecorderHeld, OneOrder, StartsFromNothing,
        RecordsAlone, HeldIsShown, DoneHoldsNothing, RecordingKept
<1>5. StartsFromNothing'
  OBVIOUS
<1>6. RecordsAlone'
  OBVIOUS
<1>7. HeldIsShown'
  OBVIOUS
<1>8. DoneHoldsNothing'
  OBVIOUS
<1>9. RecordingKept'
  OBVIOUS
<1> QED
  BY <1>5, <1>6, <1>7, <1>8, <1>9 DEF RecorderHeld

\* A document goes with what it held, which is then excused.
LEMMA DocGoneKeeps ==
  ASSUME Patient, RecorderTyped, RecorderHeld, DocGone
  PROVE  RecorderHeld'
<1> USE NothingsFit
<1>1. /\ rec \in ViewRecord /\ doc \in DocRecord /\ pushes \in Seq(PushRecord)
      /\ order \in [Orders -> OrderRecord] /\ popup \in PopupRecord /\ tapes \in Nat
      /\ Len(pushes) \in Nat /\ \A i \in 1 .. Len(pushes) : pushes[i] \in PushRecord
  BY DEF RecorderTyped, RecorderShape
<1>20. /\ rec' = rec
       /\ pushes' = pushes
       /\ order' = order
       /\ popup' = popup
       /\ tapes' = tapes
       /\ finished' = finished
       /\ doc.open
       /\ doc.mic = "off"
       /\ doc.sending = 0
       /\ excused' = excused \cup ({doc.blob} \ {0})
  BY <1>1 DEF DocGone, Stands, Goes, Answered, ViewRecord, PopupRecord, OrderRecord, PushRecord, Phases
<1>21. /\ doc' = NoDoc
  BY <1>1, <1>20 DEF DocGone, DocRecord
<1> USE <1>1, <1>20, <1>21 DEF RecorderTyped, RecorderHeld, OneOrder, StartsFromNothing, RecordsAlone,
        HeldIsShown, DoneHoldsNothing, RecordingKept
<1>5. StartsFromNothing'
  OBVIOUS
<1>6. RecordsAlone'
  OBVIOUS
<1>7. HeldIsShown'
  OBVIOUS
<1>8. DoneHoldsNothing'
  OBVIOUS
<1>9. RecordingKept'
  OBVIOUS
<1> QED
  BY <1>5, <1>6, <1>7, <1>8, <1>9 DEF RecorderHeld

\* Initially nothing is recorded.
LEMMA RecorderStart ==
  RecorderInit => RecorderInv
<1> SUFFICES ASSUME RecorderInit PROVE RecorderInv
  OBVIOUS
<1> USE NothingsFit DEF RecorderInit
<1>1. RecorderShape
  BY RecorderAssumption DEF RecorderShape
<1>2. OneOrder
  BY DEF OneOrder
<1>3. Bounded(doc, tapes)
  BY RecorderAssumption DEF Bounded
<1>4. BelowBounds
  BY <1>3 DEF BelowBounds
<1>5. StartsFromNothing /\ RecordsAlone /\ HeldIsShown /\ DoneHoldsNothing /\ RecordingKept
  BY DEF StartsFromNothing, RecordsAlone, HeldIsShown, DoneHoldsNothing, RecordingKept
<1> QED
  BY <1>1, <1>2, <1>4, <1>5 DEF RecorderInv, RecorderTyped, RecorderHeld

\* What a document that came out of d sends, and may have to send, is no more than d's.
Adds(d) == IF d.mic = "on" THEN 1 ELSE 0
NoMore(e, d) ==
  /\ e.sent + Adds(e) <= d.sent + Adds(d) /\ e.sending + Adds(e) <= d.sending + Adds(d)
  /\ e.sent <= d.sent \/ d.mic = "on"
  /\ e.mic = "on" => d.mic = "on"
  /\ e.blob \in {0, d.blob} \/ d.mic = "on"

\* A document that is not there, or just opened, has recorded nothing.
LEMMA NoDocBounded ==
  ASSUME NEW n \in Nat, NEW d \in DocRecord
  PROVE  /\ Bounded(NoDoc, n) /\ NoMore(NoDoc, d)
         /\ Bounded([NoDoc EXCEPT !.open = TRUE], n) /\ NoMore([NoDoc EXCEPT !.open = TRUE], d)
<1> DEFINE e == [NoDoc EXCEPT !.open = TRUE]
<1>1. /\ NoDoc \in DocRecord /\ NoDoc.tape = 0 /\ NoDoc.blob = 0 /\ NoDoc.out = 0
      /\ NoDoc.sending = 0 /\ NoDoc.sent = 0 /\ NoDoc.mic = "off"
  BY DEF NoDoc, DocRecord
<1>2. e \in DocRecord /\ e.tape = 0 /\ e.blob = 0 /\ e.out = 0 /\ e.sending = 0 /\ e.sent = 0 /\ e.mic = "off"
  BY DEF NoDoc, DocRecord
<1> HIDE DEF e
<1>3. Bounded(e, n) /\ Bounded(NoDoc, n)
  BY <1>1, <1>2, RecorderAssumption DEF Bounded
<1>4. d.sent \in Nat /\ d.sending \in Nat
  BY DEF DocRecord
<1>5. NoMore(e, d) /\ NoMore(NoDoc, d)
  BY <1>1, <1>2, <1>4 DEF NoMore, Adds
<1> QED
  BY <1>3, <1>5 DEF e

\* A document that stops and forgets.
LEMMA DropsBounded ==
  ASSUME NEW n \in Nat, NEW d, Bounded(d, n), NEW e, e = [d EXCEPT !.mic = "off", !.tape = 0, !.blob = 0]
  PROVE  Bounded(e, n) /\ NoMore(e, d)
<1>1. d \in DocRecord /\ d.sent \in Nat /\ d.sending \in Nat
  BY DEF Bounded, DocRecord
<1>2. e \in DocRecord
  BY <1>1 DEF DocRecord
<1>3. e.mic = "off" /\ e.tape = 0 /\ e.blob = 0 /\ e.out = d.out /\ e.sending = d.sending /\ e.sent = d.sent
  BY <1>1 DEF DocRecord
<1>4. Bounded(e, n)
  BY <1>1, <1>2, <1>3 DEF Bounded
<1>5. NoMore(e, d)
  BY <1>1, <1>3 DEF NoMore, Adds
<1> QED
  BY <1>4, <1>5

\* An upload that ends.
LEMMA EndedBounded ==
  ASSUME NEW n \in Nat, NEW d, Bounded(d, n), d.sending # 0, NEW e,
         e = [d EXCEPT !.sending = @ - 1] \/ e = [d EXCEPT !.sending = @ - 1, !.blob = 0]
  PROVE  Bounded(e, n) /\ NoMore(e, d)
<1>1. d \in DocRecord /\ d.sent \in Nat /\ d.sending \in Nat
  BY DEF Bounded, DocRecord
<1>2. d.sending - 1 \in Nat /\ d.sending - 1 <= d.sent
  BY <1>1 DEF Bounded
<1>3. e \in DocRecord
  <2>1. CASE e = [d EXCEPT !.sending = @ - 1]
    BY <2>1, <1>1, <1>2 DEF DocRecord
  <2>2. CASE e = [d EXCEPT !.sending = @ - 1, !.blob = 0]
    BY <2>2, <1>1, <1>2 DEF DocRecord
  <2> QED
    BY <2>1, <2>2
<1>4. e.mic = d.mic /\ e.tape = d.tape /\ e.blob \in {d.blob, 0} /\ e.out = d.out /\ e.sending = d.sending - 1
      /\ e.sent = d.sent
  BY <1>1 DEF DocRecord
<1>5. Bounded(e, n)
  BY <1>1, <1>2, <1>3, <1>4 DEF Bounded
<1>6. NoMore(e, d)
  BY <1>1, <1>2, <1>4 DEF NoMore, Adds
<1> QED
  BY <1>5, <1>6

\* A step that only lets orders go on, and sends no more, keeps the types.
LEMMA RecorderMoves ==
  ASSUME RecorderTyped, RecorderShape', tapes' = tapes, Bounded(doc', tapes), NoMore(doc', doc),
         \A p \in Orders : order'[p] # NoOrder =>
           /\ order[p] # NoOrder /\ order'[p].kind = order[p].kind
           /\ order'[p].at = order[p].at \/ order'[p].at # "mic"
  PROVE  RecorderTyped'
<1>1. /\ doc.sent \in Nat /\ doc.sending \in Nat /\ doc'.sent \in Nat /\ doc'.sending \in Nat
      /\ MaxRetries \in Nat
  BY RecorderAssumption DEF RecorderTyped, RecorderShape, DocRecord
<1>2. OneOrder'
  BY DEF RecorderTyped, OneOrder
<1>3. Coming = Adds(doc) /\ Coming' = Adds(doc') /\ Adds(doc) \in Nat /\ Adds(doc') \in Nat
  BY DEF Coming, Adds
<1>4. ASSUME NEW p \in Orders, order'[p].kind \in {"start", "retry"}
      PROVE  /\ order'[p].kind = "start" =>
                  /\ tapes < MaxTapes /\ doc'.sending + Coming' < MaxRetries
                  /\ order'[p].at = "mic" => doc'.sent < MaxRetries /\ doc'.mic # "on" /\ doc'.blob = 0
             /\ order'[p].kind = "retry" => doc'.sent + Coming' < MaxRetries
  <2>1. order'[p] # NoOrder
    BY <1>4, NothingsFit
  <2>2. order'[p].kind = order[p].kind /\ (order'[p].at = "mic" => order[p].at = "mic")
    BY <2>1
  <2>3. CASE order'[p].kind = "start"
    <3>1. tapes < MaxTapes /\ doc.sending + Coming < MaxRetries
          /\ (order[p].at = "mic" => doc.sent < MaxRetries /\ doc.mic # "on" /\ doc.blob = 0)
      BY <2>2, <2>3 DEF RecorderTyped, BelowBounds
    <3>2. doc'.sending + Coming' < MaxRetries
      BY <3>1, <1>1, <1>3 DEF NoMore
    <3>3. ASSUME order'[p].at = "mic" PROVE doc'.sent < MaxRetries /\ doc'.mic # "on" /\ doc'.blob = 0
      BY <3>3, <3>1, <2>2, <1>1 DEF NoMore
    <3> QED
      BY <3>1, <3>2, <3>3, <2>3
  <2>4. CASE order'[p].kind = "retry"
    <3>1. doc.sent + Coming < MaxRetries
      BY <2>2, <2>4 DEF RecorderTyped, BelowBounds
    <3> QED
      BY <3>1, <2>4, <1>1, <1>3 DEF NoMore
  <2> QED
    BY <2>3, <2>4, <1>4
<1>5. BelowBounds'
  <2>1. \A p \in Orders : order'[p].kind = "start" =>
          /\ tapes' < MaxTapes /\ doc'.sending + Coming' < MaxRetries
          /\ order'[p].at = "mic" => doc'.sent < MaxRetries /\ doc'.mic # "on" /\ doc'.blob = 0
    BY <1>4
  <2>2. \A p \in Orders : order'[p].kind = "retry" => doc'.sent + Coming' < MaxRetries
    BY <1>4
  <2>3. Bounded(doc, tapes)'
    OBVIOUS
  <2> QED
    BY <2>1, <2>2, <2>3 DEF BelowBounds
<1> QED
  BY <1>2, <1>5 DEF RecorderTyped

\* Neither does one that leaves no order.
LEMMA RecorderRests ==
  ASSUME RecorderShape', Bounded(doc', tapes'), \A p \in Orders : order'[p] = NoOrder
  PROVE  RecorderTyped'
<1>1. OneOrder'
  BY DEF OneOrder
<1>2. \A p \in Orders : order'[p].kind = "none"
  BY NothingsFit
<1>3. BelowBounds'
  BY <1>2 DEF BelowBounds
<1> QED
  BY <1>1, <1>3 DEF RecorderTyped

\* An order that goes on was there, and does not come to the microphone.
LEMMA GoesMoves ==
  ASSUME RecorderTyped, NEW o \in Orders, order[o].kind # "none",
         NEW at \in {"none", "begin", "stream", "send", "close", "idle"}, Goes(o, at)
  PROVE  /\ order' \in [Orders -> OrderRecord]
         /\ \A p \in Orders : order'[p] # NoOrder =>
              /\ order[p] # NoOrder /\ order'[p].kind = order[p].kind
              /\ order'[p].at = order[p].at \/ order'[p].at # "mic"
<1>1. order' \in [Orders -> OrderRecord] /\ order'[o].kind = order[o].kind /\ order'[o].at = at
      /\ \A p \in Orders : p # o => order'[p] = order[p]
  BY GoesFits DEF RecorderTyped
<1> QED
  BY <1>1, NothingsFit

\* An order that is answered leaves none, since it was alone.
LEMMA AnsweredMoves ==
  ASSUME RecorderTyped, NEW o \in Orders, order[o].kind # "none", NEW ok \in BOOLEAN, Answered(o, ok)
  PROVE  /\ order' \in [Orders -> OrderRecord] /\ popup' \in PopupRecord
         /\ order'[o] = NoOrder /\ \A p \in Orders : p # o => order'[p] = order[p]
         /\ \A p \in Orders : order'[p] # NoOrder =>
              /\ order[p] # NoOrder /\ order'[p].kind = order[p].kind
              /\ order'[p].at = order[p].at \/ order'[p].at # "mic"
         /\ \A p \in Orders : order'[p] = NoOrder
<1>1. /\ order' \in [Orders -> OrderRecord] /\ popup' \in PopupRecord
      /\ order'[o] = NoOrder /\ \A p \in Orders : p # o => order'[p] = order[p]
  BY AnsweredFits DEF RecorderTyped
<1>2. order[o] # NoOrder
  BY NothingsFit
<1>3. \A p \in Orders : p # o => order[p] = NoOrder
  BY <1>2 DEF RecorderTyped, OneOrder
<1> QED
  BY <1>1, <1>3

\* A push is put in the queue.
LEMMA PushFits ==
  ASSUME pushes \in Seq(PushRecord), NEW d, NEW m \in PushRecord, Push(d, m)
  PROVE  doc' = d /\ pushes' \in Seq(PushRecord)
BY DEF Push

\* The messages of the document, and what the worker sets by itself.
LEMMA PushesFit ==
  /\ [phase |-> "uploading", retry |-> "kept"] \in PushRecord
  /\ [phase |-> "error", retry |-> "no"] \in PushRecord
  /\ [phase |-> "error", retry |-> "yes"] \in PushRecord
  /\ [phase |-> "done", retry |-> "kept"] \in PushRecord
  /\ [phase |-> "error", retry |-> FALSE] \in ViewRecord
  /\ [phase |-> "recording", retry |-> FALSE] \in ViewRecord
BY DEF PushRecord, ViewRecord, Phases

\* A recording that ends is one that was begun, and is sent once more than before.
LEMMA FinalizeFits ==
  ASSUME RecorderTyped, doc.mic = "on", NEW audio \in BOOLEAN, Finalize(doc, audio)
  PROVE  /\ Bounded(doc', tapes) /\ NoMore(doc', doc) /\ finished' \subseteq 1 .. tapes
         /\ pushes' \in Seq(PushRecord)
<1> DEFINE held == [doc EXCEPT !.mic = "off", !.tape = 0, !.blob = IF audio THEN doc.tape ELSE 0]
           sent == [held EXCEPT !.sending = @ + 1, !.out = doc.tape, !.sent = @ + 1]
<1>1. /\ doc \in DocRecord /\ doc.tape <= tapes /\ doc.tape # 0 /\ tapes \in Nat /\ doc.sending <= doc.sent
      /\ doc.out <= tapes /\ doc.sent < MaxRetries /\ doc.sent <= MaxRetries
      /\ doc.tape \in Nat /\ doc.sent \in Nat /\ doc.sending \in Nat /\ doc.out \in Nat
      /\ finished \subseteq 1 .. tapes /\ pushes \in Seq(PushRecord) /\ MaxRetries \in Nat
  BY RecorderAssumption DEF RecorderTyped, RecorderShape, BelowBounds, Bounded, DocRecord
<1>2. held \in DocRecord /\ held.mic = "off" /\ held.tape = 0 /\ held.blob \in {doc.tape, 0} /\ held.out = doc.out
      /\ held.sending = doc.sending /\ held.sent = doc.sent
  BY <1>1 DEF DocRecord
<1> HIDE DEF held
<1>3. doc.sending + 1 \in Nat /\ doc.sent + 1 \in Nat /\ doc.sending + 1 <= doc.sent + 1 /\ doc.sent + 1 <= MaxRetries
  BY <1>1
<1>4. sent \in DocRecord /\ sent.mic = "off" /\ sent.tape = 0 /\ sent.blob = held.blob /\ sent.out = doc.tape
      /\ sent.sending = doc.sending + 1 /\ sent.sent = doc.sent + 1
  BY <1>1, <1>2, <1>3 DEF DocRecord
<1> HIDE DEF sent
<1>5. Bounded(held, tapes) /\ Bounded(sent, tapes)
  BY <1>1, <1>2, <1>3, <1>4 DEF Bounded
<1>6. NoMore(held, doc) /\ NoMore(sent, doc)
  BY <1>1, <1>2, <1>4 DEF NoMore, Adds
<1>7. doc' \in {held, sent} /\ finished' \in {finished, finished \cup {doc.tape}} /\ pushes' \in Seq(PushRecord)
  <2>1. \/ Push(sent, [phase |-> "uploading", retry |-> "kept"])
        \/ Push(held, [phase |-> "error", retry |-> "no"])
    BY DEF Finalize, held, sent
  <2>2. finished' \in {finished, finished \cup {doc.tape}}
    BY DEF Finalize
  <2> QED
    BY <2>1, <2>2, <1>1, PushFits, PushesFit
<1>8. doc.tape \in 1 .. tapes
  BY <1>1
<1> QED
  BY <1>1, <1>5, <1>6, <1>7, <1>8

\* Every step keeps the types, and the bounds of recordings and uploads.
LEMMA RecorderTypedStep ==
  Patient /\ RecorderTyped /\ [RecorderNext]_recorderVars => RecorderTyped'
<1> SUFFICES ASSUME Patient, RecorderTyped, [RecorderNext]_recorderVars
             PROVE  RecorderTyped'
  OBVIOUS
<1>t. /\ rec \in ViewRecord /\ doc \in DocRecord /\ pushes \in Seq(PushRecord)
      /\ order \in [Orders -> OrderRecord] /\ popup \in PopupRecord
      /\ tapes \in Nat /\ tapes <= MaxTapes /\ finished \subseteq 1 .. tapes
      /\ Bounded(doc, tapes) /\ doc.sent \in Nat /\ doc.sending \in Nat
  BY DEF RecorderTyped, RecorderShape, BelowBounds, DocRecord
<1>n. NoMore(doc, doc)
  BY <1>t DEF NoMore, Adds
<1>s. ASSUME rec' \in ViewRecord, pushes' \in Seq(PushRecord), order' \in [Orders -> OrderRecord],
             popup' \in PopupRecord, tapes' = tapes, finished' \subseteq 1 .. tapes,
             Bounded(doc', tapes), NoMore(doc', doc),
             \A p \in Orders : order'[p] # NoOrder =>
               /\ order[p] # NoOrder /\ order'[p].kind = order[p].kind
               /\ order'[p].at = order[p].at \/ order'[p].at # "mic"
      PROVE  RecorderTyped'
  <2>1. RecorderShape'
    BY <1>s, <1>t DEF RecorderShape, Bounded
  <2> QED
    BY <2>1, <1>s, RecorderMoves
<1>a. \A k \in {"start", "stop", "retry", "reset"} : k # "none"
  OBVIOUS
<1>4. ASSUME NEW o \in Orders, Serve(o) PROVE RecorderTyped'
  <2>1. CASE StartCheck(o)
    <3>1. order[o].kind # "none" /\ UNCHANGED <<rec, doc, pushes, tapes, finished>>
          /\ (Answered(o, FALSE) \/ (Goes(o, "stream") /\ popup' = popup))
      BY <2>1 DEF StartCheck, Stands
    <3>2. CASE Answered(o, FALSE)
      BY <3>1, <3>2, AnsweredMoves, <1>s, <1>t, <1>n
    <3>3. CASE Goes(o, "stream") /\ popup' = popup
      BY <3>1, <3>3, GoesMoves, <1>s, <1>t, <1>n
    <3> QED
      BY <3>1, <3>2, <3>3
  <2>2. CASE StartOpens(o)
    <3>1. order[o].kind # "none" /\ UNCHANGED <<rec, pushes, tapes, finished>>
          /\ (Answered(o, FALSE) \/ (Goes(o, "send") /\ popup' = popup))
          /\ (doc' = doc \/ doc' = [NoDoc EXCEPT !.open = TRUE])
      BY <2>2 DEF StartOpens, Stands
    <3>2. Bounded(doc', tapes) /\ NoMore(doc', doc)
      BY <3>1, <1>t, <1>n, NoDocBounded
    <3>3. CASE Answered(o, FALSE)
      BY <3>1, <3>2, <3>3, AnsweredMoves, <1>s, <1>t
    <3>4. CASE Goes(o, "send") /\ popup' = popup
      BY <3>1, <3>2, <3>4, GoesMoves, <1>s, <1>t
    <3> QED
      BY <3>1, <3>3, <3>4
  <2>3. CASE StartArrives(o)
    <3>1. order[o].kind = "start" /\ UNCHANGED <<rec, pushes, tapes, finished>>
      BY <2>3 DEF StartArrives, Stands
    <3>2. CASE ~doc.open
      <4>1. Answered(o, FALSE) /\ doc' = doc
        BY <2>3, <3>2 DEF StartArrives
      <4> QED
        BY <3>1, <4>1, AnsweredMoves, <1>s, <1>t, <1>n
    <3>3. CASE doc.open /\ doc.mic = "on"
      <4>1. doc' = [doc EXCEPT !.mic = "off", !.tape = 0, !.blob = 0] /\ Goes(o, "close") /\ popup' = popup
        BY <2>3, <3>3 DEF StartArrives
      <4>2. Bounded(doc', tapes) /\ NoMore(doc', doc)
        BY <4>1, <1>t, DropsBounded
      <4> QED
        BY <3>1, <4>1, <4>2, GoesMoves, <1>s, <1>t
    <3>4. CASE doc.open /\ doc.mic # "on"
      <4> DEFINE e == [doc EXCEPT !.mic = "asking", !.blob = 0, !.sent = doc.sending]
      <4>1. doc' = e /\ Goes(o, "mic") /\ popup' = popup
        BY <2>3, <3>4 DEF StartArrives
      <4>2. e \in DocRecord /\ e.mic = "asking" /\ e.tape = doc.tape /\ e.blob = 0 /\ e.out = doc.out
            /\ e.sending = doc.sending /\ e.sent = doc.sending
        BY <1>t DEF DocRecord
      <4> HIDE DEF e
      <4>3. /\ tapes < MaxTapes /\ doc.sending + Coming < MaxRetries /\ Coming = 0
            /\ doc.sending <= doc.sent /\ doc.sent <= MaxRetries /\ MaxRetries \in Nat
        BY <3>1, <3>4, RecorderAssumption DEF RecorderTyped, BelowBounds, Bounded, Coming
      <4>4. Bounded(e, tapes)
        BY <4>2, <4>3, <1>t DEF Bounded
      <4>5. /\ order' \in [Orders -> OrderRecord] /\ order'[o].kind = "start"
            /\ \A p \in Orders : p # o => order'[p] = order[p]
        BY <3>1, <4>1, GoesFits DEF RecorderTyped
      <4>6. order[o] # NoOrder
        BY <3>1, NothingsFit
      <4>7. \A p \in Orders : p # o => order'[p] = NoOrder
        BY <4>5, <4>6 DEF RecorderTyped, OneOrder
      <4>8. RecorderShape'
        BY <3>1, <4>1, <4>2, <4>5, <1>t DEF RecorderShape
      <4>9. OneOrder'
        BY <4>7 DEF OneOrder
      <4>10. BelowBounds'
        <5>1. Coming' = 0 /\ doc'.sent = doc.sending /\ doc'.sending = doc.sending /\ doc'.mic # "on"
              /\ doc'.blob = 0
          BY <4>1, <4>2 DEF Coming
        <5>2. \A p \in Orders : order'[p].kind = "start" => tapes' < MaxTapes /\ doc'.sending + Coming' < MaxRetries
                  /\ (order'[p].at = "mic" => doc'.sent < MaxRetries /\ doc'.mic # "on" /\ doc'.blob = 0)
          BY <5>1, <4>3, <3>1, <1>t
        <5>3. \A p \in Orders : order'[p].kind # "retry"
          BY <4>5, <4>7, NothingsFit
        <5>4. Bounded(doc, tapes)'
          BY <4>1, <4>4, <3>1
        <5> QED
          BY <5>2, <5>3, <5>4 DEF BelowBounds
      <4> QED
        BY <4>8, <4>9, <4>10 DEF RecorderTyped
    <3> QED
      BY <3>2, <3>3, <3>4
  <2>4. CASE StartRecords(o)
    <3>1. order[o].kind = "start" /\ order[o].at = "mic" /\ UNCHANGED <<pushes, finished>>
      BY <2>4 DEF StartRecords, Stands
    <3>2. CASE Answered(o, FALSE) /\ UNCHANGED <<rec, doc, tapes>>
      BY <3>1, <3>2, AnsweredMoves, <1>s, <1>t, <1>n
    <3>3. CASE /\ doc' = [doc EXCEPT !.mic = "off", !.tape = 0, !.blob = 0]
               /\ Goes(o, "close") /\ UNCHANGED <<rec, popup, tapes>>
      <4>1. Bounded(doc', tapes) /\ NoMore(doc', doc)
        BY <3>3, <1>t, DropsBounded
      <4> QED
        BY <3>1, <3>3, <4>1, GoesMoves, <1>s, <1>t
    <3>4. CASE /\ doc.open
               /\ doc' = [doc EXCEPT !.mic = "on", !.tape = tapes + 1] /\ tapes' = tapes + 1
               /\ rec' = [phase |-> "recording", retry |-> FALSE] /\ Answered(o, TRUE)
      <4> DEFINE e == [doc EXCEPT !.mic = "on", !.tape = tapes + 1]
      <4>1. tapes < MaxTapes /\ doc.sent < MaxRetries /\ MaxTapes \in Nat /\ MaxRetries \in Nat
        BY <3>1, RecorderAssumption DEF RecorderTyped, BelowBounds
      <4>2. tapes + 1 \in Nat /\ tapes + 1 <= MaxTapes /\ finished \subseteq 1 .. tapes + 1
        BY <4>1, <1>t
      <4>3. e \in DocRecord /\ e.mic = "on" /\ e.tape = tapes + 1 /\ e.blob = doc.blob /\ e.out = doc.out
            /\ e.sending = doc.sending /\ e.sent = doc.sent
        BY <4>2, <1>t DEF DocRecord
      <4> HIDE DEF e
      <4>4. doc.blob = 0
        BY <3>1 DEF RecorderTyped, BelowBounds
      <4>5. Bounded(e, tapes + 1)
        BY <4>1, <4>2, <4>3, <4>4, <1>t DEF Bounded, DocRecord
      <4>6. order' \in [Orders -> OrderRecord] /\ popup' \in PopupRecord /\ \A p \in Orders : order'[p] = NoOrder
        BY <3>1, <3>4, AnsweredMoves
      <4>7. doc' = e
        BY <3>4 DEF e
      <4>8. RecorderShape'
        BY <3>1, <3>4, <4>2, <4>3, <4>6, <4>7, <1>t, PushesFit DEF RecorderShape
      <4> QED
        BY <3>4, <4>5, <4>6, <4>7, <4>8, RecorderRests
    <3> QED
      BY <2>4, <3>2, <3>3, <3>4 DEF StartRecords
  <2>5. CASE StartFails(o)
    <3>1. order[o].kind # "none" /\ UNCHANGED <<rec, pushes, tapes, finished>> /\ doc' = NoDoc /\ Answered(o, FALSE)
      BY <2>5 DEF StartFails, Stands
    <3> QED
      BY <3>1, AnsweredMoves, NoDocBounded, <1>s, <1>t
  <2>6. CASE StopCheck(o)
    <3>1. order[o].kind # "none" /\ UNCHANGED <<rec, doc, pushes, tapes, finished>>
          /\ (Answered(o, FALSE) \/ (Goes(o, "send") /\ popup' = popup))
      BY <2>6 DEF StopCheck, Stands
    <3>2. CASE Answered(o, FALSE)
      BY <3>1, <3>2, AnsweredMoves, <1>s, <1>t, <1>n
    <3>3. CASE Goes(o, "send") /\ popup' = popup
      BY <3>1, <3>3, GoesMoves, <1>s, <1>t, <1>n
    <3> QED
      BY <3>1, <3>2, <3>3
  <2>7. CASE StopArrives(o)
    <3>1. order[o].kind # "none" /\ tapes' = tapes /\ Answered(o, TRUE)
      BY <2>7 DEF StopArrives, Stands
    <3>2. CASE doc.open /\ doc.mic = "on"
      <4>1. (\E audio \in BOOLEAN : Finalize(doc, audio)) /\ rec' = rec
        BY <2>7, <3>2 DEF StopArrives
      <4>2. PICK audio \in BOOLEAN : Finalize(doc, audio)
        BY <4>1
      <4> QED
        BY <3>1, <3>2, <4>1, <4>2, FinalizeFits, AnsweredMoves, <1>s, <1>t
    <3>3. CASE ~(doc.open /\ doc.mic = "on")
      <4>1. UNCHANGED <<doc, pushes, finished>> /\ rec' \in {rec, [phase |-> "error", retry |-> FALSE]}
        BY <2>7, <3>3 DEF StopArrives
      <4>2. rec' \in ViewRecord
        BY <4>1, <1>t, PushesFit
      <4> QED
        BY <3>1, <4>1, <4>2, AnsweredMoves, <1>s, <1>t, <1>n
    <3> QED
      BY <3>2, <3>3
  <2>8. CASE Retry(o)
    <3>1. order[o].kind = "retry" /\ order[o].kind # "none" /\ UNCHANGED <<tapes, finished>> /\ Answered(o, TRUE)
      BY <2>8 DEF Retry, Stands
    <3>2. /\ order' \in [Orders -> OrderRecord] /\ popup' \in PopupRecord
          /\ \A p \in Orders : order'[p] = NoOrder
      BY <3>1, AnsweredMoves
    <3>3. CASE ~doc.open
      <4>1. rec' = [phase |-> "error", retry |-> FALSE] /\ UNCHANGED <<doc, pushes>>
        BY <2>8, <3>3 DEF Retry
      <4> QED
        BY <3>1, <4>1, PushesFit, AnsweredMoves, <1>s, <1>t, <1>n
    <3>4. CASE doc.open /\ doc.blob = 0
      <4>1. rec' = rec /\ Push(doc, [phase |-> "error", retry |-> "no"])
        BY <2>8, <3>4 DEF Retry
      <4>2. doc' = doc /\ pushes' \in Seq(PushRecord)
        BY <4>1, <1>t, PushFits, PushesFit
      <4> QED
        BY <3>1, <4>1, <4>2, AnsweredMoves, <1>s, <1>t, <1>n
    <3>5. CASE doc.open /\ doc.blob # 0
      <4> DEFINE e == [doc EXCEPT !.sending = @ + 1, !.out = doc.blob, !.sent = @ + 1]
      <4>1. rec' = rec /\ Push(e, [phase |-> "uploading", retry |-> "kept"])
        BY <2>8, <3>5 DEF Retry
      <4>2. doc' = e /\ pushes' \in Seq(PushRecord)
        <5> HIDE DEF e
        <5> QED
          BY <4>1, <1>t, PushFits, PushesFit
      <4>3. doc.sending + 1 \in Nat /\ doc.sent + 1 \in Nat /\ doc.blob \in Nat
        BY <1>t DEF DocRecord
      <4>4. e \in DocRecord /\ e.mic = doc.mic /\ e.tape = doc.tape /\ e.blob = doc.blob /\ e.out = doc.blob
            /\ e.sending = doc.sending + 1 /\ e.sent = doc.sent + 1
        BY <4>3, <1>t DEF DocRecord
      <4> HIDE DEF e
      <4>5. doc.mic # "on" /\ doc.mic = "off"
        BY <3>5, <1>t DEF Bounded
      <4>6. doc.sent < MaxRetries /\ MaxRetries \in Nat
        BY <3>1, <4>5, <1>t, RecorderAssumption DEF RecorderTyped, BelowBounds, Coming
      <4>7. Bounded(e, tapes)
        BY <4>3, <4>4, <4>5, <4>6, <1>t DEF Bounded
      <4>8. RecorderShape'
        BY <3>1, <3>2, <4>1, <4>2, <4>4, <1>t DEF RecorderShape
      <4> QED
        BY <3>1, <3>2, <4>2, <4>7, <4>8, RecorderRests
    <3> QED
      BY <3>3, <3>4, <3>5
  <2>9. CASE ResetDiscards(o)
    <3>1. order[o].kind # "none" /\ UNCHANGED <<rec, pushes, popup, tapes, finished>>
          /\ (doc' = doc \/ doc' = [doc EXCEPT !.mic = "off", !.tape = 0, !.blob = 0])
          /\ (Goes(o, "close") \/ Goes(o, "idle"))
      BY <2>9 DEF ResetDiscards, Stands
    <3>2. Bounded(doc', tapes) /\ NoMore(doc', doc)
      BY <3>1, <1>t, <1>n, DropsBounded
    <3> QED
      BY <3>1, <3>2, GoesMoves, <1>s, <1>t
  <2>10. CASE ResetCloses(o)
    <3>1. order[o].kind # "none" /\ UNCHANGED <<rec, pushes, popup, tapes, finished>> /\ doc' = NoDoc /\ Goes(o, "idle")
      BY <2>10 DEF ResetCloses, Stands
    <3> QED
      BY <3>1, GoesMoves, NoDocBounded, <1>s, <1>t
  <2>11. CASE ResetEnds(o)
    <3>1. order[o].kind # "none" /\ UNCHANGED <<doc, pushes, tapes, finished>> /\ rec' = Idle /\ Answered(o, TRUE)
      BY <2>11 DEF ResetEnds, Stands
    <3> QED
      BY <3>1, AnsweredMoves, NothingsFit, <1>s, <1>t, <1>n
  <2> QED
    BY <1>4, <2>1, <2>2, <2>3, <2>4, <2>5, <2>6, <2>7, <2>8, <2>9, <2>10, <2>11 DEF Serve
<1>5. ASSUME NEW o \in Orders, NEW k \in {"start", "stop", "retry", "reset"}, Press(o, k)
      PROVE  RecorderTyped'
  <2>1. /\ order' = [order EXCEPT ![o] = [kind |-> k, at |-> "begin", blind |-> popup.blind]]
        /\ popup' = [popup EXCEPT !.waits = k]
        /\ UNCHANGED <<rec, doc, pushes, tapes, finished>>
        /\ (k = "start" => tapes < MaxTapes /\ doc.sending + Coming < MaxRetries)
        /\ (k = "retry" => doc.sent + Coming < MaxRetries)
        /\ \A p \in Orders : order[p] = NoOrder
    BY <1>5 DEF Press
  <2>2. [kind |-> k, at |-> "begin", blind |-> popup.blind] \in OrderRecord /\ popup' \in PopupRecord
    BY <2>1, <1>t DEF OrderRecord, PopupRecord
  <2>3. /\ order' \in [Orders -> OrderRecord] /\ order'[o].kind = k /\ order'[o].at = "begin"
        /\ \A p \in Orders : p # o => order'[p] = NoOrder
    BY <2>1, <2>2, <1>t
  <2>4. RecorderShape'
    BY <2>1, <2>2, <2>3, <1>t DEF RecorderShape
  <2>5. OneOrder'
    BY <2>3 DEF OneOrder
  <2>6. Coming' = Coming
    BY <2>1 DEF Coming
  <2>7. BelowBounds'
    BY <2>1, <2>3, <2>6, <1>t, NothingsFit DEF BelowBounds
  <2> QED
    BY <2>4, <2>5, <2>7 DEF RecorderTyped
<1>6. ASSUME OpenPopup \/ ClosePopup \/ PollPopup PROVE RecorderTyped'
  <2>1. UNCHANGED <<rec, doc, pushes, order, tapes, finished>>
    BY <1>6 DEF OpenPopup, ClosePopup, PollPopup
  <2>2. popup' \in PopupRecord
    <3>1. CASE OpenPopup
      <4>1. PICK seen \in BOOLEAN :
               popup' = [open |-> TRUE, view |-> IF seen THEN rec ELSE Idle, waits |-> "none", blind |-> ~seen]
        BY <3>1 DEF OpenPopup
      <4> QED
        BY <4>1, <1>t, NothingsFit DEF PopupRecord
    <3>2. CASE ClosePopup
      BY <3>2, NothingsFit DEF ClosePopup
    <3>3. CASE PollPopup
      BY <3>3, <1>t DEF PollPopup, PopupRecord
    <3> QED
      BY <1>6, <3>1, <3>2, <3>3
  <2> QED
    BY <2>1, <2>2, <1>s, <1>t, <1>n
<1>7. ASSUME TrackEnds PROVE RecorderTyped'
  <2>1. PICK audio \in BOOLEAN : Finalize(doc, audio)
    BY <1>7 DEF TrackEnds
  <2>2. UNCHANGED <<rec, order, popup, tapes>> /\ doc.mic = "on"
    BY <1>7 DEF TrackEnds
  <2> QED
    BY <2>1, <2>2, FinalizeFits, <1>s, <1>t
<1>8. ASSUME UploadErrs \/ UploadDone PROVE RecorderTyped'
  <2>1. UNCHANGED <<rec, order, popup, tapes, finished>> /\ doc.sending # 0
    BY <1>8 DEF UploadErrs, UploadDone
  <2>2. /\ doc' = [doc EXCEPT !.sending = @ - 1] \/ doc' = [doc EXCEPT !.sending = @ - 1, !.blob = 0]
        /\ pushes' \in Seq(PushRecord)
    <3>1. CASE UploadErrs
      BY <3>1, <1>t, PushesFit DEF UploadErrs, Push
    <3>2. CASE UploadDone
      BY <3>2, <1>t, PushesFit DEF UploadDone, Push
    <3> QED
      BY <1>8, <3>1, <3>2
  <2>3. Bounded(doc', tapes) /\ NoMore(doc', doc)
    BY <2>1, <2>2, <1>t, EndedBounded
  <2> QED
    BY <2>1, <2>2, <2>3, <1>s, <1>t
<1>9. ASSUME TakePush PROVE RecorderTyped'
  <2>1. UNCHANGED <<order, popup, tapes, finished>> /\ (doc' = doc \/ doc' = NoDoc)
        /\ pushes' = Tail(pushes) /\ rec' = Merged(Head(pushes)) /\ pushes # <<>>
    BY <1>9 DEF TakePush
  <2>2. pushes' \in Seq(PushRecord) /\ Head(pushes) \in PushRecord
    BY <2>1, <1>t
  <2>3. rec' \in ViewRecord
    <3> DEFINE m == Head(pushes)
    <3>1. m \in PushRecord
      BY <2>2
    <3>2. rec' = [phase |-> m.phase, retry |-> IF m.retry = "kept" THEN rec.retry ELSE m.retry = "yes"]
      BY <2>1 DEF Merged
    <3> HIDE DEF m
    <3>3. m.phase \in Phases
      BY <3>1 DEF PushRecord, Phases
    <3>4. (IF m.retry = "kept" THEN rec.retry ELSE m.retry = "yes") \in BOOLEAN
      BY <1>t DEF ViewRecord
    <3> QED
      BY <3>2, <3>3, <3>4 DEF ViewRecord
  <2>4. Bounded(doc', tapes) /\ NoMore(doc', doc)
    BY <2>1, <1>t, <1>n, NoDocBounded
  <2> QED
    BY <2>1, <2>2, <2>3, <2>4, <1>s, <1>t
<1>10. ASSUME DocGone PROVE RecorderTyped'
  <2>1. UNCHANGED <<rec, pushes, order, popup, tapes, finished>> /\ doc' = NoDoc
    BY <1>10 DEF DocGone
  <2> QED
    BY <2>1, NoDocBounded, <1>s, <1>t
<1>11. ASSUME UNCHANGED recorderVars PROVE RecorderTyped'
  BY <1>11, <1>s, <1>t, <1>n DEF recorderVars
<1> QED
  BY <1>4, <1>5, <1>6, <1>7, <1>8, <1>9, <1>10, <1>11 DEF RecorderNext

\* Every step keeps the agreement, or leaves everything excused.
LEMMA RecorderHeldStep ==
  ASSUME Patient, RecorderTyped, RecorderHeld, [RecorderNext]_recorderVars
  PROVE  Adrift' \/ RecorderHeld'
<1>1. ASSUME NEW o \in Orders, Serve(o) PROVE Adrift' \/ RecorderHeld'
  <2>1. CASE StartCheck(o) \/ StartOpens(o) \/ StartArrives(o)
    <3>1. ASSUME StartOpens(o) PROVE RecorderHeld'
      BY <3>1, StartOpensKeepsA, StartOpensKeepsB DEF StartOpens
    <3> QED
      BY <2>1, <3>1, StartCheckKeepsA, StartCheckKeepsB, StartArrivesKeepsA, StartArrivesKeepsB
  <2>2. CASE StartRecords(o)
    BY <2>2, StartRecordsKeepsA, StartRecordsKeepsB, StartRecordsKeepsC DEF StartRecords
  <2>3. CASE StopArrives(o)
    <3>1. CASE doc.open /\ doc.mic = "on"
      <4>1. Finalize(doc, TRUE) \/ Finalize(doc, FALSE)
        BY <2>3, <3>1 DEF StopArrives
      <4> QED
        BY <2>3, <3>1, <4>1, StopArrivesKeepsB, StopArrivesKeepsC
    <3> QED
      BY <2>3, <3>1, StopArrivesKeepsA
  <2> QED
    BY <1>1, <2>1, <2>2, <2>3, StartFailsKeeps, StopCheckKeepsA, StopCheckKeepsB, RetryKeepsA,
       RetryKeepsB, RetryKeepsC, ResetDiscardsKeepsA, ResetDiscardsKeepsB, ResetClosesKeeps,
       ResetEndsKeeps DEF Serve
<1>2. ASSUME TrackEnds PROVE RecorderHeld'
  <2>1. Finalize(doc, TRUE) \/ Finalize(doc, FALSE)
    BY <1>2 DEF TrackEnds
  <2> QED
    BY <1>2, <2>1, TrackEndsKeepsA, TrackEndsKeepsB
<1>3. ASSUME UNCHANGED recorderVars PROVE RecorderHeld'
  BY <1>3 DEF recorderVars, RecorderHeld, StartsFromNothing, RecordsAlone,
              HeldIsShown, DoneHoldsNothing, RecordingKept
<1> QED
  BY <1>1, <1>2, <1>3, OpenPopupKeeps, ClosePopupKeeps, PollPopupKeeps, PressKeeps,
     UploadErrsKeeps, UploadDoneKeeps, TakePushKeepsA, TakePushKeepsB, DocGoneKeeps
  DEF RecorderNext

\* What is excused stays excused.
LEMMA ExcusedStays ==
  ASSUME [RecorderNext]_recorderVars
  PROVE  excused \subseteq excused'
<1>1. ASSUME NEW o \in Orders, Serve(o) PROVE excused \subseteq excused'
  BY <1>1 DEF Serve, StartCheck, StartOpens, StartArrives, StartRecords, StartFails, StopCheck,
              StopArrives, Retry, ResetDiscards, ResetCloses, ResetEnds
<1>2. ASSUME NEW o \in Orders, NEW k \in {"start", "stop", "retry", "reset"}, Press(o, k)
      PROVE  excused \subseteq excused'
  BY <1>2 DEF Press
<1>3. ASSUME OpenPopup \/ ClosePopup \/ PollPopup \/ TrackEnds \/ UploadErrs \/ UploadDone
             \/ TakePush \/ DocGone \/ UNCHANGED recorderVars
      PROVE  excused \subseteq excused'
  BY <1>3 DEF OpenPopup, ClosePopup, PollPopup, TrackEnds, UploadErrs, UploadDone, TakePush, DocGone,
              recorderVars
<1> QED
  BY <1>1, <1>2, <1>3 DEF RecorderNext

\* Every step keeps the recorder's invariant.
LEMMA RecorderKept ==
  Patient /\ RecorderInv /\ [RecorderNext]_recorderVars => RecorderInv'
<1> SUFFICES ASSUME Patient, RecorderInv, [RecorderNext]_recorderVars PROVE RecorderInv'
  OBVIOUS
<1>1. RecorderTyped /\ RecorderTyped'
  BY RecorderTypedStep DEF RecorderInv
<1>2. CASE Adrift
  <2>1. Adrift'
    BY <1>2, ExcusedStays DEF Adrift
  <2> QED
    BY <1>1, <2>1 DEF RecorderInv
<1>3. CASE RecorderHeld
  BY <1>1, <1>3, RecorderHeldStep DEF RecorderInv
<1> QED
  BY <1>2, <1>3 DEF RecorderInv

\* A recording is held or excused.
LEMMA RecordingComesOut == RecorderInv => RecordingKept
<1> SUFFICES ASSUME RecorderInv PROVE RecordingKept
  OBVIOUS
<1>1. CASE RecorderHeld
  BY <1>1 DEF RecorderHeld
<1>2. CASE Adrift
  <2>1. finished \subseteq 1 .. tapes /\ tapes \in Nat /\ tapes <= MaxTapes /\ MaxTapes \in Nat
    BY RecorderAssumption DEF RecorderInv, RecorderTyped, RecorderShape
  <2>2. finished \subseteq 1 .. MaxTapes
    BY <2>1
  <2> QED
    BY <1>2, <2>2 DEF Adrift, RecordingKept
<1> QED
  BY <1>1, <1>2 DEF RecorderInv

\* While people wait for the messages on their way, audio is held until it is uploaded or
\* given up by hand (STORE_LISTING.md:87): no order of commands, failures, retries and
\* reopened popups loses a recording, but a start pressed in a popup whose GET_STATE failed.
THEOREM RecordingAlwaysKept ==
  ASSUME Patient PROVE RecorderSpec => []RecordingKept
<1>1. Patient
  OBVIOUS
<1> QED
  BY <1>1, RecordingComesOut, RecorderStart, RecorderKept, PTL DEF RecorderSpec

\* With the bounds these are the recorder's types.
LEMMA RecorderTypedIsTypeOK ==
  RecorderTyped => RecorderTypeOK
<1> SUFFICES ASSUME RecorderTyped PROVE RecorderTypeOK
  OBVIOUS
<1>1. /\ doc \in DocRecord /\ tapes \in Nat /\ tapes <= MaxTapes /\ finished \subseteq 1 .. tapes
      /\ Bounded(doc, tapes) /\ rec \in ViewRecord /\ popup \in PopupRecord
  BY DEF RecorderTyped, RecorderShape, BelowBounds
<1>2. doc \in [open : BOOLEAN, mic : {"off", "asking", "on"}, tape : 0 .. MaxTapes,
              blob : 0 .. MaxTapes, sending : 0 .. MaxRetries, out : 0 .. MaxTapes,
              sent : 0 .. MaxRetries]
  BY <1>1, RecorderAssumption DEF DocRecord, Bounded
<1> QED
  BY <1>1, <1>2, RecorderAssumption DEF RecorderTypeOK, ViewRecord, PopupRecord

\* RecorderTypeOK, while people wait for the messages on their way.
THEOREM RecorderTypeCorrect ==
  ASSUME Patient PROVE RecorderSpec => []RecorderTypeOK
<1>1. RecorderInv => RecorderTypeOK
  BY RecorderTypedIsTypeOK DEF RecorderInv
<1> QED
  BY <1>1, RecorderStart, RecorderKept, PTL DEF RecorderSpec

=============================================================================
