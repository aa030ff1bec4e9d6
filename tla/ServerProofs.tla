---------------------------- MODULE ServerProofs ----------------------------
(*****************************************************************************)
(* Theorems about the server's other parts, for every set of writers,        *)
(* editors, pollers and checks: the full-text index, the wording of an       *)
(* insight, release matching, follow-up emails, the weekly digest, the       *)
(* calendar's feed and its times.                                            *)
(*****************************************************************************)
EXTENDS SearchIndex, Wording, ReleaseWatch, EmailDrafts, DailyJobs, CalendarFeed, CalendarTimes,
        NaturalFacts

----------------------------------------------------------------------------
(*****************************************************************************)
(* SearchIndex.  A writer that nobody disturbs has, at every one of its      *)
(* steps, deleted all the rows there are and inserted the ones there should  *)
(* be (AllPrepared); where nothing is torn only pastes write together        *)
(* (Apart), each a row of its own; and whoever thinks to be alone is         *)
(* (AloneIs).  From this, what is committed is exact wherever nothing is     *)
(* torn (Sound).                                                             *)
(*****************************************************************************)

Jobs == {"edit", "attach", "paste", "purge", "rebuild"}
Scribes == DOMAIN crew
Places == {"idle", "delete", "deleting", "mark", "read", "insert", "commit", "done"}
Fields == {"at", "on", "saw", "gone", "new", "text", "purged", "blanked", "alone"}

ThingOf(row) == IF row.of = "insight" THEN "insight" ELSE "transcripts"
RowsIn(x) == {row \in ftsRows : ThingOf(row) = x}

\* The committed rows of a thing are the ones a search should find.
Exact(x) ==
  IF x = "insight"
  THEN \E w \in Scribes \cup {"first"} : RowsIn(x) = {Row("insight", <<wording, quoted>>, w)}
  ELSE /\ {row.of : row \in RowsIn(x)} = scripts
       /\ \A r1, r2 \in RowsIn(x) : r1.of = r2.of => r1 = r2

\* The writer has deleted the rows of x; it has inserted its own.
Cleared(w, x) ==
  \/ work[w].at = "commit"
  \/ Thing(w) = x /\ work[w].at \in {"mark", "read", "insert"}
  \/ Thing(w) # x /\ work[w].on = 2
Written(w, x) == work[w].at = "commit" \/ (crew[w] = "rebuild" /\ Thing(w) # x /\ work[w].on = 2)

Fresh(w, x) ==
  IF x = "insight" THEN {Row("insight", TextNow(w), w)}
  ELSE IF crew[w] = "rebuild" THEN {Row(t, <<>>, w) : t \in scripts} ELSE {}
NewOf(w, x) == {row \in work[w].new : ThingOf(row) = x}

\* What holds of a writer whatever the others do.
WriterShape(w) ==
  /\ DOMAIN work[w] = Fields
  /\ work[w].at \in Places
  /\ work[w].on \in {1, 2}
  /\ work[w].on = 2 => crew[w] \in {"purge", "rebuild"}
  /\ work[w].at = "mark" => crew[w] = "purge" /\ work[w].on = 1
  /\ crew[w] = "purge" /\ work[w].at \in {"read", "insert", "commit"} => work[w].on = 2
  /\ crew[w] = "rebuild" => work[w].at # "insert" /\ (work[w].at = "commit" => work[w].on = 2)
  /\ work[w].alone \in BOOLEAN

WriterRows(w) ==
  /\ \A row \in work[w].saw \cup work[w].gone \cup work[w].new : Touches(w, ThingOf(row))
  /\ crew[w] # "purge" => work[w].purged = {} /\ work[w].blanked = {}
  /\ crew[w] = "attach" => work[w].gone = {} /\ work[w].new = {}
  /\ crew[w] \notin {"attach", "paste"} =>
       \A x \in Things : ~Written(w, x) => NewOf(w, x) = {}
  /\ crew[w] = "paste" =>
       /\ \A row \in work[w].saw \cup work[w].gone : row.of = w
       /\ work[w].at = "insert" => work[w].text = <<>>
       /\ work[w].new = IF work[w].at = "commit" THEN {Row(w, <<>>, w)} ELSE {}
       /\ work[w].at # "done" => w \notin scripts

\* Nobody else writes x with it.
Undisturbed(w, x) ==
  /\ Writing(w) /\ Touches(w, x) /\ crew[w] # "paste"
  /\ work[w].alone \/ x \notin torn

Prepared(w, x) ==
  /\ Thing(w) = x /\ work[w].at = "deleting" => RowsIn(x) \subseteq work[w].saw
  /\ crew[w] # "attach" /\ Cleared(w, x) => RowsIn(x) \subseteq work[w].gone
  /\ x = "insight" /\ work[w].at = "insert" => work[w].text = TextNow(w)
  /\ crew[w] # "attach" /\ Written(w, x) => NewOf(w, x) = Fresh(w, x)
  /\ crew[w] = "purge" /\ x = "transcripts" => work[w].purged = scripts
  /\ crew[w] = "attach" /\ work[w].at \in {"read", "insert"} => RowsIn(x) = {}
  /\ crew[w] = "attach" /\ work[w].at = "commit" => RowsIn(x) = Fresh(w, x)

IndexShape ==
  /\ crew \in Crews
  /\ work = [w \in Scribes |-> work[w]]
  /\ torn \subseteq Things
  /\ IsFiniteSet(scripts) /\ scripts \subseteq Scribes \cup {"first"}
  /\ \A w \in Scribes : WriterShape(w)
  /\ \A w \in Scribes : WriterRows(w)

OneEdit == \A v, w \in Scribes :
  crew[v] = "edit" /\ crew[w] = "edit" /\ Writing(v) /\ Writing(w) => v = w

\* Where nothing is torn, only pastes write together.
Apart == \A v, w \in Scribes : \A x \in Things \ torn :
  v # w /\ Writing(v) /\ Writing(w) /\ Touches(v, x) /\ Touches(w, x)
    => crew[v] = "paste" /\ crew[w] = "paste"

AloneIs == \A v, w \in Scribes : \A x \in Things :
  v # w /\ Writing(v) /\ Writing(w) /\ Touches(v, x) /\ Touches(w, x)
    => ~work[w].alone \/ crew[w] = "paste"

AllPrepared == \A w \in Scribes : \A x \in Things : Undisturbed(w, x) => Prepared(w, x)

AttachWrites == \E w \in Scribes : crew[w] = "attach" /\ Writing(w)
Sound == \A x \in Things : x \notin torn /\ ~(x = "insight" /\ AttachWrites) => Exact(x)

IndexInv == IndexShape /\ OneEdit /\ Apart /\ AloneIs /\ AllPrepared /\ Sound

----------------------------------------------------------------------------

\* What each kind of writer touches, and its parts.
LEMMA Courses ==
  ASSUME IndexShape, NEW w \in Scribes
  PROVE  /\ crew[w] \in Jobs
         /\ Touches(w, "insight") <=> crew[w] # "paste"
         /\ Touches(w, "transcripts") <=> crew[w] \in {"paste", "purge", "rebuild"}
         /\ Thing(w) = IF crew[w] = "paste" THEN "transcripts"
                       ELSE IF crew[w] = "purge" THEN IF work[w].on = 1 THEN "transcripts" ELSE "insight"
                       ELSE IF crew[w] = "rebuild" THEN IF work[w].on = 1 THEN "insight" ELSE "transcripts"
                       ELSE "insight"
<1>1. crew[w] \in Jobs
  BY SearchIndexAssumption DEF IndexShape, Scribes, Jobs
<1>2. work[w].on \in {1, 2} /\ (work[w].on = 2 => crew[w] \in {"purge", "rebuild"})
  BY DEF IndexShape, WriterShape
<1>3. CASE crew[w] \in {"edit", "attach"}
  <2>1. Course(crew[w]) = <<"insight">>
    BY <1>3 DEF Course
  <2>2. work[w].on = 1
    BY <1>2, <1>3
  <2>3. QED
    BY <1>1, <1>3, <2>1, <2>2 DEF Touches, Thing
<1>4. CASE crew[w] = "paste"
  <2>1. Course(crew[w]) = <<"transcripts">>
    BY <1>4 DEF Course
  <2>2. work[w].on = 1
    BY <1>2, <1>4
  <2>3. QED
    BY <1>1, <1>4, <2>1, <2>2 DEF Touches, Thing
<1>5. CASE crew[w] = "purge"
  <2>1. Course(crew[w]) = <<"transcripts", "insight">>
    BY <1>5 DEF Course
  <2>2. Touches(w, "insight") /\ Touches(w, "transcripts")
    BY <2>1 DEF Touches
  <2>3. QED
    BY <1>1, <1>2, <1>5, <2>1, <2>2 DEF Thing
<1>6. CASE crew[w] = "rebuild"
  <2>1. Course(crew[w]) = <<"insight", "transcripts">>
    BY <1>6 DEF Course
  <2>2. Touches(w, "insight") /\ Touches(w, "transcripts")
    BY <2>1 DEF Touches
  <2>3. QED
    BY <1>1, <1>2, <1>6, <2>1, <2>2 DEF Thing
<1>7. QED
  BY <1>1, <1>3, <1>4, <1>5, <1>6 DEF Jobs

\* The thing a writer is at is one it touches.
LEMMA ThingTouched ==
  ASSUME IndexShape, NEW w \in Scribes
  PROVE  Thing(w) \in Things /\ Touches(w, Thing(w))
<1>1. work[w].on \in {1, 2}
  BY DEF IndexShape, WriterShape
<1>2. QED
  BY <1>1, Courses DEF Jobs, Things

SameTask(v) ==
  /\ DOMAIN work'[v] = DOMAIN work[v]
  /\ work'[v].at = work[v].at /\ work'[v].on = work[v].on
  /\ work'[v].saw = work[v].saw /\ work'[v].gone = work[v].gone /\ work'[v].new = work[v].new
  /\ work'[v].text = work[v].text /\ work'[v].purged = work[v].purged
  /\ work'[v].blanked = work[v].blanked

SameData(x) ==
  /\ RowsIn(x)' = RowsIn(x)
  /\ x = "insight" => wording' = wording /\ quoted' = quoted
  /\ x = "transcripts" => scripts' = scripts

\* What prepares a writer for a part stays where its work and the rows do.
LEMMA PreparedSame ==
  ASSUME NEW v, NEW x \in Things, crew' = crew, SameTask(v), SameData(x), Prepared(v, x)
  PROVE  Prepared(v, x)'
<1>1. /\ Thing(v)' = Thing(v) /\ (Cleared(v, x)' <=> Cleared(v, x)) /\ (Written(v, x)' <=> Written(v, x))
      /\ NewOf(v, x)' = NewOf(v, x)
  BY DEF SameTask, Thing, Cleared, Written, NewOf
<1>2. x = "insight" => TextNow(v)' = TextNow(v)
  BY DEF SameTask, SameData, TextNow
<1>3. Fresh(v, x)' = Fresh(v, x)
  BY <1>2 DEF Fresh, SameData, Things
<1>4. QED
  BY <1>1, <1>2, <1>3 DEF Prepared, SameTask, SameData

\* What a writer knows of its own rows stays where its work does.
LEMMA RowsSame ==
  ASSUME NEW v, crew' = crew, SameTask(v), v \in scripts' => v \in scripts, WriterShape(v), WriterRows(v),
         work'[v].alone \in BOOLEAN
  PROVE  WriterShape(v)' /\ WriterRows(v)'
<1>1. Thing(v)' = Thing(v) /\ (\A x : Touches(v, x)' <=> Touches(v, x))
  BY DEF SameTask, Thing, Touches
<1>2. \A x : (Written(v, x)' <=> Written(v, x)) /\ NewOf(v, x)' = NewOf(v, x)
  BY <1>1 DEF SameTask, Written, NewOf
<1>3. WriterShape(v)'
  BY DEF SameTask, WriterShape
<1>4. WriterRows(v)'
  BY <1>1, <1>2 DEF SameTask, WriterRows
<1>5. QED
  BY <1>3, <1>4

\* An exact part stays so where its rows and texts do.
LEMMA ExactSame ==
  ASSUME NEW x \in Things, crew' = crew, SameData(x), Exact(x)
  PROVE  Exact(x)'
  BY DEF Exact, SameData, Scribes, Things

\* A writer that is not disturbed is alone at its thing.
LEMMA SoleWriter ==
  ASSUME Apart, AloneIs, NEW w \in Scribes, NEW x \in Things, Undisturbed(w, x),
         NEW v \in Scribes, v # w, Writing(v)
  PROVE  ~Touches(v, x)
  BY DEF Apart, AloneIs, Undisturbed

----------------------------------------------------------------------------

Frame(w) ==
  /\ UNCHANGED <<crew, wording, quoted, scripts, torn>>
  /\ work' = [work EXCEPT ![w] = work'[w]]
  /\ Writing(w) /\ work'[w].at \notin {"idle", "done"}
  /\ work'[w].alone = work[w].alone
  /\ crew[w] # "attach" => ftsRows' = ftsRows
  /\ crew[w] = "attach" => RowsIn("transcripts")' = RowsIn("transcripts")

\* A statement of a writer disturbs no other.
LEMMA StatementKeeps ==
  ASSUME IndexInv, NEW w \in Scribes, Frame(w), WriterShape(w)', WriterRows(w)',
         \A x \in Things : Undisturbed(w, x) => Prepared(w, x)'
  PROVE  IndexInv'
<1>1. IndexShape /\ OneEdit /\ Apart /\ AloneIs /\ AllPrepared /\ Sound
  BY DEF IndexInv
<1>2. crew' = crew /\ Scribes' = Scribes /\ torn' = torn /\ scripts' = scripts
  BY DEF Frame, Scribes
<1>3. /\ \A v \in Scribes \ {w} : work'[v] = work[v]
      /\ work' = [v \in Scribes |-> work'[v]]
  <2>1. work = [v \in Scribes |-> work[v]] /\ work' = [work EXCEPT ![w] = work'[w]]
    BY <1>1 DEF Frame, IndexShape
  <2>2. DOMAIN work = Scribes
    BY <2>1
  <2>3. QED
    BY <2>1, <2>2
<1>4. \A v \in Scribes : (Writing(v)' <=> Writing(v)) /\ work'[v].alone = work[v].alone
  BY <1>3 DEF Frame, Writing
<1>5. \A v, x : Touches(v, x)' <=> Touches(v, x)
  BY <1>2 DEF Touches
<1>6. \A v \in Scribes \ {w} : SameTask(v)
  BY <1>3 DEF SameTask
<1>7. IndexShape'
  <2>1. ASSUME NEW v \in Scribes PROVE WriterShape(v)' /\ WriterRows(v)'
    <3>1. CASE v = w
      BY <3>1
    <3>2. CASE v # w
      <4>1. WriterShape(v) /\ WriterRows(v)
        BY <1>1 DEF IndexShape
      <4>2. work'[v].alone \in BOOLEAN
        BY <1>4, <4>1 DEF WriterShape
      <4>3. QED
        BY <1>2, <1>6, <3>2, <4>1, <4>2, RowsSame
    <3>3. QED
      BY <3>1, <3>2
  <2>2. QED
    BY <1>1, <1>2, <1>3, <2>1 DEF IndexShape
<1>8. OneEdit'
  BY <1>1, <1>2, <1>4 DEF OneEdit
<1>9. Apart'
  BY <1>1, <1>2, <1>4, <1>5 DEF Apart
<1>10. AloneIs'
  BY <1>1, <1>2, <1>4, <1>5 DEF AloneIs
<1>11. ASSUME NEW x \in Things, crew[w] # "attach" \/ x = "transcripts" PROVE SameData(x)
  BY <1>11 DEF Frame, SameData, RowsIn
<1>12. ASSUME NEW v \in Scribes, NEW x \in Things, Undisturbed(v, x)' PROVE Prepared(v, x)'
  <2>1. Undisturbed(v, x)
    BY <1>2, <1>4, <1>5, <1>12 DEF Undisturbed
  <2>2. CASE v = w
    BY <2>1, <2>2
  <2>3. CASE v # w
    <3>1. ~Touches(w, x)
      BY <1>1, <2>1, <2>3, SoleWriter DEF Frame
    <3>2. crew[w] # "attach" \/ x = "transcripts"
      BY <1>1, <3>1, Courses DEF Things
    <3>3. Prepared(v, x)
      BY <1>1, <2>1 DEF AllPrepared
    <3>4. QED
      BY <1>2, <1>6, <1>11, <2>3, <3>2, <3>3, PreparedSame
  <2>4. QED
    BY <2>2, <2>3
<1>13. AllPrepared'
  BY <1>2, <1>12 DEF AllPrepared
<1>14. ASSUME NEW x \in Things, x \notin torn, ~(x = "insight" /\ AttachWrites') PROVE Exact(x)'
  <2>1. AttachWrites' <=> AttachWrites
    BY <1>2, <1>4 DEF AttachWrites
  <2>2. crew[w] # "attach" \/ x = "transcripts"
    BY <1>14, <2>1 DEF AttachWrites, Frame, Things
  <2>3. Exact(x)
    BY <1>1, <1>14, <2>1 DEF Sound
  <2>4. QED
    BY <1>2, <1>11, <2>2, <2>3, ExactSame
<1>15. Sound'
  BY <1>2, <1>14 DEF Sound
<1>16. QED
  BY <1>7, <1>8, <1>9, <1>10, <1>13, <1>15 DEF IndexInv

\* What a statement leaves in the writer.
LeftAs(w, at, on, saw, gone, new, text, blanked) ==
  /\ work' = [work EXCEPT ![w] = work'[w]]
  /\ DOMAIN work'[w] = Fields
  /\ work'[w].at = at /\ work'[w].on = on /\ work'[w].saw = saw /\ work'[w].gone = gone
  /\ work'[w].new = new /\ work'[w].text = text /\ work'[w].blanked = blanked
  /\ work'[w].purged = work[w].purged /\ work'[w].alone = work[w].alone

\* One writer's work changes.
LEMMA Updated ==
  ASSUME IndexShape, NEW w \in Scribes, NEW r, work' = [work EXCEPT ![w] = r]
  PROVE  work' = [work EXCEPT ![w] = work'[w]] /\ work'[w] = r
<1>1. DOMAIN work = Scribes
  <2>1. work = [v \in Scribes |-> work[v]]
    BY DEF IndexShape
  <2>2. QED
    BY <2>1
<1>2. QED
  BY <1>1

\* What a DELETE has seen, by parts of the writer's work.
LEMMA DeleteSeesLeaves ==
  ASSUME IndexShape, NEW w \in Scribes, DeleteSees(w)
  PROVE  LeftAs(w, "deleting", work[w].on, {row \in ftsRows : Covers(w, row)}, work[w].gone, work[w].new,
                work[w].text, work[w].blanked)
<1> DEFINE seen == {row \in ftsRows : Covers(w, row)}
           q1 == [work[w] EXCEPT !.at = "deleting"]
           q  == [q1 EXCEPT !.saw = seen]
<1>1. work' = [work EXCEPT ![w] = q] /\ DOMAIN work[w] = Fields
  BY DEF DeleteSees, IndexShape, WriterShape
<1>2. DOMAIN q1 = Fields /\ q1.at = "deleting" /\ q1.on = work[w].on /\ q1.gone = work[w].gone
      /\ q1.new = work[w].new /\ q1.text = work[w].text /\ q1.blanked = work[w].blanked
      /\ q1.purged = work[w].purged /\ q1.alone = work[w].alone
  BY <1>1 DEF Fields
<1> HIDE DEF q1, seen
<1>3. DOMAIN q = Fields /\ q.at = q1.at /\ q.on = q1.on /\ q.saw = seen /\ q.gone = q1.gone
      /\ q.new = q1.new /\ q.text = q1.text /\ q.blanked = q1.blanked
      /\ q.purged = q1.purged /\ q.alone = q1.alone
  BY <1>2 DEF Fields
<1> HIDE DEF q
<1>4. QED
  BY <1>1, <1>2, <1>3, Updated DEF LeftAs, seen

\* What a DELETE has deleted.
LEMMA DeleteEndsLeaves ==
  ASSUME IndexShape, NEW w \in Scribes, DeleteEnds(w)
  PROVE  LET took == work[w].saw \cap ftsRows
             at == IF crew[w] = "purge" /\ Thing(w) = "transcripts" THEN "mark" ELSE "read"
         IN /\ LeftAs(w, at, work[w].on, {}, IF crew[w] = "attach" THEN work[w].gone ELSE work[w].gone \cup took,
                      work[w].new, work[w].text, work[w].blanked)
            /\ ftsRows' = IF crew[w] = "attach" THEN ftsRows \ took ELSE ftsRows
<1> DEFINE took == work[w].saw \cap ftsRows
           at == IF crew[w] = "purge" /\ Thing(w) = "transcripts" THEN "mark" ELSE "read"
           all == work[w].gone \cup took
           q1 == [work[w] EXCEPT !.at = at]
           q2 == [q1 EXCEPT !.saw = {}]
           q3 == [q2 EXCEPT !.gone = all]
<1>1. /\ crew[w] = "attach" => work' = [work EXCEPT ![w] = q2] /\ ftsRows' = ftsRows \ took
      /\ crew[w] # "attach" => work' = [work EXCEPT ![w] = q3] /\ ftsRows' = ftsRows
      /\ DOMAIN work[w] = Fields
  BY DEF DeleteEnds, IndexShape, WriterShape
<1> HIDE DEF took, at, all
<1>2. DOMAIN q1 = Fields /\ q1.at = at /\ q1.on = work[w].on /\ q1.gone = work[w].gone
      /\ q1.new = work[w].new /\ q1.text = work[w].text /\ q1.blanked = work[w].blanked
      /\ q1.purged = work[w].purged /\ q1.alone = work[w].alone
  BY <1>1 DEF Fields
<1> HIDE DEF q1
<1>3. DOMAIN q2 = Fields /\ q2.at = q1.at /\ q2.on = q1.on /\ q2.saw = {} /\ q2.gone = q1.gone
      /\ q2.new = q1.new /\ q2.text = q1.text /\ q2.blanked = q1.blanked
      /\ q2.purged = q1.purged /\ q2.alone = q1.alone
  BY <1>2 DEF Fields
<1> HIDE DEF q2
<1>4. DOMAIN q3 = Fields /\ q3.at = q2.at /\ q3.on = q2.on /\ q3.saw = q2.saw /\ q3.gone = all
      /\ q3.new = q2.new /\ q3.text = q2.text /\ q3.blanked = q2.blanked
      /\ q3.purged = q2.purged /\ q3.alone = q2.alone
  BY <1>3 DEF Fields
<1> HIDE DEF q3
<1>5. CASE crew[w] = "attach"
  BY <1>1, <1>2, <1>3, <1>5, Updated DEF LeftAs, at, took
<1>6. CASE crew[w] # "attach"
  BY <1>1, <1>2, <1>3, <1>4, <1>6, Updated DEF LeftAs, at, took, all
<1>7. QED
  BY <1>5, <1>6

\* A purge marks the quotes it blanks.
LEMMA MarkQuotesLeaves ==
  ASSUME IndexShape, NEW w \in Scribes, MarkQuotes(w)
  PROVE  LeftAs(w, "delete", 2, work[w].saw, work[w].gone, work[w].new, work[w].text, quoted)
<1> DEFINE q1 == [work[w] EXCEPT !.at = "delete"]
           q2 == [q1 EXCEPT !.on = 2]
           q3 == [q2 EXCEPT !.blanked = quoted]
<1>1. work' = [work EXCEPT ![w] = q3] /\ DOMAIN work[w] = Fields
  BY DEF MarkQuotes, IndexShape, WriterShape
<1>2. DOMAIN q1 = Fields /\ q1.at = "delete" /\ q1.saw = work[w].saw /\ q1.gone = work[w].gone
      /\ q1.new = work[w].new /\ q1.text = work[w].text
      /\ q1.purged = work[w].purged /\ q1.alone = work[w].alone
  BY <1>1 DEF Fields
<1> HIDE DEF q1
<1>3. DOMAIN q2 = Fields /\ q2.at = q1.at /\ q2.on = 2 /\ q2.saw = q1.saw /\ q2.gone = q1.gone
      /\ q2.new = q1.new /\ q2.text = q1.text
      /\ q2.purged = q1.purged /\ q2.alone = q1.alone
  BY <1>2 DEF Fields
<1> HIDE DEF q2
<1>4. DOMAIN q3 = Fields /\ q3.at = q2.at /\ q3.on = q2.on /\ q3.saw = q2.saw /\ q3.gone = q2.gone
      /\ q3.new = q2.new /\ q3.text = q2.text /\ q3.blanked = quoted
      /\ q3.purged = q2.purged /\ q3.alone = q2.alone
  BY <1>3 DEF Fields
<1> HIDE DEF q3
<1>5. QED
  BY ZenonT(40), <1>1, <1>2, <1>3, <1>4, Updated DEF LeftAs

\* A writer reads the text it will insert.
LEMMA ReadTextLeaves ==
  ASSUME IndexShape, NEW w \in Scribes, ReadText(w)
  PROVE  LeftAs(w, "insert", work[w].on, work[w].saw, work[w].gone, work[w].new,
                IF Thing(w) = "insight" THEN TextNow(w) ELSE <<>>, work[w].blanked)
<1> DEFINE text == IF Thing(w) = "insight" THEN TextNow(w) ELSE <<>>
           q1 == [work[w] EXCEPT !.at = "insert"]
           q2 == [q1 EXCEPT !.text = text]
<1>1. work' = [work EXCEPT ![w] = q2] /\ DOMAIN work[w] = Fields
  BY DEF ReadText, IndexShape, WriterShape
<1> HIDE DEF text
<1>2. DOMAIN q1 = Fields /\ q1.at = "insert" /\ q1.on = work[w].on /\ q1.saw = work[w].saw
      /\ q1.gone = work[w].gone /\ q1.new = work[w].new /\ q1.blanked = work[w].blanked
      /\ q1.purged = work[w].purged /\ q1.alone = work[w].alone
  BY <1>1 DEF Fields
<1> HIDE DEF q1
<1>3. DOMAIN q2 = Fields /\ q2.at = q1.at /\ q2.on = q1.on /\ q2.saw = q1.saw /\ q2.gone = q1.gone
      /\ q2.new = q1.new /\ q2.text = text /\ q2.blanked = q1.blanked
      /\ q2.purged = q1.purged /\ q2.alone = q1.alone
  BY <1>2 DEF Fields
<1> HIDE DEF q2
<1>4. QED
  BY <1>1, <1>2, <1>3, Updated DEF LeftAs, text

\* A writer inserts the row of its text.
LEMMA InsertTextLeaves ==
  ASSUME IndexShape, NEW w \in Scribes, InsertText(w)
  PROVE  LET row == Row(IF Thing(w) = "insight" THEN "insight" ELSE w, work[w].text, w) IN
         /\ LeftAs(w, "commit", work[w].on, work[w].saw, work[w].gone,
                   IF crew[w] = "attach" THEN work[w].new ELSE work[w].new \cup {row},
                   work[w].text, work[w].blanked)
         /\ ftsRows' = IF crew[w] = "attach" THEN ftsRows \cup {row} ELSE ftsRows
<1> DEFINE row == Row(IF Thing(w) = "insight" THEN "insight" ELSE w, work[w].text, w)
           all == work[w].new \cup {row}
           q1 == [work[w] EXCEPT !.at = "commit"]
           q2 == [q1 EXCEPT !.new = all]
<1>1. /\ crew[w] = "attach" => work' = [work EXCEPT ![w] = q1] /\ ftsRows' = ftsRows \cup {row}
      /\ crew[w] # "attach" => work' = [work EXCEPT ![w] = q2] /\ ftsRows' = ftsRows
      /\ DOMAIN work[w] = Fields
  BY DEF InsertText, IndexShape, WriterShape
<1> HIDE DEF row, all
<1>2. DOMAIN q1 = Fields /\ q1.at = "commit" /\ q1.on = work[w].on /\ q1.saw = work[w].saw
      /\ q1.gone = work[w].gone /\ q1.new = work[w].new /\ q1.text = work[w].text
      /\ q1.blanked = work[w].blanked /\ q1.purged = work[w].purged /\ q1.alone = work[w].alone
  BY <1>1 DEF Fields
<1> HIDE DEF q1
<1>3. DOMAIN q2 = Fields /\ q2.at = q1.at /\ q2.on = q1.on /\ q2.saw = q1.saw /\ q2.gone = q1.gone
      /\ q2.new = all /\ q2.text = q1.text /\ q2.blanked = q1.blanked
      /\ q2.purged = q1.purged /\ q2.alone = q1.alone
  BY <1>2 DEF Fields
<1> HIDE DEF q2
<1>4. CASE crew[w] = "attach"
  BY <1>1, <1>2, <1>4, Updated DEF LeftAs, row
<1>5. CASE crew[w] # "attach"
  BY <1>1, <1>2, <1>3, <1>5, Updated DEF LeftAs, row, all
<1>6. QED
  BY <1>4, <1>5

\* A rebuild copies the rows.
LEMMA CopyRowsLeaves ==
  ASSUME IndexShape, NEW w \in Scribes, CopyRows(w)
  PROVE  LeftAs(w, IF work[w].on = 2 THEN "commit" ELSE "delete", 2, work[w].saw, work[w].gone,
                work[w].new \cup (IF Thing(w) = "insight" THEN {Row("insight", TextNow(w), w)}
                                  ELSE {Row(t, <<>>, w) : t \in scripts}),
                work[w].text, work[w].blanked)
<1> DEFINE rows == IF Thing(w) = "insight" THEN {Row("insight", TextNow(w), w)}
                   ELSE {Row(t, <<>>, w) : t \in scripts}
           all == work[w].new \cup rows
           at == IF work[w].on = 2 THEN "commit" ELSE "delete"
           q1 == [work[w] EXCEPT !.new = all]
           q2 == [q1 EXCEPT !.at = at]
           q3 == [q2 EXCEPT !.on = 2]
<1>1. work' = [work EXCEPT ![w] = q3] /\ DOMAIN work[w] = Fields
  BY DEF CopyRows, IndexShape, WriterShape
<1> HIDE DEF rows, all, at
<1>2. DOMAIN q1 = Fields /\ q1.on = work[w].on /\ q1.saw = work[w].saw
      /\ q1.gone = work[w].gone /\ q1.new = all /\ q1.text = work[w].text
      /\ q1.blanked = work[w].blanked /\ q1.purged = work[w].purged /\ q1.alone = work[w].alone
  BY <1>1 DEF Fields
<1> HIDE DEF q1
<1>3. DOMAIN q2 = Fields /\ q2.at = at /\ q2.saw = q1.saw /\ q2.gone = q1.gone
      /\ q2.new = q1.new /\ q2.text = q1.text /\ q2.blanked = q1.blanked
      /\ q2.purged = q1.purged /\ q2.alone = q1.alone
  BY <1>2 DEF Fields
<1> HIDE DEF q2
<1>4. DOMAIN q3 = Fields /\ q3.at = q2.at /\ q3.on = 2 /\ q3.saw = q2.saw /\ q3.gone = q2.gone
      /\ q3.new = q2.new /\ q3.text = q2.text /\ q3.blanked = q2.blanked
      /\ q3.purged = q2.purged /\ q3.alone = q2.alone
  BY <1>3 DEF Fields
<1> HIDE DEF q3
<1>5. QED
  BY ZenonT(40), <1>1, <1>2, <1>3, <1>4, Updated DEF LeftAs, rows, all, at

\* What the statement of a writer needs to keep the invariant.
Kept(w) ==
  /\ Frame(w) /\ WriterShape(w)' /\ WriterRows(w)'
  /\ \A x \in Things : Undisturbed(w, x) => Prepared(w, x)'

\* A statement changes only its writer's work.
LEMMA LeavesFrame ==
  ASSUME IndexShape, NEW w \in Scribes, Writing(w), Tables,
         NEW at \in {"delete", "deleting", "mark", "read", "insert", "commit"},
         NEW on, NEW saw, NEW gone, NEW new, NEW text, NEW blanked,
         LeftAs(w, at, on, saw, gone, new, text, blanked),
         crew[w] # "attach" => ftsRows' = ftsRows,
         crew[w] = "attach" => RowsIn("transcripts")' = RowsIn("transcripts")
  PROVE  /\ Frame(w) /\ Scribes' = Scribes
         /\ \A x : Touches(w, x)' <=> Touches(w, x)
         /\ on = work[w].on => Thing(w)' = Thing(w)
         /\ blanked = work[w].blanked => TextNow(w)' = TextNow(w)
<1>1. Frame(w)
  BY DEF Frame, LeftAs, Tables
<1>2. crew' = crew /\ wording' = wording /\ quoted' = quoted
  BY DEF Tables
<1>3. QED
  BY <1>1, <1>2 DEF LeftAs, Scribes, Touches, Thing, TextNow

\* A DELETE that is alone sees every row there is.
LEMMA DeleteSeesKeeps ==
  ASSUME IndexInv, NEW w \in Scribes, DeleteSees(w)
  PROVE  Kept(w)
<1> DEFINE seen == {row \in ftsRows : Covers(w, row)}
<1>1. IndexShape /\ AllPrepared /\ WriterShape(w) /\ WriterRows(w)
  BY DEF IndexInv, IndexShape
<1>2. Tables /\ ftsRows' = ftsRows /\ work[w].at = "delete" /\ Writing(w)
  BY DEF DeleteSees, Writing
<1>3. LeftAs(w, "deleting", work[w].on, seen, work[w].gone, work[w].new, work[w].text, work[w].blanked)
  BY <1>1, DeleteSeesLeaves
<1>4. /\ Frame(w) /\ Scribes' = Scribes /\ (\A x : Touches(w, x)' <=> Touches(w, x))
      /\ Thing(w)' = Thing(w) /\ TextNow(w)' = TextNow(w)
  BY <1>1, <1>2, <1>3, LeavesFrame DEF RowsIn
<1>5. crew' = crew /\ scripts' = scripts
  BY <1>2 DEF Tables
<1>6. WriterShape(w)'
  BY <1>1, <1>2, <1>3, <1>5 DEF LeftAs, WriterShape, Places
<1>7. \A x : (Written(w, x)' <=> Written(w, x)) /\ (Cleared(w, x)' <=> Thing(w) # x /\ work[w].on = 2)
      /\ NewOf(w, x)' = NewOf(w, x)
  BY <1>2, <1>3, <1>4, <1>5 DEF LeftAs, Written, Cleared, NewOf
<1>8. ASSUME NEW row \in seen PROVE Touches(w, ThingOf(row)) /\ (crew[w] = "paste" => row.of = w)
  <2>1. w # "insight"
    BY <1>1, SearchIndexAssumption DEF IndexShape, Scribes
  <2>2. Thing(w) \in Things /\ Touches(w, Thing(w))
    BY <1>1, ThingTouched
  <2>3. CASE crew[w] = "paste"
    BY <1>1, <1>8, <2>1, <2>3, Courses DEF Covers, ThingOf
  <2>4. CASE crew[w] # "paste"
    <3>1. ThingOf(row) = Thing(w)
      BY <1>8, <2>2, <2>4 DEF Covers, ThingOf, Things
    <3>2. QED
      BY <2>2, <2>4, <3>1
  <2>5. QED
    BY <2>3, <2>4
<1>9. work'[w].saw = seen /\ work'[w].gone = work[w].gone /\ work'[w].new = work[w].new
      /\ work'[w].at = "deleting" /\ work'[w].text = work[w].text
      /\ work'[w].purged = work[w].purged /\ work'[w].blanked = work[w].blanked
  BY <1>3 DEF LeftAs
<1> HIDE DEF seen
<1>10. WriterRows(w)'
  BY <1>1, <1>2, <1>4, <1>5, <1>7, <1>8, <1>9 DEF WriterRows
<1>11. ASSUME NEW x \in Things, Undisturbed(w, x) PROVE Prepared(w, x)'
  <2>1. Prepared(w, x) /\ crew[w] # "paste"
    BY <1>1, <1>11 DEF AllPrepared, Undisturbed
  <2>2. RowsIn(x)' = RowsIn(x) /\ Fresh(w, x)' = Fresh(w, x)
    BY <1>2, <1>4, <1>5 DEF RowsIn, Fresh
  <2>3. Thing(w) = x => RowsIn(x) \subseteq seen
    BY <2>1 DEF RowsIn, seen, Covers, ThingOf, Things
  <2>4. Thing(w) # x /\ work[w].on = 2 => Cleared(w, x)
    BY DEF Cleared
  <2>5. QED
    BY <1>2, <1>4, <1>5, <1>7, <1>9, <2>1, <2>2, <2>3, <2>4 DEF Prepared
<1>12. QED
  BY <1>4, <1>6, <1>10, <1>11 DEF Kept

\* A DELETE deletes what it saw and is still there.
LEMMA DeleteEndsKeeps ==
  ASSUME IndexInv, NEW w \in Scribes, DeleteEnds(w)
  PROVE  Kept(w)
<1> DEFINE took == work[w].saw \cap ftsRows
           at == IF crew[w] = "purge" /\ Thing(w) = "transcripts" THEN "mark" ELSE "read"
           gone == IF crew[w] = "attach" THEN work[w].gone ELSE work[w].gone \cup took
<1>1. IndexShape /\ AllPrepared /\ WriterShape(w) /\ WriterRows(w)
  BY DEF IndexInv, IndexShape
<1>2. Tables /\ work[w].at = "deleting" /\ Writing(w)
  BY DEF DeleteEnds, Writing
<1>3. /\ LeftAs(w, at, work[w].on, {}, gone, work[w].new, work[w].text, work[w].blanked)
      /\ ftsRows' = IF crew[w] = "attach" THEN ftsRows \ took ELSE ftsRows
  BY <1>1, DeleteEndsLeaves
<1>4. crew[w] = "attach" => RowsIn("transcripts")' = RowsIn("transcripts")
  <2>1. SUFFICES ASSUME crew[w] = "attach" PROVE RowsIn("transcripts")' = RowsIn("transcripts")
    OBVIOUS
  <2>2. \A row \in took : ThingOf(row) # "transcripts"
    BY <1>1, <2>1, Courses DEF WriterRows
  <2>3. QED
    BY <1>3, <2>1, <2>2 DEF RowsIn
<1>5. at \in {"mark", "read"}
  OBVIOUS
<1> HIDE DEF at, gone
<1>6. /\ Frame(w) /\ Scribes' = Scribes /\ (\A x : Touches(w, x)' <=> Touches(w, x))
      /\ Thing(w)' = Thing(w) /\ TextNow(w)' = TextNow(w)
  <2>1. crew[w] # "attach" => ftsRows' = ftsRows
    BY <1>3
  <2>2. QED
    BY <1>1, <1>2, <1>3, <1>4, <1>5, <2>1, LeavesFrame
<1>7. crew' = crew /\ scripts' = scripts
  BY <1>2 DEF Tables
<1>8. WriterShape(w)'
  <2>1. crew[w] = "purge" => (Thing(w) = "transcripts" <=> work[w].on = 1)
    BY <1>1, Courses
  <2>2. at = "mark" => crew[w] = "purge" /\ work[w].on = 1
    BY <2>1 DEF at
  <2>3. crew[w] = "purge" /\ at = "read" => work[w].on = 2
    BY <1>1, <2>1 DEF at, WriterShape
  <2>4. QED
    BY <1>1, <1>3, <1>5, <1>7, <2>2, <2>3 DEF LeftAs, WriterShape, Places
<1>9. work'[w].saw = {} /\ work'[w].gone = gone /\ work'[w].new = work[w].new
      /\ work'[w].at = at /\ work'[w].text = work[w].text /\ work'[w].on = work[w].on
      /\ work'[w].purged = work[w].purged /\ work'[w].blanked = work[w].blanked
  BY <1>3 DEF LeftAs
<1>10. \A x : (Written(w, x)' <=> Written(w, x)) /\ NewOf(w, x)' = NewOf(w, x)
       /\ (Cleared(w, x)' <=> Thing(w) = x \/ (Thing(w) # x /\ work[w].on = 2))
  BY <1>2, <1>5, <1>6, <1>7, <1>9 DEF Written, Cleared, NewOf
<1>11. WriterRows(w)'
  <2>1. \A row \in gone : row \in work[w].saw \cup work[w].gone
    BY DEF gone
  <2>2. crew[w] = "attach" => gone = work[w].gone
    BY DEF gone
  <2>3. QED
    BY <1>1, <1>2, <1>5, <1>6, <1>7, <1>9, <1>10, <2>1, <2>2 DEF WriterRows
<1>12. ASSUME NEW x \in Things, Undisturbed(w, x) PROVE Prepared(w, x)'
  <2>1. Prepared(w, x) /\ crew[w] # "paste" /\ Touches(w, x)
    BY <1>1, <1>12 DEF AllPrepared, Undisturbed
  <2>2. crew[w] # "attach" => RowsIn(x)' = RowsIn(x)
    BY <1>3 DEF RowsIn
  <2>3. Fresh(w, x)' = Fresh(w, x)
    BY <1>6, <1>7 DEF Fresh
  <2>4. Thing(w) = x => RowsIn(x) \subseteq took
    BY <1>2, <2>1 DEF Prepared, RowsIn
  <2>5. crew[w] # "attach" /\ Cleared(w, x)' => RowsIn(x) \subseteq gone
    <3>1. Thing(w) # x /\ work[w].on = 2 => Cleared(w, x)
      BY DEF Cleared
    <3>2. QED
      BY <1>10, <2>1, <2>4, <3>1 DEF Prepared, gone
  <2>6. crew[w] = "attach" => RowsIn(x)' = {}
    <3>1. crew[w] = "attach" => Thing(w) = x
      BY <1>1, <2>1, Courses DEF Things
    <3>2. QED
      BY <1>3, <2>4, <3>1 DEF RowsIn
  <2>7. QED
    BY <1>2, <1>5, <1>6, <1>7, <1>9, <1>10, <2>1, <2>2, <2>3, <2>5, <2>6 DEF Prepared
<1>13. QED
  BY <1>6, <1>8, <1>11, <1>12 DEF Kept

\* Marking the quotes keeps what is prepared.
LEMMA MarkQuotesKeeps ==
  ASSUME IndexInv, NEW w \in Scribes, MarkQuotes(w)
  PROVE  Kept(w)
<1>1. IndexShape /\ AllPrepared /\ WriterShape(w) /\ WriterRows(w)
  BY DEF IndexInv, IndexShape
<1>2. Tables /\ ftsRows' = ftsRows /\ work[w].at = "mark" /\ Writing(w)
  BY DEF MarkQuotes, Writing
<1>3. LeftAs(w, "delete", 2, work[w].saw, work[w].gone, work[w].new, work[w].text, quoted)
  BY <1>1, MarkQuotesLeaves
<1>4. crew[w] = "purge" /\ work[w].on = 1
  BY <1>1, <1>2 DEF WriterShape
<1>5. Frame(w) /\ Scribes' = Scribes /\ (\A x : Touches(w, x)' <=> Touches(w, x))
  BY <1>1, <1>2, <1>3, LeavesFrame DEF RowsIn
<1>6. crew' = crew /\ scripts' = scripts
  BY <1>2 DEF Tables
<1>7. WriterShape(w)'
  BY <1>1, <1>2, <1>3, <1>4, <1>6 DEF LeftAs, WriterShape, Places
<1>8. work'[w].saw = work[w].saw /\ work'[w].gone = work[w].gone /\ work'[w].new = work[w].new
      /\ work'[w].at = "delete" /\ work'[w].text = work[w].text /\ work'[w].on = 2
      /\ work'[w].purged = work[w].purged
  BY <1>3 DEF LeftAs
<1>9. Thing(w) = "transcripts" /\ Thing(w)' = "insight"
  <2>1. Course(crew[w]) = <<"transcripts", "insight">>
    BY <1>4 DEF Course
  <2>2. QED
    BY <1>4, <1>6, <1>8, <2>1 DEF Thing
<1>10. \A x : ~Written(w, x) /\ ~Written(w, x)' /\ NewOf(w, x)' = NewOf(w, x)
  BY <1>2, <1>4, <1>6, <1>8 DEF Written, NewOf
<1>11. WriterRows(w)'
  BY <1>1, <1>2, <1>4, <1>5, <1>6, <1>8, <1>10 DEF WriterRows
<1>12. ASSUME NEW x \in Things, Undisturbed(w, x) PROVE Prepared(w, x)'
  <2>1. Prepared(w, x)
    BY <1>1, <1>12 DEF AllPrepared
  <2>2. RowsIn(x)' = RowsIn(x)
    BY <1>2 DEF RowsIn
  <2>3. Cleared(w, x)' => Cleared(w, x)
    BY <1>2, <1>8, <1>9 DEF Cleared, Things
  <2>4. QED
    BY <1>2, <1>4, <1>6, <1>8, <1>10, <2>1, <2>2, <2>3 DEF Prepared
<1>13. QED
  BY <1>5, <1>7, <1>11, <1>12 DEF Kept

\* A writer that is alone reads the text there is.
LEMMA ReadTextKeeps ==
  ASSUME IndexInv, NEW w \in Scribes, ReadText(w)
  PROVE  Kept(w)
<1> DEFINE text == IF Thing(w) = "insight" THEN TextNow(w) ELSE <<>>
<1>1. IndexShape /\ AllPrepared /\ WriterShape(w) /\ WriterRows(w)
  BY DEF IndexInv, IndexShape
<1>2. Tables /\ ftsRows' = ftsRows /\ work[w].at = "read" /\ Writing(w) /\ crew[w] # "rebuild"
  BY DEF ReadText, Writing
<1>3. LeftAs(w, "insert", work[w].on, work[w].saw, work[w].gone, work[w].new, text, work[w].blanked)
  BY <1>1, ReadTextLeaves
<1>4. crew[w] = "paste" => text = <<>>
  BY <1>1, Courses
<1> HIDE DEF text
<1>5. /\ Frame(w) /\ Scribes' = Scribes /\ (\A x : Touches(w, x)' <=> Touches(w, x))
      /\ Thing(w)' = Thing(w) /\ TextNow(w)' = TextNow(w)
  BY <1>1, <1>2, <1>3, LeavesFrame DEF RowsIn
<1>6. crew' = crew /\ scripts' = scripts
  BY <1>2 DEF Tables
<1>7. WriterShape(w)'
  BY <1>1, <1>2, <1>3, <1>6 DEF LeftAs, WriterShape, Places
<1>8. work'[w].saw = work[w].saw /\ work'[w].gone = work[w].gone /\ work'[w].new = work[w].new
      /\ work'[w].at = "insert" /\ work'[w].text = text /\ work'[w].on = work[w].on
      /\ work'[w].purged = work[w].purged /\ work'[w].blanked = work[w].blanked
  BY <1>3 DEF LeftAs
<1>9. \A x : (Written(w, x)' <=> Written(w, x)) /\ (Cleared(w, x)' <=> Cleared(w, x))
      /\ NewOf(w, x)' = NewOf(w, x)
  BY <1>2, <1>5, <1>6, <1>8 DEF Written, Cleared, NewOf
<1>10. WriterRows(w)'
  BY <1>1, <1>2, <1>4, <1>5, <1>6, <1>8, <1>9 DEF WriterRows
<1>11. ASSUME NEW x \in Things, Undisturbed(w, x) PROVE Prepared(w, x)'
  <2>1. Prepared(w, x) /\ crew[w] # "paste" /\ Touches(w, x)
    BY <1>1, <1>11 DEF AllPrepared, Undisturbed
  <2>2. RowsIn(x)' = RowsIn(x) /\ Fresh(w, x)' = Fresh(w, x)
    BY <1>2, <1>5, <1>6 DEF RowsIn, Fresh
  <2>3. x = "insight" => text = TextNow(w)
    <3>1. x = "insight" => Thing(w) = "insight"
      BY <1>1, <1>2, <2>1, Courses DEF WriterShape, Jobs
    <3>2. QED
      BY <3>1 DEF text
  <2>4. QED
    BY <1>2, <1>5, <1>6, <1>8, <1>9, <2>1, <2>2, <2>3 DEF Prepared
<1>12. QED
  BY <1>5, <1>7, <1>10, <1>11 DEF Kept

\* A writer that is alone inserts the row there should be.
LEMMA InsertTextKeeps ==
  ASSUME IndexInv, NEW w \in Scribes, InsertText(w)
  PROVE  Kept(w)
<1> DEFINE row == Row(IF Thing(w) = "insight" THEN "insight" ELSE w, work[w].text, w)
           new == IF crew[w] = "attach" THEN work[w].new ELSE work[w].new \cup {row}
<1>1. IndexShape /\ AllPrepared /\ WriterShape(w) /\ WriterRows(w)
  BY DEF IndexInv, IndexShape
<1>2. Tables /\ work[w].at = "insert" /\ Writing(w)
  BY DEF InsertText, Writing
<1>3. /\ LeftAs(w, "commit", work[w].on, work[w].saw, work[w].gone, new, work[w].text, work[w].blanked)
      /\ ftsRows' = IF crew[w] = "attach" THEN ftsRows \cup {row} ELSE ftsRows
  BY <1>1, InsertTextLeaves
<1>4. /\ crew[w] # "rebuild" /\ crew[w] \in Jobs /\ (crew[w] # "paste" <=> Thing(w) = "insight")
      /\ crew[w] = "purge" => work[w].on = 2
      /\ Touches(w, "insight") <=> crew[w] # "paste"
      /\ Touches(w, "transcripts") <=> crew[w] \in {"paste", "purge", "rebuild"}
  BY <1>1, <1>2, Courses DEF WriterShape, Jobs
<1>5. /\ ThingOf(row) = Thing(w) /\ (crew[w] = "paste" => row = Row(w, <<>>, w))
      /\ crew[w] # "paste" => row = Row("insight", work[w].text, w)
  <2>1. w # "insight"
    BY <1>1, SearchIndexAssumption DEF IndexShape, Scribes
  <2>2. CASE crew[w] = "paste"
    <3>1. work[w].text = <<>>
      BY <1>1, <1>2, <2>2 DEF WriterRows
    <3>2. row = Row(w, <<>>, w)
      BY <1>4, <2>2, <3>1
    <3>3. Thing(w) = "transcripts"
      BY <1>1, <2>2, Courses
    <3>4. row.of = w
      BY <3>2 DEF Row
    <3>5. QED
      BY <2>1, <2>2, <3>2, <3>3, <3>4 DEF ThingOf
  <2>3. CASE crew[w] # "paste"
    BY <1>4, <2>3 DEF ThingOf, Row
  <2>4. QED
    BY <2>2, <2>3
<1>6. crew[w] = "attach" => RowsIn("transcripts")' = RowsIn("transcripts")
  BY <1>3, <1>4, <1>5 DEF RowsIn
<1> HIDE DEF row, new
<1>7. /\ Frame(w) /\ Scribes' = Scribes /\ (\A x : Touches(w, x)' <=> Touches(w, x))
      /\ Thing(w)' = Thing(w) /\ TextNow(w)' = TextNow(w)
  <2>1. crew[w] # "attach" => ftsRows' = ftsRows
    BY <1>3
  <2>2. QED
    BY <1>1, <1>2, <1>3, <1>6, <2>1, LeavesFrame
<1>8. crew' = crew /\ scripts' = scripts
  BY <1>2 DEF Tables
<1>9. WriterShape(w)'
  BY <1>1, <1>2, <1>3, <1>4, <1>8 DEF LeftAs, WriterShape, Places
<1>10. work'[w].saw = work[w].saw /\ work'[w].gone = work[w].gone /\ work'[w].new = new
      /\ work'[w].at = "commit" /\ work'[w].text = work[w].text /\ work'[w].on = work[w].on
      /\ work'[w].purged = work[w].purged /\ work'[w].blanked = work[w].blanked
  BY <1>3 DEF LeftAs
<1>11. \A x : Written(w, x)' /\ ~Written(w, x)
  BY <1>2, <1>4, <1>8, <1>10 DEF Written
<1>12. WriterRows(w)'
  <2>1. Touches(w, ThingOf(row))
    BY <1>1, <1>5, ThingTouched
  <2>2. \A r \in new : r \in work[w].new \/ r = row
    BY DEF new
  <2>3. crew[w] = "attach" => new = {}
    BY <1>1 DEF new, WriterRows
  <2>4. crew[w] = "paste" => new = {Row(w, <<>>, w)}
    BY <1>1, <1>2, <1>5 DEF new, WriterRows
  <2>5. \A r \in work'[w].saw \cup work'[w].gone \cup work'[w].new : Touches(w, ThingOf(r))'
    BY <1>1, <1>7, <1>10, <2>1, <2>2 DEF WriterRows, ThingOf
  <2>6. QED
    BY <1>1, <1>2, <1>8, <1>10, <1>11, <2>3, <2>4, <2>5 DEF WriterRows
<1>13. ASSUME NEW x \in Things, Undisturbed(w, x) PROVE Prepared(w, x)'
  <2>1. Prepared(w, x) /\ crew[w] # "paste" /\ Touches(w, x)
    BY <1>1, <1>13 DEF AllPrepared, Undisturbed
  <2>2. Thing(w) = "insight" /\ ThingOf(row) = "insight" /\ row = Row("insight", work[w].text, w)
    BY <1>4, <1>5, <2>1
  <2>3. Cleared(w, x)
    <3>1. x # "insight" => crew[w] = "purge"
      BY <1>4, <2>1 DEF Things, Jobs
    <3>2. QED
      BY <1>2, <1>4, <2>2, <3>1 DEF Cleared
  <2>4. crew[w] # "attach" => RowsIn(x)' = RowsIn(x) /\ RowsIn(x) \subseteq work'[w].gone
    BY <1>3, <1>10, <2>1, <2>3 DEF RowsIn, Prepared
  <2>5. x = "insight" => row = Row("insight", TextNow(w), w)
    BY <1>2, <2>1, <2>2 DEF Prepared
  <2>6. crew[w] # "attach" => NewOf(w, x)' = Fresh(w, x)'
    <3>1. SUFFICES ASSUME crew[w] # "attach" PROVE NewOf(w, x)' = Fresh(w, x)'
      OBVIOUS
    <3>2. NewOf(w, x) = {}
      BY <1>1, <1>11, <2>1, <3>1 DEF WriterRows
    <3>3. NewOf(w, x)' = IF x = "insight" THEN {row} ELSE {}
      BY <1>10, <2>2, <3>1, <3>2 DEF NewOf, new, Things
    <3>4. Fresh(w, x)' = IF x = "insight" THEN {Row("insight", TextNow(w), w)} ELSE {}
      BY <1>4, <1>7, <1>8 DEF Fresh
    <3>5. QED
      BY <2>5, <3>3, <3>4
  <2>7. crew[w] = "attach" => RowsIn(x)' = Fresh(w, x)'
    <3>1. SUFFICES ASSUME crew[w] = "attach" PROVE RowsIn(x)' = Fresh(w, x)'
      OBVIOUS
    <3>2. x = "insight"
      BY <1>4, <2>1, <3>1 DEF Things
    <3>3. RowsIn(x) = {}
      BY <1>2, <2>1, <3>1 DEF Prepared
    <3>4. RowsIn(x)' = {row}
      BY <1>3, <2>2, <3>1, <3>2, <3>3 DEF RowsIn
    <3>5. Fresh(w, x)' = {Row("insight", TextNow(w), w)}
      BY <1>7, <3>2 DEF Fresh
    <3>6. QED
      BY <2>5, <3>2, <3>4, <3>5
  <2>8. crew[w] = "purge" /\ x = "transcripts" => work'[w].purged = scripts'
    BY <1>8, <1>10, <2>1 DEF Prepared
  <2>9. QED
    BY <1>2, <1>7, <1>8, <1>10, <1>11, <2>1, <2>4, <2>6, <2>7, <2>8 DEF Prepared
<1>14. QED
  BY <1>7, <1>9, <1>12, <1>13 DEF Kept

\* A rebuild that is alone inserts the rows there should be.
LEMMA CopyRowsKeeps ==
  ASSUME IndexInv, NEW w \in Scribes, CopyRows(w)
  PROVE  Kept(w)
<1> DEFINE rows == IF Thing(w) = "insight" THEN {Row("insight", TextNow(w), w)}
                   ELSE {Row(t, <<>>, w) : t \in scripts}
           at == IF work[w].on = 2 THEN "commit" ELSE "delete"
           new == work[w].new \cup rows
<1>1. IndexShape /\ AllPrepared /\ WriterShape(w) /\ WriterRows(w)
  BY DEF IndexInv, IndexShape
<1>2. Tables /\ ftsRows' = ftsRows /\ work[w].at = "read" /\ crew[w] = "rebuild" /\ Writing(w)
  BY DEF CopyRows, Writing
<1>3. LeftAs(w, at, 2, work[w].saw, work[w].gone, new, work[w].text, work[w].blanked)
  BY <1>1, CopyRowsLeaves
<1>4. at \in {"commit", "delete"}
  OBVIOUS
<1>5. /\ work[w].on \in {1, 2} /\ (Thing(w) = IF work[w].on = 1 THEN "insight" ELSE "transcripts")
      /\ Touches(w, "insight") /\ Touches(w, "transcripts")
  BY <1>1, <1>2, Courses DEF WriterShape
<1>6. rows = Fresh(w, Thing(w)) /\ (\A row \in rows : ThingOf(row) = Thing(w))
  <2>1. "insight" \notin scripts
    BY <1>1, SearchIndexAssumption DEF IndexShape, Scribes
  <2>2. QED
    BY <1>2, <1>5, <2>1 DEF Fresh, ThingOf, Row
<1> HIDE DEF at, rows, new
<1>7. Frame(w) /\ Scribes' = Scribes /\ (\A x : Touches(w, x)' <=> Touches(w, x))
      /\ TextNow(w)' = TextNow(w)
  BY <1>1, <1>2, <1>3, <1>4, LeavesFrame DEF RowsIn
<1>8. crew' = crew /\ scripts' = scripts
  BY <1>2 DEF Tables
<1>9. WriterShape(w)'
  BY <1>1, <1>2, <1>3, <1>4, <1>8 DEF LeftAs, WriterShape, Places
<1>10. work'[w].saw = work[w].saw /\ work'[w].gone = work[w].gone /\ work'[w].new = new
      /\ work'[w].at = at /\ work'[w].text = work[w].text /\ work'[w].on = 2
      /\ work'[w].purged = work[w].purged /\ work'[w].blanked = work[w].blanked
  BY <1>3 DEF LeftAs
<1>11. Thing(w)' = "transcripts"
  <2>1. Course(crew[w]) = <<"insight", "transcripts">>
    BY <1>2 DEF Course
  <2>2. QED
    BY <1>8, <1>10, <2>1 DEF Thing
<1>12. \A x \in Things : /\ Written(w, x) <=> work[w].on = 2 /\ x = "insight"
                         /\ Written(w, x)' <=> work[w].on = 2 \/ x = "insight"
                         /\ Cleared(w, x) <=> Thing(w) = x \/ work[w].on = 2
                         /\ Cleared(w, x)' <=> work[w].on = 2 \/ x = "insight"
  BY <1>2, <1>4, <1>5, <1>8, <1>10, <1>11 DEF Written, Cleared, Things, at
<1>13. \A x \in Things : NewOf(w, x)' = IF x = Thing(w) THEN NewOf(w, x) \cup rows ELSE NewOf(w, x)
  BY <1>6, <1>10 DEF NewOf, new
<1>14. \A x \in Things : ~Written(w, x) => NewOf(w, x) = {}
  BY <1>1, <1>2 DEF WriterRows
<1>15. WriterRows(w)'
  <2>1. \A r \in new : Touches(w, ThingOf(r))
    BY <1>1, <1>5, <1>6 DEF new, WriterRows
  <2>2. \A r \in work'[w].saw \cup work'[w].gone \cup work'[w].new : Touches(w, ThingOf(r))'
    BY <1>1, <1>7, <1>10, <2>1 DEF WriterRows, ThingOf
  <2>3. \A x \in Things : ~Written(w, x)' => NewOf(w, x)' = {}
    BY <1>5, <1>12, <1>13, <1>14 DEF Things
  <2>4. QED
    BY <1>1, <1>2, <1>8, <1>10, <2>2, <2>3 DEF WriterRows
<1>16. ASSUME NEW x \in Things, Undisturbed(w, x) PROVE Prepared(w, x)'
  <2>1. Prepared(w, x) /\ Touches(w, x)
    BY <1>1, <1>16 DEF AllPrepared, Undisturbed
  <2>2. RowsIn(x)' = RowsIn(x) /\ Fresh(w, x)' = Fresh(w, x)
    BY <1>2, <1>7, <1>8 DEF RowsIn, Fresh
  <2>3. Cleared(w, x)' => RowsIn(x) \subseteq work'[w].gone
    BY <1>2, <1>5, <1>10, <1>12, <2>1 DEF Prepared
  <2>4. Written(w, x)' => NewOf(w, x)' = Fresh(w, x)'
    <3>1. SUFFICES ASSUME Written(w, x)' PROVE NewOf(w, x)' = Fresh(w, x)'
      OBVIOUS
    <3>2. CASE x = Thing(w)
      <4>1. NewOf(w, x) = {}
        BY <1>5, <1>12, <1>14, <3>2
      <4>2. QED
        BY <1>6, <1>13, <2>2, <3>2, <4>1
    <3>3. CASE x # Thing(w)
      <4>1. Written(w, x)
        BY <1>5, <1>12, <3>1, <3>3 DEF Things
      <4>2. QED
        BY <1>2, <1>13, <2>1, <2>2, <3>3, <4>1 DEF Prepared
    <3>4. QED
      BY <3>2, <3>3
  <2>5. QED
    BY <1>2, <1>4, <1>8, <1>10, <2>1, <2>2, <2>3, <2>4 DEF Prepared
<1>17. QED
  BY <1>7, <1>9, <1>15, <1>16 DEF Kept

\* No statement of a writer, before its commit, breaks the invariant.
LEMMA StatementsKeep ==
  ASSUME IndexInv, NEW w \in Scribes,
         DeleteSees(w) \/ DeleteEnds(w) \/ MarkQuotes(w) \/ ReadText(w) \/ InsertText(w) \/ CopyRows(w)
  PROVE  IndexInv'
<1>1. Kept(w)
  BY DeleteSeesKeeps, DeleteEndsKeeps, MarkQuotesKeeps, ReadTextKeeps, InsertTextKeeps, CopyRowsKeeps
<1>2. QED
  BY <1>1, StatementKeeps DEF Kept

----------------------------------------------------------------------------

\* What the beginning of a writer leaves in it, and in the others.
LEMMA BeginningLeaves ==
  ASSUME IndexShape, NEW w \in Scribes, NEW blank, WriterBegins(w, blank),
         blank = IdleWriter \/ blank = [IdleWriter EXCEPT !.purged = scripts]
  PROVE  /\ work' = [v \in Scribes |-> work'[v]]
         /\ DOMAIN work'[w] = Fields /\ work'[w].at = "delete" /\ work'[w].on = 1
         /\ work'[w].saw = {} /\ work'[w].gone = {} /\ work'[w].new = {}
         /\ work'[w].text = <<>> /\ work'[w].blanked = {}
         /\ work'[w].purged = blank.purged
         /\ work'[w].alone = (\A x \in Things : Touches(w, x) => Others(w, x) = {})
         /\ \A v \in Scribes \ {w} :
              /\ SameTask(v) /\ work'[v].alone \in BOOLEAN
              /\ work'[v].alone => work[v].alone
              /\ (\E x \in Met(w) : Touches(v, x)) => ~work'[v].alone
<1> DEFINE solo == \A x \in Things : Touches(w, x) => Others(w, x) = {}
           disturbed == {v \in DOMAIN crew \ {w} : \E x \in Met(w) : Touches(v, x)}
           q1 == [blank EXCEPT !.at = "delete"]
           q == [q1 EXCEPT !.alone = solo]
<1>1. work' = [v \in DOMAIN crew |-> IF v = w THEN q
                  ELSE IF v \in disturbed THEN [work[v] EXCEPT !.alone = FALSE] ELSE work[v]]
  BY DEF WriterBegins
<1>2. DOMAIN blank = Fields /\ blank.on = 1 /\ blank.saw = {} /\ blank.gone = {} /\ blank.new = {}
      /\ blank.text = <<>> /\ blank.blanked = {}
  BY DEF IdleWriter, Fields
<1> HIDE DEF solo, disturbed
<1>3. DOMAIN q1 = Fields /\ q1.at = "delete" /\ q1.on = 1 /\ q1.saw = {} /\ q1.gone = {} /\ q1.new = {}
      /\ q1.text = <<>> /\ q1.blanked = {} /\ q1.purged = blank.purged
  BY <1>2 DEF Fields
<1> HIDE DEF q1
<1>4. DOMAIN q = Fields /\ q.at = "delete" /\ q.on = 1 /\ q.saw = {} /\ q.gone = {} /\ q.new = {}
      /\ q.text = <<>> /\ q.blanked = {} /\ q.purged = blank.purged /\ q.alone = solo
  BY <1>3 DEF Fields
<1> HIDE DEF q
<1>5. work' = [v \in Scribes |-> work'[v]] /\ work'[w] = q
  BY <1>1 DEF Scribes
<1>6. ASSUME NEW v \in Scribes \ {w}
      PROVE  /\ SameTask(v) /\ work'[v].alone \in BOOLEAN
             /\ work'[v].alone => work[v].alone
             /\ (\E x \in Met(w) : Touches(v, x)) => ~work'[v].alone
  <2>1. DOMAIN work[v] = Fields /\ work[v].alone \in BOOLEAN
    BY DEF IndexShape, WriterShape
  <2>2. v \in disturbed <=> \E x \in Met(w) : Touches(v, x)
    BY DEF disturbed, Scribes
  <2>3. CASE v \in disturbed
    <3>1. work'[v] = [work[v] EXCEPT !.alone = FALSE]
      BY <1>1, <2>3 DEF Scribes
    <3>2. DOMAIN work'[v] = DOMAIN work[v] /\ work'[v].alone = FALSE
      BY <2>1, <3>1 DEF Fields
    <3>3. SameTask(v)
      BY <2>1, <3>1, <3>2 DEF SameTask, Fields
    <3>4. QED
      BY <2>2, <2>3, <3>2, <3>3
  <2>4. CASE v \notin disturbed
    <3>1. work'[v] = work[v]
      BY <1>1, <2>4 DEF Scribes
    <3>2. QED
      BY <2>1, <2>2, <2>4, <3>1 DEF SameTask
  <2>5. QED
    BY <2>3, <2>4
<1>7. QED
  BY <1>4, <1>5, <1>6 DEF solo

\* A writer that begins tears what another with nothing in common is writing.
LEMMA BeginningKeeps ==
  ASSUME IndexInv, NEW w \in Scribes, NEW blank, WriterBegins(w, blank),
         blank = IF crew[w] = "purge" THEN [IdleWriter EXCEPT !.purged = scripts] ELSE IdleWriter,
         crew[w] \in {"edit", "attach"} => ~RowHeld,
         quoted' = IF crew[w] = "attach" THEN quoted \cup {w} ELSE quoted
  PROVE  IndexInv'
<1>1. IndexShape /\ OneEdit /\ Apart /\ AloneIs /\ AllPrepared /\ Sound
  BY DEF IndexInv
<1>2. /\ work[w].at = "idle" /\ ~Writing(w) /\ torn' = torn \cup Met(w)
      /\ crew' = crew /\ Scribes' = Scribes /\ scripts' = scripts /\ ftsRows' = ftsRows /\ wording' = wording
  BY DEF WriterBegins, Scribes, Writing
<1>3. /\ work' = [v \in Scribes |-> work'[v]]
      /\ DOMAIN work'[w] = Fields /\ work'[w].at = "delete" /\ work'[w].on = 1
      /\ work'[w].saw = {} /\ work'[w].gone = {} /\ work'[w].new = {}
      /\ work'[w].text = <<>> /\ work'[w].blanked = {}
      /\ work'[w].purged = blank.purged
      /\ work'[w].alone = (\A x \in Things : Touches(w, x) => Others(w, x) = {})
  BY <1>1, BeginningLeaves
<1>4. \A v \in Scribes \ {w} :
        /\ SameTask(v) /\ work'[v].alone \in BOOLEAN
        /\ work'[v].alone => work[v].alone
        /\ (\E x \in Met(w) : Touches(v, x)) => ~work'[v].alone
  BY <1>1, BeginningLeaves
<1>5. Writing(w)' /\ (\A v \in Scribes \ {w} : Writing(v)' <=> Writing(v))
  BY <1>3, <1>4 DEF Writing, SameTask
<1>6. \A v, x : Touches(v, x)' <=> Touches(v, x)
  BY <1>2 DEF Touches
<1>7. work'[w].purged = IF crew[w] = "purge" THEN scripts ELSE {}
  <2>1. IdleWriter.purged = {} /\ [IdleWriter EXCEPT !.purged = scripts].purged = scripts
    BY DEF IdleWriter
  <2>2. QED
    BY <1>3, <2>1
<1>8. \A v \in Scribes : crew[w] \in {"edit", "attach"} /\ crew[v] = "edit" => ~Writing(v)
  BY DEF RowHeld, Scribes
<1>9. ASSUME NEW v \in Scribes \ {w}, NEW x \in Things, Writing(v), Touches(v, x), Touches(w, x)
      PROVE  (x \in Met(w) /\ ~work'[v].alone) \/ (crew[v] = "paste" /\ crew[w] = "paste")
  <2>1. v \in Others(w, x)
    BY <1>9 DEF Others, Scribes
  <2>2. Meet(v, w) => x \in Met(w)
    BY <1>9, <2>1 DEF Met
  <2>3. Meet(v, w) \/ (crew[v] = "paste" /\ crew[w] = "paste")
    BY <1>8, <1>9 DEF Meet
  <2>4. QED
    BY <1>4, <1>9, <2>2, <2>3
<1>10. IndexShape'
  <2>1. WriterShape(w)'
    <3>1. work'[w].alone \in BOOLEAN
      BY <1>3
    <3>2. QED
      BY <1>2, <1>3, <3>1 DEF WriterShape, Places
  <2>2. WriterRows(w)'
    <3>1. crew[w] = "paste" => w \notin scripts
      BY <1>1, <1>2 DEF IndexShape, WriterRows
    <3>2. \A x : ~Written(w, x)' /\ NewOf(w, x)' = {}
      BY <1>3 DEF Written, NewOf
    <3>3. QED
      BY <1>2, <1>3, <1>7, <3>1, <3>2 DEF WriterRows
  <2>3. ASSUME NEW v \in Scribes \ {w} PROVE WriterShape(v)' /\ WriterRows(v)'
    <3>1. WriterShape(v) /\ WriterRows(v)
      BY <1>1 DEF IndexShape
    <3>2. QED
      BY <1>2, <1>4, <3>1, RowsSame
  <2>4. torn' \subseteq Things
    BY <1>1, <1>2 DEF IndexShape, Met
  <2>5. \A v \in Scribes' : WriterShape(v)' /\ WriterRows(v)'
    BY <1>2, <2>1, <2>2, <2>3
  <2>6. work' = [v \in Scribes' |-> work'[v]]
    BY <1>2, <1>3
  <2>7. QED
    BY <1>1, <1>2, <2>4, <2>5, <2>6 DEF IndexShape
<1>11. OneEdit'
  BY <1>1, <1>2, <1>5, <1>8 DEF OneEdit
<1>12. Apart'
  <2>1. SUFFICES ASSUME NEW v \in Scribes, NEW u \in Scribes, NEW x \in Things \ torn',
                        v # u, Writing(v)', Writing(u)', Touches(v, x), Touches(u, x)
                 PROVE  crew[v] = "paste" /\ crew[u] = "paste"
    BY <1>2, <1>6 DEF Apart
  <2>2. x \notin torn /\ x \notin Met(w)
    BY <1>2
  <2>3. CASE v = w
    BY <1>5, <1>9, <2>1, <2>2, <2>3
  <2>4. CASE u = w
    BY <1>5, <1>9, <2>1, <2>2, <2>4
  <2>5. CASE v # w /\ u # w
    BY <1>1, <1>5, <2>1, <2>2, <2>5 DEF Apart
  <2>6. QED
    BY <2>3, <2>4, <2>5
<1>13. AloneIs'
  <2>1. SUFFICES ASSUME NEW v \in Scribes, NEW u \in Scribes, NEW x \in Things,
                        v # u, Writing(v)', Writing(u)', Touches(v, x), Touches(u, x)
                 PROVE  ~work'[u].alone \/ crew[u] = "paste"
    BY <1>2, <1>6 DEF AloneIs
  <2>2. CASE u = w
    <3>1. v \in Others(w, x)
      BY <1>5, <2>1, <2>2 DEF Others, Scribes
    <3>2. QED
      BY <1>3, <2>1, <2>2, <3>1
  <2>3. CASE v = w
    BY <1>5, <1>9, <2>1, <2>3
  <2>4. CASE v # w /\ u # w
    <3>1. ~work[u].alone \/ crew[u] = "paste"
      BY <1>1, <1>5, <2>1, <2>4 DEF AloneIs
    <3>2. QED
      BY <1>4, <2>4, <3>1
  <2>5. QED
    BY <2>2, <2>3, <2>4
<1>14. ASSUME NEW x \in Things, crew[w] # "attach" \/ x # "insight" PROVE SameData(x)
  BY <1>2, <1>14 DEF SameData, RowsIn
<1>15. ASSUME NEW v \in Scribes, NEW x \in Things, Undisturbed(v, x)' PROVE Prepared(v, x)'
  <2>1. CASE v = w
    <3>1. ~Written(w, x)' /\ ~Cleared(w, x)'
      BY <1>3 DEF Written, Cleared
    <3>2. crew[w] = "purge" => work'[w].purged = scripts
      BY <1>7
    <3>3. QED
      BY <1>2, <1>3, <2>1, <3>1, <3>2 DEF Prepared
  <2>2. CASE v # w
    <3>1. Writing(v) /\ Touches(v, x) /\ crew[v] # "paste" /\ (work'[v].alone \/ x \notin torn')
      BY <1>2, <1>5, <1>6, <1>15, <2>2 DEF Undisturbed
    <3>2. Undisturbed(v, x)
      BY <1>2, <1>4, <2>2, <3>1 DEF Undisturbed
    <3>3. crew[w] # "attach" \/ x # "insight"
      <4>1. SUFFICES ASSUME crew[w] = "attach", x = "insight" PROVE FALSE
        OBVIOUS
      <4>2. Touches(w, x)
        BY <1>1, <4>1, Courses
      <4>3. x \in Met(w) /\ ~work'[v].alone
        BY <1>9, <2>2, <3>1, <4>1, <4>2
      <4>4. QED
        BY <1>2, <3>1, <4>3
    <3>4. Prepared(v, x)
      BY <1>1, <3>2 DEF AllPrepared
    <3>5. QED
      BY <1>2, <1>4, <1>14, <2>2, <3>3, <3>4, PreparedSame
  <2>3. QED
    BY <2>1, <2>2
<1>16. AllPrepared'
  BY <1>2, <1>15 DEF AllPrepared
<1>17. ASSUME NEW x \in Things, x \notin torn', ~(x = "insight" /\ AttachWrites') PROVE Exact(x)'
  <2>1. AttachWrites => AttachWrites'
    BY <1>2, <1>5 DEF AttachWrites
  <2>2. crew[w] # "attach" \/ x # "insight"
    BY <1>2, <1>5, <1>17 DEF AttachWrites
  <2>3. Exact(x)
    BY <1>1, <1>2, <1>17, <2>1 DEF Sound
  <2>4. QED
    BY <1>2, <1>14, <2>2, <2>3, ExactSame
<1>18. Sound'
  BY <1>17 DEF Sound
<1>19. QED
  BY <1>10, <1>11, <1>12, <1>13, <1>16, <1>18 DEF IndexInv

\* Each kind of writer begins so.
LEMMA BeginningsKeep ==
  ASSUME IndexInv, NEW w \in Scribes,
         Edit(w) \/ Attach(w) \/ AddTranscript(w) \/ PurgeBegins(w) \/ Rebuild(w)
  PROVE  IndexInv'
<1>1. CASE Edit(w)
  BY <1>1, BeginningKeeps DEF Edit
<1>2. CASE Attach(w)
  BY <1>2, BeginningKeeps DEF Attach
<1>3. CASE AddTranscript(w)
  BY <1>3, BeginningKeeps DEF AddTranscript
<1>4. CASE PurgeBegins(w)
  BY <1>4, BeginningKeeps DEF PurgeBegins
<1>5. CASE Rebuild(w)
  BY <1>5, BeginningKeeps DEF Rebuild
<1>6. QED
  BY <1>1, <1>2, <1>3, <1>4, <1>5

----------------------------------------------------------------------------

\* A writer that has ended is as one that never wrote.
LEMMA EndLeaves ==
  ASSUME IndexShape, NEW w \in Scribes, WriterEnds(w), crew' = crew,
         \A v \in Scribes \ {w} : v \in scripts' => v \in scripts
  PROVE  /\ Scribes' = Scribes /\ work' = [v \in Scribes |-> work'[v]]
         /\ WriterShape(w)' /\ WriterRows(w)' /\ ~Writing(w)'
         /\ \A v \in Scribes \ {w} : /\ SameTask(v) /\ work'[v].alone = work[v].alone
                                     /\ Writing(v)' <=> Writing(v)
                                     /\ WriterShape(v)' /\ WriterRows(v)'
<1> DEFINE q == [IdleWriter EXCEPT !.at = "done"]
<1>1. work' = [work EXCEPT ![w] = q]
  BY DEF WriterEnds
<1>2. DOMAIN q = Fields /\ q.at = "done" /\ q.on = 1 /\ q.saw = {} /\ q.gone = {} /\ q.new = {}
      /\ q.purged = {} /\ q.blanked = {} /\ q.alone = FALSE
  BY DEF IdleWriter, Fields
<1> HIDE DEF q
<1>3. work = [v \in Scribes |-> work[v]] /\ Scribes' = Scribes
  BY DEF IndexShape, Scribes
<1>4. work' = [v \in Scribes |-> work'[v]] /\ work'[w] = q /\ (\A v \in Scribes \ {w} : work'[v] = work[v])
  BY <1>1, <1>3
<1>5. WriterShape(w)' /\ ~Writing(w)'
  <2>1. DOMAIN work'[w] = Fields /\ work'[w].at = "done" /\ work'[w].on = 1 /\ work'[w].alone = FALSE
    BY <1>2, <1>4
  <2>2. work'[w].alone \in BOOLEAN
    BY <2>1
  <2>3. QED
    BY <2>1, <2>2 DEF WriterShape, Places, Writing
<1>6. WriterRows(w)'
  <2>1. \A x : NewOf(w, x)' = {}
    BY <1>2, <1>4 DEF NewOf
  <2>2. QED
    BY <1>2, <1>4, <2>1 DEF WriterRows
<1>7. ASSUME NEW v \in Scribes \ {w}
      PROVE  /\ SameTask(v) /\ work'[v].alone = work[v].alone /\ (Writing(v)' <=> Writing(v))
             /\ WriterShape(v)' /\ WriterRows(v)'
  <2>1. WriterShape(v) /\ WriterRows(v) /\ work[v].alone \in BOOLEAN
    BY DEF IndexShape, WriterShape
  <2>2. SameTask(v) /\ work'[v].alone = work[v].alone /\ (Writing(v)' <=> Writing(v))
    BY <1>4 DEF SameTask, Writing
  <2>3. QED
    BY <2>1, <2>2, RowsSame
<1>8. QED
  BY <1>3, <1>4, <1>5, <1>6, <1>7

\* A writer that fails leaves no rows.
LEMMA FailureKeeps ==
  ASSUME IndexInv, NEW w \in Scribes, WriterFails(w)
  PROVE  IndexInv'
<1>1. IndexShape /\ OneEdit /\ Apart /\ AloneIs /\ AllPrepared /\ Sound
  BY DEF IndexInv
<1>2. /\ Writing(w) /\ WriterEnds(w) /\ crew' = crew /\ scripts' = scripts
      /\ wording' = wording /\ quoted' = quoted /\ ftsRows' = ftsRows
      /\ torn' = IF crew[w] = "attach" /\ work[w].at # "commit" THEN torn \cup {"insight"} ELSE torn
  BY DEF WriterFails
<1>3. Scribes' = Scribes /\ work' = [v \in Scribes |-> work'[v]] /\ WriterShape(w)' /\ WriterRows(w)' /\ ~Writing(w)'
  BY <1>1, <1>2, EndLeaves
<1>4. \A v \in Scribes \ {w} : /\ SameTask(v) /\ work'[v].alone = work[v].alone
                               /\ Writing(v)' <=> Writing(v)
                               /\ WriterShape(v)' /\ WriterRows(v)'
  BY <1>1, <1>2, EndLeaves
<1>5. torn \subseteq torn' /\ torn' \subseteq Things
  BY <1>1, <1>2 DEF IndexShape, Things
<1>6. \A v, x : Touches(v, x)' <=> Touches(v, x)
  BY <1>2 DEF Touches
<1>7. IndexShape'
  <2>1. \A v \in Scribes' : WriterShape(v)' /\ WriterRows(v)'
    BY <1>3, <1>4
  <2>2. work' = [v \in Scribes' |-> work'[v]]
    BY <1>3
  <2>3. QED
    BY <1>1, <1>2, <1>3, <1>5, <2>1, <2>2 DEF IndexShape
<1>8. OneEdit'
  BY <1>1, <1>2, <1>3, <1>4 DEF OneEdit
<1>9. Apart'
  BY <1>1, <1>2, <1>3, <1>4, <1>5, <1>6 DEF Apart
<1>10. AloneIs'
  BY <1>1, <1>2, <1>3, <1>4, <1>6 DEF AloneIs
<1>11. \A x \in Things : SameData(x)
  BY <1>2 DEF SameData, RowsIn
<1>12. ASSUME NEW v \in Scribes, NEW x \in Things, Undisturbed(v, x)' PROVE Prepared(v, x)'
  <2>1. v # w
    BY <1>3, <1>12 DEF Undisturbed
  <2>2. Undisturbed(v, x)
    BY <1>2, <1>4, <1>5, <1>6, <1>12, <2>1 DEF Undisturbed
  <2>3. Prepared(v, x)
    BY <1>1, <2>2 DEF AllPrepared
  <2>4. QED
    BY <1>2, <1>4, <1>11, <2>1, <2>3, PreparedSame
<1>13. AllPrepared'
  BY <1>3, <1>12 DEF AllPrepared
<1>14. ASSUME NEW x \in Things, x \notin torn', ~(x = "insight" /\ AttachWrites') PROVE Exact(x)'
  <2>1. x \notin torn
    BY <1>5, <1>14
  <2>2. CASE x = "insight" /\ crew[w] = "attach"
    <3>1. work[w].at = "commit"
      BY <1>2, <1>14, <2>2
    <3>2. Touches(w, x)
      BY <1>1, <2>2, Courses
    <3>3. Undisturbed(w, x)
      BY <1>2, <2>1, <2>2, <3>2 DEF Undisturbed
    <3>4. RowsIn(x) = Fresh(w, x)
      BY <1>1, <2>2, <3>1, <3>3 DEF AllPrepared, Prepared
    <3>5. TextNow(w) = <<wording, quoted>>
      <4>1. work[w].blanked = {}
        BY <1>1, <2>2 DEF IndexShape, WriterRows
      <4>2. quoted \ {} = quoted
        OBVIOUS
      <4>3. QED
        BY <2>2, <4>1, <4>2 DEF TextNow
    <3>6. Exact(x)
      BY <2>2, <3>4, <3>5 DEF Exact, Fresh
    <3>7. QED
      BY <1>2, <1>11, <3>6, ExactSame
  <2>3. CASE ~(x = "insight" /\ crew[w] = "attach")
    <3>1. x = "insight" /\ AttachWrites => AttachWrites'
      BY <1>2, <1>3, <1>4, <2>3 DEF AttachWrites
    <3>2. Exact(x)
      BY <1>1, <1>14, <2>1, <3>1 DEF Sound
    <3>3. QED
      BY <1>2, <1>11, <3>2, ExactSame
  <2>4. QED
    BY <2>2, <2>3
<1>15. Sound'
  BY <1>14 DEF Sound
<1>16. QED
  BY <1>7, <1>8, <1>9, <1>10, <1>13, <1>15 DEF IndexInv

\* A commit leaves what its writer does not touch,
LEMMA CommitLeaves ==
  ASSUME IndexShape, NEW w \in Scribes, CommitIndex(w), NEW x \in Things, ~Touches(w, x)
  PROVE  SameData(x)
<1>1. WriterRows(w)
  BY DEF IndexShape
<1>2. /\ ftsRows' = (ftsRows \ work[w].gone) \cup work[w].new
      /\ wording' = IF crew[w] = "edit" THEN wording + 1 ELSE wording
      /\ quoted' = quoted \ work[w].blanked
      /\ scripts' = (scripts \ work[w].purged) \cup (IF crew[w] = "paste" THEN {w} ELSE {})
  BY DEF CommitIndex
<1>3. RowsIn(x)' = RowsIn(x)
  <2>1. \A row \in work[w].gone \cup work[w].new : ThingOf(row) # x
    BY <1>1 DEF WriterRows
  <2>2. QED
    BY <1>2, <2>1 DEF RowsIn
<1>4. x = "insight" => crew[w] = "paste"
  BY Courses
<1>5. x = "transcripts" => crew[w] \notin {"paste", "purge"}
  BY Courses
<1>6. crew[w] # "purge" => quoted' = quoted /\ scripts \ work[w].purged = scripts
  BY <1>1, <1>2 DEF WriterRows
<1>7. QED
  BY <1>2, <1>3, <1>4, <1>5, <1>6 DEF SameData

\* and leaves one row for each that it does.
LEMMA CommitFinds ==
  ASSUME IndexInv, NEW w \in Scribes, CommitIndex(w), NEW x \in Things, Touches(w, x),
         crew[w] = "paste" => Exact(x), crew[w] # "paste" => Undisturbed(w, x)
  PROVE  Exact(x)'
<1>1. IndexShape /\ AllPrepared /\ WriterShape(w) /\ WriterRows(w)
  BY DEF IndexInv, IndexShape
<1>2. /\ work[w].at = "commit" /\ crew' = crew /\ Scribes' = Scribes
      /\ ftsRows' = (ftsRows \ work[w].gone) \cup work[w].new
      /\ wording' = IF crew[w] = "edit" THEN wording + 1 ELSE wording
      /\ quoted' = quoted \ work[w].blanked
      /\ scripts' = (scripts \ work[w].purged) \cup (IF crew[w] = "paste" THEN {w} ELSE {})
  BY DEF CommitIndex, Scribes
<1>3. RowsIn(x)' = (RowsIn(x) \ work[w].gone) \cup NewOf(w, x)
  BY <1>2 DEF RowsIn, NewOf
<1>4. w # "insight" /\ crew[w] \in Jobs
  BY <1>1, SearchIndexAssumption, Courses DEF IndexShape, Scribes
<1>5. CASE crew[w] = "paste"
  <2>1. x = "transcripts"
    BY <1>1, <1>5, Courses DEF Things
  <2>2. /\ w \notin scripts /\ work[w].new = {Row(w, <<>>, w)} /\ (\A row \in work[w].gone : row.of = w)
        /\ work[w].purged = {}
    BY <1>1, <1>2, <1>5 DEF WriterRows
  <2>3. {row.of : row \in RowsIn(x)} = scripts /\ (\A r1, r2 \in RowsIn(x) : r1.of = r2.of => r1 = r2)
    BY <1>5, <2>1 DEF Exact
  <2>4. Row(w, <<>>, w).of = w
    BY DEF Row
  <2>5. NewOf(w, x) = {Row(w, <<>>, w)}
    BY <1>4, <2>1, <2>2, <2>4 DEF NewOf, ThingOf
  <2>6. \A row \in RowsIn(x) : row.of # w
    BY <2>2, <2>3
  <2>7. RowsIn(x)' = RowsIn(x) \cup {Row(w, <<>>, w)} /\ scripts' = scripts \cup {w}
    BY <1>2, <1>3, <1>5, <2>2, <2>5, <2>6
  <2>8. {row.of : row \in RowsIn(x)'} = scripts'
    BY <2>3, <2>4, <2>7
  <2>9. \A r1, r2 \in RowsIn(x)' : r1.of = r2.of => r1 = r2
    BY <2>3, <2>4, <2>6, <2>7
  <2>10. QED
    BY <2>1, <2>8, <2>9 DEF Exact
<1>6. CASE crew[w] # "paste"
  <2>1. Prepared(w, x)
    BY <1>1, <1>6 DEF AllPrepared
  <2>2. Cleared(w, x) /\ Written(w, x)
    BY <1>2 DEF Cleared, Written
  <2>3. RowsIn(x)' = Fresh(w, x)
    <3>1. CASE crew[w] = "attach"
      <4>1. RowsIn(x) = Fresh(w, x) /\ work[w].gone = {} /\ work[w].new = {}
        BY <1>1, <1>2, <2>1, <3>1 DEF Prepared, WriterRows
      <4>2. QED
        BY <1>3, <4>1 DEF NewOf
    <3>2. CASE crew[w] # "attach"
      BY <1>3, <2>1, <2>2, <3>2 DEF Prepared
    <3>3. QED
      BY <3>1, <3>2
  <2>4. CASE x = "insight"
    <3>1. TextNow(w) = <<wording', quoted'>>
      BY <1>2 DEF TextNow
    <3>2. QED
      BY <1>2, <2>3, <2>4, <3>1 DEF Exact, Fresh
  <2>5. CASE x = "transcripts"
    <3>1. crew[w] \in {"purge", "rebuild"}
      BY <1>1, <1>6, <2>5, Courses DEF Things
    <3>2. CASE crew[w] = "purge"
      <4>1. RowsIn(x)' = {} /\ scripts' = {}
        BY <1>2, <2>1, <2>3, <2>5, <3>2 DEF Fresh, Prepared
      <4>2. QED
        BY <2>5, <4>1 DEF Exact
    <3>3. CASE crew[w] = "rebuild"
      <4>1. RowsIn(x)' = {Row(t, <<>>, w) : t \in scripts}
        BY <2>3, <2>5, <3>3 DEF Fresh
      <4>2. scripts' = scripts
        BY <1>1, <1>2, <3>3 DEF WriterRows
      <4>3. \A t \in scripts : Row(t, <<>>, w).of = t
        BY DEF Row
      <4>4. {row.of : row \in RowsIn(x)'} = scripts'
        BY <4>1, <4>2, <4>3
      <4>5. \A r1, r2 \in RowsIn(x)' : r1.of = r2.of => r1 = r2
        BY <4>1, <4>3
      <4>6. QED
        BY <2>5, <4>4, <4>5 DEF Exact
    <3>4. QED
      BY <3>1, <3>2, <3>3
  <2>6. QED
    BY <2>4, <2>5 DEF Things
<1>7. QED
  BY <1>5, <1>6

\* What a writer that is alone commits is exact.
LEMMA IndexCommitKeeps ==
  ASSUME IndexInv, NEW w \in Scribes, CommitIndex(w)
  PROVE  IndexInv'
<1>1. IndexShape /\ OneEdit /\ Apart /\ AloneIs /\ AllPrepared /\ Sound
  BY DEF IndexInv
<1>2. /\ work[w].at = "commit" /\ Writing(w) /\ WriterEnds(w) /\ crew' = crew
      /\ scripts' = (scripts \ work[w].purged) \cup (IF crew[w] = "paste" THEN {w} ELSE {})
      /\ torn' = IF work[w].alone /\ crew[w] # "paste" THEN {x \in torn : ~Touches(w, x)} ELSE torn
  BY DEF CommitIndex, Writing
<1>3. \A v \in Scribes \ {w} : v \in scripts' => v \in scripts
  BY <1>2
<1>4. Scribes' = Scribes /\ work' = [v \in Scribes |-> work'[v]] /\ WriterShape(w)' /\ WriterRows(w)' /\ ~Writing(w)'
  BY <1>1, <1>2, <1>3, EndLeaves
<1>5. \A v \in Scribes \ {w} : /\ SameTask(v) /\ work'[v].alone = work[v].alone
                               /\ Writing(v)' <=> Writing(v)
                               /\ WriterShape(v)' /\ WriterRows(v)'
  BY <1>1, <1>2, <1>3, EndLeaves
<1>6. \A v, x : Touches(v, x)' <=> Touches(v, x)
  BY <1>2 DEF Touches
<1>7. torn' \subseteq torn
  BY <1>2
\* Whoever writes what the commit put right was not alone with it.
<1>8. ASSUME NEW x \in Things, NEW v \in Scribes \ {w}, Writing(v), Touches(v, x), x \notin torn'
      PROVE  x \notin torn
  <2>1. SUFFICES ASSUME x \in torn PROVE FALSE
    OBVIOUS
  <2>2. work[w].alone /\ crew[w] # "paste" /\ Touches(w, x)
    BY <1>2, <1>8, <2>1
  <2>3. QED
    BY <1>1, <1>2, <1>8, <2>2 DEF AloneIs
<1>9. IndexShape'
  <2>1. \A v \in Scribes' : WriterShape(v)' /\ WriterRows(v)'
    BY <1>4, <1>5
  <2>2. work' = [v \in Scribes' |-> work'[v]]
    BY <1>4
  <2>3. scripts' \subseteq Scribes' \cup {"first"}
    BY <1>1, <1>2, <1>4 DEF IndexShape
  <2>4. IsFiniteSet(scripts')
    <3>1. IsFiniteSet(scripts \ work[w].purged)
      BY <1>1, FS_Difference DEF IndexShape
    <3>2. IsFiniteSet({w}) /\ IsFiniteSet({})
      BY FS_Singleton, FS_EmptySet
    <3>3. QED
      BY <1>2, <3>1, <3>2, FS_Union
  <2>5. QED
    BY <1>1, <1>2, <1>4, <1>7, <2>1, <2>2, <2>3, <2>4 DEF IndexShape
<1>10. OneEdit'
  BY <1>1, <1>2, <1>4, <1>5 DEF OneEdit
<1>11. Apart'
  <2>1. SUFFICES ASSUME NEW v \in Scribes, NEW u \in Scribes, NEW x \in Things \ torn',
                        v # u, Writing(v)', Writing(u)', Touches(v, x), Touches(u, x)
                 PROVE  crew[v] = "paste" /\ crew[u] = "paste"
    BY <1>2, <1>4, <1>6 DEF Apart
  <2>2. v # w /\ u # w
    BY <1>4, <2>1
  <2>3. Writing(v) /\ Writing(u) /\ x \notin torn
    BY <1>5, <1>8, <2>1, <2>2
  <2>4. QED
    BY <1>1, <2>1, <2>3 DEF Apart
<1>12. AloneIs'
  BY <1>1, <1>2, <1>4, <1>5, <1>6 DEF AloneIs
<1>13. ASSUME NEW v \in Scribes, NEW x \in Things, Undisturbed(v, x)' PROVE Prepared(v, x)'
  <2>1. v # w
    BY <1>4, <1>13 DEF Undisturbed
  <2>2. Undisturbed(v, x)
    BY <1>2, <1>5, <1>6, <1>8, <1>13, <2>1 DEF Undisturbed
  <2>3. ~Touches(w, x)
    BY <1>1, <1>2, <2>1, <2>2, SoleWriter
  <2>4. SameData(x)
    BY <1>1, <2>3, CommitLeaves
  <2>5. Prepared(v, x)
    BY <1>1, <2>2 DEF AllPrepared
  <2>6. QED
    BY <1>2, <1>5, <2>1, <2>4, <2>5, PreparedSame
<1>14. AllPrepared'
  BY <1>4, <1>13 DEF AllPrepared
<1>15. ASSUME NEW x \in Things, x \notin torn', ~(x = "insight" /\ AttachWrites') PROVE Exact(x)'
  <2>1. ASSUME x \notin torn, crew[w] # "attach" PROVE Exact(x)
    <3>1. x = "insight" /\ AttachWrites => AttachWrites'
      BY <1>2, <1>4, <1>5, <2>1 DEF AttachWrites
    <3>2. QED
      BY <1>1, <1>15, <2>1, <3>1 DEF Sound
  <2>2. CASE Touches(w, x)
    <3>1. crew[w] # "paste" => Undisturbed(w, x)
      BY <1>2, <1>15, <2>2 DEF Undisturbed
    <3>2. crew[w] = "paste" => Exact(x)
      BY <1>2, <1>15, <2>1
    <3>3. QED
      BY <2>2, <3>1, <3>2, CommitFinds
  <2>3. CASE ~Touches(w, x)
    <3>1. x \notin torn
      BY <1>2, <1>15, <2>3
    <3>2. crew[w] = "attach" => x # "insight"
      BY <1>1, <2>3, Courses
    <3>3. x = "insight" /\ AttachWrites => AttachWrites'
      BY <1>2, <1>4, <1>5, <3>2 DEF AttachWrites
    <3>4. Exact(x)
      BY <1>1, <1>15, <3>1, <3>3 DEF Sound
    <3>5. SameData(x)
      BY <1>1, <2>3, CommitLeaves
    <3>6. QED
      BY <1>2, <3>4, <3>5, ExactSame
  <2>4. QED
    BY <2>2, <2>3
<1>16. Sound'
  BY <1>15 DEF Sound
<1>17. QED
  BY <1>9, <1>10, <1>11, <1>12, <1>14, <1>16 DEF IndexInv

----------------------------------------------------------------------------

\* Initially the index is exact.
LEMMA IndexBegins ==
  ASSUME IndexInit
  PROVE  IndexInv
<1>1. /\ crew \in Crews /\ wording = 0 /\ quoted = {"first"} /\ scripts = {"first"} /\ torn = {}
      /\ ftsRows = {Row("insight", <<0, {"first"}>>, "first"), Row("first", <<>>, "first")}
      /\ work = [w \in Scribes |-> IdleWriter]
  BY DEF IndexInit, Scribes
<1>2. \A w \in Scribes : work[w] = IdleWriter
  BY <1>1
<1>3. DOMAIN IdleWriter = Fields /\ IdleWriter.at = "idle" /\ IdleWriter.on = 1
      /\ IdleWriter.saw = {} /\ IdleWriter.gone = {} /\ IdleWriter.new = {}
      /\ IdleWriter.purged = {} /\ IdleWriter.blanked = {} /\ IdleWriter.alone = FALSE
  BY DEF IdleWriter, Fields
<1>4. "first" \notin Scribes /\ "first" # "insight"
  BY <1>1, SearchIndexAssumption DEF Scribes
<1>5. IndexShape
  <2>1. ASSUME NEW w \in Scribes PROVE WriterShape(w) /\ WriterRows(w)
    <3>1. \A x : NewOf(w, x) = {}
      BY <1>2, <1>3 DEF NewOf
    <3>2. WriterShape(w)
      <4>1. work[w].alone \in BOOLEAN
        BY <1>2, <1>3
      <4>2. QED
        BY <1>2, <1>3, <4>1 DEF WriterShape, Places
    <3>3. WriterRows(w)
      BY <1>1, <1>2, <1>3, <1>4, <3>1 DEF WriterRows
    <3>4. QED
      BY <3>2, <3>3
  <2>2. IsFiniteSet({"first"})
    BY FS_Singleton
  <2>3. work = [w \in Scribes |-> work[w]]
    BY <1>1, <1>2
  <2>4. QED
    BY <1>1, <2>1, <2>2, <2>3 DEF IndexShape
<1>6. \A w \in Scribes : ~Writing(w)
  BY <1>2, <1>3 DEF Writing
<1>7. OneEdit /\ Apart /\ AloneIs /\ AllPrepared
  BY <1>6 DEF OneEdit, Apart, AloneIs, AllPrepared, Undisturbed
<1>8. Exact("insight")
  <2>1. RowsIn("insight") = {Row("insight", <<0, {"first"}>>, "first")}
    BY <1>1, <1>4 DEF RowsIn, ThingOf, Row
  <2>2. QED
    BY <1>1, <2>1 DEF Exact
<1>9. Exact("transcripts")
  <2>1. RowsIn("transcripts") = {Row("first", <<>>, "first")}
    BY <1>1, <1>4 DEF RowsIn, ThingOf, Row
  <2>2. Row("first", <<>>, "first").of = "first"
    BY DEF Row
  <2>3. QED
    BY <1>1, <2>1, <2>2 DEF Exact
<1>10. Sound
  BY <1>8, <1>9 DEF Sound, Things
<1>11. QED
  BY <1>5, <1>7, <1>10 DEF IndexInv

\* And where nothing changes.
LEMMA IndexStaysStill ==
  ASSUME IndexInv, UNCHANGED indexVars
  PROVE  IndexInv'
<1>1. /\ crew' = crew /\ wording' = wording /\ quoted' = quoted /\ scripts' = scripts
      /\ ftsRows' = ftsRows /\ work' = work /\ torn' = torn
  BY DEF indexVars
<1>2. Scribes' = Scribes /\ (\A v : SameTask(v)) /\ (\A v, x : Touches(v, x)' <=> Touches(v, x))
      /\ (\A v : Writing(v)' <=> Writing(v))
  BY <1>1 DEF Scribes, SameTask, Touches, Writing
<1>3. \A x \in Things : SameData(x)
  BY <1>1 DEF SameData, RowsIn
<1>4. IndexShape /\ OneEdit /\ Apart /\ AloneIs /\ AllPrepared /\ Sound
  BY DEF IndexInv
<1>5. IndexShape'
  <2>1. ASSUME NEW w \in Scribes PROVE WriterShape(w)' /\ WriterRows(w)'
    <3>1. WriterShape(w) /\ WriterRows(w) /\ work[w].alone \in BOOLEAN
      BY <1>4 DEF IndexShape, WriterShape
    <3>2. QED
      BY <1>1, <1>2, <3>1, RowsSame
  <2>2. QED
    BY <1>1, <1>2, <1>4, <2>1 DEF IndexShape
<1>6. OneEdit' /\ Apart' /\ AloneIs'
  BY <1>1, <1>2, <1>4 DEF OneEdit, Apart, AloneIs
<1>7. ASSUME NEW v \in Scribes, NEW x \in Things, Undisturbed(v, x)' PROVE Prepared(v, x)'
  <2>1. Undisturbed(v, x)
    BY <1>1, <1>2, <1>7 DEF Undisturbed
  <2>2. Prepared(v, x)
    BY <1>4, <2>1 DEF AllPrepared
  <2>3. QED
    BY <1>1, <1>2, <1>3, <2>2, PreparedSame
<1>8. AllPrepared'
  BY <1>2, <1>7 DEF AllPrepared
<1>9. Sound'
  <2>1. AttachWrites' <=> AttachWrites
    BY <1>1, <1>2 DEF AttachWrites
  <2>2. ASSUME NEW x \in Things, x \notin torn', ~(x = "insight" /\ AttachWrites') PROVE Exact(x)'
    <3>1. Exact(x)
      BY <1>1, <1>4, <2>1, <2>2 DEF Sound
    <3>2. QED
      BY <1>1, <1>3, <3>1, ExactSame
  <2>3. QED
    BY <2>2 DEF Sound
<1>10. QED
  BY <1>5, <1>6, <1>8, <1>9 DEF IndexInv

\* No step of any writer breaks the invariant.
LEMMA IndexStep == IndexInv /\ [IndexNext]_indexVars => IndexInv'
<1>1. SUFFICES ASSUME IndexInv, [IndexNext]_indexVars PROVE IndexInv'
  OBVIOUS
<1>2. CASE UNCHANGED indexVars
  BY <1>1, <1>2, IndexStaysStill
<1>3. ASSUME NEW w \in Scribes,
             \/ Edit(w) \/ Attach(w) \/ AddTranscript(w) \/ PurgeBegins(w) \/ Rebuild(w)
             \/ DeleteSees(w) \/ DeleteEnds(w) \/ MarkQuotes(w) \/ ReadText(w) \/ InsertText(w)
             \/ CopyRows(w) \/ CommitIndex(w) \/ WriterFails(w)
      PROVE  IndexInv'
  BY <1>1, <1>3, BeginningsKeep, StatementsKeep, IndexCommitKeeps, FailureKeeps
<1>4. QED
  BY <1>1, <1>2, <1>3 DEF IndexNext, Scribes

\* What IndexFollows rests on holds whatever statements of whatever writers interleave
\* (the statements commit one by one).
THEOREM IndexInvariance == IndexSpec => []IndexInv
<1>1. IndexInit => IndexInv
  BY IndexBegins
<1>2. IndexInv /\ [IndexNext]_indexVars => IndexInv'
  BY IndexStep
<1>3. QED
  BY <1>1, <1>2, PTL DEF IndexSpec

\* Rows of different transcripts, one each, are as many as the transcripts.
LEMMA OneEach ==
  ASSUME NEW S, IsFiniteSet(S), NEW rows, {row.of : row \in rows} = S,
         \A r1, r2 \in rows : r1.of = r2.of => r1 = r2
  PROVE  Cardinality(rows) = Cardinality(S)
<1> DEFINE f == [row \in rows |-> row.of]
<1>1. f \in Injection(rows, S)
  BY DEF Injection, IsInjective
<1>2. f \in Surjection(rows, S)
  BY DEF Surjection
<1>3. QED
  BY <1>1, <1>2, FS_Injection

\* A search finds one row for the insight, of its present wording and quotes, and one for
\* each transcript, unless writers that hold nothing in common overlapped and none has
\* run alone since (extract/pipeline.ts:680), for any number of writers.
THEOREM IndexAlwaysFollows == IndexSpec => []IndexFollows
<1>1. IndexInv => IndexFollows
  <2>1. SUFFICES ASSUME IndexInv PROVE IndexFollows
    OBVIOUS
  <2>2. IndexShape /\ Sound
    BY <2>1 DEF IndexInv
  <2>3. \/ "insight" \in torn
        \/ \E w \in DOMAIN crew : Writing(w) /\ Touches(w, "insight")
        \/ \E w \in DOMAIN crew \cup {"first"} :
             {row \in ftsRows : row.of = "insight"} = {Row("insight", <<wording, quoted>>, w)}
    <3>1. SUFFICES ASSUME "insight" \notin torn, ~\E w \in DOMAIN crew : Writing(w) /\ Touches(w, "insight")
                   PROVE  \E w \in DOMAIN crew \cup {"first"} :
                            {row \in ftsRows : row.of = "insight"} = {Row("insight", <<wording, quoted>>, w)}
      OBVIOUS
    <3>2. ~AttachWrites
      BY <2>2, <3>1, Courses DEF AttachWrites, Scribes
    <3>3. Exact("insight")
      BY <2>2, <3>1, <3>2 DEF Sound, Things
    <3>4. RowsIn("insight") = {row \in ftsRows : row.of = "insight"}
      BY DEF RowsIn, ThingOf
    <3>5. QED
      BY <3>3, <3>4 DEF Exact, Scribes
  <2>4. \/ "transcripts" \in torn
        \/ \E w \in DOMAIN crew : Writing(w) /\ Touches(w, "transcripts")
        \/ LET rows == {row \in ftsRows : row.of # "insight"} IN
           {row.of : row \in rows} = scripts /\ Cardinality(rows) = Cardinality(scripts)
    <3> DEFINE rows == {row \in ftsRows : row.of # "insight"}
    <3>1. SUFFICES ASSUME "transcripts" \notin torn
                   PROVE  {row.of : row \in rows} = scripts /\ Cardinality(rows) = Cardinality(scripts)
      OBVIOUS
    <3>2. Exact("transcripts")
      BY <2>2, <3>1 DEF Sound, Things
    <3>3. RowsIn("transcripts") = rows
      BY DEF RowsIn, ThingOf
    <3>4. {row.of : row \in rows} = scripts /\ (\A r1, r2 \in rows : r1.of = r2.of => r1 = r2)
      BY <3>2, <3>3 DEF Exact
    <3>5. IsFiniteSet(scripts)
      BY <2>2 DEF IndexShape
    <3> HIDE DEF rows
    <3>6. QED
      BY <3>4, <3>5, OneEach
  <2>5. QED
    BY <2>3, <2>4 DEF IndexFollows
<1>2. QED
  BY <1>1, IndexInvariance, PTL

----------------------------------------------------------------------------
(*****************************************************************************)
(* Wording.  A save or a check that the server took names the version its    *)
(* author was shown, so an editor must name it (VersionsAreRead), and so     *)
(* must the save on its way (SavesAreRead); and what was found not to be     *)
(* blank has not been blanked since, at that version (ChecksHold).           *)
(*****************************************************************************)

RecordRow == [version : Nat, empty : BOOLEAN, locked : BOOLEAN]
EditorRecord == [up : {"loading", "shown", "error"}, empty : BOOLEAN, version : Nat,
                 dirty : BOOLEAN, stored : Nat, locked : BOOLEAN, seen : Nat]
RequestRecord == [at : {"none", "save", "saved", "refused", "check", "finalize", "done"},
                  then : {"none", "nothing", "finalize"}, version : Nat, empty : BOOLEAN,
                  seen : Nat, hasty : BOOLEAN]
SnapshotRecord == [version : Nat, locked : BOOLEAN]

WordingShape ==
  /\ record \in RecordRow
  /\ ed \in [Editors -> EditorRecord]
  /\ loads \in [Editors -> SUBSET SnapshotRecord]
  /\ req \in [Editors -> RequestRecord]

\* An editor names the version its author was shown, but for a panel that has taken
\* the server's and is about to show it.
VersionsAreRead ==
  \A e \in Editors :
    \/ ed[e].version = ed[e].seen
    \/ e \notin Pages /\ (loads[e] # {} \/ ed[e].up # "shown")

\* So does a save, unless it was pressed while the editor was loading.
SavesAreRead ==
  \A e \in Editors : req[e].at = "save" => req[e].version = req[e].seen \/ req[e].hasty

\* What was checked before finalizing was not blank.
ChecksHold ==
  \A e \in Editors : req[e].at = "finalize" =>
    /\ req[e].seen <= record.version
    /\ req[e].seen = record.version => ~record.empty

WordingInv ==
  WordingShape /\ VersionsAreRead /\ SavesAreRead /\ ChecksHold /\ WordingKept

----------------------------------------------------------------------------
\* Initially nobody has loaded anything.
LEMMA WordingStarts == WordingInit => WordingInv
<1> SUFFICES ASSUME WordingInit PROVE WordingInv
  OBVIOUS
<1> USE DEF WordingInit
<1>1. WordingShape
  BY DEF WordingShape, RecordRow, EditorRecord, RequestRecord, Blank, NoReq
<1>2. VersionsAreRead /\ SavesAreRead /\ ChecksHold
  BY DEF VersionsAreRead, SavesAreRead, ChecksHold, Blank, NoReq
<1>3. WordingKept
  BY DEF WordingKept, BlindOnlyWhileLoading, BlankOnlyByRace
<1> QED
  BY <1>1, <1>2, <1>3 DEF WordingInv

\* The record of a request that is not there.
LEMMA NoReqFits == NoReq \in RequestRecord /\ NoReq.at = "none"
BY DEF NoReq, RequestRecord

\* An editor's step that writes nothing on the server.
LEMMA WordingInert ==
  ASSUME WordingInv, NEW e \in Editors,
         record' = record, blind' = blind, sealed' = sealed,
         ed' \in [Editors -> EditorRecord], loads' \in [Editors -> SUBSET SnapshotRecord],
         req' \in [Editors -> RequestRecord],
         \A d \in Editors : d # e => ed'[d] = ed[d] /\ loads'[d] = loads[d] /\ req'[d] = req[d],
         \/ ed'[e].version = ed'[e].seen
         \/ e \notin Pages /\ (loads'[e] # {} \/ ed'[e].up # "shown"),
         req'[e].at = "save" => req'[e].version = req'[e].seen \/ req'[e].hasty,
         req'[e].at = "finalize" =>
           /\ req'[e].seen <= record.version
           /\ req'[e].seen = record.version => ~record.empty
  PROVE  WordingInv'
<1>1. WordingShape'
  BY DEF WordingInv, WordingShape
<1>2. VersionsAreRead'
  BY DEF WordingInv, VersionsAreRead
<1>3. SavesAreRead'
  BY DEF WordingInv, SavesAreRead
<1>4. ChecksHold'
  BY DEF WordingInv, ChecksHold
<1>5. WordingKept'
  BY DEF WordingInv, WordingKept, BlindOnlyWhileLoading, BlankOnlyByRace
<1> QED
  BY <1>1, <1>2, <1>3, <1>4, <1>5 DEF WordingInv

\* The types of an editor's fields.
LEMMA WordingNow ==
  ASSUME WordingInv, NEW e \in Editors
  PROVE  /\ record \in RecordRow /\ ed[e] \in EditorRecord /\ req[e] \in RequestRecord
         /\ ed \in [Editors -> EditorRecord] /\ req \in [Editors -> RequestRecord]
         /\ loads \in [Editors -> SUBSET SnapshotRecord]
         /\ Snapshot \in SnapshotRecord
         /\ record.version \in Nat
         /\ ed[e].version = ed[e].seen \/ (e \notin Pages /\ (loads[e] # {} \/ ed[e].up # "shown"))
         /\ req[e].at = "save" => req[e].version = req[e].seen \/ req[e].hasty
         /\ req[e].at = "finalize" => /\ req[e].seen <= record.version
                                      /\ req[e].seen = record.version => ~record.empty
BY DEF WordingInv, WordingShape, VersionsAreRead, SavesAreRead, ChecksHold, Snapshot,
       SnapshotRecord, RecordRow

\* A load brings the version of the moment.
LEMMA LoadForFits ==
  ASSUME WordingInv, NEW e \in Editors, LoadFor(e)
  PROVE  /\ loads' \in [Editors -> SUBSET SnapshotRecord] /\ loads'[e] # {}
         /\ \A d \in Editors : d # e => loads'[d] = loads[d]
<1>1. loads \in [Editors -> SUBSET SnapshotRecord] /\ Snapshot \in SnapshotRecord
  BY WordingNow
<1>2. loads' = [loads EXCEPT ![e] = loads[e] \cup {Snapshot}]
  BY <1>1 DEF LoadFor
<1> QED
  BY <1>1, <1>2

\* An editor that asks for a load keeps its text and its versions.
LEMMA AskingFits ==
  ASSUME WordingInv, NEW e \in Editors
  PROVE  /\ Asking(e) \in EditorRecord
         /\ Asking(e).version = ed[e].version /\ Asking(e).seen = ed[e].seen
         /\ Asking(e).stored = ed[e].stored
         /\ Asking(e).up = "shown" => ed[e].up = "shown" \/ ed[e].stored # 0
<1>1. ed[e] \in EditorRecord
  BY WordingNow
<1> DEFINE up == IF ed[e].up # "error" THEN ed[e].up
                 ELSE IF ed[e].stored = 0 THEN "loading" ELSE "shown"
           asks == [ed[e] EXCEPT !.up = up]
<1>2. Asking(e) = asks
  BY <1>1 DEF Asking, EditorRecord
<1>3. /\ up \in {"loading", "shown", "error"}
      /\ up = "shown" => ed[e].up = "shown" \/ ed[e].stored # 0
  BY <1>1 DEF EditorRecord
<1> HIDE DEF up
<1>4. /\ asks \in EditorRecord /\ asks.version = ed[e].version /\ asks.seen = ed[e].seen
      /\ asks.stored = ed[e].stored /\ asks.up = up
  BY <1>1, <1>3 DEF EditorRecord
<1> HIDE DEF asks
<1> QED
  BY <1>2, <1>3, <1>4

\* A load leaves, and nothing else of an editor changes.
LEMMA AskingKeeps ==
  ASSUME WordingInv, NEW e \in Editors, LoadFor(e), ed' = [ed EXCEPT ![e] = Asking(e)],
         req' = req \/ ReqEnds(e), record' = record, blind' = blind, sealed' = sealed
  PROVE  WordingInv'
<1>1. /\ ed' \in [Editors -> EditorRecord] /\ \A d \in Editors : d # e => ed'[d] = ed[d]
      /\ ed'[e].version = ed[e].version /\ ed'[e].seen = ed[e].seen
  BY AskingFits, WordingNow
<1>2. /\ req' \in [Editors -> RequestRecord] /\ \A d \in Editors : d # e => req'[d] = req[d]
      /\ req'[e] = req[e] \/ req'[e].at = "none"
  BY NoReqFits, WordingNow DEF ReqEnds
<1> QED
  BY <1>1, <1>2, WordingNow, LoadForFits, WordingInert

\* A load is asked for.
LEMMA LoadKeeps == ASSUME WordingInv, NEW e \in Editors, Load(e) PROVE WordingInv'
  BY AskingKeeps DEF Load

\* The page of an insight takes in what it loaded.
LEMMA PageLoadedKeeps ==
  ASSUME WordingInv, NEW e \in Editors, NEW s, PageLoaded(e, s) PROVE WordingInv'
<1>1. /\ e \in Pages /\ s \in loads[e] /\ s \in SnapshotRecord
      /\ loads' = [loads EXCEPT ![e] = @ \ {s}] /\ req' = req /\ record' = record
      /\ blind' = blind /\ sealed' = sealed
  BY WordingNow DEF PageLoaded
<1>2. PICK q \in EditorRecord : ed' = [ed EXCEPT ![e] = q] /\ q.version = q.seen
  <2> DEFINE kept == [ed[e] EXCEPT !.up = "shown", !.stored = s.version, !.locked = s.locked]
             q == IF ed[e].up # "shown" \/ (~ed[e].dirty /\ s.version # ed[e].stored)
                  THEN [kept EXCEPT !.version = s.version, !.seen = s.version, !.dirty = FALSE]
                  ELSE kept
  <2>1. ed' = [ed EXCEPT ![e] = q]
    BY WordingNow DEF PageLoaded
  <2>2. q \in EditorRecord /\ q.version = q.seen
    BY <1>1, WordingNow DEF EditorRecord, SnapshotRecord
  <2> HIDE DEF q
  <2> QED
    BY <2>1, <2>2
<1> QED
  BY <1>1, <1>2, WordingNow, WordingInert

\* The panel takes in what it loaded.
LEMMA PanelLoadedKeeps ==
  ASSUME WordingInv, NEW e \in Editors, NEW s, PanelLoaded(e, s) PROVE WordingInv'
<1>1. /\ s \in loads[e] /\ s \in SnapshotRecord
      /\ loads' = [loads EXCEPT ![e] = @ \ {s}] /\ req' = req /\ record' = record
      /\ blind' = blind /\ sealed' = sealed
  BY WordingNow DEF PanelLoaded
<1>2. PICK q \in EditorRecord : ed' = [ed EXCEPT ![e] = q] /\ q.version = q.seen
  <2> DEFINE q == [ed[e] EXCEPT !.up = "shown", !.version = s.version,
                !.stored = s.version, !.seen = s.version, !.dirty = FALSE, !.locked = s.locked]
  <2>1. ed' = [ed EXCEPT ![e] = q]
    BY DEF PanelLoaded
  <2>2. q \in EditorRecord /\ q.version = q.seen
    BY <1>1, WordingNow DEF EditorRecord, SnapshotRecord
  <2> HIDE DEF q
  <2> QED
    BY <2>1, <2>2
<1> QED
  BY <1>1, <1>2, WordingNow, WordingInert

\* A load that fails changes no text.
LEMMA LoadFailsKeeps ==
  ASSUME WordingInv, NEW e \in Editors, NEW s, LoadFails(e, s) PROVE WordingInv'
<1>1. /\ s \in loads[e]
      /\ loads' = [loads EXCEPT ![e] = @ \ {s}] /\ req' = req /\ record' = record
      /\ blind' = blind /\ sealed' = sealed
  BY WordingNow DEF LoadFails
<1>2. PICK q \in EditorRecord : /\ ed' = [ed EXCEPT ![e] = q]
                                /\ q.version = ed[e].version /\ q.seen = ed[e].seen
                                /\ e \notin Pages => q.up = "error"
  <2> DEFINE q == [ed[e] EXCEPT !.up = IF e \in Panels \/ ed[e].up = "loading" THEN "error" ELSE ed[e].up]
  <2>1. ed' = [ed EXCEPT ![e] = q]
    BY WordingNow DEF LoadFails
  <2>2. /\ q \in EditorRecord /\ q.version = ed[e].version /\ q.seen = ed[e].seen
        /\ e \notin Pages => q.up = "error"
    BY WordingNow DEF EditorRecord, Editors
  <2> HIDE DEF q
  <2> QED
    BY <2>1, <2>2
<1> QED
  BY <1>1, <1>2, WordingNow, WordingInert

\* Typing changes no version.
LEMMA TypesKeep ==
  ASSUME WordingInv, NEW e \in Editors, TypeBack(e) \/ \E empty \in BOOLEAN : Type(e, empty)
  PROVE  WordingInv'
<1>1. /\ loads' = loads /\ req' = req /\ record' = record /\ blind' = blind /\ sealed' = sealed
  BY DEF TypeBack, Type
<1>2. PICK b, d \in BOOLEAN : ed' = [ed EXCEPT ![e].empty = b, ![e].dirty = d]
  BY DEF TypeBack, Type
<1>3. PICK q \in EditorRecord : /\ ed' = [ed EXCEPT ![e] = q]
                                /\ q.version = ed[e].version /\ q.seen = ed[e].seen
                                /\ q.up = ed[e].up
  <2> DEFINE q == [ed[e] EXCEPT !.empty = b, !.dirty = d]
  <2>1. ed' = [ed EXCEPT ![e] = q]
    BY <1>2, WordingNow
  <2>2. q \in EditorRecord /\ q.version = ed[e].version /\ q.seen = ed[e].seen /\ q.up = ed[e].up
    BY <1>2, WordingNow DEF EditorRecord
  <2> HIDE DEF q
  <2> QED
    BY <2>1, <2>2
<1> QED
  BY <1>1, <1>3, WordingNow, WordingInert

\* A save names the version that the editor was shown.
LEMMA PressSaveKeeps ==
  ASSUME WordingInv, NEW e \in Editors, NEW next \in {"nothing", "finalize"}, PressSave(e, next)
  PROVE  WordingInv'
<1>1. /\ loads' = loads /\ ed' = ed /\ record' = record /\ blind' = blind /\ sealed' = sealed
      /\ ed[e].up = "shown"
  BY DEF PressSave
<1>2. PICK q \in RequestRecord : /\ req' = [req EXCEPT ![e] = q] /\ q.at = "save"
                                 /\ q.version = ed[e].version /\ q.seen = ed[e].seen
                                 /\ q.hasty <=> loads[e] # {}
  <2> DEFINE q == [NoReq EXCEPT !.at = "save", !.then = next, !.version = ed[e].version,
                     !.empty = ed[e].empty, !.seen = ed[e].seen, !.hasty = loads[e] # {}]
  <2>1. req' = [req EXCEPT ![e] = q]
    BY DEF PressSave
  <2>2. /\ q \in RequestRecord /\ q.at = "save"
        /\ q.version = ed[e].version /\ q.seen = ed[e].seen
        /\ q.hasty <=> loads[e] # {}
    BY WordingNow DEF RequestRecord, EditorRecord, NoReq
  <2> HIDE DEF q
  <2> QED
    BY <2>1, <2>2
<1> QED
  BY <1>1, <1>2, WordingNow, WordingInert

\* The server takes a save of the version it has.
LEMMA SaveArrivesKeeps ==
  ASSUME WordingInv, NEW e \in Editors, SaveArrives(e) PROVE WordingInv'
<1>1. /\ loads' = loads /\ ed' = ed /\ sealed' = sealed /\ req[e].at = "save"
  BY DEF SaveArrives
<1>2. CASE record.version # req[e].version
  <2>1. PICK q \in RequestRecord : req' = [req EXCEPT ![e] = q] /\ q.at = "refused"
    <3> DEFINE q == [req[e] EXCEPT !.at = "refused", !.version = record.version]
    <3>1. req' = [req EXCEPT ![e] = q]
      BY <1>2, WordingNow DEF SaveArrives
    <3>2. q \in RequestRecord /\ q.at = "refused"
      BY WordingNow DEF RequestRecord
    <3> HIDE DEF q
    <3> QED
      BY <3>1, <3>2
  <2>2. record' = record /\ blind' = blind
    BY <1>2 DEF SaveArrives
  <2> QED
    BY <1>1, <2>1, <2>2, WordingNow, WordingInert
<1>3. CASE record.version = req[e].version
  <2>0. record \in RecordRow /\ record.version + 1 \in Nat /\ req[e] \in RequestRecord
    BY WordingNow
  <2>1. PICK q \in RequestRecord : req' = [req EXCEPT ![e] = q] /\ q.at = "saved"
    <3> DEFINE q == [req[e] EXCEPT !.at = "saved", !.version = record.version + 1]
    <3>1. req' = [req EXCEPT ![e] = q]
      BY <1>3, WordingNow DEF SaveArrives
    <3>2. q \in RequestRecord /\ q.at = "saved"
      BY <2>0 DEF RequestRecord
    <3> HIDE DEF q
    <3> QED
      BY <3>1, <3>2
  <2>2. /\ record' = [record EXCEPT !.version = record.version + 1, !.empty = req[e].empty]
        /\ blind' = IF req[e].seen # record.version THEN blind \cup {req[e].hasty} ELSE blind
    BY <1>3, WordingNow DEF SaveArrives
  <2>3. record' \in RecordRow /\ record'.version = record.version + 1
    BY <2>0, <2>2 DEF RecordRow, RequestRecord
  <2>4. blind' \subseteq {TRUE}
    <3>1. blind \subseteq {TRUE}
      BY DEF WordingInv, WordingKept, BlindOnlyWhileLoading
    <3>2. req[e].hasty \in BOOLEAN
      BY WordingNow DEF RequestRecord
    <3>3. CASE req[e].seen = record.version
      BY <2>2, <3>1, <3>3
    <3>4. CASE req[e].seen # record.version
      BY <1>1, <1>3, <2>2, <3>1, <3>2, <3>4, WordingNow
    <3> QED
      BY <3>3, <3>4
  <2>5. WordingShape'
    BY <1>1, <2>1, <2>3 DEF WordingInv, WordingShape
  <2>6. VersionsAreRead'
    BY <1>1 DEF WordingInv, VersionsAreRead
  <2>7. \A d \in Editors : req'[d].at \in {"save", "finalize"} => req'[d] = req[d]
    BY <2>1, WordingNow
  <2>8. SavesAreRead'
    BY <2>7 DEF WordingInv, SavesAreRead
  <2>9. ChecksHold'
    <3> SUFFICES ASSUME NEW d \in Editors, req'[d].at = "finalize"
                 PROVE  req'[d].seen <= record'.version /\ req'[d].seen # record'.version
      BY DEF ChecksHold
    <3>1. req'[d] = req[d] /\ req[d].seen <= record.version /\ req[d].seen \in Nat
      BY <2>7, WordingNow DEF RequestRecord
    <3> QED
      BY <2>3, <3>1, WordingNow
  <2>10. WordingKept'
    BY <1>1, <2>4 DEF WordingInv, WordingKept, BlindOnlyWhileLoading, BlankOnlyByRace
  <2> QED
    BY <2>5, <2>6, <2>8, <2>9, <2>10 DEF WordingInv
<1> QED
  BY <1>2, <1>3

\* The editor learns of its save.
LEMMA SavedKeeps ==
  ASSUME WordingInv, NEW e \in Editors, Saved(e) PROVE WordingInv'
<1>1. /\ record' = record /\ blind' = blind /\ sealed' = sealed
      /\ loads' = loads \/ LoadFor(e)
  BY DEF Saved
<1>2. PICK q \in EditorRecord : ed' = [ed EXCEPT ![e] = q] /\ q.version = q.seen
  <2> DEFINE n == req[e].version
             q == [ed[e] EXCEPT !.version = n, !.dirty = FALSE, !.empty = FALSE,
                     !.seen = n, !.stored = IF e \in Panels THEN n ELSE ed[e].stored]
  <2>1. ed' = [ed EXCEPT ![e] = q]
    BY WordingNow DEF Saved
  <2>2. q \in EditorRecord /\ q.version = q.seen
    BY WordingNow DEF EditorRecord, RequestRecord
  <2> HIDE DEF q
  <2> QED
    BY <2>1, <2>2
<1>3. PICK r \in RequestRecord : req' = [req EXCEPT ![e] = r] /\ r.at \in {"none", "check"}
  <2>1. [NoReq EXCEPT !.at = "check", !.then = "finalize"] \in RequestRecord
        /\ [NoReq EXCEPT !.at = "check", !.then = "finalize"].at = "check"
    BY DEF NoReq, RequestRecord
  <2>2. \/ req' = [req EXCEPT ![e] = [NoReq EXCEPT !.at = "check", !.then = "finalize"]]
        \/ req' = [req EXCEPT ![e] = NoReq]
    BY WordingNow DEF Saved
  <2> QED
    BY <2>1, <2>2, NoReqFits
<1>4. /\ loads' \in [Editors -> SUBSET SnapshotRecord]
      /\ \A d \in Editors : d # e => loads'[d] = loads[d]
  BY <1>1, WordingNow, LoadForFits
<1> QED
  BY <1>1, <1>2, <1>3, <1>4, WordingNow, WordingInert

\* A request that ends.
LEMMA EndsKeep ==
  ASSUME WordingInv, NEW e \in Editors, ReqEnds(e), record' = record, blind' = blind,
         sealed' = sealed, ed' = ed, loads' = loads
  PROVE  WordingInv'
<1>1. req' = [req EXCEPT ![e] = NoReq]
  BY DEF ReqEnds
<1> QED
  BY <1>1, NoReqFits, WordingNow, WordingInert

\* The editor learns that its save was refused.
LEMMA SaveRefusedKeeps ==
  ASSUME WordingInv, NEW e \in Editors, SaveRefused(e) PROVE WordingInv'
<1>1. CASE e \in Pages
  BY <1>1, EndsKeep DEF SaveRefused
<1>2. CASE e \notin Pages
  <2>1. /\ record' = record /\ blind' = blind /\ sealed' = sealed /\ LoadFor(e)
        /\ req' = [req EXCEPT ![e] = NoReq]
    BY <1>2 DEF SaveRefused, ReqEnds
  <2>2. PICK q \in EditorRecord : ed' = [ed EXCEPT ![e] = q]
    <3> DEFINE q == [Asking(e) EXCEPT !.version = req[e].version]
    <3>1. ed' = [ed EXCEPT ![e] = q]
      BY <1>2, WordingNow DEF SaveRefused
    <3>2. q \in EditorRecord
      BY AskingFits, WordingNow DEF EditorRecord, RequestRecord
    <3> HIDE DEF q
    <3> QED
      BY <3>1, <3>2
  <2> QED
    BY <1>2, <2>1, <2>2, LoadForFits, NoReqFits, WordingNow, WordingInert
<1> QED
  BY <1>1, <1>2

\* A finalization leaves.
LEMMA PressFinalizeKeeps ==
  ASSUME WordingInv, NEW e \in Editors, PressFinalize(e) PROVE WordingInv'
<1>1. /\ record' = record /\ blind' = blind /\ sealed' = sealed /\ ed' = ed /\ loads' = loads
      /\ req' = [req EXCEPT ![e] = [NoReq EXCEPT !.at = "check", !.then = "finalize"]]
  BY DEF PressFinalize
<1>2. [NoReq EXCEPT !.at = "check", !.then = "finalize"] \in RequestRecord
      /\ [NoReq EXCEPT !.at = "check", !.then = "finalize"].at = "check"
  BY DEF NoReq, RequestRecord
<1> QED
  BY <1>1, <1>2, WordingNow, WordingInert

\* The server finds the wording not blank, at the version it has.
LEMMA CheckWordingKeeps ==
  ASSUME WordingInv, NEW e \in Editors, CheckWording(e) PROVE WordingInv'
<1>1. /\ record' = record /\ blind' = blind /\ sealed' = sealed /\ ed' = ed /\ loads' = loads
  BY DEF CheckWording
<1>2. CASE record.empty
  BY <1>1, <1>2, EndsKeep DEF CheckWording
<1>3. CASE ~record.empty
  <2>1. PICK q \in RequestRecord : /\ req' = [req EXCEPT ![e] = q]
                                   /\ q.at = "finalize" /\ q.seen = record.version
    <3> DEFINE q == [req[e] EXCEPT !.at = "finalize", !.seen = record.version]
    <3>1. req' = [req EXCEPT ![e] = q]
      BY <1>3, WordingNow DEF CheckWording
    <3>2. q \in RequestRecord /\ q.at = "finalize" /\ q.seen = record.version
      BY WordingNow DEF RequestRecord
    <3> HIDE DEF q
    <3> QED
      BY <3>1, <3>2
  <2> QED
    BY <1>1, <1>3, <2>1, WordingNow, WordingInert
<1> QED
  BY <1>2, <1>3

\* The server seals the wording at the version it has.
LEMMA CommitFinalKeeps ==
  ASSUME WordingInv, NEW e \in Editors, CommitFinal(e) PROVE WordingInv'
<1>1. /\ blind' = blind /\ ed' = ed /\ loads' = loads /\ req[e].at = "finalize"
  BY DEF CommitFinal
<1>2. CASE record.locked
  BY <1>1, <1>2, EndsKeep DEF CommitFinal
<1>3. CASE ~record.locked
  <2>1. PICK q \in RequestRecord : req' = [req EXCEPT ![e] = q] /\ q.at = "done"
    <3> DEFINE q == [req[e] EXCEPT !.at = "done"]
    <3>1. req' = [req EXCEPT ![e] = q]
      BY <1>3, WordingNow DEF CommitFinal
    <3>2. q \in RequestRecord /\ q.at = "done"
      BY WordingNow DEF RequestRecord
    <3> HIDE DEF q
    <3> QED
      BY <3>1, <3>2
  <2>2. /\ record' \in RecordRow /\ record'.version = record.version /\ record'.empty = record.empty
        /\ sealed' = [version |-> record.version, empty |-> record.empty, checked |-> req[e].seen]
    BY <1>3, WordingNow DEF CommitFinal, RecordRow
  <2>3. WordingShape'
    BY <1>1, <2>1, <2>2 DEF WordingInv, WordingShape
  <2>4. VersionsAreRead'
    BY <1>1 DEF WordingInv, VersionsAreRead
  <2>5. \A d \in Editors : req'[d].at \in {"save", "finalize"} => req'[d] = req[d]
    BY <2>1, WordingNow
  <2>6. SavesAreRead'
    BY <2>5 DEF WordingInv, SavesAreRead
  <2>7. ChecksHold'
    BY <2>2, <2>5 DEF WordingInv, ChecksHold
  <2>8. WordingKept'
    <3>1. sealed'.empty => sealed'.checked # sealed'.version
      BY <1>1, <2>2, WordingNow
    <3> QED
      BY <1>1, <3>1 DEF WordingInv, WordingKept, BlindOnlyWhileLoading, BlankOnlyByRace
  <2> QED
    BY <2>3, <2>4, <2>6, <2>7, <2>8 DEF WordingInv
<1> QED
  BY <1>2, <1>3

\* Every step keeps the wording's invariant.
LEMMA WordingStepKeeps ==
  WordingInv /\ [WordingNext]_wordingVars => WordingInv'
<1> SUFFICES ASSUME WordingInv, [WordingNext]_wordingVars PROVE WordingInv'
  OBVIOUS
<1>1. ASSUME NEW e \in Editors, AnswerLost(e) \/ Finalized(e) PROVE WordingInv'
  BY <1>1, EndsKeep, AskingKeeps DEF AnswerLost, Finalized
<1>2. ASSUME UNCHANGED wordingVars PROVE WordingInv'
  BY <1>2 DEF wordingVars, WordingInv, WordingShape, VersionsAreRead, SavesAreRead, ChecksHold,
              WordingKept, BlindOnlyWhileLoading, BlankOnlyByRace
<1> QED
  BY <1>1, <1>2, LoadKeeps, PageLoadedKeeps, PanelLoadedKeeps, LoadFailsKeeps, TypesKeep,
     PressSaveKeeps, SaveArrivesKeeps, SavedKeeps, SaveRefusedKeeps, PressFinalizeKeeps,
     CheckWordingKeeps, CommitFinalKeeps DEF WordingNext

\* Nothing is saved over a version its author was not shown but while the editor was
\* loading, and nothing blank is finalized but by a race (insights/service.ts:347-412),
\* for any number of editors.
THEOREM WordingAlwaysKept == WordingSpec => []WordingKept
<1>1. WordingInv => WordingKept
  BY DEF WordingInv
<1> QED
  BY <1>1, WordingStarts, WordingStepKeeps, PTL DEF WordingSpec

----------------------------------------------------------------------------
(*****************************************************************************)
(* ReleaseWatch.  MatchedOnce is not about the look for a pair before its    *)
(* row is inserted, which two runs could do together: no two runs ever work  *)
(* on one release (MatchedByOne), because only the one that stored it does.  *)
(*****************************************************************************)

\* The releases a run has stored and not matched yet.
Handled(p) == poll[p].fresh \cup ({poll[p].row} \ {0})

PollRecord ==
  [phase : {"idle", "upsert", "insert", "judge", "check", "propose"}, todo : SUBSET Nat,
   rel : Nat, fresh : SUBSET Nat, row : Nat,
   asks : SUBSET Asks, ask : Asks \cup {"none"},
   entries : SUBSET Entries, entry : Entries \cup {"none"}]

MatchRow == [row : Nat, entry : Entries, insight : Asks]

\* What a run's phase says of what it carries.
PollFits(q) ==
  /\ q.phase \in {"check", "propose"} => q.ask \in Asks
  /\ q.phase = "propose" => q.entry \in Entries
  /\ q.phase \in {"judge", "check", "propose"} => q.row # 0

ReleaseShape ==
  /\ feed \in Seq(BOOLEAN)
  /\ mirror \in Seq(Nat)
  /\ asked \subseteq Asks
  /\ proposals \in Seq(MatchRow)
  /\ poll \in [Pollers -> PollRecord]
  /\ \A p \in Pollers : PollFits(poll[p]) /\ Handled(p) \subseteq 1 .. Len(mirror)

\* The unique index: a release is stored once.
StoredOnce == \A m, n \in 1 .. Len(mirror) : mirror[m] = mirror[n] => m = n

\* A release is matched by the run that stored it and by no other one, which is why
\* nobody comes between its look for a pair and the row it inserts (matcher.ts:105).
MatchedByOne ==
  \A p, q \in Pollers : Handled(p) \cap Handled(q) # {} => p = q

\* A pair is proposed once, for a release that is stored.
ProposedOnce ==
  /\ \A k \in 1 .. Len(proposals) : proposals[k].row \in 1 .. Len(mirror)
  /\ \A j, k \in 1 .. Len(proposals) : proposals[j] = proposals[k] => j = k

\* What a run has looked for and not found is still not there.
StillMissing(q) == q.phase = "propose" => ~Proposed(q.row, q.entry, q.ask)
LooksHold == \A p \in Pollers : StillMissing(poll[p])

ReleaseInv == ReleaseShape /\ StoredOnce /\ MatchedByOne /\ ProposedOnce /\ LooksHold

----------------------------------------------------------------------------
\* The record of a poll that is not there.
LEMMA DormantIsQuiet ==
  /\ Dormant \in PollRecord /\ Dormant.phase = "idle" /\ Dormant.fresh = {}
  /\ Dormant.row = 0 /\ PollFits(Dormant) /\ StillMissing(Dormant)
BY DEF Dormant, PollRecord, PollFits, StillMissing

\* Nothing is stored, and nobody polls.
LEMMA ReleaseStart == ReleaseInit => ReleaseInv
<1> SUFFICES ASSUME ReleaseInit PROVE ReleaseInv
  OBVIOUS
<1>1. /\ mirror = <<>> /\ proposals = <<>> /\ feed = <<>> /\ asked \subseteq Asks
      /\ poll = [p \in Pollers |-> Dormant]
  BY DEF ReleaseInit
<1>2. \A p \in Pollers : poll[p] = Dormant /\ Handled(p) = {}
  BY <1>1, DormantIsQuiet DEF Handled
<1>3. ReleaseShape
  BY <1>1, <1>2, DormantIsQuiet DEF ReleaseShape
<1>4. StoredOnce /\ MatchedByOne /\ ProposedOnce
  BY <1>1, <1>2 DEF StoredOnce, MatchedByOne, ProposedOnce
<1>5. LooksHold
  BY <1>2, DormantIsQuiet DEF LooksHold
<1> QED
  BY <1>3, <1>4, <1>5 DEF ReleaseInv

\* A step of one run that stores nothing new and takes up nothing new.
LEMMA QuietStep ==
  ASSUME ReleaseInv, NEW p \in Pollers, NEW q,
         UNCHANGED <<feed, mirror, proposals, asked>>,
         poll' = [poll EXCEPT ![p] = q], q \in PollRecord, PollFits(q), StillMissing(q),
         q.fresh \cup ({q.row} \ {0}) \subseteq Handled(p)
  PROVE  ReleaseInv'
<1>1. /\ poll' \in [Pollers -> PollRecord] /\ poll'[p] = q
      /\ \A o \in Pollers : o # p => poll'[o] = poll[o]
  BY DEF ReleaseInv, ReleaseShape
<1>2. /\ \A o \in Pollers : Handled(o)' \subseteq Handled(o)
      /\ \A o \in Pollers : o # p => Handled(o)' = Handled(o)
  BY <1>1 DEF Handled
<1>3. ReleaseShape'
  BY <1>1, <1>2 DEF ReleaseInv, ReleaseShape
<1>4. StoredOnce' /\ ProposedOnce'
  BY DEF ReleaseInv, StoredOnce, ProposedOnce
<1>5. MatchedByOne'
  BY <1>2 DEF ReleaseInv, MatchedByOne
<1>6. LooksHold'
  BY <1>1 DEF ReleaseInv, LooksHold, StillMissing, Proposed
<1> QED
  BY <1>3, <1>4, <1>5, <1>6 DEF ReleaseInv

\* What is inserted was not there, and belongs to the run that inserts it.
LEMMA ReleaseInsertKeeps ==
  ASSUME ReleaseInv, NEW p \in Pollers, InsertRelease(p) PROVE ReleaseInv'
<1> DEFINE r == poll[p].rel
           n == Len(mirror) + 1
           next == [poll[p] EXCEPT !.phase = "upsert", !.rel = 0, !.fresh = @ \cup {n}]
<1>1. /\ poll[p] \in PollRecord /\ r \in Nat /\ poll[p].phase = "insert"
      /\ UNCHANGED <<feed, asked, proposals>>
  BY DEF InsertRelease, ReleaseInv, ReleaseShape, PollRecord
<1>2. CASE Mirrored(r)
  BY <1>1, <1>2, DormantIsQuiet, QuietStep DEF InsertRelease
<1>3. CASE ~Mirrored(r)
  <2>1. mirror' = Append(mirror, r) /\ poll' = [poll EXCEPT ![p] = next]
    BY <1>3 DEF InsertRelease
  <2>2. /\ next \in PollRecord /\ next.phase = "upsert" /\ next.row = poll[p].row
        /\ next.fresh = poll[p].fresh \cup {n} /\ PollFits(next)
    <3>1. n \in Nat
      BY DEF ReleaseInv, ReleaseShape
    <3> QED
      BY <1>1, <3>1 DEF PollRecord, PollFits
  <2>3. /\ mirror' \in Seq(Nat) /\ Len(mirror') = n /\ mirror'[n] = r
        /\ \A m \in 1 .. Len(mirror) : mirror'[m] = mirror[m] /\ mirror[m] # r
        /\ Len(mirror) \in Nat
    BY <1>1, <1>3, <2>1 DEF ReleaseInv, ReleaseShape, Mirrored
  <2>4. /\ poll' \in [Pollers -> PollRecord] /\ poll'[p] = next
        /\ \A o \in Pollers : o # p => poll'[o] = poll[o]
    BY <2>1, <2>2 DEF ReleaseInv, ReleaseShape
  <2>5. /\ \A o \in Pollers : o # p => Handled(o)' = Handled(o)
        /\ Handled(p)' = Handled(p) \cup {n}
        /\ \A o \in Pollers : n \notin Handled(o)
    BY <2>2, <2>3, <2>4 DEF Handled, ReleaseInv, ReleaseShape
  <2>6. ReleaseShape'
    BY <1>1, <2>2, <2>3, <2>4, <2>5 DEF ReleaseInv, ReleaseShape
  <2>7. StoredOnce'
    BY <2>3 DEF ReleaseInv, StoredOnce
  <2>8. MatchedByOne'
    BY <2>5 DEF ReleaseInv, MatchedByOne
  <2>9. ProposedOnce'
    BY <1>1, <2>3 DEF ReleaseInv, ProposedOnce
  <2>10. LooksHold'
    <3> HIDE DEF next, n
    <3> QED
      BY <1>1, <2>2, <2>4 DEF ReleaseInv, LooksHold, StillMissing, Proposed
  <2> QED
    BY <2>6, <2>7, <2>8, <2>9, <2>10 DEF ReleaseInv
<1> QED
  BY <1>2, <1>3

\* The pair that is proposed is not there, and no other run is about to propose it.
LEMMA ProposeKeeps ==
  ASSUME ReleaseInv, NEW p \in Pollers, Propose(p) PROVE ReleaseInv'
<1> DEFINE m == [row |-> poll[p].row, entry |-> poll[p].entry, insight |-> poll[p].ask]
           next == [poll[p] EXCEPT !.phase = "check", !.entry = "none"]
<1>1. /\ poll[p] \in PollRecord /\ poll[p].phase = "propose" /\ PollFits(poll[p])
      /\ poll[p].row \in 1 .. Len(mirror) /\ UNCHANGED <<feed, mirror, asked>>
      /\ proposals' = Append(proposals, m) /\ poll' = [poll EXCEPT ![p] = next]
  BY DEF Propose, ReleaseInv, ReleaseShape, Handled, PollRecord, PollFits
<1>2. /\ next \in PollRecord /\ next.fresh = poll[p].fresh /\ next.row = poll[p].row
      /\ next.phase = "check" /\ PollFits(next)
  BY <1>1 DEF PollRecord, PollFits
<1>3. /\ poll' \in [Pollers -> PollRecord] /\ poll'[p] = next
      /\ \A o \in Pollers : o # p => poll'[o] = poll[o]
  BY <1>1, <1>2 DEF ReleaseInv, ReleaseShape
<1>4. \A o \in Pollers : Handled(o)' = Handled(o)
  BY <1>2, <1>3 DEF Handled
<1>5. /\ m \in MatchRow /\ m.row = poll[p].row /\ proposals \in Seq(MatchRow)
      /\ \A k \in 1 .. Len(proposals) : proposals[k] # m
  <2>1. poll[p].row \in Nat /\ poll[p].entry \in Entries /\ poll[p].ask \in Asks
    BY <1>1 DEF PollRecord, PollFits
  <2>2. proposals \in Seq(MatchRow) /\ ~Proposed(poll[p].row, poll[p].entry, poll[p].ask)
    BY <1>1 DEF ReleaseInv, ReleaseShape, LooksHold, StillMissing
  <2> QED
    BY <2>1, <2>2 DEF MatchRow, Proposed
<1>6. /\ Len(proposals') = Len(proposals) + 1 /\ proposals'[Len(proposals) + 1] = m
      /\ \A k \in 1 .. Len(proposals) : proposals'[k] = proposals[k]
      /\ proposals' \in Seq(MatchRow) /\ Len(proposals) \in Nat
  <2> HIDE DEF m
  <2> QED
    BY <1>1, <1>5
<1>7. ReleaseShape'
  BY <1>1, <1>2, <1>3, <1>4, <1>6 DEF ReleaseInv, ReleaseShape
<1>8. StoredOnce' /\ MatchedByOne'
  BY <1>1, <1>4 DEF ReleaseInv, StoredOnce, MatchedByOne
<1>9. ProposedOnce'
  <2> HIDE DEF m
  <2>1. \A k \in 1 .. Len(proposals') : proposals'[k].row \in 1 .. Len(mirror')
    BY <1>1, <1>5, <1>6 DEF ReleaseInv, ProposedOnce
  <2>2. \A j, k \in 1 .. Len(proposals') : proposals'[j] = proposals'[k] => j = k
    <3>1. \A j, k \in 1 .. Len(proposals) : proposals[j] = proposals[k] => j = k
      BY DEF ReleaseInv, ProposedOnce
    <3>2. \A k \in 1 .. Len(proposals') : k \in 1 .. Len(proposals) \/ k = Len(proposals) + 1
      BY <1>6
    <3> QED
      BY <1>5, <1>6, <3>1, <3>2
  <2> QED
    BY <2>1, <2>2 DEF ProposedOnce
<1>10. ASSUME NEW o \in Pollers PROVE StillMissing(poll[o])'
  <2>1. CASE o = p
    BY <1>2, <1>3, <2>1 DEF StillMissing
  <2>2. CASE o # p
    <3> SUFFICES ASSUME poll[o].phase = "propose"
                 PROVE  ~Proposed(poll[o].row, poll[o].entry, poll[o].ask)'
      BY <1>3, <2>2 DEF StillMissing
    <3>1. poll'[o] = poll[o] /\ ~Proposed(poll[o].row, poll[o].entry, poll[o].ask)
      BY <1>3, <2>2 DEF ReleaseInv, LooksHold, StillMissing
    <3>2. poll[o].row # 0 /\ poll[p].row # 0
      BY <1>1 DEF ReleaseInv, ReleaseShape, PollFits
    <3>3. poll[o].row # poll[p].row
      BY <2>2, <3>2 DEF ReleaseInv, MatchedByOne, Handled
    <3>4. m.row # poll[o].row
      BY <3>3
    <3>5. DOMAIN proposals = 1 .. Len(proposals) /\ DOMAIN proposals' = 1 .. Len(proposals')
      BY <1>5, <1>6
    <3> DEFINE w == [row |-> poll[o].row, entry |-> poll[o].entry, insight |-> poll[o].ask]
    <3>6. \A k \in 1 .. Len(proposals) : proposals[k] # w
      BY <3>1, <3>5 DEF Proposed
    <3>7. m # w
      BY <3>4
    <3> HIDE DEF m
    <3>8. \A k \in 1 .. Len(proposals') : proposals'[k] # w
      <4> HIDE DEF w
      <4> QED
        BY <1>6, <3>6, <3>7
    <3> QED
      BY <3>1, <3>5, <3>8 DEF Proposed
  <2> QED
    BY <2>1, <2>2
<1> QED
  BY <1>7, <1>8, <1>9, <1>10 DEF ReleaseInv, LooksHold

\* A release is taken from the fresh ones to be matched.
LEMMA ReadOpenKeeps ==
  ASSUME ReleaseInv, NEW p \in Pollers, NEW n \in DOMAIN mirror, ReadOpen(p, n)
  PROVE  ReleaseInv'
<1> DEFINE next == [poll[p] EXCEPT !.phase = "judge", !.row = n, !.fresh = @ \ {n}, !.asks = asked]
<1>1. /\ poll[p] \in PollRecord /\ asked \subseteq Asks /\ n \in 1 .. Len(mirror)
      /\ n \in poll[p].fresh
  BY DEF ReadOpen, ReleaseInv, ReleaseShape
<1>2. /\ next \in PollRecord /\ PollFits(next) /\ StillMissing(next)
      /\ next.fresh \cup ({next.row} \ {0}) \subseteq Handled(p)
  <2>1. Len(mirror) \in Nat
    BY DEF ReleaseInv, ReleaseShape
  <2>2. next \in PollRecord /\ next.phase = "judge" /\ next.row = n /\ next.fresh = poll[p].fresh \ {n}
    BY <1>1, <2>1 DEF PollRecord
  <2> QED
    BY <1>1, <2>1, <2>2 DEF Handled, PollFits, StillMissing
<1>3. poll' = [poll EXCEPT ![p] = next] /\ UNCHANGED <<feed, mirror, asked, proposals>>
  BY DEF ReadOpen
<1> HIDE DEF next
<1> QED
  BY <1>2, <1>3, QuietStep

\* Fetching, looking up and the end of a run: nothing stored is taken up.
LEMMA FetchesAreQuiet ==
  ASSUME ReleaseInv, NEW p \in Pollers,
         \/ FetchReleases(p) \/ (\E n \in DOMAIN feed : LookUp(p, n))
         \/ (p \in Admins /\ \E t \in Tags : LookUpTag(p, t))
         \/ MatchEnds(p) \/ PollEnds(p) \/ PollCrash(p)
  PROVE  ReleaseInv'
<1>1. poll[p] \in PollRecord /\ feed \in Seq(BOOLEAN) /\ DOMAIN feed \subseteq Nat
  BY DEF ReleaseInv, ReleaseShape
<1>2. CASE FetchReleases(p)
  <2> DEFINE news == {n \in DOMAIN feed : OnPage(n) /\ ~feed[n]}
             q == [Dormant EXCEPT !.phase = "upsert", !.todo = news]
  <2>1. news \subseteq Nat
    BY <1>1
  <2>2. poll' = [poll EXCEPT ![p] = q] /\ UNCHANGED <<feed, mirror, asked, proposals>>
    BY <1>2 DEF FetchReleases
  <2> HIDE DEF news
  <2>3. /\ q \in PollRecord /\ q.fresh = {} /\ q.row = 0 /\ PollFits(q) /\ StillMissing(q)
    BY <2>1 DEF Dormant, PollRecord, PollFits, StillMissing
  <2> HIDE DEF q
  <2> QED
    BY <2>2, <2>3, QuietStep
<1>3. ASSUME NEW n \in DOMAIN feed, LookUp(p, n) PROVE ReleaseInv'
  <2> DEFINE q1 == [poll[p] EXCEPT !.todo = @ \ {n}]
             q2 == [poll[p] EXCEPT !.phase = "insert", !.rel = n, !.todo = @ \ {n}]
  <2>1. /\ poll' = [poll EXCEPT ![p] = q1] \/ poll' = [poll EXCEPT ![p] = q2]
        /\ UNCHANGED <<feed, mirror, asked, proposals>> /\ poll[p].phase = "upsert"
    <3>1. CASE Mirrored(n)
      BY <1>3, <3>1 DEF LookUp
    <3>2. CASE ~Mirrored(n)
      BY <1>3, <3>2 DEF LookUp
    <3> QED
      BY <3>1, <3>2
  <2>2. /\ q1 \in PollRecord /\ q1.phase = "upsert" /\ q1.fresh = poll[p].fresh /\ q1.row = poll[p].row
        /\ q2 \in PollRecord /\ q2.phase = "insert" /\ q2.fresh = poll[p].fresh
        /\ q2.row = poll[p].row
    BY <1>1, <2>1 DEF PollRecord
  <2>3. PollFits(q1) /\ StillMissing(q1) /\ PollFits(q2) /\ StillMissing(q2)
    BY <2>2 DEF PollFits, StillMissing
  <2> HIDE DEF q1, q2
  <2> QED
    BY <2>1, <2>2, <2>3, QuietStep DEF Handled
<1>4. ASSUME NEW t \in Tags, LookUpTag(p, t) PROVE ReleaseInv'
  <2> DEFINE q == [Dormant EXCEPT !.phase = "insert", !.rel = t]
  <2>1. t \in Nat
    BY TagsAssumption
  <2>2. q \in PollRecord /\ q.fresh = {} /\ q.row = 0 /\ PollFits(q) /\ StillMissing(q)
    BY <2>1 DEF Dormant, PollRecord, PollFits, StillMissing
  <2>3. poll' = [poll EXCEPT ![p] = q] /\ UNCHANGED <<feed, mirror, asked, proposals>>
    BY <1>4 DEF LookUpTag
  <2> HIDE DEF q
  <2> QED
    BY <2>2, <2>3, QuietStep
<1>5. CASE MatchEnds(p)
  <2> DEFINE q == [poll[p] EXCEPT !.phase = "upsert", !.row = 0]
  <2>1. /\ q \in PollRecord /\ q.fresh = poll[p].fresh /\ q.row = 0 /\ PollFits(q) /\ StillMissing(q)
    BY <1>1 DEF PollRecord, PollFits, StillMissing
  <2>2. poll' = [poll EXCEPT ![p] = q] /\ UNCHANGED <<feed, mirror, asked, proposals>>
    BY <1>5 DEF MatchEnds
  <2> HIDE DEF q
  <2> QED
    BY <2>1, <2>2, QuietStep DEF Handled
<1>6. CASE PollEnds(p) \/ PollCrash(p)
  BY <1>6, DormantIsQuiet, QuietStep DEF PollEnds, PollCrash
<1> QED
  BY <1>2, <1>3, <1>4, <1>5, <1>6

\* The judge's answers, and the look for each pair.
LEMMA JudgingIsQuiet ==
  ASSUME ReleaseInv, NEW p \in Pollers,
         (\E i \in Asks : Judge(p, i)) \/ (\E e \in Entries : CheckPair(p, e)) \/ AnswerEnds(p)
  PROVE  ReleaseInv'
<1>1. poll[p] \in PollRecord /\ PollFits(poll[p])
  BY DEF ReleaseInv, ReleaseShape
<1>2. ASSUME NEW i \in Asks, Judge(p, i) PROVE ReleaseInv'
  <2>1. PICK answer \in SUBSET Entries :
          poll' = [poll EXCEPT ![p] = [poll[p] EXCEPT !.phase = "check", !.asks = @ \ {i}, !.ask = i,
                                                    !.entries = answer]]
    BY <1>2 DEF Judge
  <2> DEFINE q == [poll[p] EXCEPT !.phase = "check", !.asks = @ \ {i}, !.ask = i, !.entries = answer]
  <2>2. /\ q \in PollRecord /\ q.phase = "check" /\ q.ask = i /\ q.row = poll[p].row
        /\ q.fresh = poll[p].fresh
    BY <1>1 DEF PollRecord
  <2>3. PollFits(q) /\ StillMissing(q)
    BY <1>1, <1>2, <2>2 DEF PollFits, StillMissing, Judge
  <2>4. poll' = [poll EXCEPT ![p] = q] /\ UNCHANGED <<feed, mirror, asked, proposals>>
    BY <1>2, <2>1 DEF Judge
  <2> HIDE DEF q
  <2> QED
    BY <2>2, <2>3, <2>4, QuietStep DEF Handled
<1>3. ASSUME NEW e \in Entries, CheckPair(p, e) PROVE ReleaseInv'
  <2> DEFINE q1 == [poll[p] EXCEPT !.entries = @ \ {e}]
             q2 == [poll[p] EXCEPT !.phase = "propose", !.entry = e, !.entries = @ \ {e}]
  <2>1. /\ poll[p].phase = "check" /\ UNCHANGED <<feed, mirror, asked, proposals>>
        /\ \/ poll' = [poll EXCEPT ![p] = q1]
           \/ poll' = [poll EXCEPT ![p] = q2] /\ ~Proposed(poll[p].row, e, poll[p].ask)
    <3>1. CASE Proposed(poll[p].row, e, poll[p].ask)
      BY <1>3, <3>1 DEF CheckPair
    <3>2. CASE ~Proposed(poll[p].row, e, poll[p].ask)
      BY <1>3, <3>2 DEF CheckPair
    <3> QED
      BY <3>1, <3>2
  <2>2. /\ q1 \in PollRecord /\ q1.phase = "check" /\ q1.ask = poll[p].ask /\ q1.row = poll[p].row
        /\ q1.fresh = poll[p].fresh
    BY <1>1, <2>1 DEF PollRecord
  <2>3. /\ q2 \in PollRecord /\ q2.phase = "propose" /\ q2.ask = poll[p].ask /\ q2.row = poll[p].row
        /\ q2.fresh = poll[p].fresh /\ q2.entry = e
    BY <1>1 DEF PollRecord
  <2>4. PollFits(q1) /\ StillMissing(q1) /\ PollFits(q2)
    BY <1>1, <2>1, <2>2, <2>3 DEF PollFits, StillMissing
  <2>5. ~Proposed(poll[p].row, e, poll[p].ask) => StillMissing(q2)
    <3> HIDE DEF q1, q2
    <3> QED
      BY <2>3 DEF StillMissing
  <2> HIDE DEF q1, q2
  <2> QED
    BY <2>1, <2>2, <2>3, <2>4, <2>5, QuietStep DEF Handled
<1>4. CASE AnswerEnds(p)
  <2> DEFINE q == [poll[p] EXCEPT !.phase = "judge", !.ask = "none"]
  <2>1. /\ q \in PollRecord /\ q.phase = "judge" /\ q.row = poll[p].row /\ q.fresh = poll[p].fresh
    BY <1>1 DEF PollRecord
  <2>2. PollFits(q) /\ StillMissing(q)
    BY <1>1, <1>4, <2>1 DEF PollFits, StillMissing, AnswerEnds
  <2>3. poll' = [poll EXCEPT ![p] = q] /\ UNCHANGED <<feed, mirror, asked, proposals>>
    BY <1>4 DEF AnswerEnds
  <2> HIDE DEF q
  <2> QED
    BY <2>1, <2>2, <2>3, QuietStep DEF Handled
<1> QED
  BY <1>2, <1>3, <1>4

\* A step of the world: releases are published and insights opened, no run moves.
LEMMA WorldKeeps ==
  ASSUME ReleaseInv, UNCHANGED <<mirror, proposals, poll>>, asked' \subseteq Asks, feed' \in Seq(BOOLEAN)
  PROVE  ReleaseInv'
  BY DEF ReleaseInv, ReleaseShape, StoredOnce, MatchedByOne, ProposedOnce, LooksHold, StillMissing,
         Proposed, Handled

\* The feed grows, or a draft is published.
LEMMA PublishFits ==
  ASSUME feed \in Seq(BOOLEAN), Publish
  PROVE  /\ feed' \in Seq(BOOLEAN) /\ Len(feed) <= Len(feed')
         /\ Len(feed) <= MaxRels => Len(feed') <= MaxRels
<1>0. MaxRels \in Nat /\ Len(feed) \in Nat
  BY PageAssumption
<1>1. CASE Len(feed) < MaxRels /\ \E draft \in BOOLEAN : feed' = Append(feed, draft)
  BY <1>0, <1>1
<1>2. ASSUME NEW n \in DOMAIN feed, feed' = [feed EXCEPT ![n] = FALSE]
      PROVE  feed' \in Seq(BOOLEAN) /\ Len(feed') = Len(feed)
  BY <1>0, <1>2
<1> QED
  BY <1>0, <1>1, <1>2 DEF Publish

\* Every step keeps the invariant of release matching.
LEMMA ReleaseStep == ReleaseInv /\ [ReleaseNext]_releaseVars => ReleaseInv'
<1> SUFFICES ASSUME ReleaseInv, [ReleaseNext]_releaseVars PROVE ReleaseInv'
  OBVIOUS
<1>0. feed \in Seq(BOOLEAN) /\ asked \subseteq Asks
  BY DEF ReleaseInv, ReleaseShape
<1>1. CASE Publish
  <2>1. UNCHANGED <<mirror, proposals, poll, asked>>
    BY <1>1 DEF Publish
  <2>2. feed' \in Seq(BOOLEAN)
    BY <1>0, <1>1, PublishFits
  <2> QED
    BY <1>0, <2>1, <2>2, WorldKeeps
<1>2. ASSUME NEW i \in Asks, TurnAsk(i) PROVE ReleaseInv'
  BY <1>0, <1>2, WorldKeeps DEF TurnAsk
<1>3. CASE UNCHANGED releaseVars
  BY <1>0, <1>3, WorldKeeps DEF releaseVars
<1>4. ASSUME NEW p \in Pollers, FetchReleases(p) \/ PollStep(p) \/ PollCrash(p) PROVE ReleaseInv'
  BY <1>4, ReleaseInsertKeeps, ProposeKeeps, ReadOpenKeeps, FetchesAreQuiet, JudgingIsQuiet DEF PollStep
<1>5. ASSUME NEW p \in Admins, NEW t \in Tags, LookUpTag(p, t) PROVE ReleaseInv'
  BY <1>5, FetchesAreQuiet DEF Pollers
<1> QED
  BY <1>1, <1>2, <1>3, <1>4, <1>5 DEF ReleaseNext

\* What MatchedOnce rests on holds in every reachable state of polls and pasted
\* changelogs.
THEOREM ReleaseInvariance == ReleaseSpec => []ReleaseInv
BY ReleaseStart, ReleaseStep, PTL DEF ReleaseSpec

\* Rows matched twice would be one proposal.
LEMMA ProposedOnceMatches == ReleaseInv => MatchedOnce
<1> SUFFICES ASSUME ReleaseInv, NEW j \in DOMAIN proposals, NEW k \in DOMAIN proposals,
                    mirror[proposals[j].row] = mirror[proposals[k].row],
                    proposals[j].entry = proposals[k].entry,
                    proposals[j].insight = proposals[k].insight
             PROVE  j = k
  BY DEF MatchedOnce
<1>1. j \in 1 .. Len(proposals) /\ k \in 1 .. Len(proposals)
  BY DEF ReleaseInv, ReleaseShape
<1>2. proposals[j].row = proposals[k].row
  BY <1>1 DEF ReleaseInv, ProposedOnce, StoredOnce
<1>3. proposals[j] \in MatchRow /\ proposals[k] \in MatchRow
  <2>1. proposals \in Seq(MatchRow)
    BY DEF ReleaseInv, ReleaseShape
  <2> QED
    BY <1>1, <2>1
<1>4. proposals[j] = proposals[k]
  BY <1>2, <1>3 DEF MatchRow
<1> QED
  BY <1>1, <1>4 DEF ReleaseInv, ProposedOnce

\* However many polls and pasted changelogs run at once, an insight has one match with an
\* entry of a release ("re-running never duplicates a proposal", matcher.ts:105).
THEOREM MatchedAlwaysOnce == ReleaseSpec => []MatchedOnce
BY ProposedOnceMatches, ReleaseInvariance, PTL

----------------------------------------------------------------------------
(*****************************************************************************)
(* EmailDrafts.  A draft's successor is inserted by a generation that has    *)
(* read it, so what a generation read must be a draft of its client          *)
(* (ReplacesOwn), and, while generations do not overlap, the current one     *)
(* (AloneAndFresh).  That some draft of a client is current follows from its *)
(* versions: the latest has no successor.                                    *)
(*****************************************************************************)

Draft == [client : Askers, version : Nat \ {0}, next : Nat, sent : BOOLEAN]
DraftWriter == [phase : {"idle", "next", "insert"}, todo : SUBSET Askers,
                client : Askers \cup {"none"}, prev : Nat]
Of(c) == {d \in 1 .. Len(drafts) : drafts[d].client = c}

DraftShape ==
  /\ drafts \in Seq(Draft)
  /\ askers \subseteq Askers
  /\ overlapped \in BOOLEAN
  /\ writer \in [Writers -> DraftWriter]
  /\ Len(drafts) <= MaxDrafts
  /\ \A d \in 1 .. Len(drafts) : drafts[d].version <= Len(drafts)
  /\ \A w \in Writers : /\ writer[w].phase = "insert" => writer[w].client \in Askers
                        /\ writer[w].prev <= Len(drafts)

\* What a generation is about to replace is a draft of its client, if there is one.
ReplacesOwn ==
  \A w \in Writers : writer[w].phase = "insert" /\ writer[w].prev # 0 =>
    /\ writer[w].prev \in 1 .. Len(drafts)
    /\ drafts[writer[w].prev].client = writer[w].client

\* Without overlaps one generation runs at a time, so what it has read still stands.
AloneAndFresh ==
  ~overlapped =>
    /\ \A v, w \in Writers : writer[v].phase # "idle" /\ writer[w].phase # "idle" => v = w
    /\ \A w \in Writers : writer[w].phase = "insert" =>
         \/ writer[w].prev = 0 /\ Of(writer[w].client) = {}
         \/ Current(writer[w].client) = {writer[w].prev}

\* Without overlaps a client has one current draft, the last of its versions.
OneHead ==
  ~overlapped =>
    \A c \in Askers : Of(c) # {} =>
      \E d \in Of(c) : Current(c) = {d} /\ drafts[d].version = Cardinality(Of(c))

\* DraftChain, said of each link and of each client.
LinksFit ==
  \A d \in 1 .. Len(drafts) : drafts[d].next # 0 =>
    /\ drafts[d].next \in 1 .. Len(drafts)
    /\ drafts[drafts[d].next].client = drafts[d].client
    /\ drafts[drafts[d].next].version = drafts[d].version + 1
SomeHead == \A c : Of(c) # {} => Current(c) # {}

DraftInv == DraftShape /\ ReplacesOwn /\ AloneAndFresh /\ LinksFit /\ SomeHead /\ OneHead

----------------------------------------------------------------------------
\* The rows of the drafts, by number.
LEMMA DraftsAreASequence ==
  ASSUME DraftShape
  PROVE  /\ Len(drafts) \in Nat /\ DOMAIN drafts = 1 .. Len(drafts)
         /\ \A d \in 1 .. Len(drafts) :
              /\ drafts[d] \in Draft /\ drafts[d].client \in Askers
              /\ drafts[d].version \in Nat /\ drafts[d].next \in Nat
         /\ \A c : /\ Current(c) \subseteq Of(c) /\ Of(c) \subseteq 1 .. Len(drafts)
                   /\ Current(c) = {d \in Of(c) : drafts[d].next = 0}
                   /\ IsFiniteSet(Of(c)) /\ Cardinality(Of(c)) \in Nat
<1>1. drafts \in Seq(Draft) /\ Len(drafts) \in Nat /\ DOMAIN drafts = 1 .. Len(drafts)
  BY DEF DraftShape
<1>2. \A d \in 1 .. Len(drafts) : drafts[d] \in Draft
  BY <1>1
<1>3. \A c : /\ Current(c) \subseteq Of(c) /\ Of(c) \subseteq 1 .. Len(drafts)
             /\ Current(c) = {d \in Of(c) : drafts[d].next = 0}
  BY <1>1 DEF Current, Of
<1>4. \A c : IsFiniteSet(Of(c)) /\ Cardinality(Of(c)) \in Nat
  <2>1. IsFiniteSet(1 .. Len(drafts))
    BY <1>1, FS_Interval
  <2> QED
    BY <1>3, <2>1, FS_Subset, FS_CardinalityType
<1> QED
  BY <1>1, <1>2, <1>3, <1>4 DEF Draft

\* Among drafts there is a latest one.
LEMMA LatestIsOne ==
  ASSUME DraftShape, NEW ds, ds \subseteq 1 .. Len(drafts), ds # {} PROVE Latest(ds) \in ds
<1> USE DraftsAreASequence
<1> DEFINE versions == {drafts[d].version : d \in ds}
<1>1. versions \in SUBSET Nat /\ versions # {} /\ \A v \in versions : v <= Len(drafts)
  <2>1. \A d \in ds : drafts[d].version \in Nat /\ drafts[d].version <= Len(drafts)
    BY DEF DraftShape
  <2>2. PICK d \in ds : TRUE
    OBVIOUS
  <2>3. drafts[d].version \in versions
    OBVIOUS
  <2> QED
    BY <2>1, <2>3
<1>2. PICK v \in versions : \A u \in versions : u <= v
  <2> HIDE DEF versions
  <2> QED
    BY <1>1, GreatestNatural
<1>3. \E d \in ds : \A e \in ds : drafts[e].version <= drafts[d].version
  BY <1>2
<1> QED
  BY <1>3 DEF Latest

\* Initially there are no drafts.
LEMMA DraftStart == DraftInit => DraftInv
<1> SUFFICES ASSUME DraftInit PROVE DraftInv
  OBVIOUS
<1>1. /\ drafts = <<>> /\ askers \subseteq Askers /\ overlapped = FALSE
      /\ writer = [w \in Writers |-> NotWriting] /\ NotWriting \in DraftWriter
      /\ NotWriting.phase = "idle" /\ NotWriting.prev = 0
  BY DEF DraftInit, NotWriting, DraftWriter
<1>2. DraftShape
  <2>1. drafts \in Seq(Draft) /\ Len(drafts) = 0 /\ 1 .. Len(drafts) = {}
    BY <1>1
  <2>2. /\ writer \in [Writers -> DraftWriter]
        /\ \A w \in Writers : writer[w].phase = "idle" /\ writer[w].prev = 0
    BY <1>1
  <2>3. Len(drafts) <= MaxDrafts /\ \A w \in Writers : writer[w].prev <= Len(drafts)
    BY <2>1, <2>2, DraftAssumption
  <2> QED
    BY <1>1, <2>1, <2>2, <2>3 DEF DraftShape
<1>3. ReplacesOwn /\ AloneAndFresh /\ LinksFit
  BY <1>1 DEF ReplacesOwn, AloneAndFresh, LinksFit
<1>4. OneHead /\ SomeHead
  BY <1>1 DEF OneHead, SomeHead, Of
<1> QED
  BY <1>2, <1>3, <1>4 DEF DraftInv

----------------------------------------------------------------------------
\* Steps that leave the chains alone: a generation begins, ends or goes on to a client
\* whose latest draft it has read.
LEMMA WriterKeeps ==
  ASSUME DraftInv, NEW w \in Writers, NEW q \in DraftWriter,
         writer' = [writer EXCEPT ![w] = q], UNCHANGED drafts, askers' \subseteq Askers,
         overlapped' \in BOOLEAN, ~overlapped' => ~overlapped, q.prev <= Len(drafts),
         q.phase = "insert" =>
           /\ q.client \in Askers
           /\ q.prev # 0 => q.prev \in 1 .. Len(drafts) /\ drafts[q.prev].client = q.client
           /\ ~overlapped => \/ q.prev = 0 /\ Of(q.client) = {}
                             \/ Current(q.client) = {q.prev},
         ~overlapped' /\ q.phase # "idle" =>
           writer[w].phase # "idle" \/ \A v \in Writers : writer[v].phase = "idle"
  PROVE  DraftInv'
<1>1. /\ writer' \in [Writers -> DraftWriter] /\ writer'[w] = q
      /\ \A v \in Writers : v # w => writer'[v] = writer[v]
  BY DEF DraftInv, DraftShape
<1>2. \A c : Of(c)' = Of(c) /\ Current(c)' = Current(c)
  BY DEF Of, Current
<1>3. DraftShape'
  BY <1>1 DEF DraftInv, DraftShape
<1>4. ReplacesOwn'
  BY <1>1 DEF DraftInv, ReplacesOwn
<1>5. AloneAndFresh'
  BY <1>1, <1>2 DEF DraftInv, AloneAndFresh
<1>6. LinksFit' /\ SomeHead'
  BY <1>2 DEF DraftInv, LinksFit, SomeHead
<1>7. OneHead'
  BY <1>2 DEF DraftInv, OneHead
<1> QED
  BY <1>3, <1>4, <1>5, <1>6, <1>7 DEF DraftInv

\* What a generation reads is a current draft of its client.
LEMMA ReadPrevKeeps ==
  ASSUME DraftInv, NEW w \in Writers, NEW c \in Askers, ReadPrev(w, c) PROVE DraftInv'
<1> DEFINE q == [writer[w] EXCEPT !.phase = "insert", !.client = c, !.prev = Latest(Current(c))]
<1>1. DraftShape /\ writer[w] \in DraftWriter /\ askers \subseteq Askers
  BY DEF DraftInv, DraftShape
<1>2. CASE Current(c) = {}
  <2>1. Latest(Current(c)) = 0 /\ Of(c) = {}
    <3>1. Latest(Current(c)) = 0
      BY <1>2 DEF Latest
    <3> QED
      BY <1>2, <3>1 DEF DraftInv, SomeHead
  <2>2. q \in DraftWriter /\ q.phase = "insert" /\ q.client = c /\ q.prev = 0
    <3>1. 0 \in Nat
      OBVIOUS
    <3> QED
      BY <1>1, <2>1, <3>1 DEF DraftWriter
  <2>3. /\ writer' = [writer EXCEPT ![w] = q] /\ UNCHANGED <<drafts, askers, overlapped>>
        /\ writer[w].phase # "idle" /\ overlapped \in BOOLEAN
    BY DEF ReadPrev, DraftInv, DraftShape
  <2>4. q.prev <= Len(drafts)
    BY <1>1, <2>2, DraftsAreASequence
  <2> HIDE DEF q
  <2> QED
    BY <1>1, <2>1, <2>2, <2>3, <2>4, WriterKeeps
<1>3. CASE Current(c) # {}
  <2>1. Current(c) \subseteq Of(c) /\ Of(c) \subseteq 1 .. Len(drafts)
    BY <1>1, DraftsAreASequence
  <2>2. Latest(Current(c)) \in Current(c)
    BY <1>1, <1>3, <2>1, LatestIsOne
  <2>3. /\ Latest(Current(c)) \in 1 .. Len(drafts) /\ Latest(Current(c)) \in Nat
        /\ drafts[Latest(Current(c))].client = c
    BY <1>1, <2>1, <2>2, DraftsAreASequence DEF Of
  <2>4. ~overlapped => Current(c) = {Latest(Current(c))}
    BY <2>1, <2>2 DEF DraftInv, OneHead
  <2>5. q \in DraftWriter /\ q.phase = "insert" /\ q.client = c /\ q.prev = Latest(Current(c))
    BY <1>1, <2>3 DEF DraftWriter
  <2>6. /\ writer' = [writer EXCEPT ![w] = q] /\ UNCHANGED <<drafts, askers, overlapped>>
        /\ writer[w].phase # "idle" /\ overlapped \in BOOLEAN
    BY DEF ReadPrev, DraftInv, DraftShape
  <2>7. q.prev <= Len(drafts)
    BY <1>1, <2>3, <2>5, DraftsAreASequence
  <2> HIDE DEF q
  <2> QED
    BY <1>1, <2>3, <2>4, <2>5, <2>6, <2>7, WriterKeeps
<1> QED
  BY <1>2, <1>3

\* A generation begins, and ends.
LEMMA BeginAndEndKeep ==
  ASSUME DraftInv, NEW w \in Writers, BeginDrafts(w) \/ EndDrafts(w) PROVE DraftInv'
<1>1. /\ NotWriting \in DraftWriter /\ NotWriting.phase = "idle" /\ askers \subseteq Askers
      /\ overlapped \in BOOLEAN
  BY DEF DraftInv, DraftShape, NotWriting, DraftWriter
<1>2. NotWriting.prev = 0 /\ 0 <= Len(drafts)
  BY DraftsAreASequence DEF DraftInv, NotWriting
<1>3. CASE EndDrafts(w)
  BY <1>1, <1>2, <1>3, WriterKeeps DEF EndDrafts
<1>4. CASE BeginDrafts(w)
  <2> DEFINE q == [NotWriting EXCEPT !.phase = "next", !.todo = askers]
  <2>1. q \in DraftWriter /\ q.phase = "next" /\ q.prev = 0
    BY <1>1 DEF NotWriting, DraftWriter
  <2>2. /\ writer' = [writer EXCEPT ![w] = q] /\ UNCHANGED <<drafts, askers>>
        /\ overlapped' = (overlapped \/ \E v \in Writers : writer[v].phase # "idle")
    BY <1>4 DEF BeginDrafts
  <2> HIDE DEF q
  <2> QED
    BY <1>1, <1>2, <2>1, <2>2, WriterKeeps
<1> QED
  BY <1>3, <1>4

----------------------------------------------------------------------------
\* The next version goes to the end and supersedes what was read.
LEMMA InsertDraftKeeps ==
  ASSUME DraftInv, NEW w \in Writers, InsertDraft(w) PROVE DraftInv'
<1> SUFFICES ASSUME NEW c, c = writer[w].client, NEW prev, prev = writer[w].prev,
                    NEW n, n = Len(drafts) + 1
             PROVE  DraftInv'
  OBVIOUS
<1> DEFINE version == IF prev = 0 THEN 1 ELSE drafts[prev].version + 1
           linked == [d \in DOMAIN drafts |->
                        IF d = prev THEN [drafts[d] EXCEPT !.next = n] ELSE drafts[d]]
           new == [client |-> c, version |-> version, next |-> 0, sent |-> FALSE]
           q == [writer[w] EXCEPT !.phase = "next", !.todo = @ \ {c}, !.prev = 0]
<1>1. /\ DraftShape /\ c \in Askers /\ prev \in Nat /\ writer[w] \in DraftWriter
      /\ prev # 0 => prev \in 1 .. Len(drafts) /\ drafts[prev].client = c
  BY DEF InsertDraft, DraftInv, DraftShape, ReplacesOwn, DraftWriter
<1> USE DraftsAreASequence
<1>2. version \in Nat /\ version <= n /\ n \in Nat /\ new \in Draft
  BY <1>1 DEF Draft, DraftShape
<1>3. linked \in Seq(Draft) /\ Len(linked) = Len(drafts)
  <2>1. \A d \in 1 .. Len(drafts) : linked[d] \in Draft
    BY <1>1, <1>2 DEF Draft
  <2>2. linked \in [1 .. Len(drafts) -> Draft]
    BY <1>1, <2>1
  <2> HIDE DEF linked
  <2> QED
    BY <1>1, <2>2
<1>4. /\ drafts' = Append(linked, new) /\ UNCHANGED <<askers, overlapped>>
      /\ writer' = [writer EXCEPT ![w] = q]
  BY DEF InsertDraft
<1>5. /\ drafts' \in Seq(Draft) /\ Len(drafts') = n /\ drafts'[n] = new
      /\ DOMAIN drafts' = 1 .. n /\ 1 .. n = (1 .. Len(drafts)) \cup {n}
      /\ \A d \in 1 .. Len(drafts) : drafts'[d] = linked[d]
  <2> HIDE DEF linked, new
  <2> QED
    BY <1>1, <1>2, <1>3, <1>4
<1>6. /\ \A d \in 1 .. Len(drafts) : /\ drafts'[d].client = drafts[d].client
                                     /\ drafts'[d].version = drafts[d].version
                                     /\ drafts'[d].next = IF d = prev THEN n ELSE drafts[d].next
      /\ drafts'[n].client = c /\ drafts'[n].version = version /\ drafts'[n].next = 0
  <2>1. ASSUME NEW d \in 1 .. Len(drafts)
        PROVE  /\ linked[d].client = drafts[d].client /\ linked[d].version = drafts[d].version
               /\ linked[d].next = IF d = prev THEN n ELSE drafts[d].next
    <3>1. drafts[d] \in Draft /\ d \in DOMAIN drafts
      BY <1>1
    <3> QED
      BY <3>1 DEF Draft
  <2>2. new.client = c /\ new.version = version /\ new.next = 0
    OBVIOUS
  <2> HIDE DEF linked, new
  <2> QED
    BY <1>5, <2>1, <2>2
<1>7. /\ q \in DraftWriter /\ q.phase = "next" /\ q.prev = 0 /\ writer' \in [Writers -> DraftWriter]
      /\ writer'[w] = q /\ \A v \in Writers : v # w => writer'[v] = writer[v]
  BY <1>1, <1>4 DEF DraftShape, DraftWriter
<1> HIDE DEF linked, new, q, version
<1>8. DraftShape'
  <2>1. \A d \in 1 .. n : drafts'[d].version <= n
    BY <1>1, <1>2, <1>5, <1>6 DEF DraftShape
  <2>2. n <= MaxDrafts
    BY <1>1, DraftAssumption DEF InsertDraft
  <2>3. \A v \in Writers : writer'[v].prev \in Nat /\ writer'[v].prev <= n
    BY SMTT(20), <1>1, <1>2, <1>7 DEF DraftShape, DraftWriter
  <2>4. \A v \in Writers : writer'[v].phase = "insert" => writer'[v].client \in Askers
    BY <1>1, <1>7 DEF DraftShape
  <2> QED
    BY <1>1, <1>4, <1>5, <1>7, <2>1, <2>2, <2>3, <2>4 DEF DraftShape
<1>9. ReplacesOwn'
  BY <1>1, <1>5, <1>6, <1>7 DEF DraftInv, ReplacesOwn
<1>10. /\ \A b : b # c => Of(b)' = Of(b) /\ Current(b)' = Current(b)
       /\ Of(c)' = Of(c) \cup {n} /\ n \notin Of(c)
       /\ Current(c)' = (Current(c) \ {prev}) \cup {n}
  <2>1. \A b : /\ Of(b)' = {d \in 1 .. n : drafts'[d].client = b}
               /\ Current(b)' = {d \in 1 .. n : drafts'[d].client = b /\ drafts'[d].next = 0}
               /\ Of(b) = {d \in 1 .. Len(drafts) : drafts[d].client = b}
               /\ Current(b) = {d \in 1 .. Len(drafts) : drafts[d].client = b /\ drafts[d].next = 0}
    BY <1>1, <1>5 DEF Of, Current
  <2>2. n \notin 1 .. Len(drafts) /\ n # 0 /\ prev # n
    BY <1>1, <1>2
  <2>3. ASSUME NEW b, b # c PROVE Of(b)' = Of(b) /\ Current(b)' = Current(b)
    <3>1. \A d \in 1 .. Len(drafts) : drafts'[d].client = b =>
             drafts[d].client = b /\ drafts'[d].next = drafts[d].next
      BY <1>1, <1>6, <2>3
    <3>2. drafts'[n].client # b
      BY <1>6, <2>3
    <3>3. \A d : d \in Of(b)' <=> d \in Of(b)
      BY <1>5, <1>6, <2>1, <3>1, <3>2
    <3>4. \A d : d \in Current(b)' <=> d \in Current(b)
      BY <1>5, <1>6, <2>1, <3>1, <3>2
    <3> QED
      BY <3>3, <3>4
  <2>4. Of(c)' = Of(c) \cup {n} /\ n \notin Of(c)
    BY <1>5, <1>6, <2>1, <2>2
  <2>5. Current(c)' = (Current(c) \ {prev}) \cup {n}
    BY <1>5, <1>6, <2>1, <2>2
  <2> QED
    BY <2>3, <2>4, <2>5
<1>11. AloneAndFresh'
  BY <1>4, <1>7, <1>10 DEF InsertDraft, DraftInv, AloneAndFresh
<1>12. LinksFit' /\ SomeHead'
  <2>1. \A d \in 1 .. n : drafts'[d].next # 0 =>
          /\ drafts'[d].next \in 1 .. n
          /\ drafts'[drafts'[d].next].client = drafts'[d].client
          /\ drafts'[drafts'[d].next].version = drafts'[d].version + 1
    <3> SUFFICES ASSUME NEW d \in 1 .. n, drafts'[d].next # 0
                 PROVE  /\ drafts'[d].next \in 1 .. n
                        /\ drafts'[drafts'[d].next].client = drafts'[d].client
                        /\ drafts'[drafts'[d].next].version = drafts'[d].version + 1
      OBVIOUS
    <3>1. d \in 1 .. Len(drafts)
      BY <1>5, <1>6
    <3>2. CASE d = prev
      <4>1. version = drafts[d].version + 1 /\ drafts'[d].next = n /\ n \in 1 .. n
        BY <1>1, <1>2, <1>5, <1>6, <3>1, <3>2 DEF version
      <4> QED
        BY <1>1, <1>6, <3>1, <3>2, <4>1
    <3>3. CASE d # prev
      <4>1. drafts'[d].next = drafts[d].next /\ drafts[d].next # 0
        BY <1>6, <3>1, <3>3
      <4>2. /\ drafts[d].next \in 1 .. Len(drafts)
            /\ drafts[drafts[d].next].client = drafts[d].client
            /\ drafts[drafts[d].next].version = drafts[d].version + 1
        BY <1>1, <3>1, <4>1 DEF DraftInv, LinksFit
      <4> QED
        BY <1>5, <1>6, <3>1, <4>1, <4>2
    <3> QED
      BY <3>2, <3>3
  <2>2. SomeHead'
    BY <1>10 DEF DraftInv, SomeHead
  <2> QED
    BY <1>5, <2>1, <2>2 DEF LinksFit
<1>13. OneHead'
  <2> SUFFICES ASSUME ~overlapped, NEW b \in Askers, Of(b)' # {}
               PROVE  \E d \in Of(b)' : Current(b)' = {d} /\ drafts'[d].version = Cardinality(Of(b)')
    BY <1>4 DEF OneHead
  <2>1. CASE b # c
    <3>1. PICK d \in Of(b) : Current(b) = {d} /\ drafts[d].version = Cardinality(Of(b))
      BY <1>10, <2>1 DEF DraftInv, OneHead
    <3> QED
      BY <1>1, <1>6, <1>10, <2>1, <3>1
  <2>2. CASE b = c
    <3>1. \/ prev = 0 /\ Of(c) = {}
          \/ Current(c) = {prev} /\ prev # 0
      <4>1. (prev = 0 /\ Of(c) = {}) \/ Current(c) = {prev}
        BY DEF InsertDraft, DraftInv, AloneAndFresh
      <4>2. 0 \notin Current(c)
        BY <1>1
      <4> QED
        BY <4>1, <4>2
    <3>2. Cardinality(Of(c)') = Cardinality(Of(c)) + 1
      <4>1. IsFiniteSet(Of(c)) /\ n \notin Of(c) /\ Of(c)' = Of(c) \cup {n}
        BY <1>1, <1>10
      <4>2. Cardinality(Of(c) \cup {n}) = Cardinality(Of(c)) + 1
        BY <4>1, FS_AddElement
      <4> QED
        BY <4>1, <4>2
    <3>3. version = Cardinality(Of(c)) + 1
      <4>1. CASE prev = 0
        BY <1>1, <3>1, <4>1, FS_EmptySet DEF version
      <4>2. CASE prev # 0
        BY <1>1, <3>1, <4>2 DEF version, DraftInv, OneHead
      <4> QED
        BY <4>1, <4>2
    <3>4. Current(c)' = {n}
      BY <1>1, <1>10, <3>1
    <3>5. n \in Of(b)' /\ Current(b)' = {n} /\ drafts'[n].version = Cardinality(Of(b)')
      BY <1>6, <1>10, <2>2, <3>2, <3>3, <3>4
    <3> QED
      BY <3>5
  <2> QED
    BY <2>1, <2>2
<1> QED
  BY <1>8, <1>9, <1>11, <1>12, <1>13 DEF DraftInv

\* That a mail was sent is marked on a draft of any version.
LEMMA ConfirmSentKeeps ==
  ASSUME DraftInv, NEW d, ConfirmSent(d) PROVE DraftInv'
<1>1. DraftShape /\ d \in 1 .. Len(drafts)
  BY DraftsAreASequence DEF ConfirmSent, DraftInv
<1> USE DraftsAreASequence
<1>2. /\ drafts' = [drafts EXCEPT ![d].sent = TRUE] /\ UNCHANGED <<askers, writer, overlapped>>
  BY DEF ConfirmSent
<1>3. drafts' \in [1 .. Len(drafts) -> Draft]
  BY <1>1, <1>2 DEF Draft
<1>4. drafts' \in Seq(Draft) /\ Len(drafts') = Len(drafts)
  BY <1>1, <1>3
<1>5. \A e \in 1 .. Len(drafts) : /\ drafts'[e].client = drafts[e].client
                                  /\ drafts'[e].version = drafts[e].version
                                  /\ drafts'[e].next = drafts[e].next
  BY <1>1, <1>2 DEF Draft
<1>6. DraftShape'
  BY <1>1, <1>2, <1>4, <1>5 DEF DraftShape
<1>7. \A c : Of(c)' = Of(c) /\ Current(c)' = Current(c)
  BY <1>1, <1>4, <1>5, <1>6 DEF Of, Current
<1>8. ReplacesOwn' /\ AloneAndFresh'
  BY <1>1, <1>2, <1>4, <1>5, <1>7 DEF DraftInv, ReplacesOwn, AloneAndFresh
<1>9. LinksFit' /\ SomeHead'
  <2>1. \A e \in 1 .. Len(drafts) : drafts'[e].next # 0 =>
          /\ drafts'[e].next \in 1 .. Len(drafts)
          /\ drafts'[drafts'[e].next].client = drafts'[e].client
          /\ drafts'[drafts'[e].next].version = drafts'[e].version + 1
    BY SMTT(20), <1>5 DEF DraftInv, LinksFit
  <2> QED
    BY <1>4, <1>7, <2>1 DEF DraftInv, LinksFit, SomeHead
<1>10. OneHead'
  BY <1>1, <1>2, <1>5, <1>7 DEF DraftInv, OneHead
<1> QED
  BY <1>6, <1>8, <1>9, <1>10 DEF DraftInv

\* Every step keeps the drafts' invariant.
LEMMA DraftStep == DraftInv /\ [DraftNext]_draftVars => DraftInv'
<1> SUFFICES ASSUME DraftInv, [DraftNext]_draftVars PROVE DraftInv'
  OBVIOUS
<1>1. CASE UNCHANGED <<drafts, writer, overlapped>> /\ askers' \subseteq Askers
  <2>1. \A c : Of(c)' = Of(c) /\ Current(c)' = Current(c)
    BY <1>1 DEF Of, Current
  <2> QED
    BY <1>1, <2>1 DEF DraftInv, DraftShape, ReplacesOwn, AloneAndFresh, LinksFit, SomeHead, OneHead
<1>2. askers \subseteq Askers
  BY DEF DraftInv, DraftShape
<1>3. CASE UNCHANGED draftVars
  BY <1>1, <1>2, <1>3 DEF draftVars
<1>4. ASSUME NEW w \in Writers, BeginDrafts(w) \/ InsertDraft(w) \/ EndDrafts(w) PROVE DraftInv'
  BY <1>4, BeginAndEndKeep, InsertDraftKeeps
<1>5. ASSUME NEW w \in Writers, NEW c \in Askers, ReadPrev(w, c) PROVE DraftInv'
  BY <1>5, ReadPrevKeeps
<1>6. ASSUME NEW d \in 1 .. MaxDrafts, MarkCopied(d) \/ ConfirmSent(d) PROVE DraftInv'
  BY <1>1, <1>2, <1>6, ConfirmSentKeeps DEF MarkCopied
<1>7. CASE CloseLoop
  BY <1>1, <1>2, <1>7 DEF CloseLoop
<1>8. ASSUME NEW c \in Askers, NewAsker(c) PROVE DraftInv'
  BY <1>1, <1>2, <1>8 DEF NewAsker
<1> QED
  BY <1>3, <1>4, <1>5, <1>6, <1>7, <1>8 DEF DraftNext

\* What DraftHistory rests on holds in every reachable state of generations, sendings and
\* new askers.
THEOREM DraftInvariance == DraftSpec => []DraftInv
BY DraftStart, DraftStep, PTL DEF DraftSpec

\* A client's drafts are one chain, with one head unless generations overlapped
\* (emails/service.ts:191-229), for any number of clients, drafts and generations.
THEOREM DraftsAlwaysChain == DraftSpec => []DraftHistory
<1>1. DraftInv => DraftHistory
  <2> SUFFICES ASSUME DraftInv PROVE OneCurrentAlone
    <3>1. DraftInv => DraftChain
      BY DraftsAreASequence DEF DraftInv, LinksFit, SomeHead, DraftChain, Of
    <3> QED
      BY <3>1 DEF DraftHistory
  <2> SUFFICES ASSUME ~overlapped, NEW c \in Askers, Of(c) # {}
               PROVE  /\ Cardinality(Current(c)) = 1
                      /\ \A d \in Current(c) : drafts[d].version = Cardinality(Of(c))
    <3>1. \A c : Of(c) = {d \in DOMAIN drafts : drafts[d].client = c}
      BY DraftsAreASequence DEF DraftInv, Of
    <3> QED
      BY <3>1 DEF OneCurrentAlone
  <2>1. PICK d \in Of(c) : Current(c) = {d} /\ drafts[d].version = Cardinality(Of(c))
    BY DEF DraftInv, OneHead
  <2> QED
    BY <2>1, FS_Singleton
<1> QED
  BY <1>1, DraftInvariance, PTL

----------------------------------------------------------------------------
(***************************************************************************)
(* A digest goes out once unless checks overlap, for any number of checks  *)
(* and Mondays.  The reason is not the event of the day alone: only the    *)
(* latest event is looked at, so one has to know that while a Monday's     *)
(* check is alone nothing else is appended, and that events of earlier     *)
(* Mondays come no later (LatestIsToday, NoneBefore).                      *)
(***************************************************************************)

Trying(p) == try[p].phase # "idle"
Logged(m) == \E i \in 1 .. Len(sent) : sent[i] = m
AppendingOf(m) == \E p \in Tries : try[p].phase = "append" /\ try[p].monday = m
Untroubled == (1 .. Mondays) \ overlaps

\* The types the proof uses, and that nothing comes from a Monday still ahead.
DigestShape ==
  /\ monday \in Nat /\ sent \in Seq(Nat) /\ posts \in [1 .. Mondays -> Nat]
  /\ try \in [Tries -> [phase : {"idle", "check", "post", "append"}, monday : Nat]]
  /\ \A p \in Tries : Trying(p) => try[p].monday <= monday
  /\ \A i \in 1 .. Len(sent) : sent[i] <= monday

\* A check of a Monday without overlaps is the only check.
ChecksAlone ==
  \A m \in Untroubled, p, q \in Tries : Trying(p) /\ try[p].monday = m /\ Trying(q) => p = q

\* A check that is about to post is the first; what was posted is logged or about to be.
PostedOnce ==
  /\ \A m \in Untroubled :
       posts[m] = 0 \/ (posts[m] = 1 /\ (Logged(m) \/ AppendingOf(m)))
  /\ \A m \in Untroubled, p \in Tries :
       try[p].phase = "post" /\ try[p].monday = m => posts[m] = 0

\* While a logged Monday is checked, or may be, the latest event is its own.
LatestIsToday ==
  \A m \in Untroubled :
    Logged(m) /\ (monday = m \/ \E p \in Tries : Trying(p) /\ try[p].monday = m)
      => sent[Len(sent)] = m

\* A check of an earlier Monday has ended by the time a Monday is logged.
NoneBefore == \A m \in Untroubled, p \in Tries : Logged(m) /\ Trying(p) => try[p].monday >= m

DigestInv == DigestShape /\ ChecksAlone /\ PostedOnce /\ LatestIsToday /\ NoneBefore

----------------------------------------------------------------------------
\* Nothing has been sent, and nobody is checking.
LEMMA DigestStart == DailyInit => DigestInv
<1> SUFFICES ASSUME DailyInit PROVE DigestInv
  OBVIOUS
<1>1. /\ monday = 1 /\ sent = <<>> /\ Len(sent) = 0
      /\ try \in [Tries -> [phase : {"idle", "check", "post", "append"}, monday : Nat]]
      /\ \A p \in Tries : try[p].phase = "idle"
      /\ posts = [m \in 1 .. Mondays |-> 0]
  BY DEF DailyInit, NoTry
<1>2. DigestShape
  BY <1>1 DEF DigestShape, Trying
<1>3. \A m : ~Logged(m)
  BY <1>1 DEF Logged
<1>4. ChecksAlone
  BY <1>1 DEF ChecksAlone, Trying
<1>5. PostedOnce
  <2>1. \A m \in Untroubled : posts[m] = 0
    BY <1>1 DEF Untroubled
  <2>2. \A p \in Tries : try[p].phase # "post"
    BY <1>1
  <2>3. \A m \in Untroubled : posts[m] = 0 \/ (posts[m] = 1 /\ (Logged(m) \/ AppendingOf(m)))
    BY <2>1
  <2> QED
    BY <2>2, <2>3 DEF PostedOnce
<1>6. LatestIsToday /\ NoneBefore
  BY <1>3 DEF LatestIsToday, NoneBefore
<1> QED
  BY <1>2, <1>4, <1>5, <1>6 DEF DigestInv

\* A check that starts beside another troubles its Monday and the other's.
LEMMA StartKeeps == ASSUME DigestInv, NEW r \in Tries, StartDigest(r) PROVE DigestInv'
<1> USE DEF Trying, Untroubled
<1>1. /\ UNCHANGED <<monday, sent, posts>>
      /\ try' = [try EXCEPT ![r] = [phase |-> "check", monday |-> monday]]
      /\ ~Trying(r)
      /\ \A m \in Untroubled' : m \in Untroubled
      /\ \A m \in Untroubled', q \in Tries : Trying(q) => try[q].monday # m /\ monday # m
  BY DEF StartDigest, Sending
<1>2. \A m : Logged(m)' <=> Logged(m)
  BY <1>1 DEF Logged
<1>3. \A m : AppendingOf(m)' <=> AppendingOf(m)
  BY <1>1 DEF AppendingOf, DigestInv, DigestShape
<1>4. DigestShape'
  BY <1>1 DEF DigestInv, DigestShape
<1>5. ChecksAlone'
  BY <1>1 DEF DigestInv, DigestShape, ChecksAlone
<1>6. PostedOnce'
  BY <1>1, <1>2, <1>3 DEF DigestInv, DigestShape, PostedOnce
<1>7. LatestIsToday'
  BY <1>1, <1>2 DEF DigestInv, DigestShape, LatestIsToday
<1>8. NoneBefore'
  <2> SUFFICES ASSUME NEW m \in Untroubled', NEW p \in Tries, Logged(m)', Trying(p)'
               PROVE  try'[p].monday >= m
    BY DEF NoneBefore
  <2>1. Logged(m) /\ m \in Untroubled /\ m <= monday /\ m \in Nat
    BY <1>1, <1>2 DEF Logged, DigestInv, DigestShape
  <2> QED
    BY <1>1, <2>1 DEF DigestInv, DigestShape, NoneBefore
<1> QED
  BY <1>4, <1>5, <1>6, <1>7, <1>8 DEF DigestInv

\* A check ends at the latest event, if it is of its Monday; if it goes on to post, none is.
LEMMA CheckKeeps == ASSUME DigestInv, NEW r \in Tries, CheckSent(r) PROVE DigestInv'
<1> USE DEF Trying, Untroubled
<1>1. /\ UNCHANGED <<monday, sent, posts, overlaps>> /\ try[r].phase = "check"
      /\ try' = [try EXCEPT ![r] = IF sent # <<>> /\ sent[Len(sent)] = try[r].monday THEN NoTry
                                   ELSE [try[r] EXCEPT !.phase = "post"]]
  BY DEF CheckSent
<1>2. \A m : Logged(m)' <=> Logged(m)
  BY <1>1 DEF Logged
<1>3. /\ try' \in [Tries -> [phase : {"idle", "check", "post", "append"}, monday : Nat]]
      /\ \A p \in Tries : p # r => try'[p] = try[p]
      /\ try'[r].phase \in {"idle", "post"}
      /\ Trying(r)' => try'[r].monday = try[r].monday
      /\ try'[r].phase = "post" => ~(sent # <<>> /\ sent[Len(sent)] = try[r].monday)
  BY <1>1 DEF NoTry, DigestInv, DigestShape
<1>4. \A m : AppendingOf(m)' <=> AppendingOf(m)
  BY <1>1, <1>3 DEF AppendingOf
<1>5. DigestShape'
  BY <1>1, <1>3 DEF DigestInv, DigestShape
<1>6. ChecksAlone'
  BY <1>1, <1>3 DEF DigestInv, DigestShape, ChecksAlone
<1>7. PostedOnce'
  <2>1. ASSUME NEW m \in Untroubled, try'[r].phase = "post", try'[r].monday = m
        PROVE  posts[m] = 0
    <3>1. ~AppendingOf(m)
      BY <1>1, <1>3, <2>1 DEF AppendingOf, DigestInv, ChecksAlone
    <3>2. Logged(m) => sent # <<>> /\ sent[Len(sent)] = m
      BY SMTT(20), <1>1, <1>3, <2>1 DEF Logged, DigestInv, LatestIsToday, DigestShape
    <3> QED
      BY <1>3, <2>1, <3>1, <3>2 DEF DigestInv, PostedOnce
  <2> QED
    BY <1>1, <1>2, <1>3, <1>4, <2>1 DEF DigestInv, PostedOnce
<1>8. LatestIsToday'
  BY <1>1, <1>2, <1>3 DEF DigestInv, LatestIsToday
<1>9. NoneBefore'
  BY <1>1, <1>2, <1>3 DEF DigestInv, NoneBefore
<1> QED
  BY <1>5, <1>6, <1>7, <1>8, <1>9 DEF DigestInv

\* A post is the first of its Monday, or the Monday is troubled.
LEMMA PostKeeps == ASSUME DigestInv, NEW r \in Tries, Post(r) PROVE DigestInv'
<1> USE DEF Trying, Untroubled
<1>1. /\ UNCHANGED <<monday, sent, overlaps>> /\ try[r].phase = "post"
      /\ posts' = [posts EXCEPT ![try[r].monday] = @ + 1]
      /\ try' = [try EXCEPT ![r].phase = "append"]
  BY DEF Post
<1>2. \A m : Logged(m)' <=> Logged(m)
  BY <1>1 DEF Logged
<1>3. /\ try' \in [Tries -> [phase : {"idle", "check", "post", "append"}, monday : Nat]]
      /\ \A p \in Tries : p # r => try'[p] = try[p]
      /\ try'[r].phase = "append" /\ try'[r].monday = try[r].monday
  BY <1>1 DEF DigestInv, DigestShape
<1>4. DigestShape'
  <2>1. posts' \in [1 .. Mondays -> Nat]
    <3> DEFINE d == try[r].monday
    <3>1. posts \in [1 .. Mondays -> Nat] /\ posts' = [posts EXCEPT ![d] = posts[d] + 1]
      BY <1>1 DEF DigestInv, DigestShape
    <3> HIDE DEF d
    <3>2. posts' = [m \in 1 .. Mondays |-> IF m = d THEN posts[m] + 1 ELSE posts[m]]
      BY <3>1
    <3>3. \A m \in 1 .. Mondays : posts[m] \in Nat /\ posts[m] + 1 \in Nat
      BY <3>1
    <3> QED
      BY <3>2, <3>3
  <2>2. \A p \in Tries : Trying(p)' => try'[p].monday <= monday
    BY <1>1, <1>3 DEF DigestInv, DigestShape
  <2> HIDE DEF Trying
  <2> QED
    BY <1>1, <1>3, <2>1, <2>2 DEF DigestInv, DigestShape
<1>5. ChecksAlone'
  BY <1>1, <1>3 DEF DigestInv, ChecksAlone
<1>6. PostedOnce'
  <2>1. ASSUME NEW m \in Untroubled
        PROVE  posts'[m] = 0 \/ (posts'[m] = 1 /\ (Logged(m)' \/ AppendingOf(m)'))
    <3>1. CASE m = try[r].monday
      <4>1. posts[m] = 0
        BY <1>1, <3>1 DEF DigestInv, PostedOnce
      <4>2. posts'[m] = 1
        BY <1>1, <3>1, <4>1 DEF DigestInv, DigestShape
      <4> QED
        BY <1>3, <3>1, <4>2 DEF AppendingOf
    <3>2. CASE m # try[r].monday
      <4>1. posts'[m] = posts[m]
        BY <1>1, <3>2 DEF DigestInv, DigestShape
      <4>2. AppendingOf(m) => AppendingOf(m)'
        BY <1>1, <1>3 DEF AppendingOf
      <4> QED
        BY <1>2, <4>1, <4>2 DEF DigestInv, PostedOnce
    <3> QED
      BY <3>1, <3>2
  <2>2. ASSUME NEW m \in Untroubled, NEW p \in Tries, try'[p].phase = "post", try'[p].monday = m
        PROVE  posts'[m] = 0
    <3>1. p # r /\ try[p] = try'[p]
      BY <1>3, <2>2
    <3>2. try[r].monday # m /\ posts[m] = 0
      BY <1>1, <2>2, <3>1 DEF DigestInv, ChecksAlone, PostedOnce
    <3> QED
      BY <1>1, <3>2 DEF DigestInv, DigestShape
  <2> QED
    BY <1>1, <2>1, <2>2 DEF PostedOnce
<1>7. LatestIsToday'
  BY <1>1, <1>2, <1>3 DEF DigestInv, LatestIsToday
<1>8. NoneBefore'
  BY <1>1, <1>2, <1>3 DEF DigestInv, NoneBefore
<1> QED
  BY <1>4, <1>5, <1>6, <1>7, <1>8 DEF DigestInv

\* The event of a Monday without overlaps is appended while no other check is in flight.
LEMMA AppendKeeps == ASSUME DigestInv, NEW r \in Tries, AppendSent(r) PROVE DigestInv'
<1> USE DEF Trying, Untroubled
<1> DEFINE d == try[r].monday
<1>1. /\ UNCHANGED <<monday, posts, overlaps>> /\ try[r].phase = "append"
      /\ sent' = Append(sent, d) /\ try' = [try EXCEPT ![r] = NoTry]
  BY DEF AppendSent
<1>2. /\ d \in Nat /\ d <= monday /\ monday \in Nat /\ sent \in Seq(Nat)
  BY <1>1 DEF DigestInv, DigestShape
<1>3. /\ sent' \in Seq(Nat) /\ Len(sent') = Len(sent) + 1 /\ sent'[Len(sent')] = d
      /\ \A i \in 1 .. Len(sent) : sent'[i] = sent[i]
      /\ Len(sent) \in Nat
  BY <1>1, <1>2
<1>4. \A m : Logged(m)' <=> Logged(m) \/ m = d
  BY SMTT(20), <1>3 DEF Logged
<1>5. /\ try' \in [Tries -> [phase : {"idle", "check", "post", "append"}, monday : Nat]]
      /\ \A p \in Tries : p # r => try'[p] = try[p]
      /\ ~Trying(r)'
  BY <1>1 DEF NoTry, DigestInv, DigestShape
<1> HIDE DEF d
<1>6. DigestShape'
  <2>1. \A i \in 1 .. Len(sent') : sent'[i] <= monday
    <3> SUFFICES ASSUME NEW i \in 1 .. Len(sent') PROVE sent'[i] <= monday
      OBVIOUS
    <3>1. CASE i \in 1 .. Len(sent)
      BY <1>3, <3>1 DEF DigestInv, DigestShape
    <3>2. CASE i = Len(sent')
      BY <1>2, <1>3, <3>2
    <3> QED
      BY <1>3, <3>1, <3>2
  <2> QED
    BY <1>1, <1>3, <1>5, <2>1 DEF DigestInv, DigestShape
<1>7. ChecksAlone'
  BY <1>1, <1>5 DEF DigestInv, ChecksAlone
<1>8. PostedOnce'
  <2>1. \A m \in Untroubled : AppendingOf(m) => AppendingOf(m)' \/ m = d
    BY <1>5 DEF AppendingOf, d
  <2> QED
    BY <1>1, <1>4, <1>5, <2>1 DEF DigestInv, PostedOnce
<1>9. LatestIsToday'
  <2> SUFFICES ASSUME NEW m \in Untroubled, Logged(m), m # d,
                      monday = m \/ \E p \in Tries : Trying(p)' /\ try'[p].monday = m
               PROVE  FALSE
    BY <1>1, <1>3, <1>4 DEF LatestIsToday
  <2>1. CASE monday = m
    BY <1>1, <1>2, <2>1 DEF DigestInv, NoneBefore, d
  <2>2. ASSUME NEW p \in Tries, Trying(p)', try'[p].monday = m
        PROVE  FALSE
    BY <1>1, <1>5, <2>2 DEF DigestInv, ChecksAlone
  <2> QED
    BY <2>1, <2>2
<1>10. NoneBefore'
  <2> SUFFICES ASSUME NEW m \in Untroubled, NEW p \in Tries, Logged(m)', Trying(p)'
               PROVE  try'[p].monday >= m
    BY <1>1 DEF NoneBefore
  <2>1. p # r /\ try'[p] = try[p]
    BY <1>5
  <2>2. CASE m = d
    BY <1>1, <1>5, <2>1, <2>2 DEF DigestInv, ChecksAlone, d
  <2>3. CASE Logged(m)
    BY <2>1, <2>3 DEF DigestInv, NoneBefore
  <2> QED
    BY <1>4, <2>2, <2>3
<1> QED
  BY <1>6, <1>7, <1>8, <1>9, <1>10 DEF DigestInv

\* A check that dies after its post troubles its Monday.
LEMMA DeathKeeps == ASSUME DigestInv, NEW r \in Tries, TryDies(r) PROVE DigestInv'
<1> USE DEF Trying, Untroubled
<1>1. /\ UNCHANGED <<monday, sent, posts>> /\ try' = [try EXCEPT ![r] = NoTry]
      /\ \A m \in Untroubled' : m \in Untroubled
      /\ \A m \in Untroubled' : try[r].phase = "append" => try[r].monday # m
  BY DEF TryDies
<1>2. \A m : Logged(m)' <=> Logged(m)
  BY <1>1 DEF Logged
<1>3. /\ try' \in [Tries -> [phase : {"idle", "check", "post", "append"}, monday : Nat]]
      /\ \A p \in Tries : p # r => try'[p] = try[p]
      /\ ~Trying(r)'
  BY <1>1 DEF NoTry, DigestInv, DigestShape
<1>4. \A m \in Untroubled' : AppendingOf(m) => AppendingOf(m)'
  BY <1>1, <1>3 DEF AppendingOf
<1>5. DigestShape'
  BY <1>1, <1>3 DEF DigestInv, DigestShape
<1>6. ChecksAlone'
  BY <1>1, <1>3 DEF DigestInv, ChecksAlone
<1>7. PostedOnce'
  BY <1>1, <1>2, <1>3, <1>4 DEF DigestInv, PostedOnce
<1>8. LatestIsToday'
  BY <1>1, <1>2, <1>3 DEF DigestInv, LatestIsToday
<1>9. NoneBefore'
  BY <1>1, <1>2, <1>3 DEF DigestInv, NoneBefore
<1> QED
  BY <1>5, <1>6, <1>7, <1>8, <1>9 DEF DigestInv

\* The next Monday has no events yet.
LEMMA MondayKeeps == ASSUME DigestInv, NextMonday PROVE DigestInv'
<1> USE DEF Trying, Untroubled
<1>1. monday' = monday + 1 /\ UNCHANGED <<sent, try, posts, overlaps>>
  BY DEF NextMonday
<1>2. \A m : /\ Logged(m)' <=> Logged(m)
             /\ AppendingOf(m)' <=> AppendingOf(m)
  BY <1>1 DEF Logged, AppendingOf
<1>3. DigestShape'
  BY <1>1 DEF DigestInv, DigestShape
<1>4. LatestIsToday'
  <2>1. ~Logged(monday')
    BY <1>1 DEF Logged, DigestInv, DigestShape
  <2> QED
    BY <1>1, <1>2, <2>1 DEF DigestInv, LatestIsToday
<1>5. ChecksAlone' /\ PostedOnce' /\ NoneBefore'
  BY <1>1, <1>2 DEF DigestInv, ChecksAlone, PostedOnce, NoneBefore
<1> QED
  BY <1>3, <1>4, <1>5 DEF DigestInv

\* What leaves the digest alone keeps it.
LEMMA RestKeeps == DigestInv /\ UNCHANGED digestVars => DigestInv'
  BY DEF digestVars, DigestInv, DigestShape, ChecksAlone, PostedOnce, LatestIsToday, NoneBefore,
         Trying, Logged, AppendingOf, Untroubled

\* No step of the digest, nor of the sweeps beside it, breaks the invariant.
LEMMA DigestStep == DigestInv /\ [DailyNext]_dailyVars => DigestInv'
<1> SUFFICES ASSUME DigestInv, [DailyNext]_dailyVars PROVE DigestInv'
  OBVIOUS
<1>1. CASE DigestNext
  BY <1>1, StartKeeps, CheckKeeps, PostKeeps, AppendKeeps, DeathKeeps, MondayKeeps DEF DigestNext
<1>2. CASE SweepNext
  BY <1>2, RestKeeps DEF SweepNext, StartSweep, SweepSpace, NewSpace
<1>3. CASE UNCHANGED dailyVars
  BY <1>3, RestKeeps DEF dailyVars
<1> QED
  BY <1>1, <1>2, <1>3 DEF DailyNext

\* "Fire the digest once" (digest.ts:197): no restart, second instance or cron sends a
\* Monday's digest twice unless two checks overlap or one dies between post and event.
THEOREM DigestAlwaysOnceAlone == DailySpec => []DigestOnceAlone
<1>1. DigestInv /\ [DailyNext]_dailyVars => DigestInv'
  BY DigestStep
<1>2. DigestInv => DigestOnceAlone
  BY DEF DigestInv, PostedOnce, DigestShape, DigestOnceAlone, Untroubled
<1> QED
  BY <1>1, <1>2, DigestStart, PTL DEF DailySpec

----------------------------------------------------------------------------
(***************************************************************************)
(* However many servers, lookups and changes of the address there are, the *)
(* events a lookup answers with come from the address it read, and are     *)
(* younger than the cache's lifetime.  What is needed for it is how old an *)
(* entry can be: it was filled no earlier than the moment it is dated by.  *)
(***************************************************************************)

Urls == Feeds \cup {Unset}
EntryType == [url : Urls, fetchedAt : Nat, asOf : Nat]
LookupType ==
  [phase : {"idle", "check", "fetch", "answered"}, server : Servers \cup {"none"}, url : Urls,
   at : Nat, from : Urls, asOf : Nat]

\* The types the proof uses.
FeedShape ==
  /\ clock \in Nat /\ address \in Urls
  /\ cache \in [Servers -> EntryType]
  /\ lookup \in [Lookups -> LookupType]
  /\ \A l \in Lookups : lookup[l].phase \in {"check", "fetch"} => lookup[l].server \in Servers
  /\ \A c \in Changes : change[c].phase = "clear" => change[c].server \in Servers

\* An entry is dated by the look into the cache that found it missing, and its events
\* were read after that.
EntriesDatedEarly == \A s \in Servers : cache[s].fetchedAt <= cache[s].asOf

\* A fetch is dated by a moment that has passed.
FetchesPast == \A l \in Lookups : lookup[l].phase = "fetch" => lookup[l].at <= clock

FeedInv == FeedShape /\ EntriesDatedEarly /\ FetchesPast /\ FeedFollowsSettings

----------------------------------------------------------------------------
\* Nothing is cached and nobody has asked.
LEMMA FeedStart == FeedInit => FeedInv
  BY DEF FeedInit, FeedInv, FeedShape, EntriesDatedEarly, FetchesPast, FeedFollowsSettings,
         NoLookup, NoChange, Empty, Urls, EntryType, LookupType

\* Time passes.
LEMMA FeedTickKeeps == FeedInv /\ FeedTick => FeedInv'
  BY DEF FeedInv, FeedTick, FeedShape, EntriesDatedEarly, FetchesPast, FeedFollowsSettings,
         Urls, EntryType, LookupType

\* An admin changes the address; lookups on their way keep what they read.
LEMMA ChangeKeeps ==
  ASSUME FeedInv, NEW c \in Changes,
         \/ \E s \in Servers, url \in Feeds \cup {Unset} : ChangeFeed(c, s, url)
         \/ ClearCache(c)
  PROVE  FeedInv'
<1>1. ASSUME NEW s \in Servers, NEW url \in Feeds \cup {Unset}, ChangeFeed(c, s, url)
      PROVE FeedInv'
  <2>1. /\ address' \in Urls /\ UNCHANGED <<clock, cache, lookup>>
        /\ \A d \in Changes : change'[d].phase = "clear" => change'[d].server \in Servers
    BY <1>1 DEF ChangeFeed, FeedInv, FeedShape, Urls
  <2> QED
    BY <2>1 DEF FeedInv, FeedShape, EntriesDatedEarly, FetchesPast, FeedFollowsSettings
<1>2. CASE ClearCache(c)
  <2>1. Empty \in EntryType /\ Empty.fetchedAt <= Empty.asOf
    BY DEF Empty, EntryType, Urls
  <2>2. change[c].server \in Servers
    BY <1>2 DEF ClearCache, FeedInv, FeedShape
  <2>3. /\ UNCHANGED <<clock, address, lookup>>
        /\ cache' \in [Servers -> EntryType] /\ EntriesDatedEarly'
    BY <1>2, <2>1, <2>2 DEF ClearCache, FeedInv, FeedShape, EntriesDatedEarly
  <2>4. \A d \in Changes : change'[d].phase = "clear" => change'[d].server \in Servers
    BY <1>2 DEF ClearCache, FeedInv, FeedShape, NoChange
  <2> QED
    BY <2>3, <2>4 DEF FeedInv, FeedShape, FetchesPast, FeedFollowsSettings
<1> QED
  BY <1>1, <1>2

\* A lookup reads the address, then looks into the cache: what it finds there is of
\* that address, and no older than the lifetime.
LEMMA LookupKeeps ==
  ASSUME FeedInv, NEW l \in Lookups,
         \/ \E s \in Servers : BeginLookup(l, s)
         \/ CheckCache(l) \/ FeedAnswers(l) \/ LookupEnds(l)
  PROVE  FeedInv'
<1> DEFINE entry == cache[lookup[l].server]
<1>1. /\ Ttl \in Nat /\ Ttl > 0 /\ clock \in Nat /\ lookup[l] \in LookupType
      /\ lookup[l].at \in Nat /\ lookup[l].url \in Urls /\ lookup[l].asOf \in Nat
  BY FeedAssumption DEF FeedInv, FeedShape, LookupType
<1>2. ASSUME NEW k \in LookupType, lookup' = [lookup EXCEPT ![l] = k],
             UNCHANGED <<clock, address, change>>,
             cache' \in [Servers -> EntryType], EntriesDatedEarly',
             k.phase \in {"check", "fetch"} => k.server \in Servers,
             k.phase = "fetch" => k.at <= clock,
             k.phase = "answered" => k.from = k.url /\ k.asOf + Ttl > k.at
      PROVE FeedInv'
  BY <1>2 DEF FeedInv, FeedShape, FetchesPast, FeedFollowsSettings
<1>3. ASSUME NEW s \in Servers, BeginLookup(l, s)
      PROVE FeedInv'
  <2> DEFINE k == [NoLookup EXCEPT !.phase = "check", !.server = s, !.url = address]
  <2>1. /\ k \in LookupType /\ k.phase = "check" /\ k.server = s
    BY DEF NoLookup, LookupType, Urls, FeedInv, FeedShape
  <2>2. lookup' = [lookup EXCEPT ![l] = k] /\ UNCHANGED <<clock, address, cache, change>>
    BY <1>3 DEF BeginLookup
  <2> HIDE DEF k
  <2> QED
    BY <1>2, <2>1, <2>2 DEF FeedInv, FeedShape, EntriesDatedEarly
<1>4. CASE CheckCache(l)
  <2>1. lookup[l].server \in Servers
    BY <1>4 DEF CheckCache, FeedInv, FeedShape
  <2>2. entry \in EntryType /\ entry.fetchedAt <= entry.asOf
    BY <2>1 DEF FeedInv, FeedShape, EntriesDatedEarly
  <2>3. CASE entry.url = lookup[l].url /\ clock - entry.fetchedAt < Ttl
    <3> DEFINE k == [lookup[l] EXCEPT !.phase = "answered", !.server = "none", !.at = clock,
                                      !.from = entry.url, !.asOf = entry.asOf]
    <3>1. /\ k \in LookupType /\ k.phase = "answered" /\ k.from = k.url
          /\ k.asOf = entry.asOf /\ k.at = clock
      BY <1>1, <2>2, <2>3 DEF LookupType, EntryType
    <3>2. entry.asOf + Ttl > clock
      BY <1>1, <2>2, <2>3 DEF EntryType
    <3>3. lookup' = [lookup EXCEPT ![l] = k] /\ UNCHANGED <<clock, address, cache, change>>
      BY <1>4, <2>3 DEF CheckCache
    <3> HIDE DEF k
    <3> QED
      BY <1>2, <3>1, <3>2, <3>3 DEF FeedInv, FeedShape, EntriesDatedEarly
  <2>4. CASE ~(entry.url = lookup[l].url /\ clock - entry.fetchedAt < Ttl)
    <3> DEFINE k == [lookup[l] EXCEPT !.phase = "fetch", !.at = clock]
    <3>1. /\ k \in LookupType /\ k.phase = "fetch" /\ k.server \in Servers /\ k.at = clock
      BY <1>1, <2>1 DEF LookupType
    <3>2. lookup' = [lookup EXCEPT ![l] = k] /\ UNCHANGED <<clock, address, cache, change>>
      BY <1>4, <2>4 DEF CheckCache
    <3> HIDE DEF k
    <3>3. k.at <= clock
      BY <1>1, <3>1
    <3>4. cache' \in [Servers -> EntryType] /\ EntriesDatedEarly'
      BY <3>2 DEF FeedInv, FeedShape, EntriesDatedEarly
    <3> QED
      BY <1>2, <3>1, <3>2, <3>3, <3>4
  <2> QED
    BY <2>3, <2>4
<1>5. CASE FeedAnswers(l)
  <2> DEFINE k == [lookup[l] EXCEPT !.phase = "answered", !.server = "none",
                                    !.from = lookup[l].url, !.asOf = clock]
             e == [url |-> lookup[l].url, fetchedAt |-> lookup[l].at, asOf |-> clock]
  <2>1. lookup[l].server \in Servers /\ lookup[l].at <= clock
    BY <1>5 DEF FeedAnswers, FeedInv, FeedShape, FetchesPast
  <2>2. /\ k \in LookupType /\ k.phase = "answered" /\ k.from = k.url
        /\ k.asOf = clock /\ k.at = lookup[l].at
    BY <1>1 DEF LookupType
  <2>3. e \in EntryType /\ e.fetchedAt <= e.asOf
    BY <1>1, <2>1 DEF EntryType
  <2>4. /\ lookup' = [lookup EXCEPT ![l] = k] /\ cache' = [cache EXCEPT ![lookup[l].server] = e]
        /\ UNCHANGED <<clock, address, change>>
    BY <1>5 DEF FeedAnswers
  <2> HIDE DEF k, e
  <2>5. cache' \in [Servers -> EntryType] /\ EntriesDatedEarly'
    BY <2>1, <2>3, <2>4 DEF FeedInv, FeedShape, EntriesDatedEarly
  <2>6. k.asOf + Ttl > k.at
    BY <1>1, <2>1, <2>2
  <2> QED
    BY <1>2, <2>2, <2>4, <2>5, <2>6
<1>6. CASE LookupEnds(l)
  <2>1. NoLookup \in LookupType /\ NoLookup.phase = "idle"
    BY DEF NoLookup, LookupType, Urls
  <2>2. lookup' = [lookup EXCEPT ![l] = NoLookup] /\ UNCHANGED <<clock, address, cache, change>>
    BY <1>6 DEF LookupEnds
  <2> QED
    BY <1>2, <2>1, <2>2 DEF FeedInv, FeedShape, EntriesDatedEarly
<1> QED
  BY <1>3, <1>4, <1>5, <1>6

\* No step breaks the invariant.
LEMMA FeedStepKeeps == FeedInv /\ [FeedNext]_feedVars => FeedInv'
<1> SUFFICES ASSUME FeedInv, [FeedNext]_feedVars PROVE FeedInv'
  OBVIOUS
<1>1. CASE FeedNext
  BY <1>1, FeedTickKeeps, ChangeKeeps, LookupKeeps DEF FeedNext
<1>2. CASE UNCHANGED feedVars
  BY <1>2 DEF feedVars, FeedInv, FeedShape, EntriesDatedEarly, FetchesPast, FeedFollowsSettings
<1> QED
  BY <1>1, <1>2

\* The feed follows the settings: no server answers with another address's events, nor
\* with events as old as the cache's lifetime, whatever overlaps (calendar/service.ts:95).
THEOREM FeedAlwaysFollows == FeedSpec => []FeedFollowsSettings
<1>1. FeedInit => FeedInv
  BY FeedStart
<1>2. FeedInv /\ [FeedNext]_feedVars => FeedInv'
  BY FeedStepKeeps
<1>3. FeedInv => FeedFollowsSettings
  BY DEF FeedInv
<1> QED
  BY <1>1, <1>2, <1>3, PTL DEF FeedSpec

----------------------------------------------------------------------------
(*****************************************************************************)
(* CalendarTimes: the two guesses of zonedToUtc.                             *)
(*****************************************************************************)

\* A time the zone's clocks show is kept: the instant it becomes reads as that
\* time again, before, at and after any change of the clocks, whichever way it goes
\* and however large ("Two-pass for DST edges", ics.ts:125).  One pass would not do.
THEOREM WallTimesKept ==
  ASSUME NEW zone \in Zones, NEW wall \in Int,
         \E utc \in Int : Reads(zone, utc, wall)
  PROVE  Reads(zone, ZonedToUtc(zone, wall), wall)
<1> DEFINE first == OffsetAt(zone, wall)
           second == OffsetAt(zone, wall - first)
<1>1. first \in Int /\ second \in Int /\ zone.at \in Int /\ zone.before \in Int
      /\ zone.after \in Int
  BY DEF OffsetAt, Zones
<1>2. ZonedToUtc(zone, wall) = wall - second
  BY DEF ZonedToUtc, Guess
<1>3. CASE second = first
  BY <1>1, <1>2, <1>3 DEF Reads
<1>4. CASE second # first
  <2>1. PICK utc \in Int : utc + OffsetAt(zone, utc) = wall
    BY DEF Reads
  \* The instant the wall clock was read at is the second guess.
  <2>2. OffsetAt(zone, wall - second) = second
    BY <1>1, <1>4, <2>1 DEF OffsetAt
  <2> QED
    BY <1>1, <1>2, <2>2 DEF Reads
<1> QED
  BY <1>3, <1>4

\* A time the clocks skip becomes an instant all the same (ics.ts:133-137), which reads
\* earlier or later than the time by exactly what the change of the clocks moves them.
THEOREM SkippedTimesNear ==
  ASSUME NEW zone \in Zones, NEW wall \in Int,
         ~\E utc \in Int : Reads(zone, utc, wall)
  PROVE  LET utc == ZonedToUtc(zone, wall) IN
         utc + OffsetAt(zone, utc) - wall \in
           {zone.after - zone.before, zone.before - zone.after}
<1> DEFINE utc == ZonedToUtc(zone, wall)
           used == wall - utc
<1>1. zone.at \in Int /\ zone.before \in Int /\ zone.after \in Int
  BY DEF Zones
<1>2. used \in {zone.before, zone.after} /\ utc \in Int
  BY <1>1 DEF ZonedToUtc, Guess, OffsetAt
<1>3. OffsetAt(zone, utc) # used
  BY <1>1, <1>2 DEF Reads, OffsetAt
<1>4. OffsetAt(zone, utc) \in {zone.before, zone.after}
  BY DEF OffsetAt
<1>5. utc + OffsetAt(zone, utc) - wall = OffsetAt(zone, utc) - used
  BY <1>1, <1>2, <1>4
<1> HIDE DEF utc, used
<1>6. OffsetAt(zone, utc) - used \in {zone.after - zone.before, zone.before - zone.after}
  BY <1>1, <1>2, <1>3, <1>4
<1> QED
  BY <1>5, <1>6 DEF utc

----------------------------------------------------------------------------
\* A sequence of elements of another set.
LEMMA SeqInto ==
  ASSUME NEW A, NEW B, NEW s \in Seq(A), \A n \in 1 .. Len(s) : s[n] \in B
  PROVE  s \in Seq(B)
  OBVIOUS

----------------------------------------------------------------------------
(* ReleaseWatch *)

\* Ids of the feed and of pasted changelogs.
Known == 1 .. Len(feed) \cup Tags

\* What is stored and what a run carries are releases there are.
FeedFits ==
  /\ Len(feed) <= MaxRels
  /\ \A m \in 1 .. Len(mirror) : mirror[m] \in Known
  /\ \A p \in Pollers : /\ poll[p].todo \subseteq 1 .. Len(feed)
                        /\ poll[p].phase = "insert" => poll[p].rel \in Known

ReleaseTyped == ReleaseInv /\ FeedFits

\* The feed is empty.
LEMMA ReleaseTypedAtFirst == ReleaseInit => ReleaseTyped
<1> SUFFICES ASSUME ReleaseInit PROVE ReleaseTyped
  OBVIOUS
<1>1. feed = <<>> /\ mirror = <<>> /\ \A p \in Pollers : poll[p] = Dormant
  BY DEF ReleaseInit
<1>2. Dormant.todo = {} /\ Dormant.phase = "idle"
  BY DEF Dormant
<1>3. FeedFits
  BY <1>1, <1>2, PageAssumption DEF FeedFits
<1> QED
  BY <1>3, ReleaseStart DEF ReleaseTyped

\* A step of one run, which stores at most what it carries.
LEMMA PollFeedFits ==
  ASSUME ReleaseTyped, NEW p \in Pollers, NEW q, feed' = feed,
         poll' = [poll EXCEPT ![p] = q],
         mirror' = mirror \/ (poll[p].phase = "insert" /\ mirror' = Append(mirror, poll[p].rel)),
         q.todo \subseteq 1 .. Len(feed), q.phase = "insert" => q.rel \in Known
  PROVE  FeedFits'
<1>1. /\ mirror \in Seq(Nat) /\ FeedFits /\ poll \in [Pollers -> PollRecord]
      /\ Known' = Known
  BY DEF ReleaseTyped, ReleaseInv, ReleaseShape, Known
<1>2. \A o \in Pollers : poll'[o] = IF o = p THEN q ELSE poll[o]
  BY <1>1
<1>3. \A m \in 1 .. Len(mirror') : mirror'[m] \in Known
  <2>1. CASE mirror' = mirror
    BY <1>1, <2>1 DEF FeedFits
  <2>2. CASE poll[p].phase = "insert" /\ mirror' = Append(mirror, poll[p].rel)
    <3>1. poll[p].rel \in Known /\ poll[p].rel \in Nat
      BY <1>1, <2>2 DEF FeedFits, PollRecord
    <3>2. \A m \in 1 .. Len(mirror') :
            IF m = Len(mirror) + 1 THEN mirror'[m] = poll[p].rel
            ELSE m \in 1 .. Len(mirror) /\ mirror'[m] = mirror[m]
      BY <1>1, <2>2, <3>1
    <3> QED
      BY <1>1, <3>1, <3>2 DEF FeedFits
  <2> QED
    BY <2>1, <2>2
<1> QED
  BY <1>1, <1>2, <1>3 DEF FeedFits

\* Every step keeps the types of the poller and its feed.
LEMMA ReleaseTypedStep == ReleaseTyped /\ [ReleaseNext]_releaseVars => ReleaseTyped'
<1> SUFFICES ASSUME ReleaseTyped, [ReleaseNext]_releaseVars PROVE FeedFits'
  BY ReleaseStep DEF ReleaseTyped
<1>0. /\ feed \in Seq(BOOLEAN) /\ Len(feed) \in Nat /\ DOMAIN feed = 1 .. Len(feed) /\ FeedFits
      /\ mirror \in Seq(Nat)
      /\ \A p \in Pollers : poll[p] \in PollRecord
      /\ Dormant.todo = {} /\ Dormant.phase = "idle"
  BY DEF ReleaseTyped, ReleaseInv, ReleaseShape, Dormant
<1>1. CASE Publish
  <2>1. UNCHANGED <<mirror, poll>> /\ feed' \in Seq(BOOLEAN) /\ Len(feed') <= MaxRels /\ Len(feed) <= Len(feed')
    BY <1>0, <1>1, PublishFits DEF Publish, FeedFits
  <2>2. Len(feed') \in Nat /\ 1 .. Len(feed) \subseteq 1 .. Len(feed') /\ Known \subseteq Known'
    BY <1>0, <2>1 DEF Known
  <2> QED
    BY <1>0, <2>1, <2>2 DEF FeedFits
<1>2. CASE UNCHANGED <<feed, mirror, poll>>
  BY <1>0, <1>2 DEF FeedFits, Known
<1>3. ASSUME NEW p \in Pollers, FetchReleases(p) PROVE FeedFits'
  <2> DEFINE news == {n \in DOMAIN feed : OnPage(n) /\ ~feed[n]}
             q == [Dormant EXCEPT !.phase = "upsert", !.todo = news]
  <2>1. q.todo = news /\ q.phase = "upsert" /\ news \subseteq 1 .. Len(feed)
    BY <1>0 DEF Dormant
  <2>2. UNCHANGED <<feed, mirror>> /\ poll' = [poll EXCEPT ![p] = q]
    BY <1>3 DEF FetchReleases
  <2> HIDE DEF q, news
  <2> QED
    BY <2>1, <2>2, PollFeedFits
<1>4. ASSUME NEW p \in Pollers, NEW n \in DOMAIN feed, LookUp(p, n) PROVE FeedFits'
  <2>1. PICK q : /\ poll' = [poll EXCEPT ![p] = q] /\ UNCHANGED <<feed, mirror>>
                 /\ q.todo = poll[p].todo \ {n}
                 /\ q.phase = "insert" => q.rel = n
    <3> DEFINE q1 == [poll[p] EXCEPT !.todo = @ \ {n}]
               q2 == [poll[p] EXCEPT !.phase = "insert", !.rel = n, !.todo = @ \ {n}]
    <3>1. /\ UNCHANGED <<feed, mirror>> /\ poll[p].phase = "upsert"
          /\ poll' = [poll EXCEPT ![p] = q1] \/ poll' = [poll EXCEPT ![p] = q2]
      <4>1. CASE Mirrored(n)
        BY <1>4, <4>1 DEF LookUp
      <4>2. CASE ~Mirrored(n)
        BY <1>4, <4>2 DEF LookUp
      <4> QED
        BY <4>1, <4>2
    <3>2. /\ q1.todo = poll[p].todo \ {n} /\ q1.phase = "upsert"
          /\ q2.todo = poll[p].todo \ {n} /\ q2.rel = n
      BY <1>0, <3>1 DEF PollRecord
    <3> HIDE DEF q1, q2
    <3> QED
      BY <3>1, <3>2
  <2> QED
    BY <1>0, <2>1, PollFeedFits DEF FeedFits, Known
<1>5. ASSUME NEW p \in Pollers, NEW t \in Tags, LookUpTag(p, t) PROVE FeedFits'
  <2> DEFINE q == [Dormant EXCEPT !.phase = "insert", !.rel = t]
  <2>1. q.todo = {} /\ q.rel = t
    BY DEF Dormant
  <2>2. UNCHANGED <<feed, mirror>> /\ poll' = [poll EXCEPT ![p] = q]
    BY <1>5 DEF LookUpTag
  <2> HIDE DEF q
  <2> QED
    BY <2>1, <2>2, PollFeedFits DEF Known
<1>6. ASSUME NEW p \in Pollers, InsertRelease(p) PROVE FeedFits'
  <2> DEFINE q == [poll[p] EXCEPT !.phase = "upsert", !.rel = 0, !.fresh = @ \cup {Len(mirror) + 1}]
  <2>1. q.todo = poll[p].todo /\ q.phase = "upsert"
    BY <1>0 DEF PollRecord
  <2>2. /\ feed' = feed
        /\ poll' = [poll EXCEPT ![p] = Dormant] \/ poll' = [poll EXCEPT ![p] = q]
        /\ mirror' = mirror \/ (poll[p].phase = "insert" /\ mirror' = Append(mirror, poll[p].rel))
    BY <1>6 DEF InsertRelease
  <2> HIDE DEF q
  <2> QED
    BY <1>0, <2>1, <2>2, PollFeedFits DEF FeedFits
<1>7. ASSUME NEW p \in Pollers,
             \/ \E n \in DOMAIN mirror : ReadOpen(p, n)
             \/ \E i \in Asks : Judge(p, i)
             \/ \E e \in Entries : CheckPair(p, e)
             \/ Propose(p) \/ AnswerEnds(p) \/ MatchEnds(p)
      PROVE  FeedFits'
  <2>1. UNCHANGED <<feed, mirror>>
    BY <1>7 DEF ReadOpen, Judge, CheckPair, Propose, AnswerEnds, MatchEnds
  <2>2. PICK q : poll' = [poll EXCEPT ![p] = q] /\ q.todo = poll[p].todo /\ q.phase # "insert"
    <3>1. ASSUME NEW n, ReadOpen(p, n)
          PROVE  \E q : poll' = [poll EXCEPT ![p] = q] /\ q.todo = poll[p].todo /\ q.phase # "insert"
      <4> DEFINE q == [poll[p] EXCEPT !.phase = "judge", !.row = n, !.fresh = @ \ {n}, !.asks = asked]
      <4>1. poll' = [poll EXCEPT ![p] = q] /\ q.todo = poll[p].todo /\ q.phase = "judge"
        BY <1>0, <3>1 DEF ReadOpen, PollRecord
      <4> HIDE DEF q
      <4> QED BY <4>1
    <3>2. ASSUME NEW i, Judge(p, i)
          PROVE  \E q : poll' = [poll EXCEPT ![p] = q] /\ q.todo = poll[p].todo /\ q.phase # "insert"
      <4>1. PICK answer \in SUBSET Entries :
              poll' = [poll EXCEPT ![p] = [poll[p] EXCEPT !.phase = "check", !.asks = @ \ {i}, !.ask = i,
                                                        !.entries = answer]]
        BY <3>2 DEF Judge
      <4> DEFINE q == [poll[p] EXCEPT !.phase = "check", !.asks = @ \ {i}, !.ask = i, !.entries = answer]
      <4>2. poll' = [poll EXCEPT ![p] = q] /\ q.todo = poll[p].todo /\ q.phase = "check"
        BY <1>0, <4>1 DEF PollRecord
      <4> HIDE DEF q
      <4> QED BY <4>2
    <3>3. ASSUME NEW e, CheckPair(p, e)
          PROVE  \E q : poll' = [poll EXCEPT ![p] = q] /\ q.todo = poll[p].todo /\ q.phase # "insert"
      <4> DEFINE q1 == [poll[p] EXCEPT !.entries = @ \ {e}]
                 q2 == [poll[p] EXCEPT !.phase = "propose", !.entry = e, !.entries = @ \ {e}]
      <4>1. /\ poll[p].phase = "check"
            /\ poll' = [poll EXCEPT ![p] = q1] \/ poll' = [poll EXCEPT ![p] = q2]
        <5>1. CASE Proposed(poll[p].row, e, poll[p].ask)
          BY <3>3, <5>1 DEF CheckPair
        <5>2. CASE ~Proposed(poll[p].row, e, poll[p].ask)
          BY <3>3, <5>2 DEF CheckPair
        <5> QED
          BY <5>1, <5>2
      <4>2. /\ q1.todo = poll[p].todo /\ q1.phase = "check" /\ q2.todo = poll[p].todo /\ q2.phase = "propose"
        BY <1>0, <4>1 DEF PollRecord
      <4> HIDE DEF q1, q2
      <4> QED BY <4>1, <4>2
    <3>4. CASE Propose(p) \/ AnswerEnds(p) \/ MatchEnds(p)
      <4> DEFINE q1 == [poll[p] EXCEPT !.phase = "check", !.entry = "none"]
                 q2 == [poll[p] EXCEPT !.phase = "judge", !.ask = "none"]
                 q3 == [poll[p] EXCEPT !.phase = "upsert", !.row = 0]
      <4>1. \E q \in {q1, q2, q3} : poll' = [poll EXCEPT ![p] = q]
        BY <3>4 DEF Propose, AnswerEnds, MatchEnds
      <4>2. \A q \in {q1, q2, q3} : q.todo = poll[p].todo /\ q.phase # "insert"
        BY <1>0 DEF PollRecord
      <4> HIDE DEF q1, q2, q3
      <4> QED BY <4>1, <4>2
    <3> QED BY <1>7, <3>1, <3>2, <3>3, <3>4
  <2> QED
    BY <1>0, <2>1, <2>2, PollFeedFits DEF FeedFits
<1>8. ASSUME NEW p \in Pollers, PollEnds(p) \/ PollCrash(p) PROVE FeedFits'
  BY <1>0, <1>8, PollFeedFits DEF PollEnds, PollCrash
<1>9. ASSUME NEW i \in Asks, TurnAsk(i) PROVE FeedFits'
  BY <1>2, <1>9 DEF TurnAsk
<1>10. CASE UNCHANGED releaseVars
  BY <1>2, <1>10 DEF releaseVars
<1> QED
  BY <1>1, <1>3, <1>4, <1>5, <1>6, <1>7, <1>8, <1>9, <1>10 DEF ReleaseNext, PollStep, Pollers

\* They are the type invariant.
LEMMA ReleaseTypedIsTypeOK == ReleaseTyped => ReleaseTypeOK
<1> SUFFICES ASSUME ReleaseTyped PROVE ReleaseTypeOK
  OBVIOUS
<1>1. ReleaseShape /\ ProposedOnce /\ FeedFits
  BY DEF ReleaseTyped, ReleaseInv
<1>2. proposals \in Seq([row : 1 .. Len(mirror), entry : Entries, insight : Asks])
  <2>1. proposals \in Seq(MatchRow)
    BY <1>1 DEF ReleaseShape
  <2>2. \A k \in 1 .. Len(proposals) : proposals[k] \in MatchRow
    BY <2>1
  <2>3. \A k \in 1 .. Len(proposals) : proposals[k].row \in 1 .. Len(mirror)
    BY <1>1 DEF ProposedOnce
  <2>4. \A k \in 1 .. Len(proposals) : proposals[k] \in [row : 1 .. Len(mirror), entry : Entries, insight : Asks]
    BY <2>2, <2>3 DEF MatchRow
  <2> QED BY <2>1, <2>4, SeqInto
<1>3. mirror \in Seq(1 .. Len(feed) \cup Tags)
  <2>1. mirror \in Seq(Nat) /\ \A m \in 1 .. Len(mirror) : mirror[m] \in 1 .. Len(feed) \cup Tags
    BY <1>1 DEF ReleaseShape, FeedFits, Known
  <2> QED BY <2>1, SeqInto
<1>4. ASSUME NEW p \in Pollers
      PROVE  /\ poll[p].phase \in {"idle", "upsert", "insert", "judge", "check", "propose"}
             /\ poll[p].todo \subseteq DOMAIN feed /\ poll[p].asks \subseteq Asks
             /\ poll[p].fresh \subseteq 1 .. Len(mirror) /\ poll[p].entries \subseteq Entries
             /\ poll[p].phase = "insert" => poll[p].rel \in 1 .. Len(feed) \cup Tags
             /\ poll[p].phase \in {"judge", "check", "propose"} => poll[p].row \in 1 .. Len(mirror)
  <2>1. poll[p] \in PollRecord /\ PollFits(poll[p]) /\ Handled(p) \subseteq 1 .. Len(mirror)
    BY <1>1 DEF ReleaseShape
  <2>2. DOMAIN feed = 1 .. Len(feed)
    BY <1>1 DEF ReleaseShape
  <2>3. poll[p].todo \subseteq 1 .. Len(feed) /\ (poll[p].phase = "insert" => poll[p].rel \in 1 .. Len(feed) \cup Tags)
    BY <1>1 DEF FeedFits, Known
  <2> QED BY <2>1, <2>2, <2>3 DEF Handled, PollRecord, PollFits
<1>5. feed \in Seq(BOOLEAN) /\ Len(feed) <= MaxRels /\ asked \subseteq Asks
  BY <1>1 DEF ReleaseShape, FeedFits
<1> QED
  BY <1>2, <1>3, <1>4, <1>5 DEF ReleaseTypeOK

\* What a run of the poller carries fits what is stored: the rows it has still to match
\* are rows of the mirror, whatever other runs store and however runs die.
THEOREM ReleaseTypeCorrect == ReleaseSpec => []ReleaseTypeOK
<1>1. ReleaseInit => ReleaseTyped
  BY ReleaseTypedAtFirst
<1>2. ReleaseTyped /\ [ReleaseNext]_releaseVars => ReleaseTyped'
  BY ReleaseTypedStep
<1>3. ReleaseTyped => ReleaseTypeOK
  BY ReleaseTypedIsTypeOK
<1> QED
  BY <1>1, <1>2, <1>3, PTL DEF ReleaseSpec

----------------------------------------------------------------------------
(* CalendarFeed *)

FeedTyped ==
  /\ FeedInv
  /\ clock <= MaxClock
  /\ \A c \in Changes : change[c].phase \in {"idle", "clear"}
  /\ change = [c \in Changes |-> change[c]]

\* Nothing of the calendar is read at first.
LEMMA FeedTypedAtFirst == FeedInit => FeedTyped
<1> SUFFICES ASSUME FeedInit PROVE FeedTyped
  OBVIOUS
<1>1. clock <= MaxClock /\ \A c \in Changes : change[c].phase \in {"idle", "clear"}
  BY FeedAssumption DEF FeedInit, NoChange
<1>2. change = [c \in Changes |-> change[c]]
  BY DEF FeedInit
<1> QED
  BY <1>1, <1>2, FeedStart DEF FeedTyped

\* Every step keeps the types of the calendar.
LEMMA FeedTypedStep == FeedTyped /\ [FeedNext]_feedVars => FeedTyped'
<1> SUFFICES ASSUME FeedTyped, [FeedNext]_feedVars PROVE FeedTyped'
  OBVIOUS
<1>1. clock \in Nat /\ clock <= MaxClock
  BY DEF FeedTyped, FeedInv, FeedShape
<1>2. /\ \A c \in Changes : change[c].phase \in {"idle", "clear"}
      /\ change = [c \in Changes |-> change[c]]
  BY DEF FeedTyped
<1>3. clock' <= MaxClock
  <2>1. clock' = clock \/ (clock < MaxClock /\ clock' = clock + 1)
    BY DEF FeedNext, FeedTick, ChangeFeed, ClearCache, BeginLookup, CheckCache, FeedAnswers, LookupEnds,
           feedVars
  <2> QED BY <1>1, <2>1, FeedAssumption
<1>4. /\ \A c \in Changes : change'[c].phase \in {"idle", "clear"}
      /\ change' = [c \in Changes |-> change'[c]]
  <2>1. ASSUME NEW c \in Changes, NEW s, change' = [change EXCEPT ![c] = [phase |-> "clear", server |-> s]]
        PROVE  /\ \A d \in Changes : change'[d].phase \in {"idle", "clear"}
               /\ change' = [d \in Changes |-> change'[d]]
    BY <1>2, <2>1
  <2>2. ASSUME NEW c \in Changes, change' = [change EXCEPT ![c] = NoChange]
        PROVE  /\ \A d \in Changes : change'[d].phase \in {"idle", "clear"}
               /\ change' = [d \in Changes |-> change'[d]]
    BY <1>2, <2>2 DEF NoChange
  <2>3. \/ \E c \in Changes, s \in Servers : change' = [change EXCEPT ![c] = [phase |-> "clear", server |-> s]]
        \/ \E c \in Changes : change' = [change EXCEPT ![c] = NoChange]
        \/ change' = change
    BY DEF FeedNext, FeedTick, ChangeFeed, ClearCache, BeginLookup, CheckCache, FeedAnswers, LookupEnds,
           feedVars
  <2> QED BY <1>2, <2>1, <2>2, <2>3
<1>5. FeedInv'
  BY FeedStepKeeps DEF FeedTyped
<1> QED
  BY <1>3, <1>4, <1>5 DEF FeedTyped

\* They are the type invariant.
LEMMA FeedTypedIsTypeOK == FeedTyped => FeedTypeOK
  BY DEF FeedTyped, FeedInv, FeedShape, FeedTypeOK, Urls, EntryType, LookupType

\* The calendar's servers keep addresses that are or were set, and every lookup and
\* change is in one of its phases.
THEOREM FeedTypeCorrect == FeedSpec => []FeedTypeOK
<1>1. FeedInit => FeedTyped
  BY FeedTypedAtFirst
<1>2. FeedTyped /\ [FeedNext]_feedVars => FeedTyped'
  BY FeedTypedStep
<1>3. FeedTyped => FeedTypeOK
  BY FeedTypedIsTypeOK
<1> QED
  BY <1>1, <1>2, <1>3, PTL DEF FeedSpec

----------------------------------------------------------------------------
(* EmailDrafts *)

DraftTyped ==
  /\ DraftInv
  /\ stage \in {"shipped", "client_notified", "closed"}
  /\ copied \subseteq 1 .. Len(drafts)

\* No email is drafted at first.
LEMMA DraftTypedAtFirst == DraftInit => DraftTyped
  BY DraftStart DEF DraftInit, DraftTyped

\* Every step keeps the types of the drafts.
LEMMA DraftTypedStep == DraftTyped /\ [DraftNext]_draftVars => DraftTyped'
<1> SUFFICES ASSUME DraftTyped, [DraftNext]_draftVars PROVE DraftTyped'
  OBVIOUS
<1>1. /\ DraftInv' /\ DraftInv /\ copied \subseteq 1 .. Len(drafts)
      /\ stage \in {"shipped", "client_notified", "closed"}
  BY DraftStep DEF DraftTyped
<1>2. /\ Len(drafts) \in Nat /\ DOMAIN drafts = 1 .. Len(drafts) /\ drafts \in Seq(Draft)
      /\ Len(drafts') \in Nat /\ DOMAIN drafts' = 1 .. Len(drafts')
  BY <1>1 DEF DraftInv, DraftShape
<1>3. Len(drafts) <= Len(drafts')
  <2>1. ASSUME NEW w \in Writers, InsertDraft(w) PROVE Len(drafts) <= Len(drafts')
    <3> DEFINE linked == [d \in DOMAIN drafts |->
                   IF d = writer[w].prev THEN [drafts[d] EXCEPT !.next = Len(drafts) + 1] ELSE drafts[d]]
    <3>1. \E new : drafts' = Append(linked, new)
      BY <2>1 DEF InsertDraft
    <3>2. DOMAIN linked \subseteq DOMAIN drafts'
      <4>1. DOMAIN linked = 1 .. Len(drafts) /\ Len(linked) = Len(drafts)
        BY <1>2
      <4> HIDE DEF linked
      <4> QED BY <1>2, <3>1, <4>1
    <3> QED BY <1>2, <3>2
  <2>2. CASE ~\E w \in Writers : InsertDraft(w)
    <3>1. DOMAIN drafts' = DOMAIN drafts
      BY <1>2, <2>2 DEF DraftNext, BeginDrafts, EndDrafts, ReadPrev, MarkCopied, ConfirmSent, CloseLoop,
                        NewAsker, draftVars
    <3> QED BY <1>2, <3>1
  <2> QED BY <2>1, <2>2
<1>4. copied' \subseteq copied \cup DOMAIN drafts
  BY DEF DraftNext, BeginDrafts, InsertDraft, EndDrafts, ReadPrev, MarkCopied, ConfirmSent, CloseLoop,
         NewAsker, draftVars
<1>5. stage' \in {stage, "client_notified", "closed"}
  BY DEF DraftNext, BeginDrafts, InsertDraft, EndDrafts, ReadPrev, MarkCopied, ConfirmSent, CloseLoop,
         NewAsker, draftVars
<1>6. copied' \subseteq 1 .. Len(drafts')
  BY <1>1, <1>2, <1>3, <1>4
<1> QED
  BY <1>1, <1>5, <1>6 DEF DraftTyped

\* They are the type invariant.
LEMMA DraftTypedIsTypeOK == DraftTyped => DraftTypeOK
<1> SUFFICES ASSUME DraftTyped PROVE DraftTypeOK
  OBVIOUS
<1>1. DraftShape /\ LinksFit /\ copied \subseteq 1 .. Len(drafts)
      /\ stage \in {"shipped", "client_notified", "closed"}
  BY DEF DraftTyped, DraftInv
<1>2. drafts \in Seq([client : Askers, version : 1 .. MaxDrafts, next : 0 .. MaxDrafts, sent : BOOLEAN])
  <2>1. drafts \in Seq(Draft) /\ Len(drafts) <= MaxDrafts /\ Len(drafts) \in Nat
    BY <1>1 DEF DraftShape
  <2>2. \A d \in 1 .. Len(drafts) : drafts[d] \in Draft /\ drafts[d].version <= Len(drafts)
    BY <1>1, <2>1 DEF DraftShape
  <2>3. \A d \in 1 .. Len(drafts) : drafts[d].next # 0 => drafts[d].next \in 1 .. Len(drafts)
    BY <1>1 DEF LinksFit
  <2>4. ASSUME NEW d \in 1 .. Len(drafts)
        PROVE  drafts[d] \in [client : Askers, version : 1 .. MaxDrafts, next : 0 .. MaxDrafts,
                               sent : BOOLEAN]
    <3>1. drafts[d] \in Draft
      BY <2>2
    <3>2. drafts[d].version \in 1 .. MaxDrafts
      BY <2>1, <2>2, <3>1, DraftAssumption DEF Draft
    <3>3. drafts[d].next \in 0 .. MaxDrafts
      BY <2>1, <2>3, DraftAssumption
    <3> QED BY <3>1, <3>2, <3>3 DEF Draft
  <2> QED BY <2>1, <2>4, SeqInto
<1>3. ASSUME NEW w \in Writers
      PROVE  /\ writer[w].phase \in {"idle", "next", "insert"} /\ writer[w].prev \in 0 .. Len(drafts)
             /\ writer[w].phase = "insert" => writer[w].client \in Askers
  BY <1>1 DEF DraftShape, DraftWriter
<1> QED
  BY <1>1, <1>2, <1>3 DEF DraftShape, DraftTypeOK

\* The drafts' types: versions count up from one, links stay among the drafts, and
\* what a generation has read is still there when it inserts.
THEOREM DraftTypeCorrect == DraftSpec => []DraftTypeOK
<1>1. DraftInit => DraftTyped
  BY DraftTypedAtFirst
<1>2. DraftTyped /\ [DraftNext]_draftVars => DraftTyped'
  BY DraftTypedStep
<1>3. DraftTyped => DraftTypeOK
  BY DraftTypedIsTypeOK
<1> QED
  BY <1>1, <1>2, <1>3, PTL DEF DraftSpec

----------------------------------------------------------------------------
(* DailyJobs *)

SweepTyped ==
  /\ day \in 0 .. Period - 1 /\ tenants \in 0 .. MaxTenants
  /\ queue \in Seq(1 .. tenants) /\ swept \in 0 .. tenants
DailyTyped ==
  /\ DigestInv /\ SweepTyped
  /\ monday \in 1 .. Mondays
  /\ \A p \in Tries : Trying(p) => try[p].monday # 0
  /\ \A n \in 1 .. Len(sent) : sent[n] # 0

\* A remainder is less than what it is divided by.
LEMMA Remainder == ASSUME NEW a \in Nat, NEW n \in Nat \ {0} PROVE a % n \in 0 .. n - 1
  OBVIOUS

\* Whose turn it is, taken in turns from anywhere.
LEMMA TurnBounded == \A a, t \in Nat : \A n \in 1 .. t : 1 + ((a + n - 1) % t) \in 1 .. t
<1> SUFFICES ASSUME NEW a \in Nat, NEW t \in Nat, NEW n \in 1 .. t
             PROVE  1 + ((a + n - 1) % t) \in 1 .. t
  OBVIOUS
<1>1. a + n - 1 \in Nat /\ t \in Nat \ {0}
  OBVIOUS
<1> DEFINE left == (a + n - 1) % t
<1>2. left \in 0 .. t - 1
  BY <1>1, Remainder
<1> HIDE DEF left
<1> QED
  BY <1>1, <1>2

\* No job has run at first.
LEMMA DailyTypedAtFirst == DailyInit => DailyTyped
<1> SUFFICES ASSUME DailyInit PROVE DailyTyped
  OBVIOUS
<1>1. monday = 1 /\ sent = <<>> /\ Len(sent) = 0 /\ \A p \in Tries : ~Trying(p)
  BY DEF DailyInit, NoTry, Trying
<1>2. SweepTyped
  BY DailyAssumption DEF DailyInit, SweepTyped
<1>3. monday \in 1 .. Mondays
  BY <1>1, DailyAssumption
<1> QED
  BY <1>1, <1>2, <1>3, DigestStart DEF DailyTyped

\* A sweep and its neighbours keep their types.
LEMMA SweepTypedStep == ASSUME SweepTyped, SweepNext \/ UNCHANGED sweepVars PROVE SweepTyped'
<1>1. /\ day \in 0 .. Period - 1 /\ tenants \in 0 .. MaxTenants
      /\ queue \in Seq(1 .. tenants) /\ swept \in 0 .. tenants
      /\ Period \in Nat \ {0} /\ MaxTenants \in Nat
  BY DailyAssumption DEF SweepTyped
<1>2. CASE StartSweep
  <2>1. day' = (day + 1) % Period /\ swept' = 0 /\ tenants' = tenants /\ queue' = Rotated(day')
    BY <1>2 DEF StartSweep
  <2>2. day' \in 0 .. Period - 1
    BY <1>1, <2>1, Remainder
  <2>3. \A n \in 1 .. tenants : 1 + ((day' + n - 1) % tenants) \in 1 .. tenants
    <3>1. day' \in Nat /\ tenants \in Nat
      BY <1>1, <2>2
    <3> QED BY <3>1, TurnBounded
  <2>4. Rotated(day') \in Seq(1 .. tenants)
    BY <1>1, <2>3 DEF Rotated
  <2> QED BY <1>1, <2>1, <2>2, <2>4 DEF SweepTyped
<1>3. CASE SweepSpace
  <2>1. swept' = Head(queue) /\ queue # <<>> /\ queue' \in {Tail(queue), <<>>} /\ UNCHANGED <<day, tenants>>
    BY <1>3 DEF SweepSpace
  <2>2. Head(queue) \in 1 .. tenants /\ Tail(queue) \in Seq(1 .. tenants)
    BY <1>1, <2>1
  <2>3. swept' \in 0 .. tenants
    BY <1>1, <2>1, <2>2
  <2>4. queue' \in Seq(1 .. tenants)
    <3>1. <<>> \in Seq(1 .. tenants)
      OBVIOUS
    <3>2. queue' = Tail(queue) \/ queue' = <<>>
      BY <2>1
    <3> QED BY <2>2, <3>1, <3>2
  <2> QED BY <1>1, <2>1, <2>3, <2>4 DEF SweepTyped
<1>4. CASE NewSpace
  <2>1. tenants' = tenants + 1 /\ tenants < MaxTenants /\ UNCHANGED <<day, queue, swept>>
    BY <1>4 DEF NewSpace
  <2>2. \A n \in 1 .. Len(queue) : queue[n] \in 1 .. tenants + 1
    BY <1>1
  <2>3. queue \in Seq(1 .. tenants + 1)
    BY <1>1, <2>2, SeqInto
  <2> QED BY <1>1, <2>1, <2>3 DEF SweepTyped
<1>5. CASE UNCHANGED sweepVars
  BY <1>5 DEF SweepTyped, sweepVars
<1> QED
  BY <1>2, <1>3, <1>4, <1>5 DEF SweepNext

\* Every step keeps the types of the jobs of a day.
LEMMA DailyTypedStep == DailyTyped /\ [DailyNext]_dailyVars => DailyTyped'
<1> SUFFICES ASSUME DailyTyped, [DailyNext]_dailyVars PROVE DailyTyped'
  OBVIOUS
<1>1. /\ DigestInv /\ DigestShape /\ SweepTyped /\ monday \in 1 .. Mondays
      /\ \A p \in Tries : Trying(p) => try[p].monday # 0
      /\ \A n \in 1 .. Len(sent) : sent[n] # 0
  BY DEF DailyTyped, DigestInv
<1>2. /\ sent \in Seq(Nat) /\ Mondays \in Nat
      /\ try \in [Tries -> [phase : {"idle", "check", "post", "append"}, monday : Nat]]
  BY <1>1, DailyAssumption DEF DigestShape
<1>3. DigestInv' /\ SweepTyped'
  <2>1. SweepNext \/ UNCHANGED sweepVars
    BY DEF DailyNext, DigestNext, StartDigest, CheckSent, Post, AppendSent, TryDies, NextMonday, dailyVars
  <2> QED BY <1>1, <2>1, DigestStep, SweepTypedStep
<1>4. ASSUME UNCHANGED <<monday, sent>>, NEW p \in Tries, NEW q, try' = [try EXCEPT ![p] = q],
             q.phase # "idle" => q.monday # 0
      PROVE  DailyTyped'
  BY <1>1, <1>2, <1>3, <1>4 DEF DailyTyped, Trying
<1>5. ASSUME NEW p \in Tries, StartDigest(p) \/ CheckSent(p) \/ Post(p) \/ TryDies(p) PROVE DailyTyped'
  <2>1. try[p] \in [phase : {"idle", "check", "post", "append"}, monday : Nat]
    BY <1>2
  <2>2. CASE StartDigest(p)
    <3> DEFINE q == [phase |-> "check", monday |-> monday]
    <3>1. q.monday # 0
      BY <1>1
    <3>2. try' = [try EXCEPT ![p] = q] /\ UNCHANGED <<monday, sent>>
      BY <2>2 DEF StartDigest
    <3> QED BY <1>4, <3>1, <3>2
  <2>3. CASE CheckSent(p)
    <3> DEFINE q == [try[p] EXCEPT !.phase = "post"]
    <3>1. q.monday # 0
      BY <1>1, <2>1, <2>3 DEF CheckSent, Trying
    <3>2. (try' = [try EXCEPT ![p] = NoTry] \/ try' = [try EXCEPT ![p] = q]) /\ UNCHANGED <<monday, sent>>
      BY <2>3 DEF CheckSent
    <3>3. NoTry.phase = "idle"
      BY DEF NoTry
    <3> HIDE DEF q
    <3> QED BY <1>4, <3>1, <3>2, <3>3
  <2>4. CASE Post(p)
    <3> DEFINE q == [try[p] EXCEPT !.phase = "append"]
    <3>1. q.monday # 0
      BY <1>1, <2>1, <2>4 DEF Post, Trying
    <3>2. try' = [try EXCEPT ![p] = q] /\ UNCHANGED <<monday, sent>>
      BY <2>4 DEF Post
    <3> HIDE DEF q
    <3> QED BY <1>4, <3>1, <3>2
  <2>5. CASE TryDies(p)
    <3>1. try' = [try EXCEPT ![p] = NoTry] /\ UNCHANGED <<monday, sent>> /\ NoTry.phase = "idle"
      BY <2>5 DEF TryDies, NoTry
    <3> QED BY <1>4, <3>1
  <2> QED BY <1>5, <2>2, <2>3, <2>4, <2>5
<1>6. ASSUME NEW p \in Tries, AppendSent(p) PROVE DailyTyped'
  <2>1. /\ sent' = Append(sent, try[p].monday) /\ try' = [try EXCEPT ![p] = NoTry] /\ monday' = monday
        /\ try[p].phase = "append" /\ NoTry.phase = "idle"
    BY <1>6 DEF AppendSent, NoTry
  <2>2. try[p].monday # 0 /\ try[p].monday \in Nat
    BY <1>1, <1>2, <2>1 DEF Trying
  <2>3. \A n \in 1 .. Len(sent') : sent'[n] # 0
    BY <1>1, <1>2, <2>1, <2>2
  <2>4. \A q \in Tries : try'[q].phase # "idle" => try'[q].monday # 0
    BY <1>1, <1>2, <2>1 DEF Trying
  <2> QED BY <1>1, <1>3, <2>1, <2>3, <2>4 DEF DailyTyped, Trying
<1>7. CASE NextMonday
  <2>1. monday' = monday + 1 /\ monday < Mondays /\ UNCHANGED <<sent, try>>
    BY <1>7 DEF NextMonday
  <2>2. monday' \in 1 .. Mondays
    BY <1>1, <1>2, <2>1
  <2> QED BY <1>1, <1>3, <2>1, <2>2 DEF DailyTyped, Trying
<1>8. CASE SweepNext \/ UNCHANGED dailyVars
  <2>1. UNCHANGED <<monday, sent, try>>
    BY <1>8 DEF SweepNext, StartSweep, SweepSpace, NewSpace, dailyVars, digestVars
  <2> QED BY <1>1, <1>3, <2>1 DEF DailyTyped, Trying
<1> QED
  BY <1>5, <1>6, <1>7, <1>8 DEF DailyNext, DigestNext

\* They are the type invariant.
LEMMA DailyTypedIsTypeOK == DailyTyped => DailyTypeOK
<1> SUFFICES ASSUME DailyTyped PROVE DailyTypeOK
  OBVIOUS
<1>1. /\ DigestShape /\ SweepTyped /\ monday \in 1 .. Mondays
      /\ \A n \in 1 .. Len(sent) : sent[n] # 0
  BY DEF DailyTyped, DigestInv
<1>2. sent \in Seq(1 .. monday)
  <2>1. sent \in Seq(Nat) /\ \A n \in 1 .. Len(sent) : sent[n] <= monday
    BY <1>1 DEF DigestShape
  <2>2. \A n \in 1 .. Len(sent) : sent[n] \in 1 .. monday
    BY <1>1, <2>1
  <2> QED BY <2>1, <2>2, SeqInto
<1> QED
  BY <1>1, <1>2 DEF DailyTypeOK, DigestShape, SweepTyped

\* The digest and the cron: no event is of a Monday still ahead, and the queue of a
\* sweep names workspaces there are, whatever comes into being while it runs.
THEOREM DailyTypeCorrect == DailySpec => []DailyTypeOK
<1>1. DailyInit => DailyTyped
  BY DailyTypedAtFirst
<1>2. DailyTyped /\ [DailyNext]_dailyVars => DailyTyped'
  BY DailyTypedStep
<1>3. DailyTyped => DailyTypeOK
  BY DailyTypedIsTypeOK
<1> QED
  BY <1>1, <1>2, <1>3, PTL DEF DailySpec

----------------------------------------------------------------------------
(* Wording *)

\* What an editor holds, what it has in flight and what it is about to be told is of
\* versions there have been, up to v.
EditorFits(q, v) ==
  q.version <= v /\ (q.stored # 0 => q.version # 0) /\ (q.up = "shown" => q.stored # 0)
AnswerFits(q, v) == q.at \in {"saved", "refused"} => q.version \in 1 .. v
SnapshotsFit(ss, v) == \A s \in ss : s.version \in 1 .. v

WordingTyped ==
  /\ WordingInv
  /\ session \in Sessions
  /\ record.version \in 1 .. session.versions
  /\ \A e \in Editors : /\ EditorFits(ed[e], record.version) /\ AnswerFits(req[e], record.version)
                        /\ SnapshotsFit(loads[e], record.version)

\* Nothing is edited at first.
LEMMA WordingTypedAtFirst == WordingInit => WordingTyped
<1> SUFFICES ASSUME WordingInit PROVE WordingTyped
  OBVIOUS
<1>1. session \in Sessions /\ record.version \in 1 .. session.versions
  BY WordingAssumption DEF WordingInit
<1>2. record.version = 1 /\ \A e \in Editors : ed[e] = Blank /\ loads[e] = {} /\ req[e] = NoReq
  BY DEF WordingInit
<1>3. \A e \in Editors : /\ EditorFits(ed[e], record.version) /\ AnswerFits(req[e], record.version)
                         /\ SnapshotsFit(loads[e], record.version)
  BY <1>2 DEF EditorFits, AnswerFits, SnapshotsFit, Blank, NoReq
<1> QED
  BY <1>1, <1>3, WordingStarts DEF WordingTyped

\* One editor moves on; the version may have become a later one.
LEMMA WordingMoves ==
  ASSUME WordingTyped, WordingInv', NEW e \in Editors, session' = session,
         record'.version \in 1 .. session.versions, record.version <= record'.version,
         EditorFits(ed'[e], record'.version), AnswerFits(req'[e], record'.version),
         SnapshotsFit(loads'[e], record'.version),
         \A d \in Editors : d # e => ed'[d] = ed[d] /\ loads'[d] = loads[d] /\ req'[d] = req[d]
  PROVE  WordingTyped'
<1>1. /\ record \in RecordRow /\ session.versions \in Nat /\ session \in Sessions
      /\ ed \in [Editors -> EditorRecord] /\ req \in [Editors -> RequestRecord]
      /\ loads \in [Editors -> SUBSET SnapshotRecord]
  BY WordingAssumption DEF WordingTyped, WordingInv, WordingShape
<1>2. ASSUME NEW d \in Editors, d # e
      PROVE  /\ EditorFits(ed'[d], record'.version) /\ AnswerFits(req'[d], record'.version)
             /\ SnapshotsFit(loads'[d], record'.version)
  <2>1. /\ EditorFits(ed[d], record.version) /\ AnswerFits(req[d], record.version)
        /\ SnapshotsFit(loads[d], record.version)
    BY DEF WordingTyped
  <2>2. ed[d].version \in Nat /\ req[d].version \in Nat /\ \A s \in loads[d] : s.version \in Nat
    BY <1>1 DEF EditorRecord, RequestRecord, SnapshotRecord
  <2>3. record.version \in Nat /\ record'.version \in Nat
    BY <1>1 DEF RecordRow
  <2> QED BY <1>2, <2>1, <2>2, <2>3 DEF EditorFits, AnswerFits, SnapshotsFit
<1> QED
  BY <1>1, <1>2 DEF WordingTyped

\* What is known of one editor.
LEMMA WordingKnown ==
  ASSUME WordingTyped, NEW e \in Editors
  PROVE  /\ WordingInv /\ record \in RecordRow /\ record.version \in Nat
         /\ record.version \in 1 .. session.versions /\ session.versions \in Nat
         /\ ed \in [Editors -> EditorRecord] /\ req \in [Editors -> RequestRecord]
         /\ loads \in [Editors -> SUBSET SnapshotRecord]
         /\ ed[e] \in EditorRecord /\ req[e] \in RequestRecord
         /\ EditorFits(ed[e], record.version) /\ AnswerFits(req[e], record.version)
         /\ SnapshotsFit(loads[e], record.version)
         /\ AnswerFits(NoReq, record.version)
  BY WordingAssumption DEF WordingTyped, WordingInv, WordingShape, RecordRow, AnswerFits, NoReq

\* A load is of what is stored, or of a version that is.
LEMMA LoadForTyped ==
  ASSUME WordingTyped, NEW e \in Editors, LoadFor(e)
  PROVE  SnapshotsFit(loads'[e], record.version) /\ \A d \in Editors : d # e => loads'[d] = loads[d]
<1>1. loads' = [loads EXCEPT ![e] = loads[e] \cup {Snapshot}] /\ loads \in [Editors -> SUBSET SnapshotRecord]
  BY WordingKnown DEF LoadFor
<1>2. Snapshot.version \in 1 .. record.version
  BY WordingKnown DEF Snapshot
<1> QED
  BY <1>1, <1>2, WordingKnown DEF SnapshotsFit

\* A load that comes shows a version there is.
LEMMA LoadedTyped ==
  ASSUME WordingTyped, WordingInv', NEW e \in Editors, NEW s \in loads[e],
         PageLoaded(e, s) \/ PanelLoaded(e, s) \/ LoadFails(e, s)
  PROVE  WordingTyped'
<1> USE WordingKnown
<1>1. /\ loads' = [loads EXCEPT ![e] = loads[e] \ {s}] /\ req' = req /\ record' = record
      /\ session' = session
  BY DEF PageLoaded, PanelLoaded, LoadFails
<1>2. SnapshotsFit(loads'[e], record.version) /\ \A d \in Editors : d # e => loads'[d] = loads[d]
  BY <1>1 DEF SnapshotsFit
<1>3. s.version \in 1 .. record.version
  BY DEF SnapshotsFit
<1>4. EditorFits(ed'[e], record.version) /\ \A d \in Editors : d # e => ed'[d] = ed[d]
  <2>1. CASE PageLoaded(e, s)
    BY <1>3, <2>1 DEF PageLoaded, EditorFits, EditorRecord
  <2>2. CASE PanelLoaded(e, s)
    BY <1>3, <2>2 DEF PanelLoaded, EditorFits, EditorRecord
  <2>3. CASE LoadFails(e, s)
    BY <2>3 DEF LoadFails, EditorFits, EditorRecord
  <2> QED BY <2>1, <2>2, <2>3
<1>5. AnswerFits(req'[e], record.version) /\ record.version <= record.version
  BY <1>1
<1> QED
  BY <1>1, <1>2, <1>4, <1>5, WordingMoves

\* Typing, pressing and looking: the editor's version stays.
LEMMA PressesTyped ==
  ASSUME WordingTyped, WordingInv', NEW e \in Editors,
         \/ \E empty \in BOOLEAN : Type(e, empty)
         \/ TypeBack(e) \/ PressFinalize(e) \/ AnswerLost(e) \/ CheckWording(e)
         \/ \E next \in {"nothing", "finalize"} : PressSave(e, next)
  PROVE  WordingTyped'
<1> USE WordingKnown
<1>1. loads' = loads /\ record' = record /\ session' = session
  BY DEF Type, TypeBack, PressFinalize, AnswerLost, CheckWording, PressSave
<1>2. EditorFits(ed'[e], record.version) /\ \A d \in Editors : d # e => ed'[d] = ed[d]
  <2>1. ASSUME NEW b, NEW c, ed' = [ed EXCEPT ![e].empty = b, ![e].dirty = c]
        PROVE  EditorFits(ed'[e], record.version) /\ \A d \in Editors : d # e => ed'[d] = ed[d]
    BY <2>1 DEF EditorFits, EditorRecord
  <2>2. (\E b, c : ed' = [ed EXCEPT ![e].empty = b, ![e].dirty = c]) \/ ed' = ed
    BY DEF Type, TypeBack, PressFinalize, AnswerLost, CheckWording, PressSave
  <2> QED BY <2>1, <2>2
<1>3. AnswerFits(req'[e], record.version) /\ \A d \in Editors : d # e => req'[d] = req[d]
  <2>1. ASSUME NEW q, req' = [req EXCEPT ![e] = q], q.at \notin {"saved", "refused"}
        PROVE  AnswerFits(req'[e], record.version) /\ \A d \in Editors : d # e => req'[d] = req[d]
    BY <2>1 DEF AnswerFits
  <2>2. CASE (\E empty \in BOOLEAN : Type(e, empty)) \/ TypeBack(e)
    <3>1. req' = req
      BY <2>2 DEF Type, TypeBack
    <3> QED BY <3>1
  <2>3. CASE PressFinalize(e)
    BY <2>1, <2>3 DEF PressFinalize, NoReq
  <2>4. CASE AnswerLost(e)
    BY <2>1, <2>4 DEF AnswerLost, ReqEnds, NoReq
  <2>5. CASE CheckWording(e)
    <3> DEFINE q == [req[e] EXCEPT !.at = "finalize", !.seen = record.version]
    <3>1. q.at = "finalize" /\ NoReq.at = "none"
      BY DEF RequestRecord, NoReq
    <3>2. req' = [req EXCEPT ![e] = NoReq] \/ req' = [req EXCEPT ![e] = q]
      BY <2>5 DEF CheckWording, ReqEnds
    <3> HIDE DEF q
    <3> QED BY <2>1, <3>1, <3>2
  <2>6. ASSUME NEW next \in {"nothing", "finalize"}, PressSave(e, next)
        PROVE  AnswerFits(req'[e], record.version) /\ \A d \in Editors : d # e => req'[d] = req[d]
    BY <2>1, <2>6 DEF PressSave, NoReq
  <2> QED BY <2>2, <2>3, <2>4, <2>5, <2>6
<1>4. record.version <= record.version
  OBVIOUS
<1> QED
  BY <1>1, <1>2, <1>3, <1>4, WordingMoves

\* A save is of what is shown, with the version it was read at.
LEMMA SaveTyped ==
  ASSUME WordingTyped, WordingInv', NEW e \in Editors, SaveArrives(e) PROVE WordingTyped'
<1> USE WordingKnown
<1>1. /\ ed' = ed /\ loads' = loads /\ session' = session
      /\ \A d \in Editors : d # e => req'[d] = req[d]
  BY DEF SaveArrives
<1>2. CASE record.version = req[e].version /\ record.version < session.versions
  <2>1. /\ record' = [record EXCEPT !.version = @ + 1, !.empty = req[e].empty]
        /\ req' = [req EXCEPT ![e].at = "saved", ![e].version = record.version + 1]
    BY <1>2 DEF SaveArrives
  <2>2. record'.version = record.version + 1 /\ record'.version \in 1 .. session.versions
    BY <1>2, <2>1 DEF RecordRow
  <2>3. AnswerFits(req'[e], record'.version)
    BY <2>1, <2>2 DEF AnswerFits, RequestRecord
  <2>4. EditorFits(ed'[e], record'.version) /\ SnapshotsFit(loads'[e], record'.version)
    BY <1>1, <2>2 DEF EditorFits, SnapshotsFit, EditorRecord
  <2>5. record.version <= record'.version
    BY <2>2
  <2> QED BY <1>1, <2>2, <2>3, <2>4, <2>5, WordingMoves
<1>3. CASE ~(record.version = req[e].version /\ record.version < session.versions)
  <2>1. record' = record /\ req' = [req EXCEPT ![e].at = "refused", ![e].version = record.version]
    BY <1>3 DEF SaveArrives
  <2>2. AnswerFits(req'[e], record.version)
    BY <2>1 DEF AnswerFits, RequestRecord
  <2>3. record.version <= record'.version
    BY <2>1
  <2> QED BY <1>1, <2>1, <2>2, <2>3, WordingMoves
<1> QED
  BY <1>2, <1>3

\* An answer names a version there is.
LEMMA EditAnsweredTyped ==
  ASSUME WordingTyped, WordingInv', NEW e \in Editors,
         Saved(e) \/ SaveRefused(e) \/ Load(e) \/ Finalized(e)
  PROVE  WordingTyped'
<1> USE WordingKnown
<1>1. record' = record /\ session' = session
  BY DEF Saved, SaveRefused, Load, Finalized
<1>2. LoadFor(e) \/ loads' = loads
  BY DEF Saved, SaveRefused, Load, Finalized
<1>3. SnapshotsFit(loads'[e], record.version) /\ \A d \in Editors : d # e => loads'[d] = loads[d]
  BY <1>2, LoadForTyped
<1>4. AnswerFits(req'[e], record.version) /\ \A d \in Editors : d # e => req'[d] = req[d]
  <2>1. ASSUME NEW q, req' = [req EXCEPT ![e] = q], q.at \notin {"saved", "refused"}
        PROVE  AnswerFits(req'[e], record.version) /\ \A d \in Editors : d # e => req'[d] = req[d]
    BY <2>1 DEF AnswerFits
  <2> DEFINE q == [[NoReq EXCEPT !.at = "check"] EXCEPT !.then = "finalize"]
  <2>2. q.at = "check" /\ NoReq.at = "none"
    BY DEF NoReq
  <2>3. \/ req' = [req EXCEPT ![e] = NoReq] \/ req' = [req EXCEPT ![e] = q] \/ req' = req
    BY DEF Saved, SaveRefused, Load, Finalized, ReqEnds, NoReq
  <2> HIDE DEF q
  <2> QED BY <2>1, <2>2, <2>3
<1>5. EditorFits(ed'[e], record.version) /\ \A d \in Editors : d # e => ed'[d] = ed[d]
  <2>1. CASE Saved(e)
    <3>1. req[e].version \in 1 .. record.version
      BY <2>1 DEF Saved, AnswerFits
    <3> QED BY <2>1, <3>1 DEF Saved, EditorFits, EditorRecord
  <2>2. CASE SaveRefused(e)
    <3>1. req[e].version \in 1 .. record.version
      BY <2>2 DEF SaveRefused, AnswerFits
    <3>2. CASE e \in Pages
      BY <2>2, <3>2 DEF SaveRefused
    <3>3. CASE e \notin Pages
      <4> DEFINE q == [Asking(e) EXCEPT !.version = req[e].version]
      <4>1. ed' = [ed EXCEPT ![e] = q]
        BY <2>2, <3>3 DEF SaveRefused
      <4>2. q.version = req[e].version /\ q.up = Asking(e).up /\ q.stored = ed[e].stored
        BY AskingFits DEF EditorRecord
      <4>3. EditorFits(q, record.version)
        BY <3>1, <4>2, AskingFits DEF EditorFits, EditorRecord
      <4> HIDE DEF q
      <4> QED BY <4>1, <4>3
    <3> QED BY <3>2, <3>3
  <2>3. CASE Load(e) \/ Finalized(e)
    <3>1. EditorFits(Asking(e), record.version)
      BY AskingFits DEF EditorFits
    <3> QED BY <2>3, <3>1 DEF Load, Finalized
  <2> QED BY <2>1, <2>2, <2>3
<1> QED
  BY <1>1, <1>3, <1>4, <1>5, WordingMoves

\* A change that commits is the next version.
LEMMA CommitTyped ==
  ASSUME WordingTyped, WordingInv', NEW e \in Editors, CommitFinal(e) PROVE WordingTyped'
<1> USE WordingKnown
<1>1. session' = session /\ ed' = ed /\ loads' = loads /\ record'.version = record.version
  BY DEF CommitFinal, RecordRow
<1>2. AnswerFits(req'[e], record.version) /\ \A d \in Editors : d # e => req'[d] = req[d]
  BY DEF CommitFinal, AnswerFits, RequestRecord, NoReq, ReqEnds
<1> QED
  BY <1>1, <1>2, WordingMoves

\* Every step keeps the types of the wording and its editors.
LEMMA WordingTypedStep == WordingTyped /\ [WordingNext]_wordingVars => WordingTyped'
<1> SUFFICES ASSUME WordingTyped, [WordingNext]_wordingVars PROVE WordingTyped'
  OBVIOUS
<1>1. WordingInv'
  BY WordingStepKeeps DEF WordingTyped
<1>2. CASE UNCHANGED wordingVars
  BY <1>1, <1>2 DEF wordingVars, WordingTyped
<1>3. ASSUME NEW e \in Editors, NEW s \in loads[e], PageLoaded(e, s) \/ PanelLoaded(e, s) \/ LoadFails(e, s)
      PROVE  WordingTyped'
  BY <1>1, <1>3, LoadedTyped
<1>4. ASSUME NEW e \in Editors,
             \/ \E empty \in BOOLEAN : Type(e, empty)
             \/ TypeBack(e) \/ PressFinalize(e) \/ AnswerLost(e) \/ CheckWording(e)
             \/ \E next \in {"nothing", "finalize"} : PressSave(e, next)
      PROVE  WordingTyped'
  BY <1>1, <1>4, PressesTyped
<1>5. ASSUME NEW e \in Editors, Saved(e) \/ SaveRefused(e) \/ Load(e) \/ Finalized(e) PROVE WordingTyped'
  BY <1>1, <1>5, EditAnsweredTyped
<1>6. ASSUME NEW e \in Editors, SaveArrives(e) \/ CommitFinal(e) PROVE WordingTyped'
  BY <1>1, <1>6, SaveTyped, CommitTyped
<1> QED
  BY <1>2, <1>3, <1>4, <1>5, <1>6 DEF WordingNext

\* They are the type invariant.
LEMMA WordingTypedIsTypeOK == WordingTyped => WordingTypeOK
<1> SUFFICES ASSUME WordingTyped PROVE WordingTypeOK
  OBVIOUS
<1>1. record \in [version : 1 .. session.versions, empty : BOOLEAN, locked : BOOLEAN]
  BY DEF WordingTyped, WordingInv, WordingShape, RecordRow
<1>2. ASSUME NEW e \in Editors
      PROVE  /\ ed[e].up \in {"loading", "shown", "error"}
             /\ ed[e].version \in 0 .. record.version
             /\ ed[e].up = "shown" => ed[e].version > 0 /\ ed[e].stored > 0
             /\ req[e].at \in {"none", "save", "saved", "refused", "check", "finalize", "done"}
             /\ \A s \in loads[e] : s.version \in 1 .. record.version
  BY WordingKnown DEF EditorFits, AnswerFits, SnapshotsFit, EditorRecord, RequestRecord
<1> QED
  BY <1>1, <1>2 DEF WordingTypeOK

\* No editor, request or answer ever names a version the insight has not had, and an
\* editor that is shown names one, for any number of editors.
THEOREM WordingTypeCorrect == WordingSpec => []WordingTypeOK
<1>1. WordingInit => WordingTyped
  BY WordingTypedAtFirst
<1>2. WordingTyped /\ [WordingNext]_wordingVars => WordingTyped'
  BY WordingTypedStep
<1>3. WordingTyped => WordingTypeOK
  BY WordingTypedIsTypeOK
<1> QED
  BY <1>1, <1>2, <1>3, PTL DEF WordingSpec

----------------------------------------------------------------------------
(* SearchIndex *)

\* The edits counted in the wording are among the writers that have ended.
EndedScribes == {w \in Scribes : work[w].at = "done"}

IndexTyped ==
  /\ IndexInv
  /\ quoted \subseteq Scribes \cup {"first"}
  /\ wording \in Nat /\ wording <= Cardinality(EndedScribes)

\* The scribes that ended are finitely many.
LEMMA EndedFinite ==
  ASSUME IndexInv
  PROVE  /\ IsFiniteSet(Scribes) /\ Cardinality(Scribes) \in Nat
         /\ IsFiniteSet(EndedScribes) /\ Cardinality(EndedScribes) \in Nat /\ Cardinality(EndedScribes) <= Cardinality(Scribes)
<1>1. IsFiniteSet(Scribes)
  BY SearchIndexAssumption DEF IndexInv, IndexShape, Scribes
<1>2. EndedScribes \in SUBSET Scribes
  BY DEF EndedScribes
<1> QED
  BY <1>1, <1>2, FS_Subset, FS_CardinalityType

\* What has ended stays so, and one more ends where the wording goes on.
LEMMA IndexMoves ==
  ASSUME IndexTyped, IndexInv', Scribes' = Scribes, quoted' \subseteq Scribes \cup {"first"},
         EndedScribes \subseteq EndedScribes',
         wording' = wording \/ (wording' = wording + 1 /\ \E w \in EndedScribes' : w \notin EndedScribes)
  PROVE  IndexTyped'
<1>1. /\ IsFiniteSet(Scribes) /\ IsFiniteSet(EndedScribes) /\ Cardinality(EndedScribes) \in Nat
      /\ wording \in Nat /\ wording <= Cardinality(EndedScribes)
  BY EndedFinite DEF IndexTyped
<1>2. EndedScribes' \in SUBSET Scribes
  BY DEF EndedScribes
<1>3. IsFiniteSet(EndedScribes') /\ Cardinality(EndedScribes') \in Nat
  BY <1>1, <1>2, FS_Subset, FS_CardinalityType
<1>4. Cardinality(EndedScribes) <= Cardinality(EndedScribes')
  BY <1>3, FS_Subset
<1>5. (\E w \in EndedScribes' : w \notin EndedScribes) => Cardinality(EndedScribes) < Cardinality(EndedScribes')
  <2> SUFFICES ASSUME NEW w \in EndedScribes', w \notin EndedScribes PROVE Cardinality(EndedScribes) < Cardinality(EndedScribes')
    OBVIOUS
  <2>1. EndedScribes # EndedScribes'
    OBVIOUS
  <2>2. Cardinality(EndedScribes) # Cardinality(EndedScribes')
    BY <1>3, <2>1, FS_Subset
  <2> QED BY <1>1, <1>3, <1>4, <2>2
<1>6. wording' \in Nat /\ wording' <= Cardinality(EndedScribes')
  BY <1>1, <1>3, <1>4, <1>5
<1> QED
  BY <1>6 DEF IndexTyped

\* Nothing is written at first.
LEMMA IndexTypedAtFirst == IndexInit => IndexTyped
<1> SUFFICES ASSUME IndexInit PROVE IndexTyped
  OBVIOUS
<1>1. IndexInv
  BY IndexBegins
<1>2. Cardinality(EndedScribes) \in Nat
  BY <1>1, EndedFinite
<1>3. quoted \subseteq Scribes \cup {"first"} /\ wording = 0
  BY DEF IndexInit
<1> QED
  BY <1>1, <1>2, <1>3 DEF IndexTyped

\* A scribe that begins has not ended.
LEMMA BeginningTyped ==
  ASSUME IndexTyped, IndexInv', NEW w \in Scribes,
         Edit(w) \/ Attach(w) \/ AddTranscript(w) \/ PurgeBegins(w) \/ Rebuild(w)
  PROVE  IndexTyped'
<1>1. IndexShape /\ quoted \subseteq Scribes \cup {"first"}
  BY DEF IndexTyped, IndexInv
<1>2. PICK blank : WriterBegins(w, blank) /\ blank \in {IdleWriter, [IdleWriter EXCEPT !.purged = scripts]}
  BY DEF Edit, Attach, AddTranscript, PurgeBegins, Rebuild
<1>3. work[w].at = "idle" /\ crew' = crew /\ wording' = wording
  BY <1>2 DEF WriterBegins
<1>4. \A v \in Scribes \ {w} : SameTask(v)
  BY <1>1, <1>2, BeginningLeaves
<1>5. Scribes' = Scribes
  BY <1>3 DEF Scribes
<1>6. EndedScribes \subseteq EndedScribes'
  BY <1>3, <1>4, <1>5 DEF EndedScribes, SameTask
<1>7. quoted' \subseteq Scribes \cup {"first"}
  BY <1>1 DEF Edit, Attach, AddTranscript, PurgeBegins, Rebuild
<1> QED
  BY <1>3, <1>5, <1>6, <1>7, IndexMoves

\* A statement changes rows, and not how many scribes ended.
LEMMA StatementTyped ==
  ASSUME IndexTyped, IndexInv', NEW w \in Scribes,
         DeleteSees(w) \/ DeleteEnds(w) \/ MarkQuotes(w) \/ ReadText(w) \/ InsertText(w) \/ CopyRows(w)
  PROVE  IndexTyped'
<1>1. crew' = crew /\ wording' = wording /\ quoted' = quoted
  BY DEF DeleteSees, DeleteEnds, MarkQuotes, ReadText, InsertText, CopyRows, Tables
<1>2. work[w].at # "done"
  BY DEF DeleteSees, DeleteEnds, MarkQuotes, ReadText, InsertText, CopyRows
<1>3. \A v \in Scribes : v # w => work'[v] = work[v]
  <2>1. work = [v \in Scribes |-> work[v]]
    BY DEF IndexTyped, IndexInv, IndexShape
  <2>2. ASSUME NEW q, work' = [work EXCEPT ![w] = q] PROVE \A v \in Scribes : v # w => work'[v] = work[v]
    BY <2>1, <2>2
  <2>3. CASE DeleteSees(w) \/ MarkQuotes(w)
    BY <2>2, <2>3 DEF DeleteSees, MarkQuotes
  <2>4. CASE DeleteEnds(w) \/ InsertText(w)
    BY <2>2, <2>4 DEF DeleteEnds, InsertText
  <2>5. CASE ReadText(w)
    BY <2>2, <2>5 DEF ReadText
  <2>6. CASE CopyRows(w)
    BY ZenonT(40), <2>2, <2>6 DEF CopyRows
  <2> QED BY <2>3, <2>4, <2>5, <2>6
<1>4. Scribes' = Scribes
  BY <1>1 DEF Scribes
<1>5. EndedScribes \subseteq EndedScribes'
  BY <1>2, <1>3, <1>4 DEF EndedScribes
<1>6. quoted' \subseteq Scribes \cup {"first"}
  BY <1>1 DEF IndexTyped
<1> QED
  BY <1>1, <1>4, <1>5, <1>6, IndexMoves

\* A scribe ends once.
LEMMA EndTyped ==
  ASSUME IndexTyped, IndexInv', NEW w \in Scribes, CommitIndex(w) \/ WriterFails(w) PROVE IndexTyped'
<1>1. /\ crew' = crew /\ quoted' \subseteq quoted /\ WriterEnds(w)
      /\ wording' = wording \/ wording' = wording + 1
  BY DEF CommitIndex, WriterFails
<1>2. work[w].at # "done"
  BY DEF CommitIndex, WriterFails, Writing
<1>3. work = [v \in Scribes |-> work[v]]
  BY DEF IndexTyped, IndexInv, IndexShape
<1>4. work'[w].at = "done" /\ \A v \in Scribes : v # w => work'[v] = work[v]
  BY <1>1, <1>3 DEF WriterEnds, IdleWriter
<1>5. Scribes' = Scribes
  BY <1>1 DEF Scribes
<1>6. EndedScribes \subseteq EndedScribes' /\ w \in EndedScribes' /\ w \notin EndedScribes
  BY <1>2, <1>4, <1>5 DEF EndedScribes
<1>7. quoted' \subseteq Scribes \cup {"first"}
  BY <1>1 DEF IndexTyped
<1> QED
  BY <1>1, <1>5, <1>6, <1>7, IndexMoves

\* Every step keeps the types of the index.
LEMMA IndexTypedStep == IndexTyped /\ [IndexNext]_indexVars => IndexTyped'
<1> SUFFICES ASSUME IndexTyped, [IndexNext]_indexVars PROVE IndexTyped'
  OBVIOUS
<1>1. IndexInv'
  BY IndexStep DEF IndexTyped
<1>2. CASE UNCHANGED indexVars
  <2>1. UNCHANGED <<crew, wording, quoted, work>>
    BY <1>2 DEF indexVars
  <2> QED BY <1>1, <2>1 DEF IndexTyped, EndedScribes, Scribes
<1>3. ASSUME NEW w \in Scribes,
             \/ Edit(w) \/ Attach(w) \/ AddTranscript(w) \/ PurgeBegins(w) \/ Rebuild(w)
             \/ DeleteSees(w) \/ DeleteEnds(w) \/ MarkQuotes(w) \/ ReadText(w) \/ InsertText(w)
             \/ CopyRows(w) \/ CommitIndex(w) \/ WriterFails(w)
      PROVE  IndexTyped'
  BY <1>1, <1>3, BeginningTyped, StatementTyped, EndTyped
<1> QED
  BY <1>2, <1>3 DEF IndexNext, Scribes

\* They are the type invariant.
LEMMA IndexTypedIsTypeOK == IndexTyped => IndexTypeOK
<1> SUFFICES ASSUME IndexTyped PROVE IndexTypeOK
  OBVIOUS
<1>1. IndexInv /\ IndexShape /\ quoted \subseteq Scribes \cup {"first"}
  BY DEF IndexTyped, IndexInv
<1>2. wording <= Cardinality(DOMAIN crew)
  <2>1. /\ wording \in Nat /\ wording <= Cardinality(EndedScribes) /\ Cardinality(EndedScribes) \in Nat
        /\ Cardinality(EndedScribes) <= Cardinality(Scribes) /\ Cardinality(Scribes) \in Nat
    BY <1>1, EndedFinite DEF IndexTyped
  <2>2. wording <= Cardinality(Scribes)
    BY <2>1
  <2> QED BY <2>2 DEF Scribes
<1>3. ASSUME NEW w \in Scribes PROVE work[w].on \in DOMAIN Course(crew[w])
  <2>1. work[w].on \in {1, 2} /\ (work[w].on = 2 => crew[w] \in {"purge", "rebuild"}) /\ crew[w] \in Jobs
    BY <1>1, Courses DEF IndexShape, WriterShape
  <2>2. CASE crew[w] \in {"edit", "attach", "paste"}
    <3>1. Course(crew[w]) = <<"insight">> \/ Course(crew[w]) = <<"transcripts">>
      BY <2>2 DEF Course
    <3>2. DOMAIN Course(crew[w]) = {1}
      BY <3>1
    <3>3. work[w].on = 1
      BY <2>1, <2>2
    <3> QED BY <3>2, <3>3
  <2>3. CASE crew[w] \in {"purge", "rebuild"}
    <3>1. Course(crew[w]) = <<"transcripts", "insight">> \/ Course(crew[w]) = <<"insight", "transcripts">>
      BY <2>3 DEF Course
    <3>2. DOMAIN Course(crew[w]) = {1, 2}
      BY <3>1
    <3> QED BY <2>1, <3>2
  <2> QED BY <2>1, <2>2, <2>3 DEF Jobs
<1> QED
  BY <1>1, <1>2, <1>3 DEF IndexTypeOK, IndexShape, Scribes

\* The wording counts edits that were committed, once each, and what is quoted or
\* transcribed was written by a writer of the behaviour, whoever overlaps and fails.
THEOREM IndexTypeCorrect == IndexSpec => []IndexTypeOK
<1>1. IndexInit => IndexTyped
  BY IndexTypedAtFirst
<1>2. IndexTyped /\ [IndexNext]_indexVars => IndexTyped'
  BY IndexTypedStep
<1>3. IndexTyped => IndexTypeOK
  BY IndexTypedIsTypeOK
<1> QED
  BY <1>1, <1>2, <1>3, PTL DEF IndexSpec

=============================================================================
