----------------------------- MODULE SearchIndex -----------------------------
(***************************************************************************)
(* The full-text index beside the tables.  Whoever changes an insight's    *)
(* wording or quotes, or a meeting's transcripts, deletes the index rows   *)
(* and inserts new ones read from the tables.  Statements run as Postgres  *)
(* runs them at READ COMMITTED: a DELETE takes the rows it saw when it     *)
(* began, waits for whoever is deleting one of them, and never looks       *)
(* again, so a row committed meanwhile escapes it.  What an edit indexes   *)
(* it has locked; an extraction indexes after its transaction, and a purge *)
(* and a rebuild lock nothing of what they read.                           *)
(***************************************************************************)
EXTENDS Naturals, Sequences, FiniteSets

CONSTANT
  Crews     \* who writes in a behaviour: writers and their jobs

ASSUME SearchIndexAssumption ==
  \A jobs \in Crews :
    /\ \A w \in DOMAIN jobs : jobs[w] \in {"edit", "attach", "paste", "purge", "rebuild"}
    /\ {"first", "insight"} \cap DOMAIN jobs = {} /\ IsFiniteSet(DOMAIN jobs)

VARIABLES
  crew,      \* the writers of this behaviour and their jobs
  wording,   \* the insight's wording, as a number of edits
  quoted,    \* the quotes recorded for it, named by who recorded them
  scripts,   \* the meeting's transcripts, named by who added them
  ftsRows,   \* the committed index rows: of the insight or a transcript, the text, who wrote it
  work,      \* each writer: its place, and what it saw and has not committed
  torn       \* history: what was written by overlapping writers, and by nobody alone since

indexVars == <<crew, wording, quoted, scripts, ftsRows, work, torn>>

Things == {"insight", "transcripts"}

\* What a job indexes, in its order.
Course(job) == CASE job \in {"edit", "attach"} -> <<"insight">>
                 [] job = "paste" -> <<"transcripts">>
                 [] job = "purge" -> <<"transcripts", "insight">>
                 [] job = "rebuild" -> <<"insight", "transcripts">>
Touches(w, x) == \E n \in DOMAIN Course(crew[w]) : Course(crew[w])[n] = x

IdleWriter == [at |-> "idle", on |-> 1, saw |-> {}, gone |-> {}, new |-> {}, text |-> <<>>,
         purged |-> {}, blanked |-> {}, alone |-> FALSE]
Writing(w) == work[w].at \notin {"idle", "done"}
Thing(w) == Course(crew[w])[work[w].on]
Row(x, text, w) == [of |-> x, text |-> text, by |-> w]

IndexInit ==
  /\ crew \in Crews
  /\ wording = 0 /\ quoted = {"first"} /\ scripts = {"first"}
  /\ ftsRows = {Row("insight", <<0, {"first"}>>, "first"), Row("first", <<>>, "first")}
  /\ work = [w \in DOMAIN crew |-> IdleWriter]
  /\ torn = {}

----------------------------------------------------------------------------
(* A writer begins *)

Others(w, x) == {v \in DOMAIN crew \ {w} : Writing(v) /\ Touches(v, x)}

\* Edits hold the insight's row and pastes have a transcript each: among themselves
\* they cannot meet in the index.
Meet(v, w) == crew[v] # crew[w] \/ crew[v] \notin {"edit", "paste"}
Met(w) == {x \in Things : Touches(w, x) /\ \E v \in Others(w, x) : Meet(v, w)}

WriterBegins(w, change) ==
  /\ work[w].at = "idle"
  /\ LET disturbed == {v \in DOMAIN crew \ {w} : \E x \in Met(w) : Touches(v, x)} IN
     work' = [v \in DOMAIN crew |->
               IF v = w THEN [change EXCEPT !.at = "delete",
                                !.alone = \A x \in Things : Touches(w, x) => Others(w, x) = {}]
               ELSE IF v \in disturbed THEN [work[v] EXCEPT !.alone = FALSE] ELSE work[v]]
  /\ torn' = torn \cup Met(w)
  /\ UNCHANGED <<crew, wording, scripts, ftsRows>>

RowHeld == \E v \in DOMAIN crew : crew[v] = "edit" /\ Writing(v)

\* Saving, routing or merging, in one transaction that has updated the row first.
Edit(w) ==
  /\ crew[w] = "edit" /\ ~RowHeld
  /\ WriterBegins(w, IdleWriter) /\ UNCHANGED quoted

\* An extraction commits a quote, and indexes the insight afterwards, on its own.
Attach(w) ==
  /\ crew[w] = "attach" /\ ~RowHeld
  /\ WriterBegins(w, IdleWriter) /\ quoted' = quoted \cup {w}

AddTranscript(w) ==
  /\ crew[w] = "paste"
  /\ WriterBegins(w, IdleWriter) /\ UNCHANGED quoted

\* Deleting the transcripts it sees, and their index rows next.
PurgeBegins(w) ==
  /\ crew[w] = "purge"
  /\ WriterBegins(w, [IdleWriter EXCEPT !.purged = scripts]) /\ UNCHANGED quoted

Rebuild(w) ==
  /\ crew[w] = "rebuild"
  /\ WriterBegins(w, IdleWriter) /\ UNCHANGED quoted

----------------------------------------------------------------------------
(* Its statements *)

Tables == UNCHANGED <<crew, wording, quoted, scripts, torn>>

\* Mutant: the rebuild leaves the transcripts' rows in place.
CoversForgetful(w, row) ==
  IF crew[w] = "paste" THEN row.of = w
  ELSE (row.of = "insight" <=> Thing(w) = "insight") /\ (crew[w] = "rebuild" => row.of = "insight")

Covers(w, row) ==
  IF crew[w] = "paste" THEN row.of = w ELSE row.of = "insight" <=> Thing(w) = "insight"

DeleteSees(w) ==
  /\ work[w].at = "delete"
  /\ work' = [work EXCEPT ![w].at = "deleting", ![w].saw = {row \in ftsRows : Covers(w, row)}]
  /\ UNCHANGED ftsRows /\ Tables

DeleteEnds(w) ==
  /\ work[w].at = "deleting"
  /\ \A v \in DOMAIN crew \ {w} : work[v].gone \cap work[w].saw = {}
  /\ LET took == work[w].saw \cap ftsRows
         on == IF crew[w] = "purge" /\ Thing(w) = "transcripts" THEN "mark" ELSE "read"
     IN IF crew[w] = "attach"
        THEN ftsRows' = ftsRows \ took /\ work' = [work EXCEPT ![w].at = on, ![w].saw = {}]
        ELSE /\ UNCHANGED ftsRows
             /\ work' = [work EXCEPT ![w].at = on, ![w].saw = {}, ![w].gone = @ \cup took]
  /\ Tables

\* The purge blanks the quotes it sees.
MarkQuotes(w) ==
  /\ work[w].at = "mark"
  /\ work' = [work EXCEPT ![w].at = "delete", ![w].on = 2, ![w].blanked = quoted]
  /\ UNCHANGED ftsRows /\ Tables

TextNow(w) == <<IF crew[w] = "edit" THEN wording + 1 ELSE wording, quoted \ work[w].blanked>>

\* The wording and the quotes as its transaction sees them.
ReadText(w) ==
  /\ work[w].at = "read" /\ crew[w] # "rebuild"
  /\ work' = [work EXCEPT ![w].at = "insert", ![w].text = IF Thing(w) = "insight" THEN TextNow(w) ELSE <<>>]
  /\ UNCHANGED ftsRows /\ Tables

InsertText(w) ==
  /\ work[w].at = "insert"
  /\ LET row == Row(IF Thing(w) = "insight" THEN "insight" ELSE w, work[w].text, w) IN
     IF crew[w] = "attach" THEN ftsRows' = ftsRows \cup {row} /\ work' = [work EXCEPT ![w].at = "commit"]
     ELSE UNCHANGED ftsRows /\ work' = [work EXCEPT ![w].at = "commit", ![w].new = @ \cup {row}]
  /\ Tables

\* One statement reads and inserts.
CopyRows(w) ==
  /\ work[w].at = "read" /\ crew[w] = "rebuild"
  /\ work' = [work EXCEPT
       ![w].new = @ \cup (IF Thing(w) = "insight" THEN {Row("insight", TextNow(w), w)}
                          ELSE {Row(t, <<>>, w) : t \in scripts}),
       ![w].at = IF work[w].on = 2 THEN "commit" ELSE "delete", ![w].on = 2]
  /\ UNCHANGED ftsRows /\ Tables

WriterEnds(w) == work' = [work EXCEPT ![w] = [IdleWriter EXCEPT !.at = "done"]]

\* A writer that ran alone has put right what it indexes; a paste, only its own row.
CommitIndex(w) ==
  /\ work[w].at = "commit"
  /\ WriterEnds(w)
  /\ ftsRows' = (ftsRows \ work[w].gone) \cup work[w].new
  /\ wording' = IF crew[w] = "edit" THEN wording + 1 ELSE wording
  /\ quoted' = quoted \ work[w].blanked
  /\ scripts' = (scripts \ work[w].purged) \cup (IF crew[w] = "paste" THEN {w} ELSE {})
  /\ torn' = IF work[w].alone /\ crew[w] # "paste" THEN {x \in torn : ~Touches(w, x)} ELSE torn
  /\ UNCHANGED crew

\* A failure takes back the transaction; what an extraction has not indexed stays so.
WriterFails(w) ==
  /\ Writing(w)
  /\ WriterEnds(w)
  /\ torn' = IF crew[w] = "attach" /\ work[w].at # "commit" THEN torn \cup {"insight"} ELSE torn
  /\ UNCHANGED <<crew, wording, quoted, scripts, ftsRows>>

IndexNext ==
  \E w \in DOMAIN crew :
     \/ Edit(w) \/ Attach(w) \/ AddTranscript(w) \/ PurgeBegins(w) \/ Rebuild(w)
     \/ DeleteSees(w) \/ DeleteEnds(w) \/ MarkQuotes(w) \/ ReadText(w) \/ InsertText(w)
     \/ CopyRows(w) \/ CommitIndex(w) \/ WriterFails(w)

IndexSpec == IndexInit /\ [][IndexNext]_indexVars

----------------------------------------------------------------------------
IndexTypeOK ==
  /\ wording <= Cardinality(DOMAIN crew)
  /\ quoted \cup scripts \subseteq DOMAIN crew \cup {"first"}
  /\ torn \subseteq Things
  /\ \A w \in DOMAIN crew : work[w].on \in DOMAIN Course(crew[w])

\* What a search finds: there is one index row for the insight, of its present wording
\* and quotes, and one for each transcript, and nothing of what was purged; unless
\* writers overlapped that hold nothing in common (an extraction's indexing at
\* pipeline.ts:680, a purge, a rebuild), and until one of them next ran alone.  Edits
\* may overlap as they like.
IndexFollows ==
  LET written(x) == \E w \in DOMAIN crew : Writing(w) /\ Touches(w, x) IN
  /\ "insight" \in torn \/ written("insight") \/
     \E w \in DOMAIN crew \cup {"first"} :
        {row \in ftsRows : row.of = "insight"} = {Row("insight", <<wording, quoted>>, w)}
  /\ "transcripts" \in torn \/ written("transcripts") \/
     LET rows == {row \in ftsRows : row.of # "insight"} IN
     {row.of : row \in rows} = scripts /\ Cardinality(rows) = Cardinality(scripts)
=============================================================================
