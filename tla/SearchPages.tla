----------------------------- MODULE SearchPages -----------------------------
(***************************************************************************)
(* The two places that search while one types.  The library shows a table  *)
(* for its filters, or what a search for the typed text and those filters  *)
(* found; the palette looks its text up wherever it is opened.  Each waits *)
(* a moment after the last key before it asks, and answers come late and   *)
(* in any order.  The library numbers its searches and the palette cancels *)
(* them; the library's table is loaded with neither.                       *)
(***************************************************************************)
EXTENDS Naturals

CONSTANTS
  Surfaces,   \* which of the two is used: "library", "palette"
  Terms,      \* what may be typed
  ShortTerms, \* those too short for the palette to look up
  Filters,    \* the state, track and client chosen in the library
  Types,      \* the kind of insight chosen there, which the search does not look at
  MaxTurns    \* bound on what the user does

ASSUME SearchPagesAssumption ==
  /\ MaxTurns \in Nat
  /\ "all" \in Filters /\ "any" \in Types
  /\ "" \in ShortTerms /\ ShortTerms \subseteq Terms

VARIABLES
  surface, turns,       \* which is used, and what the user did, counted
  query, sieve, type,   \* what is typed and chosen
  open,                 \* is the palette up
  timer,                \* the search waiting for the typing to stop
  hunts,                \* searches under way: their number, what for, and are they awaited
  latest, searching,    \* the number of the last search; is it still to come
  result,               \* what the shown result is for
  tableLoads, lastLoad,      \* table loads under way, and their count
  table, loading, wrecked,  \* what the table shown is for; is one to come; did one fail
  overtaken             \* history: did an older load end after the last began

searchVars == <<surface, turns, query, sieve, type, open, timer, hunts, latest, searching, result,
                tableLoads, lastLoad, table, loading, wrecked, overtaken>>
tableVars == <<tableLoads, lastLoad, table, loading, wrecked, overtaken>>
huntVars == <<timer, hunts, latest, searching, result>>

NoSearch == [n |-> 0, text |-> "", sieve |-> "none", live |-> FALSE]

SearchInit ==
  /\ surface \in Surfaces /\ turns = 0
  /\ query = "" /\ sieve = "all" /\ type = "any" /\ open = FALSE
  /\ timer = NoSearch /\ hunts = {} /\ latest = 0 /\ searching = FALSE /\ result = NoSearch
  /\ lastLoad = 1 /\ tableLoads = {[n |-> 1, sieve |-> sieve, type |-> type]}
  /\ table = [sieve |-> "none", type |-> "none"] /\ loading = TRUE /\ wrecked = FALSE
  /\ overtaken = FALSE

Turn(where) == surface = where /\ turns < MaxTurns /\ turns' = turns + 1 /\ UNCHANGED surface

----------------------------------------------------------------------------
(* The library *)

\* The table is loaded anew when a filter changes.
Tabulate(f, t) ==
  IF f = sieve /\ t = type THEN UNCHANGED tableVars
  ELSE /\ lastLoad' = lastLoad + 1
       /\ tableLoads' = tableLoads \cup {[n |-> lastLoad + 1, sieve |-> f, type |-> t]}
       /\ loading' = TRUE /\ wrecked' = FALSE /\ overtaken' = FALSE
       /\ UNCHANGED table

\* A search is due when the text or what it is searched among changes.
Hunt(q, f) ==
  /\ UNCHANGED hunts
  /\ IF q = query /\ f = sieve THEN UNCHANGED <<timer, latest, searching, result>>
     ELSE IF q = "" THEN timer' = NoSearch /\ result' = NoSearch /\ searching' = FALSE /\ UNCHANGED latest
     ELSE /\ timer' = [n |-> latest + 1, text |-> q, sieve |-> f, live |-> TRUE]
          /\ latest' = latest + 1 /\ searching' = TRUE
          /\ UNCHANGED result

ChooseFilters(q, f, t) ==
  /\ Turn("library")
  /\ \/ f = sieve /\ t = type       \* typing
     \/ q = query /\ t = type       \* a state, a track or a client
     \/ q = query /\ f = sieve      \* a kind of insight
  /\ <<q, f, t>> # <<query, sieve, type>>
  /\ query' = q /\ sieve' = f /\ type' = t
  /\ Tabulate(f, t) /\ Hunt(q, f) /\ UNCHANGED open

ClearFilters ==
  /\ Turn("library")
  /\ query' = "" /\ sieve' = "all" /\ type' = "any"
  /\ Tabulate("all", "any") /\ Hunt("", "all")
  /\ UNCHANGED open

LoadTableAgain ==
  /\ Turn("library") /\ wrecked /\ ~loading /\ query = ""
  /\ lastLoad' = lastLoad + 1
  /\ tableLoads' = tableLoads \cup {[n |-> lastLoad + 1, sieve |-> sieve, type |-> type]}
  /\ loading' = TRUE /\ wrecked' = FALSE /\ overtaken' = FALSE
  /\ UNCHANGED <<query, sieve, type, open, table, huntVars>>

\* Whichever load it answers.
TableArrives(l, ok) ==
  /\ l \in tableLoads /\ surface = "library"
  /\ tableLoads' = tableLoads \ {l} /\ loading' = FALSE
  /\ IF ok THEN table' = [sieve |-> l.sieve, type |-> l.type] /\ UNCHANGED wrecked
     ELSE wrecked' = TRUE /\ UNCHANGED table
  /\ overtaken' = (overtaken \/ l.n # lastLoad)
  /\ UNCHANGED <<surface, turns, query, sieve, type, open, lastLoad, huntVars>>

----------------------------------------------------------------------------
(* The palette *)

\* The search that waits and those under way are called off; another waits.
LookUpLater(q, up) ==
  /\ hunts' = {[h EXCEPT !.live = FALSE] : h \in hunts}
  /\ timer' = IF up /\ q \notin ShortTerms THEN [NoSearch EXCEPT !.text = q, !.live = TRUE] ELSE NoSearch
  /\ UNCHANGED <<latest, searching, sieve, type, tableVars>>

\* The chord opens and closes it, and leaves what is in it.
Toggle ==
  /\ Turn("palette")
  /\ open' = ~open
  /\ LookUpLater(query, open')
  /\ result' = IF open' /\ query \in ShortTerms THEN NoSearch ELSE result
  /\ UNCHANGED query

TypeInto(q) ==
  /\ Turn("palette") /\ open /\ q # query
  /\ query' = q
  /\ LookUpLater(q, TRUE)
  /\ result' = IF q \in ShortTerms THEN NoSearch ELSE result
  /\ UNCHANGED open

\* Escape, a click outside, or anything that is run from it.
ClosePalette ==
  /\ Turn("palette") /\ open
  /\ open' = FALSE /\ query' = "" /\ result' = NoSearch
  /\ LookUpLater("", FALSE)

----------------------------------------------------------------------------
(* Searches *)

TypingStopped ==
  /\ timer.live
  /\ hunts' = hunts \cup {timer} /\ timer' = NoSearch
  /\ UNCHANGED <<surface, turns, query, sieve, type, open, latest, searching, result, tableVars>>

\* Mutant: any answer is taken.
AwaitsAny(h) == TRUE

Awaited(h) == IF surface = "library" THEN h.n = latest ELSE h.live

\* Found, or failed, which shows that nothing was.
SearchArrives(h) ==
  /\ h \in hunts
  /\ hunts' = hunts \ {h}
  /\ IF Awaited(h) THEN result' = [h EXCEPT !.live = TRUE] /\ searching' = FALSE
     ELSE UNCHANGED <<result, searching>>
  /\ UNCHANGED <<surface, turns, query, sieve, type, open, timer, latest, tableVars>>

SearchNext ==
  \/ \E q \in Terms, f \in Filters, t \in Types : ChooseFilters(q, f, t)
  \/ ClearFilters \/ LoadTableAgain
  \/ \E l \in tableLoads, ok \in BOOLEAN : TableArrives(l, ok)
  \/ Toggle \/ ClosePalette \/ TypingStopped
  \/ \E q \in Terms : TypeInto(q)
  \/ \E h \in hunts : SearchArrives(h)

SearchSpec == SearchInit /\ [][SearchNext]_searchVars

----------------------------------------------------------------------------
SearchTypeOK ==
  /\ surface \in Surfaces /\ turns \in 0 .. MaxTurns
  /\ query \in Terms /\ sieve \in Filters /\ type \in Types
  /\ latest \in 0 .. MaxTurns /\ lastLoad \in 1 .. MaxTurns + 1
  /\ \A h \in hunts : h.text \in Terms \ {""}

\* Nobody reads the answer to another question.  A library that is not searching shows
\* what was found for the text and the filters in the form, and one that is not loading
\* the table for them, except that a load overtaken by a later one (Insights.tsx:157,
\* where nothing numbers the loads) may end last.  A palette that waits for nothing
\* shows what was found for its text.
ShowsWhatWasAsked ==
  /\ surface = "library" /\ query # "" /\ ~searching =>
       result.live /\ result.text = query /\ result.sieve = sieve
  /\ surface = "library" /\ query = "" /\ ~loading /\ ~wrecked =>
       table = [sieve |-> sieve, type |-> type] \/ overtaken
  /\ surface = "palette" /\ open /\ ~timer.live /\ (\A h \in hunts : ~h.live) =>
       result.text = IF query \in ShortTerms THEN "" ELSE query
=============================================================================
