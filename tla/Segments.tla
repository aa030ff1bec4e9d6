------------------------------- MODULE Segments -------------------------------
(***************************************************************************)
(* From a transcript as it comes in to quotes with offsets                 *)
(* (extract/segment.ts).  The text is cleaned when it is stored and again  *)
(* when it is read; the model is shown overlapping windows of it; a quote  *)
(* is looked for with any whitespace, and what is recorded are offsets     *)
(* that the record page applies to the stored text.  Cleaning only takes   *)
(* characters away, so each of its steps is given by the places it keeps.  *)
(***************************************************************************)
EXTENDS Naturals, Sequences, FiniteSets

CONSTANTS
  Chars,         \* among them "blank", "end" of a line, and "stamp" for a whole timestamp
  MaxText,       \* bound on the text that comes in
  ChunkChars,
  OverlapChars

ASSUME SegmentsAssumption ==
  MaxText \in Nat /\ ChunkChars \in Nat /\ OverlapChars \in Nat /\ OverlapChars < ChunkChars

VARIABLE raw  \* the text as it came in

segmentVars == <<raw>>

White == {"blank", "end"}
Ink(s) == {i \in DOMAIN s : s[i] \notin White}

\* The place of the k-th in a set of places, and what is left of a text at such a set.
Nth(places, k) == CHOOSE i \in places : Cardinality({j \in places : j <= i}) = k
Strip(s, kept) == [k \in 1 .. Cardinality(kept) |-> s[Nth(kept, k)]]
First(places) == CHOOSE i \in places : \A j \in places : i <= j

\* Two places with no end of a line between them; an end belongs to the line it begins.
SameLine(s, i, j) == \A k \in DOMAIN s : (i < k /\ k <= j) \/ (j < k /\ k <= i) => s[k] # "end"

\* TIMESTAMP_ONLY_LINE
TimestampOnly(s, i) ==
  \E j \in DOMAIN s : /\ s[j] = "stamp" /\ SameLine(s, i, j)
                      /\ \A k \in Ink(s) : SameLine(s, i, k) => k = j
WithoutTimestamps(s) == Strip(s, {i \in DOMAIN s : ~TimestampOnly(s, i)})

\* Blanks of a line become one, and none stays at its ends.
SqueezeLines(s) ==
  Strip(s, {i \in DOMAIN s : \/ s[i] # "blank"
                             \/ i - 1 \in Ink(s) /\ \E j \in Ink(s) : i < j /\ SameLine(s, i, j)})

\* At most one empty line in a row.
FewerEmpty(s) == Strip(s, {i \in DOMAIN s : i < 3 \/ {s[i], s[i - 1], s[i - 2]} # {"end"}})

Trim(s) == Strip(s, {i \in DOMAIN s : \E a, b \in Ink(s) : a <= i /\ i <= b})

\* cleanTranscript
Clean(s) == Trim(FewerEmpty(SqueezeLines(WithoutTimestamps(s))))

\* chunkTranscript: each window starts OverlapChars before the last one's end.
\* Mutant: it starts where the last one ended.
ChunksApart(s) ==
  LET windows[start \in 0 .. Len(s)] ==
        IF start + ChunkChars >= Len(s) THEN {<<start + 1, Len(s)>>}
        ELSE {<<start + 1, start + ChunkChars>>} \cup windows[start + ChunkChars]
  IN IF s = <<>> THEN {} ELSE windows[0]

Chunks(s) ==
  LET windows[start \in 0 .. Len(s)] ==
        IF start + ChunkChars >= Len(s) THEN {<<start + 1, Len(s)>>}
        ELSE {<<start + 1, start + ChunkChars>>} \cup windows[start + ChunkChars - OverlapChars]
  IN IF s = <<>> THEN {} ELSE windows[0]

\* buildQuoteMatcher keeps what is no whitespace, and one place of each whitespace between.
Shown(s) ==
  {i \in DOMAIN s : i \in Ink(s) \/ (i - 1 \in Ink(s) /\ \E j \in Ink(s) : i < j)}

\* Each run of whitespace as one blank, none at the ends.
Squeeze(s) == Strip([i \in DOMAIN s |-> IF s[i] \in White THEN "blank" ELSE s[i]], Shown(s))

\* Where a character of the squeezed text stands; a blank has the place of the next.
PlaceOf(s, k) == First({i \in Ink(s) : Nth(Shown(s), k) <= i})

\* The first occurrence, as the places of its first and last character.
FindQuote(s, quote) ==
  LET norm == Squeeze(s)
      wanted == Squeeze(quote)
      found == {i \in DOMAIN norm : /\ i + Len(wanted) - 1 <= Len(norm)
                                    /\ \A k \in DOMAIN wanted : norm[i + k - 1] = wanted[k]}
  IN IF wanted = <<>> \/ found = {} THEN {}
     ELSE {<<PlaceOf(s, First(found)), PlaceOf(s, First(found) + Len(wanted) - 1)>>}

----------------------------------------------------------------------------
SegmentInit == raw = <<>>

\* The next character of a transcript someone brings.
Typed ==
  /\ Len(raw) < MaxText
  /\ \E c \in Chars : raw' = Append(raw, c)

SegmentNext == Typed

SegmentSpec == SegmentInit /\ [][SegmentNext]_segmentVars

----------------------------------------------------------------------------
SegmentTypeOK == raw \in Seq(Chars) /\ Len(raw) <= MaxText

\* The passage with a whitespace more beside another one or at an end, or with other ones.
Gaps(s) == {n \in 0 .. Len(s) : n \in {0, Len(s)} \/ s[n] \in White}
Widened(s, k, c) == SubSeq(s, 1, k) \o <<c>> \o SubSeq(s, k + 1, Len(s))
Respaced(s) ==
  {Widened(s, k, c) : k \in Gaps(s), c \in White}
  \cup {[i \in DOMAIN s |-> IF s[i] \in White THEN "end" ELSE s[i]], s}

\* "Overlapping character windows so items spanning a boundary appear whole in one
\* chunk" (segment.ts:29), and "char_start/char_end always point into the real
\* transcript" (segment.ts:62): whatever comes in, each passage of the stored text no
\* longer than the overlap is whole in a window, and quoted as it stands or with other
\* whitespace it is found, at places where the stored text says just that -- although
\* what was searched is the stored text cleaned once more.
QuotesFoundWhole ==
  LET stored == Clean(raw)
      text == Clean(stored)
      windows == Chunks(text)
  IN
  \A i, j \in Ink(stored) :
    i <= j =>
      LET passage == SubSeq(stored, i, j) IN
      /\ j - i + 1 <= OverlapChars =>
           \E w \in windows : w[1] <= i /\ j <= w[2]
      /\ \A quote \in Respaced(passage) :
           \E m \in FindQuote(text, quote) :
             /\ m[1] \in Ink(stored) /\ m[2] \in Ink(stored)
             /\ Squeeze(SubSeq(stored, m[1], m[2])) = Squeeze(passage)
=============================================================================
