----------------------------- MODULE PageProofs -----------------------------
(*****************************************************************************)
(* Theorems about the web application's pages, for every interleaving of     *)
(* clicks, loads and answers: the review queue, the proof page, the page of  *)
(* an insight, the capture page, the library and the palette, the page of a  *)
(* meeting.                                                                  *)
(*****************************************************************************)
EXTENDS ReviewQueue, ProofPage, RecordPage, CapturePage, SearchPages, MeetingPage, NaturalFacts

----------------------------------------------------------------------------
(*****************************************************************************)
(* ReviewQueue.  The page comes to rest: each way of not being at rest leads *)
(* to another one with fewer renders to go (Moving), and none leads back.    *)
(*****************************************************************************)

IsSeq(s) == \E S : s \in Seq(S)

\* Where the page is on its way to rest.
Arriving == SelPlace # 0 /\ SelPlace = sawAt /\ idx = SelPlace
Lost     == SelPlace = 0 /\ idx <= LastPlace /\ (idx = sawIdx \/ flat = <<>>)
Pulled   == SelPlace # 0 /\ SelPlace # sawAt /\ idx = sawIdx
Stepped  == SelPlace = sawAt /\ idx \in DOMAIN flat
Beyond   == idx = sawIdx /\ idx > LastPlace /\ (SelPlace = sawAt \/ SelPlace = 0)

Rests == flush = 0 /\ (SelPlace # 0 => flat[idx] = sel \/ adrift)

Moving ==
  \/ Arriving /\ flush <= 3
  \/ Lost /\ flush <= 3
  \/ Pulled /\ flush <= 2
  \/ Stepped /\ flush <= 1
  \/ Beyond /\ flush = 0

SettleShape ==
  /\ flush \in 0 .. 3
  /\ idx \in Nat \ {0}
  /\ IsSeq(flat)
  /\ \A f \in coming : IsSeq(f.list)

SettleInv == SettleShape /\ (AtRest => Rests) /\ (~AtRest => Moving)

Place(s, i) ==
  LET hits == {n \in DOMAIN s : s[n] = i}
  IN IF hits = {} THEN 0 ELSE CHOOSE n \in hits : \A m \in hits : n <= m
FinalOf(s) == IF s = <<>> THEN 1 ELSE Len(s)

----------------------------------------------------------------------------

\* The domain of a sequence, and its last place.
LEMMA SeqFacts ==
  ASSUME NEW s, IsSeq(s)
  PROVE  /\ Len(s) \in Nat /\ DOMAIN s = 1 .. Len(s)
         /\ FinalOf(s) \in Nat \ {0}
         /\ s # <<>> => FinalOf(s) \in DOMAIN s
         /\ \A n \in DOMAIN s : n \in Nat \ {0} /\ n <= FinalOf(s)
         /\ \A n \in Nat \ {0} : n <= FinalOf(s) /\ s # <<>> => n \in DOMAIN s
         /\ s = <<>> => FinalOf(s) = 1 /\ DOMAIN s = {}
<1>1. PICK S : s \in Seq(S)
  BY DEF IsSeq
<1>2. Len(s) \in Nat /\ DOMAIN s = 1 .. Len(s)
  BY <1>1
<1>3. s # <<>> => Len(s) > 0
  BY <1>1
<1>4. s = <<>> => Len(s) = 0
  BY <1>1
<1>5. QED
  BY <1>2, <1>3, <1>4 DEF FinalOf

\* Where an insight is in a sequence, if it is.
LEMMA PlaceFacts ==
  ASSUME NEW s, IsSeq(s), NEW i
  PROVE  /\ Place(s, i) \in Nat
         /\ Place(s, i) # 0 => Place(s, i) \in DOMAIN s /\ s[Place(s, i)] = i
         /\ \A n \in DOMAIN s : s[n] = i => Place(s, i) # 0
<1> DEFINE hits == {n \in DOMAIN s : s[n] = i}
<1>1. \A n \in DOMAIN s : n \in Nat \ {0}
  BY SeqFacts
<1>2. CASE hits = {}
  <2>1. Place(s, i) = 0
    BY <1>2 DEF Place
  <2>2. QED
    BY <1>2, <2>1
<1>3. CASE hits # {}
  <2>1. \E n \in hits : \A m \in hits : n <= m
    <3>1. hits \in SUBSET Nat
      BY <1>1
    <3> HIDE DEF hits
    <3>2. QED
      BY <1>3, <3>1, LeastNatural
  <2>2. Place(s, i) = CHOOSE n \in hits : \A m \in hits : n <= m
    BY <1>3 DEF Place
  <2>3. Place(s, i) \in hits
    <3> HIDE DEF hits
    <3>1. QED
      BY <2>1, <2>2
  <2>4. QED
    BY <1>1, <2>3
<1>4. QED
  BY <1>2, <1>3

\* The place of the selection.
LEMMA SelPlaceIs == SelPlace = Place(flat, sel) /\ LastPlace = FinalOf(flat)
  BY DEF SelPlace, Place, LastPlace, FinalOf
\* And after a step.
LEMMA SelPlaceWillBe == SelPlace' = Place(flat', sel') /\ LastPlace' = FinalOf(flat')
  BY DEF SelPlace, Place, LastPlace, FinalOf

\* Another selection: the keyboard is pulled along, unless it left the queue.
LEMMA SelectionMoves ==
  ASSUME SettleInv, AtRest, flat' = flat, idx' = idx, UNCHANGED <<sawAt, sawIdx, flush, adrift>>
  PROVE  (AtRest => Rests)' /\ (~AtRest => Moving)'
<1>1. /\ IsSeq(flat) /\ flush = 0 /\ (SelPlace # 0 => flat[idx] = sel \/ adrift)
      /\ idx \in Nat \ {0}
  BY DEF SettleInv, SettleShape, Rests
<1>2. /\ SelPlace \in Nat /\ (SelPlace # 0 => flat[SelPlace] = sel)
  BY <1>1, SelPlaceIs, PlaceFacts
<1>3. /\ SelPlace' \in Nat /\ (SelPlace' # 0 => flat[SelPlace'] = sel') /\ LastPlace' = LastPlace
  BY <1>1, SelPlaceIs, SelPlaceWillBe, PlaceFacts
<1>4. SelPlace = sawAt /\ idx = sawIdx /\ idx <= LastPlace
  BY DEF AtRest
<1>5. CASE SelPlace' = sawAt
  <2>1. AtRest'
    BY <1>3, <1>4, <1>5 DEF AtRest
  <2>2. SelPlace' # 0 => flat'[idx'] = sel' \/ adrift'
    BY <1>1, <1>2, <1>3, <1>4, <1>5
  <2>3. QED
    BY <1>1, <2>1, <2>2 DEF Rests
<1>6. CASE SelPlace' # sawAt
  <2>1. ~AtRest'
    BY <1>6 DEF AtRest
  <2>2. Moving'
    BY <1>1, <1>3, <1>4, <1>6 DEF Moving, Pulled, Lost
  <2>3. QED
    BY <2>1, <2>2
<1>7. QED
  BY <1>5, <1>6

\* A key: the card it comes to is selected next.
LEMMA KeyMoves ==
  ASSUME SettleInv, AtRest, flat' = flat, sel' = sel, idx' \in DOMAIN flat,
         UNCHANGED <<sawAt, sawIdx, flush, adrift>>
  PROVE  (AtRest => Rests)' /\ (~AtRest => Moving)'
<1>1. /\ flush = 0 /\ (SelPlace # 0 => flat[idx] = sel \/ adrift)
  BY DEF SettleInv, SettleShape, Rests
<1>2. SelPlace' = SelPlace
  BY SelPlaceIs, SelPlaceWillBe
<1>3. SelPlace = sawAt /\ idx = sawIdx
  BY DEF AtRest
<1>4. AtRest' => idx' = idx
  BY <1>3 DEF AtRest
<1>5. (AtRest => Rests)'
  BY <1>1, <1>2, <1>4 DEF Rests
<1>6. Moving'
  BY <1>1, <1>2, <1>3 DEF Moving, Stepped
<1>7. QED
  BY <1>5, <1>6

\* Another queue.
LEMMA QueueMoves ==
  ASSUME SettleInv, AtRest, IsSeq(flat'), idx' = idx, UNCHANGED <<sawAt, sawIdx, flush>>,
         adrift' = (SelPlace # 0 /\ idx # SelPlace)
  PROVE  (AtRest => Rests)' /\ (~AtRest => Moving)'
<1>1. flush = 0 /\ idx \in Nat \ {0}
  BY DEF SettleInv, SettleShape, Rests
<1>2. /\ SelPlace' \in Nat /\ (SelPlace' # 0 => flat'[SelPlace'] = sel')
      /\ LastPlace' \in Nat
  BY SelPlaceWillBe, PlaceFacts, SeqFacts
<1>3. SelPlace = sawAt /\ idx = sawIdx
  BY DEF AtRest
<1>4. CASE AtRest'
  <2>1. SelPlace' = SelPlace
    BY <1>3, <1>4 DEF AtRest
  <2>2. SelPlace' # 0 => flat'[idx'] = sel' \/ adrift'
    BY <1>2, <2>1
  <2>3. QED
    BY <1>1, <1>4, <2>2 DEF Rests
<1>5. CASE ~AtRest'
  <2>1. SelPlace' # sawAt \/ idx > LastPlace'
    BY <1>2, <1>1, <1>3, <1>5 DEF AtRest
  <2>2. Moving'
    BY <1>1, <1>2, <1>3, <2>1 DEF Moving, Pulled, Lost, Beyond
  <2>3. QED
    BY <1>5, <2>2
<1>6. QED
  BY <1>4, <1>5

\* Nothing the two effects look at.
LEMMA NothingMoves ==
  ASSUME SettleInv, UNCHANGED <<flat, sel, idx, sawAt, sawIdx, flush, adrift>>
  PROVE  (AtRest => Rests)' /\ (~AtRest => Moving)'
<1>1. SelPlace' = SelPlace /\ LastPlace' = LastPlace
  BY SelPlaceIs, SelPlaceWillBe
<1>2. AtRest' <=> AtRest
  BY <1>1 DEF AtRest
<1>3. Rests' <=> Rests
  BY <1>1 DEF Rests
<1>4. Moving' <=> Moving
  BY <1>1 DEF Moving, Pulled, Lost, Beyond, Stepped, Arriving
<1>5. QED
  BY <1>2, <1>3, <1>4 DEF SettleInv

\* A render of the two effects brings the page nearer to rest.
LEMMA ChaseMoves ==
  ASSUME SettleInv, Chase
  PROVE  /\ (AtRest => Rests)' /\ (~AtRest => Moving)'
         /\ flush' \in 0 .. 3 /\ idx' \in Nat \ {0}
<1> DEFINE P == SelPlace
           Q == SelPlace'
<1>1. /\ IsSeq(flat) /\ flush \in 0 .. 3 /\ idx \in Nat \ {0} /\ Moving /\ ~AtRest
  BY DEF SettleInv, SettleShape, Chase
<1>2. /\ flat' = flat /\ sawAt' = SelPlace /\ sawIdx' = idx
      /\ flush' = IF AtRest' THEN 0 ELSE flush + 1
      /\ idx' = IF SelPlace # sawAt /\ SelPlace # 0 THEN SelPlace
                ELSE IF idx > LastPlace THEN LastPlace ELSE idx
      /\ sel' = IF idx # sawIdx /\ idx \in DOMAIN flat THEN flat[idx] ELSE sel
  BY <1>1 DEF Chase, Select, MaxFlush
<1>3. /\ P \in Nat /\ (P # 0 => P \in DOMAIN flat /\ flat[P] = sel)
      /\ Q \in Nat /\ (Q # 0 => flat[Q] = sel')
      /\ (\A n \in DOMAIN flat : flat[n] = sel' => Q # 0)
      /\ sel' = sel => Q = P
  BY <1>1, <1>2, SelPlaceIs, SelPlaceWillBe, PlaceFacts
<1>4. /\ LastPlace' = LastPlace /\ LastPlace \in Nat \ {0}
      /\ flat # <<>> => LastPlace \in DOMAIN flat
      /\ \A n \in DOMAIN flat : n \in Nat \ {0} /\ n <= LastPlace
      /\ \A n \in Nat \ {0} : n <= LastPlace /\ flat # <<>> => n \in DOMAIN flat
      /\ flat = <<>> => LastPlace = 1 /\ DOMAIN flat = {}
  BY <1>1, <1>2, SelPlaceIs, SelPlaceWillBe, SeqFacts
<1>5. AtRest' <=> Q = P /\ idx' = idx /\ idx' <= LastPlace
  BY <1>2, <1>4 DEF AtRest
<1>6. idx' \in Nat \ {0}
  BY <1>1, <1>2, <1>3, <1>4
<1> HIDE DEF P, Q
<1>7. SUFFICES /\ AtRest' => (Q # 0 => flat[idx'] = sel')
               /\ ~AtRest' => Moving' /\ flush + 1 <= 3
  <2>1. (AtRest => Rests)'
    BY <1>2, <1>7 DEF Rests, Q
  <2>2. flush' \in 0 .. 3
    BY <1>1, <1>2, <1>7
  <2>3. QED
    BY <1>6, <1>7, <2>1, <2>2
<1>8. CASE Arriving /\ flush <= 3
  <2>1. P # 0 /\ P = sawAt /\ idx = P
    BY <1>8 DEF Arriving, P
  <2>2. idx \in DOMAIN flat /\ flat[idx] = sel /\ idx <= LastPlace
    BY <1>3, <1>4, <2>1
  <2>3. sel' = sel /\ idx' = idx /\ Q = P
    BY <1>2, <1>3, <2>1, <2>2, <1>1, <1>4 DEF P
  <2>4. QED
    BY <1>5, <2>2, <2>3
<1>9. CASE Lost /\ flush <= 3
  <2>1. P = 0 /\ idx <= LastPlace /\ (idx = sawIdx \/ flat = <<>>)
    BY <1>9 DEF Lost, P
  <2>2. sel' = sel /\ idx' = idx /\ Q = P
    BY <1>1, <1>2, <1>3, <1>4, <2>1 DEF P
  <2>3. QED
    BY <1>5, <2>1, <2>2
<1>10. CASE Pulled /\ flush <= 2
  <2>1. P # 0 /\ P # sawAt /\ idx = sawIdx
    BY <1>10 DEF Pulled, P
  <2>2. sel' = sel /\ idx' = P /\ Q = P /\ flat[P] = sel
    BY <1>2, <1>3, <2>1 DEF P
  <2>3. ~AtRest' => flush' = flush + 1 /\ sawAt' = P
    BY <1>2 DEF P
  <2>4. ~AtRest' => Moving' /\ flush + 1 <= 3
    BY <1>1, <1>10, <2>1, <2>2, <2>3 DEF Moving, Arriving, Q
  <2>5. QED
    BY <2>2, <2>4
<1>11. CASE Stepped /\ flush <= 1
  <2>1. P = sawAt /\ idx \in DOMAIN flat /\ idx <= LastPlace
    BY <1>4, <1>11 DEF Stepped, P
  <2>2. idx # sawIdx
    BY <1>1, <2>1 DEF AtRest, P
  <2>3. sel' = flat[idx] /\ idx' = idx
    BY <1>1, <1>2, <1>4, <2>1, <2>2 DEF P
  <2>4. Q # 0
    BY <1>3, <2>1, <2>3
  <2>5. ~AtRest' => Q # P /\ flush' = flush + 1 /\ sawAt' = P /\ sawIdx' = idx
    BY <1>2, <1>5, <2>1, <2>3 DEF P
  <2>6. ~AtRest' => Moving' /\ flush + 1 <= 3
    BY <1>1, <1>11, <2>3, <2>4, <2>5 DEF Moving, Pulled, Q
  <2>7. QED
    BY <2>3, <2>6
<1>12. CASE Beyond /\ flush = 0
  <2>1. idx = sawIdx /\ idx > LastPlace /\ (P = sawAt \/ P = 0)
    BY <1>12 DEF Beyond, P
  <2>2. sel' = sel /\ idx' = LastPlace /\ Q = P /\ sawAt' = P
    BY <1>1, <1>2, <1>3, <1>4, <2>1 DEF P
  <2>3. ~AtRest' /\ flush' = 1
    BY <1>1, <1>2, <1>4, <1>5, <1>12, <2>1, <2>2
  <2>4. CASE flat = <<>>
    <3>1. P = 0
      BY <1>3, <1>4, <2>4
    <3>2. Moving'
      BY <1>2, <1>4, <2>2, <2>3, <2>4, <3>1 DEF Moving, Lost, Q
    <3>3. QED
      BY <1>12, <2>3, <3>2
  <2>5. CASE flat # <<>>
    <3>1. Moving'
      BY <1>2, <1>4, <2>2, <2>3, <2>5 DEF Moving, Stepped, Q
    <3>2. QED
      BY <1>12, <2>3, <3>1
  <2>6. QED
    BY <2>4, <2>5
<1>13. QED
  BY <1>1, <1>8, <1>9, <1>10, <1>11, <1>12 DEF Moving

\* A bucket, and the queue, are sequences.
LEMMA BucketIsSeq == ASSUME NEW ids PROVE IsSeq(Bucket(ids))
<1> DEFINE places == {n \in DOMAIN Order : Order[n] \in ids}
           at(k) == Order[CHOOSE n \in places : Cardinality({m \in places : m <= n}) = k]
           len == Cardinality(places)
<1>1. len \in Nat
  <2>1. DOMAIN Order = 1 .. Len(Order) /\ Len(Order) \in Nat
    BY ReviewAssumption
  <2>2. IsFiniteSet(DOMAIN Order)
    BY <2>1, FS_Interval
  <2>3. places \in SUBSET DOMAIN Order
    OBVIOUS
  <2>4. QED
    BY <2>2, <2>3, FS_Subset, FS_CardinalityType
<1>2. Bucket(ids) = [k \in 1 .. len |-> at(k)]
  BY DEF Bucket
<1> HIDE DEF at, len
<1>3. [k \in 1 .. len |-> at(k)] \in Seq({at(k) : k \in 1 .. len})
  BY <1>1
<1>4. QED
  BY <1>2, <1>3 DEF IsSeq

\* Two sequences after each other are one.
LEMMA ConcatIsSeq ==
  ASSUME NEW s, NEW t, IsSeq(s), IsSeq(t)
  PROVE  IsSeq(s \o t)
<1>1. PICK S : s \in Seq(S)
  BY DEF IsSeq
<1>2. PICK T : t \in Seq(T)
  BY DEF IsSeq
<1>3. s \in Seq(S \cup T) /\ t \in Seq(S \cup T)
  BY <1>1, <1>2
<1>4. s \o t \in Seq(S \cup T)
  BY <1>3
<1>5. QED
  BY <1>4 DEF IsSeq

\* A queue is a sequence.
LEMMA QueueIsSeq == ASSUME NEW rows PROVE IsSeq(QueueOf(rows))
  BY BucketIsSeq, ConcatIsSeq DEF QueueOf

\* A load on its way brings a sequence.
LEMMA AskKeeps ==
  ASSUME SettleShape, NEW keep, Ask(keep)
  PROVE  \A f \in coming' : IsSeq(f.list)
<1>1. coming' = coming \cup {[list |-> QueueOf(row), keep |-> keep]}
  BY DEF Ask
<1>2. [list |-> QueueOf(row), keep |-> keep].list = QueueOf(row)
  OBVIOUS
<1>3. QED
  BY <1>1, <1>2, QueueIsSeq DEF SettleShape

\* Every step keeps the page's way to rest.
LEMMA SettleNext ==
  ASSUME SettleInv, [ReviewNext]_reviewVars
  PROVE  SettleInv'
<1>1. SettleShape
  BY DEF SettleInv
<1> DEFINE Kept == (AtRest => Rests)' /\ (~AtRest => Moving)'
<1>2. ASSUME FromOutside PROVE AtRest /\ UNCHANGED <<sawAt, sawIdx, flush, adrift>>
  BY <1>2 DEF FromOutside, Settled
<1>3. CASE Chase
  <2>1. UNCHANGED <<flat, coming>>
    BY <1>3 DEF Chase
  <2>2. QED
    BY <1>1, <1>3, <2>1, ChaseMoves DEF SettleInv, SettleShape
<1>4. CASE Walk
  <2>1. AtRest /\ UNCHANGED <<flat, coming, sawAt, sawIdx, flush, adrift>> /\ flat # <<>>
    BY <1>2, <1>4 DEF Walk
  <2>2. /\ idx <= LastPlace /\ idx \in Nat \ {0} /\ IsSeq(flat) /\ LastPlace = Len(flat)
        /\ DOMAIN flat = 1 .. Len(flat) /\ Len(flat) \in Nat
    BY <1>1, <2>1, SeqFacts DEF AtRest, SettleShape, LastPlace
  <2>3. CASE idx' \in {IF idx < Len(flat) THEN idx + 1 ELSE idx, IF idx > 1 THEN idx - 1 ELSE idx}
             /\ UNCHANGED sel
    <3>1. idx' \in DOMAIN flat /\ idx' \in Nat \ {0}
      BY <2>2, <2>3
    <3>2. QED
      BY <1>1, <2>1, <2>3, <3>1, KeyMoves DEF SettleInv, SettleShape
  <2>4. CASE UNCHANGED idx
    BY <1>1, <2>1, <2>4, SelectionMoves DEF SettleInv, SettleShape
  <2>5. QED
    BY <1>4, <2>3, <2>4 DEF Walk
<1>5. ASSUME FromOutside, UNCHANGED <<flat, idx, coming>> PROVE SettleInv'
  BY <1>1, <1>2, <1>5, SelectionMoves DEF SettleInv, SettleShape
<1>6. ASSUME FromOutside, UNCHANGED <<flat, idx>>, NEW keep, Ask(keep) PROVE SettleInv'
  BY <1>1, <1>2, <1>6, AskKeeps, SelectionMoves DEF SettleInv, SettleShape
<1>7. CASE Refresh
  BY <1>6, <1>7 DEF Refresh
<1>8. ASSUME NEW i \in Reviewed, ClickCard(i) PROVE SettleInv'
  BY <1>5, <1>8 DEF ClickCard
<1>9. ASSUME NEW f \in coming, QueueArrives(f) PROVE SettleInv'
  <2>1. /\ AtRest /\ UNCHANGED <<sawAt, sawIdx, flush, idx>>
        /\ adrift' = (SelPlace # 0 /\ idx # SelPlace)
        /\ coming' = coming \ {f} /\ flat' = f.list
    BY <1>9 DEF QueueArrives, Settled
  <2>2. IsSeq(flat')
    BY <1>1, <2>1 DEF SettleShape
  <2>3. QED
    BY <1>1, <2>1, <2>2, QueueMoves DEF SettleInv, SettleShape
<1>10. ASSUME NEW f \in coming, QueueFails(f) PROVE SettleInv'
  <2>1. /\ AtRest /\ UNCHANGED <<sawAt, sawIdx, flush, adrift, flat, idx>> /\ coming' = coming \ {f}
    BY <1>2, <1>10 DEF QueueFails
  <2>2. QED
    BY <1>1, <2>1, SelectionMoves DEF SettleInv, SettleShape
<1>11. ASSUME NEW d \in panel.due, Detail(d) \/ DetailFails(d) PROVE SettleInv'
  BY <1>5, <1>11 DEF Detail, DetailFails, PanelStep
<1>12. CASE ReloadPanel \/ ToggleForm
  BY <1>5, <1>12 DEF ReloadPanel, ToggleForm, PanelStep
<1>13. ASSUME NEW kind, PressAction(kind) PROVE SettleInv'
  BY <1>5, <1>13 DEF PressAction, PanelStep
<1>14. ASSUME NEW a \in acts, ServeAct(a) PROVE SettleInv'
  BY <1>1, <1>14, NothingMoves DEF ServeAct, SettleInv, SettleShape
<1>15. ASSUME NEW a \in acts, PressAnswered(a) PROVE SettleInv'
  BY <1>6, <1>15 DEF PressAnswered, PanelStep
<1>16. ASSUME NEW a \in acts, RejectionAnswered(a) PROVE SettleInv'
  BY <1>6, <1>16 DEF RejectionAnswered
<1>17. ASSUME NEW a \in acts, Toasted(a) PROVE SettleInv'
  BY <1>5, <1>17 DEF Toasted, PanelStep
<1>18. CASE UNCHANGED reviewVars
  BY <1>1, <1>18, NothingMoves DEF reviewVars, SettleInv, SettleShape
<1>19. QED
  BY <1>3, <1>4, <1>7, <1>8, <1>9, <1>10, <1>11, <1>12, <1>13, <1>14, <1>15, <1>16, <1>17, <1>18
     DEF ReviewNext

\* Initially the page is at rest.
LEMMA SettleInit == ReviewInit => SettleInv
<1> SUFFICES ASSUME ReviewInit PROVE SettleInv
  OBVIOUS
<1>1. /\ flat = <<>> /\ idx = 1 /\ sawIdx = 1 /\ sawAt = 0 /\ flush = 0
      /\ coming = {[list |-> QueueOf(row), keep |-> FALSE]}
  BY DEF ReviewInit
<1>2. IsSeq(flat)
  <2>1. <<>> \in Seq({})
    OBVIOUS
  <2>2. QED
    BY <1>1, <2>1 DEF IsSeq
<1>3. [list |-> QueueOf(row), keep |-> FALSE].list = QueueOf(row)
  OBVIOUS
<1>4. SettleShape
  BY <1>1, <1>2, <1>3, QueueIsSeq DEF SettleShape
<1>5. SelPlace = 0 /\ LastPlace = 1
  BY <1>1, <1>2, SelPlaceIs, PlaceFacts, SeqFacts
<1>6. AtRest /\ Rests
  BY <1>1, <1>5 DEF AtRest, Rests
<1>7. QED
  BY <1>4, <1>6 DEF SettleInv

\* The queue's page comes to rest in fewer than MaxFlush renders, and then the keyboard is
\* at the selected insight, unless it stood on the second card of it when the last queue
\* came (Review.tsx:170), for every queue.
THEOREM SelectionAlwaysSettles == ReviewSpec => []SelectionSettles
<1>1. SettleInv => SelectionSettles
  BY DEF SettleInv, SettleShape, Rests, SelectionSettles, MaxFlush
<1>2. QED
  BY <1>1, SettleInit, SettleNext, PTL DEF ReviewSpec

----------------------------------------------------------------------------
(*****************************************************************************)
(* ProofPage.  A match that is decided once was open when the one decision   *)
(* that counted was made: whoever has read it open, and is alone in deciding *)
(* it, finds it open (ReadsHold); what the page was told is decided, and     *)
(* every load on its way knows (HeardIsDecided).                             *)
(*****************************************************************************)

ClickRecord == [n : Nat, kind : {"confirm", "reject", "file"}, of : Matches \cup {"none"},
                where : {"here", "elsewhere"}, at : {"sent", "read", "ok", "no"},
                past : BOOLEAN, mounted : BOOLEAN, listed : BOOLEAN]
LookRecord == [of : {"matches", "releases"}, sees : SUBSET Matches, heard : SUBSET Matches]
TabRecord == [open : {"matches", "releases"}, releases : {"unread", "shown", "failed"}]
ModalRecord == [of : Matches \cup {"none"}, reason : Matches \cup {"none"}]
Verdicts == {"absent", "proposed", "confirmed", "rejected"}

ProofShape ==
  /\ plot \in Plots
  /\ verdict \in [Matches -> Verdicts]
  /\ proofs \in [Matches -> Nat]
  /\ clicks \subseteq ClickRecord
  /\ looks \subseteq LookRecord
  /\ tally \in [asks : Nat, looks : Nat]
  /\ delivered \in BOOLEAN /\ misplaced \in BOOLEAN
  /\ tab \in TabRecord
  /\ modal \in ModalRecord

\* Decisions, cards and answers name matches that have been proposed.
NamesProposed ==
  /\ \A a \in clicks : a.kind # "file" => a.of \in Matches /\ verdict[a.of] # "absent"
  /\ \A m \in cards : m = "none" \/ (m \in Matches /\ verdict[m] # "absent")
  /\ \A l \in looks : \A m \in l.sees : verdict[m] # "absent"
  /\ modal.of = "none" \/ (modal.of \in Matches /\ verdict[modal.of] # "absent")
  /\ ~onRecord => \A m \in Matches \ plot.start : verdict[m] = "absent"

\* A match somebody has read, and nobody else is deciding, is still open; one that has
\* been answered is decided.
ReadsHold ==
  /\ \A a \in clicks : a.kind # "file" /\ a.at = "read" /\ a.of \notin crossed => verdict[a.of] = "proposed"
  /\ \A a \in clicks : a.kind # "file" /\ a.at = "ok" => verdict[a.of] \in {"confirmed", "rejected"}

\* What the page has heard of is decided, and every load under way knows it.
HeardIsDecided ==
  /\ \A m \in told : m \in Matches /\ verdict[m] \in {"confirmed", "rejected"}
  /\ \A l \in looks : l.of = "matches" => told \cap l.sees \subseteq l.heard

ReasonsFit == modal.reason \in {"none", modal.of}

DecidedInv ==
  ProofShape /\ NamesProposed /\ ReadsHold /\ HeardIsDecided /\ ReasonsFit /\ DecidedOnce

----------------------------------------------------------------------------
\* Initially nothing is decided.
LEMMA DecidedStart == ProofInit => DecidedInv
<1> SUFFICES ASSUME ProofInit PROVE DecidedInv
  OBVIOUS
<1> USE ProofPageAssumption DEF ProofInit
<1>1. Look("matches") \in LookRecord
  BY DEF Look, LookRecord
<1>2. ProofShape
  BY <1>1 DEF ProofShape, Verdicts, TabRecord, ModalRecord, NoModal
<1>3. NamesProposed
  BY DEF NamesProposed, Look, NoModal
<1>4. ReadsHold /\ HeardIsDecided /\ ReasonsFit /\ DecidedOnce
  BY DEF ReadsHold, HeardIsDecided, ReasonsFit, DecidedOnce, NoModal
<1> QED
  BY <1>2, <1>3, <1>4 DEF DecidedInv

\* A step that decides nothing: the clicks it leaves are the ones there were, as far as
\* the decision goes, or have just been sent, and the loads were there or are new.
LEMMA NothingDecided ==
  ASSUME DecidedInv, plot' = plot, UNCHANGED <<verdict, proofs, onRecord, told, crossed, misplaced>>,
         delivered' \in BOOLEAN, tally' \in [asks : Nat, looks : Nat], tab' \in TabRecord,
         modal' \in ModalRecord,
         clicks' \subseteq ClickRecord, looks' \subseteq LookRecord,
         \A a \in clicks' :
           \/ a.at \in {"sent", "no"} /\ (a.kind # "file" => a.of \in Matches /\ verdict[a.of] # "absent")
           \/ \E b \in clicks : a.at = b.at /\ a.kind = b.kind /\ a.of = b.of,
         \A l \in looks' :
           \/ l \in looks
           \/ \A m \in l.sees : verdict[m] = "proposed",
         \A m \in cards' : m = "none" \/ (m \in Matches /\ verdict[m] # "absent"),
         told \cap cards' \subseteq returned',
         modal'.of = "none" \/ (modal'.of \in Matches /\ verdict[modal'.of] # "absent"),
         modal'.reason \in {"none", modal'.of}
  PROVE  DecidedInv'
<1> USE DEF DecidedInv
<1>1. ProofShape'
  BY DEF ProofShape
<1>2. NamesProposed'
  BY DEF NamesProposed, ProofShape, LookRecord
<1>3. ReadsHold'
  BY DEF ReadsHold, NamesProposed
<1>4. HeardIsDecided'
  BY DEF HeardIsDecided
<1>5. ReasonsFit' /\ DecidedOnce'
  BY DEF ReasonsFit, DecidedOnce
<1> QED
  BY <1>1, <1>2, <1>3, <1>4, <1>5

\* The parts of the invariant, one by one.
LEMMA DecidedNow ==
  ASSUME DecidedInv
  PROVE  /\ delivered \in BOOLEAN /\ tally \in [asks : Nat, looks : Nat] /\ tab \in TabRecord
         /\ modal \in ModalRecord /\ clicks \subseteq ClickRecord /\ looks \subseteq LookRecord
         /\ \A a \in clicks : \E b \in clicks : a.at = b.at /\ a.kind = b.kind /\ a.of = b.of
         /\ \A m \in cards : m = "none" \/ (m \in Matches /\ verdict[m] # "absent")
         /\ told \cap cards \subseteq returned
         /\ modal.of = "none" \/ (modal.of \in Matches /\ verdict[modal.of] # "absent")
         /\ modal.reason \in {"none", modal.of}
         /\ \A k \in {"matches", "releases"} :
              Look(k) \in LookRecord /\ \A m \in Look(k).sees : verdict[m] = "proposed"
<1>1. \A k \in {"matches", "releases"} :
        Look(k) \in LookRecord /\ \A m \in Look(k).sees : verdict[m] = "proposed"
  BY DEF Look, LookRecord
<1> QED
  BY <1>1 DEF DecidedInv, ProofShape, NamesProposed, ReasonsFit, DecidedOnce

\* A click sent off is one that was not there.
LEMMA SendOffFits ==
  ASSUME DecidedInv, NEW kind \in {"confirm", "reject", "file"}, NEW m \in Matches \cup {"none"},
         NEW where \in {"here", "elsewhere"}, SendOff(kind, m, where)
  PROVE  /\ tally' \in [asks : Nat, looks : Nat]
         /\ clicks' \subseteq ClickRecord
         /\ \A a \in clicks' : a \in clicks \/ (a.at = "sent" /\ a.kind = kind /\ a.of = m)
<1> DEFINE c == [n |-> tally.asks, kind |-> kind, of |-> m, where |-> where, at |-> "sent",
                 past |-> FALSE, mounted |-> TRUE, listed |-> tab.releases # "unread"]
<1>1. c \in ClickRecord /\ c.at = "sent" /\ c.kind = kind /\ c.of = m
  BY DecidedNow DEF ClickRecord
<1>2. clicks' = clicks \cup {c} /\ tally' = [tally EXCEPT !.asks = @ + 1]
  BY DEF SendOff
<1> HIDE DEF c
<1> QED
  BY <1>1, <1>2, DecidedNow

\* Loads that leave, and loads of the releases.
LEMMA LooksKeep ==
  ASSUME DecidedInv, plot' = plot,
         PressRefresh \/ (\E t \in {"matches", "releases"} : OpenTab(t))
         \/ (\E l \in looks, ok \in BOOLEAN : ReleasesArrive(l, ok))
  PROVE  DecidedInv'
<1>1. ASSUME PressRefresh PROVE DecidedInv'
  <2>1. /\ UNCHANGED <<verdict, proofs, onRecord, told, crossed, misplaced>>
        /\ delivered' = delivered /\ tab' = tab /\ modal' = modal /\ clicks' = clicks
        /\ cards' = cards /\ returned' = returned
        /\ looks' = looks \cup {Look(tab.open)}
        /\ tally' \in [asks : Nat, looks : Nat] /\ tab.open \in {"matches", "releases"}
    BY <1>1, DecidedNow DEF PressRefresh, matchStore, writing, proofHistory, TabRecord
  <2> QED
    BY <2>1, DecidedNow, NothingDecided
<1>2. ASSUME NEW t \in {"matches", "releases"}, OpenTab(t) PROVE DecidedInv'
  <2>1. /\ UNCHANGED <<verdict, proofs, onRecord, told, crossed, misplaced>>
        /\ delivered' = delivered /\ modal' = modal
        /\ cards' = cards /\ returned' = returned
        /\ looks' \subseteq looks \cup {Look("releases")}
        /\ tally' \in [asks : Nat, looks : Nat] /\ tab' \in TabRecord
    BY <1>2, DecidedNow DEF OpenTab, matchStore, proofHistory, TabRecord
  <2>2. ASSUME NEW a \in clicks
        PROVE  /\ [a EXCEPT !.mounted = FALSE] \in ClickRecord
               /\ [a EXCEPT !.mounted = FALSE].at = a.at
               /\ [a EXCEPT !.mounted = FALSE].kind = a.kind
               /\ [a EXCEPT !.mounted = FALSE].of = a.of
    <3>1. a \in ClickRecord
      BY DecidedNow
    <3> QED
      BY <3>1 DEF ClickRecord
  <2>3. /\ clicks' \subseteq ClickRecord
        /\ \A a \in clicks' : \E b \in clicks : a.at = b.at /\ a.kind = b.kind /\ a.of = b.of
    BY ZenonT(40), <1>2, <2>2 DEF OpenTab
  <2> QED
    BY <2>1, <2>3, DecidedNow, NothingDecided
<1>3. ASSUME NEW l \in looks, NEW ok \in BOOLEAN, ReleasesArrive(l, ok) PROVE DecidedInv'
  <2>1. /\ UNCHANGED <<verdict, proofs, onRecord, told, crossed, misplaced>>
        /\ delivered' = delivered /\ modal' = modal /\ clicks' = clicks
        /\ cards' = cards /\ returned' = returned /\ tally' = tally
        /\ looks' \subseteq looks /\ tab' \in TabRecord
    BY <1>3, DecidedNow DEF ReleasesArrive, matchStore, writing, proofHistory, TabRecord
  <2> QED
    BY <2>1, DecidedNow, NothingDecided
<1> QED
  BY <1>1, <1>2, <1>3

\* A load of the matches shows what was decided when it was served.
LEMMA MatchesArriveKeeps ==
  ASSUME DecidedInv, plot' = plot, NEW l \in looks, NEW ok \in BOOLEAN, MatchesArrive(l, ok)
  PROVE  DecidedInv'
<1>1. /\ UNCHANGED <<verdict, proofs, onRecord, told, crossed, misplaced>>
      /\ delivered' = delivered /\ modal' = modal /\ clicks' = clicks
      /\ tally' = tally /\ tab' = tab /\ looks' \subseteq looks
      /\ cards' \subseteq l.sees /\ returned' = l.heard /\ l.of = "matches"
  BY DEF MatchesArrive, matchStore, writing
<1>2. \A m \in cards' : m \in Matches /\ verdict[m] # "absent"
  BY <1>1, DecidedNow DEF DecidedInv, NamesProposed, LookRecord
<1>3. told \cap cards' \subseteq returned'
  BY <1>1 DEF DecidedInv, HeardIsDecided
<1> QED
  BY <1>1, <1>2, <1>3, DecidedNow, NothingDecided

\* Clicks that leave have decided nothing.
LEMMA PressesKeep ==
  ASSUME DecidedInv, plot' = plot,
         \/ PressReject
         \/ \E m \in Matches : PressConfirm(m)
         \/ \E m \in Matches, kind \in {"confirm", "reject"} : DecideElsewhere(kind, m)
         \/ SaveChangelog
  PROVE  DecidedInv'
<1>1. ASSUME NEW kind \in {"confirm", "reject", "file"}, NEW m \in Matches \cup {"none"},
             NEW where \in {"here", "elsewhere"}, SendOff(kind, m, where),
             kind # "file" => m \in Matches /\ verdict[m] # "absent",
             UNCHANGED <<matchStore, cards, tab, modal, looks, told, returned, crossed, misplaced>>
      PROVE  DecidedInv'
  <2>1. /\ UNCHANGED <<verdict, proofs, onRecord, told, crossed, misplaced>>
        /\ delivered' = delivered /\ modal' = modal /\ tab' = tab /\ looks' = looks
        /\ cards' = cards /\ returned' = returned
    BY <1>1 DEF matchStore
  <2>2. /\ tally' \in [asks : Nat, looks : Nat] /\ clicks' \subseteq ClickRecord
        /\ \A a \in clicks' : a \in clicks \/ (a.at = "sent" /\ a.kind = kind /\ a.of = m)
    BY <1>1, SendOffFits
  <2> QED
    BY <1>1, <2>1, <2>2, DecidedNow, NothingDecided
<1>2. ASSUME NEW m \in Matches, PressConfirm(m) PROVE DecidedInv'
  <2>1. verdict[m] # "absent"
    BY <1>2, DecidedNow, ProofPageAssumption DEF PressConfirm, OnCard
  <2> QED
    BY <1>1, <1>2, <2>1 DEF PressConfirm, writing, proofHistory
<1>3. ASSUME PressReject PROVE DecidedInv'
  <2>1. modal.of \in Matches /\ verdict[modal.of] # "absent" /\ modal.reason = modal.of
    BY <1>3, DecidedNow DEF PressReject, Free
  <2>2. misplaced' = misplaced
    <3>1. misplaced \in BOOLEAN /\ ~misplaced
      BY DEF DecidedInv, ProofShape, DecidedOnce
    <3>2. misplaced' = (misplaced \/ modal.reason # modal.of)
      BY <1>3 DEF PressReject
    <3> QED
      BY <2>1, <3>1, <3>2
  <2> QED
    BY <1>1, <1>3, <2>1, <2>2 DEF PressReject, writing
<1>4. ASSUME NEW m \in Matches, NEW kind \in {"confirm", "reject"}, DecideElsewhere(kind, m)
      PROVE  DecidedInv'
  BY <1>1, <1>4 DEF DecideElsewhere, writing, proofHistory
<1>5. ASSUME SaveChangelog PROVE DecidedInv'
  BY <1>1, <1>5 DEF SaveChangelog, proofHistory
<1> QED
  BY <1>2, <1>3, <1>4, <1>5

\* Typing decides nothing.
LEMMA WritingKeeps ==
  ASSUME DecidedInv, plot' = plot,
         \/ TypeReason \/ CloseReject \/ TypeNotes \/ PickNotes
         \/ \E m \in Matches : OpenReject(m)
         \/ \E ok \in BOOLEAN : NotesRead(ok)
  PROVE  DecidedInv'
<1>1. /\ UNCHANGED <<verdict, proofs, onRecord, told, crossed, misplaced>>
      /\ delivered' = delivered /\ tab' = tab /\ looks' = looks /\ clicks' = clicks
      /\ cards' = cards /\ returned' = returned /\ tally' = tally
  BY DEF TypeReason, CloseReject, TypeNotes, PickNotes, OpenReject, NotesRead, matchStore, proofHistory
<1>2. /\ modal' \in ModalRecord
      /\ modal'.of = "none" \/ (modal'.of \in Matches /\ verdict[modal'.of] # "absent")
      /\ modal'.reason \in {"none", modal'.of}
  <2>1. CASE TypeReason
    BY <2>1, DecidedNow DEF TypeReason, ModalRecord
  <2>2. CASE CloseReject
    BY <2>2, DecidedNow DEF CloseReject, NoModal, ModalRecord
  <2>3. ASSUME NEW m \in Matches, OpenReject(m) PROVE <1>2!1 /\ <1>2!2 /\ <1>2!3
    BY <2>3, DecidedNow, ProofPageAssumption DEF OpenReject, OnCard, Free, ModalRecord
  <2>4. CASE modal' = modal
    BY <2>4, DecidedNow
  <2> QED
    BY <2>1, <2>2, <2>3, <2>4 DEF TypeNotes, PickNotes, NotesRead
<1> QED
  BY <1>1, <1>2, DecidedNow, NothingDecided

\* A click that goes on keeps its match.
LEMMA ClickFits ==
  ASSUME DecidedInv, NEW a \in clicks, NEW at \in {"sent", "read", "ok", "no"}, NEW p \in BOOLEAN
  PROVE  /\ [a EXCEPT !.at = at] \in ClickRecord /\ [a EXCEPT !.at = at].at = at
         /\ [a EXCEPT !.at = at].kind = a.kind /\ [a EXCEPT !.at = at].of = a.of
         /\ [a EXCEPT !.at = at, !.past = p] \in ClickRecord
         /\ [a EXCEPT !.at = at, !.past = p].at = at
         /\ [a EXCEPT !.at = at, !.past = p].kind = a.kind
         /\ [a EXCEPT !.at = at, !.past = p].of = a.of
         /\ [a EXCEPT !.where = "elsewhere"] \in ClickRecord
         /\ [a EXCEPT !.where = "elsewhere"].at = a.at
         /\ [a EXCEPT !.where = "elsewhere"].kind = a.kind
         /\ [a EXCEPT !.where = "elsewhere"].of = a.of
<1>1. a \in ClickRecord
  BY DecidedNow
<1> QED
  BY <1>1 DEF ClickRecord

\* A click that moves on is another record of the same decision.
LEMMA ClickMoves ==
  ASSUME DecidedInv, NEW a \in clicks, NEW at \in {"sent", "read", "ok", "no"},
         \/ clicks' = (clicks \ {a}) \cup {[a EXCEPT !.at = at]}
         \/ clicks' = (clicks \ {a}) \cup {[a EXCEPT !.at = at, !.past = delivered]}
  PROVE  \E c \in ClickRecord : /\ clicks' = (clicks \ {a}) \cup {c}
                                /\ c.at = at /\ c.kind = a.kind /\ c.of = a.of
<1>0. a \in ClickRecord /\ delivered \in BOOLEAN
  BY DecidedNow
<1>1. ASSUME NEW c, clicks' = (clicks \ {a}) \cup {c},
             c \in ClickRecord, c.at = at, c.kind = a.kind, c.of = a.of
      PROVE  \E d \in ClickRecord : /\ clicks' = (clicks \ {a}) \cup {d}
                                    /\ d.at = at /\ d.kind = a.kind /\ d.of = a.of
  BY <1>1
<1>2. CASE clicks' = (clicks \ {a}) \cup {[a EXCEPT !.at = at]}
  <2> DEFINE c == [a EXCEPT !.at = at]
  <2>1. c \in ClickRecord /\ c.at = at /\ c.kind = a.kind /\ c.of = a.of
    BY <1>0 DEF ClickRecord
  <2> QED
    BY <1>1, <1>2, <2>1
<1>3. CASE clicks' = (clicks \ {a}) \cup {[a EXCEPT !.at = at, !.past = delivered]}
  <2> DEFINE c == [a EXCEPT !.at = at, !.past = delivered]
  <2>1. c \in ClickRecord /\ c.at = at /\ c.kind = a.kind /\ c.of = a.of
    BY <1>0 DEF ClickRecord
  <2> QED
    BY <1>1, <1>3, <2>1
<1> QED
  BY <1>2, <1>3

\* The server reads a match before it decides.
LEMMA ReadMatchKeeps ==
  ASSUME DecidedInv, plot' = plot, NEW a \in clicks, ReadMatch(a) PROVE DecidedInv'
<1> DEFINE shownNow == CASE verdict[a.of] = "proposed" -> "read"
                     [] verdict[a.of] = "confirmed" -> IF a.kind = "confirm" THEN "ok" ELSE "no"
                     [] verdict[a.of] = "rejected" -> IF a.kind = "reject" THEN "ok" ELSE "no"
<1>1. /\ UNCHANGED <<verdict, proofs, onRecord, told, crossed, misplaced>>
      /\ delivered' = delivered /\ modal' = modal /\ tab' = tab /\ looks' = looks
      /\ cards' = cards /\ returned' = returned /\ tally' = tally /\ a.kind # "file"
      /\ clicks' = (clicks \ {a}) \cup {[a EXCEPT !.at = shownNow, !.past = delivered]}
  BY DEF ReadMatch, matchStore, writing, proofHistory
<1>2. a.of \in Matches /\ verdict[a.of] \in {"proposed", "confirmed", "rejected"}
  BY <1>1 DEF DecidedInv, ProofShape, NamesProposed, Verdicts
<1>3. /\ shownNow \in {"read", "ok", "no"}
      /\ shownNow = "read" => verdict[a.of] = "proposed"
      /\ shownNow = "ok" => verdict[a.of] \in {"confirmed", "rejected"}
  BY <1>2
<1> HIDE DEF shownNow
<1>4. PICK c \in ClickRecord : /\ clicks' = (clicks \ {a}) \cup {c}
                               /\ c.at = shownNow /\ c.kind = a.kind /\ c.of = a.of
  <2>1. delivered \in BOOLEAN /\ shownNow \in {"sent", "read", "ok", "no"}
    BY <1>3, DecidedNow
  <2> QED
    BY <1>1, <2>1, ClickMoves
<1>5. ProofShape'
  BY <1>1, <1>4 DEF DecidedInv, ProofShape
<1>6. NamesProposed'
  BY <1>1, <1>2, <1>4 DEF DecidedInv, NamesProposed
<1>7. ReadsHold'
  BY <1>1, <1>2, <1>3, <1>4 DEF DecidedInv, ReadsHold
<1>8. HeardIsDecided' /\ ReasonsFit' /\ DecidedOnce'
  BY <1>1 DEF DecidedInv, HeardIsDecided, ReasonsFit, DecidedOnce
<1> QED
  BY <1>5, <1>6, <1>7, <1>8 DEF DecidedInv

\* A decision: of those who read the match open, alone, one decides.
LEMMA DecisionKeeps ==
  ASSUME DecidedInv, plot' = plot, NEW a \in clicks, ConfirmMatch(a) \/ RejectMatch(a)
  PROVE  DecidedInv'
<1>1. /\ UNCHANGED <<onRecord, told, misplaced>>
      /\ modal' = modal /\ tab' = tab /\ looks' = looks
      /\ cards' = cards /\ returned' = returned /\ tally' = tally
      /\ a.kind \in {"confirm", "reject"} /\ a.at = "read" /\ Crossing(a)
      /\ a \in ClickRecord
  BY DecidedNow DEF ConfirmMatch, RejectMatch, writing
<1>2. /\ a.of \in Matches /\ verdict[a.of] # "absent"
      /\ a.of \notin crossed => verdict[a.of] = "proposed"
  BY <1>1 DEF DecidedInv, NamesProposed, ReadsHold
<1>3. ASSUME NEW at \in {"ok", "no"}, Moves(a, at),
             \/ /\ at = "no" /\ verdict' = verdict /\ proofs' = proofs /\ delivered' = delivered
             \/ /\ at = "ok" /\ delivered' \in BOOLEAN
                /\ verdict' = [verdict EXCEPT ![a.of] = "confirmed"]
                /\ proofs' = [proofs EXCEPT ![a.of] = @ + 1]
             \/ /\ at = "ok" /\ delivered' = delivered
                /\ verdict' = [verdict EXCEPT ![a.of] = "rejected"] /\ proofs' = proofs
      PROVE  DecidedInv'
  <2>1. PICK c \in ClickRecord : /\ clicks' = (clicks \ {a}) \cup {c}
                                 /\ c.at = at /\ c.kind = a.kind /\ c.of = a.of
    <3>1. clicks' = (clicks \ {a}) \cup {[a EXCEPT !.at = at]} /\ at \in {"sent", "read", "ok", "no"}
      BY <1>3 DEF Moves
    <3> QED
      BY <1>3, <3>1, ClickMoves
  <2>2. /\ crossed \subseteq crossed' /\ crossed' \subseteq crossed \cup {a.of}
        /\ \A b \in clicks' : b.at = "read" /\ b.of = a.of => a.of \in crossed'
    BY <1>1, <1>3, <2>1 DEF Crossing
  <2>3. /\ verdict \in [Matches -> Verdicts] /\ proofs \in [Matches -> Nat]
        /\ delivered \in BOOLEAN
    BY DEF DecidedInv, ProofShape
  <2>4. /\ verdict' \in [Matches -> Verdicts] /\ proofs' \in [Matches -> Nat]
        /\ delivered' \in BOOLEAN
        /\ \A m \in Matches : m # a.of => verdict'[m] = verdict[m] /\ proofs'[m] = proofs[m]
        /\ verdict'[a.of] # "absent"
        /\ at = "ok" => verdict'[a.of] \in {"confirmed", "rejected"}
        /\ at = "no" => verdict'[a.of] = verdict[a.of]
        /\ verdict[a.of] \in {"confirmed", "rejected"} => verdict'[a.of] \in {"confirmed", "rejected"}
    BY <1>2, <1>3, <2>3 DEF Verdicts
  <2>5. ProofShape'
    BY <1>1, <2>1, <2>4 DEF DecidedInv, ProofShape
  <2>6. NamesProposed'
    <3>1. \A b \in clicks' : b.kind # "file" => b.of \in Matches /\ verdict'[b.of] # "absent"
      BY <1>2, <2>1, <2>4 DEF DecidedInv, NamesProposed
    <3>2. \A m \in cards' : m = "none" \/ (m \in Matches /\ verdict'[m] # "absent")
      BY <1>1, <2>4 DEF DecidedInv, NamesProposed
    <3>3. \A l \in looks' : \A m \in l.sees : verdict'[m] # "absent"
      <4> SUFFICES ASSUME NEW l \in looks, NEW m \in l.sees PROVE verdict'[m] # "absent"
        BY <1>1
      <4>1. m \in Matches /\ verdict[m] # "absent"
        BY DEF DecidedInv, NamesProposed, ProofShape, LookRecord
      <4> QED
        BY <4>1, <2>4
    <3>4. modal'.of = "none" \/ (modal'.of \in Matches /\ verdict'[modal'.of] # "absent")
      BY <1>1, <2>4 DEF DecidedInv, NamesProposed
    <3>5. ~onRecord' => \A m \in Matches \ plot'.start : verdict'[m] = "absent"
      BY <1>1, <1>2, <2>4 DEF DecidedInv, NamesProposed
    <3> QED
      BY <3>1, <3>2, <3>3, <3>4, <3>5 DEF NamesProposed
  <2>7. ReadsHold'
    <3>1. ASSUME NEW b \in clicks', b.kind # "file", b.at = "read", b.of \notin crossed'
          PROVE  verdict'[b.of] = "proposed"
      <4>1. b \in clicks /\ b.of # a.of /\ b.of \notin crossed
        BY <2>1, <2>2, <1>3, <3>1
      <4>2. b.of \in Matches /\ verdict[b.of] = "proposed"
        BY <4>1, <3>1 DEF DecidedInv, NamesProposed, ReadsHold
      <4> QED
        BY <4>1, <4>2, <2>4
    <3>2. ASSUME NEW b \in clicks', b.kind # "file", b.at = "ok"
          PROVE  verdict'[b.of] \in {"confirmed", "rejected"}
      <4>1. CASE b = c
        BY <4>1, <2>1, <2>4, <3>2
      <4>2. CASE b \in clicks
        <5>1. b.of \in Matches /\ verdict[b.of] \in {"confirmed", "rejected"}
          BY <4>2, <3>2 DEF DecidedInv, NamesProposed, ReadsHold
        <5> QED
          BY <5>1, <2>4
      <4> QED
        BY <4>1, <4>2, <2>1
    <3> QED
      BY <3>1, <3>2 DEF ReadsHold
  <2>8. HeardIsDecided' /\ ReasonsFit'
    BY <1>1, <1>2, <2>4 DEF DecidedInv, HeardIsDecided, ReasonsFit
  <2>9. \A m \in Matches \ crossed' : proofs'[m] = IF verdict'[m] = "confirmed" THEN 1 ELSE 0
    <3> SUFFICES ASSUME NEW m \in Matches, m \notin crossed'
                 PROVE  proofs'[m] = IF verdict'[m] = "confirmed" THEN 1 ELSE 0
      OBVIOUS
    <3>1. proofs[m] = IF verdict[m] = "confirmed" THEN 1 ELSE 0
      BY <2>2 DEF DecidedInv, DecidedOnce
    <3>2. CASE m # a.of
      BY <3>1, <3>2, <2>4
    <3>3. CASE m = a.of
      <4>1. verdict[m] = "proposed" /\ proofs[m] = 0
        BY <1>2, <2>2, <3>1, <3>3
      <4> QED
        BY <4>1, <1>3, <2>3, <3>3
    <3> QED
      BY <3>2, <3>3
  <2>10. DecidedOnce'
    BY <1>1, <2>9 DEF DecidedInv, DecidedOnce
  <2> QED
    BY <2>5, <2>6, <2>7, <2>8, <2>10 DEF DecidedInv
<1>4. CASE ConfirmMatch(a) /\ ~a.past /\ delivered
  BY <1>3, <1>4 DEF ConfirmMatch
<1>5. CASE ConfirmMatch(a) /\ ~(~a.past /\ delivered)
  BY <1>3, <1>5 DEF ConfirmMatch
<1>6. CASE RejectMatch(a)
  BY <1>3, <1>6 DEF RejectMatch
<1> QED
  BY <1>4, <1>5, <1>6

\* The page learns of a decision that was made.
LEMMA DecidedKeeps ==
  ASSUME DecidedInv, plot' = plot, NEW a \in clicks, Decided(a) PROVE DecidedInv'
<1>1. /\ UNCHANGED <<verdict, proofs, onRecord, crossed, misplaced>>
      /\ delivered' = delivered /\ tab' = tab /\ tally' = tally /\ returned' = returned
      /\ a.kind # "file" /\ a.at = "ok"
      /\ clicks' \subseteq clicks /\ cards' = cards \ {a.of}
      /\ told' = told \cup {a.of}
      /\ modal' \in {modal, NoModal}
  BY DEF Decided, Heard, matchStore
<1>2. a.of \in Matches /\ verdict[a.of] \in {"confirmed", "rejected"}
  BY <1>1 DEF DecidedInv, NamesProposed, ReadsHold
<1>3. ASSUME NEW l \in looks
      PROVE  /\ [l EXCEPT !.heard = @ \cup {a.of}] \in LookRecord
             /\ [l EXCEPT !.heard = @ \cup {a.of}].of = l.of
             /\ [l EXCEPT !.heard = @ \cup {a.of}].sees = l.sees
             /\ [l EXCEPT !.heard = @ \cup {a.of}].heard = l.heard \cup {a.of}
  <2>1. l \in LookRecord
    BY DecidedNow
  <2> QED
    BY <2>1, <1>2 DEF LookRecord
<1>4. /\ looks' \subseteq LookRecord
      /\ \A l \in looks' : \/ \E o \in looks : l.of = o.of /\ l.sees = o.sees /\ l.heard = o.heard \cup {a.of}
                           \/ l.of = "releases" /\ l.sees = {}
  <2>1. looks' \subseteq {[l EXCEPT !.heard = @ \cup {a.of}] : l \in looks} \cup {Look("releases")}
    BY DEF Decided
  <2>2. Look("releases") \in LookRecord /\ Look("releases").of = "releases" /\ Look("releases").sees = {}
    BY DEF Look, LookRecord
  <2> DEFINE Told(l) == [l EXCEPT !.heard = @ \cup {a.of}]
  <2>3. \A l \in looks : /\ Told(l) \in LookRecord /\ Told(l).of = l.of /\ Told(l).sees = l.sees
                         /\ Told(l).heard = l.heard \cup {a.of}
    BY <1>3
  <2>4. looks' \subseteq {Told(l) : l \in looks} \cup {Look("releases")}
    BY <2>1
  <2> HIDE DEF Told
  <2> QED
    BY <2>2, <2>3, <2>4
<1>5. ProofShape'
  BY <1>1, <1>4 DEF DecidedInv, ProofShape, NoModal, ModalRecord
<1>6. NamesProposed'
  BY <1>1, <1>4 DEF DecidedInv, NamesProposed, NoModal
<1>7. ReadsHold'
  BY <1>1 DEF DecidedInv, ReadsHold
<1>8. HeardIsDecided'
  <2>1. \A m \in told' : m \in Matches /\ verdict'[m] \in {"confirmed", "rejected"}
    BY <1>1, <1>2 DEF DecidedInv, HeardIsDecided
  <2>2. \A l \in looks' : l.of = "matches" => told' \cap l.sees \subseteq l.heard
    BY <1>1, <1>4 DEF DecidedInv, HeardIsDecided
  <2> QED
    BY <2>1, <2>2 DEF HeardIsDecided
<1>9. ReasonsFit' /\ DecidedOnce'
  BY <1>1 DEF DecidedInv, ReasonsFit, DecidedOnce, NoModal
<1> QED
  BY <1>5, <1>6, <1>7, <1>8, <1>9 DEF DecidedInv

\* Answers that tell of no decision of the page's.
LEMMA AnswersKeep ==
  ASSUME DecidedInv, plot' = plot, NEW a \in clicks,
         NotDecided(a) \/ DecidedElsewhere(a) \/ ChangelogSaved(a) \/ ChangelogNotSaved(a)
  PROVE  DecidedInv'
<1>1. /\ UNCHANGED <<verdict, proofs, onRecord, told, crossed, misplaced>>
      /\ delivered' = delivered /\ modal' = modal /\ tab' = tab /\ tally' = tally
      /\ cards' = cards /\ returned' = returned
  BY DEF NotDecided, DecidedElsewhere, ChangelogSaved, ChangelogNotSaved, matchStore, writing, proofHistory
<1>2. looks' \subseteq looks \cup {Look("releases"), Look("matches")}
  BY DEF NotDecided, DecidedElsewhere, ChangelogSaved, ChangelogNotSaved
<1>3. clicks' \subseteq clicks \cup {[a EXCEPT !.where = "elsewhere"]}
  BY DEF NotDecided, DecidedElsewhere, ChangelogSaved, ChangelogNotSaved, Heard
<1>4. /\ clicks' \subseteq ClickRecord
      /\ \A b \in clicks' : \E c \in clicks : b.at = c.at /\ b.kind = c.kind /\ b.of = c.of
  <2> DEFINE c == [a EXCEPT !.where = "elsewhere"]
  <2>1. c \in ClickRecord /\ c.at = a.at /\ c.kind = a.kind /\ c.of = a.of
    <3>1. "sent" \in {"sent", "read", "ok", "no"} /\ TRUE \in BOOLEAN
      OBVIOUS
    <3> QED
      BY <3>1, ClickFits
  <2>2. clicks' \subseteq clicks \cup {c}
    BY <1>3
  <2> HIDE DEF c
  <2> QED
    BY <2>1, <2>2, DecidedNow
<1> QED
  BY <1>1, <1>2, <1>4, DecidedNow, NothingDecided

\* A changelog that is filed brings new matches, open ones.
LEMMA FileKeeps ==
  ASSUME DecidedInv, plot' = plot, NEW a \in clicks, FileChangelog(a) PROVE DecidedInv'
<1>1. /\ UNCHANGED <<proofs, told, crossed, misplaced>> /\ onRecord' = TRUE
      /\ delivered' = delivered /\ modal' = modal /\ tab' = tab /\ looks' = looks
      /\ cards' = cards /\ returned' = returned /\ tally' = tally /\ a.kind = "file"
  BY DEF FileChangelog, writing, proofHistory
<1>2. /\ verdict \in [Matches -> Verdicts] /\ verdict' \in [Matches -> Verdicts]
      /\ \A m \in Matches : verdict[m] # "absent" => verdict'[m] = verdict[m]
      /\ \A m \in Matches : verdict'[m] # verdict[m] => verdict'[m] = "proposed" /\ verdict[m] = "absent"
  <2>1. verdict \in [Matches -> Verdicts]
    BY DEF DecidedInv, ProofShape
  <2>2. CASE onRecord
    BY <2>1, <2>2 DEF FileChangelog
  <2>3. CASE ~onRecord
    <3>1. PICK found \in SUBSET (Matches \ plot.start) :
            verdict' = [m \in Matches |-> IF m \in found THEN "proposed" ELSE verdict[m]]
      BY <2>3 DEF FileChangelog
    <3>2. \A m \in found : verdict[m] = "absent"
      BY <2>3 DEF DecidedInv, NamesProposed
    <3> QED
      BY <2>1, <3>1, <3>2 DEF Verdicts
  <2> QED
    BY <2>2, <2>3
<1>3. PICK at \in {"ok", "no"} : Moves(a, at)
  BY DEF FileChangelog
<1>4. PICK c \in ClickRecord : /\ clicks' = (clicks \ {a}) \cup {c}
                               /\ c.at = at /\ c.kind = a.kind /\ c.of = a.of
  <2>1. clicks' = (clicks \ {a}) \cup {[a EXCEPT !.at = at]} /\ at \in {"sent", "read", "ok", "no"}
    BY <1>3 DEF Moves
  <2> QED
    BY <1>1, <1>3, <2>1, ClickMoves
<1>5. ProofShape'
  BY <1>1, <1>2, <1>4 DEF DecidedInv, ProofShape
<1>6. NamesProposed'
  <2>1. \A b \in clicks' : b.kind # "file" => b.of \in Matches /\ verdict'[b.of] # "absent"
    BY <1>2, <1>4 DEF DecidedInv, NamesProposed
  <2>2. \A m \in cards' : m = "none" \/ (m \in Matches /\ verdict'[m] # "absent")
    BY <1>1, <1>2 DEF DecidedInv, NamesProposed
  <2>3. \A l \in looks' : \A m \in l.sees : verdict'[m] # "absent"
    <3> SUFFICES ASSUME NEW l \in looks, NEW m \in l.sees PROVE verdict'[m] # "absent"
      BY <1>1
    <3>1. m \in Matches /\ verdict[m] # "absent"
      BY DEF DecidedInv, NamesProposed, ProofShape, LookRecord
    <3> QED
      BY <3>1, <1>2
  <2>4. modal'.of = "none" \/ (modal'.of \in Matches /\ verdict'[modal'.of] # "absent")
    BY <1>1, <1>2 DEF DecidedInv, NamesProposed
  <2> QED
    BY <1>1, <2>1, <2>2, <2>3, <2>4 DEF NamesProposed
<1>7. ReadsHold'
  <2>1. ASSUME NEW b \in clicks', b.kind # "file"
        PROVE  b \in clicks /\ b.of \in Matches /\ verdict'[b.of] = verdict[b.of]
    <3>1. b \in clicks
      BY <1>1, <1>4, <2>1
    <3>2. b.of \in Matches /\ verdict[b.of] # "absent"
      BY <3>1, <2>1 DEF DecidedInv, NamesProposed
    <3> QED
      BY <1>2, <3>1, <3>2
  <2> QED
    BY <1>1, <2>1 DEF DecidedInv, ReadsHold
<1>8. HeardIsDecided' /\ ReasonsFit'
  BY <1>1, <1>2 DEF DecidedInv, HeardIsDecided, ReasonsFit
<1>9. DecidedOnce'
  BY <1>1, <1>2 DEF DecidedInv, DecidedOnce
<1> QED
  BY <1>5, <1>6, <1>7, <1>8, <1>9 DEF DecidedInv

\* Every step keeps the proof page's invariant.
LEMMA DecidedStep == DecidedInv /\ [ProofNext]_proofVars => DecidedInv'
<1> SUFFICES ASSUME DecidedInv, [ProofNext]_proofVars PROVE DecidedInv'
  OBVIOUS
<1>1. CASE UNCHANGED proofVars
  BY <1>1 DEF proofVars, DecidedInv, ProofShape, NamesProposed, ReadsHold, HeardIsDecided, ReasonsFit,
              DecidedOnce
<1>2. CASE ProofNext
  BY <1>2, LooksKeep, MatchesArriveKeeps, PressesKeep, WritingKeeps, ReadMatchKeeps, DecisionKeeps,
     DecidedKeeps, AnswersKeep, FileKeeps DEF ProofNext, ProofPageStep
<1> QED
  BY <1>1, <1>2

\* A match is decided once and has the evidence of that decision, and a card known to be
\* decided stays away (releases/routes.ts:160, Proof.tsx:91), for any number of clicks,
\* loads and answers.
THEOREM MatchesAlwaysDecidedOnce == ProofSpec => []DecidedOnce
<1>1. DecidedInv => DecidedOnce
  BY DEF DecidedInv
<1> QED
  BY <1>1, DecidedStart, DecidedStep, PTL DEF ProofSpec

----------------------------------------------------------------------------
(*****************************************************************************)
(* RecordPage.  What is shown is of the address, unless an answer that came  *)
(* late was taken in.                                                        *)
(*****************************************************************************)

\* A page that is loading or has failed holds no text.  One that is up shows the
\* insight in the address, and holds its text, unless a stray answer was taken in.
RecordShape ==
  /\ here \in Records \cup {"list"}
  /\ page = [loading |-> page.loading, failed |-> page.failed, of |-> page.of, row |-> page.row]
  /\ body = [of |-> body.of, dirty |-> body.dirty, modal |-> body.modal]
  /\ page.loading \in BOOLEAN /\ page.failed \in BOOLEAN
  /\ body.dirty \in BOOLEAN
  /\ stray \in BOOLEAN

RecordInv ==
  /\ RecordShape
  /\ page.loading \/ page.failed => body = NoBody
  /\ here # "list" /\ ~page.loading /\ ~page.failed /\ ~stray => page.of = here /\ body.of = here
  /\ AddressedAsShown

\* Both start on the list, where nothing is shown.
LEMMA RecordStart == RecordInit => RecordInv
<1> SUFFICES ASSUME RecordInit PROVE RecordInv
  OBVIOUS
<1>1. stray \in BOOLEAN
  BY DEF RecordInit
<1>2. RecordShape
  BY <1>1 DEF RecordInit, RecordShape, NoPage, NoBody
<1> QED
  BY <1>2 DEF RecordInit, RecordInv, NoPage, NoBody, AddressedAsShown

\* Leaving for the list takes page and text away together.
LEMMA GoneKeeps ==
  ASSUME RecordInv, Gone, UNCHANGED <<stray, astray>> PROVE RecordInv'
  BY DEF RecordInv, RecordShape, Gone, NoPage, NoBody, AddressedAsShown

\* Another record opens with nothing shown.
LEMMA OpenKeeps ==
  ASSUME RecordInv, NEW i \in Records, Open(i) PROVE RecordInv'
  BY DEF RecordInv, RecordShape, Open, NoBody, AddressedAsShown

\* A load begins with nothing shown.
LEMMA LoadAgainKeeps ==
  ASSUME RecordInv, LoadRecordAgain PROVE RecordInv'
  BY DEF RecordInv, RecordShape, LoadRecordAgain, NoBody, AddressedAsShown

\* What arrives is of the address, or the page has gone astray.
LEMMA FetchArrivesKeeps ==
  ASSUME RecordInv, NEW g \in gets, FetchArrives(g) PROVE RecordInv'
<1>1. here' = here /\ here # "list" /\ astray' = astray /\ stray \in BOOLEAN
  BY DEF RecordInv, RecordShape, FetchArrives
<1>2. stray' = (stray \/ g.id # here)
  BY DEF FetchArrives
<1>3. stray' \in BOOLEAN /\ (stray' <=> (stray \/ g.id # here))
  BY <1>1, <1>2
<1>4. page' = [loading |-> (page.loading /\ g.then # "load"), failed |-> page.failed,
               of |-> g.id, row |-> g.row]
  BY DEF RecordInv, RecordShape, FetchArrives
<1>5. /\ page'.loading \in BOOLEAN /\ (page'.loading <=> (page.loading /\ g.then # "load"))
      /\ page'.failed = page.failed /\ page'.of = g.id
      /\ page' = [loading |-> page'.loading, failed |-> page'.failed, of |-> page'.of, row |-> page'.row]
  BY <1>4
<1>6. \/ /\ ~page.failed /\ (g.then = "load" \/ ~page.loading) /\ ~body.dirty
         /\ body'.of = g.id /\ body'.dirty = body.dirty
         /\ body' = [of |-> body'.of, dirty |-> body'.dirty, modal |-> body'.modal]
      \/ /\ page.failed \/ (g.then # "load" /\ page.loading) \/ body.dirty
         /\ body' = body
  <2>1. CASE ~page.failed /\ (g.then = "load" \/ ~page.loading) /\ ~body.dirty
    <3>1. body' = [body EXCEPT !.of = g.id]
      BY <2>1 DEF FetchArrives
    <3> QED
      BY <2>1, <3>1 DEF RecordInv, RecordShape
  <2>2. CASE ~(~page.failed /\ (g.then = "load" \/ ~page.loading) /\ ~body.dirty)
    BY <2>2 DEF FetchArrives
  <2> QED
    BY <2>1, <2>2
<1>7. RecordShape'
  BY <1>1, <1>3, <1>5, <1>6 DEF RecordInv, RecordShape
<1>8. page'.loading \/ page'.failed => body' = NoBody
  BY <1>5, <1>6 DEF RecordInv, NoBody
<1>9. ~page'.loading /\ ~page'.failed /\ ~stray' => page'.of = here' /\ body'.of = here'
  BY <1>1, <1>3, <1>5, <1>6 DEF RecordInv, RecordShape, NoBody
<1>10. AddressedAsShown'
  BY <1>1, <1>3 DEF RecordInv, AddressedAsShown
<1> QED
  BY <1>7, <1>8, <1>9, <1>10 DEF RecordInv

\* A load that fails shows nothing.
LEMMA FetchFailsKeeps ==
  ASSUME RecordInv, NEW g \in gets, FetchFails(g) PROVE RecordInv'
  BY DEF RecordInv, RecordShape, FetchFails, NoBody, AddressedAsShown

\* Typing leaves what is shown.
LEMMA TypingKeeps ==
  ASSUME RecordInv,
         \/ \E dirty \in BOOLEAN : TypeText(dirty)
         \/ \E kind \in outing.deeds : Modal(kind)
  PROVE  RecordInv'
  BY DEF RecordInv, RecordShape, TypeText, Modal, Up, NoBody, AddressedAsShown

\* What is pressed on a page that is up goes to the insight it shows.
LEMMA DoKeeps ==
  ASSUME RecordInv, NEW kind \in outing.deeds, Do(kind) PROVE RecordInv'
<1>1. here' = here /\ page' = page /\ body' = body /\ stray' = stray
  BY DEF Do
<1>2. ~stray => Target(kind) = LookedAt(kind)
  BY DEF RecordInv, RecordShape, Do, Up, Target, LookedAt, OfAnItem
<1>3. ~stray => astray' = astray
  BY <1>2 DEF Do
<1> QED
  BY <1>1, <1>3 DEF RecordInv, RecordShape, AddressedAsShown

\* An action is of the insight shown when it was pressed.
LEMMA DeedsKeep ==
  ASSUME RecordInv, NEW d \in deeds, Serves(d) \/ Succeeds(d) \/ Fails(d) PROVE RecordInv'
<1>1. here' = here /\ page' = page /\ stray' = stray /\ astray' = astray
  BY DEF Serves, Succeeds, Fails
<1>2. CASE Succeeds(d) /\ d.waits = "body"
  <2>1. body' = [of |-> body.of, dirty |-> body.dirty /\ d.kind # "save",
                 modal |-> IF body.modal = d.kind THEN "none" ELSE body.modal]
    BY <1>2 DEF Succeeds, RecordInv, RecordShape, RecordShape
  <2>2. /\ body'.of = body.of /\ body'.dirty \in BOOLEAN /\ (body'.dirty <=> (body.dirty /\ d.kind # "save"))
        /\ body' = [of |-> body'.of, dirty |-> body'.dirty, modal |-> body'.modal]
    BY <2>1
  <2>3. RecordShape'
    BY <1>1, <2>2 DEF RecordInv, RecordShape
  <2>4. ASSUME body = NoBody PROVE body' = NoBody
    <3>1. body.of = "none" /\ body.dirty = FALSE /\ body.modal = "none"
      BY <2>4 DEF NoBody
    <3>2. body'.of = "none" /\ body'.modal = "none"
      BY <2>1, <3>1
    <3>3. body'.dirty = FALSE
      BY <2>2, <3>1
    <3> QED
      BY <2>2, <3>2, <3>3 DEF NoBody
  <2> QED
    BY <1>1, <2>2, <2>3, <2>4 DEF RecordInv, AddressedAsShown
<1>3. CASE body' = body
  BY <1>1, <1>3 DEF RecordInv, RecordShape, AddressedAsShown
<1> QED
  BY <1>2, <1>3 DEF Serves, Succeeds, Fails

\* Every step keeps the record page's invariant.
LEMMA RecordStepKeeps == RecordInv /\ [RecordNext]_recordVars => RecordInv'
<1> SUFFICES ASSUME RecordInv, [RecordNext]_recordVars PROVE RecordInv'
  OBVIOUS
<1>1. CASE UNCHANGED recordVars
  BY <1>1 DEF recordVars, RecordInv, RecordShape, AddressedAsShown
<1>2. CASE BackToLibrary
  BY <1>2, GoneKeeps DEF BackToLibrary
<1>3. ASSUME NEW g \in gets, MergeLeaves(g) PROVE RecordInv'
  BY <1>3, GoneKeeps DEF MergeLeaves
<1> QED
  BY <1>1, <1>2, <1>3, OpenKeeps, LoadAgainKeeps, FetchArrivesKeeps, FetchFailsKeeps, TypingKeeps, DoKeeps,
     DeedsKeep DEF RecordNext

\* What is pressed on a record goes to the insight that is shown, unless an answer for one
\* left behind was taken in (InsightDetail.tsx:120, :154).
THEOREM AlwaysAddressedAsShown == RecordSpec => []AddressedAsShown
<1>1. RecordInv => AddressedAsShown
  BY DEF RecordInv
<1> QED
  BY <1>1, RecordStart, RecordStepKeeps, PTL DEF RecordSpec

----------------------------------------------------------------------------
(*****************************************************************************)
(* CapturePage.  What is under way, and what is shown, is of one meeting.    *)
(*****************************************************************************)

\* The client chosen last is the one selected or the one being created, unless a
\* creation was answered late.  While a meeting is being added the form is shown; until
\* the page is cleared over something under way, what is under way and what is shown
\* is of the meeting shown.
CaptureShape ==
  /\ sending = [client |-> sending.client, way |-> sending.way, at |-> sending.at]
  /\ screen = [meeting |-> screen.meeting, summary |-> screen.summary, wait |-> screen.wait,
               audio |-> screen.audio]
  /\ form = [client |-> form.client, consent |-> form.consent, way |-> form.way, has |-> form.has]
  /\ lateChoice \in BOOLEAN
  /\ misfiled \in BOOLEAN
  /\ carried \in BOOLEAN

CaptureInv ==
  /\ CaptureShape
  /\ adding = {} \/ \E c \in adding : adding = {c}
  /\ lateChoice \/ chosen \in {form.client} \cup adding
  /\ misfiled => lateChoice
  /\ sending.at # "none" => screen.meeting = 0
  /\ ~carried => /\ \A j \in jobs : j.of = screen.meeting
                 /\ {screen.summary, screen.wait} \subseteq {0, screen.meeting}
                 /\ screen.meeting = 0 => jobs = {}

\* Initially nothing is filed.
LEMMA CaptureStart == CaptureInit => CaptureInv
<1> SUFFICES ASSUME CaptureInit PROVE CaptureInv
  OBVIOUS
<1>1. CaptureShape
  BY DEF CaptureInit, CaptureShape, EmptyForm, NoScreen, NotSending
<1> QED
  BY <1>1 DEF CaptureInit, CaptureInv, EmptyForm, NoScreen, NotSending

\* The form's steps select and create clients and leave the screen alone.
LEMMA FormKeeps ==
  ASSUME CaptureInv,
         \/ \E c \in errand.clients : PickClient(c) \/ CreateClient(c)
         \/ \E hint \in errand.hints : PickEvent(hint)
         \/ \E way \in errand.ways, text \in BOOLEAN : Converse(way, text)
         \/ Consent
  PROVE  CaptureInv'
<1>1. UNCHANGED <<sending, screen, jobs, carried, misfiled, lateChoice>>
  BY DEF PickClient, CreateClient, PickEvent, Converse, Consent, OnForm
<1>2. /\ form' = [client |-> form'.client, consent |-> form'.consent, way |-> form'.way, has |-> form'.has]
      /\ adding' = {} \/ \E c \in adding' : adding' = {c}
      /\ lateChoice \/ chosen' \in {form'.client} \cup adding'
  <2>1. ASSUME NEW c, form' = [form EXCEPT !.client = c], chosen' = c, adding' = adding
        PROVE  <1>2!1 /\ <1>2!2 /\ <1>2!3
    BY <2>1 DEF CaptureInv, CaptureShape
  <2>2. ASSUME NEW c, CreateClient(c) PROVE <1>2!1 /\ <1>2!2 /\ <1>2!3
    BY <2>2 DEF CreateClient, CaptureInv, CaptureShape
  <2>3. ASSUME NEW way, NEW text, Converse(way, text) PROVE <1>2!1 /\ <1>2!2 /\ <1>2!3
    BY <2>3 DEF Converse, CaptureInv, CaptureShape
  <2>4. CASE Consent
    BY <2>4 DEF Consent, CaptureInv, CaptureShape
  <2> QED
    BY <2>1, <2>2, <2>3, <2>4 DEF PickClient, PickEvent
<1> QED
  BY <1>1, <1>2 DEF CaptureInv, CaptureShape

\* The answer about a new client.
LEMMA CreationKeeps ==
  ASSUME CaptureInv, NEW c, ClientCreated(c) \/ ClientRefused(c) PROVE CaptureInv'
<1>1. UNCHANGED <<sending, screen, jobs, carried, misfiled>> /\ adding = {c} /\ adding' = {}
  BY DEF ClientCreated, ClientRefused, CaptureInv, CaptureShape
<1>2. CASE ClientCreated(c)
  <2>1. /\ form'.client = c /\ chosen' = chosen
        /\ form' = [client |-> form'.client, consent |-> form'.consent, way |-> form'.way, has |-> form'.has]
    BY <1>2 DEF ClientCreated, CaptureInv, CaptureShape
  <2>2. lateChoice' = (lateChoice \/ chosen # c) /\ lateChoice \in BOOLEAN
    BY <1>2 DEF ClientCreated, CaptureInv, CaptureShape
  <2>3. lateChoice' \in BOOLEAN /\ (lateChoice' <=> (lateChoice \/ chosen # c))
    BY <2>2
  <2>4. CaptureShape'
    BY <1>1, <2>1, <2>3 DEF CaptureInv, CaptureShape
  <2> QED
    BY <1>1, <2>1, <2>3, <2>4 DEF CaptureInv
<1>3. CASE ClientRefused(c)
  BY <1>1, <1>3 DEF ClientRefused, CaptureInv, CaptureShape
<1> QED
  BY <1>2, <1>3

\* A meeting is filed under what the form says.
LEMMA AddingKeeps ==
  ASSUME CaptureInv, Submit \/ FileMeeting \/ Filed \/ NotFiled PROVE CaptureInv'
<1>1. UNCHANGED <<form, chosen, lateChoice, adding, jobs, carried>>
  BY DEF Submit, FileMeeting, Filed, NotFiled
<1>2. CASE Submit
  BY <1>1, <1>2 DEF Submit, CaptureInv, CaptureShape
<1>3. CASE FileMeeting
  BY <1>1, <1>3 DEF FileMeeting, CaptureInv, CaptureShape
<1>4. CASE Filed
  <2>1. sending' = NotSending /\ misfiled' = misfiled /\ screen.meeting = 0
    BY <1>4 DEF Filed, CaptureInv, CaptureShape
  <2>2. PICK n, audio : screen' = [meeting |-> n, summary |-> screen.summary, wait |-> screen.wait,
                                   audio |-> audio]
    BY <1>4 DEF Filed, CaptureInv, CaptureShape
  <2> QED
    BY <1>1, <2>1, <2>2 DEF CaptureInv, CaptureShape, NotSending
<1>5. CASE NotFiled
  BY <1>1, <1>5 DEF NotFiled, CaptureInv, CaptureShape, NotSending
<1> QED
  BY <1>2, <1>3, <1>4, <1>5

\* Only what was begun on the meeting shown, or carried over, is answered on it.
LEMMA ScreenKeeps ==
  ASSUME CaptureInv,
         \/ PressExtract \/ PressTranscribe
         \/ \E j \in jobs : BriefPending(j) \/ Extracted(j) \/ ExtractWaits(j) \/ Transcribed(j) \/ JobFails(j)
  PROVE  CaptureInv'
<1>1. UNCHANGED <<form, chosen, lateChoice, adding, sending, carried, misfiled>>
  BY DEF PressExtract, PressTranscribe, BriefPending, Extracted, ExtractWaits, Transcribed, JobFails,
         OnScreen, NothingElse
<1>2. CASE PressExtract
  BY <1>1, <1>2 DEF PressExtract, OnScreen, CaptureInv, CaptureShape
<1>3. CASE PressTranscribe
  BY <1>1, <1>3 DEF PressTranscribe, OnScreen, CaptureInv, CaptureShape
<1>4. ASSUME NEW j \in jobs, BriefPending(j) PROVE CaptureInv'
  <2>1. screen' = screen /\ jobs' = (jobs \ {j}) \cup {[j EXCEPT !.kind = "brief"]}
    BY <1>4 DEF BriefPending
  <2>2. [j EXCEPT !.kind = "brief"].of = j.of
    OBVIOUS
  <2> QED
    BY <1>1, <2>1, <2>2 DEF CaptureInv, CaptureShape
<1>5. ASSUME NEW j \in jobs, Extracted(j) \/ ExtractWaits(j) \/ Transcribed(j) \/ JobFails(j)
      PROVE  CaptureInv'
  BY <1>1, <1>5 DEF Extracted, ExtractWaits, Transcribed, JobFails, Ends, CaptureInv, CaptureShape
<1> QED
  BY <1>2, <1>3, <1>4, <1>5

\* Another meeting begins with nothing shown.
LEMMA AnotherKeeps ==
  ASSUME CaptureInv, StartAnother PROVE CaptureInv'
  BY DEF StartAnother, CaptureInv, CaptureShape, NoScreen, EmptyForm

\* Every step keeps the capture page's invariant.
LEMMA CaptureStepKeeps == CaptureInv /\ [CaptureNext]_captureVars => CaptureInv'
<1> SUFFICES ASSUME CaptureInv, [CaptureNext]_captureVars PROVE CaptureInv'
  OBVIOUS
<1>1. CASE UNCHANGED captureVars
  BY <1>1 DEF captureVars, CaptureInv, CaptureShape
<1>2. CASE CaptureNext
  BY <1>2, FormKeeps, CreationKeeps, AddingKeeps, ScreenKeeps, AnotherKeeps DEF CaptureNext, CaptureStep
<1> QED
  BY <1>1, <1>2

\* A meeting is filed under the client chosen, and what is shown is of the meeting named,
\* unless a creation answered late or the page was cleared over an extraction
\* (Capture.tsx:190, :332), for any number of meetings.
THEOREM AlwaysKeepsToItsMeeting == CaptureSpec => []KeepsToItsMeeting
<1>1. CaptureInv => KeepsToItsMeeting
  BY DEF CaptureInv, KeepsToItsMeeting
<1> QED
  BY <1>1, CaptureStart, CaptureStepKeeps, PTL DEF CaptureSpec

----------------------------------------------------------------------------
(*****************************************************************************)
(* SearchPages.  The latest search, and the latest load, are for what is     *)
(* chosen now; what is shown came from them.                                 *)
(*****************************************************************************)

HuntRecord == [n : Nat, text : Terms, sieve : Filters \cup {"none"}, live : BOOLEAN]
LoadRecord == [n : Nat, sieve : Filters, type : Types]

SearchShape ==
  /\ query \in Terms /\ sieve \in Filters /\ type \in Types
  /\ latest \in Nat /\ lastLoad \in Nat
  /\ timer \in HuntRecord
  /\ hunts \subseteq HuntRecord
  /\ tableLoads \subseteq LoadRecord

\* No load has a later number than the last; the last is for what is chosen, and the
\* table, once nothing is awaited, for it too.
LoadsNumbered ==
  surface = "library" =>
    /\ \A l \in tableLoads : l.n <= lastLoad /\ (l.n = lastLoad => l.sieve = sieve /\ l.type = type)
    /\ loading \/ wrecked \/ overtaken \/ table = [sieve |-> sieve, type |-> type]

\* The same for the library's searches, while there is a text.
HuntsNumbered ==
  surface = "library" =>
    /\ timer.n <= latest /\ \A h \in hunts : h.n <= latest
    /\ query # "" =>
         /\ timer.live /\ timer.n = latest => timer.text = query /\ timer.sieve = sieve
         /\ \A h \in hunts : h.n = latest => h.text = query /\ h.sieve = sieve
         /\ searching \/ (result.live /\ result.text = query /\ result.sieve = sieve)

\* What the palette waits for, or has found, is for its text.
HuntsCalledOff ==
  surface = "palette" =>
    /\ timer.live => open /\ timer.text = query /\ query \notin ShortTerms
    /\ \A h \in hunts : h.live => open /\ h.text = query /\ query \notin ShortTerms
    /\ open /\ ~timer.live /\ (\A h \in hunts : ~h.live) =>
         result.text = IF query \in ShortTerms THEN "" ELSE query

SearchInv == SearchShape /\ LoadsNumbered /\ HuntsNumbered /\ HuntsCalledOff

\* The record of a search that is not there.
LEMMA NoSearchFits ==
  /\ NoSearch \in HuntRecord /\ ~NoSearch.live /\ NoSearch.text = ""
  /\ \A n \in Nat : NoSearch.n <= n
<1>1. NoSearch \in HuntRecord /\ ~NoSearch.live /\ NoSearch.text = ""
  BY SearchPagesAssumption DEF NoSearch, HuntRecord
<1>2. NoSearch.n = 0
  BY DEF NoSearch
<1>3. \A n \in Nat : NoSearch.n <= n
  BY <1>2
<1> QED
  BY <1>1, <1>3

\* Initially the library loads what it asks for.
LEMMA SearchStart == SearchInit => SearchInv
<1> SUFFICES ASSUME SearchInit PROVE SearchInv
  OBVIOUS
<1> DEFINE first == [n |-> 1, sieve |-> sieve, type |-> type]
<1>a. /\ query = "" /\ query \in Terms /\ sieve \in Filters /\ type \in Types
      /\ timer = NoSearch /\ hunts = {} /\ latest = 0 /\ lastLoad = 1 /\ loading = TRUE
      /\ tableLoads = {first} /\ open = FALSE
  BY SearchPagesAssumption DEF SearchInit
<1>b. first \in LoadRecord /\ first.n = 1 /\ first.sieve = sieve /\ first.type = type
  BY <1>a DEF LoadRecord
<1> HIDE DEF first
<1>1. SearchShape
  BY <1>a, <1>b, NoSearchFits DEF SearchShape
<1>2. LoadsNumbered
  <2>1. first.n <= lastLoad
    <3>1. first.n = 1 /\ lastLoad = 1
      BY <1>a, <1>b
    <3> QED
      BY <3>1
  <2> QED
    BY <1>a, <1>b, <2>1 DEF LoadsNumbered
<1>3. HuntsNumbered
  <2>1. timer.n <= latest
    <3>1. latest \in Nat /\ timer = NoSearch
      BY <1>a
    <3> QED
      BY <3>1, NoSearchFits
  <2> QED
    BY <1>a, <2>1 DEF HuntsNumbered
<1>4. HuntsCalledOff
  BY <1>a, NoSearchFits DEF HuntsCalledOff
<1> QED
  BY <1>1, <1>2, <1>3, <1>4 DEF SearchInv

\* The library's form: its table.
LEMMA TabulateKeeps ==
  ASSUME SearchInv, surface = "library", surface' = surface,
         NEW f \in Filters, NEW t \in Types, Tabulate(f, t), sieve' = f, type' = t
  PROVE  lastLoad' \in Nat /\ tableLoads' \subseteq LoadRecord /\ LoadsNumbered'
<1>1. CASE f = sieve /\ t = type
  BY <1>1 DEF Tabulate, tableVars, SearchInv, SearchShape, LoadsNumbered
<1>2. CASE ~(f = sieve /\ t = type)
  <2> DEFINE new == [n |-> lastLoad + 1, sieve |-> f, type |-> t]
  <2>1. new \in LoadRecord /\ new.n = lastLoad + 1 /\ new.sieve = f /\ new.type = t
    BY DEF SearchInv, SearchShape, LoadRecord
  <2>2. lastLoad' = lastLoad + 1 /\ tableLoads' = tableLoads \cup {new} /\ loading' = TRUE
    BY <1>2 DEF Tabulate
  <2>3. \A l \in tableLoads : l.n \in Nat /\ l.n <= lastLoad
    BY DEF SearchInv, SearchShape, LoadsNumbered, LoadRecord
  <2> HIDE DEF new
  <2>4. lastLoad' \in Nat /\ tableLoads' \subseteq LoadRecord
    BY <2>1, <2>2 DEF SearchInv, SearchShape
  <2>5. \A l \in tableLoads' : l.n <= lastLoad' /\ (l.n = lastLoad' => l.sieve = f /\ l.type = t)
    BY <2>1, <2>2, <2>3 DEF SearchInv, SearchShape
  <2> QED
    BY <2>2, <2>4, <2>5 DEF LoadsNumbered
<1> QED
  BY <1>1, <1>2

\* ... and its searches.
LEMMA HuntKeeps ==
  ASSUME SearchInv, surface = "library", surface' = surface,
         NEW q \in Terms, NEW f \in Filters, Hunt(q, f), query' = q, sieve' = f
  PROVE  latest' \in Nat /\ timer' \in HuntRecord /\ hunts' = hunts /\ HuntsNumbered'
<1>1. /\ hunts' = hunts /\ latest \in Nat /\ timer \in HuntRecord /\ timer.n \in Nat
      /\ \A h \in hunts : h.n \in Nat /\ h.n <= latest
  BY DEF Hunt, SearchInv, SearchShape, HuntsNumbered, HuntRecord
<1>2. CASE q = query /\ f = sieve
  <2>1. UNCHANGED <<timer, latest, searching, result>>
    BY <1>2 DEF Hunt
  <2> QED
    BY <1>1, <1>2, <2>1 DEF SearchInv, HuntsNumbered
<1>3. CASE ~(q = query /\ f = sieve) /\ q = ""
  <2>1. timer' = NoSearch /\ latest' = latest
    BY <1>3 DEF Hunt
  <2> QED
    BY <1>1, <1>3, <2>1, NoSearchFits DEF HuntsNumbered
<1>4. CASE ~(q = query /\ f = sieve) /\ q # ""
  <2>1. /\ timer' = [n |-> latest + 1, text |-> q, sieve |-> f, live |-> TRUE]
        /\ latest' = latest + 1 /\ searching' = TRUE
    BY <1>4 DEF Hunt
  <2>2. timer' \in HuntRecord /\ timer'.n = latest + 1 /\ timer'.text = q /\ timer'.sieve = f
    BY <1>1, <2>1 DEF HuntRecord
  <2>3. \A h \in hunts : h.n <= latest + 1 /\ h.n # latest + 1
    BY <1>1
  <2>4. \A h \in hunts' : h.n <= latest' /\ h.n # latest'
    BY <1>1, <2>1, <2>3
  <2>5. timer'.n <= latest' /\ latest' \in Nat
    BY <1>1, <2>1, <2>2
  <2> QED
    BY <1>1, <2>1, <2>2, <2>4, <2>5 DEF HuntsNumbered
<1> QED
  BY <1>2, <1>3, <1>4

\* A change of the form begins the load, or the wait, for what is asked now.
LEMMA FormKeepsSearch ==
  ASSUME SearchInv,
         \/ \E q \in Terms, f \in Filters, t \in Types : ChooseFilters(q, f, t)
         \/ ClearFilters
  PROVE  SearchInv'
<1>1. PICK q \in Terms, f \in Filters, t \in Types :
        /\ surface = "library" /\ surface' = surface
        /\ query' = q /\ sieve' = f /\ type' = t /\ Tabulate(f, t) /\ Hunt(q, f)
  BY SearchPagesAssumption DEF ChooseFilters, ClearFilters, Turn
<1>2. lastLoad' \in Nat /\ tableLoads' \subseteq LoadRecord /\ LoadsNumbered'
  BY <1>1, TabulateKeeps
<1>3. latest' \in Nat /\ timer' \in HuntRecord /\ hunts' = hunts /\ HuntsNumbered'
  BY <1>1, HuntKeeps
<1>4. SearchShape'
  BY <1>1, <1>2, <1>3 DEF SearchInv, SearchShape
<1>5. HuntsCalledOff'
  BY <1>1 DEF HuntsCalledOff
<1> QED
  BY <1>2, <1>3, <1>4, <1>5 DEF SearchInv

\* A load begins for the filters there are.
LEMMA LoadTableAgainKeeps ==
  ASSUME SearchInv, LoadTableAgain PROVE SearchInv'
<1>1. /\ surface = "library" /\ surface' = surface
      /\ UNCHANGED <<query, sieve, type, open, timer, hunts, latest, searching, result>>
      /\ query = "" /\ loading' = TRUE
  BY DEF LoadTableAgain, Turn, huntVars
<1> DEFINE new == [n |-> lastLoad + 1, sieve |-> sieve, type |-> type]
<1>2. new \in LoadRecord /\ new.n = lastLoad + 1 /\ new.sieve = sieve /\ new.type = type
  BY DEF SearchInv, SearchShape, LoadRecord
<1>3. lastLoad' = lastLoad + 1 /\ tableLoads' = tableLoads \cup {new}
  BY DEF LoadTableAgain
<1> HIDE DEF new
<1>4. \A l \in tableLoads : l.n \in Nat /\ l.n <= lastLoad
  BY <1>1 DEF SearchInv, SearchShape, LoadsNumbered, LoadRecord
<1>5. SearchShape'
  <2>1. lastLoad' \in Nat /\ tableLoads' \subseteq LoadRecord
    BY <1>2, <1>3 DEF SearchInv, SearchShape
  <2> QED
    BY <1>1, <2>1 DEF SearchInv, SearchShape
<1>6. \A l \in tableLoads' : l.n <= lastLoad' /\ (l.n = lastLoad' => l.sieve = sieve /\ l.type = type)
  BY <1>2, <1>3, <1>4 DEF SearchInv, SearchShape
<1>7. LoadsNumbered'
  BY <1>1, <1>6 DEF LoadsNumbered
<1>8. HuntsNumbered' /\ HuntsCalledOff'
  BY <1>1 DEF SearchInv, HuntsNumbered, HuntsCalledOff
<1> QED
  BY <1>5, <1>7, <1>8 DEF SearchInv

\* The latest load to arrive is for what is asked now.
LEMMA TableArrivesKeeps ==
  ASSUME SearchInv, NEW l \in tableLoads, NEW ok \in BOOLEAN, TableArrives(l, ok) PROVE SearchInv'
<1>1. /\ surface = "library" /\ surface' = surface
      /\ UNCHANGED <<query, sieve, type, open, timer, hunts, latest, searching, result, lastLoad>>
      /\ tableLoads' \subseteq tableLoads
  BY DEF TableArrives, huntVars
<1>2. SearchShape'
  BY <1>1 DEF SearchInv, SearchShape
<1>3. HuntsNumbered' /\ HuntsCalledOff'
  BY <1>1 DEF SearchInv, HuntsNumbered, HuntsCalledOff
<1>4. loading' \/ wrecked' \/ overtaken' \/ table' = [sieve |-> sieve', type |-> type']
  <2>1. CASE l.n # lastLoad
    BY <2>1 DEF TableArrives
  <2>2. CASE l.n = lastLoad
    <3>1. l.sieve = sieve /\ l.type = type
      BY <1>1, <2>2 DEF SearchInv, LoadsNumbered
    <3> QED
      BY <1>1, <3>1 DEF TableArrives
  <2> QED
    BY <2>1, <2>2
<1>5. LoadsNumbered'
  BY <1>1, <1>4 DEF SearchInv, LoadsNumbered
<1> QED
  BY <1>2, <1>3, <1>5 DEF SearchInv

\* In the palette every key calls off what was asked before.
LEMMA PaletteKeeps ==
  ASSUME SearchInv, Toggle \/ ClosePalette \/ (\E q \in Terms : TypeInto(q)) PROVE SearchInv'
<1>1. PICK q \in Terms, up \in BOOLEAN :
        /\ surface = "palette" /\ surface' = surface
        /\ query' = q /\ (open' <=> up) /\ LookUpLater(q, up)
        /\ up => result' = IF q \in ShortTerms THEN NoSearch ELSE result
  <2>1. CASE Toggle
    <3>1. query \in Terms /\ (~open) \in BOOLEAN
      BY DEF SearchInv, SearchShape
    <3>2. /\ surface = "palette" /\ surface' = surface /\ query' = query
          /\ open' = ~open /\ LookUpLater(query, ~open)
          /\ ~open => result' = IF query \in ShortTerms THEN NoSearch ELSE result
      BY <2>1 DEF Toggle, Turn
    <3> QED
      BY <3>1, <3>2
  <2>2. CASE ClosePalette
    <3>1. "" \in Terms
      BY SearchPagesAssumption
    <3> QED
      BY <2>2, <3>1 DEF ClosePalette, Turn
  <2>3. ASSUME NEW r \in Terms, TypeInto(r)
        PROVE  /\ surface = "palette" /\ surface' = surface
               /\ query' = r /\ (open' <=> TRUE) /\ LookUpLater(r, TRUE)
               /\ result' = IF r \in ShortTerms THEN NoSearch ELSE result
    BY <2>3 DEF TypeInto, Turn
  <2> QED
    BY <2>1, <2>2, <2>3
<1>2. /\ UNCHANGED <<latest, sieve, type, lastLoad, tableLoads>>
      /\ hunts' = {[h EXCEPT !.live = FALSE] : h \in hunts}
      /\ timer' = IF up /\ q \notin ShortTerms THEN [NoSearch EXCEPT !.text = q, !.live = TRUE] ELSE NoSearch
  BY <1>1 DEF LookUpLater, tableVars
<1>3. /\ timer' \in HuntRecord
      /\ timer'.live => up /\ timer'.text = q /\ q \notin ShortTerms
      /\ up /\ q \notin ShortTerms => timer'.live
  <2>1. CASE up /\ q \notin ShortTerms
    BY <1>2, <2>1 DEF NoSearch, HuntRecord
  <2>2. CASE ~(up /\ q \notin ShortTerms)
    BY <1>2, <2>2, NoSearchFits
  <2> QED
    BY <2>1, <2>2
<1>4. hunts' \subseteq HuntRecord /\ \A h \in hunts' : ~h.live
  <2>1. \A h \in hunts : [h EXCEPT !.live = FALSE] \in HuntRecord /\ ~[h EXCEPT !.live = FALSE].live
    BY DEF SearchInv, SearchShape, HuntRecord
  <2> QED
    BY <1>2, <2>1
<1>5. SearchShape'
  BY <1>1, <1>2, <1>3, <1>4 DEF SearchInv, SearchShape
<1>6. LoadsNumbered' /\ HuntsNumbered'
  BY <1>1 DEF LoadsNumbered, HuntsNumbered
<1>7. HuntsCalledOff'
  BY <1>1, <1>3, <1>4, NoSearchFits DEF HuntsCalledOff
<1> QED
  BY <1>5, <1>6, <1>7 DEF SearchInv

\* The search that leaves is for the present text.
LEMMA TypingStoppedKeeps ==
  ASSUME SearchInv, TypingStopped PROVE SearchInv'
<1>1. /\ UNCHANGED <<surface, query, sieve, type, open, latest, searching, result, tableLoads, lastLoad,
                     table, loading, wrecked, overtaken>>
      /\ hunts' = hunts \cup {timer} /\ timer' = NoSearch /\ timer.live /\ timer \in HuntRecord
  BY DEF TypingStopped, tableVars, SearchInv, SearchShape
<1>2. SearchShape'
  BY <1>1, NoSearchFits DEF SearchInv, SearchShape
<1>3. LoadsNumbered'
  BY <1>1 DEF SearchInv, LoadsNumbered
<1>4. HuntsNumbered'
  <2>1. CASE surface = "library"
    <3>1. latest \in Nat /\ timer' = NoSearch /\ NoSearch.n <= latest
      BY <1>1, NoSearchFits DEF SearchInv, SearchShape
    <3> QED
      BY <1>1, <2>1, <3>1, NoSearchFits DEF SearchInv, HuntsNumbered
  <2>2. CASE surface # "library"
    BY <1>1, <2>2 DEF HuntsNumbered
  <2> QED
    BY <2>1, <2>2
<1>5. HuntsCalledOff'
  BY <1>1, NoSearchFits DEF SearchInv, HuntsCalledOff
<1> QED
  BY <1>2, <1>3, <1>4, <1>5 DEF SearchInv

\* The latest search to arrive is for what is asked now.
LEMMA SearchArrivesKeeps ==
  ASSUME SearchInv, NEW h \in hunts, SearchArrives(h) PROVE SearchInv'
<1>1. /\ UNCHANGED <<surface, query, sieve, type, open, timer, latest, tableLoads, lastLoad,
                     table, loading, wrecked, overtaken>>
      /\ hunts' = hunts \ {h} /\ h \in HuntRecord
  BY DEF SearchArrives, tableVars, SearchInv, SearchShape
<1>2. \/ /\ Awaited(h) /\ result'.live /\ result'.text = h.text /\ result'.sieve = h.sieve
      \/ ~Awaited(h) /\ result' = result /\ searching' = searching
  BY <1>1 DEF SearchArrives, HuntRecord
<1>3. SearchShape'
  BY <1>1 DEF SearchInv, SearchShape
<1>4. LoadsNumbered'
  BY <1>1 DEF SearchInv, LoadsNumbered
<1>5. HuntsNumbered'
  BY <1>1, <1>2 DEF SearchInv, HuntsNumbered, Awaited
<1>6. HuntsCalledOff'
  BY <1>1, <1>2 DEF SearchInv, HuntsCalledOff, Awaited
<1> QED
  BY <1>3, <1>4, <1>5, <1>6 DEF SearchInv

\* Every step keeps the search pages' invariant.
LEMMA SearchStep == SearchInv /\ [SearchNext]_searchVars => SearchInv'
<1> SUFFICES ASSUME SearchInv, [SearchNext]_searchVars PROVE SearchInv'
  OBVIOUS
<1>1. CASE UNCHANGED searchVars
  BY <1>1 DEF searchVars, SearchInv, SearchShape, LoadsNumbered, HuntsNumbered, HuntsCalledOff
<1>2. CASE SearchNext
  BY <1>2, FormKeepsSearch, LoadTableAgainKeeps, TableArrivesKeeps, PaletteKeeps, TypingStoppedKeeps,
     SearchArrivesKeeps DEF SearchNext
<1> QED
  BY <1>1, <1>2

\* Once no search is awaited, the library and the palette show what was found for the
\* present text and filters, whatever order the answers came in, but for a load overtaken
\* by a later one (Insights.tsx:157).  While a search is awaited nothing is said: the
\* library then keeps the old result under the new text (Insights.tsx:529).
THEOREM AlwaysShowsWhatWasAsked == SearchSpec => []ShowsWhatWasAsked
<1>1. SearchInv => ShowsWhatWasAsked
  BY DEF SearchInv, LoadsNumbered, HuntsNumbered, HuntsCalledOff, ShowsWhatWasAsked
<1> QED
  BY <1>1, SearchStart, SearchStep, PTL DEF SearchSpec

----------------------------------------------------------------------------
(*****************************************************************************)
(* MeetingPage.  Answers change none of what a person has ticked or been     *)
(* asked about, while what was found stays the same and in the same order.   *)
(*****************************************************************************)

AskingShape ==
  /\ asking = [open |-> asking.open, about |-> asking.about, changed |-> asking.changed]
  /\ asking.open \in BOOLEAN /\ asking.changed \in BOOLEAN

\* What is ticked is what was asked about, until the found insights or their order change.
AskedAsTicked == asking.open /\ ~asking.changed => ticked = asking.about

ChoiceInv ==
  /\ AskingShape /\ AskedAsTicked
  /\ ticked \cap unticked = {}
  /\ surprised = FALSE

\* Initially nothing is ticked.
LEMMA ChoiceStart == MeetingPageInit => ChoiceInv
<1> SUFFICES ASSUME MeetingPageInit PROVE ChoiceInv
  OBVIOUS
<1>1. asking = [open |-> FALSE, about |-> {}, changed |-> FALSE] /\ ticked = {} /\ surprised = FALSE
  BY DEF MeetingPageInit, NotAsked
<1>2. AskingShape
  BY <1>1 DEF AskingShape
<1>3. AskedAsTicked
  BY <1>1 DEF AskedAsTicked
<1> QED
  BY <1>1, <1>2, <1>3 DEF ChoiceInv

\* A step that touches neither ticks nor question.
LEMMA ChoicesStay ==
  ASSUME ChoiceInv, UNCHANGED <<ticked, unticked, asking, surprised>>
  PROVE  ChoiceInv'
  BY DEF ChoiceInv, AskingShape, AskedAsTicked

\* An answer laid over what is shown ticks anew only when the found insights change, or
\* come in another order, and then the question is about something else.
LEMMA LayKeeps ==
  ASSUME ChoiceInv, NEW detail, NEW list, Lay(detail, list) \/ UNCHANGED <<ticked, unticked, asking>>,
         surprised' = surprised
  PROVE  ChoiceInv'
<1>1. CASE UNCHANGED <<ticked, unticked, asking>>
  BY <1>1, ChoicesStay
<1>2. CASE ~UNCHANGED <<ticked, unticked, asking>>
  <2>1. unticked' = {} /\ asking' = [asking EXCEPT !.changed = TRUE]
    BY <1>2 DEF Lay
  <2>2. asking' = [open |-> asking.open, about |-> asking.about, changed |-> TRUE]
    BY <2>1 DEF ChoiceInv, AskingShape
  <2> QED
    BY <2>1, <2>2 DEF ChoiceInv, AskingShape, AskedAsTicked
<1> QED
  BY <1>1, <1>2

\* What is loaded is laid over what is shown, or changes nothing of it.
LEMMA LoadsKeepChoices ==
  ASSUME ChoiceInv,
         LoadAgain \/ \E f \in flows : ServeLoad(f) \/ DetailArrives(f) \/ ListArrives(f)
  PROVE  ChoiceInv'
<1>1. CASE LoadAgain
  BY <1>1, ChoicesStay DEF LoadAgain, tickVars
<1>2. ASSUME NEW f \in flows, ServeLoad(f) PROVE ChoiceInv'
  BY <1>2, ChoicesStay DEF ServeLoad, tickVars
<1>3. ASSUME NEW f \in flows, DetailArrives(f) PROVE ChoiceInv'
  <2>1. (Lay(f.got, listed) \/ UNCHANGED <<ticked, unticked, asking>>) /\ surprised' = surprised
    BY <1>3 DEF DetailArrives, tickVars
  <2> QED
    BY <2>1, LayKeeps
<1>4. ASSUME NEW f \in flows, ListArrives(f) PROVE ChoiceInv'
  <2>1. (Lay(seen, f.got.ins) \/ UNCHANGED <<ticked, unticked, asking>>) /\ surprised' = surprised
    BY <1>4 DEF ListArrives, tickVars
  <2> QED
    BY <2>1, LayKeeps
<1> QED
  BY <1>1, <1>2, <1>3, <1>4

\* The user's own ticks, and the question asked about them.
LEMMA TicksKeepChoices ==
  ASSUME ChoiceInv, TickAll \/ AskReject \/ CancelReject \/ \E i \in DOMAIN onFile.ins : TickOne(i)
  PROVE  ChoiceInv'
<1>1. surprised' = surprised
  BY DEF TickAll, AskReject, CancelReject, TickOne
<1>2. CASE AskReject
  BY <1>1, <1>2 DEF AskReject, tickVars, ChoiceInv, AskingShape, AskedAsTicked
<1>3. CASE CancelReject
  BY <1>1, <1>3 DEF CancelReject, tickVars, NotAsked, ChoiceInv, AskingShape, AskedAsTicked
<1>4. CASE asking' = asking /\ ~asking.open /\ ticked' \cap unticked' = {}
  BY <1>1, <1>4 DEF ChoiceInv, AskingShape, AskedAsTicked
<1>5. ASSUME NEW i, TickOne(i) PROVE asking' = asking /\ ~asking.open /\ ticked' \cap unticked' = {}
  BY <1>5 DEF TickOne, Page, ChoiceInv
<1>6. ASSUME TickAll PROVE asking' = asking /\ ~asking.open /\ ticked' \cap unticked' = {}
  BY <1>6 DEF TickAll, Page
<1> QED
  BY <1>2, <1>3, <1>4, <1>5, <1>6

\* What is sent off is what is ticked.
LEMMA PostsKeepChoices ==
  ASSUME ChoiceInv, RouteTicked \/ RejectTicked \/ SaveTranscript \/ Extract \/ Transcribe
  PROVE  ChoiceInv'
<1>1. UNCHANGED <<ticked, unticked, asking>>
  BY DEF RouteTicked, RejectTicked, SaveTranscript, Extract, Transcribe, tickVars
<1>2. CASE RejectTicked
  <2>1. asking.open /\ surprised' = (surprised \/ (ticked # asking.about /\ ~asking.changed))
    BY <1>2 DEF RejectTicked
  <2>2. surprised = FALSE /\ ~(ticked # asking.about /\ ~asking.changed)
    BY <2>1 DEF ChoiceInv, AskedAsTicked
  <2> QED
    BY <1>1, <2>1, <2>2, ChoicesStay
<1>3. CASE ~RejectTicked
  BY <1>1, <1>3, ChoicesStay DEF RouteTicked, SaveTranscript, Extract, Transcribe
<1> QED
  BY <1>2, <1>3

\* The server's steps and the text box leave the choices alone; a batch that is answered
\* closes its question.
LEMMA OthersKeepChoices ==
  ASSUME ChoiceInv,
         \/ \E f \in flows : \/ BulkAnswered(f) \/ BulkFails(f) \/ RunStarts(f) \/ PostDone(f)
                             \/ PostRefused(f) \/ \E i \in DOMAIN onFile.ins : BulkOne(f, i)
         \/ \E i \in DOMAIN onFile.ins, s \in {"triaged", "rejected"} : OthersMove(i, s)
         \/ FileRead \/ \E t \in Texts : Paste(t) \/ ChooseFile(t)
  PROVE  ChoiceInv'
<1>1. UNCHANGED <<ticked, unticked, surprised>> /\ asking' \in {asking, NotAsked}
  BY DEF BulkAnswered, BulkFails, BulkOne, RunStarts, PostDone, PostRefused, OthersMove, FileRead, Paste,
         ChooseFile, Texted, tickVars
<1>2. CASE asking' = asking
  BY <1>1, <1>2, ChoicesStay
<1>3. CASE asking' = NotAsked
  BY <1>1, <1>3 DEF ChoiceInv, AskingShape, AskedAsTicked, NotAsked
<1> QED
  BY <1>1, <1>2, <1>3

\* Every step keeps the meeting page's invariant.
LEMMA ChoiceStep == ChoiceInv /\ [MeetingPageNext]_meetingPageVars => ChoiceInv'
<1> SUFFICES ASSUME ChoiceInv, [MeetingPageNext]_meetingPageVars PROVE ChoiceInv'
  OBVIOUS
<1>1. CASE UNCHANGED meetingPageVars
  BY <1>1, ChoicesStay DEF meetingPageVars, tickVars
<1>2. CASE MeetingPageNext
  BY <1>2, LoadsKeepChoices, TicksKeepChoices, PostsKeepChoices, OthersKeepChoices
     DEF MeetingPageNext, MeetingPageStep
<1> QED
  BY <1>1, <1>2

\* No answer that arrives ticks again what was unticked or has something else rejected
\* than was asked about, while the found insights stay the same and in the same order
\* (Meeting.tsx:215-226, :249-251), for any set of insights.
THEOREM AnswersAlwaysLeaveChoices == MeetingPageSpec => []AnswersLeaveChoices
<1>1. ChoiceInv => AnswersLeaveChoices
  BY DEF ChoiceInv, AnswersLeaveChoices
<1> QED
  BY <1>1, ChoiceStart, ChoiceStep, PTL DEF MeetingPageSpec

----------------------------------------------------------------------------
(***********************************************************************************)
(* The types of the insight drawer.  A request names a record there is, a deed     *)
(* one the drawer was open on, and what is counted as asked stays below its bound. *)
(***********************************************************************************)

GetSet == [id : Records, then : {"load", "refresh", "leave"}, row : RowSet]
DeedSet == [kind : outing.deeds, to : Records, from : Records, at : {"sent", "ok", "no"},
            waits : {"body", "page", "nothing"}]
PageSet == [loading : BOOLEAN, failed : BOOLEAN, of : Records \cup {"none"}, row : RowSet \cup {"none"}]
BodySet == [of : Records \cup {"none"}, dirty : BOOLEAN, modal : outing.deeds \cup {"none"}]

\* What a record page holds is well formed: rows are rows, what is on its way is of a
\* record, and on the list nothing is left that waits for a page.
RecordTyped ==
  /\ stored \in [Records -> RowSet]
  /\ here \in Records \cup {"list"} /\ spent \in 0 .. MaxSteps
  /\ page \in PageSet
  /\ page.of \in Records => page.row \in RowSet
  /\ body \in BodySet
  /\ AtMost(gets, MaxGets)
  /\ gets \subseteq GetSet
  /\ deeds \subseteq DeedSet
  /\ here = "list" => /\ page = NoPage /\ body = NoBody
                      /\ \A g \in gets : g.then = "leave"
                      /\ \A d \in deeds : d.waits = "nothing"

\* A drawer that is not open shows nothing.
LEMMA RecordTypedAtFirst == RecordInit => RecordTyped
<1> SUFFICES ASSUME RecordInit PROVE RecordTyped
  OBVIOUS
<1>1. AtMost(gets, MaxGets)
  BY RecordAssumption, AtMostNone DEF RecordInit
<1>2. stored \in [Records -> RowSet]
  BY RecordAssumption DEF RecordInit
<1>3. NoPage \in PageSet /\ NoBody \in BodySet
  BY DEF NoPage, NoBody, PageSet, BodySet
<1>4. page = NoPage /\ body = NoBody /\ here = "list" /\ gets = {} /\ deeds = {} /\ spent \in 0 .. MaxSteps
  BY RecordAssumption DEF RecordInit
<1>5. page.of = "none" /\ "none" \notin Records
  BY <1>4 DEF NoPage, Records
<1> QED
  BY <1>1, <1>2, <1>3, <1>4, <1>5 DEF RecordTyped

\* Whatever is asked of a row, a row comes of it.
LEMMA ResultIsRow ==
  ASSUME NEW r \in RowSet, NEW kind, Allowed(kind, r) PROVE Result(kind, r) \in RowSet
<1>1. \A s \in Map!States : [r EXCEPT !.state = s] \in RowSet
  BY DEF RowSet
<1>2. \A t \in {"draft", "raised"} : [r EXCEPT !.ticket = t] \in RowSet
  BY DEF RowSet
<1>3. \A t \in {"proposed", "confirmed", "rejected"} : [r EXCEPT !.proof = t] \in RowSet
  BY DEF RowSet
<1>4. \A t \in {"draft", "copied", "sent"} : [r EXCEPT !.mail = t] \in RowSet
  BY DEF RowSet
<1>5. ASSUME NEW q \in RowSet, NEW from, NEW to \in Map!States PROVE RecordStep(q, from, to) \in RowSet
  BY DEF RecordStep, RowSet
<1>6. {"triaged", "ticketed", "shipped", "client_notified"} \subseteq Map!States
  BY DEF Map!States
<1>7. \A k \in DOMAIN GoesTo : GoesTo[k] \in Map!States
  BY DEF GoesTo, Map!States
<1>8. CASE kind \in DOMAIN GoesTo
  <2>1. [r EXCEPT !.state = GoesTo[kind]] \in RowSet
    BY <1>1, <1>7, <1>8
  <2>2. Result(kind, r) = [r EXCEPT !.state = GoesTo[kind]]
    <3>1. kind \in DOMAIN GoesTo
      BY <1>8
    <3>2. kind \notin {"triage", "draft", "raise", "propose", "confirm", "refuse", "write", "copied", "sent"}
      BY <1>8 DEF GoesTo
    <3> QED BY <3>1, <3>2 DEF Result
  <2> QED BY <2>1, <2>2
<1>9. CASE kind \notin DOMAIN GoesTo
  <2>1. [r EXCEPT !.mail = "copied"] \in RowSet
    BY <1>4
  <2>2. [r EXCEPT !.ticket = "raised"] \in RowSet /\ [r EXCEPT !.proof = "confirmed"] \in RowSet
    BY <1>2, <1>3
  <2>3. RecordStep(r, {"extracted"}, "triaged") \in RowSet
    BY <1>5, <1>6
  <2>4. RecordStep([r EXCEPT !.ticket = "raised"], {"finalized"}, "ticketed") \in RowSet
    BY <1>5, <1>6, <2>2
  <2>5. RecordStep([r EXCEPT !.proof = "confirmed"], {"finalized", "ticketed"}, "shipped") \in RowSet
    BY <1>5, <1>6, <2>2
  <2>6. RecordStep([r EXCEPT !.mail = "copied"], {"shipped"}, "client_notified") \in RowSet
    BY <1>5, <1>6, <2>1
  <2> QED BY <1>2, <1>3, <1>4, <1>9, <2>3, <2>4, <2>5, <2>6 DEF Result
<1> QED
  BY <1>8, <1>9

\* What waited for a body, or a page, waits for less once it is gone.
LEMMA UnmountedTyped == RecordTyped => Unmounted("page") \subseteq DeedSet
  BY DEF Unmounted, RecordTyped, DeedSet

\* A request for a record is one more under way.
LEMMA FetchTyped ==
  ASSUME RecordTyped, NEW i \in Records, NEW then \in {"load", "refresh", "leave"}
  PROVE  Fetch(i, then) \in GetSet
  BY DEF Fetch, RecordTyped, GetSet, DeedSet, PageSet, BodySet

\* Going to another record leaves the requests to the old one.
LEMMA GoingTyped ==
  ASSUME RecordTyped, BackToLibrary \/ (\E g \in gets : MergeLeaves(g)) PROVE RecordTyped'
<1>1. /\ Gone
      /\ gets' \subseteq {g \in gets : g.then = "leave"}
      /\ UNCHANGED <<outing, stored, spent>>
  BY DEF BackToLibrary, MergeLeaves
<1>2. AtMost(gets', MaxGets)
  BY <1>1, AtMostPart, RecordAssumption DEF RecordTyped, GetSet, DeedSet, PageSet, BodySet
<1>3. deeds' \subseteq DeedSet
  BY <1>1 DEF Gone, RecordTyped, GetSet, DeedSet, PageSet, BodySet
<1>4. \A d \in deeds' : d.waits = "nothing"
  BY <1>1 DEF Gone, RecordTyped, GetSet, DeedSet, PageSet, BodySet
<1>5. \A g \in gets' : g.then = "leave"
  BY <1>1
<1>6. NoPage \in PageSet /\ NoBody \in BodySet /\ NoPage.of \notin Records
  BY DEF NoPage, NoBody, PageSet, BodySet, Records
<1>7. BodySet' = BodySet /\ DeedSet' = DeedSet /\ PageSet' = PageSet /\ GetSet' = GetSet
  BY <1>1 DEF BodySet, DeedSet, PageSet, GetSet
<1> QED
  BY <1>1, <1>2, <1>3, <1>4, <1>5, <1>6, <1>7 DEF RecordTyped, Gone

\* A record that opens is asked for.
LEMMA OpeningTyped ==
  ASSUME RecordTyped, NEW i \in Records, Open(i) PROVE RecordTyped'
<1>1. AtMost(gets', MaxGets)
  BY AtMostWithRoom, RecordAssumption DEF Open, RecordTyped, GetSet, DeedSet, PageSet, BodySet
<1>2. gets' \subseteq GetSet
  BY FetchTyped DEF Open, RecordTyped, GetSet, DeedSet, PageSet, BodySet
<1>3. deeds' \subseteq DeedSet
  <2>1. deeds' = Unmounted("page")
    BY DEF Open
  <2> QED BY <2>1, UnmountedTyped
<1>4. here' # "list"
  BY DEF Open, Records
<1>5. spent' \in 0 .. MaxSteps
  BY RecordAssumption DEF Open, RecordTyped, GetSet, DeedSet, PageSet, BodySet
<1> QED
  BY <1>1, <1>2, <1>3, <1>4, <1>5 DEF RecordTyped, GetSet, DeedSet, PageSet, BodySet, Open, NoBody

\* The server answers with the row it has.
LEMMA LoadingTyped ==
  ASSUME RecordTyped, LoadRecordAgain PROVE RecordTyped'
<1>1. AtMost(gets', MaxGets)
  BY AtMostWithRoom, RecordAssumption DEF LoadRecordAgain, RecordTyped, GetSet, DeedSet, PageSet, BodySet
<1>2. gets' \subseteq GetSet
  BY FetchTyped DEF LoadRecordAgain, RecordTyped, GetSet, DeedSet, PageSet, BodySet
<1> QED
  BY <1>1, <1>2 DEF RecordTyped, GetSet, DeedSet, PageSet, BodySet, LoadRecordAgain

\* An answer fills the drawer, or finds it gone on.
LEMMA FetchedTyped ==
  ASSUME RecordTyped, NEW g \in gets, FetchArrives(g) \/ FetchFails(g) PROVE RecordTyped'
<1>1. gets' = gets \ {g}
  BY DEF FetchArrives, FetchFails
<1>2. AtMost(gets', MaxGets)
  BY <1>1, AtMostPart, RecordAssumption DEF RecordTyped, GetSet, DeedSet, PageSet, BodySet
<1>3. g.id \in Records /\ g.row \in RowSet
  BY DEF RecordTyped, GetSet, DeedSet, PageSet, BodySet
<1>4. CASE FetchArrives(g)
  <2>1. /\ page' \in PageSet
        /\ page'.row \in RowSet
    BY <1>3, <1>4 DEF FetchArrives, RecordTyped, GetSet, DeedSet, PageSet, BodySet
  <2>2. body' \in BodySet
    BY <1>3, <1>4 DEF FetchArrives, RecordTyped, GetSet, DeedSet, PageSet, BodySet
  <2> QED
    BY <1>1, <1>2, <1>4, <2>1, <2>2 DEF FetchArrives, RecordTyped, GetSet, DeedSet, PageSet, BodySet
<1>5. CASE FetchFails(g)
  <2>1. here # "list"
    BY <1>5 DEF FetchFails, RecordTyped, GetSet, DeedSet, PageSet, BodySet
  <2>2. deeds' \subseteq DeedSet
    BY <1>5, UnmountedTyped DEF FetchFails, RecordTyped, GetSet, DeedSet, PageSet, BodySet
  <2>3. page' \in PageSet
    BY <1>5 DEF FetchFails, RecordTyped, GetSet, DeedSet, PageSet, BodySet
  <2>4. page'.of = page.of /\ page'.row = page.row
    BY <1>5 DEF FetchFails, RecordTyped, GetSet, DeedSet, PageSet, BodySet
  <2> QED
    BY <1>1, <1>2, <1>5, <2>1, <2>2, <2>3, <2>4 DEF FetchFails, RecordTyped, GetSet, DeedSet, PageSet, BodySet, NoBody
<1> QED
  BY <1>4, <1>5

\* Edits and questions are the record's.
LEMMA EditingTyped ==
  ASSUME RecordTyped, (\E dirty \in BOOLEAN : TypeText(dirty)) \/ (\E kind \in outing.deeds : Modal(kind))
  PROVE  RecordTyped'
<1>1. Up /\ UNCHANGED <<outing, stored, here, spent, page, gets, deeds>>
  BY DEF TypeText, Modal
<1>2. body' \in BodySet
  BY DEF TypeText, Modal, RecordTyped, GetSet, DeedSet, PageSet, BodySet
<1> QED
  BY <1>1, <1>2 DEF RecordTyped, GetSet, DeedSet, PageSet, BodySet, Up

\* A deed is on its way to the record it was asked of.
LEMMA DoingTyped ==
  ASSUME RecordTyped, NEW kind \in outing.deeds, Do(kind) PROVE RecordTyped'
<1>1. here \in Records /\ page.of \in Records
  BY DEF Do, Up, RecordTyped, GetSet, DeedSet, PageSet, BodySet
<1>2. Target(kind) \in Records
  BY <1>1 DEF Target
<1>3. deeds' \subseteq DeedSet
  BY <1>1, <1>2 DEF Do, RecordTyped, GetSet, DeedSet, PageSet, BodySet
<1>4. spent' \in 0 .. MaxSteps
  BY RecordAssumption DEF Do, RecordTyped, GetSet, DeedSet, PageSet, BodySet
<1>5. here # "list"
  BY DEF Do, Up
<1> QED
  BY <1>3, <1>4, <1>5 DEF RecordTyped, GetSet, DeedSet, PageSet, BodySet, Do

\* The server does a deed to the row, or refuses.
LEMMA ServingTyped ==
  ASSUME RecordTyped, NEW d \in deeds, Serves(d) PROVE RecordTyped'
<1>1. d.to \in Records
  BY DEF RecordTyped, GetSet, DeedSet, PageSet, BodySet
<1>2. stored[d.to] \in RowSet
  BY <1>1 DEF RecordTyped, GetSet, DeedSet, PageSet, BodySet
<1>3. Allowed(d.kind, stored[d.to]) => Result(d.kind, stored[d.to]) \in RowSet
  BY <1>2, ResultIsRow
<1>4. stored' \in [Records -> RowSet]
  BY <1>1, <1>3 DEF Serves, RecordTyped, GetSet, DeedSet, PageSet, BodySet
<1>5. deeds' \subseteq DeedSet
  BY DEF Serves, RecordTyped, GetSet, DeedSet, PageSet, BodySet
<1>6. here = "list" => \A e \in deeds' : e.waits = "nothing"
  BY DEF Serves, RecordTyped, GetSet, DeedSet, PageSet, BodySet
<1> QED
  BY <1>4, <1>5, <1>6 DEF RecordTyped, GetSet, DeedSet, PageSet, BodySet, Serves

\* A deed that succeeded refreshes what is shown.
LEMMA SucceedingTyped ==
  ASSUME RecordTyped, NEW d \in deeds, Succeeds(d) PROVE RecordTyped'
<1>1. d.from \in Records
  BY DEF RecordTyped, GetSet, DeedSet, PageSet, BodySet
<1>2. \A then \in {"refresh", "leave"} :
        Fetch(d.from, then) \in GetSet
  BY <1>1, FetchTyped
<1>3. \A then \in {"refresh", "leave"} : AtMost(gets \cup {Fetch(d.from, then)}, MaxGets)
  BY AtMostWithRoom, RecordAssumption DEF Succeeds, RecordTyped, GetSet, DeedSet, PageSet, BodySet
<1>4. AtMost(gets', MaxGets)
  BY <1>3 DEF Succeeds, RecordTyped, GetSet, DeedSet, PageSet, BodySet
<1>5. gets' \subseteq GetSet
  BY <1>2 DEF Succeeds, RecordTyped, GetSet, DeedSet, PageSet, BodySet
<1>6. body' \in BodySet
  BY DEF Succeeds, RecordTyped, GetSet, DeedSet, PageSet, BodySet
<1>7. ASSUME here = "list" PROVE body' = NoBody /\ \A g \in gets' : g.then = "leave"
  <2>1. d.waits = "nothing"
    BY <1>7 DEF RecordTyped, GetSet, DeedSet, PageSet, BodySet
  <2>2. Fetch(d.from, "leave").then = "leave"
    BY DEF Fetch
  <2> QED BY <1>7, <2>1, <2>2 DEF Succeeds, RecordTyped, GetSet, DeedSet, PageSet, BodySet
<1>8. UNCHANGED <<outing, stored, here, spent, page>> /\ deeds' \subseteq deeds
  BY DEF Succeeds
<1> QED
  BY <1>4, <1>5, <1>6, <1>7, <1>8 DEF RecordTyped, GetSet, DeedSet, PageSet, BodySet

\* Every step keeps the types of the insight drawer.
LEMMA RecordTypedStep == RecordTyped /\ [RecordNext]_recordVars => RecordTyped'
<1> SUFFICES ASSUME RecordTyped, [RecordNext]_recordVars PROVE RecordTyped'
  OBVIOUS
<1>1. CASE UNCHANGED recordVars
  BY <1>1 DEF recordVars, RecordTyped, GetSet, DeedSet, PageSet, BodySet
<1>2. ASSUME NEW d \in deeds, Fails(d) PROVE RecordTyped'
  BY <1>2 DEF Fails, RecordTyped, GetSet, DeedSet, PageSet, BodySet
<1> QED
  BY <1>1, <1>2, GoingTyped, OpeningTyped, LoadingTyped, FetchedTyped, EditingTyped, DoingTyped,
     ServingTyped, SucceedingTyped DEF RecordNext

\* They are the type invariant.
LEMMA RecordTypedIsTypeOK == RecordTyped => RecordTypeOK
BY DEF RecordTyped, GetSet, DeedSet, PageSet, BodySet, RecordTypeOK, AtMost

\* The record page's state keeps its types, whatever is opened, fetched and done.
THEOREM RecordTypeCorrect == RecordSpec => []RecordTypeOK
BY RecordTypedIsTypeOK, RecordTypedAtFirst, RecordTypedStep, PTL DEF RecordSpec

----------------------------------------------------------------------------
(********************************************************************************)
(* The types of the capture page.  What a form, a screen or a request names was *)
(* filed or offered before.                                                     *)
(********************************************************************************)

FiledPlaces == 0 .. Len(filed)
FormSet == [client : errand.clients \cup {"none"}, consent : BOOLEAN, way : errand.ways \cup {"paste"},
            has : SUBSET errand.ways]
SendingSet == [client : errand.clients \cup {"none"}, way : errand.ways \cup {"none"},
               at : {"none", "sent", "new", "known"}]
ScreenSet == [meeting : FiledPlaces, summary : FiledPlaces, wait : FiledPlaces, audio : BOOLEAN]

\* What the capture page shows, sends and waits for is of meetings that are filed, and a
\* meeting answered for is known to the server.
CaptureTyped ==
  /\ errand \in Errands
  /\ filed \in Seq([client : errand.clients \cup {"none"}, way : errand.ways])
  /\ Len(filed) <= errand.maxFiled
  /\ form \in FormSet
  /\ adding \subseteq errand.clients
  /\ sending \in SendingSet
  /\ sending.at # "none" => sending.way \in errand.ways
  /\ sending.at \in {"new", "known"} => KnownAs(sending.way) # {}
  /\ screen \in ScreenSet
  /\ jobs \subseteq [kind : {"extract", "brief", "transcribe"}, of : DOMAIN filed]

\* Nothing is filed when the page opens.
LEMMA CaptureTypedAtFirst == CaptureInit => CaptureTyped
<1> SUFFICES ASSUME CaptureInit PROVE CaptureTyped
  OBVIOUS
<1>1. filed = <<>> /\ Len(filed) = 0 /\ errand \in Errands /\ errand.maxFiled \in Nat
  BY CaptureAssumption DEF CaptureInit
<1>2. EmptyForm \in FormSet
  BY DEF EmptyForm, FormSet
<1>3. /\ NotSending \in SendingSet
      /\ NotSending.at = "none"
  BY DEF NotSending, SendingSet
<1>4. NoScreen \in ScreenSet
  BY <1>1 DEF NoScreen, FiledPlaces, ScreenSet
<1> QED
  BY <1>1, <1>2, <1>3, <1>4 DEF CaptureInit, CaptureTyped, FormSet, SendingSet, ScreenSet

\* The form, and the clients that are being created.
LEMMA FormTyped ==
  ASSUME CaptureTyped, UNCHANGED errand,
         \/ \E c \in errand.clients : PickClient(c) \/ CreateClient(c) \/ ClientCreated(c) \/ ClientRefused(c)
         \/ \E hint \in errand.hints : PickEvent(hint)
         \/ \E way \in errand.ways, text \in BOOLEAN : Converse(way, text)
         \/ Consent
  PROVE  CaptureTyped'
<1>1. UNCHANGED <<errand, filed, sending, screen, jobs>>
  BY DEF PickClient, CreateClient, ClientCreated, ClientRefused, PickEvent, Converse, Consent, OnForm
<1>2. errand.hints \subseteq errand.clients
  BY CaptureAssumption DEF CaptureTyped, FormSet, SendingSet, ScreenSet
<1>3. form' \in FormSet
  <2>1. form \in FormSet /\ (\A c \in errand.clients : [form EXCEPT !.client = c] \in FormSet)
    BY DEF CaptureTyped, FormSet
  <2>2. \A way \in errand.ways, text \in BOOLEAN :
          [form EXCEPT !.way = way, !.has = IF text THEN @ \cup {way} ELSE @] \in FormSet
    BY DEF CaptureTyped, FormSet
  <2>3. [form EXCEPT !.consent = ~@] \in FormSet
    BY DEF CaptureTyped, FormSet
  <2>4. \/ form' = form \/ form' = [form EXCEPT !.consent = ~@]
        \/ \E c \in errand.clients : form' = [form EXCEPT !.client = c]
        \/ \E way \in errand.ways, text \in BOOLEAN :
             form' = [form EXCEPT !.way = way, !.has = IF text THEN @ \cup {way} ELSE @]
    BY <1>2 DEF PickClient, CreateClient, ClientCreated, ClientRefused, PickEvent, Converse, Consent
  <2> QED BY <2>1, <2>2, <2>3, <2>4
<1>4. adding' \subseteq errand.clients
  BY DEF PickClient, CreateClient, ClientCreated, ClientRefused, PickEvent, Converse, Consent, CaptureTyped, FormSet, SendingSet, ScreenSet
<1> QED
  BY <1>1, <1>3, <1>4 DEF CaptureTyped, FormSet, SendingSet, ScreenSet, FiledPlaces, KnownAs

\* A form that is sent has what the page offers.
LEMMA SubmitTyped == ASSUME CaptureTyped, UNCHANGED errand, Submit PROVE CaptureTyped'
<1>1. sending' = [client |-> form.client, way |-> form.way, at |-> "sent"]
      /\ UNCHANGED <<errand, filed, form, adding, screen, jobs>>
  BY DEF Submit
<1>2. form.client \in errand.clients \cup {"none"} /\ form.way \in errand.ways
  BY DEF Submit, CaptureTyped, FormSet, SendingSet, ScreenSet
<1> QED
  BY <1>1, <1>2 DEF CaptureTyped, FormSet, SendingSet, ScreenSet, FiledPlaces, KnownAs

\* A meeting that is filed is one more.
LEMMA FileTyped == ASSUME CaptureTyped, UNCHANGED errand, FileMeeting PROVE CaptureTyped'
<1>1. /\ UNCHANGED <<errand, form, adding, screen, jobs>>
      /\ sending.at = "sent" /\ sending.way \in errand.ways
  BY DEF FileMeeting, CaptureTyped, FormSet, SendingSet, ScreenSet
<1>2. CASE KnownAs(sending.way) # {}
  <2>1. sending' = [sending EXCEPT !.at = "known"] /\ filed' = filed
    BY <1>2 DEF FileMeeting
  <2> QED
    BY <1>1, <1>2, <2>1 DEF CaptureTyped, FormSet, SendingSet, ScreenSet, FiledPlaces, KnownAs
<1>3. CASE KnownAs(sending.way) = {}
  <2> DEFINE m == [client |-> sending.client, way |-> sending.way]
  <2>1. /\ sending' = [sending EXCEPT !.at = "new"] /\ filed' = Append(filed, m)
        /\ Len(filed) < errand.maxFiled
    BY <1>3 DEF FileMeeting
  <2>2. m \in [client : errand.clients \cup {"none"}, way : errand.ways]
    BY <1>1 DEF CaptureTyped, FormSet, SendingSet, ScreenSet
  <2>3. filed \in Seq([client : errand.clients \cup {"none"}, way : errand.ways])
    BY DEF CaptureTyped, FormSet, SendingSet, ScreenSet
  <2> HIDE DEF m
  <2>4. /\ filed' \in Seq([client : errand.clients \cup {"none"}, way : errand.ways])
        /\ Len(filed') = Len(filed) + 1 /\ filed'[Len(filed) + 1] = m
        /\ DOMAIN filed' = 1 .. Len(filed) + 1 /\ DOMAIN filed = 1 .. Len(filed) /\ Len(filed) \in Nat
    BY <2>1, <2>2, <2>3
  <2>5. m.way = sending.way
    BY DEF m
  <2>6. sending'.way = sending.way /\ sending'.at = "new"
    BY <2>1 DEF CaptureTyped, FormSet, SendingSet, ScreenSet
  <2>7. Len(filed) + 1 \in KnownAs(sending.way)'
    BY <2>4, <2>5, <2>6 DEF KnownAs
  <2>8. errand.maxFiled \in Nat
    BY CaptureAssumption DEF CaptureTyped, FormSet, SendingSet, ScreenSet
  <2>9. FiledPlaces \subseteq FiledPlaces' /\ DOMAIN filed \subseteq DOMAIN filed'
    BY <2>4 DEF FiledPlaces
  <2>10. Len(filed') <= errand.maxFiled
    BY <2>1, <2>4, <2>8
  <2>11. sending' \in SendingSet
    BY <2>1 DEF CaptureTyped, FormSet, SendingSet, ScreenSet
  <2>12. screen' \in ScreenSet'
    BY <1>1, <2>9 DEF CaptureTyped, FormSet, SendingSet, ScreenSet
  <2>13. jobs' \subseteq [kind : {"extract", "brief", "transcribe"}, of : DOMAIN filed']
    BY <1>1, <2>9 DEF CaptureTyped, FormSet, SendingSet, ScreenSet
  <2> QED
    BY <1>1, <2>4, <2>6, <2>7, <2>10, <2>11, <2>12, <2>13 DEF CaptureTyped, FormSet, SendingSet, ScreenSet
<1> QED
  BY <1>2, <1>3

\* An answer shows what was filed, or nothing new.
LEMMA FiledAnswerTyped == ASSUME CaptureTyped, UNCHANGED errand, Filed \/ NotFiled PROVE CaptureTyped'
<1>1. UNCHANGED <<errand, filed, form, adding, jobs>> /\ sending' = NotSending
  BY DEF Filed, NotFiled
<1>2. screen' \in ScreenSet
  <2>1. CASE Filed
    <3> DEFINE n == CHOOSE k \in KnownAs(sending.way) : TRUE
    <3>1. n \in KnownAs(sending.way)
      BY <2>1 DEF Filed, CaptureTyped, FormSet, SendingSet, ScreenSet
    <3>2. n \in FiledPlaces
      BY <3>1 DEF KnownAs, FiledPlaces, CaptureTyped, FormSet, SendingSet, ScreenSet
    <3>3. screen' = [screen EXCEPT !.meeting = n, !.audio = sending.way = "audio_file" /\ sending.at = "new"]
      BY <2>1 DEF Filed
    <3> HIDE DEF n
    <3> QED BY <3>2, <3>3 DEF CaptureTyped, FormSet, SendingSet, ScreenSet
  <2>2. CASE NotFiled
    BY <2>2 DEF NotFiled, CaptureTyped, FormSet, SendingSet, ScreenSet
  <2> QED BY <2>1, <2>2
<1> QED
  BY <1>1, <1>2 DEF CaptureTyped, FormSet, SendingSet, ScreenSet, FiledPlaces, NotSending

\* What is pressed on a meeting's screen, and what comes of it.
LEMMA JobsTyped ==
  ASSUME CaptureTyped, UNCHANGED errand,
         \/ PressExtract \/ PressTranscribe
         \/ \E j \in jobs : BriefPending(j) \/ Extracted(j) \/ ExtractWaits(j) \/ Transcribed(j) \/ JobFails(j)
         \/ StartAnother
  PROVE  CaptureTyped'
<1>1. UNCHANGED <<errand, filed, adding, sending>>
  BY DEF PressExtract, PressTranscribe, BriefPending, Extracted, ExtractWaits, Transcribed, JobFails,
         StartAnother, OnScreen, NothingElse
<1>2. form' \in FormSet
  <2>1. form' = form \/ form' = EmptyForm
    BY DEF PressExtract, PressTranscribe, BriefPending, Extracted, ExtractWaits, Transcribed, JobFails,
           StartAnother, OnScreen, NothingElse
  <2>2. form \in FormSet /\ EmptyForm \in FormSet
    BY DEF CaptureTyped, FormSet, EmptyForm
  <2> QED BY <2>1, <2>2
<1>3. 0 \in FiledPlaces /\ DOMAIN filed \subseteq FiledPlaces /\ (screen.meeting # 0 => screen.meeting \in DOMAIN filed)
  BY DEF FiledPlaces, CaptureTyped, FormSet, SendingSet, ScreenSet
<1>4. screen' \in ScreenSet
  <2>1. \/ screen' \in {screen, NoScreen, [screen EXCEPT !.wait = 0], [screen EXCEPT !.audio = FALSE]}
        \/ \E j \in jobs : screen' \in {[screen EXCEPT !.summary = j.of], [screen EXCEPT !.wait = j.of]}
    BY DEF PressExtract, PressTranscribe, BriefPending, Extracted, ExtractWaits, Transcribed, JobFails,
           StartAnother, OnScreen, NothingElse
  <2>2. screen \in ScreenSet /\ \A j \in jobs : j.of \in FiledPlaces
    BY <1>3 DEF CaptureTyped
  <2>3. NoScreen \in ScreenSet
    BY <1>3 DEF NoScreen, ScreenSet
  <2> QED BY <1>3, <2>1, <2>2, <2>3 DEF ScreenSet
<1>5. jobs' \subseteq [kind : {"extract", "brief", "transcribe"}, of : DOMAIN filed]
  BY <1>3 DEF PressExtract, PressTranscribe, BriefPending, Extracted, ExtractWaits, Transcribed, JobFails,
         StartAnother, OnScreen, NothingElse, CaptureTyped, Ends
<1> QED
  BY <1>1, <1>2, <1>4, <1>5 DEF CaptureTyped, FormSet, SendingSet, ScreenSet, FiledPlaces, KnownAs

\* Every step keeps the types of the capture page.
LEMMA CaptureTypedStep == CaptureTyped /\ [CaptureNext]_captureVars => CaptureTyped'
<1> SUFFICES ASSUME CaptureTyped, [CaptureNext]_captureVars PROVE CaptureTyped'
  OBVIOUS
<1>1. CASE UNCHANGED captureVars
  BY <1>1 DEF captureVars, CaptureTyped, FormSet, SendingSet, ScreenSet, FiledPlaces, KnownAs
<1>2. CASE CaptureNext
  BY <1>2, FormTyped, SubmitTyped, FileTyped, FiledAnswerTyped, JobsTyped DEF CaptureNext, CaptureStep
<1> QED
  BY <1>1, <1>2

\* They are the type invariant, and bound what is filed.
LEMMA CaptureTypedIsTypeOK == CaptureTyped => CaptureTypeOK
  BY DEF CaptureTyped, FormSet, SendingSet, ScreenSet, CaptureTypeOK, FiledPlaces

\* The capture page's state keeps its types, whatever is typed, sent and answered.
THEOREM CaptureTypeCorrect == CaptureSpec => []CaptureTypeOK
  BY CaptureTypedIsTypeOK, CaptureTypedAtFirst, CaptureTypedStep, PTL DEF CaptureSpec

----------------------------------------------------------------------------
(* The types of search and ask. *)

\* Searches and loads are numbered by what the user did, and no search is for nothing.
SearchTyped ==
  /\ SearchInv
  /\ surface \in Surfaces /\ turns \in 0 .. MaxTurns
  /\ latest <= turns /\ lastLoad \in 1 .. turns + 1
  /\ timer.live => timer.text # ""
  /\ \A h \in hunts : h.text # ""

\* Nothing is asked when the surfaces open.
LEMMA SearchTypedAtFirst == SearchInit => SearchTyped
<1> SUFFICES ASSUME SearchInit PROVE SearchTyped
  OBVIOUS
<1>1. surface \in Surfaces /\ turns = 0 /\ latest = 0 /\ lastLoad = 1 /\ timer = NoSearch /\ hunts = {}
  BY DEF SearchInit
<1>2. turns \in 0 .. MaxTurns /\ latest <= turns /\ lastLoad \in 1 .. turns + 1
  <2>1. MaxTurns \in Nat
    BY SearchPagesAssumption
  <2> QED BY <1>1, <2>1
<1>3. ~timer.live
  BY <1>1, NoSearchFits
<1> QED
  BY <1>1, <1>2, <1>3, SearchStart DEF SearchTyped

\* A turn that is asked is one more, below the bound.
LEMMA OneMoreTurn ==
  ASSUME NEW most \in Nat, NEW now \in 0 .. most, now < most, NEW found \in Nat, found <= now,
         NEW loaded \in 1 .. now + 1
  PROVE  /\ now + 1 \in 0 .. most
         /\ \A n \in {found, found + 1} : n <= now + 1
         /\ \A n \in {loaded, loaded + 1} : n \in 1 .. (now + 1) + 1
  OBVIOUS

\* What the user does counts, and asks for at most one more search and one more load.
LEMMA TurnTyped ==
  ASSUME SearchTyped, SearchInv', UNCHANGED surface, turns < MaxTurns, turns' = turns + 1,
         latest' \in {latest, latest + 1}, lastLoad' \in {lastLoad, lastLoad + 1},
         timer' = timer \/ ~timer'.live \/ timer'.text # "",
         \A h \in hunts' : \E g \in hunts : h.text = g.text
  PROVE  SearchTyped'
<1>1. latest \in Nat /\ lastLoad \in Nat /\ MaxTurns \in Nat
  BY SearchPagesAssumption DEF SearchTyped, SearchInv, SearchShape
<1>2. turns \in 0 .. MaxTurns /\ latest <= turns /\ lastLoad \in 1 .. turns + 1
  BY DEF SearchTyped
<1>3. turns' \in 0 .. MaxTurns /\ latest' <= turns' /\ lastLoad' \in 1 .. turns' + 1
  BY <1>1, <1>2, OneMoreTurn
<1>4. timer'.live => timer'.text # ""
  BY DEF SearchTyped
<1>5. \A h \in hunts' : h.text # ""
  BY DEF SearchTyped
<1> QED
  BY <1>3, <1>4, <1>5 DEF SearchTyped

\* The library and its saved answers keep their types.
LEMMA LibraryTyped ==
  ASSUME SearchTyped, SearchInv',
         \/ \E q \in Terms, f \in Filters, t \in Types : ChooseFilters(q, f, t)
         \/ ClearFilters \/ LoadTableAgain
  PROVE  SearchTyped'
<1>1. ASSUME NEW q, NEW f, NEW t, Turn("library"), Tabulate(f, t), Hunt(q, f) PROVE SearchTyped'
  <2>1. UNCHANGED surface /\ turns < MaxTurns /\ turns' = turns + 1
    BY <1>1 DEF Turn
  <2>2. latest' \in {latest, latest + 1} /\ hunts' = hunts
    BY <1>1 DEF Hunt
  <2>3. lastLoad' \in {lastLoad, lastLoad + 1}
    BY <1>1 DEF Tabulate, tableVars
  <2>4. timer' = timer \/ ~timer'.live \/ timer'.text # ""
    <3>1. \/ timer' = timer \/ timer' = NoSearch
          \/ q # "" /\ timer' = [n |-> latest + 1, text |-> q, sieve |-> f, live |-> TRUE]
      BY <1>1 DEF Hunt
    <3>2. [n |-> latest + 1, text |-> q, sieve |-> f, live |-> TRUE].text = q /\ ~NoSearch.live
      BY NoSearchFits
    <3> QED BY <3>1, <3>2
  <2> QED BY <2>1, <2>2, <2>3, <2>4, TurnTyped
<1>2. CASE LoadTableAgain
  BY <1>2, TurnTyped DEF LoadTableAgain, Turn, huntVars
<1> QED
  BY <1>1, <1>2 DEF ChooseFilters, ClearFilters

\* The palette's searches keep theirs.
LEMMA PaletteTyped ==
  ASSUME SearchTyped, SearchInv', Toggle \/ ClosePalette \/ (\E q \in Terms : TypeInto(q))
  PROVE  SearchTyped'
<1>1. ASSUME NEW q, NEW up, Turn("palette"), LookUpLater(q, up) PROVE SearchTyped'
  <2>1. UNCHANGED surface /\ turns < MaxTurns /\ turns' = turns + 1
    BY <1>1 DEF Turn
  <2>2. UNCHANGED <<latest, lastLoad>>
    BY <1>1 DEF LookUpLater, tableVars
  <2>3. \A h \in hunts' : \E g \in hunts : h.text = g.text
    <3>1. hunts \subseteq HuntRecord
      BY DEF SearchTyped, SearchInv, SearchShape
    <3>2. hunts' = {[h EXCEPT !.live = FALSE] : h \in hunts}
      BY <1>1 DEF LookUpLater
    <3> QED BY <3>1, <3>2 DEF HuntRecord
  <2>4. ~timer'.live \/ timer'.text # ""
    <3>1. NoSearch.live = FALSE /\ (q \notin ShortTerms => [NoSearch EXCEPT !.text = q, !.live = TRUE].text # "")
      BY SearchPagesAssumption DEF NoSearch
    <3> QED BY <1>1, <3>1 DEF LookUpLater
  <2> QED BY <2>1, <2>2, <2>3, <2>4, TurnTyped
<1> QED
  BY <1>1 DEF Toggle, ClosePalette, TypeInto

\* Answers, and typing that has stopped, only move what is there.
LEMMA AnswerTyped ==
  ASSUME SearchTyped, SearchInv',
         \/ \E l \in tableLoads, ok \in BOOLEAN : TableArrives(l, ok)
         \/ TypingStopped
         \/ \E h \in hunts : SearchArrives(h)
  PROVE  SearchTyped'
<1>1. UNCHANGED <<surface, turns, latest, lastLoad>>
  BY DEF TableArrives, TypingStopped, SearchArrives, tableVars, huntVars
<1>2. timer' = timer \/ ~timer'.live
  <2>1. timer' = timer \/ timer' = NoSearch
    BY DEF TableArrives, TypingStopped, SearchArrives, huntVars
  <2> QED BY <2>1, NoSearchFits
<1>3. \A h \in hunts' : h \in hunts \/ (timer.live /\ h = timer)
  BY DEF TableArrives, TypingStopped, SearchArrives, huntVars
<1> QED
  BY <1>1, <1>2, <1>3 DEF SearchTyped

\* Every step keeps the types of search and ask.
LEMMA SearchTypedStep == SearchTyped /\ [SearchNext]_searchVars => SearchTyped'
<1> SUFFICES ASSUME SearchTyped, [SearchNext]_searchVars PROVE SearchTyped'
  OBVIOUS
<1>1. SearchInv'
  BY SearchStep DEF SearchTyped
<1>2. CASE UNCHANGED searchVars
  BY <1>1, <1>2 DEF searchVars, SearchTyped
<1> QED
  BY <1>1, <1>2, LibraryTyped, PaletteTyped, AnswerTyped DEF SearchNext

\* They are the type invariant.
LEMMA SearchTypedIsTypeOK == SearchTyped => SearchTypeOK
<1> SUFFICES ASSUME SearchTyped PROVE SearchTypeOK
  OBVIOUS
<1>1. SearchShape /\ MaxTurns \in Nat
  BY SearchPagesAssumption DEF SearchTyped, SearchInv
<1>2. latest \in 0 .. MaxTurns /\ lastLoad \in 1 .. MaxTurns + 1
  <2>1. turns \in 0 .. MaxTurns /\ latest <= turns /\ lastLoad \in 1 .. turns + 1
    BY DEF SearchTyped
  <2>2. latest \in Nat /\ lastLoad \in Nat
    BY <1>1 DEF SearchShape
  <2> QED BY <1>1, <2>1, <2>2
<1>3. \A h \in hunts : h.text \in Terms \ {""}
  BY <1>1 DEF SearchTyped, SearchShape, HuntRecord
<1> QED
  BY <1>1, <1>2, <1>3 DEF SearchTyped, SearchTypeOK, SearchShape

\* The library's and the palette's state keep their types.
THEOREM SearchTypeCorrect == SearchSpec => []SearchTypeOK
  BY SearchTypedIsTypeOK, SearchTypedAtFirst, SearchTypedStep, PTL DEF SearchSpec

----------------------------------------------------------------------------
(*********************************************************************************)
(* The types of the proof page.  A proof is made once for each click at most, so *)
(* the clicks not yet answered are counted with what has been asked.             *)
(*********************************************************************************)

\* The decisions asked for and not yet made.
Pending == {a \in clicks : a.at \in {"sent", "read"}}

\* Each row of evidence stands for a decision that was asked for, is made, and was
\* counted; so do the clicks on their way.
ChangelogRecord == [notes : {"", "typed", "file"}, reading : BOOLEAN, saving : BOOLEAN]

\* So many were asked for, and this many of them may still be pending.
CountedFor(m) == proofs[m] <= tally.asks /\ AtMost(Pending, tally.asks - proofs[m])

ProofTyped ==
  /\ DecidedInv
  /\ tally.asks <= plot.asks
  /\ AtMost(clicks, tally.asks)
  /\ \A m \in Matches : CountedFor(m)
  /\ busy \in Matches \cup {"none"}
  /\ changelog \in ChangelogRecord
  /\ {told, returned, crossed} \subseteq SUBSET Matches

\* No proof is asked for when the page opens.
LEMMA ProofTypedAtFirst == ProofInit => ProofTyped
<1> SUFFICES ASSUME ProofInit PROVE ProofTyped
  OBVIOUS
<1>1. clicks = {} /\ Pending = {} /\ tally.asks = 0 /\ plot.asks \in Nat /\ \A m \in Matches : proofs[m] = 0
  BY ProofPageAssumption DEF ProofInit, Pending
<1>2. AtMost({}, 0)
  BY AtMostNone
<1>3. NoForm \in ChangelogRecord
  BY DEF NoForm, ChangelogRecord
<1>4. busy = "none" /\ changelog = NoForm /\ told = {} /\ returned = {} /\ crossed = {}
  BY DEF ProofInit
<1>5. \A m \in Matches : CountedFor(m)
  BY <1>1, <1>2 DEF CountedFor
<1>6. tally.asks <= plot.asks /\ AtMost(clicks, tally.asks)
  BY <1>1, <1>2
<1> QED
  BY <1>3, <1>4, <1>5, <1>6, DecidedStart DEF ProofTyped

\* What is counted is a number.
LEMMA CountsAreNumbers ==
  ASSUME ProofTyped
  PROVE  /\ tally.asks \in Nat /\ plot.asks \in Nat /\ tally.asks <= plot.asks
         /\ \A m \in Matches : proofs[m] \in Nat /\ tally.asks - proofs[m] \in Nat /\ proofs[m] <= tally.asks
<1>1. tally.asks \in Nat /\ plot.asks \in Nat /\ tally.asks <= plot.asks
  BY ProofPageAssumption DEF ProofTyped, DecidedInv, ProofShape
<1>2. ASSUME NEW m \in Matches PROVE proofs[m] \in Nat /\ proofs[m] <= tally.asks
  BY DEF ProofTyped, DecidedInv, ProofShape, CountedFor
<1> QED
  BY <1>1, <1>2

\* A step that asks for nothing and makes no decision: at most as many clicks, and at
\* most as many pending, as before.
LEMMA NothingAskedTyped ==
  ASSUME ProofTyped, DecidedInv', UNCHANGED <<plot, proofs>>, tally'.asks = tally.asks,
         \A n \in Nat : AtMost(clicks, n) => AtMost(clicks', n),
         \A n \in Nat : AtMost(Pending, n) => AtMost(Pending', n),
         busy' \in Matches \cup {"none"},
         changelog' \in ChangelogRecord,
         {told', returned', crossed'} \subseteq SUBSET Matches
  PROVE  ProofTyped'
<1>1. AtMost(clicks', tally'.asks)
  BY CountsAreNumbers DEF ProofTyped
<1>2. ASSUME NEW m \in Matches PROVE CountedFor(m)'
  BY CountsAreNumbers DEF ProofTyped, CountedFor
<1> QED
  BY <1>1, <1>2 DEF ProofTyped

\* A click more.
LEMMA AskedTyped ==
  ASSUME ProofTyped, DecidedInv', UNCHANGED <<plot, proofs, told, returned, crossed>>,
         NEW kind, NEW m, NEW where, SendOff(kind, m, where),
         busy' \in Matches \cup {"none"},
         changelog' \in ChangelogRecord
  PROVE  ProofTyped'
<1> DEFINE c == [n |-> tally.asks, kind |-> kind, of |-> m, where |-> where, at |-> "sent",
                 past |-> FALSE, mounted |-> TRUE, listed |-> tab.releases # "unread"]
<1>1. tally.asks \in Nat /\ plot.asks \in Nat
  BY CountsAreNumbers
<1>2. tally.asks < plot.asks /\ tally'.asks = tally.asks + 1 /\ clicks' = clicks \cup {c}
  BY DEF SendOff, ProofTyped, DecidedInv, ProofShape
<1>3. c.at = "sent"
  OBVIOUS
<1> HIDE DEF c
<1>4. Pending' = Pending \cup {c}
  BY <1>2, <1>3 DEF Pending
<1>5. ASSUME NEW S, NEW n \in Nat, AtMost(S, n) PROVE AtMost(S \cup {c}, n + 1)
  <2>1. IsFiniteSet(S) /\ Cardinality(S) <= n
    BY <1>5 DEF AtMost
  <2>2. Cardinality(S) \in Nat
    BY <2>1, FS_CardinalityType
  <2>3. n + 1 \in Nat /\ AtMost(S, n + 1) /\ Cardinality(S) < n + 1
    BY <2>1, <2>2 DEF AtMost
  <2> QED BY <2>3, AtMostWithRoom
<1>6. AtMost(clicks', tally'.asks)
  <2>1. AtMost(clicks, tally.asks)
    BY DEF ProofTyped
  <2> QED BY <1>1, <1>2, <1>5, <2>1
<1>7. ASSUME NEW k \in Matches PROVE CountedFor(k)'
  <2>1. proofs[k] \in Nat /\ tally.asks - proofs[k] \in Nat /\ proofs[k] <= tally.asks
    BY CountsAreNumbers
  <2>2. AtMost(Pending, tally.asks - proofs[k])
    BY DEF ProofTyped, CountedFor
  <2>3. AtMost(Pending \cup {c}, (tally.asks - proofs[k]) + 1)
    BY <1>5, <2>1, <2>2
  <2>4. (tally.asks - proofs[k]) + 1 = tally'.asks - proofs'[k] /\ proofs'[k] <= tally'.asks
    BY <1>1, <1>2, <2>1
  <2> QED BY <1>4, <2>3, <2>4 DEF CountedFor
<1>8. tally'.asks <= plot'.asks
  BY <1>1, <1>2
<1> QED
  BY <1>6, <1>7, <1>8 DEF ProofTyped

\* A confirmation that is made: the click is pending no more.
LEMMA ConfirmedTyped ==
  ASSUME ProofTyped, DecidedInv', plot' = plot, NEW a \in clicks, ConfirmMatch(a) PROVE ProofTyped'
<1>1. a.at = "read" /\ a.of \in Matches /\ a.kind = "confirm"
  BY DEF ConfirmMatch, ProofTyped, DecidedInv, NamesProposed
<1>2. PICK at \in {"no", "ok"} : clicks' = (clicks \ {a}) \cup {[a EXCEPT !.at = at]}
  BY DEF ConfirmMatch, Moves
<1>3. [a EXCEPT !.at = at].at = at
  BY DEF ProofTyped, DecidedInv, ProofShape, ClickRecord
<1>4. Pending' = Pending \ {a} /\ a \in Pending
  BY <1>1, <1>2, <1>3 DEF Pending
<1>5. tally.asks \in Nat /\ proofs \in [Matches -> Nat] /\ tally' = tally
  BY DEF ConfirmMatch, ProofTyped, DecidedInv, ProofShape
<1>6. AtMost(clicks', tally'.asks)
  BY <1>2, <1>5, AtMostInPlace DEF ProofTyped
<1>7. proofs' \in {proofs, [proofs EXCEPT ![a.of] = @ + 1]}
  BY DEF ConfirmMatch
<1>8. ASSUME NEW k \in Matches PROVE CountedFor(k)'
  <2>1. proofs[k] \in Nat /\ tally.asks - proofs[k] \in Nat /\ proofs[k] <= tally.asks
    BY CountsAreNumbers
  <2>2. IsFiniteSet(Pending) /\ Cardinality(Pending) <= tally.asks - proofs[k]
    BY DEF ProofTyped, CountedFor, AtMost
  <2>3. /\ Cardinality(Pending) \in Nat /\ Cardinality(Pending') \in Nat /\ IsFiniteSet(Pending')
        /\ Cardinality(Pending') = Cardinality(Pending) - 1
    BY <1>4, <2>2, FS_CardinalityType, FS_RemoveElement
  <2>4. proofs'[k] \in {proofs[k], proofs[k] + 1} /\ tally'.asks = tally.asks
    BY <1>5, <1>7
  <2>5. proofs'[k] <= tally'.asks /\ Cardinality(Pending') <= tally'.asks - proofs'[k]
    BY <1>5, <2>1, <2>2, <2>3, <2>4
  <2> QED BY <2>3, <2>5 DEF CountedFor, AtMost
<1>9. crossed' \subseteq Matches
  BY <1>1 DEF ConfirmMatch, Crossing, ProofTyped
<1> QED
  BY <1>5, <1>6, <1>8, <1>9 DEF ConfirmMatch, writing, ProofTyped

\* Clicks that go on, and clicks that go.
LEMMA ClicksGoOn ==
  ASSUME ProofTyped, NEW a \in clicks, NEW c,
         c.at \in {"sent", "read"} => a.at \in {"sent", "read"},
         clicks' = (clicks \ {a}) \cup {c}
  PROVE  /\ \A n \in Nat : AtMost(clicks, n) => AtMost(clicks', n)
         /\ \A n \in Nat : AtMost(Pending, n) => AtMost(Pending', n)
<1>1. \A n \in Nat : AtMost(clicks, n) => AtMost(clicks', n)
  BY AtMostInPlace
<1>2. CASE c.at \in {"sent", "read"}
  <2>1. a \in Pending /\ Pending' = (Pending \ {a}) \cup {c}
    BY <1>2 DEF Pending
  <2> QED BY <1>1, <2>1, AtMostInPlace
<1>3. CASE c.at \notin {"sent", "read"}
  <2>1. Pending' \subseteq Pending
    BY <1>3 DEF Pending
  <2> QED BY <1>1, <2>1, AtMostPart
<1> QED
  BY <1>2, <1>3

\* Clicks that are answered are counted no longer.
LEMMA ClicksGo ==
  ASSUME clicks' \subseteq clicks
  PROVE  /\ \A n \in Nat : AtMost(clicks, n) => AtMost(clicks', n)
         /\ \A n \in Nat : AtMost(Pending, n) => AtMost(Pending', n)
<1>1. Pending' \subseteq Pending
  BY DEF Pending
<1> QED
  BY <1>1, AtMostPart

\* Leaving a tab unmounts its form for every click.
LEMMA ClicksUnmount ==
  ASSUME ProofTyped, clicks' = {[a EXCEPT !.mounted = FALSE] : a \in clicks}
  PROVE  /\ \A n \in Nat : AtMost(clicks, n) => AtMost(clicks', n)
         /\ \A n \in Nat : AtMost(Pending, n) => AtMost(Pending', n)
<1> DEFINE f == [a \in clicks |-> [a EXCEPT !.mounted = FALSE]]
           g == [a \in Pending |-> [a EXCEPT !.mounted = FALSE]]
<1>1. \A a \in clicks : [a EXCEPT !.mounted = FALSE].at = a.at /\ [a EXCEPT !.mounted = FALSE] \in ClickRecord
  <2>1. clicks \subseteq ClickRecord
    BY DEF ProofTyped, DecidedInv, ProofShape
  <2>2. \A a \in ClickRecord : [a EXCEPT !.mounted = FALSE].at = a.at /\ [a EXCEPT !.mounted = FALSE] \in ClickRecord
    BY DEF ClickRecord
  <2> QED BY <2>1, <2>2
<1>2. f \in [clicks -> ClickRecord] /\ {f[a] : a \in clicks} = clicks'
  BY <1>1
<1>3. g \in [Pending -> ClickRecord] /\ {g[a] : a \in Pending} = Pending'
  BY <1>1 DEF Pending
<1> HIDE DEF f, g
<1>4. \A n \in Nat : AtMost(clicks, n) => AtMost(clicks', n)
  BY <1>2, AtMostImage
<1>5. \A n \in Nat : AtMost(Pending, n) => AtMost(Pending', n)
  BY <1>3, AtMostImage
<1> QED
  BY <1>4, <1>5

\* What is clicked, heard and typed, decision by decision.
LEMMA DecidingTyped ==
  ASSUME ProofTyped, DecidedInv', plot' = plot,
         \/ \E m \in Matches : PressConfirm(m)
         \/ \E m \in Matches, kind \in {"confirm", "reject"} : DecideElsewhere(kind, m)
         \/ PressReject \/ SaveChangelog
  PROVE  ProofTyped'
<1>1. ASSUME NEW m \in Matches, PressConfirm(m) PROVE ProofTyped'
  <2>1. SendOff("confirm", m, "here") /\ busy' = m /\ UNCHANGED <<proofs, told, returned, crossed, changelog>>
    BY <1>1 DEF PressConfirm, matchStore, writing, proofHistory
  <2> QED BY <2>1, AskedTyped DEF ProofTyped
<1>2. ASSUME NEW m \in Matches, NEW kind, DecideElsewhere(kind, m) PROVE ProofTyped'
  <2>1. /\ SendOff(kind, m, "elsewhere")
        /\ UNCHANGED <<busy, proofs, told, returned, crossed, changelog>>
    BY <1>2 DEF DecideElsewhere, matchStore, writing, proofHistory
  <2> QED BY <2>1, AskedTyped DEF ProofTyped
<1>3. CASE PressReject
  <2>1. /\ SendOff("reject", modal.of, "here") /\ busy' = modal.of /\ modal.of \in Matches \cup {"none"}
        /\ UNCHANGED <<proofs, told, returned, crossed, changelog>>
    BY <1>3 DEF PressReject, matchStore, writing, ProofTyped, DecidedInv, ProofShape, ModalRecord
  <2> QED BY <2>1, AskedTyped DEF ProofTyped
<1>4. CASE SaveChangelog
  <2>1. /\ SendOff("file", "none", "here") /\ changelog' = [changelog EXCEPT !.saving = TRUE]
        /\ UNCHANGED <<proofs, told, returned, crossed, busy>>
    BY <1>4 DEF SaveChangelog, matchStore, proofHistory
  <2>2. changelog' \in ChangelogRecord
    BY <2>1 DEF ProofTyped, ChangelogRecord
  <2> QED BY <2>1, <2>2, AskedTyped DEF ProofTyped
<1> QED
  BY <1>1, <1>2, <1>3, <1>4

\* Looking, filing and typing ask for no proof.
LEMMA LookingTyped ==
  ASSUME ProofTyped, DecidedInv', plot' = plot,
         \/ PressRefresh \/ TypeReason \/ CloseReject
         \/ \E m \in Matches : OpenReject(m)
         \/ \E l \in looks, ok \in BOOLEAN : MatchesArrive(l, ok) \/ ReleasesArrive(l, ok)
         \/ TypeNotes \/ PickNotes \/ (\E ok \in BOOLEAN : NotesRead(ok))
  PROVE  ProofTyped'
<1>1. UNCHANGED <<proofs, clicks, busy>>
  BY DEF PressRefresh, TypeReason, CloseReject, OpenReject, MatchesArrive, ReleasesArrive, TypeNotes, PickNotes,
         NotesRead, matchStore
<1>2. tally'.asks = tally.asks
  BY DEF PressRefresh, TypeReason, CloseReject, OpenReject, MatchesArrive, ReleasesArrive, TypeNotes, PickNotes,
         NotesRead, ProofTyped, DecidedInv, ProofShape
<1>3. changelog' \in ChangelogRecord
  BY DEF PressRefresh, TypeReason, CloseReject, OpenReject, MatchesArrive, ReleasesArrive, TypeNotes, PickNotes,
         NotesRead, writing, ProofTyped, ChangelogRecord
<1>4. \A l \in looks : l.heard \subseteq Matches
  BY DEF ProofTyped, DecidedInv, ProofShape, LookRecord
<1>5. {told', returned', crossed'} \subseteq SUBSET Matches
  BY <1>4 DEF PressRefresh, TypeReason, CloseReject, OpenReject, MatchesArrive, ReleasesArrive, TypeNotes, PickNotes,
         NotesRead, proofHistory, ProofTyped
<1>6. Pending' = Pending
  BY <1>1 DEF Pending
<1> QED
  BY <1>1, <1>2, <1>3, <1>5, <1>6, NothingAskedTyped DEF ProofTyped

\* A tab that opens, or is read again, shows what the server has.
LEMMA OpeningTabTyped ==
  ASSUME ProofTyped, DecidedInv', plot' = plot, NEW t, OpenTab(t) PROVE ProofTyped'
<1>1. clicks' = {[a EXCEPT !.mounted = FALSE] : a \in clicks} /\ changelog' = NoForm
      /\ UNCHANGED <<proofs, busy, told, returned, crossed>> /\ tally' = [tally EXCEPT !.looks = @ + 1]
  BY DEF OpenTab, matchStore, proofHistory
<1>2. tally'.asks = tally.asks
  BY <1>1 DEF ProofTyped, DecidedInv, ProofShape
<1>3. NoForm \in ChangelogRecord
  BY DEF NoForm, ChangelogRecord
<1> QED
  BY <1>1, <1>2, <1>3, ClicksUnmount, NothingAskedTyped DEF ProofTyped

\* The server's side, and its answers.
LEMMA DecidedTyped ==
  ASSUME ProofTyped, DecidedInv', plot' = plot, NEW a \in clicks,
         \/ ReadMatch(a) \/ RejectMatch(a) \/ FileChangelog(a)
         \/ Decided(a) \/ NotDecided(a) \/ DecidedElsewhere(a) \/ ChangelogSaved(a) \/ ChangelogNotSaved(a)
  PROVE  ProofTyped'
<1>1. UNCHANGED <<proofs, tally>> /\ busy' \in Matches \cup {"none"}
  BY DEF ReadMatch, RejectMatch, FileChangelog, Decided, NotDecided, DecidedElsewhere, ChangelogSaved,
         ChangelogNotSaved, matchStore, ProofTyped
<1>2. changelog' \in ChangelogRecord
  BY DEF ReadMatch, RejectMatch, FileChangelog, Decided, NotDecided, DecidedElsewhere, ChangelogSaved,
         ChangelogNotSaved, writing, ProofTyped, ChangelogRecord
<1>3. a.kind # "file" => a.of \in Matches
  BY DEF ProofTyped, DecidedInv, NamesProposed
<1>4. {told', returned', crossed'} \subseteq SUBSET Matches
  BY <1>3 DEF ReadMatch, RejectMatch, FileChangelog, Decided, NotDecided, DecidedElsewhere, ChangelogSaved,
         ChangelogNotSaved, Crossing, proofHistory, ProofTyped
<1>5. CASE ReadMatch(a) \/ RejectMatch(a) \/ FileChangelog(a)
  <2>1. PICK c : clicks' = (clicks \ {a}) \cup {c} /\ (c.at \in {"sent", "read"} => a.at \in {"sent", "read"})
    <3>1. CASE ReadMatch(a)
      BY <3>1 DEF ReadMatch
    <3>2. CASE RejectMatch(a)
      BY <3>2 DEF RejectMatch, Moves
    <3>3. CASE FileChangelog(a)
      BY <3>3 DEF FileChangelog, Moves
    <3> QED BY <1>5, <3>1, <3>2, <3>3
  <2> QED BY <1>1, <1>2, <1>4, <2>1, ClicksGoOn, NothingAskedTyped
<1>6. CASE NotDecided(a)
  <2>1. CASE a.at \in {"sent", "read"}
    BY <1>1, <1>2, <1>4, <1>6, <2>1, ClicksGoOn, NothingAskedTyped DEF NotDecided
  <2>2. CASE a.at \notin {"sent", "read"}
    <3>1. clicks' \subseteq clicks
      BY <1>6, <2>2 DEF NotDecided
    <3> QED BY <1>1, <1>2, <1>4, <3>1, ClicksGo, NothingAskedTyped
  <2> QED BY <2>1, <2>2
<1>7. CASE Decided(a) \/ DecidedElsewhere(a) \/ ChangelogSaved(a) \/ ChangelogNotSaved(a)
  <2>1. clicks' \subseteq clicks
    BY <1>7 DEF Decided, DecidedElsewhere, ChangelogSaved, ChangelogNotSaved, Heard
  <2> QED BY <1>1, <1>2, <1>4, <2>1, ClicksGo, NothingAskedTyped
<1> QED
  BY <1>5, <1>6, <1>7

\* Every step keeps the types of the proof page.
LEMMA ProofTypedStep == ProofTyped /\ [ProofNext]_proofVars => ProofTyped'
<1> SUFFICES ASSUME ProofTyped, [ProofNext]_proofVars PROVE ProofTyped'
  OBVIOUS
<1>1. DecidedInv'
  BY DecidedStep DEF ProofTyped
<1>2. CASE UNCHANGED proofVars
  BY <1>1, <1>2 DEF proofVars, ProofTyped, CountedFor, Pending
<1>3. CASE ProofPageStep /\ UNCHANGED plot
  BY <1>1, <1>3, DecidingTyped, LookingTyped, OpeningTabTyped, DecidedTyped, ConfirmedTyped DEF ProofPageStep
<1> QED
  BY <1>2, <1>3 DEF ProofNext

\* They are the type invariant: a proof is made once for each click at most.
LEMMA ProofTypedIsTypeOK == ProofTyped => ProofTypeOK
<1> SUFFICES ASSUME ProofTyped PROVE ProofTypeOK
  OBVIOUS
<1>1. Cardinality(clicks) <= plot.asks
  <2>1. IsFiniteSet(clicks) /\ Cardinality(clicks) <= tally.asks
    BY DEF ProofTyped, AtMost
  <2>2. Cardinality(clicks) \in Nat
    BY <2>1, FS_CardinalityType
  <2> QED BY <2>1, <2>2, CountsAreNumbers
<1>2. proofs \in [Matches -> 0 .. plot.asks]
  <2>1. proofs \in [Matches -> Nat]
    BY DEF ProofTyped, DecidedInv, ProofShape
  <2>2. \A m \in Matches : proofs[m] \in 0 .. plot.asks
    BY CountsAreNumbers
  <2> QED BY <2>1, <2>2
<1>3. verdict \in [Matches -> {"absent", "proposed", "confirmed", "rejected"}] /\ modal.of \in Matches \cup {"none"}
  BY DEF ProofTyped, DecidedInv, ProofShape, Verdicts, ModalRecord
<1>4. cards \subseteq Matches \cup {"none"}
  BY DEF ProofTyped, DecidedInv, NamesProposed
<1> QED
  BY <1>1, <1>2, <1>3, <1>4 DEF ProofTyped, ProofTypeOK, ChangelogRecord

\* The proof page's state keeps its types.
THEOREM ProofTypeCorrect == ProofSpec => []ProofTypeOK
  BY ProofTypedIsTypeOK, ProofTypedAtFirst, ProofTypedStep, PTL DEF ProofSpec

----------------------------------------------------------------------------
(***************************************************************************)
(* The types of the meeting page.  What it shows, ticks and asks about are *)
(* insights of the meeting, which come to the server and never leave it.   *)
(***************************************************************************)

OnServer == DOMAIN onFile.ins

\* What the page is doing awaits an answer.
FlowsAwait == \A f \in flows : "got" \in DOMAIN f

\* A flow goes on as another, or a new one begins.
LEMMA FlowsAwaitStep == FlowsAwait /\ [MeetingPageNext]_meetingPageVars => FlowsAwait'
<1> SUFFICES ASSUME FlowsAwait, [MeetingPageNext]_meetingPageVars PROVE FlowsAwait'
  OBVIOUS
<1>1. CASE flows' \subseteq flows
  BY <1>1 DEF FlowsAwait
<1>2. ASSUME NEW g, "got" \in DOMAIN g, flows' \subseteq flows \cup {g} PROVE FlowsAwait'
  BY <1>2 DEF FlowsAwait
<1>3. ASSUME NEW f \in flows, NEW g, DOMAIN g = DOMAIN f, flows' \subseteq flows \cup {g} PROVE FlowsAwait'
  BY <1>3 DEF FlowsAwait
<1>4. ASSUME NEW of, NEW wants, NEW ids, Begins(of, wants, ids) PROVE FlowsAwait'
  <2> DEFINE g == [of |-> of, wants |-> wants, got |-> NoDetail, ids |-> ids, nr |-> extras.loads + extras.posts + 1]
  <2>1. "got" \in DOMAIN g /\ flows' \subseteq flows \cup {g}
    BY <1>4 DEF Begins
  <2> HIDE DEF g
  <2> QED
    BY <1>2, <2>1
<1>5. CASE LoadAgain \/ RouteTicked \/ RejectTicked \/ SaveTranscript \/ Extract \/ Transcribe
  BY <1>4, <1>5 DEF LoadAgain, RouteTicked, RejectTicked, SaveTranscript, Extract, Transcribe, Sends
<1>6. ASSUME NEW f \in flows, ServeLoad(f) PROVE FlowsAwait'
  <2>1. PICK got : flows' = (flows \ {f}) \cup {[f EXCEPT !.got = got]}
    BY <1>6 DEF ServeLoad
  <2> QED
    BY <1>3, <2>1
<1>7. ASSUME NEW f \in flows, DetailArrives(f) PROVE FlowsAwait'
  <2> DEFINE on == [f EXCEPT !.wants = "list", !.got = NoDetail]
             aside == [of |-> "side", wants |-> "list", got |-> NoDetail, ids |-> {}, nr |-> f.nr]
  <2>1. DOMAIN on = DOMAIN f /\ "got" \in DOMAIN aside
    OBVIOUS
  <2>2. flows' \subseteq flows \cup {on} \/ flows' \subseteq flows \cup {aside}
    BY <1>7 DEF DetailArrives, AfterDetail
  <2> HIDE DEF on, aside
  <2> QED
    BY <1>2, <1>3, <2>1, <2>2
<1>8. ASSUME NEW f \in flows, NEW i, BulkOne(f, i) PROVE FlowsAwait'
  <2>1. flows' = (flows \ {f}) \cup {[f EXCEPT !.ids = @ \ {i}]}
    BY <1>8 DEF BulkOne
  <2> QED
    BY <1>3, <2>1
<1>9. ASSUME NEW f \in flows, BulkAnswered(f) \/ PostDone(f) \/ PostRefused(f) PROVE FlowsAwait'
  <2>1. flows' \subseteq flows \cup {[f EXCEPT !.wants = "detail"]}
    BY <1>9 DEF BulkAnswered, PostDone, PostRefused
  <2> QED
    BY <1>3, <2>1
<1>10. ASSUME NEW f \in flows, ListArrives(f) \/ BulkFails(f) \/ RunStarts(f) PROVE FlowsAwait'
  BY <1>1, <1>10 DEF ListArrives, BulkFails, RunStarts
<1>11. ASSUME NEW i, TickOne(i) \/ (\E s : OthersMove(i, s)) PROVE FlowsAwait'
  BY <1>1, <1>11 DEF TickOne, OthersMove
<1>12. ASSUME NEW t, Paste(t) \/ ChooseFile(t) PROVE FlowsAwait'
  BY <1>1, <1>12 DEF Paste, ChooseFile
<1>13. CASE TickAll \/ AskReject \/ CancelReject \/ FileRead \/ UNCHANGED meetingPageVars
  BY <1>1, <1>13 DEF TickAll, AskReject, CancelReject, FileRead, meetingPageVars
<1> QED
  BY <1>5, <1>6, <1>7, <1>8, <1>9, <1>10, <1>11, <1>12, <1>13 DEF MeetingPageNext, MeetingPageStep

\* What a page shows, or is on its way to it, names insights of the meeting; what is
\* ticked, was unticked or asked about is shown.
MeetingPageTyped ==
  /\ ChoiceInv /\ FlowsAwait
  /\ occasion \in Occasions /\ "ins" \in DOMAIN onFile
  /\ DOMAIN seen.ins \subseteq OnServer /\ DOMAIN listed \subseteq OnServer
  /\ \A f \in flows : DOMAIN f.got.ins \subseteq OnServer
  /\ ticked \subseteq Found /\ unticked \subseteq Found /\ asking.about \subseteq OnServer
  /\ pasted \in Texts \cup {""} /\ reading \in Texts \cup {""}
  /\ extras \in [loads : Nat, posts : Nat, others : Nat]
  /\ extras.loads <= occasion.loads /\ extras.others <= occasion.others

\* What the page offers is on the server.
LEMMA FoundOnServer == MeetingPageTyped => Found \subseteq OnServer
  BY DEF MeetingPageTyped, Found, FoundIn, Over

\* A page that opens shows nothing yet.
LEMMA MeetingPageTypedAtFirst == MeetingPageInit => MeetingPageTyped
<1> SUFFICES ASSUME MeetingPageInit PROVE MeetingPageTyped
  OBVIOUS
<1>1. occasion \in Occasions /\ onFile = occasion.meeting /\ seen = NoDetail /\ listed = <<>>
      /\ ticked = {} /\ unticked = {} /\ asking = NotAsked /\ pasted = "" /\ reading = ""
  BY DEF MeetingPageInit
<1>2. "ins" \in DOMAIN onFile /\ occasion.loads \in Nat /\ occasion.others \in Nat
  BY <1>1, MeetingPageAssumption
<1>3. NoDetail.ins = <<>> /\ DOMAIN <<>> = {}
  BY DEF NoDetail
<1>4. NotAsked.about = {}
  BY DEF NotAsked
<1>5. extras = [loads |-> 0, posts |-> 0, others |-> 0]
  BY DEF MeetingPageInit
<1>6. FlowsAwait /\ \A f \in flows : f.got = NoDetail
  <2> DEFINE first == [of |-> "open", wants |-> "detail", got |-> NoDetail, ids |-> {}, nr |-> 0]
  <2>1. first.got = NoDetail /\ "got" \in DOMAIN first /\ flows = {first}
    BY DEF MeetingPageInit
  <2> HIDE DEF first
  <2> QED BY <2>1 DEF FlowsAwait
<1>7. extras \in [loads : Nat, posts : Nat, others : Nat] /\ extras.loads = 0 /\ extras.others = 0
  BY <1>5
<1>8. extras.loads <= occasion.loads /\ extras.others <= occasion.others
  BY <1>2, <1>7
<1> QED
  BY <1>1, <1>2, <1>3, <1>4, <1>6, <1>7, <1>8, ChoiceStart DEF MeetingPageTyped

\* Insights come to the server and never leave it.
ServerKeeps == "ins" \in DOMAIN onFile' /\ OnServer \subseteq OnServer'
ExtrasKept ==
  /\ extras' \in [loads : Nat, posts : Nat, others : Nat]
  /\ extras'.loads <= occasion.loads /\ extras'.others <= occasion.others

\* A step that lays nothing over what is shown.
LEMMA NothingLaidTyped ==
  ASSUME MeetingPageTyped, ChoiceInv', FlowsAwait', UNCHANGED <<occasion, seen, listed>>, ServerKeeps, ExtrasKept,
         \A f \in flows' : DOMAIN f.got.ins \subseteq OnServer \/ DOMAIN f.got.ins \subseteq OnServer',
         ticked' \subseteq Found, unticked' \subseteq Found,
         asking'.about \subseteq asking.about \cup Found,
         pasted' \in Texts \cup {""}, reading' \in Texts \cup {""}
  PROVE  MeetingPageTyped'
<1>1. Found' = Found
  BY DEF Found
<1>2. Found \subseteq OnServer
  BY FoundOnServer
<1> QED
  BY <1>1, <1>2 DEF MeetingPageTyped, ServerKeeps, ExtrasKept

\* Posts, retries and doings of others are counted up to the occasion's bound.
LEMMA ExtrasCount ==
  ASSUME MeetingPageTyped
  PROVE  /\ extras' = extras => ExtrasKept
         /\ extras' = [extras EXCEPT !.posts = @ + 1] => ExtrasKept
         /\ extras.loads < occasion.loads /\ extras' = [extras EXCEPT !.loads = @ + 1] => ExtrasKept
         /\ extras.others < occasion.others /\ extras' = [extras EXCEPT !.others = @ + 1] => ExtrasKept
<1>1. /\ extras \in [loads : Nat, posts : Nat, others : Nat]
      /\ extras.loads <= occasion.loads /\ extras.others <= occasion.others
      /\ occasion.loads \in Nat /\ occasion.others \in Nat
  BY MeetingPageAssumption DEF MeetingPageTyped
<1> QED
  BY <1>1 DEF ExtrasKept

\* What a load reads, and where a flow goes on to.
LEMMA FlowTyped ==
  ASSUME MeetingPageTyped, NEW f \in flows
  PROVE  /\ "got" \in DOMAIN f /\ DOMAIN f.got.ins \subseteq OnServer
         /\ \A ids : [f EXCEPT !.ids = ids].got = f.got
         /\ \A w : [f EXCEPT !.wants = w].got = f.got
         /\ \A got \in {onFile, LoadFailed} : DOMAIN [f EXCEPT !.got = got].got.ins \subseteq OnServer
         /\ [f EXCEPT !.wants = "list", !.got = NoDetail].got = NoDetail
<1>1. "got" \in DOMAIN f /\ DOMAIN f.got.ins \subseteq OnServer
  BY DEF MeetingPageTyped, FlowsAwait
<1>2. LoadFailed.ins = <<>> /\ DOMAIN <<>> = {}
  BY DEF LoadFailed, NoDetail
<1>3. \A got : [f EXCEPT !.got = got].got = got
  BY <1>1
<1>4. /\ \A ids : [f EXCEPT !.ids = ids].got = f.got
      /\ \A w : [f EXCEPT !.wants = w].got = f.got
      /\ [f EXCEPT !.wants = "list", !.got = NoDetail].got = NoDetail
  BY <1>1
<1> QED
  BY <1>1, <1>2, <1>3, <1>4 DEF OnServer

\* A detail that has not come names no insight.
LEMMA NoDetailTyped == NoDetail.ins = <<>> /\ DOMAIN NoDetail.ins = {}
  BY DEF NoDetail

\* What is laid over the page is of the same meeting.
LEMMA LayTyped ==
  ASSUME MeetingPageTyped, ChoiceInv', FlowsAwait', NEW detail, NEW list, Lay(detail, list), UNCHANGED <<occasion, onFile, extras>>,
         UNCHANGED <<pasted, reading>>,
         DOMAIN detail.ins \subseteq OnServer, DOMAIN list \subseteq OnServer,
         \A f \in flows' : DOMAIN f.got.ins \subseteq OnServer
  PROVE  MeetingPageTyped'
<1>1. OnServer' = OnServer
  BY DEF OnServer
<1>2. seen' = detail /\ listed' = list /\ Found' = FoundIn(detail, list)
  BY DEF Lay, Found
<1>3. ticked' \subseteq Found' /\ unticked' \subseteq Found'
  BY <1>2 DEF Lay, MeetingPageTyped
<1>4. asking'.about = asking.about
  BY DEF Lay, MeetingPageTyped, ChoiceInv, AskingShape
<1> QED
  BY <1>1, <1>2, <1>3, <1>4 DEF MeetingPageTyped

\* The answers of the meeting's requests keep its types.
LEMMA DetailLoadsTyped ==
  ASSUME MeetingPageTyped, ChoiceInv', FlowsAwait', UNCHANGED occasion, NEW f \in flows,
         ServeLoad(f) \/ DetailArrives(f) \/ ListArrives(f)
  PROVE  MeetingPageTyped'
<1>1. \A g \in flows : DOMAIN g.got.ins \subseteq OnServer
  BY DEF MeetingPageTyped
<1>2. ServerKeeps /\ ExtrasKept /\ UNCHANGED <<onFile, extras, pasted, reading>>
  BY ExtrasCount DEF ServeLoad, DetailArrives, ListArrives, texting, ServerKeeps, OnServer, MeetingPageTyped
<1>3. CASE ServeLoad(f)
  <2>1. PICK got \in {onFile, LoadFailed} : flows' = (flows \ {f}) \cup {[f EXCEPT !.got = got]}
    BY <1>3 DEF ServeLoad
  <2>2. \A g \in flows' : DOMAIN g.got.ins \subseteq OnServer
    BY <1>1, <2>1, FlowTyped
  <2>3. UNCHANGED <<seen, listed, ticked, unticked, asking>>
    BY <1>3 DEF ServeLoad, tickVars
  <2> QED BY <1>2, <2>2, <2>3, NothingLaidTyped DEF MeetingPageTyped
<1>4. CASE DetailArrives(f)
  <2>1. \A g \in AfterDetail(f) : g.got = NoDetail
    <3> DEFINE on == [f EXCEPT !.wants = "list", !.got = NoDetail]
               aside == [of |-> "side", wants |-> "list", got |-> NoDetail, ids |-> {}, nr |-> f.nr]
    <3>1. on.got = NoDetail
      BY FlowTyped
    <3>2. aside.got = NoDetail
      OBVIOUS
    <3>3. AfterDetail(f) \subseteq {on, aside}
      BY DEF AfterDetail
    <3> HIDE DEF on, aside
    <3> QED BY <3>1, <3>2, <3>3
  <2>2. \A g \in flows' : DOMAIN g.got.ins \subseteq OnServer
    BY <1>1, <1>4, <2>1, NoDetailTyped DEF DetailArrives
  <2>3. CASE f.got = LoadFailed
    <3>1. UNCHANGED <<seen, listed, ticked, unticked, asking>>
      BY <1>4, <2>3 DEF DetailArrives, tickVars
    <3> QED BY <1>2, <2>2, <3>1, NothingLaidTyped DEF MeetingPageTyped
  <2>4. CASE f.got # LoadFailed
    <3>1. Lay(f.got, listed)
      BY <1>4, <2>4 DEF DetailArrives
    <3> QED BY <1>1, <1>2, <2>2, <3>1, LayTyped DEF MeetingPageTyped
  <2> QED BY <2>3, <2>4
<1>5. CASE ListArrives(f)
  <2>2. \A g \in flows' : DOMAIN g.got.ins \subseteq OnServer
    BY <1>1, <1>5 DEF ListArrives
  <2>3. CASE f.got = LoadFailed
    <3>1. UNCHANGED <<seen, listed, ticked, unticked, asking>>
      BY <1>5, <2>3 DEF ListArrives, tickVars
    <3> QED BY <1>2, <2>2, <3>1, NothingLaidTyped DEF MeetingPageTyped
  <2>4. CASE f.got # LoadFailed
    <3>1. Lay(seen, f.got.ins)
      BY <1>5, <2>4 DEF ListArrives
    <3> QED BY <1>1, <1>2, <2>2, <3>1, LayTyped DEF MeetingPageTyped
  <2> QED BY <2>3, <2>4
<1> QED
  BY <1>3, <1>4, <1>5

\* Ticking, and the question before a rejection.
LEMMA TickingTyped ==
  ASSUME MeetingPageTyped, ChoiceInv', FlowsAwait', UNCHANGED occasion,
         \/ \E i \in DOMAIN onFile.ins : TickOne(i)
         \/ TickAll \/ AskReject \/ CancelReject
  PROVE  MeetingPageTyped'
<1>1. UNCHANGED <<occasion, onFile, seen, listed, flows, pasted, reading, extras>>
  BY DEF TickOne, TickAll, AskReject, CancelReject, texting
<1>2. ticked' \subseteq Found /\ unticked' \subseteq Found
  BY DEF TickOne, TickAll, AskReject, CancelReject, tickVars, MeetingPageTyped
<1>3. asking'.about \subseteq asking.about \cup Found
  <2>1. asking' \in {asking, NotAsked, [open |-> TRUE, about |-> ticked, changed |-> FALSE]}
    BY DEF TickOne, TickAll, AskReject, CancelReject
  <2>2. NotAsked.about = {} /\ [open |-> TRUE, about |-> ticked, changed |-> FALSE].about = ticked
    BY DEF NotAsked
  <2>3. ticked \subseteq Found
    BY DEF MeetingPageTyped
  <2> QED BY <2>1, <2>2, <2>3
<1>4. ServerKeeps /\ ExtrasKept
  BY <1>1, ExtrasCount DEF ServerKeeps, OnServer, MeetingPageTyped
<1> QED
  BY <1>1, <1>2, <1>3, <1>4, NothingLaidTyped DEF MeetingPageTyped

\* What begins: a load, a batch, a saving, an extraction or a transcription.
LEMMA DeedBeginTyped ==
  ASSUME MeetingPageTyped, ChoiceInv', FlowsAwait', UNCHANGED occasion,
         LoadAgain \/ RouteTicked \/ RejectTicked \/ SaveTranscript \/ Extract \/ Transcribe
  PROVE  MeetingPageTyped'
<1>1. UNCHANGED <<occasion, onFile, seen, listed, ticked, unticked, asking, pasted, reading>>
  BY DEF LoadAgain, RouteTicked, RejectTicked, SaveTranscript, Extract, Transcribe, texting, tickVars
<1>2. \E kind, wants, ids : Begins(kind, wants, ids)
  BY DEF LoadAgain, RouteTicked, RejectTicked, SaveTranscript, Extract, Transcribe, Sends
<1>3. \A f \in flows' : DOMAIN f.got.ins \subseteq OnServer
  <2>1. PICK kind, wants, ids : Begins(kind, wants, ids)
    BY <1>2
  <2> DEFINE more == [of |-> kind, wants |-> wants, got |-> NoDetail, ids |-> ids,
                      nr |-> extras.loads + extras.posts + 1]
  <2>2. more.got = NoDetail /\ flows' = flows \cup {more}
    BY <2>1 DEF Begins
  <2> HIDE DEF more
  <2> QED BY <2>2, NoDetailTyped DEF MeetingPageTyped
<1>4. ExtrasKept
  BY ExtrasCount DEF LoadAgain, RouteTicked, RejectTicked, SaveTranscript, Extract, Transcribe, Sends
<1>5. ServerKeeps
  BY <1>1 DEF ServerKeeps, OnServer, MeetingPageTyped
<1> QED
  BY <1>1, <1>3, <1>4, <1>5, NothingLaidTyped DEF MeetingPageTyped

\* The server's side of a batch and of a post, and others at work.
LEMMA ServerTyped ==
  ASSUME MeetingPageTyped, ChoiceInv', FlowsAwait', UNCHANGED occasion,
         \/ \E f \in flows, i \in DOMAIN onFile.ins : BulkOne(f, i)
         \/ \E i \in DOMAIN onFile.ins, s \in {"triaged", "rejected"} : OthersMove(i, s)
         \/ \E f \in flows : BulkAnswered(f) \/ BulkFails(f) \/ RunStarts(f) \/ PostDone(f) \/ PostRefused(f)
  PROVE  MeetingPageTyped'
<1>1. UNCHANGED <<occasion, seen, listed, ticked, unticked, reading>>
  BY DEF BulkOne, OthersMove, BulkAnswered, BulkFails, RunStarts, PostDone, PostRefused, tickVars, texting, Texted
<1>2. pasted' \in {pasted, ""}
  BY DEF BulkOne, OthersMove, BulkAnswered, BulkFails, RunStarts, PostDone, PostRefused, texting, Texted
<1>3. asking' \in {asking, NotAsked}
  BY DEF BulkOne, OthersMove, BulkAnswered, BulkFails, RunStarts, PostDone, PostRefused, Texted
<1>4. ExtrasKept
  BY ExtrasCount DEF BulkOne, OthersMove, BulkAnswered, BulkFails, RunStarts, PostDone, PostRefused, Texted
<1>5. ServerKeeps
  <2>1. "ins" \in DOMAIN onFile
    BY DEF MeetingPageTyped
  <2>2. \/ onFile' = onFile
        \/ \E i \in DOMAIN onFile.ins : \E s : onFile' = [onFile EXCEPT !.ins[i] = s]
        \/ \E s : onFile' = [onFile EXCEPT !.status = s]
        \/ onFile' = [onFile EXCEPT !.text = TRUE, !.status = "transcribed"]
        \/ onFile' = [onFile EXCEPT !.status = "extracted",
              !.ins = [i \in DOMAIN @ \cup Findings |-> IF i \in DOMAIN @ THEN @[i] ELSE "extracted"]]
    BY DEF BulkOne, OthersMove, BulkAnswered, BulkFails, RunStarts, PostDone, PostRefused, Texted
  <2>3. CASE \E i \in DOMAIN onFile.ins : \E s : onFile' = [onFile EXCEPT !.ins[i] = s]
    <3>0. PICK i \in DOMAIN onFile.ins : \E s : onFile' = [onFile EXCEPT !.ins[i] = s]
      BY <2>3
    <3>1. PICK s : onFile' = [onFile EXCEPT !.ins[i] = s]
      BY <3>0
    <3>2. onFile'.ins = [onFile.ins EXCEPT ![i] = s] /\ "ins" \in DOMAIN onFile'
      BY <2>1, <3>1
    <3>3. DOMAIN onFile'.ins = DOMAIN onFile.ins
      BY <3>2
    <3> QED BY <3>2, <3>3 DEF ServerKeeps, OnServer
  <2>4. CASE \/ onFile' = onFile
             \/ \E s : onFile' = [onFile EXCEPT !.status = s]
             \/ onFile' = [onFile EXCEPT !.text = TRUE, !.status = "transcribed"]
    <3>1. "ins" \in DOMAIN onFile' /\ onFile'.ins = onFile.ins
      BY <2>1, <2>4
    <3> QED BY <3>1 DEF ServerKeeps, OnServer
  <2>5. CASE onFile' = [onFile EXCEPT !.status = "extracted",
               !.ins = [i \in DOMAIN @ \cup Findings |-> IF i \in DOMAIN @ THEN @[i] ELSE "extracted"]]
    <3>1. "ins" \in DOMAIN onFile' /\ DOMAIN onFile.ins \subseteq DOMAIN onFile'.ins
      BY <2>1, <2>5
    <3> QED BY <3>1 DEF ServerKeeps, OnServer
  <2> QED BY <2>2, <2>3, <2>4, <2>5
<1>6. \A g \in flows' : DOMAIN g.got.ins \subseteq OnServer
  <2>1. \/ flows' \subseteq flows
        \/ \E f \in flows : flows' \subseteq flows \cup {[f EXCEPT !.wants = "detail"]}
        \/ \E f \in flows : \E ids : flows' \subseteq flows \cup {[f EXCEPT !.ids = ids]}
    BY DEF BulkOne, OthersMove, BulkAnswered, BulkFails, RunStarts, PostDone, PostRefused, Texted
  <2>2. \A g \in flows : DOMAIN g.got.ins \subseteq OnServer
    BY DEF MeetingPageTyped
  <2>3. ASSUME NEW f \in flows, NEW g, g.got = f.got, flows' \subseteq flows \cup {g}
        PROVE  \A h \in flows' : DOMAIN h.got.ins \subseteq OnServer
    BY <2>2, <2>3
  <2>4. CASE flows' \subseteq flows
    BY <2>2, <2>4
  <2>5. CASE \E f \in flows : flows' \subseteq flows \cup {[f EXCEPT !.wants = "detail"]}
    <3>1. PICK f \in flows : flows' \subseteq flows \cup {[f EXCEPT !.wants = "detail"]}
      BY <2>5
    <3>2. [f EXCEPT !.wants = "detail"].got = f.got
      BY FlowTyped
    <3> QED BY <2>3, <3>1, <3>2
  <2>6. CASE \E f \in flows : \E ids : flows' \subseteq flows \cup {[f EXCEPT !.ids = ids]}
    <3>0. PICK f \in flows : \E ids : flows' \subseteq flows \cup {[f EXCEPT !.ids = ids]}
      BY <2>6
    <3>1. PICK ids : flows' \subseteq flows \cup {[f EXCEPT !.ids = ids]}
      BY <3>0
    <3>2. [f EXCEPT !.ids = ids].got = f.got
      BY FlowTyped
    <3> QED BY <2>3, <3>1, <3>2
  <2> QED BY <2>1, <2>4, <2>5, <2>6
<1>7. NotAsked.about = {}
  BY DEF NotAsked
<1>8. asking'.about \subseteq asking.about \cup Found
  BY <1>3, <1>7
<1>9. ticked' \subseteq Found /\ unticked' \subseteq Found
  BY <1>1 DEF MeetingPageTyped
<1>10. pasted' \in Texts \cup {""} /\ reading' \in Texts \cup {""}
  BY <1>1, <1>2 DEF MeetingPageTyped
<1> QED
  BY <1>1, <1>4, <1>5, <1>6, <1>8, <1>9, <1>10, NothingLaidTyped

\* Texts pasted, typed and posted are those there are.
LEMMA TextTyped ==
  ASSUME MeetingPageTyped, ChoiceInv', FlowsAwait', UNCHANGED occasion,
         FileRead \/ (\E t \in Texts : Paste(t) \/ ChooseFile(t))
  PROVE  MeetingPageTyped'
<1>1. UNCHANGED <<occasion, onFile, flows, seen, listed, ticked, unticked, asking, extras>>
  BY DEF FileRead, Paste, ChooseFile, Texted, tickVars
<1>2. pasted' \in Texts \cup {""} /\ reading' \in Texts \cup {""}
  BY DEF FileRead, Paste, ChooseFile, MeetingPageTyped
<1>3. ServerKeeps /\ ExtrasKept
  BY <1>1, ExtrasCount DEF ServerKeeps, OnServer, MeetingPageTyped
<1> QED
  BY <1>1, <1>2, <1>3, NothingLaidTyped DEF MeetingPageTyped

\* Every step keeps the types of the meeting page.
LEMMA MeetingPageTypedStep == MeetingPageTyped /\ [MeetingPageNext]_meetingPageVars => MeetingPageTyped'
<1> SUFFICES ASSUME MeetingPageTyped, [MeetingPageNext]_meetingPageVars PROVE MeetingPageTyped'
  OBVIOUS
<1>1. ChoiceInv' /\ FlowsAwait'
  BY ChoiceStep, FlowsAwaitStep DEF MeetingPageTyped
<1>2. CASE UNCHANGED meetingPageVars
  BY <1>1, <1>2 DEF meetingPageVars, MeetingPageTyped, OnServer, Found
<1>3. CASE MeetingPageStep /\ UNCHANGED occasion
  BY <1>1, <1>3, DetailLoadsTyped, TickingTyped, DeedBeginTyped, ServerTyped, TextTyped DEF MeetingPageStep
<1> QED
  BY <1>2, <1>3 DEF MeetingPageNext

\* They are the type invariant.
LEMMA MeetingPageTypedIsTypeOK == MeetingPageTyped => MeetingPageTypeOK
  BY DEF MeetingPageTyped, MeetingPageTypeOK, OnServer

\* The meeting page's state keeps its types.
THEOREM MeetingPageTypeCorrect == MeetingPageSpec => []MeetingPageTypeOK
  BY MeetingPageTypedIsTypeOK, MeetingPageTypedAtFirst, MeetingPageTypedStep, PTL DEF MeetingPageSpec

----------------------------------------------------------------------------
(*********************************************************************************)
(* The types of the review queue.  Its buckets share no insight, so the queue is *)
(* no longer than the insights there are; requests are counted with what waits   *)
(* for them.                                                                     *)
(*********************************************************************************)

RowRecord == [state : {"extracted", "triaged", "finalized", "shipped", "rejected"}, proof : BOOLEAN]
ActRecord == [kind : {"triage", "finalize", "reject", "ticket", "confirm", "email"}, id : Reviewed,
              at : {"sent", "ok", "no"}, next : Reviewed \cup {"none"}, live : BOOLEAN]
PanelRecord == [up : {"none", "loading", "shown", "error"}, form : BOOLEAN,
                shown : RowRecord \cup [state : {"unknown"}, proof : BOOLEAN], due : SUBSET RowRecord]
Fits(queue) == queue \in Seq(Reviewed) /\ Len(queue) <= 2 * Len(Order)

\* Queues are of what is reviewed, twice at most, and the keyboard is in one; a panel is
\* up, and its requests are live, only while an insight is selected.
DeskTyped(s, p, as) ==
  /\ s \in Reviewed \cup {"none"}
  /\ as \subseteq ActRecord /\ AtMost(as, MaxActs)
  /\ p \in PanelRecord /\ (p.up = "none" <=> s = "none")
  /\ s = "none" => p.due = {} /\ \A a \in as : ~a.live
KeyTyped(i) == i \in {1} \cup 1 .. 2 * Len(Order)
QueuesTyped(fs) == AtMost(fs, MaxFetches) /\ \A f \in fs : Fits(f.list)
ReviewTyped ==
  /\ row \in [Reviewed -> RowRecord]
  /\ Fits(flat) /\ QueuesTyped(coming)
  /\ KeyTyped(idx) /\ KeyTyped(sawIdx)
  /\ flush \in 0 .. MaxFlush /\ adrift \in BOOLEAN
  /\ DeskTyped(sel, panel, acts)

----------------------------------------------------------------------------
(* The queue *)

\* The queue's order has a length.
LEMMA OrderFacts == Len(Order) \in Nat /\ DOMAIN Order = 1 .. Len(Order)
  BY ReviewAssumption

\* A bucket lists the places of its insights once each: the rank of a place among them
\* numbers them from one.
LEMMA BucketFits ==
  ASSUME NEW ids, NEW places, places = {n \in DOMAIN Order : Order[n] \in ids}
  PROVE  /\ IsFiniteSet(places) /\ Cardinality(places) \in Nat
         /\ Bucket(ids) \in Seq(Reviewed) /\ Len(Bucket(ids)) = Cardinality(places)
<1> DEFINE upTo(n) == {m \in places : m <= n}
           rank == [n \in places |-> Cardinality(upTo(n))]
           c == Cardinality(places)
<1>1. places \subseteq 1 .. Len(Order) /\ Len(Order) \in Nat
  BY OrderFacts
<1>2. IsFiniteSet(places) /\ c \in Nat
  <2>1. IsFiniteSet(1 .. Len(Order))
    BY <1>1, FS_Interval
  <2>2. IsFiniteSet(places)
    BY <1>1, <2>1, FS_Subset
  <2> QED BY <2>2, FS_CardinalityType
<1>3. \A n \in places : n \in Nat
  BY <1>1
<1>4. ASSUME NEW n \in places
      PROVE  IsFiniteSet(upTo(n)) /\ Cardinality(upTo(n)) \in 1 .. c
  <2>1. upTo(n) \in SUBSET places /\ n \in upTo(n)
    BY <1>3
  <2> HIDE DEF upTo
  <2>2. IsFiniteSet(upTo(n)) /\ Cardinality(upTo(n)) <= c
    BY <1>2, <2>1, FS_Subset
  <2>3. Cardinality(upTo(n)) \in Nat /\ Cardinality(upTo(n)) # 0
    BY <2>1, <2>2, FS_CardinalityType, FS_EmptySet
  <2> QED BY <1>2, <2>2, <2>3
<1>5. ASSUME NEW n \in places, NEW m \in places, n < m
      PROVE  Cardinality(upTo(n)) # Cardinality(upTo(m))
  <2>1. upTo(n) \in SUBSET upTo(m) /\ m \in upTo(m) /\ m \notin upTo(n)
    BY <1>3, <1>5
  <2>2. IsFiniteSet(upTo(m))
    BY <1>4
  <2> HIDE DEF upTo
  <2> QED BY <2>1, <2>2, FS_Subset
<1>6. rank \in Injection(places, 1 .. c)
  <2>1. rank \in [places -> 1 .. c]
    BY <1>4
  <2>2. ASSUME NEW n \in places, NEW m \in places, n # m PROVE rank[n] # rank[m]
    <3>1. n < m \/ m < n
      BY <1>3, <2>2
    <3>2. rank[n] = Cardinality(upTo(n)) /\ rank[m] = Cardinality(upTo(m))
      OBVIOUS
    <3> HIDE DEF rank, upTo
    <3> QED BY <1>5, <3>1, <3>2
  <2> HIDE DEF rank
  <2> QED BY <2>1, <2>2 DEF Injection, IsInjective
<1>7. rank \in Surjection(places, 1 .. c)
  <2>1. IsFiniteSet(1 .. c) /\ Cardinality(1 .. c) = c
    BY <1>2, FS_Interval
  <2> HIDE DEF rank
  <2> QED BY <1>2, <1>6, <2>1, FS_Injection
<1> DEFINE nth(k) == CHOOSE n \in places : Cardinality(upTo(n)) = k
<1>8. ASSUME NEW k \in 1 .. c PROVE nth(k) \in places
  <2>1. PICK n \in places : rank[n] = k
    <3> HIDE DEF rank
    <3> QED BY <1>7 DEF Surjection
  <2>2. Cardinality(upTo(n)) = k
    BY <2>1
  <2> HIDE DEF upTo
  <2> QED BY <2>2
<1>9. Bucket(ids) = [k \in 1 .. c |-> Order[nth(k)]]
  BY DEF Bucket
<1>10. \A k \in 1 .. c : Order[nth(k)] \in Reviewed
  <2> HIDE DEF nth
  <2> QED BY <1>8, <1>1, OrderFacts DEF Reviewed
<1>11. Bucket(ids) \in Seq(Reviewed)
  <2> HIDE DEF nth, c
  <2> DEFINE one(k) == Order[nth(k)]
  <2>1. \A k \in 1 .. c : one(k) \in Reviewed
    BY <1>10
  <2>2. Bucket(ids) = [k \in 1 .. c |-> one(k)]
    BY <1>9
  <2> HIDE DEF one
  <2>3. [k \in 1 .. c |-> one(k)] \in Seq(Reviewed)
    BY <1>2, <2>1
  <2> QED BY <2>2, <2>3
<1>12. Len(Bucket(ids)) = c
  <2> HIDE DEF nth, c
  <2>1. DOMAIN Bucket(ids) = 1 .. c
    BY <1>9
  <2> QED BY <1>2, <1>11, <2>1
<1> QED
  BY <1>2, <1>11, <1>12

\* Buckets that share no insight are no longer together than the order.
LEMMA DisjointSizes ==
  ASSUME NEW S, NEW T, IsFiniteSet(S), IsFiniteSet(T), S \cap T = {}
  PROVE  IsFiniteSet(S \cup T) /\ Cardinality(S \cup T) = Cardinality(S) + Cardinality(T)
<1>1. /\ IsFiniteSet(S \cup T)
      /\ Cardinality(S \cup T) = Cardinality(S) + Cardinality(T) - Cardinality(S \cap T)
  BY FS_Union
<1>2. Cardinality(S \cap T) = 0 /\ Cardinality(S) \in Nat /\ Cardinality(T) \in Nat
  BY FS_EmptySet, FS_CardinalityType
<1> QED
  BY <1>1, <1>2

\* The buckets of the states share no insight: together they are no longer than the
\* list of all, and the bucket of the proposed proofs is no longer either.
LEMMA QueueFits == ASSUME NEW rows \in [Reviewed -> RowRecord] PROVE Fits(QueueOf(rows))
<1> DEFINE in(s) == {n \in DOMAIN Order : Order[n] \in InState(rows, s)}
           proposed == {n \in DOMAIN Order : Order[n] \in {i \in Reviewed : rows[i].proof}}
           bucket(s) == Bucket(InState(rows, s))
           last == Bucket({i \in Reviewed : rows[i].proof})
<1>1. \A s : /\ IsFiniteSet(in(s)) /\ Cardinality(in(s)) \in Nat
             /\ bucket(s) \in Seq(Reviewed) /\ Len(bucket(s)) = Cardinality(in(s))
  BY BucketFits
<1>2. /\ IsFiniteSet(proposed) /\ Cardinality(proposed) \in Nat
      /\ last \in Seq(Reviewed) /\ Len(last) = Cardinality(proposed)
  BY BucketFits
<1>3. \A s, t : s # t => in(s) \cap in(t) = {}
  BY DEF InState
<1>4. /\ IsFiniteSet(DOMAIN Order) /\ Cardinality(DOMAIN Order) = Len(Order)
      /\ proposed \subseteq DOMAIN Order /\ \A s : in(s) \subseteq DOMAIN Order
  BY OrderFacts, FS_Interval
<1>5. QueueOf(rows) = bucket("extracted") \o bucket("triaged") \o bucket("finalized")
                        \o last \o bucket("shipped")
  BY DEF QueueOf
<1> HIDE DEF in, proposed, bucket, last
<1> DEFINE two == in("extracted") \cup in("triaged")
           three == two \cup in("finalized")
           four == three \cup in("shipped")
<1>6. IsFiniteSet(two) /\ Cardinality(two) = Cardinality(in("extracted")) + Cardinality(in("triaged"))
  BY <1>1, <1>3, DisjointSizes
<1>7. IsFiniteSet(three) /\ Cardinality(three) = Cardinality(two) + Cardinality(in("finalized"))
  <2>1. two \cap in("finalized") = {}
    BY <1>3
  <2> HIDE DEF two
  <2> QED BY <1>1, <1>6, <2>1, DisjointSizes
<1>8. IsFiniteSet(four) /\ Cardinality(four) = Cardinality(three) + Cardinality(in("shipped"))
  <2>1. three \cap in("shipped") = {}
    BY <1>3
  <2> HIDE DEF three
  <2> QED BY <1>1, <1>7, <2>1, DisjointSizes
<1>9. four \in SUBSET DOMAIN Order
  BY <1>4
<1>10. Cardinality(four) <= Len(Order) /\ Cardinality(proposed) <= Len(Order)
  <2> HIDE DEF four
  <2> QED BY <1>4, <1>9, FS_Subset
<1> HIDE DEF two, three, four
<1>11. QueueOf(rows) \in Seq(Reviewed)
  BY <1>1, <1>2, <1>5
<1>12. Len(QueueOf(rows)) = Cardinality(in("extracted")) + Cardinality(in("triaged"))
          + Cardinality(in("finalized")) + Cardinality(proposed) + Cardinality(in("shipped"))
  <2> DEFINE a == bucket("extracted")
             b == bucket("triaged")
             d == bucket("finalized")
             e == bucket("shipped")
  <2>1. {a, b, d, e, last} \subseteq Seq(Reviewed)
    BY <1>1, <1>2
  <2>2. Len(a) = Cardinality(in("extracted")) /\ Len(b) = Cardinality(in("triaged"))
        /\ Len(d) = Cardinality(in("finalized")) /\ Len(e) = Cardinality(in("shipped"))
    BY <1>1
  <2>3. QueueOf(rows) = a \o b \o d \o last \o e
    BY <1>5
  <2> HIDE DEF a, b, d, e
  <2>4. Len(a \o b \o d \o last \o e) = Len(a) + Len(b) + Len(d) + Len(last) + Len(e)
    BY <2>1
  <2> QED BY <1>2, <2>2, <2>3, <2>4
<1>13. Len(QueueOf(rows)) <= 2 * Len(Order)
  BY <1>1, <1>2, <1>6, <1>7, <1>8, <1>10, <1>12, OrderFacts
<1> QED
  BY <1>11, <1>13 DEF Fits

----------------------------------------------------------------------------
(* The steps *)

\* The selected insight's place is in the queue, or nowhere.
LEMMA SelPlaceFits == ASSUME Fits(flat) PROVE SelPlace = 0 \/ SelPlace \in 1 .. Len(flat)
<1>1. IsSeq(flat)
  BY DEF Fits, IsSeq
<1> QED
  BY <1>1, PlaceFacts, SeqFacts, SelPlaceIs

\* The card under the keyboard is in the queue.
LEMMA CardFits ==
  ASSUME NEW f, Fits(f), NEW n \in 1 .. Len(f)
  PROVE  f[n] \in Reviewed /\ KeyTyped(n)
<1>1. f \in Seq(Reviewed) /\ Len(f) \in Nat /\ Len(f) <= 2 * Len(Order) /\ Len(Order) \in Nat
  BY OrderFacts DEF Fits
<1> QED
  BY <1>1 DEF KeyTyped

\* Requests whose panel has gone.
LEMMA Unlive ==
  ASSUME NEW as \in SUBSET ActRecord, AtMost(as, MaxActs), NEW e \in BOOLEAN
  PROVE  LET left == {[a EXCEPT !.live = @ /\ e] : a \in as}
         IN left \subseteq ActRecord /\ AtMost(left, MaxActs) /\ (~e => \A a \in left : ~a.live)
<1> DEFINE g == [a \in as |-> [a EXCEPT !.live = @ /\ e]]
           left == {[a EXCEPT !.live = @ /\ e] : a \in as}
<1>1. \A a \in as : [a EXCEPT !.live = @ /\ e] \in ActRecord /\ ([a EXCEPT !.live = @ /\ e].live => e)
  BY DEF ActRecord
<1>2. g \in [as -> ActRecord]
  BY <1>1
<1>3. {g[a] : a \in as} = left
  OBVIOUS
<1>4. AtMost(left, MaxActs)
  <2> HIDE DEF g, left
  <2>1. \A n \in Nat : AtMost(as, n) => AtMost(left, n)
    BY <1>2, <1>3, AtMostImage
  <2> QED BY <2>1, ReviewAssumption
<1> QED
  BY <1>1, <1>4

\* Requests nobody waits for any more are as many as they were.
LEMMA DoneFor == \A as \in SUBSET ActRecord :
  {[a EXCEPT !.live = FALSE] : a \in as} = {[a EXCEPT !.live = @ /\ FALSE] : a \in as}
  BY DEF ActRecord

\* An insight that opens is loading, with no rows on their way.
LEMMA OpenedTyped ==
  ASSUME row \in [Reviewed -> RowRecord], NEW i \in Reviewed \cup {"none"}
  PROVE  /\ Opened(i) \in PanelRecord /\ (Opened(i).up = "none" <=> i = "none")
         /\ i = "none" => Opened(i).due = {}
<1>1. i # "none" => row[i] \in RowRecord
  OBVIOUS
<1>2. Opened(i).due \in SUBSET RowRecord
  BY <1>1 DEF Opened
<1> QED
  BY <1>2 DEF Opened, PanelRecord

\* Selecting an insight, or none, leaves the requests behind.
LEMMA SelectTyped ==
  ASSUME row \in [Reviewed -> RowRecord], DeskTyped(sel, panel, acts),
         NEW i \in Reviewed \cup {"none"}, Select(i)
  PROVE  DeskTyped(sel', panel', acts')
<1>1. CASE i = sel
  BY <1>1 DEF Select
<1>2. CASE i # sel
  <2>1. sel' = i /\ panel' = Opened(i) /\ acts' = {[a EXCEPT !.live = FALSE] : a \in acts}
    BY <1>2 DEF Select
  <2>2. acts \in SUBSET ActRecord /\ AtMost(acts, MaxActs)
    BY DEF DeskTyped
  <2>3. acts' \subseteq ActRecord /\ AtMost(acts', MaxActs) /\ \A a \in acts' : ~a.live
    BY <2>1, <2>2, DoneFor, Unlive, Zenon
  <2> QED BY <2>1, <2>3, OpenedTyped DEF DeskTyped
<1> QED
  BY <1>1, <1>2

\* Another load of the queue.
LEMMA AskTyped ==
  ASSUME row \in [Reviewed -> RowRecord], QueuesTyped(coming), NEW keep, Ask(keep)
  PROVE  QueuesTyped(coming')
<1> DEFINE f == [list |-> QueueOf(row), keep |-> keep]
<1>1. Fits(f.list)
  BY QueueFits
<1>2. Cardinality(coming) < MaxFetches /\ coming' = coming \cup {f}
  BY DEF Ask
<1> HIDE DEF f
<1>3. AtMost(coming', MaxFetches)
  BY <1>2, AtMostWithRoom, ReviewAssumption DEF QueuesTyped
<1> QED
  BY <1>1, <1>2, <1>3 DEF QueuesTyped

\* The queue is empty when the page opens.
LEMMA ReviewTypedAtFirst == ReviewInit => ReviewTyped
<1> SUFFICES ASSUME ReviewInit PROVE ReviewTyped
  OBVIOUS
<1>1. row \in [Reviewed -> RowRecord]
  BY ReviewAssumption DEF ReviewInit, Reviewed, RowRecord
<1>2. Fits(flat) /\ KeyTyped(idx) /\ KeyTyped(sawIdx)
  BY OrderFacts DEF ReviewInit, Fits, KeyTyped
<1>3. QueuesTyped(coming)
  <2> DEFINE f == [list |-> QueueOf(row), keep |-> FALSE]
  <2>1. Fits(f.list)
    BY <1>1, QueueFits
  <2>2. coming = {f}
    BY DEF ReviewInit
  <2> HIDE DEF f
  <2>3. AtMost(coming, MaxFetches)
    BY <2>2, AtMostOne, ReviewAssumption
  <2> QED BY <2>1, <2>2, <2>3 DEF QueuesTyped
<1>4. DeskTyped(sel, panel, acts)
  <2>1. AtMost({}, MaxActs)
    BY AtMostNone, ReviewAssumption
  <2> QED BY <1>1, <2>1, OpenedTyped DEF ReviewInit, DeskTyped
<1>5. flush \in 0 .. MaxFlush /\ adrift \in BOOLEAN
  <2>1. flush = 0 /\ adrift = FALSE
    BY DEF ReviewInit
  <2>2. flush \in 0 .. MaxFlush
    BY <2>1 DEF MaxFlush
  <2>3. adrift \in BOOLEAN
    BY <2>1
  <2> QED BY <2>2, <2>3
<1> QED
  BY <1>1, <1>2, <1>3, <1>4, <1>5 DEF ReviewTyped

\* The two effects of a render.
LEMMA ChaseTyped == ASSUME ReviewTyped, Chase PROVE ReviewTyped'
<1>1. /\ row \in [Reviewed -> RowRecord] /\ DeskTyped(sel, panel, acts) /\ KeyTyped(idx)
      /\ Fits(flat) /\ QueuesTyped(coming) /\ flush \in 0 .. MaxFlush
  BY DEF ReviewTyped
<1>2. row' = row /\ flat' = flat /\ coming' = coming /\ sawIdx' = idx /\ adrift' = FALSE
  BY DEF Chase
<1>3. Len(flat) \in Nat /\ Len(flat) <= 2 * Len(Order) /\ Len(Order) \in Nat
      /\ DOMAIN flat = 1 .. Len(flat) /\ (flat # <<>> => Len(flat) # 0)
  BY <1>1, OrderFacts DEF Fits
<1>4. KeyTyped(idx')
  <2>1. idx' \in {SelPlace, LastPlace, idx} /\ (idx' = SelPlace => SelPlace # 0 \/ idx' \in {LastPlace, idx})
    BY DEF Chase
  <2>2. LastPlace \in {1} \cup 1 .. Len(flat)
    BY <1>3 DEF LastPlace
  <2>3. SelPlace = 0 \/ SelPlace \in 1 .. Len(flat)
    BY <1>1, SelPlaceFits
  <2> QED BY <1>1, <1>3, <2>1, <2>2, <2>3 DEF KeyTyped
<1>5. DeskTyped(sel', panel', acts')
  <2>1. CASE idx # sawIdx /\ idx \in DOMAIN flat
    <3>1. Select(flat[idx])
      BY <2>1 DEF Chase
    <3>2. flat[idx] \in Reviewed
      BY <1>1, <1>3, <2>1, CardFits
    <3> QED BY <1>1, <3>1, <3>2, SelectTyped
  <2>2. CASE ~(idx # sawIdx /\ idx \in DOMAIN flat)
    <3>1. sel' = sel /\ panel' = panel /\ acts' = acts
      BY <2>2 DEF Chase
    <3> QED BY <1>1, <3>1
  <2> QED BY <2>1, <2>2
<1>6. flush' \in 0 .. MaxFlush
  <2>1. flush' \in {0, flush} \/ (flush < MaxFlush /\ flush' = flush + 1)
    BY DEF Chase
  <2> QED BY <1>1, <2>1 DEF MaxFlush
<1> QED
  BY <1>1, <1>2, <1>4, <1>5, <1>6 DEF ReviewTyped

\* A click selects a card of the list.
LEMMA ClickCardTyped == ASSUME ReviewTyped, NEW i \in Reviewed, ClickCard(i) PROVE ReviewTyped'
<1>1. Select(i) /\ row' = row /\ flat' = flat /\ idx' = idx /\ coming' = coming
      /\ sawIdx' = sawIdx /\ flush' = flush /\ adrift' = adrift
  BY DEF ClickCard, FromOutside, Settled
<1>2. DeskTyped(sel', panel', acts')
  BY <1>1, SelectTyped DEF ReviewTyped
<1> QED
  BY <1>1, <1>2 DEF ReviewTyped

\* The keyboard walks within the queue.
LEMMA WalkTyped == ASSUME ReviewTyped, Walk PROVE ReviewTyped'
<1>1. /\ row' = row /\ flat' = flat /\ coming' = coming
      /\ sawIdx' = sawIdx /\ flush' = flush /\ adrift' = adrift
      /\ AtRest /\ flat # <<>>
  BY DEF Walk, FromOutside, Settled
<1>2. Fits(flat) /\ KeyTyped(idx) /\ row \in [Reviewed -> RowRecord] /\ DeskTyped(sel, panel, acts)
  BY DEF ReviewTyped
<1>3. idx \in 1 .. Len(flat) /\ Len(flat) \in Nat /\ Len(flat) <= 2 * Len(Order) /\ Len(Order) \in Nat
  <2>1. Len(flat) \in Nat /\ Len(flat) <= 2 * Len(Order) /\ Len(Order) \in Nat
    BY <1>2, OrderFacts DEF Fits
  <2>2. idx <= Len(flat)
    BY <1>1 DEF AtRest, LastPlace
  <2> QED BY <1>2, <2>1, <2>2 DEF KeyTyped
<1>4. CASE /\ idx' \in {IF idx < Len(flat) THEN idx + 1 ELSE idx, IF idx > 1 THEN idx - 1 ELSE idx}
           /\ UNCHANGED <<sel, panel, acts>>
  <2>1. KeyTyped(idx')
    BY <1>3, <1>4 DEF KeyTyped
  <2> QED BY <1>1, <1>4, <2>1 DEF ReviewTyped
<1>5. CASE Select(flat[idx]) /\ UNCHANGED idx
  <2>1. flat[idx] \in Reviewed
    BY <1>2, <1>3, CardFits
  <2>2. DeskTyped(sel', panel', acts')
    BY <1>2, <1>5, <2>1, SelectTyped
  <2> QED BY <1>1, <1>5, <2>2 DEF ReviewTyped
<1> QED
  BY <1>4, <1>5 DEF Walk

\* The loads of the queue: asked for, arrived, failed.
LEMMA LoadsTyped ==
  ASSUME ReviewTyped, Refresh \/ \E f \in coming : QueueArrives(f) \/ QueueFails(f)
  PROVE  ReviewTyped'
<1>1. /\ row \in [Reviewed -> RowRecord] /\ DeskTyped(sel, panel, acts) /\ KeyTyped(idx) /\ KeyTyped(sawIdx)
      /\ Fits(flat) /\ QueuesTyped(coming) /\ flush \in 0 .. MaxFlush /\ adrift \in BOOLEAN
  BY DEF ReviewTyped
<1>2. CASE Refresh
  <2>1. QueuesTyped(coming')
    BY <1>1, <1>2, AskTyped DEF Refresh
  <2>2. UNCHANGED <<row, flat, sel, idx, panel, acts, sawIdx, flush, adrift>>
    BY <1>2 DEF Refresh, FromOutside, Settled
  <2> QED BY <1>1, <2>1, <2>2 DEF ReviewTyped
<1>3. ASSUME NEW f \in coming, QueueArrives(f) PROVE ReviewTyped'
  <2>1. /\ coming' = coming \ {f} /\ flat' = f.list
        /\ UNCHANGED <<row, idx, sawIdx, flush>> /\ adrift' \in BOOLEAN
    BY <1>3 DEF QueueArrives, Settled
  <2>2. QueuesTyped(coming')
    BY <1>1, <2>1, AtMostPart, ReviewAssumption DEF QueuesTyped
  <2>3. Fits(f.list)
    BY <1>1, <1>3 DEF QueuesTyped
  <2>4. DeskTyped(sel', panel', acts')
    <3>1. CASE ~f.keep /\ sel = "none" /\ f.list # <<>>
      <4>1. f.list[1] \in Reviewed
        BY <2>3, <3>1 DEF Fits
      <4>2. Select(f.list[1])
        BY <1>3, <3>1 DEF QueueArrives
      <4> QED BY <1>1, <4>1, <4>2, SelectTyped
    <3>2. CASE ~(~f.keep /\ sel = "none" /\ f.list # <<>>)
      <4>1. sel' = sel /\ panel' = panel /\ acts' = acts
        BY <1>3, <3>2 DEF QueueArrives
      <4> QED BY <1>1, <4>1
    <3> QED BY <3>1, <3>2
  <2> QED BY <1>1, <2>1, <2>2, <2>3, <2>4 DEF ReviewTyped
<1>4. ASSUME NEW f \in coming, QueueFails(f) PROVE ReviewTyped'
  <2>1. /\ coming' = coming \ {f}
        /\ UNCHANGED <<row, flat, sel, idx, panel, acts, sawIdx, flush, adrift>>
    BY <1>4 DEF QueueFails, FromOutside, Settled
  <2>2. QueuesTyped(coming')
    BY <1>1, <2>1, AtMostPart, ReviewAssumption DEF QueuesTyped
  <2> QED BY <1>1, <2>1, <2>2 DEF ReviewTyped
<1> QED
  BY <1>2, <1>3, <1>4

\* The panel's loads and its form.
LEMMA PanelTyped ==
  ASSUME ReviewTyped, ReloadPanel \/ ToggleForm \/ \E d \in panel.due : Detail(d) \/ DetailFails(d)
  PROVE  ReviewTyped'
<1>1. DeskTyped(sel, panel, acts) /\ row \in [Reviewed -> RowRecord]
  BY DEF ReviewTyped
<1>2. panel \in PanelRecord /\ (panel.up = "none" <=> sel = "none") /\ (sel = "none" => panel.due = {})
  BY <1>1 DEF DeskTyped
<1>3. UNCHANGED <<row, flat, idx, sel, coming, acts, sawIdx, flush, adrift>>
  BY DEF ReloadPanel, ToggleForm, Detail, DetailFails, PanelStep, FromOutside, Settled
<1>4. panel' \in PanelRecord /\ panel'.up # "none" /\ sel # "none"
  <2>1. ASSUME NEW d \in panel.due, Detail(d) \/ DetailFails(d)
        PROVE  panel' \in PanelRecord /\ panel'.up # "none" /\ sel # "none"
    <3>1. d \in RowRecord
      BY <1>2 DEF PanelRecord
    <3>2. sel # "none"
      BY <1>2
    <3>3. CASE Detail(d)
      BY <1>2, <3>1, <3>2, <3>3 DEF Detail, PanelRecord
    <3>4. CASE DetailFails(d)
      BY <1>2, <3>2, <3>4 DEF DetailFails, PanelRecord
    <3> QED BY <2>1, <3>3, <3>4
  <2>2. CASE ReloadPanel
    <3>1. sel # "none" /\ sel \in Reviewed
      BY <1>1, <1>2, <2>2 DEF ReloadPanel, DeskTyped
    <3>2. row[sel] \in RowRecord
      BY <1>1, <3>1
    <3>3. (panel.due \cup {row[sel]}) \in SUBSET RowRecord
      BY <1>2, <3>2 DEF PanelRecord
    <3> DEFINE due == panel.due \cup {row[sel]}
    <3>4. panel' = [panel EXCEPT !.due = due, !.up = IF panel.shown.state = "unknown" THEN "loading" ELSE "shown"]
      BY <2>2 DEF ReloadPanel
    <3>5. due \in SUBSET RowRecord
      BY <3>3
    <3> HIDE DEF due
    <3> QED BY <1>2, <3>1, <3>4, <3>5 DEF PanelRecord
  <2>3. CASE ToggleForm
    <3>1. sel # "none" /\ panel' = [panel EXCEPT !.form = ~@]
      BY <2>3 DEF ToggleForm
    <3> QED BY <1>2, <3>1 DEF PanelRecord
  <2> QED BY <2>1, <2>2, <2>3
<1>5. DeskTyped(sel', panel', acts')
  BY <1>1, <1>3, <1>4 DEF DeskTyped
<1> QED
  BY <1>3, <1>5 DEF ReviewTyped

\* The card that comes next is one that is reviewed, or none.
LEMMA NextCardTyped == ASSUME Fits(flat) PROVE NextCard \in Reviewed \cup {"none"}
<1>1. SelPlace = 0 \/ SelPlace \in 1 .. Len(flat)
  BY SelPlaceFits
<1>2. flat \in Seq(Reviewed) /\ Len(flat) \in Nat
  BY DEF Fits
<1> QED
  BY <1>1, <1>2 DEF NextCard

\* A decision is one more under way.
LEMMA PressTyped ==
  ASSUME ReviewTyped, NEW kind \in {"triage", "finalize", "reject", "ticket", "confirm", "email"},
         PressAction(kind)
  PROVE  ReviewTyped'
<1>1. DeskTyped(sel, panel, acts) /\ Fits(flat)
  BY DEF ReviewTyped
<1>2. UNCHANGED <<row, flat, idx, sel, coming, panel, sawIdx, flush, adrift>>
  BY DEF PressAction, PanelStep, FromOutside, Settled
<1>3. sel \in Reviewed
  BY <1>1 DEF PressAction, Offers, DeskTyped
<1> DEFINE a == [kind |-> kind, id |-> sel, at |-> "sent", next |-> NextCard, live |-> TRUE]
<1>4. a \in ActRecord
  BY <1>1, <1>3, NextCardTyped DEF ActRecord
<1>5. acts' = acts \cup {a} /\ Cardinality(acts) < MaxActs
  BY DEF PressAction
<1> HIDE DEF a
<1>6. AtMost(acts', MaxActs)
  BY <1>1, <1>5, AtMostWithRoom, ReviewAssumption DEF DeskTyped
<1>7. sel # "none"
  BY <1>1 DEF PressAction, Offers, DeskTyped
<1>8. DeskTyped(sel', panel', acts')
  BY <1>1, <1>2, <1>4, <1>5, <1>6, <1>7 DEF DeskTyped
<1> QED
  BY <1>2, <1>8 DEF ReviewTyped

\* A decision that was served moves the row.
LEMMA MovedTyped ==
  ASSUME NEW r \in RowRecord, NEW kind \in {"triage", "finalize", "reject", "ticket", "confirm", "email"}
  PROVE  Moved(kind, r) \in RowRecord
<1>1. CASE kind \in {"triage", "finalize", "reject"}
  BY <1>1 DEF Moved, RowRecord
<1>2. CASE kind = "confirm"
  BY <1>2 DEF Moved, RowRecord
<1>3. CASE kind \in {"ticket", "email"}
  BY <1>3 DEF Moved
<1> QED
  BY <1>1, <1>2, <1>3

\* The server decides as the row's state allows.
LEMMA ServeActTyped == ASSUME ReviewTyped, NEW a \in acts, ServeAct(a) PROVE ReviewTyped'
<1>1. DeskTyped(sel, panel, acts) /\ row \in [Reviewed -> RowRecord]
  BY DEF ReviewTyped
<1>2. UNCHANGED <<flat, idx, sel, coming, panel, sawIdx, flush, adrift>>
  BY DEF ServeAct
<1>3. a \in ActRecord /\ acts \subseteq ActRecord /\ AtMost(acts, MaxActs)
  BY <1>1 DEF DeskTyped
<1>4. a.id \in Reviewed /\ a.kind \in {"triage", "finalize", "reject", "ticket", "confirm", "email"}
  BY <1>3 DEF ActRecord
<1>5. Moved(a.kind, row[a.id]) \in RowRecord
  BY <1>1, <1>4, MovedTyped
<1>6. row' \in [Reviewed -> RowRecord]
  <2>1. row' = row \/ row' = [row EXCEPT ![a.id] = Moved(a.kind, row[a.id])]
    BY DEF ServeAct
  <2> QED BY <1>1, <1>5, <2>1
<1> DEFINE b == [a EXCEPT !.at = IF Legal(a.kind, row[a.id]) THEN "ok" ELSE "no"]
<1>7. b \in ActRecord /\ b.live = a.live
  BY <1>3 DEF ActRecord
<1>8. acts' = (acts \ {a}) \cup {b}
  BY DEF ServeAct
<1> HIDE DEF b
<1>9. AtMost(acts', MaxActs)
  BY <1>3, <1>8, AtMostInPlace, ReviewAssumption
<1>10. DeskTyped(sel', panel', acts')
  BY <1>1, <1>2, <1>3, <1>7, <1>8, <1>9 DEF DeskTyped
<1> QED
  BY <1>2, <1>6, <1>10 DEF ReviewTyped

\* An answer goes to the panel that waits for it.
LEMMA PressAnsweredTyped == ASSUME ReviewTyped, NEW a \in acts, PressAnswered(a) PROVE ReviewTyped'
<1>1. DeskTyped(sel, panel, acts) /\ row \in [Reviewed -> RowRecord] /\ QueuesTyped(coming)
  BY DEF ReviewTyped
<1>2. UNCHANGED <<row, flat, idx, sel, sawIdx, flush, adrift>> /\ Ask(TRUE) /\ acts' = acts \ {a}
  BY DEF PressAnswered, PanelStep, FromOutside, Settled
<1>3. QueuesTyped(coming')
  BY <1>1, <1>2, AskTyped
<1>4. panel \in PanelRecord /\ (panel.up = "none" <=> sel = "none") /\ sel \in Reviewed \cup {"none"}
      /\ (sel = "none" => panel.due = {} /\ \A b \in acts : ~b.live)
      /\ acts \subseteq ActRecord /\ AtMost(acts, MaxActs)
  BY <1>1 DEF DeskTyped
<1>5. AtMost(acts', MaxActs) /\ acts' \subseteq acts
  BY <1>2, <1>4, AtMostPart, ReviewAssumption
<1>6. panel' \in PanelRecord /\ panel'.up = panel.up /\ (sel = "none" => panel'.due = {})
  <2>1. CASE a.live
    <3>1. sel \in Reviewed /\ sel # "none"
      BY <1>4, <2>1
    <3>2. (panel.due \cup {row[sel]}) \in SUBSET RowRecord
      BY <1>1, <1>4, <3>1 DEF PanelRecord
    <3> DEFINE due == panel.due \cup {row[sel]}
    <3>3. panel' = [panel EXCEPT !.due = due]
      BY <2>1 DEF PressAnswered
    <3>4. due \in SUBSET RowRecord
      BY <3>2
    <3> HIDE DEF due
    <3> QED BY <1>4, <3>1, <3>3, <3>4 DEF PanelRecord
  <2>2. CASE ~a.live
    <3>1. panel' = panel
      BY <2>2 DEF PressAnswered
    <3> QED BY <1>4, <3>1
  <2> QED BY <2>1, <2>2
<1>7. DeskTyped(sel', panel', acts')
  BY <1>2, <1>4, <1>5, <1>6 DEF DeskTyped
<1> QED
  BY <1>2, <1>3, <1>7 DEF ReviewTyped

\* A rejection that was answered leaves for the next card.
LEMMA RejectionTyped == ASSUME ReviewTyped, NEW a \in acts, RejectionAnswered(a) PROVE ReviewTyped'
<1>1. DeskTyped(sel, panel, acts) /\ row \in [Reviewed -> RowRecord] /\ QueuesTyped(coming)
  BY DEF ReviewTyped
<1> DEFINE e == a.next = sel
           kept == acts \ {a}
<1>2. /\ UNCHANGED <<row, flat, idx, sawIdx, flush, adrift>> /\ Ask(TRUE)
      /\ sel' = a.next
      /\ panel' = IF a.next = sel THEN [panel EXCEPT !.form = @ /\ ~a.live] ELSE Opened(a.next)
      /\ acts' = {[b EXCEPT !.live = @ /\ e] : b \in kept}
  BY DEF RejectionAnswered, FromOutside, Settled
<1>3. QueuesTyped(coming')
  BY <1>1, <1>2, AskTyped
<1>4. panel \in PanelRecord /\ (panel.up = "none" <=> sel = "none") /\ sel \in Reviewed \cup {"none"}
      /\ (sel = "none" => panel.due = {} /\ \A b \in acts : ~b.live)
      /\ acts \subseteq ActRecord /\ AtMost(acts, MaxActs)
  BY <1>1 DEF DeskTyped
<1>5. a \in ActRecord /\ a.next \in Reviewed \cup {"none"} /\ a.live \in BOOLEAN /\ e \in BOOLEAN
  BY <1>4 DEF ActRecord
<1>6. AtMost(kept, MaxActs) /\ kept \in SUBSET ActRecord
  BY <1>4, AtMostPart, ReviewAssumption
<1>7. acts' \subseteq ActRecord /\ AtMost(acts', MaxActs) /\ (~e => \A b \in acts' : ~b.live)
  <2> HIDE DEF e, kept
  <2> QED BY <1>2, <1>5, <1>6, Unlive, Zenon
<1>8. sel = "none" => \A b \in acts' : ~b.live
  BY <1>2, <1>4 DEF ActRecord
<1>9. CASE a.next = sel
  <2>1. panel' = [panel EXCEPT !.form = @ /\ ~a.live]
    BY <1>2, <1>9
  <2>2. panel' \in PanelRecord /\ panel'.up = panel.up /\ panel'.due = panel.due
    BY <1>4, <1>5, <2>1 DEF PanelRecord
  <2>3. DeskTyped(sel', panel', acts')
    BY <1>2, <1>4, <1>7, <1>8, <1>9, <2>2 DEF DeskTyped
  <2> QED BY <1>1, <1>2, <1>3, <2>3 DEF ReviewTyped
<1>10. CASE a.next # sel
  <2>1. panel' = Opened(a.next)
    BY <1>2, <1>10
  <2>2. DeskTyped(sel', panel', acts')
    BY <1>1, <1>2, <1>5, <1>7, <1>10, <2>1, OpenedTyped DEF DeskTyped
  <2> QED BY <1>1, <1>2, <1>3, <2>2 DEF ReviewTyped
<1> QED
  BY <1>9, <1>10

\* An answer nobody waits for is shown for a moment.
LEMMA ToastedTyped == ASSUME ReviewTyped, NEW a \in acts, Toasted(a) PROVE ReviewTyped'
<1>1. UNCHANGED <<row, flat, idx, sel, coming, panel, sawIdx, flush, adrift>> /\ acts' = acts \ {a}
  BY DEF Toasted, PanelStep, FromOutside, Settled
<1>2. DeskTyped(sel, panel, acts)
  BY DEF ReviewTyped
<1>3. AtMost(acts', MaxActs)
  BY <1>1, <1>2, AtMostPart, ReviewAssumption DEF DeskTyped
<1>4. DeskTyped(sel', panel', acts')
  BY <1>1, <1>2, <1>3 DEF DeskTyped
<1> QED
  BY <1>1, <1>4 DEF ReviewTyped

\* Every step keeps the types of the review queue.
LEMMA ReviewTypedStep == ReviewTyped /\ [ReviewNext]_reviewVars => ReviewTyped'
<1> SUFFICES ASSUME ReviewTyped, [ReviewNext]_reviewVars PROVE ReviewTyped'
  OBVIOUS
<1>1. CASE Chase
  BY <1>1, ChaseTyped
<1>2. CASE Walk
  BY <1>2, WalkTyped
<1>3. ASSUME NEW i \in Reviewed, ClickCard(i) PROVE ReviewTyped'
  BY <1>3, ClickCardTyped
<1>4. CASE Refresh \/ \E f \in coming : QueueArrives(f) \/ QueueFails(f)
  BY <1>4, LoadsTyped
<1>5. CASE ReloadPanel \/ ToggleForm \/ \E d \in panel.due : Detail(d) \/ DetailFails(d)
  BY <1>5, PanelTyped
<1>6. ASSUME NEW kind \in {"triage", "finalize", "reject", "ticket", "confirm", "email"}, PressAction(kind)
      PROVE  ReviewTyped'
  BY <1>6, PressTyped
<1>7. ASSUME NEW a \in acts, ServeAct(a) \/ PressAnswered(a) \/ RejectionAnswered(a) \/ Toasted(a)
      PROVE  ReviewTyped'
  BY <1>7, ServeActTyped, PressAnsweredTyped, RejectionTyped, ToastedTyped
<1>8. CASE UNCHANGED reviewVars
  <2>1. UNCHANGED <<row, flat, sel, idx, sawIdx, flush, adrift, coming, panel, acts>>
    BY <1>8 DEF reviewVars
  <2> QED BY <2>1 DEF ReviewTyped
<1> QED
  BY <1>1, <1>2, <1>3, <1>4, <1>5, <1>6, <1>7, <1>8 DEF ReviewNext

\* They are the type invariant.
LEMMA ReviewTypedIsTypeOK == ReviewTyped => ReviewTypeOK
  BY DEF ReviewTyped, ReviewTypeOK, DeskTyped, QueuesTyped, KeyTyped, AtMost, RowRecord, PanelRecord

\* The review page's types, for any number of insights, loads and presses: the queue
\* lists no insight more than twice, whatever its rows become, so the keyboard is
\* always at a place some queue could have; and a panel is open just when an insight
\* is selected, through every selection made while answers are on their way.
THEOREM ReviewTypeCorrect == ReviewSpec => []ReviewTypeOK
<1>1. ReviewInit => ReviewTyped
  BY ReviewTypedAtFirst
<1>2. ReviewTyped /\ [ReviewNext]_reviewVars => ReviewTyped'
  BY ReviewTypedStep
<1>3. ReviewTyped => ReviewTypeOK
  BY ReviewTypedIsTypeOK
<1> QED
  BY <1>1, <1>2, <1>3, PTL DEF ReviewSpec

=============================================================================
