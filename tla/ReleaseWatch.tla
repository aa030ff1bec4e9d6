---------------------------- MODULE ReleaseWatch ----------------------------
(***************************************************************************)
(* The mirror of a repository's releases and the matching of each release  *)
(* with the open insights.  A poll lists the newest of the feed, stores    *)
(* the releases it has not got, and then asks the judge about each insight *)
(* for the releases it stored itself; a changelog pasted by an admin is    *)
(* stored and matched the same way.  Every statement stands alone but the  *)
(* insertion of a release with its entries, and of a match with its event. *)
(***************************************************************************)
EXTENDS Naturals, Sequences, FiniteSets

CONSTANTS
  Timers,       \* the poller's own runs: hourly ticks of the server
  Admins,       \* polls and pasted changelogs admins start
  MaxRels,      \* bound on the feed's releases
  PageSize,     \* releases a poll asks for
  Tags,         \* ids of pasted changelogs, made from their tags
  Entries,      \* entries of a changelog that customers may read
  Asks,         \* insights that may be finalized, on a track that ships
  PollCrashes   \* bound on crashes

ASSUME PageAssumption == PageSize \in Nat /\ MaxRels \in Nat
ASSUME TagsAssumption == Tags \subseteq Nat \ (0 .. MaxRels)  \* "manual:<tag>" is no id of GitHub's

VARIABLES
  feed,      \* the repository's releases, oldest first: is each still a draft
  mirror,    \* rows of releases, by the id they are unique by
  asked,     \* insights open to matching now
  proposals, \* rows of release_matches, in order
  poll,      \* the runs in flight
  pollDeaths

releaseVars == <<feed, mirror, asked, proposals, poll, pollDeaths>>

Pollers == Timers \cup Admins
Dormant == [phase |-> "idle", todo |-> {}, rel |-> 0, fresh |-> {}, row |-> 0,
            asks |-> {}, ask |-> "none", entries |-> {}, entry |-> "none"]

ReleaseInit ==
  /\ feed = <<>>
  /\ mirror = <<>>
  /\ asked \in SUBSET Asks
  /\ proposals = <<>>
  /\ poll = [p \in Pollers |-> Dormant]
  /\ pollDeaths = 0

Mirrored(r) == \E n \in DOMAIN mirror : mirror[n] = r

----------------------------------------------------------------------------
(* The world around *)

\* The repository drafts and publishes releases.
Publish ==
  /\ \/ /\ Len(feed) < MaxRels
        /\ \E draft \in BOOLEAN : feed' = Append(feed, draft)
     \/ \E n \in DOMAIN feed : feed' = [feed EXCEPT ![n] = FALSE]
  /\ UNCHANGED <<mirror, asked, proposals, poll, pollDeaths>>

\* An insight becomes finalized or ticketed, or stops being so.
TurnAsk(i) ==
  /\ asked' = IF i \in asked THEN asked \ {i} ELSE asked \cup {i}
  /\ UNCHANGED <<feed, mirror, proposals, poll, pollDeaths>>

----------------------------------------------------------------------------
(* fetchReleases and upsertReleases *)

\* The newest releases as they are now, one page of them; drafts are skipped.  A failed
\* fetch stores nothing and ends the poll.
OnPage(n) == n + PageSize > Len(feed)

FetchReleases(p) ==
  /\ poll[p].phase = "idle"
  /\ poll' = [poll EXCEPT ![p] =
       [Dormant EXCEPT !.phase = "upsert",
                       !.todo = {n \in DOMAIN feed : OnPage(n) /\ ~feed[n]}]]
  /\ UNCHANGED <<feed, mirror, asked, proposals, pollDeaths>>

\* In the feed's order, newest first.  Known releases are skipped.
\* Mutant: the poll stops at the first release it knows.
LookUpToFirstKnown(p, n) ==
  /\ poll[p].phase = "upsert" /\ n \in poll[p].todo /\ \A m \in poll[p].todo : m <= n
  /\ IF Mirrored(n)
     THEN poll' = [poll EXCEPT ![p].todo = {}]
     ELSE poll' = [poll EXCEPT ![p].phase = "insert", ![p].rel = n, ![p].todo = @ \ {n}]
  /\ UNCHANGED <<feed, mirror, asked, proposals, pollDeaths>>

LookUp(p, n) ==
  /\ poll[p].phase = "upsert" /\ n \in poll[p].todo /\ \A m \in poll[p].todo : m <= n
  /\ poll' = [poll EXCEPT ![p] =
       IF Mirrored(n) THEN [poll[p] EXCEPT !.todo = @ \ {n}]
       ELSE [poll[p] EXCEPT !.phase = "insert", !.rel = n, !.todo = @ \ {n}]]
  /\ UNCHANGED <<feed, mirror, asked, proposals, pollDeaths>>

\* addManualRelease looks for the tag first; a known one is answered with 409.
LookUpTag(p, t) ==
  /\ p \in Admins /\ poll[p].phase = "idle"
  /\ ~Mirrored(t)
  /\ poll' = [poll EXCEPT ![p] = [Dormant EXCEPT !.phase = "insert", !.rel = t]]
  /\ UNCHANGED <<feed, mirror, asked, proposals, pollDeaths>>

\* The transaction with the release, its entries and its event.  The unique
\* index refuses the second of two polls, which throws and matches nothing, not
\* even the releases it had stored.
\* Mutant: releases without the unique index.
InsertReleaseTwice(p) ==
  LET r == poll[p].rel IN
  /\ poll[p].phase = "insert"
  /\ mirror' = Append(mirror, r)
  /\ poll' = [poll EXCEPT ![p] = [poll[p] EXCEPT !.phase = "upsert", !.rel = 0,
                                           !.fresh = @ \cup {Len(mirror) + 1}]]
  /\ UNCHANGED <<feed, asked, proposals, pollDeaths>>

InsertRelease(p) ==
  LET r == poll[p].rel IN
  /\ poll[p].phase = "insert"
  /\ IF Mirrored(r)
     THEN poll' = [poll EXCEPT ![p] = Dormant] /\ UNCHANGED mirror
     ELSE /\ mirror' = Append(mirror, r)
          /\ poll' = [poll EXCEPT ![p] = [poll[p] EXCEPT !.phase = "upsert", !.rel = 0,
                                                   !.fresh = @ \cup {Len(mirror) + 1}]]
  /\ UNCHANGED <<feed, asked, proposals, pollDeaths>>

----------------------------------------------------------------------------
(* matchRelease, for each release this run stored *)

\* The open insights, read once per release.
ReadOpen(p, n) ==
  /\ poll[p].phase = "upsert" /\ poll[p].todo = {} /\ n \in poll[p].fresh
  /\ poll' = [poll EXCEPT ![p] = [poll[p] EXCEPT !.phase = "judge", !.row = n,
                                           !.fresh = @ \ {n}, !.asks = asked]]
  /\ UNCHANGED <<feed, mirror, asked, proposals, pollDeaths>>

\* The judge's answer on one insight and all entries of the release: matches with some
\* of them, each grounded in the entry's own text and taken once; or none, or no answer
\* at all, which is logged and skipped.
Judge(p, i) ==
  /\ poll[p].phase = "judge" /\ i \in poll[p].asks
  /\ \E answer \in SUBSET Entries :
       poll' = [poll EXCEPT ![p] = [poll[p] EXCEPT !.phase = "check", !.asks = @ \ {i}, !.ask = i,
                                                 !.entries = answer]]
  /\ UNCHANGED <<feed, mirror, asked, proposals, pollDeaths>>

\* Entry by entry, the look for the pair ...
Proposed(n, e, i) ==
  \E k \in DOMAIN proposals : proposals[k] = [row |-> n, entry |-> e, insight |-> i]

CheckPair(p, e) ==
  /\ poll[p].phase = "check" /\ e \in poll[p].entries
  /\ poll' = [poll EXCEPT ![p] =
       IF Proposed(poll[p].row, e, poll[p].ask) THEN [poll[p] EXCEPT !.entries = @ \ {e}]
       ELSE [poll[p] EXCEPT !.phase = "propose", !.entry = e, !.entries = @ \ {e}]]
  /\ UNCHANGED <<feed, mirror, asked, proposals, pollDeaths>>

\* ... then the row and its event.  No index keeps the pair unique.
Propose(p) ==
  /\ poll[p].phase = "propose"
  /\ proposals' = Append(proposals,
       [row |-> poll[p].row, entry |-> poll[p].entry, insight |-> poll[p].ask])
  /\ poll' = [poll EXCEPT ![p] = [poll[p] EXCEPT !.phase = "check", !.entry = "none"]]
  /\ UNCHANGED <<feed, mirror, asked, pollDeaths>>

\* The next insight.
AnswerEnds(p) ==
  /\ poll[p].phase = "check" /\ poll[p].entries = {}
  /\ poll' = [poll EXCEPT ![p] = [poll[p] EXCEPT !.phase = "judge", !.ask = "none"]]
  /\ UNCHANGED <<feed, mirror, asked, proposals, pollDeaths>>

\* The release is done; the last one ends the run.
MatchEnds(p) ==
  /\ poll[p].phase = "judge" /\ poll[p].asks = {}
  /\ poll' = [poll EXCEPT ![p] = [poll[p] EXCEPT !.phase = "upsert", !.row = 0]]
  /\ UNCHANGED <<feed, mirror, asked, proposals, pollDeaths>>

PollEnds(p) ==
  /\ poll[p].phase = "upsert" /\ poll[p].todo = {} /\ poll[p].fresh = {}
  /\ poll' = [poll EXCEPT ![p] = Dormant]
  /\ UNCHANGED <<feed, mirror, asked, proposals, pollDeaths>>

\* The server stops in the middle of a run.
PollCrash(p) ==
  /\ poll[p].phase # "idle" /\ pollDeaths < PollCrashes
  /\ pollDeaths' = pollDeaths + 1
  /\ poll' = [poll EXCEPT ![p] = Dormant]
  /\ UNCHANGED <<feed, mirror, asked, proposals>>

\* runPollPipeline goes on by itself.
PollStep(p) ==
  \/ \E n \in DOMAIN feed : LookUp(p, n)
  \/ InsertRelease(p)
  \/ \E n \in DOMAIN mirror : ReadOpen(p, n)
  \/ \E i \in Asks : Judge(p, i)
  \/ \E e \in Entries : CheckPair(p, e)
  \/ Propose(p) \/ AnswerEnds(p) \/ MatchEnds(p) \/ PollEnds(p)

ReleaseNext ==
  \/ Publish
  \/ \E i \in Asks : TurnAsk(i)
  \/ \E p \in Pollers : FetchReleases(p) \/ PollStep(p) \/ PollCrash(p)
  \/ \E p \in Admins, t \in Tags : LookUpTag(p, t)

\* The hourly timer starts run after run, and a run that is not killed goes on;
\* nothing is assumed of admins, nor of what the judge answers.
ReleaseFairness ==
  \A p \in Timers : WF_releaseVars(FetchReleases(p)) /\ WF_releaseVars(PollStep(p))

ReleaseSpec == ReleaseInit /\ [][ReleaseNext]_releaseVars /\ ReleaseFairness

----------------------------------------------------------------------------
ReleaseTypeOK ==
  /\ feed \in Seq(BOOLEAN) /\ Len(feed) <= MaxRels
  /\ mirror \in Seq(1 .. Len(feed) \cup Tags)
  /\ asked \subseteq Asks
  /\ proposals \in Seq([row : 1 .. Len(mirror), entry : Entries, insight : Asks])
  /\ \A p \in Pollers :
       /\ poll[p].phase \in {"idle", "upsert", "insert", "judge", "check", "propose"}
       /\ poll[p].todo \subseteq DOMAIN feed /\ poll[p].asks \subseteq Asks
       /\ poll[p].fresh \subseteq 1 .. Len(mirror) /\ poll[p].entries \subseteq Entries
       /\ poll[p].phase = "insert" => poll[p].rel \in 1 .. Len(feed) \cup Tags
       /\ poll[p].phase \in {"judge", "check", "propose"} => poll[p].row \in 1 .. Len(mirror)

\* "re-running never duplicates a proposal" (matcher.ts:105), however many polls and
\* pasted changelogs run at once and whatever the judge answers: an insight is proposed
\* at most once for an entry of a release, although the pair is looked for before it is
\* written and no index keeps it unique.
MatchedOnce ==
  \A j, k \in DOMAIN proposals :
    /\ mirror[proposals[j].row] = mirror[proposals[k].row]
    /\ proposals[j].entry = proposals[k].entry
    /\ proposals[j].insight = proposals[k].insight
    => j = k

\* What is published is stored in the end, though polls fail, crash, overlap and stop at
\* the unique index, unless newer releases push it off the one page a poll asks for
\* (poller.ts:38).
FeedStored ==
  \A n \in 1 .. MaxRels :
    (n \in DOMAIN feed /\ ~feed[n]) ~> (Mirrored(n) \/ ~OnPage(n))
=============================================================================
