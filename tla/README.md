# Followthrough: a TLA+ model

Followthrough turns recorded client calls into *insights*, and carries each insight
from extraction through a human's sign-off, a GitHub ticket, a release and a
follow-up email to the client. It is a TypeScript server over one Postgres
database; every request, timer and serverless instance works on the same rows.
Nothing locks a row explicitly on the main paths, so what can go wrong is mostly
between a SELECT and the UPDATE that relies on it. Beside the server there are a
React application, whose pages keep state of their own between an event and an
answer, and a browser extension that records.

All paths below are relative to the repository, `src/...` being its own `src` directory.

## Inventory

| Component | State | Operations | Must be true | Modules |
|---|---|---|---|---|
| Insight lifecycle (`src/events.ts`, `src/insights`) | `insights` rows (state, assignee, track, body and its version, merge pointer); the append-only `events` | triage, edit, finalize, reject, merge, and `transitionInsight`, which everyone calls | the log chains, the cached state can be read from it, milestones are ordered, no lost edit, no merge cycle, states follow the map | `InsightLifecycle`, `Wording` |
| Tickets (`src/tickets`), evidence (`src/evidence`) | `tickets`, issues in GitHub, `completion_evidence` | draft, raise, file directly, sweep; propose, confirm, reject | tickets, evidence and states agree; a confirmation stays (refuted) | `InsightLifecycle` |
| Releases (`src/releases`) | `releases`, entries, `release_matches` | poll, paste, judge, confirm, reject | one match per entry of a release and insight; what is published is stored, or pushed off the page that is polled; a match is decided once | `ReleaseWatch`, `ProofPage`, `InsightLifecycle` |
| Emails (`src/emails`) | `email_drafts` | generate, copy, confirm sent, close | one chain of versions per client | `EmailDrafts`, `InsightLifecycle` |
| Extraction (`src/extract`) | `extraction_runs`, `insight_mentions`, `meeting_analyses` | run, fail, sweep, persist; clean, window and locate quotes | one live run per meeting; a quote once; a run ends; quotes point into the stored text | `MeetingLife`, `Segments` |
| Ingest (`src/ingest`), transcription (`src/stt`), retention (`src/retention`), storage (`src/storage.ts`) | `meetings`, `transcripts`, `media_assets`, blobs, the quota | upload, paste, transcribe, purge, sweep orphans | numbers, quota and files agree; a purge is final; a status is never stuck; unreferenced files within the sweep's reach go | `MeetingIntake`, `MeetingLife` |
| Hosted workspaces (`src/hosted`) | `control.*`: workspaces, members, credentials, sessions, used links | sign up, invite, accept, promote, sign in, revoke | limits hold in parallel; no unverified password opens a verified workspace | `HostedTenancy`, `Throttles` |
| Sign-in (`src/auth.ts`, `src/auth-routes.ts`) | users, codes, sessions, `require_login` | sign in, issue codes, revoke, close the house | somebody can log in to a closed house; a revoked person's sessions go | `SignIn`, `Throttles` |
| Model budget (`src/llm/provider.ts`) | spend per day, per deployment and per workspace | reserve, settle, refund | caps hold; what was billed stays counted | `ModelCalls` |
| Digest, cron (`src/digest`, `src/cron.ts`) | `digest.sent` events, the day's rotation | weekly digest, daily jobs of every workspace | one digest a Monday; every workspace's turn comes | `DailyJobs` |
| Search (`src/insights/search.ts`) | the full-text index | reindex, rebuild, query | the index follows the tables | `SearchIndex`, `SearchPages` |
| Calendar (`src/calendar`) | the feed's address, a cache per server | set, clear, look up | events are of the address set; local times are kept | `CalendarFeed`, `CalendarTimes` |
| Extension (`extension/`) | popup, service worker, offscreen document | start, stop, upload, retry, discard | a recording is uploaded, kept or given up by its user | `Recorder` |
| Web application (`web/`) | what each page keeps | loads, keys, clicks, drafts, batches | what is done goes to what is shown; late answers change no choice | `ReviewQueue`, `RecordPage`, `CapturePage`, `MeetingPage`, `SearchPages`, `ProofPage`, `Wording` |
| Database (`src/db.ts`) | pools, the transaction scope | `transaction` (re-entrant) | a nested call joins the outer transaction | `InsightLifecycle` |
| Exports, client share page, asking, metrics, evaluations, demo | reads and renderings | | no state machine of their own | see *Not modelled* |

The hard behaviours are listed one by one, each at its line, under `hazards` in
`PROJECT.json`: reads before a transaction used inside it, event ids drawn before
the commit, unconditional UPDATEs, a GitHub call inside a multi-step operation,
sweeps racing what they sweep, checks of a limit that count before they insert,
processes that die between two statements, and answers that arrive when the page
shows something else.

## Modules

The life cycle is one composition: everything that moves an insight through the map
shares its row and its log.

| Module | What it is |
|---|---|
| `Transitions` | The transition map of `src/events.ts`, who may take an edge, and which edges demand a reason. Pure operators, so the other modules and the proofs share them. |
| `LifecycleBoard` | The abstract specifications: insights on a board and a set of numbered moves. `BoardSpec` is what the docs promise, `LedgerSpec` what is left of it when requests interleave. |
| `InsightLifecycle` | Requests, rows, transactions and the event log. |
| `MCLifecycle` | Instances for TLC: the symmetry of requests. |
| `InsightLifecycleProofs` | Its inductive invariants and theorems, the two refinements included. |

The other components meet the life cycle only through rows it already has, and each
other through the rows named here, so each is a module of its own and is explored by
itself. `MCServices` picks one of them per behaviour (`part`) and leaves the others in
a fixed initial state; its type invariant is the conjunction of theirs.

| Module | State and actions, against the code |
|---|---|
| `MeetingLife` | One meeting after its upload. A call reads, waits for Deepgram or a model, and commits: `transcribeMeeting` in four actions, pasting, `extractMeeting` from its run's row to its persisting transaction, the brief, insights entered by hand, and the five steps of the purge, which updates the meeting first and so makes later writers of the row wait. `extraction_runs` with the sweep of stale runs, the unique index on quotes, failures and crashes are there; the judgement passes are choices over quotes. |
| `MeetingIntake` | How uploads become meetings: the quota's reservation, the search for the same bytes, a signed key checked, measured and perhaps removed, the blob, `media_assets`, the numbering transaction, the answer that may fail after it, and refunds, none of which share a transaction. Beside them a purge and the orphan sweep, which lists the first `MaxFolders` old folders and goes from one to the next. The store is a directory, a bucket, or the bucket of the hosted workspaces; where a key lies in it decides what a sweep can list. |
| `ReleaseWatch` | The poll (fetch the page of the `PageSize` newest, store what is missing, then for each entry judge, look for the pair and insert it), pasted changelogs, overlapping polls and crashes. |
| `EmailDrafts` | `generateDrafts` goes from client to client: text, latest version read, transaction that inserts and links. Copying, confirming and closing. |
| `HostedTenancy` | The registry against the schemas: two ways to build a workspace under the advisory lock, invitations, promotion of an unverified claim, sign-in by code, link and password, sessions, links used once, processes killed half-way. |
| `ModelCalls` | Two ledgers, each reserved by a conditional UPDATE; attempts, repairs, refusals and lost processes; settling upwards and downwards, and midnight in between. |
| `Throttles` | Four sliding windows over rows that carry the number of their request: the chain of hosted throttles, the count under an advisory lock before asking, failed codes, and failed passwords, which are recorded first and withdrawn when right. |
| `DailyJobs` | The digest's check, post and event as three steps of overlapping tries; the hosted sweep with its deadline and rotation. |
| `Recorder` | The popup, the service worker and the offscreen document with their message queues; handlers interleave at their awaits. A popup that could not ask for the state is `blind` and shows the start button. |
| `Wording` | One insight's wording in the full record and the review panel: text, loaded version, dirty flag, autosave, conflict, reload, finalization. |
| `CalendarFeed` | Setting, clearing, looking up: each server's cache is forgotten only by the server that changed the address. |
| `CalendarTimes` | `ics.ts`' two guesses of a zone's offset, as operators; only theorems are about it. |
| `Segments` | `cleanTranscript`, `chunkTranscript` and the whitespace-insensitive search for a quote, over every text up to a bound. Cleaning only takes characters away, so each of its steps is given by the places it keeps. |
| `SearchIndex` | The writers of the index as statements at READ COMMITTED: a DELETE takes the rows it saw, waits for locks, never looks again. |
| `ReviewQueue` | The queue's selection and keyboard position, chased by two effects that run after renders; loads and decisions answered late. |
| `RecordPage` | The full record, mounted while the address changes: loads, refreshes, tickets, proofs and drafts answered after the reader moved on. |
| `CapturePage` | The form that files a meeting and the screen after it: clients created, calendar suggestions, duplicates, transcription, extraction. |
| `MeetingPage` | Two answers laid over each other in order, what is ticked until the ordered ids change, batches of which single ids may fail, and loads every five seconds while transcribing, which may overlap. |
| `SearchPages` | The library and the palette: debounce, numbered and cancelled searches, unnumbered loads. |
| `ProofPage` | Matches confirmed and rejected on the page and elsewhere; the server's decision is a read and a transaction. |
| `SignIn` | Personal codes, the team's password, the guest; admins' requests read, check and write in separate statements. |
| `MCServices` | The scenarios: which requests occur together, one set per behaviour. |
| `MeetingProofs` | Theorems about `MeetingLife`, `MeetingIntake` and `Recorder`. |
| `ServerProofs` | Theorems about `SearchIndex`, `Wording`, `ReleaseWatch`, `EmailDrafts`, `DailyJobs`, `CalendarFeed` and `CalendarTimes`. |
| `HostedProofs` | Theorems about `HostedTenancy`, `SignIn`, `ModelCalls` and `Throttles`. |
| `PageProofs` | Theorems about the six page modules. |
| `SegmentProofs` | Theorems about `Segments`. |
| `ServiceProofs` | `MCServices` is its parts: what is proved of each holds of the composition. |
| `NaturalFacts` | The least and the greatest number of a set, which the library has only with an operator for a parameter, and sets of at most so many elements. |

Conventions shared by all: a handler in flight is a record with a `phase`; each
statement that others can observe is an action, and so is each wait for a service; a
transaction's writes take effect at its commit; "history" variables and fields
(commented so) record what happened and are read by no guard.

### How InsightLifecycle corresponds to the code

A **request** (`req[r]`) is a call of one handler. Its `phase` says how far it is:

| phase | the handler has | action that leads there |
|---|---|---|
| `begun` | read what it reads before its transaction | `BeginTriage` ... `BeginMarkStale` |
| `filed` | created the GitHub issue (`createDirect`) | `FileIssue` |
| `writing` | updated the operation's own row, first in the transaction | `EnterTx` |
| `checked` | read the insight in `transitionInsight` and passed the map, role and reason checks | `Check` (or `Refuse`, which rolls back) |
| `appended` | inserted the event, and so drawn its id | `AppendEvent` |
| `moved` | updated the merge source, not yet the target | `MoveSource` |
| `idle` | been answered | the `Commit...` actions, `Rollback` in `DeadlockAbort`, `EditConflict` and `Crash` |

- The isolation level is Postgres's default. A SELECT sees the committed rows and takes
  no lock; an UPDATE waits for its row (`Free`) and keeps it until the commit (`Holds`).
  A transaction's writes are applied at its commit action, in one step, which no other
  transaction can tell from applying them one by one: until then they are invisible,
  and the rows that stay locked between two actions are the ones `Holds` names.
  `transitionInsight` is called inside the handler's transaction where it has one
  (`transaction` in `src/db.ts` joins the outer scope).
- `saw` is what the handler read before the transaction, `from` what `transitionInsight`
  read. They are different SELECTs in the code, and may disagree.
- `log` holds the `insight.state_changed` events with a from-state, by id. A rolled back
  event leaves a `Gap`, as an identity column does. The event with which
  `insertNewInsight` records `extracted` is not in it: it is the initial state.
- Tickets, evidence and release matches carry the set of their own events, so that
  "the row, its event and the transition commit together" can be stated. A release
  match is a proposal in `Matches`; what differs is what its handlers refuse, and that
  confirming it inserts an evidence row each time.
- `DraftTicket`, `Propose` and `DraftEmails` test their gate and insert their row in one
  step, although a model call lies between in the code: nobody reads the row before it
  exists, so inserting it earlier allows every later history, and none more.
- A request refused on its first readings writes nothing and is left out: the `Begin`
  actions are guarded by those checks.
- Data is abstracted to what a guard or a property reads: a body is `text` or `empty`,
  an edit is the version its author had loaded, a reason is there or not. `adminOverride`
  has no caller and is left out, and so are tags, mentions, requesters, priority and the
  full-text index.

## Runs

| Run | Instance | Question |
|---|---|---|
| `lifecycle_races` | one insight, ticket and proposal, a member and an admin, two interchangeable requests that may crash, 5 events | Do the handlers implement the abstract ledger, and does the log agree with the tables, when two requests race through a whole life? |
| `lifecycle_merge` | two insights, two requests that may crash, 2 events, 2 body versions, fair | Are edits kept, do merge pointers and signatories agree with the log, and does every request end although merges deadlock? |
| `lifecycle_alone` | two insights, a ticket, a match, every operation, one request, 4 events | With one request at a time, do the handlers implement the board, and do merge pointers end at a live insight? |
| `services` | the 20 parts of `MCServices`, two actors each | What does each component promise under its own races? |
| `progress` | the five parts with timers, sweeps or queues, fair | What happens in the end? |
| `lifecycle_map`, `lifecycle_cycle`, `lifecycle_decide`, `lifecycle_reopen`, `meeting_purge`, `budget_repair`, `locked_wording` | one part each, one or two requests | Refute one statement of the documentation each: see *Findings*. |

What the passing runs check about the life cycle:

- `LogGrounded`: an event's from-state is `extracted` or a state that an earlier committed
  event of the insight recorded. It is not "the last state": a concurrent transition may
  lie in between, and that is the first finding.
- `LedgerSpec`: the refinement that holds whatever interleaves, with the board's state the
  cached states and its moves the committed events by id. A step that changes a cached state
  commits one event of that insight, along an edge of the map, to the new state; its
  from-state is `extracted` or one recorded under a lower id; and no step rewrites or
  withdraws an event. (`CacheInLog`, that the cached state is one the log records, is a
  theorem.)
- `MilestonesInOrder`: no turnaround time of the view `insight_milestones` is negative. The
  view takes the earliest `occurred_at` per state; a grounded event reads its from-state
  after the earlier event committed, so on one clock the order of ids and of times agree
  for the events compared.
- `TablesAgreeWithLog`: shipped, ticketed and notified insights have a confirmed proposal,
  a raised ticket and a copied draft, and conversely for proposals, whatever was refused,
  deadlocked or crashed.
- `NoLostEdit`: the k-th saved edit was written by somebody who had loaded version k.
- `SecondUpdatesMatchLog`: a merge and a finalization write the insight twice in their
  transaction; the pointer and the signatory of the second UPDATE agree with the log even
  when other transitions write the row too.
- `RequestsAnswered`: every request ends, merges that wait for each other included.
- `BoardSpec`: the refinement that the docs promise: a move starts from where its insight
  stands, and gets the highest number. It holds for one request at a time; for two the
  first finding refutes it.
- `MergesAreAcyclic`: following merge pointers never comes back. It is checked with one
  request at a time, because mergeInsight checks its target before its transaction and
  does not repeat the check; `lifecycle_cycle` shows what two requests do.

What `services` checks, with the exceptions the code makes necessary. Each exception
was found by TLC as a counterexample to the statement without it, and each is part of
the property:

| Property | Promise | But |
|---|---|---|
| `NoQuoteTwice` | extracting again, after a failure or by force, never records a quote twice | a run swept alive (`SweepsLive`), a meeting purged meanwhile |
| `MeetingSettles` | a purge nobody raced is final, and the meeting can be transcribed again | calls in flight during the purge; a process that died leaves the status |
| `IntakeExact` | numbers, quota and files come out right whatever overlaps | a row written a day after its key was issued, or after a purge of the key's first meeting; a charge given back because the answer failed after the meeting was stored |
| `SameBytesOnce` | no meeting is made of bytes a standing one had when the request looked | a transcript whose upload event is held by a meeting purged since; of uploads that overlap nothing is said, both may look before either is stored |
| `MatchedOnce` | one entry of a release and one insight have one match | |
| `DraftHistory` | a client's drafts are one chain with one head | overlapping generations give more heads |
| `SchemasOwned` | a schema without a row belongs to a sign-up in flight or killed; the limit holds | |
| `DoorsHold` | one sign-in for a link, members only, no password from before the proof | whoever was cut off, or left inside by a decline |
| `CapsHold` | ledgers pass their caps only by what calls cost above their reservation | |
| `SpendStays` | what was billed stays in the workspace's ledger and in everyone's | a call that has yet to settle upwards, a lost settlement, a refused repair |
| `LimitsHold` | requests that count together pass no limit | rows a right password withdrew; a request the pruning overtook |
| `DigestOnceAlone` | one digest a Monday | overlapping checks, a death between post and event |
| `RecordingKept` | no order of commands loses a recording, while people wait for the messages on their way (`Patient`) | its user discards it, the browser closes the document, or Start is pressed in a popup whose `GET_STATE` failed |
| `WordingKept` | nothing is saved over unread, nothing blank finalized | a save while loading; an edit between check and transaction |
| `FeedFollowsSettings` | events come from the address set at the time | other servers' caches, for the lifetime |
| `QuotesFoundWhole` | short passages are whole in a window and found where they are | |
| `IndexFollows` | one current row per insight and transcript, nothing purged | writers that overlapped with nothing in common, until one runs alone |
| `SelectionSettles` | the page comes to rest within a few renders, the keyboard at the selected insight | a keyboard on its second card when a new queue came |
| `AddressedAsShown` | what is pressed goes to what is shown | the answer of a record left behind |
| `KeepsToItsMeeting` | a meeting is filed under the client chosen last | a late client creation, a late summary |
| `AnswersLeaveChoices` | answers never tick again what was unticked | the found insights changed, or came in another order |
| `ShowsWhatWasAsked` | at rest, results are of the text and filters shown | loads that overtake each other; nothing is said while a search is awaited, when the old results stand under the new text (`web/src/pages/Insights.tsx:529`) |
| `DecidedOnce` | a match is decided once, with one row of evidence | decisions that overlap on the server, a load that left before |
| `HouseKept` | while login is required somebody can log in; no session from before a revocation lets anybody in | a revocation that overlaps another or the closing; a sign-in already checked |

`progress` checks `RunsEnd`, `OrphansGo`, `FeedStored`, `EachSwept` and `RetryOffered`, each
commented at its definition. Two of them are bounded by what the code looks at: an orphan goes
if the sweep's listing comes to reach its folder and goes on to, and a release is stored or is
pushed off the one page a poll asks for. What lies beyond is listed under *Findings*.

**Bounds of the life cycle.** `MaxEvents` bounds transition events: five are the longest
way through the map (triaged, finalized, ticketed, shipped, notified or closed), so the
run with races reaches every state but merged, which `lifecycle_merge` has; `Room` reserves
an event for each request in flight, so that no request waits for the bound. Two requests
suffice for every race between a reading and a write, and for the deadlock of two merges;
`MaxVersion` 2 lets two editors load the same version. `MaxIssues` bounds the GitHub issues
of a ticket. Requests are interchangeable, so the run with races uses their symmetry; the
run with liveness does not.

**Bounds of the services.** About 1 200 000 states, three and a half minutes with two workers. Every
part but `segments` has at least two actors, since each hazard listed is a race of two:

- meeting: two calls, two quotes, two runs, an insight from an earlier meeting and two new
  ones, in four mixes of operations; intake: two uploads of the same bytes in four mixes of
  way and store (signed to a bucket, signed in a hosted workspace, inline to a directory,
  files and text in a hosted workspace), two keys, a quota of two, a purge, and a sweep that
  looks at one old folder.
- releases: one timer and one admin, a release on a page of one and a pasted tag, two
  entries, one insight, one crash; drafts: two generations, two clients, two drafts a client.
- tenancy: two visits, two people, one link, room for one workspace of two members, in six
  sets of doors; budget: two callers, a cap of three and two worst cases, costs 0 and 2 (so
  a call can cost more than reserved), one midnight; throttles: two requests at
  once and three in all (four for failed codes), limits and windows of 1 over three ticks, so a
  row can leave its window before it is counted again.
- daily: two tries, two Mondays, three tries a Monday; recorder: two handlers, two
  recordings, two retries, the document may die; wording: one person in each editor, at
  most three versions, one load in flight, four kinds of session; feed: one server, two
  look-ups, one change, two addresses, three instants.
- segments: every text up to five characters of a letter, a blank, a line end and a
  timestamp, windows of 3 overlapping by 2; index: six crews of three writers.
- pages: two insights, meetings or matches, up to four steps of the reader, two fetches and
  one or two posts in flight; two to five scenarios a page. Proof needs three confirmations for
  the busy mark of one card to lift that of another.
- sign-in: two people and three houses: two admins behind a closed wall, an empty open
  house where the guest makes three requests, and a house whose login is forced, with a
  team password.

In `progress` the hosted sweep has up to four workspaces with room for one a day. The feed has
three releases and a page of two, so that one can be pushed off it; nothing is pasted. Two keys
and a sweep of one folder let one file stand before another. One quote, one upload and one
meeting are enough for what must end.

**Deadlock** is not checked: an instance whose events are used up, or that nobody calls,
may stop, and waits of requests are covered by `RequestsAnswered`.

**Fairness.** For the life cycle it is strong fairness of `Step(r)`: a handler that has
started runs on, and a waiting UPDATE is granted its row, since Postgres queues waiters
first come first served. The strong form is needed because a row becomes free and taken
again while a request waits. Nothing is assumed about clients (`Arrive`, `Suggest`) or
crashes. The deadlock detector belongs to `Step`: Postgres runs it after
`deadlock_timeout`. For `progress` it is fairness of what runs by itself: calls in flight
continue, the server's timers and the daily cron fire (`src/server.ts`, `src/cron.ts`,
`vercel.json`), and the browser delivers messages. No click is ever owed.
Of the daily orphan sweeps, some list all the folders in their reach and go through, again and
again, and keys grow old: that is strong fairness of `SweepList`, since a listing may be empty
in between, and weak fairness of the steps from folder to folder.

## Findings

1. **A state can change along no edge of the map** (`lifecycle_map`). `transitionInsight`
   checks a state it read without a lock and then updates the row unconditionally. A
   rejection and a finalization that read the same state both commit, and the insight
   leaves the terminal state `rejected`. `SPEC.md:55` says transitions are validated
   against the map.
2. **Two insights can be merged into each other** (`lifecycle_cycle`). The check of the
   target is made before the transaction. `SPEC.md:39` promises one canonical insight.
3. **Confirmed evidence can become rejected** (`lifecycle_decide`). The rejection's check
   is made before its transaction too, and its UPDATE is unconditional.
   `src/evidence/service.ts:195` says a rejection would contradict the event log.
4. **An insight can be reopened without a reason** (`lifecycle_reopen`). `SPEC.md:54`
   requires one; finalizing a closed insight passes none and none is asked.
5. **A meeting's brief survives its purge** (`meeting_purge`). `SPEC.md:109` has the purge
   destroy transcript and derived quotes; `meeting_analyses`, whose prompt asks for short
   quotes, is not touched by `src/retention/service.ts:109`.
6. **A billed answer is refunded** (`budget_repair`). A JSON call whose first answer was
   billed and whose repair is refused gets its whole reservation back
   (`src/llm/provider.ts:348`), although `provider.ts:137` keeps the refund for calls
   that cannot have been billed.
7. **Locked wording changes** (`locked_wording`). Saving compares the version only
   (`src/insights/service.ts:366`), finalizing does not move it, and a page that has not
   heard of the finalization saves on. `web/src/pages/InsightDetail.tsx:797` tells the user
   that the summary cannot be edited afterwards.

TLC refuted more on the way, which the properties name as exceptions and no run keeps:

- A purge deletes the row of a run that is at work; a paste and a second extraction then
  find the first one's quotes again.
- Creating a workspace declines the invitation it has read, by deleting whatever membership
  the email has by then (`src/hosted/routes.ts:342`). If that is one of a workspace made
  meanwhile, the membership goes, and its user and sessions stay.
- The review queue's keyboard can rest on another insight than the selected one, when a new
  queue comes while it stands on the selected insight's second card.
- While a call's cost has passed what it reserved and it has not settled, the ledger holds
  less than was billed.
- Uploading the same bytes at once makes two meetings (`SPEC.md:102` promises one).
- A release whose poll died after storing it is never judged.
- The daily sweep does not reach every orphan. In a hosted workspace it lists only what is
  under the workspace's name (`src/cron.ts:84`), and what is uploaded inline is stored under a
  folder of its own (`src/ingest/media.ts:133`). It keeps the first 500 old folders
  (`src/storage.ts:282`), whatever is in them: directories emptied by earlier sweeps and
  recordings that stay can fill the 500, and what comes after is never looked at.
- A read that fails after the meeting was stored (`src/ingest/service.ts:349`) answers with an
  error, and `src/ingest/routes.ts:51` gives the charge of the quota back.
- A transcript uploaded again after a purge of its first meeting, and then once more, makes two
  standing meetings: the purged one holds the upload event, so the second has none to be
  found by.
- A release that newer ones pushed off the page of 30 while polls failed is never stored
  (`src/releases/poller.ts:38`).
- A popup opened again before its last command was answered can lose a recording. So can a
  popup whose `GET_STATE` failed: it shows the start button (`extension/src/popup.ts:454`), and
  Start passes the worker unless that records or uploads (`extension/src/background.ts:66`) and empties the
  document (`extension/src/offscreen.ts:46`), although `extension/STORE_LISTING.md:87` says that only an upload or
  Discard does. Over an upload whose end is still to be reported, such a Start can cost the
  next recording too.
- The ticks of the meeting page are set again when the found insights come back in another
  order (`web/src/pages/Meeting.tsx:223`), the rows of one run having one `created_at`.
- The index goes on serving purged text when a purge overlapped a rebuild, or an
  extraction's indexing, though `src/retention/service.ts:144` says it must not; and the
  search joins meetings without asking for `deleted_at`.
- Two admins can revoke each other, or the house be closed while its last coded admin is
  revoked; a sign-in checked before a revocation opens a session that a later re-enabling
  honours. Requiring login counts coded *members*, so no admin may be able to sign in.
- Two confirmations at once of a match on a shipped insight write two rows of evidence,
  which one page can cause: its single `busyId` is lifted by another card's answer.
- The comment at `web/src/pages/Meeting.tsx:253`, "the detail reload already updated the
  inline rows", is not so: a stale list is laid over the detail.

## Proofs

TLAPS proves these for every value of the constants (any number of requests, users,
insights, workspaces, clicks, and every bound), with crashes or without:

| Module | Theorem | Statement |
|---|---|---|
| `InsightLifecycleProofs` | `Invariance` | `Spec => []IndInv` |
| | `TypeCorrect`, `LogIsGrounded` | `Spec => []TypeOK`, `Spec => []LogGrounded` |
| | `LogInvariance` | `Spec => []LogInv` |
| | `CacheIsInLog`, `MilestonesAreOrdered` | `Spec => []CacheInLog`, `Spec => []MilestonesInOrder` |
| | `TableInvariance` | `Spec => []TableInv` |
| | `NoEditIsLost`, `SecondUpdatesStay`, `TablesAlwaysAgree` | `Spec => []NoLostEdit`, `[]SecondUpdatesMatchLog`, `[]TablesAgreeWithLog` |
| | `LedgerIsImplemented` | `Spec => LedgerSpec`, the refinement of the abstract ledger |
| | `AloneInvariance`, `AloneMergesAreAcyclic` | with `Alone`: `Spec => []AloneInv`, `[]MergesAreAcyclic` |
| | `AloneStatesFollowMap`, `AloneConfirmedStands` | with `Alone`: `Spec => StateFollowsMap`, `Spec => ConfirmedStands` |
| | `AloneBoardIsImplemented` | with `Alone`: `Spec => BoardSpec`, the refinement of the board |
| `MeetingProofs` | `LifeInvariance`, `MeetingAlwaysSettles` | `LifeSpec => []LifeInv`, `[]MeetingSettles` |
| | `QuotesNeverTwice` | with `~SweepsLive`: `LifeSpec => []NoQuoteTwice` |
| | `IntakeInvariance`, `IntakeAlwaysExact`, `SameBytesAlwaysOnce` | `IntakeSpec => []IntakeInv`, `[]IntakeExact`, `[]SameBytesOnce` |
| | `RecordingAlwaysKept`, `RecorderTypeCorrect` | with `Patient`: `RecorderSpec => []RecordingKept`, `[]RecorderTypeOK` |
| `ServerProofs` | `IndexInvariance`, `IndexAlwaysFollows` | `IndexSpec => []IndexInv`, `[]IndexFollows` |
| | `WordingAlwaysKept` | `WordingSpec => []WordingKept` |
| | `ReleaseInvariance`, `MatchedAlwaysOnce` | `ReleaseSpec => []ReleaseInv`, `[]MatchedOnce` |
| | `DraftInvariance`, `DraftsAlwaysChain` | `DraftSpec => []DraftInv`, `[]DraftHistory` |
| | `DigestAlwaysOnceAlone` | `DailySpec => []DigestOnceAlone` |
| | `FeedAlwaysFollows` | `FeedSpec => []FeedFollowsSettings` |
| | `WallTimesKept`, `SkippedTimesNear` | what two guesses of an offset give |
| | `IndexTypeCorrect`, `WordingTypeCorrect`, `ReleaseTypeCorrect`, `DraftTypeCorrect`, `DailyTypeCorrect`, `FeedTypeCorrect` | the type invariant of each |
| `HostedProofs` | `TenancyInvariance` | `TenancySpec => []TenancyInv` |
| | `WorkspacesAlwaysOwned`, `DoorsAlwaysHold` | `TenancySpec => []SchemasOwned`, `[]DoorsHold` |
| | `HouseAlwaysKept` | `SignInSpec => []HouseKept` |
| | `BudgetInvariance`, `CapsAlwaysHold` | `BudgetSpec => []BudgetInv`, `[]CapsHold` |
| | `SpendAlwaysStays` | `BudgetSpec => []SpendStays` |
| | `ThrottleInvariance`, `LimitsAlwaysHold` | `ThrottleSpec => []ThrottleInv`, `[]LimitsHold` |
| | `SignInTypeCorrect`, `BudgetTypeCorrect` | the type invariant of each |
| `PageProofs` | `SelectionAlwaysSettles` | `ReviewSpec => []SelectionSettles` |
| | `MatchesAlwaysDecidedOnce` | `ProofSpec => []DecidedOnce` |
| | `AlwaysAddressedAsShown` | `RecordSpec => []AddressedAsShown` |
| | `AlwaysKeepsToItsMeeting` | `CaptureSpec => []KeepsToItsMeeting` |
| | `AlwaysShowsWhatWasAsked` | `SearchSpec => []ShowsWhatWasAsked` |
| | `AnswersAlwaysLeaveChoices` | `MeetingPageSpec => []AnswersLeaveChoices` |
| | `ReviewTypeCorrect`, `RecordTypeCorrect`, `CaptureTypeCorrect`, `MeetingPageTypeCorrect`, `SearchTypeCorrect`, `ProofTypeCorrect` | the type invariant of each |
| `SegmentProofs` | `CleanIsIdempotent` | `Clean(Clean(s)) = Clean(s)` for every text |
| | `SegmentTypeCorrect`, `QuotesAlwaysFoundWhole` | `SegmentSpec => []SegmentTypeOK`, `[]QuotesFoundWhole` |
| `ServiceProofs` | `PartsRun` | `MCSpec` implies every part's specification, fairness aside |
| | `ServicesTypeCorrect` | with `Patient`: `MCSpec => []ServicesTypeOK` |
| | `ServicesAlwaysKept` | with `Patient` and `~SweepsLive`: `MCSpec => []ServicesKept`, the 24 properties of `services` beside the types |

Every safety property that `lifecycle_races`, `lifecycle_merge` and `lifecycle_alone` check is
proved, the two refinements included, and every one of `services`, each by itself and all of
them together in the composition the run explores.

**Hypotheses.** The assumptions on constants are named in the modules that declare them; they
say that bounds are numbers (at least one for the recorder's retries, the days of a rotation, a
stored version and the loads a page may have in flight), that some sets are finite, that a
scenario's records have the fields they are read for, and that a sentinel such as `"none"` is
no member of a set. `Throttles` also assumes that a request passes
each throttle once, that what is pruned is older than every window (`PruneAge`), and that the
email and the address of a failed code share limit and window, as `src/auth.ts:131` has them.
Some theorems have one hypothesis more, which is a constant of the model and has the same value
in the run that checks the property:

- `Alone`: requests come one at a time. The four findings about the life cycle's interleavings
  are what happens without it.
- `~SweepsLive`: an extraction run is not swept as stale while it is still alive. The stale
  limit (ten minutes, `src/extract/pipeline.ts:262`) is longer than a serverless function may
  run (`vercel.json`), so such a deployment satisfies it; a plain server, where nothing cuts a
  call off, need not.
- `Patient`: people click, and open the extension's popup, only when the messages on their way
  have been delivered. A popup opened again before its last command was answered can lose a
  recording, as said under *Findings*.

*Why strengthen: the life cycle.* `TypeOK` is not inductive: a commit writes the row its
request names, so a request must name rows that exist and that belong to its insight
(`RequestOK`, `NamesRows`, `RowsKnown`). `LogGrounded` speaks of committed events; an event is
grounded when it is appended, from a state read earlier, in a row that was written earlier. So
`Grounded` requires it of the cached states, of the states requests have read, and of pending
events, and `EventsOwned` says that a pending event belongs to exactly one open transaction,
which is the only one to commit it or turn it into a gap. `IndInv` is their conjunction.
Grounding survives every step because a committed event is never rewritten: what was grounded
stays grounded.

*From the log to the milestones.* `LogInv` adds that every event is an edge of the map
(`EdgesKnown`) and that an insight with a committed event has left `extracted`
(`EventsMoved`, since no edge leads back). `CacheInLog` follows at once. For
`MilestonesInOrder`, an event into `shipped` starts from `finalized` or `ticketed` and is
grounded, so an earlier event leads there, and so on down the map (`OrderedByLog`).

*From the log to the tables.* A confirmation of a match on an insight it saw shipped makes
no transition, so what ships the insight must be carried by what it saw (`SeenShipped`).
The rows of tickets, proposals and drafts carry their events (`EventRows`), and everyone who
acts is known (`ActorsKnown`). `NoLostEdit` rests on the UPDATE's condition on the version,
which is checked again when the row lock is granted. The one assumption used is that `None`
is no insight and no user.

*The refinements.* A commit that has an event is one move of the ledger: `EventsOwned` gives
the event that was pending, `LogInv` its edge and where it is grounded. Every other step,
a rollback, a refusal, a crash or a deadlock's victim included, leaves the cached states and
the committed events alone, which makes it a stutter. Alone, what a request has checked still
holds when it writes (`ChecksHold`), so the event starts where the insight stands, and no
other id can have been drawn since.

*A meeting.* `MeetingSettles` is about the end of a purge, so the invariant follows a purge
from its beginning: one that is still alone has only purges beside it and will refresh every
insight with a mention (`PurgesAlone`), and what is found by a quote has a mention
(`IndexMentioned`). `NoQuoteTwice` needs who wrote what: a run that is persisting has claimed
its meeting, and only the run that succeeded has its mentions standing. `IntakeExact` needs
what an upload knows between its steps: the number it has read (`NumbersRead`), the object it
writes a row for (`PutBacked`), that a request to be answered with 201 has its meeting and a
charge given back belongs to one (`UnpaidHaveMeetings`), that what is removed as mismatched was
cut short and so has no row (`MismatchedIsCut`), and that a sweep has only keys that were old
when it listed them (`SweepIsOld`). `SameBytesOnce` needs
whose the rows are: a standing meeting's recording has its own row, with its hash (`AudioOwned`),
which before belonged to one upload alone (`MeetingHeld`, `HeldApart`), and each hash of a
meeting is claimed by one (`ClaimsKnown`); so a request past its look has left behind no meeting
that the look could have found (`LookedUp`). For the recorder, popup, worker and document must agree: one command at a
time, which finds them as the popup showed them (`RecorderHeld`). A blind Start breaks that
agreement once and for all; the invariant then only has it that every recording so far is
excused by it, or comes after it (`Adrift`).

*The server's other parts.* A writer of the index that nobody disturbs has, at every one of
its steps, deleted all the rows there are and inserted those there should be (`AllPrepared`).
A save names the version its author was shown, so the editor must name it before
(`VersionsAreRead`), and the save on its way too (`SavesAreRead`). `MatchedOnce` is not about
the look for a pair alone, which two runs could do together: no two runs ever work on one
release (`MatchedByOne`), because only the one that stored it does, and so what a run looked for
and did not find is still not there when it inserts (`LooksHold`). A draft's successor is inserted by
a generation that has read it (`ReplacesOwn`), and while generations do not overlap it has read
the current one (`AloneAndFresh`). A digest's check looks only at the latest `digest.sent`
event: on a Monday without overlaps its checks come one at a time (`ChecksAlone`), what one
posted is logged before the next (`PostedOnce`), and once logged the latest event is that
Monday's as long as it is checked (`LatestIsToday`). A cache entry of the feed is dated by the
look that found the cache without it, which is before its events were read
(`EntriesDatedEarly`).

*The zones.* A zone is any offset before and any after one change of its clocks. A wall time
that exists reads back as itself after two guesses, on both sides of the change; one pass
would not do it. A wall time the change skipped becomes an instant that reads off by exactly
what the change moves the clocks.

*Workspaces and the house.* Registry, schemas, members, links and sessions hold together
through the visits on their way: who builds a schema (`SpacesBuilt`), what a membership points
to (`MembersPlaced`), who claimed a link (`LinksClaimed`), which credential a password login
holds until it commits (`LoginsHold`), and whose a session is (`SessionsPlaced`). An admin's
request reads, checks and writes one after the other, so what it checked must still stand when
it writes, or another request is in flight and the promise says so (`CheckedStands`).

*The budget.* A ledger stays under its cap because each reservation was within it when it was
made; each conditional UPDATE is one step, which is why no assumption about the number of
callers is needed. That what was billed stays is about a sum: a ledger is at least what was
billed and, on top, what each call in flight still has to give back (`Owing`), less what it
still has to add. The sum over the callers is a walk along a numbering of them (`SumIs`), which
exists as they are finitely many; a step changes one summand (`SumChanges`), and what is
nowhere negative has no negative sum (`SumNotNegative`).

*The throttles.* `LimitsHold` says nothing of a request between its row and its verdict, so the
invariant counts what has passed together with what may still pass (`AdmittedWithin`,
`GuessesWithin`). The count that lets a request through must see the rows of all that passed
before it: each such row is there, or another sign-in's withdrawal took it, or a pruning did
that no live request's window reaches (`RowsHeld`). Rows and passes are compared by the numbers
of their requests (`NumbersApart`), which makes each count an injection between finite sets.
The recorded row is part of what the second count sees, which is why the early count may be
wrong and the limit still holds.

*Quotes.* Each step of cleaning keeps a set of places, and what it makes of a text comes with a
walk through those places in order (`Traversal`); two walks through one set agree. A text that
has been cleaned has nothing that any step would take away (`Cleaned`), which gives idempotence,
and with it that offsets found in the text cleaned again are offsets into the stored one. The
windows are the one recursive function, shown to exist (`WindowsExist`); a passage is whole in
the last window that starts before it (`WindowsCover`). Where an argument would go by induction
over places, it takes the least or the greatest place with the property instead.

*The pages.* Each page's invariant says of every answer on its way what it was asked for, and
of what is shown which of them it came from. The queue comes to rest because each way of not
being at rest leads to another with fewer renders to go, and none leads back (`Moving`). A
match that is decided once was open when the one decision that counted was made (`ReadsHold`).
A rejection asks about what was ticked when its dialog opened, and nothing about it has changed
since (`AskedAsTicked`).

*Types.* A type invariant that bounds its sets and counters is seldom inductive: that no more is
in flight than its bound, or that a version is one of those there are, rests on who may still
add to it. So for each part `...Typed` says where things come from: a page's pending clicks are
no more than were asked for and not yet counted (`CountedFor`), a revocation is counted by a
request that ended or is one of those in flight (`RevokedOnce`), an edit in the index by a
writer that has ended (`EndedScribes`), a version in an editor is one that was read
(`EditorFits`), a command to the recorder was given below its bound and is alone, and the
queue's buckets share no insight.

*The composition.* The parts share no variable, so a step of `MCNext` is a step of one and a
stutter of the others, and `PartsRun` holds of every behaviour. Fairness of a part is not
implied by `MCSpec` and no safety proof uses it, so for those parts initial states and steps
are stated in its place.

*Layout.* In the larger modules one lemma per kind of step says what it writes (an
arrival, the read, the INSERT, a commit, a rollback); the preservation proofs have one step
per kind and never look into a handler again.

Only model-checked is liveness: `RequestsAnswered` of `lifecycle_merge`, and `RunsEnd`,
`OrphansGo`, `FeedStored`, `EachSwept` and `RetryOffered` of `progress`. Liveness
under fairness and ENABLED are out of this prover's reach. The findings are counterexamples,
which the runs that expect a violation show.

## Plan

*Done:* the life cycle with every safety property proved and the abstract ledger and board
implemented; intake, extraction, releases, drafts, tenancy, budget, throttles, daily jobs, the
recorder, the index, the calendar, sign-in and the web pages modelled and checked; every safety
property of the passing runs, types included, proved for every value of the constants,
or every value that meets the hypotheses named above.

*Left, in this order:*

1. The editing soft lock, tags and the bulk route of the life cycle; clients and contacts of
   the intake; the Settings page, whose revealed codes are overwritten by the next one.
2. The composition of `MeetingLife` with `InsightLifecycle`: an insight's merge while an
   extraction attaches a mention to it.

## Not modelled, and why

- Exports, the client share page, metrics and the dashboard read rows and render them; a
  token is set or cleared by one UPDATE. Asking is one model call over a search, limited by
  the throttle modelled in `Throttles`.
- The Settings, dashboard and login pages; the evaluations, the demo data and the site.
- Environment and configuration, prompts, the texts of releases, calendars and mails, HTTP
  and routing beyond how a request finds its user.
- Judgements of a model are choices: what confidence it gives, and what prompt it saw, are
  not represented. Attempts of one provider call are one attempt, so a timed-out attempt
  followed by a refusal is not told apart.
- In the life cycle: the editing soft lock, tags, priority, mentions and requesters copied by
  a merge, and the bulk route, which calls the same handlers one id at a time.
- The lock order between a purge and a rebuild of the index, which take index rows in
  opposite orders: one of them fails, and a writer may fail at any statement in the model.
- The browser's own limit of 30 seconds on a silent offscreen document is `DocGone`, allowed
  whenever nothing is being sent.

## Running

    tlc -workers 2 -config lifecycle_races.cfg MCLifecycle    (and every lifecycle_*.cfg)
    tlc -workers 2 -config services.cfg MCServices            (progress, meeting_purge,
                                                               budget_repair, locked_wording)
    tlapm InsightLifecycleProofs.tla                          (and each *Proofs module
                                                               and NaturalFacts)
