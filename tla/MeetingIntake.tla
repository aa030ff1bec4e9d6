--------------------------- MODULE MeetingIntake ---------------------------
(***************************************************************************)
(* How recordings and transcripts become meetings of one client: the       *)
(* quota's reservation, the check for the same bytes, the blob and its     *)
(* media_assets row, the transaction that numbers the meeting, and the     *)
(* refund when anything but a new meeting comes of it.  Beside it run the  *)
(* purge and the daily sweep of uploads no row points at.                  *)
(*                                                                         *)
(* None of these steps shares a transaction with another one: the control  *)
(* row, the blob store, media_assets and meetings are written one by one.  *)
(***************************************************************************)
EXTENDS Naturals, Sequences, FiniteSets

CONSTANTS
  Uploads,      \* POST /api/meetings requests that can be in flight at once
  Keys,         \* storage keys
  Shas,         \* what may be uploaded, by its hash
  Quota,        \* meetings_quota of the workspace
  MaxMeetings,  \* bound on meetings created
  MaxFolders,   \* old folders one sweep looks at
  Mixes         \* the ways to upload, the store behind them and what may happen besides,
                \* one mix per behaviour

ASSUME UploadsAssumption == IsFiniteSet(Uploads)
ASSUME KeysAssumption == IsFiniteSet(Keys) /\ "none" \notin Keys
ASSUME QuotaAssumption == Quota \in Nat /\ MaxMeetings \in Nat
ASSUME MixesAssumption ==
  Mixes \subseteq [ways : SUBSET {"direct", "inline", "file", "text"},
                   at : {"disk", "bucket", "hosted"},
                   besides : SUBSET {"cut", "crash", "purge", "sweep"}]

VARIABLES
  mix,        \* the ways to upload in this behaviour; the store, a directory, a bucket or
              \* the bucket that hosted workspaces share; and what may happen besides
  meetings,   \* rows in the order of their commits
  claimed,    \* events.idempotency_key: the meeting whose event holds each hash
  asset,      \* media_assets by key
  store,      \* the blob store: what is under each key
  folder,     \* of each key: the rank of its ULID, and is it under "<workspace>/"
  old,        \* keys issued more than 24 hours ago
  up,         \* uploads in flight
  used,       \* meetings_used
  sweep,      \* the orphan sweep: the folders it has yet to finish, the one it is at, and
              \* how far it is there
  late,       \* history: keys registered when old already, or again after a purge
  lost,       \* history: reservations of requests that died before their meeting
  unpaid      \* history: charges given back although the meeting was stored

notes == <<late, lost, unpaid>>
intakeVars == <<mix, meetings, claimed, asset, store, folder, old, up, used, sweep, notes>>

None == "none"
NoAsset == [row |-> "none", sha |-> None, for |-> 0]
Unnamed == [ulid |-> 0, inside |-> FALSE]
\* looked is history: the meetings there were when the request looked for its bytes.
Waiting == [phase |-> "idle", kind |-> None, sha |-> None, key |-> None, seq |-> 0, looked |-> 0]
NoSweep == [phase |-> "idle", keys |-> {}, at |-> None]

IntakeInit ==
  /\ mix \in Mixes
  /\ meetings = <<>>
  /\ claimed = [s \in Shas |-> 0]
  /\ asset = [k \in Keys |-> NoAsset]
  /\ store = [k \in Keys |-> "unissued"]
  /\ folder = [k \in Keys |-> Unnamed]
  /\ old = {}
  /\ up = [u \in Uploads |-> Waiting]
  /\ used = 0
  /\ sweep = NoSweep
  /\ late = {}
  /\ lost = 0 /\ unpaid = 0

Hosted == mix.at = "hosted"
At(u, phase) == up[u].phase = phase
Goto(u, phase) == up' = [up EXCEPT ![u].phase = phase]
HasObject(k) == store[k] \in {"whole", "cut"}
\* Removing a file leaves its directory.
Removed == IF mix.at = "disk" THEN "emptied" ELSE "removed"

\* A fresh key: ULIDs grow.  Signed uploads go under the workspace, saveBlob does not.
IssueKey(k, inside) ==
  /\ store[k] = "unissued"
  /\ folder' = [folder EXCEPT ![k] =
       [ulid |-> Cardinality({j \in Keys : store[j] # "unissued"}) + 1, inside |-> inside]]

----------------------------------------------------------------------------
(* Direct uploads: a signed URL, then the browser's PUT *)

\* POST /api/uploads looks at the quota and issues a fresh key.
StartUpload(k) ==
  /\ "direct" \in mix.ways
  /\ Hosted => used < Quota
  /\ IssueKey(k, Hosted)
  /\ store' = [store EXCEPT ![k] = "issued"]
  /\ UNCHANGED <<mix, meetings, claimed, asset, old, up, used, sweep, notes>>

\* The PUT may be cut short.
BrowserPut(k) ==
  /\ store[k] = "issued"
  /\ \E size \in {"whole"} \cup ({"cut"} \cap mix.besides) : store' = [store EXCEPT ![k] = size]
  /\ UNCHANGED <<mix, meetings, claimed, asset, folder, old, up, used, sweep, notes>>

\* A day passes since the key was issued.
GrowOld(k) ==
  /\ "sweep" \in mix.besides /\ store[k] # "unissued" /\ k \notin old
  /\ \A j \in Keys : folder[j].ulid \in 1 .. (folder[k].ulid - 1) => j \in old
  /\ old' = old \cup {k}
  /\ UNCHANGED <<mix, meetings, claimed, asset, store, folder, up, used, sweep, notes>>

----------------------------------------------------------------------------
(* POST /api/meetings *)

\* reserveMeeting, where workspaces are hosted: one conditional UPDATE; a full quota
\* answers 402.
BeginUpload(u) ==
  /\ At(u, "idle")
  /\ Len(meetings) + Cardinality({v \in Uploads : ~At(v, "idle")}) < MaxMeetings
  /\ Hosted => used < Quota
  /\ used' = IF Hosted THEN used + 1 ELSE used
  /\ \E kind \in mix.ways, s \in Shas : \E k \in Keys \cup {None} :
       /\ (kind = "direct") = (k # None)
       /\ k # None => store[k] # "unissued"
       /\ up' = [up EXCEPT ![u] = [Waiting EXCEPT !.phase = "reserved", !.kind = kind,
                                                  !.sha = s, !.key = k]]
  /\ UNCHANGED <<mix, meetings, claimed, asset, store, folder, old, sweep, notes>>

\* findDuplicateMeeting: through the audio asset, or through the upload event.
\* Mutant: through the audio asset only.
DuplicatesByRecording(s) ==
  {m \in DOMAIN meetings :
     /\ ~meetings[m].deleted
     /\ meetings[m].audio # None
     /\ asset[meetings[m].audio].sha = s}

Duplicates(s) ==
  {m \in DOMAIN meetings :
     /\ ~meetings[m].deleted
     /\ \/ /\ meetings[m].audio # None
           /\ asset[meetings[m].audio].sha = s
        \/ claimed[s] = m}

\* A duplicate is answered with 200 and the meeting found.
FindDuplicate(u) ==
  /\ At(u, "reserved")
  /\ up' = [up EXCEPT ![u].looked = Len(meetings),
                      ![u].phase = IF Duplicates(up[u].sha) # {} THEN "refund"
                                   ELSE IF up[u].kind = "text" THEN "stored" ELSE "fresh"]
  /\ UNCHANGED <<mix, meetings, claimed, asset, store, folder, old, used, sweep, notes>>

\* saveBlob: the object first, under a new key.
PutBlob(u) ==
  /\ At(u, "fresh") /\ up[u].kind # "direct"
  /\ \E k \in Keys :
       /\ IssueKey(k, FALSE)
       /\ store' = [store EXCEPT ![k] = "whole"]
       /\ up' = [up EXCEPT ![u].phase = "put", ![u].key = k]
  /\ UNCHANGED <<mix, meetings, claimed, asset, old, used, sweep, notes>>

\* registerUploadedBlob: a key backs one asset only ...
CheckKey(u) ==
  /\ At(u, "fresh") /\ up[u].kind = "direct"
  /\ Goto(u, IF asset[up[u].key].row = "live" THEN "refund" ELSE "unmeasured")
  /\ UNCHANGED <<mix, meetings, claimed, asset, store, folder, old, used, sweep, notes>>

\* ... the object must be there, with the size that was declared ...
MeasureObject(u) ==
  /\ At(u, "unmeasured")
  /\ Goto(u, CASE store[up[u].key] = "whole" -> "put"
               [] store[up[u].key] = "cut" -> "mismatched"
               [] OTHER -> "refund")
  /\ UNCHANGED <<mix, meetings, claimed, asset, store, folder, old, used, sweep, notes>>

\* ... and is removed, if that works, when it has another one.
RemoveMismatch(u) ==
  /\ At(u, "mismatched")
  /\ \/ store' = [store EXCEPT ![up[u].key] = Removed]
     \/ store' = store
  /\ Goto(u, "refund")
  /\ UNCHANGED <<mix, meetings, claimed, asset, folder, old, used, sweep, notes>>

\* insertAsset: the unique index on storage_ref lets one request have the key.
InsertAsset(u) ==
  LET k == up[u].key IN
  /\ At(u, "put")
  /\ IF asset[k].row = "live"
     THEN Goto(u, "refund") /\ UNCHANGED <<asset, late>>
     ELSE /\ asset' = [asset EXCEPT ![k] = [row |-> "live", sha |-> up[u].sha, for |-> 0]]
          /\ late' = IF k \in old \/ asset[k].row = "purged" THEN late \cup {k} ELSE late
          /\ Goto(u, "stored")
  /\ UNCHANGED <<mix, meetings, claimed, store, folder, old, used, sweep, lost, unpaid>>

\* The transaction: MAX(seq) + 1 ...
ReadSeq(u) ==
  LET taken == {meetings[m].seq : m \in DOMAIN meetings} \cup {0} IN
  /\ At(u, "stored")
  /\ up' = [up EXCEPT ![u].phase = "numbered",
                      ![u].seq = (CHOOSE n \in taken : \A t \in taken : t <= n) + 1]
  /\ UNCHANGED <<mix, meetings, claimed, asset, store, folder, old, used, sweep, notes>>

NewMeeting(u) ==
  [seq |-> up[u].seq, sha |-> up[u].sha, deleted |-> FALSE, looked |-> up[u].looked,
   audio |-> IF up[u].kind \in {"direct", "inline"} THEN up[u].key ELSE None]

\* ... then the meeting and its event.  appendEvent writes no event when the
\* idempotency key is taken, even by a meeting that has been purged.
CommitMeeting(u) ==
  /\ At(u, "numbered")
  /\ \A m \in DOMAIN meetings : meetings[m].seq # up[u].seq
  /\ meetings' = Append(meetings, NewMeeting(u))
  /\ claimed' = IF claimed[up[u].sha] = 0
                THEN [claimed EXCEPT ![up[u].sha] = Len(meetings) + 1] ELSE claimed
  /\ asset' = IF up[u].key = None THEN asset
              ELSE [asset EXCEPT ![up[u].key].for = Len(meetings) + 1]
  /\ Goto(u, "made")
  /\ UNCHANGED <<mix, store, folder, old, used, sweep, notes>>

\* The meeting is read once more for the answer, a 201 ...
AnswerMeeting(u) ==
  /\ At(u, "made")
  /\ up' = [up EXCEPT ![u] = Waiting]
  /\ UNCHANGED <<mix, meetings, claimed, asset, store, folder, old, used, sweep, notes>>

\* ... unless that read fails: the request ends in an error and is refunded, although
\* its meeting is stored.
AnswerFails(u) ==
  /\ At(u, "made")
  /\ Goto(u, "refund")
  /\ unpaid' = IF Hosted THEN unpaid + 1 ELSE unpaid
  /\ UNCHANGED <<mix, meetings, claimed, asset, store, folder, old, used, sweep, late, lost>>

\* The number is taken (the unique index), or the store or the database failed.
\* What was stored so far stays.
UploadFails(u) ==
  /\ up[u].phase \in {"reserved", "fresh", "unmeasured", "put", "stored", "numbered"}
  /\ Goto(u, "refund")
  /\ UNCHANGED <<mix, meetings, claimed, asset, store, folder, old, used, sweep, notes>>

\* refundMeeting, in the route's finally: everything but a 201 gives it back.
\* Mutant: only an error gives it back, a duplicate does not.
RefundErrorsOnly(u) ==
  /\ At(u, "refund")
  /\ used' = IF Hosted /\ Duplicates(up[u].sha) = {} THEN used - 1 ELSE used
  /\ up' = [up EXCEPT ![u] = Waiting]
  /\ UNCHANGED <<mix, meetings, claimed, asset, store, folder, old, sweep, notes>>

Refund(u) ==
  /\ At(u, "refund")
  /\ used' = IF Hosted /\ used > 0 THEN used - 1 ELSE used
  /\ up' = [up EXCEPT ![u] = Waiting]
  /\ UNCHANGED <<mix, meetings, claimed, asset, store, folder, old, sweep, notes>>

\* The function is killed: nothing is refunded.
UploadCrash(u) ==
  /\ "crash" \in mix.besides /\ ~At(u, "idle")
  /\ lost' = IF Hosted /\ ~At(u, "made") THEN lost + 1 ELSE lost
  /\ up' = [up EXCEPT ![u] = Waiting]
  /\ UNCHANGED <<mix, meetings, claimed, asset, store, folder, old, used, sweep, late, unpaid>>

----------------------------------------------------------------------------
(* Purge and sweep *)

\* meetingAssets: the audio column, and the assets its upload event names.
AssetsOf(m) ==
  {k \in Keys : /\ asset[k].row = "live"
                /\ \/ meetings[m].audio = k
                   \/ asset[k].for = m /\ claimed[meetings[m].sha] = m}

\* purgeMeeting, as far as intake sees it; the file's removal may fail.
PurgeMeeting(m) ==
  /\ "purge" \in mix.besides /\ ~meetings[m].deleted
  /\ meetings' = [meetings EXCEPT ![m].deleted = TRUE]
  /\ asset' = [k \in Keys |-> IF k \in AssetsOf(m) THEN [asset[k] EXCEPT !.row = "purged"]
                              ELSE asset[k]]
  /\ \E removed \in {{}, AssetsOf(m)} :
       store' = [k \in Keys |-> IF k \in removed /\ HasObject(k) THEN Removed ELSE store[k]]
  /\ UNCHANGED <<mix, claimed, folder, old, up, used, sweep, notes>>

\* The old folders a listing shows.  A hosted sweep lists what is under its workspace; an
\* emptied directory is listed, where a bucket has no empty folders.
Listed == {k \in old : /\ HasObject(k) \/ store[k] = "emptied"
                       /\ Hosted => folder[k].inside}

\* Listings are by name, and the first folders are kept, whatever is in them.
Reached(k) ==
  /\ k \in Listed
  /\ Cardinality({j \in Listed : folder[j].ulid < folder[k].ulid}) < MaxFolders

\* sweepOrphanUploads: list the folders ...  A call of the store or the database that
\* fails ends the sweep, before it changes anything in its folder: keys are the folders
\* that this sweep gets through.
SweepList(keys) ==
  /\ sweep.phase = "idle"
  /\ keys # {} /\ \A k \in keys : Reached(k)
  /\ \A k \in keys, j \in Keys : folder[j].ulid < folder[k].ulid /\ Reached(j) => j \in keys
  /\ sweep' = [phase |-> "listed", keys |-> keys, at |-> None]
  /\ UNCHANGED <<mix, meetings, claimed, asset, store, folder, old, up, used, notes>>

\* ... and, folder by folder in their order,
MoveOn(k) == sweep' = IF sweep.keys = {k} THEN NoSweep
                     ELSE [phase |-> "listed", keys |-> sweep.keys \ {k}, at |-> None]

\* list its objects, if any,
SweepOpen(k) ==
  /\ sweep.phase = "listed"
  /\ k \in sweep.keys /\ \A j \in sweep.keys : folder[k].ulid <= folder[j].ulid
  /\ IF HasObject(k) THEN sweep' = [sweep EXCEPT !.phase = "opened", !.at = k] ELSE MoveOn(k)
  /\ UNCHANGED <<mix, meetings, claimed, asset, store, folder, old, up, used, notes>>

\* keep those a row points at (a purged row points nowhere)
\* Mutant: any row keeps its object, a purged one too.
SweepComparePurgedToo(k) ==
  /\ sweep.phase = "opened" /\ sweep.at = k
  /\ IF asset[k].row = "none" THEN sweep' = [sweep EXCEPT !.phase = "compared"] ELSE MoveOn(k)
  /\ UNCHANGED <<mix, meetings, claimed, asset, store, folder, old, up, used, notes>>

SweepCompare(k) ==
  /\ sweep.phase = "opened" /\ sweep.at = k
  /\ IF asset[k].row # "live" THEN sweep' = [sweep EXCEPT !.phase = "compared"] ELSE MoveOn(k)
  /\ UNCHANGED <<mix, meetings, claimed, asset, store, folder, old, up, used, notes>>

\* and remove the rest.
SweepRemove(k) ==
  /\ sweep.phase = "compared" /\ sweep.at = k
  /\ store' = [store EXCEPT ![k] = Removed]
  /\ MoveOn(k)
  /\ UNCHANGED <<mix, meetings, claimed, asset, folder, old, up, used, notes>>

----------------------------------------------------------------------------
UploadStep(u) ==
  \/ FindDuplicate(u) \/ PutBlob(u)
  \/ CheckKey(u) \/ MeasureObject(u) \/ RemoveMismatch(u) \/ InsertAsset(u)
  \/ ReadSeq(u) \/ CommitMeeting(u) \/ AnswerMeeting(u) \/ AnswerFails(u)
  \/ UploadFails(u) \/ Refund(u)

SweepFolder(k) == SweepOpen(k) \/ SweepCompare(k) \/ SweepRemove(k)

IntakeNext ==
  \/ \E u \in Uploads : BeginUpload(u) \/ UploadStep(u) \/ UploadCrash(u)
  \/ \E k \in Keys : StartUpload(k) \/ BrowserPut(k) \/ GrowOld(k) \/ SweepFolder(k)
  \/ \E m \in DOMAIN meetings : PurgeMeeting(m)
  \/ \E keys \in SUBSET Keys : SweepList(keys)

\* Days pass, the cron comes every day, and of its sweeps some go through.
IntakeFairness ==
  /\ \A u \in Uploads : WF_intakeVars(UploadStep(u))
  /\ \A k \in Keys : WF_intakeVars(GrowOld(k))
  /\ SF_intakeVars(SweepList({k \in Keys : Reached(k)}))
  /\ WF_intakeVars(\E k \in Keys : SweepFolder(k))

IntakeSpec == IntakeInit /\ [][IntakeNext]_intakeVars /\ IntakeFairness

----------------------------------------------------------------------------
(* Properties *)

\* Types of the rows of ingest/service.ts and ingest/media.ts.
IntakeTypeOK ==
  /\ mix \in Mixes
  /\ meetings \in Seq([seq : Nat \ {0}, sha : Shas, deleted : BOOLEAN, looked : Nat,
                       audio : Keys \cup {None}])
  /\ claimed \in [Shas -> Nat]
  /\ asset \in [Keys -> [row : {"none", "live", "purged"}, sha : Shas \cup {None}, for : Nat]]
  /\ store \in [Keys -> {"unissued", "issued", "whole", "cut", "removed", "emptied"}]
  /\ folder \in [Keys -> [ulid : Nat, inside : BOOLEAN]]
  /\ old \in SUBSET Keys /\ late \in SUBSET Keys
  /\ up \in [Uploads ->
       [phase : {"idle", "reserved", "fresh", "unmeasured", "mismatched", "put", "stored",
                 "numbered", "made", "refund"},
        kind : {None, "direct", "inline", "file", "text"}, sha : Shas \cup {None},
        key : Keys \cup {None}, seq : Nat, looked : Nat]]
  /\ used \in Nat /\ lost \in Nat /\ unpaid \in Nat
  /\ sweep \in [phase : {"idle", "listed", "opened", "compared"}, keys : SUBSET Keys,
               at : Keys \cup {None}]

\* The client's meetings are numbered 1, 2, 3, ... without a gap or a repeat,
\* although the number is read before it is written and failed uploads and purges
\* lie in between (ingest/service.ts:299-302).
SeqsDense ==
  {meetings[m].seq : m \in DOMAIN meetings} = 1 .. Len(meetings)

\* A hosted workspace's quota is charged for exactly the meetings there are, the requests
\* still running and those that died before their meeting; duplicates and errors cost
\* nothing.  The one error that should have is excepted: a read that fails after the
\* meeting was stored gives its charge back (ingest/routes.ts:40-51,
\* ingest/service.ts:349, hosted/tenancy.ts reserveMeeting and refundMeeting).
QuotaCounts ==
  Hosted =>
    /\ used + unpaid = Len(meetings) + lost + Cardinality({u \in Uploads : ~At(u, "idle") /\ ~At(u, "made")})
    /\ used <= Quota

\* No recording a row points at is ever removed, by the sweep, by a purge or by a
\* refused registration, unless the row was written more than a day after its key
\* was issued or after the key's first meeting was purged (storage.ts:263-299).
RecordingsKept ==
  \A k \in Keys : asset[k].row = "live" /\ ~HasObject(k) => k \in late

\* What uploads read before they write comes out right, whatever overlaps them: the
\* numbers of the client's meetings (ingest/service.ts:299), the workspace's quota
\* (ingest/routes.ts:40), and the files their rows point at.
IntakeExact == SeqsDense /\ QuotaCounts /\ RecordingsKept

\* "Same bytes for the same client attach, never duplicate" (ingest/service.ts:202,
\* SPEC.md:102): no meeting is made of bytes that a standing meeting had when the request
\* looked.  One case is excepted, a meeting without a recording whose bytes were claimed
\* by one purged since: its own event was never written, so no look can find it.
SameBytesOnce ==
  \A n \in DOMAIN meetings : \A m \in 1 .. meetings[n].looked :
    (meetings[m].sha = meetings[n].sha /\ ~meetings[m].deleted) =>
      /\ meetings[m].audio = None
      /\ meetings[claimed[meetings[n].sha]].deleted

Orphan(k) == HasObject(k) /\ asset[k].row # "live"

\* No orphan stays for ever within the sweep's reach: abandoned uploads and files that a
\* purge failed to remove are gone, or get their row, once the listing comes to reach them
\* and goes on to (storage.ts:263-299).  It need not come to: a hosted sweep never lists
\* what was uploaded inline (cron.ts:84, ingest/media.ts:134), and folders that stay may
\* fill the listing before the orphan's (storage.ts:282).
OrphansGo == \A k \in Keys : []<>~(Orphan(k) /\ Reached(k))
=============================================================================
