------------------------------ MODULE DailyJobs ------------------------------
(***************************************************************************)
(* Work nobody asks for.  The Monday digest is tried by the server's       *)
(* hourly timer, by its start, and by the daily cron: each looks for a     *)
(* digest.sent event of the day, posts to the webhook and appends the      *)
(* event.  In hosted mode the daily cron sweeps workspace after workspace  *)
(* until its deadline, and starts at another one every day.                *)
(***************************************************************************)
EXTENDS Naturals, Sequences, FiniteSets

CONSTANTS
  Tries,      \* checks for the digest in flight at once
  Mondays,    \* Mondays pass up to this one
  MaxTries,   \* bound on the checks of a Monday
  MaxTenants, \* workspaces that may come to be
  Period      \* days counted modulo this: a multiple of every number of workspaces

ASSUME DailyAssumption ==
  /\ Mondays \in Nat \ {0} /\ MaxTries \in Nat /\ MaxTenants \in Nat \ {0} /\ Period \in Nat \ {0}
  /\ \A n \in 1 .. MaxTenants : Period % n = 0

VARIABLES
  monday,    \* the Monday at hand, in its hour
  sent,      \* the Mondays with a digest.sent event; the last is the latest
  try,       \* checks in flight
  tries,     \* how many of them the Monday has seen
  posts,     \* history: posts to the webhook, by Monday
  overlaps,  \* history: Mondays on which checks overlapped, or one died after its post
  day,       \* the day, modulo Period
  tenants,   \* how many workspaces there are, in the order of their creation
  queue,     \* the workspaces the cron has still to sweep; empty when it is not running
  swept      \* the workspace the last step has begun to sweep, or 0

digestVars == <<monday, sent, try, tries, posts, overlaps>>
sweepVars == <<day, tenants, queue, swept>>
dailyVars == <<digestVars, sweepVars>>

NoTry == [phase |-> "idle", monday |-> 0]

DailyInit ==
  /\ monday = 1 /\ sent = <<>> /\ tries = 0
  /\ try = [p \in Tries |-> NoTry]
  /\ posts = [m \in 1 .. Mondays |-> 0]
  /\ overlaps = {}
  /\ day \in 0 .. Period - 1 /\ tenants = 0 /\ queue = <<>> /\ swept = 0

----------------------------------------------------------------------------
(* The digest: maybeSendDigest and sendDigest *)

Sending == {p \in Tries : try[p].phase # "idle"}

\* A tick of the timer, a start of the server, or the cron, in the Monday's hour.  The
\* clock is read once, for the check and for the event.
StartDigest(p) ==
  /\ try[p].phase = "idle" /\ tries < MaxTries
  /\ tries' = tries + 1
  /\ try' = [try EXCEPT ![p] = [phase |-> "check", monday |-> monday]]
  /\ overlaps' = overlaps \cup {try[q].monday : q \in Sending}
                        \cup (IF Sending = {} THEN {} ELSE {monday})
  /\ UNCHANGED <<monday, sent, posts, sweepVars>>

\* The latest digest.sent is from today: nothing to do.
CheckSent(p) ==
  /\ try[p].phase = "check"
  /\ try' = [try EXCEPT ![p] =
       IF sent # <<>> /\ sent[Len(sent)] = @.monday THEN NoTry ELSE [try[p] EXCEPT !.phase = "post"]]
  /\ UNCHANGED <<monday, sent, tries, posts, overlaps, sweepVars>>

\* The webhook takes it, or answers with an error, which counts as sent all the same.
Post(p) ==
  /\ try[p].phase = "post"
  /\ posts' = [posts EXCEPT ![try[p].monday] = @ + 1]
  /\ try' = [try EXCEPT ![p].phase = "append"]
  /\ UNCHANGED <<monday, sent, tries, overlaps, sweepVars>>

\* Mutant: no event when the webhook did not answer well.
AppendSentIfDelivered(p) ==
  /\ try[p].phase = "append"
  /\ sent' \in {sent, Append(sent, try[p].monday)}
  /\ try' = [try EXCEPT ![p] = NoTry]
  /\ UNCHANGED <<monday, tries, posts, overlaps, sweepVars>>

\* The event is appended whatever the webhook answered.
AppendSent(p) ==
  /\ try[p].phase = "append"
  /\ sent' = Append(sent, try[p].monday)
  /\ try' = [try EXCEPT ![p] = NoTry]
  /\ UNCHANGED <<monday, tries, posts, overlaps, sweepVars>>

\* The post throws, or the process dies: before it has gone out, or after.
TryDies(p) ==
  /\ try[p].phase # "idle"
  /\ overlaps' = overlaps \cup (IF try[p].phase = "append" THEN {try[p].monday} ELSE {})
  /\ try' = [try EXCEPT ![p] = NoTry]
  /\ UNCHANGED <<monday, sent, tries, posts, sweepVars>>

NextMonday ==
  /\ monday < Mondays
  /\ monday' = monday + 1 /\ tries' = 0
  /\ UNCHANGED <<sent, try, posts, overlaps, sweepVars>>

----------------------------------------------------------------------------
(* The hosted cron: runHostedDailyJobs *)

Rotated(start) == [i \in 1 .. tenants |-> 1 + ((start + i - 1) % tenants)]

\* Mutant: the order of creation, every day.
StartSweepAtFirst ==
  /\ queue = <<>>
  /\ day' = (day + 1) % Period
  /\ queue' = Rotated(0)
  /\ swept' = 0
  /\ UNCHANGED <<tenants, digestVars>>

\* Once a day.  listWorkspaces, rotated by the day.
StartSweep ==
  /\ queue = <<>>
  /\ day' = (day + 1) % Period
  /\ queue' = Rotated(day')
  /\ swept' = 0
  /\ UNCHANGED <<tenants, digestVars>>

\* One workspace's sweeps, which may fail and let the next one go on; the deadline
\* may pass during any of them, and the function's own limit may end it.
SweepSpace ==
  /\ queue # <<>>
  /\ swept' = Head(queue)
  /\ queue' \in {Tail(queue), <<>>}
  /\ UNCHANGED <<day, tenants, digestVars>>

NewSpace ==
  /\ tenants < MaxTenants
  /\ tenants' = tenants + 1
  /\ UNCHANGED <<day, queue, swept, digestVars>>

DigestNext ==
  \/ \E p \in Tries : StartDigest(p) \/ CheckSent(p) \/ Post(p) \/ AppendSent(p) \/ TryDies(p)
  \/ NextMonday

SweepNext == StartSweep \/ SweepSpace \/ NewSpace

DailyNext == DigestNext \/ SweepNext

\* The platform calls the cron every day (vercel.json), and a sweep that has started
\* gets to its first workspace: its deadline is taken when the loop begins.
DailyFairness == WF_dailyVars(StartSweep) /\ WF_dailyVars(SweepSpace)

DailySpec == DailyInit /\ [][DailyNext]_dailyVars /\ DailyFairness

----------------------------------------------------------------------------
DailyTypeOK ==
  /\ monday \in 1 .. Mondays /\ sent \in Seq(1 .. monday)
  /\ \A p \in Tries : try[p].phase \in {"idle", "check", "post", "append"}
  /\ day \in 0 .. Period - 1 /\ tenants \in 0 .. MaxTenants
  /\ queue \in Seq(1 .. tenants) /\ swept \in 0 .. tenants

\* "Fire the digest once" (digest.ts:197): a Monday's digest goes out twice only if two
\* checks overlapped or one died between its post and its event -- a restart, a second
\* instance or the cron beside the timer do not repeat it by themselves.
DigestOnceAlone == \A m \in 1 .. Mondays : posts[m] > 1 => m \in overlaps

\* "The start rotates by day, so workspaces past the deadline one day are swept first on
\* a later day" (cron.ts:67): every workspace is swept again and again, even if only one
\* fits into a day and new ones shift the rotation.
EachSwept == \A w \in 1 .. MaxTenants : [](tenants >= w => <>(swept = w))
=============================================================================
