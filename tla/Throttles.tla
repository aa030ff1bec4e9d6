------------------------------ MODULE Throttles ------------------------------
(***************************************************************************)
(* The sliding windows that slow requests down.  There are four:           *)
(*   "chain"     hosted requests pass one throttle after another, each by  *)
(*               an early count, an insert and a count                     *)
(*   "ask"       questions count and insert under an advisory lock         *)
(*   "code"      sign-in by code counts failures, checks, records one      *)
(*   "password"  hosted sign-in by password records a failure first and    *)
(*               withdraws it when the password was right                  *)
(* A row counts for one key, or for two (the email and the address that a  *)
(* failed code came from), and has the time its request read.  The number  *)
(* of its request tells it from other rows.                                *)
(***************************************************************************)
EXTENDS Integers, Sequences, FiniteSets

CONSTANTS
  Requests,  \* requests in flight at once
  Gates,     \* what may happen together: a kind, the keys of its requests in order, and
             \* bounds on the time and on the requests
  Limit,     \* rows of a key that may pass within its window
  Window,    \* length of a key's window
  PruneAge   \* age at which the daily job drops rows

Buckets == DOMAIN Limit
KeysOf(ks) == {ks[i] : i \in DOMAIN ks}

ASSUME ThrottleAssumption ==
  /\ PruneAge \in Nat
  /\ Limit \in [Buckets -> Nat]
  /\ \A k \in Buckets : Window[k] \in 0 .. PruneAge
  /\ Requests # {} /\ IsFiniteSet(Requests)
  /\ \A g \in Gates :
       /\ g.ticks \in Nat /\ g.total \in Nat
       /\ \A ks \in g.chains :
            /\ ks \in Seq(Buckets) \ {<<>>}
            /\ \A i, j \in DOMAIN ks : ks[i] = ks[j] => i = j
            \* One limit and one window for failed codes, by email or by address.
            /\ g.kind = "code" =>
                 \A k \in KeysOf(ks) : Limit[k] = Limit[Head(ks)] /\ Window[k] = Window[Head(ks)]

VARIABLES
  gate,    \* the throttle of this behaviour
  tick,    \* the time
  hits,    \* the rows: their request, their keys and their time
  inflight,   \* requests in flight
  came,    \* how many requests came
  passed,  \* history: what passed: request, key, time recorded, time last counted
  spared   \* history: the requests whose row of a key another's withdrawal took along

throttleVars == <<gate, tick, hits, inflight, came, passed, spared>>

Ticks == 0 .. gate.ticks
NoAsk == [phase |-> "idle", no |-> 0, keys |-> <<>>, since |-> 0, at |-> 0, stale |-> FALSE]

\* SELECT COUNT(*) ... WHERE key = ? AND at >= ?
Counted(ks, from) == {x \in hits : x.keys \cap ks # {} /\ x.at >= from}
RowsOf(ks, from) == Cardinality(Counted(ks, from))
HitOf(r, ks, at) == [no |-> inflight[r].no, keys |-> ks, at |-> at]
Add(r, ks, at) == hits' = hits \cup {HitOf(r, ks, at)}

ThrottleInit ==
  /\ gate \in Gates
  /\ tick = 0
  /\ hits = {}
  /\ inflight = [r \in Requests |-> NoAsk]
  /\ came = 0
  /\ passed = {}
  /\ spared = [k \in Buckets |-> {}]

Leaves(r) == inflight' = [inflight EXCEPT ![r] = NoAsk]
ToPhase(r, phase) == inflight' = [inflight EXCEPT ![r].phase = phase, ![r].since = tick]

\* What passed by a request that no pruning has met counts against the limit.
Passes(r, ks, at, to) ==
  passed' = IF inflight[r].stale THEN passed
            ELSE passed \cup {[no |-> inflight[r].no, key |-> k, at |-> at, to |-> to] : k \in ks}

\* A new request takes one of the free places: which one makes no difference.
Arrive(r, ks) ==
  /\ inflight[r].phase = "idle" /\ ks \in gate.chains
  /\ r = CHOOSE s \in Requests : inflight[s].phase = "idle"
  /\ came < gate.total /\ came' = came + 1
  /\ inflight' = [inflight EXCEPT ![r] = [NoAsk EXCEPT !.phase = "count", !.no = came + 1,
                                                       !.keys = ks, !.since = tick]]
  /\ UNCHANGED <<gate, tick, hits, passed, spared>>

----------------------------------------------------------------------------
(* One throttle after another: controlRateLimited *)

\* Already over the limit: refused without a row.
CountEarly(r) ==
  /\ gate.kind = "chain" /\ inflight[r].phase = "count"
  /\ LET k == Head(inflight[r].keys) IN
     IF RowsOf({k}, tick - Window[k]) >= Limit[k] THEN Leaves(r) ELSE ToPhase(r, "insert")
  /\ UNCHANGED <<gate, tick, came, hits, passed, spared>>

\* The row lands some time after its request has read the clock.
InsertHit(r, at) ==
  /\ gate.kind = "chain" /\ inflight[r].phase = "insert" /\ at \in inflight[r].since .. tick
  /\ Add(r, {Head(inflight[r].keys)}, at)
  /\ inflight' = [inflight EXCEPT ![r].phase = "recount", ![r].at = at]
  /\ UNCHANGED <<gate, tick, came, passed, spared>>

\* The next throttle, if there is one.
GoesOn(r) ==
  IF Tail(inflight[r].keys) = <<>> THEN Leaves(r)
  ELSE inflight' = [inflight EXCEPT ![r].phase = "count", ![r].keys = Tail(@), ![r].since = tick]

\* Mutant: the early count is trusted.
TrustEarlyCount(r) ==
  /\ gate.kind = "chain" /\ inflight[r].phase = "recount"
  /\ Passes(r, {Head(inflight[r].keys)}, inflight[r].at, inflight[r].at)
  /\ GoesOn(r)
  /\ UNCHANGED <<gate, tick, came, hits, spared>>

\* The count that decides sees its own row; the next throttle follows.
Recount(r) ==
  LET k == Head(inflight[r].keys) IN
  /\ gate.kind = "chain" /\ inflight[r].phase = "recount"
  /\ IF RowsOf({k}, inflight[r].at - Window[k]) > Limit[k]
     THEN Leaves(r) /\ UNCHANGED passed
     ELSE Passes(r, {k}, inflight[r].at, inflight[r].at) /\ GoesOn(r)
  /\ UNCHANGED <<gate, tick, came, hits, spared>>

----------------------------------------------------------------------------
(* Questions: askRateLimited, a transaction per key under the key's advisory lock *)

AskTx(r, at) ==
  LET k == Head(inflight[r].keys) IN
  /\ gate.kind = "ask" /\ inflight[r].phase = "count" /\ at \in inflight[r].since .. tick
  /\ IF RowsOf({k}, at - Window[k]) >= Limit[k]
     THEN Leaves(r) /\ UNCHANGED <<hits, passed>>
     ELSE Add(r, {k}, at) /\ Passes(r, {k}, at, at) /\ GoesOn(r)
  /\ UNCHANGED <<gate, tick, came, spared>>

----------------------------------------------------------------------------
(* Sign-in by code: login *)

\* recentFailures, by email or address.
CountFailures(r, at) ==
  /\ gate.kind = "code" /\ inflight[r].phase = "count" /\ at \in inflight[r].since .. tick
  /\ LET k == Head(inflight[r].keys) IN
     IF RowsOf(KeysOf(inflight[r].keys), at - Window[k] + 1) >= Limit[k]
     THEN Leaves(r) ELSE ToPhase(r, "verify")
  /\ UNCHANGED <<gate, tick, came, hits, passed, spared>>

\* The shared password and the personal code alike: the attempt is recorded once the
\* secret has been checked, as a failure or not.
RecordAttempt(r, right, at) ==
  /\ gate.kind = "code" /\ inflight[r].phase = "verify" /\ at \in inflight[r].since .. tick
  /\ IF right THEN UNCHANGED hits ELSE Add(r, KeysOf(inflight[r].keys), at)
  /\ Leaves(r)
  /\ UNCHANGED <<gate, tick, came, passed, spared>>

----------------------------------------------------------------------------
(* Hosted sign-in by password: the keys are the email with its address, and the email *)

LockedOut(ks) == \E k \in ks : RowsOf({k}, tick - Window[k]) > Limit[k]

CheckLocked(r) ==
  /\ gate.kind = "password" /\ inflight[r].phase = "count"
  /\ IF LockedOut(KeysOf(inflight[r].keys)) THEN Leaves(r) ELSE ToPhase(r, "record")
  /\ UNCHANGED <<gate, tick, came, hits, passed, spared>>

\* recordControlHit, for each key.
RecordFirst(r, at) ==
  /\ gate.kind = "password" /\ inflight[r].phase = "record" /\ at \in inflight[r].since .. tick
  /\ hits' = hits \cup {HitOf(r, {k}, at) : k \in KeysOf(inflight[r].keys)}
  /\ inflight' = [inflight EXCEPT ![r].phase = "recheck", ![r].at = at]
  /\ UNCHANGED <<gate, tick, came, passed, spared>>

CheckAgain(r) ==
  /\ gate.kind = "password" /\ inflight[r].phase = "recheck"
  /\ IF LockedOut(KeysOf(inflight[r].keys)) THEN Leaves(r) ELSE ToPhase(r, "verify")
  /\ UNCHANGED <<gate, tick, came, hits, passed, spared>>

\* The rows that others recorded for a key of the request in the tick of its own: the
\* withdrawal deletes by key and millisecond, and a tick may hold several of those.
Beside(r) ==
  {x \in hits : /\ x.no # inflight[r].no /\ x.at = inflight[r].at
                /\ x.keys \cap KeysOf(inflight[r].keys) # {}}

\* A wrong password's rows stay.  A right one's are withdrawn, with whatever rows of
\* the key others recorded in the same millisecond.
VerifyPassword(r, right, taken) ==
  LET ks == KeysOf(inflight[r].keys) IN
  /\ gate.kind = "password" /\ inflight[r].phase = "verify"
  /\ IF right
     THEN /\ taken \subseteq Beside(r)
          /\ hits' = (hits \ {HitOf(r, {k}, inflight[r].at) : k \in ks}) \ taken
          /\ spared' = [k \in Buckets |-> spared[k] \cup {x.no : x \in {y \in taken : k \in y.keys}}]
          /\ UNCHANGED passed
     ELSE Passes(r, ks, inflight[r].at, inflight[r].since) /\ UNCHANGED <<hits, spared>>
  /\ Leaves(r)
  /\ UNCHANGED <<gate, tick, came>>

----------------------------------------------------------------------------
(* The daily job drops rows older than every window that counts them.  Failed codes
   are never dropped. *)
Prune ==
  LET old == {x \in hits : x.at < tick - PruneAge} IN
  /\ gate.kind # "code" /\ old # {}
  /\ hits' = hits \ old
  /\ inflight' = [r \in Requests |-> [inflight[r] EXCEPT !.stale = inflight[r].phase # "idle"]]
  /\ UNCHANGED <<gate, tick, came, passed, spared>>

Tick ==
  /\ tick < gate.ticks
  /\ tick' = tick + 1
  /\ UNCHANGED <<gate, came, hits, inflight, passed, spared>>

ThrottleNext ==
  \/ \E r \in Requests :
       \/ \E ks \in gate.chains : Arrive(r, ks)
       \/ CountEarly(r) \/ Recount(r) \/ CheckLocked(r) \/ CheckAgain(r)
       \/ \E at \in Ticks : InsertHit(r, at) \/ AskTx(r, at) \/ CountFailures(r, at)
                            \/ RecordFirst(r, at)
       \/ \E at \in Ticks, right \in BOOLEAN : RecordAttempt(r, right, at)
       \/ \E right \in BOOLEAN : \E taken \in SUBSET (IF right THEN Beside(r) ELSE {}) :
            VerifyPassword(r, right, taken)
  \/ Prune \/ Tick

ThrottleSpec == ThrottleInit /\ [][ThrottleNext]_throttleVars

----------------------------------------------------------------------------
AskPhases == {"idle", "count", "insert", "recount", "record", "recheck", "verify"}
ThrottleTypeOK ==
  /\ gate \in Gates /\ tick \in Ticks
  /\ hits \subseteq [no : 1 .. came, keys : SUBSET Buckets, at : 0 .. tick]
  /\ passed \subseteq [no : 1 .. came, key : Buckets, at : 0 .. tick, to : 0 .. tick]
  /\ inflight \in [Requests -> [phase : AskPhases, no : 0 .. came, keys : Seq(Buckets),
                               since : 0 .. tick, at : 0 .. tick, stale : BOOLEAN]]
  /\ spared \in [Buckets -> SUBSET (1 .. came)]
  /\ came \in 0 .. gate.total

\* However requests overlap, within any window a key lets through no more than its
\* limit ("so parallel requests cannot all pass", tenancy.ts:326; "two requests for the
\* same key cannot both see room for one more", insights/routes.ts:190; "parallel
\* guesses all count", hosted/routes.ts:532) -- but for rows that another sign-in's
\* withdrawal took along, and for requests a pruning overtook.
AdmitsWithinLimit ==
  \A k \in Buckets : \A t \in Ticks :
    Cardinality({p \in passed : p.key = k /\ p.at >= t /\ p.to <= t + Window[k]})
      <= Limit[k] + Cardinality(spared[k])

\* The lockout of a sign-in by code (8 failures in 15 minutes, auth.ts:131) counts before
\* it records: within a window an email, and an address, get the limit and one guess
\* more for every other request in flight, and no more than that.
LockoutHolds ==
  gate.kind = "code" =>
    \A k \in Buckets : \A t \in Ticks :
      Cardinality({x \in hits : k \in x.keys /\ x.at > t - Window[k] /\ x.at <= t})
        <= Limit[k] + Cardinality(Requests) - 1

\* Requests that count at the same time pass no limit and no lockout
\* (hosted/tenancy.ts:322-334, auth.ts:121-131).
LimitsHold == AdmitsWithinLimit /\ LockoutHolds
=============================================================================
