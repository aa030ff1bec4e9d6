----------------------------- MODULE CalendarFeed -----------------------------
(***************************************************************************)
(* The calendar feed behind the capture page (calendar/service.ts).  Its   *)
(* address is a setting all servers share; each server keeps what it last  *)
(* fetched for a while, and forgets it when it changes the address itself. *)
(***************************************************************************)
EXTENDS Naturals

CONSTANTS
  Servers,  \* instances, each with its own cache
  Lookups,  \* GET /api/calendar/events in flight at once
  Changes,  \* admins changing the setting at once
  Feeds,    \* addresses
  Ttl,      \* CACHE_TTL_MS
  MaxClock  \* bound on time

ASSUME FeedAssumption == Ttl \in Nat \ {0} /\ MaxClock \in Nat

VARIABLES
  clock,
  address,  \* app_settings: calendar_ics_url
  cache,    \* by server
  lookup,   \* lookups in flight, and their answers
  change    \* changes in flight

feedVars == <<clock, address, cache, lookup, change>>

Unset == "unset"
Empty == [url |-> Unset, fetchedAt |-> 0, asOf |-> 0]
NoLookup == [phase |-> "idle", server |-> "none", url |-> Unset, at |-> 0, from |-> Unset,
             asOf |-> 0]
NoChange == [phase |-> "idle", server |-> "none"]

FeedInit ==
  /\ clock = 0 /\ address = Unset
  /\ cache = [s \in Servers |-> Empty]
  /\ lookup = [l \in Lookups |-> NoLookup]
  /\ change = [c \in Changes |-> NoChange]

FeedTick ==
  /\ clock < MaxClock
  /\ clock' = clock + 1
  /\ UNCHANGED <<address, cache, lookup, change>>

\* setFeedUrl and clearFeedUrl: the setting and its event are committed ...
ChangeFeed(c, s, url) ==
  /\ change[c].phase = "idle"
  /\ address' = url
  /\ change' = [change EXCEPT ![c] = [phase |-> "clear", server |-> s]]
  /\ UNCHANGED <<clock, cache, lookup>>

\* ... and then this server forgets what it has.
ClearCache(c) ==
  /\ change[c].phase = "clear"
  /\ cache' = [cache EXCEPT ![change[c].server] = Empty]
  /\ change' = [change EXCEPT ![c] = NoChange]
  /\ UNCHANGED <<clock, address, lookup>>

\* fetchEvents reads the setting.
BeginLookup(l, s) ==
  /\ lookup[l].phase = "idle" /\ address # Unset
  /\ lookup' = [lookup EXCEPT ![l] = [NoLookup EXCEPT !.phase = "check", !.server = s,
                                                      !.url = address]]
  /\ UNCHANGED <<clock, address, cache, change>>

\* fetchParsedFeed: what is cached, if it is of this address and young enough.
\* Mutant: whatever is cached and young enough.
CheckCacheAnyUrl(l) ==
  LET entry == cache[lookup[l].server] IN
  /\ lookup[l].phase = "check"
  /\ lookup' = [lookup EXCEPT ![l] =
       IF entry # Empty /\ clock - entry.fetchedAt < Ttl
       THEN [lookup[l] EXCEPT !.phase = "answered", !.server = "none", !.at = clock,
                         !.from = entry.url, !.asOf = entry.asOf]
       ELSE [lookup[l] EXCEPT !.phase = "fetch", !.at = clock]]
  /\ UNCHANGED <<clock, address, cache, change>>

CheckCache(l) ==
  LET entry == cache[lookup[l].server] IN
  /\ lookup[l].phase = "check"
  /\ lookup' = [lookup EXCEPT ![l] =
       IF entry.url = @.url /\ clock - entry.fetchedAt < Ttl
       THEN [lookup[l] EXCEPT !.phase = "answered", !.server = "none", !.at = clock,
                         !.from = entry.url, !.asOf = entry.asOf]
       ELSE [lookup[l] EXCEPT !.phase = "fetch", !.at = clock]]
  /\ UNCHANGED <<clock, address, cache, change>>

\* The feed answers; the entry is as old as the look into the cache.
FeedAnswers(l) ==
  LET k == lookup[l] IN
  /\ k.phase = "fetch"
  /\ cache' = [cache EXCEPT ![k.server] = [url |-> k.url, fetchedAt |-> k.at, asOf |-> clock]]
  /\ lookup' = [lookup EXCEPT ![l] = [lookup[l] EXCEPT !.phase = "answered", !.server = "none",
                                               !.from = k.url, !.asOf = clock]]
  /\ UNCHANGED <<clock, address, change>>

\* A time-out, an error status, or the page has its answer and looks again later.
LookupEnds(l) ==
  /\ lookup[l].phase \in {"fetch", "answered"}
  /\ lookup' = [lookup EXCEPT ![l] = NoLookup]
  /\ UNCHANGED <<clock, address, cache, change>>

FeedNext ==
  \/ FeedTick
  \/ \E c \in Changes :
       \/ \E s \in Servers, url \in Feeds \cup {Unset} : ChangeFeed(c, s, url)
       \/ ClearCache(c)
  \/ \E l \in Lookups :
       \/ \E s \in Servers : BeginLookup(l, s)
       \/ CheckCache(l) \/ FeedAnswers(l) \/ LookupEnds(l)

FeedSpec == FeedInit /\ [][FeedNext]_feedVars

----------------------------------------------------------------------------
FeedTypeOK ==
  /\ clock \in 0 .. MaxClock /\ address \in Feeds \cup {Unset}
  /\ \A s \in Servers : cache[s].url \in Feeds \cup {Unset}
  /\ \A l \in Lookups : lookup[l].phase \in {"idle", "check", "fetch", "answered"}
  /\ \A c \in Changes : change[c].phase \in {"idle", "clear"}

\* Events come from the address that was set when they were asked for, and are
\* younger than the cache's lifetime ("per the configured URL", service.ts:95), though a
\* slow answer fills the cache after the address has changed, or after a younger one, and
\* only the server that changed the address forgets what it has.
FeedFollowsSettings ==
  \A l \in Lookups :
    lookup[l].phase = "answered" =>
      /\ lookup[l].from = lookup[l].url
      /\ lookup[l].asOf + Ttl > lookup[l].at
=============================================================================
