-------------------------------- MODULE SignIn --------------------------------
(***************************************************************************)
(* Who gets into a self-hosted installation: sign-in by a personal code or *)
(* by the team's password, and the admins' requests that issue codes, cut  *)
(* people off and close or open the house.  While login is not required,   *)
(* whoever has no session is the guest, an admin.  Throttles models how    *)
(* failed sign-ins are slowed down; HostedTenancy the hosted doors.        *)
(***************************************************************************)
EXTENDS Naturals, FiniteSets

CONSTANTS
  Staff,      \* the people, by email
  Houses      \* where a behaviour starts: people's roles, whether login is required or
              \* forced by the environment, whether there is a team password, and bounds on
              \* the admins' requests and on the sign-ins

Roles == {"admin", "member"}

ASSUME SignInAssumption ==
  /\ "guest" \notin Staff
  /\ \A h \in Houses :
     /\ {h.wall, h.forced, h.team} \subseteq BOOLEAN /\ {h.requests, h.signIns} \subseteq Nat
     /\ \A u \in Staff : h.roles[u] \in Roles \cup {"none"}
     \* bun run seed makes the first admin of a closed house
     /\ h.wall \/ h.forced => \E u \in Staff : h.roles[u] = "admin"

VARIABLES
  house,     \* the house of this behaviour
  acct,      \* the users: role or "none", has a code, disabled, and revocations so far (history)
  wall,      \* the setting: login is required
  sessions,  \* session rows: whose, the revocations at the sign-in (history), and whether
             \* one struck before the row was written (history)
  logins,    \* sign-ins whose code or team password has been found right
  admins,    \* admins' requests let in: the request, and how far it is
  done,      \* sign-ins and requests so far
  clashed    \* history: did a revocation overlap another, or the closing of the house

signInVars == <<house, acct, wall, sessions, logins, admins, done, clashed>>

Guest == "guest"

SignInInit ==
  /\ house \in Houses
  /\ acct = [u \in Staff |-> [role |-> house.roles[u], code |-> house.roles[u] # "none",
                              off |-> FALSE, revs |-> 0]]
  /\ wall = house.wall
  /\ sessions = {} /\ logins = {} /\ admins = {}
  /\ done = [logins |-> 0, admin |-> 0] /\ clashed = FALSE

AuthRequired == house.forced \/ wall
HasLoginCapableUser == \E u \in Staff : acct[u].code /\ ~acct[u].off
Honoured(s) == ~acct[s.who].off

----------------------------------------------------------------------------
(* Signing in *)

Signs == done.logins < house.signIns /\ done' = [done EXCEPT !.logins = @ + 1]

\* A wrong code, or that of somebody cut off, changes nothing here.
VerifyCode(u) ==
  /\ Signs
  /\ acct[u].code /\ ~acct[u].off
  /\ logins' = logins \cup {[n |-> done.logins, who |-> u, revs |-> acct[u].revs]}
  /\ UNCHANGED <<house, acct, wall, sessions, admins, clashed>>

\* The session is written whatever became of the user since the code was checked.
OpenSession(l) ==
  /\ l \in logins
  /\ logins' = logins \ {l}
  /\ sessions' = sessions \cup {[who |-> l.who, revs |-> l.revs, late |-> l.revs # acct[l.who].revs]}
  /\ UNCHANGED <<house, acct, wall, admins, done, clashed>>

\* Never an admin's.  The transaction has read a member it knows without locking the row;
\* an account it has to make comes with the session, and nobody sees either before.
SharedLogin(u) ==
  /\ house.team /\ Signs
  /\ acct[u].role # "admin" /\ ~acct[u].off
  /\ \/ /\ acct[u].role = "member"
        /\ logins' = logins \cup {[n |-> done.logins, who |-> u, revs |-> acct[u].revs]}
        /\ UNCHANGED <<acct, sessions>>
     \/ /\ acct[u].role = "none"
        /\ acct' = [acct EXCEPT ![u].role = "member"]
        /\ sessions' = sessions \cup {[who |-> u, revs |-> acct[u].revs, late |-> FALSE]}
        /\ UNCHANGED logins
  /\ UNCHANGED <<house, wall, admins, clashed>>

\* Where login is not required a cookie no longer honoured is a guest's, whose session
\* goes as well.
LogOut(s) ==
  /\ s \in sessions /\ (Honoured(s) \/ ~AuthRequired)
  /\ sessions' = sessions \ {s}
  /\ UNCHANGED <<house, acct, wall, logins, admins, done, clashed>>

----------------------------------------------------------------------------
(* The admins' requests *)

\* A session goes before the guest; no guest is let in where login is required.
LetIn(by) ==
  \/ \E s \in sessions : s.who = by /\ Honoured(s) /\ acct[by].role = "admin"
  \/ by = Guest /\ ~AuthRequired

AdminAsks(kind, by, on) ==
  /\ done.admin < house.requests /\ LetIn(by)
  /\ CASE kind = "revoke" -> by # on
       [] kind = "open" -> ~house.forced
       [] OTHER -> TRUE
  /\ admins' = admins \cup {[n |-> done.admin, kind |-> kind, by |-> by, on |-> on, at |-> "in"]}
  /\ done' = [done EXCEPT !.admin = @ + 1]
  /\ UNCHANGED <<house, acct, wall, sessions, logins, clashed>>

Stage(r, kind, at) == r \in admins /\ r.kind = kind /\ r.at = at
Finishes(r) == admins' = admins \ {r}
OnItsWay(r, at) == admins' = (admins \ {r}) \cup {[r EXCEPT !.at = at]}

\* An email that has an account fails on the unique index.
AddUser(r, role) ==
  /\ Stage(r, "add", "in") /\ Finishes(r)
  /\ acct' = IF acct[r.on].role = "none" THEN [acct EXCEPT ![r.on].role = role, ![r.on].code = TRUE]
             ELSE acct
  /\ UNCHANGED <<house, wall, sessions, logins, done, clashed>>

\* A fresh code lets a revoked account in again; sessions go on.
RotateCode(r) ==
  /\ Stage(r, "rotate", "in") /\ Finishes(r)
  /\ acct' = IF acct[r.on].role = "none" THEN acct
             ELSE [acct EXCEPT ![r.on].code = TRUE, ![r.on].off = FALSE]
  /\ UNCHANGED <<house, wall, sessions, logins, done, clashed>>

\* Does another request of these kinds rest on what it has read?
Meets(r) == \E o \in admins \ {r} : (o.kind = "revoke" /\ o.at = "in") \/ (o.kind = "close" /\ o.at = "able")

RevokeCode(r) ==
  /\ Stage(r, "revoke", "in")
  /\ IF acct[r.on].role = "none" THEN Finishes(r) /\ UNCHANGED <<acct, clashed>>
     ELSE /\ acct' = [acct EXCEPT ![r.on].code = FALSE, ![r.on].off = TRUE, ![r.on].revs = @ + 1]
          /\ clashed' = (clashed \/ Meets(r))
          /\ OnItsWay(r, "cut")
  /\ UNCHANGED <<house, wall, sessions, logins, done>>

\* Mutant: the sessions of somebody cut off are left to expire.
LeaveSessions(r) ==
  /\ Stage(r, "revoke", "cut") /\ Finishes(r)
  /\ UNCHANGED <<house, acct, wall, sessions, logins, done, clashed>>

\* The second statement, in no transaction with the first.
EndSessions(r) ==
  /\ Stage(r, "revoke", "cut") /\ Finishes(r)
  /\ sessions' = {s \in sessions : s.who # r.on}
  /\ UNCHANGED <<house, acct, wall, logins, done, clashed>>

CheckCapable(r) ==
  /\ Stage(r, "close", "in")
  /\ IF HasLoginCapableUser THEN OnItsWay(r, "able") ELSE Finishes(r)
  /\ UNCHANGED <<house, acct, wall, sessions, logins, done, clashed>>

CloseHouse(r) ==
  /\ Stage(r, "close", "able") /\ Finishes(r)
  /\ wall' = TRUE
  /\ clashed' = (clashed \/ Meets(r))
  /\ UNCHANGED <<house, acct, sessions, logins, done>>

OpenHouse(r) ==
  /\ Stage(r, "open", "in") /\ Finishes(r)
  /\ wall' = FALSE
  /\ UNCHANGED <<house, acct, sessions, logins, done, clashed>>

SignInNext ==
  \/ \E u \in Staff : VerifyCode(u) \/ SharedLogin(u)
  \/ \E l \in logins : OpenSession(l)
  \/ \E s \in sessions : LogOut(s)
  \/ \E by \in Staff \cup {Guest}, on \in Staff, kind \in {"add", "rotate", "revoke"} : AdminAsks(kind, by, on)
  \/ \E by \in Staff \cup {Guest}, kind \in {"close", "open"} : AdminAsks(kind, by, "all")
  \/ \E r \in admins, role \in Roles : AddUser(r, role)
  \/ \E r \in admins : RotateCode(r) \/ RevokeCode(r) \/ EndSessions(r)
  \/ \E r \in admins : CheckCapable(r) \/ CloseHouse(r) \/ OpenHouse(r)

SignInSpec == SignInInit /\ [][SignInNext]_signInVars

----------------------------------------------------------------------------
SignInTypeOK ==
  /\ acct \in [Staff -> [role : Roles \cup {"none"}, code : BOOLEAN, off : BOOLEAN, revs : 0 .. house.requests]]
  /\ wall \in BOOLEAN /\ clashed \in BOOLEAN
  /\ sessions \subseteq [who : Staff, revs : 0 .. house.requests, late : BOOLEAN]
  /\ Cardinality(admins) <= house.requests /\ Cardinality(logins) <= house.signIns

\* Where login is required somebody can log in ("or everyone would be locked out",
\* auth-routes.ts:112), whatever the admins do one after another: only a revocation that
\* overlaps another, or the closing of the house, can leave nobody.
SomebodyCanLogIn == AuthRequired /\ ~clashed => HasLoginCapableUser

\* Nobody who was cut off is let in by a session from before, even after a fresh code
\* has enabled the account again (auth.ts:219), unless the revocation struck between
\* the check of a code and the session it opens, or is still ending the sessions.
RevokedStaysOut ==
  \A s \in sessions :
    Honoured(s) /\ s.revs # acct[s.who].revs =>
      s.late \/ \E r \in admins : Stage(r, "revoke", "cut") /\ r.on = s.who

\* What the house promises of its doors, closed or open.
HouseKept == SomebodyCanLogIn /\ RevokedStaysOut
=============================================================================
