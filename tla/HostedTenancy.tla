---------------------------- MODULE HostedTenancy ----------------------------
(***************************************************************************)
(* Hosted workspaces: how one comes to be, who belongs to it, and which    *)
(* sessions open it.  The registry (workspaces, members, credentials,      *)
(* sessions, used links, pending sign-ups) is one schema, each workspace   *)
(* another one, and most requests write to both, one statement after the   *)
(* other.  Three transactions count: the registration of a workspace under *)
(* an advisory lock, the promotion of an unverified claim, and a password  *)
(* login's session under a share lock on the credential.                   *)
(***************************************************************************)
EXTENDS Naturals, FiniteSets

CONSTANTS
  Visits,      \* requests in flight at once
  Emails,      \* people
  Links,       \* emailed links (their keys)
  SpaceIds,    \* ids for new workspaces; bounds how many are built
  MaxSpaces,   \* MAX_WORKSPACES
  MaxMembers,  \* MAX_MEMBERS_PER_WORKSPACE
  Doors,       \* sets of kinds of request; one set per behaviour
  MaxTokens    \* bound on the pending sign-ups of an email

ASSUME TenancyAssumption ==
  /\ MaxSpaces \in Nat /\ MaxMembers \in Nat /\ MaxTokens \in Nat
  /\ 0 \notin SpaceIds /\ "none" \notin Links

VARIABLES
  doors,     \* the kinds of request in this behaviour
  schemas,   \* schemas that exist
  spaces,    \* control.workspaces
  member,    \* control.members by email
  creds,     \* control.credentials: the workspace an email's password opens
  held,      \* FOR SHARE locks on credentials: pairs of request and email
  users,     \* users rows: pairs of workspace and email
  off,       \* the users rows with disabled_at
  inner,     \* sessions rows in the workspaces
  outer,     \* control.sessions rows
  tokens,    \* pending_signups by email
  usedLinks, \* control.used_links
  visit,     \* requests in flight
  opened,    \* history: links that completed a sign-in, and how often
  promoted,  \* history: workspace and email of the unverified claims that were promoted
  strays,    \* history: schemas of sign-ups that died
  leftIn     \* history: workspace and email of members a decline removed, but whose user
             \* it left enabled: it died half-way, or had read another workspace's invitation

tenancyVars == <<doors, schemas, spaces, member, creds, held, users, off, inner, outer,
                 tokens, usedLinks, visit, opened, promoted, strays, leftIn>>
registryVars == <<doors, spaces, member, creds, tokens>>
historyVars == <<opened, promoted, strays, leftIn>>

Nobody == [ws |-> 0, status |-> "none", verified |-> FALSE]
NoVisit == [phase |-> "idle", email |-> "none", ws |-> 0, by |-> "none", link |-> "none"]

TenancyInit ==
  /\ doors \in Doors
  /\ schemas = {} /\ spaces = {}
  /\ member = [e \in Emails |-> Nobody]
  /\ creds = [e \in Emails |-> 0]
  /\ held = {} /\ users = {} /\ off = {}
  /\ inner = {} /\ outer = {}
  /\ tokens = [e \in Emails |-> 0]
  /\ usedLinks = {}
  /\ visit = [v \in Visits |-> NoVisit]
  /\ opened = [l \in Links |-> 0]
  /\ promoted = {} /\ strays = {} /\ leftIn = {}

In(v, phase) == visit[v].phase = phase
Move(v, phase) == visit' = [visit EXCEPT ![v].phase = phase]
Leave(v) == visit' = [visit EXCEPT ![v] = NoVisit]
Visiting(v, fields) == visit' = [visit EXCEPT ![v] = fields]
Taken == schemas \cup spaces \cup strays \cup {visit[v].ws : v \in Visits}

----------------------------------------------------------------------------
(* Two ways to a new workspace *)

\* password-signup: the email must be free.
BeginPasswordSignup(v, e) ==
  /\ In(v, "idle") /\ "signup" \in doors
  /\ member[e] = Nobody
  /\ Visiting(v, [NoVisit EXCEPT !.phase = "check", !.email = e, !.by = "signup"])
  /\ UNCHANGED <<registryVars, schemas, held, users, off, inner, outer, usedLinks, historyVars>>

\* create-workspace takes its token, deleted and read in one statement.
BeginCreate(v, e) ==
  /\ In(v, "idle") /\ "create" \in doors
  /\ tokens[e] > 0
  /\ tokens' = [tokens EXCEPT ![e] = @ - 1]
  /\ Visiting(v, [NoVisit EXCEPT !.email = e, !.by = "inbox", !.ws = member[e].ws,
                     !.phase = IF member[e].status = "invited" THEN "decline" ELSE "check"])
  /\ UNCHANGED <<doors, spaces, member, creds, schemas, held, users, off, inner, outer,
                 usedLinks, historyVars>>

\* declineInvite: whatever membership the email has by now goes, with its
\* credential, and then the user of the invitation seen is disabled.
DeclineInvite(v) ==
  LET e == visit[v].email IN
  /\ In(v, "decline")
  /\ ~\E h \in held : h[2] = e
  /\ member' = [member EXCEPT ![e] = Nobody]
  /\ creds' = [creds EXCEPT ![e] = 0]
  /\ leftIn' = leftIn \cup ({<<member[e].ws, e>>} \ {<<0, e>>, <<visit[v].ws, e>>})
  /\ Move(v, "disable")
  /\ UNCHANGED <<doors, spaces, tokens, schemas, held, users, off, inner, outer, usedLinks,
                 opened, promoted, strays>>

DisableDeclined(v) ==
  /\ In(v, "disable")
  /\ off' = off \cup {<<visit[v].ws, visit[v].email>>}
  /\ visit' = [visit EXCEPT ![v].phase = "check", ![v].ws = 0]
  /\ UNCHANGED <<registryVars, schemas, held, users, inner, outer, usedLinks, historyVars>>

\* createWorkspace: the early refusals, then a schema with its first user.
CreateSchema(v) ==
  LET e == visit[v].email IN
  /\ In(v, "check")
  /\ IF member[e] # Nobody \/ Cardinality(spaces) >= MaxSpaces
     THEN Leave(v) /\ UNCHANGED <<schemas, users>>
     ELSE \E w \in SpaceIds \ Taken :
            /\ schemas' = schemas \cup {w}
            /\ users' = users \cup {<<w, e>>}
            /\ visit' = [visit EXCEPT ![v].phase = "register", ![v].ws = w]
  /\ UNCHANGED <<registryVars, held, off, inner, outer, usedLinks, historyVars>>

\* The transaction under the advisory lock: count, row, member and credential.
\* The members key refuses an email another sign-up has registered.
Register(v) ==
  LET e == visit[v].email
      w == visit[v].ws
  IN
  /\ In(v, "register")
  /\ IF Cardinality(spaces) >= MaxSpaces \/ member[e] # Nobody
     THEN Move(v, "drop") /\ UNCHANGED <<spaces, member, creds>>
     ELSE /\ spaces' = spaces \cup {w}
          /\ member' = [member EXCEPT ![e] = [ws |-> w, status |-> "active",
                                              verified |-> visit[v].by = "inbox"]]
          /\ creds' = [creds EXCEPT ![e] = IF visit[v].by = "signup" THEN w ELSE 0]
          /\ Move(v, "session")
  /\ UNCHANGED <<doors, tokens, schemas, held, users, off, inner, outer, usedLinks, historyVars>>

\* The catch: DROP SCHEMA ... CASCADE.
\* Mutant: only the error is answered.
DropSchemaNot(v) ==
  /\ In(v, "drop")
  /\ Leave(v)
  /\ UNCHANGED <<registryVars, schemas, held, users, off, inner, outer, usedLinks, historyVars>>

DropSchema(v) ==
  /\ In(v, "drop")
  /\ schemas' = schemas \ {visit[v].ws}
  /\ users' = {u \in users : u[1] # visit[v].ws}
  /\ Leave(v)
  /\ UNCHANGED <<registryVars, held, off, inner, outer, usedLinks, historyVars>>

----------------------------------------------------------------------------
(* Sessions: openSession's two rows *)

Session(v) == [ws |-> visit[v].ws, email |-> visit[v].email, by |-> visit[v].by]

OpenInner(v) ==
  /\ In(v, "session")
  /\ inner' = inner \cup {Session(v)}
  /\ Move(v, "cookie")
  /\ UNCHANGED <<registryVars, schemas, held, users, off, outer, usedLinks, historyVars>>

OpenOuter(v) ==
  LET l == visit[v].link IN
  /\ In(v, "cookie")
  /\ outer' = outer \cup {Session(v)}
  /\ opened' = IF l \in Links THEN [opened EXCEPT ![l] = @ + 1] ELSE opened
  /\ Leave(v)
  /\ UNCHANGED <<registryVars, schemas, held, users, off, inner, usedLinks, promoted, strays,
                 leftIn>>

----------------------------------------------------------------------------
(* Password login *)

\* The credential, the check of the password, and the membership.
BeginLogin(v, e) ==
  /\ In(v, "idle") /\ "login" \in doors
  /\ creds[e] # 0 /\ member[e].status = "active" /\ member[e].ws = creds[e]
  /\ Visiting(v, [NoVisit EXCEPT !.phase = "lock", !.email = e, !.ws = creds[e],
                                 !.by = "login"])
  /\ UNCHANGED <<registryVars, schemas, held, users, off, inner, outer, usedLinks, historyVars>>

\* openPasswordSession: the credential must still be there, FOR SHARE ...
\* Mutant: an ordinary SELECT.
HoldCredentialUnlocked(v) ==
  LET e == visit[v].email IN
  /\ In(v, "lock")
  /\ IF creds[e] = visit[v].ws THEN Move(v, "open") ELSE Leave(v)
  /\ UNCHANGED <<registryVars, schemas, held, users, off, inner, outer, usedLinks, historyVars>>

HoldCredential(v) ==
  LET e == visit[v].email IN
  /\ In(v, "lock")
  /\ IF creds[e] = visit[v].ws
     THEN Move(v, "open") /\ held' = held \cup {<<v, e>>}
     ELSE Leave(v) /\ UNCHANGED held
  /\ UNCHANGED <<registryVars, schemas, users, off, inner, outer, usedLinks, historyVars>>

\* ... and both rows commit.
OpenPasswordSession(v) ==
  /\ In(v, "open")
  /\ inner' = inner \cup {Session(v)}
  /\ outer' = outer \cup {Session(v)}
  /\ held' = {h \in held : h[1] # v}
  /\ Leave(v)
  /\ UNCHANGED <<registryVars, schemas, users, off, usedLinks, historyVars>>

----------------------------------------------------------------------------
(* Sign-in by a code or a link *)

BeginCode(v, e) ==
  /\ In(v, "idle") /\ "code" \in doors
  /\ Visiting(v, [NoVisit EXCEPT !.phase = "proven", !.email = e, !.by = "inbox"])
  /\ UNCHANGED <<registryVars, schemas, held, users, off, inner, outer, usedLinks, historyVars>>

\* claimLinkUse: INSERT ... ON CONFLICT DO NOTHING.  A used link is refused.
ClaimLink(v, e, l) ==
  /\ In(v, "idle") /\ "link" \in doors
  /\ l \notin usedLinks
  /\ usedLinks' = usedLinks \cup {l}
  /\ Visiting(v, [NoVisit EXCEPT !.phase = "proven", !.email = e, !.by = "inbox", !.link = l])
  /\ UNCHANGED <<registryVars, schemas, held, users, off, inner, outer, historyVars>>

\* isUnverifiedClaim.
ReadClaim(v) ==
  LET e == visit[v].email IN
  /\ In(v, "proven")
  /\ Move(v, IF creds[e] # 0 /\ ~member[e].verified THEN "promote" ELSE "member")
  /\ UNCHANGED <<registryVars, schemas, held, users, off, inner, outer, usedLinks, historyVars>>

\* promoteUnverifiedClaim: one transaction that waits for the credential's row.
\* The first UPDATE finds nothing when another sign-in has verified the email.
Promote(v) ==
  LET e == visit[v].email
      w == member[e].ws
  IN
  /\ In(v, "promote")
  /\ Move(v, "member")
  /\ IF member[e] = Nobody \/ member[e].verified
     THEN UNCHANGED <<member, creds, off, inner, outer, promoted>>
     ELSE /\ ~\E h \in held : h[2] = e \/ member[h[2]].ws = w
          /\ member' = [x \in Emails |-> IF x = e THEN [member[e] EXCEPT !.verified = TRUE]
                                         ELSE IF member[x].ws = w THEN Nobody ELSE member[x]]
          /\ creds' = [x \in Emails |-> IF x = e \/ member[x].ws = w THEN 0 ELSE creds[x]]
          /\ off' = off \cup {u \in users : u[1] = w /\ u[2] # e}
          /\ outer' = {s \in outer : s \notin inner \/ s.ws # w}
          /\ inner' = {s \in inner : s.ws # w}
          /\ promoted' = promoted \cup {<<w, e>>}
  /\ UNCHANGED <<doors, spaces, tokens, schemas, held, users, usedLinks, opened, strays, leftIn>>

\* membershipFor: a session for an active member, a token for anyone else.
ReadMember(v) ==
  LET e == visit[v].email
      l == visit[v].link
  IN
  /\ In(v, "member")
  /\ IF member[e].status = "active"
     THEN /\ visit' = [visit EXCEPT ![v].phase = "session", ![v].ws = member[e].ws]
          /\ UNCHANGED <<tokens, opened>>
     ELSE /\ tokens[e] < MaxTokens
          /\ tokens' = [tokens EXCEPT ![e] = @ + 1]
          /\ opened' = IF l \in Links THEN [opened EXCEPT ![l] = @ + 1] ELSE opened
          /\ Leave(v)
  /\ UNCHANGED <<doors, spaces, member, creds, schemas, held, users, off, inner, outer,
                 usedLinks, promoted, strays, leftIn>>

\* Something fails on the way: a link that carried an access token is given back.
SignInFails(v) ==
  LET l == visit[v].link IN
  /\ visit[v].phase \in {"proven", "promote", "member", "session", "cookie"}
  /\ l \in Links
  /\ usedLinks' \in {usedLinks, usedLinks \ {l}}
  /\ Leave(v)
  /\ UNCHANGED <<registryVars, schemas, held, users, off, inner, outer, historyVars>>

----------------------------------------------------------------------------
(* Teammates *)

\* POST /api/users: the user row, whose email is unique in the workspace, then
\* addMember under the workspace's lock; the row is undone when it refuses.
Invite(w, e) ==
  /\ "invite" \in doors /\ w \in spaces
  /\ <<w, e>> \notin users
  /\ member[e] = Nobody
  /\ Cardinality({x \in Emails : member[x].ws = w}) < MaxMembers
  /\ users' = users \cup {<<w, e>>}
  /\ member' = [member EXCEPT ![e] = [ws |-> w, status |-> "invited", verified |-> FALSE]]
  /\ UNCHANGED <<doors, spaces, creds, tokens, schemas, held, off, inner, outer, usedLinks,
                 visit, historyVars>>

\* accept-invite: the token, then the membership as it is read.
BeginAccept(v, e) ==
  /\ In(v, "idle") /\ "invite" \in doors
  /\ tokens[e] > 0
  /\ tokens' = [tokens EXCEPT ![e] = @ - 1]
  /\ IF member[e].status = "invited"
     THEN Visiting(v, [NoVisit EXCEPT !.phase = "accept", !.email = e, !.ws = member[e].ws,
                                      !.by = "inbox"])
     ELSE UNCHANGED visit
  /\ UNCHANGED <<doors, spaces, member, creds, schemas, held, users, off, inner, outer,
                 usedLinks, historyVars>>

\* acceptInvite names the email and the status; then a session for the
\* membership that was read.
AcceptInvite(v) ==
  LET e == visit[v].email IN
  /\ In(v, "accept")
  /\ member' = IF member[e].status = "invited"
               THEN [member EXCEPT ![e].status = "active", ![e].verified = TRUE] ELSE member
  /\ Move(v, "session")
  /\ UNCHANGED <<doors, spaces, creds, tokens, schemas, held, users, off, inner, outer,
                 usedLinks, historyVars>>

\* revokeCode: the user is disabled and their sessions end ...
RevokeUser(w, e) ==
  /\ "revoke" \in doors /\ w \in spaces
  /\ <<w, e>> \in users \ off
  /\ off' = off \cup {<<w, e>>}
  /\ inner' = {s \in inner : ~(s.ws = w /\ s.email = e)}
  /\ UNCHANGED <<registryVars, schemas, held, users, outer, usedLinks, visit, historyVars>>

\* ... and removeMemberByUser frees the email.
RemoveMember(w, e) ==
  /\ "revoke" \in doors
  /\ <<w, e>> \in off /\ member[e].ws = w
  /\ ~\E h \in held : h[2] = e
  /\ member' = [member EXCEPT ![e] = Nobody]
  /\ creds' = [creds EXCEPT ![e] = 0]
  /\ UNCHANGED <<doors, spaces, tokens, schemas, held, users, off, inner, outer, usedLinks,
                 visit, historyVars>>

----------------------------------------------------------------------------
\* The function is killed; its open transaction ends.
VisitCrash(v) ==
  /\ ~In(v, "idle") /\ "crash" \in doors
  /\ strays' = IF visit[v].phase \in {"register", "drop"} THEN strays \cup {visit[v].ws}
               ELSE strays
  /\ leftIn' = IF In(v, "disable") THEN leftIn \cup {<<visit[v].ws, visit[v].email>>} ELSE leftIn
  /\ held' = {h \in held : h[1] # v}
  /\ Leave(v)
  /\ UNCHANGED <<registryVars, schemas, users, off, inner, outer, usedLinks, opened, promoted>>

TenancyStep(v) ==
  \/ DeclineInvite(v) \/ DisableDeclined(v) \/ CreateSchema(v) \/ Register(v) \/ DropSchema(v)
  \/ OpenInner(v) \/ OpenOuter(v) \/ HoldCredential(v) \/ OpenPasswordSession(v)
  \/ ReadClaim(v) \/ Promote(v) \/ ReadMember(v) \/ SignInFails(v) \/ AcceptInvite(v)

TenancyNext ==
  \/ \E v \in Visits : TenancyStep(v) \/ VisitCrash(v)
  \/ \E v \in Visits, e \in Emails :
       \/ BeginPasswordSignup(v, e) \/ BeginCreate(v, e) \/ BeginLogin(v, e)
       \/ BeginCode(v, e) \/ BeginAccept(v, e)
       \/ \E l \in Links : ClaimLink(v, e, l)
  \/ \E w \in SpaceIds, e \in Emails : Invite(w, e) \/ RevokeUser(w, e) \/ RemoveMember(w, e)

TenancySpec == TenancyInit /\ [][TenancyNext]_tenancyVars

----------------------------------------------------------------------------
TenancyTypeOK ==
  /\ schemas \subseteq SpaceIds /\ spaces \subseteq SpaceIds
  /\ member \in [Emails -> [ws : SpaceIds \cup {0}, status : {"none", "invited", "active"},
                            verified : BOOLEAN]]
  /\ creds \in [Emails -> SpaceIds \cup {0}]
  /\ held \subseteq Visits \X Emails
  /\ off \subseteq users /\ users \subseteq SpaceIds \X Emails
  /\ usedLinks \subseteq Links
  /\ tokens \in [Emails -> 0 .. MaxTokens]

\* "a half-built workspace never lingers" (tenancy.ts:115) and "a registry row must
\* never point at a schema that does not exist" (tenancy.ts:132): a schema without
\* a row belongs to a sign-up in flight, or to one that was killed.  And the registry
\* keeps its limit: "parallel sign-ups cannot all pass a check that ran before any of
\* them registered" (tenancy.ts:144).
SchemasOwned ==
  /\ Cardinality(spaces) <= MaxSpaces
  /\ spaces \subseteq schemas
  /\ \A w \in schemas \ (spaces \cup strays) :
       \E v \in Visits : visit[v].ws = w /\ visit[v].phase \in {"register", "drop"}

\* Once the inbox is proven, no session that a password login opened in the workspace
\* remains (tenancy.ts:261), whichever of the two commits first.
PromotionEndsLogins ==
  \A s \in inner \cap outer : s.by = "login" => <<s.ws, s.email>> \notin promoted

\* A link completes one sign-in (tenancy.ts:404), though it is given back when
\* the sign-in it started fails.
LinkOpensOnce == \A l \in Links : opened[l] <= 1

\* Whoever a session lets in is an active member: invitations declined while they
\* are accepted, promotions and revocations leave nobody inside.  A decline removes the
\* membership the email has by then and disables the user of the invitation it read:
\* when it dies in between, or the two are of different workspaces, a session stays.
OnlyMembersInside ==
  \A s \in inner \cap outer :
    <<s.ws, s.email>> \notin off \cup leftIn =>
      \/ member[s.email].ws = s.ws /\ member[s.email].status = "active"
      \/ \E v \in Visits : /\ In(v, "disable")
                           /\ visit[v].email = s.email /\ visit[v].ws = s.ws

\* What the doors of a workspace let through, in any order of the visits: one sign-in
\* for a link, members only, and nobody by a password set before the inbox was proven
\* (hosted/routes.ts:261-319, tenancy.ts:261).
DoorsHold == LinkOpensOnce /\ OnlyMembersInside /\ PromotionEndsLogins
=============================================================================
