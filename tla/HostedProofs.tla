---------------------------- MODULE HostedProofs ----------------------------
(*****************************************************************************)
(* Theorems about who comes in and what it costs, for every set of people,   *)
(* workspaces, calls and days: hosted workspaces (HostedTenancy), sign-in    *)
(* (SignIn), the language model's budget (ModelCalls) and the windows that   *)
(* slow requests down (Throttles).                                           *)
(*****************************************************************************)
EXTENDS ModelCalls, SignIn, HostedTenancy, Throttles, NaturalFacts

----------------------------------------------------------------------------
(*****************************************************************************)
(* HostedTenancy.  SchemasOwned and DoorsHold are about registry, schemas,   *)
(* members, links and sessions together, so the invariant says how a visit   *)
(* on its way holds each of them: who builds a schema (SpacesBuilt), what a  *)
(* membership points to (MembersPlaced), who claimed a link (LinksClaimed),  *)
(* which credential a password login holds until it commits (LoginsHold),    *)
(* and who a session, or a visit about to open one, is of (SessionsPlaced).  *)
(*****************************************************************************)

VisitPhases == {"idle", "check", "decline", "disable", "register", "drop", "session", "cookie",
                "lock", "open", "proven", "promote", "member", "accept"}
VisitRecord == [phase : VisitPhases, email : Emails \cup {"none"}, ws : SpaceIds \cup {0},
                by : {"none", "signup", "inbox", "login"}, link : Links \cup {"none"}]
MemberRow == [ws : SpaceIds \cup {0}, status : {"none", "invited", "active"}, verified : BOOLEAN]
SessionRow == [ws : SpaceIds \cup {0}, email : Emails, by : {"none", "signup", "inbox", "login"}]

\* The membership of e in w has been undone, or somebody is about to undo it.
Undone(w, e) ==
  \/ <<w, e>> \in off \cup leftIn
  \/ \E v \in Visits : In(v, "disable") /\ visit[v].email = e /\ visit[v].ws = w
\* Else it stands, or is an active one.
Placed(w, e) == Undone(w, e) \/ member[e].ws = w
Inside(w, e) == Undone(w, e) \/ (member[e].ws = w /\ member[e].status = "active")

TenancyShape ==
  /\ schemas \subseteq SpaceIds /\ spaces \subseteq SpaceIds
  /\ member \in [Emails -> MemberRow]
  /\ creds \in [Emails -> SpaceIds \cup {0}]
  /\ held \subseteq Visits \X Emails
  /\ off \subseteq users /\ users \subseteq SpaceIds \X Emails
  /\ usedLinks \subseteq Links
  /\ tokens \in [Emails -> 0 .. MaxTokens]
  /\ visit \in [Visits -> VisitRecord]
  /\ \A v \in Visits : visit[v].phase # "idle" => visit[v].email \in Emails
  /\ inner \subseteq SessionRow
  /\ opened \in [Links -> Nat]

\* The registry and the schemas.
SpacesBuilt ==
  /\ IsFiniteSet(spaces) /\ Cardinality(spaces) <= MaxSpaces
  /\ spaces \subseteq schemas
  /\ \A v \in Visits : visit[v].phase \in {"register", "drop"} =>
       visit[v].ws \in schemas /\ visit[v].ws \notin spaces /\ visit[v].ws \notin strays
  /\ \A u, v \in Visits :
       visit[u].phase \in {"register", "drop"} /\ visit[v].phase \in {"register", "drop"}
         /\ visit[u].ws = visit[v].ws => u = v
  /\ \A v \in Visits : visit[v].phase \in {"register", "drop"} => <<visit[v].ws, visit[v].email>> \in users
  /\ \A w \in schemas \ (spaces \cup strays) :
       \E v \in Visits : visit[v].ws = w /\ visit[v].phase \in {"register", "drop"}

\* Members have a user in a workspace that exists, and a password only while they are active.
MembersPlaced ==
  /\ \A e \in Emails : member[e].ws # 0 => member[e].ws \in spaces /\ <<member[e].ws, e>> \in users
  /\ \A e \in Emails : (member[e].ws = 0 <=> member[e].status = "none")
  /\ \A e \in Emails : member[e].ws = 0 => member[e] = Nobody
  /\ \A e \in Emails : creds[e] # 0 => member[e].ws = creds[e] /\ member[e].status = "active"
  /\ \A p \in off : p[1] \in spaces
  /\ \A v \in Visits : visit[v].phase \in {"decline", "disable", "accept"} =>
       visit[v].ws \in spaces /\ <<visit[v].ws, visit[v].email>> \in users

\* A link in use has been claimed and has opened nothing yet.
LinksClaimed ==
  /\ \A l \in Links : opened[l] <= 1
  /\ \A l \in Links : opened[l] > 0 => l \in usedLinks
  /\ \A v \in Visits : visit[v].link \in Links =>
       visit[v].link \in usedLinks /\ opened[visit[v].link] = 0
  /\ \A u, v \in Visits : visit[u].link \in Links /\ visit[u].link = visit[v].link => u = v

\* A password login holds the credential from its check to its commit.
LoginsHold ==
  /\ \A v \in Visits : visit[v].by = "login" => visit[v].phase \in {"lock", "open"}
  /\ \A v \in Visits : In(v, "lock") => visit[v].ws # 0
  /\ \A v \in Visits : In(v, "open") => /\ <<v, visit[v].email>> \in held
                                        /\ creds[visit[v].email] = visit[v].ws /\ visit[v].ws # 0
  /\ \A p \in promoted : p[1] \in spaces /\ p[2] \in Emails /\ creds[p[2]] # p[1]
  /\ \A s \in inner : s.by = "login" => <<s.ws, s.email>> \notin promoted

\* Whoever has a session, or is about to get one, is or was a member.
SessionsPlaced ==
  /\ \A w, e : \A s \in inner : s.ws = w /\ s.email = e => Inside(w, e)
  /\ \A w, e : \A v \in Visits :
       visit[v].phase \in {"session", "cookie"} /\ visit[v].ws = w /\ visit[v].email = e => Inside(w, e)
  /\ \A w, e : \A v \in Visits :
       visit[v].phase = "accept" /\ visit[v].ws = w /\ visit[v].email = e => Placed(w, e)

TenancyInv ==
  TenancyShape /\ SpacesBuilt /\ MembersPlaced /\ LinksClaimed /\ LoginsHold /\ SessionsPlaced

----------------------------------------------------------------------------
\* The row of an email that nobody has entered.
LEMMA NobodyFits ==
  Nobody \in MemberRow /\ Nobody.ws = 0 /\ Nobody.status = "none" /\ Nobody.verified = FALSE
BY DEF Nobody, MemberRow

\* The record of a visit that is not there.
LEMMA NoVisitFits ==
  /\ NoVisit \in VisitRecord /\ NoVisit.phase = "idle" /\ NoVisit.ws = 0 /\ NoVisit.email = "none"
  /\ NoVisit.by = "none" /\ NoVisit.link = "none"
BY DEF NoVisit, VisitRecord, VisitPhases

\* A visit that goes on keeps the fields that the step leaves alone.
LEMMA MovedFits ==
  ASSUME visit \in [Visits -> VisitRecord], NEW v \in Visits, NEW p \in VisitPhases,
         NEW w \in SpaceIds \cup {0}
  PROVE  /\ [visit EXCEPT ![v].phase = p] \in [Visits -> VisitRecord]
         /\ [visit EXCEPT ![v].phase = p, ![v].ws = w] \in [Visits -> VisitRecord]
<1>1. /\ [visit[v] EXCEPT !.phase = p] \in VisitRecord
      /\ [visit[v] EXCEPT !.phase = p, !.ws = w] \in VisitRecord
  BY DEF VisitRecord
<1>2. /\ [visit EXCEPT ![v].phase = p] = [visit EXCEPT ![v] = [visit[v] EXCEPT !.phase = p]]
      /\ [visit EXCEPT ![v].phase = p, ![v].ws = w]
           = [visit EXCEPT ![v] = [visit[v] EXCEPT !.phase = p, !.ws = w]]
  BY DEF VisitRecord
<1> QED
  BY <1>1, <1>2

\* Sessions stay placed where none opens and no visit about to open one changes.
LEMMA SessionsStayPlaced ==
  ASSUME TenancyInv, visit' \in [Visits -> VisitRecord], inner' \subseteq inner,
         \A u \in Visits : visit'[u].phase \in {"session", "cookie", "accept"} =>
           /\ visit'[u].ws = visit[u].ws /\ visit'[u].email = visit[u].email
           /\ visit[u].email \in Emails
           /\ visit[u].phase \in IF visit'[u].phase = "accept" THEN {"accept"}
                                 ELSE {"session", "cookie"},
         \A x, m : m \in Emails =>
           /\ (Undone(x, m) => Undone(x, m)')
           /\ (Placed(x, m) => Placed(x, m)')
           /\ (Inside(x, m) => Inside(x, m)')
  PROVE  SessionsPlaced'
<1>1. \A w0, e0 : \A s \in inner' : s.ws = w0 /\ s.email = e0 => Inside(w0, e0)'
  BY DEF TenancyInv, TenancyShape, SessionsPlaced, SessionRow
<1>2. \A w0, e0 : \A u \in Visits :
        visit'[u].phase \in {"session", "cookie"} /\ visit'[u].ws = w0 /\ visit'[u].email = e0 => Inside(w0, e0)'
  BY DEF TenancyInv, SessionsPlaced
<1>3. \A w0, e0 : \A u \in Visits :
        visit'[u].phase = "accept" /\ visit'[u].ws = w0 /\ visit'[u].email = e0 => Placed(w0, e0)'
  BY DEF TenancyInv, SessionsPlaced
<1> QED
  BY <1>1, <1>2, <1>3 DEF SessionsPlaced

\* Declining removes the membership that the email has by then.
LEMMA DeclineInviteKeeps ==
  ASSUME TenancyInv, NEW v \in Visits, DeclineInvite(v)
  PROVE  TenancyInv'
<1> USE NobodyFits, TenancyAssumption DEF TenancyInv, In, registryVars, historyVars
<1>1. /\ visit \in [Visits -> VisitRecord] /\ member \in [Emails -> MemberRow]
      /\ \A u \in Visits : visit[u].phase # "idle" => visit[u].email \in Emails
  BY DEF TenancyShape
<1>2. /\ visit' \in [Visits -> VisitRecord]
      /\ \A u \in Visits : u # v => visit'[u] = visit[u]
      /\ visit'[v].phase = "disable"
      /\ visit'[v].email = visit[v].email
      /\ visit'[v].ws = visit[v].ws
      /\ visit'[v].by = visit[v].by
      /\ visit'[v].link = visit[v].link
  BY <1>1, NoVisitFits DEF DeclineInvite, Move, Leave, Visiting, VisitRecord, VisitPhases, MemberRow
<1>3. TenancyShape'
  BY <1>1, <1>2 DEF DeclineInvite, TenancyShape
<1>4. SpacesBuilt'
  BY <1>1, <1>2 DEF DeclineInvite, TenancyShape, SpacesBuilt, MembersPlaced
<1>5. MembersPlaced'
  BY <1>1, <1>2 DEF DeclineInvite, TenancyShape, SpacesBuilt, MembersPlaced
<1>6. LinksClaimed'
  BY <1>1, <1>2 DEF DeclineInvite, TenancyShape, LinksClaimed
<1>7. LoginsHold'
  BY <1>1, <1>2 DEF DeclineInvite, TenancyShape, SpacesBuilt, MembersPlaced, LoginsHold
<1>8. \A x, m : m \in Emails =>
        /\ (Undone(x, m) => Undone(x, m)')
        /\ (Placed(x, m) => Placed(x, m)')
        /\ (Inside(x, m) => Inside(x, m)')
  BY <1>1, <1>2 DEF DeclineInvite, TenancyShape, MembersPlaced, Placed, Inside, Undone
<1>9. SessionsPlaced'
  BY <1>1, <1>2, <1>8, SessionsStayPlaced DEF DeclineInvite
<1> QED
  BY <1>3, <1>4, <1>5, <1>6, <1>7, <1>9

\* The user of the declined invitation is cut off.
LEMMA DisableDeclinedKeeps ==
  ASSUME TenancyInv, NEW v \in Visits, DisableDeclined(v)
  PROVE  TenancyInv'
<1> USE NobodyFits, TenancyAssumption DEF TenancyInv, In, registryVars, historyVars
<1>1. /\ visit \in [Visits -> VisitRecord] /\ member \in [Emails -> MemberRow]
      /\ \A u \in Visits : visit[u].phase # "idle" => visit[u].email \in Emails
  BY DEF TenancyShape
<1>2. /\ visit' \in [Visits -> VisitRecord]
      /\ \A u \in Visits : u # v => visit'[u] = visit[u]
      /\ visit'[v].phase = "check"
      /\ visit'[v].email = visit[v].email
      /\ visit'[v].ws = 0
      /\ visit'[v].by = visit[v].by
      /\ visit'[v].link = visit[v].link
  <2>1. visit' = [visit EXCEPT ![v].phase = "check", ![v].ws = 0]
    BY DEF DisableDeclined
  <2>2. visit' \in [Visits -> VisitRecord]
    <3>1. "check" \in VisitPhases /\ 0 \in SpaceIds \cup {0}
      BY DEF VisitPhases
    <3> QED
      BY <1>1, <2>1, <3>1, MovedFits
  <2> QED
    BY <1>1, <2>1, <2>2 DEF VisitRecord
<1>3. TenancyShape'
  BY <1>1, <1>2 DEF DisableDeclined, TenancyShape, MembersPlaced
<1>4. SpacesBuilt'
  <2>1. /\ spaces' = spaces /\ schemas' = schemas /\ users' = users /\ strays' = strays
        /\ visit[v].phase = "disable"
    BY DEF DisableDeclined
  <2> QED
    BY <1>2, <2>1 DEF SpacesBuilt
<1>5. MembersPlaced'
  BY <1>1, <1>2 DEF DisableDeclined, TenancyShape, SpacesBuilt, MembersPlaced
<1>6. LinksClaimed'
  BY <1>1, <1>2 DEF DisableDeclined, TenancyShape, LinksClaimed
<1>7. LoginsHold'
  BY <1>1, <1>2 DEF DisableDeclined, TenancyShape, SpacesBuilt, MembersPlaced, LoginsHold
<1>8. \A x, m : m \in Emails =>
        /\ (Undone(x, m) => Undone(x, m)')
        /\ (Placed(x, m) => Placed(x, m)')
        /\ (Inside(x, m) => Inside(x, m)')
  BY <1>1, <1>2 DEF DisableDeclined, TenancyShape, MembersPlaced, Placed, Inside, Undone
<1>9. SessionsPlaced'
  BY <1>1, <1>2, <1>8, SessionsStayPlaced DEF DisableDeclined
<1> QED
  BY <1>3, <1>4, <1>5, <1>6, <1>7, <1>9

\* A sign-up that passes the checks builds a schema, its own until it registers.
LEMMA CreateSchemaKeepsA ==
  ASSUME TenancyInv, NEW v \in Visits, CreateSchema(v), ~(member[visit[v].email] # Nobody \/ Cardinality(spaces) >= MaxSpaces)
  PROVE  TenancyInv'
<1> USE NobodyFits, TenancyAssumption DEF TenancyInv, In, registryVars, historyVars
<1>1. /\ visit \in [Visits -> VisitRecord] /\ member \in [Emails -> MemberRow]
      /\ \A u \in Visits : visit[u].phase # "idle" => visit[u].email \in Emails
  BY DEF TenancyShape
<1>2. PICK w \in SpaceIds \ Taken :
        /\ schemas' = schemas \cup {w}
        /\ users' = users \cup {<<w, visit[v].email>>}
        /\ visit' = [visit EXCEPT ![v].phase = "register", ![v].ws = w]
  BY DEF CreateSchema
<1>20. /\ visit' \in [Visits -> VisitRecord]
       /\ \A u \in Visits : u # v => visit'[u] = visit[u]
       /\ visit'[v].phase = "register" /\ visit'[v].ws = w
       /\ visit'[v].email = visit[v].email /\ visit'[v].by = visit[v].by
       /\ visit'[v].link = visit[v].link
  <2>1. visit' \in [Visits -> VisitRecord]
    BY <1>1, <1>2, MovedFits DEF VisitPhases
  <2> QED
    BY <1>1, <1>2, <2>1 DEF VisitRecord
<1>21. /\ visit[v].phase = "check" /\ visit[v].email \in Emails
       /\ spaces' = spaces /\ member' = member /\ creds' = creds /\ tokens' = tokens
       /\ held' = held /\ off' = off /\ inner' = inner /\ outer' = outer
       /\ usedLinks' = usedLinks /\ opened' = opened /\ promoted' = promoted /\ strays' = strays
       /\ leftIn' = leftIn
  BY <1>1 DEF CreateSchema
<1>22. w \notin schemas /\ w \notin spaces /\ w \notin strays /\ \A u \in Visits : visit[u].ws # w
  BY <1>2 DEF Taken
<1>3. TenancyShape'
  BY <1>1, <1>2, <1>20, <1>21 DEF TenancyShape
<1>4. SpacesBuilt'
  <2>1. /\ IsFiniteSet(spaces') /\ Cardinality(spaces') <= MaxSpaces /\ spaces' \subseteq schemas'
    BY <1>2, <1>21 DEF SpacesBuilt
  <2>2. \A u \in Visits : visit'[u].phase \in {"register", "drop"} =>
          u = v \/ (visit[u].phase \in {"register", "drop"} /\ visit'[u] = visit[u] /\ visit[u].ws # w)
    BY <1>20, <1>22
  <2> QED
    BY <1>2, <1>20, <1>21, <1>22, <2>1, <2>2 DEF SpacesBuilt
<1>5. MembersPlaced'
  BY <1>2, <1>20, <1>21 DEF MembersPlaced
<1>6. LinksClaimed'
  BY <1>20, <1>21 DEF LinksClaimed
<1>7. LoginsHold'
  BY <1>20, <1>21 DEF LoginsHold
<1>8. \A x, m : m \in Emails =>
        /\ (Undone(x, m) => Undone(x, m)')
        /\ (Placed(x, m) => Placed(x, m)')
        /\ (Inside(x, m) => Inside(x, m)')
  BY <1>20, <1>21 DEF Placed, Inside, Undone
<1>9. SessionsPlaced'
  BY <1>1, <1>8, <1>20, <1>21 DEF SessionsPlaced, TenancyShape, SessionRow
<1> QED
  BY <1>3, <1>4, <1>5, <1>6, <1>7, <1>9

\* A sign-up that the checks refuse leaves nothing.
LEMMA CreateSchemaKeepsB ==
  ASSUME TenancyInv, NEW v \in Visits, CreateSchema(v), member[visit[v].email] # Nobody \/ Cardinality(spaces) >= MaxSpaces
  PROVE  TenancyInv'
<1> USE NobodyFits, TenancyAssumption DEF TenancyInv, In, registryVars, historyVars
<1>1. /\ visit \in [Visits -> VisitRecord] /\ member \in [Emails -> MemberRow]
      /\ \A u \in Visits : visit[u].phase # "idle" => visit[u].email \in Emails
  BY DEF TenancyShape
<1>2. /\ visit' \in [Visits -> VisitRecord]
      /\ \A u \in Visits : u # v => visit'[u] = visit[u]
      /\ visit'[v].phase = "idle"
      /\ visit'[v].email = "none"
      /\ visit'[v].ws = 0
      /\ visit'[v].by = "none"
      /\ visit'[v].link = "none"
  BY <1>1, NoVisitFits DEF CreateSchema, Move, Leave, Visiting, VisitRecord, VisitPhases, MemberRow
<1>3. TenancyShape'
  BY <1>1, <1>2 DEF CreateSchema, TenancyShape
<1>4. SpacesBuilt'
  BY <1>1, <1>2 DEF CreateSchema, TenancyShape, SpacesBuilt, MembersPlaced
<1>5. MembersPlaced'
  BY <1>1, <1>2 DEF CreateSchema, TenancyShape, SpacesBuilt, MembersPlaced
<1>6. LinksClaimed'
  BY <1>1, <1>2 DEF CreateSchema, TenancyShape, LinksClaimed
<1>7. LoginsHold'
  BY <1>1, <1>2 DEF CreateSchema, TenancyShape, SpacesBuilt, MembersPlaced, LoginsHold
<1>8. \A x, m : m \in Emails =>
        /\ (Undone(x, m) => Undone(x, m)')
        /\ (Placed(x, m) => Placed(x, m)')
        /\ (Inside(x, m) => Inside(x, m)')
  BY <1>1, <1>2 DEF CreateSchema, TenancyShape, MembersPlaced, Placed, Inside, Undone
<1>9. SessionsPlaced'
  BY <1>1, <1>2, <1>8, SessionsStayPlaced DEF CreateSchema
<1> QED
  BY <1>3, <1>4, <1>5, <1>6, <1>7, <1>9

\* A sign-up that lost the race for the registry goes on to drop its schema.
LEMMA RegisterKeepsA ==
  ASSUME TenancyInv, NEW v \in Visits, Register(v), Cardinality(spaces) >= MaxSpaces \/ member[visit[v].email] # Nobody
  PROVE  TenancyInv'
<1> USE NobodyFits, TenancyAssumption DEF TenancyInv, In, registryVars, historyVars
<1>1. /\ visit \in [Visits -> VisitRecord] /\ member \in [Emails -> MemberRow]
      /\ \A u \in Visits : visit[u].phase # "idle" => visit[u].email \in Emails
  BY DEF TenancyShape
<1>2. /\ visit' \in [Visits -> VisitRecord]
      /\ \A u \in Visits : u # v => visit'[u] = visit[u]
      /\ visit'[v].phase = "drop"
      /\ visit'[v].email = visit[v].email
      /\ visit'[v].ws = visit[v].ws
      /\ visit'[v].by = visit[v].by
      /\ visit'[v].link = visit[v].link
  BY <1>1, NoVisitFits DEF Register, Move, Leave, Visiting, VisitRecord, VisitPhases, MemberRow
<1>3. TenancyShape'
  BY <1>1, <1>2 DEF Register, TenancyShape
<1>4. SpacesBuilt'
  BY SMTT(20), <1>1, <1>2 DEF Register, TenancyShape, SpacesBuilt, MembersPlaced
<1>5. MembersPlaced'
  BY <1>1, <1>2 DEF Register, TenancyShape, SpacesBuilt, MembersPlaced
<1>6. LinksClaimed'
  BY <1>1, <1>2 DEF Register, TenancyShape, LinksClaimed
<1>7. LoginsHold'
  BY <1>1, <1>2 DEF Register, TenancyShape, SpacesBuilt, MembersPlaced, LoginsHold
<1>8. \A x, m : m \in Emails =>
        /\ (Undone(x, m) => Undone(x, m)')
        /\ (Placed(x, m) => Placed(x, m)')
        /\ (Inside(x, m) => Inside(x, m)')
  BY <1>1, <1>2 DEF Register, TenancyShape, MembersPlaced, Placed, Inside, Undone
<1>9. SessionsPlaced'
  BY <1>1, <1>2, <1>8, SessionsStayPlaced DEF Register
<1> QED
  BY <1>3, <1>4, <1>5, <1>6, <1>7, <1>9

\* A registration points at the schema that the sign-up built.
LEMMA RegisterKeepsB ==
  ASSUME TenancyInv, NEW v \in Visits, Register(v), ~(Cardinality(spaces) >= MaxSpaces \/ member[visit[v].email] # Nobody)
  PROVE  TenancyInv'
<1> USE NobodyFits, TenancyAssumption DEF TenancyInv, In, registryVars, historyVars
<1>1. /\ visit \in [Visits -> VisitRecord] /\ member \in [Emails -> MemberRow]
      /\ \A u \in Visits : visit[u].phase # "idle" => visit[u].email \in Emails
  BY DEF TenancyShape
<1> DEFINE e == visit[v].email
           w == visit[v].ws
           row == [ws |-> w, status |-> "active", verified |-> visit[v].by = "inbox"]
<1>2. /\ visit' \in [Visits -> VisitRecord]
      /\ \A u \in Visits : u # v => visit'[u] = visit[u]
      /\ visit'[v].phase = "session" /\ visit'[v].ws = w /\ visit'[v].email = e
      /\ visit'[v].by = visit[v].by /\ visit'[v].link = visit[v].link
  BY <1>1 DEF Register, Move, VisitRecord, VisitPhases
<1>20. /\ e \in Emails /\ w \in SpaceIds /\ w \notin spaces /\ w \in schemas /\ <<w, e>> \in users
       /\ w # 0
  BY <1>1 DEF Register, SpacesBuilt, TenancyShape
<1>21. row \in MemberRow /\ row.ws = w /\ row.status = "active"
  BY <1>20 DEF MemberRow
<1> HIDE DEF row
<1>22. /\ visit[v].phase = "register" /\ member[e] = Nobody
       /\ Cardinality(spaces) < MaxSpaces
       /\ spaces' = spaces \cup {w} /\ member' = [member EXCEPT ![e] = row]
       /\ creds' = [creds EXCEPT ![e] = IF visit[v].by = "signup" THEN w ELSE 0]
       /\ schemas' = schemas /\ tokens' = tokens /\ users' = users
       /\ held' = held /\ off' = off /\ inner' = inner /\ outer' = outer
       /\ usedLinks' = usedLinks /\ opened' = opened /\ promoted' = promoted /\ strays' = strays
       /\ leftIn' = leftIn
  <2>1. Cardinality(spaces) \in Nat
    BY FS_CardinalityType DEF SpacesBuilt
  <2> QED
    BY <2>1 DEF Register, row
<1>23. SUFFICES ASSUME NEW a, NEW x, a = e, x = w PROVE TenancyInv'
  OBVIOUS
<1>24. /\ member' \in [Emails -> MemberRow] /\ creds' \in [Emails -> SpaceIds \cup {0}]
       /\ member'[a] = row /\ row.ws = x /\ creds'[a] \in {0, x}
       /\ \A m \in Emails : m # a => member'[m] = member[m] /\ creds'[m] = creds[m]
  BY <1>1, <1>20, <1>21, <1>22, <1>23 DEF TenancyShape
<1>3. TenancyShape'
  BY <1>2, <1>20, <1>22, <1>24 DEF TenancyShape
<1>4. SpacesBuilt'
  <2>1. IsFiniteSet(spaces') /\ Cardinality(spaces') <= MaxSpaces
    <3>1. IsFiniteSet(spaces) /\ Cardinality(spaces) \in Nat /\ MaxSpaces \in Nat
      BY FS_CardinalityType DEF SpacesBuilt
    <3>2. IsFiniteSet(spaces \cup {w}) /\ Cardinality(spaces \cup {w}) = Cardinality(spaces) + 1
      BY <1>20, <3>1, FS_AddElement
    <3>3. Cardinality(spaces) + 1 <= MaxSpaces
      BY <1>22, <3>1
    <3> QED
      BY <1>22, <3>2, <3>3
  <2>2. \A u \in Visits : visit'[u].phase \in {"register", "drop"} =>
          u # v /\ visit[u].phase \in {"register", "drop"} /\ visit'[u] = visit[u] /\ visit[u].ws # w
    BY <1>2, <1>22 DEF SpacesBuilt
  <2> QED
    BY <1>2, <1>20, <1>22, <2>1, <2>2 DEF SpacesBuilt
<1>5. MembersPlaced'
  BY <1>2, <1>20, <1>21, <1>22, <1>23, <1>24 DEF MembersPlaced
<1>6. LinksClaimed'
  BY <1>2, <1>22 DEF LinksClaimed
<1>7. LoginsHold'
  BY <1>2, <1>20, <1>22, <1>23, <1>24 DEF LoginsHold, MembersPlaced
<1>8. \A y, m : m \in Emails =>
        /\ (Undone(y, m) => Undone(y, m)')
        /\ (y # 0 /\ Placed(y, m) => Placed(y, m)')
        /\ (Inside(y, m) => Inside(y, m)')
  <2>1. \A y, m : Undone(y, m) => Undone(y, m)'
    BY <1>2, <1>22 DEF Undone
  <2>2. \A m \in Emails : m # a => member'[m] = member[m]
    BY <1>24
  <2>3. member[a].ws = 0 /\ member[a].status = "none"
    BY <1>22, <1>23
  <2>4. \A y : y # 0 => (Placed(y, a) => Undone(y, a))
    BY <2>3 DEF Placed
  <2>5. \A y : Inside(y, a) => Undone(y, a)
    BY <2>3 DEF Inside
  <2> QED
    BY <2>1, <2>2, <2>4, <2>5 DEF Placed, Inside
<1>9. SessionsPlaced'
  <2>1. Inside(x, a)'
    BY <1>21, <1>24 DEF Inside
  <2>2. \A u \in Visits : visit'[u].phase \in {"session", "cookie", "accept"} =>
          (u = v /\ visit'[u].ws = x /\ visit'[u].email = a) \/ visit'[u] = visit[u]
    BY <1>2, <1>23
  <2>3. \A u \in Visits : visit[u].phase = "accept" => visit[u].ws # 0
    BY DEF MembersPlaced, TenancyShape
  <2> QED
    BY <1>1, <1>2, <1>8, <1>22, <2>1, <2>2, <2>3 DEF SessionsPlaced, TenancyShape, SessionRow
<1> QED
  BY <1>3, <1>4, <1>5, <1>6, <1>7, <1>9

\* What is dropped was the sign-up's own, and no row points at it.
LEMMA DropSchemaKeeps ==
  ASSUME TenancyInv, NEW v \in Visits, DropSchema(v)
  PROVE  TenancyInv'
<1> USE NobodyFits, TenancyAssumption DEF TenancyInv, In, registryVars, historyVars
<1>1. /\ visit \in [Visits -> VisitRecord] /\ member \in [Emails -> MemberRow]
      /\ \A u \in Visits : visit[u].phase # "idle" => visit[u].email \in Emails
  BY DEF TenancyShape
<1>2. /\ visit' \in [Visits -> VisitRecord]
      /\ \A u \in Visits : u # v => visit'[u] = visit[u]
      /\ visit'[v].phase = "idle"
      /\ visit'[v].email = "none"
      /\ visit'[v].ws = 0
      /\ visit'[v].by = "none"
      /\ visit'[v].link = "none"
  BY <1>1, NoVisitFits DEF DropSchema, Move, Leave, Visiting, VisitRecord, VisitPhases, MemberRow
<1>3. TenancyShape'
  BY <1>1, <1>2 DEF DropSchema, TenancyShape, SpacesBuilt, MembersPlaced
<1>4. SpacesBuilt'
  BY <1>1, <1>2 DEF DropSchema, TenancyShape, SpacesBuilt, MembersPlaced
<1>5. MembersPlaced'
  BY <1>1, <1>2 DEF DropSchema, TenancyShape, SpacesBuilt, MembersPlaced
<1>6. LinksClaimed'
  BY <1>1, <1>2 DEF DropSchema, TenancyShape, LinksClaimed
<1>7. LoginsHold'
  BY <1>2 DEF LoginsHold, DropSchema
<1>8. \A x, m : m \in Emails =>
        /\ (Undone(x, m) => Undone(x, m)')
        /\ (Placed(x, m) => Placed(x, m)')
        /\ (Inside(x, m) => Inside(x, m)')
  BY <1>1, <1>2 DEF DropSchema, TenancyShape, MembersPlaced, Placed, Inside, Undone
<1>9. SessionsPlaced'
  BY <1>1, <1>2, <1>8, SessionsStayPlaced DEF DropSchema
<1> QED
  BY <1>3, <1>4, <1>5, <1>6, <1>7, <1>9

\* The session a visit opens is of the member it was let in as.
LEMMA OpenInnerKeeps ==
  ASSUME TenancyInv, NEW v \in Visits, OpenInner(v)
  PROVE  TenancyInv'
<1> USE NobodyFits, TenancyAssumption DEF TenancyInv, In, registryVars, historyVars
<1>1. /\ visit \in [Visits -> VisitRecord] /\ member \in [Emails -> MemberRow]
      /\ \A u \in Visits : visit[u].phase # "idle" => visit[u].email \in Emails
  BY DEF TenancyShape
<1>2. /\ visit' \in [Visits -> VisitRecord]
      /\ \A u \in Visits : u # v => visit'[u] = visit[u]
      /\ visit'[v].phase = "cookie"
      /\ visit'[v].email = visit[v].email
      /\ visit'[v].ws = visit[v].ws
      /\ visit'[v].by = visit[v].by
      /\ visit'[v].link = visit[v].link
  BY <1>1, NoVisitFits DEF OpenInner, Move, Leave, Visiting, VisitRecord, VisitPhases, MemberRow
<1>3. TenancyShape'
  <2>1. Session(v) \in SessionRow
    BY <1>1 DEF Session, SessionRow, VisitRecord, OpenInner
  <2> QED
    BY <1>1, <1>2, <2>1 DEF TenancyShape, OpenInner
<1>4. SpacesBuilt'
  BY <1>1, <1>2 DEF OpenInner, TenancyShape, SpacesBuilt, MembersPlaced
<1>5. MembersPlaced'
  BY <1>1, <1>2 DEF OpenInner, TenancyShape, SpacesBuilt, MembersPlaced
<1>6. LinksClaimed'
  BY <1>1, <1>2 DEF OpenInner, TenancyShape, LinksClaimed
<1>7. LoginsHold'
  <2>1. Session(v).by # "login"
    BY DEF Session, LoginsHold, OpenInner
  <2> QED
    BY <1>2, <2>1 DEF LoginsHold, OpenInner
<1>8. \A x, m : m \in Emails =>
        /\ (Undone(x, m) => Undone(x, m)')
        /\ (Placed(x, m) => Placed(x, m)')
        /\ (Inside(x, m) => Inside(x, m)')
  BY <1>1, <1>2 DEF OpenInner, TenancyShape, MembersPlaced, Placed, Inside, Undone
<1>9. SessionsPlaced'
  <2>1. \A w0, e0 : \A s \in inner' : s.ws = w0 /\ s.email = e0 => Inside(w0, e0)'
    <3>1. \A w0, e0 : visit[v].ws = w0 /\ visit[v].email = e0 => Inside(w0, e0)
      BY DEF SessionsPlaced, OpenInner
    <3>2. \A w0, e0 : Session(v).ws = w0 /\ Session(v).email = e0 => e0 \in Emails /\ Inside(w0, e0)
      BY <1>1, <3>1 DEF Session, OpenInner
    <3> QED
      BY <1>8, <3>2 DEF SessionsPlaced, TenancyShape, SessionRow, OpenInner
  <2>2. \A w0, e0 : \A u \in Visits :
          visit'[u].phase \in {"session", "cookie"} /\ visit'[u].ws = w0 /\ visit'[u].email = e0 => Inside(w0, e0)'
    BY <1>1, <1>2, <1>8 DEF OpenInner, SessionsPlaced
  <2>3. \A w0, e0 : \A u \in Visits :
          visit'[u].phase = "accept" /\ visit'[u].ws = w0 /\ visit'[u].email = e0 => Placed(w0, e0)'
    BY <1>1, <1>2, <1>8 DEF OpenInner, SessionsPlaced
  <2> QED
    BY <2>1, <2>2, <2>3 DEF SessionsPlaced
<1> QED
  BY <1>3, <1>4, <1>5, <1>6, <1>7, <1>9

\* A cookie is set for a session that is there.
LEMMA OpenOuterKeeps ==
  ASSUME TenancyInv, NEW v \in Visits, OpenOuter(v)
  PROVE  TenancyInv'
<1> USE NobodyFits, TenancyAssumption DEF TenancyInv, In, registryVars, historyVars
<1>1. /\ visit \in [Visits -> VisitRecord] /\ member \in [Emails -> MemberRow]
      /\ \A u \in Visits : visit[u].phase # "idle" => visit[u].email \in Emails
  BY DEF TenancyShape
<1>2. /\ visit' \in [Visits -> VisitRecord]
      /\ \A u \in Visits : u # v => visit'[u] = visit[u]
      /\ visit'[v].phase = "idle"
      /\ visit'[v].email = "none"
      /\ visit'[v].ws = 0
      /\ visit'[v].by = "none"
      /\ visit'[v].link = "none"
  BY <1>1, NoVisitFits DEF OpenOuter, Move, Leave, Visiting, VisitRecord, VisitPhases, MemberRow
<1>3. TenancyShape'
  BY <1>1, <1>2 DEF OpenOuter, TenancyShape
<1>4. SpacesBuilt'
  BY <1>1, <1>2 DEF OpenOuter, TenancyShape, SpacesBuilt, MembersPlaced
<1>5. MembersPlaced'
  BY <1>1, <1>2 DEF OpenOuter, TenancyShape, SpacesBuilt, MembersPlaced
<1>6. LinksClaimed'
  BY <1>1, <1>2 DEF OpenOuter, TenancyShape, LinksClaimed
<1>7. LoginsHold'
  BY <1>1, <1>2 DEF OpenOuter, TenancyShape, SpacesBuilt, MembersPlaced, LoginsHold
<1>8. \A x, m : m \in Emails =>
        /\ (Undone(x, m) => Undone(x, m)')
        /\ (Placed(x, m) => Placed(x, m)')
        /\ (Inside(x, m) => Inside(x, m)')
  BY <1>1, <1>2 DEF OpenOuter, TenancyShape, MembersPlaced, Placed, Inside, Undone
<1>9. SessionsPlaced'
  BY <1>1, <1>2, <1>8, SessionsStayPlaced DEF OpenOuter
<1> QED
  BY <1>3, <1>4, <1>5, <1>6, <1>7, <1>9

\* A login holds the credential it has found until it commits.
LEMMA HoldCredentialKeepsA ==
  ASSUME TenancyInv, NEW v \in Visits, HoldCredential(v), creds[visit[v].email] = visit[v].ws
  PROVE  TenancyInv'
<1> USE NobodyFits, TenancyAssumption DEF TenancyInv, In, registryVars, historyVars
<1>1. /\ visit \in [Visits -> VisitRecord] /\ member \in [Emails -> MemberRow]
      /\ \A u \in Visits : visit[u].phase # "idle" => visit[u].email \in Emails
  BY DEF TenancyShape
<1>2. /\ visit' \in [Visits -> VisitRecord]
      /\ \A u \in Visits : u # v => visit'[u] = visit[u]
      /\ visit'[v].phase = "open"
      /\ visit'[v].email = visit[v].email
      /\ visit'[v].ws = visit[v].ws
      /\ visit'[v].by = visit[v].by
      /\ visit'[v].link = visit[v].link
  BY <1>1, NoVisitFits DEF HoldCredential, Move, Leave, Visiting, VisitRecord, VisitPhases, MemberRow
<1>3. TenancyShape'
  BY <1>1, <1>2 DEF HoldCredential, TenancyShape
<1>4. SpacesBuilt'
  BY SMTT(20), <1>1, <1>2 DEF HoldCredential, TenancyShape, SpacesBuilt, MembersPlaced
<1>5. MembersPlaced'
  BY <1>1, <1>2 DEF HoldCredential, TenancyShape, SpacesBuilt, MembersPlaced
<1>6. LinksClaimed'
  BY <1>1, <1>2 DEF HoldCredential, TenancyShape, LinksClaimed
<1>7. LoginsHold'
  <2>1. /\ visit[v].phase = "lock" /\ creds' = creds /\ held' = held \cup {<<v, visit[v].email>>}
        /\ promoted' = promoted /\ inner' = inner
    BY DEF HoldCredential
  <2>2. visit[v].ws # 0
    BY <2>1 DEF LoginsHold
  <2>3. spaces' = spaces
    BY DEF HoldCredential
  <2>4. \A u \in Visits : visit'[u].by = "login" => visit'[u].phase \in {"lock", "open"}
    BY <1>2, <2>1 DEF LoginsHold
  <2>5. \A u \in Visits : visit'[u].phase = "lock" => visit'[u].ws # 0
    BY <1>2, <2>1 DEF LoginsHold
  <2>6. \A u \in Visits : visit'[u].phase = "open" =>
          /\ <<u, visit'[u].email>> \in held'
          /\ creds'[visit'[u].email] = visit'[u].ws /\ visit'[u].ws # 0
    BY <1>2, <2>1, <2>2 DEF LoginsHold
  <2> QED
    BY <2>1, <2>3, <2>4, <2>5, <2>6 DEF LoginsHold
<1>8. \A x, m : m \in Emails =>
        /\ (Undone(x, m) => Undone(x, m)')
        /\ (Placed(x, m) => Placed(x, m)')
        /\ (Inside(x, m) => Inside(x, m)')
  BY <1>1, <1>2 DEF HoldCredential, TenancyShape, MembersPlaced, Placed, Inside, Undone
<1>9. SessionsPlaced'
  BY <1>1, <1>2, <1>8, SessionsStayPlaced DEF HoldCredential
<1> QED
  BY <1>3, <1>4, <1>5, <1>6, <1>7, <1>9

\* A login that finds no credential ends.
LEMMA HoldCredentialKeepsB ==
  ASSUME TenancyInv, NEW v \in Visits, HoldCredential(v), creds[visit[v].email] # visit[v].ws
  PROVE  TenancyInv'
<1> USE NobodyFits, TenancyAssumption DEF TenancyInv, In, registryVars, historyVars
<1>1. /\ visit \in [Visits -> VisitRecord] /\ member \in [Emails -> MemberRow]
      /\ \A u \in Visits : visit[u].phase # "idle" => visit[u].email \in Emails
  BY DEF TenancyShape
<1>2. /\ visit' \in [Visits -> VisitRecord]
      /\ \A u \in Visits : u # v => visit'[u] = visit[u]
      /\ visit'[v].phase = "idle"
      /\ visit'[v].email = "none"
      /\ visit'[v].ws = 0
      /\ visit'[v].by = "none"
      /\ visit'[v].link = "none"
  BY <1>1, NoVisitFits DEF HoldCredential, Move, Leave, Visiting, VisitRecord, VisitPhases, MemberRow
<1>3. TenancyShape'
  BY <1>1, <1>2 DEF HoldCredential, TenancyShape
<1>4. SpacesBuilt'
  BY <1>1, <1>2 DEF HoldCredential, TenancyShape, SpacesBuilt, MembersPlaced
<1>5. MembersPlaced'
  BY <1>1, <1>2 DEF HoldCredential, TenancyShape, SpacesBuilt, MembersPlaced
<1>6. LinksClaimed'
  BY <1>1, <1>2 DEF HoldCredential, TenancyShape, LinksClaimed
<1>7. LoginsHold'
  BY <1>1, <1>2 DEF HoldCredential, TenancyShape, SpacesBuilt, MembersPlaced, LoginsHold
<1>8. \A x, m : m \in Emails =>
        /\ (Undone(x, m) => Undone(x, m)')
        /\ (Placed(x, m) => Placed(x, m)')
        /\ (Inside(x, m) => Inside(x, m)')
  BY <1>1, <1>2 DEF HoldCredential, TenancyShape, MembersPlaced, Placed, Inside, Undone
<1>9. SessionsPlaced'
  BY <1>1, <1>2, <1>8, SessionsStayPlaced DEF HoldCredential
<1> QED
  BY <1>3, <1>4, <1>5, <1>6, <1>7, <1>9

\* A login opens its session while it holds the credential, so before a promotion.
LEMMA OpenPasswordSessionKeeps ==
  ASSUME TenancyInv, NEW v \in Visits, OpenPasswordSession(v)
  PROVE  TenancyInv'
<1> USE NobodyFits, TenancyAssumption DEF TenancyInv, In, registryVars, historyVars
<1>1. /\ visit \in [Visits -> VisitRecord] /\ member \in [Emails -> MemberRow]
      /\ \A u \in Visits : visit[u].phase # "idle" => visit[u].email \in Emails
  BY DEF TenancyShape
<1>2. /\ visit' \in [Visits -> VisitRecord]
      /\ \A u \in Visits : u # v => visit'[u] = visit[u]
      /\ visit'[v].phase = "idle"
      /\ visit'[v].email = "none"
      /\ visit'[v].ws = 0
      /\ visit'[v].by = "none"
      /\ visit'[v].link = "none"
  BY <1>1, NoVisitFits DEF OpenPasswordSession, Move, Leave, Visiting, VisitRecord, VisitPhases, MemberRow
<1>3. TenancyShape'
  <2>1. Session(v) \in SessionRow
    BY <1>1 DEF Session, SessionRow, VisitRecord, OpenPasswordSession
  <2> QED
    BY <1>1, <1>2, <2>1 DEF TenancyShape, OpenPasswordSession
<1>4. SpacesBuilt'
  BY <1>1, <1>2 DEF OpenPasswordSession, TenancyShape, SpacesBuilt, MembersPlaced
<1>5. MembersPlaced'
  BY <1>1, <1>2 DEF OpenPasswordSession, TenancyShape, SpacesBuilt, MembersPlaced
<1>6. LinksClaimed'
  BY <1>1, <1>2 DEF OpenPasswordSession, TenancyShape, LinksClaimed
<1>7. LoginsHold'
  <2>1. /\ visit[v].phase = "open" /\ creds' = creds /\ held' = {h \in held : h[1] # v}
        /\ promoted' = promoted /\ inner' = inner \cup {Session(v)}
    BY DEF OpenPasswordSession
  <2>2. <<Session(v).ws, Session(v).email>> \notin promoted
    BY <2>1 DEF LoginsHold, Session
  <2>3. \A u \in Visits : visit'[u].phase \in {"lock", "open"} => u # v /\ visit'[u] = visit[u]
    BY <1>2
  <2>4. \A u \in Visits : visit'[u].by = "login" => u # v /\ visit'[u] = visit[u]
    BY <1>2
  <2>5. \A u \in Visits : visit'[u].phase = "open" => <<u, visit'[u].email>> \in held'
    BY <2>1, <2>3 DEF LoginsHold
  <2>6. spaces' = spaces
    BY DEF OpenPasswordSession
  <2> QED
    BY <2>1, <2>2, <2>3, <2>4, <2>5, <2>6 DEF LoginsHold
<1>8. \A x, m : m \in Emails =>
        /\ (Undone(x, m) => Undone(x, m)')
        /\ (Placed(x, m) => Placed(x, m)')
        /\ (Inside(x, m) => Inside(x, m)')
  BY <1>1, <1>2 DEF OpenPasswordSession, TenancyShape, MembersPlaced, Placed, Inside, Undone
<1>9. SessionsPlaced'
  <2>1. \A w0, e0 : \A s \in inner' : s.ws = w0 /\ s.email = e0 => Inside(w0, e0)'
    <3>0. visit[v].phase = "open" /\ visit[v].email \in Emails
      BY <1>1 DEF OpenPasswordSession
    <3>1. \A w0, e0 : Session(v).ws = w0 /\ Session(v).email = e0 => e0 \in Emails /\ Inside(w0, e0)
      <4>1. member[visit[v].email].ws = visit[v].ws /\ member[visit[v].email].status = "active"
        BY <3>0 DEF LoginsHold, MembersPlaced
      <4> QED
        BY <3>0, <4>1 DEF Session, Inside
    <3> QED
      BY <1>8, <3>1 DEF SessionsPlaced, TenancyShape, SessionRow, OpenPasswordSession
  <2>2. \A w0, e0 : \A u \in Visits :
          visit'[u].phase \in {"session", "cookie"} /\ visit'[u].ws = w0 /\ visit'[u].email = e0 => Inside(w0, e0)'
    BY <1>1, <1>2, <1>8 DEF OpenPasswordSession, SessionsPlaced
  <2>3. \A w0, e0 : \A u \in Visits :
          visit'[u].phase = "accept" /\ visit'[u].ws = w0 /\ visit'[u].email = e0 => Placed(w0, e0)'
    BY <1>1, <1>2, <1>8 DEF OpenPasswordSession, SessionsPlaced
  <2> QED
    BY <2>1, <2>2, <2>3 DEF SessionsPlaced
<1> QED
  BY <1>3, <1>4, <1>5, <1>6, <1>7, <1>9

\* A visit that finds a claim goes on to promote.
LEMMA ReadClaimKeepsA ==
  ASSUME TenancyInv, NEW v \in Visits, ReadClaim(v), creds[visit[v].email] # 0 /\ ~member[visit[v].email].verified
  PROVE  TenancyInv'
<1> USE NobodyFits, TenancyAssumption DEF TenancyInv, In, registryVars, historyVars
<1>1. /\ visit \in [Visits -> VisitRecord] /\ member \in [Emails -> MemberRow]
      /\ \A u \in Visits : visit[u].phase # "idle" => visit[u].email \in Emails
  BY DEF TenancyShape
<1>2. /\ visit' \in [Visits -> VisitRecord]
      /\ \A u \in Visits : u # v => visit'[u] = visit[u]
      /\ visit'[v].phase = "promote"
      /\ visit'[v].email = visit[v].email
      /\ visit'[v].ws = visit[v].ws
      /\ visit'[v].by = visit[v].by
      /\ visit'[v].link = visit[v].link
  BY <1>1, NoVisitFits DEF ReadClaim, Move, Leave, Visiting, VisitRecord, VisitPhases, MemberRow
<1>3. TenancyShape'
  BY <1>1, <1>2 DEF ReadClaim, TenancyShape
<1>4. SpacesBuilt'
  BY <1>1, <1>2 DEF ReadClaim, TenancyShape, SpacesBuilt, MembersPlaced
<1>5. MembersPlaced'
  BY <1>1, <1>2 DEF ReadClaim, TenancyShape, SpacesBuilt, MembersPlaced
<1>6. LinksClaimed'
  BY <1>1, <1>2 DEF ReadClaim, TenancyShape, LinksClaimed
<1>7. LoginsHold'
  BY <1>1, <1>2 DEF ReadClaim, TenancyShape, SpacesBuilt, MembersPlaced, LoginsHold
<1>8. \A x, m : m \in Emails =>
        /\ (Undone(x, m) => Undone(x, m)')
        /\ (Placed(x, m) => Placed(x, m)')
        /\ (Inside(x, m) => Inside(x, m)')
  BY <1>1, <1>2 DEF ReadClaim, TenancyShape, MembersPlaced, Placed, Inside, Undone
<1>9. SessionsPlaced'
  BY <1>1, <1>2, <1>8, SessionsStayPlaced DEF ReadClaim
<1> QED
  BY <1>3, <1>4, <1>5, <1>6, <1>7, <1>9

\* A visit that finds no claim goes on to its session.
LEMMA ReadClaimKeepsB ==
  ASSUME TenancyInv, NEW v \in Visits, ReadClaim(v), ~(creds[visit[v].email] # 0 /\ ~member[visit[v].email].verified)
  PROVE  TenancyInv'
<1> USE NobodyFits, TenancyAssumption DEF TenancyInv, In, registryVars, historyVars
<1>1. /\ visit \in [Visits -> VisitRecord] /\ member \in [Emails -> MemberRow]
      /\ \A u \in Visits : visit[u].phase # "idle" => visit[u].email \in Emails
  BY DEF TenancyShape
<1>2. /\ visit' \in [Visits -> VisitRecord]
      /\ \A u \in Visits : u # v => visit'[u] = visit[u]
      /\ visit'[v].phase = "member"
      /\ visit'[v].email = visit[v].email
      /\ visit'[v].ws = visit[v].ws
      /\ visit'[v].by = visit[v].by
      /\ visit'[v].link = visit[v].link
  BY <1>1, NoVisitFits DEF ReadClaim, Move, Leave, Visiting, VisitRecord, VisitPhases, MemberRow
<1>3. TenancyShape'
  BY <1>1, <1>2 DEF ReadClaim, TenancyShape
<1>4. SpacesBuilt'
  <2>1. /\ spaces' = spaces /\ schemas' = schemas /\ users' = users /\ strays' = strays
        /\ visit[v].phase = "proven"
    BY DEF ReadClaim
  <2> QED
    BY <1>2, <2>1 DEF SpacesBuilt
<1>5. MembersPlaced'
  BY <1>1, <1>2 DEF ReadClaim, TenancyShape, SpacesBuilt, MembersPlaced
<1>6. LinksClaimed'
  BY <1>1, <1>2 DEF ReadClaim, TenancyShape, LinksClaimed
<1>7. LoginsHold'
  BY <1>1, <1>2 DEF ReadClaim, TenancyShape, SpacesBuilt, MembersPlaced, LoginsHold
<1>8. \A x, m : m \in Emails =>
        /\ (Undone(x, m) => Undone(x, m)')
        /\ (Placed(x, m) => Placed(x, m)')
        /\ (Inside(x, m) => Inside(x, m)')
  BY <1>1, <1>2 DEF ReadClaim, TenancyShape, MembersPlaced, Placed, Inside, Undone
<1>9. SessionsPlaced'
  BY <1>1, <1>2, <1>8, SessionsStayPlaced DEF ReadClaim
<1> QED
  BY <1>3, <1>4, <1>5, <1>6, <1>7, <1>9

\* A promotion that came late changes nothing.
LEMMA PromoteKeepsA ==
  ASSUME TenancyInv, NEW v \in Visits, Promote(v), member[visit[v].email] = Nobody \/ member[visit[v].email].verified
  PROVE  TenancyInv'
<1> USE NobodyFits, TenancyAssumption DEF TenancyInv, In, registryVars, historyVars
<1>1. /\ visit \in [Visits -> VisitRecord] /\ member \in [Emails -> MemberRow]
      /\ \A u \in Visits : visit[u].phase # "idle" => visit[u].email \in Emails
  BY DEF TenancyShape
<1>2. /\ visit' \in [Visits -> VisitRecord]
      /\ \A u \in Visits : u # v => visit'[u] = visit[u]
      /\ visit'[v].phase = "member"
      /\ visit'[v].email = visit[v].email
      /\ visit'[v].ws = visit[v].ws
      /\ visit'[v].by = visit[v].by
      /\ visit'[v].link = visit[v].link
  BY <1>1, NoVisitFits DEF Promote, Move, Leave, Visiting, VisitRecord, VisitPhases, MemberRow
<1>3. TenancyShape'
  BY <1>1, <1>2 DEF Promote, TenancyShape
<1>4. SpacesBuilt'
  BY <1>1, <1>2 DEF Promote, TenancyShape, SpacesBuilt, MembersPlaced
<1>5. MembersPlaced'
  BY <1>1, <1>2 DEF Promote, TenancyShape, SpacesBuilt, MembersPlaced
<1>6. LinksClaimed'
  BY <1>1, <1>2 DEF Promote, TenancyShape, LinksClaimed
<1>7. LoginsHold'
  BY <1>1, <1>2 DEF Promote, TenancyShape, SpacesBuilt, MembersPlaced, LoginsHold
<1>8. \A x, m : m \in Emails =>
        /\ (Undone(x, m) => Undone(x, m)')
        /\ (Placed(x, m) => Placed(x, m)')
        /\ (Inside(x, m) => Inside(x, m)')
  BY <1>1, <1>2 DEF Promote, TenancyShape, MembersPlaced, Placed, Inside, Undone
<1>9. SessionsPlaced'
  BY <1>1, <1>2, <1>8, SessionsStayPlaced DEF Promote
<1> QED
  BY <1>3, <1>4, <1>5, <1>6, <1>7, <1>9

\* A promotion drops the workspace's sessions with its credential.
LEMMA PromoteKeepsB ==
  ASSUME TenancyInv, NEW v \in Visits, Promote(v), ~(member[visit[v].email] = Nobody \/ member[visit[v].email].verified)
  PROVE  TenancyInv'
<1> USE NobodyFits, TenancyAssumption DEF TenancyInv, In, registryVars, historyVars
<1>1. /\ visit \in [Visits -> VisitRecord] /\ member \in [Emails -> MemberRow]
      /\ \A u \in Visits : visit[u].phase # "idle" => visit[u].email \in Emails
  BY DEF TenancyShape
<1> DEFINE e == visit[v].email
           w == member[e].ws
           row == [member[e] EXCEPT !.verified = TRUE]
<1>2. /\ visit' \in [Visits -> VisitRecord]
      /\ \A u \in Visits : u # v => visit'[u] = visit[u]
      /\ visit'[v].phase = "member" /\ visit'[v].ws = visit[v].ws /\ visit'[v].email = e
      /\ visit'[v].by = visit[v].by /\ visit'[v].link = visit[v].link
  BY <1>1 DEF Promote, Move, VisitRecord, VisitPhases
<1>20. /\ e \in Emails /\ w \in SpaceIds \cup {0} /\ (w = 0 => member[e].status = "none")
       /\ w # 0 => w \in spaces
  BY <1>1 DEF Promote, MemberRow, MembersPlaced
<1>21. row \in MemberRow /\ row.ws = w /\ row.status = member[e].status
  BY <1>1, <1>20 DEF MemberRow
<1> HIDE DEF row
<1>22. /\ visit[v].phase = "promote" /\ member[e] # Nobody
       /\ ~\E h \in held : h[2] = e \/ member[h[2]].ws = w
       /\ member' = [x \in Emails |-> IF x = e THEN row
                                      ELSE IF member[x].ws = w THEN Nobody ELSE member[x]]
       /\ creds' = [x \in Emails |-> IF x = e \/ member[x].ws = w THEN 0 ELSE creds[x]]
       /\ off' = off \cup {u \in users : u[1] = w /\ u[2] # e}
       /\ inner' = {s \in inner : s.ws # w}
       /\ promoted' = promoted \cup {<<w, e>>}
       /\ spaces' = spaces /\ schemas' = schemas /\ tokens' = tokens /\ users' = users
       /\ held' = held /\ usedLinks' = usedLinks /\ opened' = opened /\ strays' = strays
       /\ leftIn' = leftIn
  BY DEF Promote, row
<1>23. SUFFICES ASSUME NEW a, NEW x, a = e, x = w PROVE TenancyInv'
  OBVIOUS
<1>24. w # 0
  <2>1. member[e].ws = 0 => member[e] = Nobody
    BY <1>20 DEF MembersPlaced
  <2> QED
    BY <1>22, <2>1
<1>25. /\ member' \in [Emails -> MemberRow] /\ creds' \in [Emails -> SpaceIds \cup {0}]
       /\ member'[a] = row /\ row.ws = x /\ creds'[a] = 0
       /\ \A m \in Emails : m # a /\ member[m].ws = x => member'[m] = Nobody /\ creds'[m] = 0
       /\ \A m \in Emails : m # a /\ member[m].ws # x => member'[m] = member[m] /\ creds'[m] = creds[m]
  BY <1>1, <1>20, <1>21, <1>22, <1>23 DEF TenancyShape
<1>3. TenancyShape'
  BY <1>2, <1>20, <1>22, <1>25 DEF TenancyShape
<1>4. SpacesBuilt'
  BY <1>2, <1>22 DEF SpacesBuilt
<1>5. MembersPlaced'
  <2>1. \A m \in Emails : /\ member'[m].ws # 0 => member'[m].ws = member[m].ws
                          /\ (member'[m].ws = 0 <=> member'[m].status = "none")
                          /\ creds'[m] # 0 => creds'[m] = creds[m] /\ member'[m] = member[m]
    BY <1>21, <1>23, <1>24, <1>25 DEF MembersPlaced
  <2>2. \A p \in off' : p[1] \in spaces
    BY <1>20, <1>22, <1>24 DEF MembersPlaced
  <2>3. \A u \in Visits : visit'[u].phase \in {"decline", "disable", "accept"} => visit'[u] = visit[u]
    BY <1>2
  <2>4. \A m \in Emails : member'[m].ws = 0 => member'[m] = Nobody
    BY <1>20, <1>23, <1>24, <1>25 DEF MembersPlaced
  <2>5. \A m \in Emails : creds'[m] # 0 => member'[m].ws = creds'[m] /\ member'[m].status = "active"
    BY <2>1 DEF MembersPlaced
  <2>6. \A m \in Emails : member'[m].ws # 0 => member'[m].ws \in spaces /\ <<member'[m].ws, m>> \in users
    BY <2>1 DEF MembersPlaced
  <2> QED
    BY <1>22, <2>1, <2>2, <2>3, <2>4, <2>5, <2>6 DEF MembersPlaced
<1>6. LinksClaimed'
  BY <1>2, <1>22 DEF LinksClaimed
<1>7. LoginsHold'
  <2>1. \A u \in Visits : visit'[u].phase = "open" =>
          /\ visit'[u] = visit[u] /\ <<u, visit[u].email>> \in held
          /\ visit[u].email \in Emails /\ visit[u].email # a /\ member[visit[u].email].ws # x
    BY <1>1, <1>2, <1>22, <1>23 DEF LoginsHold
  <2>2. \A u \in Visits : visit'[u].phase = "open" =>
          /\ <<u, visit'[u].email>> \in held'
          /\ creds'[visit'[u].email] = visit'[u].ws /\ visit'[u].ws # 0
    <3>1. \A u \in Visits : visit[u].phase = "open" => creds[visit[u].email] = visit[u].ws /\ visit[u].ws # 0
      BY DEF LoginsHold
    <3>2. \A m \in Emails : m # a /\ member[m].ws # x => creds'[m] = creds[m]
      BY <1>25
    <3>3. SUFFICES ASSUME NEW u \in Visits, visit'[u].phase = "open"
                   PROVE  /\ <<u, visit'[u].email>> \in held'
                          /\ creds'[visit'[u].email] = visit'[u].ws /\ visit'[u].ws # 0
      OBVIOUS
    <3>4. /\ visit'[u] = visit[u] /\ <<u, visit[u].email>> \in held
          /\ visit[u].email \in Emails /\ visit[u].email # a /\ member[visit[u].email].ws # x
      BY <2>1, <3>3
    <3>5. creds'[visit[u].email] = creds[visit[u].email]
      BY <3>2, <3>4
    <3>6. held' = held
      BY <1>22
    <3> QED
      BY <3>1, <3>3, <3>4, <3>5, <3>6
  <2>3. \A p \in promoted' : p[1] \in spaces /\ p[2] \in Emails /\ creds'[p[2]] # p[1]
    <3>1. \A p \in promoted' : p = <<x, a>> \/ p \in promoted
      BY <1>22, <1>23
    <3>2. x # 0 /\ x \in spaces /\ a \in Emails /\ creds'[a] = 0
      BY <1>20, <1>23, <1>24, <1>25
    <3>3. \A m \in Emails : creds'[m] = 0 \/ creds'[m] = creds[m]
      BY <1>25
    <3>4. 0 \notin spaces
      BY DEF TenancyShape
    <3> QED
      BY <3>1, <3>2, <3>3, <3>4 DEF LoginsHold
  <2>4. \A s \in inner' : s.by = "login" => <<s.ws, s.email>> \notin promoted'
    BY <1>22 DEF LoginsHold
  <2> QED
    BY SMTT(20), <1>2, <1>22, <2>2, <2>3, <2>4 DEF LoginsHold
<1>8. \A y, m : m \in Emails =>
        /\ (Undone(y, m) => Undone(y, m)')
        /\ (Placed(y, m) => Placed(y, m)')
        /\ (Inside(y, m) => Inside(y, m)')
  <2> SUFFICES ASSUME NEW y, NEW m \in Emails
               PROVE  /\ (Undone(y, m) => Undone(y, m)')
                      /\ (Placed(y, m) => Placed(y, m)')
                      /\ (Inside(y, m) => Inside(y, m)')
    OBVIOUS
  <2>1. Undone(y, m) => Undone(y, m)'
    BY <1>2, <1>22 DEF Undone
  <2>2. CASE m = a
    BY <1>21, <1>23, <1>25, <2>1, <2>2 DEF Placed, Inside
  <2>3. CASE m # a /\ member[m].ws # x
    BY <1>25, <2>1, <2>3 DEF Placed, Inside
  <2>4. CASE m # a /\ member[m].ws = x
    <3>1. <<x, m>> \in off'
      BY <1>22, <1>23, <1>24, <2>4 DEF MembersPlaced
    <3> QED
      BY <2>1, <2>4, <3>1 DEF Placed, Inside, Undone
  <2> QED
    BY <2>2, <2>3, <2>4
<1>9. SessionsPlaced'
  BY <1>1, <1>2, <1>8, <1>22 DEF SessionsPlaced, TenancyShape, SessionRow
<1> QED
  BY <1>3, <1>4, <1>5, <1>6, <1>7, <1>9

\* An active member is let in where the row says.
LEMMA ReadMemberKeepsA ==
  ASSUME TenancyInv, NEW v \in Visits, ReadMember(v), member[visit[v].email].status = "active"
  PROVE  TenancyInv'
<1> USE NobodyFits, TenancyAssumption DEF TenancyInv, In, registryVars, historyVars
<1>1. /\ visit \in [Visits -> VisitRecord] /\ member \in [Emails -> MemberRow]
      /\ \A u \in Visits : visit[u].phase # "idle" => visit[u].email \in Emails
  BY DEF TenancyShape
<1>2. /\ visit' \in [Visits -> VisitRecord]
      /\ \A u \in Visits : u # v => visit'[u] = visit[u]
      /\ visit'[v].phase = "session"
      /\ visit'[v].email = visit[v].email
      /\ visit'[v].ws = member[visit[v].email].ws
      /\ visit'[v].by = visit[v].by
      /\ visit'[v].link = visit[v].link
  BY <1>1, NoVisitFits DEF ReadMember, Move, Leave, Visiting, VisitRecord, VisitPhases, MemberRow
<1>3. TenancyShape'
  BY <1>1, <1>2 DEF ReadMember, TenancyShape
<1>4. SpacesBuilt'
  BY <1>1, <1>2 DEF ReadMember, TenancyShape, SpacesBuilt, MembersPlaced
<1>5. MembersPlaced'
  BY <1>1, <1>2 DEF ReadMember, TenancyShape, SpacesBuilt, MembersPlaced
<1>6. LinksClaimed'
  BY <1>1, <1>2 DEF ReadMember, TenancyShape, LinksClaimed
<1>7. LoginsHold'
  BY <1>1, <1>2 DEF ReadMember, TenancyShape, SpacesBuilt, MembersPlaced, LoginsHold
<1>8. \A x, m : m \in Emails =>
        /\ (Undone(x, m) => Undone(x, m)')
        /\ (Placed(x, m) => Placed(x, m)')
        /\ (Inside(x, m) => Inside(x, m)')
  BY <1>1, <1>2 DEF ReadMember, TenancyShape, MembersPlaced, Placed, Inside, Undone
<1>9. SessionsPlaced'
  <2>1. \A w0, e0 : \A s \in inner' : s.ws = w0 /\ s.email = e0 => Inside(w0, e0)'
    BY <1>1, <1>2, <1>8 DEF ReadMember, TenancyShape, SessionsPlaced, SessionRow
  <2>2. \A w0, e0 : \A u \in Visits :
          visit'[u].phase \in {"session", "cookie"} /\ visit'[u].ws = w0 /\ visit'[u].email = e0 => Inside(w0, e0)'
    <3>1. \A w0, e0 : visit'[v].ws = w0 /\ visit'[v].email = e0 => Inside(w0, e0)
      BY <1>2 DEF Inside
    <3> QED
      BY <1>1, <1>2, <1>8, <3>1 DEF SessionsPlaced, ReadMember
  <2>3. \A w0, e0 : \A u \in Visits :
          visit'[u].phase = "accept" /\ visit'[u].ws = w0 /\ visit'[u].email = e0 => Placed(w0, e0)'
    BY <1>1, <1>2, <1>8 DEF ReadMember, SessionsPlaced
  <2> QED
    BY <2>1, <2>2, <2>3 DEF SessionsPlaced
<1> QED
  BY <1>3, <1>4, <1>5, <1>6, <1>7, <1>9

\* Nobody else is.
LEMMA ReadMemberKeepsB ==
  ASSUME TenancyInv, NEW v \in Visits, ReadMember(v), member[visit[v].email].status # "active"
  PROVE  TenancyInv'
<1> USE NobodyFits, TenancyAssumption DEF TenancyInv, In, registryVars, historyVars
<1>1. /\ visit \in [Visits -> VisitRecord] /\ member \in [Emails -> MemberRow]
      /\ \A u \in Visits : visit[u].phase # "idle" => visit[u].email \in Emails
  BY DEF TenancyShape
<1>2. /\ visit' \in [Visits -> VisitRecord]
      /\ \A u \in Visits : u # v => visit'[u] = visit[u]
      /\ visit'[v].phase = "idle"
      /\ visit'[v].email = "none"
      /\ visit'[v].ws = 0
      /\ visit'[v].by = "none"
      /\ visit'[v].link = "none"
  BY <1>1, NoVisitFits DEF ReadMember, Move, Leave, Visiting, VisitRecord, VisitPhases, MemberRow
<1>3. TenancyShape'
  BY <1>1, <1>2 DEF ReadMember, TenancyShape
<1>4. SpacesBuilt'
  BY <1>1, <1>2 DEF ReadMember, TenancyShape, SpacesBuilt, MembersPlaced
<1>5. MembersPlaced'
  BY <1>1, <1>2 DEF ReadMember, TenancyShape, SpacesBuilt, MembersPlaced
<1>6. LinksClaimed'
  BY <1>1, <1>2 DEF ReadMember, TenancyShape, LinksClaimed
<1>7. LoginsHold'
  BY <1>1, <1>2 DEF ReadMember, TenancyShape, SpacesBuilt, MembersPlaced, LoginsHold
<1>8. \A x, m : m \in Emails =>
        /\ (Undone(x, m) => Undone(x, m)')
        /\ (Placed(x, m) => Placed(x, m)')
        /\ (Inside(x, m) => Inside(x, m)')
  BY <1>1, <1>2 DEF ReadMember, TenancyShape, MembersPlaced, Placed, Inside, Undone
<1>9. SessionsPlaced'
  BY <1>1, <1>2, <1>8, SessionsStayPlaced DEF ReadMember
<1> QED
  BY <1>3, <1>4, <1>5, <1>6, <1>7, <1>9

\* A sign-in that fails leaves what was committed.
LEMMA SignInFailsKeeps ==
  ASSUME TenancyInv, NEW v \in Visits, SignInFails(v)
  PROVE  TenancyInv'
<1> USE NobodyFits, TenancyAssumption DEF TenancyInv, In, registryVars, historyVars
<1>1. /\ visit \in [Visits -> VisitRecord] /\ member \in [Emails -> MemberRow]
      /\ \A u \in Visits : visit[u].phase # "idle" => visit[u].email \in Emails
  BY DEF TenancyShape
<1>2. /\ visit' \in [Visits -> VisitRecord]
      /\ \A u \in Visits : u # v => visit'[u] = visit[u]
      /\ visit'[v].phase = "idle"
      /\ visit'[v].email = "none"
      /\ visit'[v].ws = 0
      /\ visit'[v].by = "none"
      /\ visit'[v].link = "none"
  BY <1>1, NoVisitFits DEF SignInFails, Move, Leave, Visiting, VisitRecord, VisitPhases, MemberRow
<1>3. TenancyShape'
  BY <1>1, <1>2 DEF SignInFails, TenancyShape
<1>4. SpacesBuilt'
  BY <1>1, <1>2 DEF SignInFails, TenancyShape, SpacesBuilt, MembersPlaced
<1>5. MembersPlaced'
  BY <1>1, <1>2 DEF SignInFails, TenancyShape, SpacesBuilt, MembersPlaced
<1>6. LinksClaimed'
  BY <1>1, <1>2 DEF SignInFails, TenancyShape, LinksClaimed
<1>7. LoginsHold'
  BY <1>1, <1>2 DEF SignInFails, TenancyShape, SpacesBuilt, MembersPlaced, LoginsHold
<1>8. \A x, m : m \in Emails =>
        /\ (Undone(x, m) => Undone(x, m)')
        /\ (Placed(x, m) => Placed(x, m)')
        /\ (Inside(x, m) => Inside(x, m)')
  BY <1>1, <1>2 DEF SignInFails, TenancyShape, MembersPlaced, Placed, Inside, Undone
<1>9. SessionsPlaced'
  BY <1>1, <1>2, <1>8, SessionsStayPlaced DEF SignInFails
<1> QED
  BY <1>3, <1>4, <1>5, <1>6, <1>7, <1>9

\* A killed visit leaves its schema stray, or a session behind a declined invitation.
LEMMA VisitCrashKeeps ==
  ASSUME TenancyInv, NEW v \in Visits, VisitCrash(v)
  PROVE  TenancyInv'
<1> USE NobodyFits, TenancyAssumption DEF TenancyInv, In, registryVars, historyVars
<1>1. /\ visit \in [Visits -> VisitRecord] /\ member \in [Emails -> MemberRow]
      /\ \A u \in Visits : visit[u].phase # "idle" => visit[u].email \in Emails
  BY DEF TenancyShape
<1>2. /\ visit' \in [Visits -> VisitRecord]
      /\ \A u \in Visits : u # v => visit'[u] = visit[u]
      /\ visit'[v].phase = "idle"
      /\ visit'[v].email = "none"
      /\ visit'[v].ws = 0
      /\ visit'[v].by = "none"
      /\ visit'[v].link = "none"
  BY <1>1, NoVisitFits DEF VisitCrash, Move, Leave, Visiting, VisitRecord, VisitPhases, MemberRow
<1>3. TenancyShape'
  BY <1>1, <1>2 DEF VisitCrash, TenancyShape
<1>4. SpacesBuilt'
  BY <1>1, <1>2 DEF VisitCrash, TenancyShape, SpacesBuilt, MembersPlaced
<1>5. MembersPlaced'
  BY <1>1, <1>2 DEF VisitCrash, TenancyShape, SpacesBuilt, MembersPlaced
<1>6. LinksClaimed'
  BY <1>1, <1>2 DEF VisitCrash, TenancyShape, LinksClaimed
<1>7. LoginsHold'
  BY <1>1, <1>2 DEF VisitCrash, TenancyShape, SpacesBuilt, MembersPlaced, LoginsHold
<1>8. \A x, m : m \in Emails =>
        /\ (Undone(x, m) => Undone(x, m)')
        /\ (Placed(x, m) => Placed(x, m)')
        /\ (Inside(x, m) => Inside(x, m)')
  BY <1>1, <1>2 DEF VisitCrash, TenancyShape, MembersPlaced, Placed, Inside, Undone
<1>9. SessionsPlaced'
  BY <1>1, <1>2, <1>8, SessionsStayPlaced DEF VisitCrash
<1> QED
  BY <1>3, <1>4, <1>5, <1>6, <1>7, <1>9

\* Accepting makes the email an active member of the workspace it was invited to.
LEMMA AcceptInviteKeeps ==
  ASSUME TenancyInv, NEW v \in Visits, AcceptInvite(v)
  PROVE  TenancyInv'
<1> USE NobodyFits, TenancyAssumption DEF TenancyInv, In, registryVars, historyVars
<1>1. /\ visit \in [Visits -> VisitRecord] /\ member \in [Emails -> MemberRow]
      /\ \A u \in Visits : visit[u].phase # "idle" => visit[u].email \in Emails
  BY DEF TenancyShape
<1>2. /\ visit' \in [Visits -> VisitRecord]
      /\ \A u \in Visits : u # v => visit'[u] = visit[u]
      /\ visit'[v].phase = "session"
      /\ visit'[v].email = visit[v].email
      /\ visit'[v].ws = visit[v].ws
      /\ visit'[v].by = visit[v].by
      /\ visit'[v].link = visit[v].link
  <2>1. visit' = [visit EXCEPT ![v].phase = "session"]
    BY DEF AcceptInvite, Move
  <2>2. visit' \in [Visits -> VisitRecord]
    BY <1>1, <2>1, MovedFits DEF VisitPhases
  <2> QED
    BY <1>1, <2>1, <2>2 DEF VisitRecord
<1>3. TenancyShape'
  <2>1. member' \in [Emails -> MemberRow]
    <3>1. \A m \in Emails : [member[m] EXCEPT !.status = "active", !.verified = TRUE] \in MemberRow
      BY <1>1 DEF MemberRow
    <3>2. visit[v].email \in Emails
      BY <1>1 DEF AcceptInvite
    <3> QED
      BY <1>1, <3>1, <3>2 DEF AcceptInvite
  <2> QED
    BY <1>1, <1>2, <2>1 DEF TenancyShape, AcceptInvite
<1>4. SpacesBuilt'
  BY <1>1, <1>2 DEF AcceptInvite, TenancyShape, SpacesBuilt, MembersPlaced
<1>5. MembersPlaced'
  BY SMTT(20), <1>1, <1>2 DEF AcceptInvite, TenancyShape, SpacesBuilt, MembersPlaced
<1>6. LinksClaimed'
  BY <1>1, <1>2 DEF AcceptInvite, TenancyShape, LinksClaimed
<1>7. LoginsHold'
  BY SMTT(20), <1>1, <1>2 DEF AcceptInvite, TenancyShape, SpacesBuilt, MembersPlaced, LoginsHold
<1>8. \A x, m : m \in Emails =>
        /\ (Undone(x, m) => Undone(x, m)')
        /\ (Placed(x, m) => Placed(x, m)')
        /\ (Inside(x, m) => Inside(x, m)')
  BY <1>1, <1>2 DEF AcceptInvite, TenancyShape, MembersPlaced, Placed, Inside, Undone
<1>9. SessionsPlaced'
  <2>1. \A w0, e0 : \A s \in inner' : s.ws = w0 /\ s.email = e0 => Inside(w0, e0)'
    BY <1>1, <1>2, <1>8 DEF AcceptInvite, TenancyShape, SessionsPlaced, SessionRow
  <2>2. \A w0, e0 : \A u \in Visits :
          visit'[u].phase \in {"session", "cookie"} /\ visit'[u].ws = w0 /\ visit'[u].email = e0 => Inside(w0, e0)'
    <3>1. \A w0, e0 : visit[v].ws = w0 /\ visit[v].email = e0 => Inside(w0, e0)'
      <4> SUFFICES ASSUME NEW w0, NEW e0, visit[v].ws = w0, visit[v].email = e0 PROVE Inside(w0, e0)'
        OBVIOUS
      <4>1. e0 \in Emails /\ Placed(w0, e0) /\ w0 # 0 /\ w0 \in spaces
        BY <1>1 DEF SessionsPlaced, AcceptInvite, MembersPlaced, TenancyShape
      <4>2. CASE Undone(w0, e0)
        BY <1>8, <4>1, <4>2 DEF Inside
      <4>3. CASE member[e0].ws = w0
        <5>1. member[e0].status \in {"invited", "active"}
          BY <1>1, <4>1, <4>3 DEF MembersPlaced, MemberRow
        <5>2. member'[e0].ws = w0 /\ member'[e0].status = "active"
          BY <1>1, <4>1, <4>3, <5>1 DEF AcceptInvite, MemberRow
        <5> QED
          BY <5>2 DEF Inside
      <4> QED
        BY <4>1, <4>2, <4>3 DEF Placed
    <3> QED
      BY <1>1, <1>2, <1>8, <3>1 DEF SessionsPlaced, AcceptInvite
  <2>3. \A w0, e0 : \A u \in Visits :
          visit'[u].phase = "accept" /\ visit'[u].ws = w0 /\ visit'[u].email = e0 => Placed(w0, e0)'
    BY <1>1, <1>2, <1>8 DEF AcceptInvite, SessionsPlaced
  <2> QED
    BY <2>1, <2>2, <2>3 DEF SessionsPlaced
<1> QED
  BY <1>3, <1>4, <1>5, <1>6, <1>7, <1>9

\* A sign-up begins with nothing.
LEMMA BeginPasswordSignupKeeps ==
  ASSUME TenancyInv, NEW v \in Visits, NEW e \in Emails, BeginPasswordSignup(v, e)
  PROVE  TenancyInv'
<1> USE NobodyFits, TenancyAssumption DEF TenancyInv, In, registryVars, historyVars
<1>1. /\ visit \in [Visits -> VisitRecord] /\ member \in [Emails -> MemberRow]
      /\ \A u \in Visits : visit[u].phase # "idle" => visit[u].email \in Emails
  BY DEF TenancyShape
<1>2. /\ visit' \in [Visits -> VisitRecord]
      /\ \A u \in Visits : u # v => visit'[u] = visit[u]
      /\ visit'[v].phase = "check"
      /\ visit'[v].email = e
      /\ visit'[v].ws = 0
      /\ visit'[v].by = "signup"
      /\ visit'[v].link = "none"
  BY <1>1, NoVisitFits DEF BeginPasswordSignup, Move, Leave, Visiting, VisitRecord, VisitPhases, MemberRow
<1>3. TenancyShape'
  BY <1>1, <1>2 DEF BeginPasswordSignup, TenancyShape
<1>4. SpacesBuilt'
  BY <1>1, <1>2 DEF BeginPasswordSignup, TenancyShape, SpacesBuilt, MembersPlaced
<1>5. MembersPlaced'
  BY <1>1, <1>2 DEF BeginPasswordSignup, TenancyShape, SpacesBuilt, MembersPlaced
<1>6. LinksClaimed'
  BY <1>1, <1>2 DEF BeginPasswordSignup, TenancyShape, LinksClaimed
<1>7. LoginsHold'
  BY <1>1, <1>2 DEF BeginPasswordSignup, TenancyShape, SpacesBuilt, MembersPlaced, LoginsHold
<1>8. \A x, m : m \in Emails =>
        /\ (Undone(x, m) => Undone(x, m)')
        /\ (Placed(x, m) => Placed(x, m)')
        /\ (Inside(x, m) => Inside(x, m)')
  BY <1>1, <1>2 DEF BeginPasswordSignup, TenancyShape, MembersPlaced, Placed, Inside, Undone
<1>9. SessionsPlaced'
  BY <1>1, <1>2, <1>8, SessionsStayPlaced DEF BeginPasswordSignup
<1> QED
  BY <1>3, <1>4, <1>5, <1>6, <1>7, <1>9

\* An invited email creates no workspace.
LEMMA BeginCreateKeepsA ==
  ASSUME TenancyInv, NEW v \in Visits, NEW e \in Emails, BeginCreate(v, e), member[e].status = "invited"
  PROVE  TenancyInv'
<1> USE NobodyFits, TenancyAssumption DEF TenancyInv, In, registryVars, historyVars
<1>1. /\ visit \in [Visits -> VisitRecord] /\ member \in [Emails -> MemberRow]
      /\ \A u \in Visits : visit[u].phase # "idle" => visit[u].email \in Emails
  BY DEF TenancyShape
<1>2. /\ visit' \in [Visits -> VisitRecord]
      /\ \A u \in Visits : u # v => visit'[u] = visit[u]
      /\ visit'[v].phase = "decline"
      /\ visit'[v].email = e
      /\ visit'[v].ws = member[e].ws
      /\ visit'[v].by = "inbox"
      /\ visit'[v].link = "none"
  BY <1>1, NoVisitFits DEF BeginCreate, Move, Leave, Visiting, VisitRecord, VisitPhases, MemberRow
<1>3. TenancyShape'
  BY <1>1, <1>2 DEF BeginCreate, TenancyShape
<1>4. SpacesBuilt'
  BY <1>1, <1>2 DEF BeginCreate, TenancyShape, SpacesBuilt, MembersPlaced
<1>5. MembersPlaced'
  BY <1>1, <1>2 DEF BeginCreate, TenancyShape, SpacesBuilt, MembersPlaced
<1>6. LinksClaimed'
  BY <1>1, <1>2 DEF BeginCreate, TenancyShape, LinksClaimed
<1>7. LoginsHold'
  BY <1>1, <1>2 DEF BeginCreate, TenancyShape, SpacesBuilt, MembersPlaced, LoginsHold
<1>8. \A x, m : m \in Emails =>
        /\ (Undone(x, m) => Undone(x, m)')
        /\ (Placed(x, m) => Placed(x, m)')
        /\ (Inside(x, m) => Inside(x, m)')
  BY <1>1, <1>2 DEF BeginCreate, TenancyShape, MembersPlaced, Placed, Inside, Undone
<1>9. SessionsPlaced'
  BY <1>1, <1>2, <1>8, SessionsStayPlaced DEF BeginCreate
<1> QED
  BY <1>3, <1>4, <1>5, <1>6, <1>7, <1>9

\* Any other one may.
LEMMA BeginCreateKeepsB ==
  ASSUME TenancyInv, NEW v \in Visits, NEW e \in Emails, BeginCreate(v, e), member[e].status # "invited"
  PROVE  TenancyInv'
<1> USE NobodyFits, TenancyAssumption DEF TenancyInv, In, registryVars, historyVars
<1>1. /\ visit \in [Visits -> VisitRecord] /\ member \in [Emails -> MemberRow]
      /\ \A u \in Visits : visit[u].phase # "idle" => visit[u].email \in Emails
  BY DEF TenancyShape
<1>2. /\ visit' \in [Visits -> VisitRecord]
      /\ \A u \in Visits : u # v => visit'[u] = visit[u]
      /\ visit'[v].phase = "check"
      /\ visit'[v].email = e
      /\ visit'[v].ws = member[e].ws
      /\ visit'[v].by = "inbox"
      /\ visit'[v].link = "none"
  BY <1>1, NoVisitFits DEF BeginCreate, Move, Leave, Visiting, VisitRecord, VisitPhases, MemberRow
<1>3. TenancyShape'
  BY <1>1, <1>2 DEF BeginCreate, TenancyShape
<1>4. SpacesBuilt'
  BY <1>1, <1>2 DEF BeginCreate, TenancyShape, SpacesBuilt, MembersPlaced
<1>5. MembersPlaced'
  BY <1>1, <1>2 DEF BeginCreate, TenancyShape, SpacesBuilt, MembersPlaced
<1>6. LinksClaimed'
  BY <1>1, <1>2 DEF BeginCreate, TenancyShape, LinksClaimed
<1>7. LoginsHold'
  BY <1>1, <1>2 DEF BeginCreate, TenancyShape, SpacesBuilt, MembersPlaced, LoginsHold
<1>8. \A x, m : m \in Emails =>
        /\ (Undone(x, m) => Undone(x, m)')
        /\ (Placed(x, m) => Placed(x, m)')
        /\ (Inside(x, m) => Inside(x, m)')
  <2>1. /\ member' = member /\ off' = off /\ leftIn' = leftIn /\ visit[v].phase = "idle"
    BY DEF BeginCreate
  <2>2. \A x, m : Undone(x, m) => Undone(x, m)'
    BY <1>2, <2>1 DEF Undone
  <2> QED
    BY <2>1, <2>2 DEF Placed, Inside
<1>9. SessionsPlaced'
  BY <1>1, <1>2, <1>8, SessionsStayPlaced DEF BeginCreate
<1> QED
  BY <1>3, <1>4, <1>5, <1>6, <1>7, <1>9

\* A login begins with nothing.
LEMMA BeginLoginKeeps ==
  ASSUME TenancyInv, NEW v \in Visits, NEW e \in Emails, BeginLogin(v, e)
  PROVE  TenancyInv'
<1> USE NobodyFits, TenancyAssumption DEF TenancyInv, In, registryVars, historyVars
<1>1. /\ visit \in [Visits -> VisitRecord] /\ member \in [Emails -> MemberRow]
      /\ \A u \in Visits : visit[u].phase # "idle" => visit[u].email \in Emails
  BY DEF TenancyShape
<1>2. /\ visit' \in [Visits -> VisitRecord]
      /\ \A u \in Visits : u # v => visit'[u] = visit[u]
      /\ visit'[v].phase = "lock" /\ visit'[v].email = e /\ visit'[v].ws = creds[e]
      /\ visit'[v].by = "login" /\ visit'[v].link = "none"
  <2> DEFINE q == [NoVisit EXCEPT !.phase = "lock", !.email = e, !.ws = creds[e], !.by = "login"]
  <2>1. q \in VisitRecord
    <3>1. creds[e] \in SpaceIds \cup {0}
      BY DEF TenancyShape
    <3> QED
      BY <3>1, NoVisitFits DEF VisitRecord, VisitPhases
  <2>2. /\ q.phase = "lock" /\ q.email = e /\ q.ws = creds[e] /\ q.by = "login" /\ q.link = "none"
    BY DEF NoVisit
  <2>3. visit' = [visit EXCEPT ![v] = q]
    BY DEF BeginLogin, Visiting
  <2> HIDE DEF q
  <2> QED
    BY <1>1, <2>1, <2>2, <2>3
<1>20. /\ visit[v].phase = "idle" /\ creds[e] # 0
       /\ UNCHANGED <<registryVars, schemas, held, users, off, inner, outer, usedLinks, historyVars>>
  BY DEF BeginLogin
<1>3. TenancyShape'
  BY <1>2, <1>20 DEF TenancyShape
<1>4. SpacesBuilt'
  BY <1>2, <1>20 DEF SpacesBuilt
<1>5. MembersPlaced'
  BY <1>2, <1>20 DEF MembersPlaced
<1>6. LinksClaimed'
  BY <1>2, <1>20 DEF LinksClaimed
<1>7. LoginsHold'
  BY <1>2, <1>20 DEF LoginsHold
<1>8. \A x, m : m \in Emails =>
        /\ (Undone(x, m) => Undone(x, m)')
        /\ (Placed(x, m) => Placed(x, m)')
        /\ (Inside(x, m) => Inside(x, m)')
  BY <1>2, <1>20 DEF Placed, Inside, Undone
<1>9. SessionsPlaced'
  BY <1>1, <1>2, <1>8, <1>20 DEF SessionsPlaced, TenancyShape, SessionRow
<1> QED
  BY <1>3, <1>4, <1>5, <1>6, <1>7, <1>9

\* A sign-in by code begins with nothing.
LEMMA BeginCodeKeeps ==
  ASSUME TenancyInv, NEW v \in Visits, NEW e \in Emails, BeginCode(v, e)
  PROVE  TenancyInv'
<1> USE NobodyFits, TenancyAssumption DEF TenancyInv, In, registryVars, historyVars
<1>1. /\ visit \in [Visits -> VisitRecord] /\ member \in [Emails -> MemberRow]
      /\ \A u \in Visits : visit[u].phase # "idle" => visit[u].email \in Emails
  BY DEF TenancyShape
<1>2. /\ visit' \in [Visits -> VisitRecord]
      /\ \A u \in Visits : u # v => visit'[u] = visit[u]
      /\ visit'[v].phase = "proven"
      /\ visit'[v].email = e
      /\ visit'[v].ws = 0
      /\ visit'[v].by = "inbox"
      /\ visit'[v].link = "none"
  BY <1>1, NoVisitFits DEF BeginCode, Move, Leave, Visiting, VisitRecord, VisitPhases, MemberRow
<1>3. TenancyShape'
  BY <1>1, <1>2 DEF BeginCode, TenancyShape
<1>4. SpacesBuilt'
  BY SMTT(20), <1>1, <1>2 DEF BeginCode, TenancyShape, SpacesBuilt, MembersPlaced
<1>5. MembersPlaced'
  BY <1>1, <1>2 DEF BeginCode, TenancyShape, SpacesBuilt, MembersPlaced
<1>6. LinksClaimed'
  BY <1>1, <1>2 DEF BeginCode, TenancyShape, LinksClaimed
<1>7. LoginsHold'
  BY <1>1, <1>2 DEF BeginCode, TenancyShape, SpacesBuilt, MembersPlaced, LoginsHold
<1>8. \A x, m : m \in Emails =>
        /\ (Undone(x, m) => Undone(x, m)')
        /\ (Placed(x, m) => Placed(x, m)')
        /\ (Inside(x, m) => Inside(x, m)')
  BY <1>1, <1>2 DEF BeginCode, TenancyShape, MembersPlaced, Placed, Inside, Undone
<1>9. SessionsPlaced'
  BY <1>1, <1>2, <1>8, SessionsStayPlaced DEF BeginCode
<1> QED
  BY <1>3, <1>4, <1>5, <1>6, <1>7, <1>9

\* An invited email may accept.
LEMMA BeginAcceptKeepsA ==
  ASSUME TenancyInv, NEW v \in Visits, NEW e \in Emails, BeginAccept(v, e), member[e].status = "invited"
  PROVE  TenancyInv'
<1> USE NobodyFits, TenancyAssumption DEF TenancyInv, In, registryVars, historyVars
<1>1. /\ visit \in [Visits -> VisitRecord] /\ member \in [Emails -> MemberRow]
      /\ \A u \in Visits : visit[u].phase # "idle" => visit[u].email \in Emails
  BY DEF TenancyShape
<1>2. /\ visit' \in [Visits -> VisitRecord]
      /\ \A u \in Visits : u # v => visit'[u] = visit[u]
      /\ visit'[v].phase = "accept" /\ visit'[v].email = e /\ visit'[v].ws = member[e].ws
      /\ visit'[v].by = "inbox" /\ visit'[v].link = "none"
  <2> DEFINE q == [NoVisit EXCEPT !.phase = "accept", !.email = e, !.ws = member[e].ws, !.by = "inbox"]
  <2>1. q \in VisitRecord
    <3>1. member[e].ws \in SpaceIds \cup {0}
      BY <1>1 DEF MemberRow
    <3> QED
      BY <3>1, NoVisitFits DEF VisitRecord, VisitPhases
  <2>2. /\ q.phase = "accept" /\ q.email = e /\ q.ws = member[e].ws /\ q.by = "inbox" /\ q.link = "none"
    BY DEF NoVisit
  <2>3. visit' = [visit EXCEPT ![v] = q]
    BY DEF BeginAccept, Visiting
  <2> HIDE DEF q
  <2> QED
    BY <1>1, <2>1, <2>2, <2>3
<1>20. /\ visit[v].phase = "idle" /\ tokens[e] > 0 /\ tokens' = [tokens EXCEPT ![e] = @ - 1]
       /\ UNCHANGED <<doors, spaces, member, creds, schemas, held, users, off, inner, outer,
                      usedLinks, historyVars>>
  BY DEF BeginAccept
<1>3. TenancyShape'
  <2>1. tokens' \in [Emails -> 0 .. MaxTokens]
    BY <1>20 DEF TenancyShape
  <2> QED
    BY <1>2, <1>20, <2>1 DEF TenancyShape
<1>4. SpacesBuilt'
  BY <1>2, <1>20 DEF SpacesBuilt
<1>5. MembersPlaced'
  BY <1>2, <1>20 DEF MembersPlaced
<1>6. LinksClaimed'
  BY <1>2, <1>20 DEF LinksClaimed
<1>7. LoginsHold'
  BY <1>2, <1>20 DEF LoginsHold
<1>8. \A x, m : m \in Emails =>
        /\ (Undone(x, m) => Undone(x, m)')
        /\ (Placed(x, m) => Placed(x, m)')
        /\ (Inside(x, m) => Inside(x, m)')
  BY <1>2, <1>20 DEF Placed, Inside, Undone
<1>9. SessionsPlaced'
  <2>1. \A w0, e0 : visit'[v].ws = w0 /\ visit'[v].email = e0 => Placed(w0, e0)'
    BY <1>2, <1>20 DEF Placed
  <2> QED
    BY <1>1, <1>2, <1>8, <1>20, <2>1 DEF SessionsPlaced, TenancyShape, SessionRow
<1> QED
  BY <1>3, <1>4, <1>5, <1>6, <1>7, <1>9

\* Any other one may not.
LEMMA BeginAcceptKeepsB ==
  ASSUME TenancyInv, NEW v \in Visits, NEW e \in Emails, BeginAccept(v, e), member[e].status # "invited"
  PROVE  TenancyInv'
<1> USE NobodyFits, TenancyAssumption DEF TenancyInv, In, registryVars, historyVars
<1>1. /\ visit \in [Visits -> VisitRecord] /\ member \in [Emails -> MemberRow]
      /\ \A u \in Visits : visit[u].phase # "idle" => visit[u].email \in Emails
  BY DEF TenancyShape
<1>2. visit' = visit
  BY DEF BeginAccept
<1>3. TenancyShape'
  BY <1>1, <1>2 DEF BeginAccept, TenancyShape
<1>4. SpacesBuilt'
  BY <1>1, <1>2 DEF BeginAccept, TenancyShape, SpacesBuilt, MembersPlaced
<1>5. MembersPlaced'
  BY <1>1, <1>2 DEF BeginAccept, TenancyShape, SpacesBuilt, MembersPlaced
<1>6. LinksClaimed'
  BY <1>1, <1>2 DEF BeginAccept, TenancyShape, LinksClaimed
<1>7. LoginsHold'
  BY <1>1, <1>2 DEF BeginAccept, TenancyShape, SpacesBuilt, MembersPlaced, LoginsHold
<1>8. \A x, m : m \in Emails =>
        /\ (Undone(x, m) => Undone(x, m)')
        /\ (Placed(x, m) => Placed(x, m)')
        /\ (Inside(x, m) => Inside(x, m)')
  BY <1>1, <1>2 DEF BeginAccept, TenancyShape, MembersPlaced, Placed, Inside, Undone
<1>9. SessionsPlaced'
  BY <1>1, <1>2, <1>8, SessionsStayPlaced DEF BeginAccept
<1> QED
  BY <1>3, <1>4, <1>5, <1>6, <1>7, <1>9

\* A link is claimed by one visit, once.
LEMMA ClaimLinkKeeps ==
  ASSUME TenancyInv, NEW v \in Visits, NEW e \in Emails, NEW l \in Links, ClaimLink(v, e, l)
  PROVE  TenancyInv'
<1> USE NobodyFits, TenancyAssumption DEF TenancyInv, In, registryVars, historyVars
<1>1. /\ visit \in [Visits -> VisitRecord] /\ member \in [Emails -> MemberRow]
      /\ \A u \in Visits : visit[u].phase # "idle" => visit[u].email \in Emails
  BY DEF TenancyShape
<1>2. /\ visit' \in [Visits -> VisitRecord]
      /\ \A u \in Visits : u # v => visit'[u] = visit[u]
      /\ visit'[v].phase = "proven"
      /\ visit'[v].email = e
      /\ visit'[v].ws = 0
      /\ visit'[v].by = "inbox"
      /\ visit'[v].link = l
  BY <1>1, NoVisitFits DEF ClaimLink, Move, Leave, Visiting, VisitRecord, VisitPhases, MemberRow
<1>3. TenancyShape'
  BY <1>1, <1>2 DEF ClaimLink, TenancyShape
<1>4. SpacesBuilt'
  BY <1>1, <1>2 DEF ClaimLink, TenancyShape, SpacesBuilt, MembersPlaced
<1>5. MembersPlaced'
  BY <1>1, <1>2 DEF ClaimLink, TenancyShape, SpacesBuilt, MembersPlaced
<1>6. LinksClaimed'
  BY <1>1, <1>2 DEF ClaimLink, TenancyShape, LinksClaimed
<1>7. LoginsHold'
  BY <1>1, <1>2 DEF ClaimLink, TenancyShape, SpacesBuilt, MembersPlaced, LoginsHold
<1>8. \A x, m : m \in Emails =>
        /\ (Undone(x, m) => Undone(x, m)')
        /\ (Placed(x, m) => Placed(x, m)')
        /\ (Inside(x, m) => Inside(x, m)')
  BY <1>1, <1>2 DEF ClaimLink, TenancyShape, MembersPlaced, Placed, Inside, Undone
<1>9. SessionsPlaced'
  BY <1>1, <1>2, <1>8, SessionsStayPlaced DEF ClaimLink
<1> QED
  BY <1>3, <1>4, <1>5, <1>6, <1>7, <1>9

\* An invitation gives an email without a row one that is not active.
LEMMA InviteKeeps ==
  ASSUME TenancyInv, NEW w \in SpaceIds, NEW e \in Emails, Invite(w, e)
  PROVE  TenancyInv'
<1> USE NobodyFits, TenancyAssumption DEF TenancyInv, In, registryVars, historyVars
<1>1. /\ visit \in [Visits -> VisitRecord] /\ member \in [Emails -> MemberRow]
      /\ \A u \in Visits : visit[u].phase # "idle" => visit[u].email \in Emails
  BY DEF TenancyShape
<1>2. visit' = visit
  BY DEF Invite
<1>3. TenancyShape'
  <2> DEFINE row == [ws |-> w, status |-> "invited", verified |-> FALSE]
  <2>1. row \in MemberRow
    BY DEF MemberRow
  <2>2. member' = [member EXCEPT ![e] = row] /\ users' = users \cup {<<w, e>>}
    BY DEF Invite
  <2> HIDE DEF row
  <2>3. member' \in [Emails -> MemberRow]
    BY <1>1, <2>1, <2>2
  <2> QED
    BY <1>2, <2>2, <2>3 DEF TenancyShape, Invite
<1>4. SpacesBuilt'
  BY <1>1, <1>2 DEF Invite, TenancyShape, SpacesBuilt, MembersPlaced
<1>5. MembersPlaced'
  BY <1>1, <1>2 DEF Invite, TenancyShape, SpacesBuilt, MembersPlaced
<1>6. LinksClaimed'
  BY <1>1, <1>2 DEF Invite, TenancyShape, LinksClaimed
<1>7. LoginsHold'
  BY <1>1, <1>2 DEF Invite, TenancyShape, SpacesBuilt, MembersPlaced, LoginsHold
<1>8. \A x, m : m \in Emails =>
        /\ (Undone(x, m) => Undone(x, m)')
        /\ (x # 0 /\ Placed(x, m) => Placed(x, m)')
        /\ (Inside(x, m) => Inside(x, m)')
  <2>1. \A m \in Emails : m # e => member'[m] = member[m]
    BY <1>1 DEF Invite
  <2>2. member[e].ws = 0 /\ member'[e].ws # 0
    BY <1>1 DEF Invite
  <2>3. \A x, m : Undone(x, m) => Undone(x, m)'
    BY <1>2 DEF Undone, Invite
  <2>4. \A x : /\ (x # 0 /\ Placed(x, e)) => Undone(x, e)
               /\ Inside(x, e) => Undone(x, e)
    <3>1. member[e].ws = 0 /\ member[e].status = "none"
      BY DEF Invite
    <3> QED
      BY <3>1 DEF Placed, Inside
  <2> QED
    <3>1. SUFFICES ASSUME NEW x, NEW m \in Emails
                   PROVE  /\ Undone(x, m) => Undone(x, m)'
                          /\ x # 0 /\ Placed(x, m) => Placed(x, m)'
                          /\ Inside(x, m) => Inside(x, m)'
      OBVIOUS
    <3>2. CASE m = e
      <4>1. (x # 0 /\ Placed(x, m) => Undone(x, m)) /\ (Inside(x, m) => Undone(x, m))
        BY <2>4, <3>2
      <4>2. Undone(x, m) => Undone(x, m)'
        BY <2>3
      <4> QED
        BY <4>1, <4>2 DEF Placed, Inside
    <3>3. CASE m # e
      BY <2>1, <2>3, <3>3 DEF Placed, Inside
    <3> QED
      BY <3>2, <3>3
<1>9. SessionsPlaced'
  <2>1. \A w0, e0 : \A s \in inner' : s.ws = w0 /\ s.email = e0 => Inside(w0, e0)'
    BY <1>1, <1>2, <1>8 DEF Invite, TenancyShape, SessionsPlaced, SessionRow
  <2>2. \A w0, e0 : \A u \in Visits :
          visit'[u].phase \in {"session", "cookie"} /\ visit'[u].ws = w0 /\ visit'[u].email = e0 => Inside(w0, e0)'
    BY <1>1, <1>2, <1>8 DEF Invite, SessionsPlaced
  <2>3. \A w0, e0 : \A u \in Visits :
          visit'[u].phase = "accept" /\ visit'[u].ws = w0 /\ visit'[u].email = e0 => Placed(w0, e0)'
    <3>1. \A u \in Visits : visit[u].phase = "accept" => visit[u].ws # 0
      BY DEF MembersPlaced, TenancyShape
    <3> QED
      BY <1>1, <1>2, <1>8, <3>1 DEF SessionsPlaced
  <2> QED
    BY <2>1, <2>2, <2>3 DEF SessionsPlaced
<1> QED
  BY <1>3, <1>4, <1>5, <1>6, <1>7, <1>9

\* A revoked user is cut off with the sessions it has.
LEMMA RevokeUserKeeps ==
  ASSUME TenancyInv, NEW w \in SpaceIds, NEW e \in Emails, RevokeUser(w, e)
  PROVE  TenancyInv'
<1> USE NobodyFits, TenancyAssumption DEF TenancyInv, In, registryVars, historyVars
<1>1. /\ visit \in [Visits -> VisitRecord] /\ member \in [Emails -> MemberRow]
      /\ \A u \in Visits : visit[u].phase # "idle" => visit[u].email \in Emails
  BY DEF TenancyShape
<1>2. visit' = visit
  BY DEF RevokeUser
<1>3. TenancyShape'
  BY <1>1, <1>2 DEF RevokeUser, TenancyShape
<1>4. SpacesBuilt'
  BY <1>1, <1>2 DEF RevokeUser, TenancyShape, SpacesBuilt, MembersPlaced
<1>5. MembersPlaced'
  BY <1>1, <1>2 DEF RevokeUser, TenancyShape, SpacesBuilt, MembersPlaced
<1>6. LinksClaimed'
  BY <1>1, <1>2 DEF RevokeUser, TenancyShape, LinksClaimed
<1>7. LoginsHold'
  BY <1>1, <1>2 DEF RevokeUser, TenancyShape, SpacesBuilt, MembersPlaced, LoginsHold
<1>8. \A x, m : m \in Emails =>
        /\ (Undone(x, m) => Undone(x, m)')
        /\ (Placed(x, m) => Placed(x, m)')
        /\ (Inside(x, m) => Inside(x, m)')
  BY <1>1, <1>2 DEF RevokeUser, TenancyShape, MembersPlaced, Placed, Inside, Undone
<1>9. SessionsPlaced'
  BY <1>1, <1>2, <1>8, SessionsStayPlaced DEF RevokeUser
<1> QED
  BY <1>3, <1>4, <1>5, <1>6, <1>7, <1>9

\* The membership of one who was cut off goes.
LEMMA RemoveMemberKeeps ==
  ASSUME TenancyInv, NEW w \in SpaceIds, NEW e \in Emails, RemoveMember(w, e)
  PROVE  TenancyInv'
<1> USE NobodyFits, TenancyAssumption DEF TenancyInv, In, registryVars, historyVars
<1>1. /\ visit \in [Visits -> VisitRecord] /\ member \in [Emails -> MemberRow]
      /\ \A u \in Visits : visit[u].phase # "idle" => visit[u].email \in Emails
  BY DEF TenancyShape
<1>2. visit' = visit
  BY DEF RemoveMember
<1>3. TenancyShape'
  BY <1>1, <1>2 DEF RemoveMember, TenancyShape
<1>4. SpacesBuilt'
  BY <1>1, <1>2 DEF RemoveMember, TenancyShape, SpacesBuilt, MembersPlaced
<1>5. MembersPlaced'
  BY <1>1, <1>2 DEF RemoveMember, TenancyShape, SpacesBuilt, MembersPlaced
<1>6. LinksClaimed'
  BY <1>1, <1>2 DEF RemoveMember, TenancyShape, LinksClaimed
<1>7. LoginsHold'
  BY <1>1, <1>2 DEF RemoveMember, TenancyShape, SpacesBuilt, MembersPlaced, LoginsHold
<1>8. \A x, m : m \in Emails =>
        /\ (Undone(x, m) => Undone(x, m)')
        /\ (Placed(x, m) => Placed(x, m)')
        /\ (Inside(x, m) => Inside(x, m)')
  BY <1>1, <1>2 DEF RemoveMember, TenancyShape, MembersPlaced, Placed, Inside, Undone
<1>9. SessionsPlaced'
  BY <1>1, <1>2, <1>8, SessionsStayPlaced DEF RemoveMember
<1> QED
  BY <1>3, <1>4, <1>5, <1>6, <1>7, <1>9

\* The doors' invariant holds when nobody has come yet.
LEMMA TenancyStart ==
  TenancyInit => TenancyInv
<1> SUFFICES ASSUME TenancyInit PROVE TenancyInv
  OBVIOUS
<1> USE NobodyFits, NoVisitFits, TenancyAssumption DEF TenancyInit
<1>1. /\ member \in [Emails -> MemberRow] /\ visit \in [Visits -> VisitRecord]
      /\ \A v \in Visits : visit[v] = NoVisit
      /\ \A e \in Emails : member[e] = Nobody /\ creds[e] = 0
  OBVIOUS
<1>2. TenancyShape
  BY <1>1 DEF TenancyShape
<1>3. SpacesBuilt
  BY <1>1, FS_EmptySet DEF SpacesBuilt
<1>4. MembersPlaced
  BY <1>1 DEF MembersPlaced
<1>5. LinksClaimed
  BY <1>1 DEF LinksClaimed
<1>6. LoginsHold
  BY <1>1 DEF LoginsHold, In
<1>7. SessionsPlaced
  BY <1>1 DEF SessionsPlaced
<1> QED
  BY <1>2, <1>3, <1>4, <1>5, <1>6, <1>7 DEF TenancyInv

\* And where nothing changes.
LEMMA TenancyStutter ==
  ASSUME TenancyInv, UNCHANGED tenancyVars PROVE TenancyInv'
<1>1. SessionsPlaced'
  BY DEF TenancyInv, tenancyVars, SessionsPlaced, Inside, Placed, Undone, In
<1> QED
  BY <1>1 DEF TenancyInv, tenancyVars, TenancyShape, SpacesBuilt, MembersPlaced, LinksClaimed,
              LoginsHold, In

\* And after every step.
LEMMA TenancyKept ==
  TenancyInv /\ [TenancyNext]_tenancyVars => TenancyInv'
<1> SUFFICES ASSUME TenancyInv, [TenancyNext]_tenancyVars PROVE TenancyInv'
  OBVIOUS
<1>1. ASSUME NEW v \in Visits, TenancyStep(v) PROVE TenancyInv'
  BY <1>1, DeclineInviteKeeps, DisableDeclinedKeeps, CreateSchemaKeepsA, CreateSchemaKeepsB,
     RegisterKeepsA, RegisterKeepsB, DropSchemaKeeps, OpenInnerKeeps, OpenOuterKeeps,
     HoldCredentialKeepsA, HoldCredentialKeepsB, OpenPasswordSessionKeeps, ReadClaimKeepsA,
     ReadClaimKeepsB, PromoteKeepsA, PromoteKeepsB, ReadMemberKeepsA, ReadMemberKeepsB,
     SignInFailsKeeps, AcceptInviteKeeps DEF TenancyStep
<1>2. ASSUME NEW v \in Visits, NEW e \in Emails,
             \/ BeginPasswordSignup(v, e) \/ BeginCreate(v, e) \/ BeginLogin(v, e)
             \/ BeginCode(v, e) \/ BeginAccept(v, e)
             \/ \E l \in Links : ClaimLink(v, e, l)
      PROVE  TenancyInv'
  BY <1>2, BeginPasswordSignupKeeps, BeginCreateKeepsA, BeginCreateKeepsB, BeginLoginKeeps,
     BeginCodeKeeps, BeginAcceptKeepsA, BeginAcceptKeepsB, ClaimLinkKeeps
<1> QED
  BY <1>1, <1>2, VisitCrashKeeps, InviteKeeps, RevokeUserKeeps, RemoveMemberKeeps, TenancyStutter
  DEF TenancyNext

\* What the doors rest on holds in every reachable state of sign-ups, invitations, links,
\* logins and crashes.
THEOREM TenancyInvariance == TenancySpec => []TenancyInv
BY TenancyStart, TenancyKept, PTL DEF TenancySpec

\* What the invariant of the workspaces says of their schemas, and of the types.
LEMMA SpacesOwned == TenancyInv => TenancyTypeOK /\ SchemasOwned
BY DEF TenancyInv, TenancyShape, SpacesBuilt, TenancyTypeOK, SchemasOwned, MemberRow

\* Every workspace has its schema, every schema a workspace or a sign-up that is building
\* it, unless one was killed, and the registry keeps its limit (tenancy.ts:115, 132, 144),
\* for any number of visits and emails.
THEOREM WorkspacesAlwaysOwned == TenancySpec => [](TenancyTypeOK /\ SchemasOwned)
BY SpacesOwned, TenancyInvariance, PTL

\* A link opens once, a session in a workspace is a member's, or of one who was cut off or
\* left there, and a promotion ends the workspace's password logins
\* (hosted/routes.ts:261-319, tenancy.ts:261), however visits interleave.
THEOREM DoorsAlwaysHold == TenancySpec => []DoorsHold
<1>1. TenancyInv => LinkOpensOnce
  BY DEF TenancyInv, LinksClaimed, LinkOpensOnce
<1>2. TenancyInv => OnlyMembersInside
  BY DEF TenancyInv, SessionsPlaced, Inside, Undone, OnlyMembersInside
<1>3. TenancyInv => PromotionEndsLogins
  BY DEF TenancyInv, LoginsHold, PromotionEndsLogins
<1> QED
  BY <1>1, <1>2, <1>3, TenancyInvariance, PTL DEF DoorsHold

----------------------------------------------------------------------------
(***************************************************************************)
(* SignIn keeps its doors whatever the people, the houses and the bounds:  *)
(* where login is required somebody can log in, and whoever was cut off    *)
(* stays out.  HouseKept is not inductive: what a request has read between *)
(* its check and its write has to be remembered, which CheckedStands does. *)
(***************************************************************************)

AcctType == [Staff -> [role : Roles \cup {"none"}, code : BOOLEAN, off : BOOLEAN, revs : Nat]]
RequestType == [n : Nat, kind : {"add", "rotate", "revoke", "close", "open"}, by : Staff \cup {Guest},
                on : Staff \cup {"all"}, at : {"in", "able", "cut"}]

\* The types the proof uses.
HouseShape ==
  /\ house \in Houses
  /\ acct \in AcctType
  /\ wall \in BOOLEAN /\ clashed \in BOOLEAN
  /\ sessions \subseteq [who : Staff, revs : Nat, late : BOOLEAN]
  /\ logins \subseteq [n : Nat, who : Staff, revs : Nat]
  /\ admins \subseteq RequestType
  /\ \A r \in admins : r.kind \in {"add", "rotate", "revoke"} => r.on \in Staff
  /\ done \in [logins : Nat, admin : Nat]

\* An admin who is not cut off has a code.
AdminsHaveCodes == \A u \in Staff : acct[u].role = "admin" /\ ~acct[u].off => acct[u].code

\* What a revocation and a closing rest on still stands when they write: the one who
\* revokes, somebody else, can log in, or login is not required; to close, somebody can.
CheckedStands ==
  ~clashed =>
    /\ \A r \in admins : r.kind = "revoke" /\ r.at = "in" =>
         \/ r.by \in Staff /\ r.by # r.on /\ acct[r.by].code /\ ~acct[r.by].off
         \/ ~AuthRequired
    /\ \A r \in admins : r.kind = "close" /\ r.at = "able" => HasLoginCapableUser

\* A session from before a revocation is being ended, or was opened late.
OldSessionsGo ==
  \A s \in sessions : s.revs # acct[s.who].revs =>
    s.late \/ \E r \in admins : Stage(r, "revoke", "cut") /\ r.on = s.who

HouseInv == HouseShape /\ AdminsHaveCodes /\ CheckedStands /\ SomebodyCanLogIn /\ OldSessionsGo

----------------------------------------------------------------------------
(* The start *)

\* Every house starts with its doors kept (first admin by the seed, settings.ts:43).
LEMMA HouseInit == SignInInit => HouseInv
<1> SUFFICES ASSUME SignInInit PROVE HouseInv
  OBVIOUS
<1> USE DEF SignInInit
<1>1. /\ \A u \in Staff : house.roles[u] \in Roles \cup {"none"}
      /\ house.wall \in BOOLEAN
      /\ house.wall \/ house.forced => \E u \in Staff : house.roles[u] = "admin"
  BY SignInAssumption
<1>2. HouseShape
  BY <1>1 DEF HouseShape, AcctType
<1>3. AdminsHaveCodes /\ CheckedStands /\ OldSessionsGo
  BY DEF AdminsHaveCodes, CheckedStands, OldSessionsGo
<1>4. SomebodyCanLogIn
  BY <1>1 DEF SomebodyCanLogIn, AuthRequired, HasLoginCapableUser
<1> QED
  BY <1>2, <1>3, <1>4 DEF HouseInv

----------------------------------------------------------------------------
(* The steps *)

\* Sign-ins, and sessions ended by their users, leave the codes and the requests alone.
LEMMA SigningKeepsHouse ==
  ASSUME HouseInv,
         \/ \E u \in Staff : VerifyCode(u) \/ SharedLogin(u)
         \/ \E l \in logins : OpenSession(l)
         \/ \E s \in sessions : LogOut(s)
  PROVE  HouseInv'
<1> USE DEF HouseInv
<1>1. ASSUME NEW u \in Staff, VerifyCode(u) PROVE HouseInv'
  <2>1. HouseShape'
    BY <1>1 DEF HouseShape, AcctType, VerifyCode, Signs
  <2> QED
    BY <1>1, <2>1 DEF VerifyCode, AdminsHaveCodes, CheckedStands, SomebodyCanLogIn, OldSessionsGo,
         AuthRequired, HasLoginCapableUser, Stage
<1>2. ASSUME NEW u \in Staff, SharedLogin(u) PROVE HouseInv'
  <2> USE <1>2 DEF SharedLogin
  <2>1. CASE acct[u].role = "member"
    <3>1. HouseShape'
      BY <2>1 DEF HouseShape, AcctType, Signs
    <3> QED
      BY <2>1, <3>1 DEF AdminsHaveCodes, CheckedStands, SomebodyCanLogIn, OldSessionsGo,
           AuthRequired, HasLoginCapableUser, Stage
  <2>2. CASE acct[u].role = "none"
    <3>1. HouseShape'
      <4>1. acct' \in AcctType
        BY <2>2 DEF HouseShape, AcctType, Roles
      <4>2. sessions' \subseteq [who : Staff, revs : Nat, late : BOOLEAN]
        <5>1. acct[u].revs \in Nat /\ sessions \subseteq [who : Staff, revs : Nat, late : BOOLEAN]
          BY DEF HouseShape, AcctType
        <5>2. sessions' = sessions \cup {[who |-> u, revs |-> acct[u].revs, late |-> FALSE]}
          BY <2>2
        <5>3. [who |-> u, revs |-> acct[u].revs, late |-> FALSE] \in [who : Staff, revs : Nat, late : BOOLEAN]
          BY <5>1
        <5> QED
          BY <5>1, <5>2, <5>3, Zenon
      <4>3. done' \in [logins : Nat, admin : Nat]
        BY DEF HouseShape, Signs
      <4> QED
        BY <2>2, <4>1, <4>2, <4>3 DEF HouseShape
    <3>2. \A v \in Staff : /\ acct'[v].code = acct[v].code /\ acct'[v].off = acct[v].off
                           /\ acct'[v].revs = acct[v].revs
                           /\ acct'[v].role = "admin" => acct[v].role = "admin"
      BY <2>2 DEF HouseShape, AcctType
    <3>3. AdminsHaveCodes' /\ CheckedStands' /\ SomebodyCanLogIn'
      BY <2>2, <3>2 DEF AdminsHaveCodes, CheckedStands, SomebodyCanLogIn, AuthRequired, HasLoginCapableUser
    <3>4. OldSessionsGo'
      BY <2>2, <3>2 DEF OldSessionsGo, Stage, HouseShape
    <3> QED
      BY <3>1, <3>3, <3>4
  <2> QED
    BY <2>1, <2>2
<1>3. ASSUME NEW l \in logins, OpenSession(l) PROVE HouseInv'
  <2> USE <1>3 DEF OpenSession
  <2> DEFINE new == [who |-> l.who, revs |-> l.revs, late |-> l.revs # acct[l.who].revs]
  <2>1. /\ sessions' = sessions \cup {new} /\ logins' = logins \ {l}
        /\ UNCHANGED <<house, acct, wall, admins, done, clashed>>
    OBVIOUS
  <2>2. l.who \in Staff /\ l.revs \in Nat
    BY DEF HouseShape
  <2>3. (l.revs # acct[l.who].revs) \in BOOLEAN
    OBVIOUS
  <2>4. new \in [who : Staff, revs : Nat, late : BOOLEAN]
    BY <2>2, <2>3, Zenon
  <2>5. new.who = l.who /\ new.revs = l.revs /\ (new.late <=> l.revs # acct[l.who].revs)
    BY <2>3
  <2>6. HouseShape'
    BY <2>1, <2>4 DEF HouseShape
  <2>7. AdminsHaveCodes' /\ CheckedStands' /\ SomebodyCanLogIn'
    BY <2>1 DEF AdminsHaveCodes, CheckedStands, SomebodyCanLogIn, AuthRequired, HasLoginCapableUser
  <2>8. OldSessionsGo'
    <3> HIDE DEF new
    <3> QED
      BY <2>1, <2>5 DEF OldSessionsGo, Stage
  <2> QED
    BY <2>6, <2>7, <2>8
<1>4. ASSUME NEW s \in sessions, LogOut(s) PROVE HouseInv'
  <2>1. HouseShape'
    BY <1>4 DEF HouseShape, LogOut
  <2> QED
    BY <1>4, <2>1 DEF LogOut, AdminsHaveCodes, CheckedStands, SomebodyCanLogIn, OldSessionsGo,
         AuthRequired, HasLoginCapableUser, Stage
<1> QED
  BY <1>1, <1>2, <1>3, <1>4

\* Whoever is let in to revoke somebody else has a code, unless a guest may do it.
LEMMA AskingKeepsHouse ==
  ASSUME HouseInv, NEW by \in Staff \cup {Guest}, NEW on \in Staff \cup {"all"},
         NEW kind \in {"add", "rotate", "revoke", "close", "open"},
         kind \in {"add", "rotate", "revoke"} => on \in Staff,
         AdminAsks(kind, by, on)
  PROVE  HouseInv'
<1> USE DEF HouseInv, AdminAsks
<1> DEFINE new == [n |-> done.admin, kind |-> kind, by |-> by, on |-> on, at |-> "in"]
<1>1. /\ admins' = admins \cup {new} /\ new \in RequestType
      /\ UNCHANGED <<house, acct, wall, sessions, logins, clashed>>
  BY DEF HouseShape, RequestType
<1>2. HouseShape'
  BY <1>1 DEF HouseShape
<1>3. kind = "revoke" => \/ by \in Staff /\ by # on /\ acct[by].code /\ ~acct[by].off
                         \/ ~AuthRequired
  BY DEF LetIn, Honoured, AdminsHaveCodes, HouseShape
<1>4. CheckedStands'
  BY <1>1, <1>3 DEF CheckedStands, AuthRequired, HasLoginCapableUser
<1>5. AdminsHaveCodes' /\ SomebodyCanLogIn' /\ OldSessionsGo'
  BY <1>1 DEF AdminsHaveCodes, SomebodyCanLogIn, OldSessionsGo, AuthRequired, HasLoginCapableUser, Stage
<1> QED
  BY <1>2, <1>4, <1>5

\* A code given takes nobody's away.
LEMMA GivingCodesKeepsHouse ==
  ASSUME HouseInv, NEW r \in admins,
         RotateCode(r) \/ \E role \in Roles : AddUser(r, role)
  PROVE  HouseInv'
<1> USE DEF HouseInv
<1>1. /\ admins' = admins \ {r} /\ ~(r.kind = "revoke" /\ r.at = "cut")
      /\ UNCHANGED <<house, wall, sessions, logins, done, clashed>>
  BY DEF RotateCode, AddUser, Finishes, Stage
<1>2. r.on \in Staff
  BY DEF RotateCode, AddUser, Stage, HouseShape
<1>3. /\ acct' \in AcctType
      /\ \A u \in Staff : /\ acct[u].code => acct'[u].code
                          /\ acct'[u].off => acct[u].off
                          /\ acct'[u].revs = acct[u].revs
                          /\ acct'[u] = acct[u] \/ acct'[u].code
  <2>1. CASE RotateCode(r)
    BY ZenonT(40), <2>1, <1>2 DEF RotateCode, HouseShape, AcctType
  <2>2. ASSUME NEW role \in Roles, AddUser(r, role) PROVE <1>3
    BY <2>2, <1>2 DEF AddUser, HouseShape, AcctType
  <2> QED
    BY <2>1, <2>2
<1>4. HouseShape'
  BY <1>1, <1>3 DEF HouseShape
<1>5. AdminsHaveCodes'
  BY <1>3 DEF AdminsHaveCodes
<1>6. HasLoginCapableUser => HasLoginCapableUser'
  BY <1>3 DEF HasLoginCapableUser
<1>7. CheckedStands' /\ SomebodyCanLogIn'
  BY <1>1, <1>3, <1>6 DEF CheckedStands, SomebodyCanLogIn, AuthRequired, HouseShape
<1>8. OldSessionsGo'
  BY <1>1, <1>3 DEF OldSessionsGo, Stage, HouseShape
<1> QED
  BY <1>4, <1>5, <1>7, <1>8

\* The one who revokes stays; another request that has checked by now has clashed.
LEMMA RevokingKeepsHouse ==
  ASSUME HouseInv, NEW r \in admins, RevokeCode(r)
  PROVE  HouseInv'
<1> USE DEF HouseInv, RevokeCode
<1>1. /\ r.kind = "revoke" /\ r.at = "in" /\ r.on \in Staff
      /\ UNCHANGED <<house, wall, sessions, logins, done>>
  BY DEF Stage, HouseShape
<1>2. CASE acct[r.on].role = "none"
  <2>1. admins' = admins \ {r} /\ UNCHANGED <<acct, clashed>>
    BY <1>2 DEF Finishes
  <2>2. HouseShape'
    BY <1>1, <2>1 DEF HouseShape
  <2> QED
    BY <1>1, <2>1, <2>2 DEF AdminsHaveCodes, CheckedStands, SomebodyCanLogIn, OldSessionsGo,
         AuthRequired, HasLoginCapableUser, Stage
<1>3. CASE acct[r.on].role # "none"
  <2> DEFINE cut == [r EXCEPT !.at = "cut"]
  <2>1. /\ admins' = (admins \ {r}) \cup {cut}
        /\ acct' = [acct EXCEPT ![r.on].code = FALSE, ![r.on].off = TRUE, ![r.on].revs = @ + 1]
        /\ clashed' = (clashed \/ Meets(r))
    BY <1>3 DEF OnItsWay
  <2>2. /\ cut \in RequestType /\ cut.kind = "revoke" /\ cut.at = "cut" /\ cut.on = r.on
    BY <1>1 DEF HouseShape, RequestType
  <2>3. /\ acct' \in AcctType
        /\ \A u \in Staff \ {r.on} : acct'[u] = acct[u]
        /\ acct'[r.on].off
    BY <1>1, <2>1 DEF HouseShape, AcctType
  <2>4. HouseShape'
    <3>1. clashed' \in BOOLEAN
      BY <2>1 DEF HouseShape, Meets
    <3>2. /\ admins' \subseteq RequestType
          /\ \A o \in admins' : o.kind \in {"add", "rotate", "revoke"} => o.on \in Staff
      BY <1>1, <2>1, <2>2 DEF HouseShape
    <3> QED
      BY <1>1, <2>3, <3>1, <3>2 DEF HouseShape
  <2>5. AdminsHaveCodes'
    BY <2>3 DEF AdminsHaveCodes
  <2>6. CheckedStands'
    BY <2>1, <2>2 DEF CheckedStands, Meets
  <2>7. SomebodyCanLogIn'
    <3> SUFFICES ASSUME AuthRequired, ~clashed' PROVE HasLoginCapableUser'
      BY <1>1 DEF SomebodyCanLogIn, AuthRequired
    <3>1. r.by \in Staff /\ r.by # r.on /\ acct[r.by].code /\ ~acct[r.by].off
      BY <1>1, <2>1 DEF CheckedStands
    <3>2. acct'[r.by] = acct[r.by]
      BY <2>3, <3>1
    <3> QED
      BY <3>1, <3>2 DEF HasLoginCapableUser
  <2>8. OldSessionsGo'
    <3> SUFFICES ASSUME NEW s \in sessions', s.revs # acct'[s.who].revs, ~s.late
                 PROVE  \E o \in admins' : o.kind = "revoke" /\ o.at = "cut" /\ o.on = s.who
      BY DEF OldSessionsGo, Stage
    <3>1. s \in sessions /\ s.who \in Staff
      BY <1>1 DEF HouseShape
    <3>2. CASE s.who = r.on
      BY <2>1, <2>2, <3>2
    <3>3. CASE s.who # r.on
      <4>1. s.revs # acct[s.who].revs
        BY <2>3, <3>1, <3>3
      <4>2. PICK o \in admins : o.kind = "revoke" /\ o.at = "cut" /\ o.on = s.who
        BY <3>1, <4>1 DEF OldSessionsGo, Stage
      <4> QED
        BY <1>1, <2>1, <4>2
    <3> QED
      BY <3>2, <3>3
  <2> QED
    BY <2>4, <2>5, <2>6, <2>7, <2>8
<1> QED
  BY <1>2, <1>3

\* The sessions that end are those the revocation answers for.
LEMMA EndingKeepsHouse ==
  ASSUME HouseInv, NEW r \in admins, EndSessions(r)
  PROVE  HouseInv'
<1> USE DEF HouseInv, EndSessions
<1>1. /\ admins' = admins \ {r} /\ sessions' = {s \in sessions : s.who # r.on}
      /\ UNCHANGED <<house, acct, wall, logins, done, clashed>>
  BY DEF Finishes
<1>2. HouseShape'
  BY <1>1 DEF HouseShape
<1>3. AdminsHaveCodes' /\ CheckedStands' /\ SomebodyCanLogIn'
  BY <1>1 DEF AdminsHaveCodes, CheckedStands, SomebodyCanLogIn, AuthRequired, HasLoginCapableUser
<1>4. OldSessionsGo'
  BY <1>1 DEF OldSessionsGo, Stage
<1> QED
  BY <1>2, <1>3, <1>4

\* The house is closed by a request that has found somebody able to log in, and has met
\* no revocation since.
LEMMA DoorsKeepHouse ==
  ASSUME HouseInv, NEW r \in admins, CheckCapable(r) \/ CloseHouse(r) \/ OpenHouse(r)
  PROVE  HouseInv'
<1> USE DEF HouseInv
<1>1. CASE CheckCapable(r)
  <2> USE <1>1 DEF CheckCapable
  <2>1. /\ r.kind = "close" /\ r.at = "in"
        /\ UNCHANGED <<house, acct, wall, sessions, logins, done, clashed>>
    BY DEF Stage
  <2>2. \/ admins' = admins \ {r}
        \/ admins' = (admins \ {r}) \cup {[r EXCEPT !.at = "able"]} /\ HasLoginCapableUser
    BY DEF Finishes, OnItsWay
  <2>3. [r EXCEPT !.at = "able"] \in RequestType /\ [r EXCEPT !.at = "able"].kind = "close"
    BY <2>1 DEF HouseShape, RequestType
  <2>4. HouseShape'
    <3>1. /\ admins' \subseteq RequestType
          /\ \A o \in admins' : o.kind \in {"add", "rotate", "revoke"} => o.on \in Staff
      BY <2>1, <2>2, <2>3 DEF HouseShape
    <3> QED
      BY <2>1, <3>1 DEF HouseShape
  <2>5. AdminsHaveCodes' /\ CheckedStands' /\ SomebodyCanLogIn'
    <3>1. /\ HasLoginCapableUser' <=> HasLoginCapableUser
          /\ AuthRequired' <=> AuthRequired
          /\ AdminsHaveCodes'
      BY <2>1 DEF AdminsHaveCodes, AuthRequired, HasLoginCapableUser
    <3>2. CheckedStands'
      <4>1. ASSUME NEW o \in admins', o.kind = "revoke", o.at = "in" PROVE o \in admins
        BY <2>2, <2>3, <4>1
      <4>2. ASSUME NEW o \in admins', o.kind = "close", o.at = "able"
            PROVE  o \in admins \/ HasLoginCapableUser
        BY <2>2, <4>2
      <4> QED
        BY <2>1, <3>1, <4>1, <4>2 DEF CheckedStands
    <3> QED
      BY <2>1, <3>1, <3>2 DEF SomebodyCanLogIn
  <2>6. OldSessionsGo'
    BY <2>1, <2>2 DEF OldSessionsGo, Stage
  <2> QED
    BY <2>4, <2>5, <2>6
<1>2. CASE CloseHouse(r)
  <2> USE <1>2 DEF CloseHouse
  <2>1. /\ r.kind = "close" /\ r.at = "able" /\ admins' = admins \ {r}
        /\ wall' = TRUE /\ clashed' = (clashed \/ Meets(r))
        /\ UNCHANGED <<house, acct, sessions, logins, done>>
    BY DEF Stage, Finishes
  <2>2. HouseShape'
    BY <2>1 DEF HouseShape, Meets
  <2>3. CheckedStands'
    BY <2>1 DEF CheckedStands, Meets, HasLoginCapableUser
  <2>4. AdminsHaveCodes' /\ SomebodyCanLogIn'
    BY <2>1 DEF AdminsHaveCodes, CheckedStands, SomebodyCanLogIn, HasLoginCapableUser
  <2>5. OldSessionsGo'
    BY <2>1 DEF OldSessionsGo, Stage
  <2> QED
    BY <2>2, <2>3, <2>4, <2>5
<1>3. CASE OpenHouse(r)
  <2> USE <1>3 DEF OpenHouse
  <2>1. /\ r.kind = "open" /\ admins' = admins \ {r} /\ wall' = FALSE
        /\ UNCHANGED <<house, acct, sessions, logins, done, clashed>>
    BY DEF Stage, Finishes
  <2>2. HouseShape'
    BY <2>1 DEF HouseShape
  <2>3. AdminsHaveCodes' /\ CheckedStands' /\ SomebodyCanLogIn' /\ OldSessionsGo'
    BY <2>1 DEF AdminsHaveCodes, CheckedStands, SomebodyCanLogIn, OldSessionsGo, AuthRequired,
         HasLoginCapableUser, Stage
  <2> QED
    BY <2>2, <2>3
<1> QED
  BY <1>1, <1>2, <1>3

\* Every step keeps the invariant.
LEMMA HouseStep == HouseInv /\ [SignInNext]_signInVars => HouseInv'
<1> SUFFICES ASSUME HouseInv, [SignInNext]_signInVars PROVE HouseInv'
  OBVIOUS
<1>1. CASE UNCHANGED signInVars
  BY <1>1 DEF signInVars, HouseInv, HouseShape, AdminsHaveCodes, CheckedStands, SomebodyCanLogIn,
       OldSessionsGo, AuthRequired, HasLoginCapableUser, Stage
<1>2. CASE \/ \E u \in Staff : VerifyCode(u) \/ SharedLogin(u)
           \/ \E l \in logins : OpenSession(l)
           \/ \E s \in sessions : LogOut(s)
  BY <1>2, SigningKeepsHouse
<1>3. ASSUME NEW by \in Staff \cup {Guest}, NEW on \in Staff, NEW kind \in {"add", "rotate", "revoke"},
             AdminAsks(kind, by, on)
      PROVE  HouseInv'
  BY <1>3, AskingKeepsHouse
<1>4. ASSUME NEW by \in Staff \cup {Guest}, NEW kind \in {"close", "open"}, AdminAsks(kind, by, "all")
      PROVE  HouseInv'
  BY <1>4, AskingKeepsHouse
<1>5. CASE \E r \in admins, role \in Roles : AddUser(r, role)
  BY <1>5, GivingCodesKeepsHouse
<1>6. CASE \E r \in admins : RotateCode(r) \/ RevokeCode(r) \/ EndSessions(r)
  BY <1>6, GivingCodesKeepsHouse, RevokingKeepsHouse, EndingKeepsHouse
<1>7. CASE \E r \in admins : CheckCapable(r) \/ CloseHouse(r) \/ OpenHouse(r)
  BY <1>7, DoorsKeepHouse
<1> QED
  BY <1>1, <1>2, <1>3, <1>4, <1>5, <1>6, <1>7 DEF SignInNext

----------------------------------------------------------------------------
(* The theorem *)

\* Whatever the admins ask, in whatever order the statements of their requests come, where
\* login is required somebody can log in, unless a revocation overlapped another or a
\* closing; and nobody cut off is let in by a session from before (auth.ts:219,
\* auth-routes.ts:112).
THEOREM HouseAlwaysKept == SignInSpec => []HouseKept
<1>1. HouseInv => HouseKept
  BY DEF HouseInv, HouseKept, RevokedStaysOut, OldSessionsGo
<1> QED
  BY <1>1, HouseInit, HouseStep, PTL DEF SignInSpec

----------------------------------------------------------------------------
(***************************************************************************)
(* The daily caps hold for any number of callers, workspaces and days, and  *)
(* whatever calls are reported to cost.                                     *)
(***************************************************************************)

BudgetPhases == {"idle", "own", "all", "return", "ask", "settle", "share"}
CallRecords == [phase : BudgetPhases, ws : Tenants \cup {"none"}, day : Days, left : Nat, held : Nat,
         cost : Nat, back : Int]

\* What the caps rest on: the ledgers are numbers, and a call under way knows its
\* workspace.
BudgetShape ==
  /\ today \in Days
  /\ ledger \in [Days -> Nat]
  /\ share \in [Tenants -> [Days -> Nat]]
  /\ billed \in [Tenants -> [Days -> Nat]]
  /\ bill \in [Days -> Nat]
  /\ above \in [Days -> Nat]
  /\ aboveOf \in [Tenants -> [Days -> Nat]]
  /\ ask \in [Callers -> CallRecords]
  /\ \A c \in Callers : ask[c].phase # "idle" => ask[c].ws \in Tenants

BudgetInv == BudgetShape /\ CapsHold

\* A caller at rest.
LEMMA HungUp == NoCall \in CallRecords /\ NoCall.phase = "idle"
BY BudgetAssumption DEF NoCall, CallRecords, BudgetPhases, Days

\* The budget's invariant holds initially.
LEMMA Start == BudgetInit => BudgetInv
<1> SUFFICES ASSUME BudgetInit PROVE BudgetInv
  OBVIOUS
<1>1. BudgetShape
  BY HungUp, BudgetAssumption DEF BudgetInit, BudgetShape, Days
<1>2. CapsHold
  BY BudgetAssumption DEF BudgetInit, CapsHold, Days
<1> QED
  BY <1>1, <1>2 DEF BudgetInv

----------------------------------------------------------------------------
(* Every action keeps the invariant *)

\* Actions that write no ledger: the caps stay as they are.
LEMMA CapsFramed ==
  ASSUME CapsHold, UNCHANGED <<ledger, share, above, aboveOf>>
  PROVE  CapsHold'
BY DEF CapsHold

\* A call that goes on keeps its workspace; one that ends needs none.
LEMMA AskUpdated ==
  ASSUME BudgetShape, NEW c \in Callers, NEW a \in CallRecords,
         a.phase # "idle" => a.ws \in Tenants,
         ask' = [ask EXCEPT ![c] = a]
  PROVE  /\ ask' \in [Callers -> CallRecords]
         /\ \A k \in Callers : ask'[k].phase # "idle" => ask'[k].ws \in Tenants
<1>1. ask' \in [Callers -> CallRecords]
  BY DEF BudgetShape
<1>2. \A k \in Callers : ask'[k] = IF k = c THEN a ELSE ask[k]
  BY DEF BudgetShape
<1> QED
  BY <1>1, <1>2 DEF BudgetShape

\* Hanging up leaves every other call as it was.
LEMMA HangKeeps ==
  ASSUME BudgetShape, NEW c \in Callers, Hang(c)
  PROVE  /\ ask' \in [Callers -> CallRecords]
         /\ \A k \in Callers : ask'[k].phase # "idle" => ask'[k].ws \in Tenants
BY HungUp, AskUpdated DEF Hang

\* A phase that changes alone leaves a call a call.
LEMMA PhaseKeeps ==
  ASSUME BudgetShape, NEW c \in Callers, ask[c].phase # "idle", NEW p \in BudgetPhases,
         ask' = [ask EXCEPT ![c].phase = p]
  PROVE  /\ ask' \in [Callers -> CallRecords]
         /\ \A k \in Callers : ask'[k].phase # "idle" => ask'[k].ws \in Tenants
<1> DEFINE a == [ask[c] EXCEPT !.phase = p]
<1>1. a \in CallRecords /\ a.ws = ask[c].ws
  BY DEF CallRecords, BudgetShape
<1>2. ask' = [ask EXCEPT ![c] = a]
  BY DEF BudgetShape
<1> HIDE DEF a
<1> QED
  BY <1>1, <1>2, AskUpdated DEF BudgetShape

\* The types of a call's fields.
LEMMA CallFacts ==
  ASSUME BudgetShape, NEW c \in Callers
  PROVE  /\ ask[c] \in CallRecords /\ ask[c].day \in Days /\ ask[c].held \in Nat
         /\ ask[c].back \in Int /\ ask[c].cost \in Nat /\ ask[c].left \in Nat
         /\ ask[c].phase # "idle" => ask[c].ws \in Tenants
         /\ ask[c].phase # "idle" => share[ask[c].ws][ask[c].day] \in Nat
         /\ ledger[ask[c].day] \in Nat
BY DEF BudgetShape, CallRecords

\* A new day changes no call and no share.
LEMMA NextDayKeeps ==
  ASSUME BudgetInv, NextDay
  PROVE  BudgetInv'
<1>1. today' \in Days
  BY BudgetAssumption DEF BudgetInv, BudgetShape, NextDay, Days
<1>2. BudgetShape'
  BY <1>1 DEF BudgetInv, BudgetShape, NextDay
<1> QED
  BY <1>2, CapsFramed DEF BudgetInv, NextDay

\* A call that begins has nothing on the ledger yet.
LEMMA BeginCallKeeps ==
  ASSUME BudgetInv, NEW c \in Callers, NEW w \in Tenants, NEW n \in 1 .. 2, BeginCall(c, w, n)
  PROVE  BudgetInv'
<1> DEFINE a == [phase |-> "own", ws |-> w, day |-> today, left |-> n, held |-> n,
                 cost |-> 0, back |-> 0]
<1>1. a \in CallRecords /\ a.ws \in Tenants
  BY DEF BudgetInv, BudgetShape, CallRecords, BudgetPhases
<1>2. ask' = [ask EXCEPT ![c] = a]
  BY DEF BeginCall
<1> HIDE DEF a
<1>3. BudgetShape'
  BY <1>1, <1>2, AskUpdated DEF BudgetInv, BudgetShape, BeginCall
<1> QED
  BY <1>3, CapsFramed DEF BudgetInv, BeginCall

\* The condition of the UPDATE is the workspace's cap.
LEMMA ReserveShareKeeps ==
  ASSUME BudgetInv, NEW c \in Callers, ReserveShare(c)
  PROVE  BudgetInv'
<1> DEFINE w == ask[c].ws
           d == ask[c].day
<1>1. w \in Tenants /\ d \in Days /\ ask[c].held \in Nat
  BY CallFacts DEF BudgetInv, ReserveShare
<1>2. CASE UNCHANGED share
  <2>1. /\ ask' \in [Callers -> CallRecords]
        /\ \A k \in Callers : ask'[k].phase # "idle" => ask'[k].ws \in Tenants
    BY HangKeeps, PhaseKeeps DEF BudgetInv, ReserveShare, BudgetPhases
  <2> QED
    BY <1>2, <2>1, CapsFramed DEF BudgetInv, BudgetShape, ReserveShare
<1>3. CASE /\ share[w][d] + ask[c].held <= TenantCap
           /\ share' = [share EXCEPT ![w][d] = @ + ask[c].held]
           /\ ask' = [ask EXCEPT ![c].phase = "all"]
  <2>1. /\ ask' \in [Callers -> CallRecords]
        /\ \A k \in Callers : ask'[k].phase # "idle" => ask'[k].ws \in Tenants
    BY <1>3, PhaseKeeps DEF BudgetInv, ReserveShare, BudgetPhases
  <2>2. share' \in [Tenants -> [Days -> Nat]]
    BY <1>1, <1>3 DEF BudgetInv, BudgetShape
  <2>3. share'[w][d] <= TenantCap
    BY <1>1, <1>3 DEF BudgetInv, BudgetShape
  <2>4. \A v \in Tenants, e \in Days : <<v, e>> # <<w, d>> => share'[v][e] = share[v][e]
    BY <1>1, <1>3 DEF BudgetInv, BudgetShape
  <2>5. BudgetShape'
    BY <2>1, <2>2 DEF BudgetInv, BudgetShape, ReserveShare
  <2>6. CapsHold'
    <3> SUFFICES ASSUME NEW e \in Days
                 PROVE  /\ ledger[e] <= Cap + above[e]
                        /\ \A v \in Tenants : share'[v][e] <= TenantCap + aboveOf[v][e]
      BY DEF CapsHold, ReserveShare
    <3>1. ledger[e] <= Cap + above[e]
      BY DEF BudgetInv, CapsHold
    <3>2. ASSUME NEW v \in Tenants PROVE share'[v][e] <= TenantCap + aboveOf[v][e]
      <4>1. CASE v = w /\ e = d
        BY <4>1, <2>2, <2>3, BudgetAssumption DEF BudgetInv, BudgetShape
      <4>2. CASE ~(v = w /\ e = d)
        BY <4>2, <2>4 DEF BudgetInv, CapsHold
      <4> QED
        BY <4>1, <4>2
    <3> QED
      BY <3>1, <3>2
  <2> QED
    BY <2>5, <2>6 DEF BudgetInv
<1> QED
  BY <1>2, <1>3 DEF ReserveShare

\* The condition of the UPDATE is everyone's cap.
LEMMA ReserveAllKeeps ==
  ASSUME BudgetInv, NEW c \in Callers, ReserveAll(c)
  PROVE  BudgetInv'
<1> DEFINE d == ask[c].day
<1>1. d \in Days /\ ask[c].held \in Nat
  BY CallFacts DEF BudgetInv
<1>2. /\ ask' \in [Callers -> CallRecords]
      /\ \A k \in Callers : ask'[k].phase # "idle" => ask'[k].ws \in Tenants
  BY PhaseKeeps DEF BudgetInv, ReserveAll, BudgetPhases
<1>3. CASE UNCHANGED ledger
  BY <1>2, <1>3, CapsFramed DEF BudgetInv, BudgetShape, ReserveAll
<1>4. CASE ledger[d] + ask[c].held <= Cap /\ ledger' = [ledger EXCEPT ![d] = @ + ask[c].held]
  <2>1. BudgetShape'
    BY <1>1, <1>2, <1>4 DEF BudgetInv, BudgetShape, ReserveAll
  <2>2. CapsHold'
    BY <1>1, <1>4, BudgetAssumption DEF BudgetInv, BudgetShape, CapsHold, ReserveAll
  <2> QED
    BY <2>1, <2>2 DEF BudgetInv
<1> QED
  BY <1>3, <1>4 DEF ReserveAll

\* What a reservation gave can be taken back, and never below zero.
LEMMA ReturnShareKeeps ==
  ASSUME BudgetInv, NEW c \in Callers, ReturnShare(c)
  PROVE  BudgetInv'
<1> DEFINE w == ask[c].ws
           d == ask[c].day
           left == Floor(share[w][d] - ask[c].held)
<1>1. w \in Tenants /\ d \in Days /\ ask[c].held \in Nat /\ share[w][d] \in Nat
  BY CallFacts DEF BudgetInv, ReturnShare
<1>2. left \in Nat /\ left <= share[w][d]
  BY <1>1 DEF Floor
<1>3. share' = [share EXCEPT ![w][d] = left]
  BY <1>1 DEF ReturnShare, BudgetInv, BudgetShape
<1> HIDE DEF left
<1>4. BudgetShape'
  BY <1>1, <1>2, <1>3, HangKeeps DEF BudgetInv, BudgetShape, ReturnShare
<1>5. CapsHold'
  <2>1. \A v \in Tenants, e \in Days : share'[v][e] <= share[v][e]
    BY <1>1, <1>2, <1>3 DEF BudgetInv, BudgetShape
  <2> QED
    BY <1>4, <2>1, BudgetAssumption DEF BudgetInv, BudgetShape, CapsHold, ReturnShare
<1> QED
  BY <1>4, <1>5 DEF BudgetInv

\* What an answer and a refusal make of a call is a call of the same workspace.
LEMMA AnswerFacts ==
  ASSUME NEW x \in CallRecords, NEW n \in Nat
  PROVE  /\ Reported(x, n) \in CallRecords /\ Reported(x, n).ws = x.ws
         /\ x.left > 1 => Repaired(x, n) \in CallRecords
         /\ Repaired(x, n).ws = x.ws
         /\ GivenBack(x) \in CallRecords /\ GivenBack(x).ws = x.ws
<1>1. x.cost + n \in Nat /\ x.cost + n - x.held \in Int /\ -x.held \in Int
  BY DEF CallRecords
<1>2. x.left > 1 => x.left - 1 \in Nat
  BY DEF CallRecords
<1>3. \A k \in Nat, i \in Int :
        [x EXCEPT !.phase = "settle", !.cost = k, !.back = i] \in CallRecords
  BY DEF CallRecords, BudgetPhases
<1>4. \A k, l \in Nat : [x EXCEPT !.left = l, !.cost = k] \in CallRecords
  BY DEF CallRecords
<1>5. \A i \in Int : [x EXCEPT !.phase = "settle", !.back = i] \in CallRecords
  BY DEF CallRecords, BudgetPhases
<1>6. /\ Reported(x, n).ws = x.ws /\ Repaired(x, n).ws = x.ws /\ GivenBack(x).ws = x.ws
  BY DEF Reported, Repaired, GivenBack, CallRecords
<1> QED
  BY <1>1, <1>2, <1>3, <1>4, <1>5, <1>6 DEF Reported, Repaired, GivenBack

\* An answer writes what was billed, and no ledger.
LEMMA AnswerKeeps ==
  ASSUME BudgetInv, NEW c \in Callers, Answer(c)
  PROVE  BudgetInv'
<1> DEFINE w == ask[c].ws
           d == ask[c].day
<1>1. w \in Tenants /\ d \in Days /\ ask[c] \in CallRecords /\ ask[c].phase = "ask"
  BY CallFacts DEF BudgetInv, Answer
<1>2. PICK cost \in Costs, fits \in BOOLEAN :
        /\ billed' = [billed EXCEPT ![w][d] = @ + cost]
        /\ bill' = [bill EXCEPT ![d] = @ + cost]
        /\ ask' = [ask EXCEPT ![c] =
             IF fits THEN Reported(@, cost)
             ELSE IF ask[c].left > 1 THEN Repaired(@, cost)
             ELSE NoCall]
  BY DEF Answer
<1> DEFINE a == IF fits THEN Reported(ask[c], cost)
                ELSE IF ask[c].left > 1 THEN Repaired(ask[c], cost)
                ELSE NoCall
<1>3. cost \in Nat
  BY BudgetAssumption
<1>4. a \in CallRecords /\ (a.phase # "idle" => a.ws \in Tenants)
  <2>0. ask[c].ws \in Tenants
    BY <1>1 DEF BudgetInv, BudgetShape
  <2>1. CASE fits
    BY <1>1, <1>3, <2>0, <2>1, AnswerFacts
  <2>2. CASE ~fits /\ ask[c].left > 1
    BY <1>1, <1>3, <2>0, <2>2, AnswerFacts
  <2>3. CASE ~fits /\ ~(ask[c].left > 1)
    BY <2>3, HungUp
  <2> QED
    BY <2>1, <2>2, <2>3
<1>5. ask' = [ask EXCEPT ![c] = a]
  BY <1>2 DEF BudgetInv, BudgetShape
<1> HIDE DEF a
<1>6. billed' \in [Tenants -> [Days -> Nat]] /\ bill' \in [Days -> Nat]
  BY <1>1, <1>2, <1>3 DEF BudgetInv, BudgetShape
<1>7. BudgetShape'
  BY <1>4, <1>5, <1>6, AskUpdated DEF BudgetInv, BudgetShape, Answer
<1> QED
  BY <1>7, CapsFramed DEF BudgetInv, Answer

\* A refused call writes no ledger yet.
LEMMA RefusedKeeps ==
  ASSUME BudgetInv, NEW c \in Callers, Refused(c)
  PROVE  BudgetInv'
<1> DEFINE a == GivenBack(ask[c])
<1>1. a \in CallRecords /\ a.ws \in Tenants
  BY CallFacts, AnswerFacts, 0 \in Nat DEF BudgetInv, Refused
<1>2. ask' = [ask EXCEPT ![c] = a]
  BY DEF Refused, BudgetInv, BudgetShape
<1> HIDE DEF a
<1>3. BudgetShape'
  BY <1>1, <1>2, AskUpdated DEF BudgetInv, BudgetShape, Refused
<1> QED
  BY <1>3, CapsFramed DEF BudgetInv, Refused

\* A call that dies leaves the ledger as it is.
LEMMA LostKeeps ==
  ASSUME BudgetInv, NEW c \in Callers, CallLost(c) \/ SettleLost(c)
  PROVE  BudgetInv'
BY HangKeeps, CapsFramed DEF BudgetInv, BudgetShape, CallLost, SettleLost

\* A settlement adds to the ledger at most what it adds to the history.
LEMMA SettleKeeps ==
  ASSUME BudgetInv, NEW c \in Callers, Settle(c)
  PROVE  BudgetInv'
<1> DEFINE d == ask[c].day
           n == ask[c].back
<1>1. d \in Days /\ n \in Int /\ ledger[d] \in Nat /\ above[d] \in Nat
  BY CallFacts DEF BudgetInv, BudgetShape
<1>2. /\ Floor(n) \in Nat /\ Floor(ledger[d] + n) \in Nat
      /\ Floor(ledger[d] + n) <= ledger[d] + Floor(n)
  BY <1>1 DEF Floor
<1>3. /\ ask' \in [Callers -> CallRecords]
      /\ \A k \in Callers : ask'[k].phase # "idle" => ask'[k].ws \in Tenants
  BY PhaseKeeps DEF BudgetInv, Settle, BudgetPhases
<1>4. /\ ledger' = [ledger EXCEPT ![d] = Floor(ledger[d] + n)]
      /\ above' = [above EXCEPT ![d] = above[d] + Floor(n)]
  BY DEF Settle
<1>5. BudgetShape'
  BY <1>1, <1>2, <1>3, <1>4 DEF BudgetInv, BudgetShape, Settle
<1>6. CapsHold'
  <2> SUFFICES ASSUME NEW e \in Days
               PROVE  /\ ledger'[e] <= Cap + above'[e]
                      /\ \A v \in Tenants : share[v][e] <= TenantCap + aboveOf[v][e]
    BY DEF CapsHold, Settle
  <2>1. CASE e = d
    BY <1>1, <1>2, <1>4, <2>1, BudgetAssumption DEF BudgetInv, BudgetShape, CapsHold
  <2>2. CASE e # d
    BY <1>4, <2>2 DEF BudgetInv, BudgetShape, CapsHold
  <2> QED
    BY <2>1, <2>2
<1> QED
  BY <1>5, <1>6 DEF BudgetInv

\* Settling gives back what was reserved and not spent.
LEMMA SettleShareKeeps ==
  ASSUME BudgetInv, NEW c \in Callers, SettleShare(c)
  PROVE  BudgetInv'
<1> DEFINE w == ask[c].ws
           d == ask[c].day
           n == ask[c].back
<1>1. /\ w \in Tenants /\ d \in Days /\ n \in Int
      /\ share[w][d] \in Nat /\ aboveOf[w][d] \in Nat
  BY CallFacts DEF BudgetInv, BudgetShape, SettleShare
<1>2. /\ Floor(n) \in Nat /\ Floor(share[w][d] + n) \in Nat
      /\ Floor(share[w][d] + n) <= share[w][d] + Floor(n)
  BY <1>1 DEF Floor
<1>3. /\ ask' \in [Callers -> CallRecords]
      /\ \A k \in Callers : ask'[k].phase # "idle" => ask'[k].ws \in Tenants
  BY HangKeeps DEF BudgetInv, SettleShare
<1>4. /\ share' = [share EXCEPT ![w] = [share[w] EXCEPT ![d] = Floor(share[w][d] + n)]]
      /\ aboveOf' = [aboveOf EXCEPT ![w] = [aboveOf[w] EXCEPT ![d] = aboveOf[w][d] + Floor(n)]]
  BY DEF SettleShare
<1>5. BudgetShape'
  BY <1>1, <1>2, <1>3, <1>4 DEF BudgetInv, BudgetShape, SettleShare
<1>6. CapsHold'
  <2> SUFFICES ASSUME NEW e \in Days, NEW v \in Tenants
               PROVE  ledger[e] <= Cap + above[e] /\ share'[v][e] <= TenantCap + aboveOf'[v][e]
    BY DEF BudgetInv, CapsHold, SettleShare
  <2>1. CASE v = w /\ e = d
    BY <1>1, <1>2, <1>4, <2>1, BudgetAssumption DEF BudgetInv, BudgetShape, CapsHold
  <2>2. CASE ~(v = w /\ e = d)
    <3>1. share'[v][e] = share[v][e] /\ aboveOf'[v][e] = aboveOf[v][e]
      BY <1>1, <1>4, <2>2 DEF BudgetInv, BudgetShape
    <3> QED
      BY <3>1 DEF BudgetInv, CapsHold
  <2> QED
    BY <2>1, <2>2
<1> QED
  BY <1>5, <1>6 DEF BudgetInv

\* Where nothing changes the budget's invariant stays.
LEMMA StutterKeeps ==
  ASSUME BudgetInv, UNCHANGED budgetVars
  PROVE  BudgetInv'
BY CapsFramed DEF BudgetInv, BudgetShape, budgetVars

\* Every step keeps the budget's invariant.
LEMMA BudgetStep == BudgetInv /\ [BudgetNext]_budgetVars => BudgetInv'
<1> SUFFICES ASSUME BudgetInv, [BudgetNext]_budgetVars PROVE BudgetInv'
  OBVIOUS
<1>1. CASE NextDay
  BY <1>1, NextDayKeeps
<1>2. ASSUME NEW c \in Callers, NEW w \in Tenants, NEW n \in 1 .. 2, BeginCall(c, w, n)
      PROVE  BudgetInv'
  BY <1>2, BeginCallKeeps
<1>3. ASSUME NEW c \in Callers, ReserveShare(c) \/ ReserveAll(c) \/ ReturnShare(c)
      PROVE  BudgetInv'
  BY <1>3, ReserveShareKeeps, ReserveAllKeeps, ReturnShareKeeps
<1>4. ASSUME NEW c \in Callers, Answer(c) \/ Refused(c) \/ CallLost(c)
      PROVE  BudgetInv'
  BY <1>4, AnswerKeeps, RefusedKeeps, LostKeeps
<1>5. ASSUME NEW c \in Callers, Settle(c) \/ SettleShare(c) \/ SettleLost(c)
      PROVE  BudgetInv'
  BY <1>5, SettleKeeps, SettleShareKeeps, LostKeeps
<1>6. CASE UNCHANGED budgetVars
  BY <1>6, StutterKeeps
<1> QED
  BY <1>1, <1>2, <1>3, <1>4, <1>5, <1>6 DEF BudgetNext

----------------------------------------------------------------------------
(* Ledgers, caps and calls stay what they are in every reachable state: the *)
(* invariant of guarded() and hostedSpendLedger().                          *)
THEOREM BudgetInvariance == BudgetSpec => []BudgetInv
BY Start, BudgetStep, PTL DEF BudgetSpec

\* "concurrent calls cannot all slip through on the same remaining budget"
\* (provider.ts:284): a day's ledgers pass their caps only by what settled calls cost
\* above their reservations, for any number of callers and workspaces.
THEOREM CapsAlwaysHold == BudgetSpec => []CapsHold
<1>1. BudgetInv => CapsHold
  BY DEF BudgetInv
<1> QED
  BY <1>1, BudgetInvariance, PTL

----------------------------------------------------------------------------
(*****************************************************************************)
(* SpendStays sums over the calls in flight: a ledger holds what was billed  *)
(* and, beside it, what each call still has to give back (Owing), which is   *)
(* negative for a call that has to settle upwards.  A sum over the callers   *)
(* is a walk along some numbering of them (SumIs).                           *)
(*****************************************************************************)

\* n is the sum of f over the callers.
SumIs(f, n) ==
  \E k \in Nat : \E e \in [1 .. k -> Callers], p \in [0 .. k -> Int] :
    /\ \A x, y \in 1 .. k : e[x] = e[y] => x = y
    /\ \A c \in Callers : \E x \in 1 .. k : e[x] = c
    /\ p[0] = 0 /\ p[k] = n
    /\ \A x \in 1 .. k : p[x] = p[x - 1] + f[e[x]]

\* What a workspace's ledger holds for call a above what a was billed ...
Owing(a) ==
  IF a.phase \in {"all", "return", "ask"} THEN a.held - a.cost
  ELSE IF a.phase \in {"settle", "share"} THEN -a.back ELSE 0

\* ... and what everyone's does.
OwingAll(a) ==
  IF a.phase = "ask" THEN a.held - a.cost ELSE IF a.phase = "settle" THEN -a.back ELSE 0

Within(a, w, d) == IF a.ws = w /\ a.day = d THEN Owing(a) ELSE 0
WithinAll(a, d) == IF a.day = d THEN OwingAll(a) ELSE 0

Held(w, d) == [c \in Callers |-> Within(ask[c], w, d)]
HeldAll(d) == [c \in Callers |-> WithinAll(ask[c], d)]

Plain(w, d) == <<w, d>> \notin lapsed \cup repriced

\* How a call proceeds: nothing is billed before it asks, and an attempt is left then.
CallInOrder(a) ==
  /\ a.phase \in {"own", "all", "return"} => a.cost = 0
  /\ a.phase \in {"own", "all", "return", "ask"} => a.left >= 1

CallsInOrder == \A c \in Callers : CallInOrder(ask[c])

SharesCover ==
  \A w \in Tenants, d \in Days : Plain(w, d) =>
    \E n \in Int : SumIs(Held(w, d), n) /\ share[w][d] >= billed[w][d] + n

LedgerCovers ==
  \A d \in Days : (\A w \in Tenants : Plain(w, d)) =>
    \E n \in Int : SumIs(HeldAll(d), n) /\ ledger[d] >= bill[d] + n

SpendInv == BudgetInv /\ CallsInOrder /\ SharesCover /\ LedgerCovers

----------------------------------------------------------------------------
(* Sums *)

\* A sum of zeros is zero, and there is one: the callers can be numbered.
LEMMA SumOfZeros == SumIs([c \in Callers |-> 0], 0)
<1> DEFINE f == [c \in Callers |-> 0]
<1>1. PICK k \in Nat : ExistsBijection(1 .. k, Callers)
  BY CallersAssumption, FS_NatBijection
<1>2. PICK e \in Bijection(1 .. k, Callers) : TRUE
  BY <1>1 DEF ExistsBijection
<1> DEFINE p == [x \in 0 .. k |-> 0]
<1>3. /\ e \in [1 .. k -> Callers]
      /\ \A x, y \in 1 .. k : e[x] = e[y] => x = y
      /\ \A c \in Callers : \E x \in 1 .. k : e[x] = c
  BY <1>2 DEF Bijection, Injection, Surjection, IsInjective
<1>4. p \in [0 .. k -> Int] /\ p[0] = 0 /\ p[k] = 0
  BY <1>1
<1>5. \A x \in 1 .. k : p[x] = p[x - 1] + f[e[x]]
  BY <1>1, <1>3
<1> HIDE DEF p, f
<1>6. \E kk \in Nat : \E ee \in [1 .. kk -> Callers], pp \in [0 .. kk -> Int] :
        /\ \A x, y \in 1 .. kk : ee[x] = ee[y] => x = y
        /\ \A b \in Callers : \E x \in 1 .. kk : ee[x] = b
        /\ pp[0] = 0 /\ pp[kk] = 0
        /\ \A x \in 1 .. kk : pp[x] = pp[x - 1] + f[ee[x]]
  BY <1>3, <1>4, <1>5
<1> QED
  BY <1>6 DEF SumIs, f

\* When one summand changes, the sum changes by as much.
LEMMA SumChanges ==
  ASSUME NEW f \in [Callers -> Int], NEW n \in Int, SumIs(f, n),
         NEW c \in Callers, NEW v \in Int
  PROVE  SumIs([f EXCEPT ![c] = v], n + v - f[c])
<1> DEFINE g == [f EXCEPT ![c] = v]
           total == n + v - f[c]
<1>0. PICK k \in Nat : \E e \in [1 .. k -> Callers], p \in [0 .. k -> Int] :
        /\ \A x, y \in 1 .. k : e[x] = e[y] => x = y
        /\ \A b \in Callers : \E x \in 1 .. k : e[x] = b
        /\ p[0] = 0 /\ p[k] = n
        /\ \A x \in 1 .. k : p[x] = p[x - 1] + f[e[x]]
  BY DEF SumIs
<1>1. PICK e \in [1 .. k -> Callers], p \in [0 .. k -> Int] :
        /\ \A x, y \in 1 .. k : e[x] = e[y] => x = y
        /\ \A b \in Callers : \E x \in 1 .. k : e[x] = b
        /\ p[0] = 0 /\ p[k] = n
        /\ \A x \in 1 .. k : p[x] = p[x - 1] + f[e[x]]
  BY <1>0
<1>2. PICK j \in 1 .. k : e[j] = c
  BY <1>1
<1>3. g[c] = v /\ \A b \in Callers : b # c => g[b] = f[b]
  OBVIOUS
<1>4. f[c] \in Int /\ total \in Int
  OBVIOUS
<1> DEFINE q == [x \in 0 .. k |-> IF x < j THEN p[x] ELSE p[x] + v - f[c]]
<1> HIDE DEF g, total
<1>5. q \in [0 .. k -> Int] /\ q[0] = 0
  <2>1. \A x \in 0 .. k : p[x] \in Int /\ p[x] + v - f[c] \in Int
    BY <1>4
  <2>2. 0 \in 0 .. k /\ 0 < j /\ p[0] = 0
    BY <1>1, <1>2
  <2> QED
    BY <2>1, <2>2
<1>6. q[k] = total
  BY <1>1, <1>2, <1>4 DEF total
<1>7. ASSUME NEW x \in 1 .. k PROVE q[x] = q[x - 1] + g[e[x]]
  <2>1. /\ x \in 0 .. k /\ x - 1 \in 0 .. k /\ e[x] \in Callers
        /\ p[x] = p[x - 1] + f[e[x]] /\ p[x] \in Int /\ p[x - 1] \in Int /\ f[e[x]] \in Int
    BY SMTT(20), <1>1, <1>7
  <2>2. x = j <=> e[x] = c
    BY <1>1, <1>2, <1>7
  <2>3. CASE x = j
    BY <1>2, <1>3, <1>4, <2>1, <2>2, <2>3
  <2>4. CASE x # j
    <3>1. g[e[x]] = f[e[x]]
      BY <1>3, <2>1, <2>2, <2>4
    <3>2. (x < j <=> x - 1 < j)
      BY <1>2, <2>4
    <3> QED
      BY <1>4, <2>1, <3>1, <3>2
  <2> QED
    BY <2>3, <2>4
<1> HIDE DEF q
<1>8. \E kk \in Nat : \E ee \in [1 .. kk -> Callers], pp \in [0 .. kk -> Int] :
        /\ \A x, y \in 1 .. kk : ee[x] = ee[y] => x = y
        /\ \A b \in Callers : \E x \in 1 .. kk : ee[x] = b
        /\ pp[0] = 0 /\ pp[kk] = total
        /\ \A x \in 1 .. kk : pp[x] = pp[x - 1] + g[ee[x]]
  BY ZenonT(40), <1>1, <1>5, <1>6, <1>7
<1> QED
  BY <1>8 DEF SumIs, g, total

\* A sum of what is nowhere negative is not negative.
LEMMA SumNotNegative ==
  ASSUME NEW f \in [Callers -> Int], NEW n \in Int, SumIs(f, n), \A c \in Callers : f[c] >= 0
  PROVE  n >= 0
<1>0. PICK k \in Nat : \E e \in [1 .. k -> Callers], p \in [0 .. k -> Int] :
        /\ \A x, y \in 1 .. k : e[x] = e[y] => x = y
        /\ \A b \in Callers : \E x \in 1 .. k : e[x] = b
        /\ p[0] = 0 /\ p[k] = n
        /\ \A x \in 1 .. k : p[x] = p[x - 1] + f[e[x]]
  BY DEF SumIs
<1>1. PICK e \in [1 .. k -> Callers], p \in [0 .. k -> Int] :
        /\ p[0] = 0 /\ p[k] = n
        /\ \A x \in 1 .. k : p[x] = p[x - 1] + f[e[x]]
  BY <1>0
<1> DEFINE T == {x \in 0 .. k : p[x] < 0}
<1>2. SUFFICES ASSUME T # {} PROVE FALSE
  <2>1. k \in 0 .. k /\ p[k] = n
    BY <1>1
  <2>2. n < 0 => k \in T
    BY <2>1
  <2> HIDE DEF T
  <2> QED
    BY <2>2
<1>3. T \in SUBSET Nat
  OBVIOUS
<1>4. PICK x \in T : \A y \in T : x <= y
  BY <1>2, <1>3, LeastNatural
<1>5. x \in 1 .. k /\ x - 1 \in 0 .. k /\ x - 1 \notin T
  BY <1>1, <1>4
<1>6. p[x - 1] >= 0 /\ p[x - 1] \in Int /\ f[e[x]] \in Int /\ f[e[x]] >= 0
  BY <1>1, <1>5
<1>7. p[x] = p[x - 1] + f[e[x]]
  BY <1>1, <1>5
<1> QED
  BY <1>4, <1>6, <1>7

----------------------------------------------------------------------------
(* One call takes a step *)

\* What is owed is an integer.
LEMMA OwingIsInt ==
  ASSUME NEW a \in CallRecords
  PROVE  Owing(a) \in Int /\ OwingAll(a) \in Int
BY DEF Owing, OwingAll, CallRecords

\* Where call c becomes a, and each ledger gains on its bill what a holds more than c
\* did, the ledgers still cover what is held.
LEMMA CallMoves ==
  ASSUME SpendInv, BudgetInv', NEW c \in Callers, NEW a \in CallRecords, CallInOrder(a),
         ask' = [ask EXCEPT ![c] = a],
         \A w \in Tenants, d \in Days : Plain(w, d)' =>
           /\ Plain(w, d)
           /\ share'[w][d] - billed'[w][d] - Within(a, w, d)
                >= share[w][d] - billed[w][d] - Within(ask[c], w, d),
         \A d \in Days : (\A w \in Tenants : Plain(w, d)') =>
           ledger'[d] - bill'[d] - WithinAll(a, d)
             >= ledger[d] - bill[d] - WithinAll(ask[c], d)
  PROVE  SpendInv'
<1>1. /\ BudgetShape /\ BudgetShape' /\ ask \in [Callers -> CallRecords] /\ CallsInOrder
      /\ SharesCover /\ LedgerCovers
  BY DEF SpendInv, BudgetInv, BudgetShape
<1>2. \A b \in Callers : ask'[b] = IF b = c THEN a ELSE ask[b]
  BY <1>1
<1>3. CallsInOrder'
  BY <1>1, <1>2 DEF CallsInOrder
<1>4. ASSUME NEW w \in Tenants, NEW d \in Days, Plain(w, d)'
      PROVE  \E n \in Int : SumIs(Held(w, d)', n) /\ share'[w][d] >= billed'[w][d] + n
  <2> DEFINE f == Held(w, d)
             v == Within(a, w, d)
  <2>1. v \in Int /\ \A b \in Callers : Within(ask[b], w, d) \in Int
    BY <1>1, OwingIsInt DEF Within
  <2>2. f \in [Callers -> Int] /\ f[c] = Within(ask[c], w, d)
    BY <2>1 DEF Held
  <2>3. Held(w, d)' = [f EXCEPT ![c] = v]
    <3>1. Held(w, d)' = [b \in Callers |-> Within(ask'[b], w, d)]
      BY DEF Held, Within, Owing
    <3>2. \A b \in Callers : Within(ask'[b], w, d) = IF b = c THEN v ELSE Within(ask[b], w, d)
      BY <1>2
    <3> QED
      BY <3>1, <3>2 DEF Held
  <2>4. PICK n \in Int : SumIs(f, n) /\ share[w][d] >= billed[w][d] + n
    BY <1>1, <1>4 DEF SharesCover
  <2> HIDE DEF f, v
  <2>5. SumIs([f EXCEPT ![c] = v], n + v - f[c])
    BY <2>1, <2>2, <2>4, SumChanges
  <2>6. /\ share[w][d] \in Int /\ billed[w][d] \in Int
        /\ share'[w][d] \in Int /\ billed'[w][d] \in Int
    BY <1>1 DEF BudgetShape
  <2>7. share'[w][d] - billed'[w][d] - v >= share[w][d] - billed[w][d] - f[c]
    BY <1>4, <2>2 DEF v
  <2>8. share'[w][d] >= billed'[w][d] + (n + v - f[c]) /\ n + v - f[c] \in Int
    BY <2>1, <2>2, <2>4, <2>6, <2>7
  <2> QED
    BY <2>3, <2>5, <2>8
<1>5. ASSUME NEW d \in Days, \A w \in Tenants : Plain(w, d)'
      PROVE  \E n \in Int : SumIs(HeldAll(d)', n) /\ ledger'[d] >= bill'[d] + n
  <2> DEFINE f == HeldAll(d)
             v == WithinAll(a, d)
  <2>1. v \in Int /\ \A b \in Callers : WithinAll(ask[b], d) \in Int
    BY <1>1, OwingIsInt DEF WithinAll
  <2>2. f \in [Callers -> Int] /\ f[c] = WithinAll(ask[c], d)
    BY <2>1 DEF HeldAll
  <2>3. HeldAll(d)' = [f EXCEPT ![c] = v]
    <3>1. HeldAll(d)' = [b \in Callers |-> WithinAll(ask'[b], d)]
      BY DEF HeldAll, WithinAll, OwingAll
    <3>2. \A b \in Callers : WithinAll(ask'[b], d) = IF b = c THEN v ELSE WithinAll(ask[b], d)
      BY <1>2
    <3> QED
      BY <3>1, <3>2 DEF HeldAll
  <2>4. PICK n \in Int : SumIs(f, n) /\ ledger[d] >= bill[d] + n
    BY <1>1, <1>5 DEF LedgerCovers
  <2> HIDE DEF f, v
  <2>5. SumIs([f EXCEPT ![c] = v], n + v - f[c])
    BY <2>1, <2>2, <2>4, SumChanges
  <2>6. ledger[d] \in Int /\ bill[d] \in Int /\ ledger'[d] \in Int /\ bill'[d] \in Int
    BY <1>1 DEF BudgetShape
  <2>7. ledger'[d] - bill'[d] - v >= ledger[d] - bill[d] - f[c]
    BY <1>5, <2>2 DEF v
  <2>8. ledger'[d] >= bill'[d] + (n + v - f[c]) /\ n + v - f[c] \in Int
    BY <2>1, <2>2, <2>4, <2>6, <2>7
  <2> QED
    BY <2>3, <2>5, <2>8
<1> QED
  BY <1>3, <1>4, <1>5 DEF SpendInv, SharesCover, LedgerCovers

\* The same of a call of workspace v on day e, which writes their ledgers alone and
\* stays theirs, or owes nothing any more.
LEMMA CallMovesAtHome ==
  ASSUME SpendInv, BudgetInv', NEW c \in Callers, NEW a \in CallRecords, CallInOrder(a),
         ask' = [ask EXCEPT ![c] = a],
         NEW v \in Tenants, NEW e \in Days, ask[c].ws = v, ask[c].day = e,
         (a.ws = v /\ a.day = e) \/ (Owing(a) = 0 /\ OwingAll(a) = 0),
         lapsed \subseteq lapsed', repriced \subseteq repriced',
         \A w \in Tenants, d \in Days : ~(w = v /\ d = e) =>
           share'[w][d] = share[w][d] /\ billed'[w][d] = billed[w][d],
         \A d \in Days : d # e => ledger'[d] = ledger[d] /\ bill'[d] = bill[d],
         Plain(v, e)' =>
           /\ share'[v][e] - billed'[v][e] - Owing(a) >= share[v][e] - billed[v][e] - Owing(ask[c])
           /\ ledger'[e] - bill'[e] - OwingAll(a) >= ledger[e] - bill[e] - OwingAll(ask[c])
  PROVE  SpendInv'
<1>1. BudgetShape /\ BudgetShape' /\ ask[c] \in CallRecords
  BY DEF SpendInv, BudgetInv, BudgetShape
<1>2. \A w \in Tenants, d \in Days : Plain(w, d)' => Plain(w, d)
  BY DEF Plain
<1>3. Owing(a) \in Int /\ OwingAll(a) \in Int /\ Owing(ask[c]) \in Int /\ OwingAll(ask[c]) \in Int
  BY <1>1, OwingIsInt
<1>4. ASSUME NEW w \in Tenants, NEW d \in Days, Plain(w, d)'
      PROVE  share'[w][d] - billed'[w][d] - Within(a, w, d)
               >= share[w][d] - billed[w][d] - Within(ask[c], w, d)
  <2>1. CASE w = v /\ d = e
    <3>1. Within(a, w, d) = Owing(a) /\ Within(ask[c], w, d) = Owing(ask[c])
      BY <2>1 DEF Within
    <3> QED
      BY <1>4, <2>1, <3>1
  <2>2. CASE ~(w = v /\ d = e)
    <3>1. Within(a, w, d) = 0 /\ Within(ask[c], w, d) = 0
      BY <2>2 DEF Within
    <3>2. /\ share[w][d] \in Int /\ billed[w][d] \in Int
          /\ share'[w][d] = share[w][d] /\ billed'[w][d] = billed[w][d]
      BY <1>1, <2>2 DEF BudgetShape
    <3> QED
      BY <3>1, <3>2
  <2> QED
    BY <2>1, <2>2
<1>5. ASSUME NEW d \in Days, \A w \in Tenants : Plain(w, d)'
      PROVE  ledger'[d] - bill'[d] - WithinAll(a, d) >= ledger[d] - bill[d] - WithinAll(ask[c], d)
  <2>1. CASE d = e
    <3>1. WithinAll(a, d) = OwingAll(a) /\ WithinAll(ask[c], d) = OwingAll(ask[c])
      BY <2>1 DEF WithinAll
    <3>2. Plain(v, e)'
      BY <1>5, <2>1
    <3> QED
      BY <2>1, <3>1, <3>2
  <2>2. CASE d # e
    <3>1. WithinAll(a, d) = 0 /\ WithinAll(ask[c], d) = 0
      BY <2>2 DEF WithinAll
    <3>2. /\ ledger[d] \in Int /\ bill[d] \in Int
          /\ ledger'[d] = ledger[d] /\ bill'[d] = bill[d]
      BY <1>1, <2>2 DEF BudgetShape
    <3> QED
      BY <3>1, <3>2
  <2> QED
    BY <2>1, <2>2
<1> QED
  BY <1>2, <1>4, <1>5, CallMoves

\* A call that has hung up owes nothing.
LEMMA IdleOwesNothing ==
  ASSUME NEW a \in CallRecords, a.phase = "idle"
  PROVE  Owing(a) = 0 /\ OwingAll(a) = 0 /\ CallInOrder(a)
BY DEF Owing, OwingAll, CallInOrder

----------------------------------------------------------------------------
(* The actions *)

\* What is known of a call under way.
LEMMA UnderWay ==
  ASSUME SpendInv, NEW c \in Callers, ask[c].phase # "idle"
  PROVE  /\ BudgetShape /\ ask[c] \in CallRecords /\ CallInOrder(ask[c])
         /\ ask[c].ws \in Tenants /\ ask[c].day \in Days
         /\ ask[c].held \in Nat /\ ask[c].cost \in Nat /\ ask[c].back \in Int
         /\ share[ask[c].ws][ask[c].day] \in Nat /\ billed[ask[c].ws][ask[c].day] \in Nat
         /\ ledger[ask[c].day] \in Nat /\ bill[ask[c].day] \in Nat
BY CallFacts DEF SpendInv, BudgetInv, BudgetShape, CallsInOrder

\* A call begins with nothing on the ledgers.
LEMMA BeginCallCovers ==
  ASSUME SpendInv, BudgetInv', NEW c \in Callers, NEW w \in Tenants, NEW n \in 1 .. 2,
         BeginCall(c, w, n)
  PROVE  SpendInv'
<1> DEFINE a == [phase |-> "own", ws |-> w, day |-> today, left |-> n, held |-> n,
                 cost |-> 0, back |-> 0]
<1>1. ask' = [ask EXCEPT ![c] = a] /\ ask[c] \in CallRecords /\ ask[c].phase = "idle"
  BY DEF BeginCall, SpendInv, BudgetInv, BudgetShape
<1>2. a \in CallRecords
  BY DEF SpendInv, BudgetInv, BudgetShape, CallRecords, BudgetPhases
<1>3. CallInOrder(a) /\ Owing(a) = 0 /\ OwingAll(a) = 0
  BY DEF CallInOrder, Owing, OwingAll
<1> HIDE DEF a
<1>4. Owing(ask[c]) = 0 /\ OwingAll(ask[c]) = 0
  BY <1>1, IdleOwesNothing
<1>5. \A x \in Tenants, d \in Days : Within(a, x, d) = 0 /\ Within(ask[c], x, d) = 0
  BY <1>3, <1>4 DEF Within
<1>6. \A d \in Days : WithinAll(a, d) = 0 /\ WithinAll(ask[c], d) = 0
  BY <1>3, <1>4 DEF WithinAll
<1>7. UNCHANGED <<share, ledger, billed, bill, lapsed, repriced>>
  BY DEF BeginCall
<1>8. \A x \in Tenants, d \in Days : share[x][d] \in Int /\ billed[x][d] \in Int
  BY DEF SpendInv, BudgetInv, BudgetShape
<1>9. \A d \in Days : ledger[d] \in Int /\ bill[d] \in Int
  BY DEF SpendInv, BudgetInv, BudgetShape
<1>10. \A x \in Tenants, d \in Days : Plain(x, d)' => Plain(x, d)
  BY <1>7 DEF Plain
<1>11. \A x \in Tenants, d \in Days :
         share'[x][d] - billed'[x][d] - Within(a, x, d)
           >= share[x][d] - billed[x][d] - Within(ask[c], x, d)
  BY <1>5, <1>7, <1>8
<1>12. \A d \in Days :
         ledger'[d] - bill'[d] - WithinAll(a, d) >= ledger[d] - bill[d] - WithinAll(ask[c], d)
  BY <1>6, <1>7, <1>9
<1> QED
  BY <1>1, <1>2, <1>3, <1>10, <1>11, <1>12, CallMoves

InPhase(x, p) == [x EXCEPT !.phase = p]

\* A phase that changes alone.
LEMMA PhaseFacts ==
  ASSUME NEW x \in CallRecords, NEW p \in BudgetPhases
  PROVE  /\ InPhase(x, p) \in CallRecords /\ InPhase(x, p).phase = p
         /\ InPhase(x, p).ws = x.ws /\ InPhase(x, p).day = x.day
         /\ InPhase(x, p).left = x.left /\ InPhase(x, p).held = x.held
         /\ InPhase(x, p).cost = x.cost /\ InPhase(x, p).back = x.back
BY DEF InPhase, CallRecords

\* A call that hangs up, and writes nothing: what it held stays, if it held anything.
LEMMA HangCovers ==
  ASSUME SpendInv, BudgetInv', NEW c \in Callers, ask[c].phase # "idle", Hang(c),
         UNCHANGED <<share, ledger, billed, bill, repriced>>,
         lapsed \subseteq lapsed',
         Billing(c) \notin lapsed' => Owing(ask[c]) >= 0 /\ OwingAll(ask[c]) >= 0
  PROVE  SpendInv'
<1> SUFFICES ASSUME NEW v \in Tenants, NEW e \in Days, v = ask[c].ws, e = ask[c].day
             PROVE  SpendInv'
  BY UnderWay
<1>1. NoCall \in CallRecords /\ CallInOrder(NoCall) /\ Owing(NoCall) = 0 /\ OwingAll(NoCall) = 0
  BY HungUp, IdleOwesNothing
<1>2. ask' = [ask EXCEPT ![c] = NoCall]
  BY DEF Hang
<1>3. v \in Tenants /\ e \in Days /\ Owing(ask[c]) \in Int /\ OwingAll(ask[c]) \in Int
  BY UnderWay, OwingIsInt
<1>4. /\ share[v][e] \in Int /\ billed[v][e] \in Int /\ ledger[e] \in Int /\ bill[e] \in Int
  BY UnderWay
<1>5. Plain(v, e)' => Owing(ask[c]) >= 0 /\ OwingAll(ask[c]) >= 0
  BY DEF Plain, Billing
<1>6. Plain(v, e)' =>
        /\ share'[v][e] - billed'[v][e] - Owing(NoCall) >= share[v][e] - billed[v][e] - Owing(ask[c])
        /\ ledger'[e] - bill'[e] - OwingAll(NoCall) >= ledger[e] - bill[e] - OwingAll(ask[c])
  BY <1>1, <1>3, <1>4, <1>5
<1> QED
  BY <1>1, <1>2, <1>3, <1>6, CallMovesAtHome

\* The workspace's reservation covers what the call holds.
LEMMA ReserveShareCovers ==
  ASSUME SpendInv, BudgetInv', NEW c \in Callers, ReserveShare(c)
  PROVE  SpendInv'
<1> SUFFICES ASSUME NEW v \in Tenants, NEW e \in Days, v = ask[c].ws, e = ask[c].day
             PROVE  SpendInv'
  BY UnderWay DEF ReserveShare
<1>0. ask[c].phase = "own"
  BY DEF ReserveShare
<1>1. /\ BudgetShape /\ CallInOrder(ask[c]) /\ v \in Tenants /\ e \in Days
      /\ ask[c].held \in Nat /\ share[v][e] \in Int /\ billed[v][e] \in Int
      /\ ledger[e] \in Int /\ bill[e] \in Int /\ ask[c] \in CallRecords
  BY <1>0, UnderWay
<1>2. Owing(ask[c]) = 0 /\ OwingAll(ask[c]) = 0 /\ ask[c].cost = 0
  BY <1>0, <1>1 DEF Owing, OwingAll, CallInOrder
<1>3. UNCHANGED <<ledger, billed, bill, lapsed, repriced>>
  BY DEF ReserveShare
<1>4. CASE Hang(c) /\ UNCHANGED share
  BY <1>0, <1>2, <1>3, <1>4, HangCovers
<1>5. CASE /\ share' = [share EXCEPT ![v][e] = @ + ask[c].held]
           /\ ask' = [ask EXCEPT ![c].phase = "all"]
  <2> DEFINE a == InPhase(ask[c], "all")
  <2>1. /\ ask' = [ask EXCEPT ![c] = a] /\ a \in CallRecords
        /\ a.phase = "all" /\ a.ws = v /\ a.day = e /\ a.left = ask[c].left
        /\ a.held = ask[c].held /\ a.cost = ask[c].cost
    <3>1. ask' = [ask EXCEPT ![c] = a]
      BY <1>1, <1>5 DEF InPhase, BudgetShape
    <3>2. "all" \in BudgetPhases
      BY DEF BudgetPhases
    <3> QED
      BY <1>1, <3>1, <3>2, PhaseFacts
  <2> HIDE DEF a
  <2>2. CallInOrder(a) /\ Owing(a) = ask[c].held /\ OwingAll(a) = 0
    BY <1>0, <1>1, <1>2, <2>1 DEF CallInOrder, Owing, OwingAll
  <2>3. share'[v][e] = share[v][e] + ask[c].held
    BY <1>1, <1>5 DEF BudgetShape
  <2>4. \A w \in Tenants, d \in Days : ~(w = v /\ d = e) => share'[w][d] = share[w][d]
    BY <1>1, <1>5 DEF BudgetShape
  <2>5. /\ share'[v][e] - billed'[v][e] - Owing(a) >= share[v][e] - billed[v][e] - Owing(ask[c])
        /\ ledger'[e] - bill'[e] - OwingAll(a) >= ledger[e] - bill[e] - OwingAll(ask[c])
    BY <1>1, <1>2, <1>3, <2>2, <2>3
  <2> QED
    BY <1>1, <1>3, <2>1, <2>2, <2>4, <2>5, CallMovesAtHome
<1> QED
  BY <1>4, <1>5 DEF ReserveShare

\* Everyone's reservation covers what the call holds.
LEMMA ReserveAllCovers ==
  ASSUME SpendInv, BudgetInv', NEW c \in Callers, ReserveAll(c)
  PROVE  SpendInv'
<1> SUFFICES ASSUME NEW v \in Tenants, NEW e \in Days, v = ask[c].ws, e = ask[c].day
             PROVE  SpendInv'
  BY UnderWay DEF ReserveAll
<1>0. ask[c].phase = "all"
  BY DEF ReserveAll
<1>1. /\ BudgetShape /\ CallInOrder(ask[c]) /\ v \in Tenants /\ e \in Days
      /\ ask[c].held \in Nat /\ share[v][e] \in Int /\ billed[v][e] \in Int
      /\ ledger[e] \in Int /\ bill[e] \in Int /\ ask[c] \in CallRecords
  BY <1>0, UnderWay
<1>2. Owing(ask[c]) = ask[c].held /\ OwingAll(ask[c]) = 0 /\ ask[c].cost = 0
  BY <1>0, <1>1 DEF Owing, OwingAll, CallInOrder
<1>3. UNCHANGED <<share, billed, bill, lapsed, repriced>>
  BY DEF ReserveAll
<1>4. CASE ask' = [ask EXCEPT ![c].phase = "return"] /\ UNCHANGED ledger
  <2> DEFINE a == InPhase(ask[c], "return")
  <2>1. /\ ask' = [ask EXCEPT ![c] = a] /\ a \in CallRecords
        /\ a.phase = "return" /\ a.ws = v /\ a.day = e /\ a.left = ask[c].left
        /\ a.held = ask[c].held /\ a.cost = ask[c].cost
    <3>1. ask' = [ask EXCEPT ![c] = a]
      BY <1>1, <1>4 DEF InPhase, BudgetShape
    <3>2. "return" \in BudgetPhases
      BY DEF BudgetPhases
    <3> QED
      BY <1>1, <3>1, <3>2, PhaseFacts
  <2> HIDE DEF a
  <2>2. CallInOrder(a) /\ Owing(a) = ask[c].held /\ OwingAll(a) = 0
    BY <1>0, <1>1, <1>2, <2>1 DEF CallInOrder, Owing, OwingAll
  <2>3. /\ share'[v][e] - billed'[v][e] - Owing(a) >= share[v][e] - billed[v][e] - Owing(ask[c])
        /\ ledger'[e] - bill'[e] - OwingAll(a) >= ledger[e] - bill[e] - OwingAll(ask[c])
    BY <1>1, <1>2, <1>3, <1>4, <2>2
  <2> QED
    BY <1>1, <1>3, <1>4, <2>1, <2>2, <2>3, CallMovesAtHome
<1>5. CASE /\ ledger' = [ledger EXCEPT ![e] = @ + ask[c].held]
           /\ ask' = [ask EXCEPT ![c].phase = "ask"]
  <2> DEFINE a == InPhase(ask[c], "ask")
  <2>1. /\ ask' = [ask EXCEPT ![c] = a] /\ a \in CallRecords
        /\ a.phase = "ask" /\ a.ws = v /\ a.day = e /\ a.left = ask[c].left
        /\ a.held = ask[c].held /\ a.cost = ask[c].cost
    <3>1. ask' = [ask EXCEPT ![c] = a]
      BY <1>1, <1>5 DEF InPhase, BudgetShape
    <3>2. "ask" \in BudgetPhases
      BY DEF BudgetPhases
    <3> QED
      BY <1>1, <3>1, <3>2, PhaseFacts
  <2> HIDE DEF a
  <2>2. CallInOrder(a) /\ Owing(a) = ask[c].held /\ OwingAll(a) = ask[c].held
    BY <1>0, <1>1, <1>2, <2>1 DEF CallInOrder, Owing, OwingAll
  <2>3. ledger'[e] = ledger[e] + ask[c].held /\ \A d \in Days : d # e => ledger'[d] = ledger[d]
    BY <1>1, <1>5 DEF BudgetShape
  <2>4. /\ share'[v][e] - billed'[v][e] - Owing(a) >= share[v][e] - billed[v][e] - Owing(ask[c])
        /\ ledger'[e] - bill'[e] - OwingAll(a) >= ledger[e] - bill[e] - OwingAll(ask[c])
    BY <1>1, <1>2, <1>3, <2>2, <2>3
  <2> QED
    BY <1>1, <1>3, <2>1, <2>2, <2>3, <2>4, CallMovesAtHome
<1> QED
  BY <1>4, <1>5 DEF ReserveAll

\* What is written is not less than what was to be written.
LEMMA FloorFacts ==
  ASSUME NEW n \in Int
  PROVE  Floor(n) \in Nat /\ Floor(n) >= n
BY DEF Floor

\* What the call held is given back, and it holds nothing more.
LEMMA ReturnShareCovers ==
  ASSUME SpendInv, BudgetInv', NEW c \in Callers, ReturnShare(c)
  PROVE  SpendInv'
<1> SUFFICES ASSUME NEW v \in Tenants, NEW e \in Days, v = ask[c].ws, e = ask[c].day
             PROVE  SpendInv'
  BY UnderWay DEF ReturnShare
<1>0. ask[c].phase = "return"
  BY DEF ReturnShare
<1>1. /\ BudgetShape /\ CallInOrder(ask[c]) /\ v \in Tenants /\ e \in Days
      /\ ask[c].held \in Nat /\ share[v][e] \in Int /\ billed[v][e] \in Int
      /\ ledger[e] \in Int /\ bill[e] \in Int /\ ask[c] \in CallRecords
  BY <1>0, UnderWay
<1>2. Owing(ask[c]) = ask[c].held /\ OwingAll(ask[c]) = 0
  BY <1>0, <1>1 DEF Owing, OwingAll, CallInOrder
<1>3. UNCHANGED <<ledger, billed, bill, lapsed, repriced>> /\ ask' = [ask EXCEPT ![c] = NoCall]
  BY DEF ReturnShare, Hang
<1>4. NoCall \in CallRecords /\ CallInOrder(NoCall) /\ Owing(NoCall) = 0 /\ OwingAll(NoCall) = 0
  BY HungUp, IdleOwesNothing
<1>5. share'[v][e] = Floor(share[v][e] - ask[c].held)
  BY <1>1 DEF BudgetShape, ReturnShare
<1>6. \A w \in Tenants, d \in Days : ~(w = v /\ d = e) => share'[w][d] = share[w][d]
  BY <1>1 DEF BudgetShape, ReturnShare
<1>7. share'[v][e] \in Int /\ share'[v][e] >= share[v][e] - ask[c].held
  BY <1>1, <1>5, FloorFacts
<1>8. /\ share'[v][e] - billed'[v][e] - Owing(NoCall) >= share[v][e] - billed[v][e] - Owing(ask[c])
      /\ ledger'[e] - bill'[e] - OwingAll(NoCall) >= ledger[e] - bill[e] - OwingAll(ask[c])
  BY <1>1, <1>2, <1>3, <1>4, <1>7
<1>9. /\ \A w \in Tenants, d \in Days : ~(w = v /\ d = e) =>
           share'[w][d] = share[w][d] /\ billed'[w][d] = billed[w][d]
      /\ \A d \in Days : d # e => ledger'[d] = ledger[d] /\ bill'[d] = bill[d]
      /\ lapsed \subseteq lapsed' /\ repriced \subseteq repriced'
  BY <1>3, <1>6
<1>10. (NoCall.ws = v /\ NoCall.day = e) \/ (Owing(NoCall) = 0 /\ OwingAll(NoCall) = 0)
  BY <1>4
<1> QED
  BY ZenonT(40), <1>3, <1>4, <1>8, <1>9, <1>10, CallMovesAtHome

\* What an answer costs is billed, and held that much less.
LEMMA AnswerCovers ==
  ASSUME SpendInv, BudgetInv', NEW c \in Callers, Answer(c)
  PROVE  SpendInv'
<1> SUFFICES ASSUME NEW v \in Tenants, NEW e \in Days, v = ask[c].ws, e = ask[c].day
             PROVE  SpendInv'
  BY UnderWay DEF Answer
<1>0. ask[c].phase = "ask"
  BY DEF Answer
<1>1. /\ BudgetShape /\ CallInOrder(ask[c]) /\ v \in Tenants /\ e \in Days
      /\ ask[c].held \in Nat /\ ask[c].cost \in Nat /\ ask[c].left \in Nat
      /\ share[v][e] \in Int /\ billed[v][e] \in Int
      /\ ledger[e] \in Int /\ bill[e] \in Int /\ ask[c] \in CallRecords
  BY <1>0, UnderWay, CallFacts
<1>2. Owing(ask[c]) = ask[c].held - ask[c].cost /\ OwingAll(ask[c]) = ask[c].held - ask[c].cost
  BY <1>0 DEF Owing, OwingAll
<1>3. PICK cost \in Costs, fits \in BOOLEAN :
        /\ billed' = [billed EXCEPT ![v][e] = @ + cost]
        /\ bill' = [bill EXCEPT ![e] = @ + cost]
        /\ ask' = [ask EXCEPT ![c] =
             IF fits THEN Reported(@, cost)
             ELSE IF ask[c].left > 1 THEN Repaired(@, cost)
             ELSE NoCall]
        /\ lapsed' = IF ~fits /\ ask[c].left = 1 /\ ask[c].cost + cost > ask[c].held
                     THEN lapsed \cup {Billing(c)} ELSE lapsed
        /\ UNCHANGED <<share, ledger, repriced>>
  BY DEF Answer
<1>4. cost \in Nat
  BY BudgetAssumption
<1> DEFINE a == IF fits THEN Reported(ask[c], cost)
                ELSE IF ask[c].left > 1 THEN Repaired(ask[c], cost)
                ELSE NoCall
           rest == ask[c].held - ask[c].cost - cost
<1>5. ask' = [ask EXCEPT ![c] = a]
  BY <1>1, <1>3 DEF BudgetShape
<1>6. /\ billed'[v][e] = billed[v][e] + cost /\ bill'[e] = bill[e] + cost
      /\ \A w \in Tenants, d \in Days : ~(w = v /\ d = e) => billed'[w][d] = billed[w][d]
      /\ \A d \in Days : d # e => bill'[d] = bill[d]
  BY <1>1, <1>3 DEF BudgetShape
<1>7. /\ a \in CallRecords /\ CallInOrder(a) /\ Owing(a) \in Int /\ OwingAll(a) \in Int
      /\ (a.ws = v /\ a.day = e) \/ (Owing(a) = 0 /\ OwingAll(a) = 0)
      /\ Plain(v, e)' => Owing(a) <= rest /\ OwingAll(a) <= rest
  <2>1. CASE fits
    <3>1. a = Reported(ask[c], cost)
      BY <2>1
    <3>2. a \in CallRecords
      BY <1>1, <1>4, <3>1, AnswerFacts
    <3>3. /\ a.phase = "settle" /\ a.ws = v /\ a.day = e
          /\ a.back = ask[c].cost + cost - ask[c].held
      BY <1>1, <3>1 DEF Reported, CallRecords
    <3> HIDE DEF a
    <3>4. Owing(a) = rest /\ OwingAll(a) = rest /\ CallInOrder(a)
      BY <1>1, <1>4, <3>3 DEF Owing, OwingAll, CallInOrder
    <3> QED
      BY <1>1, <1>4, <3>2, <3>3, <3>4
  <2>2. CASE ~fits /\ ask[c].left > 1
    <3>1. a = Repaired(ask[c], cost)
      BY <2>2
    <3>2. a \in CallRecords
      BY <1>1, <1>4, <2>2, <3>1, AnswerFacts
    <3>3. /\ a.phase = "ask" /\ a.ws = v /\ a.day = e /\ a.left = ask[c].left - 1
          /\ a.held = ask[c].held /\ a.cost = ask[c].cost + cost
      BY <1>0, <1>1, <3>1 DEF Repaired, CallRecords
    <3> HIDE DEF a
    <3>4. Owing(a) = rest /\ OwingAll(a) = rest /\ CallInOrder(a)
      BY <1>1, <1>4, <2>2, <3>3 DEF Owing, OwingAll, CallInOrder
    <3> QED
      BY <1>1, <1>4, <3>2, <3>3, <3>4
  <2>3. CASE ~fits /\ ~(ask[c].left > 1)
    <3>1. a = NoCall /\ ask[c].left = 1
      BY <1>0, <1>1, <2>3 DEF CallInOrder
    <3> HIDE DEF a
    <3>2. a \in CallRecords /\ CallInOrder(a) /\ Owing(a) = 0 /\ OwingAll(a) = 0
      BY <3>1, HungUp, IdleOwesNothing
    <3>3. Plain(v, e)' => ~(ask[c].cost + cost > ask[c].held)
      BY <1>3, <2>3, <3>1 DEF Plain, Billing
    <3> QED
      BY <1>1, <1>4, <3>2, <3>3
  <2> QED
    BY <2>1, <2>2, <2>3
<1> HIDE DEF a
<1>8. Plain(v, e)' =>
        /\ share'[v][e] - billed'[v][e] - Owing(a) >= share[v][e] - billed[v][e] - Owing(ask[c])
        /\ ledger'[e] - bill'[e] - OwingAll(a) >= ledger[e] - bill[e] - OwingAll(ask[c])
  <2>1. SUFFICES ASSUME Plain(v, e)'
                 PROVE  /\ share[v][e] - (billed[v][e] + cost) - Owing(a)
                             >= share[v][e] - billed[v][e] - (ask[c].held - ask[c].cost)
                        /\ ledger[e] - (bill[e] + cost) - OwingAll(a)
                             >= ledger[e] - bill[e] - (ask[c].held - ask[c].cost)
    BY <1>2, <1>3, <1>6
  <2>2. Owing(a) <= rest /\ OwingAll(a) <= rest
    BY <1>7, <2>1
  <2> QED
    BY <1>1, <1>4, <1>7, <2>2
<1>9. /\ \A w \in Tenants, d \in Days : ~(w = v /\ d = e) =>
           share'[w][d] = share[w][d] /\ billed'[w][d] = billed[w][d]
      /\ \A d \in Days : d # e => ledger'[d] = ledger[d] /\ bill'[d] = bill[d]
      /\ lapsed \subseteq lapsed' /\ repriced \subseteq repriced'
  BY <1>3, <1>6
<1>10. a \in CallRecords /\ CallInOrder(a) /\ ((a.ws = v /\ a.day = e) \/ (Owing(a) = 0 /\ OwingAll(a) = 0))
  BY <1>7
<1> QED
  BY ZenonT(40), <1>5, <1>8, <1>9, <1>10, CallMovesAtHome

\* A refusal gives back what was reserved: all of it, if nothing was billed.
LEMMA RefusedCovers ==
  ASSUME SpendInv, BudgetInv', NEW c \in Callers, Refused(c)
  PROVE  SpendInv'
<1> SUFFICES ASSUME NEW v \in Tenants, NEW e \in Days, v = ask[c].ws, e = ask[c].day
             PROVE  SpendInv'
  BY UnderWay DEF Refused
<1> DEFINE a == GivenBack(ask[c])
<1>0. ask[c].phase = "ask"
  BY DEF Refused
<1>1. /\ BudgetShape /\ CallInOrder(ask[c]) /\ v \in Tenants /\ e \in Days
      /\ ask[c].held \in Nat /\ ask[c].cost \in Nat
      /\ share[v][e] \in Int /\ billed[v][e] \in Int
      /\ ledger[e] \in Int /\ bill[e] \in Int /\ ask[c] \in CallRecords
  BY <1>0, UnderWay
<1>2. Owing(ask[c]) = ask[c].held - ask[c].cost /\ OwingAll(ask[c]) = ask[c].held - ask[c].cost
  BY <1>0 DEF Owing, OwingAll
<1>3. ask' = [ask EXCEPT ![c] = a]
  BY <1>1 DEF BudgetShape, Refused
<1>4. a \in CallRecords /\ a.phase = "settle" /\ a.ws = v /\ a.day = e /\ a.back = -ask[c].held
  <2>1. a \in CallRecords
    BY <1>1, AnswerFacts, 0 \in Nat
  <2>2. a.phase = "settle" /\ a.ws = v /\ a.day = e /\ a.back = -ask[c].held
    BY <1>1 DEF GivenBack, CallRecords
  <2> QED
    BY <2>1, <2>2
<1> HIDE DEF a
<1>5. CallInOrder(a) /\ Owing(a) = ask[c].held /\ OwingAll(a) = ask[c].held
  BY <1>1, <1>4 DEF CallInOrder, Owing, OwingAll
<1>6. /\ UNCHANGED <<share, ledger, billed, bill, lapsed>>
      /\ repriced' = IF ask[c].cost > 0 THEN repriced \cup {Billing(c)} ELSE repriced
  BY DEF Refused
<1>7. Plain(v, e)' => ask[c].cost = 0
  BY <1>1, <1>6 DEF Plain, Billing
<1>8. Plain(v, e)' =>
        /\ share'[v][e] - billed'[v][e] - Owing(a) >= share[v][e] - billed[v][e] - Owing(ask[c])
        /\ ledger'[e] - bill'[e] - OwingAll(a) >= ledger[e] - bill[e] - OwingAll(ask[c])
  BY <1>1, <1>2, <1>5, <1>6, <1>7
<1>9. lapsed \subseteq lapsed' /\ repriced \subseteq repriced'
  BY <1>6
<1> QED
  BY <1>1, <1>3, <1>4, <1>5, <1>6, <1>8, <1>9, CallMovesAtHome

\* A lost call's reservation stands, unless it was used up.
LEMMA CallLostCovers ==
  ASSUME SpendInv, BudgetInv', NEW c \in Callers, CallLost(c)
  PROVE  SpendInv'
<1>0. ask[c].phase \in {"own", "all", "return", "ask"}
  BY DEF CallLost
<1>1. CallInOrder(ask[c]) /\ ask[c].held \in Nat /\ ask[c].cost \in Nat
  BY <1>0, UnderWay
<1>2. /\ Hang(c) /\ UNCHANGED <<share, ledger, billed, bill, repriced>>
      /\ lapsed' = IF ask[c].cost > ask[c].held THEN lapsed \cup {Billing(c)} ELSE lapsed
  BY DEF CallLost
<1>3. Billing(c) \notin lapsed' => Owing(ask[c]) >= 0 /\ OwingAll(ask[c]) >= 0
  BY <1>0, <1>1, <1>2 DEF Owing, OwingAll, CallInOrder
<1> QED
  BY <1>0, <1>2, <1>3, HangCovers

\* A lost settlement downwards leaves more than was billed.
LEMMA SettleLostCovers ==
  ASSUME SpendInv, BudgetInv', NEW c \in Callers, SettleLost(c)
  PROVE  SpendInv'
<1>0. ask[c].phase \in {"settle", "share"}
  BY DEF SettleLost
<1>1. ask[c].back \in Int
  BY <1>0, UnderWay
<1>2. /\ Hang(c) /\ UNCHANGED <<share, ledger, billed, bill, repriced>>
      /\ lapsed' = IF ask[c].back > 0 THEN lapsed \cup {Billing(c)} ELSE lapsed
  BY DEF SettleLost
<1>3. Billing(c) \notin lapsed' => Owing(ask[c]) >= 0 /\ OwingAll(ask[c]) >= 0
  BY <1>0, <1>1, <1>2 DEF Owing, OwingAll
<1> QED
  BY <1>0, <1>2, <1>3, HangCovers

\* Everyone's ledger is settled ...
LEMMA SettleCovers ==
  ASSUME SpendInv, BudgetInv', NEW c \in Callers, Settle(c)
  PROVE  SpendInv'
<1> SUFFICES ASSUME NEW v \in Tenants, NEW e \in Days, v = ask[c].ws, e = ask[c].day
             PROVE  SpendInv'
  BY UnderWay DEF Settle
<1>0. ask[c].phase = "settle"
  BY DEF Settle
<1>1. /\ BudgetShape /\ v \in Tenants /\ e \in Days /\ ask[c].back \in Int
      /\ share[v][e] \in Int /\ billed[v][e] \in Int
      /\ ledger[e] \in Int /\ bill[e] \in Int /\ ask[c] \in CallRecords
  BY <1>0, UnderWay
<1>2. Owing(ask[c]) = -ask[c].back /\ OwingAll(ask[c]) = -ask[c].back
  BY <1>0 DEF Owing, OwingAll
<1>3. UNCHANGED <<share, billed, bill, lapsed, repriced>>
  BY DEF Settle
<1> DEFINE a == InPhase(ask[c], "share")
<1>4. /\ ask' = [ask EXCEPT ![c] = a] /\ a \in CallRecords
      /\ a.phase = "share" /\ a.ws = v /\ a.day = e /\ a.back = ask[c].back
  <2>1. ask' = [ask EXCEPT ![c] = a]
    BY <1>1 DEF InPhase, BudgetShape, Settle
  <2>2. "share" \in BudgetPhases
    BY DEF BudgetPhases
  <2> QED
    BY <1>1, <2>1, <2>2, PhaseFacts
<1> HIDE DEF a
<1>5. CallInOrder(a) /\ Owing(a) = -ask[c].back /\ OwingAll(a) = 0
  BY <1>4 DEF CallInOrder, Owing, OwingAll
<1>6. /\ ledger'[e] = Floor(ledger[e] + ask[c].back)
      /\ \A d \in Days : d # e => ledger'[d] = ledger[d]
  BY <1>1 DEF BudgetShape, Settle
<1>7. ledger'[e] \in Int /\ ledger'[e] >= ledger[e] + ask[c].back
  BY <1>1, <1>6, FloorFacts
<1>8. /\ share'[v][e] - billed'[v][e] - Owing(a) >= share[v][e] - billed[v][e] - Owing(ask[c])
      /\ ledger'[e] - bill'[e] - OwingAll(a) >= ledger[e] - bill[e] - OwingAll(ask[c])
  BY <1>1, <1>2, <1>3, <1>5, <1>7
<1> QED
  BY <1>1, <1>3, <1>4, <1>5, <1>6, <1>8, CallMovesAtHome

\* ... then the workspace's.
LEMMA SettleShareCovers ==
  ASSUME SpendInv, BudgetInv', NEW c \in Callers, SettleShare(c)
  PROVE  SpendInv'
<1> SUFFICES ASSUME NEW v \in Tenants, NEW e \in Days, v = ask[c].ws, e = ask[c].day
             PROVE  SpendInv'
  BY UnderWay DEF SettleShare
<1>0. ask[c].phase = "share"
  BY DEF SettleShare
<1>1. /\ BudgetShape /\ v \in Tenants /\ e \in Days /\ ask[c].back \in Int
      /\ share[v][e] \in Int /\ billed[v][e] \in Int
      /\ ledger[e] \in Int /\ bill[e] \in Int /\ ask[c] \in CallRecords
  BY <1>0, UnderWay
<1>2. Owing(ask[c]) = -ask[c].back /\ OwingAll(ask[c]) = 0
  BY <1>0 DEF Owing, OwingAll
<1>3. UNCHANGED <<ledger, billed, bill, lapsed, repriced>> /\ ask' = [ask EXCEPT ![c] = NoCall]
  BY DEF SettleShare, Hang
<1>4. NoCall \in CallRecords /\ CallInOrder(NoCall) /\ Owing(NoCall) = 0 /\ OwingAll(NoCall) = 0
  BY HungUp, IdleOwesNothing
<1>5. /\ share'[v][e] = Floor(share[v][e] + ask[c].back)
      /\ \A w \in Tenants, d \in Days : ~(w = v /\ d = e) => share'[w][d] = share[w][d]
  BY <1>1 DEF BudgetShape, SettleShare
<1>6. share'[v][e] \in Int /\ share'[v][e] >= share[v][e] + ask[c].back
  BY <1>1, <1>5, FloorFacts
<1>7. /\ share'[v][e] - billed'[v][e] - Owing(NoCall) >= share[v][e] - billed[v][e] - Owing(ask[c])
      /\ ledger'[e] - bill'[e] - OwingAll(NoCall) >= ledger[e] - bill[e] - OwingAll(ask[c])
  BY <1>1, <1>2, <1>3, <1>4, <1>6
<1>9. /\ \A w \in Tenants, d \in Days : ~(w = v /\ d = e) =>
           share'[w][d] = share[w][d] /\ billed'[w][d] = billed[w][d]
      /\ \A d \in Days : d # e => ledger'[d] = ledger[d] /\ bill'[d] = bill[d]
      /\ lapsed \subseteq lapsed' /\ repriced \subseteq repriced'
  BY <1>3, <1>5
<1>10. (NoCall.ws = v /\ NoCall.day = e) \/ (Owing(NoCall) = 0 /\ OwingAll(NoCall) = 0)
  BY <1>4
<1> QED
  BY ZenonT(40), <1>3, <1>4, <1>7, <1>9, <1>10, CallMovesAtHome

\* Nothing in flight, nothing billed: the ledgers cover it.
LEMMA SpendStarts == BudgetInit => SpendInv
<1> SUFFICES ASSUME BudgetInit PROVE SpendInv
  OBVIOUS
<1> DEFINE zeros == [c \in Callers |-> 0]
<1>1. ask = [c \in Callers |-> NoCall]
  BY DEF BudgetInit
<1>2. CallInOrder(NoCall) /\ Owing(NoCall) = 0 /\ OwingAll(NoCall) = 0
  BY HungUp, IdleOwesNothing
<1>3. CallsInOrder
  BY <1>1, <1>2 DEF CallsInOrder
<1>4. \A w \in Tenants, d \in Days : Held(w, d) = zeros
  BY <1>1, <1>2 DEF Held, Within
<1>5. \A d \in Days : HeldAll(d) = zeros
  BY <1>1, <1>2 DEF HeldAll, WithinAll
<1>6. SumIs(zeros, 0)
  BY SumOfZeros
<1>7. SharesCover
  <2>1. \A w \in Tenants, d \in Days : share[w][d] = 0 /\ billed[w][d] = 0
    BY DEF BudgetInit
  <2>2. \A w \in Tenants, d \in Days : SumIs(Held(w, d), 0) /\ share[w][d] >= billed[w][d] + 0
    BY <1>4, <1>6, <2>1
  <2> QED
    BY <2>2 DEF SharesCover
<1>8. LedgerCovers
  <2>1. \A d \in Days : ledger[d] = 0 /\ bill[d] = 0
    BY DEF BudgetInit
  <2>2. \A d \in Days : SumIs(HeldAll(d), 0) /\ ledger[d] >= bill[d] + 0
    BY <1>5, <1>6, <2>1
  <2> QED
    BY <2>2 DEF LedgerCovers
<1> QED
  BY <1>3, <1>7, <1>8, Start DEF SpendInv

\* Steps that touch neither a call nor a ledger.
LEMMA SpendFramed ==
  ASSUME SpendInv, BudgetInv', UNCHANGED <<ask, share, ledger, billed, bill, lapsed, repriced>>
  PROVE  SpendInv'
<1>1. CallsInOrder'
  BY DEF SpendInv, CallsInOrder
<1>2. SharesCover'
  BY DEF SpendInv, SharesCover, Plain, Held, Within, Owing
<1>3. LedgerCovers'
  BY DEF SpendInv, LedgerCovers, Plain, HeldAll, WithinAll, OwingAll
<1> QED
  BY <1>1, <1>2, <1>3 DEF SpendInv

\* With no settlement to come, no call on that day has less than nothing to give back.
LEMMA SpendIsCovered == SpendInv => SpendStays
<1> SUFFICES ASSUME SpendInv, NEW d \in Days, Settling(d) = {}
             PROVE  /\ \A w \in Tenants :
                         <<w, d>> \notin lapsed \cup repriced => share[w][d] >= billed[w][d]
                    /\ (\A w \in Tenants : <<w, d>> \notin lapsed \cup repriced) =>
                         ledger[d] >= bill[d]
  BY DEF SpendStays
<1>1. BudgetShape /\ SharesCover /\ LedgerCovers /\ CallsInOrder
  BY DEF SpendInv, BudgetInv
<1>2. ASSUME NEW c \in Callers, ask[c].day = d PROVE Owing(ask[c]) >= 0 /\ OwingAll(ask[c]) >= 0
  <2>1. ask[c].phase \notin {"settle", "share"} /\ ~(ask[c].cost > ask[c].held)
    BY <1>2 DEF Settling
  <2>2. ask[c].held \in Nat /\ ask[c].cost \in Nat
    BY <1>1, CallFacts
  <2> QED
    BY <2>1, <2>2 DEF Owing, OwingAll
<1>3. \A c \in Callers : OwingAll(ask[c]) \in Int /\ Owing(ask[c]) \in Int
  BY <1>1, OwingIsInt DEF BudgetShape
<1>4. ASSUME NEW w \in Tenants, <<w, d>> \notin lapsed \cup repriced
      PROVE  share[w][d] >= billed[w][d]
  <2> DEFINE f == Held(w, d)
  <2>1. PICK n \in Int : SumIs(f, n) /\ share[w][d] >= billed[w][d] + n
    BY <1>1, <1>4 DEF SharesCover, Plain
  <2>2. f \in [Callers -> Int] /\ \A c \in Callers : f[c] >= 0
    BY <1>2, <1>3 DEF Held, Within
  <2> HIDE DEF f
  <2>3. n >= 0
    BY <2>1, <2>2, SumNotNegative
  <2>4. share[w][d] \in Int /\ billed[w][d] \in Int
    BY <1>1 DEF BudgetShape
  <2> QED
    BY <2>1, <2>3, <2>4
<1>5. ASSUME \A w \in Tenants : <<w, d>> \notin lapsed \cup repriced PROVE ledger[d] >= bill[d]
  <2> DEFINE f == HeldAll(d)
  <2>1. PICK n \in Int : SumIs(f, n) /\ ledger[d] >= bill[d] + n
    BY <1>1, <1>5 DEF LedgerCovers, Plain
  <2>2. f \in [Callers -> Int] /\ \A c \in Callers : f[c] >= 0
    BY <1>2, <1>3 DEF HeldAll, WithinAll
  <2> HIDE DEF f
  <2>3. n >= 0
    BY <2>1, <2>2, SumNotNegative
  <2>4. ledger[d] \in Int /\ bill[d] \in Int
    BY <1>1 DEF BudgetShape
  <2> QED
    BY <2>1, <2>3, <2>4
<1> QED
  BY <1>4, <1>5

\* Every step keeps what covers the bills.
LEMMA SpendStep == SpendInv /\ BudgetInv' /\ [BudgetNext]_budgetVars => SpendInv'
<1> SUFFICES ASSUME SpendInv, BudgetInv', [BudgetNext]_budgetVars PROVE SpendInv'
  OBVIOUS
<1>1. CASE NextDay \/ UNCHANGED budgetVars
  BY <1>1, SpendFramed DEF NextDay, budgetVars
<1>2. ASSUME NEW c \in Callers, NEW w \in Tenants, NEW n \in 1 .. 2, BeginCall(c, w, n)
      PROVE  SpendInv'
  BY <1>2, BeginCallCovers
<1>3. ASSUME NEW c \in Callers, ReserveShare(c) \/ ReserveAll(c) \/ ReturnShare(c)
      PROVE  SpendInv'
  BY <1>3, ReserveShareCovers, ReserveAllCovers, ReturnShareCovers
<1>4. ASSUME NEW c \in Callers, Answer(c) \/ Refused(c) \/ CallLost(c)
      PROVE  SpendInv'
  BY <1>4, AnswerCovers, RefusedCovers, CallLostCovers
<1>5. ASSUME NEW c \in Callers, Settle(c) \/ SettleShare(c) \/ SettleLost(c)
      PROVE  SpendInv'
  BY <1>5, SettleCovers, SettleShareCovers, SettleLostCovers
<1> QED
  BY <1>1, <1>2, <1>3, <1>4, <1>5 DEF BudgetNext

\* What the provider reported stays in the ledgers, for any number of callers, workspaces
\* and days and whatever an attempt costs: a settlement upwards that is lost, and a repair
\* attempt that is refused, are the only ways out (provider.ts:351).
THEOREM SpendAlwaysStays == BudgetSpec => []SpendStays
BY BudgetInvariance, SpendStarts, SpendStep, SpendIsCovered, PTL DEF BudgetSpec

----------------------------------------------------------------------------
(***************************************************************************)
(* Throttles keep their limits however requests overlap.  LimitsHold is    *)
(* not inductive: it says nothing of a request between its row and its     *)
(* verdict.  The invariant counts those in as well (AdmittedWithin,        *)
(* GuessesWithin), and says why the count of one request sees the rows of  *)
(* all that passed before: each row is there, or a withdrawal took it      *)
(* along, or a pruning did that the request has not met (RowsHeld).        *)
(* Counting a set of passes by their rows is an injection by the request's *)
(* number (CountByNumber).                                                 *)
(***************************************************************************)

\* Requests that no pruning has met.
Lives(r) == inflight[r].phase # "idle" /\ ~inflight[r].stale

\* The row was pruned before every live request came: no window of theirs reaches it.
Dropped(at) ==
  /\ at < tick - PruneAge
  /\ \A r \in Requests : Lives(r) => at < inflight[r].since - PruneAge

\* A row is there, or another's withdrawal took it.
HitHeld(n, k, at) == [no |-> n, keys |-> {k}, at |-> at] \in hits \/ n \in spared[k]

\* Live sign-ins by password that counted their rows and check the password.
Checking(k) ==
  {r \in Requests : /\ gate.kind = "password" /\ Lives(r)
                    /\ inflight[r].phase = "verify" /\ k \in KeysOf(inflight[r].keys)}

\* What k has let through, or has counted and may still turn out wrong.
AdmittedOf(k) ==
  {p \in passed : p.key = k} \cup
  {[no |-> inflight[r].no, key |-> k, at |-> inflight[r].at, to |-> inflight[r].since] : r \in Checking(k)}

WindowOf(k, t) == {p \in AdmittedOf(k) : p.at >= t /\ p.to <= t + Window[k]}

\* Who has passed the count of failures by t, and what has failed by then.
Guessing(k, t) ==
  {r \in Requests : /\ inflight[r].phase = "verify" /\ k \in KeysOf(inflight[r].keys)
                    /\ inflight[r].since <= t}
Failures(k, t) == {x \in hits : k \in x.keys /\ x.at > t - Window[k] /\ x.at <= t}

\* A request's record: a number, keys that differ, and a row recorded after it read the clock.
AskShape(a) ==
  a.phase # "idle" =>
    /\ a.no >= 1
    /\ a.keys # <<>>
    /\ \A i, j \in DOMAIN a.keys : a.keys[i] = a.keys[j] => i = j
    /\ gate.kind = "code" => a.keys \in gate.chains
    /\ a.phase = "recount" => a.since <= a.at
ThrottleShape == IsFiniteSet(hits) /\ \A r \in Requests : AskShape(inflight[r])

\* A number is one request's, and it passes a key once.
NumbersApart ==
  /\ \A r, q \in Requests :
       inflight[r].phase # "idle" /\ inflight[q].phase # "idle" /\ r # q => inflight[r].no # inflight[q].no
  /\ \A p \in passed : \A r \in Requests :
       inflight[r].phase # "idle" /\ p.no = inflight[r].no => p.key \notin KeysOf(inflight[r].keys)
  /\ \A p, q \in passed : p.no = q.no /\ p.key = q.key => p = q

\* A request that no pruning has met still has the rows that it counts itself by.
AskHeld(a) ==
  a.phase # "idle" /\ ~a.stale =>
    /\ a.phase = "recount" => HitHeld(a.no, Head(a.keys), a.at)
    /\ gate.kind = "password" /\ a.phase \in {"recheck", "verify"} =>
         \A k \in KeysOf(a.keys) : HitHeld(a.no, k, a.at)
\* What passed still has its row, or the row was taken along, or pruned as too old for all.
RowsHeld ==
  /\ \A p \in passed : HitHeld(p.no, p.key, p.at) \/ Dropped(p.at)
  /\ \A r \in Requests : AskHeld(inflight[r])

\* The limit, for what has counted itself as well as for what has passed.
AdmittedWithin ==
  \A k \in Buckets : \A t \in Ticks :
    /\ IsFiniteSet(WindowOf(k, t))
    /\ Cardinality(WindowOf(k, t)) <= Limit[k] + Cardinality(spared[k])

\* The lockout, for failures on their way as well as for those that landed.
GuessesWithin ==
  gate.kind = "code" =>
    \A k \in Buckets : \A t \in Ticks :
      Cardinality(Failures(k, t)) + Cardinality(Guessing(k, t)) <= (Limit[k] + Cardinality(Requests)) - 1

ThrottleInv ==
  ThrottleTypeOK /\ ThrottleShape /\ NumbersApart /\ RowsHeld /\ AdmittedWithin /\ GuessesWithin

\* The keys of a request, and those that are left after the first throttle.
LEMMA KeysIn ==
  ASSUME NEW ks \in Seq(Buckets), ks # <<>>,
         \A i, j \in DOMAIN ks : ks[i] = ks[j] => i = j
  PROVE  /\ KeysOf(ks) \subseteq Buckets /\ Head(ks) \in KeysOf(ks)
         /\ Tail(ks) \in Seq(Buckets) /\ KeysOf(Tail(ks)) \subseteq KeysOf(ks) \ {Head(ks)}
         /\ \A i, j \in DOMAIN Tail(ks) : Tail(ks)[i] = Tail(ks)[j] => i = j
<1>1. /\ DOMAIN ks = 1 .. Len(ks) /\ Len(ks) \in Nat /\ Len(ks) >= 1 /\ Head(ks) = ks[1]
      /\ \A i \in 1 .. Len(ks) : ks[i] \in Buckets
  OBVIOUS
<1>2. /\ Tail(ks) \in Seq(Buckets) /\ DOMAIN Tail(ks) = 1 .. (Len(ks) - 1)
      /\ \A i \in 1 .. (Len(ks) - 1) : Tail(ks)[i] = ks[i + 1]
  BY <1>1
<1>3. KeysOf(ks) \subseteq Buckets /\ Head(ks) \in KeysOf(ks)
  BY <1>1 DEF KeysOf
<1>4. KeysOf(Tail(ks)) \subseteq KeysOf(ks) \ {Head(ks)}
  BY <1>1, <1>2 DEF KeysOf
<1>5. \A i, j \in DOMAIN Tail(ks) : Tail(ks)[i] = Tail(ks)[j] => i = j
  BY <1>1, <1>2
<1> QED BY <1>2, <1>3, <1>4, <1>5

\* What has a number of its own, and under it a row among C or a place in S, is no
\* more than both.
LEMMA CountByNumber ==
  ASSUME NEW P, NEW C, NEW S, IsFiniteSet(C), IsFiniteSet(S), NEW L \in Nat, Cardinality(C) <= L,
         \A p, q \in P : p.no = q.no => p = q,
         \A p \in P : p.no \in S \/ \E x \in C : x.no = p.no
  PROVE  IsFiniteSet(P) /\ Cardinality(P) <= L + Cardinality(S)
<1> DEFINE A == {p \in P : \E x \in C : x.no = p.no}
           B == P \ A
           f == [p \in A |-> CHOOSE x \in C : x.no = p.no]
           g == [p \in B |-> p.no]
<1>1. IsFiniteSet(A) /\ Cardinality(A) <= Cardinality(C)
  <2>1. \A p \in A : f[p] \in C /\ f[p].no = p.no
    OBVIOUS
  <2>2. f \in Injection(A, C)
    BY <2>1 DEF Injection, IsInjective
  <2> QED BY <2>2, FS_Injection
<1>2. IsFiniteSet(B) /\ Cardinality(B) <= Cardinality(S)
  <2>1. g \in Injection(B, S)
    BY DEF Injection, IsInjective
  <2> QED BY <2>1, FS_Injection
<1>3. P = A \cup B
  OBVIOUS
<1> HIDE DEF A, B
<1>4. IsFiniteSet(P) /\ Cardinality(P) <= Cardinality(A) + Cardinality(B)
  <2>1. /\ IsFiniteSet(A \cup B) /\ IsFiniteSet(A \cap B)
        /\ Cardinality(A \cup B) = Cardinality(A) + Cardinality(B) - Cardinality(A \cap B)
    BY <1>1, <1>2, FS_Union, FS_Subset
  <2> QED BY <2>1, <1>1, <1>2, <1>3, FS_CardinalityType
<1> QED BY <1>1, <1>2, <1>4, FS_CardinalityType

\* The numbers of the throttles (limits and windows are constants in the routes).
LEMMA LimitTypes ==
  /\ \A k \in Buckets : Limit[k] \in Nat /\ Window[k] \in Nat /\ Window[k] <= PruneAge
  /\ PruneAge \in Nat /\ IsFiniteSet(Requests) /\ Cardinality(Requests) \in Nat /\ Cardinality(Requests) >= 1
<1>1. \A k \in Buckets : Limit[k] \in Nat /\ Window[k] \in Nat /\ Window[k] <= PruneAge
  BY ThrottleAssumption DEF Buckets
<1>2. PruneAge \in Nat /\ IsFiniteSet(Requests) /\ Requests # {}
  BY ThrottleAssumption
<1>3. Cardinality(Requests) \in Nat /\ Cardinality(Requests) # 0
  BY <1>2, FS_CardinalityType, FS_EmptySet
<1> QED BY <1>1, <1>2, <1>3


AskRecord == [phase : AskPhases, no : 0 .. came, keys : Seq(Buckets),
              since : 0 .. tick, at : 0 .. tick, stale : BOOLEAN]
AskOf(ph, n, ks, from, at, old) ==
  [phase |-> ph, no |-> n, keys |-> ks, since |-> from, at |-> at, stale |-> old]

\* One request moves, the others stay where they are.
MovesTo(r, turn) ==
  /\ \A q \in Requests : q # r => inflight'[q] = inflight[q]
  /\ inflight'[r] = turn
  /\ inflight' \in [Requests -> {inflight'[q] : q \in Requests}]

\* Where each kind of step takes its request.
LEMMA AskMoves ==
  ASSUME ThrottleTypeOK, NEW r \in Requests
  PROVE  /\ Leaves(r) => MovesTo(r, NoAsk)
         /\ \A ph : ToPhase(r, ph) =>
              MovesTo(r, AskOf(ph, inflight[r].no, inflight[r].keys, tick, inflight[r].at, inflight[r].stale))
         /\ \A ks : Arrive(r, ks) => MovesTo(r, AskOf("count", came + 1, ks, tick, 0, FALSE))
         /\ \A at : InsertHit(r, at) =>
              MovesTo(r, AskOf("recount", inflight[r].no, inflight[r].keys, inflight[r].since, at, inflight[r].stale))
         /\ \A at : RecordFirst(r, at) =>
              MovesTo(r, AskOf("recheck", inflight[r].no, inflight[r].keys, inflight[r].since, at, inflight[r].stale))
         /\ GoesOn(r) =>
              \/ MovesTo(r, NoAsk)
              \/ /\ Tail(inflight[r].keys) # <<>>
                 /\ MovesTo(r, AskOf("count", inflight[r].no, Tail(inflight[r].keys), tick, inflight[r].at,
                                     inflight[r].stale))
<1> USE DEF MovesTo
<1>1. inflight \in [Requests -> AskRecord]
  BY DEF ThrottleTypeOK, AskRecord
<1>2. Leaves(r) => MovesTo(r, NoAsk)
  BY <1>1 DEF Leaves
<1>3. ASSUME NEW ph, ToPhase(r, ph)
      PROVE  MovesTo(r, AskOf(ph, inflight[r].no, inflight[r].keys, tick, inflight[r].at, inflight[r].stale))
  BY <1>1, <1>3 DEF ToPhase, AskOf, AskRecord
<1>4. ASSUME NEW ks, Arrive(r, ks) PROVE MovesTo(r, AskOf("count", came + 1, ks, tick, 0, FALSE))
  BY <1>1, <1>4 DEF Arrive, AskOf, NoAsk
<1>5. ASSUME NEW at, InsertHit(r, at)
      PROVE  MovesTo(r, AskOf("recount", inflight[r].no, inflight[r].keys, inflight[r].since, at,
                              inflight[r].stale))
  BY <1>1, <1>5 DEF InsertHit, AskOf, AskRecord
<1>6. ASSUME NEW at, RecordFirst(r, at)
      PROVE  MovesTo(r, AskOf("recheck", inflight[r].no, inflight[r].keys, inflight[r].since, at,
                              inflight[r].stale))
  BY <1>1, <1>6 DEF RecordFirst, AskOf, AskRecord
<1>7. CASE GoesOn(r) /\ Tail(inflight[r].keys) # <<>>
  BY <1>1, <1>2, <1>3, <1>4, <1>5, <1>6, <1>7 DEF GoesOn, AskOf, AskRecord
<1> QED BY <1>2, <1>3, <1>4, <1>5, <1>6, <1>7 DEF GoesOn

\* The requests keep their type.
LEMMA AsksTyped ==
  ASSUME ThrottleTypeOK, NEW r \in Requests, NEW turn, MovesTo(r, turn), turn \in AskRecord',
         came' >= came, came' \in Nat, tick' = tick
  PROVE  inflight' \in [Requests -> AskRecord']
<1>1. AskRecord \subseteq AskRecord'
  BY DEF ThrottleTypeOK, AskRecord
<1>2. \A q \in Requests : inflight'[q] \in AskRecord'
  BY <1>1 DEF MovesTo, ThrottleTypeOK, AskRecord
<1> HIDE DEF AskRecord
<1> QED BY <1>2 DEF MovesTo

\* What a step of one request leaves of the type.
LEMMA TypeSteps ==
  ASSUME ThrottleTypeOK, NEW r \in Requests, NEW turn, MovesTo(r, turn), turn \in AskRecord',
         gate' = gate, tick' = tick, came' \in came .. gate.total,
         hits' \subseteq [no : 1 .. came', keys : SUBSET Buckets, at : 0 .. tick],
         passed' \subseteq [no : 1 .. came', key : Buckets, at : 0 .. tick, to : 0 .. tick],
         spared' \in [Buckets -> SUBSET (1 .. came')]
  PROVE  ThrottleTypeOK'
<1>1. came \in Nat /\ came' \in 0 .. gate.total /\ came' >= came
  BY DEF ThrottleTypeOK
<1>2. inflight' \in [Requests -> AskRecord']
  BY <1>1, AsksTyped
<1>3. gate' \in Gates /\ tick' \in Ticks'
  BY DEF ThrottleTypeOK, Ticks
<1> QED BY <1>1, <1>2, <1>3 DEF ThrottleTypeOK, AskRecord

\* What a step of one request leaves of the requests' shape.
LEMMA ShapeSteps ==
  ASSUME ThrottleShape, NEW r \in Requests, NEW turn, MovesTo(r, turn), AskShape(turn), gate' = gate,
         IsFiniteSet(hits')
  PROVE  ThrottleShape'
<1> SUFFICES ASSUME NEW q \in Requests PROVE AskShape(inflight[q])'
  BY DEF ThrottleShape
<1>1. AskShape(inflight'[q])
  BY DEF MovesTo, ThrottleShape
<1> QED BY <1>1 DEF AskShape

\* What a request that was in flight goes on as, and what passes by it.
LEMMA NumbersSteps ==
  ASSUME NumbersApart, NEW r \in Requests, inflight[r].phase # "idle", NEW turn, MovesTo(r, turn),
         turn.phase # "idle" => turn.no = inflight[r].no /\ KeysOf(turn.keys) \subseteq KeysOf(inflight[r].keys),
         \A p \in passed' \ passed :
                      /\ p.no = inflight[r].no /\ p.key \in KeysOf(inflight[r].keys)
                      /\ turn.phase # "idle" => p.key \notin KeysOf(turn.keys),
         \A p, q \in passed' \ passed : p.key = q.key => p = q
  PROVE  NumbersApart'
<1>1. ASSUME NEW u \in Requests, NEW v \in Requests, inflight'[u].phase # "idle",
             inflight'[v].phase # "idle", u # v
      PROVE  inflight'[u].no # inflight'[v].no
  BY <1>1 DEF NumbersApart, MovesTo
<1>2. ASSUME NEW p \in passed', NEW v \in Requests, inflight'[v].phase # "idle", p.no = inflight'[v].no
      PROVE  p.key \notin KeysOf(inflight'[v].keys)
  <2>1. CASE p \in passed
    BY <1>2, <2>1 DEF NumbersApart, MovesTo
  <2>2. CASE p \notin passed
    BY <1>2, <2>2 DEF NumbersApart, MovesTo
  <2> QED BY <2>1, <2>2
<1>3. ASSUME NEW p \in passed', NEW q \in passed', p.no = q.no, p.key = q.key PROVE p = q
  BY <1>3 DEF NumbersApart
<1> QED BY <1>1, <1>2, <1>3 DEF NumbersApart

\* What the type says of the clock and of one request.
LEMMA AskIsTyped ==
  ASSUME ThrottleTypeOK, NEW r \in Requests
  PROVE  /\ gate \in Gates /\ gate.ticks \in Nat /\ gate.total \in Nat /\ tick \in 0 .. gate.ticks
         /\ came \in 0 .. gate.total /\ inflight[r] \in AskRecord
BY ThrottleAssumption DEF ThrottleTypeOK, Ticks, AskRecord

\* The keys of a request with their limits: failed codes have one of each.
LEMMA AskKeys ==
  ASSUME ThrottleTypeOK, ThrottleShape, NEW r \in Requests, inflight[r].phase # "idle"
  PROVE  /\ inflight[r].keys \in Seq(Buckets) /\ inflight[r].keys # <<>> /\ inflight[r].no \in 1 .. came
         /\ KeysOf(inflight[r].keys) \subseteq Buckets /\ Head(inflight[r].keys) \in KeysOf(inflight[r].keys)
         /\ gate.kind = "code" => \A k \in KeysOf(inflight[r].keys) :
              Limit[k] = Limit[Head(inflight[r].keys)] /\ Window[k] = Window[Head(inflight[r].keys)]
<1>1. /\ inflight[r] \in AskRecord /\ AskShape(inflight[r])
  BY AskIsTyped DEF ThrottleShape
<1>2. /\ inflight[r].keys \in Seq(Buckets) /\ inflight[r].keys # <<>> /\ inflight[r].no \in 1 .. came
      /\ \A i, j \in DOMAIN inflight[r].keys : inflight[r].keys[i] = inflight[r].keys[j] => i = j
  BY <1>1, AskIsTyped DEF AskRecord, AskShape
<1>3. gate.kind = "code" => inflight[r].keys \in gate.chains
  BY <1>1 DEF AskShape
<1>4. gate.kind = "code" => \A k \in KeysOf(inflight[r].keys) :
        Limit[k] = Limit[Head(inflight[r].keys)] /\ Window[k] = Window[Head(inflight[r].keys)]
  BY <1>3, AskIsTyped, ThrottleAssumption
<1> QED BY <1>2, <1>4, KeysIn

\* What a step of one request leaves of the rows: it may take only its own, or those it
\* spares, and what passes has one.
LEMMA RowsSteps ==
  ASSUME ThrottleTypeOK, ThrottleShape, NumbersApart, RowsHeld, NEW r \in Requests, NEW turn, MovesTo(r, turn),
         gate' = gate, tick' = tick, turn \in AskRecord',
         turn.phase # "idle" /\ ~turn.stale => turn.since = tick \/ (turn.since = inflight[r].since /\ Lives(r)),
         \A n, at : \A k \in Buckets :
                       /\ HitHeld(n, k, at)
                       /\ ~(/\ inflight[r].phase # "idle" /\ n = inflight[r].no
                            /\ k \in KeysOf(inflight[r].keys))
                       => HitHeld(n, k, at)',
         \A p \in passed' \ passed : HitHeld(p.no, p.key, p.at)',
         turn.phase # "idle" /\ ~turn.stale =>
           /\ turn.phase = "recount" => HitHeld(turn.no, Head(turn.keys), turn.at)'
           /\ gate.kind = "password" /\ turn.phase \in {"recheck", "verify"} =>
                \A k \in KeysOf(turn.keys) : HitHeld(turn.no, k, turn.at)'
  PROVE  RowsHeld'
<1>1. ASSUME NEW at \in Int, Dropped(at) PROVE Dropped(at)'
  <2> SUFFICES ASSUME NEW q \in Requests, Lives(q)' PROVE at < inflight'[q].since - PruneAge
    BY <1>1 DEF Dropped
  <2>1. CASE q = r
    BY <1>1, <2>1 DEF Dropped, MovesTo, Lives
  <2>2. CASE q # r
    BY <1>1, <2>2 DEF Dropped, MovesTo, Lives
  <2> QED BY <2>1, <2>2
<1>2. ASSUME NEW p \in passed' PROVE HitHeld(p.no, p.key, p.at)' \/ Dropped(p.at)'
  <2>1. CASE p \in passed
    <3>1. HitHeld(p.no, p.key, p.at) \/ Dropped(p.at)
      BY <2>1 DEF RowsHeld
    <3>2. p.at \in Int /\ p.key \in Buckets
      BY <2>1 DEF ThrottleTypeOK
    <3>3. ~(inflight[r].phase # "idle" /\ p.no = inflight[r].no /\ p.key \in KeysOf(inflight[r].keys))
      BY <2>1 DEF NumbersApart
    <3> QED BY <3>1, <3>2, <3>3, <1>1
  <2> QED BY <2>1
<1>3. ASSUME NEW q \in Requests PROVE AskHeld(inflight[q])'
  <2>1. CASE q = r
    BY <2>1 DEF MovesTo, AskHeld
  <2>2. CASE q # r /\ inflight[q].phase # "idle"
    <3>1. AskHeld(inflight[q]) /\ inflight'[q] = inflight[q]
      BY <2>2 DEF MovesTo, RowsHeld
    <3>2. ~(inflight[r].phase # "idle" /\ inflight[q].no = inflight[r].no)
      BY <2>2 DEF NumbersApart
    <3>3. \A k \in Buckets :
            HitHeld(inflight[q].no, k, inflight[q].at) => HitHeld(inflight[q].no, k, inflight[q].at)'
      BY <3>1, <3>2
    <3>4. Head(inflight[q].keys) \in Buckets /\ KeysOf(inflight[q].keys) \subseteq Buckets
      BY <2>2, AskKeys
    <3> HIDE DEF HitHeld
    <3> QED BY <3>1, <3>3, <3>4 DEF AskHeld
  <2>3. CASE q # r /\ inflight[q].phase = "idle"
    BY <2>3 DEF MovesTo, AskHeld
  <2> QED BY <2>1, <2>2, <2>3
<1> QED BY <1>2, <1>3 DEF RowsHeld

\* Requests are numbered, so there are finitely many.
LEMMA NumbersFinite == \A n \in Int : IsFiniteSet(1 .. n)
<1> SUFFICES ASSUME NEW n \in Int PROVE IsFiniteSet(1 .. n)
  OBVIOUS
<1> QED BY FS_Interval

\* The rows taken along can be counted.
LEMMA SparedFinite ==
  ASSUME ThrottleTypeOK, NEW k \in Buckets
  PROVE  IsFiniteSet(spared[k]) /\ Cardinality(spared[k]) \in Nat
<1>1. came \in Int /\ spared[k] \in SUBSET (1 .. came)
  BY ThrottleAssumption DEF ThrottleTypeOK
<1>2. IsFiniteSet(1 .. came)
  BY <1>1, FS_Interval
<1> QED BY <1>1, <1>2, FS_Subset, FS_CardinalityType

\* More may be taken along, never less.
LEMMA SparedGrows ==
  ASSUME ThrottleTypeOK, ThrottleTypeOK', NEW k \in Buckets, spared[k] \subseteq spared'[k]
  PROVE  /\ IsFiniteSet(spared'[k]) /\ Cardinality(spared'[k]) \in Nat /\ Cardinality(spared[k]) \in Nat
         /\ Cardinality(spared[k]) <= Cardinality(spared'[k])
<1>1. came' \in Int /\ spared'[k] \in SUBSET (1 .. came')
  BY ThrottleAssumption DEF ThrottleTypeOK
<1>2. PICK n : n = came'
  OBVIOUS
<1>3. IsFiniteSet(1 .. came')
  <2>1. n \in Int
    BY <1>1, <1>2
  <2>2. IsFiniteSet(1 .. n)
    BY <2>1, NumbersFinite
  <2> QED BY <1>2, <2>2
<1>4. IsFiniteSet(spared'[k])
  BY <1>1, <1>3, FS_Subset
<1> QED BY <1>4, SparedFinite, FS_Subset, FS_CardinalityType

\* Within a window nothing more is admitted than there was.
LEMMA WindowShrinks ==
  ASSUME AdmittedWithin, ThrottleTypeOK, ThrottleTypeOK', NEW k \in Buckets, NEW t \in Ticks,
         spared[k] \subseteq spared'[k], WindowOf(k, t)' \subseteq WindowOf(k, t)
  PROVE  /\ IsFiniteSet(WindowOf(k, t)')
         /\ Cardinality(WindowOf(k, t)') <= Limit[k] + Cardinality(spared'[k])
<1>1. /\ IsFiniteSet(WindowOf(k, t)) /\ Cardinality(WindowOf(k, t)) <= Limit[k] + Cardinality(spared[k])
  BY DEF AdmittedWithin
<1>2. /\ IsFiniteSet(WindowOf(k, t)') /\ Cardinality(WindowOf(k, t)') <= Cardinality(WindowOf(k, t))
  BY <1>1, FS_Subset
<1>3. /\ Cardinality(WindowOf(k, t)') \in Nat /\ Cardinality(WindowOf(k, t)) \in Nat /\ Limit[k] \in Nat
  BY <1>1, <1>2, FS_CardinalityType, LimitTypes
<1> QED BY <1>1, <1>2, <1>3, SparedGrows

\* The same in every window.
LEMMA AdmittedSame ==
  ASSUME AdmittedWithin, ThrottleTypeOK, ThrottleTypeOK', gate' = gate,
         \A k \in Buckets : spared[k] \subseteq spared'[k],
         \A k \in Buckets : AdmittedOf(k)' \subseteq AdmittedOf(k)
  PROVE  AdmittedWithin'
<1> SUFFICES ASSUME NEW k \in Buckets, NEW t \in Ticks
             PROVE  /\ IsFiniteSet(WindowOf(k, t)')
                    /\ Cardinality(WindowOf(k, t)') <= Limit[k] + Cardinality(spared'[k])
  BY DEF AdmittedWithin, Ticks
<1>1. WindowOf(k, t)' \subseteq WindowOf(k, t)
  BY DEF WindowOf
<1> QED BY <1>1, WindowShrinks

\* A step that passes only what has counted itself already admits nothing new.
LEMMA AdmittedMoves ==
  ASSUME NEW r \in Requests, NEW turn, MovesTo(r, turn), gate' = gate,
         gate.kind = "password" /\ turn.phase = "verify" => inflight'[r] = inflight[r],
         \A p \in passed' \ passed : \E k \in Buckets :
           /\ r \in Checking(k)
           /\ p = [no |-> inflight[r].no, key |-> k, at |-> inflight[r].at, to |-> inflight[r].since]
  PROVE  \A k \in Buckets : AdmittedOf(k)' \subseteq AdmittedOf(k)
<1> SUFFICES ASSUME NEW k \in Buckets, NEW p \in AdmittedOf(k)' PROVE p \in AdmittedOf(k)
  OBVIOUS
<1>1. CASE p \in passed' /\ p.key = k
  BY <1>1 DEF AdmittedOf
<1>2. ASSUME NEW q \in Checking(k)',
             p = [no |-> inflight'[q].no, key |-> k, at |-> inflight'[q].at, to |-> inflight'[q].since]
      PROVE  p \in AdmittedOf(k)
  <2>1. q \in Requests /\ inflight'[q] = inflight[q]
    BY DEF Checking, MovesTo
  <2>2. q \in Checking(k)
    BY <2>1 DEF Checking, Lives
  <2> QED BY <1>2, <2>1, <2>2 DEF AdmittedOf
<1> QED BY <1>1, <1>2 DEF AdmittedOf

\* What passed within a window of k stands behind rows that one count saw, or behind
\* rows that a withdrawal took.
LEMMA AdmittedCounts ==
  ASSUME ThrottleTypeOK', ThrottleShape', NumbersApart', RowsHeld', gate' = gate,
         NEW k \in Buckets, NEW t \in Ticks, NEW from \in Int, from <= t,
         Cardinality(Counted({k}, from)') <= Limit[k],
         \A p \in passed' : p.key = k /\ p.at >= t => HitHeld(p.no, k, p.at)'
  PROVE  /\ IsFiniteSet(WindowOf(k, t)')
         /\ Cardinality(WindowOf(k, t)') <= Limit[k] + Cardinality(spared'[k])
<1> DEFINE P == WindowOf(k, t)'
           C == Counted({k}, from)'
<1>1. IsFiniteSet(C)
  BY FS_Subset DEF ThrottleShape, Counted
<1>2. IsFiniteSet(spared'[k])
  <2>1. came' \in Int /\ spared'[k] \in SUBSET (1 .. came')
    BY ThrottleAssumption DEF ThrottleTypeOK
  <2>2. IsFiniteSet(1 .. came')
    BY <2>1, FS_Interval
  <2> QED BY <2>1, <2>2, FS_Subset
<1>3. \A p, q \in P : p.no = q.no => p = q
  <2> SUFFICES ASSUME NEW p \in AdmittedOf(k)', NEW q \in AdmittedOf(k)', p.no = q.no PROVE p = q
    BY DEF WindowOf
  <2>1. ASSUME NEW u \in AdmittedOf(k)'
        PROVE  \/ u \in passed' /\ u.key = k
               \/ \E v \in Checking(k)' :
                    u = [no |-> inflight'[v].no, key |-> k, at |-> inflight'[v].at, to |-> inflight'[v].since]
    BY DEF AdmittedOf
  <2>2. CASE p \in passed' /\ p.key = k /\ q \in passed' /\ q.key = k
    BY <2>2 DEF NumbersApart
  <2>3. ASSUME NEW v \in Checking(k)', NEW w \in passed', w.key = k PROVE w.no # inflight'[v].no
    BY <2>3 DEF NumbersApart, Checking, Lives
  <2>4. ASSUME NEW v \in Checking(k)', NEW w \in Checking(k)', inflight'[v].no = inflight'[w].no PROVE v = w
    BY <2>4 DEF NumbersApart, Checking, Lives
  <2> QED BY <2>1, <2>2, <2>3, <2>4
<1>4. ASSUME NEW p \in P PROVE p.no \in spared'[k] \/ \E x \in C : x.no = p.no
  <2>1. p.at \in Int /\ p.at >= t /\ p.key = k
    <3>1. p \in AdmittedOf(k)' /\ p.at >= t
      BY DEF WindowOf
    <3>2. p.at \in Int /\ p.key = k
      BY <3>1 DEF AdmittedOf, ThrottleTypeOK, Checking
    <3> QED BY <3>1, <3>2
  <2>2. HitHeld(p.no, k, p.at)'
    <3>1. CASE p \in passed'
      BY <2>1, <3>1
    <3>2. ASSUME NEW v \in Checking(k)', p.no = inflight'[v].no, p.at = inflight'[v].at
          PROVE  HitHeld(p.no, k, p.at)'
      BY <3>2 DEF RowsHeld, AskHeld, Checking, Lives
    <3> QED BY <3>1, <3>2 DEF WindowOf, AdmittedOf
  <2>3. t \in Int
    BY ThrottleAssumption DEF Ticks
  <2> QED BY <2>1, <2>2, <2>3 DEF HitHeld, Counted
<1>5. Limit[k] \in Nat
  BY LimitTypes
<1> HIDE DEF P, C
<1>6. IsFiniteSet(P) /\ Cardinality(P) <= Limit[k] + Cardinality(spared'[k])
  BY <1>1, <1>2, <1>3, <1>4, <1>5, CountByNumber DEF C
<1> QED BY <1>6 DEF P

\* Failures and guesses can be counted, and nobody guesses twice at once.
LEMMA GuessFinite ==
  ASSUME ThrottleShape, NEW k \in Buckets, NEW t \in Ticks
  PROVE  /\ IsFiniteSet(Failures(k, t)) /\ IsFiniteSet(Guessing(k, t))
         /\ Cardinality(Failures(k, t)) \in Nat /\ Cardinality(Guessing(k, t)) \in Nat
         /\ Cardinality(Guessing(k, t)) <= Cardinality(Requests)
<1>1. Failures(k, t) \in SUBSET hits /\ Guessing(k, t) \in SUBSET Requests
  BY DEF Failures, Guessing
<1> QED BY <1>1, LimitTypes, FS_Subset, FS_CardinalityType DEF ThrottleShape

\* No row more, and nobody else about to leave one.
LEMMA GuessSame ==
  ASSUME GuessesWithin, ThrottleShape, gate' = gate, hits' = hits,
         \A k \in Buckets : \A t \in Ticks : Guessing(k, t)' \subseteq Guessing(k, t)
  PROVE  GuessesWithin'
<1> SUFFICES ASSUME gate.kind = "code", NEW k \in Buckets, NEW t \in Ticks
             PROVE  Cardinality(Failures(k, t)') + Cardinality(Guessing(k, t)')
                      <= (Limit[k] + Cardinality(Requests)) - 1
  BY DEF GuessesWithin, Ticks
<1>1. Failures(k, t)' = Failures(k, t) /\ Guessing(k, t)' \in SUBSET Guessing(k, t)
  BY DEF Failures
<1>2. Cardinality(Guessing(k, t)') <= Cardinality(Guessing(k, t)) /\ Cardinality(Guessing(k, t)') \in Nat
  BY <1>1, GuessFinite, FS_Subset, FS_CardinalityType
<1>3. Cardinality(Failures(k, t)) + Cardinality(Guessing(k, t)) <= (Limit[k] + Cardinality(Requests)) - 1
  BY DEF GuessesWithin
<1> QED BY <1>1, <1>2, <1>3, GuessFinite, LimitTypes

\* Who does not check a secret next guesses nothing.
LEMMA GuessMoves ==
  ASSUME NEW r \in Requests, NEW turn, MovesTo(r, turn), turn.phase = "verify" => inflight'[r] = inflight[r]
  PROVE  \A k \in Buckets : \A t \in Ticks : Guessing(k, t)' \subseteq Guessing(k, t)
BY DEF MovesTo, Guessing

\* A request is answered, and nothing else happens.
LEMMA LeavesKeeps ==
  ASSUME ThrottleInv, NEW r \in Requests, inflight[r].phase # "idle", MovesTo(r, NoAsk),
         UNCHANGED <<gate, tick, came, hits, passed, spared>>
  PROVE  ThrottleInv'
<1> USE DEF ThrottleInv
<1>1. NoAsk \in AskRecord' /\ NoAsk.phase = "idle"
  BY AskIsTyped DEF NoAsk, AskRecord, AskPhases
<1>2. ThrottleTypeOK'
  <2>1. /\ hits' \subseteq [no : 1 .. came', keys : SUBSET Buckets, at : 0 .. tick]
        /\ passed' \subseteq [no : 1 .. came', key : Buckets, at : 0 .. tick, to : 0 .. tick]
        /\ spared' \in [Buckets -> SUBSET (1 .. came')] /\ came' \in came .. gate.total
    BY AskIsTyped DEF ThrottleTypeOK
  <2> QED BY <1>1, <2>1, TypeSteps
<1>3. ThrottleShape'
  BY <1>1, ShapeSteps DEF ThrottleShape, AskShape
<1>4. NumbersApart'
  BY <1>1, NumbersSteps
<1>5. RowsHeld'
  BY <1>1, RowsSteps DEF HitHeld
<1>6. AdmittedWithin'
  <2>1. \A k \in Buckets : AdmittedOf(k)' \subseteq AdmittedOf(k)
    BY <1>1, AdmittedMoves
  <2> QED BY <2>1, <1>2, AdmittedSame
<1>7. GuessesWithin'
  BY <1>1, GuessMoves, GuessSame
<1> QED BY <1>2, <1>3, <1>4, <1>5, <1>6, <1>7

\* A request goes on, from a count that lets it or to the next: to a phase that neither
\* counts its own row nor checks a secret.
LEMMA GoesOnKeeps ==
  ASSUME ThrottleInv, NEW r \in Requests, inflight[r].phase # "idle",
         NEW turn \in AskRecord, MovesTo(r, turn), turn.phase \in {"count", "insert", "record"},
         turn.no = inflight[r].no, turn.keys = inflight[r].keys, turn.since = tick, turn.stale = inflight[r].stale,
         UNCHANGED <<gate, tick, came, hits, passed, spared>>
  PROVE  ThrottleInv'
<1> USE DEF ThrottleInv
<1>1. turn \in AskRecord'
  BY DEF AskRecord
<1>2. ThrottleTypeOK'
  <2>1. /\ hits' \subseteq [no : 1 .. came', keys : SUBSET Buckets, at : 0 .. tick]
        /\ passed' \subseteq [no : 1 .. came', key : Buckets, at : 0 .. tick, to : 0 .. tick]
        /\ spared' \in [Buckets -> SUBSET (1 .. came')] /\ came' \in came .. gate.total
    BY AskIsTyped DEF ThrottleTypeOK
  <2> QED BY <1>1, <2>1, TypeSteps
<1>3. ThrottleShape'
  BY ShapeSteps DEF ThrottleShape, AskShape
<1>4. NumbersApart'
  BY NumbersSteps
<1>5. RowsHeld'
  BY <1>1, RowsSteps DEF HitHeld
<1>6. AdmittedWithin'
  <2>1. \A k \in Buckets : AdmittedOf(k)' \subseteq AdmittedOf(k)
    BY AdmittedMoves
  <2> QED BY <2>1, <1>2, AdmittedSame
<1>7. GuessesWithin'
  BY GuessMoves, GuessSame
<1> QED BY <1>2, <1>3, <1>4, <1>5, <1>6, <1>7

\* A request comes: its number is new.
LEMMA ArriveKeeps ==
  ASSUME ThrottleInv, NEW r \in Requests, NEW ks \in gate.chains, Arrive(r, ks) PROVE ThrottleInv'
<1> USE DEF ThrottleInv
<1> DEFINE turn == AskOf("count", came + 1, ks, tick, 0, FALSE)
<1>1. /\ MovesTo(r, turn) /\ inflight[r].phase = "idle" /\ came' = came + 1 /\ came < gate.total
      /\ UNCHANGED <<gate, tick, hits, passed, spared>>
  BY AskMoves DEF Arrive
<1>2. /\ ks \in Seq(Buckets) /\ ks # <<>> /\ \A i, j \in DOMAIN ks : ks[i] = ks[j] => i = j
  BY AskIsTyped, ThrottleAssumption
<1>3. turn \in AskRecord' /\ came \in Nat
  BY <1>1, <1>2, AskIsTyped DEF AskOf, AskRecord, AskPhases
<1>4. ThrottleTypeOK'
  <2>1. /\ hits' \subseteq [no : 1 .. came', keys : SUBSET Buckets, at : 0 .. tick]
        /\ passed' \subseteq [no : 1 .. came', key : Buckets, at : 0 .. tick, to : 0 .. tick]
        /\ spared' \in [Buckets -> SUBSET (1 .. came')] /\ came' \in came .. gate.total
    BY SMTT(20), <1>1, AskIsTyped DEF ThrottleTypeOK
  <2> QED BY <1>1, <1>3, <2>1, TypeSteps
<1>5. ThrottleShape'
  <2>1. AskShape(turn)
    BY <1>2, <1>3 DEF AskShape, AskOf
  <2> QED BY <1>1, <2>1, ShapeSteps DEF ThrottleShape
<1>6. NumbersApart'
  <2>1. \A q \in Requests : inflight[q].no <= came /\ inflight[q].no \in Nat
    BY AskIsTyped DEF ThrottleTypeOK
  <2>2. \A p \in passed : p.no <= came /\ p.no \in Nat
    BY AskIsTyped DEF ThrottleTypeOK
  <2> QED BY <1>1, <1>3, <2>1, <2>2 DEF NumbersApart, MovesTo, AskOf
<1>7. RowsHeld'
  BY <1>1, <1>3, RowsSteps DEF HitHeld, AskOf
<1>8. AdmittedWithin'
  <2>1. \A k \in Buckets : AdmittedOf(k)' \subseteq AdmittedOf(k)
    BY <1>1, AdmittedMoves DEF AskOf
  <2> QED BY <1>1, <2>1, <1>4, AdmittedSame
<1>9. GuessesWithin'
  BY <1>1, GuessMoves, GuessSame DEF AskOf
<1> QED BY <1>4, <1>5, <1>6, <1>7, <1>8, <1>9

\* Counting before anything is recorded (tenancy.ts:325, hosted/routes.ts:539).
LEMMA CountsKeep ==
  ASSUME ThrottleInv, NEW r \in Requests, CountEarly(r) \/ CheckLocked(r) PROVE ThrottleInv'
<1> USE DEF ThrottleInv
<1>1. /\ inflight[r].phase # "idle" /\ UNCHANGED <<gate, tick, came, hits, passed, spared>>
      /\ Leaves(r) \/ \E ph \in {"insert", "record"} : ToPhase(r, ph)
  BY DEF CountEarly, CheckLocked
<1>2. CASE Leaves(r)
  BY <1>1, <1>2, AskMoves, LeavesKeeps
<1>3. ASSUME NEW ph \in {"insert", "record"}, ToPhase(r, ph) PROVE ThrottleInv'
  <2> DEFINE turn == AskOf(ph, inflight[r].no, inflight[r].keys, tick, inflight[r].at, inflight[r].stale)
  <2>1. MovesTo(r, turn)
    BY <1>3, AskMoves
  <2>2. /\ turn \in AskRecord /\ turn.phase \in {"count", "insert", "record"} /\ turn.no = inflight[r].no
        /\ turn.keys = inflight[r].keys /\ turn.since = tick /\ turn.stale = inflight[r].stale
    BY AskIsTyped DEF AskOf, AskRecord, AskPhases
  <2> HIDE DEF turn, ThrottleInv
  <2> QED BY <1>1, <2>1, <2>2, GoesOnKeeps
<1> QED BY <1>1, <1>2, <1>3

\* The row of a throttle lands (tenancy.ts:328).
LEMMA InsertKeeps ==
  ASSUME ThrottleInv, NEW r \in Requests, NEW at, InsertHit(r, at) PROVE ThrottleInv'
<1> USE DEF ThrottleInv
<1> DEFINE k == Head(inflight[r].keys)
           row == [no |-> inflight[r].no, keys |-> {k}, at |-> at]
<1>0. PICK turn : turn = AskOf("recount", inflight[r].no, inflight[r].keys, inflight[r].since, at, inflight[r].stale)
  OBVIOUS
<1>1. /\ MovesTo(r, turn) /\ inflight[r].phase = "insert" /\ gate.kind = "chain" /\ hits' = hits \cup {row}
      /\ at \in inflight[r].since .. tick /\ UNCHANGED <<gate, tick, came, passed, spared>>
  BY <1>0, AskMoves DEF InsertHit, Add, HitOf
<1>2. /\ inflight[r] \in AskRecord /\ AskShape(inflight[r]) /\ inflight[r].since \in Nat /\ inflight[r].no >= 1
      /\ k \in Buckets
  BY <1>1, AskIsTyped, KeysIn DEF ThrottleShape, AskShape, AskRecord
<1>3. turn \in AskRecord' /\ row \in [no : 1 .. came', keys : SUBSET Buckets, at : 0 .. tick]
  BY <1>0, <1>1, <1>2, AskIsTyped DEF AskOf, AskRecord, AskPhases
<1>4. ThrottleTypeOK'
  <2>1. /\ hits' \subseteq [no : 1 .. came', keys : SUBSET Buckets, at : 0 .. tick]
        /\ passed' \subseteq [no : 1 .. came', key : Buckets, at : 0 .. tick, to : 0 .. tick]
        /\ spared' \in [Buckets -> SUBSET (1 .. came')] /\ came' \in came .. gate.total
    BY <1>1, <1>3, AskIsTyped DEF ThrottleTypeOK
  <2> QED BY <1>1, <1>3, <2>1, TypeSteps
<1>5. ThrottleShape'
  <2>1. AskShape(turn)
    BY <1>0, <1>1, <1>2 DEF AskShape, AskOf
  <2>2. IsFiniteSet(hits')
    BY <1>1, FS_AddElement DEF ThrottleShape
  <2> QED BY <1>1, <2>1, <2>2, ShapeSteps
<1>6. NumbersApart'
  BY <1>0, <1>1, NumbersSteps DEF AskOf
<1>7. RowsHeld'
  <2>1. \A n, q, a : HitHeld(n, q, a) => HitHeld(n, q, a)'
    BY <1>1 DEF HitHeld
  <2>2. HitHeld(turn.no, Head(turn.keys), turn.at)'
    BY <1>0, <1>1 DEF HitHeld, AskOf
  <2>3. turn.phase # "idle" /\ ~turn.stale => turn.since = inflight[r].since /\ Lives(r)
    BY <1>0, <1>1 DEF Lives, AskOf
  <2>4. turn.phase = "recount"
    BY <1>0 DEF AskOf
  <2> HIDE DEF HitHeld
  <2> QED BY <1>1, <1>3, <2>1, <2>2, <2>3, <2>4, RowsSteps
<1>8. AdmittedWithin'
  <2>1. \A q \in Buckets : AdmittedOf(q)' \subseteq AdmittedOf(q)
    BY <1>1, AdmittedMoves
  <2> QED BY <1>1, <2>1, <1>4, AdmittedSame
<1>9. GuessesWithin'
  BY <1>1 DEF GuessesWithin
<1> QED BY <1>4, <1>5, <1>6, <1>7, <1>8, <1>9

\* A throttle that lets a request through: its row is among those that were counted.
LEMMA PassesOne ==
  ASSUME ThrottleInv, NEW r \in Requests, gate.kind \in {"chain", "ask"}, inflight[r].phase # "idle",
         NEW k, k = Head(inflight[r].keys),
         NEW no, no = inflight[r].no, NEW at \in 0 .. tick, inflight[r].since <= at,
         Passes(r, {k}, at, at), GoesOn(r), UNCHANGED <<gate, tick, came, spared>>,
         hits \subseteq hits', IsFiniteSet(hits'),
         hits' \subseteq [no : 1 .. came', keys : SUBSET Buckets, at : 0 .. tick],
         ~inflight[r].stale => HitHeld(no, k, at)',
         Cardinality(Counted({k}, at - Window[k])') <= Limit[k]
  PROVE  ThrottleInv'
<1> USE DEF ThrottleInv
<1>0. PICK turn :
        /\ MovesTo(r, turn)
        /\ \/ turn = NoAsk
           \/ /\ turn = AskOf("count", inflight[r].no, Tail(inflight[r].keys), tick, inflight[r].at,
                             inflight[r].stale)
              /\ Tail(inflight[r].keys) # <<>>
  BY AskMoves
<1>1. /\ inflight[r] \in AskRecord /\ inflight[r].since \in Nat /\ inflight[r].no \in 1 .. came
      /\ inflight[r].keys \in Seq(Buckets) /\ inflight[r].keys # <<>>
      /\ \A i, j \in DOMAIN inflight[r].keys : inflight[r].keys[i] = inflight[r].keys[j] => i = j
  BY AskIsTyped DEF ThrottleShape, AskShape, AskRecord
<1>2. /\ k \in Buckets /\ k \in KeysOf(inflight[r].keys)
      /\ Tail(inflight[r].keys) \in Seq(Buckets)
      /\ KeysOf(Tail(inflight[r].keys)) \subseteq KeysOf(inflight[r].keys) \ {k}
      /\ \A i, j \in DOMAIN Tail(inflight[r].keys) :
           Tail(inflight[r].keys)[i] = Tail(inflight[r].keys)[j] => i = j
  BY <1>1, KeysIn
<1>3. /\ turn \in AskRecord' /\ turn.phase \in {"idle", "count"}
      /\ turn.phase # "idle" =>
           /\ turn.no = inflight[r].no /\ turn.keys = Tail(inflight[r].keys)
           /\ turn.since = tick /\ turn.stale = inflight[r].stale /\ Tail(inflight[r].keys) # <<>>
  <2>1. came' = came /\ tick' = tick /\ came \in Nat /\ tick \in Nat /\ inflight[r].at \in 0 .. tick
        /\ inflight[r].stale \in BOOLEAN
    BY <1>1, AskIsTyped DEF AskRecord
  <2>2. CASE turn = NoAsk
    BY <2>1, <2>2 DEF NoAsk, AskRecord, AskPhases
  <2>3. CASE turn # NoAsk
    <3>1. /\ turn = AskOf("count", inflight[r].no, Tail(inflight[r].keys), tick, inflight[r].at,
                         inflight[r].stale)
          /\ Tail(inflight[r].keys) # <<>>
      BY <1>0, <2>3
    <3>2. inflight[r].no \in 0 .. came' /\ tick \in 0 .. tick' /\ inflight[r].at \in 0 .. tick'
      BY <1>1, <2>1
    <3>3. turn \in AskRecord'
      BY <1>2, <2>1, <3>1, <3>2 DEF AskOf, AskRecord, AskPhases
    <3> QED BY <3>1, <3>3 DEF AskOf
  <2> QED BY <2>2, <2>3
<1>4. PICK p : p = [no |-> no, key |-> k, at |-> at, to |-> at]
  OBVIOUS
<1>5. passed' = (IF inflight[r].stale THEN passed ELSE passed \cup {p})
  BY <1>4 DEF Passes
<1>6. ThrottleTypeOK'
  <2>1. p \in [no : 1 .. came', key : Buckets, at : 0 .. tick, to : 0 .. tick]
    BY <1>1, <1>2, <1>4
  <2>2. /\ passed' \subseteq [no : 1 .. came', key : Buckets, at : 0 .. tick, to : 0 .. tick]
        /\ spared' \in [Buckets -> SUBSET (1 .. came')] /\ came' \in came .. gate.total
    BY SMTT(20), <1>5, <2>1, AskIsTyped DEF ThrottleTypeOK
  <2> QED BY <1>0, <1>3, <2>2, TypeSteps
<1>7. ThrottleShape'
  <2>1. AskShape(turn)
    <3>1. CASE turn.phase # "idle"
      <4>1. /\ turn.no = inflight[r].no /\ turn.keys = Tail(inflight[r].keys) /\ Tail(inflight[r].keys) # <<>>
            /\ turn.phase \in {"idle", "count"}
        BY <1>3, <3>1
      <4> HIDE DEF ThrottleInv
      <4>3. turn.no >= 1 /\ turn.keys # <<>> /\ gate.kind # "code" /\ turn.phase # "recount"
        BY <1>1, <4>1
      <4>2. \A i, j \in DOMAIN turn.keys : turn.keys[i] = turn.keys[j] => i = j
        BY <1>2, <1>3, <3>1
      <4> QED BY <4>3, <4>2 DEF AskShape
    <3> QED BY <3>1 DEF AskShape
  <2> QED BY <1>0, <2>1, ShapeSteps
<1>8. NumbersApart'
  BY <1>0, <1>2, <1>3, <1>4, <1>5, NumbersSteps
<1>9. RowsHeld'
  <2>1. \A n, q, a : HitHeld(n, q, a) => HitHeld(n, q, a)'
    BY DEF HitHeld
  <2>2. \A u \in passed' \ passed : HitHeld(u.no, u.key, u.at)'
    BY <1>4, <1>5
  <2> QED BY <1>0, <1>3, <2>1, <2>2, RowsSteps
<1>10. AdmittedWithin'
  <2> SUFFICES ASSUME NEW q \in Buckets, NEW t \in Ticks
               PROVE  /\ IsFiniteSet(WindowOf(q, t)')
                      /\ Cardinality(WindowOf(q, t)') <= Limit[q] + Cardinality(spared'[q])
    BY DEF AdmittedWithin, Ticks
  <2>1. AdmittedOf(q)' = {u \in passed' : u.key = q} /\ AdmittedOf(q) = {u \in passed : u.key = q}
    BY DEF AdmittedOf, Checking
  <2>2. CASE q # k \/ inflight[r].stale \/ at < t \/ at > t + Window[q]
    <3>1. WindowOf(q, t)' \subseteq WindowOf(q, t)
      BY <2>1, <2>2, <1>4, <1>5, LimitTypes, AskIsTyped DEF WindowOf, Ticks
    <3> QED BY <3>1, <1>6, WindowShrinks
  <2>3. CASE q = k /\ ~inflight[r].stale /\ at >= t /\ at <= t + Window[q]
    <3>1. Lives(r)
      BY <2>3 DEF Lives
    <3>2. at - Window[k] \in Int /\ at - Window[k] <= t /\ t \in Nat
      BY SMTT(20), <2>3, <1>2, LimitTypes, AskIsTyped DEF Ticks
    <3>3. ASSUME NEW u \in passed', u.key = k, u.at >= t PROVE HitHeld(u.no, k, u.at)'
      <4>1. CASE u \in passed
        <5>1. u.at \in Int
          BY <4>1 DEF ThrottleTypeOK
        <5>2. u.at >= inflight[r].since - PruneAge
          <6>1. /\ Window[k] \in Int /\ PruneAge \in Int /\ Window[k] <= PruneAge
                /\ at \in Int /\ t \in Int /\ inflight[r].since \in Int
            BY <1>1, <1>2, <3>2, LimitTypes, AskIsTyped
          <6>2. at - Window[k] <= t /\ t <= u.at /\ inflight[r].since <= at
            BY <3>2, <3>3, <5>1, <6>1
          <6> HIDE DEF ThrottleInv
          <6> QED BY <5>1, <6>1, <6>2
        <5>3. ~Dropped(u.at)
          BY <5>1, <5>2, <3>1, <1>1, LimitTypes DEF Dropped
        <5>4. HitHeld(u.no, u.key, u.at)
          BY <4>1, <5>3 DEF RowsHeld
        <5> QED BY <5>4, <3>3 DEF HitHeld
      <4>2. CASE u \notin passed
        BY <4>2, <1>4, <1>5, <2>3
      <4> QED BY <4>1, <4>2
    <3> QED BY <2>3, <3>2, <3>3, <1>2, <1>6, <1>7, <1>8, <1>9, AdmittedCounts
  <2>4. at \in Int /\ t \in Int /\ Window[q] \in Int
    BY LimitTypes, AskIsTyped DEF Ticks
  <2> QED BY <2>2, <2>3, <2>4
<1>11. GuessesWithin'
  BY DEF GuessesWithin
<1> QED BY <1>6, <1>7, <1>8, <1>9, <1>10, <1>11

\* What a count sees can be counted.
LEMMA CountedFinite ==
  ASSUME ThrottleShape, NEW ks, NEW from
  PROVE  IsFiniteSet(Counted(ks, from)) /\ RowsOf(ks, from) \in Nat
<1>1. Counted(ks, from) \in SUBSET hits
  BY DEF Counted
<1> QED BY <1>1, FS_Subset, FS_CardinalityType DEF ThrottleShape, RowsOf

\* The count after the insert decides (tenancy.ts:330-334).
LEMMA RecountKeeps ==
  ASSUME ThrottleInv, NEW r \in Requests, Recount(r) PROVE ThrottleInv'
<1> USE DEF ThrottleInv
<1>1. /\ gate.kind = "chain" /\ inflight[r].phase = "recount" /\ UNCHANGED <<gate, tick, came, hits, spared>>
  BY DEF Recount
<1>2. CASE Leaves(r) /\ UNCHANGED passed
  BY <1>1, <1>2, AskMoves, LeavesKeeps
<1>3. CASE ~(Leaves(r) /\ UNCHANGED passed)
  <2>1. PICK k, no, at : k = Head(inflight[r].keys) /\ no = inflight[r].no /\ at = inflight[r].at
    OBVIOUS
  <2>2. RowsOf({k}, at - Window[k]) <= Limit[k] /\ Passes(r, {k}, at, at) /\ GoesOn(r)
    <3>1. /\ ~(RowsOf({k}, at - Window[k]) > Limit[k]) /\ Passes(r, {k}, at, at) /\ GoesOn(r)
      BY <1>3, <2>1 DEF Recount
    <3>2. k \in Buckets
      BY <1>1, <2>1, AskIsTyped, KeysIn DEF ThrottleShape, AskShape, AskRecord
    <3> QED BY <3>1, <3>2, LimitTypes, CountedFinite
  <2>3. at \in 0 .. tick /\ inflight[r].since <= at /\ inflight[r].phase # "idle"
    BY <1>1, <2>1, AskIsTyped DEF AskRecord, ThrottleShape, AskShape
  <2>4. ~inflight[r].stale => HitHeld(no, k, at)
    BY <1>1, <2>1 DEF RowsHeld, AskHeld
  <2>5. HitHeld(no, k, at) => HitHeld(no, k, at)'
    BY <1>1 DEF HitHeld
  <2>6. /\ hits \subseteq hits' /\ IsFiniteSet(hits')
        /\ hits' \subseteq [no : 1 .. came', keys : SUBSET Buckets, at : 0 .. tick]
    BY <1>1 DEF ThrottleShape, ThrottleTypeOK
  <2>7. Cardinality(Counted({k}, at - Window[k])') <= Limit[k]
    BY <1>1, <2>2 DEF RowsOf, Counted
  <2> HIDE DEF ThrottleInv
  <2> QED BY <1>1, <2>1, <2>2, <2>3, <2>4, <2>5, <2>6, <2>7, PassesOne
<1> QED BY <1>2, <1>3

\* A question counts and inserts under its lock (insights/routes.ts:194).
LEMMA AskTxKeeps ==
  ASSUME ThrottleInv, NEW r \in Requests, NEW at, AskTx(r, at) PROVE ThrottleInv'
<1> USE DEF ThrottleInv
<1>1. /\ gate.kind = "ask" /\ inflight[r].phase = "count" /\ at \in inflight[r].since .. tick
      /\ UNCHANGED <<gate, tick, came, spared>>
  BY DEF AskTx
<1>2. CASE Leaves(r) /\ UNCHANGED <<hits, passed>>
  BY <1>1, <1>2, AskMoves, LeavesKeeps
<1>3. CASE ~(Leaves(r) /\ UNCHANGED <<hits, passed>>)
  <2>1. PICK k, no : k = Head(inflight[r].keys) /\ no = inflight[r].no
    OBVIOUS
  <2>2. PICK row : row = [no |-> no, keys |-> {k}, at |-> at]
    OBVIOUS
  <2>3. /\ ~(RowsOf({k}, at - Window[k]) >= Limit[k]) /\ Passes(r, {k}, at, at) /\ GoesOn(r)
        /\ hits' = hits \cup {row}
    BY <1>3, <2>1, <2>2 DEF AskTx, Add, HitOf
  <2>4. /\ k \in Buckets /\ inflight[r].since \in Nat /\ no \in 1 .. came /\ tick \in Nat
    BY <1>1, <2>1, AskIsTyped, KeysIn DEF ThrottleShape, AskShape, AskRecord
  <2>5. at \in 0 .. tick /\ inflight[r].since <= at /\ inflight[r].phase # "idle"
    BY <1>1, <2>4
  <2>6. HitHeld(no, k, at)'
    BY <2>2, <2>3 DEF HitHeld
  <2>7. /\ hits \subseteq hits' /\ IsFiniteSet(hits')
        /\ hits' \subseteq [no : 1 .. came', keys : SUBSET Buckets, at : 0 .. tick]
    <3>1. IsFiniteSet(hits) /\ hits \subseteq [no : 1 .. came, keys : SUBSET Buckets, at : 0 .. tick]
      BY DEF ThrottleShape, ThrottleTypeOK
    <3>2. row \in [no : 1 .. came, keys : SUBSET Buckets, at : 0 .. tick]
      BY <2>2, <2>4, <2>5
    <3> HIDE DEF ThrottleInv
    <3> QED BY <1>1, <2>3, <3>1, <3>2, FS_AddElement
  <2>8. Cardinality(Counted({k}, at - Window[k])') <= Limit[k]
    <3>1. PICK C : C = Counted({k}, at - Window[k])
      OBVIOUS
    <3>2. IsFiniteSet(C) /\ Cardinality(C) \in Nat /\ Cardinality(C) < Limit[k]
      BY <2>3, <2>4, <3>1, LimitTypes, CountedFinite DEF RowsOf
    <3>3. Counted({k}, at - Window[k])' \in SUBSET (C \cup {row})
      BY <2>3, <3>1 DEF Counted
    <3>4. /\ IsFiniteSet(C \cup {row}) /\ Cardinality(C \cup {row}) <= Cardinality(C) + 1
          /\ Cardinality(C \cup {row}) \in Nat
      <4>1. /\ IsFiniteSet(C \cup {row})
            /\ Cardinality(C \cup {row}) = IF row \in C THEN Cardinality(C) ELSE Cardinality(C) + 1
        BY <3>2, FS_AddElement
      <4> QED BY <3>2, <4>1
    <3>5. /\ Cardinality(Counted({k}, at - Window[k])') <= Cardinality(C \cup {row})
          /\ Cardinality(Counted({k}, at - Window[k])') \in Nat
      BY <3>3, <3>4, FS_Subset, FS_CardinalityType
    <3> QED BY <2>4, <3>2, <3>4, <3>5, LimitTypes
  <2> HIDE DEF ThrottleInv
  <2> QED BY <1>1, <2>1, <2>3, <2>5, <2>6, <2>7, <2>8, PassesOne
<1> QED BY <1>2, <1>3

\* Failed codes are counted before the secret is checked (auth.ts:131).
LEMMA CountFailuresKeeps ==
  ASSUME ThrottleInv, NEW r \in Requests, NEW at, CountFailures(r, at) PROVE ThrottleInv'
<1> USE DEF ThrottleInv
<1>1. /\ gate.kind = "code" /\ inflight[r].phase = "count" /\ at \in inflight[r].since .. tick
      /\ UNCHANGED <<gate, tick, came, hits, passed, spared>>
  BY DEF CountFailures
<1>2. CASE Leaves(r)
  BY <1>1, <1>2, AskMoves, LeavesKeeps
<1>3. CASE ~Leaves(r)
  <2>0. PICK turn : turn = AskOf("verify", inflight[r].no, inflight[r].keys, tick, inflight[r].at, inflight[r].stale)
    OBVIOUS
  <2>1. PICK k : k = Head(inflight[r].keys)
    OBVIOUS
  <2>2. /\ ~(RowsOf(KeysOf(inflight[r].keys), at - Window[k] + 1) >= Limit[k]) /\ MovesTo(r, turn)
    BY <1>3, <2>0, <2>1, AskMoves DEF CountFailures
  <2>3. /\ turn.phase = "verify" /\ turn.no = inflight[r].no /\ turn.keys = inflight[r].keys
        /\ turn.since = tick /\ turn.stale = inflight[r].stale
    BY <2>0 DEF AskOf
  <2>4. turn \in AskRecord'
    BY <1>1, <2>0, AskIsTyped DEF AskOf, AskRecord, AskPhases
  <2>5. ThrottleTypeOK'
    <3>1. /\ hits' \subseteq [no : 1 .. came', keys : SUBSET Buckets, at : 0 .. tick]
          /\ passed' \subseteq [no : 1 .. came', key : Buckets, at : 0 .. tick, to : 0 .. tick]
          /\ spared' \in [Buckets -> SUBSET (1 .. came')] /\ came' \in came .. gate.total
      BY SMTT(20), <1>1, AskIsTyped DEF ThrottleTypeOK
    <3> QED BY <1>1, <2>2, <2>4, <3>1, TypeSteps
  <2>6. ThrottleShape'
    <3>1. AskShape(turn)
      BY <1>1, <2>3 DEF AskShape, ThrottleShape
    <3> QED BY <1>1, <2>2, <3>1, ShapeSteps DEF ThrottleShape
  <2>7. NumbersApart'
    BY <1>1, <2>2, <2>3, NumbersSteps
  <2>8. RowsHeld'
    BY <1>1, <2>2, <2>3, <2>4, RowsSteps DEF HitHeld
  <2>9. AdmittedWithin'
    <3>1. \A q \in Buckets : AdmittedOf(q)' \subseteq AdmittedOf(q)
      BY <1>1, <2>2, AdmittedMoves
    <3> QED BY <1>1, <3>1, <2>5, AdmittedSame
  <2>10. GuessesWithin'
    <3> SUFFICES ASSUME NEW q \in Buckets, NEW t \in Ticks
                 PROVE  Cardinality(Failures(q, t)') + Cardinality(Guessing(q, t)')
                          <= (Limit[q] + Cardinality(Requests)) - 1
      BY <1>1 DEF GuessesWithin, Ticks
    <3>1. Failures(q, t)' = Failures(q, t) /\ Guessing(q, t)' \in SUBSET Requests
      BY <1>1 DEF Failures, Guessing
    <3>2. /\ Cardinality(Guessing(q, t)') \in Nat /\ Cardinality(Guessing(q, t)') <= Cardinality(Requests)
          /\ IsFiniteSet(Guessing(q, t)')
      BY <3>1, LimitTypes, FS_Subset, FS_CardinalityType
    <3>3. CASE r \in Guessing(q, t)'
      <4>1. q \in KeysOf(inflight[r].keys) /\ tick <= t
        BY <2>2, <2>3, <3>3 DEF Guessing, MovesTo
      <4>2. Limit[q] = Limit[k] /\ Window[q] = Window[k] /\ Limit[q] \in Nat /\ Window[q] \in Nat
        BY <1>1, <2>1, <4>1, AskKeys, LimitTypes
      <4>3. at \in Int /\ at <= tick /\ tick \in Int /\ t \in Int
        BY <1>1, AskIsTyped DEF AskRecord, Ticks
      <4>4. \A x \in hits : x.at \in Int
        BY DEF ThrottleTypeOK
      <4>5. Failures(q, t) \in SUBSET Counted(KeysOf(inflight[r].keys), at - Window[k] + 1)
        BY <4>1, <4>2, <4>3, <4>4 DEF Failures, Counted
      <4>6. Cardinality(Failures(q, t)) <= RowsOf(KeysOf(inflight[r].keys), at - Window[k] + 1)
        BY <4>5, CountedFinite, FS_Subset DEF RowsOf
      <4>7. RowsOf(KeysOf(inflight[r].keys), at - Window[k] + 1) < Limit[k]
        BY <2>2, <4>2, CountedFinite
      <4> QED BY <3>1, <3>2, <4>2, <4>6, <4>7, CountedFinite, GuessFinite, LimitTypes
    <3>4. CASE r \notin Guessing(q, t)'
      <4>1. Guessing(q, t)' \in SUBSET Guessing(q, t)
        BY <2>2, <3>4 DEF Guessing, MovesTo
      <4>2. Cardinality(Guessing(q, t)') <= Cardinality(Guessing(q, t))
        BY <4>1, GuessFinite, FS_Subset
      <4>3. Cardinality(Failures(q, t)) + Cardinality(Guessing(q, t)) <= (Limit[q] + Cardinality(Requests)) - 1
        BY <1>1 DEF GuessesWithin
      <4> QED BY <3>1, <3>2, <4>2, <4>3, GuessFinite, LimitTypes
    <3> QED BY <3>3, <3>4
  <2> QED BY <2>5, <2>6, <2>7, <2>8, <2>9, <2>10
<1> QED BY <1>2, <1>3

\* A failed code lands: one failure more, and one guess less (auth.ts:134-171).
LEMMA RecordAttemptKeeps ==
  ASSUME ThrottleInv, NEW r \in Requests, NEW right, NEW at, RecordAttempt(r, right, at) PROVE ThrottleInv'
<1> USE DEF ThrottleInv
<1>1. /\ gate.kind = "code" /\ inflight[r].phase = "verify" /\ at \in inflight[r].since .. tick
      /\ MovesTo(r, NoAsk) /\ UNCHANGED <<gate, tick, came, passed, spared>>
  BY AskMoves DEF RecordAttempt
<1>2. CASE UNCHANGED hits
  BY <1>1, <1>2, LeavesKeeps
<1>3. CASE ~UNCHANGED hits
  <2>1. PICK row : row = [no |-> inflight[r].no, keys |-> KeysOf(inflight[r].keys), at |-> at]
    OBVIOUS
  <2>2. hits' = hits \cup {row}
    BY <1>3, <2>1 DEF RecordAttempt, Add, HitOf
  <2>3. /\ inflight[r].since \in Nat /\ tick \in Nat /\ at \in 0 .. tick /\ inflight[r].since <= at
        /\ NoAsk \in AskRecord' /\ NoAsk.phase = "idle"
    BY <1>1, AskIsTyped DEF AskRecord, NoAsk, AskPhases
  <2>4. ThrottleTypeOK'
    <3>1. row \in [no : 1 .. came, keys : SUBSET Buckets, at : 0 .. tick]
      BY <1>1, <2>1, <2>3, AskKeys
    <3>2. /\ hits' \subseteq [no : 1 .. came', keys : SUBSET Buckets, at : 0 .. tick]
          /\ passed' \subseteq [no : 1 .. came', key : Buckets, at : 0 .. tick, to : 0 .. tick]
          /\ spared' \in [Buckets -> SUBSET (1 .. came')] /\ came' \in came .. gate.total
      BY <1>1, <2>2, <3>1, AskIsTyped DEF ThrottleTypeOK
    <3> QED BY <1>1, <2>3, <3>2, TypeSteps
  <2>5. ThrottleShape'
    <3>1. AskShape(NoAsk)
      BY <2>3 DEF AskShape
    <3>2. IsFiniteSet(hits')
      BY <2>2, FS_AddElement DEF ThrottleShape
    <3> QED BY <1>1, <3>1, <3>2, ShapeSteps
  <2>6. NumbersApart'
    BY <1>1, <2>3, NumbersSteps
  <2>7. RowsHeld'
    <3>1. \A n, q, a : HitHeld(n, q, a) => HitHeld(n, q, a)'
      BY <1>1, <2>2 DEF HitHeld
    <3> QED BY <1>1, <2>3, <3>1, RowsSteps
  <2>8. AdmittedWithin'
    <3>1. \A q \in Buckets : AdmittedOf(q)' \subseteq AdmittedOf(q)
      BY <1>1, <2>3, AdmittedMoves
    <3> QED BY <1>1, <3>1, <2>4, AdmittedSame
  <2>9. GuessesWithin'
    <3> SUFFICES ASSUME NEW q \in Buckets, NEW t \in Ticks
                 PROVE  Cardinality(Failures(q, t)') + Cardinality(Guessing(q, t)')
                          <= (Limit[q] + Cardinality(Requests)) - 1
      BY <1>1 DEF GuessesWithin, Ticks
    <3>1. PICK F, G : F = Failures(q, t) /\ G = Guessing(q, t)
      OBVIOUS
    <3>2. /\ IsFiniteSet(F) /\ IsFiniteSet(G) /\ Cardinality(F) \in Nat /\ Cardinality(G) \in Nat
          /\ Cardinality(F) + Cardinality(G) <= (Limit[q] + Cardinality(Requests)) - 1
      BY <1>1, <3>1, GuessFinite DEF GuessesWithin
    <3>3. Guessing(q, t)' \in SUBSET (G \ {r})
      BY <1>1, <2>3, <3>1 DEF Guessing, MovesTo
    <3>4. /\ IsFiniteSet(G \ {r}) /\ Cardinality(G \ {r}) = IF r \in G THEN Cardinality(G) - 1 ELSE Cardinality(G)
      BY <3>2, FS_RemoveElement
    <3>5. Cardinality(Guessing(q, t)') \in Nat /\ Cardinality(Guessing(q, t)') <= Cardinality(G \ {r})
      BY <3>3, <3>4, FS_Subset, FS_CardinalityType
    <3>6. /\ IsFiniteSet(F \cup {row}) /\ Cardinality(F \cup {row}) <= Cardinality(F) + 1
      <4>1. /\ IsFiniteSet(F \cup {row})
            /\ Cardinality(F \cup {row}) = IF row \in F THEN Cardinality(F) ELSE Cardinality(F) + 1
        BY <3>2, FS_AddElement
      <4> QED BY <3>2, <4>1
    <3>7. CASE q \in KeysOf(inflight[r].keys) /\ at <= t
      <4>1. r \in G
        BY <1>1, <2>3, <3>1, <3>7 DEF Guessing, Ticks
      <4>2. Failures(q, t)' \in SUBSET (F \cup {row})
        BY <2>2, <3>1 DEF Failures
      <4>3. Cardinality(Failures(q, t)') \in Nat /\ Cardinality(Failures(q, t)') <= Cardinality(F \cup {row})
            /\ Cardinality(F \cup {row}) \in Nat
        BY <4>2, <3>6, FS_Subset, FS_CardinalityType
      <4> QED BY <3>2, <3>4, <3>5, <3>6, <4>1, <4>3, LimitTypes
    <3>8. CASE ~(q \in KeysOf(inflight[r].keys) /\ at <= t)
      <4>1. Failures(q, t)' \in SUBSET F
        BY <2>1, <2>2, <3>1, <3>8 DEF Failures
      <4>2. Cardinality(Failures(q, t)') \in Nat /\ Cardinality(Failures(q, t)') <= Cardinality(F)
        BY <4>1, <3>2, FS_Subset, FS_CardinalityType
      <4> QED BY <3>2, <3>4, <3>5, <4>2, LimitTypes
    <3> QED BY <3>7, <3>8
  <2> QED BY <2>4, <2>5, <2>6, <2>7, <2>8, <2>9
<1> QED BY <1>2, <1>3

\* A password's rows are recorded before it is checked (hosted/routes.ts:540).
LEMMA RecordFirstKeeps ==
  ASSUME ThrottleInv, NEW r \in Requests, NEW at, RecordFirst(r, at) PROVE ThrottleInv'
<1> USE DEF ThrottleInv
<1>0. PICK turn, ks, no :
        /\ turn = AskOf("recheck", inflight[r].no, inflight[r].keys, inflight[r].since, at, inflight[r].stale)
        /\ ks = inflight[r].keys /\ no = inflight[r].no
  OBVIOUS
<1>1. PICK own : own = {[no |-> no, keys |-> {k}, at |-> at] : k \in KeysOf(ks)}
  OBVIOUS
<1>2. /\ gate.kind = "password" /\ inflight[r].phase = "record" /\ at \in inflight[r].since .. tick
      /\ MovesTo(r, turn) /\ hits' = hits \cup own /\ UNCHANGED <<gate, tick, came, passed, spared>>
  BY <1>0, <1>1, AskMoves DEF RecordFirst, HitOf
<1>3. /\ turn.phase = "recheck" /\ turn.no = no /\ turn.keys = ks /\ turn.since = inflight[r].since
      /\ turn.stale = inflight[r].stale /\ turn.at = at
  BY <1>0 DEF AskOf
<1>4. /\ inflight[r] \in AskRecord /\ at \in 0 .. tick /\ KeysOf(ks) \subseteq Buckets /\ no \in 1 .. came
      /\ ks \in Seq(Buckets) /\ turn \in AskRecord'
  <2>1. inflight[r] \in AskRecord /\ tick \in Nat /\ inflight[r].since \in Nat
    BY AskIsTyped DEF AskRecord
  <2>2. at \in 0 .. tick
    BY <1>2, <2>1
  <2>3. KeysOf(ks) \subseteq Buckets /\ no \in 1 .. came /\ ks \in Seq(Buckets)
    BY <1>0, <1>2, AskKeys
  <2> QED BY <1>0, <1>2, <2>1, <2>2, <2>3 DEF AskOf, AskRecord, AskPhases
<1>5. ThrottleTypeOK'
  <2>1. own \subseteq [no : 1 .. came', keys : SUBSET Buckets, at : 0 .. tick]
    BY <1>1, <1>2, <1>4
  <2>2. /\ hits' \subseteq [no : 1 .. came', keys : SUBSET Buckets, at : 0 .. tick]
        /\ passed' \subseteq [no : 1 .. came', key : Buckets, at : 0 .. tick, to : 0 .. tick]
        /\ spared' \in [Buckets -> SUBSET (1 .. came')] /\ came' \in came .. gate.total
    BY SMTT(20), <1>2, <2>1, AskIsTyped DEF ThrottleTypeOK
  <2> QED BY <1>2, <1>4, <2>2, TypeSteps
<1>6. ThrottleShape'
  <2>1. AskShape(turn)
    BY SMTT(20), <1>0, <1>2, <1>3 DEF AskShape, ThrottleShape
  <2>2. IsFiniteSet(own)
    <3> DEFINE f == [i \in 1 .. Len(ks) |-> [no |-> no, keys |-> {ks[i]}, at |-> at]]
    <3>1. Len(ks) \in Nat /\ DOMAIN ks = 1 .. Len(ks)
      BY <1>4
    <3>2. f \in Surjection(1 .. Len(ks), own)
      BY <1>1, <3>1 DEF Surjection, KeysOf
    <3>3. IsFiniteSet(1 .. Len(ks))
      BY <3>1, FS_Interval
    <3> QED BY <3>2, <3>3, FS_Surjection
  <2>3. IsFiniteSet(hits')
    BY <1>2, <2>2, FS_Union DEF ThrottleShape
  <2> QED BY <1>2, <2>1, <2>3, ShapeSteps
<1>7. NumbersApart'
  BY <1>0, <1>2, <1>3, NumbersSteps
<1>8. RowsHeld'
  <2>1. \A n, q, a : HitHeld(n, q, a) => HitHeld(n, q, a)'
    BY <1>2 DEF HitHeld
  <2>2. \A k \in KeysOf(ks) : HitHeld(no, k, at)'
    BY <1>1, <1>2 DEF HitHeld
  <2>3. ~turn.stale => turn.since = inflight[r].since /\ Lives(r)
    BY <1>2, <1>3 DEF Lives
  <2> QED BY <1>2, <1>3, <1>4, <2>1, <2>2, <2>3, RowsSteps
<1>9. AdmittedWithin'
  <2>1. \A q \in Buckets : AdmittedOf(q)' \subseteq AdmittedOf(q)
    BY <1>2, <1>3, AdmittedMoves
  <2> QED BY <1>2, <2>1, <1>5, AdmittedSame
<1>10. GuessesWithin'
  BY <1>2 DEF GuessesWithin
<1> QED BY <1>5, <1>6, <1>7, <1>8, <1>9, <1>10

\* The count after recording lets the password be checked (hosted/routes.ts:542).
LEMMA CheckAgainKeeps ==
  ASSUME ThrottleInv, NEW r \in Requests, CheckAgain(r) PROVE ThrottleInv'
<1> USE DEF ThrottleInv
<1>1. /\ gate.kind = "password" /\ inflight[r].phase = "recheck"
      /\ UNCHANGED <<gate, tick, came, hits, passed, spared>>
  BY DEF CheckAgain
<1>2. CASE Leaves(r)
  BY <1>1, <1>2, AskMoves, LeavesKeeps
<1>3. CASE ~Leaves(r)
  <2>0. PICK turn : turn = AskOf("verify", inflight[r].no, inflight[r].keys, tick, inflight[r].at, inflight[r].stale)
    OBVIOUS
  <2>1. MovesTo(r, turn) /\ \A k \in KeysOf(inflight[r].keys) : ~(RowsOf({k}, tick - Window[k]) > Limit[k])
    BY <1>3, <2>0, AskMoves DEF CheckAgain, LockedOut
  <2>2. /\ turn.phase = "verify" /\ turn.no = inflight[r].no /\ turn.keys = inflight[r].keys
        /\ turn.since = tick /\ turn.stale = inflight[r].stale /\ turn.at = inflight[r].at
    BY <2>0 DEF AskOf
  <2>3. turn \in AskRecord'
    BY <1>1, <2>0, AskIsTyped DEF AskOf, AskRecord, AskPhases
  <2>4. ThrottleTypeOK'
    <3>1. /\ hits' \subseteq [no : 1 .. came', keys : SUBSET Buckets, at : 0 .. tick]
          /\ passed' \subseteq [no : 1 .. came', key : Buckets, at : 0 .. tick, to : 0 .. tick]
          /\ spared' \in [Buckets -> SUBSET (1 .. came')] /\ came' \in came .. gate.total
      BY SMTT(20), <1>1, AskIsTyped DEF ThrottleTypeOK
    <3> QED BY <1>1, <2>1, <2>3, <3>1, TypeSteps
  <2>5. ThrottleShape'
    <3>1. AskShape(turn)
      BY <1>1, <2>2 DEF AskShape, ThrottleShape
    <3> QED BY <1>1, <2>1, <3>1, ShapeSteps DEF ThrottleShape
  <2>6. NumbersApart'
    BY <1>1, <2>1, <2>2, NumbersSteps
  <2>7. RowsHeld'
    <3>1. \A n, q, a : HitHeld(n, q, a) => HitHeld(n, q, a)'
      BY <1>1 DEF HitHeld
    <3>2. ~turn.stale => \A k \in KeysOf(turn.keys) : HitHeld(turn.no, k, turn.at)
      BY <1>1, <2>2 DEF RowsHeld, AskHeld
    <3> QED BY <1>1, <2>1, <2>2, <2>3, <3>1, <3>2, RowsSteps
  <2>8. AdmittedWithin'
    <3> SUFFICES ASSUME NEW k \in Buckets, NEW t \in Ticks
                 PROVE  /\ IsFiniteSet(WindowOf(k, t)')
                        /\ Cardinality(WindowOf(k, t)') <= Limit[k] + Cardinality(spared'[k])
      BY <1>1 DEF AdmittedWithin, Ticks
    <3>0. Window[k] \in Nat /\ Window[k] <= PruneAge /\ PruneAge \in Nat /\ Limit[k] \in Nat /\ t \in Nat /\ tick \in Nat
      BY LimitTypes, AskIsTyped DEF Ticks
    <3>1. CASE k \notin KeysOf(inflight[r].keys) \/ inflight[r].stale \/ tick > t + Window[k]
      <4>1. ASSUME NEW p \in WindowOf(k, t)' PROVE p \in WindowOf(k, t)
        <5>1. p.at >= t /\ p.to <= t + Window[k] /\ p \in AdmittedOf(k)'
          BY DEF WindowOf
        <5>2. CASE p \in passed
          BY <5>1, <5>2 DEF WindowOf, AdmittedOf, Checking
        <5>3. ASSUME NEW q \in Checking(k)',
                     p = [no |-> inflight'[q].no, key |-> k, at |-> inflight'[q].at, to |-> inflight'[q].since]
              PROVE  p \in AdmittedOf(k)
          <6>1. q # r
            BY <2>1, <2>2, <3>0, <3>1, <5>1, <5>3 DEF Checking, Lives, MovesTo
          <6>2. q \in Checking(k) /\ inflight'[q] = inflight[q]
            BY <1>1, <2>1, <6>1 DEF Checking, Lives, MovesTo
          <6> QED BY <5>3, <6>2 DEF AdmittedOf
        <5>4. p \in AdmittedOf(k)
          BY <1>1, <5>1, <5>3 DEF AdmittedOf
        <5> QED BY <5>1, <5>4 DEF WindowOf
      <4> QED BY <1>1, <4>1, <2>4, WindowShrinks
    <3>2. CASE k \in KeysOf(inflight[r].keys) /\ ~inflight[r].stale /\ tick <= t + Window[k]
      <4>1. Lives(r) /\ inflight[r].since \in Nat /\ inflight[r].since <= tick
        BY <1>1, <3>0, <3>2, AskIsTyped DEF Lives, AskRecord
      <4>2. tick - Window[k] \in Int /\ tick - Window[k] <= t
        BY <3>0, <3>2
      <4>3. Cardinality(Counted({k}, tick - Window[k])) <= Limit[k]
        <5>1. RowsOf({k}, tick - Window[k]) \in Nat
          BY CountedFinite
        <5>2. ~(RowsOf({k}, tick - Window[k]) > Limit[k])
          BY <2>1, <3>2
        <5> HIDE DEF ThrottleInv
        <5> QED BY <3>0, <5>1, <5>2 DEF RowsOf
      <4>4. PICK from : from = tick - Window[k]
        OBVIOUS
      <4>5. Cardinality(Counted({k}, from)') <= Limit[k]
        BY <1>1, <4>3, <4>4 DEF Counted
      <4>6. ASSUME NEW u \in passed', u.key = k, u.at >= t PROVE HitHeld(u.no, k, u.at)'
        <5>1. u \in passed /\ u.at \in Int
          BY <1>1 DEF ThrottleTypeOK
        <5>2. ~Dropped(u.at)
          BY <3>0, <4>1, <4>2, <4>6, <5>1 DEF Dropped
        <5> QED BY <1>1, <4>6, <5>1, <5>2 DEF RowsHeld, HitHeld
      <4> QED BY <1>1, <4>2, <4>4, <4>5, <4>6, <2>4, <2>5, <2>6, <2>7, AdmittedCounts
    <3> QED BY <3>0, <3>1, <3>2
  <2>9. GuessesWithin'
    BY <1>1 DEF GuessesWithin
  <2> QED BY <2>4, <2>5, <2>6, <2>7, <2>8, <2>9
<1> QED BY <1>2, <1>3

\* A wrong password passes with its rows, a right one withdraws them and perhaps others.
LEMMA VerifyKeeps ==
  ASSUME ThrottleInv, NEW r \in Requests, NEW right, NEW taken, VerifyPassword(r, right, taken)
  PROVE  ThrottleInv'
<1> USE DEF ThrottleInv
<1>0. PICK ks, no, on, to : ks = KeysOf(inflight[r].keys) /\ no = inflight[r].no /\ on = inflight[r].at /\ to = inflight[r].since
  OBVIOUS
<1>1. /\ gate.kind = "password" /\ inflight[r].phase = "verify" /\ MovesTo(r, NoAsk)
      /\ UNCHANGED <<gate, tick, came>>
  BY AskMoves DEF VerifyPassword
<1>2. /\ NoAsk \in AskRecord' /\ NoAsk.phase = "idle" /\ ks \subseteq Buckets /\ no \in 1 .. came
      /\ on \in 0 .. tick /\ to \in 0 .. tick
  BY <1>0, <1>1, AskIsTyped, AskKeys DEF NoAsk, AskRecord, AskPhases
<1>3. ThrottleShape'
  <2>1. AskShape(NoAsk)
    BY <1>2 DEF AskShape
  <2>2. hits' \in SUBSET hits
    BY DEF VerifyPassword
  <2>3. IsFiniteSet(hits')
    BY <2>2, FS_Subset DEF ThrottleShape
  <2> QED BY <1>1, <2>1, <2>3, ShapeSteps
<1>4. GuessesWithin'
  BY <1>1 DEF GuessesWithin
<1>5. CASE right
  <2>1. PICK own : own = {[no |-> no, keys |-> {k}, at |-> on] : k \in ks}
    OBVIOUS
  <2>2. /\ taken \subseteq hits /\ hits' = (hits \ own) \ taken /\ passed' = passed
        /\ spared' = [k \in Buckets |-> spared[k] \cup {x.no : x \in {y \in taken : k \in y.keys}}]
    BY <1>0, <1>5, <2>1 DEF VerifyPassword, Beside, HitOf
  <2>3. \A k \in Buckets : spared[k] \subseteq spared'[k]
    BY <2>2
  <2>4. ThrottleTypeOK'
    <3>1. \A x \in taken : x.no \in 1 .. came
      BY <2>2 DEF ThrottleTypeOK
    <3>2. spared' \in [Buckets -> SUBSET (1 .. came)]
      BY <2>2, <3>1 DEF ThrottleTypeOK
    <3>3. /\ hits' \subseteq [no : 1 .. came', keys : SUBSET Buckets, at : 0 .. tick]
          /\ passed' \subseteq [no : 1 .. came', key : Buckets, at : 0 .. tick, to : 0 .. tick]
          /\ spared' \in [Buckets -> SUBSET (1 .. came')] /\ came' \in came .. gate.total
      BY <1>1, <2>2, <3>2, AskIsTyped DEF ThrottleTypeOK
    <3> QED BY <1>1, <1>2, <3>3, TypeSteps
  <2>5. NumbersApart'
    BY <1>1, <1>2, <2>2, NumbersSteps
  <2>6. RowsHeld'
    <3>1. ASSUME NEW n, NEW at, NEW k \in Buckets, HitHeld(n, k, at), ~(n = no /\ k \in ks)
          PROVE  HitHeld(n, k, at)'
      <4>1. PICK row : row = [no |-> n, keys |-> {k}, at |-> at]
        OBVIOUS
      <4>2. CASE n \in spared[k]
        BY <2>3, <4>2 DEF HitHeld
      <4>3. CASE row \in taken
        BY <2>2, <4>1, <4>3 DEF HitHeld
      <4>4. row \notin own
        BY <2>1, <3>1, <4>1
      <4> QED BY <2>2, <3>1, <4>1, <4>2, <4>3, <4>4 DEF HitHeld
    <3> QED BY <1>0, <1>1, <1>2, <2>2, <3>1, RowsSteps
  <2>7. AdmittedWithin'
    <3>1. \A q \in Buckets : AdmittedOf(q)' \subseteq AdmittedOf(q)
      BY <1>1, <1>2, <2>2, AdmittedMoves
    <3> QED BY <1>1, <2>3, <2>4, <3>1, AdmittedSame
  <2> QED BY <1>3, <1>4, <2>4, <2>5, <2>6, <2>7
<1>6. CASE ~right
  <2>1. PICK N : N = {[no |-> no, key |-> k, at |-> on, to |-> to] : k \in ks}
    OBVIOUS
  <2>2. /\ UNCHANGED <<hits, spared>>
        /\ passed' = (IF inflight[r].stale THEN passed ELSE passed \cup N)
    BY <1>0, <1>6, <2>1 DEF VerifyPassword, Passes
  <2>3. \A p \in passed' \ passed : /\ ~inflight[r].stale /\ p.key \in ks /\ p.no = no /\ p.at = on
                                     /\ p = [no |-> no, key |-> p.key, at |-> on, to |-> to]
    BY <2>1, <2>2
  <2>4. ThrottleTypeOK'
    <3>1. N \subseteq [no : 1 .. came, key : Buckets, at : 0 .. tick, to : 0 .. tick]
      BY <1>2, <2>1
    <3>2. /\ hits' \subseteq [no : 1 .. came', keys : SUBSET Buckets, at : 0 .. tick]
          /\ passed' \subseteq [no : 1 .. came', key : Buckets, at : 0 .. tick, to : 0 .. tick]
          /\ spared' \in [Buckets -> SUBSET (1 .. came')] /\ came' \in came .. gate.total
      BY SMTT(20), <1>1, <2>2, <3>1, AskIsTyped DEF ThrottleTypeOK
    <3> QED BY <1>1, <1>2, <3>2, TypeSteps
  <2>5. NumbersApart'
    <3>1. \A p, q \in passed' \ passed : p.key = q.key => p = q
      BY <2>3
    <3> QED BY <1>0, <1>1, <1>2, <2>3, <3>1, NumbersSteps
  <2>6. RowsHeld'
    <3>1. \A n, at : \A k \in Buckets : HitHeld(n, k, at) => HitHeld(n, k, at)'
      BY <2>2 DEF HitHeld
    <3>2. \A p \in passed' \ passed : HitHeld(p.no, p.key, p.at)
      BY <1>0, <1>1, <2>3 DEF RowsHeld, AskHeld
    <3>3. \A p \in passed' \ passed : HitHeld(p.no, p.key, p.at)'
      BY <1>2, <2>3, <3>1, <3>2
    <3> QED BY <1>1, <1>2, <3>1, <3>3, RowsSteps
  <2>7. AdmittedWithin'
    <3>1. \A p \in passed' \ passed : p.key \in Buckets /\ r \in Checking(p.key)
      BY <1>0, <1>1, <1>2, <2>3 DEF Checking, Lives
    <3>2. \A q \in Buckets : AdmittedOf(q)' \subseteq AdmittedOf(q)
      BY <1>0, <1>1, <1>2, <2>3, <3>1, AdmittedMoves
    <3> QED BY <1>1, <2>2, <2>4, <3>2, AdmittedSame
  <2> QED BY <1>3, <1>4, <2>4, <2>5, <2>6, <2>7
<1> QED BY <1>5, <1>6

\* Pruning meets everybody in flight, and takes rows that no later window reaches.
LEMMA PruneKeeps ==
  ASSUME ThrottleInv, Prune PROVE ThrottleInv'
<1> USE DEF ThrottleInv
<1>1. PICK old : old = {x \in hits : x.at < tick - PruneAge}
  OBVIOUS
<1>2. /\ gate.kind # "code" /\ hits' = hits \ old /\ UNCHANGED <<gate, tick, came, passed, spared>>
      /\ inflight' = [r \in Requests |-> [inflight[r] EXCEPT !.stale = inflight[r].phase # "idle"]]
  BY <1>1 DEF Prune
<1>3. ASSUME NEW r \in Requests
      PROVE  /\ inflight'[r] \in AskRecord
             /\ inflight'[r].phase = inflight[r].phase /\ inflight'[r].no = inflight[r].no
             /\ inflight'[r].keys = inflight[r].keys /\ inflight'[r].since = inflight[r].since
             /\ inflight'[r].at = inflight[r].at /\ (inflight[r].phase # "idle" => inflight'[r].stale)
  <2>1. PICK b \in BOOLEAN : b = (inflight[r].phase # "idle")
    OBVIOUS
  <2>2. inflight'[r] = [inflight[r] EXCEPT !.stale = b]
    BY <1>2, <2>1
  <2>3. inflight[r] \in AskRecord
    BY AskIsTyped
  <2> HIDE DEF ThrottleInv
  <2>4. inflight'[r] \in AskRecord /\ inflight'[r].stale = b /\ inflight'[r].at = inflight[r].at
        /\ inflight'[r].phase = inflight[r].phase /\ inflight'[r].no = inflight[r].no
        /\ inflight'[r].keys = inflight[r].keys /\ inflight'[r].since = inflight[r].since
    BY <2>2, <2>3 DEF AskRecord
  <2> QED BY <2>1, <2>4
<1>4. \A r \in Requests :
        /\ inflight'[r].phase = inflight[r].phase /\ inflight'[r].no = inflight[r].no
        /\ inflight'[r].keys = inflight[r].keys
  BY <1>3
<1>5. \A r \in Requests : ~Lives(r)'
  BY <1>3 DEF Lives
<1>6. ThrottleTypeOK'
  <2>1. \A r \in Requests : inflight'[r] \in AskRecord
    BY <1>3
  <2>2. inflight' \in [Requests -> AskRecord]
    BY <1>2, <2>1 DEF AskRecord
  <2>3. /\ hits' \subseteq [no : 1 .. came, keys : SUBSET Buckets, at : 0 .. tick]
        /\ passed' \subseteq [no : 1 .. came, key : Buckets, at : 0 .. tick, to : 0 .. tick]
        /\ spared' \in [Buckets -> SUBSET (1 .. came)] /\ came \in 0 .. gate.total /\ gate \in Gates
        /\ tick \in Ticks
    BY <1>2 DEF ThrottleTypeOK
  <2> QED BY <1>2, <2>2, <2>3 DEF ThrottleTypeOK, AskRecord, Ticks
<1>7. ThrottleShape'
  <2>1. IsFiniteSet(hits')
    BY <1>2, FS_Difference DEF ThrottleShape
  <2>2. ASSUME NEW r \in Requests PROVE AskShape(inflight[r])'
    BY <1>2, <1>3 DEF ThrottleShape, AskShape
  <2> QED BY <2>1, <2>2 DEF ThrottleShape
<1>8. NumbersApart'
  <2> HIDE DEF ThrottleInv
  <2>1. NumbersApart
    BY DEF ThrottleInv
  <2>2. ASSUME NEW r \in Requests, NEW q \in Requests, inflight'[r].phase # "idle",
               inflight'[q].phase # "idle", r # q
        PROVE  inflight'[r].no # inflight'[q].no
    BY <1>4, <2>1, <2>2 DEF NumbersApart
  <2>3. ASSUME NEW p \in passed, NEW r \in Requests, inflight'[r].phase # "idle", p.no = inflight'[r].no
        PROVE  p.key \notin KeysOf(inflight'[r].keys)
    BY <1>4, <2>1, <2>3 DEF NumbersApart
  <2>4. passed' = passed /\ \A p, q \in passed : p.no = q.no /\ p.key = q.key => p = q
    BY <1>2, <2>1 DEF NumbersApart
  <2> QED BY <2>2, <2>3, <2>4 DEF NumbersApart
<1>9. RowsHeld'
  <2>1. ASSUME NEW p \in passed PROVE HitHeld(p.no, p.key, p.at)' \/ Dropped(p.at)'
    <3>1. CASE HitHeld(p.no, p.key, p.at)
      <4>1. PICK row : row = [no |-> p.no, keys |-> {p.key}, at |-> p.at]
        OBVIOUS
      <4>2. CASE row \in old
        BY <1>1, <1>2, <1>5, <4>1, <4>2 DEF Dropped
      <4> QED BY <1>2, <3>1, <4>1, <4>2 DEF HitHeld
    <3>2. CASE Dropped(p.at)
      BY <1>2, <1>5, <3>2 DEF Dropped
    <3> QED BY <3>1, <3>2 DEF RowsHeld
  <2>2. ASSUME NEW r \in Requests PROVE AskHeld(inflight[r])'
    BY <1>3 DEF AskHeld
  <2> QED BY <1>2, <2>1, <2>2 DEF RowsHeld
<1>10. AdmittedWithin'
  <2>1. \A k \in Buckets : AdmittedOf(k)' \subseteq AdmittedOf(k)
    BY <1>2, <1>5 DEF AdmittedOf, Checking
  <2> QED BY <1>2, <1>6, <2>1, AdmittedSame
<1>11. GuessesWithin'
  BY <1>2 DEF GuessesWithin
<1> QED BY <1>6, <1>7, <1>8, <1>9, <1>10, <1>11

\* Time passes.
LEMMA TickKeeps ==
  ASSUME ThrottleInv, Tick PROVE ThrottleInv'
<1> USE DEF ThrottleInv
<1>1. /\ tick' = tick + 1 /\ tick < gate.ticks /\ tick \in Nat
      /\ UNCHANGED <<gate, came, hits, inflight, passed, spared>>
  BY AskIsTyped DEF Tick, ThrottleTypeOK, Ticks
<1>2. ThrottleTypeOK'
  <2>1. tick' \in Ticks' /\ 0 .. tick \subseteq 0 .. tick'
    BY SMTT(20), <1>1, AskIsTyped, ThrottleAssumption DEF Ticks, ThrottleTypeOK
  <2>2. /\ hits \subseteq [no : 1 .. came, keys : SUBSET Buckets, at : 0 .. tick']
        /\ passed \subseteq [no : 1 .. came, key : Buckets, at : 0 .. tick', to : 0 .. tick']
    BY <2>1 DEF ThrottleTypeOK
  <2>3. inflight \in [Requests -> AskRecord']
    <3>1. AskRecord \subseteq AskRecord'
      BY <1>1, <2>1 DEF AskRecord
    <3>2. inflight \in [Requests -> AskRecord]
      BY DEF ThrottleTypeOK, AskRecord
    <3> QED BY <3>1, <3>2
  <2> QED BY <1>1, <2>1, <2>2, <2>3 DEF ThrottleTypeOK, AskRecord
<1>3. ThrottleShape' /\ NumbersApart'
  BY <1>1 DEF ThrottleShape, AskShape, NumbersApart
<1>4. RowsHeld'
  <2>1. \A n, k, at : HitHeld(n, k, at)' = HitHeld(n, k, at)
    BY <1>1 DEF HitHeld
  <2>2. ASSUME NEW p \in passed, Dropped(p.at) PROVE Dropped(p.at)'
    <3>1. p.at \in Int /\ PruneAge \in Int /\ tick \in Int
      BY <1>1, LimitTypes DEF ThrottleTypeOK
    <3> QED BY <1>1, <2>2, <3>1 DEF Dropped, Lives
  <2> QED BY <1>1, <2>2 DEF RowsHeld, AskHeld, HitHeld
<1>5. AdmittedWithin'
  <2>1. \A k \in Buckets : AdmittedOf(k)' \subseteq AdmittedOf(k)
    BY <1>1 DEF AdmittedOf, Checking, Lives
  <2> QED BY <1>1, <1>2, <2>1, AdmittedSame
<1>6. GuessesWithin'
  <2>1. \A k \in Buckets : \A t \in Ticks : Guessing(k, t)' \subseteq Guessing(k, t)
    BY <1>1 DEF Guessing
  <2> QED BY <1>1, <2>1, GuessSame
<1> QED BY <1>2, <1>3, <1>4, <1>5, <1>6

\* Nothing has happened yet.
LEMMA ThrottleInitially ==
  ASSUME ThrottleInit PROVE ThrottleInv
<1>1. /\ gate \in Gates /\ gate.ticks \in Nat /\ gate.total \in Nat /\ tick = 0 /\ hits = {} /\ came = 0
      /\ passed = {} /\ \A r \in Requests : inflight[r] = NoAsk
      /\ inflight \in [Requests -> {NoAsk}] /\ spared = [k \in Buckets |-> {}]
  BY ThrottleAssumption DEF ThrottleInit
<1>2. ThrottleTypeOK
  <2>1. NoAsk \in AskRecord
    BY <1>1 DEF NoAsk, AskRecord, AskPhases
  <2> QED BY <1>1, <2>1 DEF ThrottleTypeOK, AskRecord, Ticks
<1>3. NoAsk.phase = "idle"
  BY DEF NoAsk
<1>4. ThrottleShape /\ NumbersApart /\ RowsHeld
  BY <1>1, <1>3, FS_EmptySet DEF ThrottleShape, AskShape, NumbersApart, RowsHeld, AskHeld
<1>5. AdmittedWithin
  <2> SUFFICES ASSUME NEW k \in Buckets, NEW t \in Ticks
               PROVE  /\ IsFiniteSet(WindowOf(k, t))
                      /\ Cardinality(WindowOf(k, t)) <= Limit[k] + Cardinality(spared[k])
    BY DEF AdmittedWithin
  <2>1. WindowOf(k, t) = {} /\ spared[k] = {}
    BY <1>1, <1>3 DEF WindowOf, AdmittedOf, Checking, Lives
  <2> QED BY <2>1, FS_EmptySet, LimitTypes
<1>6. GuessesWithin
  <2> SUFFICES ASSUME NEW k \in Buckets, NEW t \in Ticks
               PROVE  Cardinality(Failures(k, t)) + Cardinality(Guessing(k, t))
                        <= (Limit[k] + Cardinality(Requests)) - 1
    BY DEF GuessesWithin
  <2>1. Failures(k, t) = {} /\ Guessing(k, t) = {}
    BY <1>1, <1>3 DEF Failures, Guessing
  <2> QED BY <2>1, FS_EmptySet, LimitTypes
<1> QED BY <1>2, <1>4, <1>5, <1>6 DEF ThrottleInv

\* Every step keeps the invariant.
LEMMA ThrottleStep ==
  ASSUME ThrottleInv, [ThrottleNext]_throttleVars PROVE ThrottleInv'
<1>1. CASE UNCHANGED throttleVars
  <2> USE <1>1 DEF throttleVars
  <2>1. ThrottleTypeOK'
    BY DEF ThrottleInv, ThrottleTypeOK, Ticks
  <2>2. ThrottleShape' /\ NumbersApart'
    BY DEF ThrottleInv, ThrottleShape, AskShape, NumbersApart
  <2>3. RowsHeld'
    BY DEF ThrottleInv, RowsHeld, AskHeld, HitHeld, Dropped, Lives
  <2>4. AdmittedWithin'
    BY DEF ThrottleInv, AdmittedWithin, WindowOf, AdmittedOf, Checking, Lives, Ticks
  <2>5. GuessesWithin'
    BY DEF ThrottleInv, GuessesWithin, Failures, Guessing, Ticks
  <2> QED BY <2>1, <2>2, <2>3, <2>4, <2>5 DEF ThrottleInv
<1>2. ASSUME NEW r \in Requests, NEW ks \in gate.chains, Arrive(r, ks) PROVE ThrottleInv'
  BY <1>2, ArriveKeeps
<1>3. ASSUME NEW r \in Requests, CountEarly(r) \/ Recount(r) \/ CheckLocked(r) \/ CheckAgain(r)
      PROVE  ThrottleInv'
  BY <1>3, CountsKeep, RecountKeeps, CheckAgainKeeps
<1>4. ASSUME NEW r \in Requests, NEW at \in Ticks,
             InsertHit(r, at) \/ AskTx(r, at) \/ CountFailures(r, at) \/ RecordFirst(r, at)
      PROVE  ThrottleInv'
  BY <1>4, InsertKeeps, AskTxKeeps, CountFailuresKeeps, RecordFirstKeeps
<1>5. ASSUME NEW r \in Requests, NEW at \in Ticks, NEW right \in BOOLEAN, RecordAttempt(r, right, at)
      PROVE  ThrottleInv'
  BY <1>5, RecordAttemptKeeps
<1>6. ASSUME NEW r \in Requests, NEW right \in BOOLEAN, NEW taken, VerifyPassword(r, right, taken)
      PROVE  ThrottleInv'
  BY <1>6, VerifyKeeps
<1>7. CASE ThrottleNext
  BY <1>2, <1>3, <1>4, <1>5, <1>6, <1>7, PruneKeeps, TickKeeps DEF ThrottleNext
<1> QED BY <1>1, <1>7

\* What passed is part of what is admitted, and failures are part of the guesses' sum.
LEMMA LimitsFollow ==
  ASSUME ThrottleInv PROVE LimitsHold
<1> USE DEF ThrottleInv
<1>1. AdmitsWithinLimit
  <2> SUFFICES ASSUME NEW k \in Buckets, NEW t \in Ticks
               PROVE  Cardinality({p \in passed : p.key = k /\ p.at >= t /\ p.to <= t + Window[k]})
                        <= Limit[k] + Cardinality(spared[k])
    BY DEF AdmitsWithinLimit
  <2>1. {p \in passed : p.key = k /\ p.at >= t /\ p.to <= t + Window[k]} \in SUBSET WindowOf(k, t)
    BY DEF WindowOf, AdmittedOf
  <2>2. IsFiniteSet(WindowOf(k, t)) /\ Cardinality(WindowOf(k, t)) <= Limit[k] + Cardinality(spared[k])
    BY DEF AdmittedWithin
  <2> QED BY <2>1, <2>2, FS_Subset, FS_CardinalityType, SparedFinite, LimitTypes
<1>2. LockoutHolds
  <2> SUFFICES ASSUME gate.kind = "code", NEW k \in Buckets, NEW t \in Ticks
               PROVE  Cardinality(Failures(k, t)) <= Limit[k] + Cardinality(Requests) - 1
    BY DEF LockoutHolds, Failures
  <2>1. Cardinality(Failures(k, t)) + Cardinality(Guessing(k, t)) <= (Limit[k] + Cardinality(Requests)) - 1
    BY DEF GuessesWithin
  <2> QED BY <2>1, GuessFinite, LimitTypes
<1> QED BY <1>1, <1>2 DEF LimitsHold

\* The invariant of the throttles: rows, requests on their way and what has passed, for
\* any number of requests and keys, any limits and windows.
THEOREM ThrottleInvariance == ThrottleSpec => []ThrottleInv
<1>1. ThrottleInit => ThrottleInv
  BY ThrottleInitially
<1>2. ThrottleInv /\ [ThrottleNext]_throttleVars => ThrottleInv'
  BY ThrottleStep
<1> QED BY <1>1, <1>2, PTL DEF ThrottleSpec

\* Within any window a key lets through no more than its limit, and the lockout of a code
\* the limit and one guess for every other request, however requests overlap
\* (hosted/tenancy.ts:322-334, auth.ts:121-131).
THEOREM LimitsAlwaysHold == ThrottleSpec => []LimitsHold
<1>1. ThrottleInv => LimitsHold
  BY LimitsFollow
<1> QED BY <1>1, ThrottleInvariance, PTL

----------------------------------------------------------------------------
(*******************************************************************************)
(* The types of the sign-in.  How often somebody was revoked is bounded by the *)
(* requests: each that was carried out, and each on its way, is one of them.   *)
(*******************************************************************************)

\* Requests that will revoke u's code.
Revoking(u) == {r \in admins : r.kind = "revoke" /\ r.at = "in" /\ r.on = u}

\* Each revocation of u so far, and each that is asked for, is a request of its own.
RevokedOnce(u) ==
  acct[u].revs <= done.admin /\ AtMost(Revoking(u), done.admin - acct[u].revs)

\* What is added for the types.
HouseTyped ==
  /\ done.admin <= house.requests /\ done.logins <= house.signIns
  /\ AtMost(admins, done.admin) /\ AtMost(logins, done.logins)
  /\ \A u \in Staff : RevokedOnce(u)
  /\ \A l \in logins : l.revs <= house.requests
  /\ \A s \in sessions : s.revs <= house.requests

\* Nobody has asked for anything at first.
LEMMA HouseTypedAtFirst == SignInInit => HouseTyped
<1> SUFFICES ASSUME SignInInit PROVE HouseTyped
  OBVIOUS
<1>1. house.requests \in Nat /\ house.signIns \in Nat
  BY SignInAssumption DEF SignInInit
<1>2. done.admin = 0 /\ done.logins = 0 /\ admins = {} /\ logins = {} /\ sessions = {}
  BY DEF SignInInit
<1>3. ASSUME NEW u \in Staff PROVE acct[u].revs = 0 /\ Revoking(u) = {}
  BY <1>2 DEF SignInInit, Revoking
<1>4. \A u \in Staff : RevokedOnce(u)
  BY <1>2, <1>3, AtMostNone DEF RevokedOnce
<1> QED
  BY <1>1, <1>2, <1>4, AtMostNone DEF HouseTyped

\* A request that ends revokes nothing any more, and one that does not ask for it never did.
LEMMA FewerRevoke ==
  ASSUME HouseInv, HouseTyped, acct' = acct, done' = done,
         \A u \in Staff : Revoking(u)' \subseteq Revoking(u)
  PROVE  \A u \in Staff : RevokedOnce(u)'
<1>1. ASSUME NEW u \in Staff PROVE RevokedOnce(u)'
  <2>1. RevokedOnce(u) /\ acct[u].revs \in Nat /\ done.admin \in Nat
    BY DEF HouseTyped, HouseInv, HouseShape, AcctType
  <2>2. done.admin - acct[u].revs \in Nat
    BY <2>1 DEF RevokedOnce
  <2>3. AtMost(Revoking(u)', done.admin - acct[u].revs)
    BY <2>1, <2>2, AtMostPart DEF RevokedOnce
  <2> QED
    BY <2>1, <2>3 DEF RevokedOnce
<1> QED
  BY <1>1

\* Accounts that change, but for their revocations.
LEMMA SameRevoke ==
  ASSUME HouseInv, HouseTyped, done'.admin = done.admin,
         \A u \in Staff : acct'[u].revs = acct[u].revs,
         \A u \in Staff : Revoking(u)' \subseteq Revoking(u)
  PROVE  \A u \in Staff : RevokedOnce(u)'
<1>1. ASSUME NEW u \in Staff PROVE RevokedOnce(u)'
  <2>1. RevokedOnce(u) /\ acct[u].revs \in Nat /\ done.admin \in Nat
    BY DEF HouseTyped, HouseInv, HouseShape, AcctType
  <2>2. done.admin - acct[u].revs \in Nat
    BY <2>1 DEF RevokedOnce
  <2>3. AtMost(Revoking(u)', done.admin - acct[u].revs)
    BY <2>1, <2>2, AtMostPart DEF RevokedOnce
  <2> QED
    BY <2>1, <2>3 DEF RevokedOnce
<1> QED
  BY <1>1

\* Every step keeps the counts of requests, sign-ins and revocations.
LEMMA HouseTypedStep == HouseInv /\ HouseTyped /\ [SignInNext]_signInVars => HouseTyped'
<1> SUFFICES ASSUME HouseInv, HouseTyped, [SignInNext]_signInVars PROVE HouseTyped'
  OBVIOUS
<1>t. /\ house.requests \in Nat /\ house.signIns \in Nat
      /\ done \in [logins : Nat, admin : Nat] /\ done.admin \in Nat /\ done.logins \in Nat
      /\ acct \in AcctType /\ \A u \in Staff : acct[u].revs \in Nat /\ acct[u].revs <= done.admin
      /\ admins \subseteq RequestType
      /\ AtMost(admins, done.admin) /\ AtMost(logins, done.logins)
      /\ done.admin <= house.requests /\ done.logins <= house.signIns
      /\ \A r \in admins : r.kind \in {"add", "rotate", "revoke"} => r.on \in Staff
  BY SignInAssumption DEF HouseInv, HouseShape, HouseTyped, AcctType, RevokedOnce
<1>r. \A u \in Staff : acct[u].revs <= house.requests
  BY <1>t
\* Steps of the admins that revoke nobody.
<1>1. ASSUME UNCHANGED <<house, sessions, logins, done>>, \A u \in Staff : acct'[u].revs = acct[u].revs,
             \A u \in Staff : Revoking(u)' \subseteq Revoking(u), AtMost(admins', done.admin)
      PROVE  HouseTyped'
  <2>1. \A u \in Staff : RevokedOnce(u)'
    BY <1>1, SameRevoke
  <2> QED
    BY <1>1, <2>1 DEF HouseTyped
<1>2. ASSUME NEW r \in admins, Finishes(r)
      PROVE  AtMost(admins', done.admin) /\ \A u \in Staff : Revoking(u)' \subseteq Revoking(u)
  <2>1. admins' \in SUBSET admins
    BY <1>2 DEF Finishes
  <2> QED
    BY <2>1, <1>t, AtMostPart DEF Revoking
<1>3. ASSUME NEW r \in admins, NEW at \in {"in", "able", "cut"}, OnItsWay(r, at), at # "in"
      PROVE  /\ AtMost(admins', done.admin)
             /\ \A u \in Staff : Revoking(u)' \subseteq Revoking(u) \ {r}
  <2> DEFINE q == [r EXCEPT !.at = at]
  <2>1. q.at = at
    BY <1>t DEF RequestType
  <2> HIDE DEF q
  <2>2. admins' = (admins \ {r}) \cup {q}
    BY <1>3 DEF OnItsWay, q
  <2>3. AtMost(admins', done.admin)
    BY <2>2, <1>t, AtMostInPlace
  <2>4. \A u \in Staff : Revoking(u)' \subseteq Revoking(u) \ {r}
    BY <1>3, <2>1, <2>2 DEF Revoking
  <2> QED
    BY <2>3, <2>4
\* Sign-ins.
<1>4. ASSUME UNCHANGED <<house, admins>>, done'.admin = done.admin,
             done'.logins <= house.signIns, AtMost(logins', done'.logins),
             \A u \in Staff : acct'[u].revs = acct[u].revs,
             \A l \in logins' : l.revs <= house.requests,
             \A s \in sessions' : s.revs <= house.requests
      PROVE  HouseTyped'
  <2>1. \A u \in Staff : Revoking(u)' \subseteq Revoking(u)
    BY <1>4 DEF Revoking
  <2>2. \A u \in Staff : RevokedOnce(u)'
    BY <1>4, <2>1, SameRevoke
  <2>3. AtMost(admins', done'.admin)
    BY <1>4, <1>t
  <2> QED
    BY <1>4, <2>2, <2>3, <1>t DEF HouseTyped
<1>5. ASSUME Signs
      PROVE  done'.admin = done.admin /\ done'.logins = done.logins + 1 /\ done'.logins <= house.signIns
  BY <1>5, <1>t DEF Signs
<1>6. ASSUME NEW u \in Staff, VerifyCode(u) PROVE HouseTyped'
  <2> DEFINE l == [n |-> done.logins, who |-> u, revs |-> acct[u].revs]
  <2>1. l.revs = acct[u].revs
    OBVIOUS
  <2> HIDE DEF l
  <2>2. /\ UNCHANGED <<house, admins>> /\ acct' = acct /\ sessions' = sessions
        /\ logins' = logins \cup {l} /\ Signs
    BY <1>6 DEF VerifyCode, l
  <2>3. AtMost(logins', done'.logins)
    <3>1. AtMost(logins \cup {l}, done.logins + 1)
      BY <1>t, AtMostAnother
    <3> QED
      BY <2>2, <3>1, <1>5
  <2>4. \A k \in logins' : k.revs <= house.requests
    BY <2>1, <2>2, <1>r DEF HouseTyped
  <2>5. \A s \in sessions' : s.revs <= house.requests
    BY <2>2 DEF HouseTyped
  <2> QED
    BY <2>2, <2>3, <2>4, <2>5, <1>4, <1>5
<1>7. ASSUME NEW l \in logins, OpenSession(l) PROVE HouseTyped'
  <2> DEFINE s == [who |-> l.who, revs |-> l.revs, late |-> l.revs # acct[l.who].revs]
  <2>1. s.revs = l.revs
    OBVIOUS
  <2> HIDE DEF s
  <2>2. /\ UNCHANGED <<house, admins>> /\ acct' = acct /\ sessions' = sessions \cup {s}
        /\ logins' = logins \ {l} /\ done' = done
    BY <1>7 DEF OpenSession, s
  <2>3. AtMost(logins', done'.logins)
    <3>1. logins' \in SUBSET logins
      BY <2>2
    <3> QED
      BY <2>2, <3>1, <1>t, AtMostPart
  <2>4. \A k \in logins' : k.revs <= house.requests
    BY <2>2 DEF HouseTyped
  <2>5. \A k \in sessions' : k.revs <= house.requests
    BY <2>1, <2>2 DEF HouseTyped
  <2> QED
    BY <2>2, <2>3, <2>4, <2>5, <1>4, <1>t
<1>8. ASSUME NEW u \in Staff, SharedLogin(u) PROVE HouseTyped'
  <2> DEFINE l == [n |-> done.logins, who |-> u, revs |-> acct[u].revs]
             s == [who |-> u, revs |-> acct[u].revs, late |-> FALSE]
  <2>1. l.revs = acct[u].revs /\ s.revs = acct[u].revs
    OBVIOUS
  <2> HIDE DEF l, s
  <2>2. /\ UNCHANGED <<house, admins>> /\ Signs
        /\ \/ logins' = logins \cup {l} /\ acct' = acct /\ sessions' = sessions
           \/ /\ acct' = [acct EXCEPT ![u].role = "member"] /\ sessions' = sessions \cup {s}
              /\ logins' = logins
    BY <1>8 DEF SharedLogin, l, s
  <2>3. AtMost(logins', done'.logins)
    <3>1. AtMost(logins \cup {l}, done.logins + 1) /\ AtMost(logins, done.logins + 1)
      BY <1>t, AtMostAnother
    <3> QED
      BY <2>2, <3>1, <1>5
  <2>4. \A k \in logins' : k.revs <= house.requests
    BY <2>1, <2>2, <1>r DEF HouseTyped
  <2>5. \A k \in sessions' : k.revs <= house.requests
    BY <2>1, <2>2, <1>r DEF HouseTyped
  <2>6. \A v \in Staff : acct'[v].revs = acct[v].revs
    BY <2>2, <1>t DEF AcctType
  <2> QED
    BY <2>2, <2>3, <2>4, <2>5, <2>6, <1>4, <1>5
<1>9. ASSUME NEW s \in sessions, LogOut(s) PROVE HouseTyped'
  <2>1. /\ UNCHANGED <<house, admins, logins>> /\ acct' = acct /\ sessions' \subseteq sessions /\ done' = done
    BY <1>9 DEF LogOut
  <2>2. \A k \in sessions' : k.revs <= house.requests
    BY <2>1 DEF HouseTyped
  <2>3. \A k \in logins' : k.revs <= house.requests
    BY <2>1 DEF HouseTyped
  <2> QED
    BY <2>1, <2>2, <2>3, <1>4, <1>t
\* Requests that are let in.
<1>10. ASSUME NEW kind \in {"add", "rotate", "revoke", "close", "open"}, NEW by \in Staff \cup {Guest},
              NEW on \in Staff \cup {"all"}, AdminAsks(kind, by, on)
       PROVE  HouseTyped'
  <2> DEFINE q == [n |-> done.admin, kind |-> kind, by |-> by, on |-> on, at |-> "in"]
  <2>1. /\ UNCHANGED <<house, sessions, logins>> /\ acct' = acct /\ admins' = admins \cup {q}
        /\ done.admin < house.requests /\ done' = [done EXCEPT !.admin = @ + 1]
    BY <1>10 DEF AdminAsks
  <2> HIDE DEF q
  <2>2. done'.admin = done.admin + 1 /\ done'.logins = done.logins /\ done'.admin <= house.requests
    BY <2>1, <1>t
  <2>3. AtMost(admins', done'.admin)
    BY <2>1, <2>2, <1>t, AtMostAnother
  <2>4. ASSUME NEW u \in Staff PROVE RevokedOnce(u)'
    <3> DEFINE k == done.admin - acct[u].revs
    <3>1. k \in Nat /\ AtMost(Revoking(u), k)
      BY <1>t DEF HouseTyped, RevokedOnce
    <3>2. Revoking(u)' \in {Revoking(u), Revoking(u) \cup {q}}
      BY <2>1 DEF Revoking
    <3>3. AtMost(Revoking(u), k + 1) /\ AtMost(Revoking(u) \cup {q}, k + 1)
      <4> HIDE DEF k
      <4> QED
        BY <3>1, AtMostAnother
    <3>4. AtMost(Revoking(u)', k + 1)
      BY <3>2, <3>3
    <3>5. k + 1 = done'.admin - acct'[u].revs /\ acct'[u].revs <= done'.admin
      BY <2>1, <2>2, <1>t
    <3> QED
      BY <3>4, <3>5 DEF RevokedOnce
  <2>5. AtMost(logins', done'.logins)
    BY <2>1, <2>2, <1>t
  <2> QED
    BY <2>1, <2>2, <2>3, <2>4, <2>5, <1>t DEF HouseTyped
<1>11. ASSUME NEW r \in admins, NEW role \in Roles, AddUser(r, role) PROVE HouseTyped'
  <2>1. \A u \in Staff : acct'[u].revs = acct[u].revs
    BY <1>11, <1>t DEF AddUser, AcctType, Stage
  <2> QED
    BY <1>11, <2>1, <1>1, <1>2 DEF AddUser
<1>12. ASSUME NEW r \in admins, RotateCode(r) PROVE HouseTyped'
  <2>1. \A u \in Staff : acct'[u].revs = acct[u].revs
    BY <1>12, <1>t DEF RotateCode, AcctType, Stage
  <2> QED
    BY <1>12, <2>1, <1>1, <1>2 DEF RotateCode
<1>13. ASSUME NEW r \in admins, RevokeCode(r) PROVE HouseTyped'
  <2>1. UNCHANGED <<house, sessions, logins, done>> /\ r.kind = "revoke" /\ r.at = "in" /\ r.on \in Staff
    BY <1>13, <1>t DEF RevokeCode, Stage
  <2>2. CASE acct[r.on].role = "none"
    BY <1>13, <2>1, <2>2, <1>1, <1>2 DEF RevokeCode
  <2>3. CASE acct[r.on].role # "none"
    <3>1. /\ acct' = [acct EXCEPT ![r.on].code = FALSE, ![r.on].off = TRUE, ![r.on].revs = @ + 1]
          /\ OnItsWay(r, "cut")
      BY <1>13, <2>3 DEF RevokeCode
    <3>2. AtMost(admins', done.admin) /\ \A u \in Staff : Revoking(u)' \subseteq Revoking(u) \ {r}
      BY <3>1, <1>3
    <3>3. \A u \in Staff : acct'[u].revs = IF u = r.on THEN acct[u].revs + 1 ELSE acct[u].revs
      BY <3>1, <2>1, <1>t DEF AcctType
    <3>4. ASSUME NEW u \in Staff PROVE RevokedOnce(u)'
      <4> DEFINE k == done.admin - acct[u].revs
      <4>1. k \in Nat /\ AtMost(Revoking(u), k)
        BY <1>t DEF HouseTyped, RevokedOnce
      <4>2. CASE u = r.on
        <5>1. r \in Revoking(u)
          BY <2>1, <4>2 DEF Revoking
        <5> HIDE DEF k
        <5>2. k >= 1 /\ AtMost(Revoking(u) \ {r}, k - 1)
          BY <4>1, <5>1, AtMostWithout
        <5>3. k - 1 \in Nat /\ Revoking(u)' \in SUBSET (Revoking(u) \ {r})
          BY <4>1, <5>2, <3>2
        <5>4. AtMost(Revoking(u)', k - 1)
          BY <5>2, <5>3, AtMostPart
        <5>5. k - 1 = done'.admin - acct'[u].revs /\ acct'[u].revs <= done'.admin
          BY <5>2, <4>2, <3>3, <2>1, <1>t DEF k
        <5> QED
          BY <5>4, <5>5 DEF RevokedOnce
      <4>3. CASE u # r.on
        <5> HIDE DEF k
        <5>1. Revoking(u)' \in SUBSET Revoking(u)
          BY <3>2
        <5>2. AtMost(Revoking(u)', k)
          BY <4>1, <5>1, AtMostPart
        <5>3. k = done'.admin - acct'[u].revs /\ acct'[u].revs <= done'.admin
          BY <4>3, <3>3, <2>1, <1>t DEF k
        <5> QED
          BY <5>2, <5>3 DEF RevokedOnce
      <4> QED
        BY <4>2, <4>3
    <3> QED
      BY <2>1, <3>2, <3>4 DEF HouseTyped
  <2> QED
    BY <2>2, <2>3
<1>14. ASSUME NEW r \in admins, EndSessions(r) PROVE HouseTyped'
  <2>1. /\ UNCHANGED <<house, logins, done>> /\ acct' = acct /\ sessions' \subseteq sessions /\ Finishes(r)
    BY <1>14 DEF EndSessions
  <2>2. \A k \in sessions' : k.revs <= house.requests
    BY <2>1 DEF HouseTyped
  <2>3. \A u \in Staff : RevokedOnce(u)'
    BY <2>1, <1>2, FewerRevoke
  <2> QED
    BY <2>1, <2>2, <2>3, <1>2 DEF HouseTyped
<1>15. ASSUME NEW r \in admins, CheckCapable(r) \/ CloseHouse(r) \/ OpenHouse(r) PROVE HouseTyped'
  <2>1. UNCHANGED <<house, acct, sessions, logins, done>> /\ (Finishes(r) \/ OnItsWay(r, "able"))
    BY <1>15 DEF CheckCapable, CloseHouse, OpenHouse
  <2> QED
    BY <2>1, <1>1, <1>2, <1>3
<1>16. CASE UNCHANGED signInVars
  BY <1>16 DEF signInVars, HouseTyped, RevokedOnce, Revoking
<1> QED
  BY <1>6, <1>7, <1>8, <1>9, <1>10, <1>11, <1>12, <1>13, <1>14, <1>15, <1>16 DEF SignInNext

\* With the house's invariant they are its types.
LEMMA HouseTypedIsTypeOK == HouseInv /\ HouseTyped => SignInTypeOK
<1> SUFFICES ASSUME HouseInv, HouseTyped PROVE SignInTypeOK
  OBVIOUS
<1>1. /\ house.requests \in Nat /\ house.signIns \in Nat /\ done.admin \in Nat /\ done.logins \in Nat
      /\ done.admin <= house.requests /\ done.logins <= house.signIns
      /\ acct \in AcctType /\ sessions \subseteq [who : Staff, revs : Nat, late : BOOLEAN]
  BY SignInAssumption DEF HouseInv, HouseShape, HouseTyped
<1>2. AtMost(admins, house.requests) /\ AtMost(logins, house.signIns)
  BY <1>1, AtMostMore DEF HouseTyped
<1>3. \A u \in Staff : acct[u].revs \in 0 .. house.requests
  BY <1>1 DEF HouseTyped, RevokedOnce, AcctType
<1>4. acct \in [Staff -> [role : Roles \cup {"none"}, code : BOOLEAN, off : BOOLEAN, revs : 0 .. house.requests]]
  BY <1>1, <1>3 DEF AcctType
<1>5. sessions \subseteq [who : Staff, revs : 0 .. house.requests, late : BOOLEAN]
  <2>1. \A s \in sessions : s.revs \in 0 .. house.requests
    BY <1>1 DEF HouseTyped
  <2> QED
    BY <2>1, <1>1
<1> QED
  BY <1>2, <1>4, <1>5 DEF SignInTypeOK, AtMost, HouseInv, HouseShape

\* SignInTypeOK, for any people, house and bounds.
THEOREM SignInTypeCorrect == SignInSpec => []SignInTypeOK
<1> DEFINE Inv == HouseInv /\ HouseTyped
<1>1. SignInInit => Inv
  BY HouseInit, HouseTypedAtFirst
<1>2. Inv /\ [SignInNext]_signInVars => Inv'
  BY HouseStep, HouseTypedStep
<1>3. Inv => SignInTypeOK
  BY HouseTypedIsTypeOK
<1> HIDE DEF Inv
<1> QED
  BY <1>1, <1>2, <1>3, PTL DEF SignInSpec

----------------------------------------------------------------------------
(* The types of the budget. *)

\* What is added for the types: a call reserves two attempts at most.
AttemptsFew == \A c \in Callers : ask[c].left <= 2 /\ ask[c].held <= 2

\* Nobody has reserved anything at first.
LEMMA AttemptsAtFirst == BudgetInit => AttemptsFew
BY DEF BudgetInit, AttemptsFew, NoCall

\* A call that goes on asks for no more than it did.
LEMMA FewerAttempts ==
  ASSUME BudgetInv, AttemptsFew, NEW c \in Callers, NEW q, ask' = [ask EXCEPT ![c] = q],
         q.left <= 2, q.held <= 2
  PROVE  AttemptsFew'
BY DEF BudgetInv, BudgetShape, AttemptsFew

\* A call reserves one attempt or two, and its attempts only get fewer.
LEMMA AttemptsStep == BudgetInv /\ AttemptsFew /\ [BudgetNext]_budgetVars => AttemptsFew'
<1> SUFFICES ASSUME BudgetInv, AttemptsFew, [BudgetNext]_budgetVars PROVE AttemptsFew'
  OBVIOUS
<1>1. ASSUME NEW c \in Callers
      PROVE  ask[c] \in CallRecords /\ ask[c].left <= 2 /\ ask[c].held <= 2 /\ ask[c].left \in Nat
  BY DEF BudgetInv, BudgetShape, CallRecords, AttemptsFew
<1>2. NoCall.left = 0 /\ NoCall.held = 0
  BY DEF NoCall
<1>3. ASSUME NEW c \in Callers, NEW w \in Tenants, NEW n \in 1 .. 2, BeginCall(c, w, n)
      PROVE  AttemptsFew'
  <2> DEFINE q == [phase |-> "own", ws |-> w, day |-> today, left |-> n, held |-> n, cost |-> 0,
                   back |-> 0]
  <2>1. ask' = [ask EXCEPT ![c] = q] /\ q.left <= 2 /\ q.held <= 2
    BY <1>3 DEF BeginCall
  <2> HIDE DEF q
  <2> QED
    BY <2>1, FewerAttempts
<1>4. ASSUME NEW c \in Callers, Hang(c) PROVE AttemptsFew'
  <2>1. ask' = [ask EXCEPT ![c] = NoCall] /\ NoCall.left <= 2 /\ NoCall.held <= 2
    BY <1>2, <1>4 DEF Hang
  <2> QED
    BY <2>1, FewerAttempts
<1>5. ASSUME NEW c \in Callers, NEW p \in BudgetPhases, ask' = [ask EXCEPT ![c].phase = p]
      PROVE  AttemptsFew'
  <2> DEFINE q == [ask[c] EXCEPT !.phase = p]
  <2>1. q.left = ask[c].left /\ q.held = ask[c].held
    BY <1>1 DEF CallRecords
  <2>2. ask' = [ask EXCEPT ![c] = q]
    BY <1>5 DEF BudgetInv, BudgetShape
  <2> HIDE DEF q
  <2> QED
    BY <2>1, <2>2, <1>1, FewerAttempts
<1>6. ASSUME NEW c \in Callers, Answer(c) PROVE AttemptsFew'
  <2>1. PICK cost \in Costs, fits \in BOOLEAN :
          ask' = [ask EXCEPT ![c] = IF fits THEN Reported(@, cost)
                                    ELSE IF ask[c].left > 1 THEN Repaired(@, cost) ELSE NoCall]
    BY <1>6 DEF Answer
  <2>2. /\ Reported(ask[c], cost).left = ask[c].left /\ Reported(ask[c], cost).held = ask[c].held
        /\ Repaired(ask[c], cost).held = ask[c].held
    BY <1>1 DEF Reported, Repaired, CallRecords
  <2>3. Repaired(ask[c], cost).left = ask[c].left - 1 /\ ask[c].left - 1 <= 2
    BY <1>1 DEF Repaired, CallRecords
  <2> DEFINE q == IF fits THEN Reported(ask[c], cost)
                  ELSE IF ask[c].left > 1 THEN Repaired(ask[c], cost) ELSE NoCall
  <2>4. q.left <= 2 /\ q.held <= 2
    BY <2>2, <2>3, <1>1, <1>2
  <2>5. ask' = [ask EXCEPT ![c] = q]
    BY <2>1 DEF BudgetInv, BudgetShape
  <2> HIDE DEF q
  <2> QED
    BY <2>4, <2>5, FewerAttempts
<1>7. ASSUME NEW c \in Callers, Refused(c) PROVE AttemptsFew'
  <2> DEFINE q == GivenBack(ask[c])
  <2>1. q.left = ask[c].left /\ q.held = ask[c].held
    BY <1>1 DEF GivenBack, CallRecords
  <2>2. ask' = [ask EXCEPT ![c] = q]
    BY <1>7 DEF Refused, BudgetInv, BudgetShape
  <2> HIDE DEF q
  <2> QED
    BY <2>1, <2>2, <1>1, FewerAttempts
<1>8. ASSUME NEW c \in Callers,
             \/ ReserveShare(c) \/ ReserveAll(c) \/ ReturnShare(c) \/ CallLost(c)
             \/ Settle(c) \/ SettleShare(c) \/ SettleLost(c)
      PROVE  AttemptsFew'
  BY <1>4, <1>5, <1>8 DEF ReserveShare, ReserveAll, ReturnShare, CallLost, Settle, SettleShare,
     SettleLost, BudgetPhases
<1>9. CASE NextDay \/ UNCHANGED budgetVars
  BY <1>9 DEF NextDay, budgetVars, AttemptsFew
<1> QED
  BY <1>3, <1>6, <1>7, <1>8, <1>9 DEF BudgetNext

\* With the ledgers' invariant these are the types.
LEMMA AttemptsTyped == BudgetInv /\ AttemptsFew => BudgetTypeOK
<1> SUFFICES ASSUME BudgetInv, AttemptsFew PROVE BudgetTypeOK
  OBVIOUS
<1>1. ASSUME NEW c \in Callers
      PROVE  /\ ask[c].phase \in BudgetPhases
             /\ ask[c].phase # "idle" => ask[c].ws \in Tenants /\ ask[c].day \in Days
             /\ ask[c].held \in 0 .. 2 /\ ask[c].left \in 0 .. 2
             /\ ask[c].cost \in Nat /\ ask[c].back \in Int
  <2>1. /\ ask[c] \in CallRecords /\ ask[c].left <= 2 /\ ask[c].held <= 2
        /\ ask[c].phase # "idle" => ask[c].ws \in Tenants
    BY DEF BudgetInv, BudgetShape, AttemptsFew
  <2>2. /\ ask[c].phase \in BudgetPhases /\ ask[c].day \in Days
        /\ ask[c].held \in Nat /\ ask[c].left \in Nat /\ ask[c].cost \in Nat /\ ask[c].back \in Int
    BY <2>1 DEF CallRecords
  <2> QED
    BY <2>1, <2>2
<1> QED
  BY <1>1 DEF BudgetInv, BudgetShape, BudgetTypeOK, BudgetPhases

\* BudgetTypeOK, for any number of callers, workspaces and days.
THEOREM BudgetTypeCorrect == BudgetSpec => []BudgetTypeOK
BY BudgetInvariance, AttemptsAtFirst, AttemptsStep, AttemptsTyped, PTL DEF BudgetSpec

=============================================================================
