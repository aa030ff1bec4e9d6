----------------------------- MODULE EmailDrafts -----------------------------
(***************************************************************************)
(* The drafts of follow-up mails for one shipped insight, one chain of     *)
(* versions for each client who asked for it.  generateDrafts goes through *)
(* the clients one by one: the model's text, the latest version read, and  *)
(* then the transaction that inserts the next one and links the two.       *)
(* Copying and confirming name a draft of any version.                     *)
(***************************************************************************)
EXTENDS Naturals, Sequences, FiniteSets

CONSTANTS
  Writers,     \* requests to generate drafts that can be in flight at once
  Askers,      \* external clients who may have asked for the insight
  MaxDrafts    \* bound on drafts

ASSUME DraftAssumption == MaxDrafts \in Nat

VARIABLES
  stage,     \* the insight's state, as far as mails go
  askers,    \* insight_requesters that are not internal
  drafts,    \* email_drafts in order of insertion
  copied,    \* the drafts email.copied events name
  writer,    \* generations in flight
  overlapped \* history: two generations ran at once

draftVars == <<stage, askers, drafts, copied, writer, overlapped>>

NotWriting == [phase |-> "idle", todo |-> {}, client |-> "none", prev |-> 0]

DraftInit ==
  /\ stage = "shipped"
  /\ askers \in SUBSET Askers
  /\ drafts = <<>>
  /\ copied = {}
  /\ writer = [w \in Writers |-> NotWriting]
  /\ overlapped = FALSE

Current(c) == {d \in DOMAIN drafts : drafts[d].client = c /\ drafts[d].next = 0}
Latest(ds) == IF ds = {} THEN 0
              ELSE CHOOSE d \in ds : \A e \in ds : drafts[e].version <= drafts[d].version

\* The gate on the state, and the clients who asked, read once.
BeginDrafts(w) ==
  /\ writer[w].phase = "idle"
  /\ stage \in {"shipped", "client_notified"}
  /\ writer' = [writer EXCEPT ![w] = [NotWriting EXCEPT !.phase = "next", !.todo = askers]]
  /\ overlapped' = (overlapped \/ \E v \in Writers : writer[v].phase # "idle")
  /\ UNCHANGED <<stage, askers, drafts, copied>>

\* The text for one client has come; the latest version is read.  A failed call
\* ends the request with the drafts it has made so far.
\* Mutant: the draft last inserted, whoever it is for.
ReadPrevAnyClient(w, c) ==
  /\ writer[w].phase = "next" /\ c \in writer[w].todo
  /\ writer' = [writer EXCEPT ![w] = [writer[w] EXCEPT !.phase = "insert", !.client = c,
                                               !.prev = Len(drafts)]]
  /\ UNCHANGED <<stage, askers, drafts, copied, overlapped>>

ReadPrev(w, c) ==
  /\ writer[w].phase = "next" /\ c \in writer[w].todo
  /\ writer' = [writer EXCEPT ![w] = [writer[w] EXCEPT !.phase = "insert", !.client = c,
                                               !.prev = Latest(Current(c))]]
  /\ UNCHANGED <<stage, askers, drafts, copied, overlapped>>

\* The transaction: the next version, and the link from the one it replaces.
InsertDraft(w) ==
  LET c == writer[w].client
      prev == writer[w].prev
      version == IF prev = 0 THEN 1 ELSE drafts[prev].version + 1
      linked == [d \in DOMAIN drafts |->
                   IF d = prev THEN [drafts[d] EXCEPT !.next = Len(drafts) + 1] ELSE drafts[d]]
  IN
  /\ writer[w].phase = "insert" /\ Len(drafts) < MaxDrafts
  /\ drafts' = Append(linked, [client |-> c, version |-> version, next |-> 0, sent |-> FALSE])
  /\ writer' = [writer EXCEPT ![w] = [writer[w] EXCEPT !.phase = "next", !.todo = @ \ {c}, !.prev = 0]]
  /\ UNCHANGED <<stage, askers, copied, overlapped>>

\* All clients are served, or a call failed, or the process died.
EndDrafts(w) ==
  /\ writer[w].phase # "idle"
  /\ writer' = [writer EXCEPT ![w] = NotWriting]
  /\ UNCHANGED <<stage, askers, drafts, copied, overlapped>>

\* markCopied: the first copy of a shipped insight's draft moves the insight, any
\* other one only leaves its event.  (Its races are in InsightLifecycle.)
MarkCopied(d) ==
  /\ d \in DOMAIN drafts
  /\ copied' = copied \cup {d}
  /\ stage' = IF stage = "shipped" THEN "client_notified" ELSE stage
  /\ UNCHANGED <<askers, drafts, writer, overlapped>>

\* confirmSent overwrites the time and the text whatever the draft.
ConfirmSent(d) ==
  /\ d \in DOMAIN drafts
  /\ drafts' = [drafts EXCEPT ![d].sent = TRUE]
  /\ UNCHANGED <<stage, askers, copied, writer, overlapped>>

\* The insight closes, or a mention of another client joins it.
CloseLoop ==
  /\ stage # "closed"
  /\ stage' = "closed"
  /\ UNCHANGED <<askers, drafts, copied, writer, overlapped>>

NewAsker(c) ==
  /\ c \notin askers
  /\ askers' = askers \cup {c}
  /\ UNCHANGED <<stage, drafts, copied, writer, overlapped>>

DraftNext ==
  \/ \E w \in Writers : BeginDrafts(w) \/ InsertDraft(w) \/ EndDrafts(w)
  \/ \E w \in Writers, c \in Askers : ReadPrev(w, c)
  \/ \E d \in 1 .. MaxDrafts : MarkCopied(d) \/ ConfirmSent(d)
  \/ CloseLoop
  \/ \E c \in Askers : NewAsker(c)

DraftSpec == DraftInit /\ [][DraftNext]_draftVars

----------------------------------------------------------------------------
DraftTypeOK ==
  /\ stage \in {"shipped", "client_notified", "closed"}
  /\ askers \subseteq Askers
  /\ drafts \in Seq([client : Askers, version : 1 .. MaxDrafts, next : 0 .. MaxDrafts,
                     sent : BOOLEAN])
  /\ copied \subseteq DOMAIN drafts
  /\ \A w \in Writers :
       /\ writer[w].phase \in {"idle", "next", "insert"}
       /\ writer[w].prev \in 0 .. Len(drafts)
       /\ writer[w].phase = "insert" => writer[w].client \in Askers

\* superseded_by_id leads to the same client's next version, so that the page can
\* follow it, and every client with drafts has one that nothing supersedes.
DraftChain ==
  /\ \A d \in DOMAIN drafts :
       drafts[d].next # 0 =>
         /\ drafts[d].next \in DOMAIN drafts
         /\ drafts[drafts[d].next].client = drafts[d].client
         /\ drafts[drafts[d].next].version = drafts[d].version + 1
  /\ \A d \in DOMAIN drafts : Current(drafts[d].client) # {}

\* Unless two generations overlap, a client has one current draft, and its
\* version is how many the client has had.
OneCurrentAlone ==
  ~overlapped =>
    \A c \in Askers :
      LET mine == {d \in DOMAIN drafts : drafts[d].client = c} IN
      mine # {} =>
        /\ Cardinality(Current(c)) = 1
        /\ \A d \in Current(c) : drafts[d].version = Cardinality(mine)

\* The history of a client's drafts is one chain, with one head unless generations
\* overlapped (emails/service.ts:191-229).
DraftHistory == DraftChain /\ OneCurrentAlone
=============================================================================
