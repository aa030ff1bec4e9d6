----------------------------- MODULE MCServices -----------------------------
\* The components beside the insight's life cycle, each explored by itself: they
\* share no state, so a behaviour takes one part and leaves the others in an initial
\* state.
EXTENDS MeetingLife, MeetingIntake, ReleaseWatch, EmailDrafts, HostedTenancy, ModelCalls,
        Throttles, DailyJobs, Recorder, Wording, CalendarFeed, Segments, SearchIndex,
        ReviewQueue, RecordPage, CapturePage, MeetingPage, SearchPages,
        ProofPage, SignIn

CONSTANT Parts  \* the parts this instance explores

VARIABLE part

serverVars == <<lifeVars, intakeVars, releaseVars, draftVars>>
hostedVars == <<tenancyVars, budgetVars, throttleVars, dailyVars, signInVars>>
edgeVars == <<recorderVars, wordingVars, feedVars, segmentVars, indexVars>>
webVars == <<reviewVars, recordVars, captureVars, meetingPageVars, searchVars, proofVars>>

mcVars == <<part, serverVars, hostedVars, edgeVars, webVars>>

----------------------------------------------------------------------------
(* Scenarios *)

MCMenus ==
  {[ops |-> {"transcribe", "paste", "purge", "analyze"}, texts |-> {{"q1"}}],
   [ops |-> {"extract", "purge"}, texts |-> {{"q1"}}],
   [ops |-> {"extract", "force", "leave"}, texts |-> {{"q1", "q2"}}],
   [ops |-> {"manual", "purge"}, texts |-> {{"q1"}}]}
MCPurgeMenus == {[ops |-> {"analyze", "purge"}, texts |-> {{"q1"}}]}
MCProgressMenus == {[ops |-> {"extract", "purge"}, texts |-> {{"q1"}}]}

MixOf(ways, at, besides) == [ways |-> ways, at |-> at, besides |-> besides]
MCMixes ==
  {MixOf({"direct"}, "bucket", {"sweep"}), MixOf({"direct"}, "hosted", {"cut", "crash", "purge"}),
   MixOf({"inline"}, "disk", {"purge", "sweep"}), MixOf({"file", "text"}, "hosted", {"crash", "purge"})}
MCProgressMixes ==
  {MixOf({"direct"}, "hosted", {"cut", "sweep"}), MixOf({"inline"}, "bucket", {"purge", "sweep"}),
   MixOf({"file"}, "disk", {"sweep"})}

MCDoors ==
  {{"signup", "login", "code"}, {"signup", "create", "link"}, {"code", "create", "crash"},
   {"signup", "login", "revoke"}, {"create", "code", "revoke"}, {"signup", "code", "invite"}}

MCGates ==
  {[kind |-> "chain", chains |-> {<<"ip", "all">>, <<"all">>}, ticks |-> 2, total |-> 3],
   [kind |-> "ask", chains |-> {<<"ip", "all">>, <<"all">>}, ticks |-> 2, total |-> 3],
   [kind |-> "code", chains |-> {<<"ann", "ip">>, <<"bob", "ip">>}, ticks |-> 2, total |-> 4],
   [kind |-> "password", chains |-> {<<"ip", "all">>}, ticks |-> 2, total |-> 3]}
MCLimit == [k \in {"ip", "all", "ann", "bob"} |-> 1]
MCWindow == [k \in {"ip", "all", "ann", "bob"} |-> 1]

MCSessions ==
  {[acts |-> {"lose"}, versions |-> 3], [acts |-> {"reload"}, versions |-> 3],
   [acts |-> {"lose", "reload"}, versions |-> 2], [acts |-> {"blank", "finalize"}, versions |-> 2]}
MCFinalSessions == {[acts |-> {"finalize"}, versions |-> 3]}

MCCrews ==
  {[w1 |-> "edit", w2 |-> "edit", w3 |-> "attach"],
   [w1 |-> "purge", w2 |-> "rebuild", w3 |-> "paste"],
   [w1 |-> "attach", w2 |-> "purge", w3 |-> "rebuild"],
   [w1 |-> "edit", w2 |-> "rebuild", w3 |-> "edit"],
   [w1 |-> "edit", w2 |-> "attach", w3 |-> "purge"],
   [w1 |-> "paste", w2 |-> "paste", w3 |-> "rebuild"]}

MCOrder == <<"a", "b">>
MCDesks ==
  {[a |-> [state |-> "finalized", proof |-> TRUE], b |-> [state |-> "rejected", proof |-> TRUE]],
   [a |-> [state |-> "extracted", proof |-> FALSE], b |-> [state |-> "rejected", proof |-> FALSE]]}

RowOf(state, ticket, proof) == [state |-> state, ticket |-> ticket, proof |-> proof, mail |-> "none"]
Shipped == RowOf("shipped", "none", "none")
MCOutings ==
  {[rows |-> [A |-> RowOf("extracted", "none", "none"), B |-> RowOf("extracted", "none", "none")],
    deeds |-> {"save", "triage", "finalize"}],
   [rows |-> [A |-> RowOf("triaged", "none", "none"), B |-> RowOf("extracted", "none", "none")],
    deeds |-> {"reject", "merge"}],
   [rows |-> [A |-> RowOf("finalized", "none", "none"), B |-> Shipped],
    deeds |-> {"draft", "raise", "propose", "confirm"}],
   [rows |-> [A |-> RowOf("ticketed", "raised", "proposed"), B |-> Shipped],
    deeds |-> {"refuse", "confirm", "write"}],
   [rows |-> [A |-> RowOf("shipped", "raised", "confirmed"), B |-> Shipped],
    deeds |-> {"write", "copied", "sent", "close"}]}

MCErrands ==
  {[clients |-> {"ann", "bob"}, ways |-> {"paste"}, hints |-> {"bob"}, maxFiled |-> 1],
   [clients |-> {"ann"}, ways |-> {"paste", "audio_file"}, hints |-> {}, maxFiled |-> 2]}

MCOccasions ==
  {[meeting |-> [status |-> "transcribed", text |-> TRUE, audio |-> FALSE, ins |-> [i \in {"i1"} |-> "extracted"]],
    deeds |-> {"extract", "bulk"}, posts |-> 2, loads |-> 0, others |-> 0],
   [meeting |-> [status |-> "extracted", text |-> TRUE, audio |-> FALSE, ins |-> [i \in {"i1", "i2"} |-> "extracted"]],
    deeds |-> {"bulk", "others"}, posts |-> 1, loads |-> 1, others |-> 1],
   [meeting |-> [status |-> "ingested", text |-> FALSE, audio |-> TRUE, ins |-> <<>>],
    deeds |-> {"save", "transcribe"}, posts |-> 2, loads |-> 0, others |-> 0],
   [meeting |-> [status |-> "transcribing", text |-> FALSE, audio |-> TRUE, ins |-> <<>>],
    deeds |-> {"extract"}, posts |-> 1, loads |-> 2, others |-> 0]}

MCPlots ==
  {[start |-> {"m1", "m2"}, deeds |-> {"confirm"}, asks |-> 3, looks |-> 0],
   [start |-> {"m1", "m2"}, deeds |-> {"reject"}, asks |-> 2, looks |-> 0],
   [start |-> {"m1"}, deeds |-> {"confirm", "reject", "elsewhere"}, asks |-> 2, looks |-> 1],
   [start |-> {}, deeds |-> {"file", "confirm"}, asks |-> 2, looks |-> 1]}

RolesOf(a, b) == [u \in {"ann", "bob"} |-> IF u = "ann" THEN a ELSE b]
MCHouses ==
  {[roles |-> RolesOf("admin", "admin"), wall |-> TRUE, forced |-> FALSE, team |-> FALSE, requests |-> 2, signIns |-> 2],
   [roles |-> RolesOf("none", "none"), wall |-> FALSE, forced |-> FALSE, team |-> FALSE, requests |-> 3, signIns |-> 0],
   [roles |-> RolesOf("admin", "none"), wall |-> FALSE, forced |-> TRUE, team |-> TRUE, requests |-> 2, signIns |-> 2]}

----------------------------------------------------------------------------
Fixed(name, var, S) == part = name \/ var = CHOOSE x \in S : TRUE

MCInit ==
  /\ part \in Parts
  /\ LifeInit /\ Fixed("life", menu, Menus) /\ (part = "life" \/ texts = <<>>)
  /\ IntakeInit /\ Fixed("intake", mix, Mixes)
  /\ ReleaseInit /\ Fixed("releases", asked, {{}})
  /\ DraftInit /\ Fixed("drafts", askers, {Askers})
  /\ TenancyInit /\ Fixed("tenancy", doors, Doors)
  /\ BudgetInit
  /\ ThrottleInit /\ Fixed("throttles", gate, Gates)
  /\ DailyInit /\ Fixed("daily", day, {0})
  /\ RecorderInit
  /\ WordingInit /\ Fixed("wording", session, Sessions)
  /\ FeedInit /\ SegmentInit
  /\ IndexInit /\ Fixed("index", crew, Crews)
  /\ ReviewInit /\ Fixed("review", row, Desks)
  /\ RecordInit /\ Fixed("record", outing, Outings)
  /\ CaptureInit /\ Fixed("capture", errand, Errands)
  /\ MeetingPageInit /\ Fixed("meeting", occasion, Occasions)
  /\ SearchInit /\ Fixed("search", surface, Surfaces)
  /\ ProofInit /\ Fixed("proof", plot, Plots) /\ Fixed("proof", delivered, BOOLEAN)
  /\ SignInInit /\ Fixed("signin", house, Houses)

MCNext ==
  \/ /\ part \in {"life", "intake", "releases", "drafts"}
     /\ UNCHANGED <<part, hostedVars, edgeVars, webVars>>
     /\ \/ part = "life" /\ LifeNext /\ UNCHANGED <<intakeVars, releaseVars, draftVars>>
        \/ part = "intake" /\ IntakeNext /\ UNCHANGED <<lifeVars, releaseVars, draftVars>>
        \/ part = "releases" /\ ReleaseNext /\ UNCHANGED <<lifeVars, intakeVars, draftVars>>
        \/ part = "drafts" /\ DraftNext /\ UNCHANGED <<lifeVars, intakeVars, releaseVars>>
  \/ /\ part \in {"tenancy", "budget", "throttles", "daily", "signin"}
     /\ UNCHANGED <<part, serverVars, edgeVars, webVars>>
     /\ \/ part = "tenancy" /\ TenancyNext /\ UNCHANGED <<budgetVars, throttleVars, dailyVars, signInVars>>
        \/ part = "budget" /\ BudgetNext /\ UNCHANGED <<tenancyVars, throttleVars, dailyVars, signInVars>>
        \/ part = "throttles" /\ ThrottleNext /\ UNCHANGED <<tenancyVars, budgetVars, dailyVars, signInVars>>
        \/ part = "daily" /\ DailyNext /\ UNCHANGED <<tenancyVars, budgetVars, throttleVars, signInVars>>
        \/ part = "signin" /\ SignInNext /\ UNCHANGED <<tenancyVars, budgetVars, throttleVars, dailyVars>>
  \/ /\ part \in {"recorder", "wording", "feed", "segments", "index"}
     /\ UNCHANGED <<part, serverVars, hostedVars, webVars>>
     /\ \/ part = "recorder" /\ RecorderNext /\ UNCHANGED <<wordingVars, feedVars, segmentVars, indexVars>>
        \/ part = "wording" /\ WordingNext /\ UNCHANGED <<recorderVars, feedVars, segmentVars, indexVars>>
        \/ part = "feed" /\ FeedNext /\ UNCHANGED <<recorderVars, wordingVars, segmentVars, indexVars>>
        \/ part = "segments" /\ SegmentNext /\ UNCHANGED <<recorderVars, wordingVars, feedVars, indexVars>>
        \/ part = "index" /\ IndexNext /\ UNCHANGED <<recorderVars, wordingVars, feedVars, segmentVars>>
  \/ /\ part \in {"review", "record", "capture", "meeting", "search", "proof"}
     /\ UNCHANGED <<part, serverVars, hostedVars, edgeVars>>
     /\ \/ part = "review" /\ ReviewNext /\ UNCHANGED <<recordVars, captureVars, meetingPageVars, searchVars, proofVars>>
        \/ part = "record" /\ RecordNext /\ UNCHANGED <<reviewVars, captureVars, meetingPageVars, searchVars, proofVars>>
        \/ part = "capture" /\ CaptureNext /\ UNCHANGED <<reviewVars, recordVars, meetingPageVars, searchVars, proofVars>>
        \/ part = "meeting" /\ MeetingPageNext /\ UNCHANGED <<reviewVars, recordVars, captureVars, searchVars, proofVars>>
        \/ part = "search" /\ SearchNext /\ UNCHANGED <<reviewVars, recordVars, captureVars, meetingPageVars, proofVars>>
        \/ part = "proof" /\ ProofNext /\ UNCHANGED <<reviewVars, recordVars, captureVars, meetingPageVars, searchVars>>

MCSpec == MCInit /\ [][MCNext]_mcVars

\* The fairness of the parts.  A part at rest has no fair step enabled, except the
\* release poller and the hosted cron, which only owe steps when they are explored.
MCFairness ==
  /\ LifeFairness /\ IntakeFairness /\ RecorderFairness
  /\ \A p \in Timers : /\ WF_releaseVars(part = "releases" /\ FetchReleases(p))
                        /\ WF_releaseVars(part = "releases" /\ PollStep(p))
  /\ WF_dailyVars(part = "daily" /\ StartSweep)
  /\ WF_dailyVars(part = "daily" /\ SweepSpace)

MCFairSpec == MCSpec /\ MCFairness

ServicesTypeOK ==
  /\ (part = "life" => LifeTypeOK) /\ (part = "intake" => IntakeTypeOK) /\ (part = "releases" => ReleaseTypeOK)
  /\ (part = "drafts" => DraftTypeOK) /\ (part = "tenancy" => TenancyTypeOK) /\ (part = "budget" => BudgetTypeOK)
  /\ (part = "throttles" => ThrottleTypeOK) /\ (part = "daily" => DailyTypeOK) /\ (part = "recorder" => RecorderTypeOK)
  /\ (part = "wording" => WordingTypeOK) /\ (part = "feed" => FeedTypeOK) /\ (part = "segments" => SegmentTypeOK)
  /\ (part = "index" => IndexTypeOK) /\ (part = "review" => ReviewTypeOK) /\ (part = "record" => RecordTypeOK)
  /\ (part = "capture" => CaptureTypeOK) /\ (part = "meeting" => MeetingPageTypeOK) /\ (part = "search" => SearchTypeOK)
  /\ (part = "proof" => ProofTypeOK) /\ (part = "signin" => SignInTypeOK)
=============================================================================
