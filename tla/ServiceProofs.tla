---------------------------- MODULE ServiceProofs ----------------------------
(*****************************************************************************)
(* The components beside the insight's life cycle, explored together by      *)
(* MCServices.  A behaviour of theirs is one of each: it starts as the       *)
(* component does, and takes its steps or leaves it alone (PartsRun).  So    *)
(* what is proved of each holds of all, and with it what the runs over       *)
(* MCSpec check.                                                             *)
(*****************************************************************************)
EXTENDS MCServices, MeetingProofs, ServerProofs, HostedProofs, PageProofs, SegmentProofs

\* Every part starts as its own specification does.
LEMMA PartsStart ==
  MCInit =>
    /\ LifeInit /\ IntakeInit /\ ReleaseInit /\ DraftInit
    /\ TenancyInit /\ BudgetInit /\ ThrottleInit /\ DailyInit /\ SignInInit
    /\ RecorderInit /\ WordingInit /\ FeedInit /\ SegmentInit /\ IndexInit
    /\ ReviewInit /\ RecordInit /\ CaptureInit /\ MeetingPageInit /\ SearchInit /\ ProofInit
BY DEF MCInit

\* A step is one of the meeting, its intake, the releases and the drafts, or leaves them alone.
LEMMA ServerSteps ==
  [MCNext]_mcVars =>
    /\ [LifeNext]_lifeVars
    /\ [IntakeNext]_intakeVars
    /\ [ReleaseNext]_releaseVars
    /\ [DraftNext]_draftVars
<1> SUFFICES ASSUME [MCNext]_mcVars
             PROVE  /\ [LifeNext]_lifeVars
                    /\ [IntakeNext]_intakeVars
                    /\ [ReleaseNext]_releaseVars
                    /\ [DraftNext]_draftVars
  OBVIOUS
<1>1. CASE UNCHANGED serverVars
  BY <1>1 DEF serverVars
<1>2. CASE MCNext /\ part \in {"life", "intake", "releases", "drafts"}
  BY <1>2 DEF MCNext
<1>3. MCNext => part \in {"life", "intake", "releases", "drafts"} \/ UNCHANGED serverVars
  BY DEF MCNext
<1> QED
  BY <1>1, <1>2, <1>3 DEF mcVars

\* A step is one of the workspaces, the budget, the throttles, the jobs and the sign-in, or
\* leaves them alone.
LEMMA HostedSteps ==
  [MCNext]_mcVars =>
    /\ [TenancyNext]_tenancyVars
    /\ [BudgetNext]_budgetVars
    /\ [ThrottleNext]_throttleVars
    /\ [DailyNext]_dailyVars
    /\ [SignInNext]_signInVars
<1> SUFFICES ASSUME [MCNext]_mcVars
             PROVE  /\ [TenancyNext]_tenancyVars
                    /\ [BudgetNext]_budgetVars
                    /\ [ThrottleNext]_throttleVars
                    /\ [DailyNext]_dailyVars
                    /\ [SignInNext]_signInVars
  OBVIOUS
<1>1. CASE UNCHANGED hostedVars
  BY <1>1 DEF hostedVars
<1>2. CASE MCNext /\ part \in {"tenancy", "budget", "throttles", "daily", "signin"}
  BY <1>2 DEF MCNext
<1>3. MCNext => part \in {"tenancy", "budget", "throttles", "daily", "signin"} \/ UNCHANGED hostedVars
  BY DEF MCNext
<1> QED
  BY <1>1, <1>2, <1>3 DEF mcVars

\* A step is one of the recorder, the wording, the calendar, the quotes and the index, or
\* leaves them alone.
LEMMA EdgeSteps ==
  [MCNext]_mcVars =>
    /\ [RecorderNext]_recorderVars
    /\ [WordingNext]_wordingVars
    /\ [FeedNext]_feedVars
    /\ [SegmentNext]_segmentVars
    /\ [IndexNext]_indexVars
<1> SUFFICES ASSUME [MCNext]_mcVars
             PROVE  /\ [RecorderNext]_recorderVars
                    /\ [WordingNext]_wordingVars
                    /\ [FeedNext]_feedVars
                    /\ [SegmentNext]_segmentVars
                    /\ [IndexNext]_indexVars
  OBVIOUS
<1>1. CASE UNCHANGED edgeVars
  BY <1>1 DEF edgeVars
<1>2. CASE MCNext /\ part \in {"recorder", "wording", "feed", "segments", "index"}
  BY <1>2 DEF MCNext
<1>3. MCNext => part \in {"recorder", "wording", "feed", "segments", "index"} \/ UNCHANGED edgeVars
  BY DEF MCNext
<1> QED
  BY <1>1, <1>2, <1>3 DEF mcVars

\* A step is one of the pages, or leaves them alone.
LEMMA WebSteps ==
  [MCNext]_mcVars =>
    /\ [ReviewNext]_reviewVars
    /\ [RecordNext]_recordVars
    /\ [CaptureNext]_captureVars
    /\ [MeetingPageNext]_meetingPageVars
    /\ [SearchNext]_searchVars
    /\ [ProofNext]_proofVars
<1> SUFFICES ASSUME [MCNext]_mcVars
             PROVE  /\ [ReviewNext]_reviewVars
                    /\ [RecordNext]_recordVars
                    /\ [CaptureNext]_captureVars
                    /\ [MeetingPageNext]_meetingPageVars
                    /\ [SearchNext]_searchVars
                    /\ [ProofNext]_proofVars
  OBVIOUS
<1>1. CASE UNCHANGED webVars
  BY <1>1 DEF webVars
<1>2. CASE MCNext /\ part \in {"review", "record", "capture", "meeting", "search", "proof"}
  BY <1>2 DEF MCNext
<1>3. MCNext => part \in {"review", "record", "capture", "meeting", "search", "proof"} \/ UNCHANGED webVars
  BY DEF MCNext
<1> QED
  BY <1>1, <1>2, <1>3 DEF mcVars

----------------------------------------------------------------------------
(* The types *)

\* What the type invariants of the parts rest on.
PartsTyped ==
  /\ LifeInv /\ IntakeInv /\ ReleaseTyped /\ DraftTyped
  /\ TenancyInv /\ BudgetInv /\ AttemptsFew /\ ThrottleInv /\ DailyTyped /\ HouseInv /\ HouseTyped
  /\ RecorderInv /\ WordingTyped /\ FeedTyped /\ SegmentTypeOK /\ IndexTyped
  /\ ReviewTyped /\ RecordTyped /\ CaptureTyped /\ MeetingPageTyped /\ SearchTyped /\ ProofTyped

\* Initially.
LEMMA PartsTypedAtFirst == MCInit => PartsTyped
BY PartsStart,
   LifeStart, IntakeStart, ReleaseTypedAtFirst, DraftTypedAtFirst, TenancyStart, Start,
   AttemptsAtFirst, ThrottleInitially, DailyTypedAtFirst, RecorderStart,
   WordingTypedAtFirst, FeedTypedAtFirst, SegmentTypedAtFirst, IndexTypedAtFirst,
   ReviewTypedAtFirst, RecordTypedAtFirst, CaptureTypedAtFirst, MeetingPageTypedAtFirst,
   SearchTypedAtFirst, ProofTypedAtFirst, HouseInit, HouseTypedAtFirst
   DEF PartsTyped

\* And after every step.
LEMMA PartsTypedStep ==
  ASSUME Patient PROVE PartsTyped /\ [MCNext]_mcVars => PartsTyped'
<1> SUFFICES ASSUME PartsTyped, [MCNext]_mcVars PROVE PartsTyped'
  OBVIOUS
<1>1. LifeInv' /\ IntakeInv' /\ ReleaseTyped' /\ DraftTyped'
  BY ServerSteps, LifeStep, IntakeStep, ReleaseTypedStep, DraftTypedStep
     DEF PartsTyped
<1>2. /\ TenancyInv' /\ (BudgetInv /\ AttemptsFew)' /\ ThrottleInv'
      /\ DailyTyped' /\ (HouseInv /\ HouseTyped)'
  BY HostedSteps, TenancyKept, BudgetStep, AttemptsStep, ThrottleStep, DailyTypedStep,
     HouseStep, HouseTypedStep
     DEF PartsTyped
<1>3. RecorderInv' /\ WordingTyped' /\ FeedTyped' /\ SegmentTypeOK' /\ IndexTyped'
  BY EdgeSteps, RecorderKept, WordingTypedStep, FeedTypedStep,
     SegmentTypedStep, IndexTypedStep
     DEF PartsTyped
<1>4. ReviewTyped' /\ RecordTyped' /\ CaptureTyped' /\ MeetingPageTyped' /\ SearchTyped' /\ ProofTyped'
  BY WebSteps, ReviewTypedStep, RecordTypedStep, CaptureTypedStep, MeetingPageTypedStep,
     SearchTypedStep, ProofTypedStep
     DEF PartsTyped
<1> QED
  BY <1>1, <1>2, <1>3, <1>4 DEF PartsTyped

\* ServicesTypeOK: every component keeps its types, for all values of its constants, while
\* people wait for the recorder's messages.
THEOREM ServicesTypeCorrect ==
  ASSUME Patient PROVE MCSpec => []ServicesTypeOK
<1>1. PartsTyped => ServicesTypeOK
  <2> SUFFICES ASSUME PartsTyped PROVE ServicesTypeOK
    OBVIOUS
  <2>1. LifeTypeOK /\ IntakeTypeOK /\ ReleaseTypeOK /\ DraftTypeOK
    BY LifeSettles, IntakeComesOut, ReleaseTypedIsTypeOK, DraftTypedIsTypeOK
       DEF PartsTyped
  <2>2. TenancyTypeOK /\ BudgetTypeOK /\ ThrottleTypeOK /\ DailyTypeOK /\ SignInTypeOK
    BY SpacesOwned, AttemptsTyped, DailyTypedIsTypeOK, HouseTypedIsTypeOK
       DEF PartsTyped, ThrottleInv
  <2>3. RecorderTypeOK /\ WordingTypeOK /\ FeedTypeOK /\ SegmentTypeOK /\ IndexTypeOK
    BY RecorderTypedIsTypeOK, WordingTypedIsTypeOK, FeedTypedIsTypeOK, IndexTypedIsTypeOK
       DEF PartsTyped, RecorderInv
  <2>4. ReviewTypeOK /\ RecordTypeOK /\ CaptureTypeOK /\ MeetingPageTypeOK /\ SearchTypeOK /\ ProofTypeOK
    BY ReviewTypedIsTypeOK, RecordTypedIsTypeOK, CaptureTypedIsTypeOK,
       MeetingPageTypedIsTypeOK, SearchTypedIsTypeOK, ProofTypedIsTypeOK
       DEF PartsTyped
  <2> QED
    BY <2>1, <2>2, <2>3, <2>4 DEF ServicesTypeOK
<1>2. PartsTyped /\ [MCNext]_mcVars => PartsTyped'
  BY PartsTypedStep
<1> QED
  BY <1>1, <1>2, PartsTypedAtFirst, PTL DEF MCSpec

----------------------------------------------------------------------------
(* The safety of the parts *)

\* A behaviour of the parts is one of each part, but for the fairness that
\* some of them are specified with.
THEOREM PartsRun ==
  MCSpec =>
    /\ DraftSpec
    /\ TenancySpec
    /\ BudgetSpec
    /\ ThrottleSpec
    /\ SignInSpec
    /\ WordingSpec
    /\ FeedSpec
    /\ SegmentSpec
    /\ IndexSpec
    /\ ReviewSpec
    /\ RecordSpec
    /\ CaptureSpec
    /\ MeetingPageSpec
    /\ SearchSpec
    /\ ProofSpec
    /\ LifeInit /\ [][LifeNext]_lifeVars
    /\ IntakeInit /\ [][IntakeNext]_intakeVars
    /\ ReleaseInit /\ [][ReleaseNext]_releaseVars
    /\ DailyInit /\ [][DailyNext]_dailyVars
    /\ RecorderInit /\ [][RecorderNext]_recorderVars
BY PartsStart, ServerSteps, HostedSteps, EdgeSteps, WebSteps, PTL
   DEF MCSpec, DraftSpec, TenancySpec, BudgetSpec, ThrottleSpec, SignInSpec, WordingSpec,
       FeedSpec, SegmentSpec, IndexSpec, ReviewSpec, RecordSpec, CaptureSpec, MeetingPageSpec,
       SearchSpec, ProofSpec

\* What the components promise, beside their types.
ServicesKept ==
  /\ NoQuoteTwice /\ MeetingSettles /\ IntakeExact /\ SameBytesOnce /\ MatchedOnce
  /\ DraftHistory /\ SchemasOwned /\ DoorsHold /\ CapsHold
  /\ SpendStays /\ LimitsHold /\ DigestOnceAlone /\ HouseKept
  /\ RecordingKept /\ WordingKept /\ FeedFollowsSettings /\ QuotesFoundWhole
  /\ IndexFollows /\ SelectionSettles /\ AddressedAsShown /\ KeepsToItsMeeting
  /\ AnswersLeaveChoices /\ ShowsWhatWasAsked /\ DecidedOnce

\* Every promise is kept in every behaviour of the components, for all values of their
\* constants: while people wait for the recorder's messages, and the sweep of stale runs
\* finds none at work.
THEOREM ServicesAlwaysKept ==
  ASSUME Patient, ~SweepsLive PROVE MCSpec => []ServicesKept
<1>1. QuoteInv /\ [LifeNext]_lifeVars => QuoteInv'
  BY QuoteStep
<1>2. QuoteInv => NoQuoteTwice
  BY DEF QuoteInv
<1>3. MCSpec => [](NoQuoteTwice /\ MeetingSettles)
  <2>1. QuoteInv => MeetingSettles
    BY LifeSettles DEF QuoteInv
  <2> QED
    BY <1>1, <1>2, <2>1, QuoteStart, PartsRun, PTL
<1>4. MCSpec => [](IntakeExact /\ SameBytesOnce /\ MatchedOnce)
  <2>1. MCSpec => [](IntakeExact /\ MatchedOnce)
    BY IntakeStart, IntakeStep, IntakeComesOut, ReleaseStart, ReleaseStep, ProposedOnceMatches,
       PartsRun, PTL
  <2>2. MCSpec => []SameBytesOnce
    BY IntakeStart, IntakeStep, CopyStart, CopyStep, CopyComesOut, PartsRun, PTL
  <2> QED
    BY <2>1, <2>2, PTL
<1>5. MCSpec => []DigestOnceAlone
  <2>1. DigestInv => DigestOnceAlone
    BY DEF DigestInv, PostedOnce, DigestShape, DigestOnceAlone, Untroubled
  <2> QED
    BY <2>1, DigestStart, DigestStep, PartsRun, PTL
<1>6. MCSpec => []RecordingKept
  <2>1. RecorderInv => RecordingKept
    BY RecordingComesOut
  <2>2. RecorderInv /\ [RecorderNext]_recorderVars => RecorderInv'
    BY RecorderKept
  <2> QED
    BY <2>1, <2>2, RecorderStart, PartsRun, PTL
<1>7. MCSpec => [](DraftHistory /\ SchemasOwned /\ DoorsHold /\ CapsHold /\ SpendStays /\ LimitsHold)
  BY DraftsAlwaysChain, WorkspacesAlwaysOwned, DoorsAlwaysHold, CapsAlwaysHold,
     SpendAlwaysStays, LimitsAlwaysHold, PartsRun, PTL
<1>8. MCSpec => [](HouseKept /\ WordingKept /\ FeedFollowsSettings /\ QuotesFoundWhole)
  BY HouseAlwaysKept, WordingAlwaysKept, FeedAlwaysFollows, QuotesAlwaysFoundWhole, PartsRun,
     PTL
<1>9. MCSpec => [](IndexFollows /\ SelectionSettles /\ AddressedAsShown /\ KeepsToItsMeeting)
  BY IndexAlwaysFollows, SelectionAlwaysSettles, AlwaysAddressedAsShown,
     AlwaysKeepsToItsMeeting, PartsRun, PTL
<1>10. MCSpec => [](AnswersLeaveChoices /\ ShowsWhatWasAsked /\ DecidedOnce)
  BY AnswersAlwaysLeaveChoices, AlwaysShowsWhatWasAsked, MatchesAlwaysDecidedOnce, PartsRun,
     PTL
<1> QED
  BY <1>3, <1>4, <1>5, <1>6, <1>7, <1>8, <1>9, <1>10, PTL DEF ServicesKept
=============================================================================
