--------------------------- MODULE MCIntegration --------------------------
(***************************************************************************)
(* Work: offered, planned, decided, merged and integrated, on small        *)
(* instances.  They share no state, so each behaviour is one component's: "part" names *)
(* it, and s1, s2, ... are its variables, in the order its module gives.   *)
(***************************************************************************)
EXTENDS Naturals, Sequences, FiniteSets

CONSTANTS
    WakeAttempts, WakeCeiling, WakeMail, MaxWakeOffers, MaxProgress,
    MaxWindows, MaxPrompts, WorkLanes, WorkIssues, WokenLanes, MaxTries,
    Rounds, MaxHeads, MaxRuns, MaxReviews, MaxCuts, MergeLanes, FirstLane,
    NoLane, RepairAttempts, MaxLimit, MaxRev, MaxBase, Mergers, MaxMoves,
    Edges, MaxAutomatic, MaxFlips, MaxPending, MaxVersion, MaxFiled,
    MaxOccurrence, IdleLanes, NoTaker, MaxForged, HeldIssue, ClaimCap,
    WakeLimit, MaxTroubles, CatIssues, CatPage, CatLimit, CatFull,
    CatStale, MaxClock, MaxForgeEdits, MaxTouches, MaxVisits, MaxReds,
    MaxBlueprintRuns, MaxBlueprintCuts

(* Bounds are numbers, names of no lane are no lane's, there is work to bound. *)
ASSUME IntegrationAssumption ==
    /\ FirstLane \in MergeLanes /\ NoLane \notin MergeLanes
    /\ RepairAttempts \in Nat \ {0} /\ MaxRev \in Nat \ {0} /\ MaxBase \in Nat
    /\ IsFiniteSet(Mergers) /\ "none" \notin Mergers /\ MaxMoves \in Nat
    /\ MaxVersion \in Nat \ {0} /\ MaxAutomatic \in Nat /\ MaxFlips \in Nat
    /\ MaxOccurrence \in Nat /\ NoTaker \notin IdleLanes /\ MaxForged \in Nat /\ WakeLimit \in Nat
    /\ MaxTroubles \in Nat /\ IsFiniteSet(CatIssues) /\ CatLimit \in Nat /\ CatStale \in Nat
    /\ MaxClock \in Nat \ {0, 1} /\ MaxForgeEdits \in Nat /\ MaxTouches \in Nat
    /\ MaxVisits \in Nat \ {0} /\ MaxReds \in Nat /\ MaxBlueprintRuns \in Nat
    /\ MaxBlueprintCuts \in Nat /\ WorkLanes \in Nat \ {0} /\ WorkIssues \in Nat
    /\ WokenLanes \subseteq 1..WorkLanes /\ MaxTries \in Nat
    /\ WakeAttempts \in Nat \ {0} /\ WakeCeiling \in Nat /\ MaxWindows \in Nat
    /\ MaxProgress \in Nat /\ MaxWakeOffers \in Nat
    /\ MaxHeads \in Nat \ {0} /\ MaxRuns \in Nat /\ MaxReviews \in Nat

VARIABLES
    part,      \* the component a behaviour is of
    s1, s2, s3, s4, s5, s6, s7, s8, s9, s10, s11, s12, s13, s14

Wa == INSTANCE Wakes WITH
        wakeNow <- s1, condition <- s2, turnAt <- s3, unread <- s4,
        offer <- s5, issued <- s6, dispatch <- s7, progress <- s8,
        wakeRow <- s9, offerAsked <- s10, streak <- s11

Wo == INSTANCE WorkOffers WITH
        owns <- s1, published <- s2, attempts <- s3, round <- s4,
        asked <- s5, counted <- s6

Pr == INSTANCE PullRequests WITH
        pr <- s1, seen <- s2, decision <- s3, stage <- s4, heard <- s5,
        heardReviews <- s6, repeats <- s7, reruns <- s8, grants <- s9,
        cuts <- s10

Ig == INSTANCE Integrations WITH
        base <- s1, head <- s2, work <- s3, reports <- s4,
        baseDecision <- s5, record <- s6, run <- s7, candidate <- s8,
        owed <- s9, answered <- s10

Bm == INSTANCE BulkMerges WITH
        waitsOn <- s1, neededBy <- s2, execution <- s3, holder <- s4,
        tip <- s5, inBase <- s6, clashing <- s7, predictable <- s8,
        leftover <- s9, bulk <- s10, bulkMerged <- s11, tipsMoved <- s12,
        hitConflict <- s13, moves <- s14

Pl == INSTANCE PlanRevisions WITH
        deps <- s1, landed <- s2, plan <- s3, proposals <- s4,
        settling <- s5, touched <- s6, since <- s7, auto <- s8

Si == INSTANCE Situations WITH
        decided <- s1, answerer <- s2, buttons <- s3, prompts <- s4,
        again <- s5, suggestion <- s1, ask <- s2, accepting <- s3,
        forged <- s4, offeredTo <- s5, doubts <- s6

Pb == INSTANCE Problems WITH
        rec <- s1, listed <- s2, troubles <- s3, lost <- s4

Fc == INSTANCE ForgeCatalog WITH
        clock <- s1, forge <- s2, catalog <- s3, refresh <- s4,
        records <- s5, closedSince <- s6, forgeEdits <- s7, touches <- s8

Bl == INSTANCE Blueprints WITH
        blueprint <- s1, byLabel <- s2, heldOpen <- s3, runRecord <- s4,
        copy <- s5, walkAt <- s6, sent <- s7, answer <- s8, verdict <- s9,
        reds <- s10, runs <- s11, serviceCuts <- s12

vars == <<part, s1, s2, s3, s4, s5, s6, s7, s8, s9, s10, s11, s12, s13, s14>>

Unused(v) == v = "unused"

Init ==
    \/ part = "wakes" /\ Wa!WakesInit
       /\ Unused(s12) /\ Unused(s13) /\ Unused(s14)
    \/ part = "workOffers" /\ Wo!WorkOffersInit
       /\ Unused(s7) /\ Unused(s8) /\ Unused(s9) /\ Unused(s10)
       /\ Unused(s11) /\ Unused(s12) /\ Unused(s13) /\ Unused(s14)
    \/ part = "pullRequests" /\ Pr!PullRequestsInit
       /\ Unused(s11) /\ Unused(s12) /\ Unused(s13) /\ Unused(s14)
    \/ part = "integrations" /\ Ig!IntegrationsInit
       /\ Unused(s11) /\ Unused(s12) /\ Unused(s13) /\ Unused(s14)
    \/ part = "bulkMerges" /\ Bm!BulkInit
    \/ part = "planRevisions" /\ Pl!PlanRevisionsInit
       /\ Unused(s9) /\ Unused(s10) /\ Unused(s11) /\ Unused(s12)
       /\ Unused(s13) /\ Unused(s14)
    \/ part = "decisions" /\ Si!DecisionsInit
       /\ Unused(s6) /\ Unused(s7) /\ Unused(s8) /\ Unused(s9)
       /\ Unused(s10) /\ Unused(s11) /\ Unused(s12) /\ Unused(s13)
       /\ Unused(s14)
    \/ part = "followups" /\ Si!FollowupsInit
       /\ Unused(s7) /\ Unused(s8) /\ Unused(s9) /\ Unused(s10)
       /\ Unused(s11) /\ Unused(s12) /\ Unused(s13) /\ Unused(s14)
    \/ part = "problems" /\ Pb!ProblemsInit
       /\ Unused(s5) /\ Unused(s6) /\ Unused(s7) /\ Unused(s8)
       /\ Unused(s9) /\ Unused(s10) /\ Unused(s11) /\ Unused(s12)
       /\ Unused(s13) /\ Unused(s14)
    \/ part = "forgeCatalog" /\ Fc!CatalogInit
       /\ Unused(s9) /\ Unused(s10) /\ Unused(s11) /\ Unused(s12)
       /\ Unused(s13) /\ Unused(s14)
    \/ part = "blueprints" /\ Bl!BlueprintsInit
       /\ Unused(s13) /\ Unused(s14)

OfWakes ==
    part = "wakes" /\ UNCHANGED <<part, s12, s13, s14>>

OfWorkOffers ==
    part = "workOffers" /\ UNCHANGED <<part, s7, s8, s9, s10, s11, s12,
                                    s13, s14>>

OfPullRequests ==
    part = "pullRequests" /\ UNCHANGED <<part, s11, s12, s13, s14>>

OfIntegrations ==
    part = "integrations" /\ UNCHANGED <<part, s11, s12, s13, s14>>

OfBulkMerges ==
    part = "bulkMerges" /\ UNCHANGED <<part>>

OfPlanRevisions ==
    part = "planRevisions" /\ UNCHANGED <<part, s9, s10, s11, s12, s13, s14>>

OfDecisions ==
    part = "decisions" /\ UNCHANGED <<part, s6, s7, s8, s9, s10, s11, s12,
                                   s13, s14>>

OfFollowups ==
    part = "followups" /\ UNCHANGED <<part, s7, s8, s9, s10, s11, s12, s13,
                                   s14>>

OfProblems ==
    part = "problems" /\ UNCHANGED <<part, s5, s6, s7, s8, s9, s10, s11,
                                  s12, s13, s14>>

OfForgeCatalog ==
    part = "forgeCatalog" /\ UNCHANGED <<part, s9, s10, s11, s12, s13, s14>>

OfBlueprints ==
    part = "blueprints" /\ UNCHANGED <<part, s13, s14>>

Next ==
    \/ OfWakes /\ Wa!WakesNext
    \/ OfWorkOffers /\ Wo!WorkOffersNext
    \/ OfPullRequests /\ Pr!PullRequestsNext
    \/ OfIntegrations /\ Ig!IntegrationsNext
    \/ OfBulkMerges /\ Bm!BulkNext
    \/ OfPlanRevisions /\ Pl!PlanRevisionsNext
    \/ OfDecisions /\ Si!DecisionsNext
    \/ OfFollowups /\ Si!FollowupsNext
    \/ OfProblems /\ Pb!ProblemsNext
    \/ OfForgeCatalog /\ Fc!CatalogNext
    \/ OfBlueprints /\ Bl!BlueprintsNext

Spec == Init /\ [][Next]_vars

-----------------------------------------------------------------------------
(* Every component keeps its types. *)
TypeOK ==
    /\ part = "wakes" => Wa!WakesTypeOK
    /\ part = "workOffers" => Wo!WorkOffersTypeOK
    /\ part = "pullRequests" => Pr!PullRequestsTypeOK
    /\ part = "integrations" => Ig!IntegrationsTypeOK
    /\ part = "bulkMerges" => Bm!BulkTypeOK
    /\ part = "planRevisions" => Pl!PlanRevisionsTypeOK
    /\ part = "decisions" => Si!DecisionsTypeOK
    /\ part = "followups" => Si!FollowupsTypeOK
    /\ part = "problems" => Pb!ProblemsTypeOK
    /\ part = "forgeCatalog" => Fc!CatalogTypeOK
    /\ part = "blueprints" => Bl!BlueprintsTypeOK

(* Prompts, verdicts, reruns, filings and answers are counted as what
   they are: none is made more often than its bound, told twice, carried
   out twice or charged to other work. *)
AskedAndToldOnce ==
    /\ part = "wakes" => Wa!OfferPromptsAreBounded
    /\ part = "workOffers" => Wo!AttemptsAreTheOffers
    /\ part = "pullRequests" => Pr!RecordedChangesWereTold
          /\ Pr!VerdictsAreToldOnce /\ Pr!OneRerunPerHead
          /\ Pr!GrantsBuyRounds /\ Pr!RoundsAreHeads
    /\ part = "integrations" => Ig!AttemptsAreCounted
    /\ part = "planRevisions" => Pl!EnvelopeBoundsLanes
    /\ part = "decisions" => Si!CarriedOutOnce
    /\ part = "followups" => Si!FiledOnce
    /\ part = "blueprints" => Bl!AFailureForEachVerdict

(* What is merged, revised, answered or offered rests on what was read
   and recorded: an unverified base is recorded, prerequisites merge
   first and predicted runs cleanly, the two files agree on a revision,
   grave answers were confirmed, waiting runs were asked, the catalog is
   current and offers open work. *)
NothingIsMergedUnseen ==
    /\ part = "integrations" => Ig!UnverifiedBaseIsRecorded
    /\ part = "bulkMerges" => Bm!PrerequisitesMergeFirst
          /\ Bm!UnconfirmedLanesStayOut /\ Bm!MergedArePrefix
          /\ Bm!PredictedRunsMergeCleanly
    /\ part = "planRevisions" => Pl!FilesAgreeOnRevisions
    /\ part = "decisions" => Si!GraveAnswersWereConfirmed
    /\ part = "followups" => Si!FiledIsRemembered /\ Si!AnsweredMeansFiled
    /\ part = "problems" => Pb!NobodyWaitsUnseen /\ Pb!ServiceRowsAreServed
          /\ Pb!NothingIsRetiredAway
    /\ part = "forgeCatalog" => Fc!CatalogIsCurrent /\ Fc!OfferedWorkWasOpen
    /\ part = "blueprints" => Bl!NothingRunsOnAnUnrecordedPass
          /\ Bl!WaitingRunsWereAsked /\ Bl!DefaultsAreRecorded

(* No step builds on what was not verified or answers another question:
   prompts back off, leads are spread, nobody builds on unverified work,
   completed work is verified, approvals answer this work, revisions
   land on their ground, answers and offers stand, only closed work is
   ended. *)
StepsStandOnVerifiedGround ==
    [][/\ part = "wakes" => Wa!PromptsBackOffStep
       /\ part = "workOffers" => Wo!LeadsAreSpreadStep
       /\ part = "integrations" => Ig!NobodyBuildsOnUnverifiedWorkStep
             /\ Ig!CompletedWorkIsVerifiedStep
             /\ Ig!ApprovalsAnswerThisWorkStep
       /\ part = "planRevisions" => Pl!RevisionsLandOnTheirGroundStep
             /\ Pl!LanesDoNotFlipEdgesStep
       /\ part = "decisions" => Si!AnswersStandStep
       /\ part = "followups" => Si!OffersAreNotReplacedStep
       /\ part = "forgeCatalog" => Fc!OnlyClosedWorkIsEndedStep]_vars
=============================================================================
