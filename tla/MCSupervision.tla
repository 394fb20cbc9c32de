--------------------------- MODULE MCSupervision --------------------------
(***************************************************************************)
(* What the supervision poll does about lanes, on small instances.         *)
(* They share no state, so each behaviour is one component's: "part" names *)
(* it, and s1, s2, ... are its variables, in the order its module gives.   *)
(***************************************************************************)
EXTENDS Naturals, Sequences

CONSTANTS
    DepLane, Nobody, Work, MaxDepOffers, Owner, Free, IdleAfter,
    StalledAfter, ClaimLasts, Old, MaxHolds, OrphanLanes, Peer, Claims,
    MaxDeaths, MaxMoves, MaxFaults, CapLanes, MaxNow, MaxLimits, MaxClaims,
    MaxLaunches, MaxCuts, FencedPeers, MaxGenerations, MaxMarks, Rounds,
    MaxCommits, MaxTargets, MaxToggles

(* Bounds are numbers, names of no lane are no lane's, claims begin at one. *)
ASSUME SupervisionAssumption ==
    /\ Nobody \notin DepLane /\ MaxDepOffers \in Nat
    /\ Free \notin Owner /\ IdleAfter \in Nat /\ StalledAfter \in Nat
    /\ ClaimLasts \in Nat /\ Old \in Nat /\ MaxHolds \in Nat
    /\ 0 \notin OrphanLanes /\ MaxDeaths \in Nat /\ MaxMoves \in Nat
    /\ MaxFaults \in Nat /\ MaxNow \in Nat /\ MaxLimits \in Nat
    /\ MaxClaims \in Nat \ {0} /\ MaxLaunches \in Nat \ {0} /\ MaxCuts \in Nat
    /\ "nobody" \notin FencedPeers /\ MaxGenerations \in Nat \ {0}
    /\ MaxMarks \in Nat /\ Rounds \in Nat \ {0} /\ MaxToggles \in Nat
    /\ MaxCommits \in Nat \ {0} /\ MaxTargets \in Nat \ {0}

VARIABLES
    part,      \* the component a behaviour is of
    s1, s2, s3, s4, s5, s6, s7, s8, s9, s10, s11, s12, s13, s14

Dp == INSTANCE Departures WITH
        mark <- s1, proc <- s2, work <- s3, offersMade <- s4, job <- s5,
        strays <- s6

Lc == INSTANCE LapsedClaims WITH
        holder <- s1, hold <- s2, pending <- s3, finished <- s4, age <- s5,
        held <- s6, ladder <- s7, wake <- s8, marker <- s9, told <- s10,
        retold <- s11, plan <- s12, warned <- s13, dead <- s1,
        deaths <- s2, issue <- s3, orphanMarker <- s4, sweep <- s5,
        keys <- s6, heard <- s7, moves <- s8, faults <- s9

Ca == INSTANCE Capacity WITH
        now <- s1, account <- s2, entry <- s3, tool <- s4, published <- s5,
        looked <- s6, success <- s7, limits <- s8

Ry == INSTANCE Recoveries WITH
        heldClaim <- s1, claimsMade <- s2, activityNow <- s3,
        processRuns <- s4, operatorWait <- s5, publishedAs <- s6,
        approvals <- s7, transitions <- s8, orphanMark <- s9,
        refusalOf <- s10, passAt <- s11, capturedOf <- s12,
        approvedEver <- s13, cutsSoFar <- s14, claimOwner <- s1,
        generation <- s2, deathMark <- s3, marksMade <- s4, recorded <- s5,
        running <- s6, fence <- s7, publishedTakes <- s8, evidence <- s9,
        taker <- s10, verdict <- s11, takenFrom <- s12

Ua == INSTANCE UnattendedAttempts WITH
        covered <- s1, source <- s2, done <- s3, target <- s4,
        overlap <- s5, inSession <- s6, newest <- s7, attemptAt <- s8,
        pollSaw <- s9, decidedBy <- s10, repeated <- s11, toggles <- s12

vars == <<part, s1, s2, s3, s4, s5, s6, s7, s8, s9, s10, s11, s12, s13, s14>>

Unused(v) == v = "unused"

Init ==
    \/ part = "departures" /\ Dp!DeparturesInit
       /\ Unused(s7) /\ Unused(s8) /\ Unused(s9) /\ Unused(s10)
       /\ Unused(s11) /\ Unused(s12) /\ Unused(s13) /\ Unused(s14)
    \/ part = "overdueClaims" /\ Lc!OverdueInit
       /\ Unused(s14)
    \/ part = "orphans" /\ Lc!OrphansInit
       /\ Unused(s10) /\ Unused(s11) /\ Unused(s12) /\ Unused(s13)
       /\ Unused(s14)
    \/ part = "capacity" /\ Ca!CapacityInit
       /\ Unused(s9) /\ Unused(s10) /\ Unused(s11) /\ Unused(s12)
       /\ Unused(s13) /\ Unused(s14)
    \/ part = "quiesce" /\ Ry!QuiesceInit
    \/ part = "takeovers" /\ Ry!TakeoversInit
       /\ Unused(s13) /\ Unused(s14)
    \/ part = "unattendedAttempts" /\ Ua!AttemptsInit
       /\ Unused(s13) /\ Unused(s14)

OfDepartures ==
    part = "departures" /\ UNCHANGED <<part, s7, s8, s9, s10, s11, s12,
                                    s13, s14>>

OfOverdueClaims ==
    part = "overdueClaims" /\ UNCHANGED <<part, s14>>

OfOrphans ==
    part = "orphans" /\ UNCHANGED <<part, s10, s11, s12, s13, s14>>

OfCapacity ==
    part = "capacity" /\ UNCHANGED <<part, s9, s10, s11, s12, s13, s14>>

OfQuiesce ==
    part = "quiesce" /\ UNCHANGED <<part>>

OfTakeovers ==
    part = "takeovers" /\ UNCHANGED <<part, s13, s14>>

OfUnattendedAttempts ==
    part = "unattendedAttempts" /\ UNCHANGED <<part, s13, s14>>

Next ==
    \/ OfDepartures /\ Dp!DeparturesNext
    \/ OfOverdueClaims /\ Lc!OverdueNext
    \/ OfOrphans /\ Lc!OrphansNext
    \/ OfCapacity /\ Ca!CapacityNext
    \/ OfQuiesce /\ Ry!QuiesceNext
    \/ OfTakeovers /\ Ry!TakeoversNext
    \/ OfUnattendedAttempts /\ Ua!AttemptsNext

(* One component runs, so one condition serves a step of each of them. *)
Spec ==
    /\ Init /\ [][Next]_vars
    /\ WF_vars(\/ OfDepartures /\ Dp!SupervisorStep
               \/ OfOverdueClaims /\ Lc!Tick
               \/ OfOrphans /\ Lc!OrphansPoll
               \/ OfCapacity /\ Ca!Tick
               \/ OfQuiesce /\ Ry!PassStep
               \/ OfUnattendedAttempts /\ Ua!ThreadsFirst)
    /\ WF_vars(\/ OfDepartures /\ Dp!ReturnStep("supervisor")
               \/ OfOverdueClaims /\ Lc!OverduePoll
               \/ OfCapacity /\ (\E l \in CapLanes : Ca!CapacityPoll(l))
               \/ OfQuiesce /\ Ry!Reconcile
               \/ OfUnattendedAttempts /\ Ua!StartAttempt)
    /\ WF_vars(\/ OfDepartures /\ Dp!ReturnStep("operator")
               \/ OfCapacity /\ (\E l \in CapLanes : Ca!ProbeExhaustion(l))
               \/ OfUnattendedAttempts /\ Ua!Attempt)
    /\ \A l \in DepLane : SF_vars(\/ OfDepartures /\ Dp!DeadLane(l))

-----------------------------------------------------------------------------
(* Every component keeps its types. *)
TypeOK ==
    /\ part = "departures" => Dp!DeparturesTypeOK
    /\ part = "overdueClaims" => Lc!OverdueTypeOK
    /\ part = "orphans" => Lc!OrphansTypeOK
    /\ part = "capacity" => Ca!CapacityTypeOK
    /\ part = "quiesce" => Ry!QuiesceTypeOK
    /\ part = "takeovers" => Ry!TakeoversTypeOK
    /\ part = "unattendedAttempts" => Ua!AttemptsTypeOK

(* What the poll did about a lane that left, a claim or a decision is
   complete and done once: no lane that left owns or asks for anything
   but strays, no operator is told twice, a mark was announced, a
   decision is not taken again on the same news. *)
PollsLeaveNothingOver ==
    /\ part = "departures" => Dp!LeftLanesOwnOnlyStrays
          /\ Dp!LeftLanesAskForNothing
    /\ part = "overdueClaims" => Lc!ToldOncePerClaim
    /\ part = "orphans" => Lc!MarkedClaimsWereAnnounced
    /\ part = "unattendedAttempts" => Ua!NothingIsDecidedTwice

(* No step of the poll acts on what it may not: blocked work is not
   retired away, gifts were asked for, released claims were warned,
   exhaustion ends for a reason, only approved processes are stopped and
   only captured claims marked, only what was gated is merged, and a
   fence that is not published denies nobody. *)
NobodyIsActedOnBlindly ==
    [][/\ part = "departures" => Dp!BlockedWorkIsNotRetiredAwayStep
             /\ Dp!GiftsWereAskedForStep
       /\ part = "overdueClaims" => Lc!ReleasedClaimsWereWarnedStep
             /\ Lc!OwnOffersAreLeftAloneStep
       /\ part = "orphans" => Lc!QuiescedMarksStayStep
       /\ part = "capacity" => Ca!ExhaustionEndsForAReasonStep
             /\ Ca!CapacityMovesForwardStep
       /\ part = "quiesce" => Ry!OnlyApprovedProcessesAreStoppedStep
             /\ Ry!MarkedClaimsAreCapturedStep
       /\ part = "takeovers" => Ry!TakenSessionsAreSilentStep
             /\ Ry!UnpublishedFencesDenyNobodyStep
       /\ part = "unattendedAttempts" => Ua!MergesWhatWasGatedStep]_vars

(* What the poll is there for comes about, again and again: dead lanes
   give back, silent claims come to their release, running lanes lose
   their marks, exhaustion is probed, a finished recovery spends its
   approval, news is acted upon. *)
PollsGetThere ==
    []<>(/\ part = "departures" => Dp!DeadLanesGiveBackState
         /\ part = "overdueClaims" => Lc!SilentClaimsComeToReleaseState
         /\ part = "orphans" => Lc!RunningLanesLoseTheirMarksState
         /\ part = "capacity" => Ca!ExhaustionIsProbedState
         /\ part = "quiesce" => Ry!FinishedRecoveriesSpendApprovalsState
         /\ part = "unattendedAttempts" => Ua!NothingWaits)
=============================================================================
