----------------------------- MODULE MCRecords ----------------------------
(***************************************************************************)
(* Lanes, their records and worktrees, on small instances.                 *)
(* They share no state, so each behaviour is one component's: "part" names *)
(* it, and s1, s2, ... are its variables, in the order its module gives.   *)
(***************************************************************************)
EXTENDS Naturals, Sequences

CONSTANTS
    Session, MaxEvents, MaxBoots, MaxSpool, Sessions, Launcher, Untraced,
    Hooks, Modelled, Budget, MaxHookEvents, MaxMail, MaxRevision,
    MaxTouches, Launchers, MaxWork, MaxCommands, RootLane, MaxAbsences,
    Callers, MaxEdits, CapClaim, MaxChangesMade, MaxKills, MaxChanges,
    MaxSteps, Fillers, PoolLanes, Slots, PoolSize, MaxBase, MaxPoolEvents,
    ChildNames, MaxPerParent, Texts, MaxSpawns, MaxDeaths, Caller, Key,
    Args, Thread, Retained, BudgetLane, MaxServed, RepeatsWanted,
    MaxResponses, MaxResults, MaxClaims

VARIABLES
    part,      \* the component a behaviour is of
    s1, s2, s3, s4, s5, s6, s7, s8, s9, s10, s11, s12, s13, s14, s15

La == INSTANCE LaneRecords WITH
        clock <- s1, boot <- s2, live <- s3, used <- s4, activity <- s5,
        launching <- s6, spool <- s7, draining <- s8, committed <- s9,
        record <- s10, bootRecord <- s11, stage <- s12, observed <- s13,
        quiet <- s14, hookRecord <- s1, alive <- s2, revision <- s3,
        hooks <- s4, arrived <- s5, given <- s6, told <- s7, last <- s8,
        lane <- s1, checkout <- s2, store <- s3, peer <- s4, offer <- s5,
        moved <- s6, touches <- s7

Lw == INSTANCE LaneWork WITH
        enrolled <- s1, worktree <- s2, branchTip <- s3, step <- s4,
        lockFile <- s5, holds <- s6, confirmed <- s7, retiring <- s8,
        withdrawing <- s9, pausedLane <- s10, operatorStopped <- s11,
        work <- s12, commands <- s13, torn <- s14, lostWork <- s15,
        wanted <- s1, destination <- s2, ignoredFile <- s3, receipt <- s4,
        callAt <- s5, edits <- s6, overlapped <- s7, laneWork <- s1,
        capStatus <- s2, bundles <- s3, records <- s4, recentRecords <- s5,
        strayRefs <- s6, capture <- s7, sweepLedger <- s8, missed <- s9,
        kills <- s10

Rc == INSTANCE Reclaims WITH
        rootThere <- s1, parentListed <- s2, absences <- s3,
        longGone <- s4, rootRecord <- s5, keptRecord <- s6,
        retiredLanes <- s7, runningLanes <- s8, keepsWork <- s9,
        sweep <- s10, byRoot <- s11, rootCut <- s12, tree <- s1,
        changes <- s2, occupiedBy <- s3, laneRetired <- s4, stray <- s5,
        kept <- s6, sinceJudged <- s7, lostToSweep <- s8, lostToMove <- s9,
        laneTree <- s1, laneBranch <- s2, laneBusy <- s3, laneHolds <- s4,
        laneQuiet <- s5, laneSteps <- s6, judged <- s7, sweptState <- s8,
        laneRecord <- s9, movedOn <- s10, unlanded <- s11

Nl == INSTANCE NewLanes WITH
        base <- s1, entry <- s2, spareTree <- s3, poolLane <- s4,
        filler <- s5, admission <- s6, poolEvents <- s7, child <- s1,
        left <- s2, key <- s3, toldParent <- s4, job <- s5, launches <- s6,
        spawns <- s7, deaths <- s8

Lm == INSTANCE Limits WITH
        ledgered <- s1, retained <- s2, attempt <- s3, admitted <- s4,
        effects <- s5, callLimit <- s1, runLedger <- s2, callsServed <- s3,
        metered <- s4, owed <- s5, turns <- s6, claim <- s1, blocked <- s2,
        results <- s3, polled <- s4, account <- s5, readTo <- s6,
        asked <- s7

vars == <<part, s1, s2, s3, s4, s5, s6, s7, s8, s9, s10, s11, s12, s13,
        s14, s15>>

Unused(v) == v = "unused"

Init ==
    \/ part = "laneStates" /\ La!LaneStatesInit
       /\ Unused(s15)
    \/ part = "checkpoints" /\ La!CheckpointsInit
       /\ Unused(s9) /\ Unused(s10) /\ Unused(s11) /\ Unused(s12)
       /\ Unused(s13) /\ Unused(s14) /\ Unused(s15)
    \/ part = "laneGuards" /\ La!LaneGuardsInit
       /\ Unused(s8) /\ Unused(s9) /\ Unused(s10) /\ Unused(s11)
       /\ Unused(s12) /\ Unused(s13) /\ Unused(s14) /\ Unused(s15)
    \/ part = "laneSessions" /\ Lw!LaneSessionsInit
    \/ part = "rootGone" /\ Rc!RootGoneInit
       /\ Unused(s13) /\ Unused(s14) /\ Unused(s15)
    \/ part = "restores" /\ Lw!RestoresInit
       /\ Unused(s8) /\ Unused(s9) /\ Unused(s10) /\ Unused(s11)
       /\ Unused(s12) /\ Unused(s13) /\ Unused(s14) /\ Unused(s15)
    \/ part = "captures" /\ Lw!CapturesInit
       /\ Unused(s11) /\ Unused(s12) /\ Unused(s13) /\ Unused(s14)
       /\ Unused(s15)
    \/ part = "strays" /\ Rc!StraysInit
       /\ Unused(s10) /\ Unused(s11) /\ Unused(s12) /\ Unused(s13)
       /\ Unused(s14) /\ Unused(s15)
    \/ part = "laneReclaim" /\ Rc!LaneReclaimInit
       /\ Unused(s12) /\ Unused(s13) /\ Unused(s14) /\ Unused(s15)
    \/ part = "sparePool" /\ Nl!PoolInit
       /\ Unused(s8) /\ Unused(s9) /\ Unused(s10) /\ Unused(s11)
       /\ Unused(s12) /\ Unused(s13) /\ Unused(s14) /\ Unused(s15)
    \/ part = "children" /\ Nl!ChildrenInit
       /\ Unused(s9) /\ Unused(s10) /\ Unused(s11) /\ Unused(s12)
       /\ Unused(s13) /\ Unused(s14) /\ Unused(s15)
    \/ part = "retries" /\ Lm!RetriesInit
       /\ Unused(s6) /\ Unused(s7) /\ Unused(s8) /\ Unused(s9)
       /\ Unused(s10) /\ Unused(s11) /\ Unused(s12) /\ Unused(s13)
       /\ Unused(s14) /\ Unused(s15)
    \/ part = "budgets" /\ Lm!BudgetsInit
       /\ Unused(s7) /\ Unused(s8) /\ Unused(s9) /\ Unused(s10)
       /\ Unused(s11) /\ Unused(s12) /\ Unused(s13) /\ Unused(s14)
       /\ Unused(s15)
    \/ part = "convergence" /\ Lm!ConvergenceInit
       /\ Unused(s8) /\ Unused(s9) /\ Unused(s10) /\ Unused(s11)
       /\ Unused(s12) /\ Unused(s13) /\ Unused(s14) /\ Unused(s15)

OfLaneStates ==
    part = "laneStates" /\ UNCHANGED <<part, s15>>

OfCheckpoints ==
    part = "checkpoints" /\ UNCHANGED <<part, s9, s10, s11, s12, s13, s14,
                                     s15>>

OfLaneGuards ==
    part = "laneGuards" /\ UNCHANGED <<part, s8, s9, s10, s11, s12, s13,
                                    s14, s15>>

OfLaneSessions ==
    part = "laneSessions" /\ UNCHANGED <<part>>

OfRootGone ==
    part = "rootGone" /\ UNCHANGED <<part, s13, s14, s15>>

OfRestores ==
    part = "restores" /\ UNCHANGED <<part, s8, s9, s10, s11, s12, s13, s14,
                                  s15>>

OfCaptures ==
    part = "captures" /\ UNCHANGED <<part, s11, s12, s13, s14, s15>>

OfStrays ==
    part = "strays" /\ UNCHANGED <<part, s10, s11, s12, s13, s14, s15>>

OfLaneReclaim ==
    part = "laneReclaim" /\ UNCHANGED <<part, s12, s13, s14, s15>>

OfSparePool ==
    part = "sparePool" /\ UNCHANGED <<part, s8, s9, s10, s11, s12, s13,
                                   s14, s15>>

OfChildren ==
    part = "children" /\ UNCHANGED <<part, s9, s10, s11, s12, s13, s14, s15>>

OfRetries ==
    part = "retries" /\ UNCHANGED <<part, s6, s7, s8, s9, s10, s11, s12,
                                 s13, s14, s15>>

OfBudgets ==
    part = "budgets" /\ UNCHANGED <<part, s7, s8, s9, s10, s11, s12, s13,
                                 s14, s15>>

OfConvergence ==
    part = "convergence" /\ UNCHANGED <<part, s8, s9, s10, s11, s12, s13,
                                     s14, s15>>

Next ==
    \/ OfLaneStates /\ La!LaneStatesNext
    \/ OfCheckpoints /\ La!CheckpointsNext
    \/ OfLaneGuards /\ La!LaneGuardsNext
    \/ OfLaneSessions /\ Lw!LaneSessionsNext
    \/ OfRootGone /\ Rc!RootGoneNext
    \/ OfRestores /\ Lw!RestoresNext
    \/ OfCaptures /\ Lw!CapturesNext
    \/ OfStrays /\ Rc!StraysNext
    \/ OfLaneReclaim /\ Rc!LaneReclaimNext
    \/ OfSparePool /\ Nl!PoolNext
    \/ OfChildren /\ Nl!ChildrenNext
    \/ OfRetries /\ Lm!RetriesNext
    \/ OfBudgets /\ Lm!BudgetsNext
    \/ OfConvergence /\ Lm!ConvergenceNext

Spec == Init /\ [][Next]_vars

-----------------------------------------------------------------------------
(* Every component keeps its types. *)
TypeOK ==
    /\ part = "laneStates" => La!LaneStatesTypeOK
    /\ part = "checkpoints" => La!CheckpointsTypeOK
    /\ part = "laneGuards" => La!LaneGuardsTypeOK
    /\ part = "laneSessions" => Lw!LaneSessionsTypeOK
    /\ part = "rootGone" => Rc!RootGoneTypeOK
    /\ part = "restores" => Lw!RestoresTypeOK
    /\ part = "captures" => Lw!CapturesTypeOK
    /\ part = "strays" => Rc!StraysTypeOK
    /\ part = "laneReclaim" => Rc!LaneReclaimTypeOK
    /\ part = "sparePool" => Nl!PoolTypeOK
    /\ part = "children" => Nl!ChildrenTypeOK
    /\ part = "retries" => Lm!RetriesTypeOK
    /\ part = "budgets" => Lm!BudgetsTypeOK
    /\ part = "convergence" => Lm!ConvergenceTypeOK

(* What the lane commands, captures, restores, moves and sweeps do to
   work that is only in a worktree: commands and withdrawals discard
   nothing a client left, restores and captures are whole, a move loses
   nothing and a sweep only files Git ignores and only by force,
   reclaimed work has landed, no two lanes or clients share a tree,
   dangerous commands are refused. What a late discard of the pool and a
   forced removal do lose, PoolDiscards and ForcedSweeps show. *)
WorkIsKept ==
    /\ part = "laneGuards" => La!OwnCommandsKeepTheBranch
          /\ La!HazardsAreRefused
    /\ part = "laneSessions" => Lw!OneClientPerWorktree
          /\ Lw!NothingIsDiscarded
    /\ part = "restores" => Lw!CompleteMeansRestored
          /\ Lw!InterruptedRestoresGoOn
    /\ part = "captures" => Lw!BundlesHoldWhatIsRecorded
          /\ Lw!TakenCheckpointsAreKept
    /\ part = "strays" => Rc!NothingIsSweptAway /\ Rc!NothingIsLostInAMove
    /\ part = "laneReclaim" => Rc!ReclaimedWorkHasLanded
    /\ part = "sparePool" => Nl!OneLanePerTree /\ Nl!PoolKeepsItsSize

(* What is recorded of a lane, a call or a project happened: sessions
   and labels, mail given and notices told, retired lanes, results of
   children, keys of calls, budgets and failures. *)
RecordsAreTrue ==
    /\ part = "laneStates" => La!LiveSessionsAreNotRebooted
          /\ La!QuietPollSettlesTheRecord
    /\ part = "checkpoints" => La!MarkedMailWasGiven
          /\ La!MarkedNoticesWereTold /\ La!QuietLaneKeepsItsLabel
    /\ part = "laneGuards" => La!DriftIsRepairable
          /\ La!OutagesCanBeDiagnosed /\ La!DeadlineRefusesLess
    /\ part = "rootGone" => Rc!RetiredLanesAreNamed
    /\ part = "children" => Nl!ResultsAreToldOnce
          /\ Nl!RecordedResultsWereSent
    /\ part = "retries" => Lm!EffectsMatchRows
    /\ part = "budgets" => Lm!UseIsCounted
    /\ part = "convergence" => Lm!FailuresAreDistinctAndCurrent
          /\ Lm!ResponsesAreBounded /\ Lm!OnlyFailingClaimsAreTold

(* No step changes a record it has no reason to: replayed evidence moves
   nothing, clients start in admitted lanes, a project is retired empty,
   a restore puts back what was captured, a forced capture is current,
   commits outlive their lane, a replay reports the same call, a halt
   holds. *)
RecordsMoveForAReason ==
    [][/\ part = "laneStates" => La!ReplayedEvidenceMovesNothingStep
       /\ part = "laneSessions" => Lw!ClientsStartInAdmittedLanesStep
       /\ part = "rootGone" => Rc!RetiredProjectsAreEmptyStep
       /\ part = "restores" => Lw!RestoredIsWhatWasCapturedStep
       /\ part = "captures" => Lw!ForcedCapturesAreCurrentStep
       /\ part = "laneReclaim" => Rc!CommitsOutliveTheirLaneStep
       /\ part = "retries" => Lm!ReplaysReportTheSameCallStep
             /\ Lm!LanesKeepTheirOwnKeysStep
       /\ part = "budgets" => Lm!TurnsFitTheRestStep /\ Lm!HaltHoldsStep]_vars

-----------------------------------------------------------------------------
(* The next two are what documents say and the code does not keep.  No fill, sweep
   or admission of the pool removes the worktree of a lane that works in it:
   pool.py:128 and 194, a spare holds no work and may go by force, and a worktree
   at a lane's path belongs to the lane. *)
LiveLanesKeepTheirTree ==
    part = "sparePool" => Nl!LiveLanesKeepTheirTree

(* No forced removal takes files Git ignores with it: docs/commands.md:105, such a
   worktree is kept even with --force. *)
ForceKeepsIgnoredFiles ==
    part = "strays" => Rc!ForceKeepsIgnoredFiles
=============================================================================
