------------------------------ MODULE Reclaims ------------------------------
(***************************************************************************)
(* Worktrees that are removed: those no lane owns, those of lanes that are *)
(* reclaimed or moved, and the lanes of a project whose root is gone.      *)
(* The parts share no state: each has its own Init and Next.               *)
(***************************************************************************)
EXTENDS Naturals, FiniteSets

(***************************************************************************)
(* One worktree a lane made beside its own, and the sweep that removes it  *)
(* or moves it.  The sweep judges all worktrees first and acts after, so   *)
(* the worktree may have changed by then; before a removal that git would  *)
(* refuse it writes a checkpoint of the worktree (recovery.preserve).      *)
(***************************************************************************)

CONSTANTS
    MaxChanges      \* model bound: changes made to the worktree

VARIABLES
    tree,           \* the worktree: what is in it and where it is
    changes,        \* model bound: changes made to it
    occupiedBy,     \* a process works in it
    laneRetired,    \* the lane that made it is retired
    stray,          \* the sweep's step: what it means to do, and how it judged
    kept,           \* the parts the newest checkpoint of it holds
    sinceJudged,    \* ghost: parts added since it was judged
    lostToSweep,    \* ghost: parts of it a removal left nowhere, and whether by force
    lostToMove      \* ghost: parts of it a move left nowhere

strayVars == <<tree, changes, occupiedBy, laneRetired, stray, kept, sinceJudged,
               lostToSweep, lostToMove>>

Parts == {"edits", "files", "commits"}
Reasons == {"none", "locked", "session", "uncommitted", "ignored", "absorbed", "unpushed",
            "abandoned", "recent", "stale"}
NoStray == [at |-> "idle", reason |-> "none", forced |-> FALSE]

(* A head is in the base, on its upstream, absorbed by the base through another
   branch, or nowhere else; a cache is an ignored file a rerun makes again. *)
StraysTypeOK ==
    /\ tree \in [at : {"aside", "placed", "gone"}, dirty : BOOLEAN,
                 ignored : {"none", "cache", "own"},
                 head : {"contained", "pushed", "absorbed", "only"}, branch : BOOLEAN,
                 recent : BOOLEAN, locked : BOOLEAN]
    /\ changes \in 0..MaxChanges /\ occupiedBy \in BOOLEAN /\ laneRetired \in BOOLEAN
    /\ stray \in [at : {"idle", "judged", "saved", "move", "moveSaved", "moveGone"},
                  reason : Reasons, forced : BOOLEAN]
    /\ {kept, sinceJudged, lostToMove} \subseteq SUBSET Parts
    /\ lostToSweep \subseteq Parts \X BOOLEAN

StraysInit ==
    /\ tree \in [at : {"aside"}, dirty : {FALSE}, ignored : {"none", "cache"},
                 head : {"contained"}, branch : BOOLEAN, recent : {TRUE}, locked : BOOLEAN]
    /\ changes = 0 /\ occupiedBy = FALSE /\ laneRetired = FALSE
    /\ stray = NoStray /\ kept = {} /\ sinceJudged = {} /\ lostToSweep = {} /\ lostToMove = {}

-----------------------------------------------------------------------------
(* Someone works in it: edits, files git ignores, commits; commits are pushed or
   land through another branch.  Time passes, sessions and lanes end. *)
Changed(part, new) ==
    /\ tree' = new /\ changes < MaxChanges /\ changes' = changes + 1
    /\ sinceJudged' = IF stray = NoStray THEN {} ELSE sinceJudged \cup {part}

WorkInIt ==
    /\ tree.at # "gone"
    /\ \/ Changed("edits", [tree EXCEPT !.dirty = TRUE, !.recent = TRUE])
       \/ Changed("files", [tree EXCEPT !.ignored = "own", !.recent = TRUE])
       \/ Changed("commits", [tree EXCEPT !.dirty = FALSE, !.head = "only", !.recent = TRUE])
    /\ UNCHANGED <<occupiedBy, laneRetired, stray, kept, lostToSweep, lostToMove>>

HeadMoves ==
    /\ tree.head = "only"
    /\ \E h \in {"pushed", "absorbed"} : tree' = [tree EXCEPT !.head = h]
    /\ UNCHANGED <<changes, occupiedBy, laneRetired, stray, kept, sinceJudged, lostToSweep,
                   lostToMove>>

TimeGoesBy ==
    /\ \/ tree.recent /\ tree' = [tree EXCEPT !.recent = FALSE]
          /\ UNCHANGED <<occupiedBy, laneRetired>>
       \/ occupiedBy' = ~occupiedBy /\ UNCHANGED <<tree, laneRetired>>
       \/ ~laneRetired /\ laneRetired' = TRUE /\ UNCHANGED <<tree, occupiedBy>>
    /\ UNCHANGED <<changes, stray, kept, sinceJudged, lostToSweep, lostToMove>>

-----------------------------------------------------------------------------
(* _stray: what decides whether the worktree may go. *)
Verdict ==
    CASE tree.locked -> "locked"
      [] ~tree.locked /\ occupiedBy -> "session"
      [] ~tree.locked /\ ~occupiedBy /\ tree.dirty -> "uncommitted"
      [] ~tree.locked /\ ~occupiedBy /\ ~tree.dirty /\ tree.ignored = "own" -> "ignored"
      [] OTHER ->
           CASE tree.head = "absorbed" /\ (laneRetired \/ ~tree.recent) -> "absorbed"
             [] tree.head = "only" \/ (tree.head = "absorbed" /\ ~laneRetired /\ tree.recent) ->
                  "unpushed"
             [] tree.head \in {"contained", "pushed"} /\ laneRetired -> "abandoned"
             [] tree.head \in {"contained", "pushed"} /\ ~laneRetired /\ tree.recent -> "recent"
             [] OTHER -> "stale"

Removable == {"abandoned", "stale", "absorbed"}
Bundled == {"absorbed"}
Forceable == {"uncommitted", "unpushed", "recent"}

(* strays: every worktree is judged before the first is removed. *)
Judge ==
    /\ stray = NoStray /\ tree.at # "gone"
    /\ \E force \in BOOLEAN :
         /\ Verdict \in Removable \/ (force /\ Verdict \in Forceable)
         /\ stray' = [at |-> "judged", reason |-> Verdict,
                      forced |-> Verdict \in Forceable]
    /\ sinceJudged' = {}
    /\ UNCHANGED <<tree, changes, occupiedBy, laneRetired, kept, lostToSweep, lostToMove>>

(* recovery.preserve: the index, the files git does not ignore and the head. *)
Captured == (IF tree.dirty THEN {"edits"} ELSE {}) \cup {"commits"}

(* remove: a checkpoint first where git would refuse, or where the commits are
   on no ref; nothing is removed when it fails. *)
Save ==
    /\ stray.at = "judged" /\ (stray.forced \/ stray.reason \in Bundled)
    /\ \/ kept' = Captured /\ stray' = [stray EXCEPT !.at = "saved"]
       \/ stray' = NoStray /\ UNCHANGED kept
    /\ UNCHANGED <<tree, changes, occupiedBy, laneRetired, sinceJudged, lostToSweep,
                   lostToMove>>

(* What of the worktree is nowhere but in it: its branch outlives it. *)
OnlyHere ==
    (IF tree.dirty THEN {"edits"} ELSE {})
      \cup (IF tree.ignored = "own" THEN {"files"} ELSE {})
      \cup (IF tree.head \in {"only", "absorbed"} /\ ~tree.branch THEN {"commits"} ELSE {})

(* git worktree remove: one that is locked stays, and without force a dirty one. *)
Remove ==
    /\ \/ stray.at = "saved"
       \/ stray.at = "judged" /\ ~stray.forced /\ stray.reason \notin Bundled
    /\ IF tree.locked \/ (tree.dirty /\ ~stray.forced)
       THEN UNCHANGED <<tree, lostToSweep>>
       ELSE /\ tree' = [tree EXCEPT !.at = "gone"]
            /\ lostToSweep' = lostToSweep \cup
                 (OnlyHere \ (sinceJudged \cup IF stray.at = "saved" THEN kept ELSE {}))
                     \X {stray.forced}
    /\ stray' = NoStray
    /\ UNCHANGED <<changes, occupiedBy, laneRetired, kept, sinceJudged, lostToMove>>

-----------------------------------------------------------------------------
(* relocations: one that lies outside the places for it is moved, unless locked,
   in use or fresh. *)
MayMove == ~tree.locked /\ ~occupiedBy /\ ~tree.recent

PlanMove ==
    /\ stray = NoStray /\ tree.at = "aside" /\ MayMove
    /\ stray' = [NoStray EXCEPT !.at = "move"] /\ sinceJudged' = {}
    /\ UNCHANGED <<tree, changes, occupiedBy, laneRetired, kept, lostToSweep, lostToMove>>

(* relocate: git moves it, or refuses. *)
Move ==
    /\ stray.at = "move" /\ stray' = NoStray
    /\ tree' \in {tree, [tree EXCEPT !.at = "placed"]}
    /\ UNCHANGED <<changes, occupiedBy, laneRetired, kept, sinceJudged, lostToSweep,
                   lostToMove>>

(* rebuild, across filesystems: a checkpoint, which cannot carry what git
   ignores; a removal by force; and the worktree again from the checkpoint. *)
Carries == tree.ignored # "own"

SaveForMove ==
    /\ stray.at = "move"
    /\ \/ Carries /\ kept' = Captured /\ stray' = [stray EXCEPT !.at = "moveSaved"]
       \/ stray' = NoStray /\ UNCHANGED kept
    /\ UNCHANGED <<tree, changes, occupiedBy, laneRetired, sinceJudged, lostToSweep,
                   lostToMove>>

RemoveForMove ==
    /\ stray.at = "moveSaved"
    /\ IF tree.locked
       THEN stray' = NoStray /\ UNCHANGED <<tree, lostToMove>>
       ELSE /\ stray' = [stray EXCEPT !.at = "moveGone"]
            /\ tree' = [tree EXCEPT !.at = "gone"]
            /\ lostToMove' = lostToMove \cup (OnlyHere \ (sinceJudged \cup kept))
    /\ UNCHANGED <<changes, occupiedBy, laneRetired, kept, sinceJudged, lostToSweep>>

(* restore_preserved: at a path where nothing is, from the checkpoint; it may
   fail, and the operator may restore it later. *)
Rebuild ==
    /\ tree.at = "gone" /\ "commits" \in kept /\ stray.at \in {"idle", "moveGone"}
    /\ tree' = [tree EXCEPT !.at = "placed", !.dirty = "edits" \in kept, !.ignored = "none",
                            !.recent = TRUE]
    /\ stray' = NoStray
    /\ UNCHANGED <<changes, occupiedBy, laneRetired, kept, sinceJudged, lostToSweep,
                   lostToMove>>

(* The sweep fails or the service stops, anywhere. *)
SweepStops ==
    /\ stray # NoStray /\ stray' = NoStray
    /\ UNCHANGED <<tree, changes, occupiedBy, laneRetired, kept, sinceJudged, lostToSweep,
                   lostToMove>>

StraysNext ==
    \/ WorkInIt \/ HeadMoves \/ TimeGoesBy
    \/ Judge \/ Save \/ Remove
    \/ PlanMove \/ Move \/ SaveForMove \/ RemoveForMove \/ Rebuild \/ SweepStops

StraysSpec == StraysInit /\ [][StraysNext]_strayVars

-----------------------------------------------------------------------------
(* What was in a worktree when the sweep judged it is on a ref, in a checkpoint
   or still there after the sweep, whatever changed meanwhile.  What a forced
   removal does to files git ignores is the next property's. *)
NothingIsSweptAway == lostToSweep \subseteq {<<"files", TRUE>>}

(* What docs/commands.md:105 and reclaim.py:856-859 say: a worktree holding files
   Git ignores is kept, even with --force.  The verdict "uncommitted" is reached
   before such files are looked for, and it may be forced. *)
ForceKeepsIgnoredFiles == <<"files", TRUE>> \notin lostToSweep

(* A move never loses what was in the worktree when it was planned, wherever the
   sweep fails: its checkpoint holds it. *)
NothingIsLostInAMove == lostToMove = {}

-----------------------------------------------------------------------------
(***************************************************************************)
(* Reclaiming one lane whose work has landed.  The sweep judges every lane *)
(* (assess) from its worktree, its branch, the ledger and the forge, then  *)
(* retires those it may, and at the end publishes what it did and records  *)
(* the retired lanes.  Everything it read may have changed by then.        *)
(***************************************************************************)

CONSTANTS
    MaxSteps        \* model bound: changes to the lane

VARIABLES
    laneTree,       \* the worktree: there, moved or gone, and whether it is dirty
    laneBranch,     \* the branch: its commits, and what its upstream and forge show
    laneBusy,       \* the lane's session: none, idle or busy
    laneHolds,      \* it holds a claim, a lease or a pending offer
    laneQuiet,      \* it stopped and was untouched for long enough
    laneSteps,      \* model bound: changes so far
    judged,         \* the sweep's step and its verdict on the lane
    sweptState,     \* the published outcome: "none", "removed" or "kept"
    laneRecord,     \* the lane's state in the store: "open" or "reclaimed"
    movedOn,        \* ghost: commits were made, or the worktree moved, since it was judged
    unlanded        \* ghost: the lane was removed with work that had not landed

reclaimVars == <<laneTree, laneBranch, laneBusy, laneHolds, laneQuiet, laneSteps, judged,
                 sweptState, laneRecord, movedOn, unlanded>>

Outcomes == {"idle", "moved", "claimed", "vanished", "session", "uncommitted", "unmerged",
             "stopped", "unused", "unpushed", "merged", "open", "closed", "gone", "published",
             "unlanded"}
NotJudged == [at |-> "idle", reason |-> "idle", removed |-> FALSE]

LaneReclaimTypeOK ==
    /\ laneTree \in [at : {"there", "moved", "gone"}, dirty : BOOLEAN]
    /\ laneBranch \in [ahead : BOOLEAN, used : BOOLEAN, pushed : BOOLEAN, kept : BOOLEAN,
                       upstream : {"none", "there", "gone"},
                       pull : {"none", "open", "merged", "closed"}]
    /\ laneBusy \in {"none", "idle", "busy"} /\ laneHolds \in BOOLEAN /\ laneQuiet \in BOOLEAN
    /\ judged \in [at : {"idle", "judged", "done"}, reason : Outcomes, removed : BOOLEAN]
    /\ sweptState \in {"none", "removed", "kept"} /\ laneRecord \in {"open", "reclaimed"}

LaneReclaimInit ==
    /\ laneTree = [at |-> "there", dirty |-> FALSE]
    /\ laneBranch = [ahead |-> FALSE, used |-> FALSE, pushed |-> FALSE, kept |-> TRUE,
                     upstream |-> "none", pull |-> "none"]
    /\ laneBusy = "none" /\ laneHolds = FALSE /\ laneQuiet = FALSE /\ laneSteps = 0
    /\ judged = NotJudged /\ sweptState = "none" /\ laneRecord = "open"
    /\ movedOn = FALSE /\ unlanded = FALSE

-----------------------------------------------------------------------------
(* The lane works: it edits, commits, pushes; its pull request opens, merges or
   closes; the base takes its commits; its upstream branch goes. *)
LaneWorks ==
    /\ laneSteps < MaxSteps /\ laneSteps' = laneSteps + 1
    /\ laneTree.at = "there"
    /\ \/ laneTree' = [laneTree EXCEPT !.dirty = TRUE] /\ UNCHANGED <<laneBranch, movedOn>>
       \/ /\ laneTree' = [laneTree EXCEPT !.dirty = FALSE]
          /\ laneBranch' = [laneBranch EXCEPT !.ahead = TRUE, !.used = TRUE, !.pushed = FALSE]
          /\ movedOn' = (movedOn \/ judged.at = "judged")
    /\ laneQuiet' = FALSE
    /\ UNCHANGED <<laneBusy, laneHolds, judged, sweptState, laneRecord, unlanded>>

WorldMoves ==
    /\ laneSteps < MaxSteps /\ laneSteps' = laneSteps + 1
    /\ \/ /\ laneBranch.used
          /\ laneBranch' = [laneBranch EXCEPT !.pushed = TRUE, !.upstream = "there"]
       \/ laneBranch.upstream = "there" /\ laneBranch' = [laneBranch EXCEPT !.upstream = "gone"]
       \/ /\ laneBranch.upstream # "none"
          /\ \E p \in {"open", "merged", "closed"} :
               laneBranch' = [laneBranch EXCEPT !.pull = p,
                                                !.ahead = IF p = "merged" THEN @ /\ ~laneBranch.pushed
                                                          ELSE @]
       \/ laneBranch.ahead /\ laneBranch' = [laneBranch EXCEPT !.ahead = FALSE]
    /\ UNCHANGED <<laneTree, laneBusy, laneHolds, laneQuiet, judged, sweptState, laneRecord,
                   movedOn, unlanded>>

LaneChanges ==
    /\ laneSteps < MaxSteps /\ laneSteps' = laneSteps + 1
    /\ \/ /\ laneTree.at = "there" /\ laneRecord = "open"
          /\ laneBusy' \in {"none", "idle", "busy"} \ {laneBusy}
          /\ UNCHANGED <<laneTree, laneHolds, laneQuiet>>
       \/ laneHolds' = ~laneHolds /\ UNCHANGED <<laneTree, laneBusy, laneQuiet>>
       \/ ~laneQuiet /\ laneBusy = "none" /\ laneQuiet' = TRUE
          /\ UNCHANGED <<laneTree, laneBusy, laneHolds>>
       \/ /\ laneBusy = "none" /\ ~laneTree.dirty
          /\ \E a \in {"there", "moved", "gone"} : laneTree' = [laneTree EXCEPT !.at = a]
          /\ sweptState # "removed"
          /\ UNCHANGED <<laneBusy, laneHolds, laneQuiet>>
    /\ movedOn' = (movedOn \/ (judged.at = "judged" /\ laneTree'.at # laneTree.at))
    /\ UNCHANGED <<laneBranch, judged, sweptState, laneRecord, unlanded>>

-----------------------------------------------------------------------------
(* landed: the pull request says, or else the upstream branch. *)
Landed ==
    CASE laneBranch.pull = "merged" -> "merged"
      [] laneBranch.pull = "closed" -> "closed"
      [] laneBranch.pull = "open" -> "open"
      [] laneBranch.pull = "none" /\ laneBranch.upstream = "none" -> "unlanded"
      [] laneBranch.pull = "none" /\ laneBranch.upstream = "gone" -> "gone"
      [] OTHER -> "published"

(* What the branch holds, once nothing keeps the lane. *)
BranchReason ==
    IF laneBranch.ahead THEN "unmerged"
    ELSE IF ~laneBranch.used THEN (IF laneQuiet THEN "stopped" ELSE "unused")
    ELSE IF laneBranch.upstream # "none" /\ ~laneBranch.pushed THEN "unpushed"
    ELSE Landed

(* assess: a session or something the lane holds keeps it. *)
Assess(busy) ==
    IF laneTree.at = "moved" THEN "moved"
    ELSE IF busy THEN "session"
    ELSE IF laneHolds THEN "claimed"
    ELSE IF laneTree.at = "gone" THEN "vanished"
    ELSE IF laneTree.dirty THEN "uncommitted"
    ELSE BranchReason

MayReclaim == {"merged", "gone", "stopped", "vanished"}

(* plan: an idle session's lane is judged as if it had none, but only reported. *)
Plan ==
    /\ judged = NotJudged /\ laneRecord = "open" /\ sweptState # "removed"
    /\ LET reason == IF laneBusy = "idle" /\ Assess(FALSE) \in MayReclaim THEN "idle"
                     ELSE Assess(laneBusy # "none")
       IN  judged' = [NotJudged EXCEPT !.at = "judged", !.reason = reason]
    /\ movedOn' = FALSE
    /\ UNCHANGED <<laneTree, laneBranch, laneBusy, laneHolds, laneQuiet, laneSteps, sweptState,
                   laneRecord, unlanded>>

(* reclaim: the lane is retired, which takes its session lock and refuses a
   dirty worktree; its branch goes when git agrees that it is merged. *)
Retires == laneBusy = "none" /\ ~(laneTree.at = "there" /\ laneTree.dirty)

KeepsBranch == laneBranch.ahead

ReclaimLane ==
    /\ judged.at = "judged"
    /\ IF judged.reason \in MayReclaim /\ Retires
       THEN /\ laneTree' = [laneTree EXCEPT !.at = "gone"]
            /\ laneBranch' = [laneBranch EXCEPT !.kept = KeepsBranch]
            /\ judged' = [judged EXCEPT !.at = "done", !.removed = TRUE]
            /\ laneBusy' = "none"
            /\ unlanded' = (unlanded \/ (laneBranch.ahead /\ ~movedOn /\ laneTree.at = "there")
                                     \/ laneBusy # "none")
       ELSE /\ judged' = [judged EXCEPT !.at = "done"]
            /\ UNCHANGED <<laneTree, laneBranch, laneBusy, unlanded>>
    /\ UNCHANGED <<laneHolds, laneQuiet, laneSteps, sweptState, laneRecord, movedOn>>

(* reclaim_lanes: what the steps did is published whatever failed, and then the
   removed lanes are recorded as reclaimed. *)
PublishSweep ==
    /\ judged.at = "done" /\ sweptState' = (IF judged.removed THEN "removed" ELSE "kept")
    /\ laneRecord' = IF judged.removed THEN "reclaimed" ELSE laneRecord
    /\ judged' = NotJudged
    /\ UNCHANGED <<laneTree, laneBranch, laneBusy, laneHolds, laneQuiet, laneSteps, movedOn,
                   unlanded>>

(* The service stops between the removal and what records it. *)
SweepCut ==
    /\ judged # NotJudged /\ judged' = NotJudged
    /\ UNCHANGED <<laneTree, laneBranch, laneBusy, laneHolds, laneQuiet, laneSteps, sweptState,
                   laneRecord, movedOn, unlanded>>

LaneReclaimNext ==
    \/ LaneWorks \/ WorldMoves \/ LaneChanges \/ Plan \/ ReclaimLane \/ PublishSweep \/ SweepCut

LaneReclaimSpec == LaneReclaimInit /\ [][LaneReclaimNext]_reclaimVars

-----------------------------------------------------------------------------
(* A lane is not reclaimed with a session in it, nor with commits the base does
   not have, unless they were made after it was judged. *)
ReclaimedWorkHasLanded == ~unlanded

CommitsOutliveTheirLaneStep ==
    judged'.removed /\ ~judged.removed /\ laneBranch.ahead => laneBranch'.kept

(* No commit goes with its lane: a branch that holds commits of its own outlives
   it, whenever they were made. *)
CommitsOutliveTheirLane == [][CommitsOutliveTheirLaneStep]_reclaimVars

-----------------------------------------------------------------------------
(***************************************************************************)
(* A project whose root checkout is gone.  The poll records the first time *)
(* it misses it, retires the lanes once it has been gone long enough, lane *)
(* by lane, and records what it did at the end.  When the root is back the *)
(* record of the retired lanes is kept until they are admitted again.  The *)
(* service may stop between two lanes.                                     *)
(***************************************************************************)

CONSTANTS
    RootLane,       \* lanes of the project
    MaxAbsences     \* model bound: times the root goes

VARIABLES
    rootThere,      \* the root checkout exists
    parentListed,   \* its parent directory can be listed
    absences,       \* model bound: times it went
    longGone,       \* root_gone_after has passed since the recorded time
    rootRecord,     \* root.json
    keptRecord,     \* root-returned.json: the lanes it names
    retiredLanes,   \* lanes marked retired in the roster
    runningLanes,   \* lanes with a session that still runs
    keepsWork,      \* lanes that hold work a retirement may not return
    sweep,          \* the lanes a poll has yet to look at, NoSweep outside one; ghost
                    \* again: the lanes admitted once more while it was on
    byRoot,         \* ghost: lanes retired because the root was gone
    rootCut         \* ghost: the service stopped in a sweep that had retired a lane

rootVars == <<rootThere, parentListed, absences, longGone, rootRecord, keptRecord,
              retiredLanes, runningLanes, keepsWork, sweep, byRoot, rootCut>>

NoRecord == [found |-> FALSE, done |-> FALSE, unreachable |-> FALSE, lanes |-> {}]
NoSweep == [on |-> FALSE, left |-> {}, lanes |-> {}, live |-> {}, refused |-> {},
            again |-> {}]

RootGoneTypeOK ==
    /\ {rootThere, parentListed, longGone, rootCut} \subseteq BOOLEAN
    /\ absences \in 0..MaxAbsences
    /\ rootRecord \in [found : BOOLEAN, done : BOOLEAN, unreachable : BOOLEAN,
                       lanes : SUBSET RootLane]
    /\ {keptRecord, retiredLanes, runningLanes, keepsWork, byRoot, sweep.left, sweep.lanes}
         \subseteq SUBSET RootLane

RootGoneInit ==
    /\ rootThere = TRUE /\ parentListed = TRUE /\ absences = 0 /\ longGone = FALSE
    /\ rootRecord = NoRecord /\ keptRecord = {} /\ retiredLanes = {}
    /\ runningLanes = {} /\ keepsWork = {}
    /\ sweep = NoSweep /\ byRoot = {} /\ rootCut = FALSE

-----------------------------------------------------------------------------
(* The world: the root goes and comes back, its parent is unmounted, time
   passes, lanes run while there is a root and end, and work is settled. *)
RootGoes ==
    /\ rootThere /\ absences < MaxAbsences
    /\ rootThere' = FALSE /\ absences' = absences + 1
    /\ parentListed' \in BOOLEAN
    /\ UNCHANGED <<longGone, rootRecord, keptRecord, retiredLanes, runningLanes, keepsWork,
                   sweep, byRoot, rootCut>>

RootReturns ==
    /\ ~rootThere
    /\ rootThere' = TRUE /\ parentListed' = TRUE
    /\ UNCHANGED <<absences, longGone, rootRecord, keptRecord, retiredLanes, runningLanes,
                   keepsWork, sweep, byRoot, rootCut>>

TimePasses ==
    /\ rootRecord.found /\ ~longGone /\ longGone' = TRUE
    /\ UNCHANGED <<rootThere, parentListed, absences, rootRecord, keptRecord, retiredLanes,
                   runningLanes, keepsWork, sweep, byRoot, rootCut>>

SessionsChange ==
    /\ \E l \in RootLane :
         \/ /\ rootThere /\ l \notin runningLanes
            /\ runningLanes' = runningLanes \cup {l}
            /\ retiredLanes' = retiredLanes \ {l} /\ byRoot' = byRoot \ {l}
            /\ sweep' = IF sweep.on THEN [sweep EXCEPT !.again = @ \cup {l}] ELSE sweep
            /\ UNCHANGED keepsWork
         \/ /\ l \in runningLanes /\ runningLanes' = runningLanes \ {l}
            /\ keepsWork' \in {keepsWork, keepsWork \cup {l}}
            /\ UNCHANGED <<retiredLanes, byRoot, sweep>>
         \/ /\ l \in keepsWork /\ keepsWork' = keepsWork \ {l}
            /\ UNCHANGED <<runningLanes, retiredLanes, byRoot, sweep>>
    /\ UNCHANGED <<rootThere, parentListed, absences, longGone, rootRecord, keptRecord,
                   rootCut>>

-----------------------------------------------------------------------------
(* missing_root, for a root that is not there: the first time is recorded, a
   project whose lanes have all retired is left alone, and an unreachable
   parent says nothing about the root. *)
Miss ==
    /\ ~rootThere /\ ~sweep.on
    /\ IF ~rootRecord.found
       THEN /\ rootRecord' = [NoRecord EXCEPT !.found = TRUE, !.unreachable = ~parentListed]
            /\ longGone' = FALSE /\ UNCHANGED sweep
       ELSE /\ ~rootRecord.done
            /\ rootRecord' = [rootRecord EXCEPT !.unreachable = ~parentListed]
            /\ sweep' = IF parentListed /\ longGone
                        THEN [NoSweep EXCEPT !.on = TRUE, !.left = RootLane,
                                             !.lanes = rootRecord.lanes]
                        ELSE sweep
            /\ UNCHANGED longGone
    /\ UNCHANGED <<rootThere, parentListed, absences, keptRecord, retiredLanes, runningLanes,
                   keepsWork, byRoot, rootCut>>

(* One lane: a running one is left, and one whose work may not be returned is
   refused; the rest retire. *)
Look ==
    /\ sweep.on
    /\ \E l \in sweep.left :
         LET rest == [sweep EXCEPT !.left = @ \ {l}]
         IN  CASE l \in retiredLanes ->
                    sweep' = rest /\ UNCHANGED <<retiredLanes, byRoot>>
               [] l \notin retiredLanes /\ l \in runningLanes ->
                    /\ sweep' = [rest EXCEPT !.live = @ \cup {l}]
                    /\ UNCHANGED <<retiredLanes, byRoot>>
               [] l \notin retiredLanes \cup runningLanes /\ l \in keepsWork ->
                    /\ sweep' = [rest EXCEPT !.refused = @ \cup {l}]
                    /\ UNCHANGED <<retiredLanes, byRoot>>
               [] OTHER ->
                    /\ sweep' = [rest EXCEPT !.lanes = @ \cup {l}]
                    /\ retiredLanes' = retiredLanes \cup {l} /\ byRoot' = byRoot \cup {l}
    /\ UNCHANGED <<rootThere, parentListed, absences, longGone, rootRecord, keptRecord,
                   runningLanes, keepsWork, rootCut>>

(* The record at the end of it. *)
Done(s) == s.live = {} /\ s.refused = {}

Record ==
    /\ sweep.on /\ sweep.left = {}
    /\ rootRecord' = [found |-> TRUE, done |-> Done(sweep), unreachable |-> FALSE,
                      lanes |-> sweep.lanes]
    /\ sweep' = NoSweep
    /\ UNCHANGED <<rootThere, parentListed, absences, longGone, keptRecord, retiredLanes,
                   runningLanes, keepsWork, byRoot, rootCut>>

(* root_returned, for a root that is there: what the absence retired is added
   to what an earlier one did, and forgotten once none of them is retired. *)
Keeps(lanes, earlier) == lanes \cup earlier

Returned ==
    /\ rootThere /\ ~sweep.on
    /\ rootRecord.found \/ keptRecord # {}
    /\ LET lanesKept == Keeps(rootRecord.lanes, keptRecord)
       IN  keptRecord' = IF lanesKept \cap retiredLanes = {} THEN {} ELSE lanesKept
    /\ rootRecord' = NoRecord
    /\ UNCHANGED <<rootThere, parentListed, absences, longGone, retiredLanes, runningLanes,
                   keepsWork, sweep, byRoot, rootCut>>

(* The service stops in a sweep. *)
Cut ==
    /\ sweep.on /\ sweep' = NoSweep
    /\ rootCut' = (rootCut \/ sweep.lanes # rootRecord.lanes)
    /\ UNCHANGED <<rootThere, parentListed, absences, longGone, rootRecord, keptRecord,
                   retiredLanes, runningLanes, keepsWork, byRoot>>

RootGoneNext ==
    \/ RootGoes \/ RootReturns \/ TimePasses \/ SessionsChange
    \/ Miss \/ Look \/ Record \/ Returned \/ Cut

RootGoneSpec == RootGoneInit /\ [][RootGoneNext]_rootVars

-----------------------------------------------------------------------------
(* Whoever was retired because the root was gone is named in a record until
   admitted again, so that the operator can be told how to bring it back,
   unless the service stopped before it had written what it did. *)
RetiredLanesAreNamed ==
    ~rootCut => byRoot \subseteq rootRecord.lanes \cup keptRecord \cup sweep.lanes

RetiredProjectsAreEmptyStep ==
    rootRecord'.done /\ ~rootRecord.done =>
       RootLane \ (retiredLanes \cup runningLanes \cup sweep.again) = {} \/ rootThere

(* A project is recorded as retired only when no lane of it is left: not one
   that runs, and not one that was refused.  A lane admitted again while the
   sweep was on is missed if its session has ended by then. *)
RetiredProjectsAreEmpty == [][RetiredProjectsAreEmptyStep]_rootVars
=============================================================================
