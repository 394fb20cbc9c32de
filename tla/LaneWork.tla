------------------------------ MODULE LaneWork ------------------------------
(***************************************************************************)
(* Where a lane works and what is kept of it: its worktree and sessions, the *)
(* captures of its claims, and their restoring.                            *)
(* The parts share no state: each has its own Init and Next.               *)
(***************************************************************************)
EXTENDS Naturals, FiniteSets

(***************************************************************************)
(* One lane's life as its operator commands it: added with a worktree and  *)
(* a branch, launched and stopped, restored when it drifted, retired and   *)
(* admitted again.  Launches and commands are processes of their own; they *)
(* meet at the session lock, a file that retiring the lane unlinks, and at *)
(* the lane's entry in the roster.                                         *)
(***************************************************************************)

CONSTANTS
    Launchers,       \* launch processes
    MaxWork,        \* model bound: changes a client makes
    MaxCommands     \* model bound: operator commands and service retirements

VARIABLES
    enrolled,   \* the lane's entry in project.json: none, active or retired
    worktree,   \* its directory: whether it exists, and what it holds
    branchTip,  \* the lane's branch: none, base, or ahead with commits of its own
    step,       \* where each launch is
    lockFile,   \* the session lock's file, by number: one is unlinked, the next made
    holds,      \* the file each launch holds the lock of, 0 for none
    confirmed,  \* ignored files that the operator agreed to have deleted
    retiring,   \* a retirement has released its locks and not unlinked them
    withdrawing, \* the service found no session in the lane and will retire it
    pausedLane,
    operatorStopped,
    work,       \* model bound: changes made
    commands,   \* model bound: commands given
    torn,       \* ghost: a lock was unlinked while a launch held it
    lostWork    \* ghost: something was discarded

laneVars == <<enrolled, worktree, branchTip, step, lockFile, holds, confirmed, retiring,
              withdrawing, pausedLane, operatorStopped, work, commands, torn, lostWork>>

NoTree == [found |-> FALSE, on |-> "lane", dirty |-> FALSE, ignored |-> FALSE,
           unmerged |-> FALSE]
CleanTree == [NoTree EXCEPT !.found = TRUE]

LaneSessionsTypeOK ==
    /\ enrolled \in {"none", "active", "retired"}
    /\ worktree \in [found : BOOLEAN, on : {"lane", "other"}, dirty : BOOLEAN,
                     ignored : BOOLEAN, unmerged : BOOLEAN]
    /\ branchTip \in {"none", "base", "ahead"}
    /\ step \in [Launchers -> {"idle", "admitted", "locked", "running"}]
    /\ lockFile \in 1..(MaxCommands + 1)
    /\ holds \in [Launchers -> 0..(MaxCommands + 1)]
    /\ work \in 0..MaxWork /\ commands \in 0..MaxCommands
    /\ {confirmed, retiring, withdrawing, pausedLane, operatorStopped, torn, lostWork}
         \subseteq BOOLEAN

LaneSessionsInit ==
    /\ enrolled = "none" /\ worktree = NoTree /\ branchTip = "none"
    /\ step = [p \in Launchers |-> "idle"] /\ lockFile = 1
    /\ holds = [p \in Launchers |-> 0]
    /\ confirmed = FALSE /\ retiring = FALSE /\ withdrawing = FALSE
    /\ pausedLane = FALSE /\ operatorStopped = FALSE
    /\ work = 0 /\ commands = 0 /\ torn = FALSE /\ lostWork = FALSE

-----------------------------------------------------------------------------
Running == {p \in Launchers : step[p] = "running"}

(* The lock is on the file that is there now. *)
LockFree == \A p \in Launchers : holds[p] # lockFile

(* Work that removing the directory would delete for good. *)
Discarded(t, agreed) == t.found /\ (t.dirty \/ (t.ignored /\ ~agreed))

Command == commands < MaxCommands /\ commands' = commands + 1

-----------------------------------------------------------------------------
(* _readmit: the same directory if it is there and on its branch, else a new
   one on the branch that was kept. *)
Readmit ==
    /\ worktree.found => worktree.on = "lane"
    /\ worktree' = IF worktree.found THEN worktree ELSE CleanTree
    /\ branchTip' = IF branchTip = "none" THEN "base" ELSE branchTip

(* add_participant: a new lane takes the next free branch and a directory,
   which must not exist yet; an active one is left as it is. *)
Enrol ==
    CASE enrolled = "none" ->
           /\ ~worktree.found
           /\ worktree' = CleanTree /\ branchTip' = "base" /\ enrolled' = "active"
      [] enrolled = "retired" -> Readmit /\ enrolled' = "active"
      [] enrolled = "active" -> UNCHANGED <<worktree, branchTip, enrolled>>

(* launch: the lane is admitted under the setup lock. *)
Launch(p) ==
    /\ step[p] = "idle" /\ ~retiring
    /\ Enrol
    /\ step' = [step EXCEPT ![p] = "admitted"]
    /\ UNCHANGED <<lockFile, holds, confirmed, retiring, withdrawing, pausedLane,
                   operatorStopped, work, commands, torn, lostWork>>

(* The session lock is tried once; whoever finds it taken gives up. *)
TakeLock(p) ==
    /\ step[p] = "admitted"
    /\ IF LockFree
       THEN /\ holds' = [holds EXCEPT ![p] = lockFile]
            /\ step' = [step EXCEPT ![p] = "locked"]
       ELSE /\ step' = [step EXCEPT ![p] = "idle"] /\ UNCHANGED holds
    /\ UNCHANGED <<enrolled, worktree, branchTip, lockFile, confirmed, retiring,
                   withdrawing, pausedLane, operatorStopped, work, commands, torn, lostWork>>

(* Under the checkpoint lock: a lane that was retired meanwhile is refused,
   and a client without a directory does not start. *)
MayStart == enrolled # "retired" /\ worktree.found

Start(p) ==
    /\ step[p] = "locked"
    /\ IF MayStart
       THEN /\ step' = [step EXCEPT ![p] = "running"] /\ UNCHANGED holds
            /\ operatorStopped' = FALSE
       ELSE /\ step' = [step EXCEPT ![p] = "idle"] /\ holds' = [holds EXCEPT ![p] = 0]
            /\ UNCHANGED operatorStopped
    /\ UNCHANGED <<enrolled, worktree, branchTip, lockFile, confirmed, retiring,
                   withdrawing, pausedLane, work, commands, torn, lostWork>>

(* The client ends, or its launcher does: the lock goes with the process. *)
Exit(p) ==
    /\ step[p] \in {"locked", "running"}
    /\ step' = [step EXCEPT ![p] = "idle"] /\ holds' = [holds EXCEPT ![p] = 0]
    /\ UNCHANGED <<enrolled, worktree, branchTip, lockFile, confirmed, retiring,
                   withdrawing, pausedLane, operatorStopped, work, commands, torn, lostWork>>

(* What a running client does to its directory. *)
LaneWorks ==
    /\ Running # {} /\ worktree.found /\ work < MaxWork /\ work' = work + 1
    /\ \/ /\ worktree' \in {[worktree EXCEPT !.dirty = TRUE],
                            [worktree EXCEPT !.ignored = TRUE],
                            [worktree EXCEPT !.on = "other", !.unmerged = FALSE],
                            [worktree EXCEPT !.on = "other", !.unmerged = TRUE]}
          /\ UNCHANGED branchTip
       \/ /\ worktree.on = "lane" /\ branchTip' = "ahead"
          /\ worktree' = [worktree EXCEPT !.dirty = FALSE]
    /\ UNCHANGED <<enrolled, step, lockFile, holds, confirmed, retiring, withdrawing,
                   pausedLane, operatorStopped, commands, torn, lostWork>>

-----------------------------------------------------------------------------
(* stop: the session's process is ended; without one the stop is recorded. *)
Stop ==
    /\ Command /\ enrolled # "none"
    /\ step' = [p \in Launchers |-> IF step[p] = "running" THEN "idle" ELSE step[p]]
    /\ holds' = [p \in Launchers |-> IF step[p] = "running" THEN 0 ELSE holds[p]]
    /\ operatorStopped' = TRUE
    /\ UNCHANGED <<enrolled, worktree, branchTip, lockFile, confirmed, retiring,
                   withdrawing, pausedLane, work, torn, lostWork>>

Pause ==
    /\ Command /\ enrolled = "active"
    /\ pausedLane' = ~pausedLane
    /\ UNCHANGED <<enrolled, worktree, branchTip, step, lockFile, holds, confirmed,
                   retiring, withdrawing, operatorStopped, work, torn, lostWork>>

(* restart: refused over a live session and on another branch; what is dirty
   is captured and left in place. *)
Restart(p) ==
    /\ Command /\ enrolled # "none" /\ Running = {} /\ step[p] = "idle" /\ ~retiring
    /\ worktree.found /\ worktree.on = "lane"
    /\ Enrol
    /\ step' = [step EXCEPT ![p] = "admitted"]
    /\ UNCHANGED <<lockFile, holds, confirmed, retiring, withdrawing, pausedLane,
                   operatorStopped, work, torn, lostWork>>

(* restore switches back, never over changes or commits the branch has not. *)
MayRestore == ~worktree.dirty /\ ~worktree.unmerged

Restore ==
    /\ Command /\ enrolled # "none" /\ LockFree
    /\ worktree.found /\ worktree.on = "other"
    /\ MayRestore
    /\ worktree' = [worktree EXCEPT !.on = "lane", !.unmerged = FALSE]
    /\ lostWork' = (lostWork \/ worktree.dirty \/ worktree.unmerged)
    /\ UNCHANGED <<enrolled, branchTip, step, lockFile, holds, confirmed, retiring,
                   withdrawing, pausedLane, operatorStopped, work, torn>>

(* retired_lane: the operator is shown the ignored files that are there now. *)
Confirm ==
    /\ ~confirmed /\ worktree.found /\ worktree.ignored
    /\ confirmed' = TRUE
    /\ UNCHANGED <<enrolled, worktree, branchTip, step, lockFile, holds, retiring,
                   withdrawing, pausedLane, operatorStopped, work, commands, torn, lostWork>>

(* retire, under the setup, session and checkpoint locks. *)
Kept(t, agreed) == Discarded(t, agreed)

Retire ==
    /\ Command /\ enrolled # "none" /\ LockFree /\ ~retiring
    /\ ~Kept(worktree, confirmed)
    /\ lostWork' = (lostWork \/ Discarded(worktree, confirmed))
    /\ worktree' = NoTree
    /\ branchTip' = IF branchTip = "ahead" THEN branchTip ELSE "none"
    /\ enrolled' = "none" /\ pausedLane' = FALSE /\ operatorStopped' = FALSE
    /\ confirmed' = FALSE /\ retiring' = TRUE
    /\ UNCHANGED <<step, lockFile, holds, withdrawing, work, torn>>

(* Its last lines, with the setup lock alone: the lock files are unlinked. *)
Unlink ==
    /\ retiring /\ retiring' = FALSE
    /\ lockFile' = lockFile + 1
    /\ torn' = (torn \/ ~LockFree)
    /\ UNCHANGED <<enrolled, worktree, branchTip, step, holds, confirmed, withdrawing,
                   pausedLane, operatorStopped, work, commands, lostWork>>

(* _prune: a worktree goes with its lane only when nothing in it is unsaved. *)
Prunable(t) == ~t.dirty /\ ~t.ignored

(* withdraw: the service finds no session, and then retires the lane under
   its checkpoint lock; a directory with changes is kept. *)
FindDead ==
    /\ Command /\ enrolled = "active" /\ Running = {} /\ ~withdrawing
    /\ withdrawing' = TRUE
    /\ UNCHANGED <<enrolled, worktree, branchTip, step, lockFile, holds, confirmed,
                   retiring, pausedLane, operatorStopped, work, torn, lostWork>>

Withdraw ==
    /\ withdrawing /\ withdrawing' = FALSE
    /\ enrolled' = IF enrolled = "active" THEN "retired" ELSE enrolled
    /\ \/ UNCHANGED <<worktree, lostWork>>
       \/ /\ enrolled = "active" /\ Prunable(worktree)
          /\ worktree' = NoTree /\ lostWork' = (lostWork \/ Discarded(worktree, FALSE))
    /\ UNCHANGED <<branchTip, step, lockFile, holds, confirmed, retiring, pausedLane,
                   operatorStopped, work, commands, torn>>

LaneSessionsNext ==
    \/ \E p \in Launchers : Launch(p) \/ TakeLock(p) \/ Start(p) \/ Exit(p) \/ Restart(p)
    \/ LaneWorks \/ Stop \/ Pause \/ Restore \/ Confirm \/ Retire \/ Unlink
    \/ FindDead \/ Withdraw

LaneSessionsSpec == LaneSessionsInit /\ [][LaneSessionsNext]_laneVars

-----------------------------------------------------------------------------
(* Two clients never share a worktree, unless a launch took the session lock
   in the moment between its release by a retirement and its unlinking. *)
OneClientPerWorktree == ~torn => Cardinality(Running) <= 1

(* No command, and no withdrawal by the service, discards what a client left:
   changes, commits of another branch, or ignored files the operator was not
   shown. *)
NothingIsDiscarded == ~lostWork

ClientsStartInAdmittedLanesStep ==
    \A p \in Launchers :
       step[p] = "locked" /\ step'[p] = "running" => enrolled = "active"

(* A client starts in a lane that is on the roster and not retired, whatever
   happened to the lane since its launch was admitted. *)
ClientsStartInAdmittedLanes == [][ClientsStartInAdmittedLanesStep]_laneVars

-----------------------------------------------------------------------------
(***************************************************************************)
(* Keeping a lane's work recoverable.  A capture, one at a time for a      *)
(* lane, publishes for each claim of the lane a bundle of its whole work   *)
(* and then the record that describes it; it may be killed anywhere.  A    *)
(* sweep (prune) removes what no claim and no take needs, from a ledger it *)
(* read before.                                                            *)
(***************************************************************************)

CONSTANTS
    CapClaim,       \* generations of claims the lane makes
    MaxChangesMade,        \* model bound: changes the lane makes
    MaxKills        \* model bound: captures killed

VARIABLES
    laneWork,       \* the version of the lane's content
    capStatus,      \* each claim in the ledger: unmade, held, taken (by a peer), ended
    bundles,        \* the version in each claim's bundle, -1 when there is none
    records,        \* the version each claim's record describes, -1 for none
    recentRecords,  \* records written less than CAPTURE_INTERVAL ago
    strayRefs,      \* a killed capture left its temporary ref in the lane
    capture,        \* the capture under way
    sweepLedger,    \* the claims the sweep's ledger says are needed, NoLedger outside one
    missed,         \* ghost: claims made while a sweep was under way
    kills           \* model bound: captures killed

captureVars == <<laneWork, capStatus, bundles, records, recentRecords, strayRefs, capture,
                 sweepLedger, missed, kills>>

NoCapture == [at |-> "idle", forced |-> FALSE, owned |-> {}, left |-> {}, print |-> 0,
              tree |-> 0]
NoLedger == [read |-> FALSE, needed |-> {}]
Versions == 0..MaxChangesMade
None == MaxChangesMade + 1

CapturesTypeOK ==
    /\ strayRefs \in BOOLEAN /\ laneWork \in Versions /\ kills \in 0..MaxKills
    /\ capStatus \in [CapClaim -> {"unmade", "held", "taken", "ended"}]
    /\ bundles \in [CapClaim -> 0..None] /\ records \in [CapClaim -> 0..None]
    /\ {recentRecords, missed, capture.owned, capture.left} \subseteq SUBSET CapClaim
    /\ capture.at \in {"idle", "owned", "printed", "committed", "published"}
    /\ sweepLedger \in [read : BOOLEAN, needed : SUBSET CapClaim]

CapturesInit ==
    /\ laneWork = 0 /\ capStatus = [k \in CapClaim |-> "unmade"]
    /\ bundles = [k \in CapClaim |-> None] /\ records = [k \in CapClaim |-> None]
    /\ recentRecords = {} /\ strayRefs = FALSE /\ capture = NoCapture
    /\ sweepLedger = NoLedger /\ missed = {} /\ kills = 0

Held == {k \in CapClaim : capStatus[k] = "held"}

-----------------------------------------------------------------------------
(* The lane works, claims, and gives claims up; a peer takes one whose
   checkpoint it has read; what was taken ends in time. *)
Works ==
    /\ laneWork < MaxChangesMade /\ laneWork' = laneWork + 1
    /\ UNCHANGED <<capStatus, bundles, records, recentRecords, strayRefs, capture,
                   sweepLedger, missed, kills>>

Ledger ==
    /\ \E k \in CapClaim :
         \/ /\ capStatus[k] = "unmade" /\ capStatus' = [capStatus EXCEPT ![k] = "held"]
            /\ missed' = IF sweepLedger.read THEN missed \cup {k} ELSE missed
         \/ /\ capStatus[k] \in {"held", "taken"}
            /\ capStatus' = [capStatus EXCEPT ![k] = "ended"] /\ missed' = missed \ {k}
         \/ /\ capStatus[k] = "held" /\ records[k] # None
            /\ capStatus' = [capStatus EXCEPT ![k] = "taken"] /\ UNCHANGED missed
    /\ UNCHANGED <<laneWork, bundles, records, recentRecords, strayRefs, capture,
                   sweepLedger, kills>>

IntervalPasses ==
    /\ recentRecords # {} /\ recentRecords' = {}
    /\ UNCHANGED <<laneWork, capStatus, bundles, records, strayRefs, capture, sweepLedger,
                   missed, kills>>

-----------------------------------------------------------------------------
(* capture, _capture: refs a killed capture left are deleted, and the claims
   the lane owns are read.  A capture without a hook's payload is forced: it
   does not accept a record for being recent. *)
Reclaimed == strayRefs' = FALSE

StartCapture(forced) ==
    /\ capture = NoCapture /\ Reclaimed
    /\ Held # {}
    /\ capture' = [NoCapture EXCEPT !.at = "owned", !.forced = forced, !.owned = Held]
    /\ UNCHANGED <<laneWork, capStatus, bundles, records, recentRecords, sweepLedger, missed,
                   kills>>

(* _fingerprint *)
Fingerprint ==
    /\ capture.at = "owned"
    /\ capture' = [capture EXCEPT !.at = "printed", !.print = laneWork]
    /\ UNCHANGED <<laneWork, capStatus, bundles, records, recentRecords, strayRefs,
                   sweepLedger, missed, kills>>

(* A claim needs no new bundle if its record has the fingerprint, or is recent
   and the capture is not forced, and its bundle is there. *)
Unchanged(k) ==
    /\ records[k] # None /\ bundles[k] # None
    /\ records[k] = capture.print \/ (~capture.forced /\ k \in recentRecords)

Rewrite ==
    /\ capture.at = "printed" /\ \A k \in capture.owned : Unchanged(k)
    /\ capture' = NoCapture
    /\ UNCHANGED <<laneWork, capStatus, bundles, records, recentRecords, strayRefs,
                   sweepLedger, missed, kills>>

(* _snapshot_commits *)
Snapshot ==
    /\ capture.at = "printed" /\ \E k \in capture.owned : ~Unchanged(k)
    /\ capture' = [capture EXCEPT !.at = "committed", !.tree = laneWork,
                                  !.left = capture.owned, !.forced = FALSE]
    /\ UNCHANGED <<laneWork, capStatus, bundles, records, recentRecords, strayRefs,
                   sweepLedger, missed, kills>>

(* _publish_bundle: a temporary ref for the bundle to name, deleted after. *)
Published(k) == capture.tree

PublishBundle ==
    /\ capture.at = "committed"
    /\ \E k \in capture.left :
         /\ bundles' = [bundles EXCEPT ![k] = Published(k)]
         /\ capture' = [capture EXCEPT !.at = "published", !.left = @ \ {k},
                                       !.owned = {k}]
    /\ UNCHANGED <<laneWork, capStatus, records, recentRecords, strayRefs, sweepLedger,
                   missed, kills>>

WriteRecord ==
    /\ capture.at = "published"
    /\ \E k \in capture.owned :
         /\ records' = [records EXCEPT ![k] = capture.print]
         /\ recentRecords' = recentRecords \cup {k}
    /\ capture' = IF capture.left = {} THEN NoCapture
                  ELSE [capture EXCEPT !.at = "committed"]
    /\ UNCHANGED <<laneWork, capStatus, bundles, strayRefs, sweepLedger, missed, kills>>

(* The process that captures is killed; one killed while it made a bundle
   leaves its temporary ref. *)
Killed ==
    /\ capture # NoCapture /\ kills < MaxKills /\ kills' = kills + 1
    /\ capture' = NoCapture
    /\ strayRefs' = (capture.at = "committed")
    /\ UNCHANGED <<laneWork, capStatus, bundles, records, recentRecords, sweepLedger, missed>>

-----------------------------------------------------------------------------
(* prune: a checkpoint is needed while its claim is held, or while the take that
   named it is current. *)
Needed(status) == {k \in CapClaim : status[k] \in {"held", "taken"}}

ReadLedger ==
    /\ sweepLedger = NoLedger
    /\ sweepLedger' = [read |-> TRUE, needed |-> Needed(capStatus)]
    /\ UNCHANGED <<laneWork, capStatus, bundles, records, recentRecords, strayRefs, capture,
                   missed, kills>>

PruneAll ==
    /\ sweepLedger.read
    /\ LET gone == {k \in CapClaim \ sweepLedger.needed : records[k] # None}
       IN  /\ bundles' = [k \in CapClaim |-> IF k \in gone THEN None ELSE bundles[k]]
           /\ records' = [k \in CapClaim |-> IF k \in gone THEN None ELSE records[k]]
           /\ recentRecords' = recentRecords \ gone
    /\ sweepLedger' = NoLedger
    /\ UNCHANGED <<laneWork, capStatus, strayRefs, capture, missed, kills>>

CapturesNext ==
    \/ Works \/ Ledger \/ IntervalPasses
    \/ \E forced \in BOOLEAN : StartCapture(forced)
    \/ Fingerprint \/ Rewrite \/ Snapshot \/ PublishBundle \/ WriteRecord \/ Killed
    \/ ReadLedger \/ PruneAll

CapturesSpec == CapturesInit /\ [][CapturesNext]_captureVars

-----------------------------------------------------------------------------
ForcedCapturesAreCurrentStep ==
    capture.forced /\ capture.at = "printed" /\ capture' = NoCapture /\ kills' = kills =>
       \A k \in capture.owned : bundles[k] # None /\ bundles[k] >= capture.print

(* A capture that is forced, as before a claim is offered to others, ends only
   with bundles of at least what the lane had done when it began, for every
   claim it covers that nobody has taken away meanwhile. *)
ForcedCapturesAreCurrent == [][ForcedCapturesAreCurrentStep]_captureVars

(* A record never describes more than its bundle holds, although the two are
   written one after the other by captures that may be killed between them; the
   claim is current, and was there when the sweep had read the ledger. *)
BundlesHoldWhatIsRecorded ==
    \A k \in CapClaim \ missed :
        capStatus[k] \in {"held", "taken"} /\ records[k] # None =>
          bundles[k] # None /\ bundles[k] >= records[k]

(* The checkpoint a take names stays while the take is current, unless the claim
   was made after the sweep had read the ledger. *)
TakenCheckpointsAreKept ==
    \A k \in CapClaim \ missed : capStatus[k] = "taken" => bundles[k] # None

-----------------------------------------------------------------------------
(***************************************************************************)
(* Putting a taken claim's checkpoint into the recipient's worktree.  The  *)
(* captured work is a commit, what was staged on it and what was not; it   *)
(* enters in those three steps, each recorded in a receipt after it is     *)
(* done, so a call that stops half way is taken up where it was.  Nothing  *)
(* keeps the recipient from changing the worktree meanwhile.               *)
(***************************************************************************)

CONSTANTS
    Callers,        \* calls that may be under way at once
    MaxEdits        \* model bound: changes the recipient makes

VARIABLES
    wanted,         \* the checkpoint: the trees of its commit, index and worktree
    destination,    \* the worktree: its commit, and the trees of index and files
    ignoredFile,    \* an ignored file lies where the captured work has one
    receipt,        \* the phase the receipt records
    callAt,         \* where each call is
    edits,          \* model bound: changes the recipient made
    overlapped      \* ghost: two calls were under way at once

restoreVars == <<wanted, destination, ignoredFile, receipt, callAt, edits, overlapped>>

(* Trees by number: 0 is where the recipient starts, 9 its own work. *)
Trees == {0, 1, 2, 3, 9}

RestoresTypeOK ==
    /\ wanted \in [head : {0, 1}, index : Trees, work : Trees]
    /\ destination \in [commit : {0, 1, 9}, index : Trees, work : Trees]
    /\ ignoredFile \in BOOLEAN /\ edits \in 0..MaxEdits
    /\ receipt \in {"none", "prepared", "head", "index", "complete"}
    /\ callAt \in [Callers -> {"idle", "ready", "merged", "head", "staged", "index", "applied",
                               "refused"}]

(* The destination may start on the captured commit itself; nothing may have
   been staged; what was not staged may be nothing, more work, or work that
   takes the staged changes back. *)
RestoresInit ==
    /\ \E h \in {0, 1} : \E i \in {h, 2} : \E w \in {h, i, 3} :
         wanted = [head |-> h, index |-> i, work |-> w]
    /\ destination = [commit |-> 0, index |-> 0, work |-> 0]
    /\ ignoredFile \in BOOLEAN
    /\ receipt = "none" /\ callAt = [c \in Callers |-> "idle"] /\ edits = 0
    /\ overlapped = FALSE

-----------------------------------------------------------------------------
(* The recipient: edits files, stages, commits, or throws changes away. *)
Recipient ==
    /\ edits < MaxEdits /\ edits' = edits + 1
    /\ \/ destination' = [destination EXCEPT !.work = 9] /\ UNCHANGED ignoredFile
       \/ destination' = [destination EXCEPT !.index = destination.work] /\ UNCHANGED ignoredFile
       \/ destination' = [destination EXCEPT !.commit = 9] /\ UNCHANGED ignoredFile
       \/ /\ destination' = [destination EXCEPT !.index = destination.commit,
                                                 !.work = destination.commit]
          /\ UNCHANGED ignoredFile
       \/ ignoredFile' = ~ignoredFile /\ UNCHANGED destination
    /\ UNCHANGED <<wanted, receipt, callAt, overlapped>>

(* _content_trees *)
Content == <<destination.index, destination.work>>

Leave(c) == callAt' = [callAt EXCEPT ![c] = "idle"]
Refused(c) == callAt' = [callAt EXCEPT ![c] = "refused"]
Go(c, at) == callAt' = [callAt EXCEPT ![c] = at]

(* preflight: a clean worktree, no commits outside the captured history, and
   nothing ignored where the captured work goes. *)
Preflight ==
    /\ destination.index = destination.commit /\ destination.work = destination.commit
    /\ destination.commit \in {0, wanted.head}
    /\ ~ignoredFile

(* restore: without a receipt the destination is checked and the receipt made;
   with one, the call goes on from the phase it records. *)
From(phase) ==
    CASE phase = "prepared" -> "ready" [] phase = "head" -> "head" [] OTHER -> "index"

Enter(c) ==
    /\ callAt[c] = "idle" /\ receipt # "complete"
    /\ IF receipt = "none"
       THEN IF Preflight
            THEN receipt' = "prepared" /\ Go(c, "ready")
            ELSE Refused(c) /\ UNCHANGED receipt
       ELSE /\ UNCHANGED receipt
            /\ Go(c, From(receipt))
    /\ overlapped' = (overlapped \/ \E d \in Callers : callAt[d] # "idle")
    /\ UNCHANGED <<wanted, destination, ignoredFile, edits>>

Clean == destination.commit = 0 /\ Content = <<0, 0>>
AtHead == destination.commit = wanted.head /\ Content = <<wanted.head, wanted.head>>

(* The saved HEAD phase: git merge --ff-only does nothing on the commit already
   there. *)
MergeHead(c) ==
    /\ callAt[c] = "ready"
    /\ \/ /\ Clean /\ Go(c, "merged")
          /\ destination' = [commit |-> wanted.head, index |-> wanted.head, work |-> wanted.head]
       \/ AtHead /\ Go(c, "merged") /\ UNCHANGED destination
       \/ ~Clean /\ ~AtHead /\ Refused(c) /\ UNCHANGED destination
    /\ UNCHANGED <<wanted, ignoredFile, receipt, edits, overlapped>>

Write(c, phase, at) == receipt' = phase /\ Go(c, at)

WriteHead(c) ==
    /\ callAt[c] = "merged" /\ Write(c, "head", "head")
    /\ UNCHANGED <<wanted, destination, ignoredFile, edits, overlapped>>

(* The saved index phase: the index patch goes to index and files. *)
BadResumesIndex_FromHead == FALSE

ResumesIndex == Content = <<wanted.index, wanted.index>>

ApplyIndex(c) ==
    /\ callAt[c] = "head"
    /\ \/ /\ destination.commit = wanted.head /\ Content = <<wanted.head, wanted.head>>
          /\ \/ /\ ~ignoredFile \/ wanted.index = wanted.head
                /\ destination' = [destination EXCEPT !.index = wanted.index,
                                                       !.work = wanted.index]
                /\ Go(c, "staged")
             \/ /\ ignoredFile /\ wanted.index # wanted.head
                /\ Refused(c) /\ UNCHANGED destination
       \/ /\ destination.commit = wanted.head /\ Content # <<wanted.head, wanted.head>>
          /\ ResumesIndex /\ Go(c, "staged") /\ UNCHANGED destination
       \/ /\ \/ destination.commit # wanted.head
             \/ Content # <<wanted.head, wanted.head>> /\ ~ResumesIndex
          /\ Refused(c) /\ UNCHANGED destination
    /\ UNCHANGED <<wanted, ignoredFile, receipt, edits, overlapped>>

WriteIndex(c) ==
    /\ callAt[c] = "staged" /\ Write(c, "index", "index")
    /\ UNCHANGED <<wanted, destination, ignoredFile, edits, overlapped>>

(* The saved worktree phase: the rest goes to the files. *)
ResumesWork == destination.work = wanted.work

ApplyWork(c) ==
    /\ callAt[c] = "index"
    /\ \/ /\ destination.index = wanted.index /\ destination.work = wanted.index
          /\ \/ /\ ~ignoredFile \/ wanted.work = wanted.index
                /\ destination' = [destination EXCEPT !.work = wanted.work]
                /\ Go(c, "applied")
             \/ /\ ignoredFile /\ wanted.work # wanted.index
                /\ Refused(c) /\ UNCHANGED destination
       \/ /\ destination.index = wanted.index /\ destination.work # wanted.index
          /\ ResumesWork /\ Go(c, "applied") /\ UNCHANGED destination
       \/ /\ \/ destination.index # wanted.index
             \/ destination.work # wanted.index /\ ~ResumesWork
          /\ Refused(c) /\ UNCHANGED destination
    /\ UNCHANGED <<wanted, ignoredFile, receipt, edits, overlapped>>

WriteComplete(c) ==
    /\ callAt[c] = "applied" /\ receipt' = "complete" /\ Leave(c)
    /\ UNCHANGED <<wanted, destination, ignoredFile, edits, overlapped>>

(* The process of a call ends, anywhere; a call that was refused is made again. *)
CallEnds(c) ==
    /\ callAt[c] # "idle" /\ Leave(c)
    /\ UNCHANGED <<wanted, destination, ignoredFile, receipt, edits, overlapped>>

RestoresNext ==
    \/ Recipient
    \/ \E c \in Callers :
         \/ Enter(c) \/ MergeHead(c) \/ WriteHead(c) \/ ApplyIndex(c) \/ WriteIndex(c)
         \/ ApplyWork(c) \/ WriteComplete(c) \/ CallEnds(c)

RestoresSpec == RestoresInit /\ [][RestoresNext]_restoreVars

-----------------------------------------------------------------------------
(* A receipt that says complete was written over a worktree that held what was
   captured, or that the recipient has changed since. *)
CompleteMeansRestored ==
    receipt = "complete" /\ edits = 0 =>
        destination = [commit |-> wanted.head, index |-> wanted.index, work |-> wanted.work]

RestoredIsWhatWasCapturedStep ==
    \A c \in Callers : callAt[c] = "index" /\ callAt'[c] = "applied" =>
       Content' = <<wanted.index, wanted.work>>

(* What the recipient changed half way is not passed off as restored: the last
   step ends with the index and the files that were captured. *)
RestoredIsWhatWasCaptured == [][RestoredIsWhatWasCapturedStep]_restoreVars

(* A call that ended anywhere is taken up by the next: where the recipient has
   changed nothing and no file was in the way, none is refused.  Two calls at once
   can leave the receipt behind the worktree; then the next is. *)
InterruptedRestoresGoOn ==
    edits = 0 /\ ~ignoredFile /\ ~overlapped => \A c \in Callers : callAt[c] # "refused"
=============================================================================
