------------------------------ MODULE Integrations ------------------------------
(***************************************************************************)
(* One lane's work merged into the base checkout: the operator's approval, *)
(* the run under merge.lock and the one record of an integration the base  *)
(* has not verified.  A run may die between any two steps.  The base is    *)
(* also changed by hand, the lane commits and reports while the run waits  *)
(* for its gate, and the service verifies candidates before it takes the   *)
(* lock.  Each lane holds one issue, so an issue is named by its lane.     *)
(***************************************************************************)
EXTENDS Integers

CONSTANTS
    MergeLanes,     \* lanes, each with the issue it holds
    FirstLane,      \* model bound: the lane that commits, reports and claims again,
                    \* that the service merges, and that others may wait on
    NoLane,         \* nobody
    RepairAttempts, \* attempts a recorded recovery allows
    MaxLimit,       \* model bound: the limit attempts are renewed to
    MaxRev,         \* model bound: commits and reports of a lane
    MaxBase         \* model bound: commits on the base

VARIABLES
    base,       \* the base: its commit, the work in it, does it pass, what merges
    head,       \* each lane's HEAD
    work,       \* each issue's execution: state, claim generation, source, waits
    reports,    \* ready reports each lane has made
    baseDecision,   \* the operator's last decision on each lane
    record,     \* integration.json
    run,        \* the operation that holds merge.lock
    candidate,  \* what the service verified outside the lock
    owed,       \* ghost: the lane whose merged work no gate has passed
    answered    \* ghost: lanes approved since they last committed or reported

inVars == <<base, head, work, reports, baseDecision, record, run, candidate, owed, answered>>
inGhosts == <<owed, answered>>

NoRecord == [kind |-> "none"]
NoRun == [step |-> "idle", lane |-> NoLane]
NoCandidate == [lane |-> NoLane]
NoDecision == [report |-> 0, head |-> 0]
Kinds == {"conflict", "gate failed", "interrupted"}

IntegrationsTypeOK ==
    /\ base.at \in 0..MaxBase /\ base.work \subseteq (MergeLanes \X (1..MaxRev))
    /\ \A l \in MergeLanes :
          /\ head[l] \in 0..MaxRev /\ reports[l] \in 0..MaxRev
          /\ work[l].state \in {"working", "ready", "recovery", "complete"}
    /\ record = NoRecord \/ record.kind \in Kinds
    /\ run.step \in {"idle", "admitted", "begun", "merged", "gated", "completed"}

(* Every lane has reported its first commit ready, and all but the first are
   approved. *)
IntegrationsInit ==
    /\ base = [at |-> 0, work |-> {}, good |-> TRUE, merging |-> NoLane, src |-> 0]
    /\ head = [l \in MergeLanes |-> 1] /\ reports = [l \in MergeLanes |-> 1]
    /\ work = [l \in MergeLanes |-> [state |-> "ready", gen |-> 1, src |-> 1, on |-> {}]]
    /\ baseDecision = [l \in MergeLanes |-> IF l = FirstLane THEN NoDecision
                                        ELSE [report |-> 1, head |-> 1]]
    /\ record = NoRecord /\ run = NoRun /\ candidate = NoCandidate
    /\ owed = NoLane /\ answered = MergeLanes \ {FirstLane}

-----------------------------------------------------------------------------
(* The lanes at work, and their claims. *)
LaneCommits(l) ==
    /\ l = FirstLane /\ head[l] < MaxRev /\ head' = [head EXCEPT ![l] = @ + 1]
    /\ answered' = answered \ {l}
    /\ UNCHANGED <<base, work, reports, baseDecision, record, run, candidate, owed>>

ReportReady(l) ==
    /\ work[l].state # "complete" /\ work[l].on = {} /\ reports[l] < (IF l = FirstLane THEN MaxRev ELSE 1)
    /\ work' = [work EXCEPT ![l] = [@ EXCEPT !.state = "ready", !.src = head[l]]]
    /\ reports' = [reports EXCEPT ![l] = @ + 1] /\ answered' = answered \ {l}
    /\ UNCHANGED <<base, head, baseDecision, record, run, candidate, owed>>

(* The issue is made to wait on another that is not complete. *)
Block(l, m) ==
    /\ l # m /\ m = FirstLane /\ m \notin work[l].on /\ work[l].state # "complete" /\ work[m].state # "complete"
    /\ work' = [work EXCEPT ![l].on = @ \cup {m}]
    /\ UNCHANGED <<base, head, reports, baseDecision, record, run, candidate, inGhosts>>

(* The claim is released and taken again: a new generation. *)
ClaimAgain(l) ==
    /\ l = FirstLane /\ work[l].state # "complete" /\ work[l].gen = 1
    /\ work' = [work EXCEPT ![l] = [@ EXCEPT !.gen = 2, !.state = "working", !.src = 0]]
    /\ UNCHANGED <<base, head, reports, baseDecision, record, run, candidate, inGhosts>>

-----------------------------------------------------------------------------
(* The operator's decision, and what it answers. *)
Binding(l) == [report |-> IF work[l].state = "ready" THEN reports[l] ELSE 0,
               head |-> head[l]]

Approve(l) ==
    /\ work[l].state = "ready" /\ work[l].src = head[l] /\ baseDecision[l] # Binding(l)
    /\ baseDecision' = [baseDecision EXCEPT ![l] = Binding(l)] /\ answered' = answered \cup {l}
    /\ UNCHANGED <<base, head, work, reports, record, run, candidate, owed>>

(* The latest report is ready, its commit is the branch's head, and the
   decision answers exactly them. *)
Review(l) ==
    /\ reports[l] # 0
    /\ baseDecision[l] = [report |-> reports[l], head |-> head[l]]

-----------------------------------------------------------------------------
(* The recovery record. *)
Holds(r) == r.kind # "conflict" \/ base.merging # NoLane \/ base.at # r.base

(* The lane that holds the recorded issue, whatever generation it is. *)
RecordOwner(r) == IF work[r.lane].state = "complete" THEN NoLane ELSE r.lane

Exhausted(r) == r.attempt >= r.limit

Published(r) ==
    IF record # NoRecord /\ record.attempt > r.attempt THEN record ELSE r

(* The record when it no longer describes the base is dropped. *)
Standing == IF record # NoRecord /\ Holds(record) THEN record ELSE NoRecord

MayRepair(l, r) == RecordOwner(r) = l /\ ~Exhausted(r)

Renewed(r) == [r EXCEPT !.limit = r.attempt + RepairAttempts]

-----------------------------------------------------------------------------
Stop == run' = NoRun

(* What the lane's execution must be for its work to be admitted. *)
Admits(l, held) ==
    /\ work[l].state = "ready" \/ (held # NoRecord /\ work[l].state = "recovery")
    /\ work[l].on = {} \/ held # NoRecord

(* The lane is approved, and owns the record when one stands. *)
Admit(l, auto, renew) ==
    LET held == IF renew THEN Renewed(Standing) ELSE Standing
    IN  /\ run = NoRun /\ Review(l)
        /\ held # NoRecord => MayRepair(l, held)
        /\ Admits(l, held)
        /\ record' = held
        /\ run' = [step |-> "admitted", lane |-> l, held |-> held, at |-> base.at,
                   gen |-> work[l].gen, src |-> work[l].src,
                   verified |-> auto /\ held = NoRecord]
        /\ UNCHANGED <<base, head, work, reports, baseDecision, candidate, inGhosts>>

OperatorMerge(l) == Admit(l, FALSE, FALSE)

RenewRecovery(l) ==
    /\ run = NoRun /\ Standing # NoRecord
    /\ Standing.attempt + RepairAttempts <= MaxLimit
    /\ Admit(l, FALSE, TRUE)

(* The lock is taken for a candidate whose target is still the base and whose
   claim and source are still the lane's. *)
UnattendedMerge ==
    LET l == candidate.lane IN
    /\ candidate # NoCandidate /\ base.at = candidate.target
    /\ candidate.gen = work[l].gen /\ candidate.src = work[l].src
    /\ Admit(l, TRUE, FALSE)

(* An admission that is refused has dropped a record that no longer stands. *)
RefuseAdmission ==
    /\ run = NoRun /\ record # Standing /\ record' = Standing
    /\ UNCHANGED <<base, head, work, reports, baseDecision, run, candidate, inGhosts>>

RefuseMerge ==
    /\ run.step = "admitted" /\ Stop
    /\ UNCHANGED <<base, head, work, reports, baseDecision, record, candidate, inGhosts>>

(* The gate passes on the base as it is, unless a candidate was verified or
   this is a retry; the attempt is recorded before anything is merged. *)
Begin ==
    LET held == run.held IN
    /\ run.step = "admitted"
    /\ (held = NoRecord /\ ~run.verified) => base.good /\ base.at = run.at
    /\ head[run.lane] = run.src /\ base.merging = NoLane
    /\ record' = Published(
          [kind |-> "interrupted", lane |-> run.lane, gen |-> run.gen, result |-> -1,
           base |-> IF held # NoRecord THEN held.base ELSE base.at,
           attempt |-> IF held # NoRecord THEN held.attempt + 1 ELSE 1,
           limit |-> IF held # NoRecord THEN held.limit ELSE RepairAttempts])
    /\ run' = [run EXCEPT !.step = "begun", !.at = base.at]
    /\ UNCHANGED <<base, head, work, reports, baseDecision, candidate, owed, answered>>

(* A failed attempt goes back to its owner as repair work. *)
Returned(l, gen) ==
    IF work[l].gen = gen /\ work[l].state = "ready"
    THEN [work EXCEPT ![l].state = "recovery"] ELSE work

Contained == <<run.lane, run.src>> \in base.work

(* The commit a candidate was verified as passes. *)
MergeCommit(good) ==
    base' = [base EXCEPT !.at = @ + 1, !.work = @ \cup {<<run.lane, run.src>>}, !.good = good]

Merges ==
    /\ run.step = "begun" /\ base.merging = NoLane
    /\ IF Contained
       THEN UNCHANGED <<base, owed>>
       ELSE /\ base.at < MaxBase
            /\ \E good \in BOOLEAN :
                  (run.verified /\ base.at = candidate.target => good) /\ MergeCommit(good)
            /\ owed' = run.lane
    /\ run' = [run EXCEPT !.step = "merged",
                          !.verified = @ /\ base.at = candidate.target]
    /\ UNCHANGED <<head, work, reports, baseDecision, record, candidate, answered>>

MergeConflicts ==
    /\ run.step = "begun" /\ base.merging = NoLane /\ ~Contained
    /\ base' = [base EXCEPT !.merging = run.lane, !.src = run.src]
    /\ record' = Published([record EXCEPT !.kind = "conflict"])
    /\ work' = Returned(run.lane, run.gen) /\ Stop
    /\ UNCHANGED <<head, reports, baseDecision, candidate, inGhosts>>

BadWithdrawn_Dropped(held) == NoRecord

(* Nothing was merged: the record the attempt replaced is put back. *)
Withdrawn(held) == held

MergeFails ==
    /\ run.step = "begun" /\ base.at = run.at /\ base.merging = NoLane
    /\ record' = Withdrawn(run.held) /\ Stop
    /\ UNCHANGED <<base, head, work, reports, baseDecision, candidate, inGhosts>>

-----------------------------------------------------------------------------
RecordResult ==
    /\ run.step = "merged"
    /\ record' = Published([record EXCEPT !.result = base.at])
    /\ run' = [step |-> "gated", lane |-> run.lane, gen |-> run.gen, src |-> run.src,
               at |-> base.at, verified |-> run.verified]
    /\ UNCHANGED <<base, head, work, reports, baseDecision, candidate, inGhosts>>

GatePasses == run.verified \/ base.good

(* Verification may be long; afterwards the base must be the commit merged. *)
GateThenComplete ==
    LET l == run.lane IN
    /\ run.step = "gated" /\ GatePasses /\ base.at = run.at
    /\ owed' = NoLane
    /\ run' = [run EXCEPT !.step = "completed"]
    /\ UNCHANGED <<base, head, work, reports, baseDecision, record, candidate, answered>>

GateFails ==
    /\ run.step = "gated" /\ (~GatePasses \/ base.at # run.at) /\ Stop
    /\ record' = IF base.at # run.at /\ GatePasses THEN record
                 ELSE Published([record EXCEPT !.kind = "gate failed"])
    /\ work' = IF base.at # run.at /\ GatePasses THEN work ELSE Returned(run.lane, run.gen)
    /\ UNCHANGED <<base, head, reports, baseDecision, candidate, inGhosts>>

BadMayComplete_Source(l) == work[l].gen = run.gen /\ work[l].state \in {"ready", "recovery"}

MayComplete(l) ==
    /\ work[l].gen = run.gen /\ work[l].state \in {"ready", "recovery"}
    /\ work[l].on = {} /\ work[l].src = run.src

CompleteWork ==
    LET l == run.lane IN
    /\ run.step = "completed" /\ MayComplete(l)
    /\ work' = [m \in MergeLanes |->
                  IF m = l THEN [work[l] EXCEPT !.state = "complete"]
                  ELSE [work[m] EXCEPT !.on = @ \ {l}]]
    /\ run' = [run EXCEPT !.step = "completed", !.gen = 0]
    /\ UNCHANGED <<base, head, reports, baseDecision, record, candidate, inGhosts>>

(* The ledger refuses: the record stands for the next attempt. *)
CompletionRefused ==
    /\ run.step = "completed" /\ run.gen # 0 /\ ~MayComplete(run.lane) /\ Stop
    /\ UNCHANGED <<base, head, work, reports, baseDecision, record, candidate, inGhosts>>

ClearRecord ==
    /\ run.step = "completed" /\ run.gen = 0 /\ Stop
    /\ record' = IF record # NoRecord /\ record.result = run.at THEN NoRecord ELSE record
    /\ UNCHANGED <<base, head, work, reports, baseDecision, candidate, inGhosts>>

Crash ==
    /\ run # NoRun /\ Stop
    /\ UNCHANGED <<base, head, work, reports, baseDecision, record, candidate, inGhosts>>

-----------------------------------------------------------------------------
(* The base by hand, and the operator's verification of it. *)
AbortMerge ==
    /\ base.merging # NoLane /\ base' = [base EXCEPT !.merging = NoLane, !.src = 0]
    /\ UNCHANGED <<head, work, reports, baseDecision, record, run, candidate, inGhosts>>

ContinueMerge(good) ==
    /\ base.merging # NoLane /\ base.at < MaxBase
    /\ base' = [at |-> base.at + 1, work |-> base.work \cup {<<base.merging, base.src>>},
                good |-> good, merging |-> NoLane, src |-> 0]
    /\ owed' = base.merging
    /\ UNCHANGED <<head, work, reports, baseDecision, record, run, candidate, answered>>

HandCommit(good) ==
    /\ base.merging = NoLane /\ base.at < MaxBase
    /\ base' = [base EXCEPT !.at = @ + 1, !.good = good]
    /\ UNCHANGED <<head, work, reports, baseDecision, record, run, candidate, inGhosts>>

VerifyRecovery ==
    /\ run = NoRun /\ record # NoRecord /\ base.merging = NoLane /\ base.good
    /\ record' = NoRecord /\ owed' = NoLane
    /\ UNCHANGED <<base, head, work, reports, baseDecision, run, candidate, answered>>

(* The service evaluates a lane and verifies a merge in a scratch worktree,
   with no lock held. *)
Eligible(l) ==
    /\ work[l].state = "ready" /\ head[l] = work[l].src /\ work[l].on = {}
    /\ record = NoRecord \/ ~Holds(record)

VerifyCandidate(l) ==
    /\ l = FirstLane /\ Eligible(l) /\ candidate = NoCandidate
    /\ candidate' = [lane |-> l, gen |-> work[l].gen, src |-> work[l].src,
                     target |-> base.at]
    /\ UNCHANGED <<base, head, work, reports, baseDecision, record, run, inGhosts>>

(* The target moved or the attempt ended: the next one evaluates afresh. *)
DropCandidate ==
    /\ candidate # NoCandidate /\ run = NoRun
    /\ candidate' = NoCandidate
    /\ UNCHANGED <<base, head, work, reports, baseDecision, record, run, inGhosts>>

LaneSteps(l) ==
    \/ LaneCommits(l) \/ ReportReady(l) \/ ClaimAgain(l) \/ Approve(l)
    \/ \E m \in MergeLanes : Block(l, m)

RunSteps ==
    \/ UnattendedMerge
    \/ RefuseAdmission \/ RefuseMerge \/ Begin \/ Merges \/ MergeConflicts \/ MergeFails
    \/ RecordResult \/ GateThenComplete \/ GateFails \/ CompleteWork \/ CompletionRefused
    \/ ClearRecord \/ Crash

HandSteps ==
    \/ AbortMerge \/ VerifyRecovery \/ DropCandidate
    \/ \E good \in BOOLEAN : ContinueMerge(good) \/ HandCommit(good)

IntegrationsNext ==
    \/ \E l \in MergeLanes : LaneSteps(l) \/ OperatorMerge(l) \/ RenewRecovery(l) \/ VerifyCandidate(l)
    \/ RunSteps \/ HandSteps

IntegrationsSpec == IntegrationsInit /\ [][IntegrationsNext]_inVars

-----------------------------------------------------------------------------
(* Merged work that no gate has passed is always on record, whatever step the
   run died at, so the next run finds it. *)
UnverifiedBaseIsRecorded == owed # NoLane => record # NoRecord

NobodyBuildsOnUnverifiedWorkStep ==
    (owed # NoLane /\ base'.work # base.work) =>
        \A l \in MergeLanes \ {owed} :
            \A r \in 1..MaxRev : <<l, r>> \notin base'.work \ base.work

(* Nobody else's work is merged onto it. *)
NobodyBuildsOnUnverifiedWork == [][NobodyBuildsOnUnverifiedWorkStep]_inVars

CompletedWorkIsVerifiedStep ==
    \A l \in MergeLanes :
        (work[l].state # "complete" /\ work'[l].state = "complete")
        => <<l, work[l].src>> \in base.work /\ owed = NoLane

(* Work is recorded complete only when exactly its reported source is in a base
   commit that passed the gate. *)
CompletedWorkIsVerified == [][CompletedWorkIsVerifiedStep]_inVars

ApprovalsAnswerThisWorkStep ==
    (run = NoRun /\ run' # NoRun) => run'.lane \in answered

(* A merge starts only on an approval given after the lane's last commit and
   report. *)
ApprovalsAnswerThisWork == [][ApprovalsAnswerThisWorkStep]_inVars

(* Repair work stays within its recorded attempts, and only the issue's own
   failed generation is sent back. *)
AttemptsAreCounted ==
    /\ record # NoRecord => record.attempt <= record.limit
    /\ \A l \in MergeLanes : work[l].state = "recovery" => work[l].src # 0
-----------------------------------------------------------------------------
(* What makes them inductive. *)
Executions == [state : {"working", "ready", "recovery", "complete"}, gen : 1..2,
               src : 0..MaxRev, on : SUBSET MergeLanes]
Records == [kind : Kinds, lane : MergeLanes, gen : 1..2, result : Int, base : 0..MaxBase,
            attempt : Nat, limit : Nat]

(* The run holds its own copy of the record until it has merged. *)
Merging == [step : {"admitted", "begun", "merged"}, lane : MergeLanes,
            held : Records \cup {NoRecord}, at : 0..MaxBase, gen : 1..2, src : 1..MaxRev,
            verified : BOOLEAN]
Verifying == [step : {"gated", "completed"}, lane : MergeLanes, gen : 0..2, src : 1..MaxRev,
              at : 0..MaxBase, verified : BOOLEAN]

BaseShape == base \in [at : 0..MaxBase, work : SUBSET (MergeLanes \X (1..MaxRev)),
                       good : BOOLEAN, merging : MergeLanes \cup {NoLane}, src : 0..MaxRev]
WorkShape == work \in [MergeLanes -> Executions]
RecordShape == record = NoRecord \/ record \in Records
RunShape == run = NoRun \/ run \in Merging \/ run \in Verifying
OthersShape ==
    /\ head \in [MergeLanes -> 1..MaxRev] /\ reports \in [MergeLanes -> 0..MaxRev]
    /\ baseDecision \in [MergeLanes -> [report : 0..MaxRev, head : 0..MaxRev]]
    /\ candidate = NoCandidate \/ candidate.lane \in MergeLanes
    /\ owed \in MergeLanes \cup {NoLane}

(* A decision answers what there was; one that answers what there is was made since. *)
DecisionsArePast ==
    \A l \in MergeLanes :
        /\ baseDecision[l].report <= reports[l] /\ baseDecision[l].head <= head[l]
        /\ Review(l) => l \in answered
SourcesAreReported == \A l \in MergeLanes : work[l].state # "working" => work[l].src # 0

(* r is the record of the work that is owed verification, and stands while it is. *)
Covers(r) == r # NoRecord /\ r.lane = owed /\ base.at > r.base

MergesAreRecorded ==
    base.merging # NoLane => base.src # 0 /\ record # NoRecord /\ record.lane = base.merging
OwedIsRecorded == owed # NoLane => Covers(record)
RecordsArePast ==
    record # NoRecord => record.base <= base.at /\ record.attempt <= record.limit

(* What the run knows while it holds the lock. *)
RunsOwnTheRecord ==
    run.step \notin {"idle", "admitted"} =>
        base.merging = NoLane /\ record # NoRecord /\ record.lane = run.lane
HeldCovers ==
    run.step \in {"admitted", "begun"} =>
        /\ owed # NoLane => Covers(run.held)
        /\ run.held # NoRecord => run.held.lane = run.lane /\ run.held.base <= base.at
                                   /\ run.held.attempt < run.held.limit
AdmittedHolds == run.step = "admitted" => record = run.held
MergedIsContained == run.step \in {"merged", "gated", "completed"} => Contained
CompletedIsVerified == run.step = "completed" => owed = NoLane

IntegrationsInv ==
    /\ BaseShape /\ WorkShape /\ RecordShape /\ RunShape /\ OthersShape
    /\ DecisionsArePast /\ SourcesAreReported /\ MergesAreRecorded /\ OwedIsRecorded
    /\ RecordsArePast /\ RunsOwnTheRecord /\ HeldCovers /\ AdmittedHolds
    /\ MergedIsContained /\ CompletedIsVerified
===============================================================================
