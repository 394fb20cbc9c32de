# A TLA+ verification of agent-parley

agent-parley coordinates several native coding agents ("lanes"), each in its own
Git worktree of one repository. This directory models the parts of it that decide
who owns what, what was said to whom and what becomes of a lane's work, checks them
with TLC on small instances, and proves with TLAPS, for every instance, the safety
properties of the reservations, of the issue ledger and of three of the four sums its
other components are checked in.

## 1. The system

All coordination state is in a private directory outside the repository: one
SQLite store, `bridge.sqlite3`, and one JSON file per concern and project, each
under a file lock and replaced atomically. Four kinds of process change it, at the
same time: the HTTP server that answers the lanes' tool calls (a thread per
call), the hooks that run at every checkpoint of a lane, the supervisor's poll, and
the operator's command line. A transaction of the store, or a locked rewrite of one
file, is one action in the models; what is read before it and used in it is a step of
its own, because anything may happen in between.

| Component | State | Operations | What is hard | What makes it correct |
|---|---|---|---|---|
| Advisory reservations (`store.py`) | rows of `file_reservations`, `reservation_requests`; `agents.token_digest` | reserve, request, cancel, release, retire, renew, sweep, release of dead holders, revoke, transfer | a call is authenticated before its transaction; ownership moves in the ledger before the leases follow; five paths grant from the queue | exclusion, one row per lane and key, freed keys are handed on in order, no working lane loses a key, nobody waits behind a lapsed lease for ever |
| Issue ledger (`issues.py`, `lifecycle.py`, `claims.py`) | `issues.json`: owner, claim generation, offer, request, blockers, execution state | claim, take, offer, accept, decline, cancel, request, assign, unassign, release, block, report, complete, resolve | lanes, operator and supervisor write the same record, often on readings made before the lock | ownership moves by consent or from the dead, dependencies stay acyclic, complete is final and has evidence, blocked work resumes |
| Work plan (`plan.py`) | `plan.json`, edges in `issues.json` | propose, decide, settle, recover | two files, a crash between them | the files agree; a revision lands on the ground it was made for |
| Mail and schedules (`store.py`, `supervision.py`) | messages, recipients, scheduled rows | send, read, acknowledge, supersede, prune, schedule, cancel | polls that tell, then settle; a stop between | unsettled mail stays; one occurrence is sent once |
| Notices, digests, updates (`delivery.py`, `notify.py`, `decisions.py`, `inbound.py`) | batches, senders, offsets, the gate | compose, publish, send, serve | work outside the lock on what was read in it; restarts lose memory | no mail lost or told twice; a digest once per transport |
| Server and hook service (`server.py`, `hook.py`, `waits.py`) | slots, calls, recoveries | connect, wait, answer, drain, replace | late answers, abandoned calls, a full pool | slots are conserved; each owed recovery once |
| Readings of Git and the forge (`supervision.py`, `claims.py`, `forge.py`) | cached readings, flights, marks, the catalog | read, join, expire, end, mark | refusals, stale readings, people acting on the forge | only the claim that was read ends; people keep their assignments |
| Overdue claims, orphans, departures (`supervision.py`, `retirement.py`) | ladder, orphan marks, retirement passes | wake, offer, release, mark, return | a crash or a failed call between two steps; claims that change hands | nobody is relieved unwarned; a lane that left owns nothing |
| Capacity and recovery of sessions (`supervision.py`, `recovery.py`) | capacity records, approvals, fences | observe, probe, stop, capture, mark, take | a session that comes back meanwhile | only approved processes are stopped, only captured claims marked |
| Lane records, hooks, guards (`lanes.py`, `checkpoints.py`, `hook.py`) | the state of a lane, its activity, its deliveries | guarded transitions, decisions on commands | four roads of evidence, replays, deadlines | records follow evidence; dangerous commands are refused |
| Sessions, worktrees, children (`cli.py`, `core.py`, `reclaim.py`, `pool.py`, `children.py`) | roster, worktrees, locks, spares | launch, retire, reclaim, move, fill, spawn | long work outside the lock, kills | no work that is only in a worktree is lost; one lane per tree |
| Captures and restores (`recovery.py`) | bundles, receipts | capture, prune, restore | crashes between phases | what is called restored is what was captured |
| Retries, budgets, convergence (`retries.py`, `budgets.py`, `convergence.py`) | keys, counters, accounts | replay, evict, admit, halt, fold | damaged files, late retries | effects match rows; a halt holds |
| Integration (`integration.py`, `merges.py`, `unattended.py`, `approvals.py`) | approvals, `integration.json`, merge lock | approve, merge, gate, complete | commits after approval, a crash between merge and record | what is complete was verified; an unverified base is remembered |
| Decisions, follow-ups, problems (`decisions.py`, `followups.py`, `problems.py`) | one record per situation | open, deliver, answer, file | two ways to answer, old buttons | answers stand; filed once |
| Offers of work, wakes, pull requests (`supervision.py`, `recommend.py`) | offer files, wake rows, the record of the last reading | offer, prompt, park, escalate, re-run | a poll cut between telling and recording | prompts back off and are bounded |
| Blueprints (`blueprints.py`) | run records | walk, save, resume | a cut inside a node | a node is carried out once and not skipped |
| Command line, dashboard, adapters, settings, demo | none of their own | read, print, parse | wording | not modelled |

`PROJECT.json` lists the components with what is left out of each, and the hazards,
each at the line where it bites.

## 2. Plan and where it stands

1. Reservations: every operation; all safety properties proved. **Done.**
2. The issue ledger: every transition and reading; its abstract specification
   `Ownership`; all safety properties and the refinement proved. **Done.**
3. The components that carry messages, calls and readings; all safety properties of
   the run `Messaging` proved. **Done.**
4. The components of the supervision poll; all safety properties of the run
   `Supervision` proved. **Done.**
5. The components that find, merge and follow work; all safety properties of the run
   `Integration` proved. **Done.**
6. The components of the lanes and their records. Modelled and model-checked by the run
   `Records`; its proofs are **open**, `WorkIsKept` first.
7. `KeyOverlap`: the path rules of `store.overlapping` against a reference definition
   by the paths a key covers. They are a relation now, of which `Reservations`
   assumes only what `OverlapAssumption` says. **Open.**

## 3. Modules

| Module | Models |
|---|---|
| `Iteration`, `IterationProofs` | A transaction that walks rows in order, as the composition of one step function per row (`Iterate`), and the removal of rows from an ordered table (`Without`); what a walk leads to. |
| `Reservations`, `MCReservations`, `ReservationsProofs` | The leases and their queue; keys and overlaps for TLC; the theorems. |
| `Ownership` | The abstract specification of the ledger: promises, passages and generations. |
| `IssueLedger`, `MCIssueLedger`, `IssueLedgerProofs` | The ledger, the lanes and issues for TLC, the theorems. |
| `MCMessaging`, `MessagingProofs` | The sum of `Mail`, `Schedules`, `Notices`, `Server`, `ForgeClaims`, `GitReadings`, and the theorems about it. |
| `MCSupervision`, `SupervisionProofs` | The sum of `Departures`, `LapsedClaims`, `Capacity`, `Recoveries`, `UnattendedAttempts`, and the theorems about it. |
| `MCRecords` | The sum of `LaneRecords`, `LaneWork`, `Reclaims`, `NewLanes`, `Limits`. |
| `MCIntegration`, `WorkProofs`, `IntegrationProofs` | The sum of `Wakes`, `WorkOffers`, `PullRequests`, `Integrations`, `BulkMerges`, `PlanRevisions`, `Situations`, `Problems`, `ForgeCatalog`, `Blueprints`, and the theorems about it: `WorkProofs` holds the lemmas of the components that find, offer and follow work. |

Some modules hold more than one component; each part of them has its own variables,
`Init` and `Next`, under a header of its own:

| Module | Parts |
|---|---|
| `Notices` | delivery of mail in batches; digests of decisions; updates of the operator |
| `Server` | the service's answers to hooks; the slots of its calls |
| `ForgeClaims` | readings that end a claim; the marks of assignments |
| `LapsedClaims` | the ladder of an overdue claim; the orphan sweep |
| `Recoveries` | stopping a session that is out of capacity; taking a dead one over |
| `LaneRecords` | the state of a lane; the events a hook records and answers; the commands it lets an agent run |
| `LaneWork` | sessions and their worktrees; capture and prune; restore |
| `Reclaims` | stray worktrees; lanes whose work has landed; a project whose root is gone |
| `NewLanes` | the pool of spare worktrees; child lanes |
| `Limits` | retried calls; the budget of a run; convergence |
| `Situations` | one decision of the operator; one follow-up issue |

**Sums.** The components of a sum share no state in the code that is modelled, so
their product would only multiply the states. `MCMessaging`, `MCSupervision`,
`MCRecords` and `MCIntegration` are sums instead: every behaviour is one component's,
named by `part`, and the variables `s1`, `s2`, ... stand for its variables (`INSTANCE
... WITH`). `Of<Part>` keeps a step to its part. A property of the sum is the
conjunction of its components' properties on one theme, each under its `part`. A
fairness condition of the sum is a disjunction over components; in a behaviour of one
component only its disjunct can ever be a step, so the condition is that component's own.
Where components do meet in the code, one of them has the other's relevant
state and its steps among its own actions (the ledger as `Reservations` sees it,
the claims in `ForgeClaims`, a decision's occurrences in `Notices`).

### Reservations

State. `leases` and `queue` are the live rows of `file_reservations` and
`reservation_requests`; the queue is a sequence because a row's identifier orders it.
`credentialed` is the set of lanes whose `token_digest` is set. `inflight` holds, for
a call between its authentication and its transaction, the claim generation it read, and
`readings`, for a renewal, the claims that its lane owned when it looked. `holder`,
`offers` and `moves` are the issue ledger as reservations see it: who a claim
generation belongs to, which offers carry which keys, and which ownership changes are
committed while their leases have not moved.

| Action | Code |
|---|---|
| `Authenticate` | `store.authenticate` and the reads of `_dispatch` before its transaction |
| `Reserve`, `RequestReservation`, `CancelRequest`, `Release`, `Retire` | the tools of `_effect`, and the transaction of `_retire`; a batch over budget rolls its sweep back |
| `ReadOwned`, `Renew` | `store.owned_claims`, and the transaction of `store.renew_reservations`, from `checkpoints.renewed_leases` |
| `ReclaimExpired` | `store.reclaim_expired`, from the poll; `Reserve` and `RequestReservation` begin with the same sweep |
| `ReleaseDeadHolder`, `Revoke`, `Register` | the functions of these names |
| `ClaimIssue`, `EndClaim`, `OfferClaim`, `DeclineOffer`, `AcceptOffer`, `TakeOrphaned` | the branches of `issues._change`, reduced to the claim generation and the keys |
| `MoveReservations`, `MoveFails` | `transfer_reservations` and `transfer_claim_reservations`; a store that cannot answer |
| `Elapse` | the clock passes a deadline, or `RESERVATION_GRACE` after it |

Abstractions. Paths and patterns are members of `Key` with the relation `Overlap`, or
`FoldedOverlap` when case is folded. Of a deadline only its phase is kept. What the sweep
knows of a lane (a published observation) is a nondeterministic set `quiet`, so a stale
observation is included. Notices, forecasts, the refusal log and idempotency keys are left
out.

Bounds. `MaxLeases` and `MaxRequests` are limits of the code (128 and
`MAX_QUEUED_REQUESTS`), small in the runs so that they are reached. `MaxHandoffs`
and `MaxCalls` bound the model only: handoffs on their way, and calls and renewals between
what they read first and their commit. One in flight is enough for it to be overtaken by
everything else that changes the tables, which is what that step is for.

### IssueLedger

State. `record` is `issues.json`: for each issue its owner and claim generation, the
execution state of `lifecycle`, the edges of `blocked_by`, the pending offer and request,
the accepted handoff, the orphan mark, the completion reminder and its escalation.
`diffs` are the attachments on disk. `merge` and `base` are an integration in progress
and what was verified in the base. What is read before the lock and used under it is a
variable of its own: `seen` and `stage` (the forge reading of a poll and which of
its stages run next), `presence` (the lanes' states `orphans` read), `overdue` (the snapshot
of `expire_offers`), `takeover` (a take's evidence), `ruling` (the operator's). `forge`,
`dead` and `deaths` are the world outside.

| Action | Code |
|---|---|
| `Claim`, `Release`, `OfferIssue`, `Accept`, `Decline`, `Cancel`, `Block`, `Unblock`, `Assign`, `Unassign`, `RequestTakeover`, `Authorize`, `Refuse` | the branches of `issues._change` |
| `PrepareTake`, `Take` | `recovery.prepare_takeover`; `_taken` with `commit_takeover` |
| `GrantRequests`, `SettleDependencies`, `ReadOverdue`, `ExpireOffer` | the poll: `grant_requests`, `settle_dependencies`, `expire_offers` |
| `ApplyPlan` | `plan.apply` of a plan with one edge; a larger plan applies several |
| `ReportPartial`, `ReportBlocked`, `ReportBlockedOn`, `ReportReady` | `lifecycle.record_report` |
| `StartMerge`, `VerifyMerge`, `Complete`, `FailMerge`, `AbandonMerge` | `integration._integrate_lane`, `lifecycle.complete`, `integration_failed` |
| `ReadForge`, `EndMergedClaim`, `RemindOfReading`, `Escalate`, `EscalateUnread`, `FailStage` | the stages of `supervision._remind`, any of which may raise |
| `RemindAfterRelease`, `ObserveResponse` | the reminders a release writes; `observe_responses` |
| `ReadRuling`, `Rule` | `issue resolve` |
| `EndClosedIssue` | `end_closed_issues` |
| `ReadPresence`, `MarkOrphans` | `orphans` |
| `Lapse`, `ForgeEnds`, `ForgeReopens`, `Die`, `Return` | the clock, the forge, the lanes' processes |

Abstractions. A claim identifier is the count of the issue's claims. Of time only what the
code compares is kept: a reminder records the claim it was written in (`created` against
`claimed_since`), a close of the issue the claim it fell in, a request whether its grace
passed without progress. An answer that names a gone offer changes nothing and is left out.
The history is reduced to what is read from it. Whether a take's or a claim's other
conditions hold (a checkpoint, a forge that answers) is left open. Deadlines of claims
are in `LapsedClaims`, the branch reading in `ForgeClaims`, retained keys in `Limits`.

Bounds. `Cap` and `MaxBlockers` are settings and limits of the code, small so that they
bind. `MaxClaims`, `MaxDiffs` and `MaxDeaths` bound the model: three claims let an issue go
from one lane to another and back; after one death each take races one return.
An operator's offer is given a deadline or not as an owner's is (`Windows`), because the
project's default for answers decides it. A catalog reading may be older than the
`EndClosedIssue` it leads to, but the code skips a record touched since: the step stands
for the last moment at which the forge had the issue closed.
`Directed`, `Asking`, `Offered`, `Windows`, `Mortal`, `Closing` and `Endings` say who and
what takes part, so that an instance can leave out what its question does not concern.

### The components of the sums

Each module's header says what its state and steps are and its definitions carry the
names of the code they model; `PROJECT.json` maps each to its lines. What
they have in common: an actor that works outside a lock (a poll, a sender, a filler, a
walk, a second reader) has a variable with its place and what it read; a crash or a kill is an
action that sends it back to rest and leaves files and tables as they are; a forge, a client
or the operator is an action that changes what the others will read. Counters named
`Max...` bound the model: they are large enough for each race to happen twice, or once for each of
two actors, and TLC reports every action as taken.

## 4. Runs

| Run | Instance | Shows |
|---|---|---|
| `ReservationsQueue` | 1 key, a queue, in two parts: 3 lanes and deadlines without claims; 2 lanes and 2 claim generations without deadlines | types; exclusion and one row per lane and key, also across offers, takes and transfers; a freed key is handed on; earlier requests go first. Three lanes are the least that make a queue of two. |
| `ReservationsSweep` | 2 lanes, a directory and a file under it, timed, a queue | no grant adds overlapping leases; the sweep takes nothing from a working lane; nobody waits for ever behind lapsed leases |
| `ReservationsFold` | 3 lanes, two spellings, case folded | violation: section 7 |
| `LedgerHandoffs` | 1 issue, 2 lanes, 3 claims, 1 diff, 1 death, timed offers | what is asked is asked of the owner; diffs of accepted or pending offers exist; marks are current; ownership moves by consent or from a dead owner; the ledger implements `Ownership` |
| `LedgerForge` | in two parts: 1 issue, 2 lanes, 2 claims, 1 commit, all endings; 2 issues of 1 lane, one ends by hand | types; work in progress is held; completion needs evidence for the current claim; complete is final; ended work is unowned; liveness: edges to satisfied blockers clear |
| `LedgerDependencies` | 3 issues, 1 lane, `MaxBlockers` 1 (exceeded by reports) | no circle, no wait on complete work, no early resumption. One lane suffices: no edge rule asks who owns the other issue. Symmetric in the issues. |
| `Messaging` | two polls or threads of each kind, 2 messages, 2 transports, 4 updates, 4 requests for 2 slots | `HandledOnce`, `NothingIsDropped`, `DecisionsAreRespected`, and the liveness property `EverythingSettles` |
| `Supervision` | 2 lanes that may leave, 2 claims, one launch after each stop, 2 marks | `PollsLeaveNothingOver`, `NobodyIsActedOnBlindly`, and the liveness property `PollsGetThere` |
| `Records` | 2 sessions, launchers, callers and fillers each, 2 slots, 3 spawns | `WorkIsKept`, `RecordsAreTrue`, `RecordsMoveForAReason` |
| `PoolDiscards`, `ForcedSweeps` | the instance of `Records` | violations: section 7 |
| `Integration` | 2 lanes, 3 in bulk merges, 2 revisions, heads and bases, 3 occurrences and 3 windows | `AskedAndToldOnce`, `NothingIsMergedUnseen`, `StepsStandOnVerifiedGround` |

Two runs visit two parts of one instance, because all of it is more than TLC can visit: a
`CONSTRAINT` of the MC module (`QueueOrHandover`, `EndsOrWaits`) names the parts, and the
steps that would lead out of both are left out. No fair step is among them:
`SettleDependencies`, the only one in these runs, never leaves a part. `LedgerForge` has no
offers between lanes, which are the subject of `LedgerHandoffs`; its lanes pass the issue on
by release and claim.

The themes of the four sums are spelled out, component by component, in the comment
before each of their definitions. Every run checks the types of its components too.

Deadlock is checked in the reservation and ledger runs: a lane can always make a call.
The sums turn it off, because several of their components really end: a walk of a
blueprint that reached its end, a project that is retired, a service that was signalled,
and instances whose counters are used up.

**Fairness.** In `Reservations` and `IssueLedger` only `ReclaimExpired` and
`SettleDependencies` are weakly fair: the poll calls each every time, isolated from the failure of
its other stages, and runs as long as the service does. In the sums the same holds of the
steps of a poll and of threads that the code joins or restarts (a sender, a flight of a
reading, a hook's thread, the reader of updates): each is weakly fair, because the
thread runs until it ends. Strong fairness stands in three places: for a schedule's reading
and a forge reading that answers, because restarts and refusals may interrupt them for a
while but not for ever, and for the death of a lane in `Departures`, because its session may
come back. Nothing is assumed of lanes, people, the operator or the clock. The liveness
properties have the form `[]<>`: again and again a state comes in which nothing is owed
(or in which the reason for waiting holds, as the component's definition says).

`EarlierRequestsGoFirst` is about a request that a release could have served: when one
lane's keys are freed and a later request is granted, an earlier one that wanted the same key
waits behind another lease than the one that was freed. A stricter order is false, and TLC showed it:
an exclusive request waits while a shared one behind it is granted beside another
shared lease. The code also lets a lane that holds a key shared make it exclusive past
the queue, and the sweep visits expired holders in name order.

## 5. Proofs

Each of the proof modules is checked by `tlapm` on its own. All safety and action properties of
`ReservationsQueue`, `ReservationsSweep`, `LedgerHandoffs`,
`LedgerForge`, `LedgerDependencies`, `Messaging`, `Supervision` and `Integration` are
theorems of their specifications.

| Property | Theorem |
|---|---|
| `TypeOK`, `KeyExclusion`, `OneRowPerKey` | `ReservationsProofs`: `TypeCorrect`, `KeysExclude`, `RowsAreUnique` |
| `OnlyHandoffsOverlap`, `WorkingHolderKeepsItsKeys` | `OnlyHandoffsCollide`, `WorkingHoldersKeepTheirKeys` |
| `ReleasedKeysAreHandedOn`, `EarlierRequestsGoFirst` | `KeysAreHandedOn`, `EarlierRequestsFirst` |
| `TypeOK`, `WorkIsHeld`, `EndedIsUnowned`, `NobodyIsAskedForTheirOwn`, `OrphanMarksAreCurrent`, `PendingDiffsExist` | `IssueLedgerProofs`: `TypeCorrect`, `WorkHeld`, `EndedUnowned`, `AskedOfOthers`, `MarksCurrent`, `DiffsExist` |
| `DependenciesAreAcyclic`, `NothingWaitsOnCompleteWork` | `Acyclic`, `NothingWaits` |
| `OwnershipMovesByConsent`, `CompleteIsFinal`, `CompletionHasEvidence`, `ResumedWorkIsUnblocked` | `Consent`, `CompleteFinal`, `Evidenced`, `ResumedUnblocked` |
| `OwnershipIsKept` (refinement) | `OwnershipKept` |
| `TypeOK`, `HandledOnce`, `NothingIsDropped`, `DecisionsAreRespected` of `MCMessaging` | `MessagingProofs`: `MessagingTypeCorrect`, `NothingIsHandledTwice`, `WhatIsTakenIsKept`, `SettledMattersStaySettled` |
| `TypeOK`, `PollsLeaveNothingOver`, `NobodyIsActedOnBlindly` of `MCSupervision` | `SupervisionProofs`: `SupervisionTypeCorrect`, `WhatThePollDidIsComplete`, `ThePollSeesWhatItDoes` |
| `TypeOK`, `AskedAndToldOnce`, `NothingIsMergedUnseen`, `StepsStandOnVerifiedGround` of `MCIntegration` | `IntegrationProofs`: `IntegrationTypeCorrect`, `NothingIsDoneTwice`, `WhatCountsWasRead`, `EachStepHasItsGround` |

**Iteration.** The library's induction theorems take an operator as a parameter, which
the provers cannot instantiate. `SetInduction` derives induction over the naturals for
sets from the well-foundedness of strict inclusion on finite sets, which the library proves.
`IterateLeads` lifts it to loops: if the i-th turn leads from the i-th set of states into
the next, the loop ends in the last set. `WithoutType` and `WithoutSelects` say what is
left of a table after rows were removed. Every walk over rows in the models is an
`Iterate`, so that no proof needs a `RECURSIVE` operator.

**Reservations**, from `ConstantsAssumption` and `OverlapAssumption` (a key
overlaps itself, overlap is symmetric, folded or not, and folding only adds overlaps).
The last leaves out one kind of key: `store.overlapping` matches a negated class such as
`[!a]` against "A" only while case is compared, so the theorems say nothing of a checkout
that folds case and reserves such keys. Where case is compared `FoldedOverlap` is not read, and
any relation will do. Transactions are loops over rows, so the
argument is closure: a set of lease tables that is closed under a grant nothing blocks, under
sweeps and under renewal holds what any operation commits (`StepWithin`). Each safety theorem
chooses its set: the sound tables, with unique rows and exclusive keys (exclusion
alone is not inductive: a transfer supersedes the receiver's rows of the same key,
which removes all of them only if there is one); the tables whose collisions were in the old
one; the tables that hold every working lease of the old one. The two properties of the
queue need more than closure. `Handed` is the invariant of the walk `_grant_queued` makes: every
request considered so far was granted or is blocked by a lease of the table built so far, and the
leases granted came from the queue in order. `Sweeping` is the invariant of the sweep over the
holders in name order, with a walk in each turn: what an earlier turn left blocked may be
freed by a later one, which then considers it again, so at the end every request is either
answered or blocked by a live lease.

**IssueLedger**, from its assumptions about the constants. A record's promises are mostly
about that record alone: `SoundRecord` is their conjunction, and none of its parts is
inductive without the others (a merge that fails makes repair work only of work that is
held; a request dies with the claim it was made of). `Inv` adds what relates two pieces of
state: a merge that is verified is in the base, and named diffs are on disk. `StepShape`
proves that any step of any operation changes what the properties read in one of four
ways: nothing passes, one issue passes or is let go, one issue comes to wait on another it does
not reach, one offer attaches a new diff. All properties follow from that shape. Acyclicity is
stated without walking: `Reaches` quantifies over closed sets of issues, and adding an edge to an
issue that does not reach back leaves a closed set that shows it. `OwnershipKept` maps the
ledger to `Ownership`: the owner, the generation (the number of claims), the pending offer as
the promise, complete work and dead lanes; each of the four shapes is a step
of `Ownership` or a stutter.

**Messaging**, from `MessagingAssumption` (bounds are numbers, the slots and repeats are
not zero, mortal lanes and senders are lanes, and the items are apart), which TLC evaluates on
its run. `MessagingInv` is the conjunction of ten component invariants, each stated in its
component's module beside its properties; TLC checked it on the same instance before it was proved.
`PartsStep` shows that a step of the sum is a step, or a stutter, of the component that
runs. The arguments, by component:

- `SlotsInv`: two counts. Requests that serve, and requests that wait, are sets whose numbers
  complement the free slots and places, also while a drain takes slots away one at a time;
  `CountChanges` says what moving one request does to a number. A replaced service has all of them, so
  no request is under way.
- `HookServiceInv`: of the threads that see a call, exactly one sees it last, so the
  recovery it owes is queued once: `queued` is a function of who answered and who abandoned.
- `DeliveryInv`: what a thread composed still fits the state it read (`ComposedFrom`,
  `LeftOf`), and it publishes only if that state stands; so batches stay apart and reach
  up to the cursor.
- `DigestsInv`: at most one sender has the current occurrence, and what it will send is
  missing from the record.
- `InboundInv`: a batch is the updates that follow the offset; memory and file agree on
  the gate unless a save failed.
- `SchedulesInv`: an occurrence's number and what is left of it make the recorded repeats.
- `MailInv`: nothing that a poll has read is pruned before it acts on it.
- `ReadingsInv`: a flight under way is the registered one.
- `MarksInv`: an assignment a person made has no mark, and no command is beyond asking.
- `ForgeReadInv`: a held claim has a number.

**Supervision**, from `SupervisionAssumption` (bounds are numbers, some are not zero, and
the names of no lane are no lane's), by the same construction: `SupervisionInv` is the
conjunction of seven component invariants, checked by TLC before they were proved. What
makes each of them inductive:

- `DeparturesInv`: what a lane in a departing pass still holds, beyond strays, is in the
  pass's list of what to release; a departed lane is stopped or dead and so takes
  nothing new; the two runners never work on the same lane.
- `OverdueInv`: the ladder, the marker and the plan of a poll name the present claim or an
  older one; a ladder past its first rung for the present claim, and a plan that does
  more than wake, follow a warning of that very claim that is a pause old.
- `OrphansInv`: a lane seen dead has died; a mark that is no recovery's was announced, or
  its notice is still in the sweep that wrote it (while no notice was lost); a
  recovery's mark names the owner and claim it marks.
- `CapacityInv`: every reading that is held or recorded is of the past and counts no more
  progress than the entry; what counts more progress than an exhausted reading made it
  after that reading was taken, so an exhausted reading that is overtaken is never republished.
- `QuiesceInv`: an approval found was given for its process, and a pass carries the claim
  and process of such an approval from `Begin` to `Finish`; once it has captured, the
  claim's last capture followed the stop of that process.
- `TakeoversInv`: marks are never reused, so the fence about to be written is none
  of the published ones; the fence in force, when published, is that of the last take.
- `AttemptsInv`: nothing under way or recorded is ahead of the repositories, and no
  attempt is under way on a pair that was decided, so no pair is decided twice.

**Integration**, from `IntegrationAssumption` (bounds are numbers, some are not zero, sets of
actors are finite, and the names of no lane and no taker are no lane's), again by the same
construction: `IntegrationIsSound` proves `IntegrationInv`, the conjunction of eleven
component invariants, each stated beside its component's properties and checked by TLC
before it was proved. For each component there are three kinds of lemma: `...Initially`;
`...Step` and `...Stay`, together `...Keep`, which also carry the action properties; and
`...SaySo`, from the invariant to the properties. The parts of the invariants:

- `IntegrationsInv`: an owed base is on record or covered by what the running integration
  holds (`OwedIsRecorded`, `HeldCovers`), also between a merge and its record; an integration
  past its merge contains the tip it merged (`MergedIsContained`), and a completed one owes
  nothing. A decision answers what was there (`DecisionsArePast`), so one that answers
  the present work was made after it.
- `BulkInv`: merged is a prefix of the confirmed sequence (`MergedArePrefix`), and of a
  predicted sequence the rest conflicts neither with the base nor with itself (`CleanAhead`),
  which is what makes the next merge clean.
- `PlanRevisionsInv`: one revision is marked at a time and is open; what landed was accepted
  and what is written has landed, with the crash between the two files; the edges
  lanes decided on their own are counted, those of the revision under way one ahead of the
  file (`AutomaticAreCounted`, `FlipsAreCounted`).
- `DecisionsInv`, `FollowupsInv`: a grave answer on its way to the record was confirmed for its
  occurrence; while no doubt is recorded, one of the two ways files and the suggestion says so
  (`OneFiles`, `FilingIsMarked`).
- `WakesInv`: while nothing changes, the row on disk is about this backlog and counts at
  least the prompts of the present streak (`RowCountsTheStreak`), so the delay before the next
  one is that of a count no smaller. `DelaysGrow` is the lemma about the delays: the
  doubling is a recursive function, and `Doublings` and `SetInduction` show what it returns.
- `WorkOffersInv`: in a round, two lanes led to one issue leave no issue without a lane
  (`RoundIsSpread`), because each pick is the least led to of what is free.
- `PullRequestsInv`: what is saved was told, what was told or asked was read, in this poll or in
  one that was cut before it saved; rounds are counted by heads.
- `CatalogInv`: `closedSince` and `touched` keep what happened while a request was under way,
  so what a whole answer lacks was closed or was touched since (`UnlistedWereClosed`).
- `ProblemsInv`: the shapes of a lane's record, and that nothing is retired with work. That
  every waiting lane has its rows, and which rows the service may touch, follows from how the
  list is walked: `ListedRows` and `RowsLeftToService`, both about `Iterate`.
- `BlueprintsInv`: the record and the walk's copy each agree with what was sent and judged;
  the copy is ahead of the record only by what a cut would lose, never by a node that passed.
  `WalkPasses`, `WalkFails`, `WalkWaits`, `WalkIsOver`, `WalkGoesOn` and `WalkGoesBack` say what
  each turn of a walk does to such a copy.

**Model-checked only.** Liveness (`LapsedHoldersGiveWay`, `SatisfiedBlockersClear`,
`EverythingSettles`, `PollsGetThere`): fairness and `ENABLED` are out of the prover's
reach. The run `Records` (`TypeOK`, `WorkIsKept`, `RecordsAreTrue`, `RecordsMoveForAReason`):
nothing in its modules is recursive and no prover stands in the way; the invariants that
make its components inductive have not been written.

## 6. Not modelled

The command line's, the dashboard's and the histories' readings and wording; the adapters
that parse what providers print, and the handling of their processes; settings, roster,
archive and attachment files as files; the demo. Of what is modelled: the parsing of paths
(`Overlap`), of shell words (`LaneRecords` starts from the kinds of command the rules tell
apart), of blueprints, and of native session records; ranking of work; sockets and the wire
protocol; which process belongs to a lane, which is an input; parking in `quota.py`; and
whatever `PROJECT.json` notes at its component.

## 7. Seen while modelling

Three runs end in a violation, each of something the repository says of itself:

- `ReservationsFold`: `docs/coordination.md:376` says that in a checkout that ignores case
  `README.md` and `readme.md` overlap. `_reclaim`, `renew_reservations`,
  `release_dead_holder` and `_retire` hand keys on with exact comparison, so a queued
  request for one spelling is granted while another lane holds the other exclusively.
- `PoolDiscards`: `pool.py:128` says a spare holds no work, `pool.py:194` that a tree at a
  lane's path is left in place. A fill forgets a slot it failed to prepare under the lock and
  discards it after (`pool.py:290`, and a dropped slot at `250`); in between another fill makes
  the slot again and a lane takes it, or a lane is admitted again at its old path
  (`core.py:745`), and the late discard removes that lane's worktree with force.
- `ForcedSweeps`: `docs/commands.md:105` and `reclaim.py:856` say ignored files are kept
  even with `--force`. The verdict tests for uncommitted files first (`reclaim.py:872`), and
  those may be forced, ignored files and all.

The rest was read in the code, and most of it met in a model, but is outside what
the passing properties say. Lines are of `src/agent_parley/`.

Reservations

- A bearer credential is resolved (`server.py:887`) before the tool's transaction
  (`store.py:3460`): a call in flight while its lane is revoked queues a request nobody
  answers, where `docs/architecture.md:1145` says revocation expires the lane's requests.
- After such a request, when the lane registers again, it is unblocked and yet not
  considered until an overlapping key is released.
- `renew_reservations` (`store.py:5953`) says every claim the lane owns keeps its leases. The
  claims are read (`5969`) before the transaction opens: a lane that takes an orphaned claim
  and its leases in between (`ReadOwned`, `TakeOrphaned`, `MoveReservations`, `Renew`) has
  the expired ones released by its own renewal.
- In `Reservations`, handoffs are an exception to exclusion of overlapping keys that the code
  makes on purpose: the transfer moves leases without asking for conflicts, so the giver
  may keep a key that overlaps what it gave. `OnlyHandoffsOverlap` says nothing else does.

Issue ledger

- `reminders` (`supervision.py:3893`) addresses whoever holds the issue under the lock
  for a close that was read before it; `issues.py:213` says the close was after the claim.
- `completion_escalations` (`supervision.py:6790`) drops the marker while the forge backs
  off; `supervision.py:3994` says a failed reading keeps every marker.
- An owner can offer an issue while a request is pending; `authorize` (`issues.py:1329`)
  writes over the offer without `lifecycle.drop_offer`, and its diff stays on disk.
- `expire_offers` (`supervision.py:4554`) reads overdue offers before the lock and cancels by
  issue, so it may cancel a newer offer that has no deadline.
- `docs/operations.md:614` names an old ledger or a lowered cap as the ways to exceed the
  cap; a ready claim is not counted (`lifecycle.py:591`) and can come back as work.
- `operator_blocked` says the other issue's completion resumes the claim; it does so only
  through the edge, which `issue unblock` may have removed.

Mail, schedules, notices

- Two scheduled offers of one issue to one recipient both count as delivered
  (`supervision.py:8165`).
- A hand-off records the reason to poll or to be woken once (`waits.py:296`): a wake turned off
  later leaves the lane waiting, mail that comes between its peek (`292`) and its record is not
  told, and `woke` may mark a newer hand-off.
- `settle`'s key is the same for every occurrence of a decision (`inbound.py:826`); `decide`
  reads the nonce without the lock (`inbound.py:812`); the flush goes by identifier
  (`decisions.py:863`).
- Mail of a claim that ended is withdrawn after the ledger's lock is released
  (`store.py:4132`): a lane may read it, or be told of it, in between.
- A call whose key is no longer among the 500 retained is a first call again, as
  `store.py:4195` says; `Limits` forgets the effect with the key.
- A report's key is remembered before its metrics, its relay and its forge comment
  (`reports.py:308`), so a crash between loses them.

Readings

- The poll's refresh and a background flight both write `_READINGS`
  (`supervision.py:1340`, `1509`); the older may come last.
- A thread that does not start leaves its flight registered (`supervision.py:1467`):
  an expired reading is then renewed by the poll only.
- When the issue cannot be read, the branch ends every claim of the lane
  (`supervision.py:6808`).
- A claim between the sweep's snapshot and its unassign loses the new claim's assignee
  (`supervision.py:6981`); a crash between assign and mark leaves an unmarked assignee
  (`claims.py:337`); a person who assigns between the question and the assignment is marked.
- A transferred issue stays listed until the next full reading; a truncated listing
  ends nothing (`supervision.py:7088`).
- A new connection may take a slot before a call that waits to have its own back.

Supervision

- The ladder's reads and writes are by issue, not by claim (`supervision.py:5194`, `5239`).
- Orphan notices go by a reading from before the marks (`6042`, `6238`, `6284`).
- The returns of a retirement are separate calls (`retirement.py:355`, `401`,
  `supervision.py:6366`): a crash between them leaves the rest to the next pass.
- The transition file of a recovery stays after it completed, so a later approved session
  is refused as stale evidence (`recovery.py:1309`); a pending transition of an old claim counts
  as candidate until it is pruned (`1004`).
- `activity.json` has one fence (`recovery.py:1208`): a second take overwrites the first's.
- For an unattended attempt an approval granted, a reservation released or a policy
  changed is not news (`unattended.py:771`).

Lanes and worktrees

- A crash between taking a spare and writing `project.json` leaks a worktree (`NewLanes`).
- A child's result has one key (`children.py:620`): a second report with another text after a
  crash between the message and the record is refused and never recorded; a reused name
  meets its old key; a spawn is not idempotent (`store.py:3500`).
- Files made between the judgement and `git worktree remove` are lost with it.
- `retire` unlinks `session.lock` after releasing it (`cli.py:2484`, `state.py:149`).
- A crash between two lanes of a missing root loses the record of those retired
  (`supervision.py:8480`).
- Two calls of `restore` may write an older phase over a newer (`claims.py:332`); the phase
  "index" does not look at HEAD again (`recovery.py:1867`). Prune uses a ledger read earlier
  (`supervision.py:8355`).
- `start` on a missing budget ledger begins afresh (`budgets.py:535`); a lost
  `convergence.json` restarts its count.

Integration

- The two reads of a candidate (`integration.py:401`, `406`) and the writes of completion and
  of the record (`541`, `573`) are apart; a group admitted by a preflight may stop
  half way.
- `_revoked` looks at the last 20 versions of a plan, and 100 accepted identities are kept.
- Two accepts of a follow-up file it twice when the first takes longer than
  `FILING_SECONDS` (`followups.py:474`, `552`).
- A blueprint's prompt key is the same in a second run of the issue; failures and visits since
  the last save are lost by a cut; a step that runs again with another output is refused;
  `held` is read when a walk starts only (`blueprints.py:879`).
- `_remedy` of a problem does not look at the budget of the run.
