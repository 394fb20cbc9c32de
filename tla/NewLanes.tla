------------------------------ MODULE NewLanes ------------------------------
(***************************************************************************)
(* Where lanes come from: the pool of worktrees kept ready for them, and   *)
(* the child lanes that lanes ask for.                                     *)
(* The parts share no state: each has its own Init and Next.               *)
(***************************************************************************)
EXTENDS Naturals, FiniteSets

(***************************************************************************)
(* The pool of prepared worktrees new lanes take.  Fills and sweeps are    *)
(* processes of their own: each reads the manifest, plans under the pool's *)
(* lock, and removes and prepares worktrees after giving it up, so others  *)
(* fill and lanes are added meanwhile and any of them may be killed.  A    *)
(* worktree is its slot, spare.1, spare.2, ...                             *)
(***************************************************************************)

CONSTANTS
    Fillers,        \* processes that fill or sweep the pool
    PoolLanes,      \* participant names
    Slots,          \* a model bound on the slots: 1..n
    PoolSize,       \* the configured number of spares
    MaxBase,        \* model bound: times the project's base advances
    MaxPoolEvents   \* model bound: fills and sweeps begun, kills, lanes that leave

VARIABLES
    base,           \* the project's base commit
    entry,          \* the spare record: per slot, its state, base and filler
    spareTree,           \* the worktree of a slot: none, or the commit it was cut from
    poolLane,           \* per participant: its worktree's slot, whether it is live or retired
    filler,         \* per process: where it is and what it planned
    admission,      \* under the setup lock: a new lane, its spare, and what take removes
    poolEvents      \* model bound

poolVars == <<base, entry, spareTree, poolLane, filler, admission, poolEvents>>

NoSlot == 0
NoTree == MaxBase + 1
NoEntry == [state |-> "none", base |-> 0, by |-> "nobody"]
Names == Fillers \cup {"nobody"}
NoPlan == [stage |-> "idle", base |-> 0, claimed |-> {}, drop |-> {}, prepare |-> {}, made |-> {}]
NoAdmission == [lane |-> "nobody", slot |-> NoSlot, drop |-> {}]

PoolTypeOK ==
    /\ base \in 0..MaxBase
    /\ entry \in [Slots -> [state : {"none", "preparing", "ready", "stale"}, base : 0..MaxBase, by : Names]]
    /\ spareTree \in [Slots -> 0..NoTree]
    /\ poolLane \in [PoolLanes -> [slot : Slots \cup {NoSlot}, status : {"none", "live", "retired"}]]
    /\ filler \in [Fillers -> [stage : {"idle", "fill", "sweep", "work"}, base : 0..MaxBase,
                               claimed : SUBSET Slots, drop : SUBSET Slots, prepare : SUBSET Slots, made : SUBSET Slots]]
    /\ admission \in [lane : PoolLanes \cup {"nobody"}, slot : Slots \cup {NoSlot}, drop : SUBSET Slots]
    /\ poolEvents \in 0..MaxPoolEvents

PoolInit ==
    /\ base = 0 /\ entry = [s \in Slots |-> NoEntry] /\ spareTree = [s \in Slots |-> NoTree]
    /\ poolLane = [l \in PoolLanes |-> [slot |-> NoSlot, status |-> "none"]]
    /\ filler = [f \in Fillers |-> NoPlan] /\ admission = NoAdmission /\ poolEvents = 0

(* lanes: the worktrees participants record, the retired ones too. *)
Claimed == {poolLane[l].slot : l \in PoolLanes} \ {NoSlot}

Event == poolEvents < MaxPoolEvents /\ poolEvents' = poolEvents + 1
Working(f) == filler[f].stage # "idle"
Recorded == {s \in Slots : entry[s].state # "none"}

(* state: a spare is being prepared while its process lives, ready while it is on the
   base the reader knows and on disk, and stale otherwise. *)
Preparing(s) == entry[s].state = "preparing" /\ entry[s].by \in {f \in Fillers : Working(f)}
Ready(s, b) == entry[s].state = "ready" /\ entry[s].base = b /\ spareTree[s] # NoTree

-----------------------------------------------------------------------------
(* The base checkout moves on; a lane leaves, its worktree with it or not; somebody
   checks something else out in a spare. *)
BaseAdvances ==
    /\ base < MaxBase /\ base' = base + 1
    /\ UNCHANGED <<entry, spareTree, poolLane, filler, admission, poolEvents>>

Leaves(l) ==
    /\ poolLane[l].status = "live" /\ admission = NoAdmission /\ Event
    /\ poolLane' = [poolLane EXCEPT ![l].status = "retired"]
    /\ \/ spareTree' = [spareTree EXCEPT ![poolLane[l].slot] = NoTree]
       \/ UNCHANGED spareTree
    /\ UNCHANGED <<base, entry, filler, admission>>

SpareMoves(s) ==
    /\ entry[s].state = "ready" /\ s \notin Claimed /\ spareTree[s] # NoTree /\ Event
    /\ \E b \in (0..MaxBase) \ {spareTree[s]} : spareTree' = [spareTree EXCEPT ![s] = b]
    /\ UNCHANGED <<base, entry, poolLane, filler, admission>>

(* A process begins with the manifest as it is then. *)
BeginPool(f, kind) ==
    /\ ~Working(f) /\ Event
    /\ filler' = [filler EXCEPT ![f] = [NoPlan EXCEPT !.stage = kind, !.base = base, !.claimed = Claimed]]
    /\ UNCHANGED <<base, entry, spareTree, poolLane, admission>>

(* The record keeps what is being prepared and as many ready ones as are wanted. *)
KeptBy(f, kept) ==
    LET mine == Recorded \ filler[f].claimed
        busy == {s \in mine : Preparing(s)}
        good == {s \in mine : Ready(s, filler[f].base)}
    IN  /\ kept \subseteq busy \cup good /\ busy \subseteq kept
        /\ good \subseteq kept \/ Cardinality(kept) >= PoolSize
        /\ kept # busy => Cardinality(kept) <= PoolSize

Missing(kept) == IF Cardinality(kept) < PoolSize THEN PoolSize - Cardinality(kept) ELSE 0

(* _slot: the first slots that are neither recorded, claimed nor on disk. *)
FreeSlots(f, kept) == {s \in Slots : s \notin kept \cup filler[f].claimed /\ spareTree[s] = NoTree}

FirstOf(set, n) == {s \in set : Cardinality({t \in set : t < s}) < n}

(* fill, under the pool's lock: the new spares are recorded before they exist. *)
PlanFill(f, kept) ==
    LET wanted == FirstOf(FreeSlots(f, kept), Missing(kept))
    IN  /\ filler[f].stage = "fill" /\ KeptBy(f, kept)
        /\ Cardinality(FreeSlots(f, kept)) >= Missing(kept)
        /\ entry' = [s \in Slots |->
              IF s \in wanted THEN [state |-> "preparing", base |-> filler[f].base, by |-> f]
              ELSE IF s \in kept THEN entry[s] ELSE NoEntry]
        /\ filler' = [filler EXCEPT ![f].stage = "work", ![f].prepare = wanted, ![f].claimed = {},
                         ![f].drop = Recorded \ (kept \cup filler[f].claimed)]
        /\ UNCHANGED <<base, spareTree, poolLane, admission, poolEvents>>

(* sweep: the same judgement for "gc", which adds none. *)
PlanSweep(f, kept) ==
    /\ filler[f].stage = "sweep" /\ KeptBy(f, kept)
    /\ entry' = [s \in Slots |-> IF s \in kept THEN entry[s] ELSE NoEntry]
    /\ filler' = [filler EXCEPT ![f].stage = "work", ![f].claimed = {},
                     ![f].drop = Recorded \ (kept \cup filler[f].claimed)]
    /\ UNCHANGED <<base, spareTree, poolLane, admission, poolEvents>>

(* discard: the worktree goes by force, with whatever is in it, or Git refuses. *)
Discarded(s) == spareTree' \in {spareTree, [spareTree EXCEPT ![s] = NoTree]}

(* The spares dropped are discarded after the lock was given up. *)
Discard(f, s) ==
    /\ filler[f].stage = "work" /\ s \in filler[f].drop
    /\ Discarded(s)
    /\ filler' = [filler EXCEPT ![f].drop = @ \ {s}]
    /\ UNCHANGED <<base, entry, poolLane, admission, poolEvents>>

Prepares(f, s) == filler[f].stage = "work" /\ filler[f].drop = {} /\ s \in filler[f].prepare

(* git worktree add and the initialize commands; then the entry is settled. *)
AddTree(f, s) ==
    /\ Prepares(f, s) /\ spareTree[s] = NoTree /\ spareTree' = [spareTree EXCEPT ![s] = filler[f].base]
    /\ filler' = [filler EXCEPT ![f].made = {s}]
    /\ UNCHANGED <<base, entry, poolLane, admission, poolEvents>>

SettleEntry(f, s) ==
    /\ Prepares(f, s) /\ s \in filler[f].made
    /\ entry' = [entry EXCEPT ![s] = IF @.state = "none" THEN @ ELSE [@ EXCEPT !.state = "ready", !.by = "nobody"]]
    /\ filler' = [filler EXCEPT ![f].prepare = @ \ {s}, ![f].made = {}]
    /\ UNCHANGED <<base, spareTree, poolLane, admission, poolEvents>>

(* Preparing failed, perhaps because the path is no longer free: the entry goes, and
   whatever worktree is there is discarded next, without the lock. *)
FailEntry(f, s) ==
    /\ Prepares(f, s)
    /\ IF spareTree[s] # NoTree /\ s \notin filler[f].made THEN UNCHANGED poolEvents ELSE Event
    /\ entry' = [entry EXCEPT ![s] = NoEntry]
    /\ filler' = [filler EXCEPT ![f].prepare = @ \ {s}, ![f].made = {}, ![f].drop = {s}]
    /\ UNCHANGED <<base, spareTree, poolLane, admission>>

EndPool(f) ==
    /\ filler[f].stage = "work" /\ filler[f].drop = {} /\ filler[f].prepare = {}
    /\ filler' = [filler EXCEPT ![f] = NoPlan]
    /\ UNCHANGED <<base, entry, spareTree, poolLane, admission, poolEvents>>

KillPool(f) ==
    /\ Working(f) /\ Event /\ filler' = [filler EXCEPT ![f] = NoPlan]
    /\ UNCHANGED <<base, entry, spareTree, poolLane, admission>>

-----------------------------------------------------------------------------
(* take: not the worktree of a lane, and still where it was cut; one that moved is
   removed, and one that is a lane's leaves the record. *)
Takeable(s) == s \notin Claimed /\ Ready(s, base) /\ spareTree[s] = base
MovedOff == {s \in Slots \ Claimed : Ready(s, base) /\ spareTree[s] # base}

(* add_participant, under the setup lock: the record is read up to the spare that is
   chosen, or to its end when none is, and the lane then has a place of its own. *)
Take(l, s, passed) ==
    /\ admission = NoAdmission /\ poolLane[l].status = "none"
    /\ passed \subseteq MovedOff \cup (Recorded \cap Claimed)
    /\ \/ s # NoSlot /\ Takeable(s)
       \/ /\ s = NoSlot /\ \A t \in Slots : ~Takeable(t)
          /\ passed = MovedOff \cup (Recorded \cap Claimed)
    /\ entry' = [t \in Slots |-> IF t = s \/ t \in passed THEN NoEntry ELSE entry[t]]
    /\ admission' = [lane |-> l, slot |-> s, drop |-> passed \ Claimed]
    /\ UNCHANGED <<base, spareTree, poolLane, filler, poolEvents>>

RemoveMoved(s) ==
    /\ s \in admission.drop /\ Discarded(s)
    /\ admission' = [admission EXCEPT !.drop = @ \ {s}]
    /\ UNCHANGED <<base, entry, poolLane, filler, poolEvents>>

(* The spare's branch gets the lane's name, and project.json the lane. *)
Taken(s) == admission.lane # "nobody" /\ admission.drop = {} /\ admission.slot = s

AddLane(s) ==
    /\ Taken(s) /\ admission' = NoAdmission
    /\ poolLane' = [poolLane EXCEPT ![admission.lane] = [slot |-> s, status |-> "live"]]
    /\ UNCHANGED <<base, entry, spareTree, filler, poolEvents>>

(* Without a spare, or when its branch cannot be renamed, the pool has no part in it. *)
AddOutside(s) ==
    /\ Taken(s) /\ admission' = NoAdmission
    /\ IF s = NoSlot THEN UNCHANGED spareTree ELSE Discarded(s)
    /\ UNCHANGED <<base, entry, poolLane, filler, poolEvents>>

AdmissionDies ==
    /\ admission # NoAdmission /\ Event /\ admission' = NoAdmission
    /\ UNCHANGED <<base, entry, spareTree, poolLane, filler>>

(* _readmit: a worktree there now must not be another's. *)
MayReadmit(l) ==
    spareTree[poolLane[l].slot] # NoTree =>
        /\ poolLane[l].slot \notin Recorded
        /\ \A other \in PoolLanes \ {l} : poolLane[other].slot # poolLane[l].slot

Readmit(l) ==
    /\ poolLane[l].status = "retired" /\ admission = NoAdmission /\ MayReadmit(l)
    /\ poolLane' = [poolLane EXCEPT ![l].status = "live"]
    /\ spareTree' = [spareTree EXCEPT ![poolLane[l].slot] = IF @ = NoTree THEN base ELSE @]
    /\ UNCHANGED <<base, entry, filler, admission, poolEvents>>

PoolNext ==
    \/ BaseAdvances \/ AdmissionDies \/ AddOutside(NoSlot)
    \/ \E s \in Slots : SpareMoves(s) \/ RemoveMoved(s) \/ AddLane(s) \/ AddOutside(s)
    \/ \E l \in PoolLanes :
          \/ Leaves(l) \/ Readmit(l)
          \/ \E s \in Slots \cup {NoSlot}, passed \in SUBSET Slots : Take(l, s, passed)
    \/ \E f \in Fillers :
          \/ BeginPool(f, "fill") \/ BeginPool(f, "sweep") \/ EndPool(f) \/ KillPool(f)
          \/ \E kept \in SUBSET Slots : PlanFill(f, kept) \/ PlanSweep(f, kept)
          \/ \E s \in Slots : Discard(f, s) \/ AddTree(f, s) \/ SettleEntry(f, s) \/ FailEntry(f, s)

PoolSpec == PoolInit /\ [][PoolNext]_poolVars

-----------------------------------------------------------------------------
(* No two participants work in one worktree, whatever fills planned from an older
   manifest while lanes were added, left and came back. *)
OneLanePerTree ==
    \A l, k \in PoolLanes : l # k /\ poolLane[l].slot = poolLane[k].slot => poolLane[l].slot = NoSlot

(* What pool.py:128 and 194 say: a spare holds no work and may go by force, and a
   worktree at a lane's path is the lane's and is left in place.  No fill, sweep or
   admission removes the worktree of a lane that works in it. *)
LiveLanesKeepTheirTree ==
    \A l \in PoolLanes : poolLane[l].status = "live" => spareTree[poolLane[l].slot] # NoTree

(* However many processes fill at once, no more spares are prepared than wanted. *)
PoolKeepsItsSize ==
    Cardinality({s \in Slots : entry[s].state = "ready" \/ Preparing(s)}) <= PoolSize

-----------------------------------------------------------------------------
(***************************************************************************)
(* Child lanes: a lane asks for one, it is given a worktree and registered *)
(* under the setup lock, launched after the lock is given up, and its      *)
(* first ready or blocked report is relayed to the parent once.  Any       *)
(* process may die between two steps; a child may be retired, deleted and  *)
(* its name used again.  One parent; a report's text is a number.          *)
(***************************************************************************)

CONSTANTS
    ChildNames,     \* the parent's child names, in the order they are tried: 1..n
    MaxPerParent,
    Texts,          \* what a child may report
    MaxSpawns,      \* model bound: spawns
    MaxDeaths       \* model bound: processes that die, lanes that leave

VARIABLES
    child,          \* per name: its registration
    left,           \* names whose worktree or branch is there without a registration
    key,            \* the message kept under "child-result-<name>"; NoText is none
    toldParent,           \* ghost: result messages of this registration
    job,            \* who holds the setup lock, and at which step
    launches,      \* spawn calls that have yet to launch
    spawns,         \* model bound
    deaths          \* model bound

childVars == <<child, left, key, toldParent, job, launches, spawns, deaths>>

NoText == 0
NoChild == [state |-> "none", result |-> FALSE]
NoJob == [at |-> "free", name |-> 0, text |-> NoText]

ChildrenTypeOK ==
    /\ child \in [ChildNames -> [state : {"none", "registered", "launched", "retired"}, result : BOOLEAN]]
    /\ left \in SUBSET ChildNames /\ key \in [ChildNames -> Texts \cup {NoText}]
    /\ toldParent \in [ChildNames -> 0..2]
    /\ job \in [at : {"free", "chosen", "made", "speak", "write"}, name : ChildNames \cup {0},
                text : Texts \cup {NoText}]
    /\ launches \in SUBSET ChildNames /\ spawns \in 0..MaxSpawns /\ deaths \in 0..MaxDeaths

ChildrenInit ==
    /\ child = [n \in ChildNames |-> NoChild] /\ left = {}
    /\ key = [n \in ChildNames |-> NoText] /\ toldParent = [n \in ChildNames |-> 0]
    /\ job = NoJob /\ launches = {} /\ spawns = 0 /\ deaths = 0

Free == job.at = "free"
Registered(n) == child[n].state # "none"
Dies == deaths < MaxDeaths /\ deaths' = deaths + 1

(* live: the children that still count against the limits. *)
LiveChildren == {n \in ChildNames : child[n].state \in {"registered", "launched"} /\ ~child[n].result}

(* _slot: a name without a participant, a branch or a directory. *)
FreeName(n) == ~Registered(n) /\ n \notin left

-----------------------------------------------------------------------------
(* spawn, called by send_message: refused past the limits. *)
Spawn(n) ==
    /\ Free /\ spawns < MaxSpawns /\ spawns' = spawns + 1
    /\ Cardinality(LiveChildren) < MaxPerParent
    /\ FreeName(n) /\ \A k \in ChildNames : k < n => ~FreeName(k)
    /\ job' = [NoJob EXCEPT !.at = "chosen", !.name = n]
    /\ UNCHANGED <<child, left, key, toldParent, launches, deaths>>

(* git worktree add, then the initialize commands, which may fail. *)
MakeTree(ok) ==
    /\ job.at = "chosen" /\ left' = left \cup {job.name}
    /\ IF ok THEN job' = [job EXCEPT !.at = "made"] /\ UNCHANGED deaths ELSE job' = NoJob /\ Dies
    /\ UNCHANGED <<child, key, toldParent, launches, spawns>>

Register ==
    /\ job.at = "made" /\ job' = NoJob
    /\ child' = [child EXCEPT ![job.name] = [state |-> "registered", result |-> FALSE]]
    /\ left' = left \ {job.name} /\ toldParent' = [toldParent EXCEPT ![job.name] = 0]
    /\ launches' = launches \cup {job.name}
    /\ UNCHANGED <<key, spawns, deaths>>

(* launch, without the lock: "run" refuses a name no longer there. *)
Launch(n) ==
    /\ n \in launches /\ launches' = launches \ {n}
    /\ child' = (IF child[n].state = "registered" THEN [child EXCEPT ![n].state = "launched"] ELSE child)
    /\ UNCHANGED <<left, key, toldParent, job, spawns, deaths>>

-----------------------------------------------------------------------------
(* The parent is told before the result is recorded. *)
First == "speak"

(* deliver: a report of a child without a result; later reports go nowhere. *)
Deliver(n, text) ==
    /\ Free /\ child[n].state = "launched" /\ ~child[n].result
    /\ job' = [at |-> First, name |-> n, text |-> text]
    /\ UNCHANGED <<child, left, key, toldParent, launches, spawns, deaths>>

(* store.speak under the child's key: the message once, and nothing when it is there. *)
Speak(n, text) ==
    IF key[n] = NoText THEN toldParent' = [toldParent EXCEPT ![n] = @ + 1] /\ key' = [key EXCEPT ![n] = text]
    ELSE UNCHANGED <<toldParent, key>>

(* Another text under the key is refused, and the result is not relayed. *)
Refused == job.at = "speak" /\ key[job.name] \notin {NoText, job.text}

SpeakStep ==
    /\ job.at = "speak" /\ Speak(job.name, job.text)
    /\ job' = (IF Refused \/ First = "write" THEN NoJob ELSE [job EXCEPT !.at = "write"])
    /\ UNCHANGED <<child, left, launches, spawns, deaths>>

WriteResult ==
    /\ job.at = "write"
    /\ child' = [child EXCEPT ![job.name].result = TRUE]
    /\ job' = (IF First = "speak" THEN NoJob ELSE [job EXCEPT !.at = "speak"])
    /\ UNCHANGED <<left, key, toldParent, launches, spawns, deaths>>

-----------------------------------------------------------------------------
(* The process that holds the lock dies, or one that was about to launch. *)
JobDies ==
    /\ ~Free /\ Dies /\ job' = NoJob
    /\ UNCHANGED <<child, left, key, toldParent, launches, spawns>>

LaunchDies(n) ==
    /\ n \in launches /\ Dies /\ launches' = launches \ {n}
    /\ UNCHANGED <<child, left, key, toldParent, job, spawns>>

(* A retired child no longer counts, whether it reported or not; "run" admits it back
   without asking the limits. *)
Withdraw(n) ==
    /\ Free /\ child[n].state \in {"registered", "launched"} /\ Dies
    /\ child' = [child EXCEPT ![n].state = "retired"]
    /\ UNCHANGED <<left, key, toldParent, job, launches, spawns>>

ReadmitChild(n) ==
    /\ Free /\ child[n].state = "retired" /\ child' = [child EXCEPT ![n].state = "launched"]
    /\ UNCHANGED <<left, key, toldParent, job, launches, spawns, deaths>>

(* retire deletes the registration, and the branch when it added no commits. *)
Delete(n) ==
    /\ Free /\ Registered(n) /\ Dies
    /\ child' = [child EXCEPT ![n] = NoChild] /\ toldParent' = [toldParent EXCEPT ![n] = 0]
    /\ left' \in {left, left \cup {n}}
    /\ UNCHANGED <<key, job, launches, spawns>>

ChildrenNext ==
    \/ Register \/ SpeakStep \/ WriteResult \/ JobDies
    \/ \E ok \in BOOLEAN : MakeTree(ok)
    \/ \E n \in ChildNames :
          \/ Spawn(n) \/ Launch(n) \/ LaunchDies(n) \/ Withdraw(n) \/ ReadmitChild(n) \/ Delete(n)
          \/ \E text \in Texts : Deliver(n, text)

ChildrenSpec == ChildrenInit /\ [][ChildrenNext]_childVars

-----------------------------------------------------------------------------
(* The parent gets a child's result once: not again for its later reports, nor after a
   crash between the message and the record of it. *)
ResultsAreToldOnce == \A n \in ChildNames : toldParent[n] <= 1

(* A child stops counting by its result only when the parent has a result under that
   name, whatever died between the two writes. *)
RecordedResultsWereSent == \A n \in ChildNames : child[n].result => key[n] # NoText
=============================================================================
