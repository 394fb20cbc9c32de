-------------------------------- MODULE BulkMerges --------------------------------
(***************************************************************************)
(* Integrating several lanes in one run.  The operator is shown a plan and *)
(* confirms it; the run reads the lanes again under the merge lock, orders *)
(* them by what their issues wait on, predicts the conflicts of the whole  *)
(* sequence, and merges one lane after the other until one is refused.     *)
(* The lanes go on working meanwhile: each merge checks its lane again.    *)
(***************************************************************************)
EXTENDS Naturals, Sequences, FiniteSets, SequencesExt

CONSTANTS
    Mergers,        \* lanes, each with one issue of the same name
    MaxMoves        \* model bound: changes the lanes and the operator make

VARIABLES
    waitsOn,        \* blocked_by: the issues each issue still waits on
    neededBy,       \* ghost: every issue each issue ever waited on
    execution,      \* the state of each issue
    holder,         \* whether each issue is held by its lane
    tip,            \* whether the lane committed since its report
    inBase,         \* lanes whose work the base branch carries
    clashing,       \* lanes whose changes conflict with each other
    predictable,    \* whether this git can predict a merge
    leftover,       \* the lane of an integration left unverified, if any
    bulk,           \* the run
    bulkMerged,     \* ghost: lanes merged by the run
    tipsMoved,      \* ghost: a lane committed since the run's prediction
    hitConflict,    \* ghost: a merge of the run stopped on conflicts
    moves           \* model bound

bulkVars == <<waitsOn, neededBy, execution, holder, tip, inBase, clashing, predictable, leftover,
              bulk, bulkMerged, tipsMoved, hitConflict, moves>>

NoRunNow == [at |-> "none", group |-> FALSE, confirmed |-> {}, sequence |-> <<>>,
             refused |-> {}, next |-> 1]

BulkTypeOK ==
    /\ waitsOn \in [Mergers -> SUBSET Mergers] /\ neededBy \in [Mergers -> SUBSET Mergers]
    /\ execution \in [Mergers -> {"working", "ready", "recovery", "complete"}]
    /\ holder \in [Mergers -> BOOLEAN] /\ tip \in [Mergers -> {"reported", "later"}]
    /\ inBase \subseteq Mergers /\ clashing \subseteq Mergers
    /\ predictable \in BOOLEAN /\ leftover \in Mergers \cup {"none"}
    /\ bulk.at \in {"none", "planned", "running"} /\ bulk.confirmed \subseteq Mergers
    /\ bulkMerged \subseteq Mergers /\ tipsMoved \in BOOLEAN /\ hitConflict \in BOOLEAN
    /\ moves \in 0..MaxMoves

Acyclic(edges) ==
    LET Over(S) == S \cup UNION {edges[l] : l \in S}
        Reach(l) == Over(Over(edges[l]))
    IN  \A l \in Mergers : l \notin Reach(l)

BulkInit ==
    /\ \E l, k \in Mergers :
         waitsOn = [n \in Mergers |-> IF n = l /\ l # k THEN {k} ELSE {}]
    /\ neededBy = waitsOn
    /\ execution = [l \in Mergers |-> "ready"]
    /\ holder = [l \in Mergers |-> TRUE] /\ tip = [l \in Mergers |-> "reported"]
    /\ inBase = {} /\ clashing \in {S \in SUBSET Mergers : Cardinality(S) \in {0, 2}}
    /\ predictable \in BOOLEAN /\ leftover = "none"
    /\ bulk = NoRunNow /\ bulkMerged = {} /\ tipsMoved = FALSE /\ hitConflict = FALSE
    /\ moves = 0

-----------------------------------------------------------------------------
(* The lanes and the operator, at any time. *)
Moves ==
    /\ moves < MaxMoves /\ moves' = moves + 1
    /\ UNCHANGED <<inBase, clashing, predictable, bulk, bulkMerged, hitConflict>>

(* A lane commits: its ready report is of an earlier commit. *)
LaneCommitsOn(l) ==
    /\ Moves /\ holder[l] /\ execution[l] # "complete"
    /\ tip' = [tip EXCEPT ![l] = "later"] /\ tipsMoved' = (bulk.at = "running" \/ tipsMoved)
    /\ UNCHANGED <<waitsOn, neededBy, execution, holder, leftover>>

LaneReportsReady(l) ==
    /\ Moves /\ holder[l] /\ execution[l] \in {"working", "ready"}
    /\ execution' = [execution EXCEPT ![l] = "ready"] /\ tip' = [tip EXCEPT ![l] = "reported"]
    /\ UNCHANGED <<waitsOn, neededBy, holder, leftover, tipsMoved>>

LaneResumes(l) ==
    /\ Moves /\ holder[l] /\ execution[l] = "ready"
    /\ execution' = [execution EXCEPT ![l] = "working"]
    /\ UNCHANGED <<waitsOn, neededBy, holder, tip, leftover, tipsMoved>>

LaneReleases(l) ==
    /\ Moves /\ holder[l] /\ execution[l] # "complete"
    /\ holder' = [holder EXCEPT ![l] = FALSE]
    /\ execution' = [execution EXCEPT ![l] = "working"]
    /\ UNCHANGED <<waitsOn, neededBy, tip, leftover, tipsMoved>>

(* issue block: an edge that makes no cycle, on work that is not complete. *)
Block(l, k) ==
    /\ Moves /\ l # k /\ execution[l] # "complete" /\ execution[k] # "complete"
    /\ waitsOn' = [waitsOn EXCEPT ![l] = @ \cup {k}] /\ Acyclic(waitsOn')
    /\ neededBy' = [neededBy EXCEPT ![l] = @ \cup {k}]
    /\ UNCHANGED <<execution, holder, tip, leftover, tipsMoved>>

-----------------------------------------------------------------------------
(* The plan. *)

(* ready_lanes, and group_lanes, which needs every member of the group held. *)
ReadyLanes == {l \in Mergers : execution[l] = "ready" /\ holder[l]}

GroupHeld == \A l \in Mergers : holder[l]

Candidates(group) == IF group THEN Mergers ELSE ReadyLanes

(* lane_dependencies: only among the candidates. *)
LaneDependencies(lanes) == [l \in lanes |-> waitsOn[l] \cap lanes]

(* plan.order: each lane after those it waits on. *)
Orders(lanes) ==
    LET waits == LaneDependencies(lanes)
    IN  {s \in SetToSeqs(lanes) :
            \A i, j \in 1..Len(s) : s[j] \in waits[s[i]] => j < i}

(* integration_plan: what the operator is asked to confirm. *)
ShowPlan(group) ==
    /\ bulk.at = "none" /\ (group => GroupHeld)
    /\ bulk' = [NoRunNow EXCEPT !.at = "planned", !.group = group,
                                !.confirmed = Candidates(group)]
    /\ UNCHANGED <<waitsOn, neededBy, execution, holder, tip, inBase, clashing, predictable,
                   leftover, bulkMerged, tipsMoved, hitConflict, moves>>

(* The operator declines, or the run is refused as a whole. *)
NothingMerged ==
    /\ bulk.at = "planned" /\ bulk' = NoRunNow
    /\ UNCHANGED <<waitsOn, neededBy, execution, holder, tip, inBase, clashing, predictable,
                   leftover, bulkMerged, tipsMoved, hitConflict, moves>>

-----------------------------------------------------------------------------
(* The preflight, under merge.lock and setup.lock. *)

(* _confirmed_candidates: what is no longer ready is skipped, what came after the
   plan waits for the next. *)
ConfirmedCandidates(group) == Candidates(group) \cap bulk.confirmed

(* predicted_conflicts: merging the lane on the base and the lanes before it. *)
Conflicts(l, before) == l \in clashing /\ (before \cap clashing) \ {l} # {}

(* run_conflicts: each lane on those before it. *)
Predicted(s, i) == Conflicts(s[i], inBase \cup {s[j] : j \in 1..(i - 1)})

(* dependency_refusal *)
Waits(l, earlier) == waitsOn[l] \ earlier # {}

(* integration_holds: another lane's merge stands unverified. *)
HeldBack(l) == leftover \notin {"none", l}

(* merge_claim, admission_refusals and lane_refusals. *)
Refused(l, earlier) ==
    \/ ~holder[l] \/ tip[l] = "later" \/ HeldBack(l)
    \/ execution[l] # "ready" /\ ~(execution[l] = "recovery" /\ leftover = l)
    \/ execution[l] = "ready" /\ Waits(l, earlier)
    \/ Conflicts(l, inBase)

(* integrate: the sequence, who is refused in it, and whether it conflicts. *)
Preflight ==
    /\ bulk.at = "planned"
    /\ (bulk.group => (GroupHeld /\ Candidates(TRUE) \subseteq bulk.confirmed))
    /\ \E s \in Orders(ConfirmedCandidates(bulk.group)) :
         LET refused == {s[i] : i \in {k \in DOMAIN s :
                            Refused(s[k], {s[j] : j \in 1..(k - 1)})}}
         IN  /\ (predictable => \A i \in DOMAIN s : ~Predicted(s, i))
             /\ (bulk.group => refused = {})
             /\ bulk' = [bulk EXCEPT !.at = "running", !.sequence = s, !.refused = refused]
    /\ bulkMerged' = {} /\ tipsMoved' = FALSE /\ hitConflict' = FALSE
    /\ UNCHANGED <<waitsOn, neededBy, execution, holder, tip, inBase, clashing, predictable,
                   leftover, moves>>

-----------------------------------------------------------------------------
(* The run. *)
Lane == bulk.sequence[bulk.next]
Running == bulk.at = "running" /\ bulk.next <= Len(bulk.sequence)

(* _integrate_sequence: the run stops at the first lane that does not merge. *)
GoOn(merged) ==
    bulk' = IF merged THEN [bulk EXCEPT !.next = @ + 1] ELSE NoRunNow

(* _integrate_lane: the lane's claim, report and dependencies as they are now. *)
Admitted(l) ==
    /\ holder[l] /\ tip[l] = "reported" /\ ~HeldBack(l)
    /\ \/ execution[l] = "ready" /\ ~Waits(l, {})
       \/ execution[l] = "recovery" /\ leftover = l

RefuseLane ==
    /\ Running /\ (Lane \in bulk.refused \/ ~Admitted(Lane))
    /\ GoOn(FALSE)
    /\ UNCHANGED <<waitsOn, neededBy, execution, holder, tip, inBase, clashing, predictable,
                   leftover, bulkMerged, tipsMoved, hitConflict, moves>>

(* merge_branch stops on conflicts, here told by the prediction before it. *)
ConflictAtMerge ==
    /\ Running /\ Lane \notin bulk.refused /\ Admitted(Lane) /\ Conflicts(Lane, inBase)
    /\ GoOn(FALSE) /\ hitConflict' = TRUE
    /\ UNCHANGED <<waitsOn, neededBy, execution, holder, tip, inBase, clashing, predictable,
                   leftover, bulkMerged, tipsMoved, moves>>

(* The merge is made; its gate passes and the work is recorded complete, which
   frees what waits on it. *)
MergeLane ==
    /\ Running /\ Lane \notin bulk.refused /\ Admitted(Lane) /\ ~Conflicts(Lane, inBase)
    /\ inBase' = inBase \cup {Lane} /\ bulkMerged' = bulkMerged \cup {Lane}
    /\ execution' = [execution EXCEPT ![Lane] = "complete"]
    /\ holder' = [holder EXCEPT ![Lane] = FALSE]
    /\ waitsOn' = [l \in Mergers |-> waitsOn[l] \ {Lane}]
    /\ leftover' = "none"
    /\ GoOn(TRUE)
    /\ UNCHANGED <<neededBy, tip, clashing, predictable, tipsMoved, hitConflict, moves>>

(* Or its gate fails: the work goes back to its lane and the record stays. *)
GateFailsLane ==
    /\ Running /\ Lane \notin bulk.refused /\ Admitted(Lane) /\ ~Conflicts(Lane, inBase)
    /\ inBase' = inBase \cup {Lane}
    /\ execution' = [execution EXCEPT ![Lane] = "recovery"]
    /\ leftover' = Lane
    /\ GoOn(FALSE)
    /\ UNCHANGED <<waitsOn, neededBy, holder, tip, clashing, predictable, bulkMerged, tipsMoved,
                   hitConflict, moves>>

RunEnds ==
    /\ bulk.at = "running" /\ bulk.next > Len(bulk.sequence) /\ bulk' = NoRunNow
    /\ UNCHANGED <<waitsOn, neededBy, execution, holder, tip, inBase, clashing, predictable,
                   leftover, bulkMerged, tipsMoved, hitConflict, moves>>

BulkNext ==
    \/ \E l \in Mergers :
         \/ LaneCommitsOn(l) \/ LaneReportsReady(l) \/ LaneResumes(l) \/ LaneReleases(l)
         \/ \E k \in Mergers : Block(l, k)
    \/ \E g \in BOOLEAN : ShowPlan(g)
    \/ NothingMerged \/ Preflight \/ RefuseLane \/ ConflictAtMerge \/ MergeLane
    \/ GateFailsLane \/ RunEnds

BulkSpec == BulkInit /\ [][BulkNext]_bulkVars

-----------------------------------------------------------------------------
(* Work is recorded complete only after everything it ever waited on was, also what
   it came to wait on while the run was under way. *)
PrerequisitesMergeFirst ==
    \A l \in Mergers : execution[l] = "complete" =>
        \A k \in neededBy[l] : execution[k] = "complete"

(* A run merges only lanes the operator saw in the plan, whatever became ready
   before it started. *)
UnconfirmedLanesStayOut ==
    bulk.at = "running" => bulkMerged \subseteq bulk.confirmed

(* What a run merged is a beginning of its sequence: nothing is merged past a lane
   that was refused or failed. *)
MergedArePrefix ==
    bulk.at = "running" => bulkMerged = {bulk.sequence[i] : i \in 1..(bulk.next - 1)}

(* A run whose conflicts could be predicted meets none, unless a lane committed
   meanwhile: the prediction of each lane counts the lanes merged before it. *)
PredictedRunsMergeCleanly ==
    hitConflict => ~predictable \/ tipsMoved
-----------------------------------------------------------------------------
(* What makes them inductive. *)
BulkRuns == [at : {"none", "planned", "running"}, group : BOOLEAN, confirmed : SUBSET Mergers,
         sequence : Seq(Mergers), refused : SUBSET Mergers, next : Nat \ {0}]

BulkShape == bulk \in BulkRuns
LanesShape ==
    /\ waitsOn \in [Mergers -> SUBSET Mergers] /\ neededBy \in [Mergers -> SUBSET Mergers]
    /\ holder \in [Mergers -> BOOLEAN] /\ tip \in [Mergers -> {"reported", "later"}]
ExecutionShape == execution \in [Mergers -> {"working", "ready", "recovery", "complete"}]
OthersShape ==
    /\ inBase \subseteq Mergers /\ clashing \subseteq Mergers
    /\ predictable \in BOOLEAN /\ leftover \in Mergers \cup {"none"}
    /\ bulkMerged \subseteq Mergers /\ tipsMoved \in BOOLEAN /\ hitConflict \in BOOLEAN
    /\ moves \in 0..MaxMoves

(* What an issue no longer waits on is complete, and none waits on itself. *)
WaitsEndInCompletion ==
    \A l \in Mergers : \A k \in neededBy[l] :
        k # l /\ (k \in waitsOn[l] \/ execution[k] = "complete")

SequenceWasConfirmed ==
    /\ bulk.at = "planned" => bulk.next = 1
    /\ bulk.at = "running" =>
          /\ bulk.next <= Len(bulk.sequence) + 1
          /\ \A i \in 1..Len(bulk.sequence) : bulk.sequence[i] \in bulk.confirmed

(* A lane in recovery holds the others back, so a run reaches one only alone. *)
RecoveryRunsAlone ==
    bulk.at = "running" =>
        \A i \in bulk.next..Len(bulk.sequence) :
            execution[bulk.sequence[i]] = "recovery" => Mergers = {bulk.sequence[i]}

(* The rest of a predicted sequence conflicts neither with the base nor with itself. *)
CleanAhead ==
    bulk.at = "running" /\ predictable =>
        \A i \in bulk.next..Len(bulk.sequence) : bulk.sequence[i] \in clashing =>
            /\ inBase \cap clashing \subseteq {bulk.sequence[i]}
            /\ \A j \in bulk.next..(i - 1) :
                  bulk.sequence[j] \in clashing => bulk.sequence[j] = bulk.sequence[i]

BulkInv ==
    /\ BulkShape /\ LanesShape /\ ExecutionShape /\ OthersShape
    /\ PrerequisitesMergeFirst /\ WaitsEndInCompletion /\ SequenceWasConfirmed
    /\ MergedArePrefix /\ RecoveryRunsAlone /\ CleanAhead /\ PredictedRunsMergeCleanly
================================================================================
