------------------------------ MODULE PlanRevisions ------------------------------
(***************************************************************************)
(* Revisions of the applied plan.  A revision settles in two files: its    *)
(* edges are written to issues.json together with its identity, and the    *)
(* version it makes to plan.json, where it was first marked as applying.   *)
(* A crash may fall between any two writes; the next operation under       *)
(* plan.lock recovers first.  Each proposal changes one edge, and both     *)
(* edges together would form a cycle.                                      *)
(***************************************************************************)
EXTENDS Integers, FiniteSets

CONSTANTS
    Edges,          \* two edges, of two issues, that wait on each other's issue
    MaxAutomatic,   \* revisions the envelope lets lanes make
    MaxFlips,       \* times an edge is revised under one plan
    MaxPending,     \* open proposals
    MaxVersion,     \* model bound: plan versions
    MaxFiled        \* model bound: proposals filed

VARIABLES
    deps,       \* issues.json: the recorded edges
    landed,     \* issues.json: plan_revisions, the proposals whose edges it holds
    plan,       \* plan.json: version, accepted, automatic, flips, removed edges
    proposals,  \* plan.json: every proposal filed
    settling,   \* the operation that holds plan.lock, and where it is
    touched,    \* ghost: proposals whose ground moved after they were filed
    since,      \* ghost: revisions landed since a plan was applied
    auto        \* ghost: those of them that no operator decided

plVars == <<deps, landed, plan, proposals, settling, touched, since, auto>>

Filers == {"lane", "operator"}
Ids == [base : 1..MaxVersion, by : Filers, op : {"add", "remove"}, edge : Edges]
Open == {"pending", "escalated"}
Statuses == Open \cup {"none", "accepted", "rejected", "stale"}
Idle == [at |-> "idle"]
Unfiled == [status |-> "none", base |-> 0, applying |-> "no"]

PlanRevisionsTypeOK ==
    /\ deps \subseteq Edges /\ landed \subseteq Ids /\ plan.accepted \subseteq Ids
    /\ plan.revision \in 1..MaxVersion /\ plan.removed \subseteq Edges
    /\ \A p \in Ids : /\ proposals[p].status \in Statuses
                      /\ proposals[p].applying \in {"no", "new", "decided"}
    /\ settling.at \in {"idle", "marked", "written", "applied"}

PlanRevisionsInit ==
    /\ deps = {} /\ landed = {} /\ settling = Idle /\ touched = {}
    /\ since = {} /\ auto = {}
    /\ plan = [revision |-> 1, accepted |-> {}, automatic |-> 0, removed |-> {},
               flips |-> [e \in Edges |-> 0]]
    /\ proposals = [p \in Ids |-> Unfiled]

Filed == {p \in Ids : proposals[p].status # "none"}

-----------------------------------------------------------------------------
(* An accepted revision is a new plan version; open proposals on its issue are
   stale, and the others are carried forward to it. *)
Expired(props, revision, moved) ==
    [p \in Ids |->
        IF props[p].status \notin Open \/ props[p].base = revision THEN props[p]
        ELSE IF p.edge \in moved THEN [props[p] EXCEPT !.status = "stale"]
        ELSE [props[p] EXCEPT !.base = revision]]

Accepted(pl, p, operator) ==
    [revision |-> pl.revision + 1, accepted |-> pl.accepted \cup {p},
     removed |-> IF p.op = "add" THEN pl.removed \ {p.edge} ELSE pl.removed \cup {p.edge},
     flips |-> [pl.flips EXCEPT ![p.edge] = @ + 1],
     automatic |-> IF operator THEN pl.automatic ELSE pl.automatic + 1]

AcceptedProposals(props, p, revision) ==
    Expired([props EXCEPT ![p] = [@ EXCEPT !.status = "accepted", !.applying = "no"]],
            revision, {p.edge})

(* Decided by the operator, or by the envelope for a lane's own proposal. *)
ByOperator(p, item) == p.by = "operator" \/ item.applying = "decided"

(* A crash left at most one proposal marked: it is finished when the ledger
   holds it, and otherwise withdrawn, or left open if it was being decided. *)
Marked == {p \in Ids : proposals[p].applying # "no"}

RecoversAs(p) == p \in landed

Recover ==
    LET p == CHOOSE q \in Marked : TRUE IN
    /\ settling = Idle /\ Marked # {}
    /\ IF RecoversAs(p)
       THEN /\ plan.revision < MaxVersion
            /\ plan' = Accepted(plan, p, ByOperator(p, proposals[p]))
            /\ proposals' = AcceptedProposals(proposals, p, plan'.revision)
            /\ touched' = touched \cup {q \in Filed \ {p} : q.edge = p.edge}
       ELSE /\ proposals' = [proposals EXCEPT ![p] =
                  IF @.applying = "new" THEN Unfiled ELSE [@ EXCEPT !.applying = "no"]]
            /\ UNCHANGED <<plan, touched>>
    /\ UNCHANGED <<deps, landed, settling, since, auto>>

Ready == settling = Idle /\ Marked = {}

-----------------------------------------------------------------------------
(* A proposal written against the current version is marked before anything
   is settled; the same proposal again is only answered. *)
Propose(p) ==
    /\ p.base = plan.revision /\ plan.revision < MaxVersion
    /\ proposals[p].status = "none" /\ p \notin plan.accepted
    /\ Ready /\ Cardinality(Filed) < MaxFiled
    /\ proposals' = [proposals EXCEPT ![p] =
           [status |-> "pending", base |-> p.base, applying |-> "new"]]
    /\ settling' = [at |-> "marked", p |-> p, operator |-> p.by = "operator"]
    /\ UNCHANGED <<deps, landed, plan, touched, since, auto>>

Reject(p) ==
    /\ proposals[p].status \in Open /\ Ready
    /\ proposals' = [proposals EXCEPT ![p].status = "rejected"]
    /\ UNCHANGED <<deps, landed, plan, settling, touched, since, auto>>

(* Approval of a proposal whose version has passed makes it stale. *)
Current(p) == proposals[p].base = plan.revision

Approve(p) ==
    /\ proposals[p].status \in Open /\ Ready
    /\ IF Current(p)
       THEN /\ plan.revision < MaxVersion
            /\ proposals' = [proposals EXCEPT ![p].applying = "decided"]
            /\ settling' = [at |-> "marked", p |-> p, operator |-> TRUE]
       ELSE /\ proposals' = [proposals EXCEPT ![p].status = "stale"]
            /\ UNCHANGED settling
    /\ UNCHANGED <<deps, landed, plan, touched, since, auto>>

-----------------------------------------------------------------------------
(* Settling, under issues.lock. *)
Revised(p) == IF p.op = "add" THEN deps \cup {p.edge} ELSE deps \ {p.edge}

Revisable(p) ==
    /\ (p.op = "add") <=> (p.edge \notin deps)
    /\ Revised(p) # Edges

Contradicted(p) == plan.flips[p.edge] >= MaxFlips

(* The envelope's count of automatic revisions. *)
Held(p) == plan.automatic >= MaxAutomatic

Withdrawn(p) ==
    IF proposals[p].applying = "new" THEN Unfiled
    ELSE [proposals[p] EXCEPT !.status = "rejected", !.applying = "no"]

SettleRefused ==
    LET p == settling.p IN
    /\ settling.at = "marked" /\ ~Revisable(p)
    /\ proposals' = [proposals EXCEPT ![p] = Withdrawn(p)] /\ settling' = Idle
    /\ UNCHANGED <<deps, landed, plan, touched, since, auto>>

(* Outside the envelope a lane's proposal waits for the operator, unless too
   many already do. *)
SettleHeld ==
    LET p == settling.p
        waiting == Cardinality({q \in Ids \ {p} : proposals[q].status \in Open})
    IN  /\ settling.at = "marked" /\ Revisable(p) /\ ~settling.operator
        /\ Contradicted(p) \/ Held(p)
        /\ proposals' = [proposals EXCEPT ![p] =
               IF waiting >= MaxPending THEN Unfiled
               ELSE [@ EXCEPT !.status = IF Contradicted(p) THEN "escalated" ELSE "pending",
                              !.applying = "no"]]
        /\ settling' = Idle
        /\ UNCHANGED <<deps, landed, plan, touched, since, auto>>

SettleWrite ==
    LET p == settling.p IN
    /\ settling.at = "marked" /\ Revisable(p)
    /\ settling.operator \/ ~(Contradicted(p) \/ Held(p))
    /\ deps' = Revised(p) /\ landed' = landed \cup {p}
    /\ since' = since \cup {p}
    /\ auto' = IF settling.operator THEN auto ELSE auto \cup {p}
    /\ settling' = [settling EXCEPT !.at = "written"]
    /\ UNCHANGED <<plan, proposals, touched>>

SettleAccept ==
    LET p == settling.p IN
    /\ settling.at = "written"
    /\ plan' = Accepted(plan, p, settling.operator)
    /\ proposals' = AcceptedProposals(proposals, p, plan'.revision)
    /\ touched' = touched \cup {q \in Filed \ {p} : q.edge = p.edge}
    /\ settling' = Idle
    /\ UNCHANGED <<deps, landed, since, auto>>

Crash ==
    /\ settling # Idle /\ settling' = Idle
    /\ UNCHANGED <<deps, landed, plan, proposals, touched, since, auto>>

-----------------------------------------------------------------------------
(* A plan file is applied: the edges it names that revisions removed are
   restored only by force, and every open proposal is stale. *)
Revoked(S) == (S \ deps) \cap plan.removed

ApplyWrite(S, force) ==
    /\ plan.revision < MaxVersion
    /\ deps \cup S # Edges /\ (force \/ Revoked(S) = {}) /\ Ready
    /\ deps' = deps \cup S
    /\ settling' = [at |-> "applied", edges |-> S, added |-> S \ deps]
    /\ UNCHANGED <<landed, plan, proposals, touched, since, auto>>

ApplyRecord ==
    /\ settling.at = "applied"
    /\ plan' = [plan EXCEPT !.revision = @ + 1, !.automatic = 0,
                            !.removed = @ \ settling.added,
                            !.flips = [e \in Edges |-> 0]]
    /\ proposals' = Expired(proposals, plan'.revision, Edges)
    /\ touched' = Filed /\ since' = {} /\ auto' = {} /\ settling' = Idle
    /\ UNCHANGED <<deps, landed>>

(* issue block and unblock, and a blocker that completes. *)
HandBlock(e) ==
    /\ e \notin deps /\ deps \cup {e} # Edges /\ deps' = deps \cup {e}
    /\ UNCHANGED <<landed, plan, proposals, settling, touched, since, auto>>

HandUnblock(e) ==
    /\ e \in deps /\ deps' = deps \ {e}
    /\ UNCHANGED <<landed, plan, proposals, settling, touched, since, auto>>

PlanRevisionsNext ==
    \/ Recover \/ SettleRefused \/ SettleHeld \/ SettleWrite \/ SettleAccept \/ Crash
    \/ \E p \in Ids : Propose(p) \/ Reject(p) \/ Approve(p)
    \/ ApplyRecord \/ \E S \in SUBSET Edges, force \in BOOLEAN : ApplyWrite(S, force)
    \/ \E e \in Edges : HandBlock(e) \/ HandUnblock(e)

PlanRevisionsSpec == PlanRevisionsInit /\ [][PlanRevisionsNext]_plVars

-----------------------------------------------------------------------------
(* Between operations the two files agree: a revision is accepted exactly when
   the ledger holds its edges, whatever crash came between the writes, or it
   is still marked and the next operation settles it. *)
FilesAgreeOnRevisions ==
    settling = Idle =>
        /\ plan.accepted \subseteq landed
        /\ \A p \in landed \ plan.accepted : p \in Marked

RevisionsLandOnTheirGroundStep ==
    \A p \in landed' \ landed : p \notin touched

(* A revision lands only on the ground it was written for: no other revision
   of its issue, and no plan, came in between. *)
RevisionsLandOnTheirGround == [][RevisionsLandOnTheirGroundStep]_plVars

(* Lanes make no more revisions of one plan than its envelope gives. *)
EnvelopeBoundsLanes == Cardinality(auto) <= MaxAutomatic

LanesDoNotFlipEdgesStep ==
    \A p \in auto' \ auto :
        Cardinality({q \in since : q.edge = p.edge}) < MaxFlips

(* A lane revises an edge by itself only while that edge was revised less often than
   the bound since the window began. *)
LanesDoNotFlipEdges == [][LanesDoNotFlipEdgesStep]_plVars
-----------------------------------------------------------------------------
(* What makes them inductive. *)
Items == [status : Statuses, base : 0..MaxVersion, applying : {"no", "new", "decided"}]
Plans == [revision : 1..MaxVersion, accepted : SUBSET Ids, automatic : 0..MaxAutomatic,
          removed : SUBSET Edges, flips : [Edges -> Nat]]
Settlings == [at : {"marked", "written"}, p : Ids, operator : BOOLEAN]
Appliances == [at : {"applied"}, edges : SUBSET Edges, added : SUBSET Edges]

PlanShape == plan \in Plans
ProposalsShape == proposals \in [Ids -> Items]
SettlingShape == settling = Idle \/ settling \in Settlings \/ settling \in Appliances
OthersShape ==
    /\ deps \subseteq Edges /\ landed \subseteq Ids /\ touched \subseteq Ids
    /\ since \subseteq landed /\ auto \subseteq landed
    /\ IsFiniteSet(since) /\ IsFiniteSet(auto)

BasesArePast ==
    /\ settling # Idle => plan.revision < MaxVersion
    /\ \A p \in Ids : proposals[p].base <= plan.revision

(* What is being settled is the one proposal that is marked, and it is open. *)
OneIsMarked ==
    /\ \A p, q \in Marked : p = q
    /\ settling \in Settlings =>
          /\ settling.p \in Marked
          /\ settling.operator <=> ByOperator(settling.p, proposals[settling.p])
    /\ settling \in Appliances => Marked = {}
MarkedAreOpen == \A p \in Marked : proposals[p].status \in Open
AcceptedStay == \A p \in plan.accepted : proposals[p].status = "accepted"

(* The ledger is ahead of the plan by the marked proposal at most. *)
LandedAreAccepted == plan.accepted \subseteq landed /\ landed \ plan.accepted \subseteq Marked
WrittenHasLanded ==
    settling \in Settlings => (settling.at = "written" <=> settling.p \in landed)

TouchedAreSettled ==
    \A p \in touched : proposals[p].status \in {"accepted", "rejected", "stale"}

(* The envelope counts what landed, less the revision that is not yet recorded. *)
LanesDecided == \A p \in landed \ plan.accepted : p \in auto <=> ~ByOperator(p, proposals[p])
AutomaticAreCounted ==
    /\ Cardinality(auto) <= plan.automatic + (IF auto \subseteq plan.accepted THEN 0 ELSE 1)
    /\ plan.automatic = MaxAutomatic => auto \subseteq plan.accepted
FlipsAreCounted ==
    \A e \in Edges :
        Cardinality({q \in since : q.edge = e})
        <= plan.flips[e] + (IF \A q \in since : q.edge = e => q \in plan.accepted THEN 0 ELSE 1)

PlanRevisionsInv ==
    /\ PlanShape /\ ProposalsShape /\ SettlingShape /\ OthersShape /\ BasesArePast
    /\ OneIsMarked /\ MarkedAreOpen /\ AcceptedStay /\ LandedAreAccepted
    /\ WrittenHasLanded /\ TouchedAreSettled /\ LanesDecided /\ AutomaticAreCounted
    /\ FlipsAreCounted
================================================================================
