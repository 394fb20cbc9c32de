----------------------------- MODULE IssueLedger -----------------------------
(***************************************************************************)
(* The issue ledger of one project: who owns each issue, what its owner    *)
(* still owes, what it waits on, and every offer, request, orphan mark and *)
(* completion reminder standing on it.                                     *)
(*                                                                         *)
(* Every change of the ledger reads and rewrites issues.json under         *)
(* issues.lock, so one action is one locked change.  What is read before   *)
(* the lock and used under it is state of its own: the forge reading and   *)
(* the presence reading of a poll, the evidence of a take or of an         *)
(* operator's resolution, the claim an integration started from, the       *)
(* snapshot an offer is expired from.                                      *)
(*                                                                         *)
(* A claim identifier is the number of claims the issue has had.  An offer *)
(* or request is answered by the identifier it was given, so an answer to  *)
(* one that is gone changes nothing and is left out.  Of a time only what  *)
(* the code compares it with is kept: a reminder records the claim it was  *)
(* written in, a close of the issue the claim it fell in, a request        *)
(* whether its grace passed without progress.                              *)
(***************************************************************************)
EXTENDS Integers, FiniteSets

CONSTANTS
    Lane,         \* participants of the project
    NoLane,       \* stands for the absence of one
    Issue,        \* issue numbers the ledger may come to hold
    NoIssue,      \* stands for the absence of one
    Cap,          \* max_claims_per_lane
    MaxBlockers,  \* MAX_BLOCKERS
    Commit,       \* positive numbers: commits a lane may report ready
    Directed,     \* lanes the operator names in assignments
    Asking,       \* lanes that ask to take an issue over
    Offered,      \* lanes that are offered an issue by its owner
    Windows,      \* deadlines an offer may be given: subset of Due
    Mortal,       \* lanes whose session may die and come back
    Closing,      \* issues that may end on the forge
    Endings,      \* how they may end there: subset of Ending
    MaxClaims,    \* model bound: claims one issue may see
    MaxDiffs,     \* model bound: diffs attached to offers at once
    MaxDeaths     \* model bound: times one lane may die

Phase == {"queued", "running", "blocked", "ready", "complete", "recovery"}
Due == {"none", "running", "late"}
Ending == {"merged", "landed by another", "unmerged", "by hand"}

ASSUME ConstantsAssumption ==
    /\ NoLane \notin Lane
    /\ NoIssue \notin Issue
    /\ IsFiniteSet(Issue)
    /\ Commit \subseteq Nat \ {0}
    /\ Directed \cup Asking \cup Offered \cup Mortal \subseteq Lane
    /\ Windows \subseteq {"none", "running"}
    /\ Closing \subseteq Issue /\ Endings \subseteq Ending
    /\ {Cap, MaxBlockers, MaxClaims, MaxDiffs, MaxDeaths} \subseteq Nat

MaybeLane == Lane \cup {NoLane}
ClaimId == 0..MaxClaims    \* 0 before the first claim
Diff == 1..MaxDiffs        \* spilled diffs; 0 names none

Offer == [to : MaybeLane, source : {"peer", "operator"}, due : Due,
          diff : 0..MaxDiffs]
NoOffer == [to |-> NoLane, source |-> "peer", due |-> "none", diff |-> 0]

(* grace: whether the takeover grace is running, has passed without
   progress, or was met by progress on the claim. *)
Request == [to : MaybeLane, source : {"peer", "operator"},
            grace : {"running", "passed", "met"}]
NoRequest == [to |-> NoLane, source |-> "peer", grace |-> "running"]

(* A mark names the owner, its claim, and the death it was marked for. *)
Orphan == [of : MaybeLane, claim : ClaimId, death : 0..MaxDeaths]
NoOrphan == [of |-> NoLane, claim |-> 0, death |-> 0]

(* A completion reminder of trigger ENDED: its holder, the claim it was
   written in, whether it was answered, and whether it is still the reminder
   of the newest history entry.  Release reminders are kept as none. *)
Prompt == [to : MaybeLane, claim : ClaimId, answered : BOOLEAN,
           newest : BOOLEAN]
NoPrompt == [to |-> NoLane, claim |-> 0, answered |-> FALSE, newest |-> FALSE]

Record ==
    [owner : MaybeLane,
     claim : ClaimId,           \* claim_id
     phase : Phase,             \* execution.state
     auth : BOOLEAN,            \* execution.authorized
     commit : Commit \cup {0},  \* execution.source_commit
     resume : SUBSET Issue,     \* the issue of execution.resume_when, if any
     waits : SUBSET Issue,      \* blocked_by
     offer : Offer,
     request : Request,
     handoff : 0..MaxDiffs,     \* the diff of the accepted handoff
     orphan : Orphan,
     prompt : Prompt,           \* handoff_prompt
     escalated : ClaimId,       \* the claim of unresolved_completion, or 0
     ended : BOOLEAN,           \* ended_on_forge
     released : BOOLEAN]        \* whether the history ends in a release

Unseen ==
    [owner |-> NoLane, claim |-> 0, phase |-> "queued", auth |-> FALSE,
     commit |-> 0, resume |-> {}, waits |-> {}, offer |-> NoOffer,
     request |-> NoRequest, handoff |-> 0, orphan |-> NoOrphan,
     prompt |-> NoPrompt, escalated |-> 0, ended |-> FALSE,
     released |-> FALSE]

(* What a poll read of the forge: the claim it read an issue's end for, or 0,
   and whether a merge or a ready report lets the supervisor complete it. *)
Reading == [claim : ClaimId, by : {"nothing", "merge", "ready"}]
NoReading == [claim |-> 0, by |-> "nothing"]

(* A merge in progress, and evidence read for a take or a resolution.       *)
Merge == [issue : Issue \cup {NoIssue}, claim : ClaimId,
          commit : Commit \cup {0}, verified : BOOLEAN]
NoMerge == [issue |-> NoIssue, claim |-> 0, commit |-> 0, verified |-> FALSE]

Evidence == [issue : Issue \cup {NoIssue}, orphan : Orphan]
NoEvidence == [issue |-> NoIssue, orphan |-> NoOrphan]

Ruling == [issue : Issue \cup {NoIssue}, merged : BOOLEAN]
NoRuling == [issue |-> NoIssue, merged |-> FALSE]

VARIABLES
    record,     \* issues.json
    diffs,      \* attached diffs on disk
    base,       \* integrated and verified work: <<issue, claim, commit>>
    merge,      \* the integration in progress
    stage,      \* what the poll does next with its forge reading
    seen,       \* the forge reading of the poll
    presence,   \* how the poll read each lane, once it did
    overdue,    \* holder of each offer read as overdue, or NoLane
    takeover,   \* each lane's evidence for a take
    ruling,     \* the operator's evidence for a resolution
    forge,      \* each issue on the forge: open, or how and when it ended
    dead,       \* lanes whose session process is gone
    deaths      \* how often each lane has died

readings == <<stage, seen, presence, overdue, takeover, ruling>>
world == <<forge, dead, deaths>>
vars == <<record, diffs, base, merge, readings, world>>

Open == [how |-> "open", claim |-> 0]

TypeOK ==
    /\ record \in [Issue -> Record]
    /\ diffs \subseteq Diff
    /\ base \subseteq Issue \X ClaimId \X Commit
    /\ merge \in Merge
    /\ stage \in {"read", "complete", "escalate"}
    /\ seen \in [Issue -> Reading]
    /\ presence \in [Lane -> {"unread", "live", "dead"}]
    /\ overdue \in [Issue -> MaybeLane]
    /\ takeover \in [Lane -> Evidence]
    /\ ruling \in Ruling
    /\ forge \in [Issue -> [how : Ending \cup {"open"}, claim : ClaimId]]
    /\ dead \subseteq Lane
    /\ deaths \in [Lane -> 0..MaxDeaths]

Init ==
    /\ record = [i \in Issue |-> Unseen]
    /\ diffs = {}
    /\ base = {}
    /\ merge = NoMerge
    /\ stage = "read"
    /\ seen = [i \in Issue |-> NoReading]
    /\ presence = [l \in Lane |-> "unread"]
    /\ overdue = [i \in Issue |-> NoLane]
    /\ takeover = [l \in Lane |-> NoEvidence]
    /\ ruling = NoRuling
    /\ forge = [i \in Issue |-> Open]
    /\ dead = {}
    /\ deaths = [l \in Lane |-> 0]

-----------------------------------------------------------------------------
(* Readings of one record.                                                 *)

Owned(r) == r.owner # NoLane

(* Recorded in the ledger at all: every path that adds a record either
   authorizes it or marks it ended later. *)
Known(r) == r.auth \/ r.ended

Delivered(r) == r.phase \in {"ready", "complete"}

Reminded(r) == Owned(r) /\ r.prompt.to = r.owner

Unresolved(r) == r.escalated # 0 /\ r.escalated = r.claim

Ended(r) ==
    \/ r.phase = "complete"
    \/ Unresolved(r)
    \/ Reminded(r) /\ ~r.prompt.answered

Closed(r) == Ended(r) \/ (Reminded(r) /\ r.prompt.claim = r.claim)

Satisfied(r) == r.phase = "complete" \/ r.ended \/ Closed(r)

OperatorBlocked(r) == r.phase = "blocked" /\ r.resume = {}

(* Whether dependency edges lead from one issue to another. *)
Reaches(rec, from, to) ==
    \A S \in SUBSET Issue :
        from \in S /\ to \notin S => \E k \in S : ~(rec[k].waits \subseteq S)

(* Whether a lane may take on one more claim. *)
WithinCap(rec, l) ==
    Cardinality({i \in Issue : /\ rec[i].owner = l
                               /\ ~Delivered(rec[i])
                               /\ ~Closed(rec[i])}) < Cap

(* A transition that appends to the history.                               *)
Logged(r) == [r EXCEPT !.released = FALSE, !.prompt.newest = FALSE]

(* Frees the issues that waited on stale, which are satisfied. *)
BadReconcile_AnyEdge(rec, stale) ==
    [i \in Issue |->
        LET r == rec[i]
        IN  IF r.waits \cap stale = {} THEN r
            ELSE IF /\ r.phase = "blocked"
                    /\ \E d \in r.resume : Satisfied(rec[d])
                 THEN [r EXCEPT !.waits = r.waits \ stale,
                                !.phase = "running",
                                !.resume = {}]
                 ELSE [r EXCEPT !.waits = r.waits \ stale]]

Reconcile(rec, stale) ==
    [i \in Issue |->
        LET r == rec[i]
            left == r.waits \ stale
        IN  IF r.waits \cap stale = {} THEN r
            ELSE IF /\ left = {}
                    /\ r.phase = "blocked"
                    /\ \E d \in r.resume : Satisfied(rec[d])
                 THEN [r EXCEPT !.waits = left,
                                !.phase = IF Owned(r) THEN "running"
                                          ELSE "queued",
                                !.resume = {}]
                 ELSE [r EXCEPT !.waits = left]]

BadClaimed_KeepsRequest(r, l) ==
    [Logged(r) EXCEPT !.owner = l, !.claim = r.claim + 1, !.phase = "running",
                      !.auth = TRUE, !.commit = 0, !.resume = {},
                      !.offer = NoOffer, !.orphan = NoOrphan, !.ended = FALSE]

BadClaimed_KeepsOrphan(r, l) ==
    [Logged(r) EXCEPT !.owner = l, !.claim = r.claim + 1, !.phase = "running",
                      !.auth = TRUE, !.commit = 0, !.resume = {},
                      !.offer = NoOffer, !.request = NoRequest, !.ended = FALSE]

BadClaimed_KeepsEnded(r, l) ==
    [Logged(r) EXCEPT !.owner = l, !.claim = r.claim + 1, !.phase = "running",
                      !.auth = TRUE, !.commit = 0, !.resume = {},
                      !.offer = NoOffer, !.request = NoRequest,
                      !.orphan = NoOrphan]

(* A new ownership generation. *)
Claimed(r, l) ==
    [Logged(r) EXCEPT !.owner = l, !.claim = r.claim + 1, !.phase = "running",
                      !.auth = TRUE, !.commit = 0, !.resume = {},
                      !.offer = NoOffer, !.request = NoRequest,
                      !.orphan = NoOrphan, !.ended = FALSE]

(* A claim writes a record that carries over only what it names. *)
FreshlyClaimed(r, l, handoff) ==
    [Claimed(r, l) EXCEPT !.handoff = handoff, !.prompt = NoPrompt,
                          !.escalated = 0]

BadUnowned_KeepsOffer(r) == [r EXCEPT !.owner = NoLane, !.request = NoRequest]

(* The end of a claim by release, resolution or completion. *)
Unowned(r) == [r EXCEPT !.owner = NoLane, !.offer = NoOffer,
                        !.request = NoRequest]

EndOnForge(r) ==
    [r EXCEPT !.ended = TRUE,
              !.auth = IF r.phase = "complete" THEN r.auth ELSE FALSE]

Write(i, r) == record' = [record EXCEPT ![i] = r]

(* drop_offer: the diff of an offer leaves the disk with it. *)
DropOffer(r) == diffs' = diffs \ {r.offer.diff}

(* Only the ledger and the diffs it names change. *)
LedgerOnly == UNCHANGED <<base, merge, readings, world>>
LedgerAlone == UNCHANGED diffs /\ LedgerOnly

Live == Lane \ dead

-----------------------------------------------------------------------------
(* Claims.                                                                 *)

(* issue claim: free work, or the lane's own claim while it is marked
   orphaned.  A forge that reports the issue closed refuses the claim, and
   one that cannot be read allows it, so the forge decides nothing here. *)
Claim(l, i) ==
    LET r == record[i]
    IN  /\ l \in Live
        /\ \/ ~Owned(r) /\ r.offer = NoOffer
           \/ r.owner = l /\ r.orphan.of # NoLane
        /\ r.owner = l \/ WithinCap(record, l)
        /\ r.phase # "complete"
        /\ r.claim < MaxClaims
        /\ Write(i, FreshlyClaimed(r, l, IF r.owner = l THEN r.handoff ELSE 0))
        /\ LedgerAlone

(* prepare_takeover: a lane reads whom it would take the issue from. *)
PrepareTake(l, i) ==
    LET r == record[i]
    IN  /\ l \in Live
        /\ Owned(r) /\ r.orphan.of = r.owner /\ r.owner # l
        /\ r.owner \in dead
        /\ takeover' = [takeover EXCEPT ![l] =
                           [issue |-> i,
                            orphan |-> [r.orphan EXCEPT !.claim = r.claim]]]
        /\ UNCHANGED <<record, diffs, base, merge, stage, seen, presence,
                       overdue, ruling, world>>

BadTake_StaleEvidence(l, i) ==
    LET r == record[i]
    IN  /\ l \in Live
        /\ takeover[l].issue = i
        /\ takeover' = [takeover EXCEPT ![l] = NoEvidence]
        /\ UNCHANGED <<base, merge, stage, seen, presence, overdue, ruling,
                       world, diffs>>
        /\ IF /\ Owned(r) /\ r.owner # l
              /\ r.claim < MaxClaims
              /\ WithinCap(record, l)
           THEN Write(i, FreshlyClaimed(r, l, r.handoff))
           ELSE UNCHANGED record

(* issue claim --take-orphaned, on evidence read before the lock: refused
   unless mark and claim are still the ones read and the owner is dead. *)
Take(l, i) ==
    LET r == record[i]
    IN  /\ l \in Live
        /\ takeover[l].issue = i
        /\ takeover' = [takeover EXCEPT ![l] = NoEvidence]
        /\ UNCHANGED <<base, merge, stage, seen, presence, overdue, ruling,
                       world, diffs>>
        /\ IF /\ Owned(r) /\ r.owner # l /\ r.orphan.of = r.owner
              /\ r.claim = takeover[l].orphan.claim
              /\ r.orphan.death = takeover[l].orphan.death
              /\ r.owner \in dead
              /\ r.claim < MaxClaims
              /\ WithinCap(record, l)
           THEN Write(i, FreshlyClaimed(r, l, r.handoff))
           ELSE UNCHANGED record

(* issue release, by the owner or, in its name, by the supervisor or a
   retirement.  The reminders it then writes are Remind with nothing read as
   ended, which may also fail. *)
Release(i) ==
    LET r == record[i]
        closed == Closed(r)
        waiting == ~closed /\ OperatorBlocked(r)
        left == [Unowned(Logged(r)) EXCEPT
                    !.phase = IF waiting THEN "blocked" ELSE "queued",
                    !.resume = {}, !.orphan = NoOrphan, !.handoff = 0, !.released = TRUE]
    IN  /\ Owned(r)
        /\ r.phase = "ready" => closed
        /\ Write(i, IF closed THEN EndOnForge(left) ELSE left)
        /\ diffs' = diffs \ {r.offer.diff, r.handoff}
        /\ LedgerOnly

-----------------------------------------------------------------------------
(* Offers and requests.                                                    *)

(* _operator_offer: what an assignment, or a request its owner granted or let
   lapse, becomes.  It is answered within the project's default, if any. *)
OperatorOffer(l, source, due) ==
    [to |-> l, source |-> source, due |-> due, diff |-> 0]

(* issue assign: an offer of free work, or a request to its owner. *)
Assign(i, l) ==
    LET r == [Logged(record[i]) EXCEPT !.auth = TRUE]
    IN  /\ l # r.owner
        /\ r.offer = NoOffer /\ r.request = NoRequest
        /\ \/ /\ Owned(r)
              /\ Write(i, [r EXCEPT !.request = [NoRequest EXCEPT
                             !.to = l, !.source = "operator"]])
           \/ /\ ~Owned(r)
              /\ \E due \in Windows : Write(i,
                    [r EXCEPT !.offer = OperatorOffer(l, "operator", due)])
        /\ LedgerAlone

(* issue assign --unassign. *)
Unassign(i) ==
    LET r == record[i]
    IN  /\ \/ /\ r.request # NoRequest
              /\ Write(i, [Logged(r) EXCEPT !.request = NoRequest])
           \/ /\ r.request = NoRequest
              /\ r.offer.source = "operator"
              /\ Write(i, [Logged(r) EXCEPT !.offer = NoOffer])
        /\ LedgerAlone

(* issue request: a peer asks the owner for the issue. *)
RequestTakeover(l, i) ==
    LET r == record[i]
    IN  /\ l \in Live
        /\ Owned(r) /\ r.owner # l
        /\ r.offer = NoOffer /\ r.request = NoRequest
        /\ WithinCap(record, l)
        /\ Write(i, [Logged(r) EXCEPT !.request = [NoRequest EXCEPT !.to = l]])
        /\ LedgerAlone

(* The owner's answer to a request: an offer in its place, or none. *)
Authorize(i) ==
    LET r == record[i]
    IN  /\ r.owner \in Live /\ r.request # NoRequest
        /\ \E due \in Windows : Write(i,
              [Logged(r) EXCEPT
                  !.request = NoRequest,
                  !.offer = OperatorOffer(r.request.to, r.request.source, due)])
        /\ LedgerAlone

Refuse(i) ==
    LET r == record[i]
    IN  /\ r.owner \in Live /\ r.request # NoRequest
        /\ Write(i, [Logged(r) EXCEPT !.request = NoRequest])
        /\ LedgerAlone

(* issue offer, by the owner or by the supervisor in its name.  The diff was
   written to disk before the ledger is. *)
OfferIssue(i, l, due, diff) ==
    LET r == record[i]
    IN  /\ Owned(r) /\ l # r.owner
        /\ r.offer = NoOffer
        /\ Write(i, [Logged(r) EXCEPT !.offer =
                        [to |-> l, source |-> "peer", due |-> due,
                         diff |-> diff]])
        /\ diffs' = diffs \cup ({diff} \ {0})
        /\ LedgerOnly

CancelOffer(i) ==
    LET r == record[i]
    IN  /\ Owned(r)
        /\ r.offer # NoOffer
        /\ Write(i, [Logged(r) EXCEPT !.offer = NoOffer])
        /\ DropOffer(r)

(* issue cancel, by the owner. *)
Cancel(i) == record[i].owner \in Live /\ CancelOffer(i) /\ LedgerOnly

BadAccept_DropsDiff(l, i) ==
    LET r == record[i]
    IN  /\ l \in Live
        /\ r.offer.to = l
        /\ r.phase # "complete"
        /\ r.claim < MaxClaims
        /\ WithinCap(record, l)
        /\ Write(i, [Claimed(r, l) EXCEPT !.handoff = r.offer.diff])
        /\ DropOffer(r)
        /\ LedgerOnly

(* issue accept, of an offer.  Verified work cannot be claimed again, so an
   offer of it stays as it is. *)
Accept(l, i) ==
    LET r == record[i]
    IN  /\ l \in Live
        /\ r.offer.to = l
        /\ r.phase # "complete"
        /\ r.claim < MaxClaims
        /\ WithinCap(record, l)
        /\ Write(i, [Claimed(r, l) EXCEPT !.handoff = r.offer.diff])
        /\ LedgerAlone

(* issue decline, of an offer, by its recipient or in its name. *)
Decline(i) ==
    LET r == record[i]
    IN  /\ r.offer # NoOffer
        /\ Write(i, [Logged(r) EXCEPT !.offer = NoOffer])
        /\ DropOffer(r)
        /\ LedgerOnly

(* grant_requests: every peer request its owner let lapse becomes an offer. *)
Lapsed(r) ==
    /\ r.request.to # NoLane /\ r.request.source = "peer"
    /\ r.request.grace = "passed"
    /\ Owned(r) /\ r.offer = NoOffer

GrantRequests ==
    /\ \E i \in Issue : Lapsed(record[i])
    /\ \E due \in Windows :
          record' = [i \in Issue |->
             LET r == record[i]
             IN  IF Lapsed(r)
                 THEN [Logged(r) EXCEPT
                          !.request = NoRequest,
                          !.offer = OperatorOffer(r.request.to, "peer", due)]
                 ELSE r]
    /\ LedgerAlone

(* Time passes: the takeover grace of a request, the deadline of an offer. *)
Lapse(i) ==
    /\ \/ /\ record[i].request.to # NoLane
          /\ record[i].request.grace = "running"
          /\ Write(i, [record[i] EXCEPT !.request.grace = "passed"])
       \/ /\ record[i].offer.due = "running"
          /\ Write(i, [record[i] EXCEPT !.offer.due = "late"])
    /\ LedgerAlone

(* expire_offers reads the overdue offers from a snapshot of the ledger... *)
ReadOverdue ==
    /\ overdue' = [i \in Issue |-> IF record[i].offer.due = "late"
                                   THEN record[i].owner ELSE NoLane]
    /\ UNCHANGED <<record, diffs, base, merge, stage, seen, presence,
                   takeover, ruling, world>>

(* ...and cancels each in its holder's name, whatever offer stands by then. *)
ExpireOffer(i) ==
    /\ overdue[i] # NoLane
    /\ overdue' = [overdue EXCEPT ![i] = NoLane]
    /\ IF record[i].owner = overdue[i] /\ record[i].offer # NoOffer
       THEN CancelOffer(i)
       ELSE UNCHANGED <<record, diffs>>
    /\ UNCHANGED <<base, merge, stage, seen, presence, takeover, ruling, world>>

-----------------------------------------------------------------------------
(* What a claim waits on, and what its owner reports of it.                *)

(* issue block. *)
Block(i, j) ==
    LET r == record[i]
    IN  /\ r.owner \in Live
        /\ i # j /\ Known(record[j])
        /\ j \notin r.waits /\ ~Satisfied(record[j])
        /\ ~Reaches(record, j, i)
        /\ Cardinality(r.waits) < MaxBlockers
        /\ Write(i, [Logged(r) EXCEPT !.waits = r.waits \cup {j}])
        /\ LedgerAlone

(* issue unblock, by the owner or by the operator. *)
Unblock(i, j) ==
    /\ j \in record[i].waits
    /\ Write(i, [Logged(record[i]) EXCEPT !.waits = @ \ {j}])
    /\ LedgerAlone

BadApplyPlan_NoCycleCheck(i, j) ==
    LET planned == [record EXCEPT ![i].auth = TRUE, ![j].auth = TRUE]
        added == [planned EXCEPT ![i].waits = @ \cup {j}]
    IN  /\ i # j
        /\ \/ /\ j \in record[i].waits \/ record[j].phase = "complete"
              /\ record' = planned
           \/ /\ record[j].phase # "complete"
              /\ Cardinality(added[i].waits) <= MaxBlockers
              /\ record' = added
        /\ LedgerAlone

(* Applying a plan of one dependency: both issues are authorized, and the
   edge is added unless it stands or its blocker is complete. *)
ApplyPlan(i, j) ==
    LET planned == [record EXCEPT ![i].auth = TRUE, ![j].auth = TRUE]
        added == [planned EXCEPT ![i].waits = @ \cup {j}]
    IN  /\ i # j
        /\ \/ /\ j \in record[i].waits \/ record[j].phase = "complete"
              /\ record' = planned
           \/ /\ record[j].phase # "complete"
              /\ ~Reaches(record, j, i)
              /\ Cardinality(added[i].waits) <= MaxBlockers
              /\ record' = added
        /\ LedgerAlone

(* record_report writes no history, but it is progress on the claim. *)
Report(i, r) ==
    /\ record[i].owner \in Live
    /\ Write(i, [r EXCEPT !.request.grace =
                    IF r.request = NoRequest THEN @ ELSE "met"])
    /\ LedgerAlone

ReportPartial(i) ==
    Report(i, [record[i] EXCEPT !.phase = "running", !.resume = {}])

ReportBlocked(i) ==
    Report(i, [record[i] EXCEPT !.phase = "blocked", !.resume = {}])

(* report --state blocked --resume-on. *)
ReportBlockedOn(i, j) ==
    /\ i # j
    /\ record[j].auth /\ record[j].phase # "complete"
    /\ ~Reaches(record, j, i)
    /\ Report(i, [record[i] EXCEPT !.phase = "blocked", !.resume = {j},
                                   !.waits = @ \cup {j}])

ReportReady(i, c) ==
    /\ record[i].waits = {}
    /\ Report(i, [record[i] EXCEPT !.phase = "ready", !.resume = {},
                                   !.commit = c])

BadSettle_CompleteOnly ==
    LET stale == {j \in Issue : record[j].phase = "complete"}
    IN  /\ \E i \in Issue : record[i].waits \cap stale # {}
        /\ record' = Reconcile(record, stale)
        /\ LedgerAlone

(* settle_dependencies, on every poll. *)
SettleDependencies ==
    LET stale == {j \in Issue : Satisfied(record[j])}
    IN  /\ \E i \in Issue : record[i].waits \cap stale # {}
        /\ record' = Reconcile(record, stale)
        /\ LedgerAlone

-----------------------------------------------------------------------------
(* Integration: a merge into the base takes long, and its claim may be gone
   by the time it is verified. *)

BadStartMerge_AnyPhase(i) ==
    LET r == record[i]
    IN  /\ merge = NoMerge
        /\ Owned(r)
        /\ merge' = [issue |-> i, claim |-> r.claim, commit |-> r.commit,
                     verified |-> FALSE]
        /\ UNCHANGED <<record, diffs, base, readings, world>>

(* Whether the base still carries this claim's unverified integration, which
   lifts the check on what the issue waits on, is left open. *)
StartMerge(i) ==
    LET r == record[i]
    IN  /\ merge = NoMerge
        /\ Owned(r) /\ r.phase \in {"ready", "recovery"}
        /\ merge' = [issue |-> i, claim |-> r.claim, commit |-> r.commit,
                     verified |-> FALSE]
        /\ UNCHANGED <<record, diffs, base, readings, world>>

(* The merge lands and passes the gate. *)
VerifyMerge ==
    /\ merge # NoMerge /\ ~merge.verified
    /\ merge' = [merge EXCEPT !.verified = TRUE]
    /\ base' = base \cup {<<merge.issue, merge.claim, merge.commit>>}
    /\ UNCHANGED <<record, diffs, readings, world>>

BadComplete_NoReconcile ==
    LET i == merge.issue
        r == record[i]
        done == [Unowned(Logged(r)) EXCEPT !.phase = "complete", !.resume = {}]
    IN  /\ merge.verified
        /\ r.claim = merge.claim
        /\ r.phase \in {"ready", "recovery"}
        /\ r.waits = {}
        /\ r.commit = merge.commit
        /\ record' = [record EXCEPT ![i] = done]
        /\ DropOffer(r)
        /\ merge' = NoMerge
        /\ UNCHANGED <<base, readings, world>>

(* complete: the ledger records the merge only for the claim and the commit
   it was started for. *)
Complete ==
    LET i == merge.issue
        r == record[i]
        done == [Unowned(Logged(r)) EXCEPT !.phase = "complete", !.resume = {}]
    IN  /\ merge.verified
        /\ r.claim = merge.claim
        /\ r.phase \in {"ready", "recovery"}
        /\ r.waits = {}
        /\ r.commit = merge.commit
        /\ record' = Reconcile([record EXCEPT ![i] = done], {i})
        /\ DropOffer(r)
        /\ merge' = NoMerge
        /\ UNCHANGED <<base, readings, world>>

BadFailMerge_AnyPhase ==
    LET i == merge.issue
        r == record[i]
    IN  /\ merge # NoMerge /\ ~merge.verified
        /\ merge' = NoMerge
        /\ IF r.claim = merge.claim
           THEN Write(i, [r EXCEPT !.phase = "recovery"])
           ELSE UNCHANGED record
        /\ UNCHANGED <<diffs, base, readings, world>>

(* integration_failed: a conflict or a failed gate makes repair work of the
   claim the merge was started for. *)
FailMerge ==
    LET i == merge.issue
        r == record[i]
    IN  /\ merge # NoMerge /\ ~merge.verified
        /\ merge' = NoMerge
        /\ IF r.claim = merge.claim /\ r.phase \in {"ready", "recovery"}
           THEN Write(i, [r EXCEPT !.phase = "recovery"])
           ELSE UNCHANGED record
        /\ UNCHANGED <<diffs, base, readings, world>>

(* An interrupted merge, or a completion the ledger refuses. *)
AbandonMerge ==
    /\ merge # NoMerge
    /\ merge' = NoMerge
    /\ UNCHANGED <<record, diffs, base, readings, world>>

-----------------------------------------------------------------------------
(* Issues that end on the forge.                                           *)

Merged(how) == how \in {"merged", "landed by another"}

(* completed_claims: what one poll makes of one owned issue. *)
ReadingOf(i) ==
    LET r == record[i]
        how == forge[i].how
        before == forge[i].claim # r.claim
        ready == r.phase = "ready"
        completes == (ready /\ (before \/ how = "by hand")) \/ how = "merged"
    IN  IF ~Owned(r) \/ how = "open" \/ (before /\ ~ready) THEN NoReading
        ELSE [claim |-> r.claim,
              by |-> IF ~completes THEN "nothing"
                     ELSE IF Merged(how) THEN "merge" ELSE "ready"]

(* The forge may be backing off, or not answer for some issues. *)
ReadForge ==
    /\ stage = "read" /\ Endings # {}
    /\ \E unread \in SUBSET Issue :
          seen' = [i \in Issue |-> IF i \in unread THEN NoReading
                                   ELSE ReadingOf(i)]
    /\ stage' = "complete"
    /\ UNCHANGED <<record, diffs, base, merge, presence, overdue, takeover,
                   ruling, world>>

(* resolve with outcome complete. *)
ResolveComplete(i) ==
    LET r == record[i]
        done == [Unowned(Logged(r)) EXCEPT !.phase = "complete", !.resume = {},
                                           !.escalated = 0]
    IN  /\ record' = Reconcile([record EXCEPT ![i] = done], {i})
        /\ DropOffer(r)

(* resolve with outcome release. *)
ResolveRelease(i) ==
    LET r == record[i]
    IN  /\ Write(i, [Unowned(Logged(r)) EXCEPT
                        !.phase = "queued", !.resume = {}, !.escalated = 0])
        /\ DropOffer(r)

BadEndMergedClaim_AnyClaim(i) ==
    LET r == record[i]
    IN  /\ stage = "complete"
        /\ Owned(r)
        /\ \/ seen[i].by = "merge"
           \/ seen[i].by = "ready" /\ r.phase = "ready"
        /\ ResolveComplete(i)
        /\ UNCHANGED <<base, merge, readings, world>>

(* end_merged_claims, on the claim the forge was read for. *)
EndMergedClaim(i) ==
    LET r == record[i]
    IN  /\ stage = "complete"
        /\ Owned(r) /\ r.claim = seen[i].claim
        /\ \/ seen[i].by = "merge"
           \/ seen[i].by = "ready" /\ r.phase = "ready"
        /\ ResolveComplete(i)
        /\ UNCHANGED <<base, merge, readings, world>>

(* Whether an owned issue waits on this one. *)
AwaitedByLane(i) == \E k \in Issue : i \in record[k].waits /\ Owned(record[k])

(* reminders, told which issues were read as ended. *)
RemindedOf(i, closed) ==
    LET r == record[i]
        stale == /\ r.prompt.to # NoLane /\ ~r.prompt.answered
                 /\ r.owner # r.prompt.to
        stamped == IF stale THEN [r EXCEPT !.prompt.answered = TRUE] ELSE r
    IN  IF r.released /\ (i \in closed \/ AwaitedByLane(i))
        THEN [r EXCEPT !.prompt = NoPrompt]
        ELSE IF i \in closed /\ Owned(r) /\ ~r.prompt.newest
        THEN [r EXCEPT !.prompt = [to |-> r.owner, claim |-> r.claim,
                                   answered |-> FALSE, newest |-> TRUE]]
        ELSE stamped

Reminders(closed) == record' = [i \in Issue |-> RemindedOf(i, closed)]

(* After a release, when the supervisor prompts at all. *)
RemindAfterRelease ==
    /\ Endings # {}
    /\ Reminders({})
    /\ LedgerAlone

RemindOfReading ==
    /\ stage = "complete"
    /\ stage' = "escalate"
    /\ Reminders({i \in Issue : seen[i] # NoReading})
    /\ UNCHANGED <<diffs, base, merge, seen, presence, overdue, takeover,
                   ruling, world>>

(* observe_responses: the holder's message was found. *)
ObserveResponse(i) ==
    /\ record[i].prompt.to # NoLane /\ ~record[i].prompt.answered
    /\ Write(i, [record[i] EXCEPT !.prompt.answered = TRUE])
    /\ LedgerAlone

Unanswered(r) ==
    /\ Reminded(r) /\ ~r.prompt.answered
    /\ r.escalated \in {0, r.claim}

(* completion_escalations; due are the issues whose reminders were left
   unanswered for long enough. *)
Escalate ==
    /\ stage = "escalate"
    /\ stage' = "read"
    /\ \E due \in SUBSET Issue :
          record' = [i \in Issue |->
              LET r == record[i]
                  read == seen[i] # NoReading
              IN  [r EXCEPT !.escalated =
                      IF ~Unanswered(r) \/ ~read THEN 0
                      ELSE IF i \in due THEN r.claim ELSE @]]
    /\ seen' = [i \in Issue |-> NoReading]
    /\ UNCHANGED <<diffs, base, merge, presence, overdue, takeover, ruling,
                   world>>

(* The same when the reading raised: nothing was observed. *)
EscalateUnread ==
    /\ stage = "read"
    /\ record' = [i \in Issue |->
                     IF Unanswered(record[i]) THEN record[i]
                     ELSE [record[i] EXCEPT !.escalated = 0]]
    /\ LedgerAlone

(* A stage that raises is recorded, and the poll goes on. *)
FailStage ==
    /\ \/ stage = "complete" /\ stage' = "escalate" /\ UNCHANGED seen
       \/ stage = "escalate" /\ stage' = "read"
          /\ seen' = [i \in Issue |-> NoReading]
    /\ UNCHANGED <<record, diffs, base, merge, presence, overdue, takeover,
                   ruling, world>>

(* issue resolve, by the operator: the forge is read first... *)
ReadRuling(i) ==
    LET r == record[i]
    IN  /\ Owned(r) /\ Unresolved(r)
        /\ forge[i].how # "open" /\ forge[i].claim = r.claim
        /\ ruling' = [issue |-> i, merged |-> Merged(forge[i].how)]
        /\ UNCHANGED <<record, diffs, base, merge, stage, seen, presence,
                       overdue, takeover, world>>

(* ...and the ledger changed if the escalation still stands. *)
Rule ==
    LET i == ruling.issue
        r == record[i]
    IN  /\ ruling # NoRuling
        /\ ruling' = NoRuling
        /\ \/ /\ Owned(r) /\ Unresolved(r)
              /\ \/ ruling.merged /\ ResolveComplete(i)
                 \/ ResolveRelease(i)
           \/ /\ ~(Owned(r) /\ Unresolved(r))
              /\ UNCHANGED <<record, diffs>>
        /\ UNCHANGED <<base, merge, stage, seen, presence, overdue, takeover,
                       world>>

(* end_closed_issues: free work that a reading of the catalog leaves out.  The
   reading may be older than this step, and the issue open again by now, but a
   record touched since it began is skipped: ending the record while the forge
   still has the issue closed leads to the same records. *)
EndClosedIssue(i) ==
    LET r == record[i]
    IN  /\ Known(r) /\ ~Owned(r) /\ r.offer = NoOffer
        /\ ~r.ended /\ r.phase # "complete"
        /\ forge[i].how # "open"
        /\ Write(i, EndOnForge(r))
        /\ LedgerAlone

(* The forge: an issue ends inside the claim it then has, and may reopen. *)
ForgeEnds(i, how) ==
    /\ forge[i].how = "open" /\ Known(record[i])
    /\ forge' = [forge EXCEPT ![i] = [how |-> how, claim |-> record[i].claim]]
    /\ UNCHANGED <<record, diffs, base, merge, readings, dead, deaths>>

ForgeReopens(i) ==
    /\ forge[i].how # "open"
    /\ forge' = [forge EXCEPT ![i] = Open]
    /\ UNCHANGED <<record, diffs, base, merge, readings, dead, deaths>>

-----------------------------------------------------------------------------
(* Lanes that die.                                                         *)

Die(l) ==
    /\ l \in Live /\ deaths[l] < MaxDeaths
    /\ dead' = dead \cup {l}
    /\ deaths' = [deaths EXCEPT ![l] = @ + 1]
    /\ UNCHANGED <<record, diffs, base, merge, readings, forge>>

Return(l) ==
    /\ l \in dead
    /\ dead' = dead \ {l}
    /\ UNCHANGED <<record, diffs, base, merge, readings, forge, deaths>>

(* orphans reads every lane's state before it takes the ledger's lock; a
   lane gone for less than the stall threshold reads as neither... *)
ReadPresence ==
    /\ Mortal # {}
    /\ \E gone \in SUBSET dead :
          presence' = [l \in Lane |-> IF l \in gone THEN "dead"
                                      ELSE IF l \in dead THEN "unread"
                                      ELSE "live"]
    /\ UNCHANGED <<record, diffs, base, merge, stage, seen, overdue, takeover,
                   ruling, world>>

(* ...and marks the claims of the dead, and withdraws the marks of the
   returned. *)
MarkOrphans ==
    /\ \E l \in Lane : presence[l] # "unread"
    /\ record' = [i \in Issue |->
          LET r == record[i]
          IN  IF ~Owned(r) THEN r
              ELSE IF presence[r.owner] = "dead"
              THEN [r EXCEPT !.orphan = [of |-> r.owner, claim |-> r.claim,
                                         death |-> deaths[r.owner]]]
              ELSE IF presence[r.owner] = "live"
              THEN [r EXCEPT !.orphan = NoOrphan]
              ELSE r]
    /\ presence' = [l \in Lane |-> "unread"]
    /\ UNCHANGED <<diffs, base, merge, stage, seen, overdue, takeover, ruling,
                   world>>

-----------------------------------------------------------------------------
Next ==
    \/ \E l \in Lane, i \in Issue :
          \/ Claim(l, i) \/ PrepareTake(l, i) \/ Take(l, i) \/ Accept(l, i)
    \/ \E i \in Issue :
          \/ Release(i) \/ Unassign(i) \/ Authorize(i) \/ Refuse(i)
          \/ Cancel(i) \/ Decline(i) \/ Lapse(i) \/ ExpireOffer(i)
          \/ ReportPartial(i) \/ ReportBlocked(i)
          \/ StartMerge(i) \/ EndMergedClaim(i) \/ ObserveResponse(i)
          \/ ReadRuling(i) \/ EndClosedIssue(i) \/ ForgeReopens(i)
    \/ \E i \in Issue, l \in Directed : Assign(i, l)
    \/ \E i \in Issue, l \in Asking : RequestTakeover(l, i)
    \/ \E i \in Issue, l \in Offered, due \in Windows,
         diff \in {0} \cup (Diff \ diffs) : OfferIssue(i, l, due, diff)
    \/ \E i, j \in Issue :
          \/ Block(i, j) \/ Unblock(i, j) \/ ApplyPlan(i, j)
          \/ ReportBlockedOn(i, j)
    \/ \E i \in Issue, c \in Commit : ReportReady(i, c)
    \/ \E i \in Closing, how \in Endings : ForgeEnds(i, how)
    \/ \E l \in Mortal : Die(l) \/ Return(l)
    \/ GrantRequests \/ ReadOverdue \/ SettleDependencies
    \/ VerifyMerge \/ Complete \/ FailMerge \/ AbandonMerge
    \/ ReadForge \/ RemindOfReading \/ RemindAfterRelease
    \/ Escalate \/ EscalateUnread \/ FailStage \/ Rule
    \/ ReadPresence \/ MarkOrphans

Spec == Init /\ [][Next]_vars

(* Every poll of the supervisor settles the dependencies, whatever its other
   stages do. *)
FairSpec == Spec /\ WF_vars(SettleDependencies)

-----------------------------------------------------------------------------
(* Ownership.                                                              *)

(* An issue passes to a lane only by an offer to it, or from an owner whose
   claim is marked orphaned and whose session is gone; free work that is
   offered to one lane is claimed by no other; and every passage is a new
   claim, so nothing written for the old one can be applied to it. *)
OwnershipMovesByConsent ==
    [][\A i \in Issue :
          LET r == record[i]
              n == record'[i]
          IN  n.owner \notin {r.owner, NoLane} =>
                /\ n.claim = r.claim + 1
                /\ \/ r.offer.to = n.owner
                   \/ ~Owned(r) /\ r.offer = NoOffer
                   \/ /\ r.orphan.of = r.owner /\ r.orphan.claim = r.claim
                      /\ r.owner \in dead]_vars

(* Taken as a whole, the ledger keeps the promises of Ownership, whatever
   its records go through. *)
Promises ==
    INSTANCE Ownership WITH
        owner <- [i \in Issue |-> record[i].owner],
        generation <- [i \in Issue |-> record[i].claim],
        promised <- [i \in Issue |-> record[i].offer.to],
        complete <- {i \in Issue : record[i].phase = "complete"},
        gone <- dead

OwnershipIsKept == Promises!Spec

(* What is asked of an issue is asked of the lane that owns it: an offer or
   a request never names its owner, and a request never outlives the claim
   it was made to. *)
NobodyIsAskedForTheirOwn ==
    \A i \in Issue :
        LET r == record[i]
        IN  /\ r.request # NoRequest => Owned(r) /\ r.request.to # r.owner
            /\ r.offer # NoOffer => r.offer.to # r.owner

(* A mark says that the owner of this very claim is gone, never of an
   earlier claim or owner: a peer takes the issue on its word. *)
OrphanMarksAreCurrent ==
    \A i \in Issue :
        LET r == record[i]
        IN  Owned(r) /\ r.orphan # NoOrphan =>
                r.orphan.of = r.owner /\ r.orphan.claim = r.claim

(* A diff that a pending offer or an accepted handoff names is on disk, and
   no two of them name the same. *)
PendingDiffsExist ==
    LET named(i) == {record[i].offer.diff, record[i].handoff} \ {0}
    IN  /\ \A i \in Issue :
              /\ named(i) \subseteq diffs
              /\ record[i].offer.diff = record[i].handoff
                    => record[i].handoff = 0
        /\ \A i, j \in Issue : i # j => named(i) \cap named(j) = {}

-----------------------------------------------------------------------------
(* Progress of the work.                                                   *)

(* Work in progress has an owner, and an owner has work in progress, also
   when a merge fails long after its claim is gone. *)
WorkIsHeld ==
    \A i \in Issue :
        LET r == record[i]
        IN  /\ r.phase \in {"running", "ready", "recovery"} => Owned(r)
            /\ r.phase \in {"queued", "complete"} => ~Owned(r)

(* Verified work stays verified and is nobody's again. *)
CompleteIsFinal ==
    [][\A i \in Issue : record[i].phase = "complete" =>
          /\ record'[i].phase = "complete"
          /\ record'[i].owner = NoLane]_vars

(* Work is recorded as complete only on evidence for its current claim: the
   commit it last reported was verified in the base, or the forge was read
   to have ended this claim, or an operator ruled on a merge. *)
CompletionHasEvidence ==
    [][\A i \in Issue :
          LET r == record[i]
          IN  record'[i].phase = "complete" /\ r.phase # "complete" =>
                \/ <<i, r.claim, r.commit>> \in base
                \/ seen[i].by # "nothing" /\ seen[i].claim = r.claim
                \/ ruling = [issue |-> i, merged |-> TRUE]]_vars

(* An issue the ledger knows as ended on the forge is nobody's work, and
   whoever is given it again drops that reading with the same step. *)
EndedIsUnowned ==
    \A i \in Issue : record[i].ended => ~Owned(record[i])

-----------------------------------------------------------------------------
(* Dependencies.                                                           *)

(* No circle of issues waits on itself, whichever of the ways to add an edge
   added them. *)
DependenciesAreAcyclic ==
    \A S \in (SUBSET Issue) \ {{}} :
        \E i \in S : record[i].waits \cap S = {}

(* Nothing waits on verified work: no completion would ever clear it. *)
NothingWaitsOnCompleteWork ==
    \A i \in Issue : \A j \in record[i].waits : record[j].phase # "complete"

(* An issue that waits on another one, and would be resumed by it, is never
   resumed while anything it waits on is unsatisfied. *)
ResumedWorkIsUnblocked ==
    [][\A i \in Issue :
          /\ record[i].resume # {}
          /\ record'[i].claim = record[i].claim
          /\ record'[i].phase = "running"
          /\ record'[i].waits # record[i].waits
          => record'[i].waits = {}]_vars

(* What waits on an issue that ended is freed, or the issue is taken up
   again. *)
SatisfiedBlockersClear ==
    \A i, j \in Issue :
        (j \in record[i].waits /\ Satisfied(record[j]))
            ~> (j \notin record[i].waits \/ ~Satisfied(record[j]))

=============================================================================
