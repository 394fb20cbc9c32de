----------------------------- MODULE Recoveries -----------------------------
(***************************************************************************)
(* Recovering a claim from a process that may still run: quiescing the     *)
(* process under an approval, and taking its session over.                 *)
(* The parts share no state: each has its own Init and Next.               *)
(***************************************************************************)
EXTENDS Naturals

(***************************************************************************)
(* Live recovery of one claim: the session of its owner is out of capacity *)
(* but still runs.  The operator approves stopping exactly that session    *)
(* (authorize); the service then stops it, captures its work and marks the *)
(* claim as orphaned (quiesce_exhausted), writing what it has done so far  *)
(* to a transition file, so that a service that stops half way goes on     *)
(* where it was.  One observation of spent capacity stands for a session.  *)
(***************************************************************************)

CONSTANTS
    MaxClaims,      \* model bound: generations of the claim
    MaxLaunches,    \* model bound: processes the owner's lane runs
    MaxCuts         \* model bound: times the service stops half way

VARIABLES
    heldClaim,      \* the claim the owner holds, 0 when it holds none
    claimsMade,     \* model bound: claims so far
    activityNow,    \* activity.json: the session and process last recorded
    processRuns,    \* that process is alive
    operatorWait,   \* the owner is paused, or waits for the operator
    publishedAs,      \* the session capacity-candidates.json names, 0 for none
    approvals,      \* issue-*-approval.json, by claim
    transitions,    \* issue-*-quiesce.json, by claim
    orphanMark,     \* the marker in the ledger, NoMark when there is none
    refusalOf,      \* issue-*-refusal.json: the claim refused, 0 for none
    passAt,         \* where the service is, and for which claim and process
    capturedOf,     \* ghost: the process stopped before the claim was last captured
    approvedEver,   \* ghost: the claims and processes the operator approved
    cutsSoFar       \* model bound: times the service stopped

quiesceVars == <<heldClaim, claimsMade, activityNow, processRuns, operatorWait, publishedAs,
                 approvals, transitions, orphanMark, refusalOf, passAt, capturedOf,
                 approvedEver, cutsSoFar>>

ClaimIds == 1..MaxClaims
Launches == 1..MaxLaunches

NoApproval == [found |-> FALSE, session |-> 0, process |-> 0, used |-> FALSE]
NoTransition == [phase |-> "none", session |-> 0, process |-> 0]
NoMark == [claim |-> 0, session |-> 0]
NoPass == [at |-> "idle", claim |-> 0, session |-> 0, process |-> 0]

Phases == {"none", "authorized", "stopped", "captured", "complete", "superseded"}
Unfinished == {"authorized", "stopped", "captured"}

QuiesceTypeOK ==
    /\ heldClaim \in 0..MaxClaims /\ claimsMade \in 0..MaxClaims
    /\ activityNow \in [session : Launches, process : Launches]
    /\ processRuns \in BOOLEAN /\ operatorWait \in BOOLEAN /\ publishedAs \in 0..MaxLaunches
    /\ approvals \in [ClaimIds -> [found : BOOLEAN, session : 0..MaxLaunches,
                                   process : 0..MaxLaunches, used : BOOLEAN]]
    /\ transitions \in [ClaimIds -> [phase : Phases, session : 0..MaxLaunches,
                                     process : 0..MaxLaunches]]
    /\ orphanMark.claim \in 0..MaxClaims /\ refusalOf \in 0..MaxClaims
    /\ passAt.at \in {"idle", "authorized", "killed", "stopped", "captured", "marked", "done"}

QuiesceInit ==
    /\ heldClaim = 1 /\ claimsMade = 1
    /\ activityNow = [session |-> 1, process |-> 1] /\ processRuns = TRUE
    /\ operatorWait = FALSE /\ publishedAs = 0
    /\ approvals = [c \in ClaimIds |-> NoApproval]
    /\ transitions = [c \in ClaimIds |-> NoTransition]
    /\ orphanMark = NoMark /\ refusalOf = 0 /\ passAt = NoPass
    /\ capturedOf = [c \in ClaimIds |-> 0] /\ approvedEver = {} /\ cutsSoFar = 0

-----------------------------------------------------------------------------
(* The lane: its process ends, a new one starts with a session of its own or
   the one it resumes, and the claim is given up, taken or made again. *)
ProcessEnds ==
    /\ processRuns /\ processRuns' = FALSE
    /\ UNCHANGED <<heldClaim, claimsMade, activityNow, operatorWait, publishedAs, approvals,
                   transitions, orphanMark, refusalOf, passAt, capturedOf, approvedEver,
                   cutsSoFar>>

Launched ==
    /\ ~processRuns /\ activityNow.process < MaxLaunches
    /\ processRuns' = TRUE
    /\ \E s \in {activityNow.session, activityNow.process + 1} :
         activityNow' = [session |-> s, process |-> activityNow.process + 1]
    /\ UNCHANGED <<heldClaim, claimsMade, operatorWait, publishedAs, approvals, transitions,
                   orphanMark, refusalOf, passAt, capturedOf, approvedEver, cutsSoFar>>

ClaimMoves ==
    /\ \/ heldClaim # 0 /\ heldClaim' = 0 /\ UNCHANGED claimsMade
       \/ /\ heldClaim = 0 /\ claimsMade < MaxClaims
          /\ heldClaim' = claimsMade + 1 /\ claimsMade' = claimsMade + 1
    /\ orphanMark' = NoMark
    /\ UNCHANGED <<activityNow, processRuns, operatorWait, publishedAs, approvals, transitions,
                   refusalOf, passAt, capturedOf, approvedEver, cutsSoFar>>

WaitChanges ==
    /\ operatorWait' = ~operatorWait
    /\ UNCHANGED <<heldClaim, claimsMade, activityNow, processRuns, publishedAs, approvals,
                   transitions, orphanMark, refusalOf, passAt, capturedOf, approvedEver,
                   cutsSoFar>>

(* The capacity reading publishes the session it saw spent, or none. *)
Publish ==
    /\ publishedAs' \in {0, activityNow.session} /\ publishedAs' # publishedAs
    /\ UNCHANGED <<heldClaim, claimsMade, activityNow, processRuns, operatorWait, approvals,
                   transitions, orphanMark, refusalOf, passAt, capturedOf, approvedEver,
                   cutsSoFar>>

(* authorize: the operator approves the claim and the session that runs. *)
Authorize ==
    /\ heldClaim # 0 /\ processRuns
    /\ LET mine == [found |-> TRUE, session |-> activityNow.session,
                    process |-> activityNow.process, used |-> FALSE]
       IN  /\ approvals[heldClaim] # mine
           /\ approvals' = [approvals EXCEPT ![heldClaim] = mine]
           /\ approvedEver' = approvedEver \cup {<<heldClaim, activityNow.process>>}
    /\ UNCHANGED <<heldClaim, claimsMade, activityNow, processRuns, operatorWait, publishedAs,
                   transitions, orphanMark, refusalOf, passAt, capturedOf, cutsSoFar>>

-----------------------------------------------------------------------------
(* approval: the approval of the claim that has not been used. *)
Approves(c, s) == approvals[c].found /\ ~approvals[c].used /\ approvals[c].session = s

(* _supersede_restarted_authorization: a transition that has not stopped its
   session is retired when that session has been replaced by one that runs, is
   published and is approved. *)
Superseded(c) ==
    /\ transitions[c].phase = "authorized" /\ c = heldClaim
    /\ publishedAs # 0 /\ publishedAs # transitions[c].session
    /\ Approves(c, publishedAs)
    /\ activityNow.session = publishedAs /\ processRuns
    /\ activityNow.process = approvals[c].process

(* _capacity_candidate: the transition under way, or what is published; more
   than one transition under way is refused. *)
Underway == {c \in ClaimIds : transitions[c].phase \in Unfinished /\ ~Superseded(c)}

CandidateOf == IF Underway = {} THEN publishedAs
               ELSE transitions[CHOOSE c \in Underway : TRUE].session

AfterSupersede ==
    [c \in ClaimIds |-> IF Superseded(c) THEN [transitions[c] EXCEPT !.phase = "superseded"]
                        ELSE transitions[c]]

(* The transition the approved claim needs, and whether the file there says
   otherwise. *)
Expected(c) == [phase |-> "authorized", session |-> approvals[c].session,
                process |-> approvals[c].process]

Stale(old, new) == [old EXCEPT !.phase = "authorized"] # new

(* A pass takes up a candidate the operator approved.  quiesce_authorized
   offers every published session and every transition under way. *)
Offered == {publishedAs} \cup {transitions[c].session : c \in {d \in ClaimIds :
                                transitions[d].phase \in Unfinished}}

(* A recovery that is complete, as the ledger and the transition agree. *)
Completed(c) ==
    /\ transitions[c].phase = "complete" /\ c = heldClaim
    /\ orphanMark = [claim |-> c, session |-> transitions[c].session]

(* A recovery that is complete, its approval not yet used. *)
Unspent(c) ==
    Completed(c) /\ approvals[c].session = transitions[c].session /\ ~approvals[c].used

Begin ==
    /\ passAt = NoPass /\ heldClaim # 0 /\ ~Unspent(heldClaim)
    /\ \E s \in Offered \ {0} : Approves(heldClaim, s)
    /\ transitions' = LET old == AfterSupersede[heldClaim]
                      IN  IF old.phase \in {"none", "superseded"}
                             /\ Approves(heldClaim, CandidateOf)
                             /\ \A c, d \in Underway : c = d
                          THEN [AfterSupersede EXCEPT ![heldClaim] = Expected(heldClaim)]
                          ELSE AfterSupersede
    /\ LET old == AfterSupersede[heldClaim]
           refused == \/ \E c, d \in Underway : c # d
                      \/ CandidateOf = 0
                      \/ ~Approves(heldClaim, CandidateOf)
                      \/ /\ old.phase \notin {"none", "superseded"}
                         /\ Stale(old, Expected(heldClaim))
       IN  IF refused
           THEN refusalOf' = heldClaim /\ UNCHANGED passAt
           ELSE /\ passAt' = [at |-> "authorized", claim |-> heldClaim,
                              session |-> approvals[heldClaim].session,
                              process |-> approvals[heldClaim].process]
                /\ UNCHANGED refusalOf
    /\ UNCHANGED <<heldClaim, claimsMade, activityNow, processRuns, operatorWait, publishedAs,
                   approvals, orphanMark, capturedOf, approvedEver, cutsSoFar>>

Refuse(claim) == refusalOf' = claim /\ passAt' = NoPass

(* Under the lane's lock: the process is stopped if the claim, the session and
   the process are the ones approved and nobody waits for the operator. *)
MayStop(p) ==
    /\ heldClaim = p.claim /\ activityNow.session = p.session /\ ~operatorWait
    /\ activityNow.process = p.process
    /\ processRuns \/ transitions[p.claim].phase \in Unfinished

Stop ==
    /\ passAt.at = "authorized"
    /\ IF MayStop(passAt)
       THEN /\ processRuns' = FALSE /\ passAt' = [passAt EXCEPT !.at = "killed"]
            /\ UNCHANGED refusalOf
       ELSE Refuse(passAt.claim) /\ UNCHANGED processRuns
    /\ UNCHANGED <<heldClaim, claimsMade, activityNow, operatorWait, publishedAs, approvals,
                   transitions, orphanMark, capturedOf, approvedEver, cutsSoFar>>

WritePhase(phase) == transitions' = [transitions EXCEPT ![passAt.claim].phase = phase]

WriteStopped ==
    /\ passAt.at = "killed" /\ WritePhase("stopped")
    /\ passAt' = [passAt EXCEPT !.at = "stopped"]
    /\ UNCHANGED <<heldClaim, claimsMade, activityNow, processRuns, operatorWait, publishedAs,
                   approvals, orphanMark, refusalOf, capturedOf, approvedEver, cutsSoFar>>

(* The capture covers the claims the lane holds now: a claim that has moved
   since is refused. *)
CaptureStopped ==
    /\ passAt.at = "stopped"
    /\ IF heldClaim = passAt.claim
       THEN /\ capturedOf' = [capturedOf EXCEPT ![passAt.claim] = passAt.process]
            /\ WritePhase("captured") /\ passAt' = [passAt EXCEPT !.at = "captured"]
            /\ UNCHANGED refusalOf
       ELSE Refuse(passAt.claim) /\ UNCHANGED <<capturedOf, transitions>>
    /\ UNCHANGED <<heldClaim, claimsMade, activityNow, processRuns, operatorWait, publishedAs,
                   approvals, orphanMark, approvedEver, cutsSoFar>>

(* Under the ledger's lock: the claim is marked, if it is still the same and the
   approval is too. *)
StillApproved(p) == heldClaim = p.claim /\ Approves(p.claim, p.session)

MarkClaim ==
    /\ passAt.at = "captured"
    /\ IF StillApproved(passAt)
       THEN /\ orphanMark' = [claim |-> passAt.claim, session |-> passAt.session]
            /\ passAt' = [passAt EXCEPT !.at = "marked"] /\ UNCHANGED refusalOf
       ELSE Refuse(passAt.claim) /\ UNCHANGED orphanMark
    /\ UNCHANGED <<heldClaim, claimsMade, activityNow, processRuns, operatorWait, publishedAs,
                   approvals, transitions, capturedOf, approvedEver, cutsSoFar>>

Complete ==
    /\ passAt.at = "marked" /\ WritePhase("complete")
    /\ passAt' = [passAt EXCEPT !.at = "done"]
    /\ UNCHANGED <<heldClaim, claimsMade, activityNow, processRuns, operatorWait, publishedAs,
                   approvals, orphanMark, refusalOf, capturedOf, approvedEver, cutsSoFar>>

(* _consume_approval: the approval is used and the refusal forgotten. *)
Consume(c) ==
    /\ approvals' = [approvals EXCEPT ![c].used = TRUE] /\ refusalOf' = 0

Finish ==
    /\ passAt.at = "done" /\ Consume(passAt.claim) /\ passAt' = NoPass
    /\ UNCHANGED <<heldClaim, claimsMade, activityNow, processRuns, operatorWait, publishedAs,
                   transitions, orphanMark, capturedOf, approvedEver, cutsSoFar>>

(* quiesce_authorized: a recovery that is complete, but whose approval was not
   used before the service stopped, uses it first; an approval by another name
   is refused. *)
Reconcile ==
    /\ passAt = NoPass
    /\ \E c \in ClaimIds :
         /\ Completed(c)
         /\ IF approvals[c].session = transitions[c].session
            THEN Consume(c)
            ELSE refusalOf' = c /\ UNCHANGED approvals
    /\ UNCHANGED <<heldClaim, claimsMade, activityNow, processRuns, operatorWait, publishedAs,
                   transitions, orphanMark, passAt, capturedOf, approvedEver, cutsSoFar>>

-----------------------------------------------------------------------------
(* prune: what belongs to a claim nobody holds is removed. *)
Prune ==
    /\ passAt = NoPass
    /\ \E c \in ClaimIds \ {heldClaim} :
         /\ transitions[c] # NoTransition \/ approvals[c] # NoApproval
         /\ transitions' = [transitions EXCEPT ![c] = NoTransition]
         /\ approvals' = [approvals EXCEPT ![c] = NoApproval]
    /\ UNCHANGED <<heldClaim, claimsMade, activityNow, processRuns, operatorWait, publishedAs,
                   orphanMark, refusalOf, passAt, capturedOf, approvedEver, cutsSoFar>>

(* The service stops half way. *)
QuiesceCut ==
    /\ passAt # NoPass /\ cutsSoFar < MaxCuts
    /\ passAt' = NoPass /\ cutsSoFar' = cutsSoFar + 1
    /\ UNCHANGED <<heldClaim, claimsMade, activityNow, processRuns, operatorWait, publishedAs,
                   approvals, transitions, orphanMark, refusalOf, capturedOf, approvedEver>>

PassStep == Stop \/ WriteStopped \/ CaptureStopped \/ MarkClaim \/ Complete \/ Finish

QuiesceNext ==
    \/ ProcessEnds \/ Launched \/ ClaimMoves \/ WaitChanges \/ Publish \/ Authorize
    \/ Begin \/ PassStep \/ Reconcile \/ Prune \/ QuiesceCut

QuiesceSpec ==
    /\ QuiesceInit /\ [][QuiesceNext]_quiesceVars
    /\ WF_quiesceVars(PassStep) /\ WF_quiesceVars(Reconcile)

-----------------------------------------------------------------------------
OnlyApprovedProcessesAreStoppedStep ==
    passAt.at = "authorized" /\ passAt'.at = "killed" /\ processRuns =>
       <<heldClaim, activityNow.process>> \in approvedEver

(* The service stops a process only if the operator approved stopping that very
   process, for the claim the lane now holds. *)
OnlyApprovedProcessesAreStopped == [][OnlyApprovedProcessesAreStoppedStep]_quiesceVars

MarkedClaimsAreCapturedStep ==
    orphanMark' # orphanMark /\ orphanMark' # NoMark =>
       /\ capturedOf[orphanMark'.claim] \in
            {p \in Launches : <<orphanMark'.claim, p>> \in approvedEver}
       /\ Approves(orphanMark'.claim, orphanMark'.session)

(* A claim is marked for others to take only after a capture of it that followed
   the stop of the process approved, on an approval that is not used yet. *)
MarkedClaimsAreCaptured == [][MarkedClaimsAreCapturedStep]_quiesceVars

FinishedRecoveriesSpendApprovalsState ==
    ~(\E c \in ClaimIds :
        /\ transitions[c].phase = "complete" /\ c = heldClaim
        /\ orphanMark = [claim |-> c, session |-> transitions[c].session]
        /\ approvals[c].session = transitions[c].session
        /\ ~approvals[c].used)

(* The approval of a completed recovery is used in the end, even if the service
   stopped before it could. *)
FinishedRecoveriesSpendApprovals == []<>FinishedRecoveriesSpendApprovalsState

(* Whatever the service acts for was approved, and what it marks it captured
   after stopping the process that was. *)
QuiesceInv ==
    /\ QuiesceTypeOK
    /\ passAt \in [at : {"idle", "authorized", "killed", "stopped", "captured", "marked", "done"},
                   claim : 0..MaxClaims, session : 0..MaxLaunches, process : 0..MaxLaunches]
    /\ orphanMark \in [claim : 0..MaxClaims, session : 0..MaxLaunches]
    /\ capturedOf \in [ClaimIds -> 0..MaxLaunches] /\ heldClaim <= claimsMade
    /\ \A c \in ClaimIds : approvals[c].found =>
          approvals[c].process \in Launches /\ <<c, approvals[c].process>> \in approvedEver
    /\ passAt.at # "idle" =>
          /\ passAt.claim \in ClaimIds /\ passAt.process \in Launches
          /\ <<passAt.claim, passAt.process>> \in approvedEver
    /\ passAt.at = "captured" => capturedOf[passAt.claim] = passAt.process

-----------------------------------------------------------------------------
(***************************************************************************)
(* Taking an orphaned claim from a lane whose session is dead.  A peer     *)
(* reads the evidence (prepare_takeover); the ledger's transition checks   *)
(* it again, writes a fence to the activity file of the dead session and   *)
(* then publishes the take.  The hooks of a session with a fence whose     *)
(* take is published deny its tool calls, even when it is resumed.         *)
(***************************************************************************)

CONSTANTS
    FencedPeers,           \* lanes that may take the claim
    MaxGenerations, \* model bound: claims the first lane makes
    MaxMarks        \* model bound: orphan marks

VARIABLES
    claimOwner,     \* "lane", a peer, or "nobody"
    generation,     \* the claim's generation
    deathMark,      \* the orphan mark, 0 when there is none
    marksMade,      \* model bound: marks so far
    recorded,       \* activity.json: the session recorded and whether its process runs
    running,        \* the session that runs in the lane, 0 for none
    fence,          \* the ownership_fence of activity.json
    publishedTakes, \* the fences of the takes in the issue's history
    evidence,       \* what each peer's takeover has read
    taker,          \* the peer whose take has written its fence, "nobody" for none
    verdict,        \* what the hook said to the last tool call
    takenFrom       \* ghost: the session a claim was last taken from

takeVars == <<claimOwner, generation, deathMark, marksMade, recorded, running, fence,
              publishedTakes, evidence, taker, verdict, takenFrom>>

SessionNumbers == 1..MaxGenerations
NoFence == [session |-> 0, by |-> "nobody", generation |-> 0, mark |-> 0]
NoEvidence == [generation |-> 0, mark |-> 0]

TakeoversTypeOK ==
    /\ claimOwner \in FencedPeers \cup {"lane", "nobody"} /\ taker \in FencedPeers \cup {"nobody"}
    /\ {generation, running, takenFrom} \subseteq 0..MaxGenerations
    /\ {deathMark, marksMade} \subseteq 0..MaxMarks
    /\ recorded \in [session : 1..MaxGenerations, alive : BOOLEAN]
    /\ fence \in [session : 0..MaxGenerations, by : FencedPeers \cup {"nobody"},
                  generation : 0..MaxGenerations, mark : 0..MaxMarks]
    /\ evidence \in [FencedPeers -> [generation : 0..MaxGenerations, mark : 0..MaxMarks]]
    /\ verdict \in {"none", "allowed", "denied"}

TakeoversInit ==
    /\ claimOwner = "lane" /\ generation = 1 /\ deathMark = 0 /\ marksMade = 0
    /\ recorded = [session |-> 1, alive |-> TRUE] /\ running = 1
    /\ fence = NoFence /\ publishedTakes = {}
    /\ evidence = [p \in FencedPeers |-> NoEvidence] /\ taker = "nobody"
    /\ verdict = "none" /\ takenFrom = 0

-----------------------------------------------------------------------------
(* stale_session: the session the fence names, once the take is published. *)
StaleSession(s) == fence.session = s /\ fence \in publishedTakes

(* The lane's session ends; one is started, natively, by hand or by the service
   (which starts none that is fenced).  Its first hook records it, unless it is
   fenced. *)
SessionEnds ==
    /\ running # 0 /\ running' = 0
    /\ recorded' = IF recorded.session = running THEN [recorded EXCEPT !.alive = FALSE]
                   ELSE recorded
    /\ UNCHANGED <<claimOwner, generation, deathMark, marksMade, fence, publishedTakes,
                   evidence, taker, verdict, takenFrom>>

SessionStarts ==
    /\ running = 0
    /\ \E s \in SessionNumbers :
         /\ s = recorded.session \/ s = recorded.session + 1
         /\ running' = s
         /\ recorded' = IF StaleSession(s) THEN recorded ELSE [session |-> s, alive |-> TRUE]
    /\ UNCHANGED <<claimOwner, generation, deathMark, marksMade, fence, publishedTakes,
                   evidence, taker, verdict, takenFrom>>

ToolCall ==
    /\ running # 0
    /\ verdict' = IF StaleSession(running) THEN "denied" ELSE "allowed"
    /\ UNCHANGED <<claimOwner, generation, deathMark, marksMade, recorded, running, fence,
                   publishedTakes, evidence, taker, takenFrom>>

(* The sweep marks a claim whose session is dead, and withdraws the mark of one
   that is back; the claim is given up and made again. *)
Sweep ==
    /\ taker = "nobody" /\ claimOwner = "lane"
    /\ \/ /\ deathMark = 0 /\ ~recorded.alive /\ marksMade < MaxMarks
          /\ marksMade' = marksMade + 1 /\ deathMark' = marksMade + 1
       \/ /\ deathMark # 0 /\ recorded.alive /\ deathMark' = 0 /\ UNCHANGED marksMade
    /\ UNCHANGED <<claimOwner, generation, recorded, running, fence, publishedTakes, evidence,
                   taker, verdict, takenFrom>>

ClaimAgain ==
    /\ taker = "nobody"
    /\ \/ claimOwner # "nobody" /\ claimOwner' = "nobody" /\ UNCHANGED generation
       \/ /\ claimOwner = "nobody" /\ running # 0 /\ ~StaleSession(running)
          /\ generation < MaxGenerations
          /\ claimOwner' = "lane" /\ generation' = generation + 1
    /\ deathMark' = 0
    /\ UNCHANGED <<marksMade, recorded, running, fence, publishedTakes, evidence, taker,
                   verdict, takenFrom>>

-----------------------------------------------------------------------------
(* _require_dead: the process last recorded is known and does not run. *)
RequireDead == ~recorded.alive

(* prepare_takeover *)
Prepare(p) ==
    /\ claimOwner = "lane" /\ deathMark # 0 /\ RequireDead
    /\ evidence' = [evidence EXCEPT ![p] = [generation |-> generation, mark |-> deathMark]]
    /\ UNCHANGED <<claimOwner, generation, deathMark, marksMade, recorded, running, fence,
                   publishedTakes, taker, verdict, takenFrom>>

(* _taken, commit_takeover, with the ledger's lock held until the take is
   published: the evidence is of this generation and this mark, and the session
   is still dead; its fence is written. *)
FenceOf(p) == [session |-> recorded.session, by |-> p, generation |-> generation,
               mark |-> deathMark]

CommitTakeover(p) ==
    /\ taker = "nobody" /\ claimOwner = "lane" /\ deathMark # 0
    /\ evidence[p] = [generation |-> generation, mark |-> deathMark]
    /\ RequireDead
    /\ fence' = FenceOf(p) /\ taker' = p
    /\ UNCHANGED <<claimOwner, generation, deathMark, marksMade, recorded, running,
                   publishedTakes, evidence, verdict, takenFrom>>

PublishTake ==
    /\ taker # "nobody"
    /\ claimOwner' = taker /\ deathMark' = 0 /\ taker' = "nobody"
    /\ publishedTakes' = publishedTakes \cup {fence}
    /\ takenFrom' = fence.session
    /\ UNCHANGED <<generation, marksMade, recorded, running, fence, evidence, verdict>>

(* The peer's call is cut after the fence and before the take. *)
TakeCut ==
    /\ taker # "nobody" /\ taker' = "nobody"
    /\ UNCHANGED <<claimOwner, generation, deathMark, marksMade, recorded, running, fence,
                   publishedTakes, evidence, verdict, takenFrom>>

TakeoversNext ==
    \/ SessionEnds \/ SessionStarts \/ ToolCall \/ Sweep \/ ClaimAgain
    \/ \E p \in FencedPeers : Prepare(p) \/ CommitTakeover(p)
    \/ PublishTake \/ TakeCut

TakeoversSpec == TakeoversInit /\ [][TakeoversNext]_takeVars

-----------------------------------------------------------------------------
TakenSessionsAreSilentStep ==
    ToolCall /\ verdict' = "allowed" /\ fence \in publishedTakes =>
       running # takenFrom

(* The session a claim was last taken from makes no tool call any more, however
   it comes back and whenever it did; but an attempt at a later take that was
   cut may have written its fence over the one that held it. *)
TakenSessionsAreSilent == [][TakenSessionsAreSilentStep]_takeVars

UnpublishedFencesDenyNobodyStep ==
    ToolCall /\ verdict' = "denied" =>
       \E f \in publishedTakes : f.session = running

(* A take that was cut before it was published denies nobody anything. *)
UnpublishedFencesDenyNobody == [][UnpublishedFencesDenyNobodyStep]_takeVars

(* A mark is made anew for each death, so no fence is written twice, and the one
   in force is that of the last take once its take is published. *)
TakeoversInv ==
    /\ TakeoversTypeOK
    /\ deathMark <= marksMade
    /\ taker # "nobody" => (fence.mark = deathMark /\ deathMark # 0)
    /\ \A f \in publishedTakes : f.mark \in 1..marksMade /\ f.mark # deathMark
    /\ fence \in publishedTakes => takenFrom = fence.session
=============================================================================
