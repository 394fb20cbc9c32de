------------------------------ MODULE Departures ------------------------------
(***************************************************************************)
(* How a lane leaves and what becomes of its work.  The supervisor returns *)
(* the work of a lane proved dead or ended at a prompt nobody can answer   *)
(* (abandon); a lane is retired on purpose, keeping its record (withdraw)  *)
(* or with it (the operator's retire).  Each pass is a series of ledger    *)
(* calls of its own, between which other lanes act; passes over the same   *)
(* lane exclude each other by that lane's checkpoint lock.                 *)
(***************************************************************************)
EXTENDS Integers, FiniteSets

CONSTANTS
    DepLane,        \* lanes
    Nobody,         \* no lane
    Work,           \* issues
    MaxDepOffers    \* model bound: offers made

VARIABLES
    mark,           \* the roster: "listed", "retired" or "removed"
    proc,           \* what supervision knows of the lane's session
    work,           \* the ledger
    offersMade,     \* offers made so far
    job,            \* the passes under way, by who runs them
    strays          \* ghost: work given to a peer that had left, or was leaving

depVars == <<mark, proc, work, offersMade, job, strays>>

Runner == {"supervisor", "operator"}
NoOffer == [to |-> Nobody, id |-> 0]
NoJob == [kind |-> "none", lane |-> Nobody, step |-> "", todo |-> {},
          seen |-> <<>>, live |-> {}, returned |-> {}]

DeparturesTypeOK ==
    /\ mark \in [DepLane -> {"listed", "retired", "removed"}]
    /\ proc \in [DepLane -> {"running", "prompt", "stopped", "dead"}]
    /\ \A w \in Work : /\ work[w].owner \in DepLane \cup {Nobody}
                       /\ work[w].offer.id \in 0..MaxDepOffers
                       /\ work[w].asks \in DepLane \cup {Nobody}
    /\ \A r \in Runner : job[r].kind \in {"none", "abandon", "withdraw", "retire"}
    /\ strays \subseteq Work

DeparturesInit ==
    /\ mark = [l \in DepLane |-> "listed"]
    /\ proc = [l \in DepLane |-> "running"]
    /\ work = [w \in Work |-> [owner |-> Nobody, ready |-> FALSE, closed |-> FALSE,
                               blocked |-> FALSE, offer |-> NoOffer,
                               asks |-> Nobody]]
    /\ offersMade = 0 /\ job = [r \in Runner |-> NoJob]
    /\ strays = {}

Listed(l) == mark[l] = "listed"
Acts(l) == Listed(l) /\ proc[l] = "running"
Locked(l) == \E r \in Runner : job[r].kind # "none" /\ job[r].lane = l
Held(l) == {w \in Work : work[w].owner = l}
(* Finished work not yet integrated stays with its lane. *)
Awaits(r) == r.ready /\ ~r.closed

-----------------------------------------------------------------------------
(* issues.change, as far as these passes reach it.  It knows the lanes a
   caller names and asks nothing of the roster. *)
Unheld(r) == [r EXCEPT !.owner = Nobody, !.ready = FALSE, !.offer = NoOffer,
                       !.asks = Nobody]

Releasable(l, r) == r.owner = l /\ ~Awaits(r)

Claimable(r) == r.owner = Nobody /\ r.offer = NoOffer /\ ~r.closed

OnLedger(w, r) == work' = [work EXCEPT ![w] = r]

-----------------------------------------------------------------------------
(* The lanes. *)
LaneOnly == UNCHANGED <<mark, proc, job, strays>>

Take(l, w) ==
    /\ Acts(l) /\ Claimable(work[w])
    /\ OnLedger(w, [work[w] EXCEPT !.owner = l])
    /\ LaneOnly /\ UNCHANGED offersMade

Hand(w, to) ==
    LET r == work[w]
    IN  /\ r.owner # Nobody /\ Acts(r.owner) /\ to # r.owner
        /\ mark[to] # "removed"
        /\ r.offer = NoOffer /\ offersMade < MaxDepOffers
        /\ offersMade' = offersMade + 1
        /\ OnLedger(w, [r EXCEPT !.offer = [to |-> to, id |-> offersMade + 1]])
        /\ LaneOnly

Accept(w) ==
    LET r == work[w]
    IN  /\ r.offer # NoOffer /\ Acts(r.offer.to) /\ ~r.closed
        /\ OnLedger(w, [Unheld(r) EXCEPT !.owner = r.offer.to])
        /\ LaneOnly /\ UNCHANGED offersMade

Ask(l, w) ==
    /\ Acts(l) /\ work[w].owner \notin {Nobody, l}
    /\ work[w].offer = NoOffer /\ work[w].asks = Nobody
    /\ OnLedger(w, [work[w] EXCEPT !.asks = l])
    /\ LaneOnly /\ UNCHANGED offersMade

Finish(w) ==
    /\ work[w].owner # Nobody /\ Acts(work[w].owner) /\ ~work[w].ready
    /\ OnLedger(w, [work[w] EXCEPT !.ready = TRUE])
    /\ LaneOnly /\ UNCHANGED offersMade

(* The operator decides about an issue, or the forge closes it. *)
OperatorBlock(w) ==
    /\ work[w].owner # Nobody /\ Acts(work[w].owner)
    /\ OnLedger(w, [work[w] EXCEPT !.blocked = ~@])
    /\ LaneOnly /\ UNCHANGED offersMade

Close(w) ==
    /\ ~work[w].closed
    /\ OnLedger(w, [work[w] EXCEPT !.closed = TRUE])
    /\ LaneOnly /\ UNCHANGED offersMade

Change(l, from, to) ==
    /\ proc[l] \in from /\ Listed(l)
    /\ proc' = [proc EXCEPT ![l] = to]
    /\ UNCHANGED <<mark, work, offersMade, job, strays>>

Die(l) == Change(l, {"running", "stopped"}, "dead")

(* Resumed without a terminal and held at a native prompt. *)
Park(l) == Change(l, {"running"}, "prompt")

Restart(l) ==
    /\ \A r \in Runner : job[r].kind \in {"none", "abandon"} \/ job[r].lane # l
    /\ Change(l, {"stopped", "dead"}, "running")

-----------------------------------------------------------------------------
(* abandon: begun for a dead lane, or for one whose prompt was ended. *)
Begin(r, kind, l, step, todo) ==
    job' = [job EXCEPT ![r] = [NoJob EXCEPT !.kind = kind, !.lane = l,
                !.step = step, !.todo = todo,
                !.live = {p \in DepLane : kind = "abandon" /\ Listed(p)}]]

OffersTo(l) == {w \in Work : work[w].offer.to = l}

ProvedDead(l) == Listed(l) /\ proc[l] = "dead"

ReturnWork(l) ==
    /\ job["supervisor"] = NoJob /\ ~Locked(l)
    /\ Begin("supervisor", "abandon", l, "decline", OffersTo(l))
    /\ UNCHANGED <<mark, work, offersMade, strays>>

DeadLane(l) == ProvedDead(l) /\ ReturnWork(l) /\ UNCHANGED proc

EndHeadless(l) ==
    /\ Listed(l) /\ proc[l] = "prompt"
    /\ proc' = [proc EXCEPT ![l] = "stopped"]
    /\ ReturnWork(l)

(* A pass read the offers to its lane once, and declines each by the id it
   read: an offer that is another one by now is left alone by abandon and
   stops the other two. *)
Step(r, j) == job' = [job EXCEPT ![r] = j]

DeclineAbandoned(w) ==
    LET j == job["supervisor"]
    IN  /\ j.kind = "abandon" /\ j.step = "decline" /\ w \in j.todo
        /\ Step("supervisor", [j EXCEPT !.todo = @ \ {w}])
        /\ IF work[w].offer.to = j.lane
             THEN OnLedger(w, [work[w] EXCEPT !.offer = NoOffer])
             ELSE UNCHANGED work
        /\ UNCHANGED <<mark, proc, offersMade, strays>>

Look ==
    LET j == job["supervisor"]
    IN  /\ j.kind = "abandon" /\ j.step = "decline" /\ j.todo = {}
        /\ Step("supervisor", [j EXCEPT !.step = "holding", !.todo = Held(j.lane),
                                        !.seen = [w \in Held(j.lane) |-> work[w]]])
        /\ UNCHANGED <<mark, proc, work, offersMade, strays>>

Keeps(r) == r.offer # NoOffer \/ Awaits(r)

BadGiven_Anyone(j, r) == j.live \ {j.lane}

Given(j, r) == IF r.asks \in j.live \ {j.lane} /\ ~r.closed THEN {r.asks} ELSE {}

(* One claim of a dead lane: kept if the snapshot shows it finished or
   offered, else released, which the ledger may refuse. *)
ReleaseAbandoned(w) ==
    LET j == job["supervisor"]
        s == j.seen[w]
        next == [j EXCEPT !.todo = @ \ {w}]
    IN  /\ j.kind = "abandon" /\ j.step = "holding" /\ w \in j.todo
        /\ IF ~Keeps(s) /\ Releasable(j.lane, work[w])
             THEN /\ OnLedger(w, Unheld(work[w]))
                  /\ Step("supervisor", IF Given(j, s) = {} THEN next
                                        ELSE [j EXCEPT !.step = "give", !.returned = {w}])
             ELSE Step("supervisor", next) /\ UNCHANGED work
        /\ UNCHANGED <<mark, proc, offersMade, strays>>

(* ... and claimed in a second call for the peer the snapshot shows asking. *)
Give(w) ==
    LET j == job["supervisor"]
        p == CHOOSE q \in Given(j, j.seen[w]) : TRUE
    IN  /\ j.step = "give" /\ w \in j.returned
        /\ Step("supervisor", [j EXCEPT !.step = "holding", !.todo = @ \ {w},
                                        !.returned = {}])
        /\ IF Claimable(work[w])
             THEN /\ OnLedger(w, [work[w] EXCEPT !.owner = p])
                  /\ strays' = IF Listed(p) /\ ~Locked(p) THEN strays ELSE strays \cup {w}
             ELSE UNCHANGED <<work, strays>>
        /\ UNCHANGED <<mark, proc, offersMade>>

Silent(l) ==
    work' = [w \in Work |-> IF work[w].asks = l
                            THEN [work[w] EXCEPT !.asks = Nobody] ELSE work[w]]

SilenceAbandoned ==
    LET j == job["supervisor"]
    IN  /\ j.kind = "abandon" /\ j.step = "holding" /\ j.todo = {}
        /\ Silent(j.lane)
        /\ Step("supervisor", [j EXCEPT !.step = "announce", !.seen = <<>>, !.live = {}])
        /\ UNCHANGED <<mark, proc, offersMade, strays>>

(* The lane's leases go with its work; every lane that can act is told. *)
Announce ==
    /\ job["supervisor"].step = "announce"
    /\ job' = [job EXCEPT !["supervisor"] = NoJob]
    /\ UNCHANGED <<mark, proc, work, offersMade, strays>>

-----------------------------------------------------------------------------
(* withdraw and the operator's retire return the work the same way. *)
ToReturn(l) == Held(l)

MustStay(l) == {w \in Held(l) : Awaits(work[w]) \/ work[w].blocked}

StartReturn(r, kind, l) ==
    /\ job[r] = NoJob /\ ~Locked(l) /\ Listed(l)
    /\ kind = IF r = "operator" THEN "retire" ELSE "withdraw"
    /\ proc[l] \in {"stopped", "dead"}
    /\ MustStay(l) = {}
    /\ Begin(r, kind, l, "release", ToReturn(l))
    /\ UNCHANGED <<mark, proc, work, offersMade, strays>>

(* A refused call ends the pass and the lane stays. *)
ReturnOne(r, w) ==
    LET j == job[r]
        done == IF j.step = "release" THEN Unheld(work[w])
                ELSE [work[w] EXCEPT !.offer = NoOffer]
        allowed == IF j.step = "release" THEN Releasable(j.lane, work[w])
                   ELSE work[w].offer.to = j.lane
    IN  /\ j.kind \in {"withdraw", "retire"} /\ w \in j.todo
        /\ IF allowed
             THEN OnLedger(w, done) /\ Step(r, [j EXCEPT !.todo = @ \ {w}])
             ELSE job' = [job EXCEPT ![r] = NoJob] /\ UNCHANGED work
        /\ UNCHANGED <<mark, proc, offersMade, strays>>

(* The offers were read with the claims; one made since is not seen. *)
DeclineNext(r) ==
    LET j == job[r]
    IN  /\ j.kind \in {"withdraw", "retire"} /\ j.step = "release" /\ j.todo = {}
        /\ Step(r, [j EXCEPT !.step = "offers", !.todo = OffersTo(j.lane)])
        /\ UNCHANGED <<mark, proc, work, offersMade, strays>>

BadLeave_Loud(r) == UNCHANGED work

Leave(r) == Silent(job[r].lane)

LeaveRoster(j) ==
    mark' = [mark EXCEPT ![j.lane] = IF j.kind = "retire" THEN "removed" ELSE "retired"]

Retire(r) ==
    LET j == job[r]
    IN  /\ j.kind \in {"withdraw", "retire"} /\ j.step = "offers" /\ j.todo = {}
        /\ Leave(r)
        /\ LeaveRoster(j)
        /\ job' = [job EXCEPT ![r] = NoJob]
        /\ UNCHANGED <<proc, offersMade, strays>>

-----------------------------------------------------------------------------
SupervisorStep ==
    \/ \E l \in DepLane : DeadLane(l) \/ EndHeadless(l)
    \/ \E w \in Work : DeclineAbandoned(w) \/ ReleaseAbandoned(w) \/ Give(w)
    \/ Look \/ SilenceAbandoned \/ Announce

ReturnStep(r) == (\E w \in Work : ReturnOne(r, w)) \/ DeclineNext(r) \/ Retire(r)

DeparturesNext ==
    \/ \E l \in DepLane, w \in Work : Take(l, w) \/ Hand(w, l) \/ Ask(l, w)
    \/ \E w \in Work : Accept(w) \/ Finish(w) \/ OperatorBlock(w) \/ Close(w)
    \/ \E l \in DepLane : Die(l) \/ Park(l) \/ Restart(l)
    \/ SupervisorStep
    \/ \E r \in Runner, l \in DepLane, k \in {"withdraw", "retire"} :
            StartReturn(r, k, l)
    \/ \E r \in Runner : ReturnStep(r)

(* The supervisor polls for ever, every poll goes through every lane proved
   dead, and every ledger call is bounded by a timeout. *)
DeparturesSpec ==
    /\ DeparturesInit /\ [][DeparturesNext]_depVars /\ WF_depVars(SupervisorStep)
    /\ \A l \in DepLane : SF_depVars(DeadLane(l))
    /\ \A r \in Runner : WF_depVars(ReturnStep(r))

-----------------------------------------------------------------------------
(* A lane that left owns nothing, but for work that the return of a dead
   peer's claims gave it while it was leaving or after: abandon names the live
   lanes once, at its start, and a leaving lane reads its claims once
   (retirement.py:187, 355, 401). *)
LeftLanesOwnOnlyStrays ==
    \A w \in Work : work[w].owner # Nobody /\ ~Listed(work[w].owner) => w \in strays

(* No lane that left is waited for: its requests went with it. *)
LeftLanesAskForNothing ==
    \A w \in Work : work[w].asks = Nobody \/ Listed(work[w].asks)
                    \/ w \in strays

BlockedWorkIsNotRetiredAwayStep ==
    \A r \in Runner, l \in DepLane :
       (job[r] = NoJob /\ job'[r].kind \in {"withdraw", "retire"} /\ job'[r].lane = l)
          => \A w \in Held(l) : ~work[w].blocked

(* A retirement of either kind loses no decision the operator owes: work the
   operator blocked when the pass began is never put back in the pool by it. *)
BlockedWorkIsNotRetiredAway == [][BlockedWorkIsNotRetiredAwayStep]_depVars

GiftsWereAskedForStep ==
    \A w \in Work :
       (job["supervisor"].step = "give" /\ work[w].owner = Nobody
        /\ work'[w].owner # Nobody /\ job'["supervisor"].step = "holding")
          => /\ job["supervisor"].seen[w].asks = work'[w].owner
             /\ ~job["supervisor"].seen[w].closed

(* A dead lane's return moves a claim to a peer only when that peer had asked
   for it, and never moves an issue the forge had closed when it was read. *)
GiftsWereAskedFor == [][GiftsWereAskedForStep]_depVars

DeadLanesGiveBackState ==
    \A l \in DepLane :
        ~(/\ ProvedDead(l) /\ Held(l) # {}
          /\ \A w \in Held(l) : ~Awaits(work[w]) /\ work[w].offer = NoOffer)

(* A lane that stays dead gives back everything but finished work and work an
   offer is pending for, and its peers are told. *)
DeadLanesGiveBack == []<>DeadLanesGiveBackState

Rows == [owner : DepLane \cup {Nobody}, ready : BOOLEAN, closed : BOOLEAN,
         blocked : BOOLEAN, asks : DepLane \cup {Nobody},
         offer : [to : DepLane \cup {Nobody}, id : 0..MaxDepOffers]]

IsJob(j) ==
    /\ j = [kind |-> j.kind, lane |-> j.lane, step |-> j.step, todo |-> j.todo,
            seen |-> j.seen, live |-> j.live, returned |-> j.returned]
    /\ j.kind \in {"none", "abandon", "withdraw", "retire"}
    /\ j.lane \in DepLane \cup {Nobody}
    /\ j.todo \subseteq Work /\ j.live \subseteq DepLane /\ j.returned \subseteq Work

(* What a leaving lane still holds is on its pass's list, or was given to it
   since; what the supervisor is about to give was asked for when it read it. *)
DeparturesInv ==
    /\ DeparturesTypeOK /\ LeftLanesOwnOnlyStrays /\ LeftLanesAskForNothing
    /\ work \in [Work -> Rows] /\ offersMade \in 0..MaxDepOffers
    /\ DOMAIN job = Runner /\ \A r \in Runner : IsJob(job[r])
    /\ \A r \in Runner : job[r].kind \in {"withdraw", "retire"} =>
          /\ job[r].lane \in DepLane /\ Listed(job[r].lane)
          /\ proc[job[r].lane] \in {"stopped", "dead"}
          /\ job[r].step \in {"release", "offers"}
          /\ Held(job[r].lane) \subseteq
                strays \cup (IF job[r].step = "release" THEN job[r].todo ELSE {})
    /\ \A r \in Runner : job[r].step \in {"decline", "holding", "give", "announce"}
          => job[r].kind = "abandon"
    /\ job["operator"].kind # "abandon"
    /\ \A r, q \in Runner : job[r].kind # "none" /\ job[q].kind # "none"
          /\ job[r].lane = job[q].lane => r = q
    /\ job["supervisor"].step = "give" =>
          \A w \in job["supervisor"].returned :
             Given(job["supervisor"], job["supervisor"].seen[w]) # {}
===============================================================================
