---------------------------- MODULE LapsedClaims ----------------------------
(***************************************************************************)
(* Claims whose holder shows no work: the ladder of an overdue claim, and  *)
(* the sweep over the claims of dead lanes.                                *)
(* The parts share no state: each has its own Init and Next.               *)
(***************************************************************************)
EXTENDS Integers, Sequences, FiniteSets

(***************************************************************************)
(* The ladder of an overdue claim: while its holder shows no work, each    *)
(* poll wakes the holder, then offers the claim to a peer, then releases   *)
(* it.  A poll reads the ledger once and then makes its calls one by one,  *)
(* each under the ledger's lock, by issue and holder and not by claim; the *)
(* lanes act between them.  Ages are in windows of inactive_after, counted *)
(* up as far as they matter.                                               *)
(***************************************************************************)

CONSTANTS
    Owner,          \* lanes that may hold the claim
    Free,           \* no lane
    IdleAfter,      \* claim_idle_after, in windows
    StalledAfter,   \* stalled_after, in windows
    ClaimLasts,     \* windows from the claim to its deadline
    Old,            \* model bound: windows counted since a ladder's step or a wake
    MaxHolds        \* model bound: claims of the issue

VARIABLES
    holder,         \* who holds the issue
    hold,           \* the claim's number
    pending,        \* the peer an offer is pending for
    finished,       \* the claim reported ready
    age,            \* windows since: the claim, its progress, the ladder's
                    \* step, the offer, the wake attempt, the holder's tool
    held,           \* the holder's quiet is not its own to end (holder_held)
    ladder,         \* overdue_recovery: the claim and the step reached
    wake,           \* the claim the last wake attempt was for
    marker,         \* idle_blocker: the claim the operator was told about
    told,           \* ghost: the claims the operator was told of
    retold,         \* ghost: some claim it was told of again
    plan,           \* the calls the poll under way still makes
    warned          \* ghost: the claim last asked to go on, and how long ago

overdueVars == <<holder, hold, pending, finished, age, held, ladder, wake,
                 marker, told, retold, plan, warned>>

NoLadder == [of |-> 0, step |-> "none"]
NoPlan == [of |-> 0, by |-> Free, to |-> Free, calls |-> <<>>]

(* The windows after which an age makes no more difference. *)
Counted(k) ==
    CASE k = "claim" -> ClaimLasts + 1
      [] k = "offer" -> StalledAfter
      [] k \in {"progress", "tool"} -> IdleAfter
      [] OTHER -> Old

Kinds == {"claim", "progress", "step", "offer", "wake", "tool"}

OverdueTypeOK ==
    /\ holder \in Owner \cup {Free} /\ hold \in 0..MaxHolds
    /\ pending \in Owner \cup {Free} /\ finished \in BOOLEAN
    /\ DOMAIN age = Kinds /\ \A k \in Kinds : age[k] \in 0..Counted(k)
    /\ held \in BOOLEAN
    /\ ladder.step \in {"none", "wake", "offer", "release"}
    /\ wake \in 0..MaxHolds /\ marker \in 0..MaxHolds
    /\ warned.age \in 0..1 /\ retold \in BOOLEAN

OverdueInit ==
    /\ holder = Free /\ hold = 0 /\ pending = Free /\ finished = FALSE
    /\ age = [k \in Kinds |-> 0]
    /\ held = FALSE
    /\ ladder = NoLadder /\ wake = 0 /\ marker = 0
    /\ told = {} /\ retold = FALSE /\ plan = NoPlan
    /\ warned = [of |-> 0, age |-> 0]

-----------------------------------------------------------------------------
(* The lanes, the operator and time. *)
Later(k) == IF age[k] < Counted(k) THEN age[k] + 1 ELSE age[k]

(* The ages that mean something now. *)
Counts(k) ==
    CASE k = "offer" -> pending # Free
      [] k = "step" -> ladder.step = "wake"
      [] k = "wake" -> ladder.step = "wake" /\ wake = ladder.of
      [] OTHER -> holder # Free

Tick ==
    /\ plan.calls = <<>>
    /\ age' = [k \in DOMAIN age |-> IF Counts(k) THEN Later(k) ELSE 0]
    /\ warned' = [warned EXCEPT !.age = IF warned.of = hold THEN 1 ELSE 0]
    /\ UNCHANGED <<holder, hold, pending, finished, held, ladder, wake, marker, told,
                   retold, plan>>

Unheld == /\ holder' = Free /\ pending' = Free /\ finished' = FALSE

HeldBy(l) ==
    /\ hold < MaxHolds
    /\ holder' = l /\ hold' = hold + 1 /\ pending' = Free /\ finished' = FALSE
    /\ age' = [age EXCEPT !["claim"] = 0, !["progress"] = 0, !["tool"] = 0]

Apart == UNCHANGED <<held, ladder, wake, marker, told, retold, plan, warned>>

Take(l) == holder = Free /\ HeldBy(l) /\ Apart

Answer(accepts) ==
    /\ pending # Free
    /\ \/ accepts /\ HeldBy(pending)
       \/ /\ ~accepts /\ pending' = Free
          /\ UNCHANGED <<holder, hold, finished, age>>
    /\ Apart

(* Any call of a lane is a tool it ran. *)
Runs(kinds) == age' = [k \in DOMAIN age |-> IF k \in kinds \cup {"tool"} THEN 0 ELSE age[k]]

GiveBack ==
    /\ holder # Free /\ ~finished
    /\ Runs({}) /\ Unheld /\ UNCHANGED hold /\ Apart

Hand(to) ==
    /\ holder \notin {Free, to} /\ pending = Free
    /\ Runs({"offer"}) /\ pending' = to
    /\ UNCHANGED <<holder, hold, finished>> /\ Apart

Report(ready) ==
    /\ holder # Free /\ ~finished
    /\ Runs({"progress"}) /\ finished' = ready
    /\ UNCHANGED <<holder, hold, pending>> /\ Apart

HolderWorks ==
    /\ holder # Free /\ age["tool"] # 0 /\ Runs({})
    /\ UNCHANGED <<holder, hold, pending, finished>> /\ Apart

(* The holder is at a native prompt, waits by its own account, or has a
   process its report named still running. *)
Excuse ==
    /\ held' = ~held
    /\ UNCHANGED <<holder, hold, pending, finished, age, ladder, wake,
                   marker, told, retold, plan, warned>>

(* The supervisor's wake prompts the lane for its ladder. *)
WakeHolder ==
    /\ ladder.step = "wake" /\ wake # ladder.of
    /\ wake' = ladder.of /\ age' = [age EXCEPT !["wake"] = 0]
    /\ UNCHANGED <<holder, hold, pending, finished, held, ladder,
                   marker, told, retold, plan, warned>>

-----------------------------------------------------------------------------
(* What a poll reads. *)
Overdue == age["claim"] > ClaimLasts /\ ~finished

Silent == age["tool"] >= 1

(* Apart from its lane's liveness: only a lane's sole claim is kept alive by
   tools it runs. *)
Idle(sole) ==
    /\ ~finished /\ age["progress"] >= IdleAfter
    /\ sole => age["tool"] >= IdleAfter

Ours == ladder.of = hold

Stays(sole) ==
    \/ finished \/ (pending # Free /\ ~(Ours /\ ladder.step = "offer"))
    \/ ~((Overdue /\ Silent) \/ Idle(sole)) \/ held

(* A silent holder is given a window from the wake attempt made for it, or
   from the window a wake that never came would have ended. *)
Elapsed(sole) ==
    IF Overdue /\ Silent /\ ~Idle(sole) /\ wake = hold /\ age["wake"] <= age["step"]
       /\ age["step"] - age["wake"] <= 1
    THEN age["wake"] ELSE age["step"]

(* issues.offer_state of an offer with no deadline of its own. *)
OfferOver == age["offer"] >= StalledAfter

BadLadder_Pending(sole, peer) ==
    IF ~Ours THEN <<"wake">>
    ELSE CASE ladder.step = "wake" /\ Elapsed(sole) >= 1 ->
                IF peer = Free THEN <<"toRelease", "release">> ELSE <<"offer", "toOffer">>
           [] ladder.step = "offer" /\ pending # Free /\ OfferOver ->
                <<"toRelease", "cancel", "release">>
           [] OTHER -> <<>>

Ladder(sole, peer) ==
    IF ~Ours THEN <<"wake">>
    ELSE CASE ladder.step = "wake" /\ Elapsed(sole) >= 1 ->
                IF peer = Free THEN <<"toRelease", "release">> ELSE <<"offer", "toOffer">>
           [] ladder.step = "offer" /\ pending = Free -> <<"toRelease", "release">>
           [] ladder.step = "offer" /\ OfferOver -> <<"toRelease", "cancel", "release">>
           [] OTHER -> <<>>

(* The operator is told once per claim that others wait on it. *)
Marker(sole, waited) ==
    IF hold = 0 THEN marker
    ELSE IF (waited /\ holder # Free /\ Idle(sole)) \/ marker = hold THEN hold ELSE 0

Poll(sole, peer, waited) ==
    /\ plan.calls = <<>> /\ peer # holder
    /\ LET calls == IF holder = Free \/ Stays(sole)
                    THEN IF ladder = NoLadder THEN <<>> ELSE <<"drop">>
                    ELSE Ladder(sole, peer)
       IN  plan' = IF calls = <<>> THEN NoPlan
                   ELSE [of |-> hold, by |-> holder, to |-> peer, calls |-> calls]
    /\ marker' = Marker(sole, waited)
    /\ LET tells == marker' = hold /\ marker # hold
       IN  /\ told' = IF tells THEN told \cup {hold} ELSE told
           /\ retold' = (retold \/ (tells /\ hold \in told))
    /\ UNCHANGED <<holder, hold, pending, finished, age, held, ladder, wake, warned>>

-----------------------------------------------------------------------------
(* The calls.  A step is recorded on whatever claim the issue has by then;
   a call the ledger refuses ends the poll. *)
Next1 == plan' = IF Len(plan.calls) = 1 THEN NoPlan
                 ELSE [plan EXCEPT !.calls = Tail(@)]

Refused == plan' = NoPlan

Reach(step) ==
    /\ Next1
    /\ ladder' = [of |-> plan.of, step |-> step]
    /\ age' = [age EXCEPT !["step"] = 0]
    /\ warned' = IF step = "wake" THEN [of |-> plan.of, age |-> 0] ELSE warned
    /\ UNCHANGED <<holder, hold, pending, finished>>

Drop == Next1 /\ ladder' = NoLadder
        /\ UNCHANGED <<holder, hold, pending, finished, age, warned>>

OfferPeer ==
    /\ IF holder = plan.by /\ pending = Free /\ ~finished
         THEN pending' = plan.to /\ age' = [age EXCEPT !["offer"] = 0] /\ Next1
         ELSE Refused /\ UNCHANGED <<pending, age>>
    /\ UNCHANGED <<holder, hold, finished, ladder, warned>>

Cancel ==
    /\ IF holder = plan.by /\ pending # Free
         THEN pending' = Free /\ Next1
         ELSE Refused /\ UNCHANGED pending
    /\ UNCHANGED <<holder, hold, finished, age, ladder, warned>>

Release ==
    /\ IF holder = plan.by /\ ~finished
         THEN Unheld /\ Next1
         ELSE Refused /\ UNCHANGED <<holder, pending, finished>>
    /\ UNCHANGED <<hold, age, ladder, warned>>

Call ==
    /\ plan.calls # <<>>
    /\ CASE Head(plan.calls) = "drop"       -> Drop
         [] Head(plan.calls) = "wake"       -> Reach("wake")
         [] Head(plan.calls) = "toOffer"   -> Reach("offer")
         [] Head(plan.calls) = "toRelease" -> Reach("release")
         [] Head(plan.calls) = "offer"      -> OfferPeer
         [] Head(plan.calls) = "cancel"     -> Cancel
         [] Head(plan.calls) = "release"    -> Release
    /\ UNCHANGED <<held, wake, marker, told, retold>>

OverduePoll == (\E sole, waited \in BOOLEAN, p \in Owner \cup {Free} : Poll(sole, p, waited)) \/ Call

OverdueNext ==
    \/ Tick \/ OverduePoll \/ WakeHolder \/ GiveBack \/ HolderWorks \/ Excuse
    \/ \E l \in Owner : Take(l) \/ Hand(l)
    \/ \E b \in BOOLEAN : Answer(b) \/ Report(b)

(* Time passes and the supervisor polls for ever. *)
OverdueSpec ==
    OverdueInit /\ [][OverdueNext]_overdueVars
    /\ WF_overdueVars(Tick) /\ WF_overdueVars(OverduePoll)

-----------------------------------------------------------------------------
ReleasedClaimsWereWarnedStep ==
    (plan.calls # <<>> /\ Head(plan.calls) = "release" /\ holder' = Free
      /\ holder # Free /\ plan.of = hold)
        => warned.of = hold /\ warned.age >= 1

(* No holder loses a claim unwarned.  When the supervisor releases a claim
   it was asked to go on with it at least a window earlier, and the holder has
   run no tool since that could have answered, unless it shares its attention
   with other claims; the exception is a claim taken anew after the poll read
   the issue, which the release by issue and holder cannot tell from the old
   one (supervision.py:5195, 5248). *)
ReleasedClaimsWereWarned == [][ReleasedClaimsWereWarnedStep]_overdueVars

OwnOffersAreLeftAloneStep ==
    (plan.calls = <<>> /\ plan'.calls # <<>> /\ pending # Free
      /\ ladder.of # hold)
        => \A i \in DOMAIN plan'.calls : plan'.calls[i] = "drop"

(* A poll never works on an offer that is not its own: one a lane made of its
   own accord is neither cancelled nor overtaken by a release. *)
OwnOffersAreLeftAlone == [][OwnOffersAreLeftAloneStep]_overdueVars

(* The operator hears once of each claim that others wait on it. *)
ToldOncePerClaim == ~retold

Steps == {"drop", "wake", "toOffer", "toRelease", "offer", "cancel", "release"}
Plans == {<<>>, <<"drop">>, <<"wake">>, <<"toOffer">>, <<"offer", "toOffer">>,
          <<"release">>, <<"toRelease", "release">>, <<"cancel", "release">>,
          <<"toRelease", "cancel", "release">>}
ClaimNumbers == 0..MaxHolds

(* The ladder of a claim begins with the warning and goes on a window after it;
   a claim the operator was told about stays marked. *)
OverdueInv ==
    /\ OverdueTypeOK /\ ToldOncePerClaim
    /\ age \in [Kinds -> Nat]
    /\ plan \in [of : ClaimNumbers, by : Owner \cup {Free}, to : Owner \cup {Free}, calls : Plans]
    /\ ladder \in [of : ClaimNumbers, step : {"none", "wake", "offer", "release"}]
    /\ warned \in [of : ClaimNumbers, age : 0..1]
    /\ ladder.of <= hold /\ plan.of <= hold /\ marker <= hold
    /\ told \subseteq 1..hold /\ (hold \in told => marker = hold)
    /\ hold = 0 => holder = Free
    /\ holder # Free => hold > 0
    /\ (ladder.of = hold /\ hold > 0) =>
          /\ warned.of = hold
          /\ ladder.step = "wake" => (age["step"] >= 1 => warned.age = 1)
          /\ ladder.step \in {"offer", "release"} => warned.age = 1
    /\ plan.calls \notin {<<>>, <<"drop">>, <<"wake">>} =>
          warned.of = plan.of /\ warned.age = 1
    /\ plan.calls # <<>> => plan.of > 0 \/ plan.calls = <<"drop">>

SilentClaimsComeToReleaseState ==
    \/ holder = Free \/ ~Overdue \/ ~Silent \/ held
    \/ (pending # Free /\ ladder.of # hold)
    \/ (ladder.of = hold /\ ladder.step = "release")

(* A claim overdue for good, with a holder silent for good and not excused,
   leaves that holder, or its ladder has come to the release: a release that
   the ledger then refuses is not asked for again (supervision.py:5239). *)
SilentClaimsComeToRelease == []<>SilentClaimsComeToReleaseState

-----------------------------------------------------------------------------
(***************************************************************************)
(* The supervisor's orphan sweep: a poll reads which lanes are dead and    *)
(* which run, marks the dead ones' claims under the ledger's lock, takes   *)
(* the marks of the running ones back, and then tells the lanes that could *)
(* take the work.  A told notice has a key, and a key is told once.        *)
(***************************************************************************)

CONSTANTS
    OrphanLanes,    \* lanes that own work and may die
    Peer,           \* the lane that could take it
    Claims,         \* issues
    MaxDeaths,      \* model bound: deaths of a lane
    MaxMoves,       \* model bound: claims that change hands
    MaxFaults       \* model bound: sweeps cut off and notices that fail

VARIABLES
    dead,           \* lanes without a session
    deaths,         \* how often each died, the time it entered its state
    issue,          \* owner and claim of each issue
    orphanMarker,         \* the orphan marker of each issue
    sweep,          \* the poll under way
    keys,           \* keys of the notices delivered
    heard,          \* ghost: the deaths the peer was told of, with the issues
    moves, faults

orVars == <<dead, deaths, issue, orphanMarker, sweep, keys, heard, moves, faults>>

NoMark == [lane |-> 0, claim |-> 0, since |-> 0, quiesced |-> FALSE]
Quiet == [at |-> "idle", dead |-> {}, back |-> {}, orphaned |-> {}, returned |-> {}]
Holders == OrphanLanes \cup {Peer, 0}

OrphansTypeOK ==
    /\ dead \subseteq OrphanLanes /\ deaths \in [OrphanLanes -> 0..MaxDeaths]
    /\ \A i \in Claims : issue[i].owner \in Holders /\ orphanMarker[i].lane \in OrphanLanes \cup {0}
    /\ sweep.at \in {"idle", "seen", "tell"}

OrphansInit ==
    /\ dead = {} /\ deaths = [l \in OrphanLanes |-> 0]
    /\ issue \in [Claims -> {[owner |-> l, claim |-> 1] : l \in OrphanLanes}]
    /\ orphanMarker = [i \in Claims |-> NoMark]
    /\ sweep = Quiet /\ keys = {} /\ heard = {} /\ moves = 0 /\ faults = 0

-----------------------------------------------------------------------------
(* Lanes die and are resumed; claims move. *)
Die(l) ==
    /\ l \notin dead /\ deaths[l] < MaxDeaths
    /\ dead' = dead \cup {l} /\ deaths' = [deaths EXCEPT ![l] = @ + 1]
    /\ UNCHANGED <<issue, orphanMarker, sweep, keys, heard, moves, faults>>

Resume(l) ==
    /\ l \in dead /\ dead' = dead \ {l}
    /\ UNCHANGED <<deaths, issue, orphanMarker, sweep, keys, heard, moves, faults>>

(* Work is given up, or taken with --take-orphaned from a lane that is dead;
   either way the record's orphan goes with it. *)
Move(i, l) ==
    /\ moves < MaxMoves /\ moves' = moves + 1
    /\ l # issue[i].owner
    /\ IF l = Peer THEN orphanMarker[i] # NoMark /\ issue[i].owner \in dead
                   ELSE l = 0 \/ (issue[i].owner = 0 /\ l \notin dead)
    /\ issue' = [issue EXCEPT ![i] = [owner |-> l, claim |-> @.claim + 1]]
    /\ orphanMarker' = [orphanMarker EXCEPT ![i] = NoMark]
    /\ UNCHANGED <<dead, deaths, sweep, keys, heard, faults>>

(* An authorized live recovery stops the lane and leaves a marker. *)
Quiesce(i) ==
    /\ issue[i].owner \in OrphanLanes \ dead /\ moves < MaxMoves
    /\ orphanMarker' = [orphanMarker EXCEPT ![i] = [lane |-> issue[i].owner, claim |-> issue[i].claim,
                                        since |-> 0, quiesced |-> TRUE]]
    /\ moves' = moves + 1
    /\ UNCHANGED <<dead, deaths, issue, sweep, keys, heard, faults>>

-----------------------------------------------------------------------------
(* The sweep. *)
Look ==
    /\ sweep = Quiet
    /\ sweep' = [Quiet EXCEPT !.at = "seen", !.dead = dead, !.back = OrphanLanes \ dead]
    /\ UNCHANGED <<dead, deaths, issue, orphanMarker, keys, heard, moves, faults>>

Quiesced(i, l) ==
    orphanMarker[i].quiesced /\ orphanMarker[i].lane = l /\ orphanMarker[i].claim = issue[i].claim

(* A marker is of this death of this owner under this claim. *)
Mark(i) ==
    [lane |-> issue[i].owner, claim |-> issue[i].claim,
     since |-> deaths[issue[i].owner], quiesced |-> FALSE]

Fresh(l) == {i \in Claims : issue[i].owner = l /\ ~Quiesced(i, l) /\ orphanMarker[i] # Mark(i)}

Recovered(l) ==
    {i \in Claims : issue[i].owner = l /\ orphanMarker[i] # NoMark /\ ~Quiesced(i, l)}

(* What a notice names: every claim of the lane that is marked. *)
Named(l) == {i \in Claims : issue[i].owner = l}

MarkAll ==
    LET fresh == UNION {Fresh(l) : l \in sweep.dead}
        gone == UNION {Recovered(l) : l \in sweep.back}
    IN  /\ sweep.at = "seen"
        /\ orphanMarker' = [i \in Claims |-> IF i \in fresh THEN Mark(i)
                                       ELSE IF i \in gone THEN NoMark ELSE orphanMarker[i]]
        /\ sweep' = [sweep EXCEPT !.at = "tell",
             !.orphaned = {[lane |-> l, issues |-> Named(l), since |-> deaths[l]] :
                             l \in {d \in sweep.dead : Fresh(d) # {}}},
             !.returned = {[lane |-> l, issues |-> Recovered(l), since |-> 0] :
                             l \in {b \in sweep.back : Recovered(b) # {}}}]
        /\ UNCHANGED <<dead, deaths, issue, keys, heard, moves, faults>>

(* The key of a notice names the lane and the claims, not the death. *)
Key(kind, n) == <<kind, n.lane, n.issues>>

Announce(n) ==
    /\ sweep.at = "tell" /\ n \in sweep.orphaned
    /\ sweep' = [sweep EXCEPT !.orphaned = @ \ {n}]
    /\ keys' = keys \cup {Key("orphan", n)}
    /\ heard' = IF Key("orphan", n) \in keys THEN heard
                ELSE heard \cup {<<n.lane, n.since, i>> : i \in n.issues}
    /\ UNCHANGED <<dead, deaths, issue, orphanMarker, moves, faults>>

AnnounceReturn(n) ==
    /\ sweep.at = "tell" /\ n \in sweep.returned
    /\ sweep' = [sweep EXCEPT !.returned = @ \ {n}]
    /\ keys' = keys \cup {Key("return", n)}
    /\ UNCHANGED <<dead, deaths, issue, orphanMarker, heard, moves, faults>>

Swept ==
    /\ sweep.at = "tell" /\ sweep.orphaned = {} /\ sweep.returned = {}
    /\ sweep' = Quiet
    /\ UNCHANGED <<dead, deaths, issue, orphanMarker, keys, heard, moves, faults>>

(* A notice the store refuses is let go, and so is what a cut-off sweep has
   not told yet: the marker is written and is not news to the next one. *)
Unheard ==
    /\ sweep # Quiet /\ faults < MaxFaults
    /\ faults' = faults + 1 /\ sweep' = Quiet
    /\ UNCHANGED <<dead, deaths, issue, orphanMarker, keys, heard, moves>>

OrphansPoll ==
    \/ Look \/ MarkAll \/ Swept
    \/ \E n \in sweep.orphaned : Announce(n)
    \/ \E n \in sweep.returned : AnnounceReturn(n)

OrphansNext ==
    \/ OrphansPoll \/ Unheard
    \/ \E l \in OrphanLanes : Die(l) \/ Resume(l)
    \/ \E i \in Claims : Quiesce(i) \/ \E l \in Holders : Move(i, l)

(* The service polls. *)
OrphansSpec == OrphansInit /\ [][OrphansNext]_orVars /\ WF_orVars(OrphansPoll)

-----------------------------------------------------------------------------
(* A marked claim was announced: whoever could take it has heard of a death
   of its owner with this claim named, unless a notice was lost. *)
MarkedClaimsWereAnnounced ==
    sweep = Quiet /\ faults = 0 =>
        \A i \in Claims :
            orphanMarker[i] # NoMark /\ ~orphanMarker[i].quiesced
            => \E e \in 1..MaxDeaths : <<orphanMarker[i].lane, e, i>> \in heard

(* A lane that dies again is announced again (supervision.py:6042). *)
RepeatedDeathsAreAnnounced ==
    sweep = Quiet /\ faults = 0 =>
        \A i \in Claims : orphanMarker[i] # NoMark /\ ~orphanMarker[i].quiesced
                          => <<orphanMarker[i].lane, orphanMarker[i].since, i>> \in heard

QuiescedMarksStayStep ==
    \A i \in Claims :
        orphanMarker[i].quiesced /\ issue'[i] = issue[i] => orphanMarker'[i].quiesced

(* The mark an authorized recovery left stays until the claim moves, whatever
   a sweep saw of the lane. *)
QuiescedMarksStay == [][QuiescedMarksStayStep]_orVars

RunningLanesLoseTheirMarksState ==
    \A i \in Claims :
        orphanMarker[i].lane \notin dead /\ orphanMarker[i] # NoMark => orphanMarker[i].quiesced

(* A lane that stays up gets its claims' marks withdrawn, also a mark a sweep
   left that had read it dead before it came back. *)
RunningLanesLoseTheirMarks == []<>RunningLanesLoseTheirMarksState

(* What was told of a claim has a key, and a mark that is not quiesced was told
   of, or is about to be. *)
OrphansInv ==
    /\ OrphansTypeOK /\ MarkedClaimsWereAnnounced
    /\ issue \in [Claims -> [owner : Holders, claim : Nat]]
    /\ orphanMarker \in [Claims -> [lane : OrphanLanes \cup {0}, claim : Nat,
                                    since : 0..MaxDeaths, quiesced : BOOLEAN]]
    /\ sweep = [at |-> sweep.at, dead |-> sweep.dead, back |-> sweep.back,
                orphaned |-> sweep.orphaned, returned |-> sweep.returned]
    /\ sweep.dead \subseteq OrphanLanes /\ sweep.back \subseteq OrphanLanes
    /\ faults \in Nat
    /\ \A l \in dead \cup sweep.dead : deaths[l] >= 1
    /\ sweep.at # "tell" => sweep.orphaned = {} /\ sweep.returned = {}
    /\ sweep.at = "idle" => sweep = Quiet
    /\ \A n \in sweep.orphaned : /\ n.lane \in OrphanLanes /\ n.since \in 1..MaxDeaths
                                /\ n.issues \subseteq Claims
    /\ \A i \in Claims : orphanMarker[i].quiesced =>
          orphanMarker[i].lane = issue[i].owner /\ orphanMarker[i].claim = issue[i].claim
    /\ faults = 0 =>
          /\ \A l \in OrphanLanes : \A S \in SUBSET Claims : <<"orphan", l, S>> \in keys =>
                \A i \in S : \E e \in 1..MaxDeaths : <<l, e, i>> \in heard
          /\ \A i \in Claims : orphanMarker[i] # NoMark /\ ~orphanMarker[i].quiesced =>
                \/ \E e \in 1..MaxDeaths : <<orphanMarker[i].lane, e, i>> \in heard
                \/ \E n \in sweep.orphaned : n.lane = orphanMarker[i].lane /\ i \in n.issues
=============================================================================
