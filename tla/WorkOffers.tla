------------------------------- MODULE WorkOffers -------------------------------
(***************************************************************************)
(* The work offers of the supervisor.  A poll reads the ledger and every   *)
(* lane's fitness once, then writes for each lane in turn what it could do *)
(* next: share its load, split it, go on with what it holds, or take       *)
(* something free.  Lanes are pointed at different free issues.  The       *)
(* waker counts its attempts for an offer in the file that publishes it,   *)
(* beside the polls that rewrite it.                                       *)
(***************************************************************************)
EXTENDS Integers, Sequences, FiniteSets, FiniteSetsExt, Iteration

CONSTANTS
    WorkLanes,      \* number of lanes; a lane is its place in sorted order
    WorkIssues,     \* number of issues
    WokenLanes,     \* model bound: the lanes the waker asks
    MaxTries        \* model bound: attempts counted for one offer

VARIABLES
    owns,           \* who holds each issue, 0 for nobody
    published,      \* the offer in each lane's file
    attempts,       \* the dispatch in each lane's file
    round,          \* the poll under way: the next lane, each lane's offer, and
                    \* the issues read as free
    asked,          \* the attempt under way: the lane and the offer it read
    counted         \* ghost: the offer the attempts in each file were made for

workVars == <<owns, published, attempts, round, asked, counted>>

WorkLane == 1..WorkLanes
WorkIssue == 1..WorkIssues
Kinds == {"none", "rebalance", "split", "continue", "pull"}
Progress == UNION {[I -> 0..WorkLanes] : I \in SUBSET WorkIssue}
Works == [kind : Kinds, issues : SUBSET WorkIssue, lead : 0..WorkIssues, progress : Progress]
NoWork == [kind |-> "none", issues |-> {}, lead |-> 0, progress |-> [i \in {} |-> 0]]
Fitness == {"fit", "unfit", "exhausted"}
NoRound == [lane |-> WorkLanes + 1, offers |-> <<>>, free |-> {}]

WorkOffersTypeOK ==
    /\ owns \in [WorkIssue -> 0..WorkLanes]
    /\ published \in [WorkLane -> Works] /\ attempts \in [WorkLane -> 0..MaxTries]
    /\ round.lane \in 1..(WorkLanes + 1) /\ asked.lane \in 0..WorkLanes

WorkOffersInit ==
    /\ owns = [i \in WorkIssue |-> 0]
    /\ published = [l \in WorkLane |-> NoWork]
    /\ attempts = [l \in WorkLane |-> 0]
    /\ round = NoRound /\ asked = [lane |-> 0, offer |-> NoWork]
    /\ counted = [l \in WorkLane |-> NoWork]

-----------------------------------------------------------------------------
(* Claims are taken and given back between the readings. *)
LedgerMoves ==
    /\ \E i \in WorkIssue, l \in 0..WorkLanes :
            /\ owns[i] # l /\ (owns[i] = 0 \/ l = 0)
            /\ owns' = [owns EXCEPT ![i] = l]
    /\ UNCHANGED <<published, attempts, round, asked, counted>>

-----------------------------------------------------------------------------
(* What a poll derives from what it read: r holds the owners, the issues that
   cannot move now (stuck), those whose holder reported remaining work
   (backlog), each lane's fitness, and the lanes idle for stalled_after. *)
Mine(r, l) == {i \in WorkIssue : r.owns[i] = l}
Continuation(r, l) == Mine(r, l) \ r.stuck
Available(r) == {i \in WorkIssue : r.owns[i] = 0} \ r.stuck
BusyWork(r) == UNION {Continuation(r, l) :
                        l \in {h \in WorkLane : Cardinality(Continuation(r, h)) > 1}}

(* Fit, holding nothing, and idle for stalled_after. *)
IdlePeers(r, l) ==
    {p \in r.idle \ {l} : r.fit[p] = "fit" /\ Mine(r, p) = {}}

Lead(r, taken) ==
    IF Available(r) = {} THEN 0
    ELSE IF Available(r) \subseteq taken THEN Min(Available(r))
    ELSE Min(Available(r) \ taken)

Named(r, kind, issues, lead) ==
    [kind |-> kind, issues |-> issues, lead |-> lead,
     progress |-> [i \in issues |-> r.owns[i]]]

Rebalances(r, l) == Cardinality(Continuation(r, l)) > 1 /\ IdlePeers(r, l) # {}

Splits(r, l) ==
    /\ r.fit[l] # "exhausted" /\ l \in r.idle /\ IdlePeers(r, l) # {}
    /\ Continuation(r, l) \cap r.backlog # {}

Continues(r, l) == r.fit[l] # "exhausted" /\ Mine(r, l) # {}

Pulls(r, l) ==
    r.fit[l] = "fit" /\ Mine(r, l) = {} /\ (Available(r) # {} \/ BusyWork(r) # {})

OfferFor(r, l, taken) ==
    IF Rebalances(r, l) THEN Named(r, "rebalance", Continuation(r, l), 0)
    ELSE IF Splits(r, l)
    THEN Named(r, "split", {Min(Continuation(r, l) \cap r.backlog)}, 0)
    ELSE IF Continues(r, l)
    THEN Named(r, "continue",
               IF Continuation(r, l) # {} THEN Continuation(r, l) ELSE Mine(r, l),
               IF Continuation(r, l) = {} /\ r.fit[l] = "fit" THEN Lead(r, taken) ELSE 0)
    ELSE IF Pulls(r, l)
    THEN Named(r, "pull", Available(r) \cup BusyWork(r), Lead(r, taken))
    ELSE NoWork

(* An offer is the same while what it says and what it is about stay so. *)
Dispatch(l, offer) ==
    IF offer # NoWork /\ offer = published[l] THEN attempts[l] ELSE 0

-----------------------------------------------------------------------------
(* The lanes in turn, each pointed past the issues the lanes before it lead to. *)
LeadsOf(made) == {made[k].lead : k \in DOMAIN made} \ {0}

Offers(r) ==
    Iterate([l \in WorkLane |-> [made \in Seq(Works) |->
                 Append(made, OfferFor(r, l, LeadsOf(made)))]], << >>, WorkLanes)

ReadWork ==
    /\ round = NoRound
    /\ \E stuck \in SUBSET WorkIssue :
         \E f \in [WorkLane -> Fitness], idle \in SUBSET WorkLane,
            backlog \in SUBSET {i \in WorkIssue \ stuck : owns[i] # 0} :
            LET r == [owns |-> owns, stuck |-> stuck, backlog |-> backlog,
                      fit |-> f, idle |-> idle]
            IN  round' = [lane |-> 1, offers |-> Offers(r), free |-> Available(r)]
    /\ UNCHANGED <<owns, published, attempts, asked, counted>>

Publish ==
    LET l == round.lane
        offer == round.offers[l]
        last == l = WorkLanes
    IN  /\ round # NoRound
        /\ published' = [published EXCEPT ![l] = offer]
        /\ attempts' = [attempts EXCEPT ![l] = Dispatch(l, offer)]
        /\ counted' = IF attempts'[l] > 0 THEN counted
                      ELSE [counted EXCEPT ![l] = NoWork]
        /\ round' = IF last THEN NoRound ELSE [round EXCEPT !.lane = @ + 1,
                        !.offers = [k \in (l + 1)..WorkLanes |-> @[k]]]
        /\ UNCHANGED <<owns, asked>>

(* The waker reads the offer, asks the lane, and counts the attempt only if
   the file still publishes the offer it asked for. *)
AskFor(l) ==
    /\ asked.lane = 0 /\ published[l] # NoWork /\ attempts[l] < MaxTries
    /\ asked' = [lane |-> l, offer |-> published[l]]
    /\ UNCHANGED <<owns, published, attempts, round, counted>>

Same(o, p) == o = p

CountAttempt ==
    LET l == asked.lane
    IN  /\ l # 0
        /\ asked' = [lane |-> 0, offer |-> NoWork]
        /\ IF Same(published[l], asked.offer) /\ attempts[l] < MaxTries
             THEN /\ attempts' = [attempts EXCEPT ![l] = @ + 1]
                  /\ counted' = [counted EXCEPT ![l] = asked.offer]
             ELSE UNCHANGED <<attempts, counted>>
        /\ UNCHANGED <<owns, published, round>>

WorkOffersNext ==
    \/ LedgerMoves \/ ReadWork \/ Publish \/ CountAttempt
    \/ \E l \in WokenLanes : AskFor(l)

WorkOffersSpec == WorkOffersInit /\ [][WorkOffersNext]_workVars

-----------------------------------------------------------------------------
LeadsAreSpreadStep ==
    (round # NoRound /\ round' = NoRound) =>
      \A l, m \in WorkLane :
          (l # m /\ published'[l].lead # 0 /\ published'[l].lead = published'[m].lead)
              => round.free \subseteq {published'[k].lead : k \in WorkLane}

(* When a poll ends no two lanes are pointed at the same free issue while
   some issue it read as free has nobody pointed at it. *)
LeadsAreSpread == [][LeadsAreSpreadStep]_workVars

(* The attempts beside an offer were all made for it, as it reads now: a poll
   that changed the offer meanwhile started the count anew. *)
AttemptsAreTheOffers ==
    \A l \in WorkLane : attempts[l] > 0 => counted[l] = published[l]
-----------------------------------------------------------------------------
(* What makes them inductive. *)
OwnersShape == owns \in [WorkIssue -> 0..WorkLanes]
PublishedShape == published \in [WorkLane -> Works]
AttemptsShape == attempts \in [WorkLane -> 0..MaxTries]
AskedShape == asked.lane \in 0..WorkLanes
CountedShape == counted \in [WorkLane -> Works]

(* Where a lane is led to once the poll under way is through. *)
LedTo(l) == IF l < round.lane THEN published[l].lead ELSE round.offers[l].lead

RoundShape ==
    round # NoRound =>
        /\ round \in [lane : WorkLane, offers : {round.offers}, free : SUBSET WorkIssue]
        /\ round.offers \in [round.lane..WorkLanes -> Works]

RoundIsSpread ==
    round # NoRound =>
      \A l, m \in WorkLane :
          l # m /\ LedTo(l) # 0 /\ LedTo(l) = LedTo(m) =>
              \A i \in round.free : \E k \in WorkLane : LedTo(k) = i

WorkOffersInv ==
    /\ OwnersShape /\ PublishedShape /\ AttemptsShape /\ AskedShape /\ CountedShape /\ RoundShape
    /\ RoundIsSpread /\ AttemptsAreTheOffers
================================================================================
