------------------------------ MODULE PullRequests ------------------------------
(***************************************************************************)
(* Watching a lane's open pull request: a poll reads it from the forge,    *)
(* compares it with the record of the last reading, tells the lane what    *)
(* changed, re-runs cancelled jobs once per head, counts CI rounds, and    *)
(* writes the record last.  A poll cut off before that has told and asked  *)
(* things the next one does not know of.                                   *)
(***************************************************************************)
EXTENDS Integers, FiniteSets

CONSTANTS
    Rounds,         \* ci_rounds
    MaxHeads,       \* model bound: heads pushed
    MaxRuns,        \* model bound: times the checks of a head come to a verdict
    MaxReviews,     \* model bound: reviews submitted
    MaxCuts         \* model bound: polls cut off

VARIABLES
    pr,             \* the pull request on the forge
    seen,           \* the record of the last reading, none before the first
    decision,       \* the CI round decision
    stage,          \* the poll under way
    heard,          \* ghost: verdicts the lane was told of, by head, from the recorded head on
    heardReviews,   \* ghost: reviews the lane was told of
    repeats,        \* ghost: how often the current verdict was told
    reruns,         \* ghost: automatic re-runs asked for on this head
    grants,         \* ghost: grants of the operator carried out
    cuts            \* polls cut off

prVars == <<pr, seen, decision, stage, heard, heardReviews, repeats, reruns, grants, cuts>>

Finished == {"green", "red", "cancelled"}   \* cancelled: red, by cancelled jobs only
NotSeen == [head |-> 0, checks |-> "", reviews |-> 0,
            stalled |-> FALSE, rerun |-> FALSE, rounds |-> 0, round |-> 0,
            granted |-> 0, taken |-> FALSE, exhausted |-> 0]
Idle == [at |-> "idle", read |-> NotSeen]

PullRequestsTypeOK ==
    /\ pr.head \in 1..MaxHeads /\ pr.run \in 0..MaxRuns
    /\ pr.checks \in Finished \cup {"pending"}
    /\ seen.head \in 0..MaxHeads /\ seen.granted \in Nat
    /\ decision \in {"none", "open", "grant", "takeover", "applied"}
    /\ stage.at \in {"idle", "tell", "save"}

PullRequestsInit ==
    /\ pr = [head |-> 1, run |-> 0, checks |-> "pending", reviews |-> 0]
    /\ seen = NotSeen /\ decision = "none" /\ stage = Idle 
    /\ heard = {} /\ heardReviews = {} /\ repeats = 0 /\ reruns = 0
    /\ grants = 0 /\ cuts = 0

-----------------------------------------------------------------------------
(* The forge, the lane's pushes, and the operator. *)
Forge(p) ==
    /\ pr' = p
    /\ repeats' = IF p.run # pr.run \/ p.head # pr.head THEN 0 ELSE repeats
    /\ reruns' = IF p.head # pr.head THEN 0 ELSE reruns
    /\ UNCHANGED <<seen, decision, stage, heard, heardReviews, grants, cuts>>

Push ==
    /\ pr.head < MaxHeads
    /\ Forge([pr EXCEPT !.head = @ + 1, !.run = 0, !.checks = "pending"])

Verdict(v) ==
    /\ pr.checks = "pending" /\ pr.run < MaxRuns
    /\ Forge([pr EXCEPT !.checks = v, !.run = @ + 1])

RunAgain ==
    /\ pr.checks \in Finished /\ pr.run < MaxRuns
    /\ Forge([pr EXCEPT !.checks = "pending"])

Review == pr.reviews < MaxReviews /\ Forge([pr EXCEPT !.reviews = @ + 1])

Decide(answer) ==
    /\ decision = "open" /\ decision' = answer
    /\ UNCHANGED <<pr, seen, stage, heard, heardReviews, repeats, reruns, grants, cuts>>

-----------------------------------------------------------------------------
(* What one reading becomes beside the last record. *)
SameHead(b, r) == b.head = r.head

PendingClock(b, r) ==
    r.checks = "pending" /\ b.checks = "pending" /\ SameHead(b, r) /\ b.stalled

RerunKept(b, r) == SameHead(b, r) /\ b.rerun

(* A round is a head whose checks came to a verdict. *)
CiRounds(b, r) ==
    IF r.checks \in Finished /\ r.head # b.round THEN b.rounds + 1 ELSE b.rounds

Carried(b, r) ==
    [head |-> r.head, checks |-> r.checks, reviews |-> r.reviews,
     stalled |-> PendingClock(b, r),
     rerun |-> RerunKept(b, r), rounds |-> CiRounds(b, r),
     round |-> IF r.checks \in Finished THEN r.head ELSE b.round,
     granted |-> b.granted, taken |-> b.taken, exhausted |-> b.exhausted]

Red(r) == r.checks \in {"red", "cancelled"}

(* The lane hears of a verdict when it or the head differ from the last record. *)
News(b, r) ==
    r.checks \in Finished /\ (b.head # r.head \/ b.checks # r.checks)

Stalls(r, late) == r.checks = "pending" /\ ~r.stalled /\ late

(* The round limit: an answer is carried out first, and a red head past the
   rounds allowed asks the operator. *)
BadAnswered_Marked(r) == [r EXCEPT !.taken = @ \/ decision = "takeover"]

Answered(r) == [r EXCEPT !.granted = IF decision = "grant" THEN @ + 1 ELSE @,
                         !.taken = @ \/ decision = "takeover"]

Within(r) == ~Red(r) \/ r.rounds < Rounds + r.granted

RoundLimit(r) ==
    IF Within(r) THEN [r EXCEPT !.exhausted = 0] ELSE [r EXCEPT !.exhausted = r.rounds]

DecisionAfter(r) ==
    IF Within(r) THEN "none"
    ELSE IF r.taken THEN IF decision \in {"grant", "takeover"} THEN "applied" ELSE decision
    ELSE "open"

-----------------------------------------------------------------------------
(* The poll: read, with the decision carried out and the re-run asked for;
   tell the lane; write the record. *)
Asks(b, r) == r.checks = "cancelled" /\ ~r.rerun

Read(late) ==
    LET first == Carried(seen, pr)
        r == RoundLimit(Answered(first))
        asks == Asks(seen, r)
    IN  /\ stage = Idle
        /\ stage' = [at |-> "tell",
                     read |-> [r EXCEPT !.rerun = @ \/ asks,
                                        !.stalled = @ \/ Stalls(first, late)]]
        /\ decision' = DecisionAfter(Answered(first))
        /\ grants' = IF decision = "grant" THEN grants + 1 ELSE grants
        /\ reruns' = IF asks THEN reruns + 1 ELSE reruns
        /\ UNCHANGED <<pr, seen, heard, heardReviews, repeats, cuts>>

Tell ==
    LET r == stage.read
    IN  /\ stage.at = "tell"
        /\ heard' = {v \in heard : v[1] >= seen.head}
                      \cup (IF News(seen, r) THEN {<<r.head, r.checks>>} ELSE {})
        /\ heardReviews' = heardReviews \cup (seen.reviews + 1)..r.reviews
        /\ repeats' = IF News(seen, r) /\ pr.head = r.head /\ pr.checks = r.checks
                      THEN repeats + 1 ELSE repeats
        /\ stage' = [stage EXCEPT !.at = "save"]
        /\ UNCHANGED <<pr, seen, decision, reruns, grants, cuts>>

Save ==
    /\ stage.at = "save"
    /\ seen' = stage.read /\ stage' = Idle
    /\ UNCHANGED <<pr, decision, heard, heardReviews, repeats, reruns, grants, cuts>>

(* The service is stopped, or a forge call in the middle raises. *)
Cut ==
    /\ stage # Idle /\ cuts < MaxCuts
    /\ stage' = Idle /\ cuts' = cuts + 1
    /\ UNCHANGED <<pr, seen, decision, heard, heardReviews, repeats, reruns, grants>>

PullRequestsNext ==
    \/ Push \/ RunAgain \/ Review \/ Tell \/ Save \/ Cut
    \/ \E v \in Finished : Verdict(v)
    \/ \E late \in BOOLEAN : Read(late)
    \/ \E a \in {"grant", "takeover"} : Decide(a)

PullRequestsSpec == PullRequestsInit /\ [][PullRequestsNext]_prVars

-----------------------------------------------------------------------------
(* The lane has heard of every verdict and review the record has, whichever
   poll was cut off: the record is written after the telling. *)
RecordedChangesWereTold ==
    /\ seen.checks \in Finished => <<seen.head, seen.checks>> \in heard
    /\ 1..seen.reviews \subseteq heardReviews

(* A verdict is told once, and once more for each poll cut off after it told
   and before it wrote. *)
VerdictsAreToldOnce == repeats <= 1 + cuts

(* A head's cancelled jobs are re-run by the service once, and once more for
   each poll cut off between the request and its record. *)
OneRerunPerHead == reruns <= 1 + cuts

(* Every grant of the operator buys one round, but for those carried out in a
   poll that was cut off: the decision is closed before the record counts it
   (supervision.py:7645). *)
GrantsBuyRounds == stage = Idle => /\ seen.granted <= grants
                                   /\ grants <= seen.granted + cuts

(* The rounds counted are heads, never more than were pushed. *)
RoundsAreHeads == seen.rounds <= pr.head
-----------------------------------------------------------------------------
(* What makes them inductive. *)
-----------------------------------------------------------------------------
(* What makes them inductive. *)
PulledShape ==
    pr \in [head : 1..MaxHeads, run : 0..MaxRuns, checks : Finished \cup {"pending"},
            reviews : 0..MaxReviews]
Readings ==
    [head : 0..MaxHeads, checks : Finished \cup {"pending", ""}, reviews : 0..MaxReviews,
     stalled : BOOLEAN, rerun : BOOLEAN, rounds : Nat, round : 0..MaxHeads, granted : Nat,
     taken : BOOLEAN, exhausted : Nat]
SeenShape == seen \in Readings
DecisionShape == decision \in {"none", "open", "grant", "takeover", "applied"}
StageShape ==
    /\ stage \in [at : {"idle", "tell", "save"}, read : Readings]
    /\ stage.at = "idle" => stage = Idle
HeardShape == heard \subseteq Nat \X Finished
CountShape == repeats \in Nat /\ reruns \in Nat /\ grants \in Nat /\ cuts \in Nat

Polling == stage.at # "idle"

(* The lane has heard what is about to be written. *)
SavedWasTold ==
    stage.at = "save" =>
        /\ stage.read.checks \in Finished => <<stage.read.head, stage.read.checks>> \in heard
        /\ 1..stage.read.reviews \subseteq heardReviews

(* A verdict told more often than polls were cut off is in what was read. *)
Matches(b) == b.head = pr.head /\ (b.checks = pr.checks \/ pr.checks = "pending")
ToldIsRead ==
    repeats > cuts => /\ Polling => Matches(stage.read)
                      /\ stage.at # "save" => Matches(seen)

(* So is a re-run asked for more often than that. *)
AskedIsRead ==
    reruns > cuts => LET b == IF Polling THEN stage.read ELSE seen
                     IN  b.head = pr.head /\ b.rerun

(* A poll under way read at most one grant more than the record has. *)
GrantsAreRead ==
    Polling => /\ stage.read.granted \in {seen.granted, seen.granted + 1}
               /\ stage.read.granted <= grants /\ grants <= stage.read.granted + cuts

(* Rounds are counted head by head. *)
CountsHeads(b) == b.rounds <= b.round /\ b.round <= b.head /\ b.head <= pr.head
HeadsAreCounted == CountsHeads(seen) /\ (Polling => CountsHeads(stage.read))

PullRequestsInv ==
    /\ PulledShape /\ SeenShape /\ DecisionShape /\ StageShape /\ HeardShape /\ CountShape
    /\ SavedWasTold /\ ToldIsRead /\ AskedIsRead /\ GrantsAreRead /\ HeadsAreCounted
    /\ RecordedChangesWereTold /\ VerdictsAreToldOnce /\ OneRerunPerHead /\ GrantsBuyRounds
    /\ RoundsAreHeads
================================================================================
