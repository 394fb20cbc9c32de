--------------------------------- MODULE Wakes ---------------------------------
(***************************************************************************)
(* Waking one lane: every poll compares what the lane owes (its mail, one  *)
(* work offer) with the wake record of the attempts made so far, and asks  *)
(* the lane for a turn, resumes it, parks the attempt under what blocks    *)
(* it, or waits.  Attempts without progress double the wait and, for a     *)
(* work offer, end in an escalation to the operator.  Time is counted in   *)
(* windows of inactive_after.                                              *)
(***************************************************************************)
EXTENDS Integers, FiniteSetsExt

CONSTANTS
    WakeAttempts,   \* WORK_WAKE_ATTEMPTS
    WakeCeiling,    \* WAKE_BACKOFF_CEILING, in windows
    WakeMail,       \* threads of mail that may wait for the lane
    MaxWakeOffers,  \* model bound: generations of the lane's work offer
    MaxProgress,    \* model bound: moves of the lane's progress marker
    MaxWindows,     \* model bound: time
    MaxPrompts      \* model bound: counted prompts with nothing changed between

VARIABLES
    wakeNow,        \* windows gone by
    condition,      \* the lane's recorded state
    turnAt,         \* when the lane last took a turn
    unread,         \* threads of mail the lane owes an answer
    offer,          \* generation of the lane's current work offer, 0 for none
    issued,         \* generations issued
    dispatch,       \* what the offer's file says of its attempts
    progress,       \* the lane's progress marker (_lane_activity)
    wakeRow,        \* the lane's row of lane_wakes
    offerAsked,     \* ghost: counted prompts for the offer since progress
    streak          \* ghost: counted prompts with nothing changed between

wakeVars == <<wakeNow, condition, turnAt, unread, offer, issued, dispatch,
              progress, wakeRow, offerAsked, streak>>

Conditions == {"working", "idle", "blocked", "stopped"}
NoDispatch == [state |-> "pending", attempts |-> 0, at |-> 0]
(* The lane was never woken: its last attempt is long ago. *)
LongAgo == -WakeCeiling

NoWake == [at |-> LongAgo, attempts |-> 0, mail |-> {}, work |-> 0, marker |-> -1,
           result |-> "", blocked |-> "", exhausted |-> FALSE,
           escalated |-> FALSE]

Asks == {"accepted", "resumed", "busy", "opt_in", "attention"}
Dispatches == [state : {"pending", "deferred", "awaiting", "escalated"}, attempts : Nat, at : Nat]
WakeRows ==
    [at : Int, attempts : Nat, mail : SUBSET WakeMail, work : 0..MaxWakeOffers,
     marker : -1..MaxProgress, result : Asks \cup {""}, blocked : {"", "blocked", "budget"},
     exhausted : BOOLEAN, escalated : BOOLEAN]

WakesTypeOK ==
    /\ wakeNow \in 0..MaxWindows /\ condition \in Conditions
    /\ unread \in SUBSET WakeMail /\ offer \in 0..MaxWakeOffers
    /\ dispatch \in Dispatches /\ wakeRow \in WakeRows

WakesInit ==
    /\ wakeNow = 0 /\ condition = "idle" /\ turnAt = 0 /\ unread = {}
    /\ offer = 0 /\ issued = 0 /\ dispatch = NoDispatch /\ progress = 0
    /\ wakeRow = NoWake /\ offerAsked = 0
    /\ streak = [count |-> 0, at |-> 0]

PowerOfTwo[n \in Nat] == IF n = 0 THEN 1 ELSE 2 * PowerOfTwo[n - 1]

Doubled(steps) == Min({PowerOfTwo[Max({steps, 0})], WakeCeiling})

WakeDue(at, attempts) == at + Doubled(attempts - 1)

-----------------------------------------------------------------------------
(* What changes around the lane.  A changed backlog or progress starts the
   count of prompts anew. *)
Fresh == streak' = [count |-> 0, at |-> wakeNow]

Pass ==
    /\ wakeNow < MaxWindows
    /\ wakeNow' = wakeNow + 1
    /\ UNCHANGED <<condition, turnAt, unread, offer, issued, dispatch,
                   progress, wakeRow, offerAsked, streak>>

Become(c) ==
    /\ condition # c
    /\ condition' = c
    /\ UNCHANGED <<wakeNow, turnAt, unread, offer, issued, dispatch, progress,
                   wakeRow, offerAsked, streak>>

MailComes(m) ==
    /\ m \notin unread
    /\ unread' = unread \cup {m} /\ Fresh
    /\ UNCHANGED <<wakeNow, condition, turnAt, offer, issued, dispatch,
                   progress, wakeRow, offerAsked>>

Answers(m) ==
    /\ m \in unread
    /\ unread' = unread \ {m} /\ Fresh
    /\ UNCHANGED <<wakeNow, condition, turnAt, offer, issued, dispatch,
                   progress, wakeRow, offerAsked>>

(* A new generation of the offer is published with a dispatch of its own. *)
Publish ==
    /\ issued < MaxWakeOffers
    /\ issued' = issued + 1 /\ offer' = issued + 1
    /\ dispatch' = NoDispatch /\ offerAsked' = 0 /\ Fresh
    /\ UNCHANGED <<wakeNow, condition, turnAt, unread, progress, wakeRow>>

Withdraw ==
    /\ offer # 0
    /\ offer' = 0 /\ dispatch' = NoDispatch /\ offerAsked' = 0 /\ Fresh
    /\ UNCHANGED <<wakeNow, condition, turnAt, unread, issued, progress,
                   wakeRow>>

Advance ==
    /\ progress < MaxProgress
    /\ progress' = progress + 1 /\ offerAsked' = 0 /\ Fresh
    /\ UNCHANGED <<wakeNow, condition, turnAt, unread, offer, issued, dispatch,
                   wakeRow>>

-----------------------------------------------------------------------------
(* _clear_block: a block the record no longer shows is forgotten with the
   escalation and exhaustion it caused. *)
Cleared(row) ==
    IF condition # "blocked" /\ row.blocked = "blocked"
    THEN [row EXCEPT !.blocked = "", !.escalated = FALSE, !.exhausted = FALSE]
    ELSE row

(* A blocked lane's attempt is deferred, not spent; past the bound it is
   escalated once. *)
Defer ==
    /\ condition = "blocked"
    /\ wakeRow.result # ""
    /\ \E long \in BOOLEAN :
          wakeRow' = [wakeRow EXCEPT !.blocked = "blocked",
                                     !.escalated = @ \/ long]
    /\ UNCHANGED <<wakeNow, condition, turnAt, unread, offer, issued, dispatch,
                   progress, offerAsked, streak>>

(* What the poll decides before it asks: the record of the attempts, as far
   as it is about this backlog and no progress was made since. *)
Worked(row) == row.marker # -1 /\ row.marker # progress

(* An escalated offer leaves the backlog until the lane makes progress. *)
Wanted(row) ==
    IF dispatch.state = "escalated" /\ ~Worked(row) THEN 0 ELSE offer

Same(row) == row.mail = unread /\ row.work = offer

Attempts(row) ==
    LET own == IF Same(row) /\ ~Worked(row) THEN row.attempts ELSE 0
    IN  IF Wanted(row) # 0 /\ ~Worked(row)
        THEN Max({own, dispatch.attempts}) ELSE own

(* The attempt the next one is spaced from. *)
Throttle(row) ==
    LET own == IF Same(row) THEN row.at ELSE LongAgo
    IN  IF Wanted(row) # 0 /\ dispatch.attempts > 0
        THEN Max({own, dispatch.at}) ELSE own

(* Progress clears the count, the escalation and the offer's dispatch; a
   spent count escalates the offer. *)
Decided(row) ==
    LET reset == IF Worked(row)
                 THEN [row EXCEPT !.attempts = 0, !.marker = progress,
                                  !.blocked = "", !.escalated = FALSE,
                                  !.exhausted = FALSE]
                 ELSE row
        spent == Attempts(row) >= WakeAttempts
    IN [reset EXCEPT !.exhausted = @ \/ spent,
                     !.escalated = @ \/ (spent /\ Wanted(row) # 0)]

DecidedDispatch(row) ==
    LET spent == Attempts(row) >= WakeAttempts
        reset == IF Worked(row) /\ Wanted(row) # 0 THEN NoDispatch ELSE dispatch
    IN IF Wanted(row) # 0 /\ spent /\ reset.state # "escalated"
       THEN [state |-> "escalated", attempts |-> Attempts(row), at |-> wakeNow]
       ELSE reset

(* What asking the lane may come to.  A busy lane, a loaded host and a
   missing opt-in spend no attempt. *)
Results == IF condition = "idle" THEN {"accepted", "busy"}
           ELSE {"resumed", "busy", "opt_in", "attention"}
Counts(result) == result \notin {"busy", "opt_in"}

(* The poll reaches the wake of a lane that may be woken and owes something;
   a live lane must have been quiet for a window. *)
Reached(row) ==
    /\ condition \in {"idle", "stopped"}
    /\ condition = "idle" => wakeNow - turnAt >= 1
    /\ unread # {} \/ Wanted(row) # 0

NotYet ==
    LET row == Cleared(wakeRow) IN
    /\ Reached(row)
    /\ \/ wakeNow < WakeDue(Throttle(row), Attempts(row))
          /\ wakeRow' = [Decided(row) EXCEPT !.blocked = IF row.result = "" THEN @ ELSE ""]
       \/ /\ wakeNow >= WakeDue(Throttle(row), Attempts(row))
          /\ wakeRow' = [Decided(row) EXCEPT !.blocked = "budget"]
    /\ dispatch' = DecidedDispatch(row)
    /\ UNCHANGED <<wakeNow, condition, turnAt, unread, offer, issued, progress,
                   offerAsked, streak>>

Ask(result) ==
    LET row == Cleared(wakeRow)
        before == Attempts(row)
        counted == before + (IF Counts(result) THEN 1 ELSE 0)
        decided == DecidedDispatch(row)
        spent == before >= WakeAttempts
    IN
    /\ Reached(row)
    /\ result \in Results
    /\ streak.count < MaxPrompts
    /\ wakeNow >= WakeDue(Throttle(row), before)
    /\ wakeRow' = [at |-> wakeNow, attempts |-> counted, mail |-> unread,
                   work |-> Wanted(row), marker |-> progress,
                   result |-> result, blocked |-> "",
                   exhausted |-> counted >= WakeAttempts,
                   escalated |-> spent /\ Decided(row).escalated]
    /\ dispatch' =
          IF Wanted(row) = 0 \/ spent THEN decided
          ELSE [state |-> IF Counts(result) THEN "awaiting" ELSE "deferred",
                attempts |-> counted, at |-> wakeNow]
    /\ turnAt' = IF result \in {"accepted", "resumed"} THEN wakeNow ELSE turnAt
    /\ offerAsked' = IF Wanted(row) # 0 /\ Counts(result)
                     THEN offerAsked + 1 ELSE offerAsked
    /\ streak' = IF Counts(result)
                 THEN [count |-> streak.count + 1, at |-> wakeNow] ELSE streak
    /\ UNCHANGED <<wakeNow, condition, unread, offer, issued, progress>>

WakesNext ==
    \/ Pass \/ Publish \/ Withdraw \/ Advance \/ Defer \/ NotYet
    \/ \E c \in Conditions : Become(c)
    \/ \E m \in WakeMail : MailComes(m) \/ Answers(m)
    \/ \E result \in Asks : Ask(result)

WakesSpec == WakesInit /\ [][WakesNext]_wakeVars

-----------------------------------------------------------------------------
(* One generation of a work offer takes at most one prompt more than the
   bound before the lane makes progress, whatever mail comes and goes and
   changes the backlog in between. *)
OfferPromptsAreBounded == offerAsked <= WakeAttempts + 1

PromptsBackOffStep ==
    (streak'.count > streak.count /\ streak.count > 0
      /\ dispatch.state # "escalated")
     => wakeNow - streak.at >= Doubled(streak.count - 1)

(* Prompts with nothing changed between them are spaced by doubling windows,
   as long as no escalated offer stands beside the mail. *)
PromptsBackOff == [][PromptsBackOffStep]_wakeVars
-----------------------------------------------------------------------------
(* What makes them inductive. *)
TimeShape == wakeNow \in 0..MaxWindows
ConditionShape == condition \in Conditions
UnreadShape == unread \in SUBSET WakeMail
OfferShape == offer \in 0..MaxWakeOffers /\ issued \in 0..MaxWakeOffers
DispatchShape == dispatch \in Dispatches
ProgressShape == progress \in 0..MaxProgress
RowShape == wakeRow \in WakeRows
CountShape == offerAsked \in Nat /\ streak \in [count : Nat, at : Nat]
StreakIsPast == streak.at <= wakeNow
NothingToAskFor == offer = 0 => dispatch = NoDispatch /\ offerAsked = 0

(* The file counts every prompt for the offer, up to the bound. *)
DispatchCounts ==
    dispatch.state # "escalated" =>
        offerAsked <= dispatch.attempts /\ dispatch.attempts <= WakeAttempts

ProgressIsFresh == Worked(wakeRow) => offerAsked = 0 /\ streak.count = 0

(* While nothing changes the row is about this backlog and counts every prompt. *)
RowCountsTheStreak ==
    streak.count > 0 /\ dispatch.state # "escalated" =>
        /\ Same(wakeRow) /\ wakeRow.attempts >= streak.count /\ wakeRow.at >= streak.at

WakesInv ==
    /\ TimeShape /\ ConditionShape /\ UnreadShape /\ OfferShape /\ DispatchShape /\ ProgressShape
    /\ RowShape /\ CountShape /\ StreakIsPast /\ NothingToAskFor /\ DispatchCounts
    /\ ProgressIsFresh /\ RowCountsTheStreak /\ OfferPromptsAreBounded
================================================================================
