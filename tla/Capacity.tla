-------------------------------- MODULE Capacity --------------------------------
(***************************************************************************)
(* What the supervisor knows of a lane's provider capacity.  A poll reads  *)
(* the published record and the session's newest native entry, decides     *)
(* whether the entry is news, and publishes under a lock that lets only    *)
(* newer observations through; a second reader (a command, another thread) *)
(* does the same in between.  Exhaustion ends by native progress, by its   *)
(* reset time, by a tool event, or by a wake the provider accepted.        *)
(***************************************************************************)
EXTENDS Integers

CONSTANTS
    CapLanes,       \* lanes on one provider account
    MaxNow,         \* model bound: the clock
    MaxLimits       \* model bound: times the account is limited

VARIABLES
    now,
    account,        \* limited, and the reset time the provider names (0: none)
    entry,          \* the newest capacity entry of each lane's session record
    tool,           \* the time of each lane's newest tool event
    published,      \* the capacity record of each lane
    looked,         \* what the poll has read of each lane and not settled
    success,        \* ghost: the last time the provider served each lane
    limits

caVars == <<now, account, entry, tool, published, looked, success, limits>>

CapacityStates == {"unknown", "available", "retryable", "exhausted"}
NoReading == [state |-> "unknown", at |-> -1, reset |-> 0, progress |-> 0, probes |-> 0]
NotLooked == [at |-> -2]

CapacityTypeOK ==
    /\ now \in 0..MaxNow /\ account.reset \in 0..MaxNow
    /\ \A l \in CapLanes :
          /\ published[l].state \in CapacityStates /\ published[l].at \in -1..MaxNow
          /\ entry[l].state \in CapacityStates /\ tool[l] \in -1..MaxNow

CapacityInit ==
    /\ now = 0 /\ account = [limited |-> FALSE, reset |-> 0] /\ limits = 0
    /\ entry = [l \in CapLanes |-> NoReading] /\ tool = [l \in CapLanes |-> -1]
    /\ published = [l \in CapLanes |-> NoReading]
    /\ looked = [l \in CapLanes |-> NotLooked]
    /\ success = [l \in CapLanes |-> -1]

-----------------------------------------------------------------------------
(* The provider, its account, and the lanes at work: a limit with a reset ends
   at it. *)
Tick ==
    /\ now < MaxNow /\ now' = now + 1
    /\ account' = IF account.reset = now + 1 THEN [limited |-> FALSE, reset |-> 0]
                  ELSE account
    /\ UNCHANGED <<entry, tool, published, looked, success, limits>>

Limit(reset) ==
    /\ ~account.limited /\ limits < MaxLimits /\ limits' = limits + 1
    /\ reset = 0 \/ reset > now
    /\ account' = [limited |-> TRUE, reset |-> reset]
    /\ UNCHANGED <<now, entry, tool, published, looked, success>>

Lift ==
    /\ account.limited
    /\ account' = [limited |-> FALSE, reset |-> 0]
    /\ UNCHANGED <<now, entry, tool, published, looked, success, limits>>

(* A request: served, it advances the session's progress; refused, it leaves
   an exhausted entry with the reset the provider names. *)
Request(l) ==
    /\ IF account.limited
       THEN /\ entry' = [entry EXCEPT ![l] = [state |-> "exhausted", at |-> now,
                            reset |-> account.reset, progress |-> @.progress, probes |-> 0]]
            /\ UNCHANGED success
       ELSE /\ entry' = [entry EXCEPT ![l] = [state |-> "available", at |-> now,
                            reset |-> 0, progress |-> now + 1, probes |-> 0]]
            /\ success' = [success EXCEPT ![l] = now]
    /\ UNCHANGED <<now, account, tool, published, looked, limits>>

(* A record is written again with no request behind it. *)
Repeat(l) ==
    /\ entry[l].state # "unknown"
    /\ entry' = [entry EXCEPT ![l].at = now, ![l].state = "available", ![l].reset = 0]
    /\ UNCHANGED <<now, account, tool, published, looked, success, limits>>

ToolEvent(l) ==
    /\ tool' = [tool EXCEPT ![l] = now]
    /\ UNCHANGED <<now, account, entry, published, looked, success, limits>>

-----------------------------------------------------------------------------
(* What one reading publishes. *)
Newer(current, v) == v.at >= current.at

RecordCapacity(current, v) == IF Newer(current, v) THEN v ELSE current

(* A native success ends exhaustion when it advances beyond what was there. *)
NativeRecovery(current, v) ==
    \/ current.state \notin {"exhausted", "retryable"} \/ v.state # "available"
    \/ v.progress > current.progress

ClearExhaustion(current, at) ==
    RecordCapacity(current, [current EXCEPT
        !.state = "available", !.reset = 0, !.probes = 0,
        !.at = IF at > current.at THEN at ELSE current.at])

AfterNative(base, current, v) ==
    IF v.state # "unknown" /\ NativeRecovery(base, v)
    THEN RecordCapacity(current, v) ELSE current

AfterTool(current, t) ==
    IF current.state = "exhausted" /\ current.reset = 0 /\ t > current.at
    THEN ClearExhaustion(current, t) ELSE current

AfterReset(current) ==
    IF current.state = "exhausted" /\ current.reset # 0 /\ current.reset <= now
    THEN RecordCapacity(current, [current EXCEPT !.state = "available",
                                                 !.at = current.reset, !.reset = 0])
    ELSE current

(* base is the record as it was read, before the native entry was. *)
Observed(l, base, v) ==
    AfterReset(AfterTool(AfterNative(base, published[l], v), tool[l]))

ObserveCapacity(l) ==
    /\ looked[l] = NotLooked
    /\ published' = [published EXCEPT ![l] = Observed(l, published[l], entry[l])]
    /\ UNCHANGED <<now, account, entry, tool, looked, success, limits>>

Look(l) ==
    /\ looked[l] = NotLooked
    /\ looked' = [looked EXCEPT ![l] = [at |-> now, base |-> published[l], entry |-> entry[l]]]
    /\ UNCHANGED <<now, account, entry, tool, published, success, limits>>

Settle(l) ==
    /\ looked[l] # NotLooked
    /\ published' = [published EXCEPT ![l] = Observed(l, looked[l].base, looked[l].entry)]
    /\ looked' = [looked EXCEPT ![l] = NotLooked]
    /\ UNCHANGED <<now, account, entry, tool, success, limits>>

(* A wake made while exhaustion names no reset is its probe. *)
ProbeExhaustion(l) ==
    /\ published[l].state = "exhausted" /\ published[l].reset = 0
    /\ published' = [published EXCEPT ![l] =
          IF ~account.limited THEN ClearExhaustion(@, now)
          ELSE [@ EXCEPT !.probes = 1]]
    /\ success' = [success EXCEPT ![l] = IF account.limited THEN @ ELSE now]
    /\ UNCHANGED <<now, account, entry, tool, looked, limits>>

(* The account's capacity is its newest known observation, the worse of two
   at one time. *)
Rank(s) == CASE s = "available" -> 0 [] s = "retryable" -> 1 [] OTHER -> 2

NewestOf(S) ==
    CHOOSE r \in S : \A o \in S :
        o.at < r.at \/ (o.at = r.at /\ Rank(o.state) <= Rank(r.state))

AccountCapacity ==
    LET known == {published[l] : l \in CapLanes} \ {NoReading}
    IN  IF known = {} THEN NoReading ELSE NewestOf(known)

FitReading == AccountCapacity.state \in {"unknown", "available"}

CapacityPoll(l) == Look(l) \/ Settle(l)

CapacityNext ==
    \/ Tick \/ Lift \/ \E r \in 0..MaxNow : Limit(r)
    \/ \E l \in CapLanes :
          \/ Request(l) \/ Repeat(l) \/ ToolEvent(l) \/ ObserveCapacity(l)
          \/ CapacityPoll(l) \/ ProbeExhaustion(l)

(* Time passes, the service polls, and it wakes lanes without a reset. *)
CapacitySpec ==
    /\ CapacityInit /\ [][CapacityNext]_caVars
    /\ WF_caVars(Tick)
    /\ \A l \in CapLanes : WF_caVars(CapacityPoll(l)) /\ WF_caVars(ProbeExhaustion(l))

-----------------------------------------------------------------------------
(* The resets the record and the entry of this reading name. *)
ReadResets(l) ==
    {published[l].reset, entry[l].reset}
        \cup (IF looked[l] = NotLooked THEN {} ELSE {looked[l].entry.reset})

ExhaustionEndsForAReasonStep ==
    \A l \in CapLanes :
        (published[l].state = "exhausted" /\ published'[l].state = "available")
        => \/ success'[l] >= published[l].at
           \/ \E r \in ReadResets(l) : r # 0 /\ r <= now
           \/ tool[l] > published[l].at

(* Exhaustion ends only when the lane was served after it, a reset it names
   passed, or a tool event came after it; a record written again with no
   request behind it, or an older one, does not end it. *)
ExhaustionEndsForAReason == [][ExhaustionEndsForAReasonStep]_caVars

CapacityMovesForwardStep ==
    \A l \in CapLanes : published'[l].at >= published[l].at

(* The record never goes back in time. *)
CapacityMovesForward == [][CapacityMovesForwardStep]_caVars

ExhaustionIsProbedState ==
    \A l \in CapLanes : account.limited \/ published[l].state # "exhausted"

(* A lane whose provider serves again does not stay exhausted, whether or not
   the provider named a time. *)
ExhaustionIsProbed == []<>ExhaustionIsProbedState

Readings == [state : CapacityStates, at : -1..MaxNow, reset : 0..MaxNow,
             progress : 0..(MaxNow + 1), probes : 0..1]
Looks == [at : 0..MaxNow, base : Readings, entry : Readings]

(* What is known of a lane: its entry, and what was read of it. *)
Known(l) ==
    {entry[l], published[l]}
        \cup (IF looked[l] = NotLooked THEN {} ELSE {looked[l].base, looked[l].entry})

(* Progress beyond what an exhausted reading has was made after it, and only a
   served request makes progress; between a look and its settling a record that
   stays exhausted is the one looked at. *)
CapacityInv ==
    /\ CapacityTypeOK
    /\ account \in [limited : BOOLEAN, reset : 0..MaxNow] /\ limits \in Nat
    /\ entry \in [CapLanes -> Readings] /\ published \in [CapLanes -> Readings]
    /\ looked \in [CapLanes -> Looks \cup {NotLooked}]
    /\ tool \in [CapLanes -> -1..MaxNow] /\ success \in [CapLanes -> -1..MaxNow]
    /\ \A l \in CapLanes :
          /\ entry[l].progress <= success[l] + 1 /\ tool[l] <= now /\ success[l] <= now
          /\ \A r \in Known(l) :
                /\ r.at <= now /\ r.progress <= entry[l].progress
                /\ r.state = "exhausted" =>
                      \A v \in Known(l) : v.progress > r.progress => v.progress > r.at
          /\ (looked[l] # NotLooked /\ published[l].state = "exhausted") =>
                /\ looked[l].base.state = "exhausted"
                /\ looked[l].base.progress = published[l].progress
===============================================================================
