-------------------------------- MODULE GitReadings --------------------------------
(***************************************************************************)
(* The project's Git readings, taken by the supervision poll and shared    *)
(* with the hook path.  The service keeps its last reading and gives it    *)
(* out even when it has run out, while one thread takes another; a process *)
(* without a kept reading uses the published one or joins the only reading *)
(* under way.  How a lane's pull request ended is cached the same way.     *)
(* What Git says is a number that grows.                                   *)
(***************************************************************************)
EXTENDS Naturals, FiniteSets

CONSTANTS
    Askers,         \* calls on the hook path that may ask at once
    MaxWorld,       \* model bound: changes of what Git says
    MaxFailures     \* model bound: readings that fail and threads that do not start

VARIABLES
    world,          \* what Git says now
    kept,           \* _READINGS: the kept reading
    published,      \* the reading in the project directory
    polled,         \* what the poll's reading saw, while it takes it
    registered,     \* _READINGS_FLIGHTS: whose reading others join
    flying,         \* the readings under way, with what they saw
    asker,          \* where each call is
    completion,     \* the cached completion: none, fresh or expired
    refreshing,     \* _REFRESHING holds its key
    refresher,      \* its thread runs
    failures        \* model bound

readingVars == <<world, kept, published, polled, registered, flying, asker, completion, refreshing,
                 refresher, failures>>

Ages == {"none", "fresh", "expired"}
Readings == [age : Ages, saw : 0..MaxWorld]
Unread == MaxWorld + 1      \* no reading under way
Leaders == Askers \cup {"background"}

ReadingsTypeOK ==
    /\ world \in 0..MaxWorld /\ kept \in Readings /\ published \in Readings
    /\ polled \in 0..Unread
    /\ registered \in Leaders \cup {"none"}
    /\ flying \in [Leaders -> 0..Unread]
    /\ asker \in [Askers -> {"idle", "leading", "waiting", "alone"}]
    /\ completion \in Ages /\ refreshing \in BOOLEAN /\ refresher \in BOOLEAN
    /\ failures \in 0..MaxFailures

ReadingsInit ==
    /\ world = 0 /\ kept = [age |-> "none", saw |-> 0] /\ published = kept
    /\ polled = Unread /\ registered = "none" /\ flying = [l \in Leaders |-> Unread]
    /\ asker = [a \in Askers |-> "idle"]
    /\ completion = "none" /\ refreshing = FALSE /\ refresher = FALSE /\ failures = 0

Cache == <<completion, refreshing, refresher>>

-----------------------------------------------------------------------------
(* Commits, edits and leases change what the readings say; time passes. *)
WorldChanges ==
    /\ world < MaxWorld /\ world' = world + 1
    /\ UNCHANGED <<kept, published, polled, registered, flying, asker, Cache, failures>>

TimePasses ==
    /\ \/ kept.age = "fresh" /\ kept' = [kept EXCEPT !.age = "expired"]
          /\ published' = [published EXCEPT !.age = "expired"] /\ UNCHANGED completion
       \/ completion = "fresh" /\ completion' = "expired" /\ UNCHANGED <<kept, published>>
    /\ UNCHANGED <<world, polled, registered, flying, asker, refreshing, refresher, failures>>

(* _take_readings: operator_edits and base_advances, read at one moment. *)
PollReads ==
    /\ polled = Unread /\ polled' = world
    /\ UNCHANGED <<world, kept, published, registered, flying, asker, Cache, failures>>

(* refresh_readings: kept, and published for other processes. *)
Keep(saw) ==
    kept' = [age |-> "fresh", saw |-> saw] /\ published' = kept'

PollKeeps ==
    /\ polled # Unread /\ polled' = Unread /\ Keep(polled)
    /\ UNCHANGED <<world, registered, flying, asker, Cache, failures>>

-----------------------------------------------------------------------------
(* _join_readings_flight: the first starts the reading. *)
Leads(l) == registered = "none"

Join(l) ==
    IF Leads(l) THEN registered' = l /\ flying' = [flying EXCEPT ![l] = world]
    ELSE UNCHANGED <<registered, flying>>

(* readings: the kept copy is given out at once, and renewed when it has run out.
   A thread that does not start leaves its flight registered for good: only the
   poll keeps a reading from then on. *)
StartsRefresh ==
    \/ Join("background") /\ UNCHANGED failures
    \/ /\ failures < MaxFailures /\ failures' = failures + 1
       /\ registered' = "background" /\ UNCHANGED flying

AskKept(a) ==
    /\ asker[a] = "idle" /\ kept.age # "none"
    /\ IF kept.age = "expired" /\ Leads("background") THEN StartsRefresh
       ELSE UNCHANGED <<registered, flying, failures>>
    /\ UNCHANGED <<world, kept, published, polled, asker, Cache>>

(* Without one: the published reading, or the one under way, or its own. *)
AskElsewhere(a) ==
    /\ asker[a] = "idle" /\ kept.age = "none" /\ published.age # "fresh"
    /\ Join(a)
    /\ asker' = [asker EXCEPT ![a] = IF registered' = a THEN "leading" ELSE "waiting"]
    /\ UNCHANGED <<world, kept, published, polled, Cache, failures>>

Followers == {a \in Askers : asker[a] = "waiting"}

(* The end of the flight lets everyone who joined go on: with its reading, or to
   take one alone. *)
Release(ok, l) ==
    asker' = [a \in Askers |-> IF a = l THEN "idle"
                               ELSE IF a \in Followers THEN (IF ok THEN "idle" ELSE "alone")
                               ELSE asker[a]]

(* _fly_readings *)
FlightEnds(l, ok) ==
    /\ flying[l] # Unread
    /\ ok \/ failures < MaxFailures
    /\ failures' = (IF ok THEN failures ELSE failures + 1)
    /\ flying' = [flying EXCEPT ![l] = Unread] /\ registered' = "none"
    /\ Release(ok, l)
    /\ IF ok /\ l = "background" THEN Keep(flying[l]) ELSE UNCHANGED <<kept, published>>
    /\ UNCHANGED <<world, polled, Cache>>

ReadAlone(a) ==
    /\ asker[a] = "alone" /\ asker' = [asker EXCEPT ![a] = "idle"]
    /\ UNCHANGED <<world, kept, published, polled, registered, flying, Cache, failures>>

-----------------------------------------------------------------------------
(* branch_completion: read at first, then given out while one thread renews it;
   forge_upkeep runs under the same rule. *)
AskCompletion ==
    /\ \/ completion = "none" /\ completion' = "fresh" /\ UNCHANGED <<refreshing, refresher, failures>>
       \/ /\ completion = "expired" /\ ~refreshing /\ UNCHANGED completion
          /\ \/ refreshing' = TRUE /\ refresher' = TRUE /\ UNCHANGED failures
             \/ /\ failures < MaxFailures /\ failures' = failures + 1
                /\ UNCHANGED <<refreshing, refresher>>
    /\ UNCHANGED <<world, kept, published, polled, registered, flying, asker>>

(* _refresh_completion: the key is given up whether the reading came or not. *)
Refreshed(ok) ==
    /\ completion' = (IF ok THEN "fresh" ELSE completion)
    /\ refreshing' = FALSE

RefreshEnds(ok) ==
    /\ refresher /\ refresher' = FALSE
    /\ ok \/ failures < MaxFailures
    /\ failures' = (IF ok THEN failures ELSE failures + 1)
    /\ Refreshed(ok)
    /\ UNCHANGED <<world, kept, published, polled, registered, flying, asker>>

ReadingsNext ==
    \/ WorldChanges \/ TimePasses \/ PollReads \/ PollKeeps \/ AskCompletion
    \/ \E a \in Askers : AskKept(a) \/ AskElsewhere(a) \/ ReadAlone(a)
    \/ \E ok \in BOOLEAN : RefreshEnds(ok) \/ \E l \in Leaders : FlightEnds(l, ok)

ReadingsSpec ==
    /\ ReadingsInit /\ [][ReadingsNext]_readingVars
    /\ WF_readingVars(PollReads) /\ WF_readingVars(PollKeeps)
    /\ \A l \in Leaders : WF_readingVars(FlightEnds(l, TRUE) \/ FlightEnds(l, FALSE))
    /\ \A a \in Askers : WF_readingVars(ReadAlone(a))

-----------------------------------------------------------------------------
(* However many calls ask at once, one reading is under way for them. *)
OneFlightAtATime == Cardinality({l \in Leaders : flying[l] # Unread}) <= 1

JoinedCallsReturnState ==
    \A a \in Askers : asker[a] # "waiting"

(* A call that joined another's reading is let go, also when that reading failed. *)
JoinedCallsReturn == []<>JoinedCallsReturnState

(* The key of a refresh is held only while its thread runs: one that failed or never
   started does not keep the reading from being renewed ever again. *)
RefreshesGiveUpTheirKey == refreshing => refresher

KeptIsCurrent == kept.age # "none" /\ kept.saw = world

(* The kept reading comes to be what Git says, though a slow reading of a call may
   put an older one in its place once. *)
KeptReadingsCatchUp == []<>KeptIsCurrent

(* Every reading under way is the registered one. *)
ReadingsInv ==
    /\ ReadingsTypeOK /\ RefreshesGiveUpTheirKey
    /\ \A l \in Leaders : flying[l] # Unread => registered = l
================================================================================
