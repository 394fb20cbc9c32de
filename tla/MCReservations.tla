---------------------------- MODULE MCReservations ----------------------------
(***************************************************************************)
(* Small instances of Reservations for TLC.  Two keys are enough to tell a *)
(* directory from a file under it, or two spellings of one path; a third   *)
(* lane is needed for a queue of two behind one holder.  Three lanes,      *)
(* deadlines and claims at once are more than TLC can visit, so one run    *)
(* visits two parts of that instance, each of them whole.                  *)
(***************************************************************************)
EXTENDS Reservations

(* A directory and a file under it. *)
Nested == {"src", "src/a"}
NestedOverlap == Nested \X Nested

(* Two spellings of one path, which overlap only when case is folded. *)
Spellings == {"A", "a"}
SpellingsOverlap == {<<"A", "A">>, <<"a", "a">>}
SpellingsFolded == Spellings \X Spellings

One == {"port:5432"}
OneOverlap == One \X One

NoClaims == {}
TwoClaims == {1, 2}

Untimed == {FALSE}
Timed == {TRUE}
AnyTiming == BOOLEAN

-----------------------------------------------------------------------------
(* The parts of an instance that one run visits.                           *)

NoDeadlines ==
    /\ \A x \in leases : x.age = "untimed"
    /\ \A i \in 1..Len(queue) : ~queue[i].timed

EveryDeadline ==
    /\ \A x \in leases : x.age # "untimed"
    /\ \A i \in 1..Len(queue) : queue[i].timed

ClaimsUnused ==
    /\ \A c \in Claim : holder[c] = Unissued
    /\ \A r \in readings : r.claims = {}

(* Lane l takes no part. *)
Idle(l) ==
    /\ l \in credentialed /\ inflight[l] = NoCall
    /\ HeldBy(l, leases) = {} /\ RequestsOf(l) = {}
    /\ \A c \in Claim : holder[c] # l
    /\ \A o \in offers : o.to # l
    /\ \A m \in moves : m.to # l
    /\ \A r \in readings : r.lane # l

(* A holder and a queue of two behind it; two lanes and two claims. *)
Queue == EveryDeadline /\ ClaimsUnused
Handover == NoDeadlines /\ Idle(3)

QueueOrHandover == Queue \/ Handover

===============================================================================
