----------------------------- MODULE Reservations -----------------------------
(***************************************************************************)
(* Advisory reservations of one project: the live rows of the store's      *)
(* file_reservations and reservation_requests tables, the credentials that *)
(* decide who can be told of a grant, and every operation that changes     *)
(* them.  One action is one immediate SQLite transaction, except that a    *)
(* tool call is authenticated, and the claim it will record is read,       *)
(* before its transaction opens (Authenticate), and that a renewal reads   *)
(* the claims its lane owns before it opens its own (ReadOwned).           *)
(*                                                                         *)
(* Lanes are numbered in the order of their names, which is the order the  *)
(* expiry sweep visits them in.  Released leases and answered requests     *)
(* stay in the store as history and are left out.  Of a deadline only its  *)
(* phase is kept: a timed lease is running, then expired, then lapsed,     *)
(* which is expired for longer than RESERVATION_GRACE.                     *)
(***************************************************************************)
EXTENDS Integers, Sequences, FiniteSets, Iteration

CONSTANTS
    N,              \* lanes of the project
    Key,            \* reservation keys, normalized
    Overlap,        \* pairs of keys that overlap when case is compared
    FoldedOverlap,  \* pairs of keys that overlap when case is folded
    Folds,          \* whether the manifest records a case-insensitive checkout
    Claim,          \* claim generations the issue ledger may issue
    Timings,        \* whether calls may declare a time to live: subset of BOOLEAN
    MaxLeases,      \* keys one lane may hold: 128 in _grant
    MaxRequests,    \* MAX_QUEUED_REQUESTS, per lane
    MaxHandoffs,    \* model bound: handoffs on their way at once
    MaxCalls        \* model bound: calls and renewals read but not committed

Lane == 1..N

NoClaim == 0        \* no claim is recorded; claims are positive numbers
NoCall == -1        \* the lane has no call between authentication and commit

ASSUME ConstantsAssumption ==
    /\ N \in Nat \ {0}
    /\ IsFiniteSet(Key)
    /\ Overlap \in SUBSET (Key \X Key)
    /\ FoldedOverlap \in SUBSET (Key \X Key)
    /\ Folds \in BOOLEAN
    /\ Claim \subseteq Nat \ {0}
    /\ Timings \subseteq BOOLEAN
    /\ {MaxLeases, MaxRequests, MaxHandoffs, MaxCalls} \subseteq Nat

(* What store.overlapping guarantees: every key overlaps itself, the relation
   does not depend on the order of its arguments, and folding case only adds
   overlaps.  The last holds of keys without a negated class ([!a] matches "A"
   only while case is compared), so a project that folds case and reserves such
   keys is left out.  A project that compares case never reads FoldedOverlap. *)
ASSUME OverlapAssumption ==
    /\ \A k \in Key : <<k, k>> \in Overlap
    /\ \A j, k \in Key : <<j, k>> \in Overlap => <<k, j>> \in Overlap
    /\ \A j, k \in Key :
          <<j, k>> \in FoldedOverlap => <<k, j>> \in FoldedOverlap
    /\ Overlap \subseteq FoldedOverlap

Age == {"untimed", "running", "expired", "lapsed"}

Lease == [lane : Lane, key : Key, excl : BOOLEAN, age : Age,
          claim : Claim \cup {NoClaim}]

Request == [lane : Lane, key : Key, excl : BOOLEAN, timed : BOOLEAN,
            claim : Claim \cup {NoClaim}]

(* What one transaction reads and writes of the two tables.                *)
Tables == [leases : SUBSET Lease, queue : Seq(Request)]

(* A committed change of ownership whose reservations have not moved yet:
   keys carried by an accepted offer, or (old # NoClaim) whatever is held
   under the claim generation a recovery took over. *)
Move == [from : Lane, to : Lane, keys : SUBSET Key,
         old : Claim \cup {NoClaim}, new : Claim]

Offer == [from : Lane, to : Lane, keys : SUBSET Key, claim : Claim]

Reading == [lane : Lane, claims : SUBSET Claim]

VARIABLES
    leases,        \* live rows of file_reservations
    queue,         \* live rows of reservation_requests, oldest first
    credentialed,  \* lanes whose token_digest is set
    inflight,      \* claim read by an authenticated call, or NoCall
    holder,        \* issue ledger: the lane a claim generation belongs to
    offers,        \* issue ledger: offers with the keys they carry
    moves,         \* ledger changes whose store step is still to come
    readings       \* claims read by renewals that have yet to commit

vars == <<leases, queue, credentialed, inflight, holder, offers, moves, readings>>

tables == [leases |-> leases, queue |-> queue]
ledger == <<holder, offers, moves, readings>>

Unissued == 0
Ended == -1

TypeOK ==
    /\ leases \in SUBSET Lease
    /\ queue \in Seq(Request)
    /\ credentialed \in SUBSET Lane
    /\ inflight \in [Lane -> Claim \cup {NoClaim, NoCall}]
    /\ holder \in [Claim -> Lane \cup {Unissued, Ended}]
    /\ offers \in SUBSET Offer
    /\ moves \in SUBSET Move
    /\ readings \in SUBSET Reading

Init ==
    /\ leases = {}
    /\ queue = << >>
    /\ credentialed = Lane
    /\ inflight = [l \in Lane |-> NoCall]
    /\ holder = [c \in Claim |-> Unissued]
    /\ offers = {}
    /\ moves = {}
    /\ readings = {}

-----------------------------------------------------------------------------
(* The rules of the tables.                                                *)

(* Whether two keys name the same thing, comparing case unless fold. *)
Overlapping(j, k, fold) ==
    <<j, k>> \in (IF fold THEN FoldedOverlap ELSE Overlap)

(* Wrong forms of the definitions below, one plausible slip each, which the
   properties must tell from the right ones, are named BadX_... after the
   definition X they replace. *)
BadBlocks_ExactKey(x, lane, key, excl, fold) ==
    /\ x.lane # lane
    /\ excl \/ x.excl
    /\ key = x.key

(* Whether the lease x of another lane stands in the way of asking for key
   with the strength excl. *)
Blocks(x, lane, key, excl, fold) ==
    /\ x.lane # lane
    /\ excl \/ x.excl
    /\ Overlapping(key, x.key, fold)

KeysOf(rows) == {x.key : x \in rows}

HeldBy(lane, rows) == {x \in rows : x.lane = lane}

BadLeaseOf_NoCall(r) ==
    [lane |-> r.lane, key |-> r.key, excl |-> r.excl,
     age |-> IF r.timed THEN "running" ELSE "untimed",
     claim |-> IF r.claim = NoClaim THEN NoCall ELSE r.claim]

LeaseOf(r) ==
    [lane |-> r.lane, key |-> r.key, excl |-> r.excl,
     age |-> IF r.timed THEN "running" ELSE "untimed", claim |-> r.claim]

BadSupersede_Keeps(rows, new) == rows \cup new

(* Rows of the table with every row of the new leases' own lane and key
   superseded by them. *)
Supersede(rows, new) ==
    {x \in rows : \A y \in new : ~(x.lane = y.lane /\ x.key = y.key)} \cup new

(* Whether the rows hold the key of the request for its lane, as strongly as
   it asks. *)
Satisfied(r, rows) ==
    \E x \in rows : x.lane = r.lane /\ x.key = r.key /\ (x.excl \/ ~r.excl)

(* One turn of the loop of _grant_queued: the request r either keeps its
   place, is satisfied already, or becomes a lease. *)
ServeRequest(t, r, actor, released, fold) ==
    LET waits == [t EXCEPT !.queue = Append(t.queue, r)]
        considered == /\ r.lane # actor
                      /\ r.lane \in credentialed
                      /\ \E k \in released : Overlapping(r.key, k, fold)
        blocked == \E x \in t.leases : Blocks(x, r.lane, r.key, r.excl, fold)
    IN  IF ~considered THEN waits
        ELSE IF Satisfied(r, t.leases) THEN t
        ELSE IF blocked THEN waits
        ELSE [t EXCEPT !.leases = Supersede(t.leases, {LeaseOf(r)})]

BadGrantQueued_NewestFirst(t, actor, released, fold) ==
    Iterate([i \in 1..Len(t.queue) |->
                [s \in Tables |->
                    ServeRequest(s, t.queue[Len(t.queue) + 1 - i],
                                 actor, released, fold)]],
            [t EXCEPT !.queue = << >>], Len(t.queue))

(* Hands the keys an actor released to the lanes that queued for them. *)
GrantQueued(t, actor, released, fold) ==
    Iterate([i \in 1..Len(t.queue) |->
                [s \in Tables |->
                    ServeRequest(s, t.queue[i], actor, released, fold)]],
            [t EXCEPT !.queue = << >>], Len(t.queue))

BadReleaseRows_NoGrant(t, lane, rows, fold) ==
    [t EXCEPT !.leases = t.leases \ rows]

(* Releases some leases of one lane and grants what was queued for them. *)
ReleaseRows(t, lane, rows, fold) ==
    GrantQueued([t EXCEPT !.leases = t.leases \ rows], lane, KeysOf(rows), fold)

BadExpiredLeases_NoGrace(quiet) ==
    {x \in leases : x.age \in {"expired", "lapsed"} /\ x.lane \in quiet}

(* Leases the sweep may take, when the last published observation of the
   lanes in quiet found no live session or an idle one. *)
ExpiredLeases(quiet) ==
    {x \in leases : \/ x.age = "lapsed"
                    \/ x.age = "expired" /\ x.lane \in quiet}

(* Lanes whose leases the sweep takes only if it sees them quiet. *)
Late == {x.lane : x \in {y \in leases : y.age = "expired"}}

BadReclaim_WholeHolder(quiet) ==
    Iterate([i \in Lane |->
                [s \in Tables |->
                    ReleaseRows(s, i, IF HeldBy(i, ExpiredLeases(quiet)) = {}
                                      THEN {} ELSE HeldBy(i, leases), FALSE)]],
            tables, N)

(* The sweep: each holder of expired leases in name order, its leases
   released and handed on before the next holder is visited.  The overlap
   rule of the grant is never told that the project folds case. *)
Reclaim(quiet) ==
    Iterate([i \in Lane |->
                [s \in Tables |->
                    ReleaseRows(s, i, HeldBy(i, ExpiredLeases(quiet)), FALSE)]],
            tables, N)

(* The keys of a batch that a lease of another lane blocks. *)
Conflicts(t, lane, keys, excl) ==
    {k \in keys : \E x \in t.leases : Blocks(x, lane, k, excl, Folds)}

(* A batch that conflicts with nothing, recorded for its lane. *)
Batch(lane, keys, excl, timed, claim) ==
    {LeaseOf([lane |-> lane, key |-> k, excl |-> excl, timed |-> timed,
              claim |-> claim]) : k \in keys}

(* Whether recording the batch keeps the lane within its lease budget. *)
WithinBudget(t, lane, keys) ==
    Cardinality(KeysOf(HeldBy(lane, t.leases)) \cup keys) <= MaxLeases

Commit(t) == leases' = t.leases /\ queue' = t.queue

QueuedKeys(t, lane) ==
    {t.queue[i].key : i \in {j \in 1..Len(t.queue) : t.queue[j].lane = lane}}

RequestsOf(lane) ==
    {queue[i] : i \in {j \in 1..Len(queue) : queue[j].lane = lane}}

(* The orders in which a batch's keys may sort. *)
Orders(keys) ==
    {f \in [1..Cardinality(keys) -> keys] :
        \A i, j \in 1..Cardinality(keys) : f[i] = f[j] => i = j}

(* Places the keys the lane is not queued for yet at the end of the queue. *)
Enqueue(t, lane, order, excl, timed, claim) ==
    [t EXCEPT !.queue = t.queue \o
        [i \in DOMAIN order |->
            [lane |-> lane, key |-> order[i], excl |-> excl,
             timed |-> timed, claim |-> claim]]]

-----------------------------------------------------------------------------
(* Tool calls of a lane.                                                   *)

Pending == Cardinality({m \in Lane : inflight[m] # NoCall}) + Cardinality(readings)

(* The server resolves the bearer credential and the dispatcher reads the
   claim the lane holds; the transaction comes later and checks neither. *)
Authenticate(l) ==
    /\ l \in credentialed
    /\ inflight[l] = NoCall
    /\ Pending < MaxCalls
    /\ LET held == {c \in Claim : holder[c] = l}
       IN  \E c \in (IF held = {} THEN {NoClaim} ELSE held) :
              inflight' = [inflight EXCEPT ![l] = c]
    /\ UNCHANGED <<leases, queue, credentialed, ledger>>

Serving(l) ==
    /\ inflight[l] # NoCall
    /\ inflight' = [inflight EXCEPT ![l] = NoCall]
    /\ UNCHANGED <<credentialed, ledger>>

(* Records an unconflicted batch; over budget the transaction rolls back,
   the sweep it began with included. *)
TakeBatch(t, l, keys, excl, timed) ==
    IF WithinBudget(t, l, keys)
    THEN Commit([t EXCEPT !.leases =
                    Supersede(t.leases,
                              Batch(l, keys, excl, timed, inflight[l]))])
    ELSE Commit(tables)

(* file_reservation_paths: all of the batch or none of it. *)
Reserve(l) ==
    /\ Serving(l)
    /\ \E keys \in (SUBSET Key) \ {{}}, excl \in BOOLEAN, timed \in Timings,
          quiet \in SUBSET Late :
          LET t == Reclaim(quiet)
          IN  IF Conflicts(t, l, keys, excl) = {}
              THEN TakeBatch(t, l, keys, excl, timed)
              ELSE Commit(t)

(* request_reservation: the batch, or a place in the queue of each key of it
   that is blocked. *)
RequestReservation(l) ==
    /\ Serving(l)
    /\ \E keys \in (SUBSET Key) \ {{}}, excl \in BOOLEAN, timed \in Timings,
          quiet \in SUBSET Late :
          LET t == Reclaim(quiet)
              blocked == Conflicts(t, l, keys, excl)
              waiting == QueuedKeys(t, l)
          IN  \/ /\ blocked = {}
                 /\ TakeBatch(t, l, keys, excl, timed)
              \/ /\ blocked # {}
                 /\ Cardinality(waiting \cup blocked) <= MaxRequests
                 /\ \E order \in Orders(blocked \ waiting) :
                       Commit(Enqueue(t, l, order, excl, timed, inflight[l]))
              \/ /\ blocked # {}
                 /\ Cardinality(waiting \cup blocked) > MaxRequests
                 /\ Commit(tables)

(* cancel_reservation_request: one of the lane's requests, or all of them. *)
CancelRequest(l) ==
    /\ Serving(l)
    /\ \E gone \in {{r} : r \in RequestsOf(l)} \cup {RequestsOf(l)} :
          queue' = Without(queue, gone, Request)
    /\ UNCHANGED leases

(* release_file_reservations. *)
Release(l) ==
    /\ Serving(l)
    /\ Commit(ReleaseRows(tables, l, HeldBy(l, leases), Folds))

(* retire: the release, without the fold, and the end of the credential in
   one transaction. *)
Retire(l) ==
    /\ inflight[l] # NoCall
    /\ inflight' = [inflight EXCEPT ![l] = NoCall]
    /\ LET t == ReleaseRows(tables, l, HeldBy(l, leases), FALSE)
       IN  /\ leases' = t.leases
           /\ queue' = Without(t.queue, RequestsOf(l), Request)
    /\ credentialed' = credentialed \ {l}
    /\ UNCHANGED ledger

-----------------------------------------------------------------------------
(* The runtime: hooks, the supervisor's poll and the operator.             *)

(* owned_claims, before the transaction of a renewal: the claims the lane owns,
   or, when the issue ledger cannot be read, as if it owned every one. *)
ReadOwned(l) ==
    /\ Pending < MaxCalls /\ \A r \in readings : r.lane # l
    /\ \E claims \in {{c \in Claim : holder[c] = l}, Claim} :
          readings' = readings \cup {[lane |-> l, claims |-> claims]}
    /\ UNCHANGED <<leases, queue, credentialed, inflight, holder, offers, moves>>

(* A checkpoint of a working lane renews its expired leases, and releases
   those recorded under a claim that its reading has not. *)
Renew(l) ==
    /\ \E r \in readings :
          LET due == {x \in HeldBy(l, leases) : x.age \in {"expired", "lapsed"}}
              dropped == {x \in due : x.claim # NoClaim /\ x.claim \notin r.claims}
              renewed == {[x EXCEPT !.age = "running"] : x \in due \ dropped}
          IN  /\ r.lane = l /\ readings' = readings \ {r}
              /\ Commit(ReleaseRows([tables EXCEPT !.leases =
                                        (leases \ (due \ dropped)) \cup renewed],
                                    l, dropped, FALSE))
    /\ UNCHANGED <<credentialed, inflight, holder, offers, moves>>

(* The poll's sweep of expired leases. *)
ReclaimExpired ==
    /\ UNCHANGED <<credentialed, inflight, ledger>>
    /\ \E quiet \in SUBSET Late : Commit(Reclaim(quiet))

(* The supervisor proved a lane dead, or the operator retires it: everything
   it holds is released and handed on. *)
ReleaseDeadHolder(l) ==
    /\ Commit(ReleaseRows(tables, l, HeldBy(l, leases), FALSE))
    /\ UNCHANGED <<credentialed, inflight, ledger>>

(* The credential ends and the lane's queued requests with it; its leases
   stay. *)
Revoke(l) ==
    /\ l \in credentialed
    /\ credentialed' = credentialed \ {l}
    /\ queue' = Without(queue, RequestsOf(l), Request)
    /\ UNCHANGED <<leases, inflight, ledger>>

Register(l) ==
    /\ l \notin credentialed
    /\ credentialed' = credentialed \cup {l}
    /\ UNCHANGED <<leases, queue, inflight, ledger>>

(* Time passes a declared deadline, or the grace after it. *)
Elapse ==
    /\ \E x \in leases :
          /\ x.age \in {"running", "expired"}
          /\ leases' = (leases \ {x}) \cup
                {[x EXCEPT !.age = IF x.age = "running" THEN "expired"
                                                        ELSE "lapsed"]}
    /\ UNCHANGED <<queue, credentialed, inflight, ledger>>

-----------------------------------------------------------------------------
(* The issue ledger, as far as reservations follow it: claims are issued    *)
(* and ended there, under a lock of its own, and the reservations of a     *)
(* claim that changed hands move in a later transaction of the store.      *)

Fresh(c) == holder[c] = Unissued /\ \A d \in Claim : d < c => holder[d] # Unissued

ClaimIssue(l) ==
    /\ \E c \in Claim : Fresh(c) /\ holder' = [holder EXCEPT ![c] = l]
    /\ UNCHANGED <<leases, queue, credentialed, inflight, offers, moves, readings>>

EndClaim(c) ==
    /\ holder[c] \in Lane
    /\ holder' = [holder EXCEPT ![c] = Ended]
    /\ offers' = {o \in offers : o.claim # c}
    /\ UNCHANGED <<leases, queue, credentialed, inflight, moves, readings>>

(* The offer carries the keys the lane holds now and that have not expired. *)
OfferClaim(c) ==
    /\ holder[c] \in Lane
    /\ \A o \in offers : o.claim # c
    /\ Cardinality(offers) + Cardinality(moves) < MaxHandoffs
    /\ \E to \in Lane \ {holder[c]} :
          offers' = offers \cup
             {[from |-> holder[c], to |-> to, claim |-> c,
               keys |-> KeysOf({x \in HeldBy(holder[c], leases) :
                                   x.age \in {"untimed", "running"}})]}
    /\ UNCHANGED <<leases, queue, credentialed, inflight, holder, moves, readings>>

DeclineOffer(o) ==
    /\ offers' = offers \ {o}
    /\ UNCHANGED <<leases, queue, credentialed, inflight, holder, moves, readings>>

(* Ownership moves under a fresh claim generation; the keys follow later. *)
AcceptOffer(o) ==
    /\ \E d \in Claim :
          /\ Fresh(d)
          /\ holder' = [holder EXCEPT ![o.claim] = Ended, ![d] = o.to]
          /\ moves' = moves \cup
                {[from |-> o.from, to |-> o.to, keys |-> o.keys,
                  old |-> NoClaim, new |-> d]}
    /\ offers' = offers \ {o}
    /\ UNCHANGED <<leases, queue, credentialed, inflight, readings>>

TakeOrphaned(c, l) ==
    /\ holder[c] \in Lane \ {l}
    /\ Cardinality(offers) + Cardinality(moves) < MaxHandoffs
    /\ \E d \in Claim :
          /\ Fresh(d)
          /\ holder' = [holder EXCEPT ![c] = Ended, ![d] = l]
          /\ moves' = moves \cup
                {[from |-> holder[c], to |-> l, keys |-> {},
                  old |-> c, new |-> d]}
    /\ offers' = {o \in offers : o.claim # c}
    /\ UNCHANGED <<leases, queue, credentialed, inflight, readings>>

BadMoveReservations_Copies(m) ==
    LET moved == {x \in HeldBy(m.from, leases) :
                     IF m.old = NoClaim THEN x.key \in m.keys
                                        ELSE x.claim = m.old}
        settled == {r \in RequestsOf(m.to) :
                       \E x \in moved : x.key = r.key /\ (x.excl \/ ~r.excl)}
    IN  /\ leases' = Supersede(leases,
                        {[x EXCEPT !.lane = m.to, !.claim = m.new] : x \in moved})
        /\ queue' = Without(queue, settled, Request)
        /\ moves' = moves \ {m}
        /\ UNCHANGED <<credentialed, inflight, holder, offers, readings>>

(* transfer_reservations and transfer_claim_reservations: the leases move
   whatever else overlaps them, superseding the receiver's own rows of the
   same keys, and the receiver's requests that they satisfy are settled. *)
MoveReservations(m) ==
    LET moved == {x \in HeldBy(m.from, leases) :
                     IF m.old = NoClaim THEN x.key \in m.keys
                                        ELSE x.claim = m.old}
        settled == {r \in RequestsOf(m.to) :
                       \E x \in moved : x.key = r.key /\ (x.excl \/ ~r.excl)}
    IN  /\ leases' = Supersede(leases \ moved,
                        {[x EXCEPT !.lane = m.to, !.claim = m.new] : x \in moved})
        /\ queue' = Without(queue, settled, Request)
        /\ moves' = moves \ {m}
        /\ UNCHANGED <<credentialed, inflight, holder, offers, readings>>

(* The store cannot answer: the keys stay where they are for good. *)
MoveFails(m) ==
    /\ moves' = moves \ {m}
    /\ UNCHANGED <<leases, queue, credentialed, inflight, holder, offers, readings>>

-----------------------------------------------------------------------------
ToolCall(l) ==
    \/ Authenticate(l) \/ Reserve(l) \/ RequestReservation(l)
    \/ CancelRequest(l) \/ Release(l) \/ Retire(l)

Runtime(l) ==
    \/ ReadOwned(l) \/ Renew(l) \/ ReleaseDeadHolder(l) \/ Revoke(l) \/ Register(l)

Ownership ==
    \/ \E l \in Lane : ClaimIssue(l)
    \/ \E c \in Claim : EndClaim(c) \/ OfferClaim(c)
    \/ \E o \in offers : DeclineOffer(o) \/ AcceptOffer(o)
    \/ \E c \in Claim, l \in Lane : TakeOrphaned(c, l)
    \/ \E m \in moves : MoveReservations(m) \/ MoveFails(m)

Next ==
    \/ \E l \in Lane : ToolCall(l) \/ Runtime(l)
    \/ ReclaimExpired
    \/ Elapse
    \/ Ownership

Spec == Init /\ [][Next]_vars

(* The supervisor's poll runs for as long as the service does, and each poll
   sweeps the expired leases. *)
FairSpec == Spec /\ WF_vars(ReclaimExpired)

-----------------------------------------------------------------------------
(* Properties.                                                             *)

(* No two lanes hold the same key when either holds it exclusively.  Every
   path that writes a lease (a batch, a granted request, a handoff, a
   takeover) must keep this, each with checks of its own or with none. *)
KeyExclusion ==
    \A x, y \in leases :
        x.lane # y.lane /\ x.key = y.key => ~x.excl /\ ~y.excl

(* A lane has at most one live lease of a key and at most one live request
   for it, so that a release frees a key once and a grant is made once. *)
OneLeasePerKey ==
    \A x, y \in leases : x.lane = y.lane /\ x.key = y.key => x = y

OneRequestPerKey ==
    \A i, j \in 1..Len(queue) :
        queue[i].lane = queue[j].lane /\ queue[i].key = queue[j].key => i = j

OneRowPerKey == OneLeasePerKey /\ OneRequestPerKey

Collide(x, y) ==
    /\ x.lane # y.lane
    /\ x.excl \/ y.excl
    /\ Overlapping(x.key, y.key, FALSE)

Handoff == \E m \in moves : MoveReservations(m)

(* The step is a handoff, or every collision after it was there before. *)
NoNewCollision ==
    \/ Handoff
    \/ \A x, y \in leases' :
          Collide(x, y) => \E u, v \in leases : /\ u.lane = x.lane /\ u.key = x.key
                                               /\ v.lane = y.lane /\ v.key = y.key
                                               /\ Collide(u, v)

(* Two lanes come to hold overlapping keys, one of them exclusively, only by
   a handoff or a takeover, which moves a lease without asking what the
   previous holder keeps.  No grant of the store ever adds such a pair. *)
OnlyHandoffsOverlap == [][NoNewCollision]_vars

StillHolds(x, rows) == \E y \in rows : y.lane = x.lane /\ y.key = x.key

(* The step commits a call of the lane. *)
Calling(l) == inflight[l] # NoCall /\ inflight'[l] = NoCall

(* When a key is released, by its holder or for it, no lane that could have
   been granted it is left in the queue: whoever still waits for an
   overlapping key is blocked by a lease that is live in the same state, as
   it is or as it was before the caller of the transaction made it shared. *)
NoKeyStranded ==
    ~Handoff =>
       \A x \in leases : ~StillHolds(x, leases') =>
          \A i \in 1..Len(queue') :
             /\ queue'[i].lane # x.lane
             /\ queue'[i].lane \in credentialed
             /\ Overlapping(queue'[i].key, x.key, FALSE)
             => \E y \in leases' :
                   Blocks(y, queue'[i].lane, queue'[i].key,
                          queue'[i].excl \/ Calling(y.lane), Folds)

ReleasedKeysAreHandedOn == [][NoKeyStranded]_vars

(* The step sweeps expired leases of more than one lane, whose keys are
   handed on one lane after the other. *)
SweepsSeveral ==
    \E x, y \in leases \ leases' :
        /\ x.lane # y.lane
        /\ {x.age, y.age} \subseteq {"expired", "lapsed"}

(* The step releases a key of another lane that the request waits for. *)
Reaches(r) ==
    \E x \in leases : /\ ~StillHolds(x, leases')
                      /\ r.lane # x.lane
                      /\ Overlapping(r.key, x.key, FALSE)

Queued(r, q) == \E n \in 1..Len(q) : q[n] = r

(* A request is not overtaken: when one lane's keys are released and a later
   request is granted, an earlier one that they could have served is left
   waiting only behind a lease other than the one the later request got. *)
NobodyOvertaken ==
    ~Handoff /\ ~SweepsSeveral =>
       \A i, j \in 1..Len(queue) :
          /\ i < j
          /\ queue[i].lane \in credentialed
          /\ Reaches(queue[i])
          /\ LeaseOf(queue[j]) \in leases' \ leases
          /\ ~Queued(queue[j], queue')
          /\ Queued(queue[i], queue')
          /\ ~Satisfied(queue[i], leases')
          => \E y \in leases \cup leases' :
                /\ y # LeaseOf(queue[j])
                /\ StillHolds(y, leases')
                /\ Blocks(y, queue[i].lane, queue[i].key,
                          queue[i].excl \/ Calling(y.lane), Folds)

EarlierRequestsGoFirst == [][NobodyOvertaken]_vars

(* The step takes a key from a working lane only with a call of its own, a
   proof of its death, or work that changed hands. *)
NoKeyTaken ==
    \A x \in leases :
        x.age \in {"untimed", "running"} /\ ~StillHolds(x, leases') =>
           \/ Release(x.lane) \/ Retire(x.lane) \/ ReleaseDeadHolder(x.lane)
           \/ \E m \in moves : m.from = x.lane /\ MoveReservations(m)

(* A lane within its declared time, or that declared none, loses a key only
   by its own release or retirement, by being proved dead, or by work of its
   own that changed hands: never by a peer's call or by the sweep. *)
WorkingHolderKeepsItsKeys == [][NoKeyTaken]_vars

(* Whether the request of lane l for key k waits behind lapsed leases only. *)
WaitsForLapsed(l, k) ==
    \E i \in 1..Len(queue) :
        /\ queue[i].lane = l /\ queue[i].key = k
        /\ l \in credentialed
        /\ \A y \in leases :
              Blocks(y, l, k, queue[i].excl, Folds) => y.age = "lapsed"
        /\ \E y \in leases : Blocks(y, l, k, queue[i].excl, Folds)

(* A queue is never held forever by holders that let their leases lapse: the
   request is answered or withdrawn, or what it waits for changes because one
   of them works again, or a lane that works took the key meanwhile. *)
LapsedHoldersGiveWay ==
    \A l \in Lane, k \in Key : WaitsForLapsed(l, k) ~> ~WaitsForLapsed(l, k)

(* What docs/coordination.md says of a case-insensitive checkout: keys that
   differ in case overlap, so two lanes never hold them when either is
   exclusive.  Checked without handoffs. *)
FoldedKeysExclude ==
    \A x, y \in leases :
        x.lane # y.lane /\ Overlapping(x.key, y.key, Folds)
            => ~x.excl /\ ~y.excl
=============================================================================
