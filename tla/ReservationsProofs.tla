-------------------------- MODULE ReservationsProofs --------------------------
(***************************************************************************)
(* Theorems about Reservations for every project: any number of lanes and  *)
(* keys, either kind of checkout, any limits.                              *)
(*                                                                         *)
(* The transactions that hand keys on are loops, so most of the work is    *)
(* one argument: a set L of possible lease tables that is closed under a   *)
(* grant nothing blocks and under the releases a transaction makes holds   *)
(* the table that transaction commits.  Each theorem chooses its own L.    *)
(***************************************************************************)
EXTENDS Reservations, IterationProofs, SequenceTheorems

(* Recording a batch that nothing blocks stays within L. *)
Grants(L) ==
    \A rows \in L, lane \in Lane, keys \in SUBSET Key,
       excl, timed, fold \in BOOLEAN, claim \in Claim \cup {NoClaim} :
          (\A k \in keys, x \in rows : ~Blocks(x, lane, k, excl, fold))
             => Supersede(rows, Batch(lane, keys, excl, timed, claim)) \in L

(* Removing the rows of S stays within L. *)
Sheds(L, S) == \A rows \in L : rows \ S \in L

(* Every sweep of expired leases that the current state allows stays within
   L, whatever was observed of the lanes. *)
Sweeps(L) ==
    \A quiet \in SUBSET Late, i \in Lane :
        Sheds(L, HeldBy(i, ExpiredLeases(quiet)))

Within(L) == [leases : L, queue : Seq(Request)]

LEMMA BatchType ==
  ASSUME NEW lane \in Lane, NEW keys \in SUBSET Key, NEW excl \in BOOLEAN,
         NEW timed \in BOOLEAN, NEW claim \in Claim \cup {NoClaim}
  PROVE  Batch(lane, keys, excl, timed, claim) \in SUBSET Lease
BY DEF Batch, LeaseOf, Lease, Age

(* A granted request is a batch of one key. *)
LEMMA RequestIsBatch ==
  ASSUME NEW r \in Request
  PROVE  {LeaseOf(r)} = Batch(r.lane, {r.key}, r.excl, r.timed, r.claim)
BY DEF Request, Batch, LeaseOf

LEMMA ServeWithin ==
  ASSUME NEW L, L \subseteq SUBSET Lease, Grants(L), NEW t \in Within(L),
         NEW r \in Request, NEW actor, NEW released, NEW fold \in BOOLEAN
  PROVE  ServeRequest(t, r, actor, released, fold) \in Within(L)
<1> DEFINE waits == [t EXCEPT !.queue = Append(t.queue, r)]
<1>1. waits \in Within(L)
  BY DEF Within
<1>2. ASSUME \A x \in t.leases : ~Blocks(x, r.lane, r.key, r.excl, fold)
      PROVE  [t EXCEPT !.leases = Supersede(t.leases, {LeaseOf(r)})]
                \in Within(L)
  <2>1. /\ r.lane \in Lane /\ {r.key} \in SUBSET Key /\ r.excl \in BOOLEAN
        /\ r.timed \in BOOLEAN /\ r.claim \in Claim \cup {NoClaim}
        /\ t.leases \in L
    BY DEF Request, Within
  <2>2. \A k \in {r.key}, x \in t.leases :
           ~Blocks(x, r.lane, k, r.excl, fold)
    BY <1>2
  <2>3. Supersede(t.leases,
                  Batch(r.lane, {r.key}, r.excl, r.timed, r.claim)) \in L
    BY <2>1, <2>2 DEF Grants
  <2> QED
    BY <2>3, RequestIsBatch DEF Within
<1> QED
  BY <1>1, <1>2 DEF ServeRequest

LEMMA GrantWithin ==
  ASSUME NEW L, L \subseteq SUBSET Lease, Grants(L), NEW t \in Within(L),
         NEW actor, NEW released, NEW fold \in BOOLEAN
  PROVE  GrantQueued(t, actor, released, fold) \in Within(L)
<1> DEFINE n == Len(t.queue)
           step == [i \in 1..n |->
                      [s \in Tables |->
                         ServeRequest(s, t.queue[i], actor, released, fold)]]
           start == [t EXCEPT !.queue = << >>]
<1>1. n \in Nat /\ start \in Within(L)
  <2>1. t.queue \in Seq(Request) /\ << >> \in Seq(Request)
    BY DEF Within
  <2>2. n \in Nat
    BY <2>1
  <2>3. start \in Within(L)
    BY <2>1 DEF Within
  <2> QED
    BY <2>2, <2>3
<1>2. StaysWithin(step, n, Within(L))
  <2> SUFFICES ASSUME NEW i \in 1..n, NEW s \in Within(L)
               PROVE  step[i][s] \in Within(L)
    BY DEF StaysWithin
  <2>1. t.queue[i] \in Request
    BY DEF Within
  <2>2. s \in Tables
    BY DEF Within, Tables
  <2> QED
    BY <2>1, <2>2, ServeWithin
<1> HIDE DEF step, start
<1>3. Iterate(step, start, n) \in Within(L)
  BY <1>1, <1>2, IterateInvariant
<1> QED
  BY <1>3 DEF GrantQueued, step, start

LEMMA ReleaseWithin ==
  ASSUME NEW L, L \subseteq SUBSET Lease, Grants(L), NEW t \in Within(L),
         NEW lane, NEW rows, t.leases \ rows \in L, NEW fold \in BOOLEAN
  PROVE  ReleaseRows(t, lane, rows, fold) \in Within(L)
<1>1. [t EXCEPT !.leases = t.leases \ rows] \in Within(L)
  BY DEF Within
<1> QED
  BY <1>1, GrantWithin DEF ReleaseRows

LEMMA ReclaimWithin ==
  ASSUME NEW L, L \subseteq SUBSET Lease, Grants(L), Sweeps(L),
         leases \in L, queue \in Seq(Request), NEW quiet \in SUBSET Late
  PROVE  Reclaim(quiet) \in Within(L)
<1> DEFINE step == [i \in Lane |->
                      [s \in Tables |->
                         ReleaseRows(s, i, HeldBy(i, ExpiredLeases(quiet)),
                                     FALSE)]]
<1>1. N \in Nat /\ tables \in Within(L)
  BY ConstantsAssumption DEF tables, Within
<1>2. StaysWithin(step, N, Within(L))
  <2> SUFFICES ASSUME NEW i \in 1..N, NEW s \in Within(L)
               PROVE  step[i][s] \in Within(L)
    BY DEF StaysWithin
  <2>1. i \in Lane /\ s \in Tables /\ s.leases \in L
    BY DEF Within, Tables, Lane
  <2>2. s.leases \ HeldBy(i, ExpiredLeases(quiet)) \in L
    BY <2>1 DEF Sweeps, Sheds
  <2> QED
    BY <2>1, <2>2, ReleaseWithin
<1> HIDE DEF step
<1>3. Iterate(step, tables, N) \in Within(L)
  BY <1>1, <1>2, IterateInvariant
<1> QED
  BY <1>3 DEF Reclaim, step

-----------------------------------------------------------------------------
(* The transactions that sweep and then take or queue a batch.             *)

Committed(L) == leases' \in L /\ queue' \in Seq(Request)

LEMMA TakeBatchWithin ==
  ASSUME NEW L, L \subseteq SUBSET Lease, Grants(L),
         leases \in L, queue \in Seq(Request), NEW t \in Within(L),
         NEW l \in Lane, NEW keys \in SUBSET Key, NEW excl \in BOOLEAN,
         NEW timed \in BOOLEAN, inflight[l] \in Claim \cup {NoClaim},
         Conflicts(t, l, keys, excl) = {},
         TakeBatch(t, l, keys, excl, timed)
  PROVE  Committed(L)
<1>1. Folds \in BOOLEAN
  BY ConstantsAssumption
<1>2. t.leases \in L /\ t.queue \in Seq(Request)
  BY DEF Within
<1>3. \A k \in keys, x \in t.leases : ~Blocks(x, l, k, excl, Folds)
  BY DEF Conflicts
<1>4. Supersede(t.leases, Batch(l, keys, excl, timed, inflight[l])) \in L
  BY <1>1, <1>2, <1>3 DEF Grants
<1>5. CASE WithinBudget(t, l, keys)
  <2> DEFINE rows == Supersede(t.leases,
                               Batch(l, keys, excl, timed, inflight[l]))
  <2>1. Commit([t EXCEPT !.leases = rows])
    BY <1>5 DEF TakeBatch
  <2> HIDE DEF rows
  <2>2. leases' = rows /\ queue' = t.queue
    BY <2>1 DEF Commit, Within
  <2> QED
    BY <1>2, <1>4, <2>2 DEF Committed, rows
<1>6. CASE ~WithinBudget(t, l, keys)
  BY <1>6 DEF TakeBatch, Commit, tables, Committed
<1> QED
  BY <1>5, <1>6

LEMMA EnqueueType ==
  ASSUME NEW q \in Seq(Request), NEW rows, NEW l \in Lane,
         NEW keys \in SUBSET Key, NEW order \in Orders(keys),
         NEW excl \in BOOLEAN, NEW timed \in BOOLEAN,
         NEW claim \in Claim \cup {NoClaim}
  PROVE  Enqueue([leases |-> rows, queue |-> q],
                 l, order, excl, timed, claim).queue \in Seq(Request)
<1> DEFINE added == [i \in DOMAIN order |->
                       [lane |-> l, key |-> order[i], excl |-> excl,
                        timed |-> timed, claim |-> claim]]
<1>1. IsFiniteSet(keys)
  BY ConstantsAssumption, FS_Subset
<1>2. Cardinality(keys) \in Nat
  BY <1>1, FS_CardinalityType
<1>3. order \in [1..Cardinality(keys) -> keys]
  BY DEF Orders
<1>4. added \in [1..Cardinality(keys) -> Request]
  BY <1>3 DEF Request
<1>5. added \in Seq(Request)
  BY <1>2, <1>4, IsASeq
<1> HIDE DEF added
<1>6. q \o added \in Seq(Request)
  BY <1>5
<1> QED
  BY <1>6 DEF Enqueue, added

LEMMA InflightType ==
  ASSUME TypeOK, NEW l \in Lane, inflight[l] # NoCall
  PROVE  inflight[l] \in Claim \cup {NoClaim}
BY DEF TypeOK

LEMMA ReserveWithin ==
  ASSUME TypeOK, NEW L, L \subseteq SUBSET Lease, Grants(L), Sweeps(L),
         leases \in L, NEW l \in Lane, Reserve(l)
  PROVE  Committed(L)
<1>1. PICK keys \in (SUBSET Key) \ {{}}, excl \in BOOLEAN, timed \in Timings,
           quiet \in SUBSET Late :
         LET t == Reclaim(quiet)
         IN  IF Conflicts(t, l, keys, excl) = {}
             THEN TakeBatch(t, l, keys, excl, timed)
             ELSE Commit(t)
  BY DEF Reserve
<1> DEFINE t == Reclaim(quiet)
<1>2. queue \in Seq(Request) /\ timed \in BOOLEAN
  BY ConstantsAssumption DEF TypeOK
<1>3. t \in Within(L)
  BY <1>2, ReclaimWithin
<1>4. inflight[l] \in Claim \cup {NoClaim}
  BY InflightType DEF Reserve, Serving
<1> HIDE DEF t
<1>5. CASE Conflicts(t, l, keys, excl) = {}
  <2>1. TakeBatch(t, l, keys, excl, timed)
    BY <1>1, <1>5 DEF t
  <2> QED
    BY <1>2, <1>3, <1>4, <1>5, <2>1, TakeBatchWithin
<1>6. CASE Conflicts(t, l, keys, excl) # {}
  <2>1. Commit(t)
    BY <1>1, <1>6 DEF t
  <2> QED
    BY <1>3, <2>1 DEF Commit, Within, Committed
<1> QED
  BY <1>5, <1>6

LEMMA RequestWithin ==
  ASSUME TypeOK, NEW L, L \subseteq SUBSET Lease, Grants(L), Sweeps(L),
         leases \in L, NEW l \in Lane, RequestReservation(l)
  PROVE  Committed(L)
<1>1. PICK keys \in (SUBSET Key) \ {{}}, excl \in BOOLEAN, timed \in Timings,
           quiet \in SUBSET Late :
         LET t == Reclaim(quiet)
             blocked == Conflicts(t, l, keys, excl)
             waiting == QueuedKeys(t, l)
         IN  \/ /\ blocked = {}
                /\ TakeBatch(t, l, keys, excl, timed)
             \/ /\ blocked # {}
                /\ Cardinality(waiting \cup blocked) <= MaxRequests
                /\ \E order \in Orders(blocked \ waiting) :
                      Commit(Enqueue(t, l, order, excl, timed, inflight[l]))
             \/ /\ blocked # {}
                /\ Cardinality(waiting \cup blocked) > MaxRequests
                /\ Commit(tables)
  BY DEF RequestReservation
<1> DEFINE t == Reclaim(quiet)
           blocked == Conflicts(t, l, keys, excl)
           waiting == QueuedKeys(t, l)
<1>2. queue \in Seq(Request) /\ timed \in BOOLEAN
  BY ConstantsAssumption DEF TypeOK
<1>3. t \in Within(L)
  BY <1>2, ReclaimWithin
<1>4. inflight[l] \in Claim \cup {NoClaim}
  BY InflightType DEF RequestReservation, Serving
<1> HIDE DEF t
<1>5. CASE blocked = {} /\ TakeBatch(t, l, keys, excl, timed)
  BY <1>2, <1>3, <1>4, <1>5, TakeBatchWithin
<1>6. CASE \E order \in Orders(blocked \ waiting) :
              Commit(Enqueue(t, l, order, excl, timed, inflight[l]))
  <2>1. PICK order \in Orders(blocked \ waiting) :
           Commit(Enqueue(t, l, order, excl, timed, inflight[l]))
    BY <1>6
  <2>2. blocked \ waiting \in SUBSET Key
    BY DEF Conflicts
  <2>3. t.leases \in L /\ t.queue \in Seq(Request)
        /\ t = [leases |-> t.leases, queue |-> t.queue]
    BY <1>3 DEF Within
  <2> DEFINE e == Enqueue(t, l, order, excl, timed, inflight[l])
  <2> HIDE DEF blocked, waiting
  <2>4. e.queue \in Seq(Request)
    BY <1>2, <1>4, <2>2, <2>3, EnqueueType
  <2>5. e.leases = t.leases
    BY <2>3 DEF Enqueue
  <2> QED
    BY <2>1, <2>3, <2>4, <2>5 DEF Commit, Committed
<1>7. CASE Commit(tables)
  BY <1>2, <1>7 DEF Commit, tables, Committed
<1> QED
  BY <1>1, <1>5, <1>6, <1>7 DEF t

LEMMA SweepWithin ==
  ASSUME TypeOK, NEW L, L \subseteq SUBSET Lease, Grants(L), Sweeps(L),
         leases \in L, ReclaimExpired
  PROVE  Committed(L)
<1>1. PICK quiet \in SUBSET Late : Commit(Reclaim(quiet))
  BY DEF ReclaimExpired
<1>2. Reclaim(quiet) \in Within(L)
  BY ReclaimWithin DEF TypeOK
<1> QED
  BY <1>1, <1>2 DEF Commit, Within, Committed

-----------------------------------------------------------------------------
(* Every step of the specification, for a set L of lease tables.           *)

(* The rows x and y lease the same key to the same lane, with the same
   strength, whatever their age and their claim. *)
Same(x, y) == x.lane = y.lane /\ x.key = y.key /\ x.excl = y.excl

(* L holds every table whose rows stand each for a row of a table in L. *)
Refreshes(L) ==
    \A rows \in L, new \in SUBSET Lease :
        /\ \A x \in new : \E u \in rows : Same(x, u)
        /\ \A x, y \in new : x # y =>
              \E u, v \in rows : u # v /\ Same(x, u) /\ Same(y, v)
        => new \in L

LEMMA RefreshesShrinks ==
  ASSUME NEW L, L \subseteq SUBSET Lease, Refreshes(L),
         NEW rows \in L, NEW S
  PROVE  rows \ S \in L
<1>1. rows \ S \in SUBSET Lease
  OBVIOUS
<1>2. \A x \in rows : Same(x, x)
  BY DEF Same
<1> QED
  BY <1>1, <1>2 DEF Refreshes

LEMMA ReleaseHeldWithin ==
  ASSUME TypeOK, NEW L, L \subseteq SUBSET Lease, Grants(L), Refreshes(L),
         leases \in L, NEW l, NEW fold \in BOOLEAN
  PROVE  ReleaseRows(tables, l, HeldBy(l, leases), fold) \in Within(L)
<1>1. tables \in Within(L) /\ tables.leases = leases
  BY DEF tables, Within, TypeOK
<1>2. tables.leases \ HeldBy(l, leases) \in L
  BY <1>1, RefreshesShrinks
<1> QED
  BY <1>1, <1>2, ReleaseWithin

LEMMA RenewWithin ==
  ASSUME TypeOK, NEW L, L \subseteq SUBSET Lease, Grants(L), Refreshes(L),
         leases \in L, NEW l \in Lane, Renew(l)
  PROVE  Committed(L)
<1>1. PICK reading \in readings :
        LET due == {x \in HeldBy(l, leases) :
                       x.age \in {"expired", "lapsed"}}
            dropped == {x \in due : x.claim # NoClaim /\ x.claim \notin reading.claims}
            renewed == {[x EXCEPT !.age = "running"] : x \in due \ dropped}
        IN  Commit(ReleaseRows([tables EXCEPT !.leases =
                                   (leases \ (due \ dropped)) \cup renewed],
                               l, dropped, FALSE))
  BY DEF Renew
<1> DEFINE due == {x \in HeldBy(l, leases) : x.age \in {"expired", "lapsed"}}
           dropped == {x \in due : x.claim # NoClaim /\ x.claim \notin reading.claims}
           renewed == {[x EXCEPT !.age = "running"] : x \in due \ dropped}
           rows == (leases \ (due \ dropped)) \cup renewed
           t == [tables EXCEPT !.leases = rows]
<1>2. leases \in SUBSET Lease /\ queue \in Seq(Request)
  BY DEF TypeOK
<1>3. rows \in SUBSET Lease
  BY <1>2 DEF HeldBy, Lease, Age
<1> DEFINE before(x) == IF x \in leases \ (due \ dropped) THEN x
                        ELSE CHOOSE u \in due \ dropped :
                                x = [u EXCEPT !.age = "running"]
<1>4. \A x \in rows : before(x) \in leases /\ Same(x, before(x))
  BY <1>2 DEF HeldBy, Lease, Same
<1>5. \A x, y \in rows : x # y => before(x) # before(y)
  BY <1>2 DEF HeldBy, Lease
<1> HIDE DEF dropped, rows, before
<1>6. rows \in L
  BY <1>3, <1>4, <1>5 DEF Refreshes
<1>7. t \in Within(L) /\ t.leases = rows
  BY <1>2, <1>6 DEF tables, Within
<1>8. t.leases \ dropped \in L
  BY <1>6, <1>7, RefreshesShrinks
<1> HIDE DEF t
<1>9. ReleaseRows(t, l, dropped, FALSE) \in Within(L)
  BY <1>7, <1>8, ReleaseWithin
<1> QED
  BY <1>1, <1>9 DEF Commit, Within, Committed, t, rows, dropped

LEMMA ElapseWithin ==
  ASSUME TypeOK, NEW L, L \subseteq SUBSET Lease, Refreshes(L),
         leases \in L, Elapse
  PROVE  Committed(L)
<1>1. PICK x \in leases :
        leases' = (leases \ {x}) \cup
           {[x EXCEPT !.age = IF x.age = "running" THEN "expired"
                                                   ELSE "lapsed"]}
  BY DEF Elapse
<1>2. leases \in SUBSET Lease /\ queue' \in Seq(Request)
  BY DEF TypeOK, Elapse
<1>3. leases' \in SUBSET Lease
  BY <1>1, <1>2 DEF Lease, Age
<1> DEFINE before(y) == IF y \in leases \ {x} THEN y ELSE x
<1>4. \A y \in leases' : before(y) \in leases /\ Same(y, before(y))
  BY <1>1, <1>2 DEF Lease, Same
<1>5. \A y, z \in leases' : y # z => before(y) # before(z)
  BY <1>1
<1> HIDE DEF before
<1> QED
  BY <1>2, <1>3, <1>4, <1>5 DEF Refreshes, Committed

(* Every step other than a handoff stays within L; the handoff is left to
   the theorem that chose L. *)
LEMMA StepWithin ==
  ASSUME TypeOK, NEW L, L \subseteq SUBSET Lease, Grants(L), Refreshes(L),
         leases \in L, Next,
         \A m \in moves : MoveReservations(m) => leases' \in L
  PROVE  Committed(L)
<1>0. queue \in Seq(Request) /\ Folds \in BOOLEAN /\ Sweeps(L)
  BY ConstantsAssumption, RefreshesShrinks DEF TypeOK, Sweeps, Sheds
<1>1. ASSUME NEW l \in Lane, ToolCall(l) PROVE Committed(L)
  <2>1. CASE Authenticate(l)
    BY <1>0, <2>1 DEF Authenticate, Committed
  <2>2. CASE Reserve(l)
    BY <1>0, <2>2, ReserveWithin
  <2>3. CASE RequestReservation(l)
    BY <1>0, <2>3, RequestWithin
  <2>4. CASE CancelRequest(l)
    BY <1>0, <2>4, WithoutType DEF CancelRequest, Committed
  <2>5. CASE Release(l)
    BY <1>0, <2>5, ReleaseHeldWithin DEF Release, Commit, Within, Committed
  <2>6. CASE Retire(l)
    BY <2>6, ReleaseHeldWithin, WithoutType DEF Retire, Within, Committed
  <2> QED
    BY <1>1, <2>1, <2>2, <2>3, <2>4, <2>5, <2>6 DEF ToolCall
<1>2. ASSUME NEW l \in Lane, Runtime(l) PROVE Committed(L)
  <2>1. CASE Renew(l)
    BY <2>1, RenewWithin
  <2>2. CASE ReleaseDeadHolder(l)
    BY <2>2, ReleaseHeldWithin
       DEF ReleaseDeadHolder, Commit, Within, Committed
  <2>3. CASE Revoke(l)
    BY <1>0, <2>3, WithoutType DEF Revoke, Committed
  <2>4. CASE Register(l) \/ ReadOwned(l)
    BY <1>0, <2>4 DEF Register, ReadOwned, Committed
  <2> QED
    BY <1>2, <2>1, <2>2, <2>3, <2>4 DEF Runtime
<1>3. CASE ReclaimExpired
  BY <1>0, <1>3, SweepWithin
<1>4. CASE Elapse
  BY <1>4, ElapseWithin
<1>5. CASE Ownership
  <2>1. ASSUME NEW m \in moves, MoveReservations(m) PROVE Committed(L)
    BY <1>0, <2>1, WithoutType DEF MoveReservations, Committed
  <2>2. ASSUME UNCHANGED <<leases, queue>> PROVE Committed(L)
    BY <1>0, <2>2 DEF Committed
  <2> QED
    BY <1>5, <2>1, <2>2 DEF Ownership, ClaimIssue, EndClaim, OfferClaim,
       DeclineOffer, AcceptOffer, TakeOrphaned, MoveFails
<1> QED
  BY <1>1, <1>2, <1>3, <1>4, <1>5 DEF Next

-----------------------------------------------------------------------------
(* Type correctness.                                                       *)

(* The rows a handoff moves, and the rows they become. *)
Moved(m) ==
    {x \in HeldBy(m.from, leases) :
        IF m.old = NoClaim THEN x.key \in m.keys ELSE x.claim = m.old}

Arrived(m) == {[x EXCEPT !.lane = m.to, !.claim = m.new] : x \in Moved(m)}

LEMMA MoveTables ==
  ASSUME TypeOK, NEW m \in moves, MoveReservations(m)
  PROVE  /\ leases' = Supersede(leases \ Moved(m), Arrived(m))
         /\ Arrived(m) \in SUBSET Lease
         /\ Moved(m) \in SUBSET leases
         /\ m.from \in Lane /\ m.to \in Lane
<1>1. m.from \in Lane /\ m.to \in Lane /\ m.new \in Claim
  BY DEF TypeOK, Move
<1>2. leases \in SUBSET Lease
  BY DEF TypeOK
<1>3. Arrived(m) \in SUBSET Lease
  BY <1>1, <1>2 DEF Arrived, Moved, HeldBy, Lease
<1> QED
  BY <1>1, <1>3 DEF MoveReservations, Arrived, Moved, HeldBy

LEMMA AnyTable == Grants(SUBSET Lease) /\ Refreshes(SUBSET Lease)
<1> SUFFICES ASSUME NEW rows \in SUBSET Lease, NEW lane \in Lane,
                    NEW keys \in SUBSET Key, NEW excl \in BOOLEAN,
                    NEW timed \in BOOLEAN, NEW claim \in Claim \cup {NoClaim}
             PROVE  Supersede(rows, Batch(lane, keys, excl, timed, claim))
                       \in SUBSET Lease
  BY DEF Grants, Refreshes
<1> QED
  BY BatchType DEF Supersede

LEMMA TablesType == TypeOK /\ Next => Committed(SUBSET Lease)
<1> SUFFICES ASSUME TypeOK, Next PROVE Committed(SUBSET Lease)
  OBVIOUS
<1>1. leases \in SUBSET Lease
  BY DEF TypeOK
<1>2. ASSUME NEW m \in moves, MoveReservations(m)
      PROVE  leases' \in SUBSET Lease
  BY <1>1, <1>2, MoveTables DEF Supersede
<1> QED
  BY <1>1, <1>2, AnyTable, StepWithin

(* The part of the type invariant about the credentials, the calls between
   authentication and commit, and the ledger. *)
Typed ==
    /\ credentialed \in SUBSET Lane
    /\ inflight \in [Lane -> Claim \cup {NoClaim, NoCall}]
    /\ holder \in [Claim -> Lane \cup {Unissued, Ended}]
    /\ offers \in SUBSET Offer
    /\ moves \in SUBSET Move
    /\ readings \in SUBSET Reading

LEMMA LedgerType == TypeOK /\ Next => Typed'
<1> SUFFICES ASSUME TypeOK, Next PROVE Typed'
  OBVIOUS
<1>1. ASSUME NEW l \in Lane, ToolCall(l) PROVE Typed'
  <2>1. CASE Authenticate(l)
    BY <2>1 DEF TypeOK, Typed, ledger, Authenticate
  <2>2. CASE Serving(l) /\ UNCHANGED <<credentialed, ledger>>
    BY <2>2 DEF TypeOK, Typed, ledger, Serving
  <2>3. CASE Retire(l)
    BY <2>3 DEF TypeOK, Typed, ledger, Retire
  <2> QED
    BY <1>1, <2>1, <2>2, <2>3 DEF ToolCall, Reserve, RequestReservation,
       CancelRequest, Release, Serving
<1>2. ASSUME NEW l \in Lane, Runtime(l) PROVE Typed'
  <2>1. CASE ReadOwned(l)
    BY <2>1 DEF TypeOK, Typed, ledger, ReadOwned, Reading
  <2> QED
    BY <1>2, <2>1 DEF TypeOK, Typed, ledger, Runtime, Renew, ReleaseDeadHolder, Revoke, Register
<1>3. CASE ReclaimExpired \/ Elapse
  BY <1>3 DEF TypeOK, Typed, ledger, ReclaimExpired, Elapse
<1>4. CASE Ownership
  <2>1. ASSUME NEW l \in Lane, ClaimIssue(l) PROVE Typed'
    BY <2>1 DEF TypeOK, Typed, ledger, ClaimIssue
  <2>2. ASSUME NEW c \in Claim, EndClaim(c) PROVE Typed'
    BY <2>2 DEF TypeOK, Typed, ledger, EndClaim
  <2>3. ASSUME NEW c \in Claim, OfferClaim(c) PROVE Typed'
    BY <2>3 DEF TypeOK, Typed, ledger, OfferClaim, Offer, KeysOf, HeldBy, Lease
  <2>4. ASSUME NEW o \in offers, DeclineOffer(o) PROVE Typed'
    BY <2>4 DEF TypeOK, Typed, ledger, DeclineOffer
  <2>5. ASSUME NEW o \in offers, AcceptOffer(o) PROVE Typed'
    BY <2>5 DEF TypeOK, Typed, ledger, AcceptOffer, Offer, Move
  <2>6. ASSUME NEW c \in Claim, NEW l \in Lane, TakeOrphaned(c, l)
        PROVE  Typed'
    BY <2>6 DEF TypeOK, Typed, ledger, TakeOrphaned, Move
  <2>7. ASSUME NEW m \in moves, MoveReservations(m) \/ MoveFails(m)
        PROVE  Typed'
    BY <2>7 DEF TypeOK, Typed, ledger, MoveReservations, MoveFails
  <2> QED
    BY <1>4, <2>1, <2>2, <2>3, <2>4, <2>5, <2>6, <2>7 DEF Ownership
<1> QED
  BY <1>1, <1>2, <1>3, <1>4 DEF Next

LEMMA TypeStep == TypeOK /\ [Next]_vars => TypeOK'
<1>1. CASE Next
  BY <1>1, TablesType, LedgerType DEF Committed, Typed, TypeOK
<1>2. CASE UNCHANGED vars
  BY <1>2 DEF vars, TypeOK
<1> QED
  BY <1>1, <1>2

LEMMA InitType == Init => TypeOK
BY DEF Init, TypeOK

(* Every reachable state of the store and of the ledger is well typed: no
   sequence of transactions, sweeps and handoffs leaves a malformed row. *)
THEOREM TypeCorrect == Spec => []TypeOK
<1>1. Init => TypeOK
  BY InitType
<1>2. TypeOK /\ [Next]_vars => TypeOK'
  BY TypeStep
<1> QED
  BY <1>1, <1>2, PTL DEF Spec

-----------------------------------------------------------------------------
(* No two lanes hold a key that either holds exclusively.  By itself this   *)
(* is not inductive: a handoff moves one row of a key, and a second row of  *)
(* the same lane and key, left behind, would exclude it.  So the invariant  *)
(* is proved together with the uniqueness of a lane's row for a key.        *)

Unique(rows) ==
    \A x, y \in rows : x.lane = y.lane /\ x.key = y.key => x = y

Exclusive(rows) ==
    \A x, y \in rows : x.lane # y.lane /\ x.key = y.key => ~x.excl /\ ~y.excl

Sound == {rows \in SUBSET Lease : Unique(rows) /\ Exclusive(rows)}

LEMMA BatchRows ==
  ASSUME NEW lane, NEW keys, NEW excl, NEW timed, NEW claim,
         NEW y \in Batch(lane, keys, excl, timed, claim)
  PROVE  /\ y.lane = lane /\ y.key \in keys /\ y.excl = excl
         /\ \A z \in Batch(lane, keys, excl, timed, claim) :
               y.key = z.key => y = z
BY DEF Batch, LeaseOf

(* A row that blocks nobody of another lane's batch does not share a key
   with it unless both are shared. *)
LEMMA Unblocked ==
  ASSUME NEW x \in Lease, NEW lane \in Lane, NEW k \in Key,
         NEW excl \in BOOLEAN, NEW fold \in BOOLEAN,
         ~Blocks(x, lane, k, excl, fold), x.lane # lane, x.key = k
  PROVE  ~x.excl /\ ~excl
<1>1. Overlapping(k, x.key, fold)
  BY OverlapAssumption DEF Overlapping
<1>2. x.excl \in BOOLEAN
  BY DEF Lease
<1> QED
  BY <1>1, <1>2 DEF Blocks

LEMMA SoundGrants == Grants(Sound)
<1> SUFFICES ASSUME NEW rows \in Sound, NEW lane \in Lane,
                    NEW keys \in SUBSET Key, NEW excl \in BOOLEAN,
                    NEW timed \in BOOLEAN, NEW fold \in BOOLEAN,
                    NEW claim \in Claim \cup {NoClaim},
                    \A k \in keys, x \in rows : ~Blocks(x, lane, k, excl, fold)
             PROVE  Supersede(rows, Batch(lane, keys, excl, timed, claim))
                       \in Sound
  BY DEF Grants
<1> DEFINE new == Batch(lane, keys, excl, timed, claim)
           kept == {x \in rows : \A y \in new :
                       ~(x.lane = y.lane /\ x.key = y.key)}
<1>1. new \in SUBSET Lease /\ rows \in SUBSET Lease
      /\ Unique(rows) /\ Exclusive(rows)
  BY BatchType DEF Sound
<1>2. \A y \in new : y.lane = lane /\ y.key \in keys /\ y.excl = excl
  BY BatchRows
<1>3. \A y, z \in new : y.key = z.key => y = z
  BY BatchRows
<1> HIDE DEF new
<1>4. Unique(kept \cup new)
  BY <1>1, <1>2, <1>3 DEF Unique
<1>5. Exclusive(kept \cup new)
  <2>1. \A x \in kept, y \in new :
           x.lane # y.lane /\ x.key = y.key => ~x.excl /\ ~y.excl
    BY <1>1, <1>2, Unblocked
  <2> QED
    BY <1>1, <1>2, <2>1 DEF Exclusive
<1>6. kept \cup new \in SUBSET Lease
  BY <1>1
<1> QED
  BY <1>4, <1>5, <1>6 DEF Sound, Supersede, new

LEMMA SoundRefreshes == Refreshes(Sound)
<1> SUFFICES ASSUME NEW rows \in Sound, NEW new \in SUBSET Lease,
                    \A x \in new : \E u \in rows : Same(x, u),
                    \A x, y \in new : x # y =>
                       \E u, v \in rows : u # v /\ Same(x, u) /\ Same(y, v)
             PROVE  new \in Sound
  BY DEF Refreshes
<1>1. Unique(new)
  BY DEF Sound, Unique, Same
<1>2. Exclusive(new)
  BY DEF Sound, Exclusive, Same
<1> QED
  BY <1>1, <1>2 DEF Sound

(* A handoff moves rows whose keys the other lanes respect already. *)
LEMMA MoveSound ==
  ASSUME TypeOK, leases \in Sound, NEW m \in moves, MoveReservations(m)
  PROVE  leases' \in Sound
<1> DEFINE kept == {x \in leases \ Moved(m) : \A y \in Arrived(m) :
                       ~(x.lane = y.lane /\ x.key = y.key)}
<1>1. /\ leases' = kept \cup Arrived(m)
      /\ Arrived(m) \in SUBSET Lease /\ leases \in SUBSET Lease
      /\ Moved(m) \in SUBSET leases
  BY MoveTables DEF Supersede, Sound
<1>2. \A y \in Arrived(m) : \E u \in Moved(m) :
         /\ y = [u EXCEPT !.lane = m.to, !.claim = m.new]
         /\ u.lane = m.from /\ u.key = y.key /\ u.excl = y.excl
         /\ y.lane = m.to
  BY <1>1, MoveTables DEF Arrived, Moved, HeldBy, Lease
<1>3. Unique(leases) /\ Exclusive(leases)
  BY DEF Sound
<1>4. Unique(kept \cup Arrived(m))
  <2>1. ASSUME NEW y \in Arrived(m), NEW z \in Arrived(m), y.key = z.key
        PROVE  y = z
    <3>1. PICK u \in Moved(m) :
             /\ y = [u EXCEPT !.lane = m.to, !.claim = m.new]
             /\ u.lane = m.from /\ u.key = y.key
      BY <1>2
    <3>2. PICK v \in Moved(m) :
             /\ z = [v EXCEPT !.lane = m.to, !.claim = m.new]
             /\ v.lane = m.from /\ v.key = z.key
      BY <1>2
    <3>3. u = v
      BY <1>1, <1>3, <2>1, <3>1, <3>2 DEF Unique
    <3> QED
      BY <3>1, <3>2, <3>3
  <2> QED
    BY <1>3, <2>1 DEF Unique
<1>5. Exclusive(kept \cup Arrived(m))
  <2>1. ASSUME NEW x \in kept, NEW y \in Arrived(m),
               x.lane # y.lane, x.key = y.key
        PROVE  ~x.excl /\ ~y.excl
    <3>1. PICK u \in Moved(m) : u.lane = m.from /\ u.key = y.key
                               /\ u.excl = y.excl
      BY <1>2
    <3>2. u \in leases /\ x \in leases /\ x # u
      BY <1>1
    <3>3. x.lane # u.lane
      BY <1>3, <2>1, <3>1, <3>2 DEF Unique
    <3> QED
      BY <1>3, <2>1, <3>1, <3>2, <3>3 DEF Exclusive
  <2>2. \A y, z \in Arrived(m) : y.lane = z.lane
    BY <1>2
  <2> QED
    BY <1>3, <2>1, <2>2 DEF Exclusive
<1> QED
  BY <1>1, <1>4, <1>5 DEF Sound

(* The inductive invariant. *)
ExclusionInv == TypeOK /\ leases \in Sound

LEMMA ExclusionStep == ExclusionInv /\ [Next]_vars => ExclusionInv'
<1> SUFFICES ASSUME ExclusionInv, [Next]_vars PROVE ExclusionInv'
  OBVIOUS
<1>1. TypeOK'
  BY TypeStep DEF ExclusionInv
<1>2. CASE Next
  <2>1. Sound \subseteq SUBSET Lease
    BY DEF Sound
  <2>2. \A m \in moves : MoveReservations(m) => leases' \in Sound
    BY MoveSound DEF ExclusionInv
  <2>3. Committed(Sound)
    BY <1>2, <2>1, <2>2, SoundGrants, SoundRefreshes, StepWithin
       DEF ExclusionInv
  <2> QED
    BY <1>1, <2>3 DEF ExclusionInv, Committed
<1>3. CASE UNCHANGED vars
  BY <1>1, <1>3 DEF ExclusionInv, vars
<1> QED
  BY <1>2, <1>3

LEMMA ExclusionAlways == Spec => []ExclusionInv
<1>1. Init => ExclusionInv
  BY InitType DEF Init, ExclusionInv, Sound, Unique, Exclusive
<1>2. ExclusionInv /\ [Next]_vars => ExclusionInv'
  BY ExclusionStep
<1> QED
  BY <1>1, <1>2, PTL DEF Spec

(* For any number of lanes and keys, whatever is queued, swept, handed over
   or taken, and whether the checkout folds case or not: two lanes hold the
   same key only if both hold it shared. *)
THEOREM KeysExclude == Spec => []KeyExclusion
<1>1. ExclusionInv => KeyExclusion
  BY DEF ExclusionInv, Sound, Exclusive, KeyExclusion
<1> QED
  BY <1>1, ExclusionAlways, PTL

(* A lane never has two live leases of one key. *)
THEOREM LeasesAreUnique == Spec => []OneLeasePerKey
<1>1. ExclusionInv => OneLeasePerKey
  BY DEF ExclusionInv, Sound, Unique, OneLeasePerKey
<1> QED
  BY <1>1, ExclusionAlways, PTL

-----------------------------------------------------------------------------
(* Only handoffs bring two lanes to collide.                               *)

(* Every collision among rows was one among old. *)
OldCollisions(rows, old) ==
    \A x, y \in rows :
        Collide(x, y) => \E u, v \in old : /\ u.lane = x.lane /\ u.key = x.key
                                          /\ v.lane = y.lane /\ v.key = y.key
                                          /\ Collide(u, v)

Uncollided(old) == {rows \in SUBSET Lease : OldCollisions(rows, old)}

(* Rows that do not block a batch do not collide with it, in either order. *)
LEMMA UnblockedApart ==
  ASSUME NEW x \in Lease, NEW y \in Lease, NEW fold \in BOOLEAN,
         ~Blocks(x, y.lane, y.key, y.excl, fold)
  PROVE  ~Collide(x, y) /\ ~Collide(y, x)
<1>1. x.key \in Key /\ y.key \in Key
  BY DEF Lease
<1>2. Overlapping(x.key, y.key, FALSE) => Overlapping(y.key, x.key, fold)
  BY <1>1, OverlapAssumption DEF Overlapping
<1>3. Overlapping(y.key, x.key, FALSE) => Overlapping(y.key, x.key, fold)
  BY <1>1, OverlapAssumption DEF Overlapping
<1> QED
  BY <1>2, <1>3 DEF Blocks, Collide

LEMMA UncollidedGrants ==
  ASSUME NEW old PROVE Grants(Uncollided(old))
<1> SUFFICES ASSUME NEW rows \in Uncollided(old), NEW lane \in Lane,
                    NEW keys \in SUBSET Key, NEW excl \in BOOLEAN,
                    NEW timed \in BOOLEAN, NEW fold \in BOOLEAN,
                    NEW claim \in Claim \cup {NoClaim},
                    \A k \in keys, x \in rows : ~Blocks(x, lane, k, excl, fold)
             PROVE  Supersede(rows, Batch(lane, keys, excl, timed, claim))
                       \in Uncollided(old)
  BY DEF Grants
<1> DEFINE new == Batch(lane, keys, excl, timed, claim)
           kept == {x \in rows : \A y \in new :
                       ~(x.lane = y.lane /\ x.key = y.key)}
<1>1. new \in SUBSET Lease /\ rows \in SUBSET Lease
      /\ OldCollisions(rows, old)
  BY BatchType DEF Uncollided
<1>2. \A y \in new : y.lane = lane /\ y.key \in keys /\ y.excl = excl
  BY BatchRows
<1> HIDE DEF new
<1>3. \A x \in kept, y \in new : ~Collide(x, y) /\ ~Collide(y, x)
  BY <1>1, <1>2, UnblockedApart
<1>4. \A y, z \in new : ~Collide(y, z)
  BY <1>2 DEF Collide
<1>5. OldCollisions(kept \cup new, old)
  BY <1>1, <1>3, <1>4 DEF OldCollisions
<1> QED
  BY <1>1, <1>5 DEF Uncollided, Supersede, new

LEMMA UncollidedRefreshes ==
  ASSUME NEW old PROVE Refreshes(Uncollided(old))
<1> SUFFICES ASSUME NEW rows \in Uncollided(old), NEW new \in SUBSET Lease,
                    \A x \in new : \E u \in rows : Same(x, u)
             PROVE  new \in Uncollided(old)
  BY DEF Refreshes
<1>1. ASSUME NEW x \in new, NEW y \in new, Collide(x, y)
      PROVE  \E u, v \in old : /\ u.lane = x.lane /\ u.key = x.key
                               /\ v.lane = y.lane /\ v.key = y.key
                               /\ Collide(u, v)
  <2>1. PICK p \in rows : Same(x, p)
    OBVIOUS
  <2>2. PICK q \in rows : Same(y, q)
    OBVIOUS
  <2>3. Collide(p, q)
    BY <1>1, <2>1, <2>2 DEF Same, Collide
  <2> QED
    BY <2>1, <2>2, <2>3 DEF Uncollided, OldCollisions, Same
<1> QED
  BY <1>1 DEF Uncollided, OldCollisions

(* No tool call, grant, sweep, release or renewal adds a pair of lanes that
   hold overlapping keys, one of them exclusively: a handoff or a takeover
   is the only step that does, for every overlap relation of the keys. *)
THEOREM OnlyHandoffsCollide == Spec => OnlyHandoffsOverlap
<1>1. TypeOK /\ [Next]_vars => [NoNewCollision]_vars
  <2> SUFFICES ASSUME TypeOK, Next, \A m \in moves : ~MoveReservations(m)
               PROVE  NoNewCollision
    BY DEF NoNewCollision, Handoff
  <2>1. PICK old : old = leases
    OBVIOUS
  <2>2. leases \in Uncollided(old)
    BY <2>1 DEF TypeOK, Uncollided, OldCollisions
  <2>3. Uncollided(old) \subseteq SUBSET Lease
    BY DEF Uncollided
  <2>4. Committed(Uncollided(old))
    BY <2>2, <2>3, UncollidedGrants, UncollidedRefreshes, StepWithin
  <2> QED
    BY <2>1, <2>4 DEF Committed, Uncollided, OldCollisions, NoNewCollision
<1> QED
  BY <1>1, TypeCorrect, PTL DEF Spec, OnlyHandoffsOverlap

-----------------------------------------------------------------------------
(* A working lane keeps its keys.  The sweep takes rows by their identity   *)
(* and a key is kept if any row of it stays, so this too needs the          *)
(* uniqueness of a lane's row for a key.                                    *)

Working(x) == x.age \in {"untimed", "running"}

(* Rows that still hold every key a working lane outside gone held in old. *)
Keeps(old, gone) ==
    {rows \in SUBSET Lease :
        \A x \in old : Working(x) /\ x.lane \notin gone => StillHolds(x, rows)}

LEMMA KeepsGrants ==
  ASSUME NEW old, NEW gone PROVE Grants(Keeps(old, gone))
<1> SUFFICES ASSUME NEW rows \in Keeps(old, gone), NEW lane \in Lane,
                    NEW keys \in SUBSET Key, NEW excl \in BOOLEAN,
                    NEW timed \in BOOLEAN, NEW claim \in Claim \cup {NoClaim}
             PROVE  Supersede(rows, Batch(lane, keys, excl, timed, claim))
                       \in Keeps(old, gone)
  BY DEF Grants
<1> DEFINE new == Batch(lane, keys, excl, timed, claim)
<1>1. new \in SUBSET Lease /\ rows \in SUBSET Lease
  BY BatchType DEF Keeps
<1> HIDE DEF new
<1>2. Supersede(rows, new) \in SUBSET Lease
  BY <1>1 DEF Supersede
<1>3. \A x \in old : StillHolds(x, rows) => StillHolds(x, Supersede(rows, new))
  BY DEF StillHolds, Supersede
<1> QED
  BY <1>2, <1>3 DEF Keeps, new

(* No row the sweep takes is the row of a working lane. *)
LEMMA KeepsSweeps ==
  ASSUME ExclusionInv, NEW gone, NEW old, old = leases
  PROVE  Sweeps(Keeps(old, gone))
<1> SUFFICES ASSUME NEW quiet \in SUBSET Late, NEW i \in Lane,
                    NEW rows \in Keeps(old, gone)
             PROVE  rows \ HeldBy(i, ExpiredLeases(quiet)) \in Keeps(old, gone)
  BY DEF Sweeps, Sheds
<1> DEFINE swept == HeldBy(i, ExpiredLeases(quiet))
<1>1. ASSUME NEW x \in old, Working(x), StillHolds(x, rows)
      PROVE  StillHolds(x, rows \ swept)
  <2>1. PICK y \in rows : y.lane = x.lane /\ y.key = x.key
    BY <1>1 DEF StillHolds
  <2>2. y \notin swept
    <3> SUFFICES ASSUME y \in swept PROVE FALSE
      OBVIOUS
    <3>1. y \in leases /\ ~Working(y)
      BY DEF HeldBy, ExpiredLeases, Working
    <3>2. y = x
      BY <2>1, <3>1 DEF ExclusionInv, Sound, Unique
    <3> QED
      BY <1>1, <3>1, <3>2
  <2> QED
    BY <2>1, <2>2 DEF StillHolds
<1> QED
  BY <1>1 DEF Keeps

LEMMA KeepsReleased ==
  ASSUME ExclusionInv, NEW old, old = leases, NEW l \in Lane,
         NEW fold \in BOOLEAN
  PROVE  ReleaseRows(tables, l, HeldBy(l, leases), fold).leases
            \in Keeps(old, {l})
<1>1. tables \in Within(SUBSET Lease) /\ leases \in SUBSET Lease
  BY DEF tables, Within, ExclusionInv, TypeOK
<1>2. \A x \in old : x.lane # l => StillHolds(x, leases \ HeldBy(l, leases))
  BY DEF StillHolds, HeldBy
<1>3. leases \ HeldBy(l, leases) \in Keeps(old, {l})
  BY <1>1, <1>2 DEF Keeps
<1>4. leases \in Keeps(old, {l})
  BY <1>1 DEF Keeps, StillHolds
<1>5. tables \in Within(Keeps(old, {l})) /\ tables.leases = leases
  BY <1>1, <1>4 DEF Within, tables
<1>6. Keeps(old, {l}) \subseteq SUBSET Lease
  BY DEF Keeps
<1>7. ReleaseRows(tables, l, HeldBy(l, leases), fold)
         \in Within(Keeps(old, {l}))
  BY <1>3, <1>5, <1>6, KeepsGrants, ReleaseWithin
<1> QED
  BY <1>7 DEF Within

LEMMA KeepsRenewed ==
  ASSUME ExclusionInv, NEW old, old = leases, NEW l \in Lane, Renew(l)
  PROVE  leases' \in Keeps(old, {})
<1>1. PICK reading \in readings :
        LET due == {x \in HeldBy(l, leases) :
                       x.age \in {"expired", "lapsed"}}
            dropped == {x \in due : x.claim # NoClaim /\ x.claim \notin reading.claims}
            renewed == {[x EXCEPT !.age = "running"] : x \in due \ dropped}
        IN  Commit(ReleaseRows([tables EXCEPT !.leases =
                                   (leases \ (due \ dropped)) \cup renewed],
                               l, dropped, FALSE))
  BY DEF Renew
<1> DEFINE due == {x \in HeldBy(l, leases) : x.age \in {"expired", "lapsed"}}
           dropped == {x \in due : x.claim # NoClaim /\ x.claim \notin reading.claims}
           renewed == {[x EXCEPT !.age = "running"] : x \in due \ dropped}
           rows == (leases \ (due \ dropped)) \cup renewed
           t == [tables EXCEPT !.leases = rows]
<1>2. leases \in SUBSET Lease /\ queue \in Seq(Request)
  BY DEF ExclusionInv, TypeOK
<1>3. rows \in SUBSET Lease
  BY <1>2 DEF HeldBy, Lease, Age
<1>4. \A x \in old : Working(x) => x \in rows \ dropped
  BY DEF Working
<1> HIDE DEF dropped, rows
<1>5. rows \in Keeps(old, {}) /\ rows \ dropped \in Keeps(old, {})
  BY <1>3, <1>4 DEF Keeps, StillHolds
<1>6. t \in Within(Keeps(old, {})) /\ t.leases = rows
  BY <1>2, <1>5 DEF tables, Within
<1>7. Keeps(old, {}) \subseteq SUBSET Lease
  BY DEF Keeps
<1> HIDE DEF t
<1>8. ReleaseRows(t, l, dropped, FALSE) \in Within(Keeps(old, {}))
  BY <1>5, <1>6, <1>7, KeepsGrants, ReleaseWithin
<1> QED
  BY <1>1, <1>8 DEF Commit, Within, t, rows, dropped

(* A handoff takes keys from the lane it moves them from, and from no other:
   a row it supersedes is replaced by one of the same lane and key. *)
LEMMA KeepsMoved ==
  ASSUME ExclusionInv, NEW m \in moves, MoveReservations(m)
  PROVE  \A x \in leases : x.lane # m.from => StillHolds(x, leases')
<1>1. leases' = Supersede(leases \ Moved(m), Arrived(m))
  BY MoveTables DEF ExclusionInv
<1>2. \A x \in Moved(m) : x.lane = m.from
  BY DEF Moved, HeldBy
<1> QED
  BY <1>1, <1>2 DEF Supersede, StillHolds

LEMMA KeepsStep ==
  ASSUME ExclusionInv, Next PROVE NoKeyTaken
<1> SUFFICES ASSUME NEW x \in leases, Working(x),
                    \A m \in moves : ~(m.from = x.lane /\ MoveReservations(m)),
                    ~Release(x.lane), ~Retire(x.lane),
                    ~ReleaseDeadHolder(x.lane)
             PROVE  StillHolds(x, leases')
  BY DEF NoKeyTaken, Working
<1>1. PICK old : old = leases
  OBVIOUS
<1>2. /\ leases \in Keeps(old, {}) /\ Keeps(old, {}) \subseteq SUBSET Lease
      /\ Sweeps(Keeps(old, {})) /\ Grants(Keeps(old, {}))
      /\ TypeOK /\ leases \in SUBSET Lease /\ Folds \in BOOLEAN
  <2>1. TypeOK /\ leases \in SUBSET Lease /\ Folds \in BOOLEAN
    BY ConstantsAssumption DEF ExclusionInv, TypeOK
  <2>2. leases \in Keeps(old, {}) /\ Keeps(old, {}) \subseteq SUBSET Lease
    BY <1>1, <2>1 DEF Keeps, StillHolds
  <2> QED
    BY <1>1, <2>1, <2>2, KeepsGrants, KeepsSweeps
<1>3. ASSUME Committed(Keeps(old, {})) PROVE StillHolds(x, leases')
  BY <1>1, <1>3 DEF Committed, Keeps
<1>4. ASSUME leases' = leases PROVE StillHolds(x, leases')
  BY <1>4 DEF StillHolds
<1>5. ASSUME NEW l \in Lane, l # x.lane, leases' \in Keeps(old, {l})
      PROVE  StillHolds(x, leases')
  BY <1>1, <1>5 DEF Keeps
<1>6. ASSUME NEW l \in Lane, ToolCall(l) PROVE StillHolds(x, leases')
  <2>1. CASE Authenticate(l) \/ CancelRequest(l)
    BY <1>4, <2>1 DEF Authenticate, CancelRequest
  <2>2. CASE Reserve(l)
    BY <1>2, <1>3, <2>2, ReserveWithin
  <2>3. CASE RequestReservation(l)
    BY <1>2, <1>3, <2>3, RequestWithin
  <2>4. CASE Release(l)
    BY <1>1, <1>2, <1>5, <2>4, KeepsReleased DEF Release, Commit
  <2>5. CASE Retire(l)
    BY <1>1, <1>5, <2>5, KeepsReleased DEF Retire
  <2> QED
    BY <1>6, <2>1, <2>2, <2>3, <2>4, <2>5 DEF ToolCall
<1>7. ASSUME NEW l \in Lane, Runtime(l) PROVE StillHolds(x, leases')
  <2>1. CASE Renew(l)
    <3>1. leases' \in Keeps(old, {})
      BY <1>1, <2>1, KeepsRenewed
    <3> QED
      BY <1>1, <3>1 DEF Keeps
  <2>2. CASE ReleaseDeadHolder(l)
    BY <1>1, <1>5, <2>2, KeepsReleased DEF ReleaseDeadHolder, Commit
  <2>3. CASE Revoke(l) \/ Register(l) \/ ReadOwned(l)
    BY <1>4, <2>3 DEF Revoke, Register, ReadOwned
  <2> QED
    BY <1>7, <2>1, <2>2, <2>3 DEF Runtime
<1>8. CASE ReclaimExpired
  BY <1>2, <1>3, <1>8, SweepWithin
<1>9. CASE Elapse
  <2>1. PICK y \in leases :
          leases' = (leases \ {y}) \cup
             {[y EXCEPT !.age = IF y.age = "running" THEN "expired"
                                                     ELSE "lapsed"]}
    BY <1>9 DEF Elapse
  <2> DEFINE z == [y EXCEPT !.age = IF y.age = "running" THEN "expired"
                                                         ELSE "lapsed"]
  <2>2. z.lane = y.lane /\ z.key = y.key /\ z \in leases'
    BY <1>2, <2>1 DEF Lease
  <2>3. CASE x = y
    BY <2>2, <2>3 DEF StillHolds
  <2>4. CASE x # y
    BY <2>1, <2>4 DEF StillHolds
  <2> QED
    BY <2>3, <2>4
<1>10. CASE Ownership
  <2>1. ASSUME NEW m \in moves, MoveReservations(m)
        PROVE  StillHolds(x, leases')
    BY <2>1, KeepsMoved
  <2> QED
    BY <1>4, <1>10, <2>1 DEF Ownership, ClaimIssue, EndClaim, OfferClaim,
       DeclineOffer, AcceptOffer, TakeOrphaned, MoveFails
<1> QED
  BY <1>6, <1>7, <1>8, <1>9, <1>10 DEF Next

(* No peer's call and no sweep of the supervisor ever takes a key from a lane
   within its declared time, or that declared none, however calls, sweeps,
   renewals and handoffs interleave. *)
THEOREM WorkingHoldersKeepTheirKeys == Spec => WorkingHolderKeepsItsKeys
<1>1. ExclusionInv /\ [Next]_vars => [NoKeyTaken]_vars
  BY KeepsStep
<1> QED
  BY <1>1, ExclusionAlways, PTL DEF Spec, WorkingHolderKeepsItsKeys

-----------------------------------------------------------------------------
(* What the loop over the queue leaves behind.  The rows of the queue are   *)
(* served in order, so what is known after i of them is a set of tables     *)
(* that depends on i.                                                       *)

(* No two requests of the queue are of the same lane for the same key. *)
Distinct(q) ==
    \A i, j \in 1..Len(q) :
        q[i].lane = q[j].lane /\ q[i].key = q[j].key => i = j

(* Some row still holds the key of x for its lane, as strongly. *)
Upheld(x, rows) ==
    \E y \in rows : y.lane = x.lane /\ y.key = x.key /\ (x.excl => y.excl)

(* The requests that a release of keys by an actor may answer. *)
Considered(r, actor, released, fold) ==
    /\ r.lane # actor
    /\ r.lane \in credentialed
    /\ \E k \in released : Overlapping(r.key, k, fold)

(* What the loop may have recorded before it reaches the k-th request. *)
Recorded(t, k) == t.leases \cup {LeaseOf(t.queue[p]) : p \in 1..(k - 1)}

(* The k-th request stays behind a lease that was there at its turn. *)
StaysBehind(t, k, fold, rows) ==
    \E x \in Recorded(t, k) :
        /\ Blocks(x, t.queue[k].lane, t.queue[k].key, t.queue[k].excl, fold)
        /\ Upheld(x, rows)

(* The tables that serving the first i requests of t can lead to. *)
Handed(t, actor, released, fold, i) ==
    {s \in Tables :
        /\ s.leases \subseteq Recorded(t, i + 1)
        /\ \A x \in t.leases : Upheld(x, s.leases)
        /\ \A m \in 1..Len(s.queue) : \E k \in 1..i :
              /\ s.queue[m] = t.queue[k]
              /\ Considered(t.queue[k], actor, released, fold)
                    => StaysBehind(t, k, fold, s.leases)
        /\ \A k \in 1..i : ~Considered(t.queue[k], actor, released, fold)
              => Queued(t.queue[k], s.queue)
        /\ \A k \in 1..i : Queued(t.queue[k], s.queue) \/ Satisfied(t.queue[k], s.leases)
        /\ Distinct(t.queue) => Distinct(s.queue)}

LEMMA TablesWithin == Tables = Within(SUBSET Lease)
BY DEF Tables, Within

(* A request is granted only where its lane holds nothing as strong, so no
   lane loses strength by a grant. *)
LEMMA GrantUpholds ==
  ASSUME NEW rows \in SUBSET Lease, NEW r \in Request, ~Satisfied(r, rows),
         NEW x, Upheld(x, rows)
  PROVE  Upheld(x, Supersede(rows, {LeaseOf(r)}))
<1> DEFINE z == LeaseOf(r)
<1>1. z.lane = r.lane /\ z.key = r.key /\ z.excl = r.excl
  BY DEF LeaseOf
<1>2. PICK y \in rows : y.lane = x.lane /\ y.key = x.key /\ (x.excl => y.excl)
  BY DEF Upheld
<1> HIDE DEF z
<1>3. CASE y.lane = z.lane /\ y.key = z.key
  <2>1. ~y.excl /\ z \in Supersede(rows, {z})
    BY <1>1, <1>3 DEF Supersede, Satisfied
  <2> QED
    BY <1>2, <1>3, <2>1 DEF Upheld, z
<1>4. CASE ~(y.lane = z.lane /\ y.key = z.key)
  <2>1. y \in Supersede(rows, {z})
    BY <1>4 DEF Supersede
  <2> QED
    BY <1>2, <2>1 DEF Upheld, z
<1> QED
  BY <1>3, <1>4

(* A request put back at the end of the kept ones keeps them distinct. *)
LEMMA AppendDistinct ==
  ASSUME NEW q \in Seq(Request), NEW kept \in Seq(Request),
         NEW i \in 1..Len(q), Distinct(q), Distinct(kept),
         \A m \in 1..Len(kept) : \E k \in 1..(i - 1) : kept[m] = q[k]
  PROVE  Distinct(Append(kept, q[i]))
<1> DEFINE longer == Append(kept, q[i])
<1>1. /\ Len(longer) = Len(kept) + 1 /\ Len(kept) \in Nat /\ Len(q) \in Nat
      /\ \A m \in 1..Len(kept) : longer[m] = kept[m]
      /\ longer[Len(kept) + 1] = q[i]
  OBVIOUS
<1> HIDE DEF longer
<1>2. ASSUME NEW m \in 1..Len(kept)
      PROVE  ~(kept[m].lane = q[i].lane /\ kept[m].key = q[i].key)
  <2>1. PICK k \in 1..(i - 1) : kept[m] = q[k]
    OBVIOUS
  <2>2. k \in 1..Len(q) /\ k # i
    BY <1>1
  <2> QED
    BY <2>1, <2>2 DEF Distinct
<1>3. ASSUME NEW a \in 1..Len(longer), NEW b \in 1..Len(longer),
             longer[a].lane = longer[b].lane, longer[a].key = longer[b].key
      PROVE  a = b
  <2>1. /\ a \in 1..Len(kept) \/ a = Len(kept) + 1
        /\ b \in 1..Len(kept) \/ b = Len(kept) + 1
    BY <1>1
  <2> QED
    BY <1>1, <1>2, <1>3, <2>1 DEF Distinct
<1> QED
  BY <1>3 DEF Distinct, longer

(* What satisfies a request still does when nothing loses its strength. *)
LEMMA UpheldSatisfies ==
  ASSUME NEW rows \in SUBSET Lease, NEW later \in SUBSET Lease,
         NEW r \in Request, Satisfied(r, rows),
         \A x : Upheld(x, rows) => Upheld(x, later)
  PROVE  Satisfied(r, later)
<1>1. PICK x \in rows : x.lane = r.lane /\ x.key = r.key /\ (x.excl \/ ~r.excl)
  BY DEF Satisfied
<1>2. Upheld(x, later)
  BY DEF Upheld
<1> QED
  BY <1>1, <1>2 DEF Upheld, Satisfied

LEMMA ServeHands ==
  ASSUME NEW t \in Tables, NEW actor, NEW released, NEW fold \in BOOLEAN,
         NEW i \in 1..Len(t.queue),
         NEW s \in Handed(t, actor, released, fold, i - 1)
  PROVE  ServeRequest(s, t.queue[i], actor, released, fold)
            \in Handed(t, actor, released, fold, i)
<1> DEFINE q == t.queue
           r == q[i]
           kept == s.queue
           considered == Considered(r, actor, released, fold)
           satisfied == Satisfied(r, s.leases)
           blocked == \E x \in s.leases : Blocks(x, r.lane, r.key, r.excl, fold)
           waits == [s EXCEPT !.queue = Append(kept, r)]
           granted == [s EXCEPT !.leases = Supersede(s.leases, {LeaseOf(r)})]
           u == ServeRequest(s, r, actor, released, fold)
<1>1. /\ q \in Seq(Request) /\ r \in Request /\ Len(q) \in Nat
      /\ t.leases \in SUBSET Lease
      /\ kept \in Seq(Request) /\ s.leases \in SUBSET Lease
      /\ s \in Tables /\ Len(kept) \in Nat
      /\ i - 1 + 1 = i /\ i - 1 \in Nat
  BY DEF Handed, Tables
<1>2. /\ s.leases \subseteq Recorded(t, i)
      /\ \A x \in t.leases : Upheld(x, s.leases)
      /\ \A m \in 1..Len(kept) : \E k \in 1..(i - 1) :
            /\ kept[m] = q[k]
            /\ Considered(q[k], actor, released, fold)
                  => StaysBehind(t, k, fold, s.leases)
      /\ \A k \in 1..(i - 1) : ~Considered(q[k], actor, released, fold)
            => Queued(q[k], kept)
      /\ \A k \in 1..(i - 1) : Queued(q[k], kept) \/ Satisfied(q[k], s.leases)
      /\ Distinct(q) => Distinct(kept)
  BY <1>1 DEF Handed
<1>3. u = IF ~considered THEN waits
          ELSE IF satisfied THEN s
          ELSE IF blocked THEN waits ELSE granted
  BY DEF ServeRequest, Considered
<1>4. /\ Recorded(t, i) \subseteq Recorded(t, i + 1)
      /\ LeaseOf(r) \in Recorded(t, i + 1)
  <2>1. i + 1 - 1 = i /\ i \in 1..i /\ 1..(i - 1) \subseteq 1..i
    BY <1>1
  <2> QED
    BY <2>1 DEF Recorded
<1>5. 1..i = 1..(i - 1) \cup {i}
  BY <1>1
<1>6. u \in Tables
  <2>1. s \in Within(SUBSET Lease)
    BY <1>1, TablesWithin
  <2> QED
    BY <1>1, <2>1, AnyTable, ServeWithin, TablesWithin
<1>7. ASSUME u = waits, considered => blocked
      PROVE  u \in Handed(t, actor, released, fold, i)
  <2>1. /\ u.leases = s.leases /\ u.queue = Append(kept, r)
        /\ Len(u.queue) = Len(kept) + 1
        /\ \A m \in 1..Len(kept) : u.queue[m] = kept[m]
        /\ u.queue[Len(kept) + 1] = r
    BY <1>1, <1>7 DEF Tables
  <2> HIDE DEF u, waits, considered, blocked
  <2>2. 1..Len(u.queue) = 1..Len(kept) \cup {Len(kept) + 1}
    BY <1>1, <2>1
  <2>3. considered => StaysBehind(t, i, fold, u.leases)
    <3> SUFFICES ASSUME considered PROVE StaysBehind(t, i, fold, u.leases)
      OBVIOUS
    <3>1. PICK x \in s.leases : Blocks(x, r.lane, r.key, r.excl, fold)
      BY <1>7 DEF blocked
    <3>2. Upheld(x, u.leases)
      BY <2>1 DEF Upheld
    <3> QED
      BY <1>2, <3>1, <3>2 DEF StaysBehind
  <2>4. \A m \in 1..Len(u.queue) : \E k \in 1..i :
            /\ u.queue[m] = q[k]
            /\ Considered(q[k], actor, released, fold)
                  => StaysBehind(t, k, fold, u.leases)
    BY <1>2, <1>5, <2>1, <2>2, <2>3 DEF considered
  <2>5. \A k \in 1..i :
            Queued(q[k], u.queue) \/ (/\ Considered(q[k], actor, released, fold)
                                      /\ Satisfied(q[k], u.leases))
    <3> SUFFICES ASSUME NEW k \in 1..i
                 PROVE  \/ Queued(q[k], u.queue)
                        \/ /\ Considered(q[k], actor, released, fold)
                           /\ Satisfied(q[k], u.leases)
      OBVIOUS
    <3>1. CASE k = i
      <4>1. Len(kept) + 1 \in 1..Len(u.queue) /\ r = q[k]
        BY <2>2, <3>1
      <4> QED
        BY <2>1, <4>1 DEF Queued
    <3>2. CASE k \in 1..(i - 1)
      <4>1. \/ Queued(q[k], kept)
            \/ /\ Considered(q[k], actor, released, fold)
               /\ Satisfied(q[k], u.leases)
        BY <1>2, <2>1, <3>2
      <4>2. Queued(q[k], kept) => Queued(q[k], u.queue)
        BY <2>1, <2>2 DEF Queued
      <4> QED
        BY <4>1, <4>2
    <3> QED
      BY <1>5, <3>1, <3>2
  <2>6. Distinct(q) => Distinct(u.queue)
    BY <1>1, <1>2, <2>1, AppendDistinct
  <2>7. /\ u.leases \subseteq Recorded(t, i + 1)
        /\ \A x \in t.leases : Upheld(x, u.leases)
    BY <1>2, <1>4, <2>1
  <2>8. /\ \A k \in 1..i : ~Considered(q[k], actor, released, fold)
              => Queued(q[k], u.queue)
        /\ \A k \in 1..i : Queued(q[k], u.queue) \/ Satisfied(q[k], u.leases)
    <3> HIDE DEF q
    <3> QED
      BY <2>5, Zenon
  <2> HIDE DEF q, kept, r
  <2> QED
    BY <1>6, <2>4, <2>6, <2>7, <2>8 DEF Handed, q
<1>8. ASSUME u.queue = kept, considered, u.leases \subseteq Recorded(t, i + 1),
             u.leases \in SUBSET Lease, Satisfied(r, u.leases),
             \A x : Upheld(x, s.leases) => Upheld(x, u.leases)
      PROVE  u \in Handed(t, actor, released, fold, i)
  <2> HIDE DEF u, considered
  <2>1. \A m \in 1..Len(u.queue) : \E k \in 1..i :
            /\ u.queue[m] = q[k]
            /\ Considered(q[k], actor, released, fold)
                  => StaysBehind(t, k, fold, u.leases)
    <3>1. \A k \in 1..(i - 1) : StaysBehind(t, k, fold, s.leases)
                                 => StaysBehind(t, k, fold, u.leases)
      BY <1>8 DEF StaysBehind
    <3>2. 1..(i - 1) \subseteq 1..i
      BY <1>5
    <3> QED
      BY <1>2, <1>8, <3>1, <3>2
  <2>2. \A k \in 1..i : ~Considered(q[k], actor, released, fold)
            => Queued(q[k], u.queue)
    BY <1>2, <1>5, <1>8 DEF considered
  <2>3. \A k \in 1..i : Queued(q[k], u.queue) \/ Satisfied(q[k], u.leases)
    <3>1. \A k \in 1..(i - 1) :
             Satisfied(q[k], s.leases) => Satisfied(q[k], u.leases)
      <4>1. \A k \in 1..(i - 1) : q[k] \in Request
        BY <1>1
      <4> QED
        BY <1>1, <1>8, <4>1, UpheldSatisfies
    <3>2. \A k \in 1..(i - 1) :
             Queued(q[k], u.queue) \/ Satisfied(q[k], u.leases)
      BY <1>2, <1>8, <3>1
    <3>3. Satisfied(q[i], u.leases)
      BY <1>8
    <3> SUFFICES ASSUME NEW k \in 1..i
                 PROVE  Queued(q[k], u.queue) \/ Satisfied(q[k], u.leases)
      OBVIOUS
    <3>4. k \in 1..(i - 1) \/ k = i
      BY <1>5
    <3> HIDE DEF q
    <3> QED
      BY <3>2, <3>3, <3>4, Zenon
  <2> HIDE DEF q, kept, r
  <2> QED
    BY <1>2, <1>6, <1>8, <2>1, <2>2, <2>3 DEF Handed, q, kept
<1>9. ASSUME considered, ~satisfied, u = granted
      PROVE  u \in Handed(t, actor, released, fold, i)
  <2>1. u.leases = Supersede(s.leases, {LeaseOf(r)}) /\ u.queue = kept
    BY <1>1, <1>9 DEF Tables
  <2> HIDE DEF u, granted
  <2>2. \A x : Upheld(x, s.leases) => Upheld(x, u.leases)
    BY <1>1, <1>9, <2>1, GrantUpholds
  <2>3. u.leases \subseteq Recorded(t, i + 1)
    BY <1>2, <1>4, <2>1 DEF Supersede
  <2>4. u.leases \in SUBSET Lease
    BY <1>6 DEF Tables
  <2>5. Satisfied(r, u.leases)
    <3>1. LeaseOf(r) \in u.leases
      BY <2>1 DEF Supersede
    <3> HIDE DEF r
    <3> QED
      BY <3>1 DEF Satisfied, LeaseOf
  <2> QED
    BY <1>8, <1>9, <2>1, <2>2, <2>3, <2>4, <2>5
<1>10. ASSUME considered, satisfied, u = s
       PROVE  u \in Handed(t, actor, released, fold, i)
  <2>1. u.leases \subseteq Recorded(t, i + 1)
    BY <1>2, <1>4, <1>10
  <2> HIDE DEF u
  <2> QED
    BY <1>1, <1>8, <1>10, <2>1
<1> HIDE DEF u, considered, satisfied, blocked, waits, granted
<1> QED
  BY <1>3, <1>7, <1>9, <1>10 DEF u

(* Granting after a release serves the queue in order: see Handed. *)
LEMMA GrantHands ==
  ASSUME NEW t \in Tables, NEW actor, NEW released, NEW fold \in BOOLEAN
  PROVE  GrantQueued(t, actor, released, fold)
            \in Handed(t, actor, released, fold, Len(t.queue))
<1> DEFINE n == Len(t.queue)
           step == [i \in 1..n |->
                      [s \in Tables |->
                         ServeRequest(s, t.queue[i], actor, released, fold)]]
           start == [t EXCEPT !.queue = << >>]
           Good == [i \in 0..n |-> Handed(t, actor, released, fold, i)]
<1>1. /\ n \in Nat /\ t.queue \in Seq(Request)
      /\ start = [leases |-> t.leases, queue |-> << >>]
      /\ start \in Tables
  <2>1. t.queue \in Seq(Request) /\ << >> \in Seq(Request)
        /\ t = [leases |-> t.leases, queue |-> t.queue]
        /\ t.leases \in SUBSET Lease
    BY DEF Tables
  <2>2. start = [leases |-> t.leases, queue |-> << >>]
    BY <2>1
  <2>3. n \in Nat
    BY <2>1
  <2> HIDE DEF start, n
  <2> QED
    BY <2>1, <2>2, <2>3 DEF Tables
<1>2. start \in Good[0]
  <2>1. \A x \in t.leases : Upheld(x, t.leases)
    BY DEF Upheld
  <2>2. t.leases \subseteq Recorded(t, 0 + 1)
    BY DEF Recorded
  <2>3. Distinct(<< >>)
    BY DEF Distinct
  <2> HIDE DEF start
  <2>4. start \in Handed(t, actor, released, fold, 0)
    BY <1>1, <2>1, <2>2, <2>3 DEF Handed
  <2> QED
    BY <1>1, <2>4
<1>3. Leads(step, n, Good)
  <2> SUFFICES ASSUME NEW i \in 1..n, NEW s \in Good[i - 1]
               PROVE  step[i][s] \in Good[i]
    BY DEF Leads
  <2>1. i - 1 \in 0..n /\ i \in 0..n
    BY <1>1
  <2>2. s \in Handed(t, actor, released, fold, i - 1)
    BY <2>1
  <2>3. s \in Tables
    BY <2>2 DEF Handed
  <2>4. ServeRequest(s, t.queue[i], actor, released, fold)
           \in Handed(t, actor, released, fold, i)
    BY <2>2, ServeHands
  <2> QED
    BY <2>1, <2>3, <2>4
<1>4. Good[n] = Handed(t, actor, released, fold, n)
  BY <1>1
<1> HIDE DEF step, start, Good
<1>5. Iterate(step, start, n) \in Good[n]
  BY <1>1, <1>2, <1>3, IterateLeads
<1> QED
  BY <1>4, <1>5 DEF GrantQueued, step, start

-----------------------------------------------------------------------------
(* A lane has one live request for a key.                                  *)

(* What walking the first i requests of q without those of gone leaves. *)
Left(q, gone, i) ==
    {kept \in Seq(Request) :
        /\ \A m \in 1..Len(kept) : \E k \in 1..i :
              kept[m] = q[k] /\ q[k] \notin gone
        /\ Distinct(q) => Distinct(kept)}

LEMMA WithoutLeaves ==
  ASSUME NEW q \in Seq(Request), NEW gone
  PROVE  Without(q, gone, Request) \in Left(q, gone, Len(q))
<1> DEFINE n == Len(q)
           step == [i \in 1..n |->
                      [kept \in Seq(Request) |->
                         IF q[i] \in gone THEN kept ELSE Append(kept, q[i])]]
           Good == [i \in 0..n |-> Left(q, gone, i)]
<1>1. n \in Nat
  OBVIOUS
<1>2. << >> \in Good[0]
  <2>1. << >> \in Left(q, gone, 0)
    BY DEF Left, Distinct
  <2> QED
    BY <1>1, <2>1
<1>3. Leads(step, n, Good)
  <2> SUFFICES ASSUME NEW i \in 1..n, NEW kept \in Good[i - 1]
               PROVE  step[i][kept] \in Good[i]
    BY DEF Leads
  <2>1. i - 1 \in 0..n /\ i \in 0..n /\ 1..i = 1..(i - 1) \cup {i}
    BY <1>1
  <2>2. kept \in Left(q, gone, i - 1)
    BY <2>1
  <2>3. /\ kept \in Seq(Request) /\ q[i] \in Request /\ Len(kept) \in Nat
        /\ \A m \in 1..Len(kept) : \E k \in 1..(i - 1) :
              kept[m] = q[k] /\ q[k] \notin gone
        /\ Distinct(q) => Distinct(kept)
    BY <2>2 DEF Left
  <2>4. step[i][kept] = IF q[i] \in gone THEN kept ELSE Append(kept, q[i])
    BY <2>3
  <2>5. CASE q[i] \in gone
    <3>1. kept \in Left(q, gone, i)
      BY <2>1, <2>3 DEF Left
    <3> QED
      BY <2>1, <2>4, <2>5, <3>1
  <2>6. CASE q[i] \notin gone
    <3> DEFINE longer == Append(kept, q[i])
    <3>1. /\ longer \in Seq(Request) /\ Len(longer) = Len(kept) + 1
          /\ \A m \in 1..Len(kept) : longer[m] = kept[m]
          /\ longer[Len(kept) + 1] = q[i]
      BY <2>3
    <3>2. Distinct(q) => Distinct(longer)
      BY <2>3, AppendDistinct
    <3> HIDE DEF longer
    <3>3. 1..Len(longer) = 1..Len(kept) \cup {Len(kept) + 1}
      BY <2>3, <3>1
    <3>4. \A m \in 1..Len(longer) : \E k \in 1..i :
             longer[m] = q[k] /\ q[k] \notin gone
      BY <2>1, <2>3, <2>6, <3>1, <3>3
    <3>5. longer \in Left(q, gone, i)
      BY <3>1, <3>2, <3>4 DEF Left
    <3> QED
      BY <2>1, <2>4, <2>6, <3>5 DEF longer
  <2> QED
    BY <2>5, <2>6
<1>4. Good[n] = Left(q, gone, n)
  BY <1>1
<1> HIDE DEF step, Good
<1>5. Iterate(step, << >>, n) \in Good[n]
  BY <1>1, <1>2, <1>3, IterateLeads
<1> QED
  BY <1>4, <1>5 DEF Without, step

Orderly == {s \in Tables : Distinct(s.queue)}

LEMMA GrantOrderly ==
  ASSUME NEW t \in Orderly, NEW actor, NEW released, NEW fold \in BOOLEAN
  PROVE  GrantQueued(t, actor, released, fold) \in Orderly
<1>1. t \in Tables /\ Distinct(t.queue)
  BY DEF Orderly
<1>2. GrantQueued(t, actor, released, fold)
         \in Handed(t, actor, released, fold, Len(t.queue))
  BY <1>1, GrantHands
<1> QED
  BY <1>1, <1>2 DEF Handed, Orderly

LEMMA ReleaseOrderly ==
  ASSUME NEW t \in Orderly, NEW lane, NEW rows, NEW fold \in BOOLEAN
  PROVE  ReleaseRows(t, lane, rows, fold) \in Orderly
<1>1. [t EXCEPT !.leases = t.leases \ rows] \in Orderly
  BY DEF Orderly, Tables
<1> QED
  BY <1>1, GrantOrderly DEF ReleaseRows

LEMMA ReclaimOrderly ==
  ASSUME TypeOK, Distinct(queue), NEW quiet
  PROVE  Reclaim(quiet) \in Orderly
<1> DEFINE step == [i \in Lane |->
                      [s \in Tables |->
                         ReleaseRows(s, i, HeldBy(i, ExpiredLeases(quiet)),
                                     FALSE)]]
<1>1. N \in Nat /\ tables \in Orderly
  BY ConstantsAssumption DEF tables, Orderly, Tables, TypeOK
<1>2. StaysWithin(step, N, Orderly)
  <2> SUFFICES ASSUME NEW i \in 1..N, NEW s \in Orderly
               PROVE  step[i][s] \in Orderly
    BY DEF StaysWithin
  <2>1. i \in Lane /\ s \in Tables
    BY DEF Orderly, Lane
  <2> QED
    BY <2>1, ReleaseOrderly
<1> HIDE DEF step
<1>3. Iterate(step, tables, N) \in Orderly
  BY <1>1, <1>2, IterateInvariant
<1> QED
  BY <1>3 DEF Reclaim, step

(* A batch is queued only for keys its lane does not wait for already. *)
LEMMA EnqueueDistinct ==
  ASSUME NEW t \in Orderly, NEW l \in Lane, NEW keys \in SUBSET Key,
         NEW order \in Orders(keys \ QueuedKeys(t, l)),
         NEW excl \in BOOLEAN, NEW timed \in BOOLEAN,
         NEW claim \in Claim \cup {NoClaim}
  PROVE  Distinct(Enqueue(t, l, order, excl, timed, claim).queue)
<1> DEFINE fresh == keys \ QueuedKeys(t, l)
           c == Cardinality(fresh)
           added == [i \in DOMAIN order |->
                       [lane |-> l, key |-> order[i], excl |-> excl,
                        timed |-> timed, claim |-> claim]]
           q == t.queue
           longer == q \o added
<1>1. fresh \in SUBSET Key /\ c \in Nat
  <2>1. fresh \in SUBSET Key /\ IsFiniteSet(fresh)
    BY ConstantsAssumption, FS_Subset
  <2> QED
    BY <2>1, FS_CardinalityType
<1>2. /\ order \in [1..c -> fresh]
      /\ \A i, j \in 1..c : order[i] = order[j] => i = j
  BY DEF Orders
<1>3. q \in Seq(Request) /\ Distinct(q) /\ Len(q) \in Nat
  BY DEF Orderly, Tables
<1>4. added \in [1..c -> Request]
  BY <1>1, <1>2 DEF Request
<1> HIDE DEF c, fresh
<1>5. added \in Seq(Request) /\ Len(added) = c
  <2> HIDE DEF added
  <2>1. added \in Seq(Request)
    BY <1>1, <1>4, IsASeq
  <2>2. DOMAIN added = 1..c /\ c \in Nat
    BY <1>1, <1>4
  <2>3. DOMAIN added = 1..Len(added) /\ Len(added) \in Nat
    BY <2>1, LenProperties
  <2> QED
    BY <2>1, <2>2, <2>3
<1>6. \A i \in 1..c : added[i].lane = l /\ added[i].key = order[i]
  BY <1>2
<1> HIDE DEF added, q
<1>7. /\ Len(longer) = Len(q) + c
      /\ \A i \in 1..Len(q) : longer[i] = q[i]
      /\ \A i \in (Len(q) + 1)..(Len(q) + c) : longer[i] = added[i - Len(q)]
  <2>1. /\ Len(q \o added) = Len(q) + Len(added)
        /\ \A i \in 1..(Len(q) + Len(added)) :
              (q \o added)[i] = IF i <= Len(q) THEN q[i]
                                               ELSE added[i - Len(q)]
    BY <1>3, <1>5, ConcatProperties
  <2> HIDE DEF longer
  <2>2. longer = q \o added
    BY DEF longer
  <2>3. \A i \in (Len(q) + 1)..(Len(q) + c) :
           i \in 1..(Len(q) + c) /\ ~(i <= Len(q))
    BY <1>1, <1>3
  <2>4. \A i \in 1..Len(q) : i \in 1..(Len(q) + c) /\ i <= Len(q)
    BY <1>1, <1>3
  <2> QED
    BY <1>5, <2>1, <2>2, <2>3, <2>4
<1> HIDE DEF longer
<1>8. ASSUME NEW i \in 1..Len(q), NEW j \in 1..c, q[i].lane = l
      PROVE  q[i].key # order[j]
  <2>1. q[i].key \in QueuedKeys(t, l)
    BY <1>8 DEF QueuedKeys, q
  <2>2. order[j] \in fresh
    BY <1>2
  <2> QED
    BY <2>1, <2>2 DEF fresh
<1>9. ASSUME NEW i \in 1..Len(longer), NEW j \in 1..Len(longer),
             longer[i].lane = longer[j].lane, longer[i].key = longer[j].key
      PROVE  i = j
  <2>1. /\ i \in 1..Len(q) \/ (/\ i \in (Len(q) + 1)..(Len(q) + c)
                               /\ i - Len(q) \in 1..c)
        /\ j \in 1..Len(q) \/ (/\ j \in (Len(q) + 1)..(Len(q) + c)
                               /\ j - Len(q) \in 1..c)
    BY <1>1, <1>3, <1>7
  <2>2. CASE i \in 1..Len(q) /\ j \in 1..Len(q)
    BY <1>3, <1>7, <1>9, <2>2 DEF Distinct
  <2>3. CASE /\ i \in (Len(q) + 1)..(Len(q) + c) /\ i - Len(q) \in 1..c
             /\ j \in (Len(q) + 1)..(Len(q) + c) /\ j - Len(q) \in 1..c
    <3>1. order[i - Len(q)] = order[j - Len(q)]
      BY <1>6, <1>7, <1>9, <2>3
    <3>2. i - Len(q) = j - Len(q)
      BY <1>2, <2>3, <3>1
    <3> QED
      BY <1>3, <2>3, <3>2
  <2>4. CASE /\ i \in 1..Len(q)
             /\ j \in (Len(q) + 1)..(Len(q) + c) /\ j - Len(q) \in 1..c
    BY <1>6, <1>7, <1>8, <1>9, <2>4
  <2>5. CASE /\ j \in 1..Len(q)
             /\ i \in (Len(q) + 1)..(Len(q) + c) /\ i - Len(q) \in 1..c
    BY <1>6, <1>7, <1>8, <1>9, <2>5
  <2> QED
    BY <2>1, <2>2, <2>3, <2>4, <2>5
<1>10. Enqueue(t, l, order, excl, timed, claim).queue = longer
  BY DEF Enqueue, added, longer, q, Orderly, Tables
<1> QED
  BY <1>9, <1>10 DEF Distinct

(* The inductive invariant of the queue. *)
QueueInv == TypeOK /\ Distinct(queue)

LEMMA BatchKeepsQueue ==
  ASSUME QueueInv, NEW t \in Orderly, NEW l, NEW keys, NEW excl, NEW timed,
         TakeBatch(t, l, keys, excl, timed)
  PROVE  Distinct(queue')
<1> DEFINE rows == Supersede(t.leases,
                             Batch(l, keys, excl, timed, inflight[l]))
<1>1. t.queue = [t EXCEPT !.leases = rows].queue /\ Distinct(t.queue)
  BY DEF Orderly, Tables
<1> QED
  BY <1>1 DEF TakeBatch, Commit, tables, QueueInv

LEMMA QueueStep == QueueInv /\ [Next]_vars => QueueInv'
<1> SUFFICES ASSUME QueueInv, [Next]_vars PROVE Distinct(queue')
  BY TypeStep DEF QueueInv
<1>1. /\ TypeOK /\ queue \in Seq(Request) /\ tables \in Orderly
      /\ Folds \in BOOLEAN /\ Distinct(queue)
  BY ConstantsAssumption DEF QueueInv, TypeOK, tables, Orderly, Tables
<1>2. ASSUME queue' = queue PROVE Distinct(queue')
  BY <1>1, <1>2
<1>3. ASSUME NEW t \in Orderly, Commit(t) PROVE Distinct(queue')
  BY <1>3 DEF Commit, Orderly
<1>4. ASSUME NEW q \in Seq(Request), Distinct(q), NEW gone,
             queue' = Without(q, gone, Request)
      PROVE  Distinct(queue')
  BY <1>4, WithoutLeaves DEF Left
<1>5. ASSUME NEW l \in Lane, ToolCall(l) PROVE Distinct(queue')
  <2>1. CASE Authenticate(l)
    BY <1>2, <2>1 DEF Authenticate
  <2>2. CASE Reserve(l)
    <3>1. PICK keys \in (SUBSET Key) \ {{}}, excl \in BOOLEAN,
               timed \in Timings, quiet \in SUBSET Late :
             LET t == Reclaim(quiet)
             IN  IF Conflicts(t, l, keys, excl) = {}
                 THEN TakeBatch(t, l, keys, excl, timed)
                 ELSE Commit(t)
      BY <2>2 DEF Reserve
    <3>2. Reclaim(quiet) \in Orderly
      BY <1>1, ReclaimOrderly
    <3> QED
      BY <1>3, <3>1, <3>2, BatchKeepsQueue
  <2>3. CASE RequestReservation(l)
    <3>1. PICK keys \in (SUBSET Key) \ {{}}, excl \in BOOLEAN,
               timed \in Timings, quiet \in SUBSET Late :
             LET t == Reclaim(quiet)
                 blocked == Conflicts(t, l, keys, excl)
                 waiting == QueuedKeys(t, l)
             IN  \/ /\ blocked = {}
                    /\ TakeBatch(t, l, keys, excl, timed)
                 \/ /\ blocked # {}
                    /\ Cardinality(waiting \cup blocked) <= MaxRequests
                    /\ \E order \in Orders(blocked \ waiting) :
                          Commit(Enqueue(t, l, order, excl, timed, inflight[l]))
                 \/ /\ blocked # {}
                    /\ Cardinality(waiting \cup blocked) > MaxRequests
                    /\ Commit(tables)
      BY <2>3 DEF RequestReservation
    <3> DEFINE t == Reclaim(quiet)
               blocked == Conflicts(t, l, keys, excl)
    <3>2. /\ t \in Orderly /\ timed \in BOOLEAN
          /\ inflight[l] \in Claim \cup {NoClaim}
      BY <1>1, <2>3, ReclaimOrderly, InflightType, ConstantsAssumption
         DEF RequestReservation, Serving
    <3>3. blocked \in SUBSET Key
      BY DEF Conflicts
    <3> HIDE DEF t, blocked
    <3>4. CASE TakeBatch(t, l, keys, excl, timed)
      BY <3>2, <3>4, BatchKeepsQueue
    <3>5. ASSUME NEW order \in Orders(blocked \ QueuedKeys(t, l)),
                 Commit(Enqueue(t, l, order, excl, timed, inflight[l]))
          PROVE  Distinct(queue')
      BY <3>2, <3>3, <3>5, EnqueueDistinct DEF Commit
    <3> QED
      BY <1>1, <1>3, <3>1, <3>4, <3>5 DEF t, blocked
  <2>4. CASE CancelRequest(l)
    BY <1>1, <1>4, <2>4 DEF CancelRequest
  <2>5. CASE Release(l)
    BY <1>1, <1>3, <2>5, ReleaseOrderly DEF Release
  <2>6. CASE Retire(l)
    <3> DEFINE t == ReleaseRows(tables, l, HeldBy(l, leases), FALSE)
    <3>1. t \in Orderly
      BY <1>1, ReleaseOrderly
    <3>2. queue' = Without(t.queue, RequestsOf(l), Request)
      BY <2>6 DEF Retire
    <3> HIDE DEF t
    <3> QED
      BY <1>4, <3>1, <3>2 DEF Orderly, Tables
  <2> QED
    BY <1>5, <2>1, <2>2, <2>3, <2>4, <2>5, <2>6 DEF ToolCall
<1>6. ASSUME NEW l \in Lane, Runtime(l) PROVE Distinct(queue')
  <2>1. CASE Renew(l)
    <3>1. PICK rows, dropped :
             /\ rows \in SUBSET Lease
             /\ Commit(ReleaseRows([tables EXCEPT !.leases = rows],
                                   l, dropped, FALSE))
      <4>1. PICK reading \in readings :
              LET due == {x \in HeldBy(l, leases) :
                             x.age \in {"expired", "lapsed"}}
                  dropped == {x \in due : x.claim # NoClaim /\ x.claim \notin reading.claims}
                  renewed == {[x EXCEPT !.age = "running"] :
                                 x \in due \ dropped}
              IN  Commit(ReleaseRows([tables EXCEPT !.leases =
                                         (leases \ (due \ dropped)) \cup renewed],
                                     l, dropped, FALSE))
        BY <2>1 DEF Renew
      <4> DEFINE due == {x \in HeldBy(l, leases) :
                            x.age \in {"expired", "lapsed"}}
                 dropped == {x \in due : x.claim # NoClaim /\ x.claim \notin reading.claims}
                 renewed == {[x EXCEPT !.age = "running"] :
                                x \in due \ dropped}
      <4>2. (leases \ (due \ dropped)) \cup renewed \in SUBSET Lease
        BY <1>1 DEF HeldBy, Lease, Age, TypeOK
      <4> QED
        BY <4>1, <4>2
    <3>2. [tables EXCEPT !.leases = rows] \in Orderly
      BY <1>1, <3>1 DEF Orderly, Tables
    <3> QED
      BY <1>3, <3>1, <3>2, ReleaseOrderly
  <2>2. CASE ReleaseDeadHolder(l)
    BY <1>1, <1>3, <2>2, ReleaseOrderly DEF ReleaseDeadHolder
  <2>3. CASE Revoke(l)
    BY <1>1, <1>4, <2>3 DEF Revoke
  <2>4. CASE Register(l) \/ ReadOwned(l)
    BY <1>2, <2>4 DEF Register, ReadOwned
  <2> QED
    BY <1>6, <2>1, <2>2, <2>3, <2>4 DEF Runtime
<1>7. CASE ReclaimExpired
  BY <1>1, <1>3, <1>7, ReclaimOrderly DEF ReclaimExpired
<1>8. CASE Elapse
  BY <1>2, <1>8 DEF Elapse
<1>9. CASE Ownership
  <2>1. ASSUME NEW m \in moves, MoveReservations(m) PROVE Distinct(queue')
    BY <1>1, <1>4, <2>1 DEF MoveReservations
  <2> QED
    BY <1>2, <1>9, <2>1 DEF Ownership, ClaimIssue, EndClaim, OfferClaim,
       DeclineOffer, AcceptOffer, TakeOrphaned, MoveFails
<1>10. CASE UNCHANGED vars
  BY <1>2, <1>10 DEF vars
<1> QED
  BY <1>5, <1>6, <1>7, <1>8, <1>9, <1>10 DEF Next

LEMMA QueueAlways == Spec => []QueueInv
<1>1. Init => QueueInv
  BY InitType DEF Init, QueueInv, Distinct
<1>2. QueueInv /\ [Next]_vars => QueueInv'
  BY QueueStep
<1> QED
  BY <1>1, <1>2, PTL DEF Spec

(* A lane has one live lease of a key and one live request for it, whatever
   batches, grants, sweeps and handoffs reach its rows. *)
THEOREM RowsAreUnique == Spec => []OneRowPerKey
<1>1. ExclusionInv /\ QueueInv => OneRowPerKey
  BY DEF ExclusionInv, Sound, Unique, QueueInv, Distinct,
     OneRowPerKey, OneLeasePerKey, OneRequestPerKey
<1> QED
  BY <1>1, ExclusionAlways, QueueAlways, PTL

-----------------------------------------------------------------------------
(* Released keys are handed on.                                            *)

(* Whoever waits in s for a key of a lease of gone is blocked by a lease
   of s. *)
Answered(gone, s, fold) ==
    \A x \in gone, m \in 1..Len(s.queue) :
        /\ s.queue[m].lane # x.lane
        /\ s.queue[m].lane \in credentialed
        /\ Overlapping(s.queue[m].key, x.key, FALSE)
        => \E y \in s.leases : Blocks(y, s.queue[m].lane, s.queue[m].key,
                                      s.queue[m].excl, fold)

LEMMA UpheldBlocks ==
  ASSUME NEW x, NEW rows, Upheld(x, rows), NEW lane, NEW key, NEW excl,
         NEW fold, Blocks(x, lane, key, excl, fold)
  PROVE  \E y \in rows : /\ Blocks(y, lane, key, excl, fold)
                         /\ y.lane = x.lane /\ y.key = x.key
BY DEF Upheld, Blocks

(* Comparing without case finds every overlap that comparing with it does. *)
LEMMA FoldingOverlaps ==
  ASSUME NEW j, NEW k, NEW fold \in BOOLEAN, Overlapping(j, k, FALSE)
  PROVE  Overlapping(j, k, fold)
BY OverlapAssumption DEF Overlapping

LEMMA ReleaseHands ==
  ASSUME NEW t \in Tables, NEW lane, NEW rows, NEW fold \in BOOLEAN,
         NEW base, base = [t EXCEPT !.leases = t.leases \ rows]
  PROVE  /\ ReleaseRows(t, lane, rows, fold)
               \in Handed(base, lane, KeysOf(rows), fold, Len(base.queue))
         /\ base.leases = t.leases \ rows /\ base.queue = t.queue
         /\ base \in Tables
<1>1. base \in Tables /\ base.leases = t.leases \ rows /\ base.queue = t.queue
  BY DEF Tables
<1> QED
  BY <1>1, GrantHands DEF ReleaseRows

LEMMA ReleaseAnswers ==
  ASSUME NEW t \in Tables, NEW lane, NEW rows, NEW fold \in BOOLEAN,
         \A x \in rows : x.lane = lane,
         NEW gone, Answered(gone, t, fold)
  PROVE  Answered(gone \cup rows, ReleaseRows(t, lane, rows, fold), fold)
<1> DEFINE base == [t EXCEPT !.leases = t.leases \ rows]
           u == ReleaseRows(t, lane, rows, fold)
           released == KeysOf(rows)
<1>1. u \in Handed(base, lane, released, fold, Len(base.queue))
  BY ReleaseHands
<1>2. base.leases = t.leases \ rows /\ base.queue = t.queue
  BY ReleaseHands
<1> HIDE DEF u, base
<1> SUFFICES ASSUME NEW x \in gone \cup rows, NEW m \in 1..Len(u.queue),
                    u.queue[m].lane # x.lane,
                    u.queue[m].lane \in credentialed,
                    Overlapping(u.queue[m].key, x.key, FALSE)
             PROVE  \E y \in u.leases :
                       Blocks(y, u.queue[m].lane, u.queue[m].key,
                              u.queue[m].excl, fold)
  BY DEF Answered, u
<1>3. PICK k \in 1..Len(t.queue) :
        /\ u.queue[m] = t.queue[k]
        /\ Considered(t.queue[k], lane, released, fold)
              => StaysBehind(base, k, fold, u.leases)
  BY <1>1, <1>2 DEF Handed
<1> DEFINE r == t.queue[k]
<1>4. CASE Considered(r, lane, released, fold)
  <2>1. PICK y \in Recorded(base, k) :
           Blocks(y, r.lane, r.key, r.excl, fold) /\ Upheld(y, u.leases)
    BY <1>2, <1>3, <1>4 DEF StaysBehind
  <2> QED
    BY <1>3, <2>1, UpheldBlocks
<1>5. ASSUME ~Considered(r, lane, released, fold)
      PROVE  \E y \in u.leases : Blocks(y, r.lane, r.key, r.excl, fold)
  <2>1. x \in gone
    <3> SUFFICES ASSUME x \in rows PROVE FALSE
      OBVIOUS
    <3>1. x.key \in released /\ Overlapping(r.key, x.key, fold)
      BY <1>3, FoldingOverlaps DEF KeysOf
    <3> QED
      BY <1>3, <1>5, <3>1 DEF Considered
  <2>2. PICK y \in t.leases : Blocks(y, r.lane, r.key, r.excl, fold)
    BY <1>3, <2>1 DEF Answered
  <2>3. y \notin rows
    <3> SUFFICES ASSUME y \in rows PROVE FALSE
      OBVIOUS
    <3>1. y.key \in released /\ r.lane # lane
      BY <2>2 DEF KeysOf, Blocks
    <3> QED
      BY <1>3, <1>5, <2>2, <3>1 DEF Considered, Blocks
  <2>4. Upheld(y, u.leases)
    BY <1>1, <1>2, <2>2, <2>3 DEF Handed
  <2> QED
    BY <2>2, <2>4, UpheldBlocks
<1> QED
  BY <1>3, <1>4, <1>5

(* The leases that the sweep takes from the first i lanes. *)
Swept(quiet, i) == {x \in ExpiredLeases(quiet) : x.lane \in 1..i}

(* What the sweep has left after the first i lanes: everything swept is
   answered and gone, and everything else is still held. *)
Sweeping(quiet, i) ==
    {s \in Tables :
        /\ Answered(Swept(quiet, i), s, FALSE)
        /\ \A x \in leases \ ExpiredLeases(quiet) : Upheld(x, s.leases)
        /\ \A y \in s.leases : \/ y \in leases \ Swept(quiet, i)
                               \/ y.age \notin {"expired", "lapsed"}}

LEMMA SweepAnswers ==
  ASSUME ExclusionInv, NEW quiet
  PROVE  Reclaim(quiet) \in Sweeping(quiet, N)
<1> DEFINE expired == ExpiredLeases(quiet)
           step == [i \in Lane |->
                      [s \in Tables |->
                         ReleaseRows(s, i, HeldBy(i, expired), FALSE)]]
           Good == [i \in 0..N |-> Sweeping(quiet, i)]
<1>1. N \in Nat /\ tables \in Tables /\ tables.leases = leases
  BY ConstantsAssumption DEF tables, Tables, ExclusionInv, TypeOK
<1>2. tables \in Good[0]
  <2>1. Swept(quiet, 0) = {}
    BY DEF Swept
  <2>2. \A x \in leases : Upheld(x, leases)
    BY DEF Upheld
  <2>3. tables \in Sweeping(quiet, 0)
    BY <1>1, <2>1, <2>2 DEF Sweeping, Answered
  <2> QED
    BY <1>1, <2>3
<1>3. Leads(step, N, Good)
  <2> SUFFICES ASSUME NEW i \in 1..N, NEW s \in Good[i - 1]
               PROVE  step[i][s] \in Good[i]
    BY DEF Leads
  <2> DEFINE rows == HeldBy(i, expired)
             u == ReleaseRows(s, i, rows, FALSE)
             base == [s EXCEPT !.leases = s.leases \ rows]
  <2>1. /\ i - 1 \in 0..N /\ i \in 0..N /\ i \in Lane
        /\ 1..i = 1..(i - 1) \cup {i}
    BY <1>1 DEF Lane
  <2>2. /\ s \in Tables
        /\ Answered(Swept(quiet, i - 1), s, FALSE)
        /\ \A x \in leases \ expired : Upheld(x, s.leases)
        /\ \A y \in s.leases : \/ y \in leases \ Swept(quiet, i - 1)
                               \/ y.age \notin {"expired", "lapsed"}
    BY <2>1 DEF Sweeping
  <2>3. step[i][s] = u
    BY <2>1, <2>2
  <2>4. Swept(quiet, i) = Swept(quiet, i - 1) \cup rows
    BY <2>1 DEF Swept, HeldBy
  <2>5. rows \subseteq expired /\ expired \subseteq leases
        /\ \A x \in rows : x.lane = i
    BY DEF HeldBy, ExpiredLeases
  <2>6. Answered(Swept(quiet, i), u, FALSE)
    BY <2>2, <2>4, <2>5, ReleaseAnswers
  <2>7. u \in Handed(base, i, KeysOf(rows), FALSE, Len(base.queue))
    BY <2>2, ReleaseHands
  <2>8. base.leases = s.leases \ rows /\ base.queue = s.queue
    BY <2>2, ReleaseHands
  <2> HIDE DEF u, base, expired, rows
  <2>9. u \in Tables /\ u.leases \subseteq Recorded(base, Len(base.queue) + 1)
        /\ \A x \in base.leases : Upheld(x, u.leases)
    BY <2>7 DEF Handed
  <2>10. \A x \in leases \ expired : Upheld(x, u.leases)
    <3> SUFFICES ASSUME NEW x \in leases, x \notin expired
                 PROVE  Upheld(x, u.leases)
      OBVIOUS
    <3>1. PICK y \in s.leases :
             y.lane = x.lane /\ y.key = x.key /\ (x.excl => y.excl)
      BY <2>2 DEF Upheld
    <3>2. y \notin rows
      BY <2>5, <3>1 DEF ExclusionInv, Sound, Unique
    <3>3. Upheld(y, u.leases)
      BY <2>8, <2>9, <3>1, <3>2
    <3> QED
      BY <3>1, <3>3 DEF Upheld
  <2>11. ASSUME NEW y \in u.leases
         PROVE  \/ y \in leases \ Swept(quiet, i)
                \/ y.age \notin {"expired", "lapsed"}
    <3>1. CASE y \in base.leases
      BY <2>2, <2>4, <2>8, <3>1
    <3>2. ASSUME NEW r, y = LeaseOf(r) PROVE y.age \notin {"expired", "lapsed"}
      BY <3>2 DEF LeaseOf
    <3> QED
      BY <2>9, <3>1, <3>2 DEF Recorded
  <2>12. u \in Sweeping(quiet, i)
    BY <2>6, <2>9, <2>10, <2>11 DEF Sweeping, expired
  <2> QED
    BY <2>1, <2>3, <2>12
<1>4. Good[N] = Sweeping(quiet, N)
  BY <1>1
<1> HIDE DEF step, Good
<1>5. Iterate(step, tables, N) \in Good[N]
  BY <1>1, <1>2, <1>3, IterateLeads
<1> QED
  BY <1>4, <1>5 DEF Reclaim, step

(* The sweep of a reachable state. *)
LEMMA SweepLeaves ==
  ASSUME ExclusionInv, NEW quiet
  PROVE  /\ Reclaim(quiet) \in Tables
         /\ Answered(ExpiredLeases(quiet), Reclaim(quiet), FALSE)
         /\ \A x \in leases \ ExpiredLeases(quiet) :
               Upheld(x, Reclaim(quiet).leases)
         /\ \A x \in ExpiredLeases(quiet) : x \notin Reclaim(quiet).leases
<1>1. Reclaim(quiet) \in Sweeping(quiet, N)
  BY SweepAnswers
<1>2. Swept(quiet, N) = ExpiredLeases(quiet)
  BY DEF Swept, ExpiredLeases, ExclusionInv, TypeOK, Lease, Lane
<1>3. \A x \in ExpiredLeases(quiet) : x.age \in {"expired", "lapsed"}
  BY DEF ExpiredLeases
<1> QED
  BY <1>1, <1>2, <1>3 DEF Sweeping

(* The transaction leaves every lease of rows to its lane, as strong or
   weakened by the call that it serves. *)
Retained(rows) ==
    \A y \in rows : \E z \in leases' :
        /\ z.lane = y.lane /\ z.key = y.key
        /\ y.excl => (z.excl \/ Calling(z.lane))

BlocksAfter(y, r) ==
    Blocks(y, r.lane, r.key, r.excl \/ Calling(y.lane), Folds)

LEMMA RetainedBlocks ==
  ASSUME NEW rows, Retained(rows), NEW y \in rows, NEW r,
         NEW fold \in {FALSE, Folds}, Blocks(y, r.lane, r.key, r.excl, fold)
  PROVE  \E z \in leases' : /\ BlocksAfter(z, r)
                            /\ z.lane = y.lane /\ z.key = y.key
<1>1. Folds \in BOOLEAN
  BY ConstantsAssumption
<1>2. PICK z \in leases' : /\ z.lane = y.lane /\ z.key = y.key
                           /\ y.excl => (z.excl \/ Calling(z.lane))
  BY DEF Retained
<1>3. Overlapping(r.key, z.key, Folds)
  BY <1>1, <1>2, FoldingOverlaps DEF Blocks
<1>4. r.excl \/ Calling(z.lane) \/ z.excl
  BY <1>2 DEF Blocks
<1>5. z.lane # r.lane
  BY <1>2 DEF Blocks
<1> QED
  BY <1>2, <1>3, <1>4, <1>5 DEF BlocksAfter, Blocks

LEMMA KeptIsRetained ==
  ASSUME NEW rows, rows = leases' PROVE Retained(rows)
BY DEF Retained

(* A batch supersedes rows of the lane whose call it serves. *)
LEMMA BatchRetains ==
  ASSUME NEW rows, NEW l, NEW keys, NEW excl, NEW timed, NEW claim, Calling(l),
         leases' = Supersede(rows, Batch(l, keys, excl, timed, claim))
  PROVE  Retained(rows)
<1> DEFINE new == Batch(l, keys, excl, timed, claim)
<1>1. \A z \in new : z.lane = l
  BY BatchRows
<1> HIDE DEF new
<1> SUFFICES ASSUME NEW y \in rows
             PROVE  \E z \in leases' :
                       /\ z.lane = y.lane /\ z.key = y.key
                       /\ y.excl => (z.excl \/ Calling(z.lane))
  BY DEF Retained
<1>2. CASE y \in leases'
  BY <1>2
<1>3. CASE y \notin leases'
  <2>1. PICK z \in new : y.lane = z.lane /\ y.key = z.key
    BY <1>3 DEF Supersede, new
  <2>2. z \in leases' /\ z.lane = l
    BY <1>1, <2>1 DEF Supersede, new
  <2> QED
    BY <2>1, <2>2
<1> QED
  BY <1>2, <1>3

LEMMA RetainedHolds ==
  ASSUME NEW rows, Retained(rows), NEW x, Upheld(x, rows)
  PROVE  StillHolds(x, leases')
BY DEF Upheld, Retained, StillHolds

(* After a sweep whose rows are retained, whoever waits is blocked. *)
LEMMA SweepHandsOn ==
  ASSUME ExclusionInv, NEW quiet, Retained(Reclaim(quiet).leases),
         NEW x \in leases, ~StillHolds(x, leases'),
         NEW r, Queued(r, Reclaim(quiet).queue),
         r.lane # x.lane, r.lane \in credentialed,
         Overlapping(r.key, x.key, FALSE)
  PROVE  \E y \in leases' : BlocksAfter(y, r)
<1> DEFINE t == Reclaim(quiet)
<1>1. /\ Answered(ExpiredLeases(quiet), t, FALSE)
      /\ \A u \in leases \ ExpiredLeases(quiet) : Upheld(u, t.leases)
  BY SweepLeaves
<1> HIDE DEF t
<1>2. x \in ExpiredLeases(quiet)
  BY <1>1, RetainedHolds DEF t
<1>3. PICK m \in 1..Len(t.queue) : t.queue[m] = r
  BY DEF Queued, t
<1>4. PICK y \in t.leases : Blocks(y, r.lane, r.key, r.excl, FALSE)
  BY <1>1, <1>2, <1>3 DEF Answered
<1> QED
  BY <1>4, RetainedBlocks DEF t

(* After a release by one lane, whoever waits for its keys is blocked. *)
LEMMA ReleaseHandsOn ==
  ASSUME NEW t \in Tables, NEW lane, NEW rows, NEW fold \in {FALSE, Folds},
         \A x \in rows : x.lane = lane,
         leases' = ReleaseRows(t, lane, rows, fold).leases,
         NEW x, x \in rows \/ StillHolds(x, t.leases \ rows),
         ~StillHolds(x, leases'),
         NEW r, Queued(r, ReleaseRows(t, lane, rows, fold).queue),
         r.lane # x.lane, r.lane \in credentialed,
         Overlapping(r.key, x.key, FALSE)
  PROVE  \E y \in leases' : BlocksAfter(y, r)
<1> DEFINE u == ReleaseRows(t, lane, rows, fold)
           base == [t EXCEPT !.leases = t.leases \ rows]
<1>1. fold \in BOOLEAN
  BY ConstantsAssumption
<1>2. Answered({} \cup rows, u, fold)
  <2>1. Answered({}, t, fold)
    BY DEF Answered
  <2> QED
    BY <1>1, <2>1, ReleaseAnswers
<1>3. /\ u \in Handed(base, lane, KeysOf(rows), fold, Len(base.queue))
      /\ base.leases = t.leases \ rows
  BY <1>1, ReleaseHands
<1> HIDE DEF u, base
<1>4. x \in rows
  <2> SUFFICES ASSUME NEW y \in base.leases, y.lane = x.lane, y.key = x.key
               PROVE  FALSE
    BY <1>3 DEF StillHolds
  <2>1. Upheld(y, u.leases)
    BY <1>3 DEF Handed
  <2> QED
    BY <2>1 DEF Upheld, StillHolds, u
<1>5. PICK m \in 1..Len(u.queue) : u.queue[m] = r
  BY DEF Queued, u
<1>6. PICK y \in u.leases : Blocks(y, r.lane, r.key, r.excl, fold)
  BY <1>2, <1>4, <1>5 DEF Answered
<1>7. Retained(u.leases)
  BY KeptIsRetained DEF u
<1> QED
  BY <1>6, <1>7, RetainedBlocks

(* What is queued after a batch of requests joined the queue. *)
LEMMA EnqueuedEntries ==
  ASSUME NEW t \in Tables, NEW l \in Lane, NEW keys \in SUBSET Key,
         NEW order \in Orders(keys),
         NEW excl \in BOOLEAN, NEW timed \in BOOLEAN,
         NEW claim \in Claim \cup {NoClaim},
         NEW r, Queued(r, Enqueue(t, l, order, excl, timed, claim).queue)
  PROVE  Queued(r, t.queue) \/ (r.lane = l /\ r.key \in keys /\ r.excl = excl)
<1> DEFINE c == Cardinality(keys)
           added == [i \in DOMAIN order |->
                       [lane |-> l, key |-> order[i], excl |-> excl,
                        timed |-> timed, claim |-> claim]]
           q == t.queue
<1>1. c \in Nat
  <2>1. IsFiniteSet(keys)
    BY ConstantsAssumption, FS_Subset
  <2> QED
    BY <2>1, FS_CardinalityType
<1>2. order \in [1..c -> keys]
  BY DEF Orders
<1>3. q \in Seq(Request) /\ Len(q) \in Nat
  BY DEF Tables
<1>4. added \in [1..c -> Request]
  BY <1>1, <1>2 DEF Request
<1> HIDE DEF c
<1>5. added \in Seq(Request)
  <2> HIDE DEF added
  <2> QED
    BY <1>1, <1>4, IsASeq
<1>6. \A i \in DOMAIN added : /\ added[i].lane = l /\ added[i].key \in keys
                              /\ added[i].excl = excl
  BY <1>2
<1>7. Enqueue(t, l, order, excl, timed, claim).queue = q \o added
  BY DEF Enqueue, Tables
<1> HIDE DEF added, q
<1>8. /\ Len(added) \in Nat /\ DOMAIN added = 1..Len(added)
      /\ Len(q \o added) = Len(q) + Len(added)
      /\ \A i \in 1..(Len(q) + Len(added)) :
            (q \o added)[i] = IF i <= Len(q) THEN q[i] ELSE added[i - Len(q)]
  BY <1>3, <1>5, ConcatProperties, LenProperties
<1>9. PICK i \in 1..(Len(q) + Len(added)) : (q \o added)[i] = r
  BY <1>7, <1>8 DEF Queued
<1>10. CASE i <= Len(q)
  <2>1. i \in 1..Len(q) /\ q[i] = r
    BY <1>3, <1>8, <1>9, <1>10
  <2> QED
    BY <2>1 DEF Queued, q
<1>11. CASE ~(i <= Len(q))
  <2>1. i - Len(q) \in 1..Len(added) /\ added[i - Len(q)] = r
    BY <1>3, <1>8, <1>9, <1>11
  <2> QED
    BY <1>6, <1>8, <2>1
<1> QED
  BY <1>10, <1>11

LEMMA CallEnds ==
  ASSUME TypeOK, NEW l \in Lane, inflight[l] # NoCall,
         inflight' = [inflight EXCEPT ![l] = NoCall]
  PROVE  Calling(l)
BY DEF TypeOK, Calling

(* A request of the queue that a step leaves is left for a reason. *)
Stranded(x, r) ==
    /\ ~StillHolds(x, leases')
    /\ Queued(r, queue')
    /\ r.lane # x.lane
    /\ r.lane \in credentialed
    /\ Overlapping(r.key, x.key, FALSE)
    /\ \A y \in leases' : ~BlocksAfter(y, r)

LEMMA NothingLost ==
  ASSUME leases' = leases, NEW x \in leases, NEW r PROVE ~Stranded(x, r)
BY DEF Stranded, StillHolds

LEMMA SweepStrandsNobody ==
  ASSUME ExclusionInv, NEW quiet, Retained(Reclaim(quiet).leases),
         NEW x \in leases, NEW r,
         Queued(r, queue') => Queued(r, Reclaim(quiet).queue)
  PROVE  ~Stranded(x, r)
BY SweepHandsOn DEF Stranded

LEMMA TakeStrandsNobody ==
  ASSUME ExclusionInv, NEW quiet, NEW l, Calling(l), NEW keys, NEW excl,
         NEW timed, TakeBatch(Reclaim(quiet), l, keys, excl, timed),
         NEW x \in leases, NEW r
  PROVE  ~Stranded(x, r)
<1> DEFINE t == Reclaim(quiet)
           rows == Supersede(t.leases, Batch(l, keys, excl, timed, inflight[l]))
<1>1. t \in Tables
  BY SweepLeaves
<1>2. CASE WithinBudget(t, l, keys)
  <2>1. leases' = rows /\ queue' = t.queue
    BY <1>1, <1>2 DEF TakeBatch, Commit, Tables
  <2>2. Retained(t.leases)
    BY <2>1, BatchRetains
  <2> QED
    BY <2>1, <2>2, SweepStrandsNobody
<1>3. CASE ~WithinBudget(t, l, keys)
  <2>1. leases' = leases
    BY <1>3 DEF TakeBatch, Commit, tables
  <2> QED
    BY <2>1, NothingLost
<1> QED
  BY <1>2, <1>3

LEMMA ReleaseStrandsNobody ==
  ASSUME TypeOK, NEW l, NEW fold \in {FALSE, Folds},
         leases' = ReleaseRows(tables, l, HeldBy(l, leases), fold).leases,
         NEW x \in leases, NEW r,
         Queued(r, queue') =>
            Queued(r, ReleaseRows(tables, l, HeldBy(l, leases), fold).queue)
  PROVE  ~Stranded(x, r)
<1> DEFINE rows == HeldBy(l, leases)
<1>1. tables \in Tables /\ tables.leases = leases
  BY DEF tables, Tables, TypeOK
<1>2. \A y \in rows : y.lane = l
  BY DEF HeldBy
<1>3. x \in rows \/ StillHolds(x, tables.leases \ rows)
  BY <1>1 DEF StillHolds
<1> HIDE DEF rows
<1> QED
  BY <1>1, <1>2, <1>3, ReleaseHandsOn DEF Stranded, rows

(* A renewal is a release of the dropped leases from tables in which the
   renewed ones have replaced the expired ones. *)
LEMMA RenewReleases ==
  ASSUME TypeOK, NEW l \in Lane, Renew(l)
  PROVE  \E t \in Tables, dropped \in SUBSET Lease :
            /\ \A y \in dropped : y.lane = l
            /\ \A x \in leases : \/ x \in dropped
                                 \/ StillHolds(x, t.leases \ dropped)
            /\ \A y \in t.leases : y \in leases \/ y.lane = l
            /\ t.queue = queue
            /\ leases' = ReleaseRows(t, l, dropped, FALSE).leases
            /\ queue' = ReleaseRows(t, l, dropped, FALSE).queue
<1>1. PICK reading \in readings :
        LET due == {y \in HeldBy(l, leases) :
                       y.age \in {"expired", "lapsed"}}
            dropped == {y \in due : y.claim # NoClaim /\ y.claim \notin reading.claims}
            renewed == {[y EXCEPT !.age = "running"] : y \in due \ dropped}
        IN  Commit(ReleaseRows([tables EXCEPT !.leases =
                                   (leases \ (due \ dropped)) \cup renewed],
                               l, dropped, FALSE))
  BY DEF Renew
<1> DEFINE due == {y \in HeldBy(l, leases) : y.age \in {"expired", "lapsed"}}
           dropped == {y \in due : y.claim # NoClaim /\ y.claim \notin reading.claims}
           renewed == {[y EXCEPT !.age = "running"] : y \in due \ dropped}
           rows == (leases \ (due \ dropped)) \cup renewed
           t == [tables EXCEPT !.leases = rows]
<1>2. leases \in SUBSET Lease /\ queue \in Seq(Request)
  BY DEF TypeOK
<1>3. rows \in SUBSET Lease
  BY <1>2 DEF HeldBy, Lease, Age
<1>4. \A y \in dropped : y.lane = l /\ y.age # "running" /\ y \in Lease
  BY <1>2 DEF HeldBy
<1>5. \A y \in rows : y \in leases \/ y.lane = l
  BY <1>2 DEF HeldBy, Lease
<1>6. ASSUME NEW x \in leases
      PROVE  x \in dropped \/ StillHolds(x, rows \ dropped)
  <2>1. CASE x \in dropped
    BY <2>1
  <2>2. CASE x \in leases \ due
    <3>1. x \in rows \ dropped
      BY <2>2
    <3> HIDE DEF rows, dropped
    <3> QED
      BY <3>1 DEF StillHolds
  <2>3. CASE x \in due \ dropped
    <3> DEFINE z == [x EXCEPT !.age = "running"]
    <3>1. z.lane = x.lane /\ z.key = x.key /\ z.age = "running"
      BY <1>2 DEF Lease
    <3>2. z \in renewed
      BY <2>3
    <3>3. z \in rows \ dropped
      BY <1>4, <3>1, <3>2
    <3> HIDE DEF rows, dropped, z
    <3> QED
      BY <3>1, <3>3 DEF StillHolds
  <2> QED
    BY <2>1, <2>2, <2>3
<1> HIDE DEF dropped, rows
<1>7. t \in Tables /\ t.leases = rows /\ t.queue = queue
  BY <1>2, <1>3 DEF tables, Tables
<1> HIDE DEF t
<1>8. leases' = ReleaseRows(t, l, dropped, FALSE).leases
      /\ queue' = ReleaseRows(t, l, dropped, FALSE).queue
  BY <1>1 DEF Commit, t, rows, dropped
<1>9. dropped \in SUBSET Lease
  BY <1>4
<1> QED
  BY <1>4, <1>5, <1>6, <1>7, <1>8, <1>9

LEMMA RenewStrandsNobody ==
  ASSUME TypeOK, NEW l \in Lane, Renew(l), NEW x \in leases, NEW r
  PROVE  ~Stranded(x, r)
<1>1. PICK t \in Tables, dropped \in SUBSET Lease :
            /\ \A y \in dropped : y.lane = l
            /\ \A z \in leases : \/ z \in dropped
                                 \/ StillHolds(z, t.leases \ dropped)
            /\ leases' = ReleaseRows(t, l, dropped, FALSE).leases
            /\ queue' = ReleaseRows(t, l, dropped, FALSE).queue
  BY RenewReleases
<1>2. x \in dropped \/ StillHolds(x, t.leases \ dropped)
  BY <1>1
<1> QED
  BY <1>1, <1>2, ReleaseHandsOn DEF Stranded

LEMMA RequestStrandsNobody ==
  ASSUME ExclusionInv, NEW l \in Lane, RequestReservation(l),
         NEW x \in leases, NEW r
  PROVE  ~Stranded(x, r)
<1>1. PICK keys \in (SUBSET Key) \ {{}}, excl \in BOOLEAN, timed \in Timings,
           quiet \in SUBSET Late :
         LET t == Reclaim(quiet)
             blocked == Conflicts(t, l, keys, excl)
             waiting == QueuedKeys(t, l)
         IN  \/ /\ blocked = {}
                /\ TakeBatch(t, l, keys, excl, timed)
             \/ /\ blocked # {}
                /\ Cardinality(waiting \cup blocked) <= MaxRequests
                /\ \E order \in Orders(blocked \ waiting) :
                      Commit(Enqueue(t, l, order, excl, timed, inflight[l]))
             \/ /\ blocked # {}
                /\ Cardinality(waiting \cup blocked) > MaxRequests
                /\ Commit(tables)
  BY DEF RequestReservation
<1> DEFINE t == Reclaim(quiet)
           blocked == Conflicts(t, l, keys, excl)
           fresh == blocked \ QueuedKeys(t, l)
<1>2. /\ TypeOK /\ Calling(l) /\ timed \in BOOLEAN
      /\ inflight[l] \in Claim \cup {NoClaim}
  BY CallEnds, InflightType, ConstantsAssumption
     DEF ExclusionInv, RequestReservation, Serving
<1>3. CASE TakeBatch(t, l, keys, excl, timed)
  BY <1>2, <1>3, TakeStrandsNobody
<1>4. CASE Commit(tables)
  BY <1>4, NothingLost DEF Commit, tables
<1>5. ASSUME NEW order \in Orders(fresh),
             Commit(Enqueue(t, l, order, excl, timed, inflight[l]))
      PROVE  ~Stranded(x, r)
  <2> DEFINE e == Enqueue(t, l, order, excl, timed, inflight[l])
  <2>1. t \in Tables
    BY SweepLeaves
  <2>2. fresh \in SUBSET Key /\ fresh \subseteq blocked
    BY DEF Conflicts
  <2>3. \A k \in blocked : \E y \in t.leases : Blocks(y, l, k, excl, Folds)
    BY DEF Conflicts
  <2> HIDE DEF t, blocked, fresh
  <2>4. e.leases = t.leases
    BY <2>1 DEF Enqueue, Tables
  <2>5. leases' = t.leases /\ queue' = e.queue
    BY <1>5, <2>4 DEF Commit
  <2>6. Retained(t.leases)
    BY <2>5, KeptIsRetained
  <2>7. CASE Queued(r, t.queue)
    BY <2>6, <2>7, SweepStrandsNobody DEF t
  <2>8. CASE r.lane = l /\ r.key \in fresh /\ r.excl = excl
    <3>1. PICK y \in t.leases : Blocks(y, r.lane, r.key, r.excl, Folds)
      BY <2>2, <2>3, <2>8
    <3>2. \E z \in leases' : BlocksAfter(z, r)
      BY <2>6, <3>1, RetainedBlocks
    <3> QED
      BY <3>2 DEF Stranded
  <2>9. CASE ~Queued(r, queue')
    BY <2>9 DEF Stranded
  <2> HIDE DEF e
  <2>10. Queued(r, e.queue) => \/ Queued(r, t.queue)
                               \/ r.lane = l /\ r.key \in fresh /\ r.excl = excl
    BY <1>2, <2>1, <2>2, EnqueuedEntries DEF e
  <2> QED
    BY <2>5, <2>7, <2>8, <2>9, <2>10
<1> QED
  BY <1>1, <1>3, <1>4, <1>5 DEF t, blocked, fresh

(* What a walk over the queue keeps was there before. *)
LEMMA WithoutQueued ==
  ASSUME NEW q \in Seq(Request), NEW gone, NEW r,
         Queued(r, Without(q, gone, Request))
  PROVE  Queued(r, q) /\ r \notin gone
BY WithoutLeaves DEF Left, Queued

LEMMA NoKeyStrandedStep ==
  ASSUME ExclusionInv, Next PROVE NoKeyStranded
<1> SUFFICES ASSUME ~Handoff, NEW x \in leases, NEW r PROVE ~Stranded(x, r)
  <2>1. ASSUME NEW i \in 1..Len(queue') PROVE Queued(queue'[i], queue')
    BY DEF Queued
  <2> QED
    BY <2>1 DEF NoKeyStranded, Stranded, BlocksAfter
<1>1. /\ TypeOK /\ queue \in Seq(Request) /\ tables \in Tables
      /\ tables.leases = leases /\ tables.queue = queue
  BY DEF ExclusionInv, TypeOK, tables, Tables
<1>2. ASSUME leases' = leases PROVE ~Stranded(x, r)
  BY <1>2, NothingLost
<1>3. ASSUME NEW l \in Lane, ToolCall(l) PROVE ~Stranded(x, r)
  <2>1. CASE Authenticate(l) \/ CancelRequest(l)
    BY <1>2, <2>1 DEF Authenticate, CancelRequest
  <2>2. CASE Reserve(l)
    <3>1. PICK keys \in (SUBSET Key) \ {{}}, excl \in BOOLEAN,
               timed \in Timings, quiet \in SUBSET Late :
             LET t == Reclaim(quiet)
             IN  IF Conflicts(t, l, keys, excl) = {}
                 THEN TakeBatch(t, l, keys, excl, timed)
                 ELSE Commit(t)
      BY <2>2 DEF Reserve
    <3>2. Calling(l)
      BY <1>1, <2>2, CallEnds DEF Reserve, Serving
    <3>3. CASE TakeBatch(Reclaim(quiet), l, keys, excl, timed)
      BY <3>2, <3>3, TakeStrandsNobody
    <3>4. CASE Commit(Reclaim(quiet))
      BY <3>4, KeptIsRetained, SweepStrandsNobody DEF Commit
    <3> QED
      BY <3>1, <3>3, <3>4
  <2>3. CASE RequestReservation(l)
    BY <2>3, RequestStrandsNobody
  <2>4. CASE Release(l)
    BY <1>1, <2>4, ReleaseStrandsNobody DEF Release, Commit
  <2>5. CASE Retire(l)
    <3> DEFINE u == ReleaseRows(tables, l, HeldBy(l, leases), FALSE)
    <3>1. u \in Within(SUBSET Lease)
      BY <1>1, AnyTable, ReleaseHeldWithin DEF TypeOK
    <3>2. leases' = u.leases /\ queue' = Without(u.queue, RequestsOf(l), Request)
      BY <2>5 DEF Retire
    <3> HIDE DEF u
    <3>3. Queued(r, queue') => Queued(r, u.queue)
      BY <3>1, <3>2, WithoutQueued DEF Within
    <3> QED
      BY <1>1, <3>2, <3>3, ReleaseStrandsNobody DEF u
  <2> QED
    BY <1>3, <2>1, <2>2, <2>3, <2>4, <2>5 DEF ToolCall
<1>4. ASSUME NEW l \in Lane, Runtime(l) PROVE ~Stranded(x, r)
  <2>1. CASE Renew(l)
    BY <1>1, <2>1, RenewStrandsNobody
  <2>2. CASE ReleaseDeadHolder(l)
    BY <1>1, <2>2, ReleaseStrandsNobody DEF ReleaseDeadHolder, Commit
  <2>3. CASE Revoke(l) \/ Register(l) \/ ReadOwned(l)
    BY <1>2, <2>3 DEF Revoke, Register, ReadOwned
  <2> QED
    BY <1>4, <2>1, <2>2, <2>3 DEF Runtime
<1>5. CASE ReclaimExpired
  BY <1>5, KeptIsRetained, SweepStrandsNobody DEF ReclaimExpired, Commit
<1>6. CASE Elapse
  <2>1. PICK y \in leases :
          leases' = (leases \ {y}) \cup
             {[y EXCEPT !.age = IF y.age = "running" THEN "expired"
                                                     ELSE "lapsed"]}
    BY <1>6 DEF Elapse
  <2> DEFINE z == [y EXCEPT !.age = IF y.age = "running" THEN "expired"
                                                         ELSE "lapsed"]
  <2>2. z.lane = y.lane /\ z.key = y.key /\ z \in leases'
    BY <1>1, <2>1 DEF Lease, TypeOK
  <2>3. StillHolds(x, leases')
    BY <2>1, <2>2 DEF StillHolds
  <2> QED
    BY <2>3 DEF Stranded
<1>7. CASE Ownership
  <2>1. leases' = leases
    BY <1>7 DEF Handoff, Ownership, ClaimIssue, EndClaim, OfferClaim,
       DeclineOffer, AcceptOffer, TakeOrphaned, MoveFails
  <2> QED
    BY <1>2, <2>1
<1> QED
  BY <1>3, <1>4, <1>5, <1>6, <1>7 DEF Next

(* Whoever releases a key, or is swept, dead, renewed or retired, and however
   many lanes queue for keys that overlap: no lane that could have the key is
   left waiting for it. *)
THEOREM KeysAreHandedOn == Spec => ReleasedKeysAreHandedOn
<1>1. ExclusionInv /\ [Next]_vars => [NoKeyStranded]_vars
  BY NoKeyStrandedStep
<1> QED
  BY <1>1, ExclusionAlways, PTL DEF Spec, ReleasedKeysAreHandedOn

-----------------------------------------------------------------------------
(* A later request does not overtake an earlier one.                       *)

(* The later request is granted, the earlier one stays, and nothing but the
   later one's lease stands in its way. *)
Overtaken(i, j) ==
    /\ i < j
    /\ queue[i].lane \in credentialed
    /\ Reaches(queue[i])
    /\ LeaseOf(queue[j]) \in leases' \ leases
    /\ ~Queued(queue[j], queue')
    /\ Queued(queue[i], queue')
    /\ ~Satisfied(queue[i], leases')
    /\ \A y \in leases \cup leases' :
          ~(/\ y # LeaseOf(queue[j])
            /\ StillHolds(y, leases')
            /\ BlocksAfter(y, queue[i]))

LEMMA ReleaseOvertakes ==
  ASSUME QueueInv, NEW t \in Tables, t.queue = queue, NEW lane, NEW rows,
         NEW fold \in {FALSE, Folds}, \A x \in rows : x.lane = lane,
         NEW u, u = ReleaseRows(t, lane, rows, fold), Retained(u.leases),
         \A x \in leases : x \in rows \/ StillHolds(x, t.leases \ rows),
         \A y \in t.leases \ rows :
            y \in leases \/ (y.lane = lane /\ queue' = u.queue),
         NEW i \in 1..Len(queue), NEW j \in 1..Len(queue),
         Queued(queue[i], queue') /\ ~Satisfied(queue[i], leases')
            => Queued(queue[i], u.queue)
  PROVE  ~Overtaken(i, j)
<1> SUFFICES ASSUME Overtaken(i, j) PROVE FALSE
  OBVIOUS
<1> DEFINE base == [t EXCEPT !.leases = t.leases \ rows]
           released == KeysOf(rows)
           r == queue[i]
           later == queue[j]
<1>1. /\ fold \in BOOLEAN /\ queue \in Seq(Request) /\ Distinct(queue)
      /\ r \in Request /\ later \in Request /\ i # j
  <2>1. fold \in BOOLEAN
    BY ConstantsAssumption
  <2>2. queue \in Seq(Request) /\ Distinct(queue)
    BY DEF QueueInv, TypeOK
  <2>3. r \in Request /\ later \in Request
    BY <2>2
  <2>4. i < j
    BY DEF Overtaken
  <2>5. Len(queue) \in Nat
    BY <2>2
  <2>6. i # j
    BY <2>4, <2>5
  <2> QED
    BY <2>1, <2>2, <2>3, <2>6
<1>2. /\ u \in Handed(base, lane, released, fold, Len(base.queue))
      /\ base.leases = t.leases \ rows /\ base.queue = queue
  BY <1>1, ReleaseHands
<1> HIDE DEF base
<1>3. Considered(r, lane, released, fold)
  <2>1. PICK x \in leases : /\ ~StillHolds(x, leases')
                            /\ r.lane # x.lane
                            /\ Overlapping(r.key, x.key, FALSE)
    BY DEF Overtaken, Reaches
  <2>2. ASSUME StillHolds(x, t.leases \ rows) PROVE FALSE
    <3>1. PICK y \in base.leases : y.lane = x.lane /\ y.key = x.key
      BY <1>2, <2>2 DEF StillHolds
    <3>2. Upheld(y, u.leases)
      BY <1>2, <3>1 DEF Handed
    <3>3. StillHolds(y, leases')
      BY <3>2, RetainedHolds
    <3> QED
      BY <2>1, <3>1, <3>3 DEF StillHolds
  <2>3. x \in rows
    BY <2>2
  <2>4. x.lane = lane /\ x.key \in released
    BY <2>3 DEF KeysOf
  <2>5. Overlapping(r.key, x.key, fold)
    BY <1>1, <2>1, FoldingOverlaps
  <2> QED
    BY <2>1, <2>4, <2>5 DEF Considered, Overtaken
<1>4. PICK m \in 1..Len(u.queue) : u.queue[m] = r
  BY DEF Overtaken, Queued
<1>5. PICK k \in 1..Len(queue) :
        /\ u.queue[m] = queue[k]
        /\ Considered(queue[k], lane, released, fold)
              => StaysBehind(base, k, fold, u.leases)
  BY <1>2, <1>4 DEF Handed
<1>6. k = i
  BY <1>1, <1>4, <1>5 DEF Distinct
<1>7. PICK x \in Recorded(base, i) :
         Blocks(x, r.lane, r.key, r.excl, fold) /\ Upheld(x, u.leases)
  BY <1>2, <1>3, <1>5, <1>6 DEF StaysBehind
(* Nothing recorded before the turn of the earlier request is a lease of
   the later one. *)
<1>8. ASSUME x \notin leases
      PROVE  ~(x.lane = later.lane /\ x.key = later.key)
  <2>1. CASE x \in base.leases
    <3>1. x.lane = lane /\ queue' = u.queue
      BY <1>2, <1>8, <2>1
    <3> SUFFICES ASSUME later.lane = lane PROVE FALSE
      BY <3>1
    <3>2. ~Considered(later, lane, released, fold)
      BY DEF Considered
    <3>3. Queued(later, u.queue)
      BY <1>2, <3>2 DEF Handed
    <3> QED
      BY <3>1, <3>3 DEF Overtaken
  <2>2. ASSUME NEW p \in 1..(i - 1), x = LeaseOf(queue[p])
        PROVE  ~(x.lane = later.lane /\ x.key = later.key)
    <3>1. p \in 1..Len(queue) /\ p # j
      BY <1>1 DEF Overtaken
    <3>2. x.lane = queue[p].lane /\ x.key = queue[p].key
      BY <2>2 DEF LeaseOf
    <3> QED
      BY <1>1, <3>1, <3>2 DEF Distinct
  <2> QED
    BY <1>2, <1>7, <2>1, <2>2 DEF Recorded
<1>9. PICK y \in u.leases : /\ Blocks(y, r.lane, r.key, r.excl, fold)
                            /\ y.lane = x.lane /\ y.key = x.key
  BY <1>7, UpheldBlocks
<1>10. PICK z \in leases' : /\ BlocksAfter(z, r)
                            /\ z.lane = y.lane /\ z.key = y.key
  BY <1>9, RetainedBlocks
<1>11. StillHolds(z, leases') /\ StillHolds(x, leases')
  BY <1>9, <1>10 DEF StillHolds
<1>12. z = LeaseOf(later)
  BY <1>10, <1>11 DEF Overtaken
<1>13. z.lane = later.lane /\ z.key = later.key
  BY <1>12 DEF LeaseOf
<1>14. x \in leases
  BY <1>8, <1>9, <1>10, <1>13
<1>15. x # LeaseOf(later)
  BY <1>14 DEF Overtaken
<1>16. BlocksAfter(x, r)
  <2>1. Overlapping(r.key, x.key, Folds)
    <3>1. Folds \in BOOLEAN
      BY ConstantsAssumption
    <3> QED
      BY <1>7, <3>1, FoldingOverlaps DEF Blocks
  <2> QED
    BY <1>7, <2>1 DEF BlocksAfter, Blocks
<1> QED
  BY <1>11, <1>14, <1>15, <1>16 DEF Overtaken

(* The tables with the first i rows of the queue of t copied. *)
Copied(t, i) ==
    {s \in Tables : /\ s.leases = t.leases /\ Len(s.queue) = i
                    /\ \A m \in 1..i : s.queue[m] = t.queue[m]}

(* A lane that releases nothing changes nothing. *)
LEMMA NothingReleased ==
  ASSUME NEW t \in Tables, NEW lane, NEW fold \in BOOLEAN
  PROVE  ReleaseRows(t, lane, {}, fold) = t
<1> DEFINE n == Len(t.queue)
           step == [i \in 1..n |->
                      [s \in Tables |->
                         ServeRequest(s, t.queue[i], lane, {}, fold)]]
           start == [t EXCEPT !.queue = << >>]
           Good == [i \in 0..n |-> Copied(t, i)]
<1>1. /\ n \in Nat /\ t.queue \in Seq(Request)
      /\ start \in Tables /\ start.leases = t.leases /\ start.queue = << >>
  <2>1. t.queue \in Seq(Request) /\ << >> \in Seq(Request)
    BY DEF Tables
  <2>2. n \in Nat
    BY <2>1
  <2>3. start \in Tables /\ start.leases = t.leases /\ start.queue = << >>
    BY <2>1 DEF Tables
  <2> QED
    BY <2>1, <2>2, <2>3
<1>2. start \in Good[0]
  <2> HIDE DEF start
  <2>1. start \in Copied(t, 0)
    BY <1>1 DEF Copied
  <2> QED
    BY <1>1, <2>1
<1>3. Leads(step, n, Good)
  <2> SUFFICES ASSUME NEW i \in 1..n, NEW s \in Good[i - 1]
               PROVE  step[i][s] \in Good[i]
    BY DEF Leads
  <2> DEFINE longer == [s EXCEPT !.queue = Append(s.queue, t.queue[i])]
  <2>1. i - 1 \in 0..n /\ i \in 0..n /\ 1..i = 1..(i - 1) \cup {i}
        /\ i - 1 + 1 = i /\ t.queue[i] \in Request
    BY <1>1
  <2>2. /\ s \in Tables /\ s.leases = t.leases /\ Len(s.queue) = i - 1
        /\ \A m \in 1..(i - 1) : s.queue[m] = t.queue[m]
        /\ s.queue \in Seq(Request)
    BY <2>1 DEF Copied, Tables
  <2>3. step[i][s] = longer
    BY <2>2 DEF ServeRequest
  <2>4. /\ longer \in Tables /\ longer.leases = s.leases
        /\ longer.queue = Append(s.queue, t.queue[i])
    <3>1. Append(s.queue, t.queue[i]) \in Seq(Request)
      BY <2>1, <2>2
    <3> QED
      BY <2>2, <3>1 DEF Tables
  <2>5. /\ Len(longer.queue) = i
        /\ \A m \in 1..(i - 1) : longer.queue[m] = s.queue[m]
        /\ longer.queue[i] = t.queue[i]
    BY <2>1, <2>2, <2>4
  <2> HIDE DEF longer
  <2>6. longer \in Copied(t, i)
    BY <2>1, <2>2, <2>4, <2>5 DEF Copied
  <2> QED
    BY <2>1, <2>3, <2>6
<1>4. Good[n] = Copied(t, n)
  BY <1>1
<1> HIDE DEF step, start, Good
<1>5. Iterate(step, start, n) \in Copied(t, n)
  BY <1>1, <1>2, <1>3, <1>4, IterateLeads
<1> DEFINE u == ReleaseRows(t, lane, {}, fold)
<1>6. u = GrantQueued(t, lane, {}, fold)
  <2>1. KeysOf({}) = {}
    BY DEF KeysOf
  <2>2. t.leases \ {} = t.leases
    OBVIOUS
  <2>3. [t EXCEPT !.leases = t.leases] = t
    BY DEF Tables
  <2> QED
    BY <2>1, <2>2, <2>3 DEF ReleaseRows
<1>7. u = Iterate(step, start, n)
  BY <1>6 DEF GrantQueued, step, start
<1> HIDE DEF u
<1>8. u \in Tables /\ u.leases = t.leases /\ u.queue \in Seq(Request)
      /\ Len(u.queue) = n /\ \A m \in 1..n : u.queue[m] = t.queue[m]
  BY <1>5, <1>7 DEF Copied, Tables
<1>9. u.queue = t.queue
  BY <1>1, <1>8, SeqEqual
<1>10. u = t
  BY <1>8, <1>9 DEF Tables
<1> QED
  BY <1>10 DEF u

(* A sweep that finds the leases of one lane expired is its release. *)
LEMMA SweepOfOne ==
  ASSUME TypeOK, NEW quiet, NEW h \in Lane,
         \A x \in ExpiredLeases(quiet) : x.lane = h
  PROVE  Reclaim(quiet)
            = ReleaseRows(tables, h, ExpiredLeases(quiet), FALSE)
<1> DEFINE expired == ExpiredLeases(quiet)
           u == ReleaseRows(tables, h, expired, FALSE)
           step == [i \in Lane |->
                      [s \in Tables |->
                         ReleaseRows(s, i, HeldBy(i, expired), FALSE)]]
           Good == [i \in 0..N |-> IF i < h THEN {tables} ELSE {u}]
<1>1. N \in Nat /\ tables \in Tables /\ h \in 1..N
  BY ConstantsAssumption DEF tables, Tables, TypeOK, Lane
<1>2. u \in Tables
  BY <1>1, ReleaseHands DEF Handed
<1>3. \A i \in Lane : HeldBy(i, expired) = IF i = h THEN expired ELSE {}
  BY DEF HeldBy
<1> HIDE DEF expired, u
<1>4. tables \in Good[0]
  BY <1>1
<1>5. Leads(step, N, Good)
  <2> SUFFICES ASSUME NEW i \in 1..N, NEW s \in Good[i - 1]
               PROVE  step[i][s] \in Good[i]
    BY DEF Leads
  <2>1. i \in Lane /\ i \in 0..N /\ i - 1 \in 0..N
    BY <1>1 DEF Lane
  <2>2. s \in Tables /\ step[i][s] = ReleaseRows(s, i, HeldBy(i, expired), FALSE)
    BY <1>1, <1>2, <2>1
  <2>3. CASE i < h
    <3>1. s = tables /\ HeldBy(i, expired) = {} /\ Good[i] = {tables}
      BY <1>1, <1>3, <2>1, <2>3
    <3> QED
      BY <2>2, <3>1, NothingReleased
  <2>4. CASE i = h
    <3>1. s = tables /\ HeldBy(i, expired) = expired /\ Good[i] = {u}
      BY <1>1, <1>3, <2>1, <2>4
    <3> QED
      BY <2>2, <2>4, <3>1 DEF u
  <2>5. CASE i > h
    <3>1. s = u /\ HeldBy(i, expired) = {} /\ Good[i] = {u}
      BY <1>1, <1>3, <2>1, <2>5
    <3> QED
      BY <2>2, <3>1, NothingReleased
  <2>6. i < h \/ i = h \/ i > h
    BY <1>1
  <2> QED
    BY <2>3, <2>4, <2>5, <2>6, Zenon
<1>6. Good[N] = {u}
  BY <1>1
<1> HIDE DEF step, Good
<1>7. Iterate(step, tables, N) \in Good[N]
  BY <1>1, <1>4, <1>5, IterateLeads
<1> QED
  BY <1>6, <1>7 DEF Reclaim, step, u, expired

LEMMA NothingOvertaken ==
  ASSUME leases' = leases, NEW i, NEW j PROVE ~Overtaken(i, j)
BY DEF Overtaken, Reaches, StillHolds

(* A release of everything a lane holds, whatever of the queue it commits. *)
LEMMA ReleaseLetsNobodyPass ==
  ASSUME QueueInv, NEW l, NEW fold \in {FALSE, Folds},
         NEW rows \in SUBSET leases, \A x \in rows : x.lane = l,
         NEW u, u = ReleaseRows(tables, l, rows, fold), Retained(u.leases),
         NEW i \in 1..Len(queue), NEW j \in 1..Len(queue),
         \/ Queued(queue[i], queue') => Queued(queue[i], u.queue)
         \/ leases' = u.leases
  PROVE  ~Overtaken(i, j)
<1>1. /\ tables \in Tables /\ tables.queue = queue /\ tables.leases = leases
      /\ fold \in BOOLEAN
  BY ConstantsAssumption DEF tables, Tables, QueueInv, TypeOK
<1>2. \A x \in leases : x \in rows \/ StillHolds(x, tables.leases \ rows)
  BY <1>1 DEF StillHolds
<1>3. Queued(queue[i], u.queue) \/ Satisfied(queue[i], u.leases)
  <2> DEFINE base == [tables EXCEPT !.leases = tables.leases \ rows]
  <2>1. /\ u \in Handed(base, l, KeysOf(rows), fold, Len(base.queue))
        /\ base.queue = queue
    BY <1>1, ReleaseHands
  <2> HIDE DEF base
  <2> QED
    BY <2>1 DEF Handed
<1>4. Queued(queue[i], queue') /\ ~Satisfied(queue[i], leases')
         => Queued(queue[i], u.queue)
  BY <1>3
<1> QED
  BY <1>1, <1>2, <1>4, ReleaseOvertakes

(* The sweep of one lane's leases is a release. *)
LEMMA SweepLetsNobodyPass ==
  ASSUME ExclusionInv, QueueInv, ~SweepsSeveral, NEW quiet,
         NEW u, u = Reclaim(quiet), Retained(u.leases),
         \A x \in ExpiredLeases(quiet) : x \notin leases',
         NEW i \in 1..Len(queue), NEW j \in 1..Len(queue),
         \/ Queued(queue[i], queue') => Queued(queue[i], u.queue)
         \/ leases' = u.leases
  PROVE  ~Overtaken(i, j)
<1> SUFFICES ASSUME Overtaken(i, j) PROVE FALSE
  OBVIOUS
<1>1. PICK x \in leases : ~StillHolds(x, leases')
  BY DEF Overtaken, Reaches
<1>2. x \in ExpiredLeases(quiet)
  <2>1. \A y \in leases \ ExpiredLeases(quiet) : Upheld(y, u.leases)
    BY SweepLeaves
  <2> QED
    BY <1>1, <2>1, RetainedHolds
<1>3. \A y \in ExpiredLeases(quiet) :
         y \in leases \ leases' /\ y.age \in {"expired", "lapsed"}
  BY DEF ExpiredLeases
<1>4. \A y \in ExpiredLeases(quiet) : y.lane = x.lane
  BY <1>2, <1>3 DEF SweepsSeveral
<1>5. TypeOK /\ x.lane \in Lane
  BY DEF QueueInv, TypeOK, Lease
<1>6. u = ReleaseRows(tables, x.lane, ExpiredLeases(quiet), FALSE)
  BY <1>4, <1>5, SweepOfOne
<1>7. ExpiredLeases(quiet) \in SUBSET leases
  BY <1>3
<1> QED
  BY <1>4, <1>6, <1>7, ReleaseLetsNobodyPass

LEMMA TakeLetsNobodyPass ==
  ASSUME ExclusionInv, QueueInv, ~SweepsSeveral, NEW quiet, NEW l, Calling(l),
         NEW keys, NEW excl, NEW timed,
         TakeBatch(Reclaim(quiet), l, keys, excl, timed),
         NEW i \in 1..Len(queue), NEW j \in 1..Len(queue)
  PROVE  ~Overtaken(i, j)
<1> DEFINE t == Reclaim(quiet)
           new == Batch(l, keys, excl, timed, inflight[l])
           rows == Supersede(t.leases, new)
<1>1. t \in Tables /\ \A x \in ExpiredLeases(quiet) : x \notin t.leases
  BY SweepLeaves
<1>2. CASE WithinBudget(t, l, keys)
  <2>1. leases' = rows /\ queue' = t.queue
    BY <1>1, <1>2 DEF TakeBatch, Commit, Tables
  <2>2. Retained(t.leases)
    BY <2>1, BatchRetains
  <2>3. \A x \in new : x.age \notin {"expired", "lapsed"}
    BY DEF Batch, LeaseOf
  <2>4. \A x \in ExpiredLeases(quiet) : x.age \in {"expired", "lapsed"}
    BY DEF ExpiredLeases
  <2>5. rows \subseteq t.leases \cup new
    BY DEF Supersede
  <2> HIDE DEF t, new, rows
  <2>6. \A x \in ExpiredLeases(quiet) : x \notin leases'
    BY <1>1, <2>1, <2>3, <2>4, <2>5
  <2> QED
    BY <2>1, <2>2, <2>6, SweepLetsNobodyPass DEF t
<1>3. CASE ~WithinBudget(t, l, keys)
  <2>1. leases' = leases
    BY <1>3 DEF TakeBatch, Commit, tables
  <2> QED
    BY <2>1, NothingOvertaken
<1> QED
  BY <1>2, <1>3

(* The sweep commits its leases, and any queue. *)
LEMMA SweptLetsNobodyPass ==
  ASSUME ExclusionInv, QueueInv, ~SweepsSeveral, NEW quiet,
         leases' = Reclaim(quiet).leases,
         NEW i \in 1..Len(queue), NEW j \in 1..Len(queue)
  PROVE  ~Overtaken(i, j)
<1>1. \A x \in ExpiredLeases(quiet) : x \notin leases'
  BY SweepLeaves
<1> QED
  BY <1>1, KeptIsRetained, SweepLetsNobodyPass

LEMMA RequestLetsNobodyPass ==
  ASSUME ExclusionInv, QueueInv, ~SweepsSeveral,
         NEW l \in Lane, RequestReservation(l),
         NEW i \in 1..Len(queue), NEW j \in 1..Len(queue)
  PROVE  ~Overtaken(i, j)
<1>1. PICK keys \in (SUBSET Key) \ {{}}, excl \in BOOLEAN, timed \in Timings,
           quiet \in SUBSET Late :
         LET t == Reclaim(quiet)
             blocked == Conflicts(t, l, keys, excl)
             waiting == QueuedKeys(t, l)
         IN  \/ /\ blocked = {}
                /\ TakeBatch(t, l, keys, excl, timed)
             \/ /\ blocked # {}
                /\ Cardinality(waiting \cup blocked) <= MaxRequests
                /\ \E order \in Orders(blocked \ waiting) :
                      Commit(Enqueue(t, l, order, excl, timed, inflight[l]))
             \/ /\ blocked # {}
                /\ Cardinality(waiting \cup blocked) > MaxRequests
                /\ Commit(tables)
  BY DEF RequestReservation
<1> DEFINE t == Reclaim(quiet)
<1>2. Calling(l)
  BY CallEnds DEF ExclusionInv, RequestReservation, Serving
<1>3. CASE TakeBatch(t, l, keys, excl, timed)
  BY <1>2, <1>3, TakeLetsNobodyPass
<1>4. CASE Commit(tables)
  BY <1>4, NothingOvertaken DEF Commit, tables
<1>5. ASSUME NEW order,
             Commit(Enqueue(t, l, order, excl, timed, inflight[l]))
      PROVE  ~Overtaken(i, j)
  <2>1. t \in Tables
    BY SweepLeaves
  <2> HIDE DEF t
  <2>2. Enqueue(t, l, order, excl, timed, inflight[l]).leases = t.leases
    BY <2>1 DEF Enqueue, Tables
  <2>3. leases' = t.leases
    BY <1>5, <2>2 DEF Commit
  <2> QED
    BY <2>3, SweptLetsNobodyPass DEF t
<1> QED
  BY <1>1, <1>3, <1>4, <1>5 DEF t

LEMMA NobodyOvertakenStep ==
  ASSUME ExclusionInv, QueueInv, Next PROVE NobodyOvertaken
<1> SUFFICES ASSUME ~Handoff, ~SweepsSeveral,
                    NEW i \in 1..Len(queue), NEW j \in 1..Len(queue)
             PROVE  ~Overtaken(i, j)
  BY DEF NobodyOvertaken, Overtaken, BlocksAfter
<1>1. TypeOK /\ tables.queue = queue /\ tables.leases = leases
  BY DEF QueueInv, tables
<1>2. ASSUME leases' = leases PROVE ~Overtaken(i, j)
  BY <1>2, NothingOvertaken
<1>3. ASSUME NEW l, NEW fold \in {FALSE, Folds},
             leases' = ReleaseRows(tables, l, HeldBy(l, leases), fold).leases
      PROVE  ~Overtaken(i, j)
  <2>1. HeldBy(l, leases) \in SUBSET leases
        /\ \A x \in HeldBy(l, leases) : x.lane = l
    BY DEF HeldBy
  <2> QED
    BY <1>3, <2>1, KeptIsRetained, ReleaseLetsNobodyPass
<1>4. ASSUME NEW l \in Lane, ToolCall(l) PROVE ~Overtaken(i, j)
  <2>1. CASE Authenticate(l) \/ CancelRequest(l)
    BY <1>2, <2>1 DEF Authenticate, CancelRequest
  <2>2. CASE Reserve(l)
    <3>1. PICK keys \in (SUBSET Key) \ {{}}, excl \in BOOLEAN,
               timed \in Timings, quiet \in SUBSET Late :
             LET t == Reclaim(quiet)
             IN  IF Conflicts(t, l, keys, excl) = {}
                 THEN TakeBatch(t, l, keys, excl, timed)
                 ELSE Commit(t)
      BY <2>2 DEF Reserve
    <3>2. Calling(l)
      BY <1>1, <2>2, CallEnds DEF Reserve, Serving
    <3>3. CASE TakeBatch(Reclaim(quiet), l, keys, excl, timed)
      BY <3>2, <3>3, TakeLetsNobodyPass
    <3>4. CASE Commit(Reclaim(quiet))
      BY <3>4, SweptLetsNobodyPass DEF Commit
    <3> QED
      BY <3>1, <3>3, <3>4
  <2>3. CASE RequestReservation(l)
    BY <2>3, RequestLetsNobodyPass
  <2>4. CASE Release(l)
    BY <1>3, <2>4 DEF Release, Commit
  <2>5. CASE Retire(l)
    BY <1>3, <2>5 DEF Retire
  <2> QED
    BY <1>4, <2>1, <2>2, <2>3, <2>4, <2>5 DEF ToolCall
<1>5. ASSUME NEW l \in Lane, Renew(l) PROVE ~Overtaken(i, j)
  <2>1. PICK t \in Tables, dropped \in SUBSET Lease :
            /\ \A y \in dropped : y.lane = l
            /\ \A x \in leases : \/ x \in dropped
                                 \/ StillHolds(x, t.leases \ dropped)
            /\ \A y \in t.leases : y \in leases \/ y.lane = l
            /\ t.queue = queue
            /\ leases' = ReleaseRows(t, l, dropped, FALSE).leases
            /\ queue' = ReleaseRows(t, l, dropped, FALSE).queue
    BY <1>1, <1>5, RenewReleases
  <2> DEFINE u == ReleaseRows(t, l, dropped, FALSE)
  <2>2. Retained(u.leases)
    BY <2>1, KeptIsRetained
  <2>3. \A y \in t.leases \ dropped :
           y \in leases \/ (y.lane = l /\ queue' = u.queue)
    BY <2>1
  <2>4. Queued(queue[i], queue') => Queued(queue[i], u.queue)
    BY <2>1
  <2> QED
    BY <2>1, <2>2, <2>3, <2>4, ReleaseOvertakes
<1>6. ASSUME NEW l \in Lane, Runtime(l) PROVE ~Overtaken(i, j)
  <2>1. CASE ReleaseDeadHolder(l)
    BY <1>3, <2>1 DEF ReleaseDeadHolder, Commit
  <2>2. CASE Revoke(l) \/ Register(l) \/ ReadOwned(l)
    BY <1>2, <2>2 DEF Revoke, Register, ReadOwned
  <2> QED
    BY <1>5, <1>6, <2>1, <2>2 DEF Runtime
<1>7. CASE ReclaimExpired
  BY <1>7, SweptLetsNobodyPass DEF ReclaimExpired, Commit
<1>8. CASE Elapse
  <2>1. PICK y \in leases :
          leases' = (leases \ {y}) \cup
             {[y EXCEPT !.age = IF y.age = "running" THEN "expired"
                                                     ELSE "lapsed"]}
    BY <1>8 DEF Elapse
  <2> DEFINE z == [y EXCEPT !.age = IF y.age = "running" THEN "expired"
                                                         ELSE "lapsed"]
  <2>2. z.lane = y.lane /\ z.key = y.key /\ z \in leases'
    BY <1>1, <2>1 DEF Lease, TypeOK
  <2>3. \A x \in leases : StillHolds(x, leases')
    BY <2>1, <2>2 DEF StillHolds
  <2> QED
    BY <2>3 DEF Overtaken, Reaches
<1>9. CASE Ownership
  <2>1. leases' = leases
    BY <1>9 DEF Handoff, Ownership, ClaimIssue, EndClaim, OfferClaim,
       DeclineOffer, AcceptOffer, TakeOrphaned, MoveFails
  <2> QED
    BY <1>2, <2>1
<1> QED
  BY <1>4, <1>6, <1>7, <1>8, <1>9 DEF Next

(* However many requests wait, whatever overlaps and whoever releases, is
   swept, renewed or retired: a lane that is passed over for a later request
   waits behind another lease than the one the later request got. *)
THEOREM EarlierRequestsFirst == Spec => EarlierRequestsGoFirst
<1>1. ExclusionInv /\ QueueInv /\ [Next]_vars => [NobodyOvertaken]_vars
  BY NobodyOvertakenStep
<1> QED
  BY <1>1, ExclusionAlways, QueueAlways, PTL DEF Spec, EarlierRequestsGoFirst
===============================================================================
