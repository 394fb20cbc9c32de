------------------------------- MODULE Notices ------------------------------
(***************************************************************************)
(* What reaches people and clients outside a session: the delivery of mail *)
(* to transports, digests of decisions, and updates that come in.          *)
(* The parts share no state: each has its own Init and Next.               *)
(***************************************************************************)
EXTENDS Integers, Sequences, FiniteSets, FiniteSetsExt, SequencesExt, Iteration

(***************************************************************************)
(* Polled delivery to one lane whose CLI raises no hook: a thread of the   *)
(* launcher composes what is undelivered from readings it took without the *)
(* lane's lock, and publishes it as a batch under the lock only if nothing *)
(* it was composed from has changed.  The thread of a session that ends    *)
(* may outlive it, so that two threads deliver to one lane.  Mail arrives  *)
(* in the order of its identifiers; notices other than mail are one        *)
(* revision number that moves.                                             *)
(***************************************************************************)

CONSTANTS
    Poller,         \* delivery threads
    MaxArrivals,    \* model bound: messages that arrive
    MaxNotices,     \* model bound: changes of what a notice reports
    MaxBatches      \* MAX_BATCHES: batches the file keeps

VARIABLES
    arrived,        \* messages in the mailbox: 1..arrived
    readMail,       \* those the lane has read, or that were superseded
    notices,        \* the revision of the readings notices are built from
    calls,          \* writing calls of the lane, which settle mail-less batches
    state,          \* the lane's recorded state: cursor, notices, batches
    file,           \* the batches in the published file
    reading,        \* what each thread composed from
    dropped         \* messages in batches that MAX_BATCHES pushed out

deliveryVars ==
    <<arrived, readMail, notices, calls, state, file, reading, dropped>>

Mail == 1..MaxArrivals
Batch == [ids : SUBSET Mail, written : 0..MaxNotices]
Idle == [phase |-> "idle"]

TypeOK ==
    /\ arrived \in 0..MaxArrivals /\ readMail \subseteq 1..arrived
    /\ state.cursor \in 0..MaxArrivals /\ state.notices \in 0..MaxNotices
    /\ state.batches \in Seq(Batch) /\ Len(state.batches) <= MaxBatches
    /\ file \in Seq(Batch)

Init ==
    /\ arrived = 0 /\ readMail = {} /\ notices = 0 /\ calls = 0
    /\ state = [cursor |-> 0, notices |-> 0, batches |-> <<>>]
    /\ file = <<>>
    /\ reading = [p \in Poller |-> Idle]
    /\ dropped = {}

(* _unread and _active: a batch stays while it names unread mail, and one
   without mail until the lane's next writing call; when there is nothing
   to add the newest mail-less batch stays too. *)
Kept(batches, text) ==
    LET Stays(b) ==
            \/ b.ids \ readMail # {}
            \/ b.ids = {} /\ b.written >= calls
            \/ b.ids = {} /\ ~text /\ b = batches[Len(batches)]
    IN  Without(batches, {b \in Batch : ~Stays(b)}, Batch)

(* mailbox: the live unread mail after the cursor. *)
Mailbox == {i \in (state.cursor + 1)..arrived : i \notin readMail}

(* digest: the previews that fit are a prefix of the mail. *)
Digests == {s \in SUBSET Mailbox : \A i \in s, j \in Mailbox \ s : i < j}

(* deliver, up to the lock: the recorded state, the mailbox, the notices. *)
Compose(p) ==
    /\ reading[p] = Idle
    /\ \E lines \in Digests :
          LET text == notices # state.notices \/ lines # {} IN
          /\ Mailbox # {} => text
          /\ reading' = [reading EXCEPT ![p] =
                [phase |-> IF text THEN "compose" ELSE "trim",
                 read |-> state, ids |-> lines, notices |-> notices,
                 kept |-> Kept(state.batches, text)]]
    /\ UNCHANGED <<arrived, readMail, notices, calls, state, file, dropped>>

(* Nothing to say: settled batches leave the file, if the batches are still
   those that were read. *)
Trim(p) ==
    /\ reading[p].phase = "trim"
    /\ reading' = [reading EXCEPT ![p] = Idle]
    /\ IF state.batches = reading[p].read.batches
       THEN /\ state' = [state EXCEPT !.batches = reading[p].kept]
            /\ file' \in {reading[p].kept, file}
       ELSE UNCHANGED <<state, file>>
    /\ UNCHANGED <<arrived, readMail, notices, calls, dropped>>

Named(batches) == UNION {b.ids : b \in ToSet(batches)}

(* COMPOSED_FROM: nothing the batch was composed from has changed. *)
Current(r) == state = r.read

(* The cursor passes exactly the mail the batch names. *)
CursorAfter(r) == IF r.ids = {} THEN state.cursor ELSE Max(r.ids)

(* The batch is published under the lock, if it is current.  A file that
   cannot be written goes to the terminal instead. *)
Publish(p) ==
    LET r == reading[p]
        all == Append(r.kept, [ids |-> r.ids, written |-> calls])
        kept == IF Len(all) > MaxBatches THEN Tail(all) ELSE all
    IN
    /\ r.phase = "compose"
    /\ reading' = [reading EXCEPT ![p] = Idle]
    /\ IF Current(r)
       THEN /\ state' = [cursor |-> CursorAfter(r), notices |-> r.notices,
                         batches |-> kept]
            /\ file' \in {kept, file}
            /\ dropped' = dropped \cup (Named(all) \ Named(kept))
       ELSE UNCHANGED <<state, file, dropped>>
    /\ UNCHANGED <<arrived, readMail, notices, calls>>

(* Mail arrives, a notice's reading moves, the lane reads mail (a call that
   writes) or another call of it writes. *)
Arrive ==
    /\ arrived < MaxArrivals
    /\ arrived' = arrived + 1
    /\ UNCHANGED <<readMail, notices, calls, state, file, reading, dropped>>

Notice ==
    /\ notices < MaxNotices
    /\ notices' = notices + 1
    /\ UNCHANGED <<arrived, readMail, calls, state, file, reading, dropped>>

ReadOne(i) ==
    /\ i \notin readMail /\ i <= arrived
    /\ readMail' = readMail \cup {i}
    /\ UNCHANGED <<arrived, notices, calls, state, file, reading, dropped>>

Write ==
    /\ calls < MaxNotices
    /\ calls' = calls + 1
    /\ UNCHANGED <<arrived, readMail, notices, state, file, reading, dropped>>

Deliver(p) == Compose(p) \/ Trim(p) \/ Publish(p)

Next ==
    \/ \E p \in Poller : Deliver(p)
    \/ \E i \in Mail : ReadOne(i)
    \/ Arrive \/ Notice \/ Write

Spec == Init /\ [][Next]_deliveryVars
(* _serve delivers again and again for the life of the session. *)
FairSpec == Spec /\ \A p \in Poller : WF_deliveryVars(Deliver(p))

-----------------------------------------------------------------------------
(* Mail the cursor has passed is in a batch until it is read, or until
   MAX_BATCHES newer ones came: two threads and a lane that reads in between
   lose none of it. *)
PassedMailIsInABatch ==
    \A i \in 1..state.cursor :
        i \in Named(state.batches) \cup readMail \cup dropped

(* No message is announced in two batches: the first thread to publish
   invalidates what the other composed. *)
MailIsAnnouncedOnce ==
    \A j, k \in DOMAIN state.batches :
        j # k => state.batches[j].ids \cap state.batches[k].ids = {}

ArrivedMailIsAnnouncedState ==
    \A i \in Mail : i <= arrived /\ i \notin readMail => i <= state.cursor

(* Mail that stays unread is announced. *)
ArrivedMailIsAnnounced == []<>ArrivedMailIsAnnouncedState

(* The batches that are left of others, when those that go name read mail. *)
LeftOf(kept, batches) ==
    /\ kept \in Seq(Batch) /\ Len(kept) <= Len(batches)
    /\ \A m \in DOMAIN kept : \E k \in DOMAIN batches : kept[m] = batches[k]
    /\ \A m, n \in DOMAIN kept : m # n =>
          \E j, k \in DOMAIN batches :
             j # k /\ kept[m] = batches[j] /\ kept[n] = batches[k]
    /\ \A k \in DOMAIN batches :
          batches[k].ids \subseteq readMail \/ \E m \in DOMAIN kept : kept[m] = batches[k]

(* What a thread composed announces the next of the mail that was not read. *)
ComposedFrom(r) ==
    /\ r.phase \in {"compose", "trim"}
    /\ r.notices \in 0..MaxNotices
    /\ LeftOf(r.kept, r.read.batches)
    /\ r.ids \subseteq (r.read.cursor + 1)..arrived
    /\ \A i \in r.ids : (r.read.cursor + 1)..i \subseteq r.ids \cup readMail

(* Batches name mail the cursor has passed, each message once, and what the
   threads composed fits the state they read. *)
DeliveryInv ==
    /\ TypeOK /\ PassedMailIsInABatch /\ MailIsAnnouncedOnce
    /\ notices \in 0..MaxNotices /\ calls \in 0..MaxNotices
    /\ state = [cursor |-> state.cursor, notices |-> state.notices,
                batches |-> state.batches]
    /\ state.cursor <= arrived
    /\ \A k \in DOMAIN state.batches : state.batches[k].ids \subseteq 1..state.cursor
    /\ DOMAIN reading = Poller
    /\ \A p \in Poller : reading[p] = Idle \/ ComposedFrom(reading[p])

-----------------------------------------------------------------------------
(***************************************************************************)
(* How the operator gets to see a decision: digests that two senders, the  *)
(* supervisor's poll and the thread notify starts for a new situation,     *)
(* carry to every configured transport.  Decisions says what answers do;   *)
(* here a decision opens, is refreshed, ends and opens again as a new      *)
(* occurrence.  Sends happen outside decisions.lock, between a lease and   *)
(* the record of its outcome.                                              *)
(***************************************************************************)

CONSTANTS
    Transport,      \* configured transports
    DeliveryTries,  \* MAX_ATTEMPTS
    MaxDecisions,   \* model bound: occurrences of the situation
    MaxLosses       \* model bound: services that stop during a send

VARIABLES
    entry,      \* the delivery fields of the record
    sender,     \* digests being sent: by the poll, by notify's thread
    shown,      \* transports over which the operator has this occurrence
    reached,    \* ghost: an earlier occurrence came over every transport
    twice,      \* ghost: a transport took an occurrence twice, no service lost
    noticed,    \* notify's mark: this situation was notified
    lost,       \* services stopped during a send
    mixed       \* ghost: a send's outcome went to a later occurrence

digestVars == <<entry, sender, shown, reached, twice, noticed, lost, mixed>>

Senders == {"poll", "notify"}
Resting == [of |-> 0, missing |-> {}, took |-> {}, at |-> "idle"]

Unsent(n) == [n |-> n, open |-> TRUE, sent |-> FALSE, delivered |-> {},
              attempts |-> 0, due |-> TRUE]

DigestsTypeOK ==
    /\ entry \in [n : 0..MaxDecisions, open : BOOLEAN, sent : BOOLEAN,
                  delivered : SUBSET Transport, attempts : 0..DeliveryTries,
                  due : BOOLEAN]
    /\ sender \in [Senders -> [of : 0..MaxDecisions, missing : SUBSET Transport,
                               took : SUBSET Transport,
                               at : {"idle", "sending", "sent"}]]
    /\ shown \subseteq Transport /\ reached \in BOOLEAN /\ twice \in BOOLEAN
    /\ noticed \in BOOLEAN /\ lost \in 0..MaxLosses /\ mixed \in BOOLEAN

DigestsInit ==
    /\ entry = [Unsent(0) EXCEPT !.open = FALSE]
    /\ sender = [s \in Senders |-> Resting]
    /\ shown = {} /\ reached = FALSE /\ twice = FALSE
    /\ noticed = FALSE /\ lost = 0 /\ mixed = FALSE

-----------------------------------------------------------------------------
(* open_or_refresh: a new occurrence starts undelivered. *)
OpenedEntry(r) == IF r.open THEN r ELSE Unsent(r.n + 1)

Shows(r) ==
    IF r.n = entry.n THEN UNCHANGED <<shown, reached>>
    ELSE shown' = {} /\ reached' = (reached \/ shown = Transport)

MayOpenEntry == entry.open \/ entry.n < MaxDecisions

(* problem_decisions and the stages of the supervisor open decisions without
   a notice. *)
OpenEntry ==
    /\ MayOpenEntry /\ entry' = OpenedEntry(entry) /\ Shows(entry')
    /\ UNCHANGED <<sender, twice, noticed, lost, mixed>>

(* Answered, closed, stale or expired. *)
EndEntry ==
    /\ entry.open /\ entry' = [entry EXCEPT !.open = FALSE]
    /\ UNCHANGED <<sender, shown, reached, twice, noticed, lost, mixed>>

(* _lease: an open, unsent decision whose delivery is due goes to one sender.
   LEASE_SECONDS outlast a send, so it is due again only when that sender is
   done with it, or was lost. *)
Due(r) == r.open /\ ~r.sent /\ r.due /\ r.attempts < DeliveryTries

Missing(r) == Transport \ r.delivered

Lease(s, r) ==
    /\ entry' = [r EXCEPT !.due = FALSE]
    /\ sender' = [sender EXCEPT
                    ![s] = [of |-> r.n, missing |-> Missing(r), took |-> {},
                            at |-> "sending"]]

(* flush_decisions, in every pass of the supervisor. *)
PollFlush ==
    /\ sender["poll"] = Resting /\ Due(entry)
    /\ Lease("poll", entry)
    /\ UNCHANGED <<shown, reached, twice, noticed, lost, mixed>>

(* deliver: a situation that was not notified is recorded as a decision, and
   a thread of its own flushes it, one thread per situation; where there is
   nothing for it to send it only looks whether the decision was sent. *)
DeliverDigest ==
    /\ ~noticed /\ sender["notify"] = Resting /\ MayOpenEntry
    /\ LET r == OpenedEntry(entry)
       IN  /\ Shows(r)
           /\ IF Due(r) THEN Lease("notify", r) /\ UNCHANGED noticed
              ELSE entry' = r /\ noticed' = r.sent /\ UNCHANGED sender
    /\ UNCHANGED <<twice, lost, mixed>>

(* send: each missing transport takes the digest or not, outside the lock. *)
Send(s) ==
    /\ sender[s].at = "sending"
    /\ \E took \in SUBSET sender[s].missing :
        /\ sender' = [sender EXCEPT ![s].took = took, ![s].at = "sent"]
        /\ IF sender[s].of = entry.n
             THEN /\ shown' = shown \cup took
                  /\ twice' = (twice \/ (lost = 0 /\ shown \cap took # {}))
             ELSE UNCHANGED <<shown, twice>>
    /\ UNCHANGED <<entry, reached, noticed, lost, mixed>>

(* flush: the outcome is recorded under the decision's identifier, whichever
   occurrence is there by now.  notify's thread marks its situation notified
   once the decision reads as sent. *)
Outcome(r, job) ==
    LET d == [r EXCEPT !.delivered = @ \cup job.took]
    IN  IF job.took = job.missing THEN [d EXCEPT !.sent = TRUE]
        ELSE IF r.attempts < DeliveryTries THEN [d EXCEPT !.attempts = @ + 1]
        ELSE d

Record(s) ==
    /\ sender[s].at = "sent"
    /\ entry' = Outcome(entry, sender[s])
    /\ sender' = [sender EXCEPT ![s] = Resting]
    /\ noticed' = (noticed \/ (s = "notify" /\ entry'.sent))
    /\ mixed' = (mixed \/ sender[s].of # entry.n)
    /\ UNCHANGED <<shown, reached, twice, lost>>

(* Another situation of the same event replaces the mark. *)
Elsewhere ==
    /\ noticed /\ noticed' = FALSE
    /\ UNCHANGED <<entry, sender, shown, reached, twice, lost, mixed>>

(* Time: the backoff, or the lease of a sender that is gone, is over. *)
RetryComes ==
    /\ ~entry.due /\ \A s \in Senders : sender[s] = Resting
    /\ entry' = [entry EXCEPT !.due = TRUE]
    /\ UNCHANGED <<sender, shown, reached, twice, noticed, lost, mixed>>

(* The service stops, and its threads with it. *)
Lose ==
    /\ lost < MaxLosses /\ lost' = lost + 1
    /\ sender' = [s \in Senders |-> Resting]
    /\ UNCHANGED <<entry, shown, reached, twice, noticed, mixed>>

-----------------------------------------------------------------------------
DigestsNext ==
    \/ OpenEntry \/ EndEntry \/ PollFlush \/ DeliverDigest
    \/ \E s \in Senders : Send(s) \/ Record(s)
    \/ Elsewhere \/ RetryComes \/ Lose

(* supervise flushes in every pass, a started send ends, and time passes. *)
DigestsSpec ==
    /\ DigestsInit /\ [][DigestsNext]_digestVars
    /\ WF_digestVars(PollFlush) /\ WF_digestVars(RetryComes)
    /\ \A s \in Senders : WF_digestVars(Send(s) \/ Record(s))

-----------------------------------------------------------------------------
(* A retry goes only to the transports that are missing: the operator gets an
   occurrence once per transport, but for a send the service did not live to
   record. *)
EachDigestOnce == ~twice

(* A decision that reads as sent was sent, this occurrence of it, on every
   transport, and a situation marked as notified was shown.  The exception
   is an occurrence that opened while an older one was being sent, whose
   outcome is recorded on it (decisions.py:863). *)
SentWasShown ==
    ~mixed => /\ entry.sent => shown = Transport
              /\ noticed => reached \/ shown = Transport

DigestsGoOutState ==
    ~(entry.open /\ ~entry.sent /\ entry.attempts < DeliveryTries)

(* An open decision is sent, or its delivery given up, or it ends. *)
DigestsGoOut == []<>DigestsGoOutState

Sends(s) == sender[s].at # "idle" /\ sender[s].of = entry.n

(* One sender at a time has the current occurrence, and it sends what is
   missing: what the record says was delivered, less what a lost service did
   not live to record. *)
DigestsInv ==
    /\ DigestsTypeOK /\ EachDigestOnce /\ SentWasShown
    /\ \A s \in Senders :
          /\ sender[s].of <= entry.n
          /\ sender[s].at = "idle" => sender[s] = Resting
          /\ Sends(s) => /\ ~entry.due
                         /\ \A t \in Senders : Sends(t) => t = s
                         /\ Transport \ sender[s].missing \subseteq entry.delivered
          /\ Sends(s) /\ sender[s].at = "sending" /\ lost = 0
                => sender[s].missing \cap shown = {}
          /\ Sends(s) /\ sender[s].at = "sent" => sender[s].took \subseteq shown
    /\ lost = 0 => \A t \in shown :
          t \in entry.delivered \/ \E s \in Senders : Sends(s) /\ t \in sender[s].took
    /\ ~mixed => entry.delivered \subseteq shown

-----------------------------------------------------------------------------
(***************************************************************************)
(* The reader of operator messages: a long poll that hands over updates,   *)
(* an offset kept in memory that confirms them, and the gate that asks for *)
(* the passcode and locks a sender after too many misses.  The gate is     *)
(* saved to a file, the offset is not, and the service may stop anywhere.  *)
(***************************************************************************)

CONSTANTS
    MissLimit,      \* FAILURE_LIMIT
    MaxUpdates,     \* model bound: updates that arrive
    MaxRestarts     \* model bound: restarts of the service

VARIABLES
    updates,    \* whether each update that arrived carries the passcode
    confirmed,  \* updates the transport will not hand over again
    offset,     \* the reader's memory of what to confirm
    batch,      \* updates handed over and not served
    passGate,       \* the gate in memory
    gateFile,   \* the gate on disk
    restarts,
    served,     \* how often each update was served
    misses,     \* ghost: misses compared since the window or a lock last ended
    faults      \* ghost: a save of the gate failed

inboundVars == <<updates, confirmed, offset, batch, passGate, gateFile, restarts, served,
                 misses, faults>>

NoMisses == [recent |-> 0, locked |-> FALSE]
Ids == 1..MaxUpdates

InboundTypeOK ==
    /\ updates \in Seq(BOOLEAN) /\ Len(updates) <= MaxUpdates
    /\ confirmed \in 0..MaxUpdates /\ offset \in 0..MaxUpdates
    /\ batch \in Seq(Ids)
    /\ {passGate, gateFile} \subseteq [recent : 0..MissLimit, locked : BOOLEAN]
    /\ restarts \in 0..MaxRestarts
    /\ served \in [Ids -> 0..(MaxRestarts + 1)]
    /\ misses \in 0..(MaxUpdates + MaxRestarts * MaxUpdates) /\ faults \in BOOLEAN

InboundInit ==
    /\ updates = <<>> /\ confirmed = 0 /\ offset = 0 /\ batch = <<>>
    /\ passGate = NoMisses /\ gateFile = NoMisses /\ restarts = 0
    /\ served = [i \in Ids |-> 0] /\ misses = 0 /\ faults = FALSE

-----------------------------------------------------------------------------
UpdateArrives ==
    /\ Len(updates) < MaxUpdates
    /\ \E right \in BOOLEAN : updates' = Append(updates, right)
    /\ UNCHANGED <<confirmed, offset, batch, passGate, gateFile, restarts, served,
                   misses, faults>>

(* updates: the request confirms what lies below the offset, and hands over
   every update from there.  A poll that fails does neither and is repeated. *)
Poll ==
    /\ batch = <<>> /\ offset < Len(updates)
    /\ confirmed' = offset
    /\ batch' = [i \in 1..(Len(updates) - offset) |-> offset + i]
    /\ UNCHANGED <<updates, offset, passGate, gateFile, restarts, served, misses, faults>>

(* Gate.admits: a locked sender is not compared at all; a match forgets the
   misses, a miss is counted, and the last one allowed locks. *)
AfterMiss(g) ==
    IF g.recent + 1 < MissLimit THEN [g EXCEPT !.recent = @ + 1]
    ELSE [recent |-> 0, locked |-> TRUE]

(* _save: best effort. *)
Save(g) ==
    \/ gateFile' = g /\ UNCHANGED faults
    \/ g # gateFile /\ faults' = TRUE /\ UNCHANGED gateFile

Admit(right) ==
    IF passGate.locked \/ (right /\ passGate.recent = 0)
    THEN UNCHANGED <<passGate, gateFile, misses, faults>>
    ELSE /\ passGate' = IF right THEN NoMisses ELSE AfterMiss(passGate)
         /\ misses' = IF right THEN 0 ELSE misses + 1
         /\ Save(passGate')

(* run: the offset moves before the update is served, and a failure of
   serve does not come back. *)
NextOffset(o, i) == IF o < i THEN i ELSE o

Serve ==
    /\ batch # <<>>
    /\ LET i == Head(batch)
       IN  /\ offset' = NextOffset(offset, i)
           /\ batch' = Tail(batch)
           /\ served' = [served EXCEPT ![i] = IF @ <= MaxRestarts THEN @ + 1 ELSE @]
           /\ Admit(updates[i])
    /\ UNCHANGED <<updates, confirmed, restarts>>

(* FAILURE_WINDOW passes for the misses, LOCK_SECONDS for the lock. *)
WindowPasses ==
    /\ misses > 0 \/ passGate.recent > 0
    /\ ~passGate.locked
    /\ passGate' = NoMisses /\ gateFile' = NoMisses /\ misses' = 0
    /\ UNCHANGED <<updates, confirmed, offset, batch, restarts, served, faults>>

LockEnds ==
    /\ passGate.locked
    /\ passGate' = NoMisses /\ gateFile' = NoMisses /\ misses' = 0
    /\ UNCHANGED <<updates, confirmed, offset, batch, restarts, served, faults>>

(* held: a new reader starts from the saved gate, and without an offset. *)
Held(g) == g

Restart ==
    /\ restarts < MaxRestarts /\ restarts' = restarts + 1
    /\ passGate' = Held(gateFile) /\ offset' = confirmed /\ batch' = <<>>
    /\ UNCHANGED <<updates, confirmed, gateFile, served, misses, faults>>

InboundNext == UpdateArrives \/ Poll \/ Serve \/ WindowPasses \/ LockEnds \/ Restart

(* run polls until the service stops, and serves what it was handed. *)
InboundSpec ==
    InboundInit /\ [][InboundNext]_inboundVars
    /\ WF_inboundVars(Poll) /\ WF_inboundVars(Serve)

-----------------------------------------------------------------------------
(* Within one window at most MissLimit misses are compared, however the
   service is restarted in between, unless the gate could not be saved. *)
MissesAreBounded == ~faults => misses <= MissLimit

UpdatesAreServedState ==
    \A i \in Ids : i > Len(updates) \/ served[i] > 0

(* An update that arrived is served: a failed poll is repeated, and one that
   was handed over and not served comes again after a restart. *)
UpdatesAreServed == []<>UpdatesAreServedState

(* An update is served again only by a reader that was started since. *)
ServedOncePerReader == \A i \in Ids : served[i] <= restarts + 1

(* The updates handed over are the next ones after the offset, and without
   faults the gate counts the misses, in memory and on disk. *)
InboundInv ==
    /\ InboundTypeOK /\ MissesAreBounded /\ ServedOncePerReader
    /\ \A k \in DOMAIN batch : batch[k] = offset + k
    /\ offset + Len(batch) <= Len(updates) /\ confirmed <= offset
    /\ \A i \in Ids : i > offset => served[i] <= restarts
    /\ passGate.recent < MissLimit /\ gateFile.recent < MissLimit
    /\ misses <= offset + restarts * MaxUpdates
    /\ ~faults => /\ passGate = gateFile
                  /\ misses = IF passGate.locked THEN MissLimit ELSE passGate.recent
=============================================================================
