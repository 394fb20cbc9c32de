----------------------------- MODULE LaneRecords ----------------------------
(***************************************************************************)
(* What is recorded of a lane: its state, the events its hook records and  *)
(* answers, and the commands its guards let the agent run.                 *)
(* The parts share no state: each has its own Init and Next.               *)
(***************************************************************************)
EXTENDS Integers, FiniteSets, Sequences, SequencesExt, FiniteSetsExt

(***************************************************************************)
(* The recorded state of one lane.  Evidence reaches the record on four    *)
(* roads: hooks and the dialog watcher append to a spool that a poll       *)
(* drains; the poll samples the recorded process itself; a launch and its  *)
(* end write the record at once; a host restart settles it.  The poll may  *)
(* be killed between any two of its steps, and the spool's batch is then   *)
(* applied again.  What a session last reported is the activity file.      *)
(* Stamps: events other than a poll's are even numbers, a poll's are odd,  *)
(* so that no two of them are equal.                                       *)
(***************************************************************************)

CONSTANTS
    Session,        \* processes a session of the lane may be, 1..n, as started
    MaxEvents,      \* model bound: stamped events other than a poll's
    MaxBoots,       \* model bound: boots of the host
    MaxSpool        \* model bound: evidence waiting in the spool

VARIABLES
    clock,          \* number of stamped events
    boot,           \* the running boot of the host
    live,           \* sessions whose process runs
    used,           \* sessions that were started
    activity,       \* the lane's activity file
    launching,      \* launches that have not recorded the lane yet
    spool,          \* lane-evidence.jsonl
    draining,       \* lane-evidence.draining.jsonl
    committed,      \* whether draining was applied, before it was discarded
    record,         \* the lane's row of lane_states
    bootRecord,     \* the boot the last reboot stage recorded, 0 for none
    stage,          \* the next stage of the running poll
    observed,       \* the poll's reading of the lane
    quiet           \* nothing disturbed the poll since its reboot stage

laneStateVars == <<clock, boot, live, used, activity, launching, spool,
                   draining, committed, record, bootRecord, stage, observed, quiet>>

None == 0
Event == {"SessionStart", "UserPromptSubmit", "PermissionRequest", "Stop",
          "SessionEnd"}
Live == {"starting", "working", "idle", "blocked"}
Transitions(source) ==
    CASE source \in {"", "starting", "working", "idle", "blocked"} ->
            Live \cup {"stopped", "dead"}
      [] source = "stopped"   -> Live \cup {"stopped", "dead", "reclaimed"}
      [] source = "dead"      -> {"starting", "dead", "reclaimed"}
      [] source = "reclaimed" -> {"starting", "reclaimed"}

HookState == [SessionStart |-> "starting", UserPromptSubmit |-> "working",
              PermissionRequest |-> "blocked", Stop |-> "idle",
              SessionEnd |-> "stopped"]

Stamp == 2 * clock + 1              \* what a poll stamps
Ticked == 2 * (clock + 1)           \* what the next other event stamps

Row(state, cause, since, updated) ==
    [state |-> state, cause |-> cause, since |-> since, updated |-> updated]
NoRow == Row("", "", 0, 0)
Item(state, cause, ts) == [state |-> state, cause |-> cause, ts |-> ts]
Unread == [alive |-> "unread"]
NoActivity == [pid |-> None, session |-> None, boot |-> 0, word |-> "none",
               rebooted |-> None, foreign |-> None]

LaneStatesTypeOK ==
    /\ clock \in 0..MaxEvents /\ boot \in 1..MaxBoots
    /\ live \subseteq Session /\ launching \subseteq Session
    /\ record.state \in Live \cup {"", "stopped", "dead", "reclaimed"}
    /\ record.cause \in {"", "dialog", "approval", "prompt"}
    /\ (record.state = "blocked") = (record.cause # "")
    /\ Len(spool) <= MaxSpool /\ Len(draining) <= MaxSpool
    /\ activity.pid \in Session \cup {None}

LaneStatesInit ==
    /\ clock = 0 /\ boot = 1 /\ live = {} /\ used = {} /\ launching = {}
    /\ activity = NoActivity /\ record = NoRow
    /\ spool = <<>> /\ draining = <<>> /\ committed = FALSE
    /\ bootRecord = None /\ stage = "reboot" /\ observed = Unread
    /\ quiet = FALSE

-----------------------------------------------------------------------------
(* transition: a refused move leaves the record, a repeated one only says
   that it still holds. *)
Moved(row, target, cause, now) ==
    IF target \notin Transitions(row.state) THEN row
    ELSE Row(target, cause, IF row.state = target THEN row.since ELSE now, now)

(* Evidence from before the state it would change is only logged. *)
Superseded(row, item) ==
    row.state # "" /\ (item.ts < row.since \/ row.state = "reclaimed")

(* One item of apply: evidence of life in a dead lane is its start first. *)
Applied(row, item) ==
    LET now == IF row.state = "" THEN item.ts ELSE Max({item.ts, row.updated})
        begun == IF row.state = "dead" /\ item.state \in Live \ {"starting"}
                 THEN Moved(row, "starting", "", now) ELSE row
    IN  IF Superseded(row, item) THEN row
        ELSE Moved(begun, item.state, item.cause, now)

Over(row) == row.state \in {"stopped", "dead", "reclaimed"}

(* from_liveness: the move a reading is evidence of; "" for none. *)
Inferred(row, seen) ==
    CASE seen.alive = "unknown" ->
            IF row.state \in {"starting", "working"} /\ seen.stale
            THEN <<"idle", "">> ELSE <<"", "">>
      [] seen.alive = "no" ->
            IF row.state \in {"dead", "reclaimed"} THEN <<"", "">>
            ELSE <<"stopped", "">>
      [] seen.alive = "yes" ->
            CASE Over(row)                 -> <<"starting", "">>
              [] row.cause = "dialog"      -> <<"", "">>
              [] seen.state = "approval"   -> <<"blocked", "approval">>
              [] seen.state = "waiting"    -> <<"blocked", "prompt">>
              [] OTHER                     -> <<seen.state, "">>

(* sample: the reading moves the record unless the record is newer; a lane
   that stays stopped long enough is dead. *)
Sampled(row, seen, aged) ==
    LET move == Inferred(row, seen)
        next == IF row.since > seen.at \/ move[1] = "" THEN row
                ELSE Moved(row, move[1], move[2], Stamp)
    IN  IF next.state = "stopped" /\ aged THEN Moved(next, "dead", "", Stamp)
        ELSE next

-----------------------------------------------------------------------------
Rebooted == activity.rebooted # None /\ activity.rebooted = activity.pid

(* lane_state: what the activity file and its process say. *)
Reading(unreadable, stale) ==
    LET alive == IF activity.pid = None THEN "unknown"
                 ELSE IF Rebooted THEN "no"
                 ELSE IF unreadable THEN "unknown"
                 ELSE IF activity.pid \in live THEN "yes" ELSE "no"
        word == activity.word
    IN [alive |-> IF alive = "unknown" /\ activity.pid = None
                     /\ word \in {"none", "stopped"} THEN "no" ELSE alive,
        state |-> CASE word \in {"approval", "parked"} ->
                          IF word = "approval" THEN "approval" ELSE "waiting"
                    [] stale \/ word = "idle"          -> "idle"
                    [] word = "stopped"                -> "waiting"
                    [] OTHER                           -> "working",
        stale |-> stale, at |-> Stamp]

(* submit: the spool may be locked or unwritable, which loses the item. *)
Submit(state, cause) ==
    \/ UNCHANGED spool
    \/ /\ Len(spool) < MaxSpool
       /\ spool' = Append(spool, Item(state, cause, Ticked))

Tick == clock < MaxEvents /\ clock' = clock + 1

(* A process is a new one: its pid and start ticks name no other. *)
Begin(s) ==
    /\ s = Cardinality(used) + 1
    /\ used' = used \cup {s} /\ live' = live \cup {s}

(* A launch publishes the session under the lane's lock; the record is a
   write of its own. *)
Launch(s) ==
    /\ Tick /\ live = {} /\ Begin(s)
    /\ launching' = launching \cup {s}
    /\ activity' = [activity EXCEPT !.pid = s, !.session = None,
                                    !.boot = boot, !.word = "starting"]
    /\ UNCHANGED <<boot, spool, draining, committed, record, bootRecord,
                   stage, observed>>

RecordLaunch(s) ==
    /\ Tick
    /\ s \in launching
    /\ launching' = launching \ {s}
    /\ record' = Moved(record, "starting", "", Ticked)
    /\ UNCHANGED <<boot, live, used, activity, spool, draining, committed,
                   bootRecord, stage, observed>>

(* A forked or resumed session starts in the worktree by itself. *)
Fork(s) ==
    /\ activity.pid # None /\ Begin(s)
    /\ UNCHANGED <<clock, boot, activity, launching, spool, draining,
                   committed, record, bootRecord, stage, observed>>

(* The launched session ends; its launcher says so whoever the lane's
   session is by now, first in the file, then in the record. *)
Exit(s) ==
    /\ Tick
    /\ s \in live
    /\ live' = live \ {s}
    /\ \/ UNCHANGED <<activity, record>>           \* killed, or not launched
       \/ /\ activity' = [activity EXCEPT !.word = "stopped"]
          /\ record' = Moved(record, "stopped", "", Ticked)
    /\ launching' = launching \ {s}
    /\ UNCHANGED <<boot, used, spool, draining, committed, bootRecord, stage,
                   observed>>

Reboot ==
    /\ Tick
    /\ boot < MaxBoots
    /\ boot' = boot + 1
    /\ live' = {} /\ launching' = {}
    /\ stage' = "reboot" /\ observed' = Unread
    /\ UNCHANGED <<used, activity, spool, draining, committed, record,
                   bootRecord>>

(* checkpoint, the session part: an event of the lane's session, of one that
   starts, or of one that replaces an ended one becomes the lane's; any
   other is only noted as foreign. *)
Hook(s, e) ==
    LET ended == activity.pid # None /\ activity.pid \notin live
        changed == activity.session # None /\ activity.session # s
        adopted == changed /\ e # "SessionStart"
                   /\ (ended \/ activity.pid = s)
    IN
    /\ s \in live
    /\ IF changed /\ e # "SessionStart" /\ ~adopted
       THEN /\ activity' = [activity EXCEPT !.foreign = s]
            /\ UNCHANGED <<clock, spool>>
       ELSE /\ Tick
            /\ activity' = [activity EXCEPT
                  !.session = s, !.pid = s,
                  !.boot = IF activity.pid = s THEN @ ELSE boot,
                  !.foreign = IF activity.session # s THEN None ELSE @,
                  !.word = CASE e = "SessionEnd" -> "stopped"
                             [] e = "Stop" -> "idle"
                             [] e = "PermissionRequest" -> "approval"
                             [] OTHER -> "working"]
            /\ Submit(HookState[e],
                      IF e = "PermissionRequest" THEN "approval" ELSE "")
    /\ UNCHANGED <<boot, live, used, launching, draining, committed, record,
                   bootRecord, stage, observed>>

(* The dialog watcher parks the lane on a dialog, or finds it gone. *)
Park ==
    /\ Tick /\ live # {} /\ activity.word # "parked"
    /\ activity' = [activity EXCEPT !.word = "parked"]
    /\ Submit("blocked", "dialog")
    /\ UNCHANGED <<boot, live, used, launching, draining, committed, record,
                   bootRecord, stage, observed>>

Release ==
    /\ Tick /\ live # {} /\ activity.word = "parked"
    /\ activity' = [activity EXCEPT !.word = "idle"]
    /\ Submit("working", "")
    /\ UNCHANGED <<boot, live, used, launching, draining, committed, record,
                   bootRecord, stage, observed>>

(* The lane's worktree is reclaimed. *)
Reclaim ==
    /\ record.state \in {"stopped", "dead"} /\ live = {}
    /\ record' = Moved(record, "reclaimed", "", Stamp)
    /\ UNCHANGED <<clock, boot, live, used, activity, launching, spool,
                   draining, committed, bootRecord, stage, observed>>

-----------------------------------------------------------------------------
At(here, next) == stage = here /\ stage' = next

BadSettlesLane_AnyBoot == activity.pid # None /\ ~Rebooted

(* _settle_lane: a session another boot recorded has ended. *)
SettlesLane == activity.pid # None /\ activity.boot # boot /\ ~Rebooted

(* The boot is recorded once no lane's lock was busy. *)
RecordsBoot(busy) == ~busy

(* settle_reboot: the first poll of a boot stops the sessions of earlier
   ones; the first poll ever only records the boot. *)
SettleReboot(busy) ==
    /\ At("reboot", "launches") /\ quiet' = ~busy
    /\ IF bootRecord = boot THEN UNCHANGED bootRecord
       ELSE bootRecord' = IF RecordsBoot(busy) THEN boot ELSE bootRecord
    /\ IF bootRecord \notin {None, boot} /\ ~busy /\ SettlesLane
       THEN /\ record' = Moved(record, "stopped", "", Stamp)
            /\ activity' = [activity EXCEPT !.word = "stopped",
                                            !.rebooted = activity.pid]
       ELSE UNCHANGED <<activity, record>>
    /\ UNCHANGED <<clock, boot, live, used, launching, spool, draining,
                   committed, observed>>

(* launches: a launch that reported no hook within its deadline. *)
MarkUnstarted(late) ==
    /\ At("launches", "evidence") /\ UNCHANGED quiet
    /\ IF late /\ activity.word = "starting" /\ clock < MaxEvents
       THEN /\ Tick
            /\ activity' = [activity EXCEPT !.word = "not_started"]
            /\ Submit("blocked", "dialog")
       ELSE UNCHANGED <<clock, activity, spool>>
    /\ UNCHANGED <<boot, live, used, launching, draining, committed,
                   record, bootRecord, observed>>

(* pending: the spool becomes the batch unless a batch is still there. *)
TakeEvidence ==
    /\ At("evidence", "apply") /\ UNCHANGED quiet
    /\ IF draining = <<>>
       THEN draining' = spool /\ spool' = <<>> /\ committed' = FALSE
       ELSE UNCHANGED <<draining, spool, committed>>
    /\ UNCHANGED <<clock, boot, live, used, launching, activity, record,
                   bootRecord, observed>>

(* settle_evidence: the batch is applied in one transaction, then dropped. *)
ApplyEvidence ==
    /\ At("apply", "settled") /\ UNCHANGED quiet
    /\ record' = FoldLeft(Applied, record, draining)
    /\ committed' = (draining # <<>>)
    /\ UNCHANGED <<clock, boot, live, used, launching, activity, spool,
                   draining, bootRecord, observed>>

DropEvidence ==
    /\ At("settled", "sessions") /\ UNCHANGED quiet
    /\ draining' = <<>> /\ committed' = FALSE
    /\ UNCHANGED <<clock, boot, live, used, launching, activity, spool,
                   record, bootRecord, observed>>

(* The recorded session is known to be gone. *)
Gone(unreadable) == activity.pid \notin live /\ ~unreadable

(* rebind_sessions: a lane whose session is gone takes the foreign session
   that was seen, or a client found in its worktree. *)
Rebind(unreadable) ==
    /\ At("sessions", "read") /\ quiet' = (quiet /\ ~unreadable)
    /\ LET found == IF activity.foreign \in live THEN {activity.foreign}
                    ELSE live
       IN IF activity # NoActivity /\ ~Rebooted /\ Gone(unreadable)
             /\ found # {}
          THEN \E s \in found :
                  activity' = [activity EXCEPT
                     !.pid = s, !.boot = boot, !.word = "idle",
                     !.session = IF s = activity.foreign THEN s ELSE @,
                     !.foreign = None]
          ELSE UNCHANGED activity
    /\ UNCHANGED <<clock, boot, live, used, launching, spool, draining,
                   committed, record, bootRecord, observed>>

(* presence: the reading, taken without the lane's lock. *)
Read(unreadable, stale) ==
    /\ At("read", "lanes") /\ quiet' = (quiet /\ ~unreadable)
    /\ observed' = Reading(unreadable, stale)
    /\ UNCHANGED <<clock, boot, live, used, launching, activity, spool,
                   draining, committed, record, bootRecord>>

(* settle_lanes: the sample, and for a client without hooks the dialog the
   watcher has published. *)
Sample(aged) ==
    /\ At("lanes", "reboot") /\ UNCHANGED quiet
    /\ observed' = Unread
    /\ \/ record' = Sampled(record, observed, aged)
       \/ /\ record.state \in {"idle", "blocked"} /\ observed.alive = "yes"
          /\ activity.word = "parked"
          /\ record' = Moved(record, "blocked", "dialog", Stamp)
    /\ UNCHANGED <<clock, boot, live, used, launching, activity, spool,
                   draining, committed, bootRecord>>

(* The supervisor is killed and started again. *)
Crash ==
    /\ stage # "reboot"
    /\ stage' = "reboot" /\ observed' = Unread
    /\ UNCHANGED <<clock, boot, live, used, launching, activity, spool,
                   draining, committed, record, bootRecord>>

Poll ==
    \/ \E busy \in BOOLEAN : SettleReboot(busy)
    \/ \E late \in BOOLEAN : MarkUnstarted(late)
    \/ TakeEvidence \/ ApplyEvidence \/ DropEvidence
    \/ \E unreadable \in BOOLEAN : Rebind(unreadable)
    \/ \E unreadable, stale \in BOOLEAN : Read(unreadable, stale)
    \/ \E aged \in BOOLEAN : Sample(aged)

Other ==
    \/ \E s \in Session :
          \/ Launch(s) \/ RecordLaunch(s) \/ Fork(s) \/ Exit(s)
          \/ \E e \in Event : Hook(s, e)
    \/ Reboot \/ Park \/ Release \/ Reclaim \/ Crash

LaneStatesNext == Poll \/ (Other /\ quiet' = FALSE)

LaneStatesSpec == LaneStatesInit /\ [][LaneStatesNext]_laneStateVars

-----------------------------------------------------------------------------
ReplayedEvidenceMovesNothingStep ==
    stage = "apply" /\ stage' = "settled" /\ committed
        => record'.state = record.state

(* A batch that a killed supervisor had already applied, and that the next
   one applies again, leaves the lane in the state it is in by then. *)
ReplayedEvidenceMovesNothing == [][ReplayedEvidenceMovesNothingStep]_laneStateVars

(* The first poll after a restart stops the sessions the restart ended and
   no session that was started, forked or bound since. *)
LiveSessionsAreNotRebooted == Rebooted => activity.pid \notin live

(* One poll that nothing disturbs is enough for the record to say whether the
   lane's session runs, whatever a launcher's end, late evidence, a restart
   or a reclaim wrote before. *)
QuietPollSettlesTheRecord ==
    (quiet /\ stage = "reboot" /\ activity.pid # None)
    => ((activity.pid \in live) = (record.state \in Live))

-----------------------------------------------------------------------------
(***************************************************************************)
(* The hook of one lane.  A native event arrives, reads the project's      *)
(* context without a lock, then reads and rewrites the lane's activity     *)
(* record under its checkpoint lock, and prepares a reply; what the reply  *)
(* carries is marked as delivered only after the client confirmed it.      *)
(* Decisions of one lane overlap: a slow one finishes on its own thread.   *)
(***************************************************************************)

CONSTANTS
    Sessions,       \* native sessions, each with a process of its own
    Launcher,       \* the launcher, whose identity a launch seeds
    Untraced,       \* no process: an event no process can be traced for
    Hooks,          \* decisions that may overlap
    Modelled,       \* native events of the run
    Budget,         \* notice entries of one reply (MAX_NOTICE_BYTES)
    MaxHookEvents,      \* model bound: events
    MaxMail,        \* model bound: messages waiting for the lane
    MaxRevision     \* model bound: changes of the issue ledger

VARIABLES
    hookRecord,         \* the activity record
    alive,          \* native processes that run
    revision,       \* the issue ledger's revision
    hooks,          \* decisions under way
    arrived,        \* events so far
    given,          \* ghost: the messages each session's client confirmed
    told,           \* ghost: the ledger entries any client confirmed
    last            \* ghost: the event that arrived last, if it arrived alone

cpVars == <<hookRecord, alive, revision, hooks, arrived, given, told, last>>

Settling == {"Stop", "SessionEnd", "PermissionRequest"}
Context == {"SessionStart", "UserPromptSubmit", "PreToolUse", "Stop"}
Labels == {"none", "working", "idle", "stopped", "approval"}
Entries == 1..(2 * MaxRevision)
NoSession == 0
NoHook == [at |-> "free"]
NoMarks == [cursor |-> 0, revision |-> -1, items |-> {}, blocked |-> FALSE]

AllEvents == {"SessionStart", "UserPromptSubmit", "PreToolUse", "PostToolUse",
              "PermissionRequest", "Stop", "SessionEnd"}

NotAlone == [event |-> "none", session |-> NoSession]

Deciding == {"lock"}

CheckpointsTypeOK ==
    /\ hookRecord.session \in Sessions \cup {NoSession}
    /\ hookRecord.process \in Sessions \cup {Launcher, Untraced}
    /\ hookRecord.label \in Labels /\ hookRecord.cursor \in 0..MaxMail
    /\ hookRecord.revision \in -1..MaxRevision /\ hookRecord.items \subseteq Entries
    /\ \A h \in Hooks : hooks[h].at \in {"free", "lock", "reply"}

CheckpointsInit ==
    /\ hookRecord = [session |-> NoSession, process |-> Launcher, label |-> "none",
                 cursor |-> 0, revision |-> -1, items |-> {}]
    /\ alive = {Launcher} /\ revision = 0
    /\ hooks = [h \in Hooks |-> NoHook] /\ arrived = 0
    /\ given = [s \in Sessions |-> 0] /\ told = {}
    /\ last = NotAlone

-----------------------------------------------------------------------------
(* The project and the native clients. *)
LedgerMoves ==
    /\ revision < MaxRevision /\ revision' = revision + 1
    /\ UNCHANGED <<hookRecord, alive, hooks, arrived, given, told, last>>

(* The entries the ledger's state of a revision makes for this lane. *)
Standing(r) == 1..(2 * r)

Exits(p) ==
    /\ p \in alive /\ alive' = alive \ {p}
    /\ UNCHANGED <<hookRecord, revision, hooks, arrived, given, told, last>>

(* An event of a session arrives; its process runs, and the hook may be able
   to trace it.  The context is read before the lock is taken (scan).  The
   refusals that need no record (paused, outside the lane, branch drift, ...)
   are the second part. *)
Arrive(h, e, s, p) ==
    /\ hooks[h] = NoHook /\ \A g \in Hooks : g < h => hooks[g] # NoHook
    /\ arrived < MaxHookEvents /\ arrived' = arrived + 1
    /\ p \in {s, Untraced}
    /\ (e = "SessionStart" \/ s \in alive)
    /\ alive' = alive \cup {s}
    /\ hooks' = [hooks EXCEPT ![h] =
                   [at |-> "lock", event |-> e, session |-> s, process |-> p,
                    passed |-> FALSE, revision |-> revision]]
    /\ last' = IF \A g \in Hooks : hooks[g].at \notin Deciding
               THEN [event |-> e, session |-> s] ELSE NotAlone
    /\ UNCHANGED <<hookRecord, revision, given, told>>

-----------------------------------------------------------------------------
(* Under the checkpoint lock. *)
Changed(d) == hookRecord.session # NoSession /\ d.session # hookRecord.session

Ended == hookRecord.process # Untraced /\ hookRecord.process \notin alive

(* Events of another session are adopted when the recorded process is gone or
   is the one the event comes from. *)
Adopted(d) ==
    /\ Changed(d) /\ d.event # "SessionStart" /\ d.process # Untraced
    /\ Ended \/ hookRecord.process = d.process

Foreign(d) == Changed(d) /\ d.event # "SessionStart" /\ ~Adopted(d)

Opens(d) == d.session # hookRecord.session /\ (d.event = "SessionStart" \/ Adopted(d))

(* An event is stale when another was applied after it arrived. *)
Outdated(d) == d.event \in Settling /\ d.passed

Label(e) ==
    CASE e = "SessionEnd" -> "stopped" [] e = "Stop" -> "idle"
      [] e = "PermissionRequest" -> "approval" [] OTHER -> "working"

(* A label an overtaken event must not replace. *)
LabelAfter(d) ==
    IF d.passed THEN hookRecord.label
    ELSE IF Ended /\ d.process = Untraced THEN "stopped" ELSE Label(d.event)

(* The identity: dropped when another session opens unless the launcher's
   stands, replaced by a process the event was traced to. *)
ProcessAfter(d) ==
    IF d.process # Untraced THEN d.process
    ELSE IF \/ Opens(d) /\ ~(hookRecord.process = Launcher /\ ~Ended)
            \/ d.event = "SessionStart" /\ Ended
    THEN Untraced ELSE hookRecord.process

(* A new session has been given nothing; a started one is told all again. *)
Reset(d) ==
    [hookRecord EXCEPT !.cursor = IF Opens(d) THEN 0 ELSE @,
                   !.items = IF d.event = "SessionStart" THEN {} ELSE @,
                   !.revision = IF Opens(d) \/ d.event = "SessionStart" THEN -1 ELSE @]

Noted(d) ==
    [Reset(d) EXCEPT !.session = d.session, !.process = ProcessAfter(d),
                     !.label = LabelAfter(d)]

(* What a reply may carry: mail past the cursor, and as many ledger entries
   not delivered yet as the budget holds.  The revision counts as told even
   when entries were held back (fresh_notices). *)
Mailed(r) == IF MaxMail > r.cursor THEN (r.cursor + 1)..MaxMail ELSE {0}

Fresh(r, d) ==
    LET new == Standing(d.revision) \ r.items
    IN  {f \in SUBSET new : Cardinality(f) = IF Cardinality(new) < Budget
                                             THEN Cardinality(new) ELSE Budget}

ItemsAfter(r, d, fresh) == (r.items \cap Standing(d.revision)) \cup fresh

Marks(r, d, upto, fresh) ==
    IF d.revision # r.revision \/ upto # 0
    THEN [cursor |-> upto,
          revision |-> d.revision,
          items |-> IF d.revision # r.revision
                    THEN ItemsAfter(r, d, fresh) ELSE r.items,
          blocked |-> d.event = "Stop" /\ d.revision # r.revision /\ fresh # {}]
    ELSE NoMarks

(* A Stop carrying nothing that blocks says nothing and delivers nothing. *)
Silent(d, m) == m = NoMarks \/ (d.event = "Stop" /\ ~m.blocked)

(* Another write of the record overtakes every other decision, and makes
   earlier replies no longer current. *)
Overtaken(h, d) ==
    [g \in Hooks |->
       IF g = h \/ d.passed THEN hooks[g]
       ELSE IF hooks[g].at \in Deciding THEN [hooks[g] EXCEPT !.passed = TRUE]
       ELSE IF hooks[g].at = "reply" THEN [hooks[g] EXCEPT !.current = FALSE]
       ELSE hooks[g]]

Decide(h) ==
    LET d == hooks[h]
    IN  /\ d.at = "lock" /\ ~Outdated(d) /\ ~Foreign(d)
        /\ LET r == Noted(d)
           IN \E upto \in (IF d.event \in Context THEN Mailed(r) ELSE {0}),
                 fresh \in (IF d.event \in Context /\ d.revision # r.revision
                            THEN Fresh(r, d) ELSE {{}}) :
              LET m == IF d.event \in Context THEN Marks(r, d, upto, fresh) ELSE NoMarks
              IN  /\ hookRecord' = r
                  /\ hooks' = [Overtaken(h, d) EXCEPT ![h] =
                       IF Silent(d, m) THEN NoHook
                       ELSE [at |-> "reply", session |-> d.session, marks |-> m,
                             current |-> TRUE, fresh |-> fresh]]
        /\ UNCHANGED <<alive, revision, arrived, given, told, last>>

(* An event that finds a later one applied, or that is another session's,
   changes nothing: the second leaves a note of the session only. *)
Discard(h) ==
    /\ hooks[h].at = "lock"
    /\ Outdated(hooks[h]) \/ Foreign(hooks[h])
    /\ hooks' = [hooks EXCEPT ![h] = NoHook]
    /\ last' = IF Foreign(hooks[h]) THEN NotAlone ELSE last
    /\ UNCHANGED <<hookRecord, alive, revision, arrived, given, told>>

(* The lock is not had in time, or the deadline passed before the decision:
   the client goes on without it. *)
GiveUp(h) ==
    /\ hooks[h].at \in Deciding
    /\ hooks' = [hooks EXCEPT ![h] = NoHook]
    /\ last' = NotAlone
    /\ UNCHANGED <<hookRecord, alive, revision, arrived, given, told>>

-----------------------------------------------------------------------------
(* After the reply: the client confirms it and it is marked, or the reply or
   its marking is lost. *)
Lose(h) ==
    /\ hooks[h].at = "reply"
    /\ hooks' = [hooks EXCEPT ![h] = NoHook]
    /\ UNCHANGED <<hookRecord, alive, revision, arrived, given, told, last>>

SameSession(d) == hookRecord.session = d.session

(* A blocked Stop goes on working, unless a later event said otherwise. *)
Relabels(d) == d.marks.blocked /\ d.current

MarkDelivered(d) ==
    [hookRecord EXCEPT !.cursor = IF d.marks.cursor > @ THEN d.marks.cursor ELSE @,
                   !.revision = d.marks.revision,
                   !.items = d.marks.items,
                   !.label = IF Relabels(d) THEN "working" ELSE @]

Deliver(h) ==
    LET d == hooks[h]
    IN  /\ d.at = "reply"
        /\ given' = [given EXCEPT ![d.session] =
                       IF d.marks.cursor > @ THEN d.marks.cursor ELSE @]
        /\ told' = told \cup d.fresh
        /\ hookRecord' = IF SameSession(d) THEN MarkDelivered(d) ELSE hookRecord
        /\ hooks' = [hooks EXCEPT ![h] = NoHook]
        /\ UNCHANGED <<alive, revision, arrived, last>>

CheckpointsNext ==
    \/ LedgerMoves
    \/ \E p \in Sessions \cup {Launcher} : Exits(p)
    \/ \E h \in Hooks :
          \/ \E e \in Modelled, s \in Sessions, p \in Sessions \cup {Untraced} :
                Arrive(h, e, s, p)
          \/ Decide(h) \/ Discard(h) \/ GiveUp(h) \/ Lose(h) \/ Deliver(h)

CheckpointsSpec == CheckpointsInit /\ [][CheckpointsNext]_cpVars

-----------------------------------------------------------------------------
(* The record never says that the lane was given a message its own session's
   client did not confirm: a lost reply, a late one of an earlier session and
   a new session's start leave it owed. *)
MarkedMailWasGiven ==
    hookRecord.session # NoSession => hookRecord.cursor <= given[hookRecord.session]

(* Nor that it was told a ledger entry no client confirmed. *)
MarkedNoticesWereTold == hookRecord.items \subseteq told

(* An event that arrived while no other was being decided leaves its label,
   whatever reply is confirmed or marked after it; only a Stop that was held
   back for news reads as working again. *)
QuietLaneKeepsItsLabel ==
    (/\ last # NotAlone /\ \A h \in Hooks : hooks[h].at \notin Deciding
     /\ last.session = hookRecord.session)
    => \/ hookRecord.label = Label(last.event)
       \/ hookRecord.label = "stopped"
       \/ last.event = "Stop" /\ hookRecord.label = "working"

-----------------------------------------------------------------------------
(***************************************************************************)
(* What a lane's hook lets its agent run.  A tool call is decided in full, *)
(* or without context when an earlier decision is past its deadline, or by *)
(* its command alone when this one is, or when its payload is too large.   *)
(* The checkout, the shell's directory, the operator's pause, the peers'   *)
(* leases and the state store all change around it.                        *)
(***************************************************************************)

CONSTANT MaxTouches     \* model bound: times someone else moves the checkout

VARIABLES
    lane,           \* what the roster and the shell say: paused, retired, outside
    checkout,       \* what HEAD names, and whether the lane's branch exists
    store,          \* the state store can be read
    peer,           \* a peer holds a lease on the path the agent wants
    offer,          \* an offer to the lane expires soon
    moved,          \* ghost: the checkout was moved by someone else
    touches

lgVars == <<lane, checkout, store, peer, offer, moved, touches>>

Commands == {"edit", "editPeer", "read", "diagnose", "chained", "leave", "return",
             "switch", "restore", "renameAway", "rename", "create", "rebase",
             "continue", "attributed", "budget", "stray"}
Ways == {"full", "recordOnly", "deadline", "oversize"}
Heads == {"own", "other", "detached", "rebasing"}

LaneGuardsTypeOK ==
    /\ lane \in [paused : BOOLEAN, retired : BOOLEAN, outside : BOOLEAN]
    /\ checkout \in [head : Heads, exists : BOOLEAN]
    /\ checkout.head \in {"own", "rebasing"} => checkout.exists
    /\ store \in BOOLEAN /\ peer \in BOOLEAN /\ offer \in BOOLEAN /\ moved \in BOOLEAN

LaneGuardsInit ==
    /\ lane = [paused |-> FALSE, retired |-> FALSE, outside |-> FALSE]
    /\ checkout = [head |-> "own", exists |-> TRUE]
    /\ store = TRUE /\ peer = FALSE /\ offer = FALSE /\ moved = FALSE /\ touches = 0

-----------------------------------------------------------------------------
(* What a parse of the command says of it. *)
ChangesLaneBranch(c) == c \in {"switch", "restore", "renameAway", "rename", "create"}

(* The one command that puts the checkout back: a plain switch, or, with the
   branch gone, a rename of the one that is out or a new branch. *)
Repair(co) ==
    IF co.exists THEN "restore" ELSE IF co.head = "other" THEN "rename" ELSE "create"

RestoresLaneBranch(c, co) == c = "restore" \/ c = Repair(co)

AttributedCommand(c) == c = "attributed"    \* a message that names its author as a machine

LiftsRunBudget(c) == c = "budget"           \* budget enforce or resume

StrayWorktree(c) == c = "stray"             \* a worktree outside the lane's own place

ChainedCli(c) == c = "chained"              \* the bridge's command, wrapped in shell

Diagnosable(c) == c = "diagnose"

Exempt(c) == c = "read" \/ Diagnosable(c)

ReservedConflict(c) == c = "editPeer" /\ peer

(* A refusal is the first of a list whose condition holds. *)
First(refusals) ==
    LET hits == SelectSeq(refusals, LAMBDA r : r.when)
    IN  IF hits = <<>> THEN "allow" ELSE hits[1].why

Refuse(when, why) == [when |-> when, why |-> why]

Outside(c) == Refuse(lane.outside /\ c # "return", "outside_lane")

StaticText(c) ==
    << Refuse(AttributedCommand(c), "attribution"), Refuse(LiftsRunBudget(c), "budget"),
       Refuse(StrayWorktree(c), "worktree") >>

Drifted == checkout.head \in {"other", "detached"}

BranchGuard(c) ==
    << Refuse(Drifted /\ ~RestoresLaneBranch(c, checkout), "branch_drift"),
       Refuse(checkout.head = "own" /\ ChangesLaneBranch(c), "branch_switch") >>

(* The hazards to a peer: none of them is refused to a call that only reads,
   but a wrapped command of the bridge's own is. *)
Hazard(c) ==
    << Refuse(ChainedCli(c), "chained_cli"),
       Refuse(~Exempt(c) /\ ReservedConflict(c), "reserved_path"),
       Refuse(~Exempt(c) /\ offer, "offer_expiring") >>

(* Without the scans a store that cannot be read refuses nothing. *)
UnscannedHazard(c) == IF store THEN Hazard(c) ELSE <<>>

StaticRefusal(c) ==
    <<Refuse(ChangesLaneBranch(c) /\ c # "restore", "branch_switch")>> \o StaticText(c)

Checkpoint(c, coordination) ==
    IF lane.retired THEN "allow"
    ELSE First(<<Outside(c), Refuse(lane.paused, "paused")>>
               \o BranchGuard(c) \o StaticText(c) \o coordination)

FullDecision(c) ==
    Checkpoint(c, IF store THEN Hazard(c)
                  ELSE <<Refuse(~Diagnosable(c), "coordination_unavailable")>>)

LaneRefusal(c, hazards) ==
    IF lane.retired THEN "allow"
    ELSE First(<<Outside(c)>> \o StaticRefusal(c) \o hazards)

(* A call the service is still deciding is answered without a refusal. *)
DeadlineRefusal(c) == LaneRefusal(c, <<>>)

OversizeRefusal(c) == LaneRefusal(c, UnscannedHazard(c))

Decision(c, way) ==
    CASE way = "full"       -> FullDecision(c)
      [] way = "recordOnly" -> Checkpoint(c, UnscannedHazard(c))
      [] way = "deadline"   -> DeadlineRefusal(c)
      [] way = "oversize"   -> OversizeRefusal(c)

-----------------------------------------------------------------------------
(* What git does with the command. *)
Own == [head |-> "own", exists |-> TRUE]

Run(c, co) ==
    CASE c = "switch" /\ co.head # "rebasing" -> [co EXCEPT !.head = "other"]
      [] c = "restore" /\ co.exists /\ co.head # "rebasing" -> Own
      [] c = "rename" /\ co.head = "other" /\ ~co.exists -> Own
      [] c = "create" /\ co.head # "rebasing" /\ ~co.exists -> Own
      [] c = "renameAway" /\ co.head = "own" -> [head |-> "other", exists |-> FALSE]
      [] c = "rebase" /\ co.head = "own" -> [head |-> "rebasing", exists |-> TRUE]
      [] c = "continue" /\ co.head = "rebasing" -> Own
      [] OTHER -> co

(* The agent asks for a tool call and runs it when it is not refused. *)
Try(c, way) ==
    /\ Decision(c, way) = "allow"
    /\ checkout' = Run(c, checkout)
    /\ lane' = [lane EXCEPT !.outside = IF c = "leave" THEN TRUE
                                        ELSE IF c = "return" THEN FALSE ELSE @]
    /\ moved' = (moved /\ checkout'.head # "own")
    /\ UNCHANGED <<store, peer, offer, touches>>

(* A person, or a program the hook does not see, moves the checkout. *)
Touch(co) ==
    /\ touches < MaxTouches /\ touches' = touches + 1
    /\ co.head \in {"own", "rebasing"} => co.exists
    /\ checkout' = co /\ moved' = (moved \/ co.head \notin {"own", "rebasing"})
    /\ UNCHANGED <<lane, store, peer, offer>>

Pause == lane' = [lane EXCEPT !.paused = ~@] /\ UNCHANGED <<checkout, store, peer, offer, moved, touches>>

Retire ==
    /\ ~lane.retired
    /\ lane' = [lane EXCEPT !.retired = TRUE]
    /\ UNCHANGED <<checkout, store, peer, offer, moved, touches>>

Around ==
    /\ store' \in BOOLEAN /\ peer' \in BOOLEAN /\ offer' \in BOOLEAN
    /\ UNCHANGED <<lane, checkout, moved, touches>>

LaneGuardsNext ==
    \/ \E c \in Commands, w \in Ways : Try(c, w)
    \/ \E co \in [head : Heads, exists : BOOLEAN] : Touch(co)
    \/ Pause \/ Retire \/ Around

LaneGuardsSpec == LaneGuardsInit /\ [][LaneGuardsNext]_lgVars

-----------------------------------------------------------------------------
(* However its calls are decided, an agent that is not retired does not move
   its checkout off the lane's branch: only someone else does. *)
OwnCommandsKeepTheBranch ==
    lane.retired \/ moved \/ checkout.head \in {"own", "rebasing"}

(* A lane whose checkout drifted, with its shell inside, may run the command
   the refusal names, and it puts the checkout back. *)
DriftIsRepairable ==
    (Drifted /\ store /\ ~offer /\ ~lane.paused /\ ~lane.retired /\ ~lane.outside)
    => LET c == Repair(checkout)
       IN  FullDecision(c) = "allow" /\ Run(c, checkout) = Own

(* A peer's path is not written and an expiring offer not worked past, also
   when the context was not read; only a call answered at its deadline, and
   one decided without a readable store, are let through. *)
HazardsAreRefused ==
    \A w \in Ways \ {"deadline"}, c \in {"edit", "editPeer"} :
        (~lane.retired /\ store /\ (offer \/ (peer /\ c = "editPeer")))
        => Decision(c, w) # "allow"

(* While coordination is down the lane can still ask why. *)
OutagesCanBeDiagnosed ==
    (~store /\ ~Drifted /\ ~lane.paused /\ ~lane.outside)
    => \A w \in Ways : Decision("diagnose", w) = "allow"

(* On its own branch, what is refused at the deadline is refused in full. *)
DeadlineRefusesLess ==
    checkout.head = "own" =>
        \A c \in Commands : DeadlineRefusal(c) # "allow" => FullDecision(c) # "allow"

(* A tool call whose first step returns the shell to the lane is allowed, so
   an agent that left it can come back (checkpoints.py:3943). *)
LeftLanesCanBeReentered ==
    (lane.outside /\ store /\ ~offer /\ ~lane.paused /\ ~lane.retired)
    => FullDecision("return") = "allow"
=============================================================================
