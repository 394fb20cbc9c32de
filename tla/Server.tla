------------------------------- MODULE Server -------------------------------
(***************************************************************************)
(* The HTTP service: the hook client's recovery of queued calls, and the   *)
(* slots its waiting calls take.                                           *)
(* The parts share no state: each has its own Init and Next.               *)
(***************************************************************************)
EXTENDS Integers, Sequences, FiniteSets, SequencesExt

(***************************************************************************)
(* How the service answers the hooks of one lane.  A decision runs on a    *)
(* thread of its own; the thread that answers the client joins it for a    *)
(* while and then answers without it.  Whichever of the two sees the       *)
(* decision last queues the recovery checkpoint the decision owes, and one *)
(* runner per lane takes what is queued, the newest standing for all.      *)
(***************************************************************************)

CONSTANTS
    Calls           \* hook calls, numbered as they come

VARIABLES
    worker,         \* the deciding thread of each call
    answer,         \* the answering thread of each call
    abandoned,      \* calls answered without their decision
    deciding,       \* decisions past their deadline, as the service counts
    owes,           \* calls whose decision owes a recovery checkpoint
    gate,           \* those whose payload is evidence of a gate
    runner,         \* the recovery under way
    waiting,        \* the recovery that stands for those queued meanwhile
    gates,          \* ghost: gate evidence in the order it was queued
    ended,          \* ghost: calls whose evidence a recovery has dealt with
    queued          \* ghost: how often each call's recovery was queued

hsVars == <<worker, answer, abandoned, deciding, owes, gate, runner, waiting,
            gates, ended, queued>>

None == [call |-> 0, evidence |-> 0, stands |-> {}]
Owed == [call : Calls \cup {0}, evidence : Calls \cup {0}, stands : SUBSET Calls]

HookServiceTypeOK ==
    /\ worker \in [Calls -> {"none", "deciding", "served", "failed", "closing", "done"}]
    /\ answer \in [Calls -> {"none", "joining", "late", "closing", "served",
                             "refused", "failed"}]
    /\ abandoned \subseteq Calls /\ deciding \in 0..Cardinality(Calls)
    /\ owes \subseteq Calls /\ gate \subseteq owes
    /\ runner \in Owed /\ waiting \in Owed

HookServiceInit ==
    /\ worker = [c \in Calls |-> "none"] /\ answer = [c \in Calls |-> "none"]
    /\ abandoned = {} /\ deciding = 0 /\ owes = {} /\ gate = {}
    /\ runner = None /\ waiting = None
    /\ gates = <<>> /\ ended = {} /\ queued = [c \in Calls |-> 0]

-----------------------------------------------------------------------------
(* The queue: one runner of a lane at a time, one request waiting. *)
(* A newer request stands for the waiting one, and keeps its gate evidence
   unless it is gate evidence itself. *)
Merge(old, new) ==
    [new EXCEPT !.stands = @ \cup old.stands,
                !.evidence = IF new.call \in gate \/ old = None THEN 0
                             ELSE IF old.call \in gate THEN old.call ELSE old.evidence]

Request(c) == [call |-> c, evidence |-> 0, stands |-> {c}]

Queue(c) ==
    /\ IF runner = None
       THEN runner' = Request(c) /\ UNCHANGED waiting
       ELSE waiting' = Merge(waiting, Request(c)) /\ UNCHANGED runner
    /\ gates' = IF c \in gate THEN Append(gates, c) ELSE gates
    /\ queued' = [queued EXCEPT ![c] = @ + 1]

NotQueued == UNCHANGED <<runner, waiting, gates, queued>>

(* One recovery ends, captured or failed, and the waiting one follows. *)
Recovered ==
    /\ runner # None
    /\ ended' = ended \cup runner.stands
    /\ runner' = waiting /\ waiting' = None
    /\ UNCHANGED <<worker, answer, abandoned, deciding, owes, gate, gates, queued>>

-----------------------------------------------------------------------------
(* The deciding thread. *)
Call(c) ==
    /\ worker[c] = "none" /\ \A b \in Calls : b < c => worker[b] # "none"
    /\ worker' = [worker EXCEPT ![c] = "deciding"]
    /\ answer' = [answer EXCEPT ![c] = "joining"]
    /\ UNCHANGED <<abandoned, deciding, owes, gate, runner, waiting, gates, ended, queued>>

Serve(c, owing, evidence) ==
    /\ worker[c] = "deciding" /\ (evidence => owing)
    /\ worker' = [worker EXCEPT ![c] = "served"]
    /\ owes' = IF owing THEN owes \cup {c} ELSE owes
    /\ gate' = IF evidence THEN gate \cup {c} ELSE gate
    /\ UNCHANGED <<answer, abandoned, deciding, runner, waiting, gates, ended, queued>>

Fail(c) ==
    /\ worker[c] = "deciding"
    /\ worker' = [worker EXCEPT ![c] = "failed"]
    /\ UNCHANGED <<answer, abandoned, deciding, owes, gate, runner, waiting, gates,
                   ended, queued>>

Finished(c) == worker[c] \in {"closing", "done"}

Count(c) == IF c \in abandoned THEN deciding - 1 ELSE deciding

BadLateOwed_Any(c) == c \in owes

LateOwed(c) == c \in abandoned /\ c \in owes

(* Under the service's lock: the count is given back, and the decision is
   the thread's own from here on if it was abandoned. *)
Finish(c) ==
    /\ worker[c] \in {"served", "failed"}
    /\ deciding' = Count(c)
    /\ worker' = [worker EXCEPT ![c] =
                    IF LateOwed(c) THEN "closing" ELSE "done"]
    /\ UNCHANGED <<answer, abandoned, owes, gate, runner, waiting, gates, ended, queued>>

LateRecovery(c) ==
    /\ worker[c] = "closing"
    /\ worker' = [worker EXCEPT ![c] = "done"]
    /\ Queue(c)
    /\ UNCHANGED <<answer, abandoned, deciding, owes, gate, ended>>

-----------------------------------------------------------------------------
(* The answering thread. *)
(* Joined, or timed out with the decision there: it is answered, and its
   recovery queued once the reply was written, or failed to be. *)
Reply(c) ==
    /\ answer[c] = "joining" /\ worker[c] \in {"served", "failed", "done"}
    /\ answer' = [answer EXCEPT ![c] = IF c \in owes THEN "closing" ELSE "served"]
    /\ UNCHANGED <<worker, abandoned, deciding, owes, gate, runner, waiting, gates,
                   ended, queued>>

Expire(c) ==
    /\ answer[c] = "joining" /\ worker[c] = "deciding"
    /\ answer' = [answer EXCEPT ![c] = "late"]
    /\ UNCHANGED <<worker, abandoned, deciding, owes, gate, runner, waiting, gates,
                   ended, queued>>

BadAbandons_Always(c) == TRUE

Abandons(c) == ~Finished(c)

(* Under the service's lock: abandoned unless it has finished meanwhile. *)
GiveUp(c) ==
    /\ answer[c] = "late"
    /\ IF Abandons(c)
       THEN abandoned' = abandoned \cup {c} /\ deciding' = deciding + 1
       ELSE UNCHANGED <<abandoned, deciding>>
    /\ answer' = [answer EXCEPT ![c] =
                    IF ~Abandons(c) /\ c \in owes THEN "closing" ELSE "refused"]
    /\ UNCHANGED <<worker, owes, gate, runner, waiting, gates, ended, queued>>

Recover(c) ==
    /\ answer[c] = "closing"
    /\ answer' = [answer EXCEPT ![c] = "served"]
    /\ Queue(c)
    /\ UNCHANGED <<worker, abandoned, deciding, owes, gate, ended>>

Step(c) ==
    \/ Finish(c) \/ LateRecovery(c) \/ Reply(c) \/ Expire(c) \/ GiveUp(c) \/ Recover(c)
    \/ \E owing, evidence \in BOOLEAN : Serve(c, owing, evidence)
    \/ Fail(c)

HookServiceNext == Recovered \/ \E c \in Calls : Call(c) \/ Step(c)

(* Threads that can run do, and a recovery ends (its locks are bounded). *)
HookServiceFair == WF_hsVars(Recovered) /\ \A c \in Calls : WF_hsVars(Step(c))

HookServiceSpec == HookServiceInit /\ [][HookServiceNext]_hsVars /\ HookServiceFair

-----------------------------------------------------------------------------
(* However the two threads race at the deadline, a decision's recovery is
   queued once. *)
RecoveriesAreQueuedOnce == \A c \in Calls : queued[c] <= 1

OwedRecoveriesRunState ==
    \A c \in Calls : c \in ended \/ (c \notin owes /\ queued[c] = 0)

(* And it is carried out, alone or by a newer one that stands for it. *)
OwedRecoveriesRun == []<>OwedRecoveriesRunState

(* The newest gate evidence queued is dealt with, is being, or waits. *)
GateEvidenceIsKept ==
    gates # <<>> =>
        Last(gates) \in ended
            \cup {runner.call, runner.evidence, waiting.call, waiting.evidence}

(* The count that makes later calls record only is that of the decisions
   still running past their deadline. *)
UndecidedAreCounted ==
    deciding = Cardinality({c \in abandoned : worker[c] \in {"deciding", "served", "failed"}})

(* A call is abandoned or answered, never both, and the one of its threads
   that is to queue its recovery is the only one. *)
HookServiceInv ==
    /\ HookServiceTypeOK /\ GateEvidenceIsKept /\ UndecidedAreCounted
    /\ \A c \in Calls :
          /\ answer[c] = "none" <=> worker[c] = "none"
          /\ c \in owes => worker[c] \in {"served", "closing", "done"}
          /\ c \in abandoned => answer[c] = "refused"
          /\ worker[c] = "closing" => c \in abandoned \cap owes
          /\ answer[c] \in {"closing", "served"}
                => worker[c] \in {"served", "failed", "done"}
          /\ answer[c] = "closing" => c \in owes
    /\ queued = [c \in Calls |->
          IF c \in owes /\ (answer[c] = "served"
                            \/ (c \in abandoned /\ worker[c] = "done"))
          THEN 1 ELSE 0]
    /\ gates \in Seq(gate)
    /\ \A r \in {runner, waiting} :
          {r.call, r.evidence} \subseteq r.stands \cup {0} /\ r.call \in owes \cup {0}
    /\ waiting.call \in gate => waiting.evidence = 0

-----------------------------------------------------------------------------
(***************************************************************************)
(* The coordination service's threads.  A connection takes one of a fixed  *)
(* number of worker slots or is closed; a call that waits for mail lends   *)
(* its slot back and takes a waiter's place instead.  When the sources on  *)
(* disk have moved, the service stops accepting, lets the requests under   *)
(* way end, and executes itself again; on a signal it only stops.          *)
(***************************************************************************)

CONSTANTS
    Requests,       \* connections that may be open at once
    Workers,        \* WORKERS
    Waiters         \* MAX_WAITERS

VARIABLES
    requestAt,      \* where each connection's thread is
    slots,          \* free worker slots
    waiterSlots,    \* free waiters' places
    acquired,       \* what the drain has taken: waiters' places, then slots
    serviceAt,      \* the main thread
    stopping,       \* the sources moved: the service is to be executed again
    signalled,      \* a signal told it to stop
    drainedLate     \* the drain met its deadline

slotVars == <<requestAt, slots, waiterSlots, acquired, serviceAt, stopping, signalled, drainedLate>>

SlotsTypeOK ==
    /\ requestAt \in [Requests -> {"none", "serving", "waiting", "returning",
                                   "returned"}]
    /\ slots \in 0..Workers /\ waiterSlots \in 0..Waiters
    /\ acquired \in [waiters : 0..Waiters, slots : 0..Workers]
    /\ serviceAt \in {"serving", "shut", "draining", "closed", "replaced", "stopped"}
    /\ stopping \in BOOLEAN /\ signalled \in BOOLEAN /\ drainedLate \in BOOLEAN

SlotsInit ==
    /\ requestAt = [r \in Requests |-> "none"]
    /\ slots = Workers /\ waiterSlots = Waiters
    /\ acquired = [waiters |-> 0, slots |-> 0]
    /\ serviceAt = "serving" /\ stopping = FALSE /\ signalled = FALSE /\ drainedLate = FALSE

(* The process is there until it is replaced or ends; its threads end with it. *)
Alive == serviceAt \notin {"replaced", "stopped"}

-----------------------------------------------------------------------------
(* process_request: a slot, or the connection is closed unanswered. *)
Connect(r) ==
    /\ serviceAt = "serving" /\ requestAt[r] = "none"
    /\ \/ slots > 0 /\ slots' = slots - 1 /\ requestAt' = [requestAt EXCEPT ![r] = "serving"]
       \/ slots = 0 /\ UNCHANGED <<slots, requestAt>>
    /\ UNCHANGED <<waiterSlots, acquired, serviceAt, stopping, signalled, drainedLate>>

BadFinish_Kept(r) == requestAt' = [requestAt EXCEPT ![r] = "none"] /\ UNCHANGED slots

(* process_request_thread: the slot comes back however the request ended. *)
FinishCall(r) == requestAt' = [requestAt EXCEPT ![r] = "none"] /\ slots' = slots + 1

(* do_POST and do_GET: answered, or refused for its credential, its size, its
   form, the lane's pause, or because the service is about to be replaced. *)
AnswerRequest(r) ==
    /\ Alive /\ requestAt[r] \in {"serving", "returned"}
    /\ FinishCall(r)
    /\ UNCHANGED <<waiterSlots, acquired, serviceAt, stopping, signalled, drainedLate>>

BadLend_PlaceKept(r) == slots' = slots + 1 /\ UNCHANGED waiterSlots

(* waiting: a place among the waiters for the slot; without one the call looks
   once and is answered. *)
Lend(r) ==
    waiterSlots' = waiterSlots - 1 /\ slots' = slots + 1

WaitForMail(r) ==
    /\ Alive /\ requestAt[r] = "serving" /\ waiterSlots > 0 /\ ~stopping
    /\ Lend(r) /\ requestAt' = [requestAt EXCEPT ![r] = "waiting"]
    /\ UNCHANGED <<acquired, serviceAt, stopping, signalled, drainedLate>>

(* waits.wait: mail has come, the time is over, or the service is stopping. *)
WaitEnds(r) ==
    /\ Alive /\ requestAt[r] = "waiting"
    /\ requestAt' = [requestAt EXCEPT ![r] = "returning"]
    /\ UNCHANGED <<slots, waiterSlots, acquired, serviceAt, stopping, signalled, drainedLate>>

(* The slot is taken back first, with the waiter's place still held. *)
TakeBack(r) ==
    /\ Alive /\ requestAt[r] = "returning" /\ slots > 0
    /\ slots' = slots - 1 /\ waiterSlots' = waiterSlots + 1
    /\ requestAt' = [requestAt EXCEPT ![r] = "returned"]
    /\ UNCHANGED <<acquired, serviceAt, stopping, signalled, drainedLate>>

-----------------------------------------------------------------------------
(* drifted: seen by a request or by the accept loop. *)
Drift ==
    /\ serviceAt = "serving" /\ ~stopping /\ stopping' = TRUE
    /\ UNCHANGED <<requestAt, slots, waiterSlots, acquired, serviceAt, signalled, drainedLate>>

Signal ==
    /\ Alive /\ ~signalled /\ signalled' = TRUE
    /\ UNCHANGED <<requestAt, slots, waiterSlots, acquired, serviceAt, stopping, drainedLate>>

(* shutdown: the accept loop ends. *)
Shutdown ==
    /\ serviceAt = "serving" /\ (stopping \/ signalled)
    /\ serviceAt' = "shut"
    /\ UNCHANGED <<requestAt, slots, waiterSlots, acquired, stopping, signalled, drainedLate>>

(* relaunching *)
Relaunching == stopping /\ ~signalled

StartDrain ==
    /\ serviceAt = "shut" /\ serviceAt' = (IF Relaunching THEN "draining" ELSE "closed")
    /\ UNCHANGED <<requestAt, slots, waiterSlots, acquired, stopping, signalled, drainedLate>>

(* drain: every waiter's place first, then every slot. *)
DrainOne ==
    \/ /\ acquired.waiters < Waiters /\ waiterSlots > 0 /\ waiterSlots' = waiterSlots - 1
       /\ acquired' = [acquired EXCEPT !.waiters = @ + 1] /\ UNCHANGED slots
    \/ /\ acquired.waiters = Waiters /\ slots > 0 /\ slots' = slots - 1
       /\ acquired' = [acquired EXCEPT !.slots = @ + 1] /\ UNCHANGED waiterSlots

DrainStep ==
    /\ serviceAt = "draining" /\ acquired.slots < Workers /\ DrainOne
    /\ UNCHANGED <<requestAt, serviceAt, stopping, signalled, drainedLate>>

(* All taken, or the deadline: what was taken is given back. *)
EndDrain(late) ==
    /\ serviceAt = "draining" /\ late = (acquired.slots < Workers)
    /\ serviceAt' = "closed" /\ drainedLate' = late
    /\ waiterSlots' = waiterSlots + acquired.waiters
    /\ slots' = slots + acquired.slots
    /\ acquired' = [waiters |-> 0, slots |-> 0]
    /\ UNCHANGED <<requestAt, stopping, signalled>>

(* main: executed again, unless a signal came meanwhile. *)
EndProcess ==
    /\ serviceAt = "closed" /\ serviceAt' = (IF Relaunching THEN "replaced" ELSE "stopped")
    /\ UNCHANGED <<requestAt, slots, waiterSlots, acquired, stopping, signalled, drainedLate>>

SlotsNext ==
    \/ \E r \in Requests :
         Connect(r) \/ AnswerRequest(r) \/ WaitForMail(r) \/ WaitEnds(r) \/ TakeBack(r)
    \/ Drift \/ Signal \/ Shutdown \/ StartDrain \/ DrainStep
    \/ EndDrain(TRUE) \/ EndDrain(FALSE) \/ EndProcess

SlotsSpec == SlotsInit /\ [][SlotsNext]_slotVars

-----------------------------------------------------------------------------
(* Every slot is free, held by one request, or taken by the drain: a wait lends
   exactly what it takes back, and no way of ending a request loses one. *)
SlotsAreConserved ==
    slots + acquired.slots
        + Cardinality({r \in Requests : requestAt[r] \in {"serving", "returned"}}) = Workers

(* The process is replaced with no request under way, unless the deadline passed. *)
ReplacedWhenIdle ==
    serviceAt = "replaced" /\ ~drainedLate => \A r \in Requests : requestAt[r] = "none"

SignalsStopTheServiceStep ==
    signalled => serviceAt' # "replaced"

(* A signal while the requests are let to end still stops the service. *)
SignalsStopTheService == [][SignalsStopTheServiceStep]_slotVars

(* Waiters' places are kept as slots are, the drain takes them first, and what
   it did not meet its deadline for is idle. *)
SlotsInv ==
    /\ SlotsTypeOK /\ SlotsAreConserved /\ ReplacedWhenIdle
    /\ waiterSlots + acquired.waiters
          + Cardinality({r \in Requests : requestAt[r] \in {"waiting", "returning"}}) = Waiters
    /\ serviceAt # "draining" => acquired = [waiters |-> 0, slots |-> 0]
    /\ acquired.slots > 0 => acquired.waiters = Waiters
    /\ serviceAt = "replaced" => Relaunching
    /\ serviceAt = "closed" /\ Relaunching /\ ~drainedLate
          => \A r \in Requests : requestAt[r] = "none"
=============================================================================
