---------------------------- MODULE UnattendedAttempts ----------------------------
(***************************************************************************)
(* The service's own attempts to integrate a ready lane.  Each poll starts *)
(* a thread for covered ready work unless one is running or the newest     *)
(* decision on this claim and commit settles it; the thread evaluates,     *)
(* runs the candidate gate on a copy, and merges if the target has not     *)
(* moved meanwhile.  What it decided is recorded, and is what keeps the    *)
(* next poll from doing it again.                                          *)
(***************************************************************************)
EXTENDS Naturals

CONSTANTS
    Rounds,         \* ROUNDS: candidates one attempt gates
    MaxCommits,     \* model bound: ready commits of the lane
    MaxTargets,     \* model bound: commits of the target
    MaxToggles      \* model bound: changes of what else admission reads

VARIABLES
    covered,        \* the policy lists the issue and is auto
    source,         \* the commit the work is reported ready at
    done,           \* the work is recorded complete
    target,         \* the commit of the target branch
    overlap,        \* a peer's reservation covers the changed paths
    inSession,      \* the lane's session is running
    newest,         \* the newest decision recorded for the lane
    attemptAt,      \* the attempt's thread
    pollSaw,        \* what the poll read: a thread running, or not
    decidedBy,      \* ghost: sources and targets the service decided on
    repeated,       \* ghost: it decided on one of them again
    toggles         \* model bound

attemptVars == <<covered, source, done, target, overlap, inSession, newest, attemptAt, pollSaw,
                 decidedBy, repeated, toggles>>

Decisions == [source : 0..MaxCommits, target : 0..MaxTargets,
              outcome : {"none", "refused", "busy", "failed", "integrated"}]
NoAttempt == [at |-> "none", source |-> 0, target |-> 0, round |-> 0]

AttemptsTypeOK ==
    /\ covered \in BOOLEAN /\ done \in BOOLEAN /\ overlap \in BOOLEAN /\ inSession \in BOOLEAN
    /\ source \in 1..MaxCommits /\ target \in 1..MaxTargets
    /\ newest \in Decisions
    /\ attemptAt \in [at : {"none", "started", "gating", "gated"}, source : 0..MaxCommits,
                      target : 0..MaxTargets, round : 0..Rounds]
    /\ pollSaw \in {"nothing", "running", "free"}
    /\ repeated \in BOOLEAN /\ toggles \in 0..MaxToggles

AttemptsInit ==
    /\ covered = TRUE /\ source = 1 /\ done = FALSE /\ target = 1
    /\ overlap \in BOOLEAN /\ inSession \in BOOLEAN
    /\ newest = [source |-> 0, target |-> 0, outcome |-> "none"]
    /\ attemptAt = NoAttempt /\ pollSaw = "nothing"
    /\ decidedBy = {} /\ repeated = FALSE /\ toggles = 0

-----------------------------------------------------------------------------
(* What else happens: the lane reports another commit, the target moves, and what
   admission reads changes. *)
Around ==
    /\ \/ ~done /\ source < MaxCommits /\ source' = source + 1
          /\ UNCHANGED <<covered, target, overlap, inSession, toggles>>
       \/ target < MaxTargets /\ target' = target + 1
          /\ UNCHANGED <<covered, source, overlap, inSession, toggles>>
       \/ /\ toggles < MaxToggles /\ toggles' = toggles + 1 /\ UNCHANGED <<source, target>>
          /\ \/ overlap' = ~overlap /\ UNCHANGED <<covered, inSession>>
             \/ inSession' = ~inSession /\ UNCHANGED <<covered, overlap>>
             \/ covered' = ~covered /\ UNCHANGED <<inSession, overlap>>
    /\ UNCHANGED <<done, newest, attemptAt, pollSaw, decidedBy, repeated>>

-----------------------------------------------------------------------------
(* supervise. *)

(* _decided: another commit, a target that moved, or a session that kept the
   attempt out are news. *)
Settled ==
    /\ newest.outcome # "none" /\ newest.source = source
    /\ ~(newest.target # 0 /\ newest.target # target)
    /\ newest.outcome # "busy"

(* The running threads are listed before any decision is read. *)
ThreadsFirst ==
    /\ pollSaw = "nothing"
    /\ pollSaw' = (IF attemptAt.at = "none" THEN "free" ELSE "running")
    /\ UNCHANGED <<covered, source, done, target, overlap, inSession, newest, attemptAt,
                   decidedBy, repeated, toggles>>

(* Then the ready work is looked at, and a thread started for what has news. *)
StartAttempt ==
    /\ pollSaw # "nothing" /\ pollSaw' = "nothing"
    /\ attemptAt' = IF pollSaw = "free" /\ covered /\ ~done /\ ~Settled /\ ~inSession
                    THEN [at |-> "started", source |-> 0, target |-> 0, round |-> 0]
                    ELSE attemptAt
    /\ UNCHANGED <<covered, source, done, target, overlap, inSession, newest, decidedBy,
                   repeated, toggles>>

-----------------------------------------------------------------------------
(* The attempt. *)

(* _record, refuse and failed: the decision names what it was read on. *)
Record(outcome, s, t) ==
    /\ newest' = [source |-> s, target |-> t, outcome |-> outcome]
    /\ attemptAt' = NoAttempt
    /\ decidedBy' = IF outcome = "busy" THEN decidedBy ELSE decidedBy \cup {<<s, t>>}
    /\ repeated' = (repeated \/ (outcome # "busy" /\ <<s, t>> \in decidedBy))

(* _evaluate: nothing is recorded for work that is no longer this claim's; a
   refusal names the target it was read on. *)
Evaluate ==
    /\ attemptAt.at = "started"
    /\ IF done \/ ~covered
       THEN attemptAt' = NoAttempt /\ UNCHANGED <<newest, decidedBy, repeated>>
       ELSE IF overlap THEN Record("refused", source, target)
       ELSE /\ attemptAt' = [attemptAt EXCEPT !.at = "gating", !.source = source,
                                              !.target = target, !.round = @ + 1]
            /\ UNCHANGED <<newest, decidedBy, repeated>>
    /\ UNCHANGED <<covered, source, done, target, overlap, inSession, pollSaw, toggles>>

(* _candidate: the gate on the merge the attempt would make. *)
Gate ==
    /\ attemptAt.at = "gating"
    /\ \/ attemptAt' = [attemptAt EXCEPT !.at = "gated"] /\ UNCHANGED <<newest, decidedBy, repeated>>
       \/ Record("failed", attemptAt.source, attemptAt.target)
    /\ UNCHANGED <<covered, source, done, target, overlap, inSession, pollSaw, toggles>>

TargetMoved == target # attemptAt.target

BadRoundsLeft_Always == TRUE

RoundsLeft == attemptAt.round < Rounds

(* integrate, under the merge lock: a target that moved is another round. *)
MergeOrAgain ==
    /\ attemptAt.at = "gated"
    /\ CASE TargetMoved /\ RoundsLeft ->
              /\ attemptAt' = [attemptAt EXCEPT !.at = "started"]
              /\ UNCHANGED <<done, newest, decidedBy, repeated>>
         [] TargetMoved /\ ~RoundsLeft ->
              Record("refused", attemptAt.source, attemptAt.target) /\ UNCHANGED done
         [] ~TargetMoved /\ inSession ->
              Record("busy", attemptAt.source, attemptAt.target) /\ UNCHANGED done
         [] ~TargetMoved /\ ~inSession /\ (done \/ source # attemptAt.source) ->
              Record("failed", attemptAt.source, attemptAt.target) /\ UNCHANGED done
         [] OTHER -> Record("integrated", attemptAt.source, attemptAt.target) /\ done' = TRUE
    /\ UNCHANGED <<covered, source, target, overlap, inSession, pollSaw, toggles>>

(* The service stops: its threads end with it, and what they did is not recorded. *)
ServiceStops ==
    /\ attemptAt.at # "none" /\ toggles < MaxToggles /\ toggles' = toggles + 1
    /\ attemptAt' = NoAttempt /\ pollSaw' = "nothing"
    /\ UNCHANGED <<covered, source, done, target, overlap, inSession, newest, decidedBy, repeated>>

(* The operator merges the lane by hand. *)
OperatorMerges ==
    /\ ~done /\ ~inSession /\ target < MaxTargets
    /\ done' = TRUE /\ target' = target + 1
    /\ UNCHANGED <<covered, source, overlap, inSession, newest, attemptAt, pollSaw, decidedBy,
                   repeated, toggles>>

Attempt == Evaluate \/ Gate \/ MergeOrAgain

AttemptsNext ==
    Around \/ ThreadsFirst \/ StartAttempt \/ Attempt \/ ServiceStops \/ OperatorMerges

AttemptsSpec ==
    /\ AttemptsInit /\ [][AttemptsNext]_attemptVars
    /\ WF_attemptVars(ThreadsFirst) /\ WF_attemptVars(StartAttempt) /\ WF_attemptVars(Attempt)

-----------------------------------------------------------------------------
(* The service decides once on a commit against a target: a failing gate is not run
   again every poll, however polls and attempts overlap. *)
NothingIsDecidedTwice == ~repeated

MergesWhatWasGatedStep ==
    ~done /\ done' /\ newest' # newest =>
       newest'.target = target /\ newest'.source = source

(* What is merged was gated on the very target it is merged into. *)
MergesWhatWasGated == [][MergesWhatWasGatedStep]_attemptVars

NothingWaits ==
    ~(/\ covered /\ ~done /\ ~inSession
      /\ \/ newest.outcome \in {"none", "busy"} \/ newest.source # source
         \/ newest.target # target)

(* News is acted upon: covered ready work with the lane quiet does not stay without
   a decision that settles it.  (An approval or a released reservation is no news:
   such a refusal stands until the target moves or the lane reports again.) *)
NewsIsActedUpon == []<>NothingWaits

(* Commits and targets only advance, so a decision is the newest on its target
   and those before it were on no later ones; an attempt is at a pair nothing
   was decided on. *)
AttemptsInv ==
    /\ AttemptsTypeOK /\ NothingIsDecidedTwice
    /\ decidedBy \subseteq (0..MaxCommits) \X (0..MaxTargets)
    /\ newest.outcome = "none" => decidedBy = {} /\ newest.source = 0 /\ newest.target = 0
    /\ newest.source <= source /\ newest.target <= target
    /\ \A p \in decidedBy : p[1] <= newest.source /\ p[2] <= newest.target
    /\ newest.outcome = "busy" => <<newest.source, newest.target>> \notin decidedBy
    /\ pollSaw = "free" => attemptAt.at = "none"
    /\ attemptAt.at = "started" => attemptAt.round < Rounds
    /\ attemptAt.at # "none" => <<source, target>> \notin decidedBy
    /\ attemptAt.at \in {"gating", "gated"} =>
          /\ newest.source <= attemptAt.source /\ attemptAt.source <= source
          /\ newest.target <= attemptAt.target /\ attemptAt.target <= target
          /\ <<attemptAt.source, attemptAt.target>> \notin decidedBy
================================================================================
