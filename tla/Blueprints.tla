------------------------------- MODULE Blueprints -------------------------------
(***************************************************************************)
(* The run of a blueprint on one issue: hand a prompt to the lane and wait *)
(* for its report, run a test, wait for the checks of the pull request,    *)
(* end.  A walk holds the run's lock, works on a copy of the record and    *)
(* saves it when a node has passed and when the walk stops; a walk that is *)
(* cut loses the rest.  The supervisor walks every run in progress that is *)
(* due.  A prompt is mail under a key made of the node and the visits.     *)
(***************************************************************************)
EXTENDS Naturals

CONSTANTS
    MaxVisits,      \* MAX_VISITS, the nodes one run may visit
    MaxReds,        \* model bound: red verdicts the forge gives
    MaxBlueprintRuns,        \* model bound: times the operator starts the blueprint
    MaxBlueprintCuts         \* model bound: walks that are cut

VARIABLES
    blueprint,      \* whether the blueprint is recorded
    byLabel,        \* whether a label selects the blueprint by default
    heldOpen,       \* whether the lane holds the issue open
    runRecord,      \* the run in blueprint-runs.json
    copy,           \* the record the walk works on
    walkAt,         \* where the walk is
    sent,           \* prompts in the lane's mail, by key and text
    answer,         \* the lane's last report
    verdict,        \* what the supervisor last read of the checks
    reds,           \* red verdicts so far: a head and an attempt each
    runs, serviceCuts      \* model bounds

blueprintVars == <<blueprint, byLabel, heldOpen, runRecord, copy, walkAt, sent, answer, verdict,
                   reds, runs, serviceCuts>>

Nodes == {"work", "test", "checks", "end"}
Texts == {"plain", "x", "y"}
Statuses == {"none", "running", "waiting", "done", "blocked"}

(* parse and _node: a failure leads to a node of the blueprint, by default the
   failed one. *)
Parsed == [retries : 0..1, onFailure : {"work", "itself"}]

RunRecords ==
    [status : Statuses, plan : Parsed, node : Nodes, visits : 0..MaxVisits + 1,
     failures : [Nodes -> 0..2], output : Texts, judged : 0..MaxReds]
NoRun == [status |-> "none", plan |-> [retries |-> 0, onFailure |-> "work"], node |-> "work",
          visits |-> 0, failures |-> [n \in Nodes |-> 0], output |-> "plain", judged |-> 0]
BlueprintsTypeOK ==
    /\ blueprint \in BOOLEAN /\ byLabel \in BOOLEAN /\ heldOpen \in BOOLEAN
    /\ runRecord \in RunRecords /\ copy \in RunRecords
    /\ walkAt \in {"idle", "loop", "asking", "asked", "stopping"}
    /\ sent \subseteq [visits : 0..MaxVisits, text : Texts]
    /\ answer \in [outcome : {"none", "ready", "blocked"}, summary : Texts,
                   afterRecord : BOOLEAN, afterCopy : BOOLEAN]
    /\ verdict \in {"pending", "red", "exhausted", "green", "closed"}
    /\ reds \in 0..MaxReds /\ runs \in 0..MaxBlueprintRuns /\ serviceCuts \in 0..MaxBlueprintCuts

BlueprintsInit ==
    /\ blueprint = FALSE /\ byLabel = FALSE /\ heldOpen = TRUE
    /\ runRecord = NoRun /\ copy = NoRun /\ walkAt = "idle"
    /\ sent = {} /\ verdict = "pending" /\ reds = 0 /\ runs = 0 /\ serviceCuts = 0
    /\ answer = [outcome |-> "none", summary |-> "plain",
                 afterRecord |-> FALSE, afterCopy |-> FALSE]

-----------------------------------------------------------------------------
(* The operator's blueprints.  A run keeps its own copy, so what changes after the
   last start is left out: a model bound. *)

(* define: a blueprint is recorded, or removed unless a label selects it. *)
Define ==
    /\ runs < MaxBlueprintRuns
    /\ \/ blueprint' = TRUE
       \/ blueprint /\ ~byLabel /\ blueprint' = FALSE
    /\ UNCHANGED <<byLabel, heldOpen, runRecord, copy, walkAt, sent, answer, verdict, reds, runs,
                   serviceCuts>>

(* default: only a recorded blueprint. *)
Default ==
    /\ runs < MaxBlueprintRuns
    /\ byLabel \/ blueprint
    /\ byLabel' = ~byLabel
    /\ UNCHANGED <<blueprint, heldOpen, runRecord, copy, walkAt, sent, answer, verdict, reds,
                   runs, serviceCuts>>

InProgress(record) == record.status \in {"running", "waiting"}

(* chosen: the blueprint named, or the one a label selects; it must be
   recorded either way.  With label defaults an unnamed launch is refused when
   the labels are unreadable or select several, which changes nothing. *)
Chosen(named) == (named \/ byLabel) /\ blueprint

(* start: the run keeps its own copy of the nodes. *)
Start ==
    /\ walkAt = "idle" /\ (\E named \in BOOLEAN : Chosen(named)) /\ heldOpen /\ ~InProgress(runRecord)
    /\ runs < MaxBlueprintRuns /\ runs' = runs + 1
    /\ \E p \in Parsed : runRecord' = [NoRun EXCEPT !.status = "running", !.plan = p]
    /\ copy' = runRecord' /\ walkAt' = "loop"
    /\ answer' = [answer EXCEPT !.afterRecord = answer.outcome # "none",
                                !.afterCopy = answer.outcome # "none"]
    /\ UNCHANGED <<blueprint, byLabel, heldOpen, sent, verdict, reds, serviceCuts>>

-----------------------------------------------------------------------------
(* Around the run. *)

(* The lane reports ready or blocked with a rotation that names the issue. *)
LaneReports ==
    /\ \E o \in {"ready", "blocked"}, s \in {"x", "y"} :
         answer' = [outcome |-> o, summary |-> s, afterRecord |-> TRUE,
                    afterCopy |-> walkAt # "idle"]
    /\ sent # {}
    /\ UNCHANGED <<blueprint, byLabel, heldOpen, runRecord, copy, walkAt, sent, verdict, reds,
                   runs, serviceCuts>>

LaneLoses ==
    /\ heldOpen /\ heldOpen' = FALSE
    /\ UNCHANGED <<blueprint, byLabel, runRecord, copy, walkAt, sent, answer, verdict, reds,
                   runs, serviceCuts>>

(* The supervisor's reading of the branch's head: a push or a re-run the
   supervisor asked for makes it pending; every red verdict is another head or
   another attempt. *)
ForgeAnswers ==
    /\ \/ verdict' \in {"pending", "green", "closed"} \ {verdict} /\ UNCHANGED reds
       \/ reds < MaxReds /\ reds' = reds + 1 /\ verdict' \in {"red", "exhausted"}
    /\ UNCHANGED <<blueprint, byLabel, heldOpen, runRecord, copy, walkAt, sent, answer, runs,
                   serviceCuts>>

-----------------------------------------------------------------------------
(* The walk. *)

(* _reported *)
Reported == answer.afterRecord

(* _due: a run that waits for its lane has nothing to act on before the report. *)
Due ==
    runRecord.status = "waiting" /\ runRecord.node = "work" => Reported

(* advance, and _moved for the supervisor's poll, which leaves out a run that is
   neither lost nor due. *)
Begin(bySupervisor) ==
    /\ walkAt = "idle" /\ InProgress(runRecord)
    /\ bySupervisor /\ heldOpen => Due
    /\ copy' = [runRecord EXCEPT !.status = IF heldOpen THEN runRecord.status ELSE "blocked"]
    /\ walkAt' = IF heldOpen THEN "loop" ELSE "stopping"
    /\ answer' = [answer EXCEPT !.afterCopy = answer.afterRecord]
    /\ UNCHANGED <<blueprint, byLabel, heldOpen, runRecord, sent, verdict, reds, runs, serviceCuts>>

Leave == walkAt' = "idle" /\ copy' = NoRun

Save == runRecord' = copy' /\ answer' = [answer EXCEPT !.afterRecord = answer.afterCopy]

Keep == UNCHANGED <<runRecord, answer>>

Following(node) ==
    CASE node = "work" -> "test" [] node = "test" -> "checks" [] OTHER -> "end"

(* A node that passed is recorded before the next one runs. *)
Passes(out) ==
    /\ copy' = [copy EXCEPT !.status = "running", !.visits = @ + 1, !.output = out,
                            !.node = Following(copy.node)]
    /\ walkAt' = "loop"
    /\ Save

(* A node that failed goes where its failure leads, or blocks the run; the
   record is saved when the walk stops. *)
Fails(out, judged) ==
    LET node == copy.node
        count == copy.failures[node] + 1
        failed == [copy EXCEPT !.visits = @ + 1, !.output = out, !.judged = judged,
                               !.failures[node] = count]
    IN  /\ IF count > copy.plan.retries
           THEN copy' = [failed EXCEPT !.status = "blocked"] /\ walkAt' = "stopping"
           ELSE /\ copy' = [failed EXCEPT !.status = "running",
                                !.node = IF copy.plan.onFailure = "itself" THEN node ELSE "work"]
                /\ walkAt' = "loop"
        /\ Keep

Walking == walkAt = "loop" /\ copy.visits < MaxVisits

(* _walk: a report node ends the run, and so do too many visits. *)
Ends ==
    /\ walkAt = "loop"
    /\ \/ copy.node = "end" /\ copy' = [copy EXCEPT !.status = "done"]
       \/ copy.node # "end" /\ copy.visits >= MaxVisits
          /\ copy' = [copy EXCEPT !.status = "blocked"]
    /\ walkAt' = "stopping"
    /\ UNCHANGED <<blueprint, byLabel, heldOpen, runRecord, sent, answer, verdict, reds, runs, serviceCuts>>

(* _agent: the report since the prompt decides; without one the walk stops. *)
ReadReport ==
    /\ Walking /\ copy.node = "work" /\ copy.status = "waiting"
    /\ IF ~answer.afterCopy
       THEN walkAt' = "stopping" /\ UNCHANGED copy /\ Keep
       ELSE IF answer.outcome = "ready" THEN Passes(answer.summary)
       ELSE Fails(answer.summary, copy.judged)
    /\ UNCHANGED <<blueprint, byLabel, heldOpen, sent, verdict, reds, runs, serviceCuts>>

(* Otherwise the time is taken, and the prompt sent: with the output of the step
   that failed, if one did. *)
Ask ==
    /\ Walking /\ copy.node = "work" /\ copy.status = "running"
    /\ walkAt' = "asking" /\ answer' = [answer EXCEPT !.afterCopy = FALSE]
    /\ UNCHANGED <<blueprint, byLabel, heldOpen, runRecord, copy, sent, verdict, reds, runs, serviceCuts>>

Prompt ==
    [visits |-> copy.visits,
     text |-> IF \E n \in Nodes : copy.failures[n] > 0 THEN copy.output ELSE "plain"]

Clashes == \E p \in sent : p.visits = Prompt.visits /\ p.text # Prompt.text

(* say: the same message again is a duplicate, another under its key is refused
   and ends the walk with nothing saved. *)
Say ==
    /\ walkAt = "asking"
    /\ IF Clashes THEN Leave /\ UNCHANGED sent /\ answer' = [answer EXCEPT !.afterCopy = FALSE]
       ELSE walkAt' = "asked" /\ sent' = sent \cup {Prompt} /\ UNCHANGED <<copy, answer>>
    /\ UNCHANGED <<blueprint, byLabel, heldOpen, runRecord, verdict, reds, runs, serviceCuts>>

Asked ==
    /\ walkAt = "asked"
    /\ copy' = [copy EXCEPT !.status = "waiting"] /\ walkAt' = "stopping"
    /\ UNCHANGED <<blueprint, byLabel, heldOpen, runRecord, sent, answer, verdict, reds, runs, serviceCuts>>

(* _execute: the command passes, fails or runs out of time; what it prints may
   differ each time.  A push or a pull request node goes the same way. *)
Execute ==
    /\ Walking /\ copy.node = "test"
    /\ Passes("x") \/ Fails("x", copy.judged) \/ Fails("y", copy.judged)
    /\ UNCHANGED <<blueprint, byLabel, heldOpen, sent, verdict, reds, runs, serviceCuts>>

JudgedBefore == copy.judged = reds

(* _wait_ci: a red verdict is judged once, a closed pull request ends the run,
   and so do red checks without CI rounds left. *)
WaitChecks ==
    /\ Walking /\ copy.node = "checks"
    /\ CASE verdict = "green" -> Passes("x")
         [] verdict = "closed" ->
              copy' = [copy EXCEPT !.status = "blocked"] /\ walkAt' = "stopping" /\ Keep
         [] verdict = "red" /\ ~JudgedBefore -> Fails("y", reds)
         [] verdict = "exhausted" /\ ~JudgedBefore ->
              copy' = [copy EXCEPT !.status = "blocked", !.judged = reds]
              /\ walkAt' = "stopping" /\ Keep
         [] OTHER -> copy' = [copy EXCEPT !.status = "waiting"] /\ walkAt' = "stopping" /\ Keep
    /\ UNCHANGED <<blueprint, byLabel, heldOpen, sent, verdict, reds, runs, serviceCuts>>

(* _save, where the walk stops. *)
Stop ==
    /\ walkAt = "stopping" /\ Leave /\ runRecord' = copy
    /\ answer' = [answer EXCEPT !.afterRecord = answer.afterCopy, !.afterCopy = FALSE]
    /\ UNCHANGED <<blueprint, byLabel, heldOpen, sent, verdict, reds, runs, serviceCuts>>

(* The process of the walk ends, or the mailbox or the disk refuses. *)
Cut ==
    /\ walkAt # "idle" /\ serviceCuts < MaxBlueprintCuts /\ serviceCuts' = serviceCuts + 1 /\ Leave
    /\ answer' = [answer EXCEPT !.afterCopy = FALSE]
    /\ UNCHANGED <<blueprint, byLabel, heldOpen, runRecord, sent, verdict, reds, runs>>

Walk ==
    Ends \/ ReadReport \/ Ask \/ Say \/ Asked \/ Execute \/ WaitChecks \/ Stop

BlueprintsNext ==
    \/ Define \/ Default \/ Start \/ LaneReports \/ LaneLoses \/ ForgeAnswers
    \/ Begin(TRUE) \/ Begin(FALSE) \/ Walk \/ Cut

BlueprintsSpec == BlueprintsInit /\ [][BlueprintsNext]_blueprintVars

-----------------------------------------------------------------------------
FailureCount(record) ==
    record.failures["work"] + record.failures["test"] + record.failures["checks"] + record.failures["end"]

PassCount(record) == record.visits - FailureCount(record)

(* What a cut loses is never a node that passed: whenever the walk is about to run
   a node, the record knows of every one that passed before, so no later process
   runs it again. *)
NothingRunsOnAnUnrecordedPass ==
    walkAt = "loop" => PassCount(copy) = PassCount(runRecord)

(* However walks are cut and begun again, the same red verdict costs a run one
   failure: the next needs another head or another attempt. *)
AFailureForEachVerdict ==
    copy.failures["checks"] <= reds /\ runRecord.failures["checks"] <= reds

(* A run waits for its lane only with the prompt of that visit in the lane's mail. *)
WaitingRunsWereAsked ==
    runRecord.status = "waiting" /\ runRecord.node = "work" =>
        \E p \in sent : p.visits = runRecord.visits

(* A label never selects a blueprint that is no longer recorded. *)
DefaultsAreRecorded == byLabel => blueprint
-----------------------------------------------------------------------------
(* What makes them inductive. *)
FlagsShape == blueprint \in BOOLEAN /\ byLabel \in BOOLEAN /\ heldOpen \in BOOLEAN
RecordShape == runRecord \in RunRecords
CopyShape == copy \in RunRecords
WalkShape == walkAt \in {"idle", "loop", "asking", "asked", "stopping"}
SentShape == sent \subseteq [visits : 0..MaxVisits, text : Texts]
AnswerShape ==
    answer \in [outcome : {"none", "ready", "blocked"}, summary : Texts, afterRecord : BOOLEAN,
                afterCopy : BOOLEAN]
VerdictShape == verdict \in {"pending", "red", "exhausted", "green", "closed"}
CountsShape == reds \in 0..MaxReds /\ runs \in 0..MaxBlueprintRuns /\ serviceCuts \in 0..MaxBlueprintCuts

(* A walk works on a run in progress, and asks within the visits it may make. *)
WalksAreInProgress ==
    /\ walkAt \in {"loop", "asking", "asked"} => InProgress(copy)
    /\ walkAt = "asking" => copy.visits < MaxVisits

PromptIsSent == walkAt = "asked" => \E p \in sent : p.visits = copy.visits

(* A run in progress has no node that failed beyond its retries, each verdict it was
   failed for was judged, and it waits for the lane only when that was asked. *)
WithinRetries(record) ==
    InProgress(record) => \A n \in Nodes : record.failures[n] <= record.plan.retries
Judged(record) == record.failures["checks"] <= record.judged /\ record.judged <= reds
WasAsked(record) ==
    record.status = "waiting" /\ record.node = "work" => \E p \in sent : p.visits = record.visits

RecordWithinRetries == WithinRetries(runRecord)
CopyWithinRetries == WithinRetries(copy)
RecordIsJudged == Judged(runRecord)
CopyIsJudged == Judged(copy)
RecordWasAsked == WasAsked(runRecord)
CopyWasAsked == WasAsked(copy)

BlueprintsInv ==
    /\ FlagsShape /\ RecordShape /\ CopyShape /\ WalkShape /\ SentShape /\ AnswerShape
    /\ VerdictShape /\ CountsShape /\ WalksAreInProgress /\ PromptIsSent
    /\ RecordWithinRetries /\ CopyWithinRetries /\ RecordIsJudged /\ CopyIsJudged
    /\ RecordWasAsked /\ CopyWasAsked /\ NothingRunsOnAnUnrecordedPass /\ DefaultsAreRecorded
================================================================================
