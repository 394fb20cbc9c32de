------------------------------- MODULE Limits -------------------------------
(***************************************************************************)
(* What bounds the agents' calls: the keys a retried call is known by, the *)
(* budget of calls, and the convergence check on claims that keep failing. *)
(* The parts share no state: each has its own Init and Next.               *)
(***************************************************************************)
EXTENDS Integers, FiniteSets, Sequences, SequencesExt, FiniteSetsExt

(***************************************************************************)
(* Idempotency keys: what a retried call does.  Two stores keep them by    *)
(* the same rules, the SQLite store per lane and the issue ledger for all  *)
(* lanes together (ledgered).  A call is served in one transaction; when   *)
(* it is refused, the refusal is written by a second one, after the first  *)
(* was rolled back, and other calls may be served between the two.  The    *)
(* effect itself is one step that the current state either admits or not.  *)
(***************************************************************************)

CONSTANTS
    Caller,     \* lanes that call
    Key,        \* idempotency keys
    Args,       \* arguments that tell one call's effect from another's
    Thread,     \* threads that serve calls
    Retained    \* RETAINED_CALLS: rows kept per lane, or in the ledger

VARIABLES
    ledgered,   \* whether the rows are those of the issue ledger
    retained,   \* rows of idempotent_calls, or the ledger's retries
    attempt,    \* the call each thread serves
    admitted,   \* whether the current state admits the effect
    effects     \* the arguments that took effect since a key last had no row

retryVars == <<ledgered, retained, attempt, admitted, effects>>

Row == [caller : Caller, key : Key, args : Args,
        outcome : {"served", "denied"}]
NoAttempt == [phase |-> "none"]
Attempt ==
    {NoAttempt}
        \cup [phase : {"received", "refusing"}, caller : Caller, key : Key, args : Args]
        \cup [phase : {"answered"}, answer : {"served", "replayed", "refused"}]

RetriesTypeOK ==
    /\ ledgered \in BOOLEAN /\ admitted \in BOOLEAN
    /\ retained \in Seq(Row)
    /\ attempt \in [Thread -> Attempt]
    /\ effects \in [Caller \X Key -> Seq(Args)]

(* _recorded: the rows an earlier call of this lane left under this key. *)
Recorded(rows, c, k) ==
    {r \in ToSet(rows) : r.caller = c /\ r.key = k}

Pool(c) == IF ledgered THEN Caller ELSE {c}

(* Only the newest rows stay: of the lane in the store, of all lanes in the
   ledger.  A call adds at most one. *)
Evict(rows, c) ==
    LET mine == {i \in DOMAIN rows : rows[i].caller \in Pool(c)}
    IN  IF Cardinality(mine) > Retained THEN RemoveAt(rows, Min(mine))
        ELSE rows

(* _retain, and _refuse with remember: a key that has a row keeps it. *)
Retain(a, outcome) ==
    retained' = IF Recorded(retained, a.caller, a.key) # {} THEN retained
                ELSE Evict(Append(retained,
                        [caller |-> a.caller, key |-> a.key, args |-> a.args,
                         outcome |-> outcome]), a.caller)

(* The effects of the keys that leave the rows in this step are forgotten. *)
Forget(done) ==
    effects' = [ck \in DOMAIN effects |->
        IF /\ Recorded(retained, ck[1], ck[2]) # {}
           /\ Recorded(retained', ck[1], ck[2]) = {}
        THEN <<>> ELSE done[ck]]

Answered(t, answer) ==
    attempt' = [attempt EXCEPT ![t] = [phase |-> "answered", answer |-> answer]]

RetriesInit ==
    /\ ledgered \in BOOLEAN
    /\ retained = <<>>
    /\ attempt = [t \in Thread |-> NoAttempt]
    /\ admitted = TRUE
    /\ effects = [ck \in Caller \X Key |-> <<>>]

(* A call arrives: a first one, a retry after a lost answer, or a retry
   while the first is still being served. *)
Receive(t) ==
    /\ attempt[t] = NoAttempt
    /\ \E c \in Caller, k \in Key, a \in Args :
          attempt' = [attempt EXCEPT ![t] = [phase |-> "received", caller |-> c,
                        key |-> k, args |-> a]]
    /\ UNCHANGED <<ledgered, retained, admitted, effects>>

Received(t) == attempt[t].phase = "received"

BadReplay_AnyArgs(t) ==
    /\ Received(t)
    /\ \E r \in Recorded(retained, attempt[t].caller, attempt[t].key) :
          IF r.outcome = "served" THEN Answered(t, "replayed")
          ELSE attempt' = [attempt EXCEPT ![t].phase = "refusing"]
    /\ UNCHANGED <<ledgered, retained, admitted, effects>>

(* retries.replayed: the recorded result, the recorded refusal, or the
   refusal of a key that names another call. *)
Replay(t) ==
    /\ Received(t)
    /\ \E r \in Recorded(retained, attempt[t].caller, attempt[t].key) :
          IF r.args = attempt[t].args /\ r.outcome = "served"
          THEN Answered(t, "replayed")
          ELSE attempt' = [attempt EXCEPT ![t].phase = "refusing"]
    /\ UNCHANGED <<ledgered, retained, admitted, effects>>

(* _serve, and issues._change with remember: the effect and its record are
   one transaction. *)
Serve(t) ==
    LET a == attempt[t] IN
    /\ Received(t) /\ admitted
    /\ Recorded(retained, a.caller, a.key) = {}
    /\ Retain(a, "served")
    /\ Forget([effects EXCEPT ![<<a.caller, a.key>>] = Append(@, a.args)])
    /\ Answered(t, "served")
    /\ UNCHANGED <<ledgered, admitted>>

(* The effect is refused and its transaction rolled back. *)
Refuse(t) ==
    /\ Received(t) /\ ~admitted
    /\ Recorded(retained, attempt[t].caller, attempt[t].key) = {}
    /\ attempt' = [attempt EXCEPT ![t].phase = "refusing"]
    /\ UNCHANGED <<ledgered, retained, admitted, effects>>

(* store._refused, issues._refuse: the refusal gets a record of its own. *)
RecordRefusal(t) ==
    /\ attempt[t].phase = "refusing"
    /\ Retain(attempt[t], "denied")
    /\ Forget(effects)
    /\ Answered(t, "refused")
    /\ UNCHANGED <<ledgered, admitted>>

(* Its transaction fails, which is suppressed: the refusal is answered. *)
LoseRefusal(t) ==
    /\ attempt[t].phase = "refusing"
    /\ Answered(t, "refused")
    /\ UNCHANGED <<ledgered, retained, admitted, effects>>

(* The answer leaves, the store is locked (an error nobody records), or the
   server stops with the call under way. *)
Leave(t) ==
    /\ attempt[t] # NoAttempt
    /\ attempt' = [attempt EXCEPT ![t] = NoAttempt]
    /\ UNCHANGED <<ledgered, retained, admitted, effects>>

(* Other calls change what the effect depends on. *)
Change ==
    /\ admitted' = ~admitted
    /\ UNCHANGED <<ledgered, retained, attempt, effects>>

RetriesNext ==
    \/ \E t \in Thread :
          \/ Receive(t) \/ Replay(t) \/ Serve(t) \/ Refuse(t)
          \/ RecordRefusal(t) \/ LoseRefusal(t) \/ Leave(t)
    \/ Change

RetriesSpec == RetriesInit /\ [][RetriesNext]_retryVars

-----------------------------------------------------------------------------
(* While a key has a row, its effect happened once if the row says served
   and never if it says denied, however often the call is retried and in
   whatever order the two transactions of a refusal fall. *)
EffectsMatchRows ==
    \A c \in Caller, k \in Key :
        Len(effects[c, k]) = Cardinality(
            {r \in Recorded(retained, c, k) : r.outcome = "served"})

ReplaysReportTheSameCallStep ==
    \A t \in Thread :
        attempt'[t].phase = "answered" /\ attempt'[t].answer = "replayed"
        /\ attempt[t].phase = "received"
        => effects[attempt[t].caller, attempt[t].key] = <<attempt[t].args>>

(* A replayed answer reports the very call that took effect: a key used
   again for other arguments is refused, never answered with their result. *)
ReplaysReportTheSameCall == [][ReplaysReportTheSameCallStep]_retryVars

LanesKeepTheirOwnKeysStep ==
    \A c \in Caller, k \in Key :
        /\ Recorded(retained, c, k) # {}
        /\ Recorded(retained', c, k) = {}
        => ledgered \/ \E t \in Thread : /\ attempt[t] # attempt'[t]
                                         /\ attempt[t].caller = c

(* In the store a lane's retries do not push out the keys of another lane;
   the ledger promises that only for its newest Retained calls. *)
LanesKeepTheirOwnKeys == [][LanesKeepTheirOwnKeysStep]_retryVars

-----------------------------------------------------------------------------
(***************************************************************************)
(* The enforced budget of a run: a ledger file that counts the calls the   *)
(* store served, admits turns against what is left, and halts the run when *)
(* the limit is reached or the ledger can no longer be trusted.  The       *)
(* operator sets the limit and resumes the run.  The file may be lost or   *)
(* damaged at any time; every operation runs under the ledger's lock.      *)
(***************************************************************************)

CONSTANTS
    BudgetLane,     \* lanes of the project
    MaxServed       \* model bound: calls the store serves, and limits

VARIABLES
    callLimit,      \* the manifest's enforced calls, 0 when none is
    runLedger,      \* run-budget.json
    callsServed,    \* the store's count of calls
    metered,        \* lanes whose use can be read
    owed,           \* ghost: calls served since the accounting period began
    turns           \* ghost: turns admitted since the ledger was last folded

budgetVars == <<callLimit, runLedger, callsServed, metered, owed, turns>>

Fresh == [found |-> "sound", cursor |-> 0, total |-> 0, offset |-> 0,
          exhausted |-> FALSE, missing |-> {}, reserved |-> 0, resumed |-> 0]
NoLedger == [Fresh EXCEPT !.found = "missing"]
DamagedLedger == [Fresh EXCEPT !.found = "damaged"]
BudgetsTypeOK ==
    /\ callLimit \in 0..MaxServed /\ callsServed \in 0..MaxServed
    /\ runLedger.found \in {"sound", "missing", "damaged"}
    /\ {runLedger.cursor, runLedger.total, runLedger.offset} \subseteq 0..MaxServed
    /\ runLedger.exhausted \in BOOLEAN /\ runLedger.missing \subseteq BudgetLane
    /\ runLedger.reserved \in 0..MaxServed /\ runLedger.resumed \in {0, 1}
    /\ metered \subseteq BudgetLane /\ owed \in 0..MaxServed /\ turns \in 0..MaxServed

BudgetsInit ==
    /\ callLimit = 0 /\ runLedger = NoLedger /\ callsServed = 0
    /\ metered = BudgetLane /\ owed = 0 /\ turns = 0

-----------------------------------------------------------------------------
(* The environment: lanes call, records become readable or not, and the
   file is lost or damaged. *)
Call ==
    /\ callsServed < MaxServed
    /\ callsServed' = callsServed + 1
    /\ owed' = IF callLimit > 0 THEN owed + 1 ELSE owed
    /\ UNCHANGED <<callLimit, runLedger, metered, turns>>

Records ==
    /\ \E l \in BudgetLane :
         metered' = IF l \in metered THEN metered \ {l} ELSE metered \cup {l}
    /\ UNCHANGED <<callLimit, runLedger, callsServed, owed, turns>>

Damage ==
    /\ runLedger.found = "sound"
    /\ runLedger' \in {NoLedger, DamagedLedger}
    /\ UNCHANGED <<callLimit, callsServed, metered, owed, turns>>

-----------------------------------------------------------------------------
(* _load: whether the ledger cannot be trusted, so that the run is halted. *)
Cause(found) ==
    CASE found = "sound" -> FALSE
      [] found = "missing" -> callLimit > 0
      [] found = "damaged" -> TRUE

Halted == callLimit > 0 /\ (Cause(runLedger.found) \/ runLedger.exhausted)

Used(g) == g.total - g.offset

Over(g) == callLimit > 0 /\ Used(g) >= callLimit

(* _fold: what was served since the cursor is added and the cursor moves
   with it; what was reserved for admitted turns is in it now. *)
ServedSince(g) ==
    [g EXCEPT !.total = @ + callsServed - g.cursor, !.cursor = callsServed]

Fold(g) ==
    [(IF callLimit > 0 THEN ServedSince(g) ELSE g)
        EXCEPT !.missing = BudgetLane \ metered, !.reserved = 0, !.found = "sound"]

(* account: an untrusted ledger is set aside and a new one is exhausted from
   its first poll; exhaustion once recorded is never taken back here. *)
Exhausts(g, cause) == g.exhausted \/ Over(g) \/ cause

Account ==
    /\ callLimit > 0
    /\ LET cause == Cause(runLedger.found)
           g == Fold(IF cause THEN Fresh ELSE runLedger)
       IN  /\ runLedger' = [g EXCEPT !.exhausted = Exhausts(g, cause)]
           /\ owed' = IF cause THEN callsServed ELSE owed
    /\ turns' = 0
    /\ UNCHANGED <<callLimit, callsServed, metered>>

(* admit: one more turn for a lane, reserving a call for it until the next
   poll has read what it used. *)
BadFits_IgnoresReserved(g) == Used(g) < callLimit

Fits(g) == Used(g) + g.reserved < callLimit

AdmitTurn(l) ==
    /\ callLimit > 0 /\ ~Halted
    /\ l \notin runLedger.missing
    /\ Fits(runLedger)
    /\ runLedger' = [runLedger EXCEPT !.reserved = @ + 1]
    /\ turns' = turns + 1
    /\ UNCHANGED <<callLimit, callsServed, metered, owed>>

(* _begin: a ledger that counts from the present. *)
Begin == [Fresh EXCEPT !.cursor = callsServed]

(* resume: on the operator's authority, and only below the limit or with a
   new accounting period. *)
Resume(reset) ==
    /\ Cause(runLedger.found) => reset
    /\ LET folded == Fold(IF reset THEN Begin ELSE runLedger)
           g == IF reset THEN [folded EXCEPT !.offset = folded.total] ELSE folded
       IN  /\ runLedger.found # "missing" \/ reset
           /\ ~Over(g)
           /\ runLedger' = [g EXCEPT !.exhausted = FALSE,
                                    !.resumed = 1 - runLedger.resumed]
    /\ owed' = IF reset THEN 0 ELSE owed
    /\ turns' = 0
    /\ UNCHANGED <<callLimit, callsServed, metered>>

(* start, then the manifest is saved: a missing ledger begins now, and a
   limit that was not enforced before is counted from now. *)
Started ==
    CASE runLedger.found = "missing" -> Begin
      [] runLedger.found = "sound" /\ callLimit = 0 ->
           [runLedger EXCEPT !.cursor = callsServed]
      [] OTHER -> runLedger

(* Settings.enforce *)
Enforce(limit) ==
    /\ limit # callLimit
    /\ callLimit' = limit
    /\ IF limit > 0
       THEN /\ runLedger' = Started
            /\ owed' = IF runLedger.found = "missing" \/ callLimit = 0
                       THEN Used(Started) ELSE owed
            /\ turns' = IF runLedger.found = "missing" THEN 0 ELSE turns
       ELSE UNCHANGED <<runLedger, owed, turns>>
    /\ UNCHANGED <<callsServed, metered>>

BudgetsNext ==
    \/ Call \/ Records \/ Damage \/ Account
    \/ \E l \in BudgetLane : AdmitTurn(l)
    \/ \E reset \in BOOLEAN : Resume(reset)
    \/ \E limit \in 0..MaxServed : Enforce(limit)

BudgetsSpec == BudgetsInit /\ [][BudgetsNext]_budgetVars

-----------------------------------------------------------------------------
(* While a limit is enforced every call since the period began is either in
   the ledger or still ahead of its cursor: none is lost, none counts twice. *)
UseIsCounted ==
    callLimit > 0 /\ runLedger.found = "sound"
      => Used(runLedger) + (callsServed - runLedger.cursor) = owed

TurnsFitTheRestStep ==
    turns' > turns => Used(runLedger) + turns' <= callLimit

(* The turns admitted between two polls fit what the last one left. *)
TurnsFitTheRest == [][TurnsFitTheRestStep]_budgetVars

HaltHoldsStep ==
    Halted => (Halted' \/ runLedger'.resumed # runLedger.resumed
                        \/ callLimit' # callLimit)

(* A halted run stays halted until the operator resumes it or changes the
   limit, whatever happens to the file that says so. *)
HaltHolds == [][HaltHoldsStep]_budgetVars

-----------------------------------------------------------------------------
(***************************************************************************)
(* The account of whether an issue converges: a poll folds the results in  *)
(* the owner's report log into one account per claim, and asks the owner   *)
(* to change its approach, then the operator to look, while results keep   *)
(* failing.  The ledger and the log are read apart, the log again and      *)
(* again from some time before the newest result folded.                   *)
(***************************************************************************)

CONSTANTS
    RepeatsWanted,  \* convergence_repeats
    MaxResponses,   \* MAX_RESPONSES
    MaxResults,     \* model bound: results in the log
    MaxClaims       \* model bound: claims of the issue

VARIABLES
    claim,      \* the issue's claim in the ledger
    blocked,    \* the issue waits on something outside its lane
    results,    \* the owner's report log
    polled,     \* the claim and the wait a running poll has read, NoPoll outside one
    account,    \* the issue's account in convergence.json
    readTo,     \* the size of the log when it was last read
    asked       \* ghost: responses decided for the current account

convergenceVars == <<claim, blocked, results, polled, account, readTo, asked>>

Outcomes == {"pass", "fail", "none"}
Commits == {1, 2}

(* A result is a report, which is its own subject, or a review of one. *)
Results ==
    [claim : 1..MaxClaims, outcome : Outcomes, commit : Commits, subject : 1..MaxResults]

NoPoll == [claim |-> 0, blocked |-> FALSE]

(* fresh *)
NewAccount(c) ==
    [claim |-> c, ids |-> {}, milestone |-> 0, failedAt |-> 0, failures |-> 0,
     repeats |-> 0, signature |-> 0, seen |-> {}, stage |-> "", stageFailures |-> 0,
     responses |-> 0]

ConvergenceTypeOK ==
    /\ claim \in 1..MaxClaims /\ blocked \in BOOLEAN
    /\ results \in Seq(Results) /\ Len(results) <= MaxResults
    /\ polled.claim \in 0..MaxClaims
    /\ account.claim \in 0..MaxClaims /\ account.ids \subseteq 1..MaxResults
    /\ {account.milestone, account.failedAt, account.failures, account.repeats}
         \subseteq 0..MaxResults
    /\ account.stage \in {"", "approach", "escalated"}
    /\ account.responses \in 0..MaxResponses
    /\ readTo \in 0..MaxResults
    /\ asked \in 0..(MaxResponses + 1)

ConvergenceInit ==
    /\ claim = 1 /\ blocked = FALSE /\ results = <<>> /\ polled = NoPoll
    /\ account = NewAccount(0) /\ readTo = 0 /\ asked = 0

-----------------------------------------------------------------------------
(* The lanes: a report, a review of a report, the issue released and taken
   again, and the issue blocked or ready and resumed. *)
Report ==
    /\ Len(results) < MaxResults
    /\ \E o \in Outcomes, c \in Commits :
         /\ o # "fail" => c = 1
         /\ results' = Append(results, [claim |-> claim, outcome |-> o, commit |-> c,
                                        subject |-> Len(results) + 1])
    /\ UNCHANGED <<claim, blocked, polled, account, readTo, asked>>

Review ==
    /\ Len(results) < MaxResults
    /\ \E s \in DOMAIN results, o \in {"pass", "fail"} :
         /\ results[s].subject = s
         /\ results' = Append(results, [results[s] EXCEPT !.outcome = o])
    /\ UNCHANGED <<claim, blocked, polled, account, readTo, asked>>

TakeAgain ==
    /\ claim < MaxClaims
    /\ claim' = claim + 1
    /\ UNCHANGED <<blocked, results, polled, account, readTo, asked>>

Block ==
    /\ blocked' = ~blocked
    /\ UNCHANGED <<claim, results, polled, account, readTo, asked>>

-----------------------------------------------------------------------------
(* fold: a result without a verdict counts for nothing, a pass for a commit
   reported before the newest failure neither; any other pass is the new
   milestone, and a failure counts once for its commit and signature. *)
Passes(e, i) == results[i].outcome = "pass" /\ results[i].subject >= e.failedAt

Passed(e, i) ==
    [e EXCEPT !.ids = @ \cup {i}, !.milestone = i, !.failures = 0, !.repeats = 0,
              !.signature = 0, !.seen = {}, !.stage = "", !.stageFailures = 0]

Failed(e, i) ==
    LET r == results[i]
        noted == [e EXCEPT !.ids = @ \cup {i}, !.failedAt = i]
    IN  IF r.commit \in e.seen THEN noted
        ELSE [noted EXCEPT !.seen = @ \cup {r.commit}, !.failures = @ + 1,
                           !.repeats = IF e.signature = 1 THEN @ + 1 ELSE 1,
                           !.signature = 1]

FoldResult(e, i) ==
    CASE Passes(e, i) -> Passed(e, i)
      [] results[i].outcome = "fail" -> Failed(e, i)
      [] OTHER -> [e EXCEPT !.ids = @ \cup {i}]

(* The results of this claim that the account has not folded. *)
IsNew(e, i) == results[i].claim = e.claim /\ i \notin e.ids

FoldAll(e) ==
    LET fold[i \in 0..Len(results)] ==
          IF i = 0 THEN e
          ELSE IF IsNew(fold[i - 1], i) THEN FoldResult(fold[i - 1], i)
          ELSE fold[i - 1]
    IN  fold[Len(results)]

(* decide: "late" says that convergence_after has passed since the milestone,
   or since the last response. *)
MayRespond(e) == e.failures > 0 /\ e.responses < MaxResponses

Decide(e, waits, late) ==
    IF waits \/ ~MayRespond(e) THEN ""
    ELSE CASE e.stage = "" /\ (e.repeats >= RepeatsWanted
                                 \/ e.failures >= 2 * RepeatsWanted \/ late) -> "approach"
           [] e.stage = "approach"
                /\ (e.failures - e.stageFailures >= RepeatsWanted \/ late) -> "escalated"
           [] OTHER -> ""

(* observe reads the ledger first, and the log only under its own lock. *)
Snapshot ==
    /\ polled = NoPoll
    /\ polled' = [claim |-> claim, blocked |-> blocked]
    /\ UNCHANGED <<claim, blocked, results, account, readTo, asked>>

(* The claim's account, a new one when the claim is new to it. *)
AccountOf(c) == IF account.claim = c THEN account ELSE NewAccount(c)

Responded(e, stage) ==
    [e EXCEPT !.stage = stage, !.stageFailures = e.failures, !.responses = @ + 1]

Observe ==
    /\ polled # NoPoll
    /\ \E late, respond \in BOOLEAN :
         LET known == AccountOf(polled.claim)
             e == IF readTo = Len(results) THEN known ELSE FoldAll(known)
             stage == IF respond THEN Decide(e, polled.blocked, late) ELSE ""
             before == IF known = account THEN asked ELSE 0
         IN  IF stage = ""
             THEN account' = e /\ asked' = before
             ELSE /\ account' = Responded(e, stage)
                  /\ asked' = before + 1
    /\ readTo' = Len(results)
    /\ polled' = NoPoll
    /\ UNCHANGED <<claim, blocked, results>>

(* The account file is lost or damaged. *)
LoseAccount ==
    /\ account.claim # 0
    /\ account' = NewAccount(0) /\ readTo' = 0 /\ asked' = 0
    /\ UNCHANGED <<claim, blocked, results, polled>>

ConvergenceNext ==
    Report \/ Review \/ TakeAgain \/ Block \/ Snapshot \/ Observe \/ LoseAccount

ConvergenceSpec == ConvergenceInit /\ [][ConvergenceNext]_convergenceVars

-----------------------------------------------------------------------------
Mine(c) == {i \in DOMAIN results : results[i].claim = c}

(* A pass is of use when its commit was reported after every failure of the
   claim that the log had before it. *)
UsefulPass(i) ==
    /\ results[i].outcome = "pass"
    /\ \A j \in Mine(results[i].claim) :
         j < i /\ results[j].outcome = "fail" => j <= results[i].subject

(* The failures an account counts are of distinct commits, and none of them
   is older than a pass of a commit that came after it: a stale pass clears
   nothing, a result read twice counts once. *)
FailuresAreDistinctAndCurrent ==
    LET open == {i \in account.ids : /\ results[i].outcome = "fail"
                                     /\ \A j \in account.ids : j > i => ~UsefulPass(j)}
    IN  account.failures = Cardinality({results[i].commit : i \in open})

(* However a claim fares its owner and the operator hear of it only so many
   times. *)
ResponsesAreBounded == asked <= MaxResponses

(* A claim is answered for its own results: nobody is told that an issue does
   not converge whose owner, since it was taken or last passed, has recorded
   no failure. *)
OnlyFailingClaimsAreTold ==
    account.stage # "" =>
        \E i \in Mine(account.claim) : results[i].outcome = "fail" /\ i > account.milestone
=============================================================================
