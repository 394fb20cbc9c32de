------------------------------- MODULE Problems -------------------------------
(***************************************************************************)
(* The list of problems the operator works from.  It is derived afresh     *)
(* from each lane's record: one row for each cause, with the command that  *)
(* resolves it and whether the operator or the service is to act.  Lanes   *)
(* run into trouble, the operator carries out a listed command and the     *)
(* service prompts the lanes it said it would, from a list already old.    *)
(***************************************************************************)
EXTENDS Naturals, FiniteSets

CONSTANTS
    HeldIssue,      \* issues the lane may hold
    ClaimCap,       \* max_claims_per_lane
    WakeLimit,   \* WORK_WAKE_ATTEMPTS
    MaxTroubles     \* model bound: troubles that happen

VARIABLES
    rec,        \* the lane's record, as a status reading finds it
    listed,     \* the rows of the list the operator is looking at
    troubles,   \* how many troubles have happened
    lost        \* ghost: work under review or unsaved that a retirement dropped

problemsVars == <<rec, listed, troubles, lost>>

ClaimStates ==
    {"none", "working", "overdue", "ready", "awaiting", "conflicting", "red",
     "delivered", "orphaned", "complete"}
InReview == {"awaiting", "conflicting", "red"}

Row == [kind : {"wake", "approval", "held", "foreign", "stalled", "inactive", "overdue",
                "unopened", "over cap", "integrate", "ready", "orphaned", "unresolved",
                "ack", "holding", "drift", "dirty", "budget"},
        actor : {"operator", "service"}]

Healthy ==
    [alive |-> TRUE, quiet |-> FALSE, stopped |-> FALSE, paused |-> FALSE,
     retired |-> FALSE, dialog |-> "none", wake |-> "none", attempts |-> 0,
     stalled |-> FALSE, foreign |-> FALSE, mail |-> FALSE, refused |-> FALSE,
     drift |-> FALSE, dirty |-> FALSE, over |-> FALSE, oldOrphans |-> FALSE,
     claims |-> [i \in HeldIssue |-> "none"]]

ProblemsTypeOK ==
    /\ rec.dialog \in {"none", "permission", "escalated"}
    /\ rec.wake \in {"none", "dialog", "attention", "session held", "unavailable",
                     "opt in missing"}
    /\ rec.attempts \in 0..WakeLimit
    /\ rec.claims \in [HeldIssue -> ClaimStates]
    /\ listed \subseteq Row
    /\ troubles \in 0..MaxTroubles /\ lost \in BOOLEAN

ProblemsInit ==
    /\ rec = Healthy /\ listed = {} /\ troubles = 0 /\ lost = FALSE

-----------------------------------------------------------------------------
Claims(r, kinds) == {i \in HeldIssue : r.claims[i] \in kinds}

Held(r) == Claims(r, ClaimStates \ {"none"})

(* _dialog: a prompt is only open while the process shows it. *)
Prompt(r) == IF r.alive THEN r.dialog ELSE "none"

(* _blocked: what keeps the lane from reading its mail. *)
Blocked(r) ==
    \/ r.stopped
    \/ r.wake \in {"dialog", "attention"}
    \/ Prompt(r) # "none"
    \/ r.paused

(* _remedy: the operator, unless the service still prompts this lane. *)
TurnBy(r) ==
    IF \/ r.wake \in {"session held", "unavailable", "opt in missing"}
       \/ Blocked(r)
       \/ r.attempts >= WakeLimit
    THEN "operator" ELSE "service"

By(kind, actor) == {[kind |-> kind, actor |-> actor]}

When(condition, rows) == IF condition THEN rows ELSE {}

WakeRows(r) ==
    When(r.wake \in {"session held", "unavailable", "opt in missing", "attention", "dialog"},
         By("wake", TurnBy(r)))

PromptRows(r) ==
    CASE Prompt(r) = "permission" -> By("approval", "operator")
      [] Prompt(r) = "escalated" -> By("held", "operator")
      [] OTHER -> {}

(* A stalled lane, or one that is alive and quiet while it is blocked or has
   work that it has not delivered. *)
SilenceRows(r) ==
    CASE r.stalled -> By("stalled", TurnBy(r))
      [] ~r.stalled /\ r.quiet /\ r.alive
           /\ (Blocked(r) \/ Held(r) \ Claims(r, {"delivered"}) # {}) ->
           By("inactive", TurnBy(r))
      [] OTHER -> {}

OverdueRows(r) == When(Claims(r, {"overdue"}) # {}, By("overdue", "operator"))

UnopenedRows(r) == When(Claims(r, {"ready"}) # {}, By("unopened", "operator"))

CapRows(r) ==
    When(Cardinality(Held(r) \ Claims(r, {"delivered"})) > ClaimCap,
         By("over cap", "operator"))

AwaitingIntegration(r) == Claims(r, InReview) # {}

(* _integrate_rows: red checks have a row of their own in the project's. *)
IntegrateRows(r) ==
    When(Claims(r, InReview \ {"red"}) # {}, By("integrate", "operator"))

RetireRows(r) ==
    When(/\ ~r.alive /\ ~AwaitingIntegration(r)
         /\ Held(r) # {} /\ Held(r) = Claims(r, {"orphaned"})
         /\ r.oldOrphans,
         By("ready", "operator"))

OrphanRows(r) ==
    When(~r.alive /\ Claims(r, {"orphaned"}) # {}, By("orphaned", "operator"))

UnresolvedRows(r) == When(Claims(r, {"complete"}) # {}, By("unresolved", "operator"))

AckRows(r) == When(r.mail, By("ack", TurnBy(r)))

HoldingRows(r) == When(r.quiet /\ r.refused, By("holding", TurnBy(r)))

TreeRows(r) ==
    CASE r.drift -> By("drift", "operator")
      [] ~r.drift /\ r.quiet /\ ~r.alive /\ r.dirty -> By("dirty", "operator")
      [] OTHER -> {}

(* derive, for one lane: a retired lane has only the work it left behind. *)
RowsOf(r) ==
    IF r.retired THEN When(r.dirty, By("dirty", "operator"))
    ELSE WakeRows(r) \cup PromptRows(r)
           \cup When(r.foreign, By("foreign", "operator"))
           \cup SilenceRows(r) \cup OverdueRows(r) \cup UnopenedRows(r) \cup CapRows(r)
           \cup (IF AwaitingIntegration(r) THEN IntegrateRows(r)
                 ELSE IF RetireRows(r) # {} THEN RetireRows(r) ELSE OrphanRows(r))
           \cup UnresolvedRows(r) \cup AckRows(r) \cup HoldingRows(r) \cup TreeRows(r)
           \cup When(r.over, By("budget", "operator"))

-----------------------------------------------------------------------------
(* The commands that the rows name, by what they do to the lane's record. *)
Turn(r) ==
    [alive |-> TRUE, quiet |-> FALSE, stopped |-> FALSE, paused |-> FALSE,
     retired |-> r.retired, dialog |-> "none", wake |-> "none", attempts |-> 0,
     stalled |-> FALSE, foreign |-> r.foreign, mail |-> FALSE, refused |-> FALSE,
     drift |-> r.drift, dirty |-> r.dirty, over |-> r.over, oldOrphans |-> r.oldOrphans,
     claims |-> [i \in HeldIssue |->
                   IF r.claims[i] = "orphaned" THEN "working" ELSE r.claims[i]]]

Claimed(r, i, c) == [r EXCEPT !.claims[i] = c]

Settled(r, kinds) == {Claimed(r, i, "none") : i \in Claims(r, kinds)}

Opened(r) == {Claimed(r, i, c) : i \in Claims(r, {"ready"}), c \in {"none", "awaiting"}}

(* participant retire refuses a lane that runs and one with unsaved work, and
   returns what the lane holds. *)
Retired(r) ==
    IF r.alive \/ r.dirty THEN {r}
    ELSE {[r EXCEPT !.retired = TRUE, !.claims = [i \in HeldIssue |-> "none"]]}

Carried(r, kind) ==
    When(kind \in {"wake", "approval", "held", "stalled", "inactive", "ack", "holding"},
         {Turn(r)})
      \cup When(kind = "foreign", {[r EXCEPT !.foreign = FALSE]})
      \cup When(kind = "overdue", Settled(r, {"overdue"}))
      \cup When(kind = "unopened", Opened(r))
      \cup When(kind = "over cap", Settled(r, ClaimStates \ {"none", "delivered"}))
      \cup When(kind = "integrate", Settled(r, InReview))
      \cup When(kind = "ready", Retired(r))
      \cup When(kind = "orphaned", Settled(r, {"orphaned"}))
      \cup When(kind = "unresolved", Settled(r, {"complete"}))
      \cup When(kind = "drift", {[r EXCEPT !.drift = FALSE]})
      \cup When(kind = "dirty", {[r EXCEPT !.dirty = FALSE]})
      \cup When(kind = "budget", {[r EXCEPT !.over = FALSE]})

(* A trouble: something about the lane goes wrong, or moves on. *)
Struck(r) ==
    {[r EXCEPT !.quiet = TRUE], [r EXCEPT !.quiet = TRUE, !.stalled = TRUE],
     [r EXCEPT !.alive = FALSE, !.quiet = TRUE],
     [r EXCEPT !.alive = FALSE, !.quiet = TRUE, !.stopped = TRUE],
     [r EXCEPT !.paused = TRUE], [r EXCEPT !.dialog = "permission", !.quiet = TRUE],
     [r EXCEPT !.dialog = "escalated", !.quiet = TRUE],
     [r EXCEPT !.attempts = WakeLimit, !.quiet = TRUE], [r EXCEPT !.foreign = TRUE],
     [r EXCEPT !.mail = TRUE], [r EXCEPT !.refused = TRUE], [r EXCEPT !.drift = TRUE],
     [r EXCEPT !.dirty = TRUE], [r EXCEPT !.over = TRUE],
     [r EXCEPT !.oldOrphans = TRUE]}

Troubled(r) ==
    Struck(r)
      \cup {[r EXCEPT !.wake = w, !.quiet = TRUE] :
              w \in {"dialog", "attention", "session held", "unavailable", "opt in missing"}}
      \cup {Claimed(r, i, c) : i \in HeldIssue,
              c \in ClaimStates \ (IF r.alive THEN {"none", "orphaned"} ELSE {"none"})}

Trouble ==
    /\ troubles < MaxTroubles /\ troubles' = troubles + 1
    /\ ~rec.retired
    /\ rec' \in Troubled(rec)
    /\ UNCHANGED <<listed, lost>>

(* problems: the list is derived and shown. *)
List ==
    /\ listed # RowsOf(rec)
    /\ listed' = RowsOf(rec)
    /\ UNCHANGED <<rec, troubles, lost>>

(* participant retire --ready derives its own list; any other command is one
   that the operator reads off the list. *)
Act ==
    /\ \E row \in listed :
         /\ row.actor = "operator"
         /\ row.kind = "ready" => row \in RowsOf(rec)
         /\ rec' \in Carried(rec, row.kind)
         /\ lost' = (lost \/ (/\ rec'.retired /\ ~rec.retired
                              /\ (rec.alive \/ AwaitingIntegration(rec))))
    /\ UNCHANGED <<listed, troubles>>

BadWouldWake_Unbounded(r) ==
    /\ ~r.retired /\ ~r.paused /\ ~r.stopped
    /\ Prompt(r) = "none" /\ r.wake = "none"

(* supervision.wake: what the service does on its own. *)
WouldWake(r) ==
    /\ ~r.retired /\ ~r.paused /\ ~r.stopped
    /\ Prompt(r) = "none" /\ r.wake = "none"
    /\ r.attempts < WakeLimit

Serve ==
    /\ rec.quiet /\ WouldWake(rec)
    /\ rec' \in {Turn(rec), [rec EXCEPT !.attempts = @ + 1]}
    /\ UNCHANGED <<listed, troubles, lost>>

ProblemsNext == Trouble \/ List \/ Act \/ Serve

ProblemsSpec == ProblemsInit /\ [][ProblemsNext]_problemsVars

-----------------------------------------------------------------------------
(* A lane that sits on work it has not delivered, and that the service will
   not prompt, has a row that asks the operator. *)
NobodyWaitsUnseen ==
    (/\ ~rec.retired /\ rec.alive /\ rec.quiet
     /\ Held(rec) \ Claims(rec, {"delivered"}) # {}
     /\ ~WouldWake(rec))
      => \E row \in RowsOf(rec) : row.actor = "operator"

(* A row left to the service is about a lane that the service will prompt. *)
ServiceRowsAreServed ==
    \A row \in RowsOf(rec) : row.actor = "service" => WouldWake(rec)

(* The list never has a lane retired that runs, or that has a pull request
   under review. *)
NothingIsRetiredAway == ~lost
-----------------------------------------------------------------------------
(* What makes them inductive. *)
Recs == [alive : BOOLEAN, quiet : BOOLEAN, stopped : BOOLEAN, paused : BOOLEAN,
         retired : BOOLEAN, dialog : {"none", "permission", "escalated"},
         wake : {"none", "dialog", "attention", "session held", "unavailable", "opt in missing"},
         attempts : 0..WakeLimit, stalled : BOOLEAN, foreign : BOOLEAN, mail : BOOLEAN,
         refused : BOOLEAN, drift : BOOLEAN, dirty : BOOLEAN, over : BOOLEAN,
         oldOrphans : BOOLEAN, claims : [HeldIssue -> ClaimStates]]

RecShape == rec \in Recs
ListedShape == listed \subseteq Row
TroublesShape == troubles \in 0..MaxTroubles /\ lost \in BOOLEAN

ProblemsInv == RecShape /\ ListedShape /\ TroublesShape /\ NothingIsRetiredAway
================================================================================
