----------------------------- MODULE ForgeClaims ----------------------------
(***************************************************************************)
(* What the forge says of the claims: readings that end a claim, and the   *)
(* assignees that mark one.                                                *)
(* The parts share no state: each has its own Init and Next.               *)
(***************************************************************************)
EXTENDS Naturals, FiniteSets

(***************************************************************************)
(* How the poll learns that a claimed issue ended on the forge: a kept     *)
(* reading of the issue, the merged pull requests of the integration base  *)
(* when the issue is still open, the lane's branch when the issue cannot   *)
(* be read, and silence while the forge refuses calls.  An end is dated by *)
(* the claim it happened in: claims are numbered, and an end seen while    *)
(* nobody holds the issue belongs to no later claim.                       *)
(***************************************************************************)

CONSTANTS
    MaxClaims,      \* model bound: claims of the issue
    MaxForgeNews,   \* model bound: closings, reopenings and merges
    MaxRefusals     \* model bound: forge calls that fail

VARIABLES
    claimNo,        \* the number of the latest claim
    held,           \* a lane holds the issue now
    ready,          \* that lane has reported the work ready
    issueEnd,       \* claim in which the issue was closed; Never while it is open
    landing,        \* claim in which a pull request closing it merged into the base
    branchEnd,      \* claim in which a pull request of the lane's branch merged
    issueReading,   \* _issue_readings
    landingReading, \* _landings
    refused,        \* the newest forge failure: none, recent or old
    noticedEnds,        \* claims reported ended to the poll
    news,           \* model bound
    refusals        \* model bound

forgeReadVars == <<claimNo, held, ready, issueEnd, landing, branchEnd, issueReading, landingReading,
                   refused, noticedEnds, news, refusals>>

Never == MaxClaims + 1        \* has not ended
Unknown == MaxClaims + 2      \* could not be read
Ends == 0..Never
Kept(values) == [life : {"fresh", "expired"}, says : values]

ForgeReadTypeOK ==
    /\ claimNo \in 0..MaxClaims /\ held \in BOOLEAN /\ ready \in BOOLEAN
    /\ issueEnd \in Ends /\ landing \in Ends /\ branchEnd \in Ends
    /\ issueReading \in Kept(0..Unknown) /\ landingReading \in Kept(Ends)
    /\ refused \in {"none", "recent", "old"} /\ noticedEnds \in SUBSET (1..MaxClaims)
    /\ news \in 0..MaxForgeNews /\ refusals \in 0..MaxRefusals

ForgeReadInit ==
    /\ claimNo = 0 /\ held = FALSE /\ ready = FALSE
    /\ issueEnd = Never /\ landing = Never /\ branchEnd = Never
    /\ issueReading = [life |-> "expired", says |-> Unknown]
    /\ landingReading = [life |-> "expired", says |-> Never]
    /\ refused = "none" /\ noticedEnds = {} /\ news = 0 /\ refusals = 0

Truth == <<issueEnd, landing, branchEnd>>
Cached == <<issueReading, landingReading>>

-----------------------------------------------------------------------------
ClaimOrRelease ==
    /\ IF held THEN held' = FALSE /\ UNCHANGED claimNo
       ELSE claimNo < MaxClaims /\ claimNo' = claimNo + 1 /\ held' = TRUE
    /\ ready' = FALSE
    /\ UNCHANGED <<Truth, Cached, refused, noticedEnds, news, refusals>>

ReportsReady ==
    /\ held /\ ~ready /\ ready' = TRUE
    /\ UNCHANGED <<claimNo, held, Truth, Cached, refused, noticedEnds, news, refusals>>

(* People close and reopen the issue and merge pull requests. *)
ForgeNews ==
    /\ news < MaxForgeNews /\ news' = news + 1
    /\ \/ issueEnd' = (IF issueEnd = Never THEN claimNo ELSE Never) /\ UNCHANGED <<landing, branchEnd>>
       \/ landing' = claimNo /\ UNCHANGED <<issueEnd, branchEnd>>
       \/ branchEnd' = claimNo /\ UNCHANGED <<issueEnd, landing>>
    /\ UNCHANGED <<claimNo, held, ready, Cached, refused, noticedEnds, refusals>>

Older(age) == IF age = "recent" THEN "old" ELSE age

(* ISSUE_READING_SECONDS and FORGE_RETRY run out. *)
ReadingsExpire ==
    /\ issueReading' = [issueReading EXCEPT !.life = "expired"]
    /\ landingReading' = [landingReading EXCEPT !.life = "expired"]
    /\ refused' = Older(refused)
    /\ UNCHANGED <<claimNo, held, ready, Truth, noticedEnds, news, refusals>>

-----------------------------------------------------------------------------
(* _run: a failed call is remembered with its kind, and a success forgets it. *)
Called(ok) ==
    IF ok THEN refused' = "none" /\ UNCHANGED refusals
    ELSE /\ refusals < MaxRefusals /\ refusals' = refusals + 1
         /\ \/ refused' = "recent"      \* refused or throttled
            \/ refused' = "old"         \* another failure: no backoff

(* _issue_reading: the kept reading until it runs out; one that failed is kept too. *)
ReadIssue(ok) ==
    IF issueReading.life = "fresh" THEN UNCHANGED <<issueReading, refused, refusals>>
    ELSE /\ Called(ok)
         /\ issueReading' = [life |-> "fresh", says |-> IF ok THEN issueEnd ELSE Unknown]

(* _landing_reading: asked only while calls are not refused. *)
ReadLandings ==
    IF landingReading.life = "fresh" \/ refused' = "recent" THEN UNCHANGED landingReading
    ELSE \/ landingReading' = [life |-> "fresh", says |-> landing]
         \/ landingReading' = [life |-> "fresh", says |-> Never]      \* a failed reading

(* claimed_since: the end came within the claim that holds now. *)
InClaim(end) == end = claimNo

(* issue_completion: the issue's own end; a READY claim ends also by an earlier one. *)
IssueEnded(r) == InClaim(r.says) \/ ready

(* integration_landings: the newest merged pull request that names it. *)
LandingEnded(r) == r.says # Never /\ r.life = "fresh" /\ InClaim(r.says)

(* branch_completion, used when the issue itself cannot be read. *)
BranchEnded == InClaim(branchEnd)

(* completed_claims, for one claimed issue. *)
EndSeen ==
    \/ issueReading'.says = Unknown /\ BranchEnded
    \/ issueReading'.says \notin {Unknown, Never} /\ IssueEnded(issueReading')
    \/ issueReading'.says = Never /\ LandingEnded(landingReading')

Poll(ok) ==
    /\ held /\ refused # "recent"
    /\ ReadIssue(ok)
    /\ IF issueReading'.says = Never THEN ReadLandings ELSE UNCHANGED landingReading
    /\ noticedEnds' = (IF EndSeen THEN noticedEnds \cup {claimNo} ELSE noticedEnds)
    /\ UNCHANGED <<claimNo, held, ready, Truth, news>>

ForgeReadNext ==
    \/ ClaimOrRelease \/ ReportsReady \/ ForgeNews \/ ReadingsExpire
    \/ \E ok \in BOOLEAN : Poll(ok)

ForgeReadSpec ==
    /\ ForgeReadInit /\ [][ForgeReadNext]_forgeReadVars
    /\ WF_forgeReadVars(ReadingsExpire) /\ SF_forgeReadVars(Poll(TRUE))

-----------------------------------------------------------------------------
OnlyThisClaimEndsStep ==
    \A n \in noticedEnds' \ noticedEnds :
        ready \/ n \in {issueEnd, landing, branchEnd, issueReading.says, landingReading.says}

(* A claim is called ended only for something that ended while it was held, or when
   its lane had said it was ready: neither a kept reading nor an old pull request of
   the same branch ends a later claim. *)
OnlyThisClaimEnds == [][OnlyThisClaimEndsStep]_forgeReadVars

EndedClaimsAreNoticedState ==
    ~(held /\ issueEnd = claimNo /\ claimNo \notin noticedEnds)

(* An issue that was closed while claimed is noticed although the forge refused calls,
   kept readings said otherwise, or a reading failed. *)
EndedClaimsAreNoticed == []<>EndedClaimsAreNoticedState

ForgeReadInv == ForgeReadTypeOK /\ (held => claimNo > 0)

-----------------------------------------------------------------------------
(***************************************************************************)
(* The forge assignment a claim adds for the operator's account, and the   *)
(* mark that says a claim added it, so that a release takes away no        *)
(* assignment a person made.  Claims and releases are commands of several  *)
(* processes, each with calls to the forge between its steps; the poll     *)
(* releases marks nobody owns.  One issue.                                 *)
(***************************************************************************)

CONSTANTS
    Commands,           \* processes that claim or release the issue
    MaxTurns,           \* model bound: claims, and assignments people make
    MaxForgeRefusals    \* model bound: forge calls that fail, and processes killed

VARIABLES
    owned,              \* the ledger: somebody holds the issue
    assignee,           \* the operator's account on the forge: none, or who put it there
    mark,               \* FORGE_MARKS
    command,            \* where each process is
    sweep,              \* where the poll's release_forge_marks is
    protected,          \* ghost: a person assigned it while no claim or release was under way
    turns,              \* model bound
    troubles            \* model bound

markVars == <<owned, assignee, mark, command, sweep, protected, turns, troubles>>

Removing == {"releasing", "unassigned"}

MarksTypeOK ==
    /\ owned \in BOOLEAN /\ assignee \in {"none", "claim", "person"} /\ mark \in BOOLEAN
    /\ command \in [Commands -> {"idle", "claimed", "asked", "assigned", "released"} \cup Removing]
    /\ sweep \in {"idle", "picked"} \cup Removing
    /\ protected \in BOOLEAN /\ turns \in 0..MaxTurns /\ troubles \in 0..MaxForgeRefusals

MarksInit ==
    /\ owned = FALSE /\ assignee = "none" /\ mark = FALSE
    /\ command = [c \in Commands |-> "idle"] /\ sweep = "idle"
    /\ protected = FALSE /\ turns = 0 /\ troubles = 0

Bounded == <<turns, troubles>>
Goes(c, s) == command' = [command EXCEPT ![c] = s]
Fails == troubles < MaxForgeRefusals /\ troubles' = troubles + 1

-----------------------------------------------------------------------------
(* A person takes or leaves the issue with the operator's account. *)
PersonAssigns ==
    /\ turns < MaxTurns /\ turns' = turns + 1 /\ assignee = "none"
    /\ assignee' = "person"
    /\ protected' = (~mark /\ sweep = "idle" /\ \A c \in Commands : command[c] = "idle")
    /\ UNCHANGED <<owned, mark, command, sweep, troubles>>

PersonUnassigns ==
    /\ assignee # "none" /\ assignee' = "none" /\ protected' = FALSE
    /\ UNCHANGED <<owned, mark, command, sweep, Bounded>>

(* change: the ledger's claim, after the forge was asked whether the issue is closed. *)
TakeIssue(c) ==
    /\ command[c] = "idle" /\ ~owned /\ turns < MaxTurns /\ turns' = turns + 1
    /\ owned' = TRUE /\ Goes(c, "claimed")
    /\ UNCHANGED <<assignee, mark, sweep, protected, troubles>>

(* assigned: only when the forge says the account does not hold it. *)
MayAssign(c) == assignee = "none"

AskAssigned(c) ==
    /\ command[c] = "claimed" /\ Goes(c, IF MayAssign(c) THEN "asked" ELSE "idle")
    /\ UNCHANGED <<owned, assignee, mark, sweep, protected, Bounded>>

Assign(c) ==
    /\ command[c] = "asked"
    /\ \/ /\ assignee' = (IF assignee = "none" THEN "claim" ELSE assignee)
          /\ Goes(c, "assigned") /\ UNCHANGED troubles
       \/ Fails /\ Goes(c, "idle") /\ UNCHANGED assignee
    /\ UNCHANGED <<owned, mark, sweep, protected, turns>>

(* forge_mark; the lock may be busy for too long. *)
Mark(c) ==
    /\ command[c] = "assigned" /\ Goes(c, "idle")
    /\ \/ mark' = TRUE /\ UNCHANGED troubles
       \/ Fails /\ UNCHANGED mark
    /\ UNCHANGED <<owned, assignee, sweep, protected, turns>>

-----------------------------------------------------------------------------
ReleaseIssue(c) ==
    /\ command[c] = "idle" /\ owned /\ owned' = FALSE /\ Goes(c, "released")
    /\ UNCHANGED <<assignee, mark, sweep, protected, Bounded>>

BadMarked_Always == TRUE

(* forge_unclaim: an assignment without the mark is left alone. *)
Marked == mark

AskMark(c) ==
    /\ command[c] = "released" /\ Goes(c, IF Marked THEN "releasing" ELSE "idle")
    /\ UNCHANGED <<owned, assignee, mark, sweep, protected, Bounded>>

(* release_forge_marks: marks of issues the ledger's snapshot says nobody owns. *)
SweepPicks ==
    /\ sweep = "idle" /\ mark /\ ~owned /\ sweep' = "picked"
    /\ UNCHANGED <<owned, assignee, mark, command, protected, Bounded>>

SweepAsksMark ==
    /\ sweep = "picked" /\ sweep' = (IF Marked THEN "releasing" ELSE "idle")
    /\ UNCHANGED <<owned, assignee, mark, command, protected, Bounded>>

(* unassign, then the mark is taken. *)
Unassign == assignee' = "none" /\ protected' = FALSE

Unmark(ok) == mark' = (IF ok THEN FALSE ELSE mark)

CommandUnassigns(c) ==
    /\ command[c] = "releasing"
    /\ \/ Unassign /\ Goes(c, "unassigned") /\ UNCHANGED troubles
       \/ Fails /\ Goes(c, "idle") /\ UNCHANGED <<assignee, protected>>
    /\ UNCHANGED <<owned, mark, sweep, turns>>

SweepUnassigns ==
    /\ sweep = "releasing"
    /\ \/ Unassign /\ sweep' = "unassigned" /\ UNCHANGED troubles
       \/ Fails /\ sweep' = "idle" /\ UNCHANGED <<assignee, protected>>
    /\ UNCHANGED <<owned, mark, command, turns>>

CommandUnmarks(c, ok) ==
    /\ command[c] = "unassigned" /\ Goes(c, "idle") /\ Unmark(ok)
    /\ IF ok THEN UNCHANGED troubles ELSE Fails
    /\ UNCHANGED <<owned, assignee, sweep, protected, turns>>

SweepUnmarks(ok) ==
    /\ sweep = "unassigned" /\ sweep' = "idle" /\ Unmark(ok)
    /\ IF ok THEN UNCHANGED troubles ELSE Fails
    /\ UNCHANGED <<owned, assignee, command, protected, turns>>

(* A process, or the service, is killed between two of its steps. *)
KilledCommand(c) ==
    /\ command[c] # "idle" /\ Fails /\ Goes(c, "idle")
    /\ UNCHANGED <<owned, assignee, mark, sweep, protected, turns>>

KilledSweep ==
    /\ sweep # "idle" /\ Fails /\ sweep' = "idle"
    /\ UNCHANGED <<owned, assignee, mark, command, protected, turns>>

SweepStep == SweepPicks \/ SweepAsksMark \/ SweepUnassigns \/ \E ok \in BOOLEAN : SweepUnmarks(ok)

MarksNext ==
    \/ PersonAssigns \/ PersonUnassigns \/ SweepStep \/ KilledSweep
    \/ \E c \in Commands :
          \/ TakeIssue(c) \/ AskAssigned(c) \/ Assign(c) \/ Mark(c) \/ ReleaseIssue(c)
          \/ AskMark(c) \/ CommandUnassigns(c) \/ KilledCommand(c)
          \/ \E ok \in BOOLEAN : CommandUnmarks(c, ok)

MarksSpec == MarksInit /\ [][MarksNext]_markVars /\ WF_markVars(SweepStep)

-----------------------------------------------------------------------------
PeopleKeepTheirAssignmentsStep ==
    protected /\ assignee' # "person" => turns' = turns /\ protected' = FALSE /\
      (\A c \in Commands : command'[c] = command[c]) /\ sweep' = sweep

(* What a person assigned while nothing was under way, no command and no poll takes
   away: not the release of a claim made meanwhile, nor a retry of an earlier one. *)
PeopleKeepTheirAssignments == [][PeopleKeepTheirAssignmentsStep]_markVars

UnownedMarksAreReleasedState ==
    ~(mark /\ ~owned)

(* A mark of an issue nobody owns is released, after failures, a full lock and kills. *)
UnownedMarksAreReleased == []<>UnownedMarksAreReleasedState

(* While an assignment is a person's own there is no mark, and no command
   gets beyond asking. *)
MarksInv ==
    /\ MarksTypeOK
    /\ protected => /\ assignee = "person" /\ ~mark /\ sweep = "idle"
                    /\ \A c \in Commands : command[c] \in {"idle", "claimed", "released"}
=============================================================================
