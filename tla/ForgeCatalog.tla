-------------------------------- MODULE ForgeCatalog --------------------------------
(***************************************************************************)
(* The cached catalog of the forge's open issues and what is made of it.   *)
(* One thread refreshes it: most readings ask only for what changed since  *)
(* the last, and a full one is taken now and then or when too much has     *)
(* changed.  A full reading that was not cut ends, in the ledger, the      *)
(* unowned issues it does not list.  Meanwhile the forge changes, its      *)
(* search lags, its calls fail, and lanes claim and release.               *)
(***************************************************************************)
EXTENDS Naturals, FiniteSets

CONSTANTS
    CatIssues,      \* issue numbers
    CatPage,        \* FORGE_PAGE: a delta this long is not trusted
    CatLimit,       \* FORGE_LIMIT: a full listing this long was cut
    CatFull,        \* FORGE_FULL_SECONDS, in ticks; FORGE_TTL, _RETRY and _OVERLAP are one tick
    CatStale,       \* FORGE_STALE, in ticks
    MaxClock,       \* model bound: ticks
    MaxForgeEdits,  \* model bound: issues closed, reopened or taken away
    MaxTouches      \* model bound: claims and releases

VARIABLES
    clock,
    forge,          \* per issue: its state on the forge and when it last changed
    catalog,        \* FORGE_ISSUES: read_at, complete_at, failed_at, the issues; cut is ghost
    refresh,        \* the reading under way
    records,        \* per issue: its ledger record
    closedSince,    \* ghost: closed on the forge at some time since it was last touched
    forgeEdits,     \* model bound
    touches         \* model bound

catalogVars == <<clock, forge, catalog, refresh, records, closedSince, forgeEdits, touches>>

Times == 0..MaxClock
NoRefresh == [stage |-> "idle", at |-> 0, full |-> FALSE, answer |-> {}]

CatalogTypeOK ==
    /\ clock \in Times
    /\ forge \in [CatIssues -> [state : {"open", "closed", "gone"}, at : Times]]
    /\ catalog \in [read : Times, complete : Times, failed : Times, listed : SUBSET CatIssues,
                    cut : BOOLEAN]
    /\ refresh \in [stage : {"idle", "asking", "answered", "merged"}, at : Times, full : BOOLEAN,
                    answer : SUBSET CatIssues]
    /\ records \in [CatIssues -> [known : BOOLEAN, owned : BOOLEAN, ended : BOOLEAN, touched : Times]]
    /\ closedSince \in SUBSET CatIssues
    /\ forgeEdits \in 0..MaxForgeEdits /\ touches \in 0..MaxTouches

CatalogInit ==
    /\ clock = 2 /\ forge \in [CatIssues -> [state : {"open", "closed"}, at : {0}]]
    /\ catalog = [read |-> 0, complete |-> 0, failed |-> 0, listed |-> {}, cut |-> FALSE]
    /\ refresh = NoRefresh
    /\ records = [i \in CatIssues |-> [known |-> FALSE, owned |-> FALSE, ended |-> FALSE, touched |-> 0]]
    /\ closedSince = {i \in CatIssues : forge[i].state = "closed"} /\ forgeEdits = 0 /\ touches = 0

Bounds == <<forgeEdits, touches>>
HasCatalog == catalog.read > 0
Open(i) == forge[i].state = "open"

-----------------------------------------------------------------------------
CatalogTick ==
    /\ clock < MaxClock /\ clock' = clock + 1
    /\ UNCHANGED <<forge, catalog, refresh, records, closedSince, Bounds>>

(* Somebody closes an issue, opens it again, or moves it to another repository. *)
ForgeChanges(i, s) ==
    /\ forgeEdits < MaxForgeEdits /\ forgeEdits' = forgeEdits + 1
    /\ forge[i].state # "gone" /\ s # forge[i].state
    /\ forge' = [forge EXCEPT ![i] = [state |-> s, at |-> clock]]
    /\ closedSince' = (IF s = "open" THEN closedSince ELSE closedSince \cup {i})
    /\ UNCHANGED <<clock, catalog, refresh, records, touches>>

(* A lane claims or releases the issue; a claim drops the mark of an ended issue. *)
Touch(i) ==
    /\ touches < MaxTouches /\ touches' = touches + 1
    /\ records' = [records EXCEPT ![i] = [known |-> TRUE, owned |-> ~records[i].owned,
                                          ended |-> records[i].ended /\ records[i].owned,
                                          touched |-> clock]]
    /\ closedSince' = (IF Open(i) THEN closedSince \ {i} ELSE closedSince \cup {i})
    /\ UNCHANGED <<clock, forge, catalog, refresh, forgeEdits>>

-----------------------------------------------------------------------------
(* refresh_forge_issues: the reading is taken as of the moment it begins. *)
Begin ==
    /\ refresh.stage = "idle" /\ clock - catalog.read >= 1 /\ clock - catalog.failed >= 1
    /\ refresh' = [stage |-> "asking", at |-> clock, answer |-> {},
                   full |-> ~HasCatalog \/ clock - catalog.complete >= CatFull]
    /\ UNCHANGED <<clock, forge, catalog, records, closedSince, Bounds>>

(* open_issue_catalog fails, is cut off, or answers nonsense: the old catalog stays. *)
AskFails ==
    /\ refresh.stage = "asking"
    /\ catalog' = [catalog EXCEPT !.failed = refresh.at] /\ refresh' = NoRefresh
    /\ UNCHANGED <<clock, forge, records, closedSince, Bounds>>

(* The full listing: the open issues, CatLimit of them at most. *)
AskFull(listed) ==
    /\ refresh.stage = "asking" /\ refresh.full
    /\ listed \subseteq {i \in CatIssues : Open(i)}
    /\ Cardinality(listed) =
         (IF Cardinality({i \in CatIssues : Open(i)}) < CatLimit
          THEN Cardinality({i \in CatIssues : Open(i)}) ELSE CatLimit)
    /\ refresh' = [refresh EXCEPT !.stage = "answered", !.answer = listed]
    /\ UNCHANGED <<clock, forge, catalog, records, closedSince, Bounds>>

(* What the search finds: the changes since a moment, but perhaps not yet those of
   this tick; an issue that went away is in no answer. *)
Found(since, lagging) ==
    {i \in CatIssues : forge[i].state # "gone" /\ forge[i].at >= since /\ i \notin lagging}

Merge(delta) == (catalog.listed \ delta) \cup {i \in delta : Open(i)}

(* The delta since the last reading less the overlap; a long one asks for everything. *)
AskDelta(lagging) ==
    LET since == IF catalog.read = 0 THEN 0 ELSE catalog.read - 1
        delta == Found(since, lagging)
    IN  /\ refresh.stage = "asking" /\ ~refresh.full
        /\ lagging \subseteq {i \in CatIssues : forge[i].at = clock}
        /\ refresh' = IF Cardinality(delta) >= CatPage THEN [refresh EXCEPT !.full = TRUE]
                      ELSE [refresh EXCEPT !.stage = "merged", !.answer = Merge(delta)]
        /\ UNCHANGED <<clock, forge, catalog, records, closedSince, Bounds>>

-----------------------------------------------------------------------------
(* end_closed_issues: an unowned issue the whole listing lacks, unless it was
   touched since the reading began. *)
Ends(i) ==
    /\ i \notin refresh.answer /\ records[i].known /\ ~records[i].owned /\ ~records[i].ended
    /\ records[i].touched < refresh.at

EndClosedIssues ==
    /\ refresh.stage = "answered"
    /\ records' = (IF Cardinality(refresh.answer) < CatLimit
                   THEN [i \in CatIssues |-> [records[i] EXCEPT !.ended = @ \/ Ends(i)]]
                   ELSE records)
    /\ refresh' = [refresh EXCEPT !.stage = "merged"]
    /\ UNCHANGED <<clock, forge, catalog, closedSince, Bounds>>

Write ==
    /\ refresh.stage = "merged" /\ refresh' = NoRefresh
    /\ catalog' = [read |-> refresh.at, failed |-> 0, listed |-> refresh.answer,
                   complete |-> IF refresh.full THEN refresh.at ELSE catalog.complete,
                   cut |-> IF refresh.full THEN Cardinality(refresh.answer) >= CatLimit
                           ELSE catalog.cut]
    /\ UNCHANGED <<clock, forge, records, closedSince, Bounds>>

(* The service stops with a reading under way. *)
Stops ==
    /\ refresh.stage # "idle" /\ refresh' = NoRefresh
    /\ UNCHANGED <<clock, forge, catalog, records, closedSince, Bounds>>

CatalogNext ==
    \/ CatalogTick \/ Begin \/ AskFails \/ EndClosedIssues \/ Write \/ Stops
    \/ \E i \in CatIssues : Touch(i) \/ \E s \in {"open", "closed", "gone"} : ForgeChanges(i, s)
    \/ \E set \in SUBSET CatIssues : AskFull(set) \/ AskDelta(set)

CatalogSpec == CatalogInit /\ [][CatalogNext]_catalogVars

-----------------------------------------------------------------------------
Usable == HasCatalog /\ clock - catalog.read < CatStale

(* with_forge: the issues offered because the catalog lists them. *)
Offered == IF Usable THEN {i \in catalog.listed : ~records[i].known} ELSE {}

OnlyClosedWorkIsEndedStep ==
    \A i \in CatIssues : records'[i].ended /\ ~records[i].ended => i \in closedSince

(* Work is ended in the ledger only when the forge had closed it at some time since a
   lane last touched it: a reading that began before a release says nothing of it. *)
OnlyClosedWorkIsEnded == [][OnlyClosedWorkIsEndedStep]_catalogVars

(* What was settled on the forge when a reading began is right in the catalog, through
   any series of partial readings, failures and crashes; only an issue that went away
   may stay until the next full reading. *)
CatalogIsCurrent ==
    HasCatalog =>
      \A i \in CatIssues : forge[i].at < catalog.read =>
          /\ i \in catalog.listed => Open(i) \/ (forge[i].state = "gone" /\ forge[i].at >= catalog.complete)
          /\ Open(i) => i \in catalog.listed \/ catalog.cut

(* Nothing is offered from the catalog longer than it may be stale after the forge
   closed it, however often the refresh fails. *)
OfferedWorkWasOpen ==
    \A i \in Offered : Open(i) \/ forge[i].state = "gone" \/ clock - forge[i].at < CatStale
-----------------------------------------------------------------------------
(* What makes them inductive. *)
ClockShape == clock \in Times
ForgeShape == forge \in [CatIssues -> [state : {"open", "closed", "gone"}, at : Times]]
CatalogShape ==
    catalog \in [read : Times, complete : Times, failed : Times, listed : SUBSET CatIssues,
                 cut : BOOLEAN]
RefreshShape ==
    refresh \in [stage : {"idle", "asking", "answered", "merged"}, at : Times, full : BOOLEAN,
                 answer : SUBSET CatIssues]
RecordsShape ==
    records \in [CatIssues -> [known : BOOLEAN, owned : BOOLEAN, ended : BOOLEAN, touched : Times]]
ClosedShape == closedSince \in SUBSET CatIssues
EditsShape == forgeEdits \in 0..MaxForgeEdits /\ touches \in 0..MaxTouches
ForgeIsPast == \A i \in CatIssues : forge[i].at <= clock
CatalogIsPast == catalog.read <= clock /\ catalog.complete <= catalog.read

(* A reading begins after the one the catalog holds, and a partial one rests on it. *)
ReadingIsLater ==
    refresh.stage # "idle" =>
        /\ catalog.read < refresh.at /\ refresh.at <= clock
        /\ refresh.stage = "answered" => refresh.full
        /\ refresh.full \/ HasCatalog

ClosedIsNoted == \A i \in CatIssues : Open(i) \/ i \in closedSince

(* The answer of a reading is right about what was settled when it began. *)
AnswerIsCurrent ==
    refresh.stage \in {"answered", "merged"} =>
      \A i \in CatIssues : forge[i].at < refresh.at =>
          /\ i \in refresh.answer => Open(i) \/ (forge[i].state = "gone"
                                                 /\ ~refresh.full /\ forge[i].at >= catalog.complete)
          /\ Open(i) => i \in refresh.answer
                        \/ (refresh.full /\ Cardinality(refresh.answer) >= CatLimit)
                        \/ (~refresh.full /\ catalog.cut)

(* What a whole listing lacks was closed, unless it was touched since. *)
UnlistedWereClosed ==
    refresh.stage = "answered" /\ Cardinality(refresh.answer) < CatLimit =>
      \A i \in CatIssues : i \in refresh.answer \/ i \in closedSince \/ records[i].touched >= refresh.at

CatalogInv ==
    /\ ClockShape /\ ForgeShape /\ CatalogShape /\ RefreshShape /\ RecordsShape /\ ClosedShape
    /\ EditsShape /\ ForgeIsPast /\ CatalogIsPast /\ ReadingIsLater /\ ClosedIsNoted
    /\ AnswerIsCurrent /\ UnlistedWereClosed /\ CatalogIsCurrent
================================================================================
