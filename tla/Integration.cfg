CONSTANTS
    WakeAttempts = 2
    WakeCeiling = 4
    WakeMail = {m}
    MaxWakeOffers = 1
    MaxProgress = 1
    MaxWindows = 3
    MaxPrompts = 4
    WorkLanes = 2
    WorkIssues = 2
    WokenLanes = {1}
    MaxTries = 1
    Rounds = 1
    MaxHeads = 2
    MaxRuns = 2
    MaxReviews = 1
    MaxCuts = 1
    MergeLanes = {a, b}
    FirstLane = a
    NoLane = none
    RepairAttempts = 1
    MaxLimit = 2
    MaxRev = 2
    MaxBase = 2
    Mergers = {b1, b2, b3}
    MaxMoves = 2
    Edges = {e, f}
    MaxAutomatic = 1
    MaxFlips = 1
    MaxPending = 1
    MaxVersion = 4
    MaxFiled = 3
    MaxOccurrence = 3
    IdleLanes = {a,b}
    NoTaker = none
    MaxForged = 2
    HeldIssue = {h1, h2}
    ClaimCap = 1
    WakeLimit = 2
    MaxTroubles = 3
    CatIssues = {i1, i2}
    CatPage = 2
    CatLimit = 1
    CatFull = 2
    CatStale = 2
    MaxClock = 4
    MaxForgeEdits = 1
    MaxTouches = 2
    MaxVisits = 4
    MaxReds = 1
    MaxBlueprintRuns = 1
    MaxBlueprintCuts = 1

SPECIFICATION Spec
CHECK_DEADLOCK FALSE

INVARIANT TypeOK
INVARIANT AskedAndToldOnce
INVARIANT NothingIsMergedUnseen
PROPERTY StepsStandOnVerifiedGround
