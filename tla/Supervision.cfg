CONSTANTS
    DepLane = {a, b}
    Nobody = nobody
    Work = {w}
    MaxDepOffers = 1
    Owner = {a, b}
    Free = free
    IdleAfter = 2
    StalledAfter = 1
    ClaimLasts = 0
    Old = 2
    MaxHolds = 2
    OrphanLanes = {1}
    Peer = 5
    Claims = {1,2}
    MaxDeaths = 2
    MaxMoves = 2
    MaxFaults = 1
    CapLanes = {1}
    MaxNow = 2
    MaxLimits = 1
    MaxClaims = 2
    MaxLaunches = 2
    MaxCuts = 1
    FencedPeers = {"p1", "p2"}
    MaxGenerations = 2
    MaxMarks = 2
    Rounds = 2
    MaxCommits = 2
    MaxTargets = 3
    MaxToggles = 3

SPECIFICATION Spec
CHECK_DEADLOCK FALSE

INVARIANT TypeOK
INVARIANT PollsLeaveNothingOver
PROPERTY NobodyIsActedOnBlindly
PROPERTY PollsGetThere
