CONSTANTS
    Session = {1,2}
    MaxEvents = 3
    MaxBoots = 2
    MaxSpool = 1
    Sessions = {1,2}
    Launcher = 8
    Untraced = 9
    Hooks = {1,2}
    Modelled = {"SessionStart", "Stop", "SessionEnd"}
    Budget = 1
    MaxHookEvents = 3
    MaxMail = 1
    MaxRevision = 1
    MaxTouches = 2
    Launchers = {p1, p2}
    MaxWork = 2
    MaxCommands = 3
    RootLane = {g1, g2}
    MaxAbsences = 2
    Callers = {r1, r2}
    MaxEdits = 2
    CapClaim = {k1, k2}
    MaxChangesMade = 1
    MaxKills = 1
    MaxChanges = 3
    MaxSteps = 5
    Fillers = {f1, f2}
    PoolLanes = {l1, l2}
    Slots = {1, 2}
    PoolSize = 1
    MaxBase = 1
    MaxPoolEvents = 4
    ChildNames = {1, 2}
    MaxPerParent = 1
    Texts = {1, 2}
    MaxSpawns = 3
    MaxDeaths = 3
    Caller = {a,b}
    Key = {k,l}
    Args = {x,y}
    Thread = {s,t}
    Retained = 1
    BudgetLane = {b1}
    MaxServed = 4
    RepeatsWanted = 2
    MaxResponses = 2
    MaxResults = 3
    MaxClaims = 2

SPECIFICATION Spec
CHECK_DEADLOCK FALSE

INVARIANT ForceKeepsIgnoredFiles
