CONSTANTS
    laneA = laneA
    laneB = laneB
    issue1 = issue1
    issue2 = issue2
    issue3 = issue3
    NoLane = NoLane
    NoIssue = NoIssue
    Lane <- OneLane
    Issue <- ThreeIssues
    Cap = 2
    MaxBlockers = 1
    Commit <- OneCommit
    Directed <- NoLanes
    Asking <- NoLanes
    Offered <- NoLanes
    Windows <- Untimed
    Mortal <- NoLanes
    Closing <- NoIssues
    Endings <- NeverEnds
    MaxClaims = 1
    MaxDiffs = 0
    MaxDeaths = 0
SPECIFICATION Spec
SYMMETRY IssueSymmetry
INVARIANT DependenciesAreAcyclic
INVARIANT NothingWaitsOnCompleteWork
PROPERTY ResumedWorkIsUnblocked
