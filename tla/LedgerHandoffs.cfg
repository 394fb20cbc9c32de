CONSTANTS
    laneA = laneA
    laneB = laneB
    issue1 = issue1
    issue2 = issue2
    issue3 = issue3
    NoLane = NoLane
    NoIssue = NoIssue
    Lane <- TwoLanes
    Issue <- OneIssue
    Cap = 2
    MaxBlockers = 2
    Commit <- NoCommits
    Directed <- JustB
    Asking <- TwoLanes
    Offered <- TwoLanes
    Windows <- Timed
    Mortal <- TwoLanes
    Closing <- NoIssues
    Endings <- NeverEnds
    MaxClaims = 3
    MaxDiffs = 1
    MaxDeaths = 1
SPECIFICATION Spec
INVARIANT NobodyIsAskedForTheirOwn
INVARIANT PendingDiffsExist
INVARIANT OrphanMarksAreCurrent
PROPERTY OwnershipMovesByConsent
PROPERTY OwnershipIsKept
