CONSTANTS
    laneA = laneA
    laneB = laneB
    issue1 = issue1
    issue2 = issue2
    issue3 = issue3
    NoLane = NoLane
    NoIssue = NoIssue
    Lane <- TwoLanes
    Issue <- TwoIssues
    Cap = 2
    MaxBlockers = 2
    Commit <- OneCommit
    Directed <- NoLanes
    Asking <- NoLanes
    Offered <- NoLanes
    Windows <- Untimed
    Mortal <- NoLanes
    Closing <- OneIssue
    Endings <- AnyEnding
    MaxClaims = 2
    MaxDiffs = 0
    MaxDeaths = 0
SPECIFICATION FairSpec
CONSTRAINT EndsOrWaits
INVARIANT TypeOK
INVARIANT WorkIsHeld
INVARIANT EndedIsUnowned
PROPERTY CompleteIsFinal
PROPERTY CompletionHasEvidence
PROPERTY SatisfiedBlockersClear
