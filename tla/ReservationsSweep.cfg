CONSTANTS
    N = 2
    Key <- Nested
    Overlap <- NestedOverlap
    FoldedOverlap <- NestedOverlap
    Folds = FALSE
    Claim <- NoClaims
    Timings <- Timed
    MaxLeases = 1
    MaxRequests = 1
    MaxHandoffs = 0
    MaxCalls = 1

SPECIFICATION FairSpec

PROPERTY OnlyHandoffsOverlap
PROPERTY WorkingHolderKeepsItsKeys
PROPERTY LapsedHoldersGiveWay
