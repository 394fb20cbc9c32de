CONSTANTS
    N = 3
    Key <- One
    Overlap <- OneOverlap
    FoldedOverlap <- OneOverlap
    Folds = FALSE
    Claim <- TwoClaims
    Timings <- AnyTiming
    MaxLeases = 1
    MaxRequests = 1
    MaxHandoffs = 1
    MaxCalls = 1

SPECIFICATION Spec
CONSTRAINT QueueOrHandover

INVARIANT TypeOK
INVARIANT KeyExclusion
INVARIANT OneRowPerKey
PROPERTY ReleasedKeysAreHandedOn
PROPERTY EarlierRequestsGoFirst
