CONSTANTS
    N = 3
    Key <- Spellings
    Overlap <- SpellingsOverlap
    FoldedOverlap <- SpellingsFolded
    Folds = TRUE
    Claim <- NoClaims
    Timings <- Untimed
    MaxLeases = 1
    MaxRequests = 1
    MaxHandoffs = 0
    MaxCalls = 1

SPECIFICATION Spec

INVARIANT FoldedKeysExclude
