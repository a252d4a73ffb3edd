SPECIFICATION FairSpec
CONSTANTS
    Ranks = {k1, k2}
    MaxVersion = 2
    MaxLosses = 2
    Unknown = Unknown
INVARIANTS TypeOK RanksFollow
PROPERTY RanksConverge
CHECK_DEADLOCK FALSE
