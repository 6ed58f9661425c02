SPECIFICATION FairSpec
CONSTANTS
    Insight = {1, 2, 3}
    Tag = {1, 2}
    Rank = {0, 1}
    Exclude <- MCExclude
    Reader = {r1}
    Writer = {w1}
    LimitArg = {0, 2, 3}
    MaxLimit = 2
    DefaultLimit = 1
    None = None
    FirstTime = 1
    MaxTime = 2
INVARIANTS
    PagesSound
    RefusedForCause
PROPERTIES
    TraversalEnds
CHECK_DEADLOCK FALSE
