SPECIFICATION AnswersSpec
CONSTANTS
    Insight = {1, 2}
    Key = {1, 2}
    NoKey = NoKey
    Category = {c1, c2}
    Time = {0, 1}
    Request = {r1}
    RelationLimitArg = {0, 3}
    MaxRelationLimit = 2
    DefaultRelationLimit = 1
    RecentLimit = 1
    None = None
    MaxCommits = 1
    Window <- MCWindow
    Hour <- MCHour
    Name = {1, 2}
    Session = 3
    FailureReason = {1, 2}
    RowCount <- MCCount
    P95 <- MCP95
    Bad = Bad
    NoPercentile = NoPercentile
    MaxInt32 = 2
    MaxRows = 3
INVARIANTS
    DetailSound
    DashboardDrift
    FiguresAgree
    ListingsDetermined
CHECK_DEADLOCK FALSE
