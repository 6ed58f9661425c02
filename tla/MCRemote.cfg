SPECIFICATION RemoteFairSpec
CONSTANTS
    Call = {c1, c2}
    Query = {q1, q2}
    None = None
    Error = Error
    CacheTTL = 2
    QueryTimeout = 1
    StopTimeout = 1
    MaxTime = 6
    Request = {r1}
    Status = {200, 302, 400, 401, 404, 405, 429, 500, 502}
    Count = {0, 1, 10, 11, 50, 51, 100, 101, 200}
    Context = {"fine", "control", "unacceptable"}
    MaxWrites = 2
INVARIANTS
    CacheSound
    AnswersFresh
    ReportsTruthful
PROPERTIES
    RefreshesEnd
    RequestsEnd
CHECK_DEADLOCK FALSE
