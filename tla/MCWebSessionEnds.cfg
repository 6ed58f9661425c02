SPECIFICATION FairSpec
CONSTANTS
    Session = {s1, s2}
    Login = {l1, l2}
    OperatorLogin = {l2}
    Request = {r1, r2}
    None = None
    IdleTTL = 2
    TTL = 2
    TouchInterval = 1
    MaxTime = 1
PROPERTIES
    RequestsAnswered
