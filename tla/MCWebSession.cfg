SPECIFICATION Spec
CONSTANTS
    Session = {s1, s2}
    Login = {l1, l2}
    OperatorLogin = {l2}
    Request = {r1, r2}
    None = None
    IdleTTL = 2
    TTL = 3
    TouchInterval = 1
    MaxTime = 3
SYMMETRY Symmetry
INVARIANTS
    SessionsSound
    ServedWithinLifetimes
PROPERTIES
    RevocationFinal
    OnlyDeadRefused
