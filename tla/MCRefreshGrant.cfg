SPECIFICATION Spec
CONSTANTS
    Req = {r1, r2}
    Client = {c1, c2}
    NoClient = NoClient
    User = {u1}
    JwtTTL = 2
    GracePeriod = 1
    Retention = 1
    GitHubTTL = 2
    MaxGrants = 1
    MaxSerial = 4
    MaxTime = 3
SYMMETRY Symmetry
INVARIANTS
    OneAcceptedJwt
    OperatorRevocationFinal
    JwtBoundToRequest
    SingleUse
    GraceRetryAvailable
PROPERTIES
    TearDownOnlyBroken
