CONSTANTS
    r1 = r1
    r2 = r2
    Req = {r1, r2}
    Registered = {d}
    Published = {m}
    d = d
    m = m
    UI = ui
    UIRedirect <- Dashboard
    Site = {"https", "loopback", "http"}
    Port = {1, 2}
    Safe = {"https", "loopback"}
    Loopback = {"loopback"}
    Scope = {"read", "write", "admin", "root"}
    Supported = {"read", "write", "admin"}
    DefaultScope = {"read", "write"}
    Document <- Documents
    Ask <- Asks
    User = {u1, u2}
    u1 = u1
    u2 = u2
    v1 = v1
    v2 = v2
    Verifier = {v1, v2}
    S256 <- Hash
    MaxRequests = 1
    MaxHandles = 5
SYMMETRY Symmetry
SPECIFICATION Spec
INVARIANTS
    OneTokenPerAuthorization
    TokenAsAuthorized
    AnsweredOnceAtItsRedirect
    UserDecides
    RefusedExchangeBurnsCode
