SPECIFICATION FairSpec
CONSTANTS
    Login = {l1, l2}
    GitHubID = {g1, g2}
    Handle = {h1, h2}
    Request = {r1, r2}
    Slug = {s1}
    Name = {n1}
    None = None
INVARIANTS
    TenantsSound
    ProjectsSound
PROPERTIES
    LoginsEnd
CHECK_DEADLOCK FALSE
