SPECIFICATION Spec
CONSTANTS
    Tx = {t1, t2}
    Id = {i1, i2}
    Key = {k1}
    NoKey = NoKey
    c1 = c1
    c2 = c2
    Content = {c1, c2}
    Tags = {g1}
    Class = {l1}
    Targets <- MCTargets
    MaxRevision = 3
    Expectable = {2}
SYMMETRY Symmetry
INVARIANTS
    KeyedWriteLands
