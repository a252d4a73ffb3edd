SPECIFICATION Spec
CONSTANTS
    t1 = t1
    i1 = i1
    Holders = {h1, h2}
    Tokens = {t1}
    Uids = {i1}
    Owner <- OwnerOfOne
    Ranks = {k1, k2}
    Versions = {v1, v2}
    SessionIds = {s1, s2}
    UserIds = {u1, u2}
    Null = Null
    NoRow = NoRow
    Unknown = Unknown
SYMMETRY Symmetry
INVARIANTS
    TypeOK
    SessionsCached
    UsersCached
    RanksAgree
