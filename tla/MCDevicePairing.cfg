SPECIFICATION Spec
CONSTANTS
    u1 = u1  u2 = u2
    c1 = c1  c2 = c2  c3 = c3  c4 = c4  c5 = c5
    k1 = k1  k2 = k2
    Users = {u1, u2}
    Codes = {c1, c2, c3}
    Devices = {d1, d2, d3}
    Tokens = {t1, t2, t3}
    HsIds = {h1, h2}
    Claimers = {k1, k2}
    CodeTTL = 1
    MaxTime = 2
    MaxInterrupted = 1
    MaxDeleted = 1
    None = None
SYMMETRY Symmetry
CHECK_DEADLOCK FALSE
INVARIANTS TypeOK EnrolledOnce LinkNamesUser AnnouncedInOrder
PROPERTIES KeepsPromise
