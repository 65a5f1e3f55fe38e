SPECIFICATION FairSpec
CONSTANTS
    Users = {u1}
    Codes = {c1, c2, c3, c4, c5}
    Devices = {d1, d2, d3, d4, d5}
    Tokens = {t1, t2, t3, t4, t5}
    HsIds = {h1}
    Claimers = {k1, k2}
    CodeTTL = 0
    MaxTime = 0
    MaxInterrupted = 1
    MaxDeleted = 0
    None = None
CHECK_DEADLOCK FALSE
INVARIANTS OrphansBounded
PROPERTIES ClaimsEnd EveryClaimerServed
