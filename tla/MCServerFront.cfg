SPECIFICATION Spec
CONSTANTS
    Procs = {p1, p2}
    Settings <- MCSettings
    SigningKeys = {k1, k2}
    None = None
    Addresses = {a1}
    Keys = {i1}
    Bodies = {b1, b2}
    Requests = {r1, r2}
    Burst = 2
    Rate = 1
    BucketTTL = 2
    MaxRuns = 2
    Absent = Absent
SYMMETRY Symmetry
CHECK_DEADLOCK FALSE
INVARIANTS TypeOK OneSigningKey OneAnswerPerKey
PROPERTIES LateRefusalsKnown LimiterIsTokenBucket
