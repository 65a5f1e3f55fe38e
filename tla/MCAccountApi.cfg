SPECIFICATION Spec
CONSTANTS
    Tokens = {t1, t2}
    Devices = {d1}
    AgentSessions = {s1}
    Objects = {o1}
    Requests = {r1, r2, r3}
    Last = 2
    MaxCalls = 4
    None = None
SYMMETRY Symmetry
CHECK_DEADLOCK FALSE
INVARIANTS TypeOK ObjectsWhole CommitsAnnounced
PROPERTIES LateReportsHarmless RevokedTokensFade
