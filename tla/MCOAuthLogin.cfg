SPECIFICATION Spec
CONSTANTS
    Users = {u1, u2, u3}
    Emails = {e1, e2}
    Identities = {i1, i2}
    States = {s1, s2, s3}
    Sessions = {x1, x2}
    Requests = {r1, r2, r3}
    None = None
SYMMETRY Symmetry
CHECK_DEADLOCK FALSE
INVARIANTS TypeOK AccountsAgree
PROPERTIES LogsInAsPromised
