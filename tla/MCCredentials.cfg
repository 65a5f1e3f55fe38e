SPECIFICATION Spec
CONSTANTS
    Emails = {e1, e2}
    Passwords = {p1, px}
    Mistyped = px
    Tokens = {t1, t2}
    Sessions = {s1}
    Requests = {r1, r2}
    MaxTrouble = 2
    None = None
SYMMETRY Symmetry
CHECK_DEADLOCK FALSE
INVARIANTS TypeOK VerifiedByMail StrandedBounded SessionsAccounted
PROPERTIES ActsAsPromised
