SPECIFICATION FairSpec
CONSTANTS
    Emails = {e1}
    Passwords = {p1, px}
    Mistyped = px
    Tokens = {t1, t2, t3}
    Sessions = {s1, s2}
    Requests = {r1, r2}
    MaxTrouble = 1
    None = None
CHECK_DEADLOCK FALSE
PROPERTIES OwnerGetsIn
