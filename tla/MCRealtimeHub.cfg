SPECIFICATION Spec
CONSTANTS
    a1 = a1  a2 = a2
    c1 = c1  c2 = c2
    Accounts = {a1, a2}
    Conns = {c1, c2}
    AccountOf <- MCAccountOf
    Publishers = {p1}
    SendBuffer = 1
    MaxEvents = 2
CHECK_DEADLOCK FALSE
INVARIANTS TypeOK Isolation NobodyLeftBehind
