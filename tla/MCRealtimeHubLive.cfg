SPECIFICATION FairSpec
CONSTANTS
    a1 = a1  a2 = a2
    c1 = c1  c2 = c2
    Accounts = {a1}
    Conns = {c1}
    AccountOf <- MCAccountOf
    Publishers = {p1}
    SendBuffer = 2
    MaxEvents = 3
CHECK_DEADLOCK FALSE
PROPERTIES DeliversAsPromised PublishReturns EndTogether StaleCulled HubDrains
