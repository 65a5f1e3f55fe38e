SPECIFICATION Spec
CONSTANTS
    Clients = {w1, w2}
    MaxRequests = 1
CHECK_DEADLOCK FALSE
INVARIANTS ReconnectToAll
