SPECIFICATION Spec
CONSTANTS
    Clients = {w1}
    MaxRequests = 1
CHECK_DEADLOCK FALSE
INVARIANTS CleanCancelExitsZero
