SPECIFICATION FairSpec
CONSTANTS
    Clients = {w1}
    MaxRequests = 2
CHECK_DEADLOCK FALSE
INVARIANTS TypeOK DrainedBeforeExit NoSilentFailure
PROPERTIES StopsWhenAsked DeadChildStopsServer
