CONSTANTS
    c1 = c1
    c2 = c2
    l1 = l1
    l2 = l2
    l3 = l3
    l4 = l4
    Caller = {c1, c2}
    Listener = {l1, l2, l3, l4}
    EventOf <- MCEventOf
    Busy = {"storage", "network"}
    DnfPayload = TRUE
    MaxRequests = 2
SPECIFICATION FairSpec
INVARIANTS
    ListenersHeardOnce
    ListenersNotMissed
    
    RequestsHonoured
PROPERTIES
    RestartEnds
    RunsImplemented
