SPECIFICATION MCSpec
CONSTANTS
    Clients = {c1, c2}
    Servers = {s1, s2, s3}
    Nobody = Nobody
    Attempts = 2
    Polls = 1
    Faults = TRUE
    Unregisters = {c1}
INVARIANTS
    TypeOK
    HandlesAccounted
    AtMostOneServer
    LaunchExclusive
PROPERTIES
    WaitsEnd
    LaunchServes
CHECK_DEADLOCK FALSE
