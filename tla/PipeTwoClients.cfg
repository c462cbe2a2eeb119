SPECIFICATION FairSpec
CONSTANTS
    Clients = {c1, c2}
    NoClient = NoClient
    MaxSpeaks = 1
    MaxChunks = 1
    Quota = 2
    MaxCrashes = 1
INVARIANT NoStaleStop
PROPERTIES
    CallReturns
    ServerRecovers
CHECK_DEADLOCK FALSE
