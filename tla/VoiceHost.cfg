SPECIFICATION HostSpec
CONSTANTS
    Clients = {c1}
    NoClient = NoClient
    MaxSpeaks = 3
    MaxChunks = 2
    Quota = 3
    MaxCrashes = 1
    Host = c1
    Engines = {e1, e2}
    Registrar = Registrar
    Nobody = Nobody
    MaxFragments = 2
INVARIANTS
    Framing
    Complete
PROPERTIES
    VoiceMissed
    ImplementsSession
SYMMETRY EnginesAlike
CHECK_DEADLOCK FALSE
