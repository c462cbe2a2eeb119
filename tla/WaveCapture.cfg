SPECIFICATION FairSpec
CONSTANTS
    Threads = {t1, t2}
    Engines = {e1, e2}
    None = None
    MaxBuffers = 2
    Pool = 2
    SystemFails = TRUE
INVARIANTS
    BuffersComeBack
    NoStaleMessage
    NothingLost
PROPERTIES SilentAfterStop EverySpeakReturns
CHECK_DEADLOCK FALSE
