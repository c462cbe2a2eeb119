SPECIFICATION FairSpec
CONSTANTS
    Threads = {t1, t2}
    Engines = {e1}
    None = None
    MaxBuffers = 1
    Pool = 1
    SystemFails = FALSE
PROPERTY ReturnsOnAnyThread
CHECK_DEADLOCK FALSE
