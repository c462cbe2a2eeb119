SPECIFICATION FairSpec
CONSTANTS
    Threads = {t1, t2}
    Engines = {e1, e2}
    None = None
    MaxBuffers = 1
    Pool = 1
    SystemFails = FALSE
PROPERTY ReturnsOnOwnThread
CHECK_DEADLOCK FALSE
