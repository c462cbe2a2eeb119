SPECIFICATION MCSpec
CONSTANTS
    Clients = {c1, c2}
    Objects = {o1, o2, o3, o4}
    None = None
    Voices = 2
SYMMETRY Symmetry
CONSTRAINTS
    LastObject
    NoOverlap
INVARIANTS
    HeldAlive
    ModuleNeeded
    NothingLeaks
    EveryVoiceOnce
    ListedUsable
CHECK_DEADLOCK FALSE
