SPECIFICATION TokensSpec
CONSTANTS
    Clients = {c1, c2}
    Objects = {o1, o2, o3, o4}
    None = None
    Voices = 2
SYMMETRY Symmetry
INVARIANT NeverDangling
CHECK_DEADLOCK FALSE
