SPECIFICATION Spec
CONSTANTS
    HeaderSize = 1
    InitialCapacity = 4
    MaxLength = 2
    Piece = 1
    Stretch = 2
    MaxWrites = 3
    MaxCalls = 3
INVARIANTS
    InBounds
    WholeUtterance
PROPERTY SilentAfterRefusal
CHECK_DEADLOCK FALSE
