SPECIFICATION FairSpec
CONSTANTS
    MaxFragments = 2
    MaxChunks = 2
    ChunkSize = 2
    Rates <- SomeRates
    RateAdjs <- SomeRateAdjs
    Volumes = {51, 100}
    FragVolumes = {51, 100}
    MaxChanges = 2
INVARIANTS
    EventsAligned
    AbortStopsWrites
    SettingsCurrent
PROPERTIES
    SkipEndsCall
    AbortReturns
CHECK_DEADLOCK FALSE
