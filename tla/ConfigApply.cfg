SPECIFICATION Spec
CONSTANTS
    MaxBytes = 1300
    MaxNesting = 4
    MaxElements = 70
    Int64Limit = 100000
    FloatMax = 1000000
    Uploads <- MCUploads
    StoredBefore <- MCStoredBefore
    Firmwares <- MCFirmwares
    MaxStoredBytes = 900
    EffectCapacity = 2
    FillCapacity = 2
    TransientCapacity = 1
    RuleCapacity = 2
    PolledCapacity = 2
    MaxUploads = 1
    MaxCommands = 2
CHECK_DEADLOCK FALSE
INVARIANTS
    LoaderAcceptsSchema
    StoredMeansUploaded
    DryRunSpeaksForBoot
    BoardRunsConfiguration
    StripShowsLevels
