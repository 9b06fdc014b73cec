SPECIFICATION LiveSpec
CONSTANTS
    Shards = {a, b}
    Workers = {w}
    Status = st
    Keep = 3
    Retain = 2
    MaxPublish = 2
    MaxReconf = 1
    MaxFaults = 1
    MaxLag = 1
INVARIANTS
    LeasedStaysWhole
    NeverScratch
    CacheBounded
PROPERTIES
    GenerationsMoveForward
    Converges
CHECK_DEADLOCK FALSE
