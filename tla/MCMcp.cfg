SPECIFICATION LiveSpec
CONSTANTS
    Adapters = {a, b}
    None = None
    LogLimit = 2
    Tools = {"search", "inspect", "query"}
    MaxCalls = 3
    MaxFaults = 1
INVARIANTS TrailIsSuffix TrailBounded AnsweredOnRecord ParentFirst
PROPERTY EveryCallEnds
CHECK_DEADLOCK FALSE
