SPECIFICATION LiveSpec
CONSTANTS
    MemoryFiles = {m}
    LocalFiles = {a}
    RemoteFiles = {b}
    MaxEdits = 3
    MaxFaults = 1
    MaxCrashes = 1
INVARIANT IndexesAgree
PROPERTIES
    CatalogCatchesUp
    ShownUnlessFailed
