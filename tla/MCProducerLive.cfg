SPECIFICATION LiveSpec
CONSTANTS
    Files = {a}
    Memory = {a}
    Excludable = {}
    Names = {e1}
    Rejected = {}
    Absent = {0}
    BatchFiles = 1
    Retain = 1
    MaxVer = 1
    MaxGen = 16
    MaxCrashes = 1
    MaxFaults = 1
INVARIANTS
    CleanMeansPublished
    PublishedComplete
PROPERTIES
    EventsDelivered
    Converges
    InterruptedRowsRedone
CHECK_DEADLOCK FALSE
