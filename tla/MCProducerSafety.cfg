SPECIFICATION Spec
CONSTANTS
    Files = {a, b}
    Memory = {}
    Excludable = {a}
    Names = {e1, e2}
    Rejected = {e2}
    Absent = {0}
    BatchFiles = 2
    Retain = 2
    MaxVer = 1
    MaxGen = 9
    MaxCrashes = 1
    MaxFaults = 1
CONSTRAINT OneFailure
INVARIANT NoEventLost
PROPERTY PublishedNeverRegresses
CHECK_DEADLOCK FALSE
