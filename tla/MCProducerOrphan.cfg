SPECIFICATION SpecOrphan
CONSTANTS
    Files = {a}
    Memory = {}
    Excludable = {}
    Names = {e1, e2}
    Rejected = {}
    Absent = {0}
    BatchFiles = 1
    Retain = 1
    MaxVer = 2
    MaxGen = 9
    MaxCrashes = 2
    MaxFaults = 0
INVARIANT NoEventLost
CHECK_DEADLOCK FALSE
