SPECIFICATION LiveSpec
CONSTANTS
    Clients = {c1, c2, c3}
    c1 = c1
    c2 = c2
    c3 = c3
    Wants <- MCWants
    Daemons = {d1}
    Workers = {w1, w2}
    Capacity = 1
    MaxPanics = 1
INVARIANTS
    Accounted
    DrainsQueue
PROPERTIES
    StopsOnlyWhenTold
    ShutdownHonoured
    EveryoneHears
CHECK_DEADLOCK FALSE
