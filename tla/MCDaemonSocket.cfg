SPECIFICATION Spec
CONSTANTS
    Clients = {c1}
    c1 = c1
    c2 = c2
    c3 = c3
    Wants <- MCWants
    Daemons = {d1, d2}
    Workers = {w1}
    Capacity = 1
    MaxPanics = 0
INVARIANT Reachable
CHECK_DEADLOCK FALSE
