SPECIFICATION LiveSpec
CONSTANTS
    Prompt = TRUE
    ClaimsFail = FALSE
    MaxTerm = 9
    MaxRestarts = 2
    MaxCuts = 1
    MaxDeaths = 1
    MaxOrphans = 0
PROPERTIES
    ShardServed
    SupersededStops
CHECK_DEADLOCK FALSE
