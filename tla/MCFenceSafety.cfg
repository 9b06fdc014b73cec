SPECIFICATION Spec
CONSTANTS
    Prompt = FALSE
    ClaimsFail = TRUE
    MaxTerm = 5
    MaxRestarts = 2
    MaxCuts = 1
    MaxDeaths = 2
    MaxOrphans = 1
PROPERTY OnlyTheLeaderPublishes
CHECK_DEADLOCK FALSE
