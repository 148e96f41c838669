CONSTANTS
    Mode = "recrawl"
    NTargets = 3
    Workers = {w1}
    OutCap = 1
    ResCap = 1
    Checkpoint = 1
    Limit = 0
    RateLimited = FALSE
    MaxOvertake = 3
    MaxRuns = 2
    MaxFaults = 1
    Events = {"crash"}
    BlockRecs = 2
    BufBlocks = 1
SPECIFICATION Spec
INVARIANT
    RestartContinues
