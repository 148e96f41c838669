CONSTANTS
    Mode = "recrawl"
    NTargets = 3
    Workers = {w1}
    OutCap = 1
    ResCap = 1
    Checkpoint = 1
    Limit = 0
    RateLimited = FALSE
    MaxOvertake = 3
    MaxRuns = 3
    MaxFaults = 2
    Events = {"signal", "crash"}
    BlockRecs = 1
    BufBlocks = 1
SPECIFICATION Spec
INVARIANT
    TornOnlyAtTail
