CONSTANTS
    Mode = "recrawl"
    NTargets = 2
    Workers = {w1}
    OutCap = 1
    ResCap = 1
    Checkpoint = 1
    Limit = 0
    RateLimited = FALSE
    MaxOvertake = 3
    MaxRuns = 2
    MaxFaults = 1
    Events = {"signal"}
    BlockRecs = 2
    BufBlocks = 1
SPECIFICATION Spec
INVARIANT
    DuplicatesHarmless
