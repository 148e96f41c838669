CONSTANTS
    Mode = "crawl"
    NTargets = 3
    Workers = {w1}
    OutCap = 1
    ResCap = 1
    Checkpoint = 2
    Limit = 0
    RateLimited = FALSE
    MaxOvertake = 3
    MaxRuns = 1
    MaxFaults = 1
    Events = {"signal"}
    BlockRecs = 2
    BufBlocks = 1
SPECIFICATION Spec
INVARIANT
    ResumePointStored
