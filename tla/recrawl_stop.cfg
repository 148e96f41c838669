CONSTANTS
    Mode = "recrawl"
    NTargets = 3
    Workers = {w1, w2}
    OutCap = 1
    ResCap = 1
    Checkpoint = 2
    Limit = 0
    RateLimited = TRUE
    MaxOvertake = 2
    MaxRuns = 2
    MaxFaults = 1
    Events = {"signal", "scanerr"}
    BlockRecs = 2
    BufBlocks = 0
SPECIFICATION FairSpec
INVARIANTS
    TypeOK
    NothingVanishes
    Covered
    HeaderExact
PROPERTY
    RunEnds
