CONSTANTS
    Mode = "crawl"
    NTargets = 4
    Workers = {w1, w2}
    OutCap = 1
    ResCap = 1
    Checkpoint = 2
    Limit = 0
    RateLimited = TRUE
    MaxOvertake = 4
    MaxRuns = 2
    MaxFaults = 1
    Events = {"signal"}
    BlockRecs = 3
    BufBlocks = 1
SPECIFICATION Spec
SYMMETRY WorkerSymmetry
INVARIANTS
    LossBounded
    NoTargetSkipped
    OncePerRun
PROPERTY
    CursorMonotone
