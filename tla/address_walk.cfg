CONSTANTS
    MaxAddr = 11
    Ranges <- SmallRanges
    HashSize = 4
    Low <- SmallLow
    High <- SmallHigh
    Shards = 2
    Checkpoint = 2
    Commands = {"crawl", "sweep", "test"}
    Percents = {100, 60, 1}
    Starts <- SmallStarts
    Bounds = {0, 2, 6}
    MaxStarts = 3
SPECIFICATION FairSpec
INVARIANTS
    TypeOK
    FleetCoversSample
    CountExact
PROPERTIES
    WalksInOrder
    WalkEnds
