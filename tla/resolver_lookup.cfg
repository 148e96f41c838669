CONSTANTS
    Workers = {w1, w2}
    Servers = 1
    Retries = 2
    MaxNames = 2
    FCrDNS = TRUE
    Soft = {"servfail"}
    MaxSamples = 1
SPECIFICATION CrawlSpec
INVARIANTS
    TypeOK
    StatusWasHeard
    MatchWasHeard
    SummaryExact
    LinesArePrefix
PROPERTY
    LookupEnds
