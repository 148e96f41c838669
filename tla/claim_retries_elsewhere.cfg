CONSTANTS
    Workers = {w1, w2}
    Servers = 8
    Retries = 2
    MaxNames = 1
    FCrDNS = TRUE
    Soft = {"servfail", "refused"}
    MaxSamples = 1
SPECIFICATION CrawlSpec
INVARIANT
    RetriesElsewhere
