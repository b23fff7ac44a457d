SPECIFICATION FairSpec
CONSTANTS
    MaxPort = 2
    Kilo = 2
    WordMax = 31
    Settings <- Various
    i1 = i1
    i2 = i2
    Interfaces = {i1, i2}
    RetryLimit = 2
    Protocol = "tcp"
    MaxTaken = 1
    MaxRestarts = 1
INVARIANTS StartupIsExplained AnnounceTriesAll
PROPERTIES AskedIsFound
