SPECIFICATION Spec
CONSTANTS
    MaxPort = 2
    Kilo = 2
    WordMax = 31
    Settings <- OnlyDefault
    i1 = i1
    i2 = i2
    Interfaces = {i1}
    RetryLimit = 2
    Protocol = "tcp"
    MaxTaken = 1
    MaxRestarts = 0
INVARIANTS AnnouncedIsServed
