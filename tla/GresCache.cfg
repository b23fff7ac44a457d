SPECIFICATION FairSpec
CONSTANTS
    Queriers = {q1}
    Refreshers = {r1, r2}
    TTL = 1
    Codes = {nvml}
    Internal = Internal
    NoEntry = NoEntry
    NoCode = NoCode
    GenMod = 4
    MaxClock = 2
    MaxFailures = 1
INVARIANTS TypeOK SingleCollector NoLostWakeup FreshReply ErrorIsCurrent
PROPERTIES EntryNeverRegresses ImplementsSingleFlight MergedNeverCollects EveryCallReturns
