SPECIFICATION Spec
CONSTANTS
    Clients = {c1}
    Helpers = {s1}
    Listener = listener
    Addrs = {1, 2, 3}
    Host <- TwoHomed
    h1 = h1
    h2 = h2
    Configs <- TwoConfigs
    TTL = 0
    DiscoverWait = 1
    NoRow = NoRow
    None = None
    MaxFaults = 1
    MaxAnnounces = 1
INVARIANTS TypeOK PoolBounded OneConnectionPerHost OneHandshakePerAddress NoExpiredSnapshotShown
