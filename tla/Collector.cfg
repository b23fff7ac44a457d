SPECIFICATION Spec
CONSTANTS
    Inventories <- MCInventories
    Garbage <- MCGarbage
    IndexMax = 2
    Devices <- MCDevices
    Readings <- MCReadings
    RunningLists <- MCRunningLists
    None = None
    MaxTicks = 2
    MaxEdits = 2
    MaxFaults = 2
INVARIANTS SnapshotInContract RebuiltIsCollected
PROPERTIES MetadataHeals
CHECK_DEADLOCK FALSE
