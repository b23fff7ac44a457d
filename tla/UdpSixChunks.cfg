SPECIFICATION Spec
CONSTANTS
    Frames <- MCFrames
    Parts <- MCParts
    Checksum <- MCChecksum
    NoSlot = NoSlot
    Values = {0, 1}
    Lengths = {5}
    RequestIds = {1}
    MaxChanged = 2
    MaxPayload = 1
    MaxSends = 2
    MaxExpiries = 0
INVARIANTS GotWasSent
