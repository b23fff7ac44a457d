SPECIFICATION Spec
CONSTANTS
    Frames <- MCFrames
    Parts <- MCParts
    Checksum <- MCChecksum
    NoSlot = NoSlot
    Values = {0, 1}
    Lengths = {1, 2, 6}
    RequestIds = {1, 2}
    MaxChanged = 1
    MaxPayload = 2
    MaxSends = 2
    MaxExpiries = 1
INVARIANTS CompleteIsDelivered GotWasSent
PROPERTIES PartialDiesAtDeadline
