SPECIFICATION FairSpec
CONSTANTS
    Peers = {p1, p2, p3}
    MaxUnread = 2
    MaxVanished = 2
INVARIANTS NothingDropped
PROPERTIES ClosedIsReleased
