\* The code's intervals; seconds in a counter of sixteen values.
CONSTANTS
    Packet = {p1, p2}
    ResendInterval = 1
    DropAfter = 5
    TimeMod = 16
    MaxPause = 6
    MaxScan = 1
    PeerAnswers = TRUE
SPECIFICATION FairSpec
INVARIANT ScanInv
PROPERTY DueIsHandled
