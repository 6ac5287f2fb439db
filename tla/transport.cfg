\* Two sessions, three packets on two workers, peers that may close.
CONSTANTS
    Packet = {p1, p2, p3}
    WorkerCount = 2
    MaxSessions = 2
    PeerMayClose = TRUE
SPECIFICATION FairSpec
INVARIANT QuietAfterDeinit
INVARIANT TInv
PROPERTY DeinitDrains
PROPERTY QueuedIsDispatched
\* The sessions are counted: the application may be done.
CHECK_DEADLOCK FALSE
