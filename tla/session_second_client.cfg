\* Two clients that have the server's secret, and a network that loses nothing.
SPECIFICATION Spec
CONSTANTS
    c1 = c1
    c2 = c2
    s = s
    right = right
    wrong = wrong
    Client <- MCClient
    Server = s
    None = None
    NoKey = NoKey
    NoPacket = NoPacket
    Empty <- MCEmpty
    Compressible <- MCCompressible
    kMaxPeers = 2
    World <- MCTwoRight
    MaxMessages = 1
    MaxInbox = 2
CHECK_DEADLOCK FALSE
INVARIANT SameKeys
