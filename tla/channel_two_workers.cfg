\* Two workers dispatch two packets to the same client.
CONSTANTS
    srv = srv
    c1 = c1
    c2 = c2
    p1 = p1
    p2 = p2
    Node = {srv, c1}
    Server = srv
    Worker = {w1, w2}
    Packet = {p1, p2}
    Scenario <- MCDownload
    ToAll = ToAll
    ToServer = ToServer
    None = None
    Priority = {1, 2}
    SeqMod = 3
    MaxQueuedTasks = 0
    MaxBacklog = 1
    MaxCopies = 2
SPECIFICATION Spec
INVARIANT NumberNamesOnePacket
CHECK_DEADLOCK FALSE
