\* A reliable and an unreliable packet on a lossy network, under fairness.
CONSTANTS
    srv = srv
    c1 = c1
    c2 = c2
    p1 = p1
    p2 = p2
    Node = {srv, c1}
    Server = srv
    Worker = {w1}
    Packet = {p1, p2}
    Scenario <- MCMixed
    ToAll = ToAll
    ToServer = ToServer
    None = None
    Priority = {1, 2}
    SeqMod = 2
    MaxQueuedTasks = 1
    MaxBacklog = 1
    MaxCopies = 2
SPECIFICATION FairSpec
\* The traffic is finite: an idle system is the end of a run.
CHECK_DEADLOCK FALSE
PROPERTIES
    EventuallyDelivered
    EventuallyConfirmed
