\* Loss and duplication; one direction with expiry and failing sends, or two senders.
CONSTANTS
    srv = srv
    c1 = c1
    c2 = c2
    p1 = p1
    p2 = p2
    Node = {srv, c1, c2}
    Server = srv
    Worker = {w1}
    Packet = {p1, p2}
    Scenario <- MCFaults
    ToAll = ToAll
    ToServer = ToServer
    None = None
    Priority = {1, 2}
    SeqMod = 3
    MaxQueuedTasks = 1
    MaxBacklog = 1
    MaxCopies = 2
SPECIFICATION Spec
INVARIANTS
    NumberingInv
    DeliveredAtMostOnce
    ConfirmedHasArrived
    NeverForgotten
\* The traffic is finite: an idle system is the end of a run.
CHECK_DEADLOCK FALSE
