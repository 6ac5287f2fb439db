\* Three receipts, two workers, the incoming and the outgoing thread.
CONSTANTS
    n1 = n1
    n2 = n2
    n3 = n3
    Node = {n1, n2, n3}
    Scenario <- MCScenario
    Worker = {w1, w2}
    incoming = incoming
    outgoing = outgoing
    Null = Null
    CollectorAlone = TRUE
SPECIFICATION MapSpec
SYMMETRY WorkerSymmetry
\* Every node is inserted once: the calls run out.
CHECK_DEADLOCK FALSE
INVARIANT LiveIsFindable
 
 
