SPECIFICATION Spec
CONSTANTS
    h = h
    a = a
    b = b
    Node <- MCNode
    First = h
    None = None
    kMaxPunchProbeAttempts = 1
    Plan <- MCPlan
    MaxRepeats = 1
CHECK_DEADLOCK FALSE
  
PROPERTIES  JoinIsWelcomed PunchedThrough
