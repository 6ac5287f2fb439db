----------------------------- MODULE MCP2PNode ------------------------------
(* P2PNode with a host h and up to two clients.                              *)
EXTENDS P2PNode
CONSTANTS h, a, b

MCNode == {h, a, b}
MCPlan == {[join |-> {a, b}, transitions |-> 0, ticks |-> {"Probe"}],
           [join |-> {a}, transitions |-> 1, ticks |-> {"Probe", "KeepAlive"}],
           [join |-> {a, b}, transitions |-> 1, ticks |-> {"KeepAlive"}]}
=============================================================================
