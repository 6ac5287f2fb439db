------------------------- MODULE MCReliableChannel --------------------------
(* Small instances of the reliable channel and the traffic on them. *)
EXTENDS ReliableChannel, TLC

CONSTANTS srv, c1, c2, p1, p2

Reliable(from, to) == [from |-> from, to |-> to, reliable |-> TRUE,
                       channel |-> "Data", priority |-> 1]

Case(traffic, mayExpire, mayFail) ==
    [traffic |-> traffic, mayExpire |-> mayExpire, mayFail |-> mayFail]

\* Two clients send to the server, their packets have the same number.
Upload == p1 :> Reliable(c1, ToServer) @@ p2 :> Reliable(c2, ToServer)

\* The server sends two reliable packets to one client.
Download == p1 :> Reliable(srv, c1) @@ p2 :> Reliable(srv, c1)

\* A reliable packet, and an unreliable one that overtakes it.
Mixed == p1 :> Reliable(srv, c1)
         @@ p2 :> [Reliable(srv, c1) EXCEPT !.reliable = FALSE, !.channel = "Control",
                                          !.priority = 2]

MCFaults == {Case(Download, TRUE, TRUE), Case(Upload, FALSE, FALSE)}
MCMixed == {Case(Mixed, FALSE, FALSE)}
MCDownload == {Case(Download, FALSE, FALSE)}
=============================================================================
