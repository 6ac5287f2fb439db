--------------------------- MODULE P2PNodeProofs ----------------------------
(***************************************************************************)
(* Proofs about P2PNode, for any set of nodes, any number of promotions    *)
(* and of repeated announcements: the tables of the nodes, and that a      *)
(* single hand-over never leaves the session without a host.               *)
(***************************************************************************)
EXTENDS P2PNode, TLAPS

\* The bounds on probes and repeats are numbers, and a probe that was answered is
\* told apart from one that was never sent.
LEMMA Bounds ==
    /\ MaxRepeats \in Nat /\ kMaxPunchProbeAttempts \in Nat \ {0}
    /\ Unknown \in Unknown..Acked /\ 0 \in Unknown..Acked /\ Acked \in Unknown..Acked
    /\ Unknown # Acked /\ Unknown # 0
BY BoundAssumption DEF Unknown, Acked

\* What SendWelcome, SendPunchProbe and the others put on the network is a packet.
LEMMA PacketType ==
    ASSUME NEW k \in Kind, NEW x \in Node, NEW y \in Node, NEW S \in SUBSET Node
    PROVE  /\ Packet(k, x, y, S) \in ControlPacket
           /\ Packet(k, x, y, S).kind = k /\ Packet(k, x, y, S).from = x
           /\ Packet(k, x, y, S).to = y /\ Packet(k, x, y, S).nodes = S
BY Bounds DEF Packet, ControlPacket

\* ArmPunchProbe and GetOrCreatePunchPeerState keep a table of probes one, and
\* give a node no probe for itself.
LEMMA ArmTable ==
    ASSUME NEW f \in [Node -> Unknown..Acked], NEW n \in Node, NEW h, NEW S,
           f[n] = Unknown
    PROVE  /\ ArmPunchProbe(n, h, f, S) \in [Node -> Unknown..Acked]
           /\ ArmPunchProbe(n, h, f, S)[n] = Unknown
BY Bounds DEF ArmPunchProbe

LEMMA CreateInTable ==
    ASSUME NEW f \in [Node -> Unknown..Acked], NEW n \in Node, NEW x \in Node \ {n},
           f[n] = Unknown
    PROVE  /\ GetOrCreatePunchPeerState(f, x) \in [Node -> Unknown..Acked]
           /\ GetOrCreatePunchPeerState(f, x)[n] = Unknown
BY Bounds DEF GetOrCreatePunchPeerState

\* The empty table that a restart begins with.
LEMMA EmptyTable ==
    /\ NoPeers \in [Node -> Unknown..Acked]
    /\ \A n \in Node : NoPeers[n] = Unknown
BY Bounds DEF NoPeers

\* A restart arms probes in the empty table.
LEMMA ArmAfterRestart ==
    ASSUME NEW n \in Node, NEW h, NEW S
    PROVE  /\ ArmPunchProbe(n, h, NoPeers, S) \in [Node -> Unknown..Acked]
           /\ ArmPunchProbe(n, h, NoPeers, S)[n] = Unknown
BY EmptyTable, ArmTable

\* No node is on, knows anybody or has sent anything.
LEMMA InitRoster == Init => RosterInv
<1> SUFFICES ASSUME Init PROVE RosterInv
  OBVIOUS
<1>1. punch \in [Node -> [Node -> Unknown..Acked]] /\ NobodyProbesItself
  BY EmptyTable DEF Init, NobodyProbesItself
<1>2. public \in [Node -> BOOLEAN]
  BY DEF Init
<1>3. TypeOK
  BY <1>1, <1>2 DEF Init, TypeOK
<1>4. WelcomedIsKnown /\ WelcomeIsFiled /\ AnnouncementNamesSender
  BY DEF Init, WelcomedIsKnown, WelcomeIsFiled, AnnouncementNamesSender
<1> QED
  BY <1>1, <1>3, <1>4 DEF RosterInv

-----------------------------------------------------------------------------
(* What the steps have in common: tables of peers grow, and packets that are  *)
(* added to the network satisfy what is said of those already under way.      *)

Grows == \A x \in Node : peers[x] \subseteq peers'[x]
TablesOK == peers' \in [Node -> SUBSET Node] /\ \A x \in Node : x \notin peers'[x]
GoodPacket(m) ==
    /\ m \in ControlPacket /\ m.from # m.to
    /\ m.kind = "Welcome" => m.to \in peers'[m.from]
    /\ m.kind = "HostTransition" => m.nodes = {m.from}
NetOK ==
    /\ net' \subseteq ControlPacket /\ \A m \in net' : m.from # m.to
    /\ WelcomeIsFiled' /\ AnnouncementNamesSender'

\* A welcome that was filed stays filed.
LEMMA NetKept ==
    ASSUME RosterInv, Grows, NEW S, \A m \in S : GoodPacket(m), net' \subseteq net \cup S
    PROVE  NetOK
<1>1. \A m \in net : m \in ControlPacket /\ m.from \in Node
  BY DEF RosterInv, TypeOK, ControlPacket
<1>2. \A m \in net : GoodPacket(m)
  BY <1>1 DEF RosterInv, TypeOK, WelcomeIsFiled, AnnouncementNamesSender, Grows, GoodPacket
<1> QED
  BY <1>2 DEF NetOK, GoodPacket, WelcomeIsFiled, AnnouncementNamesSender

LEMMA NetShrinks ==
    ASSUME RosterInv, Grows, net' \subseteq net
    PROVE  NetOK
<1> DEFINE S == {}
<1>1. (\A m \in S : GoodPacket(m)) /\ net' \subseteq net \cup S
  OBVIOUS
<1> HIDE DEF S
<1> QED
  BY <1>1, NetKept

\* A welcomed client stays on the roster while nobody restarts.
LEMMA WelcomedKept ==
    ASSUME RosterInv, Grows, UNCHANGED <<role, host, public>>
    PROVE  WelcomedIsKnown'
BY DEF RosterInv, TypeOK, WelcomedIsKnown, Grows

\* Restarting one node as a host, which has no host, or as a client, which has not
\* been welcomed, leaves the others' welcomes alone.
LEMMA StartHostOK ==
    ASSUME RosterInv, Grows, NEW n \in Node, NEW known \in SUBSET Node, StartHost(n, known)
    PROVE  /\ role' \in [Node -> {"Off", "Host", "Client"}]
           /\ host' \in [Node -> Node \cup {None}]
           /\ \A x \in Node : role'[x] = "Client" => host'[x] \in Node \ {x}
           /\ public' \in [Node -> BOOLEAN]
           /\ punch' \in [Node -> [Node -> Unknown..Acked]]
           /\ NobodyProbesItself' /\ WelcomedIsKnown'
<1>1. punch' \in [Node -> [Node -> Unknown..Acked]] /\ NobodyProbesItself'
  BY ArmAfterRestart DEF StartHost, RosterInv, TypeOK, NobodyProbesItself
<1>2. WelcomedIsKnown'
  BY DEF RosterInv, TypeOK, WelcomedIsKnown, Grows, StartHost
<1> QED
  BY <1>1, <1>2 DEF StartHost, RosterInv, TypeOK

LEMMA StartClientOK ==
    ASSUME RosterInv, Grows, NEW n \in Node, NEW h \in Node \ {n},
           NEW known \in SUBSET Node, StartClient(n, h, known)
    PROVE  /\ role' \in [Node -> {"Off", "Host", "Client"}]
           /\ host' \in [Node -> Node \cup {None}]
           /\ \A x \in Node : role'[x] = "Client" => host'[x] \in Node \ {x}
           /\ public' \in [Node -> BOOLEAN]
           /\ punch' \in [Node -> [Node -> Unknown..Acked]]
           /\ NobodyProbesItself' /\ WelcomedIsKnown'
<1>1. punch' \in [Node -> [Node -> Unknown..Acked]] /\ NobodyProbesItself'
  BY ArmAfterRestart DEF StartClient, RosterInv, TypeOK, NobodyProbesItself
<1>2. public' \in [Node -> BOOLEAN] /\ ~public'[n]
  BY DEF StartClient, RosterInv, TypeOK
<1>3. WelcomedIsKnown'
  BY <1>2 DEF RosterInv, TypeOK, WelcomedIsKnown, Grows, StartClient
<1> QED
  BY <1>1, <1>2, <1>3 DEF StartClient, RosterInv, TypeOK

-----------------------------------------------------------------------------
(* The application's calls.                                                   *)

LEMMA BeginRoster ==
    ASSUME RosterInv, NEW n \in Node, Begin(n)
    PROVE  RosterInv'
<1>1. Grows /\ TablesOK
  BY DEF Begin, Grows, TablesOK, RosterInv, TypeOK
<1>2. NetOK
  BY <1>1, NetKept DEF Begin
<1>3. StartHost(n, {})
  BY DEF Begin
<1> QED
  BY <1>1, <1>2, <1>3, StartHostOK DEF RosterInv, TypeOK, TablesOK, NetOK

LEMMA ConnectRoster ==
    ASSUME RosterInv, NEW n \in Node, Connect(n)
    PROVE  RosterInv'
<1>1. Grows /\ TablesOK
  BY DEF Connect, Grows, TablesOK, RosterInv, TypeOK
<1>2. \A m \in SendJoinHello(n, First) : GoodPacket(m)
  BY PacketType, NodeAssumption DEF SendJoinHello, GoodPacket, Connect, Kind
<1>3. NetOK
  BY <1>1, <1>2, NetKept DEF Connect
<1>4. StartClient(n, First, {}) /\ First \in Node \ {n}
  BY NodeAssumption DEF Connect
<1> QED
  BY <1>1, <1>3, <1>4, StartClientOK DEF RosterInv, TypeOK, TablesOK, NetOK

\* The announcements and the roster go to the nodes in the table, never to itself.
LEMMA BecomeHostRoster ==
    ASSUME RosterInv, NEW n \in Node, BecomeHost(n)
    PROVE  RosterInv'
<1>1. Grows /\ TablesOK /\ peers[n] \in SUBSET Node /\ n \notin peers[n]
  BY DEF BecomeHost, Grows, TablesOK, RosterInv, TypeOK
<1>2. \A m \in BroadcastHostTransition(n, peers[n]) : GoodPacket(m)
  BY <1>1, PacketType DEF BroadcastHostTransition, GoodPacket, Kind
<1>3. \A m \in BroadcastPeerRoster(n, peers[n]) : GoodPacket(m)
  BY <1>1, PacketType DEF BroadcastPeerRoster, GoodPacket, Kind
<1>4. \A m \in BroadcastHostTransition(n, peers[n]) \cup BroadcastPeerRoster(n, peers[n]) :
          GoodPacket(m)
  BY <1>2, <1>3
<1>5. net' \subseteq net \cup (BroadcastHostTransition(n, peers[n])
                               \cup BroadcastPeerRoster(n, peers[n]))
  BY DEF BecomeHost
<1>6. NetOK
  BY <1>1, <1>4, <1>5, NetKept
<1>7. StartHost(n, peers[n])
  BY DEF BecomeHost
<1> QED
  BY <1>1, <1>6, <1>7, StartHostOK DEF RosterInv, TypeOK, TablesOK, NetOK

-----------------------------------------------------------------------------
(* The ticks.                                                                 *)

LEMMA ProbeRoster ==
    ASSUME RosterInv, NEW n \in Node, NEW p \in Node, Probe(n, p)
    PROVE  RosterInv'
<1>1. p # n
  BY Bounds DEF Probe, RosterInv, NobodyProbesItself, Unknown
<1>2. Grows /\ TablesOK
  BY <1>1 DEF Probe, Grows, TablesOK, RosterInv, TypeOK
<1>3. \A m \in SendPunchProbe(n, p) : GoodPacket(m)
  BY <1>1, PacketType DEF SendPunchProbe, GoodPacket, Kind
<1>4. NetOK
  BY <1>2, <1>3, NetKept DEF Probe
<1>5. punch[n][p] + 1 \in Unknown..Acked
  BY Bounds DEF Probe, Unknown, Acked
<1>6. punch' \in [Node -> [Node -> Unknown..Acked]] /\ NobodyProbesItself'
  BY <1>1, <1>5 DEF Probe, RosterInv, TypeOK, NobodyProbesItself
<1>7. WelcomedIsKnown'
  BY <1>2, WelcomedKept DEF Probe
<1> QED
  BY <1>2, <1>4, <1>6, <1>7 DEF Probe, RosterInv, TypeOK, TablesOK, NetOK

LEMMA KeepAliveRoster ==
    ASSUME RosterInv, NEW n \in Node, NEW p \in Node, KeepAlive(n, p)
    PROVE  RosterInv'
<1>1. p # n
  BY Bounds, NodeAssumption DEF KeepAlive, HostOf, RosterInv, TypeOK, NobodyProbesItself
<1>2. Grows /\ TablesOK
  BY <1>1 DEF KeepAlive, Grows, TablesOK, RosterInv, TypeOK
<1>3. NetOK
  BY <1>2, NetShrinks DEF KeepAlive
<1>4. /\ GetOrCreatePunchPeerState(punch[p], n) \in [Node -> Unknown..Acked]
      /\ GetOrCreatePunchPeerState(punch[p], n)[p] = Unknown
  <2>1. punch[p] \in [Node -> Unknown..Acked] /\ punch[p][p] = Unknown
    BY DEF RosterInv, TypeOK, NobodyProbesItself
  <2> QED
    BY <1>1, <2>1, CreateInTable
<1>5. punch' \in [Node -> [Node -> Unknown..Acked]] /\ NobodyProbesItself'
  BY <1>4 DEF KeepAlive, RosterInv, TypeOK, NobodyProbesItself
<1>6. WelcomedIsKnown'
  BY <1>2, WelcomedKept DEF KeepAlive
<1> QED
  BY <1>2, <1>3, <1>5, <1>6 DEF KeepAlive, RosterInv, TypeOK, TablesOK, NetOK

-----------------------------------------------------------------------------
(* ProcessControlPacket.                                                      *)

\* The packet that is taken from the network, and what the receiver knows then.
LEMMA Taken ==
    ASSUME RosterInv, NEW m \in net
    PROVE  /\ m \in ControlPacket /\ m.to \in Node /\ m.from \in Node \ {m.to}
           /\ m.nodes \in SUBSET Node /\ m.repeats \in 0..MaxRepeats
           /\ peers[m.to] \cup {m.from} \in SUBSET Node
           /\ m.to \notin peers[m.to] \cup {m.from}
BY DEF RosterInv, TypeOK, ControlPacket

\* Learn files addresses and forgets none.
LEMMA LearnGrows ==
    ASSUME RosterInv, NEW m \in net, NEW known \in SUBSET Node, m.to \notin known,
           peers[m.to] \subseteq known, peers' = Learn(m.to, m, known)
    PROVE  Grows /\ TablesOK /\ known \subseteq peers'[m.to] /\ m.to \in peers'[m.from]
<1>1. /\ m.to \in Node /\ m.from \in Node /\ m.from # m.to
      /\ peers \in [Node -> SUBSET Node] /\ \A x \in Node : x \notin peers[x]
  BY Taken DEF RosterInv, TypeOK
<1>2. peers' = [peers EXCEPT ![m.to] = known, ![m.from] = @ \cup {m.to}]
  BY DEF Learn
<1>3. peers' \in [Node -> SUBSET Node]
  BY ONLY known \in SUBSET Node, <1>1, <1>2
<1>4. \A x \in Node : peers'[x] = IF x = m.from THEN peers[x] \cup {m.to}
                                  ELSE IF x = m.to THEN known ELSE peers[x]
  BY ONLY <1>1, <1>2
<1>5. known \subseteq Node /\ m.to \notin known /\ peers[m.to] \subseteq known
  OBVIOUS
<1>6. ASSUME NEW x \in Node
      PROVE  peers[x] \subseteq peers'[x] /\ x \notin peers'[x]
  <2>1. CASE x = m.from
    <3>1. peers'[x] = peers[x] \cup {m.to} /\ x \notin peers[x] /\ x # m.to
      BY ONLY <1>1, <1>4, x \in Node, <2>1
    <3> QED
      BY ONLY <3>1
  <2>2. CASE x # m.from /\ x = m.to
    <3>1. peers'[x] = known
      BY ONLY <1>4, x \in Node, <2>2
    <3> QED
      BY ONLY <1>5, <2>2, <3>1
  <2>3. CASE x # m.from /\ x # m.to
    <3>1. peers'[x] = peers[x] /\ x \notin peers[x]
      BY ONLY <1>1, <1>4, x \in Node, <2>3
    <3> QED
      BY ONLY <3>1
  <2> QED
    BY ONLY <2>1, <2>2, <2>3
<1>7. peers'[m.to] = known /\ m.to \in peers'[m.from]
  BY ONLY <1>1, <1>4
<1> QED
  BY ONLY <1>3, <1>6, <1>7 DEF Grows, TablesOK

\* The answer to a JoinHello files the newcomer before it welcomes it.
LEMMA OnJoinHelloRoster ==
    ASSUME RosterInv, NEW m \in net,
           OnJoinHello(m.to, m, peers[m.to] \cup {m.from}, net \ {m})
    PROVE  RosterInv'
<1> DEFINE n == m.to
           known == peers[n] \cup {m.from}
           answer == SendWelcome(n, m.from) \cup BroadcastPeerRoster(n, known)
<1>1. Grows /\ TablesOK /\ known \subseteq peers'[n]
  BY Taken, LearnGrows DEF OnJoinHello, Ignore
<1>2. \A x \in SendWelcome(n, m.from) : GoodPacket(x)
  BY <1>1, Taken, PacketType DEF SendWelcome, GoodPacket, Kind
<1>3. \A x \in BroadcastPeerRoster(n, known) : GoodPacket(x)
  BY <1>1, Taken, PacketType DEF BroadcastPeerRoster, GoodPacket, Kind
<1>4. (\A x \in answer : GoodPacket(x)) /\ net' \subseteq net \cup answer
  BY <1>2, <1>3 DEF OnJoinHello
<1>5. NetOK
  <2> HIDE DEF answer, n, known
  <2> QED
    BY <1>1, <1>4, NetKept
<1>6. WelcomedIsKnown'
  BY <1>1, WelcomedKept DEF OnJoinHello, Ignore, nodeVars
<1> QED
  BY <1>1, <1>5, <1>6
     DEF OnJoinHello, Ignore, nodeVars, RosterInv, TypeOK, TablesOK, NetOK, NobodyProbesItself

\* A welcome is believed when it comes from the host, which had filed the client.
LEMMA OnWelcomeRoster ==
    ASSUME RosterInv, NEW m \in net,
           OnWelcome(m.to, m, peers[m.to] \cup {m.from}, net \ {m})
    PROVE  RosterInv'
<1> DEFINE n == m.to
           known == peers[n] \cup {m.from}
<1>1. Grows /\ TablesOK
  BY Taken, LearnGrows DEF OnWelcome
<1>2. NetOK
  BY <1>1, NetShrinks DEF OnWelcome
<1>3. public' \in [Node -> BOOLEAN]
  BY Taken, Zenon DEF OnWelcome, RosterInv, TypeOK
<1>4. m.to \in peers[m.from]
  BY DEF OnWelcome, RosterInv, WelcomeIsFiled
<1>5. ASSUME NEW x \in Node, role[x] = "Client", public'[x]
      PROVE  x \in peers'[host[x]]
  <2>1. host[x] \in Node
    BY <1>5 DEF RosterInv, TypeOK
  <2>2. CASE public[x]
    BY <1>1, <1>5, <2>1, <2>2 DEF RosterInv, WelcomedIsKnown, Grows
  <2>3. CASE ~public[x]
    <3>1. x = m.to /\ FromHost(x, m)
      BY <1>5, <2>3, Zenon DEF OnWelcome, RosterInv, TypeOK
    <3> QED
      BY <1>1, <1>4, <2>1, <3>1 DEF FromHost, Grows
  <2> QED
    BY <2>2, <2>3
<1>6. WelcomedIsKnown'
  BY <1>5 DEF OnWelcome, WelcomedIsKnown
<1> QED
  BY <1>1, <1>2, <1>3, <1>6
     DEF OnWelcome, RosterInv, TypeOK, TablesOK, NetOK, NobodyProbesItself

\* The nodes of a roster are filed and probed, but for the receiver itself.
LEMMA OnPeerRosterRoster ==
    ASSUME RosterInv, NEW m \in net,
           OnPeerRoster(m.to, m, peers[m.to] \cup {m.from}, net \ {m})
    PROVE  RosterInv'
<1> DEFINE n == m.to
           known == peers[n] \cup {m.from}
           table == IF role[n] = "Client"
                    THEN ArmPunchProbe(n, host[n], punch[n], m.nodes) ELSE punch[n]
<1>1. Grows /\ TablesOK
  <2>1. \/ peers' = Learn(n, m, known)
        \/ peers' = Learn(n, m, known \cup (m.nodes \ {n}))
    BY DEF OnPeerRoster, Ignore
  <2>2. /\ known \in SUBSET Node /\ n \notin known
        /\ known \cup (m.nodes \ {n}) \in SUBSET Node /\ n \notin known \cup (m.nodes \ {n})
    BY Taken
  <2> QED
    BY <2>1, <2>2, LearnGrows
<1>2. NetOK
  BY <1>1, NetShrinks DEF OnPeerRoster
<1>3. punch[n] \in [Node -> Unknown..Acked] /\ punch[n][n] = Unknown
  BY Taken DEF RosterInv, TypeOK, NobodyProbesItself
<1>4. table \in [Node -> Unknown..Acked] /\ table[n] = Unknown
  BY <1>3, Taken, ArmTable
<1>5. punch' = punch \/ punch' = [punch EXCEPT ![n] = table]
  BY DEF OnPeerRoster, Ignore, nodeVars
<1>6. punch' \in [Node -> [Node -> Unknown..Acked]] /\ NobodyProbesItself'
  <2> HIDE DEF table
  <2> QED
    BY <1>4, <1>5, Taken DEF RosterInv, TypeOK, NobodyProbesItself
<1>7. UNCHANGED <<role, host, public>>
  BY DEF OnPeerRoster, Ignore, nodeVars
<1>8. WelcomedIsKnown'
  BY <1>1, <1>7, WelcomedKept
<1> QED
  BY <1>1, <1>2, <1>6, <1>7, <1>8 DEF RosterInv, TypeOK, TablesOK, NetOK

\* The receiver is not the announced host, and restarts as its client.
LEMMA OnHostTransitionRoster ==
    ASSUME RosterInv, NEW m \in net,
           OnHostTransition(m.to, m, peers[m.to] \cup {m.from}, net \ {m})
    PROVE  RosterInv'
<1> DEFINE n == m.to
           known == peers[n] \cup {m.from}
           again == {[m EXCEPT !.repeats = m.repeats - 1] : k \in 1..m.repeats}
           sent == SendJoinHello(n, m.from) \cup again
<1>1. Grows /\ TablesOK
  BY Taken, LearnGrows DEF OnHostTransition
<1>2. m.nodes = {m.from}
  BY DEF OnHostTransition, RosterInv, AnnouncementNamesSender
<1>3. CASE UNCHANGED nodeVars /\ net' = net \ {m}
  <2>1. NetOK
    BY <1>1, <1>3, NetShrinks
  <2>2. WelcomedIsKnown'
    BY <1>1, <1>3, WelcomedKept DEF nodeVars
  <2> QED
    BY <1>1, <1>3, <2>1, <2>2
       DEF nodeVars, RosterInv, TypeOK, TablesOK, NetOK, NobodyProbesItself
<1>4. CASE StartClient(n, m.from, known) /\ net' \subseteq net \cup sent
  <2>1. \A x \in SendJoinHello(n, m.from) : GoodPacket(x)
    BY Taken, PacketType DEF SendJoinHello, GoodPacket, Kind
  <2>2. \A x \in again : GoodPacket(x)
    <3> SUFFICES ASSUME NEW k \in 1..m.repeats
                 PROVE  GoodPacket([m EXCEPT !.repeats = m.repeats - 1])
      OBVIOUS
    <3>1. m.repeats - 1 \in 0..MaxRepeats
      BY Taken, Bounds
    <3>2. m.kind = "HostTransition"
      BY DEF OnHostTransition
    <3> QED
      BY <1>2, <3>1, <3>2, Taken DEF ControlPacket, GoodPacket
  <2>3. \A x \in sent : GoodPacket(x)
    BY <2>1, <2>2
  <2>4. NetOK
    <3> HIDE DEF sent
    <3> QED
      BY <1>1, <1>4, <2>3, NetKept
  <2> QED
    BY <1>1, <1>4, <2>4, Taken, StartClientOK DEF RosterInv, TypeOK, TablesOK, NetOK
<1> QED
  BY <1>2, <1>3, <1>4 DEF OnHostTransition

LEMMA OnPunchProbeRoster ==
    ASSUME RosterInv, NEW m \in net,
           OnPunchProbe(m.to, m, peers[m.to] \cup {m.from}, net \ {m})
    PROVE  RosterInv'
<1> DEFINE n == m.to
           created == GetOrCreatePunchPeerState(punch[n], m.from)
           table == ArmPunchProbe(n, HostOf(n), created, {m.from})
<1>1. Grows /\ TablesOK
  BY Taken, LearnGrows DEF OnPunchProbe
<1>2. NetOK
  <2>1. \A x \in SendPunchAck(n, m.from) : GoodPacket(x)
    BY Taken, PacketType DEF SendPunchAck, GoodPacket, Kind
  <2> QED
    BY <1>1, <2>1, NetKept DEF OnPunchProbe
<1>3. punch[n] \in [Node -> Unknown..Acked] /\ punch[n][n] = Unknown
  BY Taken DEF RosterInv, TypeOK, NobodyProbesItself
<1>4. created \in [Node -> Unknown..Acked] /\ created[n] = Unknown
  BY <1>3, Taken, CreateInTable
<1>5. table \in [Node -> Unknown..Acked] /\ table[n] = Unknown
  <2> HIDE DEF created
  <2> QED
    BY <1>4, Taken, ArmTable
<1>6. punch' = [punch EXCEPT ![n] = table]
  BY DEF OnPunchProbe
<1>7. punch' \in [Node -> [Node -> Unknown..Acked]] /\ NobodyProbesItself'
  <2> HIDE DEF table
  <2> QED
    BY <1>5, <1>6, Taken DEF RosterInv, TypeOK, NobodyProbesItself
<1>8. WelcomedIsKnown'
  BY <1>1, WelcomedKept DEF OnPunchProbe
<1> QED
  BY <1>1, <1>2, <1>7, <1>8 DEF OnPunchProbe, RosterInv, TypeOK, TablesOK, NetOK

LEMMA OnPunchAckRoster ==
    ASSUME RosterInv, NEW m \in net,
           OnPunchAck(m.to, m, peers[m.to] \cup {m.from}, net \ {m})
    PROVE  RosterInv'
<1>1. Grows /\ TablesOK
  BY Taken, LearnGrows DEF OnPunchAck
<1>2. NetOK
  BY <1>1, NetShrinks DEF OnPunchAck
<1>3. punch' \in [Node -> [Node -> Unknown..Acked]] /\ NobodyProbesItself'
  BY Taken, Bounds DEF OnPunchAck, RosterInv, TypeOK, NobodyProbesItself
<1>4. WelcomedIsKnown'
  BY <1>1, WelcomedKept DEF OnPunchAck
<1> QED
  BY <1>1, <1>2, <1>3, <1>4 DEF OnPunchAck, RosterInv, TypeOK, TablesOK, NetOK

LEMMA DeliverRoster ==
    ASSUME RosterInv, NEW m \in net, Deliver(m)
    PROVE  RosterInv'
BY OnJoinHelloRoster, OnWelcomeRoster, OnPeerRosterRoster, OnHostTransitionRoster,
   OnPunchProbeRoster, OnPunchAckRoster DEF Deliver

\* Every step of the nodes keeps their tables.
LEMMA NextRoster == RosterInv /\ [Next]_vars => RosterInv'
<1> SUFFICES ASSUME RosterInv, [Next]_vars PROVE RosterInv'
  OBVIOUS
<1>1. CASE Next
  BY <1>1, BeginRoster, ConnectRoster, BecomeHostRoster, DeliverRoster, ProbeRoster,
     KeepAliveRoster DEF Next
<1>2. CASE UNCHANGED vars
  BY <1>2 DEF vars, nodeVars, RosterInv, TypeOK, WelcomedIsKnown, WelcomeIsFiled,
              AnnouncementNamesSender, NobodyProbesItself
<1> QED
  BY <1>1, <1>2

\* In every session, of any number of nodes and promotions, the tables of
\* ProcessControlPacket are in order: nobody is its own client, and a client that
\* was welcomed is on the roster of the node it takes for its host.
THEOREM P2PRosterInvariant == Spec => []RosterInv
<1>1. Init => RosterInv
  BY InitRoster
<1>2. RosterInv /\ [Next]_vars => RosterInv'
  BY NextRoster
<1> QED
  BY <1>1, <1>2, PTL DEF Spec

-----------------------------------------------------------------------------
(* One hand-over.                                                             *)

\* The applications promote at most one node.
OnePromotion == \A p \in Plan : p.transitions <= 1

Announcement == {m \in net : m.kind = "HostTransition"}

\* While the promotion is to come nobody has announced anything and the node that
\* began is off or the host; afterwards one node announces itself, and it is a host.
SuccessionInv ==
    /\ plan \in [join : SUBSET Node, transitions : 0..1,
                 ticks : SUBSET {"Probe", "KeepAlive"}]
    /\ plan.transitions = 1 => Announcement = {} /\ role[First] \in {"Off", "Host"}
    /\ \A m \in Announcement : role[m.from] = "Host"
    /\ \A m, k \in Announcement : m.from = k.from
    /\ SomeHost

\* A step that restarts no node and announces nothing.
LEMMA SuccessionKept ==
    ASSUME SuccessionInv, UNCHANGED <<role, plan>>, NEW S, net' \subseteq net \cup S,
           \A m \in S : m.kind # "HostTransition"
    PROVE  SuccessionInv'
BY DEF SuccessionInv, SomeHost, Announcement

LEMMA SuccessionShrinks ==
    ASSUME SuccessionInv, UNCHANGED <<role, plan>>, net' \subseteq net
    PROVE  SuccessionInv'
BY DEF SuccessionInv, SomeHost, Announcement

LEMMA InitSuccession ==
    ASSUME OnePromotion
    PROVE  Init => SuccessionInv
<1> SUFFICES ASSUME Init PROVE SuccessionInv
  OBVIOUS
<1>1. plan \in [join : SUBSET Node, transitions : 0..1,
                ticks : SUBSET {"Probe", "KeepAlive"}]
  BY BoundAssumption DEF Init, OnePromotion
<1> QED
  BY <1>1, NodeAssumption DEF Init, SuccessionInv, Announcement, SomeHost

\* Promoting a node uses the promotion up; nobody has announced itself before.
LEMMA BecomeHostSuccession ==
    ASSUME RosterInv, SuccessionInv, NEW n \in Node, BecomeHost(n)
    PROVE  SuccessionInv'
<1>1. plan.transitions = 1 /\ plan' = [plan EXCEPT !.transitions = 0]
  BY DEF BecomeHost, SuccessionInv
<1>2. /\ plan' \in [join : SUBSET Node, transitions : 0..1,
                    ticks : SUBSET {"Probe", "KeepAlive"}]
      /\ plan'.transitions = 0
  BY <1>1 DEF SuccessionInv
<1>3. role' \in [Node -> {"Off", "Host", "Client"}] /\ role'[n] = "Host"
  BY DEF BecomeHost, StartHost, RosterInv, TypeOK
<1>4. \A m \in Announcement' : m.from = n
  <2>1. Announcement = {}
    BY <1>1 DEF SuccessionInv
  <2>2. \A m \in BroadcastPeerRoster(n, peers[n]) : m.kind = "PeerRoster"
    BY DEF BroadcastPeerRoster, Packet
  <2>3. \A m \in BroadcastHostTransition(n, peers[n]) : m.from = n
    BY DEF BroadcastHostTransition, Packet
  <2> QED
    BY <2>1, <2>2, <2>3 DEF BecomeHost, Announcement
<1> QED
  BY <1>2, <1>3, <1>4 DEF SuccessionInv, SomeHost

\* Who obeys is not the announced node, which is a host and stays one.
LEMMA OnHostTransitionSuccession ==
    ASSUME RosterInv, SuccessionInv, NEW m \in net, UNCHANGED plan,
           OnHostTransition(m.to, m, peers[m.to] \cup {m.from}, net \ {m})
    PROVE  SuccessionInv'
<1>1. m \in Announcement /\ m.from \in Node \ {m.to} /\ m.to \in Node /\ m.nodes = {m.from}
  BY Taken DEF OnHostTransition, Announcement, RosterInv, AnnouncementNamesSender
<1>2. plan.transitions = 0 /\ role[m.from] = "Host"
  BY <1>1 DEF SuccessionInv
<1>3. CASE UNCHANGED nodeVars /\ net' = net \ {m}
  BY <1>3, SuccessionShrinks DEF nodeVars
<1>4. CASE /\ StartClient(m.to, m.from, peers[m.to] \cup {m.from})
           /\ net' = (net \ {m}) \cup SendJoinHello(m.to, m.from)
                       \cup {[m EXCEPT !.repeats = m.repeats - 1] : k \in 1..m.repeats}
  <2>1. role'[m.from] = "Host"
    BY <1>1, <1>2, <1>4 DEF StartClient, RosterInv, TypeOK
  <2>2. \A x \in Announcement' : x.from = m.from
    <3>1. \A x \in SendJoinHello(m.to, m.from) : x.kind = "JoinHello"
      BY DEF SendJoinHello, Packet
    <3>2. [m EXCEPT !.repeats = m.repeats - 1].from = m.from
      BY Taken DEF ControlPacket
    <3> QED
      BY <1>1, <1>4, <3>1, <3>2 DEF Announcement, SuccessionInv
  <2> QED
    BY <1>1, <1>2, <2>1, <2>2 DEF SuccessionInv, SomeHost
<1> QED
  BY <1>1, <1>3, <1>4 DEF OnHostTransition

LEMMA DeliverSuccession ==
    ASSUME RosterInv, SuccessionInv, NEW m \in net, Deliver(m)
    PROVE  SuccessionInv'
<1> DEFINE n == m.to
           known == peers[n] \cup {m.from}
           rest == net \ {m}
<1>1. CASE OnJoinHello(n, m, known, rest)
  <2> DEFINE S == SendWelcome(n, m.from) \cup BroadcastPeerRoster(n, known)
  <2>1. net' \subseteq net \cup S /\ \A x \in S : x.kind # "HostTransition"
    BY <1>1 DEF OnJoinHello, SendWelcome, BroadcastPeerRoster, Packet
  <2>2. UNCHANGED <<role, plan>>
    BY <1>1 DEF Deliver, OnJoinHello, Ignore, nodeVars
  <2> HIDE DEF S
  <2> QED
    BY <2>1, <2>2, SuccessionKept
<1>2. CASE OnPunchProbe(n, m, known, rest)
  <2> DEFINE S == SendPunchAck(n, m.from)
  <2>1. net' \subseteq net \cup S /\ \A x \in S : x.kind # "HostTransition"
    BY <1>2 DEF OnPunchProbe, SendPunchAck, Packet
  <2>2. UNCHANGED <<role, plan>>
    BY <1>2 DEF Deliver, OnPunchProbe
  <2> HIDE DEF S
  <2> QED
    BY <2>1, <2>2, SuccessionKept
<1>3. CASE OnWelcome(n, m, known, rest) \/ OnPeerRoster(n, m, known, rest)
             \/ OnPunchAck(n, m, known, rest)
  <2>1. net' \subseteq net /\ UNCHANGED <<role, plan>>
    BY <1>3 DEF Deliver, OnWelcome, OnPeerRoster, OnPunchAck, Ignore, nodeVars
  <2> QED
    BY <2>1, SuccessionShrinks
<1>4. CASE OnHostTransition(n, m, known, rest)
  BY <1>4, OnHostTransitionSuccession DEF Deliver
<1> QED
  BY <1>1, <1>2, <1>3, <1>4 DEF Deliver

LEMMA NextSuccession == RosterInv /\ SuccessionInv /\ [Next]_vars => SuccessionInv'
<1> SUFFICES ASSUME RosterInv, SuccessionInv, [Next]_vars PROVE SuccessionInv'
  OBVIOUS
<1>1. ASSUME NEW n \in Node, Begin(n) PROVE SuccessionInv'
  <2>1. role' \in [Node -> {"Off", "Host", "Client"}] /\ role'[First] = "Host"
    BY <1>1 DEF Begin, StartHost, RosterInv, TypeOK
  <2>2. \A x \in Node \ {First} : role'[x] = role[x]
    BY <1>1 DEF Begin, StartHost, RosterInv, TypeOK
  <2>3. \A m \in Announcement : m.from \in Node
    BY Taken DEF Announcement
  <2> QED
    BY <1>1, <2>1, <2>2, <2>3, NodeAssumption DEF Begin, SuccessionInv, Announcement, SomeHost
<1>2. ASSUME NEW n \in Node, Connect(n) PROVE SuccessionInv'
  <2>1. n # First /\ role[n] = "Off" /\ UNCHANGED plan
    BY <1>2 DEF Connect
  <2>2. \A x \in Node \ {n} : role'[x] = role[x]
    BY <1>2 DEF Connect, StartClient, RosterInv, TypeOK
  <2>3. \A m \in Announcement : m.from \in Node
    BY Taken DEF Announcement
  <2>4. Announcement' = Announcement
    BY <1>2 DEF Connect, Announcement, SendJoinHello, Packet
  <2>5. \A x \in Node : role[x] = "Host" => role'[x] = "Host"
    BY <2>1, <2>2
  <2> QED
    BY <2>1, <2>2, <2>3, <2>4, <2>5, NodeAssumption DEF SuccessionInv, SomeHost
<1>3. ASSUME NEW n \in Node, NEW p \in Node, Probe(n, p) PROVE SuccessionInv'
  <2>1. \A m \in SendPunchProbe(n, p) : m.kind # "HostTransition"
    BY DEF SendPunchProbe, Packet
  <2>2. net' \subseteq net \cup SendPunchProbe(n, p) /\ UNCHANGED <<role, plan>>
    BY <1>3 DEF Probe
  <2> QED
    BY <2>1, <2>2, SuccessionKept
<1>4. ASSUME NEW n \in Node, NEW p \in Node, KeepAlive(n, p) PROVE SuccessionInv'
  BY <1>4, SuccessionShrinks DEF KeepAlive
<1>5. CASE UNCHANGED vars
  BY <1>5, SuccessionShrinks DEF vars, nodeVars
<1> QED
  BY <1>1, <1>2, <1>3, <1>4, <1>5, BecomeHostSuccession, DeliverSuccession DEF Next

\* Where the applications promote at most one node, the session has a host from
\* Begin on, however late the announcements arrive and whichever are obeyed again:
\* PromoteToHost restarts the new host before anybody can obey it.
THEOREM P2PSomeHost ==
    ASSUME OnePromotion
    PROVE  Spec => []SomeHost
<1>1. Init => SuccessionInv
  BY InitSuccession
<1>2. RosterInv /\ SuccessionInv /\ [Next]_vars => SuccessionInv'
  BY NextSuccession
<1>3. SuccessionInv => SomeHost
  BY DEF SuccessionInv
<1>4. Spec => []RosterInv
  BY P2PRosterInvariant
<1> QED
  BY <1>1, <1>2, <1>3, <1>4, PTL DEF Spec
=============================================================================
