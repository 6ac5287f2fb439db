------------------------------ MODULE P2PNode -------------------------------
(***************************************************************************)
(* ZP2PNode (znet/z_p2p_node.cc): nodes that host a session or join one,   *)
(* learn of each other from the host's roster, probe each other (NAT punch *)
(* through), and hand the session over to a new host.                      *)
(*                                                                         *)
(* A node is named by its address, which IsSelfAddress recognises; it      *)
(* keeps the address over restarts of its transport.  Every control packet *)
(* is reliable and arrives, in any order.  The duplicate filter of a node  *)
(* is empty after a restart of its threads, so a host transition that is   *)
(* retransmitted can be obeyed again; to repeat another packet changes     *)
(* nothing more.  A broadcast goes to the peers known when it is pushed.   *)
(* A packet is processed when it is delivered, and acknowledged with it.   *)
(* Keepalives are sent for ever: one under way is like one sent later.     *)
(***************************************************************************)
EXTENDS Integers, FiniteSets

CONSTANTS
    Node,
    First,                  \* the node that calls Begin
    None,
    kMaxPunchProbeAttempts,
    Plan,                   \* bounds on what the applications do: which nodes
                            \* join, how often one calls BecomeHost, and
                            \* which packets the ticks send
    MaxRepeats              \* bound: times a host transition is obeyed again

ASSUME NodeAssumption == First \in Node /\ None \notin Node
ASSUME BoundAssumption ==
    /\ kMaxPunchProbeAttempts \in Nat \ {0}
    /\ Plan \subseteq [join : SUBSET Node, transitions : Nat,
                        ticks : SUBSET {"Probe", "KeepAlive"}]
    /\ MaxRepeats \in Nat

VARIABLES
    role,           \* "Off" (not connected), or type_: "Host", "Client"
    host,           \* host_endpoint_
    public,         \* has_public_endpoint_
    peers,          \* the addresses in peer_mapping_, which a restart keeps
    punch,          \* punch_peers_: node -> peer -> Unknown, attempts_sent, Acked
    net,            \* control packets under way
    plan            \* the bounds; transitions counts down

nodeVars == <<role, host, public, punch>>
vars == <<nodeVars, peers, net, plan>>

Unknown == -1
Acked == kMaxPunchProbeAttempts + 1
NoPeers == [p \in Node |-> Unknown]

Kind == {"JoinHello", "Welcome", "PeerRoster", "HostTransition", "PunchProbe",
         "PunchAck"}
\* repeats is how often the packet may still arrive after a restart.
Packet(kind, from, to, nodes) ==
    [kind |-> kind, from |-> from, to |-> to, nodes |-> nodes,
     repeats |-> IF kind = "HostTransition" THEN MaxRepeats ELSE 0]
SendJoinHello(n, h) == {Packet("JoinHello", n, h, {})}
SendWelcome(n, p) == {Packet("Welcome", n, p, {p})}
BroadcastPeerRoster(n, known) == {Packet("PeerRoster", n, p, known) : p \in known}
BroadcastHostTransition(n, known) == {Packet("HostTransition", n, p, {n}) : p \in known}
SendPunchProbe(n, p) == {Packet("PunchProbe", n, p, {})}
SendPunchAck(n, p) == {Packet("PunchAck", n, p, {})}

\* ArmPunchProbe for the peers in S of a node n whose host, as a client, is h.
ArmPunchProbe(n, h, f, S) ==
    [p \in Node |-> IF p \in S /\ p \notin {n, h} /\ f[p] # Acked
                      /\ f[p] \in {Unknown, kMaxPunchProbeAttempts}
                    THEN 0 ELSE f[p]]
HostOf(n) == IF role[n] = "Client" THEN host[n] ELSE None
GetOrCreatePunchPeerState(f, p) ==
    IF f[p] = Unknown THEN [f EXCEPT ![p] = 0] ELSE f

-----------------------------------------------------------------------------
(* Starting and restarting the transport.  known is what peer_mapping_ holds. *)

\* InitAsHost, then what PromoteToHost does with the peers it knows.
StartHost(n, known) ==
    /\ role' = [role EXCEPT ![n] = "Host"]
    /\ host' = [host EXCEPT ![n] = n]
    /\ punch' = [punch EXCEPT ![n] = ArmPunchProbe(n, None, NoPeers, known)]
    /\ UNCHANGED public

\* InitAsClient, then what ReconnectToHost does with the peers it knows.
StartClient(n, h, known) ==
    /\ role' = [role EXCEPT ![n] = "Client"]
    /\ host' = [host EXCEPT ![n] = h]
    /\ public' = [public EXCEPT ![n] = FALSE]
    /\ punch' = [punch EXCEPT ![n] = ArmPunchProbe(n, h, NoPeers, known)]

Begin(n) ==
    /\ n = First /\ role[n] = "Off"
    /\ StartHost(n, {})
    /\ UNCHANGED <<peers, net, plan>>

Connect(n) ==
    /\ n \in plan.join \ {First} /\ role[n] = "Off"
    /\ StartClient(n, First, {})
    /\ net' = net \cup SendJoinHello(n, First)
    /\ UNCHANGED <<peers, plan>>

BecomeHostInName(n) ==
    /\ role[n] = "Client" /\ plan.transitions > 0
    /\ net' = net \cup BroadcastHostTransition(n, peers[n])
    /\ plan' = [plan EXCEPT !.transitions = @ - 1]
    /\ UNCHANGED <<nodeVars, peers>>
\* BecomeHost, PromoteToHost(true): a client tells everybody it knows, restarts
\* as a host and sends its roster; on a host the call does nothing.
BecomeHost(n) ==
    /\ role[n] = "Client" /\ plan.transitions > 0
    /\ StartHost(n, peers[n])
    /\ net' = net \cup BroadcastHostTransition(n, peers[n])
                  \cup BroadcastPeerRoster(n, peers[n])
    /\ plan' = [plan EXCEPT !.transitions = @ - 1]
    /\ UNCHANGED peers

-----------------------------------------------------------------------------
(* ProcessControlPacket: what the receiver n does with packet m.  Receiving   *)
(* has put the source into peer_mapping_, known is the table after that; rest *)
(* are the other packets under way.                                           *)

FromHost(n, m) == m.from = host[n]

LearnNobody(n, m, known) == peers
\* The sender learns the receiver's address from the acknowledgement.
Learn(n, m, known) == [peers EXCEPT ![n] = known, ![m.from] = @ \cup {n}]

Ignore(n, m, known) ==
    UNCHANGED nodeVars /\ peers' = Learn(n, m, known)

OnJoinHelloOfStranger(n, m, known, rest) ==
    /\ m.kind = "JoinHello"
    /\ Ignore(n, m, known)
    /\ net' = rest \cup IF role[n] # "Host" \/ m.from \in peers[n] THEN {}
                        ELSE SendWelcome(n, m.from) \cup BroadcastPeerRoster(n, known)
OnJoinHello(n, m, known, rest) ==
    /\ m.kind = "JoinHello"
    /\ Ignore(n, m, known)
    /\ net' = rest \cup IF role[n] # "Host" THEN {}
                        ELSE SendWelcome(n, m.from) \cup BroadcastPeerRoster(n, known)

OnWelcome(n, m, known, rest) ==
    /\ m.kind = "Welcome"
    /\ public' = [public EXCEPT ![n] = @ \/ (role[n] = "Client" /\ FromHost(n, m))]
    /\ peers' = Learn(n, m, known)
    /\ net' = rest
    /\ UNCHANGED <<role, host, punch>>

OnPeerRoster(n, m, known, rest) ==
    /\ m.kind = "PeerRoster"
    /\ net' = rest
    /\ \/ /\ role[n] = "Client" /\ ~FromHost(n, m)
          /\ Ignore(n, m, known)
       \/ /\ role[n] = "Client" => FromHost(n, m)
          /\ peers' = Learn(n, m, known \cup (m.nodes \ {n}))
          /\ punch' = [punch EXCEPT ![n] =
                IF role[n] = "Client" THEN ArmPunchProbe(n, host[n], @, m.nodes) ELSE @]
          /\ UNCHANGED <<role, host, public>>

\* A client obeys its host only, a host obeys everybody.  An announcement names
\* its sender, so the branch for the receiver's own address is never taken.
OnHostTransitionDeaf(n, m, known, rest) ==
    m.kind = "HostTransition" /\ Ignore(n, m, known) /\ net' = rest
OnHostTransition(n, m, known, rest) ==
    /\ m.kind = "HostTransition"
    /\ peers' = Learn(n, m, known)
    /\ \E next \in m.nodes :
          \/ /\ role[n] = "Client" /\ ~FromHost(n, m)
             /\ UNCHANGED nodeVars /\ net' = rest
          \/ /\ role[n] = "Client" => FromHost(n, m)
             /\ StartClient(n, next, known)
             /\ net' = rest \cup SendJoinHello(n, next)
                            \cup {[m EXCEPT !.repeats = @ - 1] : k \in 1..m.repeats}

OnPunchProbeSilent(n, m, known, rest) ==
    /\ m.kind = "PunchProbe"
    /\ punch' = [punch EXCEPT ![n] =
          ArmPunchProbe(n, HostOf(n), GetOrCreatePunchPeerState(@, m.from), {m.from})]
    /\ peers' = Learn(n, m, known)
    /\ net' = rest
    /\ UNCHANGED <<role, host, public>>
OnPunchProbe(n, m, known, rest) ==
    /\ m.kind = "PunchProbe"
    /\ punch' = [punch EXCEPT ![n] =
          ArmPunchProbe(n, HostOf(n), GetOrCreatePunchPeerState(@, m.from), {m.from})]
    /\ peers' = Learn(n, m, known)
    /\ net' = rest \cup SendPunchAck(n, m.from)
    /\ UNCHANGED <<role, host, public>>

OnPunchAck(n, m, known, rest) ==
    /\ m.kind = "PunchAck"
    /\ punch' = [punch EXCEPT ![n][m.from] = Acked]
    /\ peers' = Learn(n, m, known)
    /\ net' = rest
    /\ UNCHANGED <<role, host, public>>

Deliver(m) ==
    LET n == m.to
        known == peers[n] \cup {m.from}
        rest == net \ {m}
    IN  /\ role[n] # "Off"
        /\ \/ OnJoinHello(n, m, known, rest) \/ OnWelcome(n, m, known, rest)
           \/ OnPeerRoster(n, m, known, rest) \/ OnHostTransition(n, m, known, rest)
           \/ OnPunchProbe(n, m, known, rest) \/ OnPunchAck(n, m, known, rest)
        /\ UNCHANGED plan

\* TickNatPunchthrough, for one peer: a probe or a keepalive is due.
Probe(n, p) ==
    /\ "Probe" \in plan.ticks /\ role[n] # "Off" /\ p # HostOf(n)
    /\ punch[n][p] \in 0..(kMaxPunchProbeAttempts - 1)
    /\ punch' = [punch EXCEPT ![n][p] = @ + 1]
    /\ peers' = [peers EXCEPT ![n] = @ \cup {p}]
    /\ net' = net \cup SendPunchProbe(n, p)
    /\ UNCHANGED <<role, host, public, plan>>

KeepAlive(n, p) ==
    /\ "KeepAlive" \in plan.ticks /\ role[n] # "Off" /\ role[p] # "Off"
    /\ p = HostOf(n) \/ punch[n][p] = Acked
    /\ peers' = [peers EXCEPT ![n] = @ \cup {p}, ![p] = @ \cup {n}]
    /\ punch' = [punch EXCEPT ![p] = GetOrCreatePunchPeerState(@, n)]
    /\ UNCHANGED <<role, host, public, net, plan>>

-----------------------------------------------------------------------------
\* A node takes its packets one after the other; probes and their answers can
\* go on for as long as they cross, so the answers are a share of their own.
DeliverTo(n, kinds) == \E m \in net : m.to = n /\ m.kind \in kinds /\ Deliver(m)

Init ==
    /\ role = [n \in Node |-> "Off"]
    /\ host = [n \in Node |-> None]
    /\ public = [n \in Node |-> FALSE]
    /\ peers = [n \in Node |-> {}]
    /\ punch = [n \in Node |-> NoPeers]
    /\ net = {} /\ plan \in Plan

Next ==
    \/ \E n \in Node : Begin(n) \/ Connect(n) \/ BecomeHost(n)
    \/ \E m \in net : Deliver(m)
    \/ \E n, p \in Node : Probe(n, p) \/ KeepAlive(n, p)

\* Packets are retransmitted until they are acknowledged, and the application keeps
\* calling Update; it need not start a node or promote one.
Fairness ==
    \A n \in Node :
        /\ WF_vars(DeliverTo(n, {"PunchAck"}))
        /\ WF_vars(DeliverTo(n, Kind \ {"PunchAck"}))
        /\ WF_vars(\E p \in Node : Probe(n, p))

Spec == Init /\ [][Next]_vars /\ Fairness

-----------------------------------------------------------------------------
ControlPacket == [kind : Kind, from : Node, to : Node, nodes : SUBSET Node,
                  repeats : 0..MaxRepeats]

\* Type invariant of the nodes; ReconnectToHost and InitAsClient never make a node
\* its own client, and no node files its own address or writes to itself.
TypeOK ==
    /\ role \in [Node -> {"Off", "Host", "Client"}]
    /\ host \in [Node -> Node \cup {None}]
    /\ \A n \in Node : role[n] = "Client" => host[n] \in Node \ {n}
    /\ public \in [Node -> BOOLEAN]
    /\ peers \in [Node -> SUBSET Node] /\ \A n \in Node : n \notin peers[n]
    /\ punch \in [Node -> [Node -> Unknown..Acked]]
    /\ net \subseteq ControlPacket /\ \A m \in net : m.from # m.to

\* From Begin on there is a host, also while the session is handed over: the new
\* one starts before the old one can obey it.  It takes at most one promotion: two
\* hosts that announce themselves to each other both obey (see the README).
SomeHost == role[First] # "Off" => \E n \in Node : role[n] = "Host"

\* A client that has been welcomed is in the table of the node it takes for its
\* host, and so on the rosters that node sends.
WelcomedIsKnown ==
    \A n \in Node : role[n] = "Client" /\ public[n] => n \in peers[host[n]]

\* What makes it so: a welcome goes to a node that its sender has filed, and no
\* table forgets a node; an announcement names the node that sent it, which is
\* therefore not the one that obeys it; and nobody has a probe for itself.
WelcomeIsFiled ==
    \A m \in net : m.kind = "Welcome" => m.to \in peers[m.from]
AnnouncementNamesSender ==
    \A m \in net : m.kind = "HostTransition" => m.nodes = {m.from}
NobodyProbesItself == \A n \in Node : punch[n][n] = Unknown

\* The tables of ProcessControlPacket: types, nobody its own client, and whoever
\* was welcomed on the roster of its host.
RosterInv ==
    /\ TypeOK /\ WelcomedIsKnown
    /\ WelcomeIsFiled /\ AnnouncementNamesSender /\ NobodyProbesItself

HostIs(n, r) == \E x \in Node : host[n] = x /\ role[x] = r

\* A host that is told of a successor ends up as the client of a host.
HandOver ==
    \A n \in Node :
        (role[n] = "Host" /\ \E m \in net : m.kind = "HostTransition" /\ m.to = n) ~>
            (role[n] = "Client" /\ HostIs(n, "Host"))

\* Whoever joins a host, or returns to one as its client, is welcomed.
JoinIsWelcomed ==
    \A n \in Node :
        (role[n] = "Client" /\ HostIs(n, "Host")) ~>
            (role[n] = "Host" \/ public[n] \/ HostIs(n, "Client"))

\* Two clients of one host find a way to each other: each has probed the other
\* and has seen the answer, whoever joined first.
Joined(n) == role[n] = "Client" /\ public[n]
PunchedThrough ==
    \A n \in Node :
        ("Probe" \in plan.ticks /\ Joined(n)) ~>
            (\A p \in Node \ {n} : Joined(p) /\ host[p] = host[n] => punch[n][p] = Acked)

\* Not checked by a run, see the README: after a transition every client is, in
\* the end, with a node that is a host.
FollowsTheHost ==
    \A n \in Node :
        (role[n] = "Client" /\ HostIs(n, "Client")) ~>
            (role[n] = "Host" \/ HostIs(n, "Host"))
=============================================================================
