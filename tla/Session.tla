------------------------------- MODULE Session ------------------------------
(***************************************************************************)
(* The handshake of ZClient and ZServer (znet/z_client.cc, z_server.cc),   *)
(* the keys of their crypto contexts (z_crypto_wrapper.cc), the server's   *)
(* peer table (z_peer_mapping.h), and the messages sent after it.          *)
(*                                                                         *)
(* A client stands for one connection: Connect makes a new context and a   *)
(* new socket, so a client that connects again is another one.  A nonce is *)
(* named by the node that drew it and goes with that node's challenge.     *)
(* The messages of the handshake are sent once and unreliably; those of    *)
(* the application are sent again and again, each time built anew.         *)
(* Numbers and acknowledgements of reliable packets: see ReliableChannel.  *)
(***************************************************************************)
EXTENDS PacketFormat, FiniteSets, Sequences, SequencesExt

CONSTANTS
    Client, Server, None,
    kMaxPeers,
    World,          \* which clients connect, everybody's ZNET_PSK (None: no
                    \* encryption), the messages everybody sends, whether LZ4 is
                    \* on, whether datagrams get lost or repeated, and whether
                    \* one of them is damaged
    MaxMessages,    \* bound: messages a node sends
    MaxInbox        \* bound: control packets that wait for Poll

Node == Client \cup {Server}
ASSUME ServerAssumption == Server \notin Client /\ None \notin Node
ASSUME WorldAssumption ==
    \A w \in World :
        /\ DOMAIN w = {"join", "secret", "texts", "compression", "lossy", "damage"}
        /\ w.join \subseteq Client /\ DOMAIN w.secret = Node /\ DOMAIN w.texts = Node
        /\ {w.compression, w.lossy} \subseteq BOOLEAN /\ w.damage \in {"never", "once"}
ASSUME BoundAssumption == {kMaxPeers, MaxMessages, MaxInbox} \subseteq Nat

VARIABLES
    world,          \* one of World; damage is "done" after it happened
    state,          \* state_ of a client
    key,            \* encryption_key_: the secret, then the nonces mixed in
    remote,         \* server_nonce_: whose nonce was received last
    authenticated,  \* authenticated_
    peers,          \* the server's peer_list_: addresses in the order of their ids
    handshaked,     \* handshaked_peers_
    inbox,          \* received control packets, not yet polled
    outbox,         \* messages accepted by SendMessage
    delivered,      \* messages received
    net             \* datagrams under way

cryptoVars == <<key, remote, authenticated>>
vars == <<world, state, cryptoVars, peers, handshaked, inbox, outbox, delivered, net>>

Encrypts(x) == world.secret[x] # None
\* EnsureKeyMaterialReady, before any exchange.
KeyMaterial(x) == IF Encrypts(x) THEN <<world.secret[x]>> ELSE NoKey

-----------------------------------------------------------------------------
(* The crypto context.                                                       *)

DeriveUnsorted(k, local, nonce) ==
    IF nonce = None THEN k ELSE Append(k, {<<1, local>>, <<2, nonce>>})
\* Both nonces go in sorted, so the order of the roles does not matter.
DeriveSessionKeys(k, local, nonce) ==
    IF nonce = None THEN k ELSE Append(k, {local, nonce})

\* The keyed hash over both nonces and challenges, or nothing before the exchange.
Hmac(k, first, second) ==
    IF None \in {first, second} THEN None ELSE <<"hmac", k, first, second>>
KeyPart == {w.secret[x] : w \in World, x \in Node} \cup SUBSET Node
ASSUME NoneAssumption == None \notin {"hmac"} \X Seq(KeyPart) \X Node \X Node

GenerateServerProof(k, nonce) == Hmac(k, nonce, Server)
VerifyServerNonce(k, c, nonce, proof) == nonce # None
VerifyServerResponse(k, c, nonce, proof) == proof = Hmac(k, c, nonce) /\ nonce # None
GenerateClientProof(k, c, nonce) == Hmac(k, nonce, c)
VerifyClientProof(k, nonce, proof) == nonce # None /\ proof = Hmac(k, Server, nonce)

-----------------------------------------------------------------------------
\* The packets of the handshake, with their source and destination.
Between(x, y, d) == [from |-> x, to |-> y, data |-> d]
Control(x, y, type, payload) ==
    Between(x, y, BuildPacket(Outgoing(type, payload, FALSE, FALSE, FALSE), NoKey, 0))

Nonce(x) == IF Encrypts(x) THEN x ELSE None
ClientHello(c) == Control(c, Server, "ClientHello", <<"hello", Nonce(c)>>)
ServerHello(c, k, nonce) ==
    Control(Server, c, "ServerHello",
            <<"hello", Nonce(Server), IF Encrypts(Server) THEN GenerateServerProof(k, nonce)
                                      ELSE None>>)
ClientAuthProof(c, proof) == Control(c, Server, "ClientAuthProof", <<"proof", proof>>)

Connect(c) ==
    /\ c \in world.join /\ state[c] = "Disconnected"
    /\ state' = [state EXCEPT ![c] = "Connecting"]
    /\ net' = net \cup {ClientHello(c)}
    /\ UNCHANGED <<world, cryptoVars, peers, handshaked, inbox, outbox, delivered>>

-----------------------------------------------------------------------------
(* ProcessSystemMessage, called by Poll with the oldest control packet p.    *)

Ignore == UNCHANGED <<state, cryptoVars, handshaked, net>>

OnEveryClientHello(p) ==
    LET nonce == IF Encrypts(Server) THEN p.payload[2] ELSE None
        k == DeriveSessionKeys(key[Server], Server, nonce)
    IN  /\ p.type = "ClientHello"
        /\ key' = [key EXCEPT ![Server] = k]
        /\ remote' = [remote EXCEPT ![Server] = nonce]
        /\ handshaked' = handshaked \cup {p.from}
        /\ net' = net \cup {ServerHello(p.from, k, nonce)}
        /\ UNCHANGED <<state, authenticated>>
OnClientHello(p) ==
    /\ p.type = "ClientHello"
    /\ \/ p.from \in handshaked /\ Ignore
       \/ LET nonce == IF Encrypts(Server) THEN p.payload[2] ELSE None
              k == DeriveSessionKeys(key[Server], Server, nonce)
          IN  /\ p.from \notin handshaked
              /\ key' = [key EXCEPT ![Server] = k]
              /\ remote' = [remote EXCEPT ![Server] = nonce]
              /\ handshaked' = handshaked \cup {p.from}
              /\ net' = net \cup {ServerHello(p.from, k, nonce)}
              /\ UNCHANGED <<state, authenticated>>

OnClientAuthProof(p) ==
    /\ p.type = "ClientAuthProof"
    /\ authenticated' = [authenticated EXCEPT ![Server] =
          @ \/ (Encrypts(Server) /\ VerifyClientProof(key[Server], remote[Server], p.payload[2]))]
    /\ UNCHANGED <<state, key, remote, handshaked, net>>

OnServerHello(c, p) ==
    /\ p.type = "ServerHello"
    /\ \/ state[c] # "Connecting" /\ Ignore
       \/ /\ state[c] = "Connecting" /\ ~Encrypts(c)
          /\ state' = [state EXCEPT ![c] = "Connected"]
          /\ UNCHANGED <<cryptoVars, handshaked, net>>
       \/ LET nonce == p.payload[2]
              proof == p.payload[3]
              k == DeriveSessionKeys(key[c], c, nonce)
              verified == proof # None /\ VerifyServerResponse(k, c, nonce, proof)
              refused == proof # None /\ ~verified
              own == GenerateClientProof(k, c, nonce)
          IN  /\ state[c] = "Connecting" /\ Encrypts(c)
              /\ key' = [key EXCEPT ![c] = k]
              /\ remote' = [remote EXCEPT ![c] = nonce]
              /\ authenticated' = [authenticated EXCEPT ![c] = verified]
              /\ state' = [state EXCEPT ![c] = IF refused THEN "Closed" ELSE "Connected"]
              /\ net' = net \cup IF refused \/ own = None THEN {} ELSE {ClientAuthProof(c, own)}
              /\ UNCHANGED handshaked

Poll(x) ==
    /\ inbox[x] # <<>>
    /\ inbox' = [inbox EXCEPT ![x] = Tail(@)]
    /\ IF x = Server
       THEN \/ OnClientHello(Head(inbox[x]))
            \/ OnClientAuthProof(Head(inbox[x]))
       ELSE OnServerHello(x, Head(inbox[x]))
    /\ UNCHANGED <<world, peers, outbox, delivered>>

-----------------------------------------------------------------------------
(* Messages.                                                                 *)

SendMessage(x, y, text) ==
    /\ Encrypts(x) => authenticated[x]
    /\ IF x = Server THEN y \in Range(peers)
       ELSE y = Server /\ state[x] \in {"Connecting", "Connected"}
    /\ Cardinality(outbox[x]) < MaxMessages
    /\ outbox' = [outbox EXCEPT ![x] = @ \cup
          {[to |-> y, seq |-> Cardinality(@) + 1,
            packet |-> Outgoing("Message", text, TRUE, Encrypts(x), world.compression)]}]
    /\ UNCHANGED <<world, state, cryptoVars, peers, handshaked, inbox, delivered, net>>

\* DispatchPacket and, later, RetransmitPacket: what cannot be built is not sent.
Dispatch(x, o) ==
    LET d == BuildPacket(o.packet, key[x], o.seq)
    IN  /\ x # Server => state[x] # "Closed"
        /\ net' = net \cup IF d = NoPacket THEN {} ELSE {Between(x, o.to, d)}
        /\ UNCHANGED <<world, state, cryptoVars, peers, handshaked, inbox, outbox, delivered>>

\* GetOrCreatePeer: the table afterwards, and whether the address is in it.
GetOrCreatePeer(a) ==
    IF a \in Range(peers) \/ Len(peers) >= kMaxPeers THEN peers ELSE Append(peers, a)

\* ReceivePackets and IngestPacket at x.
Receive(x, m) ==
    LET p == UnpackPacket(m.data, key[x])
        table == IF x = Server /\ p # NoPacket THEN GetOrCreatePeer(m.from) ELSE peers
        accepted == p # NoPacket /\ (x = Server => m.from \in Range(table))
    IN  /\ m.to = x
        /\ x # Server => state[x] \in {"Connecting", "Connected"}
        /\ \E again \in {FALSE, world.lossy} : net' = IF again THEN net ELSE net \ {m}
        /\ peers' = table
        /\ \/ ~accepted /\ UNCHANGED <<inbox, delivered>>
           \/ /\ accepted /\ p.type \in SystemMessage /\ Len(inbox[x]) < MaxInbox
              /\ inbox' = [inbox EXCEPT ![x] = Append(@,
                    [type |-> p.type, from |-> m.from, payload |-> p.payload])]
              /\ UNCHANGED delivered
           \/ /\ accepted /\ p.type \notin SystemMessage
              /\ delivered' = [delivered EXCEPT ![x] = @ \cup
                    {[from |-> m.from, seq |-> p.seq, payload |-> p.payload]}]
              /\ UNCHANGED inbox
        /\ UNCHANGED <<world, state, cryptoVars, handshaked, outbox>>

Lose(m) ==
    /\ world.lossy /\ net' = net \ {m}
    /\ UNCHANGED <<world, state, cryptoVars, peers, handshaked, inbox, outbox, delivered>>

Damage(m) ==
    /\ world.damage = "once" /\ world' = [world EXCEPT !.damage = "done"]
    /\ \E d \in Damaged(m.data) : net' = (net \ {m}) \cup {[m EXCEPT !.data = d]}
    /\ UNCHANGED <<state, cryptoVars, peers, handshaked, inbox, outbox, delivered>>

-----------------------------------------------------------------------------
Init ==
    /\ world \in World
    /\ state = [c \in Client |-> "Disconnected"]
    /\ key = [x \in Node |-> KeyMaterial(x)]
    /\ remote = [x \in Node |-> None]
    /\ authenticated = [x \in Node |-> FALSE]
    /\ peers = <<>> /\ handshaked = {} /\ net = {}
    /\ inbox = [x \in Node |-> <<>>]
    /\ outbox = [x \in Node |-> {}] /\ delivered = [x \in Node |-> {}]

Next ==
    \/ \E c \in Client : Connect(c)
    \/ \E x \in Node : Poll(x)
    \/ \E x, y \in Node : \E text \in world.texts[x] : SendMessage(x, y, text)
    \/ \E x \in Node : \E o \in outbox[x] : Dispatch(x, o)
    \/ \E m \in net : Receive(m.to, m) \/ Lose(m) \/ Damage(m)

\* The threads and Update go on; of what is sent again and again some arrives.
ReceiveType(x, types) == \E m \in net : m.data.header.type \in types /\ Receive(x, m)
Fairness ==
    \A x \in Node :
        /\ WF_vars(Poll(x))
        /\ WF_vars(ReceiveType(x, SystemMessage))
        /\ SF_vars(ReceiveType(x, {"Message"}))
        /\ WF_vars(\E o \in outbox[x] : Dispatch(x, o))

Spec == Init /\ [][Next]_vars /\ Fairness

-----------------------------------------------------------------------------
\* Type invariant of both sides; GetOrCreatePeer keeps one entry per address and
\* at most kMaxPeers, and only peers it knows are in handshaked_peers_.
TypeOK ==
    /\ state \in [Client -> {"Disconnected", "Connecting", "Connected", "Closed"}]
    /\ remote \in [Node -> Node \cup {None}] /\ authenticated \in [Node -> BOOLEAN]
    /\ \A x \in Node : key[x] # NoKey => Len(key[x]) >= 1
    /\ \A i, j \in DOMAIN peers : peers[i] = peers[j] => i = j
    /\ Len(peers) <= kMaxPeers /\ handshaked \subseteq Range(peers)
    /\ \A x \in Node : \A p \in Range(inbox[x]) : p.type \in SystemMessage

\* Who is authenticated has the key that the other side had when it proved to
\* know it: a client's key is what the server's chain of keys begins with, and
\* the server takes the flag from a client that had verified the server before.
AuthenticatedSharesKey ==
    /\ \A c \in Client : authenticated[c] => IsPrefix(key[c], key[Server])
    /\ authenticated[Server] =>
          \E c \in Client : authenticated[c] /\ IsPrefix(key[c], key[Server])

\* The key exchange of z_crypto_wrapper.cc: types, a peer table without doubles,
\* and one key for those who have proved themselves to each other.
KeyInv == TypeOK /\ AuthenticatedSharesKey

\* What is delivered was accepted by SendMessage at its source for this node; an
\* encrypted message also keeps its number, whatever befell the datagram.
DeliveredAsSent ==
    \A x \in Node : \A r \in delivered[x] :
        \E o \in outbox[r.from] : /\ o.to = x /\ o.packet.payload = r.payload
                                  /\ o.packet.encrypted => o.seq = r.seq

Calm == ~world.lossy /\ world.damage = "never"
Alone(c) == world.join = {c} /\ world.secret[c] = world.secret[Server]

\* Where nothing is lost, a single client with the right secret gets through, and
\* so do both sides' proofs.
HandshakeCompletes ==
    \A c \in Client :
        (Calm /\ Alone(c) /\ state[c] = "Connecting") ~>
            (state[c] = "Connected" /\ (Encrypts(c) => authenticated[c] /\ authenticated[Server]))

\* A message that SendMessage accepted arrives, also where datagrams get lost and
\* hellos arrive twice or late, unless it is empty and encrypted: the keys of both
\* sides stay the same.
MessageArrives ==
    \A c \in Client :
        (Alone(c) /\ \E o \in outbox[c] : o.packet.payload # Empty) ~>
            (\A o \in outbox[c] : o.packet.payload # Empty =>
                \E r \in delivered[Server] : r.from = c /\ r.payload = o.packet.payload)

\* DeriveSessionKeys: "so both sides derive the same keys".  A client with the
\* server's secret is not turned away because their proofs do not match.
SameKeys ==
    \A c \in Client :
        state[c] = "Closed" => world.secret[c] # world.secret[Server]
=============================================================================
