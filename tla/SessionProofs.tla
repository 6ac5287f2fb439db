---------------------------- MODULE SessionProofs ---------------------------
(***************************************************************************)
(* Session for any clients, secrets and messages: who is authenticated     *)
(* shares the server's keys, and what is delivered was sent.               *)
(***************************************************************************)
EXTENDS Session, FiniteSetTheorems, SequenceTheorems, TLAPS

\* A world is as it began, but for the damage.
WorldIsOne ==
    \E w \in World : world = w \/ world = [w EXCEPT !.damage = "done"]

\* A key is a chain that begins with the secret, or none; a client is authenticated
\* by the hello that ends its handshake.
Chain == Seq(KeyPart)
KeysAreChains ==
    /\ \A x \in Node : IF Encrypts(x) THEN key[x] \in Chain /\ Len(key[x]) >= 1
                                      ELSE key[x] = NoKey
    /\ \A c \in Client : authenticated[c] => Encrypts(c) /\ Encrypts(Server)
                                             /\ state[c] \in {"Connected", "Closed"}

\* What SendMessage accepts.
Pushed(p) ==
    /\ p = Outgoing(p.type, p.payload, p.reliable, p.encrypted, p.compressed)
    /\ p.reliable \in BOOLEAN /\ p.encrypted \in BOOLEAN /\ p.compressed \in BOOLEAN
OutboxInv ==
    \A x \in Node :
        /\ IsFiniteSet(outbox[x])
        /\ \A o \in outbox[x] :
              /\ o.seq \in Nat /\ o.to \in Node /\ Pushed(o.packet)
              /\ o.packet.type = "Message" /\ o.packet.reliable

\* What a control packet from x to y says: a hello has the client's nonce; the
\* server's hello proves a key that its own has grown from; and a client that sends
\* a proof has verified the server before.
Says(x, y, type, payload) ==
    /\ type = "ClientHello" => x \in Client /\ payload[2] = Nonce(x)
    /\ type = "ServerHello" =>
          /\ y \in Client /\ payload[2] = Nonce(Server)
          /\ \/ payload[3] = None
             \/ /\ Encrypts(Server)
                /\ \E k \in Chain, n \in Node : /\ payload[3] = <<"hmac", k, n, Server>>
                                                /\ IsPrefix(k, key[Server])
          /\ Encrypts(y) /\ payload[2] # None => payload[3] # None
    /\ type = "ClientAuthProof" => \E c \in Client : authenticated[c]

\* A packet that y gets from x: a message was accepted at x.
Honest(x, y, p) ==
    /\ p.type \in SystemMessage => Says(x, y, p.type, p.payload)
    /\ p.type \notin SystemMessage =>
          \E o \in outbox[x] : /\ o.to = y /\ o.packet.payload = p.payload
                               /\ o.packet.encrypted => o.seq = p.seq

\* Whatever comes out of a datagram under any key, damaged or not, is honest.
Unpacks(x, y, d) == \A k : UnpackPacket(d, k) # NoPacket => Honest(x, y, UnpackPacket(d, k))
Genuine(m) ==
    /\ m.from \in Node /\ m.to \in Node /\ m = Between(m.from, m.to, m.data)
    /\ Unpacks(m.from, m.to, m.data)
    /\ world.damage = "once" => \A d \in Damaged(m.data) : Unpacks(m.from, m.to, d)
NetInv == \A m \in net : Genuine(m)

IsSeq(s) == s \in Seq(Range(s))
InboxInv ==
    \A x \in Node :
        /\ IsSeq(inbox[x])
        /\ \A p \in Range(inbox[x]) :
              /\ p.type \in SystemMessage /\ Says(p.from, x, p.type, p.payload)
              /\ x = Server => p.from \in Range(peers)

IInv ==
    /\ TypeOK /\ AuthenticatedSharesKey /\ DeliveredAsSent /\ WorldIsOne /\ KeysAreChains
    /\ OutboxInv /\ NetInv /\ InboxInv
    /\ peers \in Seq(Node) /\ DOMAIN key = Node /\ DOMAIN inbox = Node
    /\ DOMAIN outbox = Node /\ DOMAIN delivered = Node
    /\ \A x \in Node : \A r \in delivered[x] : r.from \in Node

-----------------------------------------------------------------------------
(* Packets: what comes out is what went in.                                   *)

\* A packet that is unpacked passed the checks.
LEMMA Unpacked ==
    ASSUME NEW d, NEW k, UnpackPacket(d, k) # NoPacket
    PROVE  /\ d.header_checksum = d.header /\ d.payload_checksum = d.body /\ d.whole
           /\ DecryptPayloadIfNeeded(d, k)
           /\ UnpackPacket(d, k) = [type |-> d.header.type, seq |-> d.seq, payload |-> Plain(d)[2]]
BY DEF UnpackPacket, ValidatePacketHeader

\* One fault in a datagram is noticed, or changes nothing but the number of a
\* packet that is not encrypted.
LEMMA DamageIsNoticed ==
    ASSUME NEW d, NEW e, NEW k, e \in Damaged(d),
           DOMAIN d = {"header", "header_checksum", "seq", "original_size",
                       "payload_checksum", "body", "whole"},
           DOMAIN d.header = {"type", "channel", "reliable", "encrypted", "compressed"},
           d.header_checksum = d.header, d.payload_checksum = d.body, d.body # Noise,
           d.header.reliable \in BOOLEAN, UnpackPacket(e, k) # NoPacket
    PROVE  /\ e.header = d.header /\ e.body = d.body
           /\ e.seq = d.seq \/ e.seq = d.seq + 1
<1>1. e.header_checksum = e.header /\ e.payload_checksum = e.body /\ e.whole
  BY Unpacked
<1>2. CASE e = [d EXCEPT !.header.type = "Message"]
  <2>1. /\ e.header = [d.header EXCEPT !.type = "Message"] /\ e.header_checksum = d.header
        /\ e.body = d.body /\ e.seq = d.seq
    BY <1>2
  <2> QED
    BY <1>1, <2>1
<1>3. CASE e = [d EXCEPT !.header.reliable = ~@]
  <2>1. /\ e.header = [d.header EXCEPT !.reliable = ~@] /\ e.header_checksum = d.header
    BY <1>3
  <2>2. e.header.reliable = ~d.header.reliable
    BY <2>1
  <2> QED
    BY <1>1, <2>1, <2>2
<1>4. CASE e = [d EXCEPT !.body = Noise]
  BY <1>1, <1>4
<1>5. CASE e = [d EXCEPT !.whole = FALSE]
  BY <1>1, <1>5
<1>6. CASE e = [d EXCEPT !.seq = @ + 1]
  BY <1>6
<1>7. CASE e = [d EXCEPT !.original_size = Noise]
  BY <1>7
<1> QED
  BY <1>2, <1>3, <1>4, <1>5, <1>6, <1>7 DEF Damaged

CanBuild(p, k) == ~(p.encrypted /\ (k = NoKey \/ p.payload = Empty))
Underway(p, k, s, e) == e = BuildPacket(p, k, s) \/ e \in Damaged(BuildPacket(p, k, s))

\* Whatever is built and unpacked again, with at most one fault on the way, has the
\* type and the payload that it was built from; if it is encrypted, its number too.
LEMMA BuiltUnpacks ==
    ASSUME NEW p, NEW j, NEW k, NEW s \in Nat, NEW e, Pushed(p), CanBuild(p, j),
           Underway(p, j, s, e), UnpackPacket(e, k) # NoPacket
    PROVE  /\ UnpackPacket(e, k).type = p.type /\ UnpackPacket(e, k).payload = p.payload
           /\ p.encrypted /\ p.reliable => UnpackPacket(e, k).seq = s
<1>0. PICK type, payload, reliable, encrypted, compressed, d :
         /\ type = p.type /\ payload = p.payload /\ reliable = p.reliable
         /\ encrypted = p.encrypted /\ compressed = p.compressed /\ d = BuildPacket(p, j, s)
  OBVIOUS
<1> DEFINE h == Header(p)
           n == IF reliable THEN s ELSE 0
           plain == <<IF h.compressed THEN "lz4" ELSE "raw", payload>>
           b == IF encrypted THEN EncryptPayload(j, Aad(h, n), plain) ELSE plain
<1>1. /\ h.type = type /\ h.reliable = reliable /\ h.encrypted = encrypted
      /\ DOMAIN h = {"type", "channel", "reliable", "encrypted", "compressed"}
  BY <1>0 DEF Header
<1>2. reliable \in BOOLEAN /\ encrypted \in BOOLEAN
  BY <1>0 DEF Pushed
<1>3. d = [header |-> h, header_checksum |-> h, seq |-> n, original_size |-> payload,
           payload_checksum |-> b, body |-> b, whole |-> TRUE]
  BY <1>0 DEF BuildPacket, CanBuild
<1>4. b # Noise
  <2>1. CASE encrypted
    BY <2>1 DEF Noise, EncryptPayload
  <2>2. CASE ~encrypted
    BY <2>2 DEF Noise
  <2> QED
    BY <2>1, <2>2
<1> HIDE DEF h, b
<1>5. e.header = h /\ e.body = b /\ (e.seq = n \/ e.seq = n + 1)
  <2>1. CASE e = d
    BY <1>3, <2>1
  <2>2. CASE e \in Damaged(d)
    <3>1. /\ DOMAIN d = {"header", "header_checksum", "seq", "original_size",
                         "payload_checksum", "body", "whole"}
          /\ d.header = h /\ d.header_checksum = h /\ d.payload_checksum = b /\ d.body = b
          /\ d.seq = n
      BY <1>3
    <3> QED
      BY <1>1, <1>2, <1>4, <2>2, <3>1, DamageIsNoticed
  <2> QED
    BY <1>0, <2>1, <2>2 DEF Underway
<1>6. UnpackPacket(e, k) = [type |-> e.header.type, seq |-> e.seq, payload |-> Plain(e)[2]]
  BY Unpacked
<1>7. Plain(e)[2] = payload
  <2>1. CASE encrypted
    <3>1. b[4] = plain /\ plain[2] = payload
      BY <2>1 DEF b, EncryptPayload
    <3> HIDE DEF plain
    <3> QED
      BY <1>1, <1>5, <2>1, <3>1 DEF Plain
  <2>2. CASE ~encrypted
    BY <1>1, <1>5, <2>2 DEF Plain, b
  <2> QED
    BY <2>1, <2>2
<1>8. ASSUME encrypted, reliable PROVE e.seq = s
  <2>1. Decrypts(k, Aad(e.header, e.seq), e.body)
    BY <1>1, <1>5, <1>8, Unpacked DEF DecryptPayloadIfNeeded
  <2>2. Aad(h, e.seq) = Aad(h, s)
    BY <1>5, <1>8, <2>1 DEF Decrypts, b, EncryptPayload
  <2> QED
    BY <2>2 DEF Aad
<1> QED
  BY <1>0, <1>1, <1>5, <1>6, <1>7, <1>8

-----------------------------------------------------------------------------
(* Sequences: the peer table, the inbox and the chains of keys.               *)

LEMMA RangeAppend ==
    ASSUME NEW S, NEW s \in Seq(S), NEW e
    PROVE  /\ Range(Append(s, e)) = Range(s) \cup {e}
           /\ Append(s, e) \in Seq(S \cup {e})
<1>1. s \in Seq(S \cup {e})
  OBVIOUS
<1>2. /\ Append(s, e) \in Seq(S \cup {e}) /\ Len(Append(s, e)) = Len(s) + 1 /\ Len(s) \in Nat
      /\ Append(s, e)[Len(s) + 1] = e /\ \A i \in 1..Len(s) : Append(s, e)[i] = s[i]
      /\ DOMAIN Append(s, e) = 1..(Len(s) + 1) /\ DOMAIN s = 1..Len(s)
  BY <1>1
<1>3. \A i \in 1..(Len(s) + 1) : i \in 1..Len(s) \/ i = Len(s) + 1
  BY <1>2
<1>4. (\A i \in 1..Len(s) : i \in 1..(Len(s) + 1)) /\ Len(s) + 1 \in 1..(Len(s) + 1)
  BY <1>2
<1>5. \A x : x \in Range(Append(s, e)) <=> x \in Range(s) \cup {e}
  BY <1>2, <1>3, <1>4, Zenon DEF Range
<1> QED
  BY <1>2, <1>5

LEMMA RangeTail ==
    ASSUME NEW S, NEW s \in Seq(S), s # <<>>
    PROVE  /\ Head(s) \in Range(s) /\ Range(Tail(s)) \subseteq Range(s)
           /\ Tail(s) \in Seq(S)
<1>1. /\ Len(s) \in Nat \ {0} /\ Len(Tail(s)) = Len(s) - 1 /\ Head(s) = s[1]
      /\ \A i \in 1..Len(Tail(s)) : Tail(s)[i] = s[i + 1]
      /\ DOMAIN s = 1..Len(s) /\ DOMAIN Tail(s) = 1..Len(Tail(s)) /\ Tail(s) \in Seq(S)
  OBVIOUS
<1>2. 1 \in 1..Len(s) /\ \A i \in 1..Len(Tail(s)) : i + 1 \in 1..Len(s)
  BY <1>1
<1> QED
  BY <1>1, <1>2 DEF Range

LEMMA OverItsRange ==
    ASSUME NEW S, NEW s \in Seq(S)
    PROVE  IsSeq(s) /\ Range(s) \subseteq S
BY SeqOfRange DEF IsSeq, Range

LEMMA PrefixOfItself ==
    ASSUME NEW s \in Chain
    PROVE  IsPrefix(s, s)
BY DEF IsPrefix, Chain

LEMMA PrefixGrows ==
    ASSUME NEW s \in Chain, NEW t \in Chain, NEW e \in KeyPart, IsPrefix(s, t)
    PROVE  IsPrefix(s, Append(t, e))
<1>1. /\ Len(s) \in Nat /\ Len(t) \in Nat /\ Len(s) <= Len(t)
      /\ SubSeq(s, 1, Len(s)) = SubSeq(t, 1, Len(s))
  BY DEF IsPrefix, Chain
<1>2. Append(t, e) \in Chain /\ Len(Append(t, e)) = Len(t) + 1
      /\ \A i \in 1..Len(t) : Append(t, e)[i] = t[i]
  BY DEF Chain
<1>3. SubSeq(t, 1, Len(s)) = SubSeq(Append(t, e), 1, Len(s))
  BY <1>1, <1>2 DEF Chain
<1> QED
  BY <1>1, <1>2, <1>3 DEF IsPrefix

-----------------------------------------------------------------------------
(* What a step leaves true.                                                   *)

LEMMA NodeFacts ==
    /\ Server \in Node /\ Client \subseteq Node /\ Server \notin Client /\ None \notin Node
    /\ \A k \in Chain, x, y \in Node : <<"hmac", k, x, y>> # None
<1>1. \A k \in Chain, x, y \in Node :
         <<"hmac", k, x, y>> \in {"hmac"} \X Seq(KeyPart) \X Node \X Node
  BY DEF Chain
<1> QED
  BY <1>1, ServerAssumption, NoneAssumption DEF Node

LEMMA WorldFacts ==
    ASSUME WorldIsOne
    PROVE  /\ \A x \in Node : world.secret[x] \in KeyPart
           /\ {world.compression, world.lossy} \subseteq BOOLEAN
           /\ DOMAIN world = {"join", "secret", "texts", "compression", "lossy", "damage"}
<1>1. PICK w \in World : world = w \/ world = [w EXCEPT !.damage = "done"]
  BY DEF WorldIsOne
<1>2. DOMAIN w = {"join", "secret", "texts", "compression", "lossy", "damage"}
  BY WorldAssumption
<1>3. /\ world.secret = w.secret /\ world.compression = w.compression /\ world.lossy = w.lossy
      /\ DOMAIN world = DOMAIN w
  BY <1>1, <1>2
<1>4. {w.compression, w.lossy} \subseteq BOOLEAN
  BY WorldAssumption
<1>5. \A x \in Node : w.secret[x] \in KeyPart
  BY DEF KeyPart
<1> QED
  BY <1>2, <1>3, <1>4, <1>5

\* Nobody's secret changes, who is authenticated stays so, the server's chain of
\* keys grows and messages that were accepted stay.
Steady ==
    /\ world'.secret = world.secret
    /\ world'.damage = "once" => world.damage = "once"
    /\ \A c \in Client : authenticated[c] => authenticated'[c]
    /\ \A k \in Chain : Encrypts(Server) /\ IsPrefix(k, key[Server]) => IsPrefix(k, key'[Server])
    /\ \A x \in Node : outbox[x] \subseteq outbox'[x]

LEMMA SaysKept ==
    ASSUME Steady, NEW x, NEW y, NEW type, NEW payload, Says(x, y, type, payload)
    PROVE  Says(x, y, type, payload)'
<1>1. \A z : Encrypts(z)' = Encrypts(z) /\ Nonce(z)' = Nonce(z)
  BY DEF Steady, Encrypts, Nonce
<1>2. type = "ClientHello" => (x \in Client /\ payload[2] = Nonce(x))'
  BY <1>1 DEF Says
<1>3. type = "ClientAuthProof" => \E c \in Client : authenticated'[c]
  BY DEF Says, Steady
<1>4. ASSUME type = "ServerHello"
      PROVE  /\ y \in Client /\ payload[2] = Nonce(Server)'
             /\ \/ payload[3] = None
                \/ /\ Encrypts(Server)'
                   /\ \E k \in Chain, n \in Node : /\ payload[3] = <<"hmac", k, n, Server>>
                                                   /\ IsPrefix(k, key'[Server])
             /\ Encrypts(y)' /\ payload[2] # None => payload[3] # None
  <2>1. ASSUME payload[3] # None
        PROVE  /\ Encrypts(Server)
               /\ \E k \in Chain, n \in Node : /\ payload[3] = <<"hmac", k, n, Server>>
                                               /\ IsPrefix(k, key'[Server])
    <3>1. PICK k \in Chain, n \in Node : /\ payload[3] = <<"hmac", k, n, Server>>
                                         /\ IsPrefix(k, key[Server])
      BY <1>4, <2>1 DEF Says
    <3>2. Encrypts(Server)
      BY <1>4, <2>1 DEF Says
    <3>3. IsPrefix(k, key'[Server])
      BY <3>1, <3>2 DEF Steady
    <3> QED
      BY <3>1, <3>2, <3>3
  <2>2. y \in Client /\ payload[2] = Nonce(Server) /\ (Encrypts(y) /\ payload[2] # None => payload[3] # None)
    BY <1>4 DEF Says
  <2> QED
    BY <1>1, <2>1, <2>2
<1> QED
  BY <1>2, <1>3, <1>4 DEF Says

LEMMA HonestKept ==
    ASSUME Steady, NEW x \in Node, NEW y, NEW p, Honest(x, y, p)
    PROVE  Honest(x, y, p)'
<1>1. p.type \in SystemMessage => Says(x, y, p.type, p.payload)'
  BY SaysKept DEF Honest
<1>2. outbox[x] \subseteq outbox'[x]
  BY DEF Steady
<1> QED
  BY <1>1, <1>2 DEF Honest

LEMMA GenuineKept ==
    ASSUME Steady, NEW m, Genuine(m)
    PROVE  Genuine(m)'
<1>1. m.from \in Node
  BY DEF Genuine
<1>2. \A d : Unpacks(m.from, m.to, d) => Unpacks(m.from, m.to, d)'
  BY <1>1, HonestKept DEF Unpacks
<1> QED
  BY <1>2 DEF Genuine, Steady

LEMMA NetKept ==
    ASSUME Steady, NetInv, \A m \in net' : m \in net \/ Genuine(m)'
    PROVE  NetInv'
BY GenuineKept DEF NetInv

\* A control packet with true contents.
LEMMA ControlIsGenuine ==
    ASSUME NEW x \in Node, NEW y \in Node, NEW type \in SystemMessage, NEW payload,
           Says(x, y, type, payload)', NEW m, m = Control(x, y, type, payload)
    PROVE  Genuine(m)'
<1>1. PICK d : d = BuildPacket(Outgoing(type, payload, FALSE, FALSE, FALSE), NoKey, 0)
  OBVIOUS
<1>2. m.from = x /\ m.to = y /\ m.data = d /\ m = Between(x, y, d)
  BY <1>1 DEF Control, Between
<1>3. \A e \in {d} \cup Damaged(d) : \A k : UnpackPacket(e, k) # NoPacket =>
         UnpackPacket(e, k).type = type /\ UnpackPacket(e, k).payload = payload
  <2> SUFFICES ASSUME NEW e \in {d} \cup Damaged(d), NEW k, UnpackPacket(e, k) # NoPacket
               PROVE  UnpackPacket(e, k).type = type /\ UnpackPacket(e, k).payload = payload
    OBVIOUS
  <2>1. PICK p : p = Outgoing(type, payload, FALSE, FALSE, FALSE)
    OBVIOUS
  <2>2. p.type = type /\ p.payload = payload /\ Pushed(p) /\ CanBuild(p, NoKey)
    BY <2>1 DEF Outgoing, Pushed, CanBuild
  <2>3. Underway(p, NoKey, 0, e) /\ 0 \in Nat
    BY <1>1, <2>1 DEF Underway
  <2>4. UnpackPacket(e, k).type = p.type /\ UnpackPacket(e, k).payload = p.payload
    BY <2>2, <2>3, BuiltUnpacks
  <2> QED
    BY <2>2, <2>4
<1>4. \A e \in {d} \cup Damaged(d) : Unpacks(x, y, e)'
  BY <1>3 DEF Unpacks, Honest
<1> QED
  BY <1>2, <1>4 DEF Genuine

LEMMA SteadyWhenUnchanged ==
    ASSUME UNCHANGED <<world, key, authenticated, outbox>>
    PROVE  Steady
BY DEF Steady

\* The inbox loses packets, or stays.
LEMMA InboxKept ==
    ASSUME Steady, InboxInv, Range(peers) \subseteq Range(peers'),
           \A x \in Node : IsSeq(inbox'[x]) /\ Range(inbox'[x]) \subseteq Range(inbox[x])
    PROVE  InboxInv'
<1> SUFFICES ASSUME NEW x \in Node, NEW p \in Range(inbox'[x])
             PROVE  /\ p.type \in SystemMessage /\ Says(p.from, x, p.type, p.payload)'
                    /\ x = Server => p.from \in Range(peers')
  BY DEF InboxInv, IsSeq, Range
<1>1. p \in Range(inbox[x])
  OBVIOUS
<1>2. /\ p.type \in SystemMessage /\ Says(p.from, x, p.type, p.payload)
      /\ x = Server => p.from \in Range(peers)
  BY <1>1 DEF InboxInv
<1> QED
  BY <1>2, SaysKept

\* The keys, and who has proved to have them, stay.
LEMMA KeysKept ==
    ASSUME KeysAreChains, AuthenticatedSharesKey, UNCHANGED <<key, authenticated>>,
           world'.secret = world.secret,
           \A c \in Client : state[c] \in {"Connected", "Closed"} => state'[c] = state[c]
    PROVE  KeysAreChains' /\ AuthenticatedSharesKey'
BY DEF KeysAreChains, AuthenticatedSharesKey, Encrypts

LEMMA OutboxKept ==
    ASSUME OutboxInv, UNCHANGED outbox
    PROVE  OutboxInv'
BY DEF OutboxInv

LEMMA ConnectInv ==
    ASSUME IInv, NEW c \in Client, Connect(c)
    PROVE  IInv'
<1>1. UNCHANGED <<world, key, remote, authenticated, peers, handshaked, inbox, outbox, delivered>>
  BY DEF Connect, cryptoVars
<1>2. Steady
  BY <1>1, SteadyWhenUnchanged
<1>3. state' \in [Client -> {"Disconnected", "Connecting", "Connected", "Closed"}]
      /\ \A b \in Client : state[b] \in {"Connected", "Closed"} => state'[b] = state[b]
  BY DEF IInv, TypeOK, Connect
<1>4. TypeOK' /\ WorldIsOne' /\ DeliveredAsSent'
  BY <1>1, <1>3 DEF IInv, TypeOK, WorldIsOne, DeliveredAsSent
<1>5. KeysAreChains' /\ AuthenticatedSharesKey'
  BY <1>1, <1>3, KeysKept DEF IInv
<1>6. InboxInv'
  BY <1>1, <1>2, InboxKept DEF IInv, InboxInv
<1>7. NetInv'
  <2>1. PICK h : h = <<"hello", Nonce(c)>>
    OBVIOUS
  <2>2. h[2] = Nonce(c)'
    BY <1>1, <2>1 DEF Nonce, Encrypts
  <2>3. Says(c, Server, "ClientHello", h)'
    BY <2>2 DEF Says
  <2>4. PICK m : m = Control(c, Server, "ClientHello", h)
    OBVIOUS
  <2>5. Genuine(m)'
    BY <2>3, <2>4, NodeFacts, ControlIsGenuine DEF SystemMessage
  <2>6. net' = net \cup {m}
    BY <2>1, <2>4 DEF Connect, ClientHello
  <2> QED
    BY <1>2, <2>5, <2>6, NetKept DEF IInv
<1> QED
  BY <1>1, <1>4, <1>5, <1>6, <1>7, OutboxKept DEF IInv

LEMMA LoseInv ==
    ASSUME IInv, net' \subseteq net,
           UNCHANGED <<world, state, cryptoVars, peers, handshaked, inbox, outbox, delivered>>
    PROVE  IInv'
<1>1. UNCHANGED <<key, remote, authenticated>>
  BY DEF cryptoVars
<1>2. Steady
  BY <1>1, SteadyWhenUnchanged
<1>3. TypeOK' /\ WorldIsOne' /\ DeliveredAsSent'
  BY <1>1 DEF IInv, TypeOK, WorldIsOne, DeliveredAsSent
<1>4. KeysAreChains' /\ AuthenticatedSharesKey'
  BY <1>1, KeysKept DEF IInv
<1>5. InboxInv' /\ NetInv'
  BY <1>1, <1>2, InboxKept, NetKept DEF IInv, InboxInv
<1> QED
  BY <1>1, <1>3, <1>4, <1>5, OutboxKept DEF IInv

\* One fault, and no more: a damaged datagram is one that was accounted for.
LEMMA DamageInv ==
    ASSUME IInv, NEW m \in net, Damage(m)
    PROVE  IInv'
<1>1. PICK d \in Damaged(m.data) : net' = (net \ {m}) \cup {[m EXCEPT !.data = d]}
  BY DEF Damage
<1>2. UNCHANGED <<state, key, remote, authenticated, peers, handshaked, inbox, outbox, delivered>>
  BY DEF Damage, cryptoVars
<1>3. world.damage = "once" /\ world' = [world EXCEPT !.damage = "done"]
  BY DEF Damage
<1>4. DOMAIN world = {"join", "secret", "texts", "compression", "lossy", "damage"}
  BY WorldFacts DEF IInv
<1>5. world'.secret = world.secret /\ world'.damage = "done"
  BY <1>3, <1>4
<1>6. Steady
  BY <1>2, <1>5 DEF Steady
<1>7. WorldIsOne'
  <2>1. PICK w \in World : world = w \/ world = [w EXCEPT !.damage = "done"]
    BY DEF IInv, WorldIsOne
  <2>2. world' = [w EXCEPT !.damage = "done"]
    BY <1>3, <2>1
  <2> QED
    BY <2>2 DEF WorldIsOne
<1>8. TypeOK' /\ DeliveredAsSent'
  BY <1>2 DEF IInv, TypeOK, DeliveredAsSent
<1>9. KeysAreChains' /\ AuthenticatedSharesKey'
  BY <1>2, <1>5, KeysKept DEF IInv
<1>10. InboxInv'
  BY <1>2, <1>6, InboxKept DEF IInv, InboxInv
<1>11. NetInv'
  <2>1. PICK n : n = [m EXCEPT !.data = d]
    OBVIOUS
  <2>2. Genuine(m)
    BY DEF IInv, NetInv
  <2>3. n = Between(m.from, m.to, d) /\ n.from = m.from /\ n.to = m.to /\ n.data = d
    BY <2>1, <2>2 DEF Genuine, Between
  <2>4. Unpacks(m.from, m.to, d) /\ m.from \in Node /\ m.to \in Node
    BY <1>3, <2>2 DEF Genuine
  <2>5. Unpacks(m.from, m.to, d)'
    BY <1>6, <2>4, HonestKept DEF Unpacks
  <2>6. Genuine(n)'
    BY <1>5, <2>3, <2>4, <2>5 DEF Genuine
  <2> QED
    BY <1>1, <1>6, <2>1, <2>6, NetKept DEF IInv
<1> QED
  BY <1>2, <1>7, <1>8, <1>9, <1>10, <1>11, OutboxKept DEF IInv

LEMMA SendMessageInv ==
    ASSUME IInv, NEW x \in Node, NEW y \in Node, NEW text, SendMessage(x, y, text)
    PROVE  IInv'
<1>1. PICK o : o = [to |-> y, seq |-> Cardinality(outbox[x]) + 1,
                    packet |-> Outgoing("Message", text, TRUE, Encrypts(x), world.compression)]
  OBVIOUS
<1>2. UNCHANGED <<world, state, key, remote, authenticated, peers, handshaked, inbox, delivered, net>>
  BY DEF SendMessage, cryptoVars
<1>3. \A z \in Node : outbox'[z] = IF z = x THEN outbox[x] \cup {o} ELSE outbox[z]
  BY <1>1 DEF SendMessage, IInv
<1>4. DOMAIN outbox' = Node
  BY DEF SendMessage, IInv
<1>5. Steady
  BY <1>2, <1>3 DEF Steady
<1>6. OutboxInv'
  <2>1. IsFiniteSet(outbox[x]) /\ Cardinality(outbox[x]) \in Nat
    BY FS_CardinalityType DEF IInv, OutboxInv
  <2>2. IsFiniteSet(outbox[x] \cup {o})
    BY <2>1, FS_AddElement
  <2>3. PICK q : q = o.packet
    OBVIOUS
  <2>4. q = Outgoing("Message", text, TRUE, Encrypts(x), world.compression)
    BY <1>1, <2>3
  <2>5. Encrypts(x) \in BOOLEAN /\ world.compression \in BOOLEAN
    BY WorldFacts DEF Encrypts, IInv
  <2>6. /\ q.type = "Message" /\ q.reliable = TRUE /\ q.payload = text
        /\ q.encrypted = Encrypts(x) /\ q.compressed = world.compression
    BY <2>4 DEF Outgoing
  <2>7. Pushed(q) /\ q.type = "Message" /\ q.reliable
    BY <2>4, <2>5, <2>6 DEF Pushed
  <2>8. o.seq \in Nat /\ o.to \in Node
    BY <1>1, <2>1
  <2> QED
    BY <1>3, <2>2, <2>3, <2>7, <2>8 DEF IInv, OutboxInv
<1>7. DeliveredAsSent'
  BY <1>2, <1>3 DEF IInv, DeliveredAsSent
<1>8. TypeOK' /\ WorldIsOne'
  BY <1>2 DEF IInv, TypeOK, WorldIsOne
<1>9. KeysAreChains' /\ AuthenticatedSharesKey'
  BY <1>2, KeysKept DEF IInv
<1>10. InboxInv' /\ NetInv'
  BY <1>2, <1>5, InboxKept, NetKept DEF IInv, InboxInv
<1> QED
  BY <1>2, <1>4, <1>6, <1>7, <1>8, <1>9, <1>10 DEF IInv

\* A message, built now or again: whatever key it is built with.
LEMMA DispatchInv ==
    ASSUME IInv, NEW x \in Node, NEW o \in outbox[x], Dispatch(x, o)
    PROVE  IInv'
<1>1. PICK d : d = BuildPacket(o.packet, key[x], o.seq)
  OBVIOUS
<1>2. net' = net \cup IF d = NoPacket THEN {} ELSE {Between(x, o.to, d)}
  BY <1>1 DEF Dispatch
<1>3. UNCHANGED <<world, state, cryptoVars, peers, handshaked, inbox, outbox, delivered>>
  BY DEF Dispatch
<1>4. CASE d = NoPacket
  BY <1>2, <1>3, <1>4, LoseInv
<1>5. CASE d # NoPacket
  <2>1. UNCHANGED <<key, remote, authenticated>>
    BY <1>3 DEF cryptoVars
  <2>2. Steady
    BY <1>3, <2>1, SteadyWhenUnchanged
  <2>3. /\ o.seq \in Nat /\ o.to \in Node /\ Pushed(o.packet) /\ o.packet.type = "Message"
        /\ o.packet.reliable
    BY DEF IInv, OutboxInv
  <2>4. CanBuild(o.packet, key[x])
    BY <1>1, <1>5 DEF BuildPacket, CanBuild
  <2>5. \A e, k : (e = d \/ e \in Damaged(d)) /\ UnpackPacket(e, k) # NoPacket =>
           /\ UnpackPacket(e, k).type = "Message" /\ UnpackPacket(e, k).payload = o.packet.payload
           /\ o.packet.encrypted => UnpackPacket(e, k).seq = o.seq
    <3> SUFFICES ASSUME NEW e, NEW k, e = d \/ e \in Damaged(d), UnpackPacket(e, k) # NoPacket
                 PROVE  /\ UnpackPacket(e, k).type = "Message"
                        /\ UnpackPacket(e, k).payload = o.packet.payload
                        /\ o.packet.encrypted => UnpackPacket(e, k).seq = o.seq
      OBVIOUS
    <3>1. Underway(o.packet, key[x], o.seq, e)
      BY <1>1 DEF Underway
    <3> QED
      BY <2>3, <2>4, <3>1, BuiltUnpacks
  <2>6. o \in outbox'[x] /\ "Message" \notin SystemMessage
    BY <1>3 DEF SystemMessage
  <2>7. \A e : e = d \/ e \in Damaged(d) => Unpacks(x, o.to, e)'
    BY <2>5, <2>6 DEF Unpacks, Honest
  <2>8. PICK m : m = Between(x, o.to, d)
    OBVIOUS
  <2>9. Genuine(m)'
    <3>1. m.from = x /\ m.to = o.to /\ m.data = d
      BY <2>8 DEF Between
    <3> QED
      BY <2>3, <2>7, <2>8, <3>1 DEF Genuine
  <2>10. NetInv'
    BY <1>2, <2>2, <2>8, <2>9, NetKept DEF IInv
  <2>11. TypeOK' /\ WorldIsOne' /\ DeliveredAsSent'
    BY <1>3, <2>1 DEF IInv, TypeOK, WorldIsOne, DeliveredAsSent
  <2>12. KeysAreChains' /\ AuthenticatedSharesKey'
    BY <1>3, <2>1, KeysKept DEF IInv
  <2>13. InboxInv'
    BY <1>3, <2>2, InboxKept DEF IInv, InboxInv
  <2> QED
    BY <1>3, <2>1, <2>10, <2>11, <2>12, <2>13, OutboxKept DEF IInv
<1> QED
  BY <1>4, <1>5

-----------------------------------------------------------------------------
(* Receiving.                                                                 *)

\* One entry per address, and kMaxPeers of them.
LEMMA PeersGrow ==
    ASSUME TypeOK, peers \in Seq(Node), NEW a \in Node, peers' = GetOrCreatePeer(a) \/ peers' = peers
    PROVE  /\ peers' \in Seq(Node) /\ Range(peers) \subseteq Range(peers')
           /\ \A i, j \in DOMAIN peers' : peers'[i] = peers'[j] => i = j
           /\ Len(peers') <= kMaxPeers
<1>1. CASE peers' = peers
  BY <1>1 DEF TypeOK
<1>2. CASE peers' = Append(peers, a) /\ a \notin Range(peers) /\ Len(peers) < kMaxPeers
  <2>1. Append(peers, a) \in Seq(Node) /\ Range(Append(peers, a)) = Range(peers) \cup {a}
    BY RangeAppend
  <2>2. /\ Len(Append(peers, a)) = Len(peers) + 1 /\ Len(peers) \in Nat
        /\ Append(peers, a)[Len(peers) + 1] = a
        /\ \A i \in 1..Len(peers) : Append(peers, a)[i] = peers[i]
        /\ DOMAIN Append(peers, a) = 1..(Len(peers) + 1) /\ DOMAIN peers = 1..Len(peers)
    OBVIOUS
  <2>3. \A i \in 1..(Len(peers) + 1) : i \in 1..Len(peers) \/ i = Len(peers) + 1
    BY <2>2
  <2>4. \A i \in 1..Len(peers) : peers[i] # a
    BY <1>2, <2>2 DEF Range
  <2>5. \A i, j \in DOMAIN peers' : peers'[i] = peers'[j] => i = j
    <3>1. \A i, j \in 1..Len(peers) : peers[i] = peers[j] => i = j
      BY <2>2 DEF TypeOK
    <3>2. PICK q, l : q = Append(peers, a) /\ l = Len(peers)
      OBVIOUS
    <3>3. /\ DOMAIN q = 1..(l + 1) /\ q[l + 1] = a /\ \A i \in 1..l : q[i] = peers[i]
          /\ \A i \in 1..(l + 1) : i \in 1..l \/ i = l + 1
      BY ONLY <2>2, <2>3, <3>2
    <3>4. \A i, j \in DOMAIN q : q[i] = q[j] => i = j
      BY ONLY <2>4, <3>1, <3>2, <3>3
    <3> QED
      BY ONLY <1>2, <3>2, <3>4
  <2>6. Len(peers') <= kMaxPeers
    <3>1. kMaxPeers \in Nat
      BY BoundAssumption
    <3>2. \A l, k \in Nat : l < k => l + 1 <= k
      OBVIOUS
    <3>3. Len(peers) + 1 <= kMaxPeers
      BY <1>2, <2>2, <3>1, <3>2, Zenon
    <3> QED
      BY <1>2, <2>2, <3>3, Zenon
  <2>7. peers' \in Seq(Node) /\ Range(peers) \subseteq Range(peers')
    BY <1>2, <2>1
  <2> QED
    BY <2>5, <2>6, <2>7
<1>3. kMaxPeers \in Nat /\ Len(peers) \in Nat
  BY BoundAssumption
<1> QED
  BY <1>1, <1>2, <1>3 DEF GetOrCreatePeer

LEMMA ReceiveInv ==
    ASSUME IInv, NEW x \in Node, NEW m \in net, Receive(x, m)
    PROVE  IInv'
<1>1. PICK p, table : /\ p = UnpackPacket(m.data, key[x])
                      /\ table = IF x = Server /\ p # NoPacket THEN GetOrCreatePeer(m.from)
                                 ELSE peers
  OBVIOUS
<1>2. PICK accepted \in BOOLEAN : accepted = (p # NoPacket /\ (x = Server => m.from \in Range(table)))
  OBVIOUS
<1>3. /\ m.to = x /\ peers' = table
      /\ UNCHANGED <<world, state, key, remote, authenticated, handshaked, outbox>>
  BY <1>1 DEF Receive, cryptoVars
<1>4. net' \subseteq net
  BY DEF Receive
<1>5. m.from \in Node /\ Unpacks(m.from, x, m.data)
  BY <1>3 DEF IInv, NetInv, Genuine
<1>6. accepted => Honest(m.from, x, p)
  BY <1>1, <1>2, <1>5 DEF Unpacks
<1>7. Steady
  BY <1>3, SteadyWhenUnchanged
<1>8. /\ peers' \in Seq(Node) /\ Range(peers) \subseteq Range(peers')
      /\ \A i, j \in DOMAIN peers' : peers'[i] = peers'[j] => i = j
      /\ Len(peers') <= kMaxPeers
  <2>1. peers' = GetOrCreatePeer(m.from) \/ peers' = peers
    BY <1>1, <1>3
  <2> QED
    BY <1>5, <2>1, PeersGrow DEF IInv
<1>9. /\ WorldIsOne' /\ OutboxInv' /\ KeysAreChains' /\ AuthenticatedSharesKey' /\ NetInv'
  <2>1. WorldIsOne'
    BY <1>3 DEF IInv, WorldIsOne
  <2>2. KeysAreChains' /\ AuthenticatedSharesKey'
    BY <1>3, KeysKept DEF IInv
  <2> QED
    BY <1>3, <1>4, <1>7, <2>1, <2>2, OutboxKept, NetKept DEF IInv
<1> DEFINE Rest == /\ InboxInv' /\ DeliveredAsSent' /\ DOMAIN inbox' = Node
                   /\ DOMAIN delivered' = Node
                   /\ \A z \in Node : \A r \in delivered'[z] : r.from \in Node
<1>10. ASSUME ~accepted /\ UNCHANGED <<inbox, delivered>> PROVE Rest
  <2>1. InboxInv'
    BY <1>7, <1>8, <1>10, InboxKept DEF IInv, InboxInv
  <2>2. DeliveredAsSent'
    BY <1>3, <1>10 DEF IInv, DeliveredAsSent
  <2> QED
    BY <1>10, <2>1, <2>2 DEF IInv
<1>11. ASSUME /\ accepted /\ p.type \in SystemMessage /\ UNCHANGED delivered
              /\ inbox' = [inbox EXCEPT ![x] = Append(@,
                    [type |-> p.type, from |-> m.from, payload |-> p.payload])]
       PROVE  Rest
  <2>1. PICK q : q = [type |-> p.type, from |-> m.from, payload |-> p.payload]
    OBVIOUS
  <2>2. \A z \in Node : inbox'[z] = IF z = x THEN Append(inbox[x], q) ELSE inbox[z]
    BY <1>11, <2>1 DEF IInv
  <2>3. Says(m.from, x, p.type, p.payload)'
    BY <1>6, <1>7, <1>11, SaysKept DEF Honest
  <2>4. q.type \in SystemMessage /\ Says(q.from, x, q.type, q.payload)' /\ q.from = m.from
    BY <1>11, <2>1, <2>3
  <2>5. x = Server => m.from \in Range(peers')
    BY <1>2, <1>3, <1>11
  <2>6. IsSeq(inbox[x])
    BY DEF IInv, InboxInv
  <2>7. /\ Range(Append(inbox[x], q)) = Range(inbox[x]) \cup {q}
        /\ IsSeq(Append(inbox[x], q))
    BY <2>6, RangeAppend, OverItsRange DEF IsSeq
  <2>8. \A z, r : z \in Node /\ r \in Range(inbox[z]) =>
           /\ r.type \in SystemMessage /\ Says(r.from, z, r.type, r.payload)'
           /\ z = Server => r.from \in Range(peers')
    BY <1>7, <1>8, SaysKept DEF IInv, InboxInv
  <2>9. ASSUME NEW z \in Node
        PROVE  /\ IsSeq(inbox'[z])
               /\ \A r \in Range(inbox'[z]) :
                     /\ r.type \in SystemMessage /\ Says(r.from, z, r.type, r.payload)'
                     /\ z = Server => r.from \in Range(peers')
    <3>1. CASE z = x
      BY <2>2, <2>4, <2>5, <2>7, <2>8, <3>1
    <3>2. CASE z # x
      BY <2>2, <2>8, <3>2 DEF IInv, InboxInv
    <3> QED
      BY <3>1, <3>2
  <2>10. InboxInv'
    BY <2>9 DEF InboxInv, IsSeq, Range
  <2>11. DeliveredAsSent' /\ DOMAIN inbox' = Node
    BY <1>3, <1>11 DEF IInv, DeliveredAsSent
  <2> QED
    BY <1>11, <2>10, <2>11 DEF IInv
<1>12. ASSUME /\ accepted /\ p.type \notin SystemMessage /\ UNCHANGED inbox
              /\ delivered' = [delivered EXCEPT ![x] = @ \cup
                    {[from |-> m.from, seq |-> p.seq, payload |-> p.payload]}]
       PROVE  Rest
  <2>1. PICK q : q = [from |-> m.from, seq |-> p.seq, payload |-> p.payload]
    OBVIOUS
  <2>2. \A z \in Node : delivered'[z] = IF z = x THEN delivered[x] \cup {q} ELSE delivered[z]
    BY <1>12, <2>1 DEF IInv
  <2>3. PICK o \in outbox[m.from] : /\ o.to = x /\ o.packet.payload = p.payload
                                    /\ o.packet.encrypted => o.seq = p.seq
    BY <1>6, <1>12 DEF Honest
  <2>4. q.from = m.from /\ q.seq = p.seq /\ q.payload = p.payload
    BY <2>1
  <2>5. DeliveredAsSent'
    <3> SUFFICES ASSUME NEW z \in Node, NEW r \in delivered'[z]
                 PROVE  \E b \in outbox'[r.from] : /\ b.to = z /\ b.packet.payload = r.payload
                                                   /\ b.packet.encrypted => b.seq = r.seq
      BY DEF DeliveredAsSent
    <3>1. CASE r \in delivered[z]
      BY <1>3, <3>1 DEF IInv, DeliveredAsSent
    <3>2. CASE r \notin delivered[z]
      <4>1. r = q /\ z = x
        BY <2>2, <3>2
      <4> QED
        BY <1>3, <2>3, <2>4, <4>1
    <3> QED
      BY <3>1, <3>2
  <2>6. \A z \in Node : \A r \in delivered'[z] : r.from \in Node
    BY <1>5, <2>2, <2>4 DEF IInv
  <2>7. InboxInv'
    BY <1>7, <1>8, <1>12, InboxKept DEF IInv, InboxInv
  <2> QED
    BY <1>12, <2>5, <2>6, <2>7 DEF IInv
<1>13. Rest
  <2> HIDE DEF Rest
  <2> QED
    BY <1>1, <1>2, <1>10, <1>11, <1>12 DEF Receive
<1>14. TypeOK'
  <2>1. \A z \in Node : \A r \in Range(inbox'[z]) : r.type \in SystemMessage
    BY <1>13 DEF InboxInv
  <2> QED
    BY <1>3, <1>8, <2>1 DEF IInv, TypeOK
<1> QED
  BY <1>3, <1>8, <1>9, <1>13, <1>14 DEF IInv

-----------------------------------------------------------------------------
(* The handshake.                                                             *)

LEMMA NonceFacts ==
    ASSUME NEW x \in Node
    PROVE  /\ Nonce(x) \in Node \cup {None}
           /\ Encrypts(x) => Nonce(x) = x /\ Nonce(x) # None
           /\ ~Encrypts(x) => Nonce(x) = None
BY NodeFacts DEF Nonce

\* The key after an exchange of nonces: a longer chain.
LEMMA DeriveFacts ==
    ASSUME NEW k \in Chain, Len(k) >= 1, NEW x \in Node, NEW nonce \in Node \cup {None}
    PROVE  /\ DeriveSessionKeys(k, x, nonce) \in Chain
           /\ Len(DeriveSessionKeys(k, x, nonce)) >= 1
           /\ \A j \in Chain : IsPrefix(j, k) => IsPrefix(j, DeriveSessionKeys(k, x, nonce))
<1>1. CASE nonce = None
  BY <1>1 DEF DeriveSessionKeys
<1>2. CASE nonce # None
  <2>1. PICK e : e = {x, nonce}
    OBVIOUS
  <2>2. e \in KeyPart
    BY <1>2, <2>1 DEF KeyPart
  <2>3. Append(k, e) \in Chain /\ Len(Append(k, e)) >= 1
    BY <2>2 DEF Chain
  <2>4. DeriveSessionKeys(k, x, nonce) = Append(k, e)
    BY <1>2, <2>1 DEF DeriveSessionKeys
  <2> QED
    BY <2>2, <2>3, <2>4, PrefixGrows
<1> QED
  BY <1>1, <1>2

\* A control packet taken from the inbox.
LEMMA PolledFacts ==
    ASSUME IInv, NEW x \in Node, Poll(x), NEW p, p = Head(inbox[x])
    PROVE  /\ p.type \in SystemMessage /\ Says(p.from, x, p.type, p.payload)
           /\ x = Server => p.from \in Range(peers)
           /\ \A z \in Node : IsSeq(inbox'[z]) /\ Range(inbox'[z]) \subseteq Range(inbox[z])
           /\ DOMAIN inbox' = Node /\ UNCHANGED <<world, peers, outbox, delivered>>
<1>1. \A z \in Node : inbox'[z] = IF z = x THEN Tail(inbox[x]) ELSE inbox[z]
  BY DEF Poll, IInv
<1>2. inbox[x] # <<>> /\ IsSeq(inbox[x])
  BY DEF Poll, IInv, InboxInv
<1>3. p \in Range(inbox[x])
  BY <1>2, RangeTail DEF IsSeq
<1>4. IsSeq(Tail(inbox[x])) /\ Range(Tail(inbox[x])) \subseteq Range(inbox[x])
  BY <1>2, RangeTail, OverItsRange DEF IsSeq
<1>5. \A z \in Node : IsSeq(inbox'[z]) /\ Range(inbox'[z]) \subseteq Range(inbox[z])
  BY <1>1, <1>4 DEF IInv, InboxInv
<1> QED
  BY <1>3, <1>5 DEF IInv, InboxInv, Poll

\* What remains of the invariant, when the keys, the flags and the network have
\* been dealt with.
LEMMA PollRest ==
    ASSUME IInv, NEW x \in Node, Poll(x), Steady,
           KeysAreChains', AuthenticatedSharesKey', NetInv', DOMAIN key' = Node,
           state' \in [Client -> {"Disconnected", "Connecting", "Connected", "Closed"}],
           remote' \in [Node -> Node \cup {None}], authenticated' \in [Node -> BOOLEAN],
           handshaked' \subseteq Range(peers)
    PROVE  IInv'
<1>1. PICK p : p = Head(inbox[x])
  OBVIOUS
<1>2. /\ \A z \in Node : IsSeq(inbox'[z]) /\ Range(inbox'[z]) \subseteq Range(inbox[z])
      /\ DOMAIN inbox' = Node /\ UNCHANGED <<world, peers, outbox, delivered>>
  BY <1>1, PolledFacts
<1>3. InboxInv'
  BY <1>2, InboxKept DEF IInv
<1>4. WorldIsOne' /\ DeliveredAsSent' /\ OutboxInv'
  BY <1>2, OutboxKept DEF IInv, WorldIsOne, DeliveredAsSent
<1>5. TypeOK'
  <2>1. \A z \in Node : key'[z] # NoKey => Len(key'[z]) >= 1
    BY DEF KeysAreChains
  <2>2. \A z \in Node : \A r \in Range(inbox'[z]) : r.type \in SystemMessage
    BY <1>3 DEF InboxInv
  <2> QED
    BY <1>2, <2>1, <2>2 DEF IInv, TypeOK
<1> QED
  BY <1>2, <1>3, <1>4, <1>5 DEF IInv

LEMMA IgnoreInv ==
    ASSUME IInv, NEW x \in Node, Poll(x), UNCHANGED <<cryptoVars, handshaked, net>>,
           state' \in [Client -> {"Disconnected", "Connecting", "Connected", "Closed"}],
           \A c \in Client : state[c] \in {"Connected", "Closed"} => state'[c] = state[c]
    PROVE  IInv'
<1>1. UNCHANGED <<key, remote, authenticated, handshaked, net>>
  BY DEF cryptoVars
<1>2. UNCHANGED <<world, outbox>>
  BY DEF Poll
<1>3. Steady
  BY <1>1, <1>2, SteadyWhenUnchanged
<1>4. KeysAreChains' /\ AuthenticatedSharesKey'
  BY <1>1, <1>2, KeysKept DEF IInv
<1>5. NetInv'
  BY <1>1, <1>3, NetKept DEF IInv
<1>6. DOMAIN key' = Node /\ remote' \in [Node -> Node \cup {None}]
      /\ authenticated' \in [Node -> BOOLEAN] /\ handshaked' \subseteq Range(peers)
  BY <1>1 DEF IInv, TypeOK
<1> QED
  BY <1>3, <1>4, <1>5, <1>6, PollRest

\* The server takes a client's nonce into its chain of keys and proves the chain.
LEMMA OnClientHelloInv ==
    ASSUME IInv, Poll(Server), NEW p, p = Head(inbox[Server]), OnClientHello(p)
    PROVE  IInv'
<1>1. Server \in Node /\ UNCHANGED <<world, outbox>>
  BY NodeFacts DEF Poll
<1>2. CASE p.from \in handshaked /\ Ignore
  BY <1>1, <1>2, IgnoreInv DEF Ignore, IInv, TypeOK
<1>3. CASE p.from \notin handshaked /\ ~(p.from \in handshaked /\ Ignore)
  <2>1. PICK nonce : nonce = IF Encrypts(Server) THEN p.payload[2] ELSE None
    OBVIOUS
  <2>2. PICK k : k = DeriveSessionKeys(key[Server], Server, nonce)
    OBVIOUS
  <2>3. /\ key' = [key EXCEPT ![Server] = k] /\ remote' = [remote EXCEPT ![Server] = nonce]
        /\ handshaked' = handshaked \cup {p.from}
        /\ net' = net \cup {ServerHello(p.from, k, nonce)}
        /\ UNCHANGED <<state, authenticated>> /\ p.type = "ClientHello"
    BY <1>3, <2>1, <2>2 DEF OnClientHello
  <2>4. PICK c \in Client : c = p.from /\ p.payload[2] = Nonce(c) /\ c \in Range(peers)
    BY <1>1, <2>3, PolledFacts DEF Says
  <2>5. c \in Node /\ nonce \in Node \cup {None} /\ (Encrypts(Server) => nonce = Nonce(c))
        /\ (~Encrypts(Server) => nonce = None)
    BY <2>1, <2>4, NodeFacts, NonceFacts
  <2>6. \A x \in Node : key'[x] = IF x = Server THEN k ELSE key[x]
    BY <1>1, <2>3 DEF IInv
  <2>7. Encrypts(Server) => /\ key[Server] \in Chain /\ k \in Chain /\ Len(k) >= 1
                            /\ \A j \in Chain : IsPrefix(j, key[Server]) => IsPrefix(j, k)
    BY <1>1, <2>2, <2>5, DeriveFacts DEF IInv, KeysAreChains
  <2>8. ~Encrypts(Server) => k = NoKey
    BY <1>1, <2>2, <2>5 DEF DeriveSessionKeys, IInv, KeysAreChains
  <2>9. Steady
    BY <1>1, <2>3, <2>6, <2>7 DEF Steady
  <2>10. \A x : Encrypts(x)' = Encrypts(x) /\ Nonce(x)' = Nonce(x)
    BY <1>1 DEF Encrypts, Nonce
  <2>11. KeysAreChains'
    BY <2>3, <2>6, <2>7, <2>8, <2>10 DEF IInv, KeysAreChains
  <2>12. AuthenticatedSharesKey'
    <3>1. \A b \in Client : authenticated[b] => Encrypts(Server) /\ key[b] \in Chain /\ key'[b] = key[b]
      BY <2>6, NodeFacts DEF IInv, KeysAreChains
    <3>2. \A b \in Client : authenticated[b] /\ IsPrefix(key[b], key[Server]) => IsPrefix(key'[b], key'[Server])
      BY <1>1, <2>6, <2>7, <3>1
    <3> QED
      BY <2>3, <3>2 DEF IInv, AuthenticatedSharesKey
  <2>13. NetInv'
    <3>1. PICK proof : proof = IF Encrypts(Server) THEN GenerateServerProof(k, nonce) ELSE None
      OBVIOUS
    <3>2. PICK h : h = <<"hello", Nonce(Server), proof>>
      OBVIOUS
    <3>3. h[2] = Nonce(Server)' /\ h[3] = proof
      BY <2>10, <3>2
    <3>4. Encrypts(Server) /\ nonce # None =>
             /\ proof = <<"hmac", k, nonce, Server>> /\ proof # None /\ IsPrefix(k, key'[Server])
      BY <1>1, <2>5, <2>6, <2>7, <3>1, NodeFacts, PrefixOfItself DEF GenerateServerProof, Hmac
    <3>5. ~(Encrypts(Server) /\ nonce # None) => proof = None
      BY <3>1 DEF GenerateServerProof, Hmac
    <3>6. Encrypts(c) /\ Nonce(Server) # None => Encrypts(Server) /\ nonce # None
      BY <1>1, <2>5, NonceFacts
    <3>7. \/ h[3] = None
          \/ /\ Encrypts(Server)'
             /\ \E j \in Chain, n \in Node : /\ h[3] = <<"hmac", j, n, Server>>
                                             /\ IsPrefix(j, key'[Server])
      BY <2>5, <2>7, <2>10, <3>3, <3>4, <3>5
    <3>8. Says(Server, c, "ServerHello", h)'
      BY <2>10, <3>3, <3>4, <3>6, <3>7 DEF Says
    <3>9. PICK m : m = Control(Server, c, "ServerHello", h)
      OBVIOUS
    <3>10. Genuine(m)'
      BY <1>1, <2>5, <3>8, <3>9, ControlIsGenuine DEF SystemMessage
    <3>11. net' = net \cup {m}
      BY <2>3, <2>4, <3>1, <3>2, <3>9 DEF ServerHello
    <3> QED
      BY <2>9, <3>10, <3>11, NetKept DEF IInv
  <2>14. /\ DOMAIN key' = Node /\ remote' \in [Node -> Node \cup {None}]
         /\ authenticated' \in [Node -> BOOLEAN] /\ handshaked' \subseteq Range(peers)
         /\ state' \in [Client -> {"Disconnected", "Connecting", "Connected", "Closed"}]
    BY <2>3, <2>4, <2>5 DEF IInv, TypeOK
  <2> QED
    BY <1>1, <2>9, <2>11, <2>12, <2>13, <2>14, PollRest
<1> QED
  BY <1>2, <1>3 DEF OnClientHello

\* A proof comes from a client that has verified the server.
LEMMA OnClientAuthProofInv ==
    ASSUME IInv, Poll(Server), NEW p, p = Head(inbox[Server]), OnClientAuthProof(p)
    PROVE  IInv'
<1>1. Server \in Node /\ UNCHANGED <<world, outbox>>
  BY NodeFacts DEF Poll
<1>2. /\ UNCHANGED <<state, key, remote, handshaked, net>> /\ p.type = "ClientAuthProof"
  BY DEF OnClientAuthProof
<1>3. authenticated \in [Node -> BOOLEAN]
  BY DEF IInv, TypeOK
<1>4. PICK v \in BOOLEAN : authenticated' = [authenticated EXCEPT ![Server] = v]
  BY DEF OnClientAuthProof
<1>5. authenticated' \in [Node -> BOOLEAN]
  BY <1>1, <1>3, <1>4, Zenon
<1>6. \A c \in Client : authenticated'[c] = authenticated[c]
  BY <1>3, <1>4, NodeFacts
<1>7. Steady
  BY <1>1, <1>2, <1>6 DEF Steady
<1>8. PICK c \in Client : authenticated[c]
  BY <1>1, <1>2, PolledFacts DEF Says
<1>9. AuthenticatedSharesKey'
  BY <1>2, <1>6, <1>8 DEF IInv, AuthenticatedSharesKey
<1>10. KeysAreChains'
  BY <1>1, <1>2, <1>6 DEF IInv, KeysAreChains, Encrypts
<1>11. NetInv'
  BY <1>2, <1>7, NetKept DEF IInv
<1>12. /\ DOMAIN key' = Node /\ remote' \in [Node -> Node \cup {None}]
       /\ handshaked' \subseteq Range(peers)
       /\ state' \in [Client -> {"Disconnected", "Connecting", "Connected", "Closed"}]
  BY <1>2 DEF IInv, TypeOK
<1> QED
  BY <1>1, <1>5, <1>7, <1>9, <1>10, <1>11, <1>12, PollRest

\* A client that verifies the server's proof has the key the server had, and only
\* such a client answers with a proof of its own.
LEMMA OnServerHelloInv ==
    ASSUME IInv, NEW c \in Client, Poll(c), NEW p, p = Head(inbox[c]), OnServerHello(c, p)
    PROVE  IInv'
<1>1. Server \in Node /\ c \in Node /\ c # Server /\ UNCHANGED <<world, outbox>>
  BY NodeFacts DEF Poll
<1>2. CASE Ignore
  BY <1>1, <1>2, IgnoreInv DEF Ignore, IInv, TypeOK
<1>3. CASE /\ state[c] = "Connecting" /\ state' = [state EXCEPT ![c] = "Connected"]
           /\ UNCHANGED <<cryptoVars, handshaked, net>>
  <2>1. /\ state' \in [Client -> {"Disconnected", "Connecting", "Connected", "Closed"}]
        /\ \A b \in Client : state[b] \in {"Connected", "Closed"} => state'[b] = state[b]
    BY <1>3 DEF IInv, TypeOK
  <2> QED
    BY <1>1, <1>3, <2>1, IgnoreInv
<1>4. CASE ~Ignore /\ state[c] = "Connecting" /\ Encrypts(c)
  <2>1. PICK nonce, proof : nonce = p.payload[2] /\ proof = p.payload[3]
    OBVIOUS
  <2>2. PICK k, own : /\ k = DeriveSessionKeys(key[c], c, nonce)
                      /\ own = GenerateClientProof(k, c, nonce)
    OBVIOUS
  <2>3. PICK verified \in BOOLEAN :
           verified = (proof # None /\ VerifyServerResponse(k, c, nonce, proof))
    OBVIOUS
  <2>4. PICK refused \in BOOLEAN : refused = (proof # None /\ ~verified)
    OBVIOUS
  <2>5. /\ key' = [key EXCEPT ![c] = k] /\ remote' = [remote EXCEPT ![c] = nonce]
        /\ authenticated' = [authenticated EXCEPT ![c] = verified]
        /\ state' = [state EXCEPT ![c] = IF refused THEN "Closed" ELSE "Connected"]
        /\ net' = net \cup IF refused \/ own = None THEN {} ELSE {ClientAuthProof(c, own)}
        /\ UNCHANGED handshaked /\ p.type = "ServerHello"
    BY <1>4, <2>1, <2>2, <2>3, <2>4 DEF OnServerHello
  <2>6. /\ nonce = Nonce(Server)
        /\ \/ proof = None
           \/ /\ Encrypts(Server)
              /\ \E j \in Chain, n \in Node : /\ proof = <<"hmac", j, n, Server>>
                                              /\ IsPrefix(j, key[Server])
        /\ nonce # None => proof # None
    BY <1>1, <1>4, <2>1, <2>5, PolledFacts DEF Says
  <2>7. nonce \in Node \cup {None}
    BY <1>1, <2>6, NonceFacts
  <2>8. k \in Chain /\ Len(k) >= 1
    BY <1>1, <1>4, <2>2, <2>7, DeriveFacts DEF IInv, KeysAreChains
  <2>9. verified => Encrypts(Server) /\ IsPrefix(k, key[Server])
    <3> SUFFICES ASSUME verified PROVE Encrypts(Server) /\ IsPrefix(k, key[Server])
      OBVIOUS
    <3>1. proof # None /\ nonce # None /\ proof = Hmac(k, c, nonce)
      BY <2>3 DEF VerifyServerResponse
    <3>2. proof = <<"hmac", k, c, nonce>>
      BY <1>1, <3>1, NodeFacts DEF Hmac
    <3>3. PICK j \in Chain, n \in Node : proof = <<"hmac", j, n, Server>> /\ IsPrefix(j, key[Server])
      BY <2>6, <3>1
    <3>4. j = k
      BY <3>2, <3>3
    <3> QED
      BY <2>6, <3>1, <3>3, <3>4
  <2>10. authenticated \in [Node -> BOOLEAN] /\ ~authenticated[c]
    BY <1>4 DEF IInv, TypeOK, KeysAreChains
  <2>11. /\ \A x \in Node : key'[x] = IF x = c THEN k ELSE key[x]
         /\ \A x \in Client : state'[x] = IF x = c THEN (IF refused THEN "Closed" ELSE "Connected")
                                          ELSE state[x]
    BY <1>1, <2>5 DEF IInv, TypeOK
  <2>12. authenticated'[c] = verified /\ \A x \in Node : x # c => authenticated'[x] = authenticated[x]
    BY <1>1, <2>5, <2>10
  <2>13. authenticated' \in [Node -> BOOLEAN]
    BY <2>5, <2>10, Zenon
  <2>14. Steady
    BY <1>1, <2>10, <2>11, <2>12, NodeFacts DEF Steady
  <2>15. \A x : Encrypts(x)' = Encrypts(x)
    BY <1>1 DEF Encrypts
  <2>16. KeysAreChains'
    <3>1. \A x \in Node : IF Encrypts(x)' THEN key'[x] \in Chain /\ Len(key'[x]) >= 1
                                          ELSE key'[x] = NoKey
      BY <1>4, <2>8, <2>11, <2>15 DEF IInv, KeysAreChains
    <3>2. ASSUME NEW b \in Client, authenticated'[b]
          PROVE  Encrypts(b)' /\ Encrypts(Server)' /\ state'[b] \in {"Connected", "Closed"}
      <4>1. CASE b = c
        BY <1>4, <2>9, <2>11, <2>12, <2>15, <3>2, <4>1
      <4>2. CASE b # c
        BY <2>11, <2>12, <2>15, <3>2, <4>2, NodeFacts DEF IInv, KeysAreChains
      <4> QED
        BY <4>1, <4>2
    <3> QED
      BY <3>1, <3>2 DEF KeysAreChains
  <2>17. AuthenticatedSharesKey'
    <3>1. ASSUME NEW b \in Client, authenticated'[b] PROVE IsPrefix(key'[b], key'[Server])
      <4>1. CASE b = c
        BY <1>1, <2>9, <2>11, <2>12, <3>1, <4>1
      <4>2. CASE b # c
        BY <1>1, <2>11, <2>12, <3>1, <4>2, NodeFacts DEF IInv, AuthenticatedSharesKey
      <4> QED
        BY <4>1, <4>2
    <3>2. ASSUME authenticated'[Server] PROVE \E b \in Client : authenticated'[b]
      <4>1. PICK b \in Client : authenticated[b]
        BY <1>1, <2>12, <3>2 DEF IInv, AuthenticatedSharesKey
      <4> QED
        BY <2>14, <4>1 DEF Steady
    <3> QED
      BY <3>1, <3>2 DEF AuthenticatedSharesKey
  <2>18. NetInv'
    <3>1. CASE refused \/ own = None
      BY <2>5, <2>14, <3>1, NetKept DEF IInv
    <3>2. CASE ~refused /\ own # None
      <4>1. nonce # None
        BY <2>2, <3>2 DEF GenerateClientProof, Hmac
      <4>2. verified
        BY <2>4, <2>6, <3>2, <4>1
      <4>3. PICK h : h = <<"proof", own>>
        OBVIOUS
      <4>4. Says(c, Server, "ClientAuthProof", h)'
        BY <2>12, <4>2 DEF Says
      <4>5. PICK m : m = Control(c, Server, "ClientAuthProof", h)
        OBVIOUS
      <4>6. Genuine(m)'
        BY <1>1, <4>4, <4>5, ControlIsGenuine DEF SystemMessage
      <4>7. net' = net \cup {m}
        BY <2>5, <3>2, <4>3, <4>5 DEF ClientAuthProof
      <4> QED
        BY <2>14, <4>6, <4>7, NetKept DEF IInv
    <3> QED
      BY <3>1, <3>2
  <2>19. /\ DOMAIN key' = Node /\ remote' \in [Node -> Node \cup {None}]
         /\ handshaked' \subseteq Range(peers)
         /\ state' \in [Client -> {"Disconnected", "Connecting", "Connected", "Closed"}]
    BY <2>5, <2>7 DEF IInv, TypeOK
  <2> QED
    BY <1>1, <2>13, <2>14, <2>16, <2>17, <2>18, <2>19, PollRest
<1> QED
  BY <1>2, <1>3, <1>4 DEF OnServerHello

-----------------------------------------------------------------------------
LEMMA InitInv == Init => IInv
<1> SUFFICES ASSUME Init PROVE IInv
  OBVIOUS
<1>1. \A x : Range(<<>>) = {} /\ IsSeq(<<>>)
  BY DEF Range, IsSeq
<1>2. WorldIsOne
  BY DEF Init, WorldIsOne
<1>3. KeysAreChains
  <2>1. \A x \in Node : world.secret[x] \in KeyPart
    BY <1>2, WorldFacts
  <2>2. \A e \in KeyPart : <<e>> \in Chain /\ Len(<<e>>) >= 1
    BY DEF Chain
  <2>3. \A x \in Node : key[x] = KeyMaterial(x) /\ ~authenticated[x]
    BY DEF Init
  <2> QED
    BY <2>1, <2>2, <2>3, NodeFacts DEF KeysAreChains, KeyMaterial
<1>4. AuthenticatedSharesKey
  BY NodeFacts DEF Init, AuthenticatedSharesKey
<1>5. InboxInv
  BY <1>1 DEF Init, InboxInv
<1>6. NetInv /\ OutboxInv
  BY FS_EmptySet DEF Init, NetInv, OutboxInv
<1>7. peers = <<>> /\ Len(peers) = 0 /\ kMaxPeers \in Nat /\ DOMAIN peers = {} /\ peers \in Seq(Node)
  BY BoundAssumption DEF Init
<1>8. TypeOK
  <2>1. authenticated \in [Node -> BOOLEAN] /\ remote \in [Node -> Node \cup {None}]
    BY DEF Init
  <2>2. \A x \in Node : key[x] # NoKey => Len(key[x]) >= 1
    BY <1>3 DEF KeysAreChains
  <2>3. state \in [Client -> {"Disconnected", "Connecting", "Connected", "Closed"}] /\ handshaked = {}
    BY DEF Init
  <2>4. \A x \in Node : \A r \in Range(inbox[x]) : r.type \in SystemMessage
    BY <1>5 DEF InboxInv
  <2>5. Len(peers) <= kMaxPeers
    BY <1>7
  <2> QED
    BY <1>7, <2>1, <2>2, <2>3, <2>4, <2>5 DEF TypeOK
<1>9. /\ DeliveredAsSent /\ DOMAIN key = Node /\ DOMAIN inbox = Node /\ DOMAIN outbox = Node
      /\ DOMAIN delivered = Node /\ \A x \in Node : delivered[x] = {}
  BY DEF Init, DeliveredAsSent
<1> QED
  BY <1>2, <1>3, <1>4, <1>5, <1>6, <1>7, <1>8, <1>9 DEF IInv

LEMMA NextInv == IInv /\ [Next]_vars => IInv'
<1> SUFFICES ASSUME IInv, [Next]_vars PROVE IInv'
  OBVIOUS
<1>1. CASE UNCHANGED vars
  BY <1>1, LoseInv DEF vars
<1>2. ASSUME NEW x \in Node, Poll(x) PROVE IInv'
  <2>1. CASE x = Server
    BY <1>2, <2>1, OnClientHelloInv, OnClientAuthProofInv DEF Poll
  <2>2. CASE x # Server
    <3>1. x \in Client
      BY <2>2 DEF Node
    <3> QED
      BY <1>2, <2>2, <3>1, OnServerHelloInv DEF Poll
  <2> QED
    BY <2>1, <2>2
<1>3. ASSUME NEW m \in net, Receive(m.to, m) \/ Lose(m) \/ Damage(m) PROVE IInv'
  <2>1. m.to \in Node
    BY DEF IInv, NetInv, Genuine
  <2>2. CASE Lose(m)
    BY <2>2, LoseInv DEF Lose
  <2> QED
    BY <1>3, <2>1, <2>2, ReceiveInv, DamageInv
<1> QED
  BY <1>1, <1>2, <1>3, ConnectInv, SendMessageInv, DispatchInv DEF Next

\* Whatever is lost, repeated, delayed or damaged in the handshake of ZClient and
\* ZServer: a client that holds the server for authenticated has a key that the
\* server's chain of keys begins with, and the server sets its own flag only when
\* such a client exists.
THEOREM SessionSharesKeys == Spec => []KeyInv
<1>1. IInv => KeyInv
  BY DEF IInv, KeyInv
<1> QED
  BY <1>1, InitInv, NextInv, PTL DEF Spec

\* What either side delivers was accepted by SendMessage at the address it came
\* from, for this node; with encryption it carries its own number, too.
THEOREM SessionDeliversAsSent == Spec => []DeliveredAsSent
<1>1. IInv => DeliveredAsSent
  BY DEF IInv
<1> QED
  BY <1>1, InitInv, NextInv, PTL DEF Spec
=============================================================================
