----------------------- MODULE ReliableChannelProofs ------------------------
(***************************************************************************)
(* Proofs about ReliableChannel, for any endpoints, traffic, priorities    *)
(* and sizes of the sequence counter: with one dispatch worker a number    *)
(* names one packet, and a reliable packet for one peer is delivered at    *)
(* most once and forgotten only when it has arrived.                       *)
(***************************************************************************)
EXTENDS ReliableChannel, TLAPS

\* The numbers of the first packets are sequence numbers.
LEMMA Numbers ==
    /\ SeqMod \in Nat \ {0} /\ 0 \in SeqNum /\ High \in Priority
    /\ MaxCopies \in Nat \ {0}
    /\ \A s \in SeqNum : (s + 1) % SeqMod \in SeqNum
    /\ \A s \in SeqNum : s # SeqMod - 1 => (s + 1) % SeqMod = s + 1
BY NumberAssumption DEF SeqNum

\* What a scenario says of a packet.
LEMMA TrafficType ==
    ASSUME scenario \in Scenario, NEW p \in DOMAIN Traffic
    PROVE  /\ p \in Packet /\ Traffic[p].from \in Node
           /\ Traffic[p].to \in Node \cup {ToAll, ToServer}
           /\ Traffic[p].reliable \in BOOLEAN
           /\ Traffic[p].channel \in Channel /\ Traffic[p].priority \in Priority
BY TrafficAssumption DEF Traffic

\* An application packet as it is queued.
LEMMA AppItemType ==
    ASSUME scenario \in Scenario, NEW p \in DOMAIN Traffic
    PROVE  AppItem(p) \in Item
BY TrafficType DEF AppItem, Item

\* What Item and Message say of one packet.
LEMMA ItemType ==
    ASSUME NEW it \in Item
    PROVE  /\ it.type \in {"Data", "Acknowledgement"} /\ it.reliable \in BOOLEAN
           /\ it.to \in Node \cup {ToAll, ToServer}
           /\ it.type = "Data" => it.body \in Packet
           /\ it.type = "Acknowledgement" => it.body \in SeqNum /\ ~it.reliable /\ it.to \in Node
           /\ it.reliable => it.type = "Data"
BY DEF Item

LEMMA MessageType ==
    ASSUME NEW d \in Message
    PROVE  /\ d.type \in {"Data", "Acknowledgement"} /\ d.reliable \in BOOLEAN
           /\ d.src \in Node /\ d.dst \in Node /\ d.seq \in SeqNum
           /\ d.type = "Data" => d.body \in Packet
           /\ d.type = "Acknowledgement" => d.body \in SeqNum /\ ~d.reliable
           /\ d.reliable => d.type = "Data"
BY Numbers DEF Message

\* BuildPacket makes a datagram of any packet and number.
LEMMA DatagramType ==
    ASSUME NEW n \in Node, NEW m \in Node, NEW it \in Item, NEW s \in SeqNum
    PROVE  /\ Datagram(n, m, it, s) \in Message
           /\ Datagram(n, m, it, s).src = n /\ Datagram(n, m, it, s).dst = m
           /\ Datagram(n, m, it, s).type = it.type /\ Datagram(n, m, it, s).body = it.body
           /\ Datagram(n, m, it, s).reliable = it.reliable
           /\ it.reliable => Datagram(n, m, it, s).seq = s
<1>1. CASE it \in [type : {"Data"}, body : Packet, to : Node \cup {ToAll, ToServer},
                   reliable : BOOLEAN]
  BY <1>1, Numbers DEF Datagram, Message
<1>2. CASE it \in [type : {"Acknowledgement"}, body : SeqNum, to : Node,
                   reliable : {FALSE}]
  BY <1>2, Numbers DEF Datagram, Message
<1> QED
  BY <1>1, <1>2 DEF Item

\* Packets go to endpoints.
LEMMA TargetsType ==
    ASSUME NEW n \in Node, NEW to
    PROVE  Targets(n, to) \subseteq Node
BY NodeAssumption DEF Targets, Peers

\* The oldest element of a queue, and the queue without it.
LEMMA HeadTail ==
    ASSUME NEW S, NEW q \in Seq(S), q # <<>>
    PROVE  Head(q) \in S /\ Tail(q) \in Seq(S)
OBVIOUS

-----------------------------------------------------------------------------
(* Types.                                                                     *)

LEMMA InitTypeOK == Init => TypeOK
<1> SUFFICES ASSUME Init PROVE TypeOK
  OBVIOUS
<1>1. delivered \in [Node -> [Packet -> 0..MaxCopies]]
  BY Numbers DEF Init
<1>2. next_seq \in [Node -> SeqNum]
  BY Numbers DEF Init
<1> QED
  BY <1>1, <1>2 DEF Init, TypeOK

LEMMA PushTypeOK ==
    ASSUME TypeOK, NEW p \in Packet, Push(p)
    PROVE  TypeOK'
<1>1. AppItem(p) \in Item /\ p \in DOMAIN Traffic
  BY AppItemType DEF TypeOK, Push
<1>2. /\ Traffic[p].from \in Node /\ Traffic[p].channel \in Channel
      /\ Traffic[p].priority \in Priority
  BY <1>1, TrafficType DEF TypeOK
<1>3. queue' \in [Node -> [Channel -> [Priority -> Seq(Item)]]]
  <2>1. PICK n, c, q, it : /\ n = Traffic[p].from /\ c = Traffic[p].channel
                           /\ q = Traffic[p].priority /\ it = AppItem(p)
    OBVIOUS
  <2>2. queue \in [Node -> [Channel -> [Priority -> Seq(Item)]]]
    BY DEF TypeOK
  <2>3. n \in Node /\ c \in Channel /\ q \in Priority /\ it \in Item
    BY <1>1, <1>2, <2>1
  <2>4. queue' = [queue EXCEPT ![n][c][q] = Append(@, it)]
    BY <2>1 DEF Push, Enqueue
  <2>5. Append(queue[n][c][q], it) \in Seq(Item)
    BY ONLY <2>2, <2>3
  <2> QED
    BY ONLY <2>2, <2>3, <2>4, <2>5
<1> QED
  BY <1>1, <1>3 DEF TypeOK, Push, workerVars, inVars, Traffic

LEMMA ProcessChannelTypeOK ==
    ASSUME TypeOK, NEW n \in Node, NEW c \in Channel, ProcessChannel(n, c)
    PROVE  TypeOK'
<1>1. PICK q \in Backlogged(n, c) :
         /\ pool' = [pool EXCEPT ![n] = Append(@, Head(queue[n][c][q]))]
         /\ queue' = [queue EXCEPT ![n][c][q] = Tail(@)]
  BY DEF ProcessChannel
<1>2. /\ q \in Priority /\ Head(queue[n][c][q]) \in Item
      /\ Tail(queue[n][c][q]) \in Seq(Item)
  <2>1. q \in Priority /\ queue[n][c][q] \in Seq(Item) /\ queue[n][c][q] # <<>>
    BY DEF TypeOK, Backlogged
  <2> QED
    BY <2>1, HeadTail
<1>3. pool' \in [Node -> Seq(Item)]
  BY <1>1, <1>2 DEF TypeOK
<1>4. queue' \in [Node -> [Channel -> [Priority -> Seq(Item)]]]
  BY <1>1, <1>2 DEF TypeOK
<1> QED
  BY <1>3, <1>4 DEF TypeOK, ProcessChannel, workerVars, inVars, Traffic

\* A retransmission is made from a receipt.
LEMMA ScanRetransmitTypeOK ==
    ASSUME TypeOK, NEW n \in Node, NEW s \in SeqNum, ScanRetransmit(n, s)
    PROVE  TypeOK'
<1>1. receipts[n][s] \in Item
  BY DEF TypeOK, ScanRetransmit
<1>2. net' \subseteq Message
  BY <1>1, DatagramType, TargetsType DEF TypeOK, ScanRetransmit
<1> QED
  BY <1>2 DEF TypeOK, ScanRetransmit, outVars, workerVars, inVars, Traffic

LEMMA WithoutType ==
    ASSUME TypeOK, NEW n \in Node, NEW s,
           receipts' = [receipts EXCEPT ![n] = Without(@, s)]
    PROVE  /\ DOMAIN receipts' = Node
           /\ \A m \in Node : /\ DOMAIN receipts'[m] \subseteq DOMAIN receipts[m]
                              /\ \A k \in DOMAIN receipts'[m] : receipts'[m][k] = receipts[m][k]
BY DEF TypeOK, Without

LEMMA ScanDropTypeOK ==
    ASSUME TypeOK, NEW n \in Node, NEW s \in SeqNum, ScanDrop(n, s)
    PROVE  TypeOK'
<1>1. /\ DOMAIN receipts' = Node
      /\ \A m \in Node : /\ DOMAIN receipts'[m] \subseteq DOMAIN receipts[m]
                         /\ \A k \in DOMAIN receipts'[m] : receipts'[m][k] = receipts[m][k]
  BY WithoutType DEF ScanDrop
<1> QED
  BY <1>1 DEF TypeOK, ScanDrop, outVars, workerVars, inVars, Traffic

\* A worker that goes on keeps its packet, one that ends has none.
LEMMA GoOnType ==
    ASSUME TypeOK, NEW n \in Node, NEW w \in Worker, NEW it \in Item,
           NEW ms \in SUBSET Node, GoOn(n, w, it, ms)
    PROVE  /\ wpc' \in [Node -> [Worker -> {"idle", "send", "receipt", "bump"}]]
           /\ item' \in [Node -> [Worker -> Item \cup {None}]]
           /\ left' \in [Node -> [Worker -> SUBSET Node]]
           /\ \A m \in Node, v \in Worker : wpc'[m][v] # "idle" => item'[m][v] \in Item
<1>1. /\ wpc' \in [Node -> [Worker -> {"idle", "send", "receipt", "bump"}]]
      /\ item' \in [Node -> [Worker -> Item \cup {None}]]
      /\ left' \in [Node -> [Worker -> SUBSET Node]]
  BY DEF TypeOK, GoOn
<1>2. ASSUME NEW m \in Node, NEW v \in Worker, wpc'[m][v] # "idle"
      PROVE  item'[m][v] \in Item
  BY <1>2 DEF TypeOK, GoOn
<1> QED
  BY <1>1, <1>2

LEMMA TakeTypeOK ==
    ASSUME TypeOK, NEW n \in Node, NEW w \in Worker, Take(n, w)
    PROVE  TypeOK'
<1> DEFINE it == Head(pool[n])
<1>1. it \in Item /\ Tail(pool[n]) \in Seq(Item)
  BY HeadTail DEF TypeOK, Take
<1>2. Targets(n, it.to) \in SUBSET Node
  BY TargetsType
<1>3. GoOn(n, w, it, Targets(n, it.to))
  BY DEF Take
<1>4. pool' \in [Node -> Seq(Item)]
  BY <1>1 DEF TypeOK, Take
<1> HIDE DEF it
<1>5. /\ wpc' \in [Node -> [Worker -> {"idle", "send", "receipt", "bump"}]]
      /\ item' \in [Node -> [Worker -> Item \cup {None}]]
      /\ left' \in [Node -> [Worker -> SUBSET Node]]
      /\ \A m \in Node, v \in Worker : wpc'[m][v] # "idle" => item'[m][v] \in Item
  BY <1>1, <1>2, <1>3, GoOnType
<1> QED
  BY <1>4, <1>5 DEF TypeOK, Take, inVars, Traffic

LEMMA TransmitTypeOK ==
    ASSUME TypeOK, NEW n \in Node, NEW w \in Worker, NEW m \in Node, Transmit(n, w, m)
    PROVE  TypeOK'
<1>1. item[n][w] \in Item /\ next_seq[n] \in SeqNum
  BY DEF TypeOK, Transmit
<1>2. net' \subseteq Message
  BY <1>1, DatagramType DEF TypeOK, Transmit
<1>3. stamped' \subseteq [from : Node, seq : SeqNum, body : Packet, to : Node]
  BY <1>1, ItemType DEF TypeOK, Transmit
<1>4. /\ wpc' \in [Node -> [Worker -> {"idle", "send", "receipt", "bump"}]]
      /\ left' \in [Node -> [Worker -> SUBSET Node]]
  BY DEF TypeOK, Transmit
<1>5. \A x \in Node, v \in Worker : wpc'[x][v] # "idle" => item'[x][v] \in Item
  BY DEF TypeOK, Transmit
<1> QED
  BY <1>2, <1>3, <1>4, <1>5 DEF TypeOK, Transmit, outVars, inVars, Traffic

LEMMA TransmitFailsTypeOK ==
    ASSUME TypeOK, NEW n \in Node, NEW w \in Worker, NEW m \in Node, TransmitFails(n, w, m)
    PROVE  TypeOK'
<1>1. item[n][w] \in Item /\ left[n][w] \ {m} \in SUBSET Node
  BY DEF TypeOK, TransmitFails
<1>2. GoOn(n, w, item[n][w], left[n][w] \ {m})
  BY DEF TransmitFails
<1>3. /\ wpc' \in [Node -> [Worker -> {"idle", "send", "receipt", "bump"}]]
      /\ item' \in [Node -> [Worker -> Item \cup {None}]]
      /\ left' \in [Node -> [Worker -> SUBSET Node]]
      /\ \A x \in Node, v \in Worker : wpc'[x][v] # "idle" => item'[x][v] \in Item
  BY <1>1, <1>2, GoOnType
<1> QED
  BY <1>3 DEF TypeOK, TransmitFails, outVars, inVars, Traffic

LEMMA AddReceiptTypeOK ==
    ASSUME TypeOK, NEW n \in Node, NEW w \in Worker, AddReceiptIfNeeded(n, w)
    PROVE  TypeOK'
<1>1. item[n][w] \in Item /\ next_seq[n] \in SeqNum
  BY DEF TypeOK, AddReceiptIfNeeded
<1>2. /\ DOMAIN receipts' = Node
      /\ \A m \in Node : /\ DOMAIN receipts'[m] \subseteq SeqNum
                         /\ \A s \in DOMAIN receipts'[m] :
                                receipts'[m][s] \in Item /\ receipts'[m][s].reliable
  BY <1>1 DEF TypeOK, AddReceiptIfNeeded
<1>3. wpc' \in [Node -> [Worker -> {"idle", "send", "receipt", "bump"}]]
  BY DEF TypeOK, AddReceiptIfNeeded
<1>4. \A x \in Node, v \in Worker : wpc'[x][v] # "idle" => item'[x][v] \in Item
  BY DEF TypeOK, AddReceiptIfNeeded
<1> QED
  BY <1>2, <1>3, <1>4 DEF TypeOK, AddReceiptIfNeeded, outVars, inVars, Traffic

LEMMA BumpTypeOK ==
    ASSUME TypeOK, NEW n \in Node, NEW w \in Worker, Bump(n, w)
    PROVE  TypeOK'
<1>1. item[n][w] \in Item /\ left[n][w] \in SUBSET Node
  BY DEF TypeOK, Bump
<1>2. GoOn(n, w, item[n][w], left[n][w])
  BY DEF Bump
<1>3. /\ wpc' \in [Node -> [Worker -> {"idle", "send", "receipt", "bump"}]]
      /\ item' \in [Node -> [Worker -> Item \cup {None}]]
      /\ left' \in [Node -> [Worker -> SUBSET Node]]
      /\ \A x \in Node, v \in Worker : wpc'[x][v] # "idle" => item'[x][v] \in Item
  BY <1>1, <1>2, GoOnType
<1>4. next_seq' \in [Node -> SeqNum]
  BY Numbers DEF TypeOK, Bump
<1>5. wrapped' \subseteq Node
  BY DEF TypeOK, Bump
<1> QED
  BY <1>3, <1>4, <1>5 DEF TypeOK, Bump, outVars, inVars, Traffic

LEMMA ArrivesType ==
    ASSUME TypeOK, NEW d, NEW stays, Arrives(d, stays)
    PROVE  d \in Message /\ net' \subseteq net
BY DEF TypeOK, Arrives

LEMMA ReceiveReliableTypeOK ==
    ASSUME TypeOK, NEW n \in Node, NEW d \in net, NEW stays \in BOOLEAN,
           ReceiveReliable(n, d, stays)
    PROVE  TypeOK'
<1>1. d \in Message /\ net' \subseteq net /\ d.reliable
  BY ArrivesType DEF ReceiveReliable
<1>2. AckItem(d.src, d.seq) \in Item
  BY <1>1, MessageType DEF AckItem, Item
<1>3. "Control" \in Channel /\ High \in Priority
  BY Numbers DEF Channel
<1>4. queue' \in [Node -> [Channel -> [Priority -> Seq(Item)]]]
  BY <1>2, <1>3 DEF TypeOK, ReceiveReliable, Enqueue
<1>5. hand' \in [Node -> {x \in Message : x.reliable} \cup {None}]
  BY <1>1 DEF TypeOK, ReceiveReliable
<1> QED
  BY <1>1, <1>4, <1>5 DEF TypeOK, ReceiveReliable, workerVars, Traffic

\* The incoming queue counts the packet.
LEMMA DeliverType ==
    ASSUME TypeOK, NEW n \in Node, NEW p \in Packet, Deliver(n, p)
    PROVE  /\ delivered' \in [Node -> [Packet -> 0..MaxCopies]]
           /\ delivered'[n][p] > 0
           /\ delivered[n][p] = 0 => delivered'[n][p] = 1
           /\ \A m \in Node, x \in Packet : delivered[m][x] > 0 => delivered'[m][x] > 0
           /\ \A m \in Node, x \in Packet :
                  <<m, x>> # <<n, p>> => delivered'[m][x] = delivered[m][x]
BY Numbers DEF TypeOK, Deliver

LEMMA DeliverOnceTypeOK ==
    ASSUME TypeOK, NEW n \in Node, DeliverOnce(n)
    PROVE  TypeOK'
<1>1. hand[n] \in Message /\ hand[n].reliable
  BY DEF TypeOK, DeliverOnce
<1>2. hand[n].body \in Packet /\ hand[n].src \in Node /\ hand[n].seq \in SeqNum
  BY <1>1, MessageType
<1>3. delivered' \in [Node -> [Packet -> 0..MaxCopies]]
  BY <1>2, DeliverType DEF TypeOK, DeliverOnce
<1>4. seen' \in [Node -> [Node -> SUBSET SeqNum]]
  BY <1>2 DEF TypeOK, DeliverOnce
<1>5. hand' \in [Node -> {x \in Message : x.reliable} \cup {None}]
  BY DEF TypeOK, DeliverOnce
<1> QED
  BY <1>3, <1>4, <1>5 DEF TypeOK, DeliverOnce, outVars, workerVars, Traffic

LEMMA ReceiveUnreliableTypeOK ==
    ASSUME TypeOK, NEW n \in Node, NEW d \in net, NEW stays \in BOOLEAN,
           ReceiveUnreliable(n, d, stays)
    PROVE  TypeOK'
<1>1. d \in Message /\ net' \subseteq net /\ d.body \in Packet
  BY ArrivesType, MessageType DEF ReceiveUnreliable
<1>2. delivered' \in [Node -> [Packet -> 0..MaxCopies]]
  BY <1>1, DeliverType DEF ReceiveUnreliable
<1> QED
  BY <1>1, <1>2 DEF TypeOK, ReceiveUnreliable, outVars, workerVars, Traffic

LEMMA ReceiveAckTypeOK ==
    ASSUME TypeOK, NEW n \in Node, NEW d \in net, NEW stays \in BOOLEAN,
           ReceiveAck(n, d, stays)
    PROVE  TypeOK'
<1> DEFINE s == d.body
<1>1. net' \subseteq net
  BY ArrivesType DEF ReceiveAck
<1>2. CASE s \in DOMAIN receipts[n] /\ DestinationMatches(receipts[n][s], d.src)
  <2>1. receipts[n][s] \in Item /\ receipts[n][s].reliable /\ s \in SeqNum
    BY <1>2 DEF TypeOK
  <2>2. receipts[n][s].body \in Packet
    BY <2>1, ItemType
  <2>3. confirmed' \subseteq [from : Node, seq : SeqNum, body : Packet]
    BY <1>2, <2>1, <2>2 DEF TypeOK, ReceiveAck
  <2>4. /\ DOMAIN receipts' = Node
        /\ \A m \in Node : /\ DOMAIN receipts'[m] \subseteq DOMAIN receipts[m]
                           /\ \A k \in DOMAIN receipts'[m] : receipts'[m][k] = receipts[m][k]
    BY <1>2, WithoutType DEF ReceiveAck
  <2> QED
    BY <1>1, <2>3, <2>4 DEF TypeOK, ReceiveAck, outVars, workerVars, inVars, Traffic
<1>3. CASE ~(s \in DOMAIN receipts[n] /\ DestinationMatches(receipts[n][s], d.src))
  BY <1>1, <1>3 DEF TypeOK, ReceiveAck, outVars, workerVars, inVars, Traffic
<1> QED
  BY <1>2, <1>3

LEMMA LoseTypeOK ==
    ASSUME TypeOK, NEW d \in net, Lose(d)
    PROVE  TypeOK'
BY DEF TypeOK, Lose, outVars, workerVars, inVars, Traffic

LEMMA NextTypeOK == TypeOK /\ [Next]_vars => TypeOK'
<1> SUFFICES ASSUME TypeOK, [Next]_vars PROVE TypeOK'
  OBVIOUS
<1>1. ASSUME NEW n \in Node, NEW w \in Worker, WorkerStep(n, w) PROVE TypeOK'
  BY <1>1, TakeTypeOK, AddReceiptTypeOK, BumpTypeOK, TransmitTypeOK DEF WorkerStep
<1>2. ASSUME NEW n \in Node, NEW d \in net, NEW stays \in BOOLEAN, Receive(n, d, stays)
      PROVE  TypeOK'
  BY <1>2, ReceiveReliableTypeOK, ReceiveUnreliableTypeOK, ReceiveAckTypeOK DEF Receive
<1>3. CASE UNCHANGED vars
  BY <1>3 DEF TypeOK, vars, outVars, workerVars, inVars, Traffic
<1> QED
  BY <1>1, <1>2, <1>3, PushTypeOK, ProcessChannelTypeOK, ScanRetransmitTypeOK, ScanDropTypeOK,
     TransmitFailsTypeOK, DeliverOnceTypeOK, LoseTypeOK DEF Next

\* The type invariant, for any number of workers.
THEOREM ChannelTypeCorrect == Spec => []TypeOK
<1>1. Init => TypeOK
  BY InitTypeOK
<1>2. TypeOK /\ [Next]_vars => TypeOK'
  BY NextTypeOK
<1> QED
  BY <1>1, <1>2, PTL DEF Spec

-----------------------------------------------------------------------------
(* Numbering, with one worker.                                                *)

\* The dispatch executor has one thread (two break it: channel_two_workers).
OneWorker == \A v, w \in Worker : v = w

Numbering == /\ NumberNamesOnePacket /\ ReceiptUnderItsNumber
             /\ CounterIsAhead /\ SentUnderCounter

LEMMA InitNumbering == Init => Numbering
BY DEF Init, Numbering, NumberNamesOnePacket, ReceiptUnderItsNumber, CounterIsAhead,
       SentUnderCounter

\* The counter stays ahead while no worker that has sent goes back.
LEMMA CounterKept ==
    ASSUME TypeOK, CounterIsAhead, UNCHANGED <<stamped, next_seq, wrapped>>,
           \A n \in Node, w \in Worker :
               wpc[n][w] \in {"receipt", "bump"} => wpc'[n][w] \in {"receipt", "bump"}
    PROVE  CounterIsAhead'
<1> SUFFICES ASSUME NEW a \in stamped, a.from \notin wrapped
             PROVE  \/ a.seq < next_seq[a.from]
                    \/ /\ a.seq = next_seq[a.from]
                       /\ \E w \in Worker : wpc'[a.from][w] \in {"receipt", "bump"}
  BY DEF CounterIsAhead
<1>1. a.from \in Node
  BY DEF TypeOK
<1> QED
  BY <1>1 DEF CounterIsAhead

\* A step that numbers nothing and files no receipt.
LEMMA NumberingKept ==
    ASSUME Numbering, UNCHANGED <<stamped, next_seq, wrapped>>,
           \A n \in Node : /\ DOMAIN receipts'[n] \subseteq DOMAIN receipts[n]
                           /\ \A k \in DOMAIN receipts'[n] : receipts'[n][k] = receipts[n][k],
           \A n \in Node, w \in Worker :
               /\ wpc[n][w] \in {"receipt", "bump"} => wpc'[n][w] \in {"receipt", "bump"}
               /\ wpc'[n][w] = "receipt" => wpc[n][w] = "receipt" /\ item'[n][w] = item[n][w],
           TypeOK
    PROVE  Numbering'
<1>1. NumberNamesOnePacket' /\ ReceiptUnderItsNumber'
  BY DEF Numbering, NumberNamesOnePacket, ReceiptUnderItsNumber
<1>2. CounterIsAhead'
  BY CounterKept DEF Numbering
<1>3. SentUnderCounter'
  BY DEF Numbering, SentUnderCounter
<1> QED
  BY <1>1, <1>2, <1>3 DEF Numbering

\* The packet goes out under a number that nothing has yet: the only worker was
\* not between sending and counting.
LEMMA TransmitNumbering ==
    ASSUME OneWorker, TypeOK, Numbering, NEW n \in Node, NEW w \in Worker, NEW m \in Node,
           Transmit(n, w, m)
    PROVE  Numbering'
<1>1. wpc[n][w] = "send" /\ wpc'[n][w] = "receipt" /\ item' = item
  BY DEF Transmit, TypeOK
<1>2. \A x \in Node \ {n}, v \in Worker : wpc'[x][v] = wpc[x][v]
  BY DEF Transmit, TypeOK
<1>3. UNCHANGED <<next_seq, wrapped, receipts>>
  BY DEF Transmit
<1>4. next_seq[n] \in SeqNum /\ \A a \in stamped : a.seq \in SeqNum /\ a.from \in Node
  BY DEF TypeOK
<1>5. n \notin wrapped => \A a \in stamped : a.from = n => a.seq < next_seq[n]
  BY <1>1 DEF OneWorker, Numbering, CounterIsAhead
<1>6. n \notin wrapped => \A a \in stamped : a.from = n => a.seq # next_seq[n]
  BY <1>4, <1>5, Numbers DEF SeqNum
<1> DEFINE new == [from |-> n, seq |-> next_seq[n], body |-> item[n][w].body, to |-> m]
<1>7. stamped' = IF item[n][w].reliable THEN stamped \cup {new} ELSE stamped
  BY DEF Transmit
<1>8. new.from = n /\ new.seq = next_seq[n] /\ new.body = item[n][w].body
  OBVIOUS
<1> HIDE DEF new
<1>9. NumberNamesOnePacket'
  BY <1>3, <1>6, <1>7, <1>8 DEF Numbering, NumberNamesOnePacket
<1>10. ReceiptUnderItsNumber'
  BY <1>3, <1>7 DEF Numbering, ReceiptUnderItsNumber
<1>11. CounterIsAhead'
  <2> SUFFICES ASSUME NEW a \in stamped', a.from \notin wrapped
               PROVE  \/ a.seq < next_seq[a.from]
                      \/ /\ a.seq = next_seq[a.from]
                         /\ \E v \in Worker : wpc'[a.from][v] \in {"receipt", "bump"}
    BY <1>3 DEF CounterIsAhead
  <2>1. CASE a \in stamped /\ a.from = n
    BY <1>5, <2>1
  <2>2. CASE a \in stamped /\ a.from # n
    BY <1>2, <1>4, <2>2 DEF Numbering, CounterIsAhead
  <2>3. CASE a = new
    BY <1>1, <1>8, <2>3
  <2> QED
    BY <1>7, <2>1, <2>2, <2>3
<1>12. SentUnderCounter'
  <2> SUFFICES ASSUME NEW x \in Node \ wrapped, NEW v \in Worker, wpc'[x][v] = "receipt",
                      item[x][v].reliable
               PROVE  \E a \in stamped' : /\ a.from = x /\ a.seq = next_seq[x]
                                          /\ a.body = item[x][v].body
    BY <1>1, <1>3 DEF SentUnderCounter
  <2>1. CASE x = n
    BY <1>7, <1>8, <2>1 DEF OneWorker
  <2>2. CASE x # n
    BY <1>2, <1>7, <2>2 DEF Numbering, SentUnderCounter
  <2> QED
    BY <2>1, <2>2
<1> QED
  BY <1>9, <1>10, <1>11, <1>12 DEF Numbering

\* The receipt is filed under the counter, which the packet went out with.
LEMMA AddReceiptNumbering ==
    ASSUME TypeOK, Numbering, NEW n \in Node, NEW w \in Worker, AddReceiptIfNeeded(n, w)
    PROVE  Numbering'
<1>1. UNCHANGED <<next_seq, wrapped, stamped, item>> /\ wpc[n][w] = "receipt"
  BY DEF AddReceiptIfNeeded
<1>2. \A x \in Node, v \in Worker :
         /\ wpc[x][v] \in {"receipt", "bump"} => wpc'[x][v] \in {"receipt", "bump"}
         /\ wpc'[x][v] = "receipt" => wpc[x][v] = "receipt"
  BY DEF TypeOK, AddReceiptIfNeeded
<1>3. NumberNamesOnePacket' /\ SentUnderCounter'
  BY <1>1, <1>2 DEF Numbering, NumberNamesOnePacket, SentUnderCounter
<1>4. CounterIsAhead'
  BY <1>1, <1>2, CounterKept DEF Numbering
<1>5. ReceiptUnderItsNumber'
  <2> SUFFICES ASSUME NEW x \in Node \ wrapped, NEW s \in DOMAIN receipts'[x]
               PROVE  \E a \in stamped : /\ a.from = x /\ a.seq = s
                                         /\ a.body = receipts'[x][s].body
    BY <1>1 DEF ReceiptUnderItsNumber
  <2>1. CASE s \in DOMAIN receipts[x]
    <3>1. receipts'[x][s] = receipts[x][s]
      BY <2>1 DEF TypeOK, AddReceiptIfNeeded
    <3> QED
      BY <2>1, <3>1 DEF Numbering, ReceiptUnderItsNumber
  <2>2. CASE s \notin DOMAIN receipts[x]
    <3>1. x = n /\ s = next_seq[n] /\ item[n][w].reliable /\ receipts'[x][s] = item[n][w]
      BY <2>2 DEF TypeOK, AddReceiptIfNeeded
    <3> QED
      BY <1>1, <3>1 DEF Numbering, SentUnderCounter
  <2> QED
    BY <2>1, <2>2
<1> QED
  BY <1>3, <1>4, <1>5 DEF Numbering

\* The counter passes the number that is out, or wraps.
LEMMA BumpNumbering ==
    ASSUME OneWorker, TypeOK, Numbering, NEW n \in Node, NEW w \in Worker, Bump(n, w)
    PROVE  Numbering'
<1>1. UNCHANGED <<stamped, receipts>> /\ wrapped \subseteq wrapped'
  BY DEF Bump
<1>2. /\ \A x \in Node \ {n} : next_seq'[x] = next_seq[x]
      /\ next_seq'[n] = (next_seq[n] + 1) % SeqMod /\ next_seq[n] \in SeqNum
  BY DEF Bump, TypeOK
<1>3. n \notin wrapped' => next_seq'[n] = next_seq[n] + 1
  BY <1>2, Numbers DEF Bump
<1>4. /\ \A x \in Node \ {n}, v \in Worker : wpc'[x][v] = wpc[x][v] /\ item'[x][v] = item[x][v]
      /\ wpc'[n][w] \in {"idle", "send"}
  BY DEF Bump, GoOn, TypeOK
<1>5. NumberNamesOnePacket' /\ ReceiptUnderItsNumber'
  BY <1>1 DEF Numbering, NumberNamesOnePacket, ReceiptUnderItsNumber
<1>6. CounterIsAhead'
  <2> SUFFICES ASSUME NEW a \in stamped, a.from \notin wrapped'
               PROVE  \/ a.seq < next_seq'[a.from]
                      \/ /\ a.seq = next_seq'[a.from]
                         /\ \E v \in Worker : wpc'[a.from][v] \in {"receipt", "bump"}
    BY <1>1 DEF CounterIsAhead
  <2>1. a.from \in Node /\ a.seq \in SeqNum
    BY DEF TypeOK
  <2>2. CASE a.from = n
    <3>1. a.seq <= next_seq[n]
      BY <1>1, <1>2, <2>1, <2>2, Numbers DEF Numbering, CounterIsAhead, SeqNum
    <3> QED
      BY <1>2, <1>3, <2>1, <2>2, <3>1, Numbers DEF SeqNum
  <2>3. CASE a.from # n
    BY <1>1, <1>2, <1>4, <2>1, <2>3 DEF Numbering, CounterIsAhead
  <2> QED
    BY <2>2, <2>3
<1>7. SentUnderCounter'
  <2> SUFFICES ASSUME NEW x \in Node \ wrapped', NEW v \in Worker, wpc'[x][v] = "receipt",
                      item'[x][v].reliable
               PROVE  \E a \in stamped : /\ a.from = x /\ a.seq = next_seq'[x]
                                         /\ a.body = item'[x][v].body
    BY <1>1 DEF SentUnderCounter
  <2>1. x # n
    BY <1>4 DEF OneWorker
  <2> QED
    BY <1>1, <1>2, <1>4, <2>1 DEF Numbering, SentUnderCounter
<1> QED
  BY <1>5, <1>6, <1>7 DEF Numbering

\* The steps that number nothing: they move packets, datagrams and workers.
LEMMA OtherNumbering ==
    ASSUME TypeOK, Numbering, NEW n \in Node,
           \/ \E p \in Packet : Push(p)
           \/ \E c \in Channel : ProcessChannel(n, c)
           \/ \E s \in SeqNum : ScanRetransmit(n, s)
           \/ \E d \in net, stays \in BOOLEAN :
                  ReceiveReliable(n, d, stays) \/ ReceiveUnreliable(n, d, stays)
           \/ DeliverOnce(n)
           \/ \E d \in net : Lose(d)
    PROVE  Numbering'
<1>1. UNCHANGED <<stamped, next_seq, wrapped, receipts, wpc, item>>
  BY DEF Push, ProcessChannel, ScanRetransmit, ReceiveReliable, ReceiveUnreliable, DeliverOnce,
         Lose, outVars, workerVars, inVars
<1> QED
  BY <1>1, NumberingKept

LEMMA DropNumbering ==
    ASSUME TypeOK, Numbering, NEW n \in Node, NEW s \in SeqNum, ScanDrop(n, s)
    PROVE  Numbering'
<1>1. UNCHANGED <<stamped, next_seq, wrapped, wpc, item>>
  BY DEF ScanDrop, workerVars
<1>2. \A m \in Node : /\ DOMAIN receipts'[m] \subseteq DOMAIN receipts[m]
                      /\ \A k \in DOMAIN receipts'[m] : receipts'[m][k] = receipts[m][k]
  BY WithoutType DEF ScanDrop
<1> QED
  BY <1>1, <1>2, NumberingKept

LEMMA AckNumbering ==
    ASSUME TypeOK, Numbering, NEW n \in Node, NEW d \in net, NEW stays \in BOOLEAN,
           ReceiveAck(n, d, stays)
    PROVE  Numbering'
<1>1. UNCHANGED <<stamped, next_seq, wrapped, wpc, item>>
  BY DEF ReceiveAck, workerVars
<1>2. \A m \in Node : /\ DOMAIN receipts'[m] \subseteq DOMAIN receipts[m]
                      /\ \A k \in DOMAIN receipts'[m] : receipts'[m][k] = receipts[m][k]
  BY WithoutType DEF ReceiveAck
<1> QED
  BY <1>1, <1>2, NumberingKept

\* A worker that takes a packet or fails to send one has nothing out.
LEMMA GoOnNumbering ==
    ASSUME TypeOK, Numbering, NEW n \in Node, NEW w \in Worker,
           Take(n, w) \/ \E m \in Node : TransmitFails(n, w, m)
    PROVE  Numbering'
<1>1. UNCHANGED <<stamped, next_seq, wrapped, receipts>>
  BY DEF Take, TransmitFails
<1>2. PICK it, ms : GoOn(n, w, it, ms)
  BY DEF Take, TransmitFails
<1>3. wpc[n][w] \in {"idle", "send"} /\ wpc'[n][w] \in {"idle", "send"}
  <2>1. wpc[n][w] \in {"idle", "send"}
    BY DEF Take, TransmitFails
  <2>2. wpc'[n][w] \in {"idle", "send"}
    BY <1>2 DEF GoOn, TypeOK
  <2> QED
    BY <2>1, <2>2
<1>4. ASSUME NEW x \in Node, NEW v \in Worker, x # n \/ v # w
      PROVE  wpc'[x][v] = wpc[x][v] /\ item'[x][v] = item[x][v]
  BY <1>2, <1>4 DEF GoOn, TypeOK
<1>5. \A x \in Node, v \in Worker :
         /\ wpc[x][v] \in {"receipt", "bump"} => wpc'[x][v] \in {"receipt", "bump"}
         /\ wpc'[x][v] = "receipt" => wpc[x][v] = "receipt" /\ item'[x][v] = item[x][v]
  BY <1>3, <1>4
<1> QED
  BY <1>1, <1>5, NumberingKept

LEMMA NextNumbering ==
    ASSUME OneWorker
    PROVE  TypeOK /\ Numbering /\ [Next]_vars => Numbering'
<1> SUFFICES ASSUME TypeOK, Numbering, [Next]_vars PROVE Numbering'
  OBVIOUS
<1>1. ASSUME NEW n \in Node, NEW w \in Worker, WorkerStep(n, w) PROVE Numbering'
  BY <1>1, GoOnNumbering, AddReceiptNumbering, BumpNumbering, TransmitNumbering DEF WorkerStep
<1>2. ASSUME NEW n \in Node, NEW d \in net, NEW stays \in BOOLEAN, Receive(n, d, stays)
      PROVE  Numbering'
  BY <1>2, OtherNumbering, AckNumbering DEF Receive
<1>3. CASE UNCHANGED vars
  <2>1. UNCHANGED <<stamped, next_seq, wrapped, receipts, wpc, item>>
    BY <1>3 DEF vars, workerVars
  <2> QED
    BY <2>1, NumberingKept
<1>4. Server \in Node
  BY NodeAssumption
<1> QED
  BY <1>1, <1>2, <1>3, <1>4, OtherNumbering, DropNumbering, GoOnNumbering DEF Next

\* With one dispatch worker, whatever the network does: as long as the counter of
\* an endpoint has not wrapped, DispatchToOne gives every packet to every peer a
\* number of its own and files the receipt under it.
THEOREM ChannelNumbering ==
    ASSUME OneWorker
    PROVE  Spec => []NumberingInv
<1>1. Init => TypeOK /\ Numbering
  BY InitTypeOK, InitNumbering
<1>2. TypeOK /\ [Next]_vars => TypeOK'
  BY NextTypeOK
<1>3. TypeOK /\ Numbering /\ [Next]_vars => Numbering'
  BY NextNumbering
<1>4. TypeOK /\ Numbering => NumberingInv
  BY DEF Numbering, NumberingInv
<1> QED
  BY <1>1, <1>2, <1>3, <1>4, PTL DEF Spec

-----------------------------------------------------------------------------
(* Delivery, with one worker and every reliable packet for one peer.          *)

\* No reliable packet goes to ToAll: the copies of such a packet share receipts
\* (see the README).
ReliableIsUnicast ==
    \A s \in Scenario : \A p \in DOMAIN s.traffic :
        s.traffic[p].reliable => s.traffic[p].to # ToAll

\* Where an endpoint keeps a packet.
InSeq(s, it) == \E i \in 1..Len(s) : s[i] = it
InQueue(n, it) == \E c \in Channel, q \in Priority : InSeq(queue[n][c][q], it)
InPool(n, it) == InSeq(pool[n], it)
Busy(n, w, it) == wpc[n][w] # "idle" /\ item[n][w] = it
Filed(n, it) == \E s \in DOMAIN receipts[n] : receipts[n][s] = it
Has(n, it) == InQueue(n, it) \/ InPool(n, it) \/ (\E w \in Worker : Busy(n, w, it))
                \/ Filed(n, it)

\* n has the packet that m numbered s: counted, or in the incoming thread's hand.
Heard(n, m, s) ==
    \E a \in stamped : /\ a.from = m /\ a.seq = s /\ a.to = n
                       /\ delivered[n][a.body] > 0 \/ InHand(n, m, s)

\* An endpoint has packets that its application pushed, and acknowledgements of
\* what it has heard.
Good(n, it) ==
    /\ it.type = "Data" => /\ it.body \in pushed /\ it = AppItem(it.body)
                           /\ Traffic[it.body].from = n
    /\ it.type = "Acknowledgement" /\ it.to \notin wrapped => Heard(n, it.to, it.body)
ItemsAreGood == \A n \in Node, it \in Item : Has(n, it) => Good(n, it)
LeftAreTargets ==
    \A n \in Node, w \in Worker :
        wpc[n][w] # "idle" => left[n][w] \subseteq Targets(n, item[n][w].to)

\* A packet waits in the queue it was pushed to, once, and is then with the
\* executor, and then with a worker; it has no number before that, and none for a
\* peer that is left to serve.
Once(s) == \A i, j \in 1..Len(s) : s[i].type = "Data" /\ s[i] = s[j] => i = j
Unstamped(p) == \A a \in stamped : a.body # p
InOneQueue ==
    \A n \in Node, c \in Channel, q \in Priority :
        /\ Once(queue[n][c][q])
        /\ \A it \in Item : it.type = "Data" /\ InSeq(queue[n][c][q], it) =>
              c = Traffic[it.body].channel /\ q = Traffic[it.body].priority
InOnePlace ==
    \A n \in Node, it \in Item : it.type = "Data" =>
        /\ InQueue(n, it) => /\ ~InPool(n, it) /\ Unstamped(it.body)
                             /\ \A w \in Worker : ~Busy(n, w, it)
        /\ InPool(n, it) => Unstamped(it.body) /\ \A w \in Worker : ~Busy(n, w, it)
        /\ \A w \in Worker : Busy(n, w, it) =>
              \A a \in stamped : a.body = it.body => a.to \notin left[n][w]
PlaceInv == InOneQueue /\ (\A n \in Node : Once(pool[n])) /\ InOnePlace

\* A number is given to a reliable packet for the peer that it goes to, once.
StampsAreGood ==
    /\ \A a \in stamped :
          /\ a.body \in pushed /\ Traffic[a.body].reliable
          /\ Traffic[a.body].from = a.from
          /\ a.to \in Targets(a.from, Traffic[a.body].to)
    /\ \A a, b \in stamped : a.body = b.body => a = b

\* A datagram is a packet that was pushed, with a number it was given, or the
\* acknowledgement of what its source has heard.
Genuine(d) ==
    /\ d.type = "Data" =>
          /\ d.body \in pushed /\ Traffic[d.body].from = d.src
          /\ d.reliable = Traffic[d.body].reliable
          /\ d.reliable /\ d.src \notin wrapped =>
                \E a \in stamped : /\ a.from = d.src /\ a.seq = d.seq
                                   /\ a.body = d.body /\ a.to = d.dst
    /\ d.type = "Acknowledgement" /\ d.dst \notin wrapped => Heard(d.src, d.dst, d.body)
DatagramsAreGenuine ==
    /\ \A d \in net : Genuine(d)
    /\ \A n \in Node, d \in Message : hand[n] # None /\ d = hand[n] => Genuine(d) /\ d.dst = n

\* What was delivered has been seen, and what was seen was delivered.
SeenIsDelivered ==
    /\ \A n \in Node, p \in DOMAIN Traffic :
          /\ Traffic[p].reliable /\ Traffic[p].from \notin wrapped /\ delivered[n][p] > 0
          => /\ delivered[n][p] = 1
             /\ \E a \in stamped : /\ a.body = p /\ a.to = n
                                   /\ a.seq \in seen[n][a.from]
    /\ \A n \in Node, m \in Node \ wrapped : \A s \in seen[n][m] :
          \E a \in stamped : /\ a.from = m /\ a.seq = s /\ a.to = n
                             /\ delivered[n][a.body] > 0

\* A receipt that was removed belonged to a number that some peer has heard.
ConfirmedIsHeard ==
    \A c \in confirmed : c.from \notin wrapped => \E m \in Node : Heard(m, c.from, c.seq)

DeliveryInv ==
    /\ ItemsAreGood /\ LeftAreTargets /\ PlaceInv /\ StampsAreGood
    /\ DatagramsAreGenuine /\ SeenIsDelivered /\ ConfirmedIsHeard

-----------------------------------------------------------------------------
(* Facts about queues and destinations.                                       *)

LEMMA InAppend ==
    ASSUME NEW S, NEW s \in Seq(S), NEW e \in S, NEW x
    PROVE  InSeq(Append(s, e), x) <=> InSeq(s, x) \/ x = e
<1>1. /\ Len(Append(s, e)) = Len(s) + 1 /\ Append(s, e)[Len(s) + 1] = e /\ Len(s) \in Nat
      /\ \A i \in 1..Len(s) : Append(s, e)[i] = s[i]
  OBVIOUS
<1>2. \A i \in 1..(Len(s) + 1) : i \in 1..Len(s) \/ i = Len(s) + 1
  BY <1>1
<1>3. (\A i \in 1..Len(s) : i \in 1..(Len(s) + 1)) /\ Len(s) + 1 \in 1..(Len(s) + 1)
  BY <1>1
<1> QED
  BY <1>1, <1>2, <1>3, Zenon DEF InSeq

LEMMA InTail ==
    ASSUME NEW S, NEW s \in Seq(S), s # <<>>, NEW x
    PROVE  /\ InSeq(s, Head(s)) /\ (InSeq(Tail(s), x) => InSeq(s, x))
           /\ Once(s) => Once(Tail(s)) /\ (Head(s).type = "Data" => ~InSeq(Tail(s), Head(s)))
<1>1. /\ Len(s) \in Nat \ {0} /\ Len(Tail(s)) = Len(s) - 1 /\ Head(s) = s[1]
      /\ \A i \in 1..Len(Tail(s)) : Tail(s)[i] = s[i + 1]
  OBVIOUS
<1>2. 1 \in 1..Len(s) /\ \A i \in 1..Len(Tail(s)) : i + 1 \in 1..Len(s) /\ i + 1 # 1
  BY <1>1
<1>3. InSeq(s, Head(s)) /\ (InSeq(Tail(s), x) => InSeq(s, x))
  BY <1>1, <1>2 DEF InSeq
<1>4. ASSUME Once(s) PROVE Once(Tail(s))
  BY <1>1, <1>2, <1>4 DEF Once
<1>5. ASSUME Once(s), Head(s).type = "Data", InSeq(Tail(s), Head(s)) PROVE FALSE
  <2>1. PICK i \in 1..Len(Tail(s)) : Tail(s)[i] = Head(s)
    BY <1>5 DEF InSeq
  <2> QED
    BY <1>1, <1>2, <1>5, <2>1 DEF Once
<1> QED
  BY <1>3, <1>4, <1>5

LEMMA OnceAppend ==
    ASSUME NEW S, NEW s \in Seq(S), NEW e \in S, Once(s),
           e.type = "Data" => ~InSeq(s, e)
    PROVE  Once(Append(s, e))
<1>1. /\ Len(Append(s, e)) = Len(s) + 1 /\ Append(s, e)[Len(s) + 1] = e /\ Len(s) \in Nat
      /\ \A i \in 1..Len(s) : Append(s, e)[i] = s[i]
  OBVIOUS
<1>2. \A i \in 1..(Len(s) + 1) : i \in 1..Len(s) \/ i = Len(s) + 1
  BY <1>1
<1> SUFFICES ASSUME NEW i \in 1..(Len(s) + 1), NEW j \in 1..(Len(s) + 1),
                    Append(s, e)[i].type = "Data", Append(s, e)[i] = Append(s, e)[j]
             PROVE  i = j
  BY <1>1 DEF Once
<1>3. CASE i \in 1..Len(s) /\ j \in 1..Len(s)
  BY <1>1, <1>3 DEF Once
<1>4. CASE ~(i \in 1..Len(s) /\ j \in 1..Len(s))
  BY <1>1, <1>2, <1>4 DEF InSeq
<1> QED
  BY <1>3, <1>4

\* A reliable packet has one destination.
LEMMA OneTarget ==
    ASSUME ReliableIsUnicast, scenario \in Scenario, NEW p \in DOMAIN Traffic,
           Traffic[p].reliable, NEW n \in Node,
           NEW x \in Targets(n, Traffic[p].to), NEW y \in Targets(n, Traffic[p].to)
    PROVE  x = y
<1>1. Traffic[p].to # ToAll
  BY DEF ReliableIsUnicast, Traffic
<1> QED
  BY <1>1 DEF Targets

-----------------------------------------------------------------------------
(* Steps go forward: nothing that was pushed, numbered or delivered is taken  *)
(* back, and what is in hand is delivered.                                    *)

Progress ==
    /\ UNCHANGED scenario /\ pushed \subseteq pushed' /\ stamped \subseteq stamped'
    /\ wrapped \subseteq wrapped'
    /\ \A n \in Node, p \in Packet : delivered[n][p] > 0 => delivered'[n][p] > 0
    /\ \A a \in stamped :
          a.from \notin wrapped /\ InHand(a.to, a.from, a.seq) =>
              delivered'[a.to][a.body] > 0 \/ InHand(a.to, a.from, a.seq)'

LEMMA HeardKept ==
    ASSUME TypeOK, Progress, NEW n, NEW m, NEW s, m \notin wrapped, Heard(n, m, s)
    PROVE  Heard(n, m, s)'
<1>1. PICK a \in stamped : /\ a.from = m /\ a.seq = s /\ a.to = n
                           /\ delivered[n][a.body] > 0 \/ InHand(n, m, s)
  BY DEF Heard
<1>2. a \in stamped' /\ a.body \in Packet /\ a.to \in Node
  BY DEF TypeOK, Progress
<1>3. delivered'[n][a.body] > 0 \/ InHand(n, m, s)'
  BY <1>1, <1>2 DEF Progress
<1> QED
  BY <1>1, <1>2, <1>3 DEF Heard

LEMMA GoodKept ==
    ASSUME TypeOK, Progress, NEW n, NEW it, Good(n, it)
    PROVE  Good(n, it)'
<1>1. it.type = "Acknowledgement" /\ it.to \notin wrapped' => Heard(n, it.to, it.body)'
  BY HeardKept DEF Good, Progress
<1>2. it.type = "Data" => (/\ it.body \in pushed /\ it = AppItem(it.body)
                           /\ Traffic[it.body].from = n)'
  BY DEF Good, Progress, AppItem, Traffic
<1> QED
  BY <1>1, <1>2 DEF Good

LEMMA GenuineKept ==
    ASSUME TypeOK, Progress, NEW d, Genuine(d)
    PROVE  Genuine(d)'
<1>1. d.type = "Acknowledgement" /\ d.dst \notin wrapped' => Heard(d.src, d.dst, d.body)'
  BY HeardKept DEF Genuine, Progress
<1>2. d.type = "Data" =>
          (/\ d.body \in pushed /\ Traffic[d.body].from = d.src
           /\ d.reliable = Traffic[d.body].reliable)'
  BY DEF Genuine, Progress, Traffic
<1>3. d.type = "Data" /\ d.reliable /\ d.src \notin wrapped' =>
          \E a \in stamped' : /\ a.from = d.src /\ a.seq = d.seq
                              /\ a.body = d.body /\ a.to = d.dst
  BY DEF Genuine, Progress
<1> QED
  BY <1>1, <1>2, <1>3 DEF Genuine

LEMMA ItemsKept ==
    ASSUME TypeOK, Progress, ItemsAreGood,
           \A n \in Node, it \in Item : Has(n, it)' => Has(n, it) \/ Good(n, it)'
    PROVE  ItemsAreGood'
<1> SUFFICES ASSUME NEW n \in Node, NEW it \in Item, Has(n, it)' PROVE Good(n, it)'
  BY DEF ItemsAreGood
<1>1. CASE Has(n, it)
  BY <1>1, GoodKept DEF ItemsAreGood
<1> QED
  BY <1>1

LEMMA DatagramsKept ==
    ASSUME TypeOK, Progress, DatagramsAreGenuine,
           \A d \in net' : d \in net \/ Genuine(d)', 
           \A n \in Node : hand'[n] # None => hand'[n] = hand[n]
    PROVE  DatagramsAreGenuine'
<1>1. ASSUME NEW d \in net' PROVE Genuine(d)'
  BY <1>1, GenuineKept DEF DatagramsAreGenuine
<1>2. ASSUME NEW n \in Node, NEW d \in Message, hand'[n] # None, d = hand'[n]
      PROVE  Genuine(d)' /\ d.dst = n
  <2>1. Genuine(d) /\ d.dst = n
    BY <1>2 DEF DatagramsAreGenuine
  <2> QED
    BY <2>1, GenuineKept
<1> QED
  BY <1>1, <1>2 DEF DatagramsAreGenuine

LEMMA PlaceKept ==
    ASSUME TypeOK, DeliveryInv, UNCHANGED <<queue, pool, item, stamped, scenario>>,
           \A n \in Node, w \in Worker :
               /\ wpc'[n][w] # "idle" => wpc[n][w] # "idle"
               /\ left'[n][w] \subseteq left[n][w]
    PROVE  PlaceInv'
<1>1. InOneQueue' /\ \A n \in Node : Once(pool'[n])
  BY DEF DeliveryInv, PlaceInv, InOneQueue, Traffic
<1>2. \A n \in Node, it \in Item, w \in Worker : Busy(n, w, it)' => Busy(n, w, it)
  BY DEF Busy
<1>3. \A n \in Node, it \in Item : /\ InQueue(n, it)' <=> InQueue(n, it)
                                   /\ InPool(n, it)' <=> InPool(n, it)
                                   /\ Unstamped(it.body)' <=> Unstamped(it.body)
  BY DEF InQueue, InPool, Unstamped
<1>4. InOnePlace'
  BY <1>2, <1>3 DEF DeliveryInv, PlaceInv, InOnePlace
<1> QED
  BY <1>1, <1>4 DEF PlaceInv

LEMMA StampsKept ==
    ASSUME DeliveryInv, Progress, UNCHANGED stamped
    PROVE  StampsAreGood'
BY DEF DeliveryInv, StampsAreGood, Progress, Traffic, Targets, Peers

LEMMA SeenKept ==
    ASSUME TypeOK, DeliveryInv, Progress, UNCHANGED <<delivered, seen>>
    PROVE  SeenIsDelivered'
<1>1. ASSUME NEW n \in Node, NEW p \in DOMAIN Traffic,
             Traffic[p].reliable, Traffic[p].from \notin wrapped', delivered'[n][p] > 0
      PROVE  /\ delivered'[n][p] = 1
             /\ \E a \in stamped' : a.body = p /\ a.to = n /\ a.seq \in seen'[n][a.from]
  BY <1>1 DEF DeliveryInv, SeenIsDelivered, Progress
<1>2. ASSUME NEW n \in Node, NEW m \in Node \ wrapped', NEW s \in seen'[n][m]
      PROVE  \E a \in stamped' : /\ a.from = m /\ a.seq = s /\ a.to = n
                                 /\ delivered'[n][a.body] > 0
  BY <1>2 DEF DeliveryInv, SeenIsDelivered, Progress
<1>3. Traffic' = Traffic
  BY DEF Progress, Traffic
<1> QED
  BY <1>1, <1>2, <1>3 DEF SeenIsDelivered

LEMMA ConfirmedKept ==
    ASSUME TypeOK, DeliveryInv, Progress, UNCHANGED confirmed
    PROVE  ConfirmedIsHeard'
<1> SUFFICES ASSUME NEW c \in confirmed, c.from \notin wrapped'
             PROVE  \E m \in Node : Heard(m, c.from, c.seq)'
  BY DEF ConfirmedIsHeard
<1>1. c.from \notin wrapped
  BY DEF Progress
<1>2. PICK m \in Node : Heard(m, c.from, c.seq)
  BY <1>1 DEF DeliveryInv, ConfirmedIsHeard
<1>3. Heard(m, c.from, c.seq)'
  BY <1>1, <1>2, HeardKept
<1> QED
  BY <1>3

LEMMA LeftKept ==
    ASSUME DeliveryInv,
           \A n \in Node, w \in Worker :
               wpc'[n][w] # "idle" => /\ wpc[n][w] # "idle" /\ item'[n][w] = item[n][w]
                                      /\ left'[n][w] \subseteq left[n][w]
    PROVE  LeftAreTargets'
BY DEF DeliveryInv, LeftAreTargets, Targets, Peers

\* A step that does not touch the incoming thread's variables goes forward.
LEMMA ProgressOut ==
    ASSUME TypeOK, UNCHANGED <<scenario, delivered, hand>>, pushed \subseteq pushed',
           stamped \subseteq stamped', wrapped \subseteq wrapped'
    PROVE  Progress
BY DEF Progress, InHand

-----------------------------------------------------------------------------
(* The application and the outgoing thread.                                   *)

\* A new packet is in no other place and has no number.
LEMMA PushDelivery ==
    ASSUME TypeOK, DeliveryInv, NEW p \in Packet, Push(p)
    PROVE  DeliveryInv'
<1> DEFINE it == AppItem(p)
           n == Traffic[p].from
           c == Traffic[p].channel
           q == Traffic[p].priority
<1>1. p \in DOMAIN Traffic /\ p \notin pushed /\ pushed' = pushed \cup {p}
  BY DEF Push
<1>2. /\ it \in Item /\ it.type = "Data" /\ it.body = p
      /\ n \in Node /\ c \in Channel /\ q \in Priority
  BY <1>1, AppItemType, TrafficType DEF TypeOK, AppItem
<1>3. queue' = [queue EXCEPT ![n][c][q] = Append(@, it)]
  BY DEF Push, Enqueue
<1>4. UNCHANGED <<pool, wpc, item, left, hand, seen, delivered, next_seq, receipts, net,
                  stamped, confirmed, wrapped, scenario>>
  BY DEF Push, workerVars, inVars
<1>5. Progress
  BY <1>1, <1>4, ProgressOut
<1>6. \A x \in Node, d \in Channel, r \in Priority :
         queue'[x][d][r] = IF x = n /\ d = c /\ r = q THEN Append(queue[n][c][q], it)
                           ELSE queue[x][d][r]
  <2>1. queue \in [Node -> [Channel -> [Priority -> Seq(Item)]]]
    BY DEF TypeOK
  <2> HIDE DEF n, c, q, it
  <2> QED
    BY ONLY <1>2, <1>3, <2>1
<1>7. queue[n][c][q] \in Seq(Item)
  BY <1>2 DEF TypeOK
<1>8. \A x \in Node, e \in Item : InQueue(x, e)' => InQueue(x, e) \/ (x = n /\ e = it)
  BY <1>2, <1>6, <1>7, InAppend DEF InQueue
<1>9. ~Has(n, it) /\ Unstamped(p)
  BY <1>1, <1>2 DEF DeliveryInv, ItemsAreGood, Good, StampsAreGood, Unstamped
<1>10. \A x \in Node, e \in Item : x = n /\ e = it => Good(x, e)'
  BY <1>1, <1>2, <1>4 DEF Good, AppItem, Traffic
<1>11. \A x \in Node, e \in Item : /\ InPool(x, e)' <=> InPool(x, e)
                                   /\ \A w \in Worker : Busy(x, w, e)' <=> Busy(x, w, e)
                                   /\ Filed(x, e)' <=> Filed(x, e)
                                   /\ Unstamped(e.body)' <=> Unstamped(e.body)
  BY <1>4 DEF InPool, Busy, Filed, Unstamped
<1>12. ItemsAreGood'
  <2>1. \A x \in Node, e \in Item : Has(x, e)' => Has(x, e) \/ Good(x, e)'
    BY <1>8, <1>10, <1>11 DEF Has
  <2> QED
    BY <1>5, <2>1, ItemsKept DEF DeliveryInv
<1>13. LeftAreTargets'
  BY <1>4, LeftKept
<1>14. PlaceInv'
  <2>1. InOneQueue'
    <3> SUFFICES ASSUME NEW x \in Node, NEW d \in Channel, NEW r \in Priority
                 PROVE  /\ Once(queue'[x][d][r])
                        /\ \A e \in Item : e.type = "Data" /\ InSeq(queue'[x][d][r], e) =>
                              d = Traffic[e.body].channel /\ r = Traffic[e.body].priority
      BY <1>4 DEF InOneQueue, Traffic
    <3>1. CASE ~(x = n /\ d = c /\ r = q)
      BY <1>6, <3>1 DEF DeliveryInv, PlaceInv, InOneQueue
    <3>2. CASE x = n /\ d = c /\ r = q
      <4>1. ~InSeq(queue[n][c][q], it) /\ Once(queue[n][c][q])
        BY <1>2, <1>9 DEF Has, InQueue, DeliveryInv, PlaceInv, InOneQueue
      <4>2. Once(Append(queue[n][c][q], it))
        BY <1>2, <1>7, <4>1, OnceAppend
      <4>3. \A e : InSeq(Append(queue[n][c][q], it), e) <=> InSeq(queue[n][c][q], e) \/ e = it
        BY <1>2, <1>7, InAppend
      <4>4. \A e \in Item : e.type = "Data" /\ InSeq(queue'[n][c][q], e) =>
                              c = Traffic[e.body].channel /\ q = Traffic[e.body].priority
        <5>1. \A e \in Item : e.type = "Data" /\ InSeq(queue[n][c][q], e) =>
                              c = Traffic[e.body].channel /\ q = Traffic[e.body].priority
          BY <1>2 DEF DeliveryInv, PlaceInv, InOneQueue
        <5>2. queue'[n][c][q] = Append(queue[n][c][q], it)
          BY <1>2, <1>6
        <5>3. c = Traffic[it.body].channel /\ q = Traffic[it.body].priority
          BY <1>2
        <5> HIDE DEF n, c, q, it
        <5> QED
          BY ONLY <4>3, <5>1, <5>2, <5>3
      <4> QED
        BY <1>2, <1>6, <3>2, <4>2, <4>4
    <3> QED
      BY <3>1, <3>2
  <2>2. \A x \in Node : Once(pool'[x])
    BY <1>4 DEF DeliveryInv, PlaceInv
  <2>3. InOnePlace'
    BY <1>4, <1>8, <1>9, <1>11, <1>2 DEF DeliveryInv, PlaceInv, InOnePlace, Has
  <2> QED
    BY <2>1, <2>2, <2>3 DEF PlaceInv
<1>15. StampsAreGood' /\ SeenIsDelivered' /\ ConfirmedIsHeard'
  BY <1>4, <1>5, StampsKept, SeenKept, ConfirmedKept
<1>16. DatagramsAreGenuine'
  BY <1>4, <1>5, DatagramsKept DEF DeliveryInv
<1> QED
  BY <1>12, <1>13, <1>14, <1>15, <1>16 DEF DeliveryInv

\* The packet leaves the one queue it was in for the executor.
LEMMA ProcessChannelDelivery ==
    ASSUME TypeOK, DeliveryInv, NEW n \in Node, NEW c \in Channel, ProcessChannel(n, c)
    PROVE  DeliveryInv'
<1>1. PICK q \in Backlogged(n, c) :
         /\ pool' = [pool EXCEPT ![n] = Append(@, Head(queue[n][c][q]))]
         /\ queue' = [queue EXCEPT ![n][c][q] = Tail(@)]
  BY DEF ProcessChannel
<1>2. PICK it : it = Head(queue[n][c][q])
  OBVIOUS
<1>3. q \in Priority /\ queue[n][c][q] \in Seq(Item) /\ queue[n][c][q] # <<>>
  BY DEF TypeOK, Backlogged
<1>4. it \in Item /\ InSeq(queue[n][c][q], it) /\ pool[n] \in Seq(Item)
  BY <1>2, <1>3, HeadTail, InTail DEF TypeOK
<1>5. UNCHANGED <<wpc, item, left, hand, seen, delivered, next_seq, receipts, net, pushed,
                  stamped, confirmed, wrapped, scenario>>
  BY DEF ProcessChannel, workerVars, inVars
<1>6. Progress
  BY <1>5, ProgressOut
<1>7. \A x \in Node, d \in Channel, r \in Priority :
         queue'[x][d][r] = IF x = n /\ d = c /\ r = q THEN Tail(queue[n][c][q])
                           ELSE queue[x][d][r]
  BY <1>1, <1>3 DEF TypeOK
<1>8. \A x \in Node : pool'[x] = IF x = n THEN Append(pool[n], it) ELSE pool[x]
  BY <1>1, <1>2 DEF TypeOK
<1>9. \A e : InSeq(Tail(queue[n][c][q]), e) => InSeq(queue[n][c][q], e)
  BY <1>3, InTail
<1>10. \A x \in Node, e \in Item : InQueue(x, e)' => InQueue(x, e)
  BY <1>3, <1>7, <1>9 DEF InQueue
<1>11. \A e : InSeq(Append(pool[n], it), e) <=> InSeq(pool[n], e) \/ e = it
  BY <1>4, InAppend
<1>12. \A x \in Node, e \in Item : InPool(x, e)' => InPool(x, e) \/ (x = n /\ e = it)
  BY <1>8, <1>11 DEF InPool
<1>13. InQueue(n, it)
  BY <1>3, <1>4 DEF InQueue
<1>14. \A x \in Node, e \in Item : /\ \A w \in Worker : Busy(x, w, e)' <=> Busy(x, w, e)
                                   /\ Filed(x, e)' <=> Filed(x, e)
                                   /\ Unstamped(e.body)' <=> Unstamped(e.body)
  BY <1>5 DEF Busy, Filed, Unstamped
<1>15. ItemsAreGood'
  <2>1. \A x \in Node, e \in Item : Has(x, e)' => Has(x, e)
    BY <1>10, <1>12, <1>13, <1>14 DEF Has
  <2> QED
    BY <1>6, <2>1, ItemsKept DEF DeliveryInv
<1>16. LeftAreTargets'
  BY <1>5, LeftKept
<1>17. Once(queue[n][c][q])
  BY <1>3 DEF DeliveryInv, PlaceInv, InOneQueue
<1>18. /\ Once(Tail(queue[n][c][q]))
       /\ it.type = "Data" => ~InSeq(Tail(queue[n][c][q]), it)
  BY <1>2, <1>3, <1>17, InTail
<1>19. InOneQueue'
  <2> SUFFICES ASSUME NEW x \in Node, NEW d \in Channel, NEW r \in Priority
               PROVE  /\ Once(queue'[x][d][r])
                      /\ \A e \in Item : e.type = "Data" /\ InSeq(queue'[x][d][r], e) =>
                            d = Traffic[e.body].channel /\ r = Traffic[e.body].priority
    BY <1>5 DEF InOneQueue, Traffic
  <2> QED
    BY <1>3, <1>7, <1>9, <1>18 DEF DeliveryInv, PlaceInv, InOneQueue
<1>20. it.type = "Data" => ~InQueue(n, it)'
  BY <1>3, <1>4, <1>7, <1>18 DEF InQueue, DeliveryInv, PlaceInv, InOneQueue
<1>21. \A x \in Node : Once(pool'[x])
  <2>1. it.type = "Data" => ~InSeq(pool[n], it)
    BY <1>4, <1>13 DEF DeliveryInv, PlaceInv, InOnePlace, InPool
  <2>2. Once(Append(pool[n], it))
    BY <1>4, <2>1, OnceAppend DEF DeliveryInv, PlaceInv
  <2> QED
    BY <1>8, <2>2 DEF DeliveryInv, PlaceInv
<1>22. InOnePlace'
  <2> SUFFICES ASSUME NEW x \in Node, NEW e \in Item, e.type = "Data"
               PROVE  /\ InQueue(x, e)' => /\ ~InPool(x, e)' /\ Unstamped(e.body)'
                                           /\ \A w \in Worker : ~Busy(x, w, e)'
                      /\ InPool(x, e)' => /\ Unstamped(e.body)'
                                          /\ \A w \in Worker : ~Busy(x, w, e)'
                      /\ \A w \in Worker : Busy(x, w, e)' =>
                            \A a \in stamped' : a.body = e.body => a.to \notin left'[x][w]
    BY DEF InOnePlace
  <2>1. InQueue(x, e)' => /\ ~InPool(x, e)' /\ Unstamped(e.body)'
                          /\ \A w \in Worker : ~Busy(x, w, e)'
    BY <1>10, <1>12, <1>14, <1>20 DEF DeliveryInv, PlaceInv, InOnePlace
  <2>2. InPool(x, e)' => Unstamped(e.body)' /\ \A w \in Worker : ~Busy(x, w, e)'
    BY <1>12, <1>13, <1>14 DEF DeliveryInv, PlaceInv, InOnePlace
  <2>3. \A w \in Worker : Busy(x, w, e)' =>
            \A a \in stamped' : a.body = e.body => a.to \notin left'[x][w]
    BY <1>5, <1>14 DEF DeliveryInv, PlaceInv, InOnePlace
  <2> QED
    BY <2>1, <2>2, <2>3
<1>23. StampsAreGood' /\ SeenIsDelivered' /\ ConfirmedIsHeard'
  BY <1>5, <1>6, StampsKept, SeenKept, ConfirmedKept
<1>24. DatagramsAreGenuine'
  BY <1>5, <1>6, DatagramsKept DEF DeliveryInv
<1> QED
  BY <1>15, <1>16, <1>19, <1>21, <1>22, <1>23, <1>24 DEF DeliveryInv, PlaceInv

\* A retransmission goes to the one peer that the packet has its number for.
LEMMA ScanRetransmitDelivery ==
    ASSUME ReliableIsUnicast, TypeOK, Numbering, DeliveryInv,
           NEW n \in Node, NEW s \in SeqNum, ScanRetransmit(n, s)
    PROVE  DeliveryInv'
<1>1. UNCHANGED <<queue, pool, wpc, item, left, hand, seen, delivered, next_seq, receipts,
                  pushed, stamped, confirmed, wrapped, scenario>>
  BY DEF ScanRetransmit, outVars, workerVars, inVars
<1>2. Progress
  BY <1>1, ProgressOut
<1>3. PICK it \in Item : it = receipts[n][s] /\ it.reliable /\ it.type = "Data"
  BY ItemType DEF ScanRetransmit, TypeOK
<1>4. Filed(n, it)
  BY <1>3 DEF Filed, ScanRetransmit
<1>5. it.body \in pushed /\ it = AppItem(it.body) /\ Traffic[it.body].from = n
  BY <1>3, <1>4 DEF Has, DeliveryInv, ItemsAreGood, Good
<1>6. it.body \in DOMAIN Traffic /\ it.to = Traffic[it.body].to /\ Traffic[it.body].reliable
  BY <1>3, <1>5 DEF TypeOK, AppItem
<1>7. ASSUME NEW m \in Targets(n, it.to) PROVE Genuine(Datagram(n, m, it, s))
  <2> DEFINE d == Datagram(n, m, it, s)
  <2>1. m \in Node
    BY <1>7, TargetsType
  <2>2. /\ d.src = n /\ d.dst = m /\ d.type = "Data" /\ d.body = it.body
        /\ d.reliable /\ d.seq = s /\ d.reliable = Traffic[it.body].reliable
    BY <1>3, <1>5, <2>1, DatagramType DEF AppItem
  <2>3. n \notin wrapped =>
            \E a \in stamped : a.from = n /\ a.seq = s /\ a.body = it.body /\ a.to = m
    <3> SUFFICES ASSUME n \notin wrapped
                 PROVE  \E a \in stamped : a.from = n /\ a.seq = s /\ a.body = it.body /\ a.to = m
      OBVIOUS
    <3>1. PICK a \in stamped : a.from = n /\ a.seq = s /\ a.body = it.body
      BY <1>3 DEF Numbering, ReceiptUnderItsNumber, ScanRetransmit
    <3>2. a.to \in Targets(n, Traffic[it.body].to)
      BY <3>1 DEF DeliveryInv, StampsAreGood
    <3>3. a.to = m
      BY <1>6, <1>7, <3>2, OneTarget DEF TypeOK
    <3> QED
      BY <3>1, <3>3
  <2>4. Genuine(d)
    <3> HIDE DEF d
    <3> QED
      BY <1>5, <2>2, <2>3 DEF Genuine
  <2> QED
    BY <2>4
<1>8. \A d \in net' : d \in net \/ Genuine(d)
  BY <1>3, <1>7 DEF ScanRetransmit
<1>9. \A d \in net' : d \in net \/ Genuine(d)'
  BY <1>2, <1>8, GenuineKept
<1>10. DatagramsAreGenuine'
  BY <1>1, <1>2, <1>9, DatagramsKept DEF DeliveryInv
<1>11. ItemsAreGood'
  <2>1. \A x \in Node, e \in Item : Has(x, e)' => Has(x, e)
    BY <1>1 DEF Has, InQueue, InPool, Busy, Filed
  <2> QED
    BY <1>2, <2>1, ItemsKept DEF DeliveryInv
<1>12. LeftAreTargets' /\ PlaceInv'
  BY <1>1, LeftKept, PlaceKept
<1>13. StampsAreGood' /\ SeenIsDelivered' /\ ConfirmedIsHeard'
  BY <1>1, <1>2, StampsKept, SeenKept, ConfirmedKept
<1> QED
  BY <1>10, <1>11, <1>12, <1>13 DEF DeliveryInv

\* A receipt that is given up leaves the rest as it is.
LEMMA ScanDropDelivery ==
    ASSUME TypeOK, DeliveryInv, NEW n \in Node, NEW s \in SeqNum, ScanDrop(n, s)
    PROVE  DeliveryInv'
<1>1. UNCHANGED <<queue, pool, wpc, item, left, hand, seen, delivered, next_seq, net,
                  pushed, stamped, confirmed, wrapped, scenario>>
  BY DEF ScanDrop, outVars, workerVars, inVars
<1>2. Progress
  BY <1>1, ProgressOut
<1>3. \A m \in Node : /\ DOMAIN receipts'[m] \subseteq DOMAIN receipts[m]
                      /\ \A k \in DOMAIN receipts'[m] : receipts'[m][k] = receipts[m][k]
  BY WithoutType DEF ScanDrop
<1>4. ItemsAreGood'
  <2>1. \A x \in Node, e \in Item : Has(x, e)' => Has(x, e)
    BY <1>1, <1>3 DEF Has, InQueue, InPool, Busy, Filed
  <2> QED
    BY <1>2, <2>1, ItemsKept DEF DeliveryInv
<1>5. LeftAreTargets' /\ PlaceInv' /\ DatagramsAreGenuine'
  BY <1>1, <1>2, LeftKept, PlaceKept, DatagramsKept DEF DeliveryInv
<1>6. StampsAreGood' /\ SeenIsDelivered' /\ ConfirmedIsHeard'
  BY <1>1, <1>2, StampsKept, SeenKept, ConfirmedKept
<1> QED
  BY <1>4, <1>5, <1>6 DEF DeliveryInv

-----------------------------------------------------------------------------
(* The worker.                                                                *)

\* A step of one worker in its loop: the others stay where they are.
LEMMA GoOnOthers ==
    ASSUME TypeOK, NEW n \in Node, NEW w \in Worker, NEW it, NEW ms, GoOn(n, w, it, ms)
    PROVE  /\ wpc'[n][w] = IF ms = {} THEN "idle" ELSE "send"
           /\ item'[n][w] = (IF ms = {} THEN None ELSE it) /\ left'[n][w] = ms
           /\ \A x \in Node, v \in Worker : x # n \/ v # w =>
                 /\ wpc'[x][v] = wpc[x][v] /\ item'[x][v] = item[x][v]
                 /\ left'[x][v] = left[x][v]
BY DEF TypeOK, GoOn

\* The executor hands its oldest task to the worker.
LEMMA TakeDelivery ==
    ASSUME TypeOK, DeliveryInv, NEW n \in Node, NEW w \in Worker, Take(n, w)
    PROVE  DeliveryInv'
<1>1. PICK it : it = Head(pool[n])
  OBVIOUS
<1>2. pool[n] \in Seq(Item) /\ pool[n] # <<>> /\ it \in Item /\ InSeq(pool[n], it)
  BY <1>1, HeadTail, InTail DEF TypeOK, Take
<1>3. PICK ms : ms = Targets(n, it.to) /\ GoOn(n, w, it, ms)
  BY <1>1 DEF Take
<1>4. UNCHANGED <<queue, hand, seen, delivered, next_seq, receipts, net, pushed,
                  stamped, confirmed, wrapped, scenario>>
  BY DEF Take, inVars
<1>5. Progress
  BY <1>4, ProgressOut
<1>6. \A x \in Node : pool'[x] = IF x = n THEN Tail(pool[n]) ELSE pool[x]
  BY DEF Take, TypeOK
<1>7. \A e : InSeq(Tail(pool[n]), e) => InSeq(pool[n], e)
  BY <1>2, InTail
<1>8. /\ Once(Tail(pool[n])) /\ (it.type = "Data" => ~InSeq(Tail(pool[n]), it))
  BY <1>1, <1>2, InTail DEF DeliveryInv, PlaceInv
<1>9. \A x \in Node, e \in Item : InPool(x, e)' => InPool(x, e)
  BY <1>6, <1>7 DEF InPool
<1>10. \A x \in Node, e \in Item, v \in Worker :
          Busy(x, v, e)' => \/ Busy(x, v, e) /\ left'[x][v] = left[x][v]
                            \/ x = n /\ v = w /\ e = it /\ left'[x][v] = ms
  BY <1>3, GoOnOthers DEF Busy
<1>11. \A x \in Node, e \in Item : /\ InQueue(x, e)' <=> InQueue(x, e)
                                   /\ Filed(x, e)' <=> Filed(x, e)
                                   /\ Unstamped(e.body)' <=> Unstamped(e.body)
  BY <1>4 DEF InQueue, Filed, Unstamped
<1>12. InPool(n, it)
  BY <1>2 DEF InPool
<1>13. ItemsAreGood'
  <2>1. \A x \in Node, e \in Item : Has(x, e)' => Has(x, e)
    BY <1>9, <1>10, <1>11, <1>12 DEF Has
  <2> QED
    BY <1>5, <2>1, ItemsKept DEF DeliveryInv
<1>14. LeftAreTargets'
  <2> SUFFICES ASSUME NEW x \in Node, NEW v \in Worker, wpc'[x][v] # "idle"
               PROVE  left'[x][v] \subseteq Targets(x, item'[x][v].to)
    BY DEF LeftAreTargets, Targets, Peers
  <2>1. CASE x = n /\ v = w
    BY <1>3, <2>1, GoOnOthers
  <2>2. CASE x # n \/ v # w
    BY <1>3, <2>2, GoOnOthers DEF DeliveryInv, LeftAreTargets
  <2> QED
    BY <2>1, <2>2
<1>15. PlaceInv'
  <2>1. InOneQueue'
    BY <1>4 DEF DeliveryInv, PlaceInv, InOneQueue, Traffic
  <2>2. \A x \in Node : Once(pool'[x])
    BY <1>6, <1>8 DEF DeliveryInv, PlaceInv
  <2>3. ASSUME NEW x \in Node, NEW e \in Item, e.type = "Data"
        PROVE  /\ InQueue(x, e)' => /\ ~InPool(x, e)' /\ Unstamped(e.body)'
                                    /\ \A v \in Worker : ~Busy(x, v, e)'
               /\ InPool(x, e)' => /\ Unstamped(e.body)'
                                   /\ \A v \in Worker : ~Busy(x, v, e)'
               /\ \A v \in Worker : Busy(x, v, e)' =>
                     \A a \in stamped' : a.body = e.body => a.to \notin left'[x][v]
    <3>1. InQueue(x, e)' => /\ ~InPool(x, e)' /\ Unstamped(e.body)'
                            /\ \A v \in Worker : ~Busy(x, v, e)'
      BY <1>9, <1>10, <1>11, <1>12, <2>3 DEF DeliveryInv, PlaceInv, InOnePlace
    <3>2. x = n /\ e = it => ~InPool(x, e)'
      BY <1>6, <1>8, <2>3 DEF InPool
    <3>3. InPool(x, e)' => /\ Unstamped(e.body)'
                           /\ \A v \in Worker : ~Busy(x, v, e)'
      BY <1>9, <1>10, <1>11, <2>3, <3>2 DEF DeliveryInv, PlaceInv, InOnePlace
    <3>4. ASSUME NEW v \in Worker, Busy(x, v, e)'
          PROVE  \A a \in stamped' : a.body = e.body => a.to \notin left'[x][v]
      BY <1>4, <1>10, <1>12, <2>3, <3>4 DEF DeliveryInv, PlaceInv, InOnePlace, Unstamped
    <3> QED
      BY <3>1, <3>3, <3>4
  <2>4. InOnePlace'
    BY <2>3 DEF InOnePlace
  <2> QED
    BY <2>1, <2>2, <2>4 DEF PlaceInv
<1>16. StampsAreGood' /\ SeenIsDelivered' /\ ConfirmedIsHeard'
  BY <1>4, <1>5, StampsKept, SeenKept, ConfirmedKept
<1>17. DatagramsAreGenuine'
  BY <1>4, <1>5, DatagramsKept DEF DeliveryInv
<1> QED
  BY <1>13, <1>14, <1>15, <1>16, <1>17 DEF DeliveryInv

\* The worker goes on to the next peer, or has no packet any more.
LEMMA GoOnDelivery ==
    ASSUME TypeOK, DeliveryInv, NEW n \in Node, NEW w \in Worker,
           Bump(n, w) \/ \E m \in Node : TransmitFails(n, w, m)
    PROVE  DeliveryInv'
<1>1. UNCHANGED <<queue, pool, hand, seen, delivered, receipts, net, pushed, stamped,
                  confirmed, scenario>>
  BY DEF Bump, TransmitFails, outVars, inVars
<1>2. wrapped \subseteq wrapped'
  BY DEF Bump, TransmitFails
<1>3. Progress
  BY <1>1, <1>2, ProgressOut
<1>4. PICK ms : ms \subseteq left[n][w] /\ GoOn(n, w, item[n][w], ms)
  BY DEF Bump, TransmitFails
<1>5. wpc[n][w] # "idle"
  BY DEF Bump, TransmitFails
<1>6. \A x \in Node, v \in Worker :
         /\ left'[x][v] \subseteq left[x][v]
         /\ wpc'[x][v] # "idle" => wpc[x][v] # "idle" /\ item'[x][v] = item[x][v]
  BY <1>4, <1>5, GoOnOthers
<1>7. \A x \in Node, v \in Worker, e \in Item : Busy(x, v, e)' => Busy(x, v, e)
  BY <1>6 DEF Busy
<1>8. \A x \in Node, e \in Item : /\ InQueue(x, e)' <=> InQueue(x, e)
                                  /\ InPool(x, e)' <=> InPool(x, e)
                                  /\ Filed(x, e)' <=> Filed(x, e)
                                  /\ Unstamped(e.body)' <=> Unstamped(e.body)
  BY <1>1 DEF InQueue, InPool, Filed, Unstamped
<1>9. ItemsAreGood'
  <2>1. \A x \in Node, e \in Item : Has(x, e)' => Has(x, e)
    BY <1>7, <1>8 DEF Has
  <2> QED
    BY <1>3, <2>1, ItemsKept DEF DeliveryInv
<1>10. LeftAreTargets'
  BY <1>6, LeftKept
<1>11. PlaceInv'
  <2>1. InOneQueue' /\ \A x \in Node : Once(pool'[x])
    BY <1>1 DEF DeliveryInv, PlaceInv, InOneQueue, Traffic
  <2>2. InOnePlace'
    BY <1>1, <1>6, <1>7, <1>8 DEF DeliveryInv, PlaceInv, InOnePlace
  <2> QED
    BY <2>1, <2>2 DEF PlaceInv
<1>12. StampsAreGood' /\ SeenIsDelivered' /\ ConfirmedIsHeard'
  BY <1>1, <1>3, StampsKept, SeenKept, ConfirmedKept
<1>13. DatagramsAreGenuine'
  BY <1>1, <1>3, DatagramsKept DEF DeliveryInv
<1> QED
  BY <1>9, <1>10, <1>11, <1>12, <1>13 DEF DeliveryInv

\* The receipt is the worker's packet.
LEMMA AddReceiptDelivery ==
    ASSUME TypeOK, DeliveryInv, NEW n \in Node, NEW w \in Worker, AddReceiptIfNeeded(n, w)
    PROVE  DeliveryInv'
<1>1. UNCHANGED <<queue, pool, item, left, hand, seen, delivered, next_seq, net, pushed,
                  stamped, confirmed, wrapped, scenario>>
  BY DEF AddReceiptIfNeeded, outVars, inVars
<1>2. Progress
  BY <1>1, ProgressOut
<1>3. wpc[n][w] = "receipt"
  BY DEF AddReceiptIfNeeded
<1>4. \A x \in Node, v \in Worker : wpc'[x][v] # "idle" => wpc[x][v] # "idle"
  BY <1>3 DEF TypeOK, AddReceiptIfNeeded
<1>5. \A x \in Node : \A s \in DOMAIN receipts'[x] :
         \/ s \in DOMAIN receipts[x] /\ receipts'[x][s] = receipts[x][s]
         \/ x = n /\ receipts'[x][s] = item[n][w]
  BY DEF TypeOK, AddReceiptIfNeeded
<1>6. \A x \in Node, e \in Item : Filed(x, e)' => Filed(x, e) \/ (x = n /\ Busy(n, w, e))
  BY <1>3, <1>5 DEF Filed, Busy
<1>7. ItemsAreGood'
  <2>1. \A x \in Node, e \in Item : Has(x, e)' => Has(x, e)
    BY <1>1, <1>4, <1>6 DEF Has, InQueue, InPool, Busy
  <2> QED
    BY <1>2, <2>1, ItemsKept DEF DeliveryInv
<1>8. LeftAreTargets' /\ PlaceInv' /\ DatagramsAreGenuine'
  BY <1>1, <1>2, <1>4, LeftKept, PlaceKept, DatagramsKept DEF DeliveryInv
<1>9. StampsAreGood' /\ SeenIsDelivered' /\ ConfirmedIsHeard'
  BY <1>1, <1>2, StampsKept, SeenKept, ConfirmedKept
<1> QED
  BY <1>7, <1>8, <1>9 DEF DeliveryInv

\* An acknowledgement goes to the node it names.
LEMMA AckTarget ==
    ASSUME NEW n \in Node, NEW to \in Node, NEW m \in Targets(n, to)
    PROVE  m = to
BY NodeAssumption DEF Targets

\* The packet gets the number it has not had; nobody else holds the packet.
LEMMA TransmitDelivery ==
    ASSUME OneWorker, ReliableIsUnicast, TypeOK, DeliveryInv,
           NEW n \in Node, NEW w \in Worker, NEW m \in Node, Transmit(n, w, m)
    PROVE  DeliveryInv'
<1>1. PICK it : it = item[n][w]
  OBVIOUS
<1>2. PICK new : new = [from |-> n, seq |-> next_seq[n], body |-> it.body, to |-> m]
  OBVIOUS
<1>3. new.from = n /\ new.seq = next_seq[n] /\ new.body = it.body /\ new.to = m
  BY <1>2
<1>4. it \in Item /\ Busy(n, w, it) /\ m \in left[n][w] /\ next_seq[n] \in SeqNum
  BY <1>1 DEF Transmit, TypeOK, Busy
<1>5. stamped' = IF it.reliable THEN stamped \cup {new} ELSE stamped
  BY <1>1, <1>2 DEF Transmit
<1>6. UNCHANGED <<queue, pool, item, hand, seen, delivered, next_seq, receipts, pushed,
                  confirmed, wrapped, scenario>>
  BY DEF Transmit, outVars, inVars
<1>7. Progress
  BY <1>5, <1>6, ProgressOut
<1>8. /\ \A x \in Node, v \in Worker : /\ wpc'[x][v] # "idle" => wpc[x][v] # "idle"
                                       /\ left'[x][v] \subseteq left[x][v]
      /\ m \notin left'[n][w]
  BY DEF Transmit, TypeOK
<1>9. Good(n, it) /\ m \in Targets(n, it.to)
  <2>1. Has(n, it)
    BY <1>4 DEF Has
  <2> QED
    BY <1>1, <1>4, <2>1 DEF DeliveryInv, ItemsAreGood, LeftAreTargets, Busy
<1>10. it.reliable => /\ it.type = "Data" /\ it.body \in pushed /\ it.body \in DOMAIN Traffic
                      /\ it = AppItem(it.body) /\ Traffic[it.body].from = n
                      /\ Traffic[it.body].reliable /\ it.to = Traffic[it.body].to
  BY <1>4, <1>9, ItemType DEF Good, TypeOK, AppItem
<1>11. \A x \in Node, e \in Item :
          it.reliable /\ e.type = "Data" /\ e.body = it.body /\ Has(x, e) => x = n /\ e = it
  BY <1>10 DEF DeliveryInv, ItemsAreGood, Good
<1>12. \A x \in Node, e \in Item : /\ InQueue(x, e)' <=> InQueue(x, e)
                                   /\ InPool(x, e)' <=> InPool(x, e)
                                   /\ Filed(x, e)' <=> Filed(x, e)
                                   /\ \A v \in Worker : Busy(x, v, e)' => Busy(x, v, e)
  BY <1>6, <1>8 DEF InQueue, InPool, Filed, Busy
<1>13. ItemsAreGood'
  <2>1. \A x \in Node, e \in Item : Has(x, e)' => Has(x, e)
    BY <1>12 DEF Has
  <2> QED
    BY <1>7, <2>1, ItemsKept DEF DeliveryInv
<1>14. LeftAreTargets'
  BY <1>6, <1>8, LeftKept
<1>15. PlaceInv'
  <2>1. InOneQueue' /\ \A x \in Node : Once(pool'[x])
    BY <1>6 DEF DeliveryInv, PlaceInv, InOneQueue, Traffic
  <2>2. ASSUME NEW x \in Node, NEW e \in Item, e.type = "Data"
        PROVE  /\ InQueue(x, e)' => /\ ~InPool(x, e)' /\ Unstamped(e.body)'
                                    /\ \A v \in Worker : ~Busy(x, v, e)'
               /\ InPool(x, e)' => /\ Unstamped(e.body)'
                                   /\ \A v \in Worker : ~Busy(x, v, e)'
               /\ \A v \in Worker : Busy(x, v, e)' =>
                     \A a \in stamped' : a.body = e.body => a.to \notin left'[x][v]
    <3>1. InQueue(x, e) \/ InPool(x, e) => Unstamped(e.body)
      BY <2>2 DEF DeliveryInv, PlaceInv, InOnePlace
    <3>2. InQueue(x, e) \/ InPool(x, e) => ~(it.reliable /\ e.body = it.body)
      BY <1>4, <1>11, <2>2 DEF Has, DeliveryInv, PlaceInv, InOnePlace
    <3>3. InQueue(x, e) \/ InPool(x, e) => Unstamped(e.body)'
      BY <1>3, <1>5, <3>1, <3>2 DEF Unstamped
    <3>4. ASSUME NEW v \in Worker, Busy(x, v, e), NEW a \in stamped', a.body = e.body
          PROVE  a.to \notin left'[x][v]
      <4>1. CASE a \in stamped
        BY <1>8, <2>2, <3>4, <4>1 DEF DeliveryInv, PlaceInv, InOnePlace
      <4>2. CASE a \notin stamped
        <5>1. it.reliable /\ a = new
          BY <1>5, <3>4, <4>2
        <5>2. Has(x, e) /\ e.body = it.body
          BY <1>3, <3>4, <5>1 DEF Has
        <5>3. x = n /\ v = w
          BY <1>11, <2>2, <5>1, <5>2 DEF OneWorker
        <5> QED
          BY <1>3, <1>8, <5>1, <5>3
      <4> QED
        BY <4>1, <4>2
    <3> QED
      BY <1>12, <2>2, <3>3, <3>4 DEF DeliveryInv, PlaceInv, InOnePlace
  <2>3. InOnePlace'
    BY <2>2 DEF InOnePlace
  <2> QED
    BY <2>1, <2>3 DEF PlaceInv
<1>16. StampsAreGood'
  <2>1. it.reliable => \A a \in stamped : a.body # it.body
    <3> SUFFICES ASSUME it.reliable, NEW a \in stamped, a.body = it.body PROVE FALSE
      OBVIOUS
    <3>1. a.to \notin left[n][w]
      BY <1>4, <1>10 DEF DeliveryInv, PlaceInv, InOnePlace
    <3>2. a.to \in Targets(n, Traffic[it.body].to)
      BY <1>10 DEF DeliveryInv, StampsAreGood
    <3>3. a.to = m
      <4>1. scenario \in Scenario
        BY DEF TypeOK
      <4> QED
        BY <1>9, <1>10, <3>2, <4>1, OneTarget
    <3> QED
      BY <1>4, <3>1, <3>3
  <2>2. \A a \in stamped' :
          /\ a.body \in pushed /\ Traffic[a.body].reliable
          /\ Traffic[a.body].from = a.from
          /\ a.to \in Targets(a.from, Traffic[a.body].to)
    BY <1>3, <1>5, <1>9, <1>10 DEF DeliveryInv, StampsAreGood
  <2>3. \A a, b \in stamped' : a.body = b.body => a = b
    BY <1>3, <1>5, <2>1 DEF DeliveryInv, StampsAreGood
  <2> QED
    BY <1>6, <2>2, <2>3 DEF StampsAreGood, Traffic, Targets, Peers
<1>17. DatagramsAreGenuine'
  <2>1. PICK d : d = Datagram(n, m, it, next_seq[n])
    OBVIOUS
  <2>2. net' = net \cup {d}
    BY <1>1, <2>1 DEF Transmit
  <2>3. /\ d.src = n /\ d.dst = m /\ d.type = it.type /\ d.body = it.body
        /\ d.reliable = it.reliable /\ (it.reliable => d.seq = next_seq[n])
    BY <1>4, <2>1, DatagramType
  <2>4. it.type = "Data" => (/\ d.body \in pushed /\ Traffic[d.body].from = d.src
                             /\ d.reliable = Traffic[d.body].reliable)'
    BY <1>6, <1>9, <2>3 DEF Good, AppItem, Traffic
  <2>5. it.reliable => new \in stamped'
    BY <1>5
  <2>6. it.type = "Acknowledgement" /\ m \notin wrapped => Heard(n, m, it.body)'
    <3> SUFFICES ASSUME it.type = "Acknowledgement", m \notin wrapped
                 PROVE  Heard(n, m, it.body)'
      OBVIOUS
    <3>1. it.to = m
      BY <1>4, <1>9, ItemType, AckTarget
    <3> QED
      BY <1>7, <1>9, <3>1, HeardKept DEF Good
  <2>7. Genuine(d)'
    BY <1>3, <1>6, <2>3, <2>4, <2>5, <2>6 DEF Genuine
  <2> QED
    BY <1>6, <1>7, <2>2, <2>7, DatagramsKept DEF DeliveryInv
<1>18. SeenIsDelivered' /\ ConfirmedIsHeard'
  BY <1>6, <1>7, SeenKept, ConfirmedKept
<1> QED
  BY <1>13, <1>14, <1>15, <1>16, <1>17, <1>18 DEF DeliveryInv

-----------------------------------------------------------------------------
(* The incoming thread.                                                       *)

\* The acknowledgement is queued when the packet is in hand.
LEMMA ReceiveReliableDelivery ==
    ASSUME TypeOK, DeliveryInv, NEW n \in Node, NEW d \in net, NEW stays \in BOOLEAN,
           ReceiveReliable(n, d, stays)
    PROVE  DeliveryInv'
<1>1. PICK it : it = AckItem(d.src, d.seq)
  OBVIOUS
<1>2. /\ d \in Message /\ net' \subseteq net /\ d.reliable /\ d.type = "Data" /\ d.dst = n
      /\ hand[n] = None /\ d.src \in Node /\ d.seq \in SeqNum
  BY ArrivesType, MessageType DEF ReceiveReliable
<1>3. /\ it \in Item /\ it.type = "Acknowledgement" /\ it.to = d.src /\ it.body = d.seq
  BY <1>1, <1>2 DEF AckItem, Item
<1>4. UNCHANGED <<pool, wpc, item, left, seen, delivered, next_seq, receipts, pushed,
                  stamped, confirmed, wrapped, scenario>>
  BY DEF ReceiveReliable, workerVars
<1>5. \A x \in Node : hand'[x] = IF x = n THEN d ELSE hand[x]
  BY DEF ReceiveReliable, TypeOK
<1>6. Progress
  <2>1. \A x, m, s : x \in Node /\ InHand(x, m, s) => InHand(x, m, s)'
    BY <1>2, <1>5 DEF InHand
  <2>2. \A a \in stamped : a.to \in Node
    BY DEF TypeOK
  <2> QED
    BY <1>4, <2>1, <2>2 DEF Progress
<1>7. "Control" \in Channel /\ High \in Priority
  BY Numbers DEF Channel
<1>8. \A x \in Node, c \in Channel, q \in Priority :
         queue'[x][c][q] = IF x = n /\ c = "Control" /\ q = High
                           THEN Append(queue[n]["Control"][High], it) ELSE queue[x][c][q]
  BY <1>1, <1>7 DEF TypeOK, ReceiveReliable, Enqueue
<1>9. queue[n]["Control"][High] \in Seq(Item)
  BY <1>7 DEF TypeOK
<1>10. \A e : InSeq(Append(queue[n]["Control"][High], it), e) <=>
                 InSeq(queue[n]["Control"][High], e) \/ e = it
  BY <1>3, <1>9, InAppend
<1>11. \A x \in Node, e \in Item : InQueue(x, e)' => InQueue(x, e) \/ (x = n /\ e = it)
  BY <1>7, <1>8, <1>10 DEF InQueue
<1>12. \A x \in Node, e \in Item : /\ InPool(x, e)' <=> InPool(x, e)
                                   /\ Filed(x, e)' <=> Filed(x, e)
                                   /\ Unstamped(e.body)' <=> Unstamped(e.body)
                                   /\ \A w \in Worker : Busy(x, w, e)' <=> Busy(x, w, e)
  BY <1>4 DEF InPool, Filed, Busy, Unstamped
<1>13. Genuine(d)
  BY DEF DeliveryInv, DatagramsAreGenuine
<1>14. d.src \notin wrapped => Heard(n, d.src, d.seq)'
  <2> SUFFICES ASSUME d.src \notin wrapped PROVE Heard(n, d.src, d.seq)'
    OBVIOUS
  <2>1. PICK a \in stamped : a.from = d.src /\ a.seq = d.seq /\ a.to = n
    BY <1>2, <1>13 DEF Genuine
  <2>2. hand'[n] # None => InHand(n, d.src, d.seq)'
    BY <1>5 DEF InHand
  <2>3. hand'[n] # None
    BY <1>2, <1>5, NoneAssumption
  <2> QED
    BY <1>4, <2>1, <2>2, <2>3 DEF Heard
<1>15. ItemsAreGood'
  <2>1. \A x \in Node, e \in Item : x = n /\ e = it => Good(x, e)'
    BY <1>3, <1>4, <1>14 DEF Good
  <2>2. \A x \in Node, e \in Item : Has(x, e)' => Has(x, e) \/ Good(x, e)'
    BY <1>11, <1>12, <2>1 DEF Has
  <2> QED
    BY <1>6, <2>2, ItemsKept DEF DeliveryInv
<1>16. LeftAreTargets'
  BY <1>4, LeftKept
<1>17. PlaceInv'
  <2>1. InOneQueue'
    <3> SUFFICES ASSUME NEW x \in Node, NEW c \in Channel, NEW q \in Priority
                 PROVE  /\ Once(queue'[x][c][q])
                        /\ \A e \in Item : e.type = "Data" /\ InSeq(queue'[x][c][q], e) =>
                              c = Traffic[e.body].channel /\ q = Traffic[e.body].priority
      BY <1>4 DEF InOneQueue, Traffic
    <3>1. CASE x = n /\ c = "Control" /\ q = High
      <4>1. Once(Append(queue[n]["Control"][High], it))
        BY <1>3, <1>7, <1>9, OnceAppend DEF DeliveryInv, PlaceInv, InOneQueue
      <4> QED
        BY <1>3, <1>7, <1>8, <1>10, <3>1, <4>1 DEF DeliveryInv, PlaceInv, InOneQueue
    <3>2. CASE ~(x = n /\ c = "Control" /\ q = High)
      BY <1>8, <3>2 DEF DeliveryInv, PlaceInv, InOneQueue
    <3> QED
      BY <3>1, <3>2
  <2>2. \A x \in Node : Once(pool'[x])
    BY <1>4 DEF DeliveryInv, PlaceInv
  <2>3. InOnePlace'
    BY <1>3, <1>4, <1>11, <1>12 DEF DeliveryInv, PlaceInv, InOnePlace
  <2> QED
    BY <2>1, <2>2, <2>3 DEF PlaceInv
<1>18. StampsAreGood' /\ SeenIsDelivered' /\ ConfirmedIsHeard'
  BY <1>4, <1>6, StampsKept, SeenKept, ConfirmedKept
<1>19. DatagramsAreGenuine'
  <2>1. \A e \in net' : Genuine(e)'
    BY <1>2, <1>6, GenuineKept DEF DeliveryInv, DatagramsAreGenuine
  <2>2. ASSUME NEW x \in Node, NEW e \in Message, hand'[x] # None, e = hand'[x]
        PROVE  Genuine(e)' /\ e.dst = x
    <3>1. Genuine(e) /\ e.dst = x
      BY <1>2, <1>5, <1>13, <2>2 DEF DeliveryInv, DatagramsAreGenuine
    <3> QED
      BY <1>6, <3>1, GenuineKept
  <2> QED
    BY <2>1, <2>2 DEF DatagramsAreGenuine
<1> QED
  BY <1>15, <1>16, <1>17, <1>18, <1>19 DEF DeliveryInv

\* The number in hand names its packet: it was delivered when it was seen before,
\* and is delivered now when it was not.
LEMMA DeliverOnceFacts ==
    ASSUME TypeOK, Numbering, DeliveryInv, NEW n \in Node, DeliverOnce(n),
           NEW d \in Message, d = hand[n]
    PROVE  /\ d.reliable /\ d.body \in DOMAIN Traffic /\ d.body \in Packet
           /\ d.src \in Node /\ d.seq \in SeqNum /\ Traffic[d.body].reliable
           /\ Traffic[d.body].from = d.src
           /\ \A m \in Node, p \in Packet : delivered[m][p] > 0 => delivered'[m][p] > 0
           /\ d.src \notin wrapped =>
                 /\ \E a \in stamped : /\ a.from = d.src /\ a.seq = d.seq
                                       /\ a.body = d.body /\ a.to = n
                 /\ delivered'[n][d.body] > 0
                 /\ \A a \in stamped : a.from = d.src /\ a.seq = d.seq => a.body = d.body
<1>1. hand[n] # None /\ d.reliable
  BY DEF DeliverOnce, TypeOK
<1>2. d.type = "Data" /\ d.body \in Packet /\ d.src \in Node /\ d.seq \in SeqNum
  BY <1>1, MessageType
<1>3. Genuine(d) /\ d.dst = n
  BY <1>1 DEF DeliveryInv, DatagramsAreGenuine
<1>4. d.body \in DOMAIN Traffic /\ Traffic[d.body].reliable /\ Traffic[d.body].from = d.src
  BY <1>1, <1>2, <1>3 DEF Genuine, TypeOK
<1>5. CASE d.seq \in seen[n][d.src]
  <2>1. delivered' = delivered
    BY <1>5 DEF DeliverOnce
  <2>2. ASSUME d.src \notin wrapped
        PROVE  /\ \E a \in stamped : /\ a.from = d.src /\ a.seq = d.seq
                                     /\ a.body = d.body /\ a.to = n
               /\ delivered'[n][d.body] > 0
               /\ \A a \in stamped : a.from = d.src /\ a.seq = d.seq => a.body = d.body
    <3>1. PICK a \in stamped : /\ a.from = d.src /\ a.seq = d.seq
                               /\ a.body = d.body /\ a.to = n
      BY <1>1, <1>2, <1>3, <2>2 DEF Genuine
    <3>2. PICK b \in stamped : /\ b.from = d.src /\ b.seq = d.seq /\ b.to = n
                               /\ delivered[n][b.body] > 0
      BY <1>2, <1>5, <2>2 DEF DeliveryInv, SeenIsDelivered
    <3>3. \A x \in stamped : x.from = d.src /\ x.seq = d.seq => x = a
      BY <2>2, <3>1 DEF Numbering, NumberNamesOnePacket
    <3> QED
      BY <2>1, <3>1, <3>2, <3>3
  <2> QED
    BY <1>1, <1>2, <1>4, <2>1, <2>2
<1>6. CASE d.seq \notin seen[n][d.src]
  <2>1. Deliver(n, d.body)
    BY <1>6 DEF DeliverOnce
  <2>2. delivered'[n][d.body] > 0
    BY <1>2, <2>1, DeliverType
  <2>3. \A m \in Node, p \in Packet : delivered[m][p] > 0 => delivered'[m][p] > 0
    BY <1>2, <2>1, DeliverType DEF TypeOK
  <2>4. ASSUME d.src \notin wrapped
        PROVE  /\ \E a \in stamped : /\ a.from = d.src /\ a.seq = d.seq
                                     /\ a.body = d.body /\ a.to = n
               /\ \A a \in stamped : a.from = d.src /\ a.seq = d.seq => a.body = d.body
    <3>1. PICK a \in stamped : /\ a.from = d.src /\ a.seq = d.seq
                               /\ a.body = d.body /\ a.to = n
      BY <1>1, <1>2, <1>3, <2>4 DEF Genuine
    <3>2. \A x \in stamped : x.from = d.src /\ x.seq = d.seq => x = a
      BY <2>4, <3>1 DEF Numbering, NumberNamesOnePacket
    <3> QED
      BY <3>1, <3>2
  <2> QED
    BY <1>1, <1>2, <1>4, <2>2, <2>3, <2>4
<1> QED
  BY <1>5, <1>6

LEMMA DeliverOnceDelivery ==
    ASSUME TypeOK, Numbering, DeliveryInv, NEW n \in Node, DeliverOnce(n)
    PROVE  DeliveryInv'
<1>1. PICK d \in Message : d = hand[n]
  BY DEF DeliverOnce, TypeOK
<1>2. /\ d.reliable /\ d.body \in DOMAIN Traffic /\ d.body \in Packet
      /\ d.src \in Node /\ d.seq \in SeqNum /\ Traffic[d.body].reliable
      /\ Traffic[d.body].from = d.src
      /\ \A m \in Node, p \in Packet : delivered[m][p] > 0 => delivered'[m][p] > 0
  BY <1>1, DeliverOnceFacts
<1>3. d.src \notin wrapped =>
         /\ \E a \in stamped : /\ a.from = d.src /\ a.seq = d.seq
                               /\ a.body = d.body /\ a.to = n
         /\ delivered'[n][d.body] > 0
         /\ \A a \in stamped : a.from = d.src /\ a.seq = d.seq => a.body = d.body
  BY <1>1, DeliverOnceFacts
<1>4. UNCHANGED <<queue, pool, wpc, item, left, next_seq, receipts, net, pushed,
                  stamped, confirmed, wrapped, scenario>>
  BY DEF DeliverOnce, outVars, workerVars
<1>5. \A x \in Node : hand'[x] = IF x = n THEN None ELSE hand[x]
  BY DEF DeliverOnce, TypeOK
<1>6. Progress
  <2>1. ASSUME NEW a \in stamped, a.from \notin wrapped, InHand(a.to, a.from, a.seq)
        PROVE  delivered'[a.to][a.body] > 0 \/ InHand(a.to, a.from, a.seq)'
    <3>1. a.to \in Node
      BY DEF TypeOK
    <3>2. CASE a.to = n
      BY <1>1, <1>3, <2>1, <3>2 DEF InHand
    <3>3. CASE a.to # n
      BY <1>5, <2>1, <3>1, <3>3 DEF InHand
    <3> QED
      BY <3>2, <3>3
  <2> QED
    BY <1>2, <1>4, <2>1 DEF Progress
<1>7. ItemsAreGood'
  <2>1. \A x \in Node, e \in Item : Has(x, e)' => Has(x, e)
    BY <1>4 DEF Has, InQueue, InPool, Busy, Filed
  <2> QED
    BY <1>6, <2>1, ItemsKept DEF DeliveryInv
<1>8. LeftAreTargets' /\ PlaceInv' /\ StampsAreGood' /\ ConfirmedIsHeard'
  BY <1>4, <1>6, LeftKept, PlaceKept, StampsKept, ConfirmedKept
<1>9. DatagramsAreGenuine'
  BY <1>4, <1>5, <1>6, DatagramsKept DEF DeliveryInv
<1>10. \A x \in Node, m \in Node :
          seen'[x][m] = IF x = n /\ m = d.src THEN seen[x][m] \cup {d.seq} ELSE seen[x][m]
  BY <1>1, <1>2 DEF DeliverOnce, TypeOK
<1>11. SeenIsDelivered'
  <2>1. ASSUME NEW x \in Node, NEW p \in DOMAIN Traffic,
               Traffic[p].reliable, Traffic[p].from \notin wrapped, delivered'[x][p] > 0
        PROVE  /\ delivered'[x][p] = 1
               /\ \E a \in stamped : a.body = p /\ a.to = x /\ a.seq \in seen'[x][a.from]
    <3>1. p \in Packet
      BY TrafficType DEF TypeOK
    <3>2. \A a \in stamped : a.from \in Node
      BY DEF TypeOK
    <3>3. CASE delivered'[x][p] = delivered[x][p]
      <4>1. delivered[x][p] > 0
        BY <2>1, <3>3
      <4>2. delivered[x][p] = 1
        BY <2>1, <4>1 DEF DeliveryInv, SeenIsDelivered
      <4>3. PICK a \in stamped : a.body = p /\ a.to = x /\ a.seq \in seen[x][a.from]
        BY <2>1, <4>1 DEF DeliveryInv, SeenIsDelivered
      <4>4. a.seq \in seen'[x][a.from]
        BY <1>10, <3>2, <4>3
      <4> QED
        BY <3>3, <4>2, <4>3, <4>4
    <3>4. CASE delivered'[x][p] # delivered[x][p]
      <4>1. d.seq \notin seen[n][d.src] /\ Deliver(n, d.body)
        BY <1>1, <3>4 DEF DeliverOnce
      <4>2. x = n /\ p = d.body
        BY <1>2, <3>1, <3>4, <4>1, DeliverType
      <4>3. PICK a \in stamped : a.from = d.src /\ a.seq = d.seq /\ a.body = d.body /\ a.to = n
        BY <1>2, <1>3, <2>1, <4>2
      <4>4. \A b \in stamped : b.body = d.body => b = a
        BY <4>3 DEF DeliveryInv, StampsAreGood
      <4>5. ~(delivered[n][d.body] > 0)
        BY <1>2, <2>1, <4>1, <4>2, <4>3, <4>4 DEF DeliveryInv, SeenIsDelivered
      <4>6. delivered[n][d.body] = 0
        BY <1>2, <4>5, Numbers DEF TypeOK
      <4>7. delivered'[n][d.body] = 1
        <5>1. PICK b \in Packet : b = d.body
          BY <1>2
        <5>2. Deliver(n, b) /\ delivered[n][b] = 0
          BY <4>1, <4>6, <5>1
        <5>3. delivered[n][b] = 0 => delivered'[n][b] = 1
          BY ONLY TypeOK, n \in Node, b \in Packet, <5>2, DeliverType, Zenon
        <5> QED
          BY ONLY <5>1, <5>2, <5>3
      <4>8. a.seq \in seen'[x][a.from]
        <5>1. a.from \in Node /\ a.from = d.src /\ a.seq = d.seq
          BY ONLY <3>2, <4>3
        <5>2. seen'[x][a.from] = seen[x][a.from] \cup {d.seq}
          BY ONLY <1>10, x \in Node, <4>2, <5>1
        <5> QED
          BY ONLY <5>1, <5>2
      <4> QED
        BY ONLY <4>2, <4>3, <4>7, <4>8
    <3> QED
      BY <3>3, <3>4
  <2>2. ASSUME NEW x \in Node, NEW m \in Node \ wrapped, NEW s \in seen'[x][m]
        PROVE  \E a \in stamped : /\ a.from = m /\ a.seq = s /\ a.to = x
                                  /\ delivered'[x][a.body] > 0
    <3>1. CASE s \in seen[x][m]
      <4>1. PICK a \in stamped : a.from = m /\ a.seq = s /\ a.to = x /\ delivered[x][a.body] > 0
        BY <2>2, <3>1 DEF DeliveryInv, SeenIsDelivered
      <4>2. a.body \in Packet
        <5>1. stamped \subseteq [from : Node, seq : SeqNum, body : Packet, to : Node]
          BY DEF TypeOK
        <5> QED
          BY ONLY <4>1, <5>1
      <4> QED
        BY <1>2, <4>1, <4>2
    <3>2. CASE s \notin seen[x][m]
      <4>1. x = n /\ m = d.src /\ s = d.seq
        <5>1. m \in Node /\ s \in seen'[x][m]
          OBVIOUS
        <5>2. seen'[x][m] = IF x = n /\ m = d.src THEN seen[x][m] \cup {d.seq} ELSE seen[x][m]
          BY ONLY <1>10, x \in Node, <5>1, Zenon
        <5>3. CASE x = n /\ m = d.src
          BY ONLY <3>2, <5>1, <5>2, <5>3
        <5>4. CASE ~(x = n /\ m = d.src)
          BY ONLY <3>2, <5>1, <5>2, <5>4
        <5> QED
          BY ONLY <5>3, <5>4
      <4>2. PICK a \in stamped : a.from = d.src /\ a.seq = d.seq /\ a.body = d.body /\ a.to = n
        BY <1>3, <2>2, <4>1
      <4>3. delivered'[n][a.body] > 0
        BY <1>3, <2>2, <4>1, <4>2
      <4> QED
        BY <4>1, <4>2, <4>3
    <3> QED
      BY <3>1, <3>2
  <2>3. Traffic' = Traffic
    BY <1>4 DEF Traffic
  <2> QED
    BY <1>4, <2>1, <2>2, <2>3 DEF SeenIsDelivered
<1> QED
  BY <1>7, <1>8, <1>9, <1>11 DEF DeliveryInv

\* An unreliable datagram delivers an unreliable packet.
LEMMA ReceiveUnreliableDelivery ==
    ASSUME TypeOK, DeliveryInv, NEW n \in Node, NEW d \in net, NEW stays \in BOOLEAN,
           ReceiveUnreliable(n, d, stays)
    PROVE  DeliveryInv'
<1>1. /\ d \in Message /\ net' \subseteq net /\ d.body \in Packet /\ ~d.reliable
      /\ d.type = "Data" /\ Deliver(n, d.body)
  BY ArrivesType, MessageType DEF ReceiveUnreliable
<1>2. ~Traffic[d.body].reliable
  <2>1. Genuine(d)
    BY DEF DeliveryInv, DatagramsAreGenuine
  <2> QED
    BY <1>1, <2>1 DEF Genuine
<1>3. UNCHANGED <<queue, pool, wpc, item, left, hand, seen, next_seq, receipts, pushed,
                  stamped, confirmed, wrapped, scenario>>
  BY DEF ReceiveUnreliable, outVars, workerVars
<1>4. /\ \A m \in Node, x \in Packet : delivered[m][x] > 0 => delivered'[m][x] > 0
      /\ \A m \in Node, x \in Packet : x # d.body => delivered'[m][x] = delivered[m][x]
  BY <1>1, DeliverType
<1>5. Progress
  <2>1. \A x, m, s : InHand(x, m, s)' <=> InHand(x, m, s)
    BY <1>3 DEF InHand
  <2> QED
    BY <1>3, <1>4, <2>1 DEF Progress
<1>6. ItemsAreGood'
  <2>1. \A x \in Node, e \in Item : Has(x, e)' => Has(x, e)
    BY <1>3 DEF Has, InQueue, InPool, Busy, Filed
  <2> QED
    BY <1>5, <2>1, ItemsKept DEF DeliveryInv
<1>7. LeftAreTargets' /\ PlaceInv' /\ StampsAreGood' /\ ConfirmedIsHeard'
  BY <1>3, <1>5, LeftKept, PlaceKept, StampsKept, ConfirmedKept
<1>8. DatagramsAreGenuine'
  BY <1>1, <1>3, <1>5, DatagramsKept DEF DeliveryInv
<1>9. SeenIsDelivered'
  <2>1. ASSUME NEW x \in Node, NEW p \in DOMAIN Traffic,
               Traffic[p].reliable, Traffic[p].from \notin wrapped, delivered'[x][p] > 0
        PROVE  /\ delivered'[x][p] = 1
               /\ \E a \in stamped : a.body = p /\ a.to = x /\ a.seq \in seen[x][a.from]
    <3>1. p \in Packet /\ p # d.body
      BY <1>2, <2>1, TrafficType DEF TypeOK
    <3>2. delivered'[x][p] = delivered[x][p]
      BY <1>4, <3>1
    <3> QED
      BY <2>1, <3>2 DEF DeliveryInv, SeenIsDelivered
  <2>2. ASSUME NEW x \in Node, NEW m \in Node \ wrapped, NEW s \in seen[x][m]
        PROVE  \E a \in stamped : /\ a.from = m /\ a.seq = s /\ a.to = x
                                  /\ delivered'[x][a.body] > 0
    <3>1. PICK a \in stamped : a.from = m /\ a.seq = s /\ a.to = x /\ delivered[x][a.body] > 0
      BY <2>2 DEF DeliveryInv, SeenIsDelivered
    <3>2. a.body \in Packet
      BY DEF TypeOK
    <3> QED
      BY <1>4, <3>1, <3>2
  <2>3. Traffic' = Traffic
    BY <1>3 DEF Traffic
  <2> QED
    BY <1>3, <2>1, <2>2, <2>3 DEF SeenIsDelivered
<1> QED
  BY <1>6, <1>7, <1>8, <1>9 DEF DeliveryInv

\* The receipt that is removed has the number that the acknowledging peer has heard.
LEMMA ReceiveAckDelivery ==
    ASSUME TypeOK, DeliveryInv, NEW n \in Node, NEW d \in net, NEW stays \in BOOLEAN,
           ReceiveAck(n, d, stays)
    PROVE  DeliveryInv'
<1>1. /\ d \in Message /\ net' \subseteq net /\ d.dst = n /\ d.type = "Acknowledgement"
      /\ d.src \in Node
  BY ArrivesType, MessageType DEF ReceiveAck
<1>2. UNCHANGED <<queue, pool, wpc, item, left, hand, seen, delivered, next_seq, pushed,
                  stamped, wrapped, scenario>>
  BY DEF ReceiveAck, outVars, workerVars, inVars
<1>3. Progress
  BY <1>2, ProgressOut
<1>4. \A m \in Node : /\ DOMAIN receipts'[m] \subseteq DOMAIN receipts[m]
                      /\ \A k \in DOMAIN receipts'[m] : receipts'[m][k] = receipts[m][k]
  BY WithoutType DEF ReceiveAck
<1>5. ItemsAreGood'
  <2>1. \A x \in Node, e \in Item : Has(x, e)' => Has(x, e)
    BY <1>2, <1>4 DEF Has, InQueue, InPool, Busy, Filed
  <2> QED
    BY <1>3, <2>1, ItemsKept DEF DeliveryInv
<1>6. LeftAreTargets' /\ PlaceInv' /\ StampsAreGood' /\ SeenIsDelivered'
  BY <1>2, <1>3, LeftKept, PlaceKept, StampsKept, SeenKept
<1>7. DatagramsAreGenuine'
  BY <1>1, <1>2, <1>3, DatagramsKept DEF DeliveryInv
<1>8. ConfirmedIsHeard'
  <2> SUFFICES ASSUME NEW c \in confirmed', c.from \notin wrapped'
               PROVE  \E m \in Node : Heard(m, c.from, c.seq)'
    BY DEF ConfirmedIsHeard
  <2>1. c.from \notin wrapped
    BY <1>2
  <2>2. CASE c \in confirmed
    <3>1. PICK m \in Node : Heard(m, c.from, c.seq)
      BY <2>1, <2>2 DEF DeliveryInv, ConfirmedIsHeard
    <3>2. Heard(m, c.from, c.seq)'
      BY <1>3, <2>1, <3>1, HeardKept
    <3> QED
      BY <3>2
  <2>3. CASE c \notin confirmed
    <3>1. c.from = n /\ c.seq = d.body
      BY <2>3 DEF ReceiveAck
    <3>2. Genuine(d)
      BY DEF DeliveryInv, DatagramsAreGenuine
    <3>3. Heard(d.src, n, d.body)
      BY <1>1, <2>1, <3>1, <3>2 DEF Genuine
    <3>4. Heard(d.src, c.from, c.seq)'
      BY <1>3, <2>1, <3>1, <3>3, HeardKept
    <3> QED
      BY <1>1, <3>4
  <2> QED
    BY <2>2, <2>3
<1> QED
  BY <1>5, <1>6, <1>7, <1>8 DEF DeliveryInv

LEMMA LoseDelivery ==
    ASSUME TypeOK, DeliveryInv, net' \subseteq net,
           UNCHANGED <<outVars, workerVars, inVars, next_seq, receipts, pushed, stamped,
                       confirmed, wrapped, scenario>>
    PROVE  DeliveryInv'
<1>1. UNCHANGED <<queue, pool, wpc, item, left, hand, seen, delivered, next_seq, receipts,
                  pushed, stamped, confirmed, wrapped, scenario>>
  BY DEF outVars, workerVars, inVars
<1>2. Progress
  BY <1>1, ProgressOut
<1>3. ItemsAreGood'
  <2>1. \A x \in Node, e \in Item : Has(x, e)' => Has(x, e)
    BY <1>1 DEF Has, InQueue, InPool, Busy, Filed
  <2> QED
    BY <1>2, <2>1, ItemsKept DEF DeliveryInv
<1>4. LeftAreTargets' /\ PlaceInv' /\ DatagramsAreGenuine'
  BY <1>1, <1>2, LeftKept, PlaceKept, DatagramsKept DEF DeliveryInv
<1>5. StampsAreGood' /\ SeenIsDelivered' /\ ConfirmedIsHeard'
  BY <1>1, <1>2, StampsKept, SeenKept, ConfirmedKept
<1> QED
  BY <1>3, <1>4, <1>5 DEF DeliveryInv

-----------------------------------------------------------------------------
(* Putting it together.                                                       *)

LEMMA InitDelivery == Init => DeliveryInv
<1> SUFFICES ASSUME Init PROVE DeliveryInv
  OBVIOUS
<1>1. \A x : ~InSeq(<<>>, x) /\ Once(<<>>)
  BY DEF InSeq, Once
<1>2. \A n \in Node, it \in Item : ~Has(n, it)
  BY <1>1 DEF Init, Has, InQueue, InPool, Busy, Filed
<1>3. ItemsAreGood /\ LeftAreTargets
  BY <1>2 DEF Init, ItemsAreGood, LeftAreTargets
<1>4. PlaceInv
  BY <1>1, <1>2 DEF Init, PlaceInv, InOneQueue, InOnePlace, Has
<1>5. StampsAreGood /\ DatagramsAreGenuine /\ ConfirmedIsHeard
  BY DEF Init, StampsAreGood, DatagramsAreGenuine, ConfirmedIsHeard
<1>6. SeenIsDelivered
  BY TrafficType DEF Init, SeenIsDelivered
<1> QED
  BY <1>3, <1>4, <1>5, <1>6 DEF DeliveryInv

LEMMA NextDelivery ==
    ASSUME OneWorker, ReliableIsUnicast
    PROVE  TypeOK /\ Numbering /\ DeliveryInv /\ [Next]_vars => DeliveryInv'
<1> SUFFICES ASSUME TypeOK, Numbering, DeliveryInv, [Next]_vars PROVE DeliveryInv'
  OBVIOUS
<1>1. ASSUME NEW n \in Node, NEW w \in Worker, WorkerStep(n, w) PROVE DeliveryInv'
  BY <1>1, TakeDelivery, AddReceiptDelivery, GoOnDelivery, TransmitDelivery DEF WorkerStep
<1>2. ASSUME NEW n \in Node, NEW d \in net, NEW stays \in BOOLEAN, Receive(n, d, stays)
      PROVE  DeliveryInv'
  BY <1>2, ReceiveReliableDelivery, ReceiveUnreliableDelivery, ReceiveAckDelivery DEF Receive
<1>3. CASE \E d \in net : Lose(d)
  BY <1>3, LoseDelivery DEF Lose
<1>4. CASE UNCHANGED vars
  BY <1>4, LoseDelivery DEF vars
<1> QED
  BY <1>1, <1>2, <1>3, <1>4, PushDelivery, ProcessChannelDelivery, ScanRetransmitDelivery,
     ScanDropDelivery, GoOnDelivery, DeliverOnceDelivery DEF Next

LEMMA DeliveryImplies ==
    ASSUME TypeOK, Numbering, DeliveryInv
    PROVE  DeliveredAtMostOnce /\ ConfirmedHasArrived
<1>1. DeliveredAtMostOnce
  <2> SUFFICES ASSUME NEW n \in Node, NEW p \in Packet, p \in pushed, Traffic[p].reliable,
                      Traffic[p].from \notin wrapped
               PROVE  delivered[n][p] <= 1
    BY DEF DeliveredAtMostOnce
  <2>1. p \in DOMAIN Traffic /\ delivered[n][p] \in 0..MaxCopies /\ MaxCopies \in Nat
    BY Numbers DEF TypeOK
  <2>2. delivered[n][p] > 0 => delivered[n][p] = 1
    BY <2>1 DEF DeliveryInv, SeenIsDelivered
  <2> QED
    BY <2>1, <2>2
<1>2. ConfirmedHasArrived
  <2> SUFFICES ASSUME NEW c \in confirmed, NEW a \in stamped, c.from \notin wrapped,
                      a.from = c.from, a.seq = c.seq
               PROVE  delivered[a.to][a.body] > 0 \/ InHand(a.to, a.from, a.seq)
    BY DEF ConfirmedHasArrived
  <2>1. PICK m \in Node : Heard(m, c.from, c.seq)
    BY DEF DeliveryInv, ConfirmedIsHeard
  <2>2. PICK b \in stamped : /\ b.from = c.from /\ b.seq = c.seq /\ b.to = m
                             /\ delivered[m][b.body] > 0 \/ InHand(m, c.from, c.seq)
    BY <2>1 DEF Heard
  <2>3. a = b
    BY <2>2 DEF Numbering, NumberNamesOnePacket
  <2> QED
    BY <2>2, <2>3
<1> QED
  BY <1>1, <1>2

\* With one worker and reliable packets for one peer each: a reliable packet is
\* delivered at most once, however often it is retransmitted and duplicated, as
\* long as its sender's counter has not wrapped.
THEOREM ChannelDeliversAtMostOnce ==
    ASSUME OneWorker, ReliableIsUnicast
    PROVE  Spec => []DeliveredAtMostOnce
<1>1. Init => TypeOK /\ Numbering /\ DeliveryInv
  BY InitTypeOK, InitNumbering, InitDelivery
<1>2. TypeOK /\ Numbering /\ DeliveryInv /\ [Next]_vars => (TypeOK /\ Numbering /\ DeliveryInv)'
  BY NextTypeOK, NextNumbering, NextDelivery
<1>3. TypeOK /\ Numbering /\ DeliveryInv => DeliveredAtMostOnce
  BY DeliveryImplies
<1> QED
  BY <1>1, <1>2, <1>3, PTL DEF Spec

\* In the same setting an acknowledgement removes a receipt only when the peer has
\* the packet: lost, late and duplicated acknowledgements confirm nothing else.
THEOREM ChannelConfirmedHasArrived ==
    ASSUME OneWorker, ReliableIsUnicast
    PROVE  Spec => []ConfirmedHasArrived
<1>1. Init => TypeOK /\ Numbering /\ DeliveryInv
  BY InitTypeOK, InitNumbering, InitDelivery
<1>2. TypeOK /\ Numbering /\ DeliveryInv /\ [Next]_vars => (TypeOK /\ Numbering /\ DeliveryInv)'
  BY NextTypeOK, NextNumbering, NextDelivery
<1>3. TypeOK /\ Numbering /\ DeliveryInv => ConfirmedHasArrived
  BY DeliveryImplies
<1> QED
  BY <1>1, <1>2, <1>3, PTL DEF Spec

-----------------------------------------------------------------------------
(* Nothing is forgotten on the way, in the same setting.                      *)

\* A worker that has filed the receipt holds the packet no more.
Kept(n, it) ==
    \/ InQueue(n, it) \/ InPool(n, it) \/ Filed(n, it)
    \/ \E w \in Worker : Busy(n, w, it) /\ wpc[n][w] \in {"send", "receipt"}
HasIt(m, p) == delivered[m][p] > 0 \/ (hand[m] # None /\ hand[m].body = p)
Watched(p, n, it) ==
    /\ p \in pushed /\ it = AppItem(p) /\ n = Traffic[p].from /\ n \notin wrapped
    /\ Traffic[p].reliable /\ ~scenario.mayExpire /\ ~scenario.mayFail
NotForgotten ==
    \A p \in Packet, n \in Node, it \in Item : Watched(p, n, it) =>
        Kept(n, it) \/ \A m \in Targets(n, it.to) : HasIt(m, p)

\* What is kept, or has arrived, stays so.
LEMMA NotForgottenKept ==
    ASSUME TypeOK, NotForgotten, UNCHANGED <<pushed, scenario>>, wrapped \subseteq wrapped',
           \A p \in Packet, n \in Node, it \in Item : Watched(p, n, it) =>
               /\ \A m \in Node : HasIt(m, p) => HasIt(m, p)'
               /\ Kept(n, it) => Kept(n, it)' \/ \A m \in Targets(n, it.to) : HasIt(m, p)'
    PROVE  NotForgotten'
<1> SUFFICES ASSUME NEW p \in Packet, NEW n \in Node, NEW it \in Item, Watched(p, n, it)'
             PROVE  Kept(n, it)' \/ \A m \in Targets(n, it.to) : HasIt(m, p)'
  BY DEF NotForgotten, Targets, Peers
<1>1. Watched(p, n, it)
  BY DEF Watched, AppItem, Traffic
<1>2. Targets(n, it.to) \subseteq Node
  BY TargetsType
<1> QED
  BY <1>1, <1>2 DEF NotForgotten

\* The packet under watch.
LEMMA WatchedFacts ==
    ASSUME TypeOK, NEW p \in Packet, NEW n \in Node, NEW it \in Item, Watched(p, n, it)
    PROVE  /\ p \in DOMAIN Traffic /\ it.type = "Data" /\ it.body = p /\ it.reliable
           /\ it.to = Traffic[p].to /\ Traffic[p].reliable /\ n \notin wrapped
BY DEF Watched, TypeOK, AppItem

\* A step that leaves the incoming threads alone.
LEMMA ArrivedKept ==
    ASSUME UNCHANGED <<delivered, hand>>, NEW m, NEW p, HasIt(m, p)
    PROVE  HasIt(m, p)'
BY DEF HasIt

LEMMA PushForgets ==
    ASSUME TypeOK, NotForgotten, NEW p \in Packet, Push(p)
    PROVE  NotForgotten'
<1> DEFINE x == Traffic[p].from
           c == Traffic[p].channel
           q == Traffic[p].priority
<1>1. /\ AppItem(p) \in Item /\ x \in Node /\ c \in Channel /\ q \in Priority
  BY AppItemType, TrafficType DEF TypeOK, Push
<1>2. UNCHANGED <<pool, wpc, item, left, hand, seen, delivered, next_seq, receipts, net,
                  stamped, confirmed, wrapped, scenario>>
  BY DEF Push, workerVars, inVars
<1>3. \A y \in Node, d \in Channel, r \in Priority :
         queue'[y][d][r] = IF y = x /\ d = c /\ r = q THEN Append(queue[x][c][q], AppItem(p))
                           ELSE queue[y][d][r]
  <2>1. queue \in [Node -> [Channel -> [Priority -> Seq(Item)]]]
    BY DEF TypeOK
  <2>2. queue' = [queue EXCEPT ![x][c][q] = Append(@, AppItem(p))]
    BY DEF Push, Enqueue
  <2> HIDE DEF x, c, q
  <2> QED
    BY ONLY <1>1, <2>1, <2>2
<1>4. \A e : InSeq(Append(queue[x][c][q], AppItem(p)), e) <=>
                InSeq(queue[x][c][q], e) \/ e = AppItem(p)
  BY <1>1, InAppend DEF TypeOK
<1>5. \A n \in Node, e \in Item :
         (n = x /\ e = AppItem(p)) \/ InQueue(n, e) => InQueue(n, e)'
  BY <1>1, <1>3, <1>4 DEF InQueue
<1>6. \A n \in Node, e \in Item : Kept(n, e) => Kept(n, e)'
  BY <1>2, <1>5 DEF Kept, InPool, Filed, Busy
<1> SUFFICES ASSUME NEW r \in Packet, NEW n \in Node, NEW it \in Item, Watched(r, n, it)'
             PROVE  Kept(n, it)' \/ \A m \in Targets(n, it.to) : HasIt(m, r)'
  BY DEF NotForgotten, Targets, Peers
<1>7. CASE r = p
  BY <1>2, <1>5, <1>7 DEF Watched, AppItem, Traffic, Kept
<1>8. CASE r # p
  <2>1. Watched(r, n, it)
    BY <1>2, <1>8 DEF Watched, AppItem, Traffic, Push
  <2> QED
    BY <1>2, <1>6, <2>1, ArrivedKept DEF NotForgotten
<1> QED
  BY <1>7, <1>8

\* What is not the oldest in a queue stays in it.
LEMMA TailKeeps ==
    ASSUME NEW S, NEW s \in Seq(S), s # <<>>, NEW x, InSeq(s, x), x # Head(s)
    PROVE  InSeq(Tail(s), x)
<1>1. PICK i \in 1..Len(s) : s[i] = x
  BY DEF InSeq
<1>2. /\ Len(s) \in Nat \ {0} /\ Len(Tail(s)) = Len(s) - 1 /\ Head(s) = s[1]
      /\ \A k \in 1..Len(Tail(s)) : Tail(s)[k] = s[k + 1]
  OBVIOUS
<1>3. i # 1
  BY <1>1, <1>2
<1>4. i - 1 \in 1..Len(Tail(s)) /\ (i - 1) + 1 = i
  BY <1>2, <1>3
<1>5. Tail(s)[i - 1] = x
  BY <1>1, <1>2, <1>4
<1> QED
  BY <1>4, <1>5 DEF InSeq

LEMMA ProcessChannelForgets ==
    ASSUME TypeOK, NotForgotten, NEW n \in Node, NEW c \in Channel, ProcessChannel(n, c)
    PROVE  NotForgotten'
<1>1. PICK q \in Backlogged(n, c) :
         /\ pool' = [pool EXCEPT ![n] = Append(@, Head(queue[n][c][q]))]
         /\ queue' = [queue EXCEPT ![n][c][q] = Tail(@)]
  BY DEF ProcessChannel
<1>2. PICK it : it = Head(queue[n][c][q])
  OBVIOUS
<1>3. /\ q \in Priority /\ queue[n][c][q] \in Seq(Item) /\ queue[n][c][q] # <<>>
      /\ it \in Item /\ pool[n] \in Seq(Item)
  BY <1>2, HeadTail DEF TypeOK, Backlogged
<1>4. UNCHANGED <<wpc, item, left, hand, delivered, receipts, pushed, wrapped, scenario>>
  BY DEF ProcessChannel, workerVars, inVars
<1>5. \A x \in Node, d \in Channel, r \in Priority :
         queue'[x][d][r] = IF x = n /\ d = c /\ r = q THEN Tail(queue[n][c][q])
                           ELSE queue[x][d][r]
  BY <1>1, <1>3 DEF TypeOK
<1>6. \A x \in Node : pool'[x] = IF x = n THEN Append(pool[n], it) ELSE pool[x]
  BY <1>1, <1>2 DEF TypeOK
<1>7. \A e : InSeq(Append(pool[n], it), e) <=> InSeq(pool[n], e) \/ e = it
  BY <1>3, InAppend
<1>8. \A e : InSeq(queue[n][c][q], e) => e = it \/ InSeq(Tail(queue[n][c][q]), e)
  BY <1>2, <1>3, TailKeeps
<1>9. \A x \in Node, e \in Item : InPool(x, e) \/ (x = n /\ e = it) => InPool(x, e)'
  BY <1>6, <1>7 DEF InPool
<1>10. \A x \in Node, e \in Item : InQueue(x, e) => InQueue(x, e)' \/ (x = n /\ e = it)
  BY <1>3, <1>5, <1>8 DEF InQueue
<1>11. \A x \in Node, e \in Item : Kept(x, e) => Kept(x, e)'
  BY <1>4, <1>9, <1>10 DEF Kept, Filed, Busy
<1> QED
  BY <1>4, <1>11, ArrivedKept, NotForgottenKept

LEMMA TakeForgets ==
    ASSUME TypeOK, NotForgotten, NEW n \in Node, NEW w \in Worker, Take(n, w)
    PROVE  NotForgotten'
<1>1. PICK it : it = Head(pool[n])
  OBVIOUS
<1>2. pool[n] \in Seq(Item) /\ pool[n] # <<>> /\ it \in Item
  BY <1>1, HeadTail DEF TypeOK, Take
<1>3. PICK ms : ms = Targets(n, it.to) /\ GoOn(n, w, it, ms)
  BY <1>1 DEF Take
<1>4. UNCHANGED <<queue, hand, delivered, receipts, pushed, wrapped, scenario>>
  BY DEF Take, inVars
<1>5. \A x \in Node : pool'[x] = IF x = n THEN Tail(pool[n]) ELSE pool[x]
  BY DEF Take, TypeOK
<1>6. \A e : InSeq(pool[n], e) => e = it \/ InSeq(Tail(pool[n]), e)
  BY <1>1, <1>2, TailKeeps
<1>7. \A x \in Node, e \in Item : InPool(x, e) => InPool(x, e)' \/ (x = n /\ e = it)
  BY <1>5, <1>6 DEF InPool
<1>8. wpc[n][w] = "idle"
  BY DEF Take
<1>9. \A x \in Node, e \in Item, v \in Worker :
         Busy(x, v, e) => Busy(x, v, e)' /\ wpc'[x][v] = wpc[x][v]
  BY <1>3, <1>8, GoOnOthers DEF Busy
<1>10. ms # {} => Busy(n, w, it)' /\ wpc'[n][w] = "send"
  BY <1>3, GoOnOthers DEF Busy
<1>11. \A x \in Node, e \in Item :
          Kept(x, e) => Kept(x, e)' \/ (x = n /\ e = it /\ ms = {})
  BY <1>4, <1>7, <1>9, <1>10 DEF Kept, InQueue, Filed
<1>12. \A p \in Packet, x \in Node, e \in Item : Watched(p, x, e) =>
          (Kept(x, e) => (Kept(x, e)' \/ \A m \in Targets(x, e.to) : HasIt(m, p)'))
  BY <1>3, <1>11
<1> QED
  BY <1>4, <1>12, ArrivedKept, NotForgottenKept

\* Sending, and going on to the next peer, where sendto() does not fail.
LEMMA SendForgets ==
    ASSUME TypeOK, NotForgotten, NEW n \in Node, NEW w \in Worker,
           \/ \E m \in Node : Transmit(n, w, m) \/ TransmitFails(n, w, m)
           \/ Bump(n, w)
    PROVE  NotForgotten'
<1>1. UNCHANGED <<queue, pool, hand, delivered, receipts, pushed, scenario>>
  BY DEF Transmit, TransmitFails, Bump, outVars, inVars
<1>2. wrapped \subseteq wrapped'
  BY DEF Transmit, TransmitFails, Bump
<1>3. ~scenario.mayFail => \A x \in Node, e \in Item, v \in Worker :
         Busy(x, v, e) /\ wpc[x][v] \in {"send", "receipt"} =>
             Busy(x, v, e)' /\ wpc'[x][v] \in {"send", "receipt"}
  <2>1. CASE \E m \in Node : Transmit(n, w, m)
    BY <2>1 DEF Transmit, Busy, TypeOK
  <2>2. CASE Bump(n, w)
    <3>1. PICK ms : GoOn(n, w, item[n][w], ms)
      BY <2>2 DEF Bump
    <3>2. wpc[n][w] = "bump"
      BY <2>2 DEF Bump
    <3> QED
      BY <3>1, <3>2, GoOnOthers DEF Busy
  <2>3. CASE \E m \in Node : TransmitFails(n, w, m)
    BY <2>3 DEF TransmitFails
  <2> QED
    BY <2>1, <2>2, <2>3
<1>4. \A p \in Packet, x \in Node, e \in Item : Watched(p, x, e) =>
         (Kept(x, e) => Kept(x, e)')
  BY <1>1, <1>3 DEF Watched, Kept, InQueue, InPool, Filed
<1> QED
  BY <1>1, <1>2, <1>4, ArrivedKept, NotForgottenKept

LEMMA InitForgets == Init => NotForgotten
BY DEF Init, NotForgotten, Watched

\* The receipt is filed, or one with the same packet is there already.
LEMMA AddReceiptForgets ==
    ASSUME TypeOK, Numbering, DeliveryInv, NotForgotten, NEW n \in Node, NEW w \in Worker,
           AddReceiptIfNeeded(n, w)
    PROVE  NotForgotten'
<1>1. PICK it, s : it = item[n][w] /\ s = next_seq[n]
  OBVIOUS
<1>2. it \in Item /\ s \in SeqNum /\ wpc[n][w] = "receipt"
  BY <1>1 DEF AddReceiptIfNeeded, TypeOK
<1>3. UNCHANGED <<queue, pool, item, left, hand, delivered, pushed, wrapped, scenario>>
  BY DEF AddReceiptIfNeeded, outVars, inVars
<1>4. \A x \in Node, v \in Worker : <<x, v>> # <<n, w>> => wpc'[x][v] = wpc[x][v]
  BY DEF AddReceiptIfNeeded, TypeOK
<1>5. \A x \in Node : x # n => receipts'[x] = receipts[x]
  BY DEF AddReceiptIfNeeded, TypeOK
<1>6. receipts'[n] = IF it.reliable /\ s \notin DOMAIN receipts[n]
                       THEN [k \in DOMAIN receipts[n] \cup {s} |->
                                IF k = s THEN it ELSE receipts[n][k]]
                       ELSE receipts[n]
  BY <1>1 DEF AddReceiptIfNeeded, TypeOK
<1>7. \A x \in Node, e \in Item : Filed(x, e) => Filed(x, e)'
  <2>1. \A e : (\E k \in DOMAIN receipts[n] : receipts[n][k] = e) =>
               (\E k \in DOMAIN receipts'[n] : receipts'[n][k] = e)
    BY <1>6
  <2> QED
    BY <1>5, <2>1 DEF Filed
<1>8. ASSUME NEW p \in Packet, Watched(p, n, it) PROVE Filed(n, it)'
  <2>1. it.type = "Data" /\ it.body = p /\ it.reliable /\ n \notin wrapped
    BY <1>2, <1>8, WatchedFacts
  <2>2. CASE s \notin DOMAIN receipts[n]
    BY <1>6, <2>1, <2>2 DEF Filed
  <2>3. CASE s \in DOMAIN receipts[n]
    <3>1. PICK r \in Item : r = receipts[n][s] /\ r.reliable
      BY <2>3 DEF TypeOK
    <3>2. PICK a \in stamped : a.from = n /\ a.seq = s /\ a.body = r.body
      BY <2>1, <2>3, <3>1 DEF Numbering, ReceiptUnderItsNumber
    <3>3. PICK b \in stamped : b.from = n /\ b.seq = s /\ b.body = it.body
      BY <1>1, <1>2, <2>1 DEF Numbering, SentUnderCounter
    <3>4. r.body = p
      BY <2>1, <3>2, <3>3 DEF Numbering, NumberNamesOnePacket
    <3>5. Has(n, r)
      BY <2>3, <3>1 DEF Has, Filed
    <3>6. r.type = "Data"
      BY <3>1, ItemType
    <3>7. r = it
      BY <1>8, <3>4, <3>5, <3>6 DEF DeliveryInv, ItemsAreGood, Good, Watched
    <3>8. Filed(n, it)
      BY <2>3, <3>1, <3>7 DEF Filed
    <3> QED
      BY <1>2, <1>7, <3>8
  <2> QED
    BY <2>2, <2>3
<1>9. \A x \in Node, e \in Item, v \in Worker :
         Busy(x, v, e) /\ wpc[x][v] \in {"send", "receipt"} =>
             \/ Busy(x, v, e)' /\ wpc'[x][v] \in {"send", "receipt"}
             \/ x = n /\ e = it
  BY <1>1, <1>3, <1>4 DEF Busy
<1>10. \A p \in Packet, x \in Node, e \in Item : Watched(p, x, e) =>
          (Kept(x, e) => Kept(x, e)')
  BY <1>3, <1>7, <1>8, <1>9 DEF Kept, InQueue, InPool
<1> QED
  BY <1>3, <1>10, ArrivedKept, NotForgottenKept

\* Nothing an endpoint keeps changes: a retransmission, a loss, a stuttering step;
\* an expired receipt, where receipts may expire.
LEMMA IdleForgets ==
    ASSUME TypeOK, NotForgotten,
           UNCHANGED <<outVars, workerVars, inVars, pushed, wrapped, scenario>>,
           UNCHANGED receipts \/ scenario.mayExpire
    PROVE  NotForgotten'
<1>1. UNCHANGED <<queue, pool, wpc, item, left, hand, delivered>>
  BY DEF outVars, workerVars, inVars
<1>2. \A p \in Packet, n \in Node, it \in Item : Watched(p, n, it) =>
          (Kept(n, it) => Kept(n, it)')
  <2>1. \A n \in Node, it \in Item : /\ InQueue(n, it)' = InQueue(n, it)
                                     /\ InPool(n, it)' = InPool(n, it)
                                     /\ \A w \in Worker : Busy(n, w, it)' = Busy(n, w, it)
    BY <1>1 DEF InQueue, InPool, Busy
  <2>2. UNCHANGED receipts => \A n \in Node, it \in Item : Filed(n, it)' = Filed(n, it)
    BY DEF Filed
  <2>3. scenario.mayExpire => \A p \in Packet, n \in Node, it \in Item : ~Watched(p, n, it)
    BY DEF Watched
  <2> QED
    BY <1>1, <2>1, <2>2, <2>3 DEF Kept
<1> QED
  BY <1>1, <1>2, ArrivedKept, NotForgottenKept

LEMMA ReceiveReliableForgets ==
    ASSUME TypeOK, NotForgotten, NEW n \in Node, NEW d \in net, NEW stays \in BOOLEAN,
           ReceiveReliable(n, d, stays)
    PROVE  NotForgotten'
<1>1. PICK it : it = AckItem(d.src, d.seq)
  OBVIOUS
<1>2. d \in Message /\ d.src \in Node /\ d.seq \in SeqNum /\ hand[n] = None
  BY MessageType DEF ReceiveReliable, TypeOK
<1>3. it \in Item
  BY <1>1, <1>2 DEF AckItem, Item
<1>4. UNCHANGED <<pool, wpc, item, left, delivered, receipts, pushed, wrapped, scenario>>
  BY DEF ReceiveReliable, workerVars
<1>5. \A x \in Node : x # n => hand'[x] = hand[x]
  BY DEF ReceiveReliable, TypeOK
<1>6. "Control" \in Channel /\ High \in Priority
  BY NumberAssumption DEF Channel
<1>7. \A x \in Node, c \in Channel, q \in Priority :
         queue'[x][c][q] = IF x = n /\ c = "Control" /\ q = High
                             THEN Append(queue[n]["Control"][High], it) ELSE queue[x][c][q]
  BY <1>1, <1>6 DEF ReceiveReliable, Enqueue, TypeOK
<1>8. \A e : InSeq(queue[n]["Control"][High], e) =>
                InSeq(Append(queue[n]["Control"][High], it), e)
  BY <1>3, <1>6, InAppend DEF TypeOK
<1>9. \A x \in Node, e \in Item : InQueue(x, e) => InQueue(x, e)'
  BY <1>7, <1>8 DEF InQueue
<1>10. \A x \in Node, e \in Item : Kept(x, e) => Kept(x, e)'
  BY <1>4, <1>9 DEF Kept, InPool, Filed, Busy
<1>11. \A m \in Node, p \in Packet : HasIt(m, p) => HasIt(m, p)'
  BY <1>2, <1>4, <1>5 DEF HasIt
<1> QED
  BY <1>4, <1>10, <1>11, NotForgottenKept

LEMMA ReceiveUnreliableForgets ==
    ASSUME TypeOK, NotForgotten, NEW n \in Node, NEW d \in net, NEW stays \in BOOLEAN,
           ReceiveUnreliable(n, d, stays)
    PROVE  NotForgotten'
<1>1. d.body \in Packet
  BY MessageType DEF ReceiveUnreliable, TypeOK
<1>2. UNCHANGED <<queue, pool, wpc, item, left, hand, receipts, pushed, wrapped, scenario>>
  BY DEF ReceiveUnreliable, outVars, workerVars
<1>3. \A m \in Node, p \in Packet : delivered[m][p] > 0 => delivered'[m][p] > 0
  BY <1>1, DeliverType DEF ReceiveUnreliable
<1>4. \A m \in Node, p \in Packet : HasIt(m, p) => HasIt(m, p)'
  BY <1>2, <1>3 DEF HasIt
<1>5. \A x \in Node, e \in Item : Kept(x, e) => Kept(x, e)'
  BY <1>2 DEF Kept, InQueue, InPool, Filed, Busy
<1> QED
  BY <1>2, <1>4, <1>5, NotForgottenKept

LEMMA DeliverOnceForgets ==
    ASSUME TypeOK, Numbering, DeliveryInv, NotForgotten, NEW n \in Node, DeliverOnce(n)
    PROVE  NotForgotten'
<1>1. PICK d \in Message : d = hand[n]
  BY DEF DeliverOnce, TypeOK
<1>2. /\ Traffic[d.body].from = d.src
      /\ \A m \in Node, p \in Packet : delivered[m][p] > 0 => delivered'[m][p] > 0
      /\ d.src \notin wrapped => delivered'[n][d.body] > 0
  BY <1>1, DeliverOnceFacts
<1>3. UNCHANGED <<queue, pool, wpc, item, left, receipts, pushed, wrapped, scenario>>
  BY DEF DeliverOnce, outVars, workerVars
<1>4. \A x \in Node : x # n => hand'[x] = hand[x]
  BY DEF DeliverOnce, TypeOK
<1>5. \A p \in Packet, x \in Node, e \in Item : Watched(p, x, e) =>
         \A m \in Node : HasIt(m, p) => HasIt(m, p)'
  BY <1>1, <1>2, <1>4 DEF HasIt, Watched
<1>6. \A x \in Node, e \in Item : Kept(x, e) => Kept(x, e)'
  BY <1>3 DEF Kept, InQueue, InPool, Filed, Busy
<1> QED
  BY <1>3, <1>5, <1>6, NotForgottenKept

\* An acknowledgement from a peer that has heard a number: the packet with this
\* number has reached the one peer it is for.
LEMMA HeardHasIt ==
    ASSUME TypeOK, ReliableIsUnicast, Numbering, DeliveryInv, NEW n \in Node, NEW m \in Node,
           NEW s \in DOMAIN receipts[n], NEW p \in Packet, NEW it \in Item,
           Watched(p, n, it), receipts[n][s] = it, Heard(m, n, s)
    PROVE  \A x \in Targets(n, it.to) : HasIt(x, p)
<1>1. /\ p \in DOMAIN Traffic /\ it.body = p /\ it.to = Traffic[p].to
      /\ Traffic[p].reliable /\ n \notin wrapped
  BY WatchedFacts
<1>2. PICK a \in stamped : /\ a.from = n /\ a.seq = s /\ a.to = m
                           /\ delivered[m][a.body] > 0 \/ InHand(m, n, s)
  BY DEF Heard
<1>3. PICK b \in stamped : b.from = n /\ b.seq = s /\ b.body = p
  BY <1>1 DEF Numbering, ReceiptUnderItsNumber
<1>4. \A x \in stamped : x.from = n /\ x.seq = s => x = b
  BY <1>1, <1>3 DEF Numbering, NumberNamesOnePacket
<1>5. a.body = p /\ m \in Targets(n, Traffic[p].to)
  BY <1>2, <1>3, <1>4 DEF DeliveryInv, StampsAreGood
<1>6. ASSUME InHand(m, n, s) PROVE hand[m] # None /\ hand[m].body = p
  <2>1. PICK h \in Message : h = hand[m] /\ h.reliable /\ h.src = n /\ h.seq = s
    BY <1>6 DEF InHand, TypeOK
  <2>2. h.type = "Data" /\ hand[m] # None
    BY <1>6, <2>1, MessageType DEF InHand
  <2>3. Genuine(h)
    BY <2>1, <2>2 DEF DeliveryInv, DatagramsAreGenuine
  <2>4. PICK c \in stamped : c.from = n /\ c.seq = s /\ c.body = h.body
    BY <1>1, <2>1, <2>2, <2>3 DEF Genuine
  <2>5. h.body = p
    BY <1>3, <1>4, <2>4
  <2> QED
    BY <2>1, <2>2, <2>5
<1>7. HasIt(m, p)
  BY <1>2, <1>5, <1>6 DEF HasIt
<1>8. \A x \in Targets(n, Traffic[p].to) : x = m
  BY <1>1, <1>5, OneTarget DEF TypeOK
<1> QED
  BY <1>1, <1>7, <1>8

LEMMA ReceiveAckForgets ==
    ASSUME TypeOK, ReliableIsUnicast, Numbering, DeliveryInv, NotForgotten,
           NEW n \in Node, NEW d \in net, NEW stays \in BOOLEAN, ReceiveAck(n, d, stays)
    PROVE  NotForgotten'
<1>1. PICK s : s = d.body
  OBVIOUS
<1>2. d \in Message /\ d.dst = n /\ d.type = "Acknowledgement" /\ d.src \in Node
  BY MessageType DEF ReceiveAck, TypeOK
<1>3. UNCHANGED <<queue, pool, wpc, item, left, hand, delivered, pushed, wrapped, scenario>>
  BY DEF ReceiveAck, outVars, workerVars, inVars
<1>4. n \notin wrapped => Heard(d.src, n, s)
  BY <1>1, <1>2 DEF DeliveryInv, DatagramsAreGenuine, Genuine
<1>5. \A x \in Node : \A k \in DOMAIN receipts[x] : (x = n /\ k = s) \/
         (k \in DOMAIN receipts'[x] /\ receipts'[x][k] = receipts[x][k])
  BY <1>1 DEF ReceiveAck, TypeOK, Without
<1>6. \A m \in Node, p \in Packet : HasIt(m, p) => HasIt(m, p)'
  BY <1>3, ArrivedKept
<1>7. ASSUME NEW p \in Packet, NEW x \in Node, NEW e \in Item, Watched(p, x, e), Kept(x, e)
      PROVE  Kept(x, e)' \/ \A m \in Targets(x, e.to) : HasIt(m, p)'
  <2>1. CASE Filed(x, e)
    <3>1. PICK k \in DOMAIN receipts[x] : receipts[x][k] = e
      BY <2>1 DEF Filed
    <3>2. CASE x = n /\ k = s
      <4>1. n \notin wrapped
        BY <1>7, <3>2, WatchedFacts
      <4>2. \A m \in Targets(x, e.to) : HasIt(m, p)
        BY <1>2, <1>4, <1>7, <3>1, <3>2, <4>1, HeardHasIt
      <4>3. Targets(x, e.to) \subseteq Node
        BY TargetsType
      <4> QED
        BY <1>6, <4>2, <4>3
    <3>3. CASE ~(x = n /\ k = s)
      BY <1>5, <3>1, <3>3 DEF Kept, Filed
    <3> QED
      BY <3>2, <3>3
  <2>2. CASE ~Filed(x, e)
    BY <1>3, <1>7, <2>2 DEF Kept, InQueue, InPool, Busy
  <2> QED
    BY <2>1, <2>2
<1> QED
  BY <1>3, <1>6, <1>7, NotForgottenKept

LEMMA NextForgets ==
    ASSUME ReliableIsUnicast, TypeOK, Numbering, DeliveryInv, NotForgotten, [Next]_vars
    PROVE  NotForgotten'
<1>1. CASE UNCHANGED vars
  BY <1>1, IdleForgets DEF vars
<1>2. CASE \E p \in Packet : Push(p)
  BY <1>2, PushForgets
<1>3. ASSUME NEW n \in Node, NEW c \in Channel, ProcessChannel(n, c) PROVE NotForgotten'
  BY <1>3, ProcessChannelForgets
<1>4. ASSUME NEW n \in Node, NEW s \in SeqNum, ScanRetransmit(n, s) \/ ScanDrop(n, s)
      PROVE  NotForgotten'
  <2>1. /\ UNCHANGED <<outVars, workerVars, inVars, pushed, wrapped, scenario>>
        /\ UNCHANGED receipts \/ scenario.mayExpire
    BY <1>4 DEF ScanRetransmit, ScanDrop
  <2> QED
    BY <2>1, IdleForgets
<1>5. ASSUME NEW n \in Node, NEW w \in Worker,
             WorkerStep(n, w) \/ \E m \in Node : TransmitFails(n, w, m)
      PROVE  NotForgotten'
  BY <1>5, TakeForgets, AddReceiptForgets, SendForgets DEF WorkerStep
<1>6. ASSUME NEW n \in Node, NEW d \in net, NEW stays \in BOOLEAN, Receive(n, d, stays)
      PROVE  NotForgotten'
  BY <1>6, ReceiveReliableForgets, ReceiveUnreliableForgets, ReceiveAckForgets DEF Receive
<1>7. ASSUME NEW n \in Node, DeliverOnce(n) PROVE NotForgotten'
  BY <1>7, DeliverOnceForgets
<1>8. ASSUME NEW d \in net, Lose(d) PROVE NotForgotten'
  BY <1>8, IdleForgets DEF Lose
<1> QED
  BY <1>1, <1>2, <1>3, <1>4, <1>5, <1>6, <1>7, <1>8 DEF Next

LEMMA NotForgottenImplies ==
    ASSUME TypeOK, NotForgotten
    PROVE  NeverForgotten
<1> SUFFICES ASSUME NEW p \in pushed, Traffic[p].reliable, Traffic[p].from \notin wrapped,
                    ~scenario.mayExpire, ~scenario.mayFail
             PROVE  \/ UnderWay(p)
                    \/ \A m \in Targets(Traffic[p].from, Traffic[p].to) :
                          delivered[m][p] > 0 \/ (hand[m] # None /\ hand[m].body = p)
  BY DEF NeverForgotten
<1>1. PICK n, it : n = Traffic[p].from /\ it = AppItem(p)
  OBVIOUS
<1>2. p \in DOMAIN Traffic /\ p \in Packet /\ n \in Node /\ it \in Item
  BY <1>1, AppItemType, TrafficType DEF TypeOK
<1>3. Watched(p, n, it) /\ it.body = p /\ it.to = Traffic[p].to
  BY <1>1 DEF Watched, AppItem
<1>4. CASE Kept(n, it)
  <2>1. \A w \in Worker : Busy(n, w, it) /\ wpc[n][w] \in {"send", "receipt"} => item[n][w] # None
    BY <1>2, NoneAssumption DEF Busy
  <2> QED
    BY <1>1, <1>3, <1>4, <2>1 DEF Kept, InQueue, InPool, InSeq, Filed, Busy, UnderWay
<1>5. CASE \A m \in Targets(n, it.to) : HasIt(m, p)
  BY <1>1, <1>3, <1>5 DEF HasIt
<1> QED
  BY <1>2, <1>3, <1>4, <1>5 DEF NotForgotten

\* In the same setting a reliable packet passes from the queue to the executor, to
\* the worker and to the table of receipts without a gap: until its peer has it the
\* endpoint still holds it, unless the scan gave it up or sendto() failed.
THEOREM ChannelNeverForgets ==
    ASSUME OneWorker, ReliableIsUnicast
    PROVE  Spec => []NeverForgotten
<1> DEFINE IInv == TypeOK /\ Numbering /\ DeliveryInv /\ NotForgotten
<1>1. Init => IInv
  BY InitTypeOK, InitNumbering, InitDelivery, InitForgets
<1>2. IInv /\ [Next]_vars => IInv'
  BY NextTypeOK, NextNumbering, NextDelivery, NextForgets
<1>3. IInv => NeverForgotten
  BY NotForgottenImplies
<1> QED
  BY <1>1, <1>2, <1>3, PTL DEF Spec
=============================================================================
