-------------------------- MODULE ReliableChannel ---------------------------
(***************************************************************************)
(* Reliable delivery over UDP: the ZPacketQueue of every endpoint          *)
(* (znet/z_packet_queues.cc) with its PacketDispatcher, the receiving      *)
(* thread's duplicate filter, and the datagrams between the endpoints.     *)
(*                                                                         *)
(* Each endpoint has one outgoing thread, one incoming thread and the      *)
(* workers of its dispatch executor; they share the outgoing queues, the   *)
(* sequence counter and the table of receipts (awaiting_ack_packets_).     *)
(* One action is one access to that shared state.                          *)
(*                                                                         *)
(* Time is left out: whether the retry scan finds a receipt fresh, due or  *)
(* expired is a free choice here (RetryScan has the clock), and so is the  *)
(* order in which the outgoing thread serves its two channels and scans.   *)
(* Peers are named by their address; the handshake is over.                *)
(***************************************************************************)
EXTENDS Naturals, Sequences, FiniteSets

CONSTANTS
    Node, Server,       \* the endpoints; every other one is a client
    Worker,             \* the threads of an endpoint's dispatch executor
    Packet,             \* what the applications send
    Scenario,           \* the cases to consider: which packets are sent (from, to,
                        \* reliable, channel, priority), may a receipt get older
                        \* than kDropAfterSeconds, may sendto() fail?
    ToAll, ToServer,    \* ZPeerId::to_all, ZPeerId::to_server
    None,
    Priority,           \* the values of PacketPriority in use
    SeqMod,             \* 2^32 in the code: sequence numbers are u32
    MaxQueuedTasks,     \* of the dispatch executor, 0 for unbounded
    MaxBacklog,         \* bound: acknowledgements waiting at an endpoint
    MaxCopies           \* bound: deliveries counted per packet

Channel == {"Control", "Data"}
High == 2
SeqNum == 0..(SeqMod - 1)

ASSUME NodeAssumption == Server \in Node /\ {ToAll, ToServer, None} \cap Node = {}
ASSUME TrafficAssumption ==
    \A s \in Scenario :
        /\ DOMAIN s.traffic \subseteq Packet /\ {s.mayExpire, s.mayFail} \subseteq BOOLEAN
        /\ \A p \in DOMAIN s.traffic :
              s.traffic[p] \in [from : Node, to : Node \cup {ToAll, ToServer},
                               reliable : BOOLEAN, channel : Channel, priority : Priority]
ASSUME NumberAssumption ==
    /\ SeqMod \in Nat \ {0} /\ MaxQueuedTasks \in Nat
    /\ Priority \subseteq Nat /\ High \in Priority
    /\ MaxBacklog \in Nat \ {0} /\ MaxCopies \in Nat \ {0}

VARIABLES
    scenario,       \* one of Scenario
    queue,          \* channel_outgoing_queues_: node, channel, priority -> FIFO
    pool,           \* tasks submitted to the dispatch executor, oldest first
    wpc, item, left,\* a worker: its place, its packet, the peers left to serve
    next_seq,       \* next_outgoing_sequence_number_
    receipts,       \* awaiting_ack_packets_: sequence number -> packet
    net,            \* datagrams on the network
    hand,           \* the datagram the incoming thread is handling
    seen,           \* received_reliable_seqs, per source
    pushed,         \* packets the applications have pushed
    delivered,      \* history: how often a packet reached the incoming queue
    stamped,        \* history: which packet first went out under which number
    confirmed,      \* history: receipts removed by an acknowledgement
    wrapped         \* history: endpoints whose sequence counter has wrapped

outVars == <<queue, pool>>
workerVars == <<wpc, item, left>>
inVars == <<hand, seen, delivered>>
vars == <<outVars, workerVars, inVars, next_seq, receipts, net, pushed, stamped,
          confirmed, wrapped, scenario>>

Traffic == scenario.traffic

\* OutgoingPacket: an application packet, or the acknowledgement of a number.
AppItem(p) == [type |-> "Data", body |-> p, to |-> Traffic[p].to,
               reliable |-> Traffic[p].reliable]
\* An acknowledgement that carries the next number expected.
AckItemNext(n, s) == [type |-> "Acknowledgement", body |-> (s + 1) % SeqMod, to |-> n,
                      reliable |-> FALSE]
AckItem(n, s) == [type |-> "Acknowledgement", body |-> s, to |-> n,
                  reliable |-> FALSE]

\* The wire carries a sequence number in the header of reliable packets only.
Datagram(n, m, it, s) == [src |-> n, dst |-> m, type |-> it.type, body |-> it.body,
                          reliable |-> it.reliable,
                          seq |-> IF it.reliable THEN s ELSE 0]

\* ZPeerMapping after the handshakes: a client knows the server only.
Peers(n) == IF n = Server THEN Node \ {Server} ELSE {Server}

\* The addresses that DispatchPacket or RetransmitPacket sends to.
Targets(n, to) == IF to = ToServer THEN {Server}
                  ELSE IF to = ToAll THEN Peers(n)
                  ELSE {to} \cap Peers(n)

Init ==
    /\ scenario \in Scenario
    /\ queue = [n \in Node |-> [c \in Channel |-> [q \in Priority |-> <<>>]]]
    /\ pool = [n \in Node |-> <<>>]
    /\ wpc = [n \in Node |-> [w \in Worker |-> "idle"]]
    /\ item = [n \in Node |-> [w \in Worker |-> None]]
    /\ left = [n \in Node |-> [w \in Worker |-> {}]]
    /\ next_seq = [n \in Node |-> 0]
    /\ receipts = [n \in Node |-> <<>>]
    /\ net = {}
    /\ hand = [n \in Node |-> None]
    /\ seen = [n \in Node |-> [m \in Node |-> {}]]
    /\ pushed = {}
    /\ delivered = [n \in Node |-> [p \in Packet |-> 0]]
    /\ stamped = {}
    /\ confirmed = {}
    /\ wrapped = {}

-----------------------------------------------------------------------------
(* The application and the outgoing thread *)

Enqueue(n, c, q, it) == queue' = [queue EXCEPT ![n][c][q] = Append(@, it)]

\* Push, for a packet that the rate limiter lets through.
Push(p) ==
    LET t == Traffic[p] IN
    /\ p \in DOMAIN Traffic \ pushed
    /\ pushed' = pushed \cup {p}
    /\ Enqueue(t.from, t.channel, t.priority, AppItem(p))
    /\ UNCHANGED <<pool, workerVars, inVars, next_seq, receipts,
                   net, stamped, confirmed, wrapped, scenario>>

Backlogged(n, c) == {q \in Priority : queue[n][c][q] # <<>>}

\* One turn of ProcessChannel: take the oldest packet of the highest priority
\* and submit its dispatch; Submit blocks while the executor's queue is full.
ProcessChannel(n, c) ==
    /\ MaxQueuedTasks > 0 => Len(pool[n]) < MaxQueuedTasks
    /\ \E q \in Backlogged(n, c) :
         /\ \A r \in Backlogged(n, c) : r <= q
         /\ pool' = [pool EXCEPT ![n] = Append(@, Head(queue[n][c][q]))]
         /\ queue' = [queue EXCEPT ![n][c][q] = Tail(@)]
    /\ UNCHANGED <<workerVars, inVars, next_seq, receipts, net, pushed, stamped,
                   confirmed, wrapped, scenario>>

\* A retransmission that takes a new number.
ScanRetransmitRenumbered(n, s) ==
    /\ s \in DOMAIN receipts[n]
    /\ net' = net \cup {Datagram(n, m, receipts[n][s], next_seq[n]) :
                            m \in Targets(n, receipts[n][s].to)}
    /\ UNCHANGED <<outVars, workerVars, inVars, next_seq, receipts, pushed, stamped,
                   confirmed, wrapped, scenario>>

\* The scan finds a receipt due: RetransmitPacket, under the original number.
ScanRetransmit(n, s) ==
    /\ s \in DOMAIN receipts[n]
    /\ net' = net \cup {Datagram(n, m, receipts[n][s], s) :
                            m \in Targets(n, receipts[n][s].to)}
    /\ UNCHANGED <<outVars, workerVars, inVars, next_seq, receipts, pushed, stamped,
                   confirmed, wrapped, scenario>>

Without(f, s) == [k \in DOMAIN f \ {s} |-> f[k]]

\* The scan finds a receipt past kDropAfterSeconds and gives it up.
ScanDrop(n, s) ==
    /\ scenario.mayExpire
    /\ s \in DOMAIN receipts[n]
    /\ receipts' = [receipts EXCEPT ![n] = Without(@, s)]
    /\ UNCHANGED <<outVars, workerVars, inVars, next_seq, net, pushed, stamped,
                   confirmed, wrapped, scenario>>

-----------------------------------------------------------------------------
(* PacketDispatcher, on a worker of the executor *)

\* The task goes on with the peers ms, or ends when there is none.
GoOn(n, w, it, ms) ==
    /\ left' = [left EXCEPT ![n][w] = ms]
    /\ wpc' = [wpc EXCEPT ![n][w] = IF ms = {} THEN "idle" ELSE "send"]
    /\ item' = [item EXCEPT ![n][w] = IF ms = {} THEN None ELSE it]

\* DispatchPacket picks its peers; with no peer the packet is dropped.
Take(n, w) ==
    /\ wpc[n][w] = "idle"
    /\ pool[n] # <<>>
    /\ LET it == Head(pool[n]) IN GoOn(n, w, it, Targets(n, it.to))
    /\ pool' = [pool EXCEPT ![n] = Tail(@)]
    /\ UNCHANGED <<queue, inVars, next_seq, receipts, net, pushed,
                   stamped, confirmed, wrapped, scenario>>

\* BuildPacket reads the counter and the datagram goes out.
Transmit(n, w, m) ==
    /\ wpc[n][w] = "send"
    /\ m \in left[n][w]
    /\ LET it == item[n][w] IN
         /\ net' = net \cup {Datagram(n, m, it, next_seq[n])}
         /\ stamped' = IF it.reliable
                         THEN stamped \cup {[from |-> n, seq |-> next_seq[n],
                                             body |-> it.body, to |-> m]}
                         ELSE stamped
    /\ left' = [left EXCEPT ![n][w] = @ \ {m}]
    /\ wpc' = [wpc EXCEPT ![n][w] = "receipt"]
    /\ UNCHANGED <<outVars, item, inVars, next_seq, receipts, pushed, confirmed,
                   wrapped, scenario>>

\* sendto() fails: no receipt, no new number, on to the next peer.
TransmitFails(n, w, m) ==
    /\ scenario.mayFail
    /\ wpc[n][w] = "send"
    /\ m \in left[n][w]
    /\ GoOn(n, w, item[n][w], left[n][w] \ {m})
    /\ UNCHANGED <<outVars, inVars, next_seq, receipts, net, pushed, stamped,
                   confirmed, wrapped, scenario>>

\* The counter is advanced before the receipt is filed.
AddReceiptLate(n, w) ==
    LET it == item[n][w]
        s  == (next_seq[n] + 1) % SeqMod IN
    /\ wpc[n][w] = "receipt"
    /\ wpc' = [wpc EXCEPT ![n][w] = "bump"]
    /\ receipts' = [receipts EXCEPT ![n] =
                      IF it.reliable THEN [k \in DOMAIN @ \cup {s} |->
                                             IF k = s THEN it ELSE @[k]]
                                     ELSE @]
    /\ UNCHANGED <<outVars, item, left, inVars, next_seq, net, pushed, stamped,
                   confirmed, wrapped, scenario>>

\* No receipt is filed.
AddReceiptNever(n, w) ==
    /\ wpc[n][w] = "receipt"
    /\ wpc' = [wpc EXCEPT ![n][w] = "bump"]
    /\ UNCHANGED <<outVars, item, left, inVars, next_seq, receipts, net, pushed, stamped,
                   confirmed, wrapped, scenario>>

\* AddReceiptIfNeeded reads the counter again; insert() does not replace.
AddReceiptIfNeeded(n, w) ==
    LET it == item[n][w]
        s  == next_seq[n] IN
    /\ wpc[n][w] = "receipt"
    /\ wpc' = [wpc EXCEPT ![n][w] = "bump"]
    /\ receipts' = [receipts EXCEPT ![n] =
                      IF it.reliable /\ s \notin DOMAIN @
                        THEN [k \in DOMAIN @ \cup {s} |-> IF k = s THEN it ELSE @[k]]
                        ELSE @]
    /\ UNCHANGED <<outVars, item, left, inVars, next_seq, net, pushed, stamped,
                   confirmed, wrapped, scenario>>

\* next_outgoing_sequence_number_++, on to the next peer of a broadcast.
Bump(n, w) ==
    /\ wpc[n][w] = "bump"
    /\ next_seq' = [next_seq EXCEPT ![n] = (@ + 1) % SeqMod]
    /\ wrapped' = IF next_seq[n] = SeqMod - 1 THEN wrapped \cup {n} ELSE wrapped
    /\ GoOn(n, w, item[n][w], left[n][w])
    /\ UNCHANGED <<outVars, inVars, receipts, net, pushed, stamped,
                   confirmed, scenario>>

-----------------------------------------------------------------------------
(* The incoming thread *)

\* A datagram leaves the network, or stays there as a duplicate.
Arrives(d, stays) == /\ d \in net
                     /\ net' = IF stays THEN net ELSE net \ {d}

\* A reliable packet is acknowledged first, whether or not it is new.
ReceiveReliable(n, d, stays) ==
    /\ hand[n] = None
    /\ d.dst = n /\ d.type = "Data" /\ d.reliable
    /\ Len(queue[n]["Control"][High]) < MaxBacklog
    /\ Arrives(d, stays)
    /\ Enqueue(n, "Control", High, AckItem(d.src, d.seq))
    /\ hand' = [hand EXCEPT ![n] = d]
    /\ UNCHANGED <<pool, workerVars, seen, delivered, next_seq,
                   receipts, pushed, stamped, confirmed, wrapped, scenario>>

Deliver(n, p) == delivered' = [delivered EXCEPT ![n][p] =
                                 IF @ < MaxCopies THEN @ + 1 ELSE @]

\* Then it goes to the incoming queue, unless its number was seen before.
DeliverOnce(n) ==
    /\ hand[n] # None
    /\ seen' = [seen EXCEPT ![n][hand[n].src] = @ \cup {hand[n].seq}]
    /\ IF hand[n].seq \in seen[n][hand[n].src]
         THEN UNCHANGED delivered
         ELSE Deliver(n, hand[n].body)
    /\ hand' = [hand EXCEPT ![n] = None]
    /\ UNCHANGED <<outVars, workerVars, next_seq, receipts, net, pushed, stamped,
                   confirmed, wrapped, scenario>>

ReceiveUnreliable(n, d, stays) ==
    /\ hand[n] = None
    /\ d.dst = n /\ d.type = "Data" /\ ~d.reliable
    /\ Arrives(d, stays)
    /\ Deliver(n, d.body)
    /\ UNCHANGED <<outVars, workerVars, hand, seen, next_seq, receipts, pushed,
                   stamped, confirmed, wrapped, scenario>>

DestinationMatches(it, m) == it.to \in {m, ToServer, ToAll}

\* An acknowledgement removes the receipt of the number it carries.
ReceiveAck(n, d, stays) ==
    LET s == d.body IN
    /\ hand[n] = None
    /\ d.dst = n /\ d.type = "Acknowledgement"
    /\ Arrives(d, stays)
    /\ IF s \in DOMAIN receipts[n] /\ DestinationMatches(receipts[n][s], d.src)
         THEN /\ receipts' = [receipts EXCEPT ![n] = Without(@, s)]
              /\ confirmed' = confirmed \cup
                     {[from |-> n, seq |-> s, body |-> receipts[n][s].body]}
         ELSE UNCHANGED <<receipts, confirmed>>
    /\ UNCHANGED <<outVars, workerVars, inVars, next_seq, pushed, stamped, wrapped, scenario>>

Lose(d) == /\ d \in net
           /\ net' = net \ {d}
           /\ UNCHANGED <<outVars, workerVars, inVars, next_seq, receipts, pushed,
                          stamped, confirmed, wrapped, scenario>>

-----------------------------------------------------------------------------
WorkerStep(n, w) == \/ Take(n, w) \/ AddReceiptIfNeeded(n, w) \/ Bump(n, w)
                    \/ \E m \in Node : Transmit(n, w, m)
Receive(n, d, stays) == \/ ReceiveReliable(n, d, stays)
                        \/ ReceiveUnreliable(n, d, stays)
                        \/ ReceiveAck(n, d, stays)

Next ==
    \/ \E p \in Packet : Push(p)
    \/ \E n \in Node :
         \/ \E c \in Channel : ProcessChannel(n, c)
         \/ \E s \in SeqNum : ScanRetransmit(n, s) \/ ScanDrop(n, s)
         \/ \E w \in Worker : \/ WorkerStep(n, w)
                              \/ \E m \in Node : TransmitFails(n, w, m)
         \/ \E d \in net, stays \in BOOLEAN : Receive(n, d, stays)
         \/ DeliverOnce(n)
    \/ \E d \in net : Lose(d)

Spec == Init /\ [][Next]_vars

-----------------------------------------------------------------------------
(* Fairness: every thread that can run runs; the scan comes back to every    *)
(* receipt; the network loses some copies of a datagram but not all of them. *)

ReceiveData(p) == \E d \in net : /\ d.type = "Data" /\ d.body = p
                                 /\ Receive(d.dst, d, FALSE)
ReceiveAnAck(n) == \E d \in net : d.dst = n /\ ReceiveAck(n, d, FALSE)
Resend(p) == \E n \in Node, s \in SeqNum :
                 /\ s \in DOMAIN receipts[n] /\ receipts[n][s].body = p
                 /\ ScanRetransmit(n, s)

Fairness == /\ \A n \in Node : /\ WF_vars(\E c \in Channel : ProcessChannel(n, c))
                               /\ WF_vars(DeliverOnce(n))
                               /\ \A w \in Worker : WF_vars(WorkerStep(n, w))
            /\ \A p \in Packet : WF_vars(Resend(p)) /\ SF_vars(ReceiveData(p))
            /\ \A n \in Node : SF_vars(ReceiveAnAck(n))

FairSpec == Spec /\ Fairness

-----------------------------------------------------------------------------
Item == [type : {"Data"}, body : Packet, to : Node \cup {ToAll, ToServer},
         reliable : BOOLEAN]
        \cup [type : {"Acknowledgement"}, body : SeqNum, to : Node,
              reliable : {FALSE}]
Message == [src : Node, dst : Node, type : {"Data"}, body : Packet,
            reliable : BOOLEAN, seq : SeqNum]
           \cup [src : Node, dst : Node, type : {"Acknowledgement"}, body : SeqNum,
                 reliable : {FALSE}, seq : {0}]
ASSUME NoneAssumption == None \notin Message \cup Item

\* Type invariant of an endpoint's queues, workers, receipts and datagrams; a busy
\* worker has a packet, and the incoming thread holds reliable packets only.
TypeOK ==
    /\ scenario \in Scenario
    /\ queue \in [Node -> [Channel -> [Priority -> Seq(Item)]]]
    /\ pool \in [Node -> Seq(Item)]
    /\ wpc \in [Node -> [Worker -> {"idle", "send", "receipt", "bump"}]]
    /\ item \in [Node -> [Worker -> Item \cup {None}]]
    /\ left \in [Node -> [Worker -> SUBSET Node]]
    /\ \A n \in Node, w \in Worker : wpc[n][w] # "idle" => item[n][w] \in Item
    /\ next_seq \in [Node -> SeqNum]
    /\ DOMAIN receipts = Node
    /\ \A n \in Node : /\ DOMAIN receipts[n] \subseteq SeqNum
                       /\ \A s \in DOMAIN receipts[n] :
                              receipts[n][s] \in Item /\ receipts[n][s].reliable
    /\ net \subseteq Message
    /\ hand \in [Node -> {d \in Message : d.reliable} \cup {None}]
    /\ seen \in [Node -> [Node -> SUBSET SeqNum]]
    /\ pushed \subseteq DOMAIN Traffic
    /\ delivered \in [Node -> [Packet -> 0..MaxCopies]]
    /\ stamped \subseteq [from : Node, seq : SeqNum, body : Packet, to : Node]
    /\ confirmed \subseteq [from : Node, seq : SeqNum, body : Packet]
    /\ wrapped \subseteq Node

\* A sequence number names one packet to one peer, as long as the u32 counter
\* has not wrapped: z_packet_queues.cc relies on it ("Sequence numbers are only
\* unique within a single peer's dispatcher") and z_packet_bin_fmt.h states it.
NumberNamesOnePacket ==
    \A a, b \in stamped :
        a.from = b.from /\ a.seq = b.seq /\ a.from \notin wrapped => a = b

\* The receipt of a packet is filed under the number the packet went out with,
\* although DispatchToOne reads the counter twice.
ReceiptUnderItsNumber ==
    \A n \in Node \ wrapped : \A s \in DOMAIN receipts[n] :
        \E a \in stamped : /\ a.from = n /\ a.seq = s
                           /\ a.body = receipts[n][s].body

\* Why: the counter is ahead of every number in use, but for the packet that is
\* out and not counted yet, and that packet carries the counter's value.
CounterIsAhead ==
    \A a \in stamped : a.from \notin wrapped =>
        \/ a.seq < next_seq[a.from]
        \/ /\ a.seq = next_seq[a.from]
           /\ \E w \in Worker : wpc[a.from][w] \in {"receipt", "bump"}
SentUnderCounter ==
    \A n \in Node \ wrapped, w \in Worker :
        wpc[n][w] = "receipt" /\ item[n][w].reliable =>
            \E a \in stamped : /\ a.from = n /\ a.seq = next_seq[n]
                               /\ a.body = item[n][w].body

\* The numbering of an endpoint: types, one packet per number, and receipts under
\* the number their packet went out with (DispatchToOne, AddReceiptIfNeeded).
NumberingInv ==
    /\ TypeOK /\ NumberNamesOnePacket /\ ReceiptUnderItsNumber
    /\ CounterIsAhead /\ SentUnderCounter

\* z_packet_queues.cc: "only deliver once": retransmissions, duplicated
\* datagrams and lost acknowledgements never deliver a reliable packet twice.
DeliveredAtMostOnce ==
    \A n \in Node, p \in Packet :
        p \in pushed /\ Traffic[p].reliable /\ Traffic[p].from \notin wrapped => delivered[n][p] <= 1

\* The incoming thread of n is about to deliver the packet numbered s by m.
InHand(n, m, s) == hand[n] # None /\ hand[n].src = m /\ hand[n].seq = s

\* A receipt is removed by an acknowledgement only if the peer the packet was
\* numbered for has it: what the sender forgets has arrived.
ConfirmedHasArrived ==
    \A c \in confirmed, a \in stamped :
        /\ a.from = c.from /\ a.seq = c.seq /\ a.body = c.body
        /\ c.from \notin wrapped
        => delivered[a.to][a.body] > 0 \/ InHand(a.to, a.from, a.seq)

\* The packet is queued, with the executor, with a worker or under a receipt.
UnderWay(p) ==
    LET n == Traffic[p].from IN
    \/ \E c \in Channel, q \in Priority :
           \E i \in 1..Len(queue[n][c][q]) : queue[n][c][q][i].body = p
    \/ \E i \in 1..Len(pool[n]) : pool[n][i].body = p
    \/ \E w \in Worker : item[n][w] # None /\ item[n][w].body = p
                         /\ wpc[n][w] \in {"send", "receipt"}
    \/ \E s \in DOMAIN receipts[n] : receipts[n][s].body = p

\* ProcessChannel, DispatchPacket, AddReceiptIfNeeded: a reliable packet passes
\* from hand to hand without a gap; until its peers have it the endpoint still
\* holds it somewhere (unless the retry scan gave it up or sendto() failed).
NeverForgotten ==
    \A p \in pushed :
        Traffic[p].reliable /\ Traffic[p].from \notin wrapped
                            /\ ~scenario.mayExpire /\ ~scenario.mayFail
        => \/ UnderWay(p)
           \/ \A m \in Targets(Traffic[p].from, Traffic[p].to) :
                  delivered[m][p] > 0 \/ (hand[m] # None /\ hand[m].body = p)

-----------------------------------------------------------------------------
\* A reliable packet that was pushed reaches its peers, however many datagrams
\* and acknowledgements the network loses on the way.
EventuallyDelivered ==
    \A p \in Packet :
        (p \in pushed /\ Traffic[p].reliable)
            ~> (\A m \in Targets(Traffic[p].from, Traffic[p].to) : delivered[m][p] > 0)

\* The sender stops retransmitting: every receipt is acknowledged in the end.
EventuallyConfirmed ==
    \A n \in Node, s \in SeqNum :
        s \in DOMAIN receipts[n] ~> s \notin DOMAIN receipts[n]

=============================================================================
