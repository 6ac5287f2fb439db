------------------------------- MODULE AckMap -------------------------------
(***************************************************************************)
(* LockFreeOrderedHashMap (znet/fancy_queue.h) in its one use: the map     *)
(* awaiting_ack_packets_ of ZPacketQueue.  Dispatch workers insert, the    *)
(* incoming thread removes on an acknowledgement, the outgoing thread      *)
(* removes what its scan gives up and collects the garbage.  One action is *)
(* one access to shared memory, a search along a chain included.           *)
(***************************************************************************)
EXTENDS Naturals, FiniteSets

CONSTANTS
    Node,           \* the nodes ever allocated, one per insert
    Scenario,       \* the cases to consider: the key of the packet each node is
                    \* made for, hash_key, and a bound on collect_garbage calls
    Worker,         \* the threads that insert
    incoming,       \* the thread that removes acknowledged packets
    outgoing,       \* the thread that removes dropped ones and collects
    Null,
    CollectorAlone  \* does collect_garbage never overlap another call?

ASSUME MapAssumption ==
    /\ IsFiniteSet(Node) /\ Null \notin Node
    /\ \A s \in Scenario :
          /\ DOMAIN s.key = Node /\ {s.key[n] : n \in Node} \subseteq DOMAIN s.bucket
          /\ s.collections \in Nat
    /\ incoming # outgoing /\ {incoming, outgoing} \cap Worker = {}
    /\ CollectorAlone \in BOOLEAN

Thread == Worker \cup {incoming, outgoing}

VARIABLES
    scenario,       \* one of Scenario
    buckets,        \* head of each bucket chain
    bucketNext, orderNext, orderHead, orderTail,
    deleted,        \* nodes with is_deleted set
    allNodes,       \* nodes the collector knows
    freed,          \* nodes given back to the allocator
    pc,             \* where each thread is
    loc,            \* each thread's local pointers
    used,           \* history: nodes whose insert has begun
    inserted,       \* history: nodes whose insert has returned true
    collections,    \* history: collect_garbage calls so far
    links,          \* history: nodes linked into each bucket so far
    linkedAt        \* history: the number of each node in that count, 0 before

chains == <<buckets, bucketNext>>
order  == <<orderNext, orderHead, orderTail>>
memory == <<deleted, allNodes, freed>>
age    == <<links, linkedAt>>
mapVars == <<chains, order, memory, pc, loc, used, inserted, collections, age, scenario>>

KeyOf    == scenario.key
BucketOf == scenario.bucket
Bucket == {BucketOf[k] : k \in DOMAIN BucketOf}
Key    == {KeyOf[n] : n \in Node}

Idle == [node |-> Null, prev |-> Null, next |-> Null]

MapInit ==
        /\ scenario \in Scenario
        /\ buckets = [b \in Bucket |-> Null]
        /\ bucketNext = [n \in Node |-> Null]
        /\ orderNext = [n \in Node |-> Null]
        /\ orderHead = Null /\ orderTail = Null
        /\ deleted = {} /\ allNodes = {} /\ freed = {}
        /\ pc = [t \in Thread |-> "idle"]
        /\ loc = [t \in Thread |-> Idle]
        /\ used = {} /\ inserted = {} /\ collections = 0
        /\ links = [b \in Bucket |-> 0] /\ linkedAt = [n \in Node |-> 0]

\* The nodes met on a walk that starts at a pointer and follows next: those in
\* every set that holds the start and is closed under next.
Closed(S, next) == \A m \in S : next[m] \in S \cup {Null}
Walk(start, next) ==
    {n \in Node : \A S \in SUBSET Node :
                     start \in S \cup {Null} /\ Closed(S, next) => n \in S}

Chain(b)   == Walk(buckets[b], bucketNext)
OrderList  == Walk(orderHead, orderNext)
BucketFor(n) == BucketOf[KeyOf[n]]

\* find_in_bucket: the first node of the chain with the key, Null if none.
find_in_bucket(k) ==
    LET matches == {n \in Chain(BucketOf[k]) : KeyOf[n] = k}
    IN  IF matches = {} THEN Null
        ELSE CHOOSE n \in matches : matches \subseteq Walk(n, bucketNext)

\* prev_bucket_next_ptr: the node whose bucketNext leads to n, Null for the head.
PrevOf(n) == IF buckets[BucketFor(n)] = n THEN Null
             ELSE CHOOSE m \in Chain(BucketFor(n)) : bucketNext[m] = n

Collecting == pc[outgoing] \in {"gc next", "gc check", "gc tail", "gc sweep"}
MayCall(t) == pc[t] = "idle" /\ (CollectorAlone => ~Collecting)

Goto(t, label, l) == /\ pc' = [pc EXCEPT ![t] = label]
                     /\ loc' = [loc EXCEPT ![t] = l]
Return(t) == Goto(t, "idle", Idle)

-----------------------------------------------------------------------------
\* insert_internal, phase 1: the key is not in its bucket; allocate the node
\* and register it under allNodesMutex, which the collector holds for long.
InsertFind(w, n) ==
    /\ MayCall(w) /\ n \notin used /\ ~Collecting
    /\ find_in_bucket(KeyOf[n]) = Null
    /\ used' = used \cup {n}
    /\ allNodes' = allNodes \cup {n}
    /\ Goto(w, "load head", [Idle EXCEPT !.node = n])
    /\ UNCHANGED <<chains, order, deleted, freed, inserted, collections, age, scenario>>

\* The key is there, deleted or not: insert returns false.
InsertExists(w, n) ==
    /\ MayCall(w) /\ n \notin used
    /\ find_in_bucket(KeyOf[n]) # Null
    /\ used' = used \cup {n}
    /\ UNCHANGED <<chains, order, memory, pc, loc, inserted, collections, age, scenario>>

\* After a failed compare-and-swap the search is repeated; a node that has
\* become superfluous is deleted, though allNodes still names it.
InsertRetry(w) ==
    /\ pc[w] = "retry"
    /\ IF find_in_bucket(KeyOf[loc[w].node]) = Null
       THEN Goto(w, "load head", loc[w]) /\ UNCHANGED freed
       ELSE Return(w) /\ freed' = freed \cup {loc[w].node}
    /\ UNCHANGED <<chains, order, deleted, allNodes, used, inserted, collections, age, scenario>>

LoadHead(w) ==
    LET n == loc[w].node  head == buckets[BucketFor(n)]
    IN  /\ pc[w] = "load head"
        /\ bucketNext' = [bucketNext EXCEPT ![n] = head]
        /\ Goto(w, "swap head", [loc[w] EXCEPT !.next = head])
        /\ UNCHANGED <<buckets, order, memory, used, inserted, collections, age, scenario>>

\* compare_exchange on the bucket head; phase 2 begins with orderNext null.
SwapHead(w) ==
    LET n == loc[w].node  b == BucketFor(n)
    IN  /\ pc[w] = "swap head"
        /\ IF buckets[b] = loc[w].next
           THEN /\ buckets' = [buckets EXCEPT ![b] = n]
                /\ orderNext' = [orderNext EXCEPT ![n] = Null]
                /\ links' = [links EXCEPT ![b] = @ + 1]
                /\ linkedAt' = [linkedAt EXCEPT ![n] = links[b] + 1]
                /\ Goto(w, "load tail", [Idle EXCEPT !.node = n])
           ELSE Goto(w, "retry", loc[w]) /\ UNCHANGED <<buckets, orderNext, age>>
        /\ UNCHANGED <<bucketNext, orderHead, orderTail, memory, used, inserted,
                       collections, scenario>>

\* Phase 2: append to the order list.  loc.prev is current_tail.
LoadTail(w) ==
    /\ pc[w] = "load tail"
    /\ Goto(w, IF orderTail = Null THEN "first head" ELSE "load next",
            [loc[w] EXCEPT !.prev = orderTail])
    /\ UNCHANGED <<chains, order, memory, used, inserted, collections, age, scenario>>

FirstHead(w) ==
    /\ pc[w] = "first head"
    /\ IF orderHead = Null
       THEN orderHead' = loc[w].node /\ Goto(w, "first tail", loc[w])
       ELSE UNCHANGED orderHead /\ Goto(w, "load tail", loc[w])
    /\ UNCHANGED <<chains, orderNext, orderTail, memory, used, inserted, collections, age, scenario>>

FirstTail(w) ==
    /\ pc[w] = "first tail"
    /\ orderTail' = IF orderTail = Null THEN loc[w].node ELSE orderTail
    /\ inserted' = inserted \cup {loc[w].node}
    /\ Return(w)
    /\ UNCHANGED <<chains, orderNext, orderHead, memory, used, collections, age, scenario>>

LoadNext(w) ==
    /\ pc[w] = "load next"
    /\ Goto(w, "check tail", [loc[w] EXCEPT !.next = orderNext[loc[w].prev]])
    /\ UNCHANGED <<chains, order, memory, used, inserted, collections, age, scenario>>

\* The tail has moved, or lags and is helped on, or can be appended to.
CheckTail(w) ==
    LET tail == loc[w].prev  next == loc[w].next
    IN  /\ pc[w] = "check tail"
        /\ orderTail' = IF orderTail = tail /\ next # Null THEN next ELSE orderTail
        /\ Goto(w, IF orderTail = tail /\ next = Null THEN "append" ELSE "load tail",
                loc[w])
        /\ UNCHANGED <<chains, orderNext, orderHead, memory, used, inserted,
                       collections, age, scenario>>

\* The new node is stored after the tail whatever happened since the load.
AppendBlindly(w) ==
    /\ pc[w] = "append"
    /\ orderNext' = [orderNext EXCEPT ![loc[w].prev] = loc[w].node]
    /\ Goto(w, "swing tail", loc[w])
    /\ UNCHANGED <<chains, orderHead, orderTail, memory, used, inserted, collections, age, scenario>>

Append(w) ==
    LET tail == loc[w].prev
    IN  /\ pc[w] = "append"
        /\ IF orderNext[tail] = Null
           THEN /\ orderNext' = [orderNext EXCEPT ![tail] = loc[w].node]
                /\ Goto(w, "swing tail", loc[w])
           ELSE UNCHANGED orderNext /\ Goto(w, "load tail", loc[w])
        /\ UNCHANGED <<chains, orderHead, orderTail, memory, used, inserted,
                       collections, age, scenario>>

SwingTail(w) ==
    /\ pc[w] = "swing tail"
    /\ orderTail' = IF orderTail = loc[w].prev THEN loc[w].node ELSE orderTail
    /\ inserted' = inserted \cup {loc[w].node}
    /\ Return(w)
    /\ UNCHANGED <<chains, orderNext, orderHead, memory, used, collections, age, scenario>>

-----------------------------------------------------------------------------
\* The callers look before they remove: the incoming thread with with_value,
\* the scan because its iterator stands on a node that is not deleted.
RemoveCall(r, k) ==
    LET n == find_in_bucket(k)
    IN  /\ MayCall(r)
        /\ IF r = incoming THEN n # Null /\ n \notin deleted
                           ELSE \E m \in OrderList \ deleted : KeyOf[m] = k
        /\ Goto(r, "find", [Idle EXCEPT !.next = k])
        /\ UNCHANGED <<chains, order, memory, used, inserted, collections, age, scenario>>

\* remove: find the node and its predecessor, or return false.
RemoveFind(r) ==
    LET n == find_in_bucket(loc[r].next)
    IN  /\ pc[r] = "find"
        /\ IF n = Null THEN Return(r)
                       ELSE Goto(r, "mark", [Idle EXCEPT !.node = n, !.prev = PrevOf(n)])
        /\ UNCHANGED <<chains, order, memory, used, inserted, collections, age, scenario>>

\* Set is_deleted, or find it set; both go on to try_unlink_bucket.
RemoveMark(r) ==
    /\ pc[r] = "mark"
    /\ deleted' = deleted \cup {loc[r].node}
    /\ Goto(r, "load prev", loc[r])
    /\ UNCHANGED <<chains, order, allNodes, freed, used, inserted, collections, age, scenario>>

PointsTo(prev, n) == IF prev = Null THEN buckets[BucketFor(n)] ELSE bucketNext[prev]

\* try_unlink_bucket: load the predecessor's pointer and the node's next.
LoadPrev(r) ==
    LET n == loc[r].node
    IN  /\ pc[r] = "load prev"
        /\ IF PointsTo(loc[r].prev, n) = n
           THEN Goto(r, "unlink", [loc[r] EXCEPT !.next = bucketNext[n]])
           ELSE Return(r)
        /\ UNCHANGED <<chains, order, memory, used, inserted, collections, age, scenario>>

SetPrev(prev, n, next) ==
    IF prev = Null
    THEN buckets' = [buckets EXCEPT ![BucketFor(n)] = next] /\ UNCHANGED bucketNext
    ELSE bucketNext' = [bucketNext EXCEPT ![prev] = next] /\ UNCHANGED buckets

\* The predecessor is stored whatever it has become.
UnlinkBlindly(r) ==
    /\ pc[r] = "unlink"
    /\ SetPrev(loc[r].prev, loc[r].node, loc[r].next)
    /\ Return(r)
    /\ UNCHANGED <<order, memory, used, inserted, collections, age, scenario>>

Unlink(r) ==
    /\ pc[r] = "unlink"
    /\ IF PointsTo(loc[r].prev, loc[r].node) = loc[r].node
       THEN SetPrev(loc[r].prev, loc[r].node, loc[r].next)
       ELSE UNCHANGED chains
    /\ Return(r)
    /\ UNCHANGED <<order, memory, used, inserted, collections, age, scenario>>

-----------------------------------------------------------------------------
\* collect_garbage, first loop: unlink the deleted nodes from the order list.
GcBegin ==
    /\ pc[outgoing] = "idle" /\ collections < scenario.collections
    /\ CollectorAlone => \A t \in Thread : pc[t] = "idle"
    /\ collections' = collections + 1
    /\ Goto(outgoing, "gc next", [Idle EXCEPT !.node = orderHead])
    /\ UNCHANGED <<chains, order, memory, used, inserted, age, scenario>>

GcNext ==
    LET curr == loc[outgoing].node
    IN  /\ pc[outgoing] = "gc next"
        /\ IF curr = Null
           THEN Goto(outgoing, "gc sweep", Idle)
           ELSE Goto(outgoing, "gc check", [loc[outgoing] EXCEPT !.next = orderNext[curr]])
        /\ UNCHANGED <<chains, order, memory, used, inserted, collections, age, scenario>>

GcCheck ==
    LET l == loc[outgoing]
    IN  /\ pc[outgoing] = "gc check"
        /\ IF l.node \in deleted
           THEN /\ IF l.prev = Null
                   THEN orderHead' = l.next /\ UNCHANGED orderNext
                   ELSE /\ orderNext' = [orderNext EXCEPT ![l.prev] = l.next]
                        /\ UNCHANGED orderHead
                /\ Goto(outgoing, "gc tail", l)
           ELSE /\ Goto(outgoing, "gc next", [Idle EXCEPT !.node = l.next, !.prev = l.node])
                /\ UNCHANGED <<orderHead, orderNext>>
        /\ UNCHANGED <<chains, orderTail, memory, used, inserted, collections, age, scenario>>

\* The tail is not moved off an unlinked node.
GcTailKept ==
    LET l == loc[outgoing]
    IN  /\ pc[outgoing] = "gc tail"
        /\ Goto(outgoing, "gc next", [l EXCEPT !.node = l.next, !.next = Null])
        /\ UNCHANGED <<chains, order, memory, used, inserted, collections, age, scenario>>

GcTail ==
    LET l == loc[outgoing]
    IN  /\ pc[outgoing] = "gc tail"
        /\ orderTail' = IF orderTail = l.node THEN l.prev ELSE orderTail
        /\ Goto(outgoing, "gc next", [l EXCEPT !.node = l.next, !.next = Null])
        /\ UNCHANGED <<chains, orderNext, orderHead, memory, used, inserted, collections, age, scenario>>

\* Second loop: delete every node that is marked by now.
GcSweep ==
    /\ pc[outgoing] = "gc sweep"
    /\ freed' = freed \cup (allNodes \cap deleted)
    /\ allNodes' = allNodes \ deleted
    /\ Return(outgoing)
    /\ UNCHANGED <<chains, order, deleted, used, inserted, collections, age, scenario>>

Insert(w) == \/ \E n \in Node : InsertFind(w, n) \/ InsertExists(w, n)
             \/ InsertRetry(w) \/ LoadHead(w) \/ SwapHead(w)
             \/ LoadTail(w) \/ FirstHead(w) \/ FirstTail(w)
             \/ LoadNext(w) \/ CheckTail(w) \/ Append(w) \/ SwingTail(w)

Remove(r) == \/ \E k \in Key : RemoveCall(r, k)
             \/ RemoveFind(r) \/ RemoveMark(r) \/ LoadPrev(r) \/ Unlink(r)

CollectGarbage == GcBegin \/ GcNext \/ GcCheck \/ GcTail \/ GcSweep

MapNext == \/ \E w \in Worker : Insert(w)
           \/ \E r \in {incoming, outgoing} : Remove(r)
           \/ CollectGarbage

MapSpec == MapInit /\ [][MapNext]_mapVars

-----------------------------------------------------------------------------
\* Nodes whose insert has got past the bucket compare-and-swap.
Linked == {n \in Node : linkedAt[n] # 0}

\* insert, remove, try_unlink_bucket: however inserts and removes of a bucket
\* interleave, a receipt that is linked and not removed can be found, so its
\* acknowledgement finds it.
LiveIsFindable == \A n \in Linked \ deleted : n \in Chain(BucketFor(n))

\* insert_internal phase 2 and collect_garbage: a receipt whose insert has
\* returned true stays on the order list until it is removed, so the retry
\* scan meets it.
LiveIsListed == \A n \in inserted \ deleted : n \in OrderList

\* collect_garbage: a node given back to the allocator can be reached from no
\* bucket, nor from the order list, its tail or the collector's vector, and no
\* call under way holds it, as long as every packet has a number of its own.
NoDangling ==
    (\A m, n \in Node : KeyOf[m] = KeyOf[n] => m = n) =>
    /\ \A b \in Bucket : Chain(b) \cap freed = {}
    /\ (OrderList \cup {orderTail} \cup allNodes) \cap freed = {}
    /\ \A t \in Thread : pc[t] # "find" =>
          {loc[t].node, loc[t].prev, loc[t].next} \cap freed = {}

\* fancy_queue.h:302 "Key exists and is not deleted. Insertion fails.": two
\* inserts of one key do not both succeed while neither node is deleted.  Two
\* workers break it: the search and the load of the head are two steps.
InsertOnce == \A m, n \in inserted \ deleted : KeyOf[m] = KeyOf[n] => m = n

=============================================================================
