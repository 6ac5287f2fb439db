----------------------------- MODULE BufferPool -----------------------------
(***************************************************************************)
(* PacketBufferPool (znet/z_network_allocator.h) and the payloads of       *)
(* OutgoingPacket objects (z_packets.h), which share its blocks by         *)
(* reference count.  A packet object is used by one thread at a time and   *)
(* passed to another through a queue, which moves it.  The critical        *)
(* sections of a bucket and each atomic access are one step.               *)
(*                                                                         *)
(* How RetuneTargets weighs the demand of the classes is left open: any    *)
(* target from the minimum up can come out of it.                          *)
(***************************************************************************)
EXTENDS Integers, FiniteSets, Sequences, SequencesExt, FiniteSetsExt

CONSTANTS
    Block,              \* what operator new can return
    Thread, Packet,     \* every thread has the same number of packet objects
    None, Scalar,       \* no payload; a number in place of a pointer
    kClassCount, kMinTargetPerClass, kRetunePeriod,
    Size,               \* payload sizes, in halves of kMinClassSize
    MaxTarget,          \* bound: what retuning or boosting sets
    MaxRequests         \* bound: calls of Allocate

ASSUME CountAssumption ==
    /\ {kClassCount, kMinTargetPerClass, kRetunePeriod, MaxTarget, MaxRequests}
          \cup Size \subseteq Nat \ {0}
    /\ kMinTargetPerClass <= MaxTarget
ASSUME FiniteAssumption == IsFiniteSet(Thread) /\ IsFiniteSet(Packet)
ASSUME NoneAssumption ==
    /\ None # Scalar /\ {None, Scalar} \cap Block = {}
    /\ None \notin Thread /\ None \notin 0..kClassCount

VARIABLES
    ref,                \* ref_count of a block
    class,              \* size_class_index; 0: kInvalidClassIndex; None: not allocated
    free,               \* free_list of a class
    target,             \* target_cached_blocks of a class
    payload,            \* of a packet object: heap_data_size and payload.data
    requests,           \* total_requests_
    pc,                 \* where a thread is in Release or RetuneTargets, with what
    retuning            \* the holder of retune_mutex_

poolVars == <<free, target, requests>>
vars == <<ref, class, poolVars, payload, pc, retuning>>

Class == 1..kClassCount
NoPayload == [size |-> 0, data |-> None]
Idle == [at |-> "Idle"]

BlockSize(k) == 2 ^ k
SizeToClassIndex(size) ==
    IF size > BlockSize(kClassCount) THEN 0
    ELSE Min({k \in Class : BlockSize(k) >= size})

HasData(p) == p.size > 0 /\ p.data # None

-----------------------------------------------------------------------------
(* OutgoingPacket.  An assignment is a release of the old payload, by the    *)
(* same steps as the destructor, and then a copy or a move.                  *)

At(t, p) == payload[t][p]
Put(t, p, v) == payload' = [payload EXCEPT ![t][p] = v]

\* Allocate for a packet with data: a cached block of the class, or a new one.
Construct(t, p, size) ==
    LET k == SizeToClassIndex(size)
        cached == k # 0 /\ free[k] # <<>>
    IN  /\ pc[t] = Idle /\ At(t, p) = NoPayload /\ requests < MaxRequests
        /\ requests' = requests + 1
        /\ \E b \in Block :
              /\ IF cached THEN b = Last(free[k]) ELSE class[b] = None
              /\ ref' = [ref EXCEPT ![b] = 1]
              /\ class' = [class EXCEPT ![b] = IF cached THEN @ ELSE k]
              /\ Put(t, p, [size |-> size, data |-> b])
        /\ free' = IF cached THEN [free EXCEPT ![k] = Front(@)] ELSE free
        /\ UNCHANGED <<target, pc, retuning>>

\* An acknowledgement carries a number where others carry a pointer.
ConstructScalar(t, p) ==
    /\ pc[t] = Idle /\ At(t, p) = NoPayload
    /\ Put(t, p, [size |-> 0, data |-> Scalar])
    /\ UNCHANGED <<ref, class, poolVars, pc, retuning>>

CopyWithoutRetain(t, p, q) ==
    /\ pc[t] = Idle /\ At(t, p) # NoPayload /\ At(t, q) = NoPayload
    /\ Put(t, q, At(t, p))
    /\ UNCHANGED <<ref, class, poolVars, pc, retuning>>
\* CopyPayloadFrom with Retain.
Copy(t, p, q) ==
    /\ pc[t] = Idle /\ At(t, p) # NoPayload /\ At(t, q) = NoPayload
    /\ Put(t, q, At(t, p))
    /\ ref' = IF HasData(At(t, p)) THEN [ref EXCEPT ![At(t, p).data] = @ + 1] ELSE ref
    /\ UNCHANGED <<class, poolVars, pc, retuning>>

\* Enqueued by t and dequeued by u: moved, and cleared where it came from.
Move(t, p, u, q) ==
    /\ pc[t] = Idle /\ pc[u] = Idle /\ t # u
    /\ At(t, p) # NoPayload /\ At(u, q) = NoPayload
    /\ payload' = [payload EXCEPT ![u][q] = At(t, p), ![t][p] = NoPayload]
    /\ UNCHANGED <<ref, class, poolVars, pc, retuning>>

\* ReleasePayload, up to the decrement in Release.
ReleasePayload(t, p) ==
    /\ pc[t] = Idle /\ At(t, p) # NoPayload
    /\ Put(t, p, NoPayload)
    /\ IF HasData(At(t, p))
       THEN LET b == At(t, p).data
            IN  /\ ref' = [ref EXCEPT ![b] = @ - 1]
                /\ pc' = [pc EXCEPT ![t] = IF ref[b] = 1 THEN [at |-> "Release", block |-> b]
                                           ELSE Idle]
       ELSE UNCHANGED <<ref, pc>>
    /\ UNCHANGED <<class, poolVars, retuning>>

-----------------------------------------------------------------------------
(* Release of the last reference, and retuning.                              *)

Delete(S) == class' = [b \in Block |-> IF b \in S THEN None ELSE class[b]]

\* A block of no class is deleted, for another the target is read.
LoadTarget(t) ==
    LET b == pc[t].block
    IN  /\ pc[t].at = "Release"
        /\ \/ /\ class[b] = 0 /\ Delete({b})
              /\ pc' = [pc EXCEPT ![t] = Idle]
           \/ /\ class[b] # 0 /\ UNCHANGED class
              /\ pc' = [pc EXCEPT ![t] = [at |-> "Keep", block |-> b, target |-> target[class[b]]]]
        /\ UNCHANGED <<ref, poolVars, payload, retuning>>

KeepAtTarget(t) ==
    LET b == pc[t].block
    IN  /\ pc[t].at = "Keep"
        /\ \/ /\ Len(free[class[b]]) <= pc[t].target
              /\ free' = [free EXCEPT ![class[b]] = Append(@, b)] /\ UNCHANGED class
           \/ /\ Len(free[class[b]]) > pc[t].target
              /\ Delete({b}) /\ UNCHANGED free
        /\ pc' = [pc EXCEPT ![t] = [at |-> "Maybe"]]
        /\ UNCHANGED <<ref, target, requests, payload, retuning>>
Keep(t) ==
    LET b == pc[t].block
    IN  /\ pc[t].at = "Keep"
        /\ \/ /\ Len(free[class[b]]) < pc[t].target
              /\ free' = [free EXCEPT ![class[b]] = Append(@, b)] /\ UNCHANGED class
           \/ /\ Len(free[class[b]]) >= pc[t].target
              /\ Delete({b}) /\ UNCHANGED free
        /\ pc' = [pc EXCEPT ![t] = [at |-> "Maybe"]]
        /\ UNCHANGED <<ref, target, requests, payload, retuning>>

\* MaybeRetune: one thread retunes, others that come meanwhile do not wait.
MaybeRetune(t) ==
    LET due == requests >= kRetunePeriod /\ requests % kRetunePeriod = 0
                 /\ retuning = None
    IN  /\ pc[t].at = "Maybe"
        /\ retuning' = IF due THEN t ELSE retuning
        /\ pc' = [pc EXCEPT ![t] = IF due THEN [at |-> "Retune", class |-> 1] ELSE Idle]
        /\ UNCHANGED <<ref, class, poolVars, payload>>

\* RetuneTargets, one class: a new target is stored ...
StoreTarget(t) ==
    /\ pc[t].at = "Retune"
    /\ \E n \in kMinTargetPerClass..MaxTarget :
          target' = [target EXCEPT ![pc[t].class] = n]
    /\ pc' = [pc EXCEPT ![t] = [at |-> "Trim", class |-> pc[t].class,
                                target |-> target'[pc[t].class]]]
    /\ UNCHANGED <<ref, class, free, requests, payload, retuning>>

TrimOneShort(t) ==
    LET k == pc[t].class
        kept == Min({pc[t].target, Len(free[k])})
    IN  /\ pc[t].at = "Trim"
        /\ free' = [free EXCEPT ![k] = SubSeq(@, 1, kept)]
        /\ Delete(Range(SubSeq(free[k], kept, Len(free[k]))))
        /\ IF k = kClassCount
           THEN retuning' = None /\ pc' = [pc EXCEPT ![t] = Idle]
           ELSE /\ pc' = [pc EXCEPT ![t] = [at |-> "Retune", class |-> k + 1]]
                /\ UNCHANGED retuning
        /\ UNCHANGED <<ref, target, requests, payload>>
\* ... and what is cached beyond it is deleted.
TrimClassCache(t) ==
    LET k == pc[t].class
        kept == Min({pc[t].target, Len(free[k])})
    IN  /\ pc[t].at = "Trim"
        /\ free' = [free EXCEPT ![k] = SubSeq(@, 1, kept)]
        /\ Delete(Range(SubSeq(free[k], kept + 1, Len(free[k]))))
        /\ IF k = kClassCount
           THEN retuning' = None /\ pc' = [pc EXCEPT ![t] = Idle]
           ELSE /\ pc' = [pc EXCEPT ![t] = [at |-> "Retune", class |-> k + 1]]
                /\ UNCHANGED retuning
        /\ UNCHANGED <<ref, target, requests, payload>>

BoostClassCacheForSize(size, n) ==
    LET k == SizeToClassIndex(size)
    IN  /\ k # 0 /\ target[k] < n
        /\ target' = [target EXCEPT ![k] = n]
        /\ UNCHANGED <<ref, class, free, payload, requests, pc, retuning>>

-----------------------------------------------------------------------------
Init ==
    /\ ref = [b \in Block |-> 0] /\ class = [b \in Block |-> None]
    /\ free = [k \in Class |-> <<>>]
    /\ target = [k \in Class |-> kMinTargetPerClass]
    /\ payload = [t \in Thread |-> [p \in Packet |-> NoPayload]]
    /\ requests = 0 /\ retuning = None
    /\ pc = [t \in Thread |-> Idle]

ReleaseStep(t) == LoadTarget(t) \/ Keep(t) \/ MaybeRetune(t) \/ StoreTarget(t) \/ TrimClassCache(t)

Next ==
    \/ \E t \in Thread, p, q \in Packet :
          \/ \E size \in Size : Construct(t, p, size)
          \/ ConstructScalar(t, p) \/ Copy(t, p, q) \/ ReleasePayload(t, p)
          \/ \E u \in Thread : Move(t, p, u, q)
    \/ \E t \in Thread : ReleaseStep(t)
    \/ \E size \in Size : BoostClassCacheForSize(size, MaxTarget)

Spec == Init /\ [][Next]_vars

-----------------------------------------------------------------------------
Target == kMinTargetPerClass..MaxTarget
Payload == {NoPayload, [size |-> 0, data |-> Scalar]} \cup [size : Size, data : Block]
Place ==
    {Idle, [at |-> "Maybe"]} \cup [at : {"Release"}, block : Block]
      \cup [at : {"Keep"}, block : Block, target : Target]
      \cup [at : {"Retune"}, class : Class]
      \cup [at : {"Trim"}, class : Class, target : Target]

\* Type invariant of blocks, lists, packets and threads; no target, and no copy of
\* one that a thread works with, is below the minimum.
TypeOK ==
    /\ ref \in [Block -> Nat] /\ class \in [Block -> 0..kClassCount \cup {None}]
    /\ free \in [Class -> Seq(Block)] /\ target \in [Class -> Target]
    /\ payload \in [Thread -> [Packet -> Payload]] /\ pc \in [Thread -> Place]
    /\ requests \in 0..MaxRequests /\ retuning \in Thread \cup {None}

Users(b) == {u \in Thread \X Packet : At(u[1], u[2]).data = b}
Releasing(b) == {t \in Thread : pc[t].at \in {"Release", "Keep"} /\ pc[t].block = b}
CachedIn(b) == {k \in Class : b \in Range(free[k])}

\* The count of a block is the number of packets that use it, and a block that
\* some packet uses is large enough, allocated, not cached and not on its way back.
CountedExactly ==
    \A b \in Block :
        /\ class[b] # None => ref[b] = Cardinality(Users(b))
        /\ Users(b) # {} => class[b] # None /\ CachedIn(b) = {} /\ Releasing(b) = {}
        /\ \A u \in Users(b) :
              class[b] # 0 => At(u[1], u[2]).size <= BlockSize(class[b])

\* A block is in one place: used, cached once in the list of its class, or about
\* to be given back by one thread; when it is in none it has been deleted.
InOnePlace ==
    \A b \in Block :
        /\ Cardinality(Releasing(b)) + Cardinality(CachedIn(b)) <= 1
        /\ \A k \in CachedIn(b) : class[b] = k /\ Cardinality({i \in DOMAIN free[k] : free[k][i] = b}) = 1
        /\ class[b] # None <=> (Users(b) # {} \/ Releasing(b) # {} \/ CachedIn(b) # {})

\* Retain, Release and TrimClassCache account for every block.
PoolInv == TypeOK /\ CountedExactly /\ InOnePlace

\* However calls of Release and retuning cross, the list of a class does not grow
\* beyond the largest target there ever was: the target may be stale when a block
\* is kept, the length it is compared with is not.
CacheBounded == \A k \in Class : Len(free[k]) <= MaxTarget
=============================================================================
