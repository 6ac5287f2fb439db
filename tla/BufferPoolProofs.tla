-------------------------- MODULE BufferPoolProofs --------------------------
(***************************************************************************)
(* Proofs about BufferPool: for any number of threads, packets and blocks  *)
(* the reference counts are exact, a block is in one place, and the cache  *)
(* of a class stays within the largest target.                             *)
(***************************************************************************)
EXTENDS BufferPool, FiniteSetTheorems, SequenceTheorems, WellFoundedInduction, TLAPS

Holds(t, b) == pc[t].at \in {"Release", "Keep"} /\ pc[t].block = b
Uses(t, p, b) == At(t, p).data = b
Cached(k, i, b) == i \in DOMAIN free[k] /\ free[k][i] = b
Fits(t, p, b) == class[b] # 0 => At(t, p).size <= BlockSize(class[b])

\* A block that a packet uses is allocated and large enough, in no list, and no
\* thread is giving it back.
UsedApart ==
    \A t \in Thread, p \in Packet, b \in Block : Uses(t, p, b) =>
        /\ class[b] # None /\ Fits(t, p, b)
        /\ \A k \in Class : \A i \in DOMAIN free[k] : free[k][i] # b
        /\ \A u \in Thread : ~Holds(u, b)

\* A block that a thread gives back is allocated, in no list, and given back by no
\* other; when the target has been read it has a class.
HeldApart ==
    \A t \in Thread, b \in Block : Holds(t, b) =>
        /\ class[b] # None /\ (pc[t].at = "Keep" => class[b] # 0)
        /\ \A k \in Class : \A i \in DOMAIN free[k] : free[k][i] # b
        /\ \A u \in Thread : Holds(u, b) => u = t

\* The list of a class has blocks of the class, each one once.
CachedApart ==
    \A k \in Class : \A i \in DOMAIN free[k] :
        /\ class[free[k][i]] = k
        /\ \A j \in DOMAIN free[k] : free[k][i] = free[k][j] => i = j

\* No block is lost: one that is allocated is used, given back or cached.
Accounted ==
    \A b \in Block : class[b] # None =>
        \/ \E t \in Thread, p \in Packet : Uses(t, p, b)
        \/ \E t \in Thread : Holds(t, b)
        \/ \E k \in Class : \E i \in DOMAIN free[k] : free[k][i] = b

Counted == \A b \in Block : class[b] # None => ref[b] = Cardinality(Users(b))

\* The inductive invariant.
IInv ==
    /\ TypeOK /\ UsedApart /\ HeldApart /\ CachedApart /\ Accounted /\ Counted
    /\ CacheBounded

-----------------------------------------------------------------------------
(* Lemmas about the operators. *)

\* A set of natural numbers that is not empty has a least member, which is Min.
LEMMA MinIsLeast ==
  ASSUME NEW S \in SUBSET Nat, S # {}
  PROVE  Min(S) \in S /\ \A y \in S : Min(S) <= y
<1> DEFINE R == OpToRel(<, Nat)
<1>1. IsWellFoundedOn(R, Nat)
  BY NatLessThanWellFounded
<1>2. \A x, y \in Nat : <<y, x>> \in R <=> y < x
  BY DEF OpToRel
<1> HIDE DEF R
<1>3. PICK x \in S : \A y \in S : ~(<<y, x>> \in R)
  BY <1>1, WFMin
<1>4. \A y \in S : x <= y
  <2> TAKE y \in S
  <2>1. ~(<<y, x>> \in R)
    BY <1>3
  <2>2. x \in Nat /\ y \in Nat
    OBVIOUS
  <2> QED BY <1>2, <2>1, <2>2
<1> QED BY <1>4 DEF Min

\* SizeToClassIndex gives no class, or one whose blocks are large enough.
LEMMA ClassFits ==
  ASSUME NEW size \in Size
  PROVE  /\ SizeToClassIndex(size) \in 0..kClassCount
         /\ SizeToClassIndex(size) # 0 => size <= BlockSize(SizeToClassIndex(size))
<1> DEFINE Fitting == {k \in Class : BlockSize(k) >= size}
<1>0. kClassCount \in Nat \ {0} /\ size \in Nat
  BY CountAssumption
<1>1. CASE size > BlockSize(kClassCount)
  BY <1>0, <1>1 DEF SizeToClassIndex
<1>2. CASE ~(size > BlockSize(kClassCount))
  <2>1. kClassCount \in Class
    BY <1>0 DEF Class
  <2>2. BlockSize(kClassCount) >= size
    BY <1>0, <1>2 DEF BlockSize
  <2>3. Fitting \in SUBSET Nat /\ Fitting # {}
    BY <2>1, <2>2 DEF Class
  <2>4. Min(Fitting) \in Fitting
    BY <2>3, MinIsLeast
  <2>5. SizeToClassIndex(size) = Min(Fitting)
    BY <1>2 DEF SizeToClassIndex
  <2> QED BY <2>4, <2>5, <1>0 DEF Class
<1> QED BY <1>1, <1>2

\* The places a thread can be at, taken apart and put together.
LEMMA PlaceParts ==
  ASSUME NEW x \in Place
  PROVE  /\ x.at \in {"Idle", "Maybe", "Release", "Keep", "Retune", "Trim"}
         /\ x.at \in {"Release", "Keep"} => x.block \in Block
         /\ x.at \in {"Keep", "Trim"} => x.target \in Target
         /\ x.at \in {"Retune", "Trim"} => x.class \in Class
<1>1. CASE x \in {Idle, [at |-> "Maybe"]}
  BY <1>1 DEF Idle
<1>2. CASE x \in [at : {"Release"}, block : Block]
  BY <1>2
<1>3. CASE x \in [at : {"Keep"}, block : Block, target : Target]
  BY <1>3
<1>4. CASE x \in [at : {"Retune"}, class : Class]
  BY <1>4
<1>5. CASE x \in [at : {"Trim"}, class : Class, target : Target]
  BY <1>5
<1> QED BY <1>1, <1>2, <1>3, <1>4, <1>5 DEF Place

LEMMA PlaceBuilt ==
  /\ Idle \in Place /\ [at |-> "Maybe"] \in Place
  /\ \A b \in Block : [at |-> "Release", block |-> b] \in Place
  /\ \A b \in Block, n \in Target : [at |-> "Keep", block |-> b, target |-> n] \in Place
  /\ \A k \in Class : [at |-> "Retune", class |-> k] \in Place
  /\ \A k \in Class, n \in Target : [at |-> "Trim", class |-> k, target |-> n] \in Place
  BY DEF Place

\* A payload that is not empty is data in a block, or a number.
LEMMA PayloadParts ==
  ASSUME NEW v \in Payload
  PROVE  /\ v.data \in Block \cup {None, Scalar}
         /\ v.data \in Block <=> HasData(v)
         /\ v.data = None <=> v = NoPayload
         /\ v = NoPayload => ~HasData(v)
<1> USE NoneAssumption
<1>1. CASE v = NoPayload
  BY <1>1 DEF NoPayload, HasData
<1>2. CASE v = [size |-> 0, data |-> Scalar]
  BY <1>2 DEF NoPayload, HasData
<1>3. CASE v \in [size : Size, data : Block]
  <2>1. v.data \in Block /\ v.size \in Size
    BY <1>3
  <2>2. v.size \in Nat /\ v.size > 0
    BY <2>1, CountAssumption
  <2> QED BY <2>1, <2>2 DEF NoPayload, HasData
<1> QED BY <1>1, <1>2, <1>3 DEF Payload

\* The first n elements of a sequence.
LEMMA PrefixParts ==
  ASSUME NEW S, NEW s \in Seq(S), NEW n \in 0..Len(s)
  PROVE  /\ SubSeq(s, 1, n) \in Seq(S) /\ Len(SubSeq(s, 1, n)) = n
         /\ DOMAIN SubSeq(s, 1, n) = 1..n
         /\ \A i \in 1..n : SubSeq(s, 1, n)[i] = s[i]
  OBVIOUS

\* There are finitely many packets, so that the users of a block can be counted.
LEMMA UsersFinite ==
  \A b : IsFiniteSet(Users(b)) /\ Cardinality(Users(b)) \in Nat
<1>1. IsFiniteSet(Thread \X Packet)
  BY FiniteAssumption, FS_Product
<1> TAKE b
<1>2. Users(b) \subseteq Thread \X Packet
  BY DEF Users
<1>3. IsFiniteSet(Users(b))
  BY <1>1, <1>2, FS_Subset
<1> QED BY <1>3, FS_CardinalityType

-----------------------------------------------------------------------------
(* What writing one packet object changes. *)

LEMMA PutOne ==
  ASSUME TypeOK, NEW t \in Thread, NEW p \in Packet, NEW v \in Payload, Put(t, p, v)
  PROVE  /\ payload' \in [Thread -> [Packet -> Payload]]
         /\ At(t, p)' = v
         /\ \A u \in Thread, q \in Packet : ~(u = t /\ q = p) => At(u, q)' = At(u, q)
         /\ \A b : Users(b)' = IF v.data = b THEN Users(b) \cup {<<t, p>>}
                                             ELSE Users(b) \ {<<t, p>>}
<1>1. payload' \in [Thread -> [Packet -> Payload]]
  BY DEF TypeOK, Put
<1>2. At(t, p)' = v
  BY DEF TypeOK, Put, At
<1>3. \A u \in Thread, q \in Packet : ~(u = t /\ q = p) => At(u, q)' = At(u, q)
  BY DEF TypeOK, Put, At
<1>4. ASSUME NEW b
      PROVE  Users(b)' = IF v.data = b THEN Users(b) \cup {<<t, p>>}
                                       ELSE Users(b) \ {<<t, p>>}
  <2> DEFINE new == IF v.data = b THEN Users(b) \cup {<<t, p>>} ELSE Users(b) \ {<<t, p>>}
  <2>1. Users(b)' \subseteq Thread \X Packet /\ new \subseteq Thread \X Packet
    BY DEF Users
  <2>2. ASSUME NEW u \in Thread, NEW q \in Packet
        PROVE  <<u, q>> \in Users(b)' <=> <<u, q>> \in new
    <3>1. <<u, q>> \in Users(b)' <=> At(u, q)'.data = b
      BY DEF Users
    <3>2. <<u, q>> \in Users(b) <=> At(u, q).data = b
      BY DEF Users
    <3>3. CASE u = t /\ q = p
      BY <1>2, <3>1, <3>3
    <3>4. CASE ~(u = t /\ q = p)
      <4>1. <<u, q>> # <<t, p>>
        BY <3>4
      <4>2. At(u, q)' = At(u, q)
        BY <1>3, <3>4
      <4> QED BY <3>1, <3>2, <4>1, <4>2
    <3> QED BY <3>3, <3>4
  <2>3. \A x \in Thread \X Packet : x \in Users(b)' <=> x \in new
    <3> HIDE DEF new
    <3> TAKE x \in Thread \X Packet
    <3>1. PICK u \in Thread, q \in Packet : x = <<u, q>>
      OBVIOUS
    <3> QED BY <2>2, <3>1
  <2> HIDE DEF new
  <2>4. Users(b)' = new
    BY <2>1, <2>3
  <2> QED BY <2>4 DEF new
<1> QED BY <1>1, <1>2, <1>3, <1>4

LEMMA InitInv == Init => IInv
<1> SUFFICES ASSUME Init PROVE IInv
  OBVIOUS
<1>1. TypeOK
  <2>1. kMinTargetPerClass \in Target
    BY CountAssumption DEF Target
  <2>2. NoPayload \in Payload
    BY DEF Payload
  <2>3. <<>> \in Seq(Block)
    OBVIOUS
  <2>4. 0 \in 0..MaxRequests
    BY CountAssumption
  <2> QED BY <2>1, <2>2, <2>3, <2>4, PlaceBuilt DEF Init, TypeOK
<1>2. \A t \in Thread, p \in Packet : At(t, p).data = None
  BY DEF Init, At, NoPayload
<1>3. \A t \in Thread, b \in Block : ~Holds(t, b)
  BY DEF Init, Holds, Idle
<1>4. \A k \in Class : free[k] = <<>>
  BY DEF Init
<1>5. \A k \in Class : DOMAIN free[k] = {}
  BY <1>4
<1>6. UsedApart /\ HeldApart /\ CachedApart
  BY <1>2, <1>3, <1>5, NoneAssumption DEF UsedApart, HeldApart, CachedApart, Uses
<1>7. Accounted /\ Counted
  BY DEF Init, Accounted, Counted
<1>8. CacheBounded
  BY <1>4, CountAssumption DEF CacheBounded
<1> QED BY <1>1, <1>6, <1>7, <1>8 DEF IInv

\* A step that leaves blocks, lists and packets alone, and who gives back which
\* block, keeps every block where it is.
LEMMA BlocksStay ==
  ASSUME IInv, TypeOK', UNCHANGED <<ref, class, free, payload>>,
         \A t \in Thread, b \in Block : Holds(t, b)' <=> Holds(t, b),
         \A t \in Thread, b \in Block :
            Holds(t, b) /\ pc'[t].at = "Keep" => pc[t].at = "Keep" \/ class[b] # 0
  PROVE  IInv'
<1>1. UsedApart'
  BY DEF IInv, UsedApart, Uses, At, Fits
<1>2. HeldApart'
  BY DEF IInv, HeldApart
<1>3. CachedApart' /\ CacheBounded'
  BY DEF IInv, CachedApart, CacheBounded
<1>4. Accounted'
  BY DEF IInv, Accounted, Uses, At
<1>5. Counted'
  BY DEF IInv, Counted, Users, At
<1> QED BY <1>1, <1>2, <1>3, <1>4, <1>5 DEF IInv

\* A step that changes packets only, after which the same blocks are in use for
\* data of the same sizes, keeps every block where it is.
LEMMA UsersStay ==
  ASSUME IInv, TypeOK', Counted', UNCHANGED <<class, free, pc>>,
         \A u \in Thread, q \in Packet, b \in Block : Uses(u, q, b)' =>
            \E w \in Thread, r \in Packet : Uses(w, r, b) /\ At(u, q)'.size = At(w, r).size,
         \A u \in Thread, q \in Packet, b \in Block : Uses(u, q, b) =>
            \E w \in Thread, r \in Packet : Uses(w, r, b)'
  PROVE  IInv'
<1>1. UsedApart'
  <2> SUFFICES ASSUME NEW u \in Thread, NEW q \in Packet, NEW b \in Block, Uses(u, q, b)'
               PROVE  /\ class'[b] # None /\ Fits(u, q, b)'
                      /\ \A k \in Class : \A i \in DOMAIN free'[k] : free'[k][i] # b
                      /\ \A x \in Thread : ~Holds(x, b)'
    BY DEF UsedApart
  <2>1. PICK w \in Thread, r \in Packet : Uses(w, r, b) /\ At(u, q)'.size = At(w, r).size
    OBVIOUS
  <2>2. /\ class[b] # None /\ Fits(w, r, b)
        /\ \A k \in Class : \A i \in DOMAIN free[k] : free[k][i] # b
        /\ \A x \in Thread : ~Holds(x, b)
    BY <2>1 DEF IInv, UsedApart
  <2>3. Fits(u, q, b)'
    BY <2>1, <2>2 DEF Fits
  <2>4. \A x \in Thread : ~Holds(x, b)'
    BY <2>2 DEF Holds
  <2> QED BY <2>2, <2>3, <2>4
<1>2. HeldApart'
  BY DEF IInv, HeldApart, Holds
<1>3. CachedApart' /\ CacheBounded'
  BY DEF IInv, CachedApart, CacheBounded
<1>4. Accounted'
  <2> SUFFICES ASSUME NEW b \in Block, class[b] # None
               PROVE  \/ \E t \in Thread, p \in Packet : Uses(t, p, b)'
                      \/ \E t \in Thread : Holds(t, b)'
                      \/ \E k \in Class : \E i \in DOMAIN free[k] : free[k][i] = b
    BY DEF Accounted
  <2>1. \A t \in Thread : Holds(t, b)' <=> Holds(t, b)
    BY DEF Holds
  <2> QED BY <2>1 DEF IInv, Accounted
<1> QED BY <1>1, <1>2, <1>3, <1>4 DEF IInv

LEMMA ConstructScalarInv ==
  ASSUME IInv, NEW t \in Thread, NEW p \in Packet, ConstructScalar(t, p)
  PROVE  IInv'
<1> DEFINE v == [size |-> 0, data |-> Scalar]
<1>1. v \in Payload /\ Put(t, p, v) /\ v.data = Scalar
  BY DEF ConstructScalar, Payload
<1>2. At(t, p).data = None
  BY DEF ConstructScalar, NoPayload
<1> HIDE DEF v
<1>3. TypeOK
  BY DEF IInv
<1>4. TypeOK'
  BY <1>1, <1>3, PutOne DEF ConstructScalar, TypeOK, poolVars
<1>5. \A b \in Block : v.data # b /\ At(t, p).data # b
  BY <1>1, <1>2, NoneAssumption
<1>6. At(t, p)' = v /\ \A u \in Thread, q \in Packet : ~(u = t /\ q = p) => At(u, q)' = At(u, q)
  BY <1>1, <1>3, PutOne
<1>7. \A u \in Thread, q \in Packet, b \in Block : Uses(u, q, b)' <=> Uses(u, q, b)
  BY <1>5, <1>6 DEF Uses
<1>8. \A u \in Thread, q \in Packet, b \in Block : Uses(u, q, b) => At(u, q)' = At(u, q)
  BY <1>5, <1>6 DEF Uses
<1>9. Counted'
  <2>1. \A b \in Block : Users(b)' = Users(b)
    <3> TAKE b \in Block
    <3>1. Users(b)' = Users(b) \ {<<t, p>>}
      BY <1>1, <1>3, <1>5, PutOne
    <3>2. <<t, p>> \notin Users(b)
      BY <1>5 DEF Users
    <3> QED BY <3>1, <3>2
  <2> QED BY <2>1 DEF IInv, Counted, ConstructScalar
<1>10. UNCHANGED <<class, free, pc>>
  BY DEF ConstructScalar, poolVars
<1> QED BY <1>4, <1>7, <1>8, <1>9, <1>10, UsersStay

LEMMA CopyInv ==
  ASSUME IInv, NEW t \in Thread, NEW p \in Packet, NEW q \in Packet, Copy(t, p, q)
  PROVE  IInv'
<1>0. TypeOK
  BY DEF IInv
<1> DEFINE v == At(t, p)
<1>1. v \in Payload /\ Put(t, q, v) /\ At(t, q).data = None
  BY <1>0 DEF Copy, TypeOK, At, NoPayload
<1>2. At(t, q)' = v /\ \A u \in Thread, r \in Packet : ~(u = t /\ r = q) => At(u, r)' = At(u, r)
  BY <1>0, <1>1, PutOne
<1>3. p # q
  BY DEF Copy
<1>4. v.data \in Block <=> HasData(v)
  BY <1>1, PayloadParts
<1>5. TypeOK'
  <2>1. payload' \in [Thread -> [Packet -> Payload]]
    BY <1>0, <1>1, PutOne
  <2>2. ref' \in [Block -> Nat]
    BY <1>0, <1>4 DEF Copy, TypeOK
  <2> QED BY <1>0, <2>1, <2>2 DEF Copy, TypeOK, poolVars
<1>6. Counted'
  <2> SUFFICES ASSUME NEW b \in Block, class[b] # None
               PROVE  ref'[b] = Cardinality(Users(b)')
    BY DEF Counted, Copy
  <2>1. ref[b] = Cardinality(Users(b)) /\ ref[b] \in Nat
    BY <1>0 DEF IInv, Counted, TypeOK
  <2>2. <<t, q>> \notin Users(b)
    BY <1>1, NoneAssumption DEF Users
  <2>3. CASE v.data = b
    <3>1. Users(b)' = Users(b) \cup {<<t, q>>}
      BY <1>0, <1>1, <2>3, PutOne
    <3>2. Cardinality(Users(b)') = Cardinality(Users(b)) + 1
      BY <2>2, <3>1, UsersFinite, FS_AddElement
    <3>3. ref'[b] = ref[b] + 1
      BY <1>0, <1>4, <2>3 DEF Copy, TypeOK
    <3> QED BY <2>1, <3>2, <3>3
  <2>4. CASE v.data # b
    <3>1. Users(b)' = Users(b) \ {<<t, q>>}
      BY <1>0, <1>1, <2>4, PutOne
    <3>2. ref'[b] = ref[b]
      BY <1>0, <2>4 DEF Copy, TypeOK
    <3> QED BY <2>1, <2>2, <3>1, <3>2
  <2> QED BY <2>3, <2>4
<1>7. UNCHANGED <<class, free, pc>>
  BY DEF Copy, poolVars
<1>8. \A u \in Thread, r \in Packet, b \in Block : Uses(u, r, b)' =>
         \E w \in Thread, s \in Packet : Uses(w, s, b) /\ At(u, r)'.size = At(w, s).size
  BY <1>2 DEF Uses
<1>9. \A u \in Thread, r \in Packet, b \in Block : Uses(u, r, b) => Uses(u, r, b)'
  BY <1>1, <1>2, NoneAssumption DEF Uses
<1> QED BY <1>5, <1>6, <1>7, <1>8, <1>9, UsersStay

LEMMA MoveInv ==
  ASSUME IInv, NEW t \in Thread, NEW p \in Packet, NEW w \in Thread, NEW q \in Packet,
         Move(t, p, w, q)
  PROVE  IInv'
<1>0. TypeOK
  BY DEF IInv
<1> DEFINE v == At(t, p)
<1>1. v \in Payload /\ At(w, q).data = None /\ t # w /\ NoPayload \in Payload
  BY <1>0 DEF Move, TypeOK, At, NoPayload, Payload
<1>2. payload' \in [Thread -> [Packet -> Payload]]
  BY <1>0, <1>1 DEF Move, TypeOK, At
<1>3. /\ At(w, q)' = v /\ At(t, p)' = NoPayload
      /\ \A u \in Thread, r \in Packet :
            ~(u = t /\ r = p) /\ ~(u = w /\ r = q) => At(u, r)' = At(u, r)
  BY <1>0, <1>1 DEF Move, TypeOK, At
<1>4. TypeOK'
  BY <1>0, <1>2 DEF Move, TypeOK, poolVars
<1>5. Counted'
  <2> SUFFICES ASSUME NEW b \in Block, class[b] # None
               PROVE  ref[b] = Cardinality(Users(b)')
    BY DEF Counted, Move
  <2>1. ref[b] = Cardinality(Users(b)) /\ ref[b] \in Nat
    BY <1>0 DEF IInv, Counted, TypeOK
  <2>2. <<w, q>> \notin Users(b)
    BY <1>1, NoneAssumption DEF Users
  <2>3. \A u \in Thread, r \in Packet : <<u, r>> \in Users(b)' <=> At(u, r)'.data = b
    BY DEF Users
  <2>4. \A u \in Thread, r \in Packet : <<u, r>> \in Users(b) <=> At(u, r).data = b
    BY DEF Users
  <2>5. NoPayload.data # b
    BY NoneAssumption DEF NoPayload
  <2>6. Users(b) \subseteq Thread \X Packet /\ Users(b)' \subseteq Thread \X Packet
    BY DEF Users
  <2>7. CASE v.data = b
    <3> DEFINE rest == Users(b) \ {<<t, p>>}
    <3>1. <<t, p>> \in Users(b)
      BY <2>4, <2>7
    <3>2. \A u \in Thread, r \in Packet :
             <<u, r>> \in Users(b)' <=> <<u, r>> \in rest \cup {<<w, q>>}
      <4> TAKE u \in Thread, r \in Packet
      <4>1. CASE u = t /\ r = p
        BY <1>1, <1>3, <2>3, <2>4, <2>5, <2>7, <4>1
      <4>2. CASE u = w /\ r = q
        BY <1>1, <1>3, <2>2, <2>3, <2>4, <2>7, <4>2
      <4>3. CASE ~(u = t /\ r = p) /\ ~(u = w /\ r = q)
        <5>1. At(u, r)' = At(u, r) /\ <<u, r>> # <<t, p>> /\ <<u, r>> # <<w, q>>
          BY <1>3, <4>3
        <5> QED BY <2>3, <2>4, <5>1
      <4> QED BY <4>1, <4>2, <4>3
    <3>3. Users(b)' = rest \cup {<<w, q>>}
      <4> HIDE DEF rest
      <4>1. rest \cup {<<w, q>>} \subseteq Thread \X Packet
        BY <2>6 DEF rest
      <4>2. \A x \in Thread \X Packet : x \in Users(b)' <=> x \in rest \cup {<<w, q>>}
        <5> TAKE x \in Thread \X Packet
        <5>1. PICK u \in Thread, r \in Packet : x = <<u, r>>
          OBVIOUS
        <5> QED BY <3>2, <5>1
      <4> QED BY <2>6, <4>1, <4>2
    <3>4. IsFiniteSet(rest) /\ Cardinality(rest) = Cardinality(Users(b)) - 1
      BY <3>1, UsersFinite, FS_RemoveElement
    <3>5. Cardinality(Users(b)') = Cardinality(rest) + 1
      BY <2>2, <3>3, <3>4, FS_AddElement
    <3> QED BY <2>1, <3>4, <3>5
  <2>8. CASE v.data # b
    <3>1. \A u \in Thread, r \in Packet : <<u, r>> \in Users(b)' <=> <<u, r>> \in Users(b)
      <4> TAKE u \in Thread, r \in Packet
      <4>1. CASE u = t /\ r = p
        BY <1>1, <1>3, <2>3, <2>4, <2>5, <2>8, <4>1
      <4>2. CASE u = w /\ r = q
        BY <1>1, <1>3, <2>2, <2>3, <2>4, <2>8, <4>2
      <4>3. CASE ~(u = t /\ r = p) /\ ~(u = w /\ r = q)
        <5>1. At(u, r)' = At(u, r) /\ <<u, r>> # <<t, p>> /\ <<u, r>> # <<w, q>>
          BY <1>3, <4>3
        <5> QED BY <2>3, <2>4, <5>1
      <4> QED BY <4>1, <4>2, <4>3
    <3>2. \A x \in Thread \X Packet : x \in Users(b)' <=> x \in Users(b)
      <4> TAKE x \in Thread \X Packet
      <4>1. PICK u \in Thread, r \in Packet : x = <<u, r>>
        OBVIOUS
      <4> QED BY <3>1, <4>1
    <3>3. Users(b)' = Users(b)
      BY <2>6, <3>2
    <3> QED BY <2>1, <3>3
  <2> QED BY <2>7, <2>8
<1>6. UNCHANGED <<class, free, pc>>
  BY DEF Move, poolVars
<1>7. \A b \in Block : NoPayload.data # b
  BY NoneAssumption DEF NoPayload
<1>8. \A u \in Thread, r \in Packet, b \in Block : Uses(u, r, b)' =>
         \E x \in Thread, s \in Packet : Uses(x, s, b) /\ At(u, r)'.size = At(x, s).size
  BY <1>3, <1>7 DEF Uses
<1>9. \A u \in Thread, r \in Packet, b \in Block : Uses(u, r, b) =>
         \E x \in Thread, s \in Packet : Uses(x, s, b)'
  BY <1>1, <1>3, NoneAssumption DEF Uses
<1> QED BY <1>4, <1>5, <1>6, <1>8, <1>9, UsersStay

\* Allocate takes a block that nobody uses, out of the list if it was cached.
LEMMA ConstructInv ==
  ASSUME IInv, NEW t \in Thread, NEW p \in Packet, NEW size \in Size, Construct(t, p, size)
  PROVE  IInv'
<1>0. TypeOK
  BY DEF IInv
<1> DEFINE k == SizeToClassIndex(size)
           cached == k # 0 /\ free[k] # <<>>
<1>1. PICK b \in Block :
         /\ IF cached THEN b = Last(free[k]) ELSE class[b] = None
         /\ ref' = [ref EXCEPT ![b] = 1]
         /\ class' = [class EXCEPT ![b] = IF cached THEN @ ELSE k]
         /\ Put(t, p, [size |-> size, data |-> b])
  BY DEF Construct
<1>2. free' = IF cached THEN [free EXCEPT ![k] = Front(@)] ELSE free
  BY DEF Construct
<1>3. k \in 0..kClassCount /\ (k # 0 => size <= BlockSize(k))
  BY ClassFits
<1>4. PICK v \in Payload : v = [size |-> size, data |-> b]
  BY DEF Payload
<1>5. Put(t, p, v) /\ v.data = b /\ v.size = size
  BY <1>1, <1>4
<1>6. PICK z : z = k
  OBVIOUS
<1>7. z \in 0..kClassCount /\ (z # 0 => size <= BlockSize(z)) /\ kClassCount \in Nat
  BY <1>3, <1>6, CountAssumption
<1>8. \/ /\ z \in Class /\ free[z] # <<>> /\ b = free[z][Len(free[z])]
         /\ class' = class /\ free' = [free EXCEPT ![z] = SubSeq(@, 1, Len(@) - 1)]
      \/ /\ class[b] = None /\ class' = [class EXCEPT ![b] = z] /\ free' = free
  <2>1. CASE cached
    <3>1. z \in Class
      BY <1>6, <1>7, <2>1 DEF Class
    <3>2. class' = class
      BY <1>0, <1>1, <2>1 DEF TypeOK
    <3> QED BY <1>1, <1>2, <1>6, <2>1, <3>1, <3>2 DEF Last, Front
  <2>2. CASE ~cached
    BY <1>1, <1>2, <1>6, <2>2
  <2> QED BY <2>1, <2>2
<1> HIDE DEF k, cached
<1>9. At(t, p).data = None
  BY DEF Construct, NoPayload
<1>10. At(t, p)' = v /\ \A u \in Thread, q \in Packet : ~(u = t /\ q = p) => At(u, q)' = At(u, q)
  BY <1>0, <1>5, PutOne
\* The block comes from the list of its class, or was not allocated.
<1> DEFINE Moved ==
       /\ free' \in [Class -> Seq(Block)]
       /\ \A u \in Thread, q \in Packet : ~Uses(u, q, b)
       /\ \A u \in Thread : ~Holds(u, b)
       /\ \A x \in Class : \A i \in DOMAIN free'[x] :
             i \in DOMAIN free[x] /\ free'[x][i] = free[x][i] /\ free'[x][i] # b
       /\ \A c \in Block : c # b => \A x \in Class : \A i \in DOMAIN free[x] :
             free[x][i] = c => i \in DOMAIN free'[x] /\ free'[x][i] = c
       /\ \A x \in Class : Len(free'[x]) <= MaxTarget
       /\ class'[b] = z /\ \A c \in Block : c # b => class'[c] = class[c]
       /\ class' \in [Block -> 0..kClassCount \cup {None}]
<1>11. ASSUME z \in Class, free[z] # <<>>, b = free[z][Len(free[z])],
              class' = class, free' = [free EXCEPT ![z] = SubSeq(@, 1, Len(@) - 1)]
       PROVE  Moved
  <2>1. free[z] \in Seq(Block) /\ Len(free[z]) \in DOMAIN free[z]
    BY <1>0, <1>11 DEF TypeOK
  <2> DEFINE s == free[z]
  <2>2. /\ free'[z] \in Seq(Block) /\ Len(free'[z]) = Len(s) - 1
        /\ DOMAIN free'[z] = 1..(Len(s) - 1)
        /\ \A i \in 1..(Len(s) - 1) : free'[z][i] = s[i]
    <3>1. Len(s) - 1 \in 0..Len(s) /\ free'[z] = SubSeq(s, 1, Len(s) - 1)
      BY <1>0, <1>11, <2>1 DEF TypeOK
    <3> QED BY <2>1, <3>1, PrefixParts
  <2>3. free' \in [Class -> Seq(Block)] /\ \A x \in Class : x # z => free'[x] = free[x]
    BY <1>0, <1>11, <2>2 DEF TypeOK
  <2>4. class[b] = z
    BY <1>11, <2>1 DEF IInv, CachedApart
  <2>5. (\A u \in Thread, q \in Packet : ~Uses(u, q, b)) /\ \A u \in Thread : ~Holds(u, b)
    BY <1>11, <2>1 DEF IInv, UsedApart, HeldApart
  <2>6. DOMAIN s = 1..Len(s) /\ Len(s) \in Nat
    BY <2>1
  <2>7. \A x \in Class : \A i \in DOMAIN free'[x] :
           i \in DOMAIN free[x] /\ free'[x][i] = free[x][i] /\ free'[x][i] # b
    <3> TAKE x \in Class
    <3> TAKE i \in DOMAIN free'[x]
    <3>1. CASE x = z
      <4>1. i \in DOMAIN s /\ i # Len(s) /\ free'[z][i] = s[i]
        BY <2>2, <2>6, <3>1
      <4>2. s[i] # s[Len(s)]
        BY <1>11, <2>1, <4>1 DEF IInv, CachedApart
      <4> QED BY <1>11, <3>1, <4>1, <4>2
    <3>2. CASE x # z
      <4>1. free'[x] = free[x]
        BY <2>3, <3>2
      <4>2. class[free[x][i]] = x
        BY <4>1 DEF IInv, CachedApart
      <4> QED BY <2>4, <3>2, <4>1, <4>2
    <3> QED BY <3>1, <3>2
  <2>8. \A c \in Block : c # b => \A x \in Class : \A i \in DOMAIN free[x] :
           free[x][i] = c => i \in DOMAIN free'[x] /\ free'[x][i] = c
    <3> SUFFICES ASSUME NEW c \in Block, c # b, NEW x \in Class, NEW i \in DOMAIN free[x],
                        free[x][i] = c
                 PROVE  i \in DOMAIN free'[x] /\ free'[x][i] = c
      OBVIOUS
    <3>1. CASE x = z
      <4>1. i \in DOMAIN s /\ i # Len(s)
        BY <1>11, <3>1
      <4>2. i \in 1..(Len(s) - 1)
        BY <2>6, <4>1
      <4> QED BY <2>2, <3>1, <4>2
    <3>2. CASE x # z
      BY <2>3, <3>2
    <3> QED BY <3>1, <3>2
  <2>9. \A x \in Class : Len(free'[x]) <= MaxTarget
    <3>1. \A x \in Class : Len(free[x]) <= MaxTarget
      BY DEF IInv, CacheBounded
    <3>2. Len(free'[z]) <= MaxTarget
      <4>1. Len(s) <= MaxTarget /\ MaxTarget \in Nat
        BY <1>11, <3>1, CountAssumption
      <4>2. Len(free'[z]) = Len(s) - 1 /\ Len(s) \in Nat
        BY <2>2, <2>6
      <4> HIDE DEF s
      <4> QED BY <4>1, <4>2
    <3> QED BY <2>3, <3>1, <3>2
  <2>10. class'[b] = z /\ \A c \in Block : c # b => class'[c] = class[c]
    BY <1>11, <2>4
  <2>11. class' \in [Block -> 0..kClassCount \cup {None}]
    BY <1>0, <1>11 DEF TypeOK
  <2> QED BY <2>3, <2>5, <2>7, <2>8, <2>9, <2>10, <2>11
<1>12. ASSUME class[b] = None, class' = [class EXCEPT ![b] = z], free' = free
       PROVE  Moved
  <2>1. (\A u \in Thread, q \in Packet : ~Uses(u, q, b)) /\ \A u \in Thread : ~Holds(u, b)
    BY <1>12 DEF IInv, UsedApart, HeldApart
  <2>2. \A x \in Class : \A i \in DOMAIN free[x] : free[x][i] # b
    BY <1>12, NoneAssumption DEF IInv, CachedApart, Class
  <2>3. class' \in [Block -> 0..kClassCount \cup {None}] /\ class'[b] = z
    BY <1>0, <1>7, <1>12 DEF TypeOK
  <2>4. \A c \in Block : c # b => class'[c] = class[c]
    BY <1>0, <1>12 DEF TypeOK
  <2> QED BY <1>0, <1>12, <2>1, <2>2, <2>3, <2>4 DEF TypeOK, IInv, CacheBounded
<1>13. Moved
  BY <1>8, <1>11, <1>12
<1>14. pc' = pc /\ \A u \in Thread, c \in Block : Holds(u, c)' <=> Holds(u, c)
  BY DEF Construct, Holds
<1>15. z # None
  BY <1>7, NoneAssumption
<1>16. TypeOK'
  <2>1. payload' \in [Thread -> [Packet -> Payload]]
    BY <1>0, <1>5, PutOne
  <2>2. ref' \in [Block -> Nat]
    BY <1>0, <1>1 DEF TypeOK
  <2>3. requests' \in 0..MaxRequests
    <3>1. requests < MaxRequests /\ requests' = requests + 1
      BY DEF Construct
    <3>2. requests \in 0..MaxRequests /\ MaxRequests \in Nat
      BY <1>0, CountAssumption DEF TypeOK
    <3> QED BY <3>1, <3>2
  <2> QED BY <1>0, <1>13, <2>1, <2>2, <2>3 DEF Construct, TypeOK
<1>17. UsedApart'
  <2> SUFFICES ASSUME NEW u \in Thread, NEW q \in Packet, NEW c \in Block, Uses(u, q, c)'
               PROVE  /\ class'[c] # None /\ Fits(u, q, c)'
                      /\ \A x \in Class : \A i \in DOMAIN free'[x] : free'[x][i] # c
                      /\ \A x \in Thread : ~Holds(x, c)'
    BY DEF UsedApart
  <2>1. CASE u = t /\ q = p
    <3>1. c = b
      BY <1>5, <1>10, <2>1 DEF Uses
    <3>2. Fits(u, q, b)'
      BY <1>5, <1>7, <1>10, <1>13, <2>1 DEF Fits
    <3> QED BY <1>13, <1>14, <1>15, <3>1, <3>2
  <2>2. CASE ~(u = t /\ q = p)
    <3>1. At(u, q)' = At(u, q)
      BY <1>10, <2>2
    <3>2. Uses(u, q, c)
      BY <3>1 DEF Uses
    <3>3. c # b
      BY <1>13, <3>2
    <3>4. class'[c] = class[c]
      BY <1>13, <3>3
    <3>5. /\ class[c] # None /\ Fits(u, q, c)
          /\ \A x \in Class : \A i \in DOMAIN free[x] : free[x][i] # c
          /\ \A x \in Thread : ~Holds(x, c)
      BY <3>2 DEF IInv, UsedApart
    <3>6. Fits(u, q, c)'
      BY <3>1, <3>4, <3>5 DEF Fits
    <3>7. \A x \in Class : \A i \in DOMAIN free'[x] : free'[x][i] # c
      BY <1>13, <3>5
    <3> QED BY <1>14, <3>4, <3>5, <3>6, <3>7
  <2> QED BY <2>1, <2>2
<1>18. HeldApart'
  <2> SUFFICES ASSUME NEW u \in Thread, NEW c \in Block, Holds(u, c)'
               PROVE  /\ class'[c] # None /\ (pc'[u].at = "Keep" => class'[c] # 0)
                      /\ \A x \in Class : \A i \in DOMAIN free'[x] : free'[x][i] # c
                      /\ \A w \in Thread : Holds(w, c)' => w = u
    BY DEF HeldApart
  <2>1. Holds(u, c)
    BY <1>14
  <2>2. c # b /\ class'[c] = class[c]
    BY <1>13, <2>1
  <2>3. /\ class[c] # None /\ (pc[u].at = "Keep" => class[c] # 0)
        /\ \A x \in Class : \A i \in DOMAIN free[x] : free[x][i] # c
        /\ \A w \in Thread : Holds(w, c) => w = u
    BY <2>1 DEF IInv, HeldApart
  <2>4. \A x \in Class : \A i \in DOMAIN free'[x] : free'[x][i] # c
    BY <1>13, <2>3
  <2> QED BY <1>14, <2>2, <2>3, <2>4
<1>19. CachedApart'
  <2> SUFFICES ASSUME NEW x \in Class, NEW i \in DOMAIN free'[x]
               PROVE  /\ class'[free'[x][i]] = x
                      /\ \A j \in DOMAIN free'[x] : free'[x][i] = free'[x][j] => i = j
    BY DEF CachedApart
  <2>1. i \in DOMAIN free[x] /\ free'[x][i] = free[x][i] /\ free[x][i] # b
    BY <1>13
  <2>2. free[x][i] \in Block
    BY <1>0, <2>1 DEF TypeOK
  <2>3. class'[free[x][i]] = class[free[x][i]]
    BY <1>13, <2>1, <2>2
  <2>4. class[free[x][i]] = x /\ \A j \in DOMAIN free[x] : free[x][i] = free[x][j] => i = j
    BY <2>1 DEF IInv, CachedApart
  <2>5. \A j \in DOMAIN free'[x] : j \in DOMAIN free[x] /\ free'[x][j] = free[x][j]
    BY <1>13
  <2> QED BY <2>1, <2>3, <2>4, <2>5
<1>20. Accounted'
  <2> SUFFICES ASSUME NEW c \in Block, class'[c] # None
               PROVE  \/ \E u \in Thread, q \in Packet : Uses(u, q, c)'
                      \/ \E u \in Thread : Holds(u, c)'
                      \/ \E x \in Class : \E i \in DOMAIN free'[x] : free'[x][i] = c
    BY DEF Accounted
  <2>1. CASE c = b
    BY <1>5, <1>10, <2>1 DEF Uses
  <2>2. CASE c # b
    <3>1. class[c] # None
      BY <1>13, <2>2
    <3>2. CASE \E u \in Thread, q \in Packet : Uses(u, q, c)
      <4>1. PICK u \in Thread, q \in Packet : Uses(u, q, c)
        BY <3>2
      <4>2. ~(u = t /\ q = p)
        BY <1>9, <4>1, NoneAssumption DEF Uses
      <4>3. Uses(u, q, c)'
        BY <1>10, <4>1, <4>2 DEF Uses
      <4> QED BY <4>3
    <3>3. CASE \E u \in Thread : Holds(u, c)
      BY <1>14, <3>3
    <3>4. CASE \E x \in Class : \E i \in DOMAIN free[x] : free[x][i] = c
      BY <1>13, <2>2, <3>4
    <3> QED BY <3>1, <3>2, <3>3, <3>4 DEF IInv, Accounted
  <2> QED BY <2>1, <2>2
<1>21. Counted'
  <2> SUFFICES ASSUME NEW c \in Block, class'[c] # None
               PROVE  ref'[c] = Cardinality(Users(c)')
    BY DEF Counted
  <2>1. CASE c = b
    <3>1. Users(c) = {}
      <4>1. \A u \in Thread \X Packet : ~(At(u[1], u[2]).data = b)
        BY <1>13 DEF Uses
      <4> QED BY <2>1, <4>1 DEF Users
    <3>2. Users(c)' = Users(c) \cup {<<t, p>>}
      BY <1>0, <1>5, <2>1, PutOne
    <3>3. Users(c)' = {<<t, p>>}
      BY <3>1, <3>2
    <3>4. Cardinality(Users(c)') = 1
      BY <3>3, FS_Singleton
    <3>5. ref'[c] = 1
      BY <1>0, <1>1, <2>1 DEF TypeOK
    <3> QED BY <3>4, <3>5
  <2>2. CASE c # b
    <3>1. Users(c)' = Users(c) \ {<<t, p>>}
      BY <1>0, <1>5, <2>2, PutOne
    <3>2. <<t, p>> \notin Users(c)
      BY <1>9, NoneAssumption DEF Users
    <3>3. class[c] # None /\ ref'[c] = ref[c]
      BY <1>0, <1>1, <1>13, <2>2 DEF TypeOK
    <3> QED BY <3>1, <3>2, <3>3 DEF IInv, Counted
  <2> QED BY <2>1, <2>2
<1>22. CacheBounded'
  BY <1>13 DEF CacheBounded
<1> QED BY <1>16, <1>17, <1>18, <1>19, <1>20, <1>21, <1>22 DEF IInv

\* The last reference that is dropped leaves the block with the thread.
LEMMA ReleasePayloadInv ==
  ASSUME IInv, NEW t \in Thread, NEW p \in Packet, ReleasePayload(t, p)
  PROVE  IInv'
<1>0. TypeOK
  BY DEF IInv
<1>1. NoPayload \in Payload /\ Put(t, p, NoPayload) /\ NoPayload.data = None
  BY DEF ReleasePayload, NoPayload, Payload
<1>2. /\ At(t, p)' = NoPayload
      /\ \A u \in Thread, q \in Packet : ~(u = t /\ q = p) => At(u, q)' = At(u, q)
      /\ payload' \in [Thread -> [Packet -> Payload]]
      /\ \A c \in Block : Users(c)' = Users(c) \ {<<t, p>>}
  BY <1>0, <1>1, PutOne, NoneAssumption
<1>3. UNCHANGED <<class, free, target, requests, retuning>> /\ pc[t] = Idle
  BY DEF ReleasePayload, poolVars
<1>4. At(t, p) \in Payload
  BY <1>0 DEF TypeOK, At
<1>5. \A c : ~Holds(t, c)
  BY <1>3 DEF Holds, Idle
<1>6. CASE ~HasData(At(t, p))
  <2>1. UNCHANGED <<ref, pc>>
    BY <1>6 DEF ReleasePayload
  <2>2. At(t, p).data \notin Block
    BY <1>4, <1>6, PayloadParts
  <2>3. TypeOK'
    BY <1>0, <1>2, <1>3, <2>1 DEF TypeOK
  <2>4. \A u \in Thread, q \in Packet, c \in Block :
           (Uses(u, q, c)' <=> Uses(u, q, c)) /\ (Uses(u, q, c) => At(u, q)' = At(u, q))
    BY <1>1, <1>2, <2>2, NoneAssumption DEF Uses
  <2>5. Counted'
    <3>1. \A c \in Block : <<t, p>> \notin Users(c)
      BY <2>2 DEF Users
    <3>2. \A c \in Block : Users(c)' = Users(c)
      BY <1>2, <3>1
    <3> QED BY <1>3, <2>1, <3>2 DEF IInv, Counted
  <2> QED BY <1>3, <2>1, <2>3, <2>4, <2>5, UsersStay
<1>7. CASE HasData(At(t, p))
  <2>1. PICK b \in Block : b = At(t, p).data
    BY <1>4, <1>7, PayloadParts
  <2>2. /\ ref' = [ref EXCEPT ![b] = @ - 1]
        /\ pc' = [pc EXCEPT ![t] = IF ref[b] = 1 THEN [at |-> "Release", block |-> b] ELSE Idle]
    BY <1>7, <2>1 DEF ReleasePayload
  <2>3. Uses(t, p, b) /\ <<t, p>> \in Users(b)
    BY <2>1 DEF Uses, Users
  <2>4. /\ class[b] # None
        /\ \A k \in Class : \A i \in DOMAIN free[k] : free[k][i] # b
        /\ \A u \in Thread : ~Holds(u, b)
    BY <2>3 DEF IInv, UsedApart
  <2>5. ref[b] = Cardinality(Users(b)) /\ ref[b] \in Nat
    BY <1>0, <2>4 DEF IInv, Counted, TypeOK
  <2>6. /\ IsFiniteSet(Users(b)')
        /\ Cardinality(Users(b)') = ref[b] - 1 /\ Cardinality(Users(b)') \in Nat
    <3>1. Users(b)' = Users(b) \ {<<t, p>>}
      BY <1>2
    <3>2. IsFiniteSet(Users(b) \ {<<t, p>>})
          /\ Cardinality(Users(b) \ {<<t, p>>}) = Cardinality(Users(b)) - 1
      BY <2>3, UsersFinite, FS_RemoveElement
    <3>3. Cardinality(Users(b) \ {<<t, p>>}) \in Nat
      BY <3>2, FS_CardinalityType
    <3> QED BY <2>5, <3>1, <3>2, <3>3
  <2>7. ref'[b] = ref[b] - 1 /\ \A c \in Block : c # b => ref'[c] = ref[c]
    BY <1>0, <2>2 DEF TypeOK
  <2>8. ref' \in [Block -> Nat]
    <3>1. ref[b] - 1 \in Nat
      BY <2>6
    <3> QED BY <1>0, <2>2, <3>1 DEF TypeOK
  <2>9. pc' \in [Thread -> Place]
    BY <1>0, <2>2, PlaceBuilt DEF TypeOK
  <2>10. TypeOK'
    BY <1>0, <1>2, <1>3, <2>8, <2>9 DEF TypeOK
  <2>11. \A u \in Thread : u # t => pc'[u] = pc[u]
    BY <1>0, <2>2 DEF TypeOK
  <2>12. pc'[t] = IF ref[b] = 1 THEN [at |-> "Release", block |-> b] ELSE Idle
    BY <1>0, <2>2 DEF TypeOK
  <2>13. /\ \A c \in Block : Holds(t, c)' <=> c = b /\ ref[b] = 1
         /\ pc'[t].at # "Keep"
    BY <2>12 DEF Holds, Idle
  <2>14. \A u \in Thread, c \in Block : u # t => (Holds(u, c)' <=> Holds(u, c))
    BY <2>11 DEF Holds
  <2>15. \A u \in Thread, q \in Packet : Uses(u, q, b)' => ref[b] # 1
    <3> SUFFICES ASSUME NEW u \in Thread, NEW q \in Packet, Uses(u, q, b)', ref[b] = 1
                 PROVE  FALSE
      OBVIOUS
    <3>1. <<u, q>> \in Users(b)'
      BY DEF Uses, Users
    <3>2. Cardinality(Users(b)') = 0
      BY <2>6
    <3>3. Users(b)' = {}
      BY <2>6, <3>2, FS_EmptySet
    <3> QED BY <3>1, <3>3
  <2>16. \A u \in Thread, q \in Packet, c \in Block : Uses(u, q, c)' =>
            Uses(u, q, c) /\ At(u, q)' = At(u, q)
    BY <1>1, <1>2, NoneAssumption DEF Uses
  <2>17. UsedApart'
    <3> SUFFICES ASSUME NEW u \in Thread, NEW q \in Packet, NEW c \in Block, Uses(u, q, c)'
                 PROVE  /\ class'[c] # None /\ Fits(u, q, c)'
                        /\ \A x \in Class : \A i \in DOMAIN free'[x] : free'[x][i] # c
                        /\ \A x \in Thread : ~Holds(x, c)'
      BY DEF UsedApart
    <3>1. Uses(u, q, c) /\ At(u, q)' = At(u, q)
      BY <2>16
    <3>2. /\ class[c] # None /\ Fits(u, q, c)
          /\ \A x \in Class : \A i \in DOMAIN free[x] : free[x][i] # c
          /\ \A x \in Thread : ~Holds(x, c)
      BY <3>1 DEF IInv, UsedApart
    <3>3. Fits(u, q, c)'
      BY <1>3, <3>1, <3>2 DEF Fits
    <3>4. \A x \in Thread : ~Holds(x, c)'
      BY <2>13, <2>14, <2>15, <3>2
    <3> QED BY <1>3, <3>2, <3>3, <3>4
  <2>18. HeldApart'
    <3> SUFFICES ASSUME NEW u \in Thread, NEW c \in Block, Holds(u, c)'
                 PROVE  /\ class'[c] # None /\ (pc'[u].at = "Keep" => class'[c] # 0)
                        /\ \A x \in Class : \A i \in DOMAIN free'[x] : free'[x][i] # c
                        /\ \A w \in Thread : Holds(w, c)' => w = u
      BY DEF HeldApart
    <3>1. CASE u = t
      <4>1. c = b
        BY <2>13, <3>1
      <4> QED BY <1>3, <2>4, <2>13, <2>14, <3>1, <4>1
    <3>2. CASE u # t
      <4>1. Holds(u, c) /\ c # b
        BY <2>4, <2>14, <3>2
      <4>2. /\ class[c] # None /\ (pc[u].at = "Keep" => class[c] # 0)
            /\ \A x \in Class : \A i \in DOMAIN free[x] : free[x][i] # c
            /\ \A w \in Thread : Holds(w, c) => w = u
        BY <4>1 DEF IInv, HeldApart
      <4>3. \A w \in Thread : Holds(w, c)' => Holds(w, c)
        BY <2>13, <2>14, <4>1
      <4> QED BY <1>3, <2>11, <3>2, <4>2, <4>3
    <3> QED BY <3>1, <3>2
  <2>19. CachedApart' /\ CacheBounded'
    BY <1>3 DEF IInv, CachedApart, CacheBounded
  <2>20. Accounted'
    <3> SUFFICES ASSUME NEW c \in Block, class[c] # None
                 PROVE  \/ \E u \in Thread, q \in Packet : Uses(u, q, c)'
                        \/ \E u \in Thread : Holds(u, c)'
                        \/ \E x \in Class : \E i \in DOMAIN free[x] : free[x][i] = c
      BY <1>3 DEF Accounted
    <3>1. CASE c = b
      <4>1. CASE ref[b] = 1
        BY <2>13, <3>1, <4>1
      <4>2. CASE ref[b] # 1
        <5>1. Users(b)' # {}
          <6>1. Cardinality(Users(b)') # 0
            BY <2>5, <2>6, <4>2
          <6> QED BY <6>1, FS_EmptySet
        <5>2. PICK x \in Users(b)' : TRUE
          BY <5>1
        <5>3. x[1] \in Thread /\ x[2] \in Packet /\ Uses(x[1], x[2], b)'
          BY <5>2 DEF Users, Uses
        <5> QED BY <3>1, <5>3
      <4> QED BY <4>1, <4>2
    <3>2. CASE c # b
      <4>1. CASE \E u \in Thread, q \in Packet : Uses(u, q, c)
        <5>1. PICK u \in Thread, q \in Packet : Uses(u, q, c)
          BY <4>1
        <5>2. ~(u = t /\ q = p)
          BY <2>1, <3>2, <5>1 DEF Uses
        <5>3. Uses(u, q, c)'
          BY <1>2, <5>1, <5>2 DEF Uses
        <5> QED BY <5>3
      <4>2. CASE \E u \in Thread : Holds(u, c)
        BY <1>5, <2>14, <4>2
      <4>3. CASE \E x \in Class : \E i \in DOMAIN free[x] : free[x][i] = c
        BY <4>3
      <4> QED BY <4>1, <4>2, <4>3 DEF IInv, Accounted
    <3> QED BY <3>1, <3>2
  <2>21. Counted'
    <3> SUFFICES ASSUME NEW c \in Block, class[c] # None
                 PROVE  ref'[c] = Cardinality(Users(c)')
      BY <1>3 DEF Counted
    <3>1. CASE c = b
      BY <2>6, <2>7, <3>1
    <3>2. CASE c # b
      <4>1. <<t, p>> \notin Users(c)
        BY <2>1, <3>2 DEF Users
      <4>2. Users(c)' = Users(c)
        BY <1>2, <4>1
      <4> QED BY <2>7, <3>2, <4>2 DEF IInv, Counted
    <3> QED BY <3>1, <3>2
  <2> QED BY <2>10, <2>17, <2>18, <2>19, <2>20, <2>21 DEF IInv
<1> QED BY <1>6, <1>7

-----------------------------------------------------------------------------
(* The steps of a release. *)

\* A thread deletes the block it gives back: nobody else has it.
LEMMA DeleteHeld ==
  ASSUME IInv, TypeOK', NEW t \in Thread, NEW b \in Block, Holds(t, b), Delete({b}),
         UNCHANGED <<ref, free, payload>>, \A c : ~Holds(t, c)',
         \A u \in Thread : u # t => pc'[u] = pc[u]
  PROVE  IInv'
<1>1. /\ class[b] # None
      /\ \A k \in Class : \A i \in DOMAIN free[k] : free[k][i] # b
      /\ \A u \in Thread : Holds(u, b) => u = t
  BY DEF IInv, HeldApart
<1>2. \A u \in Thread, q \in Packet : ~Uses(u, q, b)
  BY DEF IInv, UsedApart
<1>3. class'[b] = None /\ \A c \in Block : c # b => class'[c] = class[c]
  BY DEF Delete
<1>4. \A u \in Thread, c \in Block : Holds(u, c)' <=> Holds(u, c) /\ c # b
  <2> TAKE u \in Thread, c \in Block
  <2>1. CASE u = t
    <3>1. Holds(u, c) => c = b
      BY <2>1 DEF Holds
    <3> QED BY <2>1, <3>1
  <2>2. CASE u # t
    BY <1>1, <2>2 DEF Holds
  <2> QED BY <2>1, <2>2
<1>5. \A u \in Thread, c \in Block : Holds(u, c)' => pc'[u] = pc[u]
  OBVIOUS
<1>6. \A u \in Thread, q \in Packet, c \in Block :
         (Uses(u, q, c)' <=> Uses(u, q, c)) /\ At(u, q)' = At(u, q)
  BY DEF Uses, At
<1>7. UsedApart'
  <2> SUFFICES ASSUME NEW u \in Thread, NEW q \in Packet, NEW c \in Block, Uses(u, q, c)'
               PROVE  /\ class'[c] # None /\ Fits(u, q, c)'
                      /\ \A x \in Class : \A i \in DOMAIN free'[x] : free'[x][i] # c
                      /\ \A x \in Thread : ~Holds(x, c)'
    BY DEF UsedApart
  <2>1. Uses(u, q, c) /\ c # b /\ class'[c] = class[c]
    BY <1>2, <1>3, <1>6
  <2>2. /\ class[c] # None /\ Fits(u, q, c)
        /\ \A x \in Class : \A i \in DOMAIN free[x] : free[x][i] # c
        /\ \A x \in Thread : ~Holds(x, c)
    BY <2>1 DEF IInv, UsedApart
  <2>3. Fits(u, q, c)'
    BY <1>6, <2>1, <2>2 DEF Fits
  <2> QED BY <1>4, <2>1, <2>2, <2>3
<1>8. HeldApart'
  <2> SUFFICES ASSUME NEW u \in Thread, NEW c \in Block, Holds(u, c)'
               PROVE  /\ class'[c] # None /\ (pc'[u].at = "Keep" => class'[c] # 0)
                      /\ \A x \in Class : \A i \in DOMAIN free'[x] : free'[x][i] # c
                      /\ \A w \in Thread : Holds(w, c)' => w = u
    BY DEF HeldApart
  <2>1. Holds(u, c) /\ c # b /\ class'[c] = class[c] /\ pc'[u] = pc[u]
    BY <1>3, <1>4, <1>5
  <2>2. /\ class[c] # None /\ (pc[u].at = "Keep" => class[c] # 0)
        /\ \A x \in Class : \A i \in DOMAIN free[x] : free[x][i] # c
        /\ \A w \in Thread : Holds(w, c) => w = u
    BY <2>1 DEF IInv, HeldApart
  <2> QED BY <1>4, <2>1, <2>2
<1>9. CachedApart'
  <2>1. \A k \in Class : \A i \in DOMAIN free[k] : free[k][i] \in Block
    BY DEF IInv, TypeOK
  <2>2. \A k \in Class : \A i \in DOMAIN free[k] : class'[free[k][i]] = class[free[k][i]]
    BY <1>1, <1>3, <2>1
  <2> QED BY <2>2 DEF IInv, CachedApart
<1>10. CacheBounded'
  BY DEF IInv, CacheBounded
<1>11. Accounted'
  BY <1>3, <1>4, <1>6 DEF IInv, Accounted
<1>12. Counted'
  <2>1. \A c : Users(c)' = Users(c)
    BY DEF Users, At
  <2> QED BY <1>3, <2>1 DEF IInv, Counted
<1> QED BY <1>7, <1>8, <1>9, <1>10, <1>11, <1>12 DEF IInv

LEMMA LoadTargetInv ==
  ASSUME IInv, NEW t \in Thread, LoadTarget(t)
  PROVE  IInv'
<1>0. TypeOK
  BY DEF IInv
<1>1. pc[t] \in Place /\ pc[t].at = "Release"
  BY <1>0 DEF TypeOK, LoadTarget
<1>2. PICK b \in Block : b = pc[t].block
  BY <1>1, PlaceParts
<1>3. Holds(t, b)
  BY <1>1, <1>2 DEF Holds
<1>4. class[b] # None
  BY <1>3 DEF IInv, HeldApart
<1>5. UNCHANGED <<ref, free, target, requests, payload, retuning>>
  BY DEF LoadTarget, poolVars
<1>6. CASE class[b] = 0
  <2>1. Delete({b}) /\ pc' = [pc EXCEPT ![t] = Idle]
    BY <1>2, <1>6 DEF LoadTarget
  <2>2. pc'[t] = Idle /\ \A u \in Thread : u # t => pc'[u] = pc[u]
    BY <1>0, <2>1 DEF TypeOK
  <2>3. \A c : ~Holds(t, c)'
    BY <2>2 DEF Holds, Idle
  <2>4. TypeOK'
    <3>1. class' \in [Block -> 0..kClassCount \cup {None}]
      BY <1>0, <2>1 DEF Delete, TypeOK
    <3>2. pc' \in [Thread -> Place]
      BY <1>0, <2>1, PlaceBuilt DEF TypeOK
    <3> QED BY <1>0, <1>5, <3>1, <3>2 DEF TypeOK
  <2> QED BY <1>3, <1>5, <2>1, <2>2, <2>3, <2>4, DeleteHeld
<1>7. CASE class[b] # 0
  <2>1. PICK n : n = target[class[b]]
    OBVIOUS
  <2>2. /\ UNCHANGED class
        /\ pc' = [pc EXCEPT ![t] = [at |-> "Keep", block |-> b, target |-> n]]
    BY <1>2, <1>7, <2>1 DEF LoadTarget
  <2>3. class[b] \in Class
    BY <1>0, <1>4, <1>7, CountAssumption DEF TypeOK, Class
  <2>4. n \in Target
    BY <1>0, <2>1, <2>3 DEF TypeOK
  <2>5. TypeOK'
    <3>1. pc' \in [Thread -> Place]
      BY <1>0, <2>2, <2>4, PlaceBuilt DEF TypeOK
    <3> QED BY <1>0, <1>5, <2>2, <3>1 DEF TypeOK
  <2>6. pc'[t] = [at |-> "Keep", block |-> b, target |-> n]
        /\ \A u \in Thread : u # t => pc'[u] = pc[u]
    BY <1>0, <2>2 DEF TypeOK
  <2>7. \A u \in Thread, c \in Block : Holds(u, c)' <=> Holds(u, c)
    BY <1>1, <1>2, <2>6 DEF Holds
  <2>8. \A u \in Thread, c \in Block :
           Holds(u, c) /\ pc'[u].at = "Keep" => pc[u].at = "Keep" \/ class[c] # 0
    BY <1>2, <1>7, <2>6 DEF Holds
  <2> QED BY <1>5, <2>2, <2>5, <2>7, <2>8, BlocksStay
<1> QED BY <1>6, <1>7

LEMMA MaybeRetuneInv ==
  ASSUME IInv, NEW t \in Thread, MaybeRetune(t)
  PROVE  IInv'
<1>0. TypeOK
  BY DEF IInv
<1>1. UNCHANGED <<ref, class, free, target, requests, payload>>
  BY DEF MaybeRetune, poolVars
<1>2. 1 \in Class
  BY CountAssumption DEF Class
<1>3. retuning' \in Thread \cup {None}
  BY <1>0 DEF MaybeRetune, TypeOK
<1>4. PICK x \in {Idle, [at |-> "Retune", class |-> 1]} : pc' = [pc EXCEPT ![t] = x]
  BY DEF MaybeRetune
<1>5. x \in Place /\ x.at \notin {"Release", "Keep"}
  BY <1>2, PlaceBuilt DEF Idle
<1>6. pc'[t] = x /\ \A u \in Thread : u # t => pc'[u] = pc[u]
  BY <1>0, <1>4 DEF TypeOK
<1>7. TypeOK'
  <2>1. pc' \in [Thread -> Place]
    BY <1>0, <1>4, <1>5 DEF TypeOK
  <2> QED BY <1>0, <1>1, <1>3, <2>1 DEF TypeOK
<1>8. pc[t].at = "Maybe"
  BY DEF MaybeRetune
<1>9. \A u \in Thread, c \in Block : Holds(u, c)' <=> Holds(u, c)
  BY <1>5, <1>6, <1>8 DEF Holds
<1>10. \A u \in Thread, c \in Block : Holds(u, c) => pc'[u] = pc[u]
  BY <1>6, <1>8 DEF Holds
<1> QED BY <1>1, <1>7, <1>9, <1>10, BlocksStay

LEMMA StoreTargetInv ==
  ASSUME IInv, NEW t \in Thread, StoreTarget(t)
  PROVE  IInv'
<1>0. TypeOK
  BY DEF IInv
<1>1. UNCHANGED <<ref, class, free, requests, payload, retuning>>
  BY DEF StoreTarget
<1>2. pc[t] \in Place /\ pc[t].at = "Retune"
  BY <1>0 DEF TypeOK, StoreTarget
<1>3. PICK k \in Class : k = pc[t].class
  BY <1>2, PlaceParts
<1>4. PICK n \in Target : target' = [target EXCEPT ![k] = n]
  BY <1>3 DEF StoreTarget, Target
<1>5. target' \in [Class -> Target] /\ target'[k] = n
  BY <1>0, <1>4 DEF TypeOK
<1>6. pc' = [pc EXCEPT ![t] = [at |-> "Trim", class |-> k, target |-> n]]
  BY <1>3, <1>5 DEF StoreTarget
<1>7. PICK x : x = [at |-> "Trim", class |-> k, target |-> n]
  OBVIOUS
<1>8. x \in Place /\ x.at = "Trim"
  BY <1>7, PlaceBuilt
<1>9. pc'[t] = x /\ \A u \in Thread : u # t => pc'[u] = pc[u]
  BY <1>0, <1>6, <1>7 DEF TypeOK
<1>10. TypeOK'
  <2>1. pc' \in [Thread -> Place]
    BY <1>0, <1>6, <1>7, <1>8 DEF TypeOK
  <2> QED BY <1>0, <1>1, <1>5, <2>1 DEF TypeOK
<1>11. \A u \in Thread, c \in Block : Holds(u, c)' <=> Holds(u, c)
  BY <1>2, <1>8, <1>9 DEF Holds
<1>12. \A u \in Thread, c \in Block : Holds(u, c) => pc'[u] = pc[u]
  BY <1>2, <1>9 DEF Holds
<1> QED BY <1>1, <1>10, <1>11, <1>12, BlocksStay

LEMMA BoostInv ==
  ASSUME IInv, NEW size \in Size, BoostClassCacheForSize(size, MaxTarget)
  PROVE  IInv'
<1>0. TypeOK
  BY DEF IInv
<1>1. UNCHANGED <<ref, class, free, payload, requests, pc, retuning>>
  BY DEF BoostClassCacheForSize
<1>2. MaxTarget \in Target
  BY CountAssumption DEF Target
<1>3. target' \in [Class -> Target]
  BY <1>0, <1>2 DEF BoostClassCacheForSize, TypeOK
<1>4. TypeOK'
  BY <1>0, <1>1, <1>3 DEF TypeOK
<1>5. \A u \in Thread, c \in Block : Holds(u, c)' <=> Holds(u, c)
  BY <1>1 DEF Holds
<1> QED BY <1>1, <1>4, <1>5, BlocksStay

\* A block is put into the list of its class while the list is short of the target
\* that was read, which is at most the largest one.
LEMMA KeepInv ==
  ASSUME IInv, NEW t \in Thread, Keep(t)
  PROVE  IInv'
<1>0. TypeOK
  BY DEF IInv
<1>1. pc[t] \in Place /\ pc[t].at = "Keep"
  BY <1>0 DEF TypeOK, Keep
<1>2. PICK b \in Block, n \in Target : b = pc[t].block /\ n = pc[t].target
  BY <1>1, PlaceParts
<1>3. Holds(t, b)
  BY <1>1, <1>2 DEF Holds
<1>4. /\ class[b] # None /\ class[b] # 0
      /\ \A x \in Class : \A i \in DOMAIN free[x] : free[x][i] # b
      /\ \A u \in Thread : Holds(u, b) => u = t
  BY <1>1, <1>3 DEF IInv, HeldApart
<1>5. PICK k \in Class : k = class[b]
  BY <1>0, <1>4, CountAssumption DEF TypeOK, Class
<1>6. UNCHANGED <<ref, target, requests, payload, retuning>>
      /\ pc' = [pc EXCEPT ![t] = [at |-> "Maybe"]]
  BY DEF Keep
<1>7. pc'[t] = [at |-> "Maybe"] /\ \A u \in Thread : u # t => pc'[u] = pc[u]
  BY <1>0, <1>6 DEF TypeOK
<1>8. \A c : ~Holds(t, c)'
  BY <1>7 DEF Holds
<1>9. pc' \in [Thread -> Place]
  BY <1>0, <1>6, PlaceBuilt DEF TypeOK
<1>10. \/ Delete({b}) /\ UNCHANGED free
       \/ /\ Len(free[k]) < n
          /\ free' = [free EXCEPT ![k] = Append(@, b)] /\ UNCHANGED class
  BY <1>2, <1>5 DEF Keep
<1>11. CASE Delete({b}) /\ UNCHANGED free
  <2>1. class' \in [Block -> 0..kClassCount \cup {None}]
    BY <1>0, <1>11 DEF Delete, TypeOK
  <2>2. TypeOK'
    BY <1>0, <1>6, <1>9, <1>11, <2>1 DEF TypeOK
  <2> QED BY <1>3, <1>6, <1>7, <1>8, <1>11, <2>2, DeleteHeld
<1>12. CASE /\ Len(free[k]) < n
            /\ free' = [free EXCEPT ![k] = Append(@, b)] /\ UNCHANGED class
  <2> DEFINE s == free[k]
  <2>1. s \in Seq(Block) /\ Len(s) \in Nat /\ DOMAIN s = 1..Len(s)
    BY <1>0 DEF TypeOK
  <2>2. PICK z : z = Append(s, b)
    OBVIOUS
  <2>3. /\ z \in Seq(Block) /\ Len(z) = Len(s) + 1 /\ DOMAIN z = 1..(Len(s) + 1)
        /\ z[Len(s) + 1] = b /\ \A i \in 1..Len(s) : z[i] = s[i]
    BY <2>1, <2>2
  <2>4. free'[k] = z /\ \A x \in Class : x # k => free'[x] = free[x]
    BY <1>0, <1>12, <2>2 DEF TypeOK
  <2>5. free' \in [Class -> Seq(Block)]
    BY <1>0, <1>12, <2>2, <2>3 DEF TypeOK
  <2>6. TypeOK'
    BY <1>0, <1>6, <1>9, <1>12, <2>5 DEF TypeOK
  \* What is in a list was there, or is b at the end of the list of its class.
  <2>7. \A x \in Class : \A i \in DOMAIN free'[x] :
           \/ i \in DOMAIN free[x] /\ free'[x][i] = free[x][i] /\ free[x][i] # b
           \/ x = k /\ i = Len(s) + 1 /\ free'[x][i] = b
    <3> SUFFICES ASSUME NEW x \in Class, NEW i \in DOMAIN free'[x]
                 PROVE  \/ i \in DOMAIN free[x] /\ free'[x][i] = free[x][i] /\ free[x][i] # b
                        \/ x = k /\ i = Len(s) + 1 /\ free'[x][i] = b
      OBVIOUS
    <3>1. CASE x = k
      <4>1. i \in 1..Len(s) \/ i = Len(s) + 1
        BY <2>1, <2>3, <2>4, <3>1
      <4> QED BY <1>4, <2>1, <2>3, <2>4, <3>1, <4>1
    <3>2. CASE x # k
      BY <1>4, <2>4, <3>2
    <3> QED BY <3>1, <3>2
  <2>8. \A x \in Class : \A i \in DOMAIN free[x] :
           i \in DOMAIN free'[x] /\ free'[x][i] = free[x][i]
    <3> SUFFICES ASSUME NEW x \in Class, NEW i \in DOMAIN free[x]
                 PROVE  i \in DOMAIN free'[x] /\ free'[x][i] = free[x][i]
      OBVIOUS
    <3>1. CASE x = k
      <4>1. i \in 1..Len(s)
        BY ONLY <2>1, <3>1, i \in DOMAIN free[x]
      <4>2. i \in 1..(Len(s) + 1)
        BY ONLY <2>1, <4>1
      <4> QED BY ONLY <2>3, <2>4, <3>1, <4>1, <4>2
    <3>2. CASE x # k
      BY <2>4, <3>2
    <3> QED BY <3>1, <3>2
  <2>9. Len(s) + 1 \in DOMAIN free'[k] /\ free'[k][Len(s) + 1] = b
    BY <2>1, <2>3, <2>4
  <2> HIDE DEF s
  <2>10. \A u \in Thread, c \in Block : Holds(u, c)' <=> Holds(u, c) /\ c # b
    <3> TAKE u \in Thread, c \in Block
    <3>1. CASE u = t
      <4>1. Holds(u, c) => c = b
        BY <1>2, <3>1 DEF Holds
      <4> QED BY <1>8, <3>1, <4>1
    <3>2. CASE u # t
      BY <1>4, <1>7, <3>2 DEF Holds
    <3> QED BY <3>1, <3>2
  <2>11. \A u \in Thread, q \in Packet, c \in Block :
            (Uses(u, q, c)' <=> Uses(u, q, c)) /\ At(u, q)' = At(u, q)
    BY <1>6 DEF Uses, At
  <2>12. \A u \in Thread, q \in Packet : ~Uses(u, q, b)
    BY <1>3 DEF IInv, UsedApart
  <2>13. UsedApart'
    <3> SUFFICES ASSUME NEW u \in Thread, NEW q \in Packet, NEW c \in Block, Uses(u, q, c)'
                 PROVE  /\ class'[c] # None /\ Fits(u, q, c)'
                        /\ \A x \in Class : \A i \in DOMAIN free'[x] : free'[x][i] # c
                        /\ \A x \in Thread : ~Holds(x, c)'
      BY DEF UsedApart
    <3>1. Uses(u, q, c) /\ c # b
      BY <2>11, <2>12
    <3>2. /\ class[c] # None /\ Fits(u, q, c)
          /\ \A x \in Class : \A i \in DOMAIN free[x] : free[x][i] # c
          /\ \A x \in Thread : ~Holds(x, c)
      BY <3>1 DEF IInv, UsedApart
    <3>3. Fits(u, q, c)'
      BY <1>12, <2>11, <3>2 DEF Fits
    <3>4. \A x \in Class : \A i \in DOMAIN free'[x] : free'[x][i] # c
      BY <2>7, <3>1, <3>2
    <3> QED BY <1>12, <2>10, <3>2, <3>3, <3>4
  <2>14. HeldApart'
    <3> SUFFICES ASSUME NEW u \in Thread, NEW c \in Block, Holds(u, c)'
                 PROVE  /\ class'[c] # None /\ (pc'[u].at = "Keep" => class'[c] # 0)
                        /\ \A x \in Class : \A i \in DOMAIN free'[x] : free'[x][i] # c
                        /\ \A w \in Thread : Holds(w, c)' => w = u
      BY DEF HeldApart
    <3>1. Holds(u, c) /\ c # b /\ u # t
      BY <1>8, <2>10
    <3>2. /\ class[c] # None /\ (pc[u].at = "Keep" => class[c] # 0)
          /\ \A x \in Class : \A i \in DOMAIN free[x] : free[x][i] # c
          /\ \A w \in Thread : Holds(w, c) => w = u
      BY <3>1 DEF IInv, HeldApart
    <3>3. \A x \in Class : \A i \in DOMAIN free'[x] : free'[x][i] # c
      BY <2>7, <3>1, <3>2
    <3> QED BY <1>7, <1>12, <2>10, <3>1, <3>2, <3>3
  <2>15. CachedApart'
    <3> SUFFICES ASSUME NEW x \in Class, NEW i \in DOMAIN free'[x]
                 PROVE  /\ class[free'[x][i]] = x
                        /\ \A j \in DOMAIN free'[x] : free'[x][i] = free'[x][j] => i = j
      BY <1>12 DEF CachedApart
    <3>1. CASE i \in DOMAIN free[x] /\ free'[x][i] = free[x][i] /\ free[x][i] # b
      <4>1. class[free[x][i]] = x /\ \A j \in DOMAIN free[x] : free[x][i] = free[x][j] => i = j
        BY <3>1 DEF IInv, CachedApart
      <4> QED BY <2>7, <3>1, <4>1
    <3>2. CASE x = k /\ i = Len(s) + 1 /\ free'[x][i] = b
      BY <1>5, <2>7, <3>2
    <3> QED BY <2>7, <3>1, <3>2
  <2>16. Accounted'
    <3> SUFFICES ASSUME NEW c \in Block, class[c] # None
                 PROVE  \/ \E u \in Thread, q \in Packet : Uses(u, q, c)'
                        \/ \E u \in Thread : Holds(u, c)'
                        \/ \E x \in Class : \E i \in DOMAIN free'[x] : free'[x][i] = c
      BY <1>12 DEF Accounted
    <3>1. CASE c = b
      BY <2>9, <3>1
    <3>2. CASE c # b
      BY <2>8, <2>10, <2>11, <3>2 DEF IInv, Accounted
    <3> QED BY <3>1, <3>2
  <2>17. Counted'
    <3>1. \A c : Users(c)' = Users(c)
      BY <1>6 DEF Users, At
    <3> QED BY <1>6, <1>12, <3>1 DEF IInv, Counted
  <2>18. CacheBounded'
    <3>1. n <= MaxTarget /\ n \in Nat /\ MaxTarget \in Nat
      BY CountAssumption DEF Target
    <3>2. Len(s) < n
      BY <1>12 DEF s
    <3>3. Len(free'[k]) <= MaxTarget
      BY <2>1, <2>3, <2>4, <3>1, <3>2
    <3> QED BY <2>4, <3>3 DEF IInv, CacheBounded
  <2> QED BY <2>6, <2>13, <2>14, <2>15, <2>16, <2>17, <2>18 DEF IInv
<1> QED BY <1>10, <1>11, <1>12

\* What TrimClassCache deletes is in no other place: no packet uses it.
LEMMA TrimInv ==
  ASSUME IInv, NEW t \in Thread, TrimClassCache(t)
  PROVE  IInv'
<1>0. TypeOK
  BY DEF IInv
<1>1. pc[t] \in Place /\ pc[t].at = "Trim"
  BY <1>0 DEF TypeOK, TrimClassCache
<1>2. PICK k \in Class, n \in Target : k = pc[t].class /\ n = pc[t].target
  BY <1>1, PlaceParts
<1>3. PICK s \in Seq(Block) : s = free[k]
  BY <1>0 DEF TypeOK
<1>4. PICK m : m = Min({n, Len(s)})
  OBVIOUS
<1>5. m \in 0..Len(s) /\ Len(s) \in Nat
  <2>1. n \in Nat /\ Len(s) \in Nat
    <3>1. kMinTargetPerClass \in Nat /\ MaxTarget \in Nat
      BY CountAssumption
    <3> QED BY <3>1 DEF Target
  <2>2. {n, Len(s)} \in SUBSET Nat /\ {n, Len(s)} # {}
    BY <2>1
  <2>3. m \in {n, Len(s)} /\ m <= Len(s)
    BY <1>4, <2>2, MinIsLeast
  <2> QED BY <2>1, <2>3
<1>6. /\ free' = [free EXCEPT ![k] = SubSeq(@, 1, m)]
      /\ Delete(Range(SubSeq(s, m + 1, Len(s))))
      /\ UNCHANGED <<ref, target, requests, payload>>
  BY <1>2, <1>3, <1>4 DEF TrimClassCache
<1>7. PICK z : z = SubSeq(s, 1, m)
  OBVIOUS
<1>8. z \in Seq(Block) /\ Len(z) = m /\ DOMAIN z = 1..m /\ \A i \in 1..m : z[i] = s[i]
  BY <1>5, <1>7, PrefixParts
<1>9. free'[k] = z /\ \A x \in Class : x # k => free'[x] = free[x]
  BY <1>0, <1>3, <1>6, <1>7 DEF TypeOK
<1>10. free' \in [Class -> Seq(Block)]
  BY <1>0, <1>3, <1>6, <1>7, <1>8 DEF TypeOK
<1>11. PICK D : D = Range(SubSeq(s, m + 1, Len(s)))
  OBVIOUS
<1>12. \A c : c \in D <=> \E i \in (m + 1)..Len(s) : s[i] = c
  <2>1. PICK r : r = SubSeq(s, m + 1, Len(s))
    OBVIOUS
  <2>2. DOMAIN r = 1..(Len(s) - m) /\ \A i \in 1..(Len(s) - m) : r[i] = s[m + i]
    BY <1>5, <2>1
  <2>3. \A c : c \in D <=> \E j \in 1..(Len(s) - m) : s[m + j] = c
    BY <1>11, <2>1, <2>2 DEF Range
  <2>4. \A i \in (m + 1)..Len(s) : i - m \in 1..(Len(s) - m) /\ m + (i - m) = i
    BY <1>5
  <2>5. \A j \in 1..(Len(s) - m) : m + j \in (m + 1)..Len(s)
    BY <1>5
  <2>6. \A c : (\E j \in 1..(Len(s) - m) : s[m + j] = c) <=> \E i \in (m + 1)..Len(s) : s[i] = c
    <3> TAKE c
    <3>1. ASSUME NEW i \in (m + 1)..Len(s), s[i] = c
          PROVE  \E j \in 1..(Len(s) - m) : s[m + j] = c
      <4>1. i - m \in 1..(Len(s) - m) /\ m + (i - m) = i
        BY <2>4
      <4> QED BY <3>1, <4>1
    <3> QED BY <2>5, <3>1
  <2> QED BY <2>3, <2>6
<1>13. DOMAIN s = 1..Len(s)
  BY <1>5
\* The blocks that go: each was in the list, so it is nowhere else.
<1>14. \A c \in Block : c \in D =>
          /\ class[c] = k
          /\ \A u \in Thread, q \in Packet : ~Uses(u, q, c)
          /\ \A u \in Thread : ~Holds(u, c)
          /\ \A i \in 1..m : s[i] # c
  <2> SUFFICES ASSUME NEW c \in Block, c \in D
               PROVE  /\ class[c] = k
                      /\ \A u \in Thread, q \in Packet : ~Uses(u, q, c)
                      /\ \A u \in Thread : ~Holds(u, c)
                      /\ \A i \in 1..m : s[i] # c
    OBVIOUS
  <2>1. PICK j \in (m + 1)..Len(s) : s[j] = c
    BY <1>12
  <2>2. j \in DOMAIN free[k] /\ free[k][j] = c
    BY <1>3, <1>5, <1>13, <2>1
  <2>3. class[c] = k /\ \A i \in DOMAIN free[k] : free[k][j] = free[k][i] => j = i
    BY <2>2 DEF IInv, CachedApart
  <2>4. \A i \in 1..m : i \in DOMAIN free[k] /\ i # j
    BY <1>3, <1>5, <1>13
  <2>5. \A i \in 1..m : s[i] # c
    BY <1>3, <2>2, <2>3, <2>4
  <2> QED BY <2>2, <2>3, <2>5 DEF IInv, UsedApart, HeldApart
<1>15. \A c \in Block : class'[c] = IF c \in D THEN None ELSE class[c]
  BY <1>6, <1>11 DEF Delete
<1>16. \A x \in Class : \A i \in DOMAIN free'[x] :
          /\ i \in DOMAIN free[x] /\ free'[x][i] = free[x][i]
          /\ free[x][i] \in Block /\ free[x][i] \notin D
  <2> SUFFICES ASSUME NEW x \in Class, NEW i \in DOMAIN free'[x]
               PROVE  /\ i \in DOMAIN free[x] /\ free'[x][i] = free[x][i]
                      /\ free[x][i] \in Block /\ free[x][i] \notin D
    OBVIOUS
  <2>1. CASE x = k
    <3>1. i \in 1..m /\ free'[x][i] = s[i]
      BY <1>8, <1>9, <2>1
    <3>2. i \in DOMAIN s
      BY <1>5, <1>13, <3>1
    <3>3. s[i] \in Block
      BY <3>2
    <3>4. s[i] \notin D
      BY <1>14, <3>1, <3>3
    <3> QED BY <1>3, <2>1, <3>1, <3>2, <3>3, <3>4
  <2>2. CASE x # k
    <3>1. free'[x] = free[x] /\ free[x] \in Seq(Block)
      BY <1>0, <1>9, <2>2 DEF TypeOK
    <3>2. free[x][i] \in Block
      BY <3>1
    <3>3. class[free[x][i]] = x
      BY <3>1 DEF IInv, CachedApart
    <3> QED BY <1>14, <2>2, <3>1, <3>2, <3>3
  <2> QED BY <2>1, <2>2
<1>17. \A c \in Block : c \notin D => \A x \in Class : \A i \in DOMAIN free[x] :
          free[x][i] = c => i \in DOMAIN free'[x] /\ free'[x][i] = c
  <2> SUFFICES ASSUME NEW c \in Block, c \notin D, NEW x \in Class, NEW i \in DOMAIN free[x],
                      free[x][i] = c
               PROVE  i \in DOMAIN free'[x] /\ free'[x][i] = c
    OBVIOUS
  <2>1. CASE x = k
    <3>1. i \in 1..Len(s) /\ s[i] = c
      BY <1>3, <1>13, <2>1
    <3>2. i \notin (m + 1)..Len(s)
      BY <1>12, <3>1
    <3>3. i \in 1..m
      BY <1>5, <3>1, <3>2
    <3> QED BY <1>8, <1>9, <2>1, <3>1, <3>3
  <2>2. CASE x # k
    BY <1>9, <2>2
  <2> QED BY <2>1, <2>2
<1>18. PICK x \in Place : pc' = [pc EXCEPT ![t] = x] /\ x.at \notin {"Release", "Keep"}
  <2>1. CASE k = kClassCount
    <3>1. pc' = [pc EXCEPT ![t] = Idle]
      BY <1>2, <2>1 DEF TrimClassCache
    <3> QED BY <3>1, PlaceBuilt DEF Idle
  <2>2. CASE k # kClassCount
    <3>1. pc' = [pc EXCEPT ![t] = [at |-> "Retune", class |-> k + 1]]
      BY <1>2, <2>2 DEF TrimClassCache
    <3>2. k + 1 \in Class
      <4>1. kClassCount \in Nat /\ k \in 1..kClassCount
        BY CountAssumption DEF Class
      <4> QED BY <2>2, <4>1 DEF Class
    <3> QED BY <3>1, <3>2, PlaceBuilt
  <2> QED BY <2>1, <2>2
<1>19. retuning' \in Thread \cup {None}
  BY <1>0 DEF TrimClassCache, TypeOK
<1>20. pc'[t] = x /\ \A u \in Thread : u # t => pc'[u] = pc[u]
  BY <1>0, <1>18 DEF TypeOK
<1>21. TypeOK'
  <2>1. pc' \in [Thread -> Place]
    BY <1>0, <1>18 DEF TypeOK
  <2>2. class' \in [Block -> 0..kClassCount \cup {None}]
    BY <1>0, <1>6 DEF Delete, TypeOK
  <2> QED BY <1>0, <1>6, <1>10, <1>19, <2>1, <2>2 DEF TypeOK
<1>22. \A u \in Thread, c \in Block : Holds(u, c)' <=> Holds(u, c)
  BY <1>1, <1>18, <1>20 DEF Holds
<1>23. \A u \in Thread, c \in Block : Holds(u, c) => pc'[u] = pc[u]
  BY <1>1, <1>20 DEF Holds
<1>24. \A u \in Thread, q \in Packet, c \in Block :
          (Uses(u, q, c)' <=> Uses(u, q, c)) /\ At(u, q)' = At(u, q)
  BY <1>6 DEF Uses, At
<1>25. UsedApart'
  <2> SUFFICES ASSUME NEW u \in Thread, NEW q \in Packet, NEW c \in Block, Uses(u, q, c)'
               PROVE  /\ class'[c] # None /\ Fits(u, q, c)'
                      /\ \A y \in Class : \A i \in DOMAIN free'[y] : free'[y][i] # c
                      /\ \A y \in Thread : ~Holds(y, c)'
    BY DEF UsedApart
  <2>1. Uses(u, q, c) /\ class'[c] = class[c]
    BY <1>14, <1>15, <1>24
  <2>2. /\ class[c] # None /\ Fits(u, q, c)
        /\ \A y \in Class : \A i \in DOMAIN free[y] : free[y][i] # c
        /\ \A y \in Thread : ~Holds(y, c)
    BY <2>1 DEF IInv, UsedApart
  <2>3. Fits(u, q, c)'
    BY <1>24, <2>1, <2>2 DEF Fits
  <2>4. \A y \in Class : \A i \in DOMAIN free'[y] : free'[y][i] # c
    BY <1>16, <2>2
  <2> QED BY <1>22, <2>1, <2>2, <2>3, <2>4
<1>26. HeldApart'
  <2> SUFFICES ASSUME NEW u \in Thread, NEW c \in Block, Holds(u, c)'
               PROVE  /\ class'[c] # None /\ (pc'[u].at = "Keep" => class'[c] # 0)
                      /\ \A y \in Class : \A i \in DOMAIN free'[y] : free'[y][i] # c
                      /\ \A w \in Thread : Holds(w, c)' => w = u
    BY DEF HeldApart
  <2>1. Holds(u, c) /\ class'[c] = class[c] /\ pc'[u] = pc[u]
    BY <1>14, <1>15, <1>22, <1>23
  <2>2. /\ class[c] # None /\ (pc[u].at = "Keep" => class[c] # 0)
        /\ \A y \in Class : \A i \in DOMAIN free[y] : free[y][i] # c
        /\ \A w \in Thread : Holds(w, c) => w = u
    BY <2>1 DEF IInv, HeldApart
  <2>3. \A y \in Class : \A i \in DOMAIN free'[y] : free'[y][i] # c
    BY <1>16, <2>2
  <2> QED BY <1>22, <2>1, <2>2, <2>3
<1>27. CachedApart'
  <2> SUFFICES ASSUME NEW y \in Class, NEW i \in DOMAIN free'[y]
               PROVE  /\ class'[free'[y][i]] = y
                      /\ \A j \in DOMAIN free'[y] : free'[y][i] = free'[y][j] => i = j
    BY DEF CachedApart
  <2>1. /\ i \in DOMAIN free[y] /\ free'[y][i] = free[y][i]
        /\ class'[free[y][i]] = class[free[y][i]]
    BY <1>15, <1>16
  <2>2. class[free[y][i]] = y /\ \A j \in DOMAIN free[y] : free[y][i] = free[y][j] => i = j
    BY <2>1 DEF IInv, CachedApart
  <2> QED BY <1>16, <2>1, <2>2
<1>28. Accounted'
  <2> SUFFICES ASSUME NEW c \in Block, class'[c] # None
               PROVE  \/ \E u \in Thread, q \in Packet : Uses(u, q, c)'
                      \/ \E u \in Thread : Holds(u, c)'
                      \/ \E y \in Class : \E i \in DOMAIN free'[y] : free'[y][i] = c
    BY DEF Accounted
  <2>1. c \notin D /\ class[c] # None
    BY <1>15
  <2>2. \/ \E u \in Thread, q \in Packet : Uses(u, q, c)
        \/ \E u \in Thread : Holds(u, c)
        \/ \E y \in Class : \E i \in DOMAIN free[y] : free[y][i] = c
    BY <2>1 DEF IInv, Accounted
  <2> QED BY <1>17, <1>22, <1>24, <2>1, <2>2
<1>29. Counted'
  <2>1. \A c : Users(c)' = Users(c)
    BY <1>6 DEF Users, At
  <2> QED BY <1>6, <1>15, <2>1 DEF IInv, Counted
<1>30. CacheBounded'
  <2>1. Len(s) <= MaxTarget /\ MaxTarget \in Nat
    BY <1>3, CountAssumption DEF IInv, CacheBounded
  <2>2. Len(free'[k]) <= MaxTarget
    BY <1>5, <1>8, <1>9, <2>1
  <2> QED BY <1>9, <2>2 DEF IInv, CacheBounded
<1> QED BY <1>21, <1>25, <1>26, <1>27, <1>28, <1>29, <1>30 DEF IInv

-----------------------------------------------------------------------------
LEMMA NextInv == IInv /\ [Next]_vars => IInv'
<1> SUFFICES ASSUME IInv, [Next]_vars PROVE IInv'
  OBVIOUS
<1>1. CASE UNCHANGED vars
  <2>1. UNCHANGED <<ref, class, free, target, requests, payload, pc, retuning>>
    BY <1>1 DEF vars, poolVars
  <2>2. TypeOK'
    BY <2>1 DEF IInv, TypeOK
  <2>3. \A u \in Thread, c \in Block : Holds(u, c)' <=> Holds(u, c)
    BY <2>1 DEF Holds
  <2> QED BY <2>1, <2>2, <2>3, BlocksStay
<1>2. CASE \E t \in Thread, p, q \in Packet :
              \/ \E size \in Size : Construct(t, p, size)
              \/ ConstructScalar(t, p) \/ Copy(t, p, q) \/ ReleasePayload(t, p)
              \/ \E u \in Thread : Move(t, p, u, q)
  BY <1>2, ConstructInv, ConstructScalarInv, CopyInv, ReleasePayloadInv, MoveInv
<1>3. CASE \E t \in Thread : ReleaseStep(t)
  BY <1>3, LoadTargetInv, KeepInv, MaybeRetuneInv, StoreTargetInv, TrimInv DEF ReleaseStep
<1>4. CASE \E size \in Size : BoostClassCacheForSize(size, MaxTarget)
  BY <1>4, BoostInv
<1> QED BY <1>1, <1>2, <1>3, <1>4 DEF Next

\* The parts of the invariant say of sets and their sizes what PoolInv says.
LEMMA IInvPool == IInv => PoolInv
<1> SUFFICES ASSUME IInv PROVE PoolInv
  OBVIOUS
<1>1. \A b \in Block : \A u \in Users(b) :
         u[1] \in Thread /\ u[2] \in Packet /\ Uses(u[1], u[2], b)
  BY DEF Users, Uses
<1>2. \A b, t : t \in Releasing(b) <=> t \in Thread /\ Holds(t, b)
  BY DEF Releasing, Holds
<1>3. \A b, k : k \in CachedIn(b) <=> k \in Class /\ \E i \in DOMAIN free[k] : free[k][i] = b
  BY DEF CachedIn, Range
<1>4. CountedExactly
  <2> SUFFICES ASSUME NEW b \in Block
               PROVE  /\ class[b] # None => ref[b] = Cardinality(Users(b))
                      /\ Users(b) # {} => class[b] # None /\ CachedIn(b) = {} /\ Releasing(b) = {}
                      /\ \A u \in Users(b) :
                            class[b] # 0 => At(u[1], u[2]).size <= BlockSize(class[b])
    BY DEF CountedExactly
  <2>1. class[b] # None => ref[b] = Cardinality(Users(b))
    BY DEF IInv, Counted
  <2>2. ASSUME Users(b) # {}
        PROVE  class[b] # None /\ CachedIn(b) = {} /\ Releasing(b) = {}
    <3>1. PICK u \in Users(b) : TRUE
      BY <2>2
    <3>2. /\ class[b] # None
          /\ \A k \in Class : \A i \in DOMAIN free[k] : free[k][i] # b
          /\ \A t \in Thread : ~Holds(t, b)
      BY <1>1, <3>1 DEF IInv, UsedApart
    <3> QED BY <1>2, <1>3, <3>2
  <2>3. \A u \in Users(b) : class[b] # 0 => At(u[1], u[2]).size <= BlockSize(class[b])
    BY <1>1 DEF IInv, UsedApart, Fits
  <2> QED BY <2>1, <2>2, <2>3
<1>5. InOnePlace
  <2> SUFFICES ASSUME NEW b \in Block
               PROVE  /\ Cardinality(Releasing(b)) + Cardinality(CachedIn(b)) <= 1
                      /\ \A k \in CachedIn(b) :
                            /\ class[b] = k
                            /\ Cardinality({i \in DOMAIN free[k] : free[k][i] = b}) = 1
                      /\ class[b] # None <=>
                            (Users(b) # {} \/ Releasing(b) # {} \/ CachedIn(b) # {})
    BY DEF InOnePlace
  <2>1. Cardinality(Releasing(b)) + Cardinality(CachedIn(b)) <= 1
    <3>1. CASE Releasing(b) = {} /\ CachedIn(b) = {}
      BY <3>1, FS_EmptySet
    <3>2. CASE Releasing(b) # {}
      <4>1. PICK t \in Releasing(b) : TRUE
        BY <3>2
      <4>2. /\ \A k \in Class : \A i \in DOMAIN free[k] : free[k][i] # b
            /\ \A u \in Thread : Holds(u, b) => u = t
        BY <1>2, <4>1 DEF IInv, HeldApart
      <4>3. Releasing(b) = {t} /\ CachedIn(b) = {}
        BY <1>2, <1>3, <4>1, <4>2
      <4>4. Cardinality(Releasing(b)) = 1 /\ Cardinality(CachedIn(b)) = 0
        BY <4>3, FS_Singleton, FS_EmptySet
      <4> QED BY <4>4
    <3>3. CASE Releasing(b) = {} /\ CachedIn(b) # {}
      <4>1. PICK k \in CachedIn(b) : TRUE
        BY <3>3
      <4>2. \A x \in CachedIn(b) : x = class[b]
        BY <1>3 DEF IInv, CachedApart
      <4>3. CachedIn(b) = {k}
        BY <4>1, <4>2
      <4>4. Cardinality(CachedIn(b)) = 1 /\ Cardinality(Releasing(b)) = 0
        BY <3>3, <4>3, FS_Singleton, FS_EmptySet
      <4> QED BY <4>4
    <3> QED BY <3>1, <3>2, <3>3
  <2>2. ASSUME NEW k \in CachedIn(b)
        PROVE  class[b] = k /\ Cardinality({i \in DOMAIN free[k] : free[k][i] = b}) = 1
    <3>1. PICK i \in DOMAIN free[k] : k \in Class /\ free[k][i] = b
      BY <1>3
    <3>2. class[b] = k /\ \A j \in DOMAIN free[k] : free[k][i] = free[k][j] => i = j
      BY <3>1 DEF IInv, CachedApart
    <3>3. {j \in DOMAIN free[k] : free[k][j] = b} = {i}
      BY <3>1, <3>2
    <3>4. Cardinality({i}) = 1
      BY FS_Singleton
    <3> QED BY <3>2, <3>3, <3>4
  <2>3. ASSUME class[b] # None
        PROVE  Users(b) # {} \/ Releasing(b) # {} \/ CachedIn(b) # {}
    <3>1. CASE \E t \in Thread, p \in Packet : Uses(t, p, b)
      <4>1. PICK t \in Thread, p \in Packet : Uses(t, p, b)
        BY <3>1
      <4>2. <<t, p>> \in Users(b)
        BY <4>1 DEF Users, Uses
      <4> QED BY <4>2
    <3>2. CASE \E t \in Thread : Holds(t, b)
      BY <1>2, <3>2
    <3>3. CASE \E k \in Class : \E i \in DOMAIN free[k] : free[k][i] = b
      BY <1>3, <3>3
    <3> QED BY <2>3, <3>1, <3>2, <3>3 DEF IInv, Accounted
  <2>4. ASSUME Users(b) # {} \/ Releasing(b) # {} \/ CachedIn(b) # {}
        PROVE  class[b] # None
    <3>1. Users(b) # {} => class[b] # None
      BY <1>4 DEF CountedExactly
    <3>2. Releasing(b) # {} => class[b] # None
      BY <1>2 DEF IInv, HeldApart
    <3>3. CachedIn(b) # {} => class[b] # None
      BY <1>3, NoneAssumption DEF IInv, CachedApart, Class
    <3> QED BY <2>4, <3>1, <3>2, <3>3
  <2> QED BY <2>1, <2>2, <2>3, <2>4
<1>6. TypeOK
  BY DEF IInv
<1> QED BY <1>4, <1>5, <1>6 DEF PoolInv

\* However the threads that copy, move and release packets cross each other and a
\* retuning, Retain and Release count exactly, a block is in one place only, and no
\* block that is in use is handed out again or deleted.
THEOREM PoolAccountsForBlocks == Spec => []PoolInv
<1>1. Spec => []IInv
  BY InitInv, NextInv, PTL DEF Spec
<1> QED BY <1>1, IInvPool, PTL

\* The list of a class stays within the largest target, although Release compares
\* its length with a target read before: the length is read under the mutex.
THEOREM PoolCacheBounded == Spec => []CacheBounded
<1>1. Spec => []IInv
  BY InitInv, NextInv, PTL DEF Spec
<1>2. IInv => CacheBounded
  BY DEF IInv
<1> QED BY <1>1, <1>2, PTL
=============================================================================
