------------------------- MODULE FileTransferProofs -------------------------
(***************************************************************************)
(* Proofs about FileTransfer, for any number of senders, files, chunks and *)
(* receiving threads and for any tuning.                                   *)
(***************************************************************************)
EXTENDS FileTransfer, FiniteSetTheorems, WellFoundedInduction, TLAPS

Chunks(n) == CalculateTotalChunks(n)
IsFile(o) == o \in Origin /\ o[2] \in DOMAIN files[o[1]]

\* The type invariant, by the side that it is about.
SenderTypes ==
    /\ spc \in [Sender -> {"idle", "wait", "count", "failed"}]
    /\ files \in [Sender -> Seq(FileSize)] /\ \A p \in Sender : Current(p) <= MaxFiles
    /\ index \in [Sender -> Nat] /\ bytes \in [Sender -> Nat]
    /\ rate \in [Sender -> [packets : Nat, bytes : Nat, burst : Nat]]
    /\ outq \in [Sender -> Seq(TransferChunk)] /\ taken \in [Sender -> Seq(TransferChunk)]
    /\ net \cup dropped \subseteq TransferChunk
ReceiverTypes ==
    /\ aborted \subseteq TransferId
    /\ streams \in [TransferId -> Session \cup {None}]
    /\ names \in [{"temp", "out"} \X TransferId -> Inode \cup {0}]
    /\ data \in [Inode -> [0..(MaxChunks - 1) -> Origin \cup {Hole}]]
    /\ tpc \in [Thread -> {"idle", "verify", "clear", "rename", "erase", "unlink"}]
    /\ job \in [Thread -> [id : TransferId, expected : Origin \cup {Hole}]]

\* A chunk that SendFile has made.
Sent(c) ==
    \E p \in Sender : \E f \in DOMAIN files[p] :
        \E i \in 0..(Chunks(files[p][f]) - 1) : c = Chunk(p, f, i)

\* While SendFile runs, the chunk it is at is one of the file.
AtChunk(p) ==
    spc[p] \in {"wait", "count"} =>
        files[p] # <<>> /\ index[p] < Chunks(files[p][Current(p)])

\* Whatever is queued or taken was made by SendFile.
QueueSent(p) ==
    /\ \A k \in DOMAIN outq[p] : Sent(outq[p][k])
    /\ taken[p] # <<>> => Len(taken[p]) = 1 /\ Sent(taken[p][1])

\* What is queued or taken has been counted, or will be by the sender's next step.
Uncounted(p) == IF spc[p] = "count" THEN PayloadBytes(Chunk(p, Current(p), index[p])) ELSE 0
TakenBytes(p) == IF taken[p] = <<>> THEN 0 ELSE PayloadBytes(taken[p][1])
BytesCounted(p) == QueuedBytes(outq[p]) + TakenBytes(p) <= bytes[p] + Uncounted(p)

InWindow(p) ==
    /\ MaxInflightChunks # 0 => Len(outq[p]) <= MaxInflightChunks
    /\ MaxInflightBytes # 0 =>
          QueuedBytes(outq[p]) < MaxInflightBytes + HeaderSize + ChunkSize

SenderOk(p) == AtChunk(p) /\ QueueSent(p) /\ BytesCounted(p) /\ InWindow(p)
SenderInv ==
    SenderTypes /\ (\A p \in Sender : SenderOk(p)) /\ \A c \in net : Sent(c)

\* A session is for a file there is: its sizes agree, it has no chunk beyond the
\* last, and the checksum it expects is that of a file of its size.
SoundSession(s) ==
    /\ s.file_size \in FileSize /\ s.total_chunks = Chunks(s.file_size)
    /\ s.received \subseteq 0..(s.total_chunks - 1)
    /\ s.expected # Hole =>
          IsFile(s.expected) /\ files[s.expected[1]][s.expected[2]] = s.file_size
SessionsSound == \A id \in TransferId : streams[id] # None => SoundSession(streams[id])

\* An inode belongs to one transfer, by a name or by a session.
Owns(id, n) ==
    \/ names[<<"temp", id>>] = n \/ names[<<"out", id>>] = n
    \/ streams[id] # None /\ streams[id].inode = n
InodesApart ==
    \A id, jd \in TransferId : \A n \in Inode : Owns(id, n) /\ Owns(jd, n) => id = jd

\* A file that has its final name has no other, and no session writes to it.
OutputApart ==
    \A id \in TransferId : names[<<"out", id>>] # 0 =>
        /\ names[<<"temp", id>>] # names[<<"out", id>>]
        /\ streams[id] # None /\ streams[id].temp_file # "null" =>
              streams[id].inode # names[<<"out", id>>]

InFinalize(t) == tpc[t] \in {"verify", "clear", "rename", "erase"}

\* What a thread that finalises transfer id relies on: the session is still there
\* and takes no more data, and once the file is verified it stays so as long as it
\* has its temporary name.
Guarded(t, id, o) ==
    /\ IsFile(o) /\ streams[id] # None /\ streams[id].temp_file = "null"
    /\ tpc[t] \in {"clear", "rename"} /\ names[<<"temp", id>>] # 0 =>
          Whole(names[<<"temp", id>>], o)

\* A thread that finalises a transfer is the only one that does.
FinalizerAlone ==
    /\ \A t \in Thread : InFinalize(t) => Guarded(t, job[t].id, job[t].expected)
    /\ \A t, u \in Thread :
          InFinalize(t) /\ InFinalize(u) /\ job[t].id = job[u].id => t = u

StoreInv == ReceiverTypes /\ SessionsSound /\ InodesApart /\ ReceivedIsWritten
OutputInv == OutputApart /\ FinalizerAlone /\ OutputWhole

-----------------------------------------------------------------------------
(* Numbers. *)

\* The least member of a set of natural numbers is Min.
LEMMA MinIsLeast ==
  ASSUME NEW S \in SUBSET Nat, S # {}
  PROVE  Min(S) \in S /\ \A y \in S : Min(S) <= y
<1> DEFINE R == OpToRel(<, Nat)
<1>1. IsWellFoundedOn(R, Nat)
  BY NatLessThanWellFounded
<1>2. \A x, y \in Nat : <<y, x>> \in R <=> y < x
  BY DEF OpToRel
<1> HIDE DEF R
<1>3. PICK x \in S : \A y \in S : ~(<<y, x>> \in R)
  BY <1>1, WFMin
<1>4. \A y \in S : x <= y
  <2> TAKE y \in S
  <2>1. ~(<<y, x>> \in R)
    BY <1>3
  <2>2. x \in Nat /\ y \in Nat
    OBVIOUS
  <2> QED BY <1>2, <2>1, <2>2
<1> QED BY <1>4 DEF Min

\* Induction, for a property that is given as the set of numbers that have it.
LEMMA SetInduction ==
  ASSUME NEW S, 0 \in S, \A n \in Nat : n \in S => n + 1 \in S
  PROVE  \A n \in Nat : n \in S
<1> SUFFICES ASSUME NEW n \in Nat, n \notin S PROVE FALSE
  OBVIOUS
<1> DEFINE T == {k \in Nat : k \notin S}
<1>1. T \in SUBSET Nat /\ T # {}
  OBVIOUS
<1>2. Min(T) \in T /\ \A y \in T : Min(T) <= y
  BY <1>1, MinIsLeast
<1>3. PICK m \in Nat : m \notin S /\ \A y \in T : m <= y
  BY <1>2
<1>4. m # 0
  BY <1>3
<1>5. m - 1 \in Nat /\ (m - 1) + 1 = m
  BY <1>4
<1>6. m - 1 \in S
  BY <1>3, <1>5
<1> QED BY <1>3, <1>5, <1>6

\* A finite set of natural numbers that is not empty has a greatest member.
LEMMA MaxIsGreatest ==
  ASSUME NEW S \in SUBSET Nat, S # {}, IsFiniteSet(S)
  PROVE  Max(S) \in S /\ \A y \in S : y <= Max(S)
<1> DEFINE HasMax(A) == \E x \in A : \A y \in A : y <= x
           Good == {n \in Nat : \A A \in SUBSET Nat :
                       IsFiniteSet(A) /\ Cardinality(A) = n + 1 => HasMax(A)}
<1>1. 0 \in Good
  <2> SUFFICES ASSUME NEW A \in SUBSET Nat, IsFiniteSet(A), Cardinality(A) = 0 + 1
               PROVE  HasMax(A)
    OBVIOUS
  <2>1. Cardinality(A) = 1
    OBVIOUS
  <2>2. PICK x : A = {x}
    BY <2>1, FS_Singleton, Zenon
  <2>3. \A y \in A : y <= x
    BY <2>2
  <2> QED BY <2>2, <2>3
<1>2. ASSUME NEW n \in Nat, n \in Good
      PROVE  n + 1 \in Good
  <2> SUFFICES ASSUME NEW A \in SUBSET Nat, IsFiniteSet(A), Cardinality(A) = (n + 1) + 1
               PROVE  HasMax(A)
    OBVIOUS
  <2>1. A # {}
    <3>1. Cardinality(A) # 0
      OBVIOUS
    <3> QED BY <3>1, FS_EmptySet
  <2>2. PICK x \in A : TRUE
    BY <2>1
  <2>3. PICK B : B = A \ {x}
    OBVIOUS
  <2>4. IsFiniteSet(B) /\ Cardinality(B) = Cardinality(A) - 1
    BY <2>3, FS_RemoveElement
  <2>5. Cardinality(B) = n + 1 /\ B \in SUBSET Nat
    BY <2>3, <2>4
  <2>6. HasMax(B)
    BY <1>2, <2>4, <2>5
  <2>7. PICK z \in B : \A y \in B : y <= z
    BY <2>6
  <2>8. CASE x <= z
    BY <2>3, <2>7, <2>8
  <2>9. CASE ~(x <= z)
    <3>1. x \in Nat /\ z \in Nat
      BY <2>3
    <3>2. \A y \in A : y <= x
      <4> TAKE y \in A
      <4>1. y = x \/ y \in B
        BY <2>3
      <4> QED BY <2>7, <2>9, <3>1, <4>1
    <3> QED BY <3>2
  <2> QED BY <2>8, <2>9
<1> HIDE DEF Good
<1>3. \A n \in Nat : n \in Good
  BY <1>1, <1>2, SetInduction
<1>4. Cardinality(S) \in Nat /\ Cardinality(S) # 0
  BY FS_CardinalityType, FS_EmptySet
<1>5. Cardinality(S) - 1 \in Good /\ Cardinality(S) = (Cardinality(S) - 1) + 1
  BY <1>3, <1>4
<1>6. HasMax(S)
  BY <1>5 DEF Good
<1> QED BY <1>6 DEF Max

\* The number of chunks of a file: enough, and none too many.
LEMMA ChunkCount ==
  ASSUME NEW size \in Nat
  PROVE  /\ Chunks(size) \in Nat \ {0}
         /\ (Chunks(size) - 1) * ChunkSize <= size
         /\ size <= Chunks(size) * ChunkSize
         /\ size # 0 => (Chunks(size) - 1) * ChunkSize < size
<1>0. ChunkSize \in Nat \ {0}
  BY TuningAssumption
<1>1. CASE size = 0
  BY <1>0, <1>1 DEF Chunks, CalculateTotalChunks
<1>2. CASE size # 0
  <2> DEFINE a == size + ChunkSize - 1
  <2>1. a \in Nat /\ a >= ChunkSize
    BY <1>0, <1>2
  <2>2. PICK q : q = a \div ChunkSize
    OBVIOUS
  <2>3. q \in Nat /\ q * ChunkSize <= a /\ a < (q + 1) * ChunkSize
    BY <1>0, <2>1, <2>2
  <2>4. q # 0
    BY <1>0, <2>1, <2>3
  <2>5. Chunks(size) = q
    BY <1>2, <2>2 DEF Chunks, CalculateTotalChunks
  <2>6. (q + 1) * ChunkSize = q * ChunkSize + ChunkSize
        /\ (q - 1) * ChunkSize = q * ChunkSize - ChunkSize /\ q * ChunkSize \in Nat
    BY <1>0, <2>3
  <2> QED BY <1>0, <1>2, <2>3, <2>4, <2>5, <2>6
<1> QED BY <1>1, <1>2

\* Every chunk but the last is full, and the last has the rest.
LEMMA ChunkBytes ==
  ASSUME NEW size \in Nat, NEW i \in 0..(Chunks(size) - 1)
  PROVE  /\ i * ChunkSize <= size /\ i * ChunkSize \in Nat
         /\ Minimum(size - i * ChunkSize, ChunkSize) \in 0..ChunkSize
         /\ i # Chunks(size) - 1 => Minimum(size - i * ChunkSize, ChunkSize) = ChunkSize
         /\ i = Chunks(size) - 1 =>
               Minimum(size - i * ChunkSize, ChunkSize) = size - i * ChunkSize
<1>0. ChunkSize \in Nat \ {0}
  BY TuningAssumption
<1>1. PICK n \in Nat \ {0} : n = Chunks(size)
  BY ChunkCount
<1>2. (n - 1) * ChunkSize <= size /\ size <= n * ChunkSize
  BY <1>1, ChunkCount
<1>3. i \in Nat /\ i <= n - 1
  BY <1>1
<1>4. i * ChunkSize \in Nat /\ i * ChunkSize <= (n - 1) * ChunkSize
  BY <1>0, <1>3
<1>5. (n - 1) * ChunkSize \in Nat /\ n * ChunkSize = (n - 1) * ChunkSize + ChunkSize
  BY <1>0, <1>1
<1>6. i * ChunkSize <= size
  BY <1>2, <1>4, <1>5
<1>7. Minimum(size - i * ChunkSize, ChunkSize) \in 0..ChunkSize
  <2>1. PICK a \in Nat : a = i * ChunkSize
    BY <1>4
  <2>2. size - a \in Nat
    BY <1>6, <2>1
  <2> QED BY <1>0, <2>1, <2>2 DEF Minimum
<1>8. ASSUME i # n - 1
      PROVE  Minimum(size - i * ChunkSize, ChunkSize) = ChunkSize
  <2>1. i + 1 <= n - 1
    BY <1>1, <1>3, <1>8
  <2>2. (i + 1) * ChunkSize <= (n - 1) * ChunkSize
        /\ (i + 1) * ChunkSize = i * ChunkSize + ChunkSize
    BY <1>0, <1>3, <2>1
  <2>3. PICK a \in Nat : a = i * ChunkSize
    BY <1>4
  <2>4. a + ChunkSize <= size
    BY <1>0, <1>2, <1>5, <2>2, <2>3
  <2>5. ~(size - a < ChunkSize)
    BY <1>0, <2>4
  <2> QED BY <2>3, <2>5 DEF Minimum
<1>9. ASSUME i = n - 1
      PROVE  Minimum(size - i * ChunkSize, ChunkSize) = size - i * ChunkSize
  <2>1. PICK a \in Nat : a = i * ChunkSize
    BY <1>4
  <2>2. size <= a + ChunkSize
    BY <1>0, <1>2, <1>5, <1>9, <2>1
  <2>3. size - a < ChunkSize \/ size - a = ChunkSize
    BY <1>0, <2>2
  <2> QED BY <2>1, <2>3 DEF Minimum
<1> QED BY <1>1, <1>4, <1>6, <1>7, <1>8, <1>9

\* The partial sums behind SumTo.
Sums(s, f, n) ==
    /\ s \in [0..n -> Nat] /\ s[0] = 0
    /\ \A k \in 1..n : s[k] = s[k - 1] + f[k - 1]

LEMMA SumsExist ==
  ASSUME NEW n \in Nat, NEW f \in [0..(n - 1) -> Nat]
  PROVE  \E s : Sums(s, f, n)
<1> DEFINE Good == {m \in Nat : m <= n => \E s : Sums(s, f, m)}
<1>1. 0 \in Good
  <2> DEFINE s == [k \in 0..0 |-> 0]
  <2>1. Sums(s, f, 0)
    BY DEF Sums
  <2> QED BY <2>1
<1>2. ASSUME NEW m \in Nat, m \in Good
      PROVE  m + 1 \in Good
  <2> SUFFICES ASSUME m + 1 <= n PROVE \E s : Sums(s, f, m + 1)
    OBVIOUS
  <2>1. PICK s : Sums(s, f, m)
    BY <1>2
  <2>2. f[m] \in Nat /\ s[m] \in Nat
    <3>1. m \in 0..(n - 1) /\ m \in 0..m
      OBVIOUS
    <3> QED BY <2>1, <3>1 DEF Sums
  <2> DEFINE z == [k \in 0..(m + 1) |-> IF k = m + 1 THEN s[m] + f[m] ELSE s[k]]
  <2>3. z \in [0..(m + 1) -> Nat]
    BY <2>1, <2>2 DEF Sums
  <2>4. z[0] = 0
    BY <2>1 DEF Sums
  <2>5. ASSUME NEW k \in 1..(m + 1)
        PROVE  z[k] = z[k - 1] + f[k - 1]
    <3>1. CASE k = m + 1
      <4>1. k - 1 = m /\ m \in 0..(m + 1) /\ m # m + 1 /\ k \in 0..(m + 1)
        BY <3>1
      <4> QED BY <3>1, <4>1
    <3>2. CASE k # m + 1
      <4>1. k \in 1..m /\ k - 1 \in 0..(m + 1) /\ k - 1 # m + 1 /\ k \in 0..(m + 1)
        BY <3>2
      <4>2. z[k] = s[k] /\ z[k - 1] = s[k - 1]
        BY <3>2, <4>1
      <4>3. s[k] = s[k - 1] + f[k - 1]
        BY <2>1, <4>1 DEF Sums
      <4> QED BY <4>2, <4>3
    <3> QED BY <3>1, <3>2
  <2> HIDE DEF z
  <2>6. Sums(z, f, m + 1)
    BY <2>3, <2>4, <2>5 DEF Sums
  <2> QED BY <2>6
<1> HIDE DEF Good
<1>3. n \in Good
  BY <1>1, <1>2, SetInduction
<1> QED BY <1>3 DEF Good

\* Partial sums are determined by what is summed.
LEMMA SumsUnique ==
  ASSUME NEW n \in Nat, NEW f, NEW s, NEW z, Sums(s, f, n), Sums(z, f, n)
  PROVE  s = z
<1> DEFINE Good == {m \in Nat : m <= n => s[m] = z[m]}
<1>1. 0 \in Good
  BY DEF Sums
<1>2. ASSUME NEW m \in Nat, m \in Good
      PROVE  m + 1 \in Good
  <2> SUFFICES ASSUME m + 1 <= n PROVE s[m + 1] = z[m + 1]
    OBVIOUS
  <2>1. m + 1 \in 1..n /\ (m + 1) - 1 = m /\ s[m] = z[m]
    BY <1>2
  <2>2. s[m + 1] = s[m] + f[m] /\ z[m + 1] = z[m] + f[m]
    BY <2>1 DEF Sums
  <2> QED BY <2>1, <2>2
<1> HIDE DEF Good
<1>3. \A m \in Nat : m \in Good
  BY <1>1, <1>2, SetInduction
<1>4. \A m \in 0..n : s[m] = z[m]
  BY <1>3 DEF Good
<1> QED BY <1>4 DEF Sums

LEMMA SumToIsSum ==
  ASSUME NEW n \in Nat, NEW f \in [0..(n - 1) -> Nat], NEW s, Sums(s, f, n)
  PROVE  SumTo(f, n) = s[n] /\ SumTo(f, n) \in Nat
<1> DEFINE Eqn(g) == g = [k \in 0..n |-> IF k = 0 THEN 0 ELSE g[k - 1] + f[k - 1]]
           sum == CHOOSE g : Eqn(g)
<1>1. Eqn(s)
  <2>1. s \in [0..n -> Nat] /\ DOMAIN s = 0..n
    BY DEF Sums
  <2>2. \A k \in 0..n : s[k] = IF k = 0 THEN 0 ELSE s[k - 1] + f[k - 1]
    BY DEF Sums
  <2> QED BY <2>1, <2>2
<1>2. Eqn(sum)
  BY <1>1
<1>3. SumTo(f, n) = sum[n]
  BY DEF SumTo
<1> HIDE DEF sum
<1>4. \A k \in 0..n : sum[k] = IF k = 0 THEN 0 ELSE sum[k - 1] + f[k - 1]
  BY <1>2
<1> DEFINE Good == {m \in Nat : m <= n => sum[m] = s[m]}
<1>5. 0 \in Good
  BY <1>4 DEF Sums
<1>6. ASSUME NEW m \in Nat, m \in Good
      PROVE  m + 1 \in Good
  <2> SUFFICES ASSUME m + 1 <= n PROVE sum[m + 1] = s[m + 1]
    OBVIOUS
  <2>1. m + 1 \in 1..n /\ m + 1 \in 0..n /\ m + 1 # 0 /\ (m + 1) - 1 = m /\ sum[m] = s[m]
    BY <1>6
  <2>2. s[m + 1] = s[m] + f[m]
    BY <2>1 DEF Sums
  <2>3. sum[m + 1] = sum[m] + f[m]
    BY <1>4, <2>1
  <2> QED BY <2>1, <2>2, <2>3
<1> HIDE DEF Good
<1>7. n \in Good
  BY <1>5, <1>6, SetInduction
<1>8. sum[n] = s[n]
  BY <1>7 DEF Good
<1>9. s[n] \in Nat
  BY DEF Sums
<1> QED BY <1>3, <1>8, <1>9

\* The bytes of a queue to which a chunk is appended.
LEMMA QueuedAppend ==
  ASSUME NEW q \in Seq(TransferChunk), NEW c \in TransferChunk
  PROVE  QueuedBytes(Append(q, c)) = QueuedBytes(q) + PayloadBytes(c)
<1>0. HeaderSize \in Nat
  BY TuningAssumption
<1>1. \A x \in TransferChunk : PayloadBytes(x) \in Nat
  BY <1>0 DEF PayloadBytes, TransferChunk
<1>2. PICK n \in Nat : n = Len(q)
  OBVIOUS
<1>3. PICK r : r = Append(q, c)
  OBVIOUS
<1>4. /\ r \in Seq(TransferChunk) /\ Len(r) = n + 1 /\ r[n + 1] = c
      /\ \A i \in 1..n : r[i] = q[i] /\ q[i] \in TransferChunk
  BY <1>2, <1>3
<1> DEFINE f == [i \in 0..(n - 1) |-> PayloadBytes(q[i + 1])]
           g == [i \in 0..((n + 1) - 1) |-> PayloadBytes(r[i + 1])]
<1>5. /\ f \in [0..(n - 1) -> Nat] /\ g \in [0..((n + 1) - 1) -> Nat]
      /\ \A i \in 0..(n - 1) : f[i] = g[i]
      /\ g[n] = PayloadBytes(c)
  <2>1. \A i \in 0..(n - 1) : i + 1 \in 1..n
    OBVIOUS
  <2>2. \A i \in 0..((n + 1) - 1) : i + 1 \in 1..Len(r)
    BY <1>4
  <2>3. \A i \in 0..(n - 1) : i \in 0..((n + 1) - 1)
    OBVIOUS
  <2>4. n \in 0..((n + 1) - 1)
    OBVIOUS
  <2>5. \A i \in 1..Len(r) : r[i] \in TransferChunk
    BY <1>4
  <2>6. f \in [0..(n - 1) -> Nat]
    BY <1>1, <1>4, <2>1
  <2>7. g \in [0..((n + 1) - 1) -> Nat]
    BY <1>1, <2>2, <2>5
  <2>8. \A i \in 0..(n - 1) : f[i] = g[i]
    BY <1>4, <2>1, <2>3
  <2>9. g[n] = PayloadBytes(c)
    BY <1>4, <2>4
  <2> QED BY <2>6, <2>7, <2>8, <2>9
<1>6. QueuedBytes(q) = SumTo(f, n)
  BY <1>2 DEF QueuedBytes
<1>7. QueuedBytes(r) = SumTo(g, n + 1)
  BY <1>4 DEF QueuedBytes
<1> HIDE DEF f, g
<1>8. PICK s : Sums(s, g, n + 1)
  <2>1. n + 1 \in Nat
    OBVIOUS
  <2> QED BY <1>5, <2>1, SumsExist, Zenon
<1> DEFINE z == [k \in 0..n |-> s[k]]
<1>9. Sums(z, f, n)
  <2>1. s \in [0..(n + 1) -> Nat] /\ s[0] = 0
    BY <1>8 DEF Sums
  <2>2. z \in [0..n -> Nat] /\ z[0] = 0
    BY <2>1
  <2>3. ASSUME NEW k \in 1..n
        PROVE  z[k] = z[k - 1] + f[k - 1]
    <3>1. k \in 1..(n + 1) /\ k \in 0..n /\ k - 1 \in 0..n /\ k - 1 \in 0..(n - 1)
      OBVIOUS
    <3>2. s[k] = s[k - 1] + g[k - 1]
      BY <1>8, <3>1 DEF Sums
    <3>3. z[k] = s[k] /\ z[k - 1] = s[k - 1]
      BY <3>1
    <3> QED BY <1>5, <3>1, <3>2, <3>3
  <2> HIDE DEF z
  <2> QED BY <2>2, <2>3 DEF Sums
<1>10. z[n] = s[n]
  OBVIOUS
<1> HIDE DEF z
<1>11. SumTo(f, n) = s[n]
  BY <1>5, <1>9, <1>10, SumToIsSum
<1>12. SumTo(g, n + 1) = s[n + 1]
  BY <1>5, <1>8, SumToIsSum
<1>13. s[n + 1] = s[n] + g[n]
  <2>1. n + 1 \in 1..(n + 1) /\ (n + 1) - 1 = n
    OBVIOUS
  <2> QED BY <1>8, <2>1 DEF Sums
<1> QED BY <1>3, <1>5, <1>6, <1>7, <1>11, <1>12, <1>13

\* The bytes of a queue whose head is taken.
LEMMA QueuedTail ==
  ASSUME NEW q \in Seq(TransferChunk), q # <<>>
  PROVE  /\ QueuedBytes(q) = QueuedBytes(Tail(q)) + PayloadBytes(Head(q))
         /\ QueuedBytes(Tail(q)) \in Nat
<1>0. HeaderSize \in Nat
  BY TuningAssumption
<1>1. \A x \in TransferChunk : PayloadBytes(x) \in Nat
  BY <1>0 DEF PayloadBytes, TransferChunk
<1>2. PICK n \in Nat : Len(q) = n + 1
  <2>1. Len(q) \in Nat /\ Len(q) # 0
    OBVIOUS
  <2>2. Len(q) - 1 \in Nat /\ Len(q) = (Len(q) - 1) + 1
    BY <2>1
  <2> QED BY <2>2
<1>3. PICK r : r = Tail(q)
  OBVIOUS
<1>4. /\ r \in Seq(TransferChunk) /\ Len(r) = n /\ Head(q) = q[1]
      /\ \A i \in 1..n : r[i] = q[i + 1] /\ r[i] \in TransferChunk
      /\ \A i \in 1..(n + 1) : q[i] \in TransferChunk
  BY <1>2, <1>3
<1> DEFINE f == [i \in 0..((n + 1) - 1) |-> PayloadBytes(q[i + 1])]
           g == [i \in 0..(n - 1) |-> PayloadBytes(r[i + 1])]
<1>5. /\ g \in [0..(n - 1) -> Nat] /\ f \in [0..((n + 1) - 1) -> Nat]
      /\ \A i \in 0..(n - 1) : g[i] = f[i + 1]
      /\ f[0] = PayloadBytes(Head(q))
  <2>1. \A i \in 0..(n - 1) : i + 1 \in 1..n /\ i + 1 \in 0..((n + 1) - 1)
    OBVIOUS
  <2>2. \A i \in 0..((n + 1) - 1) : i + 1 \in 1..(n + 1)
    OBVIOUS
  <2>3. 0 \in 0..((n + 1) - 1) /\ 0 + 1 = 1
    OBVIOUS
  <2>4. g \in [0..(n - 1) -> Nat]
    BY <1>1, <1>4, <2>1
  <2>5. f \in [0..((n + 1) - 1) -> Nat]
    BY <1>1, <1>4, <2>2
  <2>6. \A i \in 0..(n - 1) : g[i] = f[i + 1]
    BY <1>4, <2>1
  <2>7. f[0] = PayloadBytes(q[1])
    BY <2>3
  <2> QED BY <1>4, <2>4, <2>5, <2>6, <2>7
<1>6. QueuedBytes(q) = SumTo(f, n + 1)
  BY <1>2 DEF QueuedBytes
<1>7. QueuedBytes(r) = SumTo(g, n)
  BY <1>4 DEF QueuedBytes
<1> HIDE DEF f, g
<1>8. PICK s : Sums(s, g, n)
  BY <1>5, SumsExist
<1>9. PICK h \in Nat : h = f[0]
  BY <1>5
<1> DEFINE z == [k \in 0..(n + 1) |-> IF k = 0 THEN 0 ELSE s[k - 1] + h]
<1>10. Sums(z, f, n + 1)
  <2>1. s \in [0..n -> Nat] /\ s[0] = 0
    BY <1>8 DEF Sums
  <2>2. \A k \in 0..(n + 1) : k # 0 => k - 1 \in 0..n
    OBVIOUS
  <2>3. z \in [0..(n + 1) -> Nat] /\ z[0] = 0
    BY <2>1, <2>2
  <2>4. ASSUME NEW k \in 1..(n + 1)
        PROVE  z[k] = z[k - 1] + f[k - 1]
    <3>1. z[k] = s[k - 1] + h
      OBVIOUS
    <3>2. CASE k = 1
      BY <1>9, <2>1, <3>1, <3>2
    <3>3. CASE k # 1
      <4>1. PICK j \in 1..n : j = k - 1
        BY <3>3
      <4>2. j \in 0..(n + 1) /\ j # 0 /\ j - 1 \in 0..(n - 1) /\ j - 1 \in 0..n /\ (j - 1) + 1 = j
        OBVIOUS
      <4>3. z[j] = s[j - 1] + h
        BY <4>2
      <4>4. s[j] = s[j - 1] + g[j - 1] /\ g[j - 1] = f[j]
        BY <1>5, <1>8, <4>2 DEF Sums
      <4>5. s[j - 1] \in Nat /\ f[j] \in Nat
        BY <1>5, <2>1, <4>2, <4>4
      <4>6. s[j] + h = (s[j - 1] + h) + f[j]
        BY <4>4, <4>5
      <4> QED BY <3>1, <4>1, <4>3, <4>6
    <3> QED BY <3>2, <3>3
  <2> HIDE DEF z
  <2> QED BY <2>3, <2>4 DEF Sums
<1>11. z[n + 1] = s[n] + h
  OBVIOUS
<1> HIDE DEF z
<1>12. SumTo(f, n + 1) = s[n] + h
  <2>1. n + 1 \in Nat
    OBVIOUS
  <2>2. SumTo(f, n + 1) = z[n + 1]
    BY <1>5, <1>10, <2>1, SumToIsSum, Zenon
  <2> QED BY <1>11, <2>2
<1>13. SumTo(g, n) = s[n] /\ SumTo(g, n) \in Nat
  BY <1>5, <1>8, SumToIsSum
<1> QED BY <1>3, <1>5, <1>6, <1>7, <1>9, <1>12, <1>13

LEMMA QueuedEmpty == QueuedBytes(<<>>) = 0
<1> DEFINE f == [i \in 0..(0 - 1) |-> PayloadBytes(<<>>[i + 1])]
<1>1. f \in [0..(0 - 1) -> Nat]
  OBVIOUS
<1>2. QueuedBytes(<<>>) = SumTo(f, 0)
  BY DEF QueuedBytes
<1> HIDE DEF f
<1>3. PICK s : Sums(s, f, 0)
  BY <1>1, SumsExist
<1> QED BY <1>1, <1>2, <1>3, SumToIsSum DEF Sums

\* The chunks of a file add up to its size.
LEMMA ChunksAddUp ==
  ASSUME NEW size \in Nat
  PROVE  SumTo([i \in 0..(Chunks(size) - 1) |-> Minimum(size - i * ChunkSize, ChunkSize)],
               Chunks(size)) = size
<1>0. ChunkSize \in Nat
  BY TuningAssumption
<1>1. PICK n \in Nat \ {0} : n = Chunks(size)
  BY ChunkCount
<1> DEFINE f == [i \in 0..(n - 1) |-> Minimum(size - i * ChunkSize, ChunkSize)]
           s == [k \in 0..n |-> IF k = n THEN size ELSE k * ChunkSize]
<1>2. f \in [0..(n - 1) -> Nat]
  BY <1>0, <1>1, ChunkBytes
<1>3. \A i \in 0..(n - 1) :
         /\ i # n - 1 => f[i] = ChunkSize
         /\ i = n - 1 => f[i] = size - i * ChunkSize
  BY <1>1, ChunkBytes
<1>4. s \in [0..n -> Nat] /\ s[0] = 0
  <2>1. \A k \in 0..n : k * ChunkSize \in Nat
    BY <1>0
  <2>2. 0 * ChunkSize = 0
    BY <1>0
  <2> QED BY <1>1, <2>1, <2>2
<1>5. ASSUME NEW k \in 1..n
      PROVE  s[k] = s[k - 1] + f[k - 1]
  <2>1. k \in 0..n /\ k - 1 \in 0..n /\ k - 1 \in 0..(n - 1) /\ k - 1 # n
    OBVIOUS
  <2>2. s[k - 1] = (k - 1) * ChunkSize
    BY <2>1
  <2>3. (k - 1) * ChunkSize \in Nat /\ k * ChunkSize = (k - 1) * ChunkSize + ChunkSize
    BY <1>0
  <2>4. CASE k = n
    <3>1. s[k] = size
      BY <2>4
    <3>2. f[k - 1] = size - (k - 1) * ChunkSize
      BY <1>3, <2>1, <2>4
    <3> HIDE DEF s, f
    <3> QED BY <2>2, <2>3, <3>1, <3>2
  <2>5. CASE k # n
    <3>1. s[k] = k * ChunkSize
      BY <2>5
    <3>2. f[k - 1] = ChunkSize
      BY <1>3, <2>1, <2>5
    <3> HIDE DEF s, f
    <3> QED BY <2>2, <2>3, <3>1, <3>2
  <2> QED BY <2>4, <2>5
<1>6. s[n] = size
  OBVIOUS
<1> HIDE DEF s
<1>7. Sums(s, f, n)
  <2> HIDE DEF f
  <2> QED BY <1>4, <1>5 DEF Sums
<1>8. SumTo(f, n) = size
  <2> HIDE DEF f
  <2> QED BY <1>2, <1>6, <1>7, SumToIsSum
<1> QED BY <1>1, <1>8

-----------------------------------------------------------------------------
(* Chunks. *)

LEMMA TypesSplit == TypeOK <=> SenderTypes /\ ReceiverTypes
  BY DEF TypeOK, SenderTypes, ReceiverTypes

\* What SendFile writes into a chunk passes every test of builder and parser.
LEMMA ChunkSound ==
  ASSUME SenderTypes, NEW p \in Sender, NEW f \in DOMAIN files[p],
         NEW i \in 0..(Chunks(files[p][f]) - 1)
  PROVE  /\ Chunk(p, f, i) \in TransferChunk
         /\ BuildTransferChunkPayload(Chunk(p, f, i))
         /\ ParseTransferChunkPayload(Chunk(p, f, i))
         /\ PayloadBytes(Chunk(p, f, i)) \in 1..(HeaderSize + ChunkSize)
         /\ IsFile(<<p, f>>)
<1>1. PICK size \in FileSize : size = files[p][f]
  BY DEF SenderTypes
<1>2. size \in Nat /\ ChunkSize \in Nat \ {0} /\ HeaderSize \in Nat \ {0} /\ MaxFiles \in Nat
  BY FileAssumption, TuningAssumption
<1>3. f \in TransferId
  BY <1>2 DEF SenderTypes, Current, TransferId
<1>4. PICK n \in Nat \ {0} : n = Chunks(size)
  BY <1>2, ChunkCount
<1>5. i \in 0..(n - 1)
  BY <1>1, <1>4
<1>6. PICK d : d = Minimum(size - i * ChunkSize, ChunkSize)
  OBVIOUS
<1>7. d \in 0..ChunkSize /\ i * ChunkSize <= size
  BY <1>2, <1>4, <1>5, <1>6, ChunkBytes
<1>8. <<p, f>> \in Origin
  BY <1>3 DEF Origin
<1>9. PICK sum : sum = IF i = n - 1 THEN <<p, f>> ELSE Hole
  OBVIOUS
<1>10. PICK c : c = Chunk(p, f, i)
  OBVIOUS
<1>11. c = [from |-> p, transfer_id |-> f, file_size |-> size, chunk_index |-> i,
            total_chunks |-> n, has_file_name |-> i = 0,
            is_last_chunk |-> i = n - 1, data_size |-> d, file_checksum |-> sum]
  BY <1>1, <1>4, <1>6, <1>9, <1>10 DEF Chunk, Chunks
<1>12. c \in TransferChunk
  BY <1>2, <1>3, <1>5, <1>7, <1>8, <1>9, <1>11 DEF TransferChunk
<1>13. ChunkConsistent(c)
  <2>1. c.transfer_id # 0 /\ c.total_chunks # 0 /\ c.chunk_index < c.total_chunks
    BY <1>2, <1>3, <1>5, <1>11 DEF TransferId
  <2>2. c.has_file_name = (c.chunk_index = 0)
    BY <1>11
  <2>3. c.is_last_chunk => c.chunk_index = c.total_chunks - 1
    BY <1>11
  <2>4. ~c.is_last_chunk => c.file_checksum = Hole
    BY <1>9, <1>11
  <2>5. CalculateTotalChunks(c.file_size) = c.total_chunks
    BY <1>4, <1>11 DEF Chunks
  <2>6. c.chunk_index * ChunkSize <= c.file_size
        /\ c.data_size = Minimum(c.file_size - c.chunk_index * ChunkSize, ChunkSize)
    BY <1>6, <1>7, <1>11
  <2> QED BY <2>1, <2>2, <2>3, <2>4, <2>5, <2>6 DEF ChunkConsistent
<1>14. c.file_size = 0 => c.is_last_chunk
  <2>1. size = 0 => n = 1
    BY <1>4 DEF Chunks, CalculateTotalChunks
  <2>2. c.is_last_chunk = (i = n - 1) /\ c.file_size = size
    BY <1>11
  <2>3. size = 0 => i = n - 1
    BY <1>5, <2>1
  <2> QED BY <2>2, <2>3
<1>15. PayloadBytes(c) \in 1..(HeaderSize + ChunkSize)
  <2>1. PayloadBytes(c) = HeaderSize + d
    BY <1>11 DEF PayloadBytes
  <2> QED BY <1>2, <1>7, <2>1
<1> QED BY <1>8, <1>10, <1>12, <1>13, <1>14, <1>15
      DEF BuildTransferChunkPayload, ParseTransferChunkPayload, IsFile

\* The fields of a chunk that SendFile has made, as the receiver uses them.
LEMMA SentParts ==
  ASSUME SenderTypes, NEW c, Sent(c)
  PROVE  /\ c \in TransferChunk /\ BuildTransferChunkPayload(c) /\ ParseTransferChunkPayload(c)
         /\ PayloadBytes(c) \in 1..(HeaderSize + ChunkSize)
         /\ IsFile(<<c.from, c.transfer_id>>)
         /\ files[c.from][c.transfer_id] = c.file_size
         /\ c.file_checksum = IF c.is_last_chunk THEN <<c.from, c.transfer_id>> ELSE Hole
         /\ c.total_chunks = Chunks(c.file_size) /\ c.chunk_index \in 0..(c.total_chunks - 1)
<1>0. PICK p \in Sender : \E f \in DOMAIN files[p] :
         \E i \in 0..(Chunks(files[p][f]) - 1) : c = Chunk(p, f, i)
  BY DEF Sent
<1>1. PICK f \in DOMAIN files[p] :
         \E i \in 0..(Chunks(files[p][f]) - 1) : c = Chunk(p, f, i)
  BY <1>0
<1>2. PICK i \in 0..(Chunks(files[p][f]) - 1) : c = Chunk(p, f, i)
  BY <1>1
<1>3. /\ c \in TransferChunk /\ BuildTransferChunkPayload(c) /\ ParseTransferChunkPayload(c)
      /\ PayloadBytes(c) \in 1..(HeaderSize + ChunkSize) /\ IsFile(<<p, f>>)
  BY <1>2, ChunkSound
<1>4. /\ c.from = p /\ c.transfer_id = f /\ c.file_size = files[p][f] /\ c.chunk_index = i
      /\ c.total_chunks = Chunks(files[p][f])
      /\ c.is_last_chunk = (i = Chunks(files[p][f]) - 1)
      /\ c.file_checksum = IF i = Chunks(files[p][f]) - 1 THEN <<p, f>> ELSE Hole
  BY <1>2 DEF Chunk, Chunks
<1> QED BY <1>3, <1>4

\* The files of a sender are never changed, new ones are added.
FilesGrow ==
    \A p \in Sender : \A f \in DOMAIN files[p] :
        f \in DOMAIN files'[p] /\ files'[p][f] = files[p][f]

LEMMA ChunkStays ==
  ASSUME FilesGrow, NEW p \in Sender, NEW f \in DOMAIN files[p], NEW i
  PROVE  Chunk(p, f, i)' = Chunk(p, f, i)
  BY DEF FilesGrow, Chunk

LEMMA SentStays ==
  ASSUME FilesGrow, NEW c, Sent(c)
  PROVE  Sent(c)'
<1>0. PICK p \in Sender : \E f \in DOMAIN files[p] :
         \E i \in 0..(Chunks(files[p][f]) - 1) : c = Chunk(p, f, i)
  BY DEF Sent
<1>1. PICK f \in DOMAIN files[p] :
         \E i \in 0..(Chunks(files[p][f]) - 1) : c = Chunk(p, f, i)
  BY <1>0
<1>2. PICK i \in 0..(Chunks(files[p][f]) - 1) : c = Chunk(p, f, i)
  BY <1>1
<1>3. Chunk(p, f, i)' = Chunk(p, f, i) /\ f \in DOMAIN files'[p] /\ files'[p][f] = files[p][f]
  BY ChunkStays DEF FilesGrow
<1> QED BY <1>2, <1>3 DEF Sent

-----------------------------------------------------------------------------
(* The senders. *)

\* A sender of which nothing changes, while others may begin files.
LEMMA OtherStays ==
  ASSUME FilesGrow, NEW p \in Sender, SenderOk(p),
         files'[p] = files[p], spc'[p] = spc[p], index'[p] = index[p], outq'[p] = outq[p],
         taken'[p] = taken[p], bytes'[p] = bytes[p]
  PROVE  SenderOk(p)'
<1>1. AtChunk(p)'
  BY DEF SenderOk, AtChunk, Current
<1>2. QueueSent(p)'
  BY SentStays DEF SenderOk, QueueSent
<1>3. Uncounted(p)' = Uncounted(p) /\ TakenBytes(p)' = TakenBytes(p)
  BY DEF Uncounted, TakenBytes, Current, Chunk
<1>4. BytesCounted(p)' /\ InWindow(p)'
  BY <1>3 DEF SenderOk, BytesCounted, InWindow
<1> QED BY <1>1, <1>2, <1>4 DEF SenderOk

\* The sizes that BytesCounted adds up are natural numbers.
LEMMA BytesAreNat ==
  ASSUME SenderTypes, NEW p \in Sender, AtChunk(p), QueueSent(p)
  PROVE  /\ QueuedBytes(outq[p]) \in Nat /\ TakenBytes(p) \in Nat /\ Uncounted(p) \in Nat
         /\ bytes[p] \in Nat
<1>1. outq[p] \in Seq(TransferChunk)
  BY DEF SenderTypes
<1>2. HeaderSize \in Nat /\ ChunkSize \in Nat
  BY TuningAssumption
<1>3. \A x \in TransferChunk : PayloadBytes(x) \in Nat
  BY <1>2 DEF PayloadBytes, TransferChunk
<1>4. QueuedBytes(outq[p]) \in Nat
  <2>1. CASE outq[p] = <<>>
    BY <2>1, QueuedEmpty
  <2>2. CASE outq[p] # <<>>
    <3>1. Head(outq[p]) \in TransferChunk
      BY <1>1, <2>2
    <3>2. /\ QueuedBytes(outq[p]) = QueuedBytes(Tail(outq[p])) + PayloadBytes(Head(outq[p]))
          /\ QueuedBytes(Tail(outq[p])) \in Nat
      BY <1>1, <2>2, QueuedTail
    <3> QED BY <1>3, <3>1, <3>2
  <2> QED BY <2>1, <2>2
<1>5. TakenBytes(p) \in Nat
  <2>1. taken[p] # <<>> => taken[p][1] \in TransferChunk
    BY SentParts DEF QueueSent
  <2> QED BY <1>3, <2>1 DEF TakenBytes
<1>6. Uncounted(p) \in Nat
  <2>1. CASE spc[p] = "count"
    <3>1. files[p] # <<>> /\ index[p] < Chunks(files[p][Current(p)])
      BY <2>1 DEF AtChunk
    <3>2. Current(p) \in DOMAIN files[p] /\ files[p][Current(p)] \in FileSize
      BY <3>1 DEF SenderTypes, Current
    <3>3. Chunks(files[p][Current(p)]) \in Nat
      BY <3>2, ChunkCount, FileAssumption
    <3>4. index[p] \in 0..(Chunks(files[p][Current(p)]) - 1)
      BY <3>1, <3>3 DEF SenderTypes
    <3>5. PayloadBytes(Chunk(p, Current(p), index[p])) \in 1..(HeaderSize + ChunkSize)
      BY <3>2, <3>4, ChunkSound
    <3> QED BY <1>2, <2>1, <3>5 DEF Uncounted
  <2>2. CASE spc[p] # "count"
    BY <2>2 DEF Uncounted
  <2> QED BY <2>1, <2>2
<1>7. bytes[p] \in Nat
  BY DEF SenderTypes
<1> QED BY <1>4, <1>5, <1>6, <1>7

\* The chunk SendFile is at.
LEMMA AtChunkIs ==
  ASSUME SenderTypes, NEW p \in Sender, AtChunk(p), spc[p] \in {"wait", "count"}
  PROVE  /\ Current(p) \in DOMAIN files[p] /\ files[p] # <<>>
         /\ Chunks(files[p][Current(p)]) \in Nat \ {0}
         /\ index[p] \in 0..(Chunks(files[p][Current(p)]) - 1)
         /\ Sent(Chunk(p, Current(p), index[p]))
<1>1. files[p] # <<>> /\ index[p] < Chunks(files[p][Current(p)])
  BY DEF AtChunk
<1>2. Current(p) \in DOMAIN files[p] /\ files[p][Current(p)] \in FileSize
  BY <1>1 DEF SenderTypes, Current
<1>3. Chunks(files[p][Current(p)]) \in Nat \ {0}
  BY <1>2, ChunkCount, FileAssumption
<1>4. index[p] \in 0..(Chunks(files[p][Current(p)]) - 1)
  BY <1>1, <1>3 DEF SenderTypes
<1>5. Sent(Chunk(p, Current(p), index[p]))
  BY <1>2, <1>4 DEF Sent
<1> QED BY <1>1, <1>2, <1>3, <1>4, <1>5

LEMMA BeginFileInv ==
  ASSUME SenderInv, NEW p \in Sender, BeginFile(p)
  PROVE  SenderInv' /\ FilesGrow
<1>0. SenderTypes /\ \A q \in Sender : SenderOk(q)
  BY DEF SenderInv
<1>1. PICK n \in FileSize : files' = [files EXCEPT ![p] = Append(@, n)]
  BY DEF BeginFile
<1>2. UNCHANGED <<rate, outq, bytes, taken, dropped, net>>
  BY DEF BeginFile
<1>3. spc' = [spc EXCEPT ![p] = "wait"] /\ index' = [index EXCEPT ![p] = 0]
      /\ spc[p] \in {"idle", "failed"} /\ Current(p) < MaxFiles
  BY DEF BeginFile
<1>4. files[p] \in Seq(FileSize) /\ \A q \in Sender : files[q] \in Seq(FileSize)
  BY <1>0 DEF SenderTypes
<1>5. PICK r : r = Append(files[p], n)
  OBVIOUS
<1>6. /\ r \in Seq(FileSize) /\ Len(r) = Len(files[p]) + 1 /\ r[Len(r)] = n /\ r # <<>>
      /\ \A f \in DOMAIN files[p] : f \in DOMAIN r /\ r[f] = files[p][f]
  BY <1>4, <1>5
<1>7. files'[p] = r /\ files' \in [Sender -> Seq(FileSize)]
      /\ \A q \in Sender : q # p => files'[q] = files[q]
  BY <1>0, <1>1, <1>5, <1>6 DEF SenderTypes
<1>8. FilesGrow
  <2> SUFFICES ASSUME NEW q \in Sender, NEW f \in DOMAIN files[q]
               PROVE  f \in DOMAIN files'[q] /\ files'[q][f] = files[q][f]
    BY DEF FilesGrow
  <2> QED BY <1>6, <1>7
<1>9. SenderTypes'
  <2>1. \A q \in Sender : Current(q)' <= MaxFiles
    <3>1. Len(files[p]) < MaxFiles /\ MaxFiles \in Nat /\ Len(files[p]) \in Nat
      BY <1>3, <1>4, FileAssumption DEF Current
    <3>2. Len(files'[p]) <= MaxFiles
      BY <1>6, <1>7, <3>1
    <3> QED BY <1>0, <1>7, <3>2 DEF SenderTypes, Current
  <2>2. spc' \in [Sender -> {"idle", "wait", "count", "failed"}] /\ index' \in [Sender -> Nat]
    BY <1>0, <1>3 DEF SenderTypes
  <2> QED BY <1>0, <1>2, <1>7, <2>1, <2>2 DEF SenderTypes
<1>10. SenderOk(p)'
  <2>1. spc'[p] = "wait" /\ index'[p] = 0
    BY <1>0, <1>3 DEF SenderTypes
  <2>2. Chunks(n) \in Nat \ {0}
    BY ChunkCount, FileAssumption
  <2>3. AtChunk(p)'
    BY <1>6, <1>7, <2>1, <2>2 DEF AtChunk, Current
  <2>4. QueueSent(p)'
    BY <1>0, <1>2, <1>8, SentStays DEF SenderOk, QueueSent
  <2>5. Uncounted(p) = 0 /\ Uncounted(p)' = 0 /\ TakenBytes(p)' = TakenBytes(p)
    BY <1>2, <1>3, <2>1 DEF Uncounted, TakenBytes
  <2>6. BytesCounted(p)' /\ InWindow(p)'
    BY <1>0, <1>2, <2>5 DEF SenderOk, BytesCounted, InWindow
  <2> QED BY <2>3, <2>4, <2>6 DEF SenderOk
<1>11. \A q \in Sender : q # p => SenderOk(q)'
  <2> SUFFICES ASSUME NEW q \in Sender, q # p PROVE SenderOk(q)'
    OBVIOUS
  <2>1. spc'[q] = spc[q] /\ index'[q] = index[q] /\ files'[q] = files[q]
    BY <1>0, <1>3, <1>7 DEF SenderTypes
  <2> QED BY <1>0, <1>2, <1>8, <2>1, OtherStays
<1>12. \A c \in net' : Sent(c)'
  BY <1>2, <1>8, SentStays DEF SenderInv
<1> QED BY <1>8, <1>9, <1>10, <1>11, <1>12 DEF SenderInv

\* The end of the loop body leads to a chunk of the file, or out of the loop.
LEMMA NextChunkAt ==
  ASSUME SenderTypes, NEW p \in Sender, AtChunk(p), spc[p] \in {"wait", "count"},
         NextChunk(p), UNCHANGED files
  PROVE  /\ AtChunk(p)' /\ spc'[p] # "count"
         /\ spc' \in [Sender -> {"idle", "wait", "count", "failed"}]
         /\ index' \in [Sender -> Nat]
         /\ \A q \in Sender : q # p => spc'[q] = spc[q] /\ index'[q] = index[q]
<1> DEFINE n == Chunks(files[p][Current(p)])
           last == Chunk(p, Current(p), index[p]).is_last_chunk
<1>1. n \in Nat \ {0} /\ index[p] \in 0..(n - 1) /\ files[p] # <<>>
  BY AtChunkIs
<1>2. last = (index[p] = n - 1)
  BY DEF Chunk, Chunks
<1>3. /\ spc' = [spc EXCEPT ![p] = IF last THEN "idle" ELSE "wait"]
      /\ index' = [index EXCEPT ![p] = IF last THEN @ ELSE @ + 1]
  BY DEF NextChunk
<1> HIDE DEF last
<1>4. /\ spc'[p] = IF last THEN "idle" ELSE "wait"
      /\ index'[p] = IF last THEN index[p] ELSE index[p] + 1
      /\ \A q \in Sender : q # p => spc'[q] = spc[q] /\ index'[q] = index[q]
  BY <1>3 DEF SenderTypes
<1>5. spc' \in [Sender -> {"idle", "wait", "count", "failed"}]
  BY <1>3 DEF SenderTypes
<1>6. index' \in [Sender -> Nat]
  BY <1>3 DEF SenderTypes
<1>7. AtChunk(p)'
  <2>1. CASE last
    BY <1>4, <2>1 DEF AtChunk
  <2>2. CASE ~last
    <3>1. index'[p] = index[p] + 1 /\ index[p] # n - 1
      BY <1>2, <1>4, <2>2
    <3>2. index'[p] < n
      BY <1>1, <3>1
    <3> QED BY <1>1, <3>2 DEF AtChunk, Current
  <2> QED BY <2>1, <2>2
<1>8. spc'[p] # "count"
  BY <1>4
<1> QED BY <1>4, <1>5, <1>6, <1>7, <1>8

\* CheckRateLimit takes a burst token only when there is one.
LEMMA RateStaysNat ==
  ASSUME NEW r \in [packets : Nat, bytes : Nat, burst : Nat], NEW n \in Nat
  PROVE  /\ CheckRateLimit(r, n).rate \in [packets : Nat, bytes : Nat, burst : Nat]
         /\ CheckRateLimit(r, n).ok \in BOOLEAN
<1>0. MaxPackets \in Nat /\ MaxBytes \in Nat
  BY TuningAssumption
<1> DEFINE over == r.packets >= MaxPackets
           paid == IF over THEN [r EXCEPT !.burst = @ - 1] ELSE r
<1>1. CASE over /\ r.burst = 0
  BY <1>1 DEF CheckRateLimit
<1>2. CASE ~(over /\ r.burst = 0)
  <2>1. paid \in [packets : Nat, bytes : Nat, burst : Nat]
    <3>1. CASE over
      <4>1. r.burst - 1 \in Nat
        BY <1>2, <3>1
      <4> QED BY <3>1, <4>1
    <3>2. CASE ~over
      BY <3>2
    <3> QED BY <3>1, <3>2
  <2>2. PICK y : y = [packets |-> r.packets + 1, bytes |-> r.bytes + n, burst |-> paid.burst]
    OBVIOUS
  <2>3. PICK x : x = CheckRateLimit(r, n)
    OBVIOUS
  <2>4. y \in [packets : Nat, bytes : Nat, burst : Nat]
    <3> HIDE DEF paid
    <3>1. r.packets + 1 \in Nat /\ r.bytes + n \in Nat /\ paid.burst \in Nat
      BY <2>1
    <3> QED BY <2>2, <3>1
  <2>5. x = [ok |-> FALSE, rate |-> paid] \/ x = [ok |-> TRUE, rate |-> y]
    BY <1>2, <2>2, <2>3 DEF CheckRateLimit
  <2> HIDE DEF paid
  <2>6. (x.rate = paid \/ x.rate = y) /\ x.ok \in BOOLEAN
    <3>1. CASE x = [ok |-> FALSE, rate |-> paid]
      BY <3>1
    <3>2. CASE x = [ok |-> TRUE, rate |-> y]
      BY <3>2
    <3> QED BY <2>5, <3>1, <3>2
  <2> QED BY <2>1, <2>3, <2>4, <2>6
<1> QED BY <1>1, <1>2

LEMMA PushChunkInv ==
  ASSUME SenderInv, NEW p \in Sender, PushChunk(p)
  PROVE  SenderInv' /\ FilesGrow
<1>0. SenderTypes /\ \A q \in Sender : SenderOk(q)
  BY DEF SenderInv
<1>1. AtChunk(p) /\ QueueSent(p) /\ BytesCounted(p) /\ InWindow(p)
  BY <1>0 DEF SenderOk
<1>2. PICK c : c = Chunk(p, Current(p), index[p])
  OBVIOUS
<1>3. spc[p] = "wait" /\ WindowOpen(p) /\ UNCHANGED <<files, bytes, taken, net>>
  BY DEF PushChunk
<1>4. FilesGrow
  BY <1>3 DEF FilesGrow
<1>5. Sent(c) /\ Sent(c)'
  BY <1>0, <1>1, <1>2, <1>3, <1>4, AtChunkIs, SentStays
<1>6. c \in TransferChunk /\ PayloadBytes(c) \in 1..(HeaderSize + ChunkSize)
  BY <1>0, <1>5, SentParts
<1>7. HeaderSize \in Nat /\ ChunkSize \in Nat /\ MaxInflightBytes \in Nat
      /\ MaxInflightChunks \in Nat /\ BurstAllowance \in Nat
  BY TuningAssumption
<1>8. PICK m \in Nat : m = PayloadBytes(c) /\ m <= HeaderSize + ChunkSize
  BY <1>6, <1>7
<1>9. PICK r \in {rate[p], FreshRate} :
         /\ rate' = [rate EXCEPT ![p] = CheckRateLimit(r, m).rate]
         /\ \/ /\ outq' = [outq EXCEPT ![p] = Append(@, c)]
               /\ spc' = [spc EXCEPT ![p] = "count"]
               /\ UNCHANGED <<index, dropped>>
            \/ /\ dropped' = dropped \cup {c}
               /\ NextChunk(p)
               /\ UNCHANGED outq
  BY <1>2, <1>8 DEF PushChunk
<1>10. rate' \in [Sender -> [packets : Nat, bytes : Nat, burst : Nat]]
  <2>1. r \in [packets : Nat, bytes : Nat, burst : Nat]
    BY <1>0, <1>7 DEF SenderTypes, FreshRate
  <2>2. CheckRateLimit(r, m).rate \in [packets : Nat, bytes : Nat, burst : Nat]
    BY <2>1, RateStaysNat
  <2> QED BY <1>0, <1>9, <2>2 DEF SenderTypes
<1>11. \A x \in net' : Sent(x)'
  BY <1>3, <1>4, SentStays DEF SenderInv
<1>12. /\ QueuedBytes(outq[p]) \in Nat /\ TakenBytes(p) \in Nat /\ bytes[p] \in Nat
       /\ Uncounted(p) = 0 /\ TakenBytes(p)' = TakenBytes(p)
  BY <1>0, <1>1, <1>3, BytesAreNat DEF Uncounted, TakenBytes
<1>13. CASE /\ outq' = [outq EXCEPT ![p] = Append(@, c)]
            /\ spc' = [spc EXCEPT ![p] = "count"]
            /\ UNCHANGED <<index, dropped>>
  <2>1. PICK q : q = outq[p]
    OBVIOUS
  <2>2. q \in Seq(TransferChunk) /\ Len(q) \in Nat
    BY <1>0, <2>1 DEF SenderTypes
  <2>3. PICK z : z = Append(q, c)
    OBVIOUS
  <2>4. /\ z \in Seq(TransferChunk) /\ Len(z) = Len(q) + 1
        /\ \A k \in DOMAIN z : z[k] = c \/ (k \in DOMAIN q /\ z[k] = q[k])
    BY <1>6, <2>2, <2>3
  <2>5. outq'[p] = z /\ spc'[p] = "count" /\ index'[p] = index[p]
    BY <1>0, <1>13, <2>1, <2>3 DEF SenderTypes
  <2>6. SenderTypes'
    <3>1. outq' \in [Sender -> Seq(TransferChunk)]
      BY <1>0, <1>13, <2>1, <2>3, <2>4 DEF SenderTypes
    <3>2. spc' \in [Sender -> {"idle", "wait", "count", "failed"}]
      BY <1>0, <1>13 DEF SenderTypes
    <3> QED BY <1>0, <1>3, <1>10, <1>13, <3>1, <3>2 DEF SenderTypes, Current
  <2>7. QueuedBytes(z) = QueuedBytes(q) + m
    BY <1>6, <1>8, <2>2, <2>3, QueuedAppend
  <2>8. AtChunk(p)'
    BY <1>1, <1>3, <1>13 DEF AtChunk, Current
  <2>9. QueueSent(p)'
    <3>1. \A k \in DOMAIN q : Sent(q[k])'
      BY <1>1, <1>4, <2>1, SentStays DEF QueueSent
    <3>2. \A k \in DOMAIN z : Sent(z[k])'
      BY <1>5, <2>4, <3>1
    <3>3. PICK d : d = taken[p]
      OBVIOUS
    <3>4. d # <<>> => Len(d) = 1 /\ Sent(d[1])'
      BY <1>1, <1>4, <3>3, SentStays DEF QueueSent
    <3>5. taken'[p] = d
      BY <1>3, <3>3
    <3>6. \A a, b : a = outq'[p] /\ b = taken'[p] => QueueSent(p)'
      BY <2>5, <3>2, <3>4, <3>5 DEF QueueSent
    <3> QED BY <3>6
  <2>10. Uncounted(p)' = m
    BY <1>2, <1>3, <1>8, <1>13, <2>5 DEF Uncounted, Current, Chunk
  <2>11. QueuedBytes(q) + TakenBytes(p) <= bytes[p]
    BY <1>1, <1>12, <2>1 DEF BytesCounted
  <2>12. BytesCounted(p)'
    <3>1. (QueuedBytes(q) + m) + TakenBytes(p) <= bytes[p] + m
      BY <1>12, <2>1, <2>11
    <3> QED BY <1>3, <1>12, <2>5, <2>7, <2>10, <3>1 DEF BytesCounted
  <2>13. InWindow(p)'
    <3>1. MaxInflightChunks # 0 => Len(z) <= MaxInflightChunks
      BY <1>3, <1>7, <2>1, <2>2, <2>4 DEF WindowOpen
    <3>2. MaxInflightBytes # 0 => QueuedBytes(z) < MaxInflightBytes + HeaderSize + ChunkSize
      <4>1. MaxInflightBytes # 0 => bytes[p] < MaxInflightBytes
        BY <1>3 DEF WindowOpen
      <4> QED BY <1>7, <1>8, <1>12, <2>1, <2>7, <2>11, <4>1
    <3> QED BY <2>5, <3>1, <3>2 DEF InWindow
  <2>14. ASSUME NEW x \in Sender, x # p
         PROVE  SenderOk(x)'
    <3>1. spc'[x] = spc[x] /\ outq'[x] = outq[x] /\ index'[x] = index[x]
      BY <1>0, <1>13, <2>14 DEF SenderTypes
    <3> QED BY <1>0, <1>3, <1>4, <3>1, OtherStays
  <2>15. SenderOk(p)'
    BY <2>8, <2>9, <2>12, <2>13 DEF SenderOk
  <2> QED BY <1>4, <1>11, <2>6, <2>14, <2>15 DEF SenderInv
<1>14. CASE dropped' = dropped \cup {c} /\ NextChunk(p) /\ UNCHANGED outq
  <2>1. /\ AtChunk(p)' /\ spc'[p] # "count"
        /\ spc' \in [Sender -> {"idle", "wait", "count", "failed"}]
        /\ index' \in [Sender -> Nat]
        /\ \A q \in Sender : q # p => spc'[q] = spc[q] /\ index'[q] = index[q]
    BY <1>0, <1>1, <1>3, <1>14, NextChunkAt
  <2>2. SenderTypes'
    BY <1>0, <1>3, <1>6, <1>10, <1>14, <2>1 DEF SenderTypes, Current
  <2>3. QueueSent(p)'
    BY <1>1, <1>3, <1>4, <1>14, SentStays DEF QueueSent
  <2>4. Uncounted(p)' = 0
    BY <2>1 DEF Uncounted
  <2>5. BytesCounted(p)' /\ InWindow(p)'
    BY <1>1, <1>3, <1>12, <1>14, <2>4 DEF BytesCounted, InWindow
  <2>6. SenderOk(p)'
    BY <2>1, <2>3, <2>5 DEF SenderOk
  <2>7. \A q \in Sender : q # p => SenderOk(q)'
    BY <1>0, <1>3, <1>4, <1>14, <2>1, OtherStays
  <2> QED BY <1>4, <1>11, <2>2, <2>6, <2>7 DEF SenderInv
<1> QED BY <1>9, <1>13, <1>14

LEMMA CountBytesInv ==
  ASSUME SenderInv, NEW p \in Sender, CountBytes(p)
  PROVE  SenderInv' /\ FilesGrow
<1>0. SenderTypes /\ \A q \in Sender : SenderOk(q)
  BY DEF SenderInv
<1>1. AtChunk(p) /\ QueueSent(p) /\ BytesCounted(p) /\ InWindow(p)
  BY <1>0 DEF SenderOk
<1>2. UNCHANGED <<files, rate, outq, taken, dropped, net>> /\ spc[p] = "count" /\ NextChunk(p)
  BY DEF CountBytes
<1>3. FilesGrow
  BY <1>2 DEF FilesGrow
<1>4. PICK m : m = PayloadBytes(Chunk(p, Current(p), index[p]))
  OBVIOUS
<1>5. Uncounted(p) = m /\ bytes' = [bytes EXCEPT ![p] = @ + m]
  BY <1>2, <1>4 DEF Uncounted, CountBytes
<1>6. /\ QueuedBytes(outq[p]) \in Nat /\ TakenBytes(p) \in Nat /\ bytes[p] \in Nat /\ m \in Nat
  BY <1>0, <1>1, <1>5, BytesAreNat
<1>7. /\ AtChunk(p)' /\ spc'[p] # "count"
      /\ spc' \in [Sender -> {"idle", "wait", "count", "failed"}]
      /\ index' \in [Sender -> Nat]
      /\ \A q \in Sender : q # p => spc'[q] = spc[q] /\ index'[q] = index[q]
  BY <1>0, <1>1, <1>2, NextChunkAt
<1>8. bytes' \in [Sender -> Nat] /\ bytes'[p] = bytes[p] + m
      /\ \A q \in Sender : q # p => bytes'[q] = bytes[q]
  BY <1>0, <1>5, <1>6 DEF SenderTypes
<1>9. SenderTypes'
  BY <1>0, <1>2, <1>7, <1>8 DEF SenderTypes, Current
<1>10. QueueSent(p)'
  BY <1>1, <1>2, <1>3, SentStays DEF QueueSent
<1>11. Uncounted(p)' = 0 /\ TakenBytes(p)' = TakenBytes(p)
  BY <1>2, <1>7 DEF Uncounted, TakenBytes
<1>12. BytesCounted(p)'
  <2>1. QueuedBytes(outq[p]) + TakenBytes(p) <= (bytes[p] + m) + 0
    BY <1>1, <1>5, <1>6 DEF BytesCounted
  <2> QED BY <1>2, <1>8, <1>11, <2>1 DEF BytesCounted
<1>13. SenderOk(p)'
  BY <1>1, <1>2, <1>7, <1>10, <1>12 DEF SenderOk, InWindow
<1>14. \A q \in Sender : q # p => SenderOk(q)'
  BY <1>0, <1>2, <1>3, <1>7, <1>8, OtherStays
<1>15. \A x \in net' : Sent(x)'
  BY <1>2, <1>3, SentStays DEF SenderInv
<1> QED BY <1>3, <1>9, <1>13, <1>14, <1>15 DEF SenderInv

LEMMA GiveUpInv ==
  ASSUME SenderInv, NEW p \in Sender, GiveUp(p)
  PROVE  SenderInv' /\ FilesGrow
<1>0. SenderTypes /\ \A q \in Sender : SenderOk(q)
  BY DEF SenderInv
<1>1. UNCHANGED <<files, index, rate, outq, bytes, taken, dropped, net>>
      /\ spc[p] = "wait" /\ spc' = [spc EXCEPT ![p] = "failed"]
  BY DEF GiveUp
<1>2. FilesGrow
  BY <1>1 DEF FilesGrow
<1>3. spc' \in [Sender -> {"idle", "wait", "count", "failed"}] /\ spc'[p] = "failed"
      /\ \A q \in Sender : q # p => spc'[q] = spc[q]
  BY <1>0, <1>1 DEF SenderTypes
<1>4. SenderTypes'
  BY <1>0, <1>1, <1>3 DEF SenderTypes, Current
<1>5. AtChunk(p)' /\ Uncounted(p)' = 0 /\ Uncounted(p) = 0 /\ TakenBytes(p)' = TakenBytes(p)
  BY <1>1, <1>3 DEF AtChunk, Uncounted, TakenBytes
<1>6. QueueSent(p)'
  BY <1>0, <1>1, <1>2, SentStays DEF SenderOk, QueueSent
<1>7. SenderOk(p)'
  BY <1>0, <1>1, <1>5, <1>6 DEF SenderOk, BytesCounted, InWindow
<1>8. \A q \in Sender : q # p => SenderOk(q)'
  BY <1>0, <1>1, <1>2, <1>3, OtherStays
<1>9. \A x \in net' : Sent(x)'
  BY <1>1, <1>2, SentStays DEF SenderInv
<1> QED BY <1>2, <1>4, <1>7, <1>8, <1>9 DEF SenderInv

LEMMA DequeueInv ==
  ASSUME SenderInv, NEW p \in Sender, Dequeue(p)
  PROVE  SenderInv' /\ FilesGrow
<1>0. SenderTypes /\ \A q \in Sender : SenderOk(q)
  BY DEF SenderInv
<1>1. AtChunk(p) /\ QueueSent(p) /\ BytesCounted(p) /\ InWindow(p)
  BY <1>0 DEF SenderOk
<1>2. UNCHANGED <<spc, files, index, rate, bytes, dropped, net>>
  BY DEF Dequeue
<1>3. FilesGrow
  BY <1>2 DEF FilesGrow
<1>4. PICK q : q = outq[p]
  OBVIOUS
<1>5. q \in Seq(TransferChunk) /\ q # <<>> /\ taken[p] = <<>>
  BY <1>0, <1>4 DEF SenderTypes, Dequeue
<1>6. PICK c, z : c = Head(q) /\ z = Tail(q)
  OBVIOUS
<1>7. /\ z \in Seq(TransferChunk) /\ Len(z) = Len(q) - 1 /\ Len(q) \in Nat
      /\ c \in TransferChunk /\ c = q[1] /\ 1 \in DOMAIN q
      /\ \A k \in DOMAIN z : k + 1 \in DOMAIN q /\ z[k] = q[k + 1]
  BY <1>5, <1>6
<1>8. outq' = [outq EXCEPT ![p] = z] /\ taken' = [taken EXCEPT ![p] = <<c>>]
  BY <1>4, <1>6 DEF Dequeue
<1>9. /\ outq' \in [Sender -> Seq(TransferChunk)] /\ outq'[p] = z
      /\ taken' \in [Sender -> Seq(TransferChunk)] /\ taken'[p] = <<c>>
      /\ \A x \in Sender : x # p => outq'[x] = outq[x] /\ taken'[x] = taken[x]
  BY <1>0, <1>7, <1>8 DEF SenderTypes
<1>10. SenderTypes'
  BY <1>0, <1>2, <1>9 DEF SenderTypes, Current
<1>11. \A k \in DOMAIN q : Sent(q[k])'
  BY <1>1, <1>3, <1>4, SentStays DEF QueueSent
<1>12. QueueSent(p)'
  <2>1. Sent(c)' /\ \A k \in DOMAIN z : Sent(z[k])'
    BY <1>7, <1>11
  <2>2. <<c>> # <<>> /\ Len(<<c>>) = 1 /\ <<c>>[1] = c
    OBVIOUS
  <2> QED BY <1>9, <2>1, <2>2 DEF QueueSent
<1>13. /\ QueuedBytes(q) = QueuedBytes(z) + PayloadBytes(c) /\ QueuedBytes(z) \in Nat
  BY <1>5, <1>6, QueuedTail
<1>14. PayloadBytes(c) \in Nat
  <2>1. HeaderSize \in Nat
    BY TuningAssumption
  <2> QED BY <1>7, <2>1 DEF PayloadBytes, TransferChunk
<1>15. TakenBytes(p) = 0 /\ TakenBytes(p)' = PayloadBytes(c)
  BY <1>5, <1>9 DEF TakenBytes
<1>16. Uncounted(p)' = Uncounted(p)
  BY <1>2 DEF Uncounted, Current, Chunk
<1>17. BytesCounted(p)'
  BY <1>1, <1>2, <1>4, <1>9, <1>13, <1>14, <1>15, <1>16 DEF BytesCounted
<1>18. InWindow(p)'
  <2>1. HeaderSize \in Nat /\ ChunkSize \in Nat /\ MaxInflightBytes \in Nat
        /\ MaxInflightChunks \in Nat
    BY TuningAssumption
  <2>2. MaxInflightChunks # 0 => Len(z) <= MaxInflightChunks
    BY <1>1, <1>4, <1>7, <2>1 DEF InWindow
  <2>3. MaxInflightBytes # 0 => QueuedBytes(z) < MaxInflightBytes + HeaderSize + ChunkSize
    BY <1>1, <1>4, <1>13, <1>14, <2>1 DEF InWindow
  <2> QED BY <1>9, <2>2, <2>3 DEF InWindow
<1>19. SenderOk(p)'
  BY <1>1, <1>2, <1>12, <1>17, <1>18 DEF SenderOk, AtChunk, Current
<1>20. \A x \in Sender : x # p => SenderOk(x)'
  BY <1>0, <1>2, <1>3, <1>9, OtherStays
<1>21. \A x \in net' : Sent(x)'
  BY <1>2, <1>3, SentStays DEF SenderInv
<1> QED BY <1>3, <1>10, <1>19, <1>20, <1>21 DEF SenderInv

\* SaturatingSub may leave the counter too high, never too low.
LEMMA SubtractInv ==
  ASSUME SenderInv, NEW p \in Sender, SubtractAndSend(p)
  PROVE  SenderInv' /\ FilesGrow
<1>0. SenderTypes /\ \A q \in Sender : SenderOk(q)
  BY DEF SenderInv
<1>1. AtChunk(p) /\ QueueSent(p) /\ BytesCounted(p) /\ InWindow(p)
  BY <1>0 DEF SenderOk
<1>2. UNCHANGED <<spc, files, index, rate, outq, dropped>> /\ taken[p] # <<>>
  BY DEF SubtractAndSend
<1>3. FilesGrow
  BY <1>2 DEF FilesGrow
<1>4. PICK c : c = taken[p][1]
  OBVIOUS
<1>5. Sent(c) /\ Sent(c)'
  BY <1>1, <1>2, <1>3, <1>4, SentStays DEF QueueSent
<1>6. PICK m \in Nat : m = PayloadBytes(c)
  <2>1. HeaderSize \in Nat /\ ChunkSize \in Nat
    BY TuningAssumption
  <2>2. PayloadBytes(c) \in 1..(HeaderSize + ChunkSize)
    BY <1>0, <1>5, SentParts
  <2> QED BY <2>1, <2>2
<1>7. c \in TransferChunk
  BY <1>0, <1>5, SentParts
<1>8. /\ QueuedBytes(outq[p]) \in Nat /\ Uncounted(p) \in Nat /\ bytes[p] \in Nat
      /\ TakenBytes(p) = m
  BY <1>0, <1>1, <1>2, <1>4, <1>6, BytesAreNat DEF TakenBytes
<1>9. PICK b \in Nat : b = SaturatingSub(bytes[p], m) /\ b >= bytes[p] - m
  BY <1>6, <1>8 DEF SaturatingSub
<1>10. bytes' = [bytes EXCEPT ![p] = b] /\ taken' = [taken EXCEPT ![p] = <<>>]
       /\ (net' = net \cup {c} \/ net' = net)
  BY <1>4, <1>6, <1>9 DEF SubtractAndSend
<1>11. /\ bytes' \in [Sender -> Nat] /\ bytes'[p] = b
       /\ taken' \in [Sender -> Seq(TransferChunk)] /\ taken'[p] = <<>>
       /\ \A x \in Sender : x # p => bytes'[x] = bytes[x] /\ taken'[x] = taken[x]
  BY <1>0, <1>10 DEF SenderTypes
<1>12. SenderTypes'
  BY <1>0, <1>2, <1>7, <1>10, <1>11 DEF SenderTypes, Current
<1>13. QueueSent(p)'
  BY <1>1, <1>2, <1>3, <1>11, SentStays DEF QueueSent
<1>14. Uncounted(p)' = Uncounted(p) /\ TakenBytes(p)' = 0
  BY <1>2, <1>11 DEF Uncounted, TakenBytes, Current, Chunk
<1>15. BytesCounted(p)'
  <2>1. QueuedBytes(outq[p]) + m <= bytes[p] + Uncounted(p)
    BY <1>1, <1>8 DEF BytesCounted
  <2>2. QueuedBytes(outq[p]) + 0 <= b + Uncounted(p)
    BY <1>8, <1>9, <2>1
  <2> QED BY <1>2, <1>11, <1>14, <2>2 DEF BytesCounted
<1>16. SenderOk(p)'
  BY <1>1, <1>2, <1>13, <1>15 DEF SenderOk, AtChunk, Current, InWindow
<1>17. \A x \in Sender : x # p => SenderOk(x)'
  BY <1>0, <1>2, <1>3, <1>11, OtherStays
<1>18. \A x \in net' : Sent(x)'
  <2>1. \A x \in net : Sent(x)'
    BY <1>3, SentStays DEF SenderInv
  <2>2. \A x : x \in net' => x \in net \/ x = c
    BY <1>10
  <2> QED BY <1>5, <2>1, <2>2
<1> QED BY <1>3, <1>12, <1>16, <1>17, <1>18 DEF SenderInv

\* The receiver takes chunks from the network and leaves the senders alone.
LEMMA SendersStay ==
  ASSUME SenderInv, UNCHANGED senderVars, net' \subseteq net
  PROVE  SenderInv' /\ FilesGrow
<1>1. UNCHANGED <<spc, files, index, rate, outq, bytes, taken, dropped>>
  BY DEF senderVars
<1>2. FilesGrow
  BY <1>1 DEF FilesGrow
<1>3. SenderTypes'
  BY <1>1 DEF SenderInv, SenderTypes, Current
<1>4. \A p \in Sender : SenderOk(p)'
  BY <1>1, <1>2, OtherStays DEF SenderInv
<1>5. \A x \in net' : Sent(x)'
  <2>1. \A x \in net : Sent(x)'
    BY <1>2, SentStays DEF SenderInv
  <2> QED BY <2>1
<1> QED BY <1>2, <1>3, <1>4, <1>5 DEF SenderInv

-----------------------------------------------------------------------------
(* The receiver's files. *)

\* No file has more chunks than the bitmap of a session has room for.
LEMMA ChunksBounded ==
  /\ MaxChunks \in Nat \ {0}
  /\ \A n \in FileSize : Chunks(n) \in Nat \ {0} /\ Chunks(n) <= MaxChunks
<1> DEFINE S == {Chunks(n) : n \in FileSize}
           F == [n \in FileSize |-> Chunks(n)]
<1>1. \A n \in FileSize : Chunks(n) \in Nat \ {0}
  BY FileAssumption, ChunkCount
<1>2. S \in SUBSET Nat /\ S # {}
  BY <1>1, FileAssumption
<1>3. F \in Surjection(FileSize, S)
  BY DEF Surjection
<1>4. IsFiniteSet(S)
  <2> HIDE DEF S, F
  <2> QED BY <1>3, FileAssumption, FS_Surjection
<1>5. Max(S) \in S /\ \A y \in S : y <= Max(S)
  <2> HIDE DEF S
  <2> QED BY <1>2, <1>4, MaxIsGreatest
<1>6. MaxChunks = Max(S)
  BY DEF MaxChunks, Chunks
<1> QED BY <1>1, <1>5, <1>6

\* A session that begins without a file of its temporary name finds an inode: there
\* are three for each transfer, and this transfer uses one at most.
LEMMA NewInodeFree ==
  ASSUME ReceiverTypes, NEW id \in TransferId, streams[id] = None, names[<<"temp", id>>] = 0
  PROVE  NewInode \in Inode /\ NewInode \notin InUse
<1> DEFINE Tag == {"temp", "out", "session"}
           Src == (Tag \X TransferId) \ {<<"temp", id>>}
           G == [x \in Src |-> IF x[1] # "session" THEN names[x]
                               ELSE IF streams[x[2]] = None THEN 0 ELSE streams[x[2]].inode]
           Img == {G[x] : x \in Src}
<1>0. PICK m \in Nat : m = MaxFiles /\ m # 0
  BY FileAssumption
<1>1. IsFiniteSet(TransferId) /\ Cardinality(TransferId) = m
  <2>1. IsFiniteSet(1..m) /\ Cardinality(1..m) = m
    BY <1>0, FS_Interval
  <2> QED BY <1>0, <2>1 DEF TransferId
<1>2. IsFiniteSet(Tag) /\ Cardinality(Tag) = 3
  <2>1. IsFiniteSet({"temp"}) /\ Cardinality({"temp"}) = 1
    BY FS_Singleton
  <2>2. IsFiniteSet({"temp"} \cup {"out"}) /\ Cardinality({"temp"} \cup {"out"}) = 2
    <3>1. PICK A, x : A = {"temp"} /\ x = "out"
      OBVIOUS
    <3>2. IsFiniteSet(A) /\ Cardinality(A) = 1 /\ x \notin A
      BY <2>1, <3>1
    <3>3. IsFiniteSet(A \cup {x}) /\ Cardinality(A \cup {x}) = 1 + 1
      BY <3>2, FS_AddElement
    <3> QED BY <3>1, <3>3
  <2>3. /\ IsFiniteSet(({"temp"} \cup {"out"}) \cup {"session"})
        /\ Cardinality(({"temp"} \cup {"out"}) \cup {"session"}) = 3
    <3>1. PICK A, x : A = {"temp"} \cup {"out"} /\ x = "session"
      OBVIOUS
    <3>2. IsFiniteSet(A) /\ Cardinality(A) = 2 /\ x \notin A
      BY <2>2, <3>1
    <3>3. IsFiniteSet(A \cup {x}) /\ Cardinality(A \cup {x}) = 2 + 1
      BY <3>2, FS_AddElement
    <3> QED BY <3>1, <3>3
  <2>4. Tag = ({"temp"} \cup {"out"}) \cup {"session"}
    OBVIOUS
  <2> HIDE DEF Tag
  <2> QED BY <2>3, <2>4
<1>3. IsFiniteSet(Tag \X TransferId) /\ Cardinality(Tag \X TransferId) = 3 * m
  <2> HIDE DEF Tag
  <2> QED BY <1>1, <1>2, FS_Product
<1>4. <<"temp", id>> \in Tag \X TransferId
  OBVIOUS
<1>5. IsFiniteSet(Src) /\ Cardinality(Src) = 3 * m - 1
  <2> HIDE DEF Tag
  <2> QED BY <1>3, <1>4, FS_RemoveElement
<1>6. G \in Surjection(Src, Img)
  <2> HIDE DEF Src
  <2> QED BY DEF Surjection
<1>7. IsFiniteSet(Img) /\ Cardinality(Img) <= 3 * m - 1
  <2> HIDE DEF Src, G, Img
  <2> QED BY <1>5, <1>6, FS_Surjection
<1>8. \A n \in Inode : n \in InUse => n \in Img
  <2> SUFFICES ASSUME NEW n \in Inode, n \in InUse PROVE n \in Img
    OBVIOUS
  <2>0. n # 0
    BY DEF Inode
  <2>1. CASE \E x \in DOMAIN names : n = names[x]
    <3>1. PICK x \in {"temp", "out"} \X TransferId : n = names[x]
      BY <2>1 DEF ReceiverTypes
    <3>2. x # <<"temp", id>>
      BY <2>0, <3>1
    <3>3. x \in Src /\ x[1] # "session"
      BY <3>1, <3>2
    <3> QED BY <3>1, <3>3
  <2>2. CASE \E jd \in TransferId : streams[jd] # None /\ n = streams[jd].inode
    <3>1. PICK jd \in TransferId : streams[jd] # None /\ n = streams[jd].inode
      BY <2>2
    <3>2. <<"session", jd>> \in Src /\ <<"session", jd>>[1] = "session" /\ <<"session", jd>>[2] = jd
      OBVIOUS
    <3>3. G[<<"session", jd>>] = n
      BY <3>1, <3>2
    <3> QED BY <3>2, <3>3
  <2> QED BY <2>1, <2>2 DEF InUse
<1>9. Inode \ InUse # {}
  <2> SUFFICES ASSUME Inode \ InUse = {} PROVE FALSE
    OBVIOUS
  <2>1. Inode = 1..(3 * m) /\ 3 * m \in Nat
    BY <1>0, <1>1 DEF Inode
  <2>2. Cardinality(Inode) = 3 * m
    BY <1>0, <2>1, FS_Interval
  <2> HIDE DEF Img
  <2>3. Inode \subseteq Img
    BY <1>8
  <2>4. Cardinality(Inode) <= Cardinality(Img)
    BY <1>7, <2>3, FS_Subset
  <2>5. Cardinality(Img) \in Nat
    BY <1>7, FS_CardinalityType
  <2> QED BY <1>7, <2>1, <2>2, <2>4, <2>5
<1>10. Inode \ InUse \in SUBSET Nat
  <2>1. 3 * m \in Nat
    OBVIOUS
  <2> QED BY <1>1, <2>1 DEF Inode
<1>11. Min(Inode \ InUse) \in Inode \ InUse
  BY <1>9, <1>10, MinIsLeast
<1> QED BY <1>11 DEF NewInode

\* The session after a chunk.
LEMMA MarkedParts ==
  ASSUME NEW s \in Session, NEW c \in TransferChunk, NEW w \in BOOLEAN,
         c.chunk_index \in 0..(MaxChunks - 1)
  PROVE  /\ Marked(s, c, w) \in Session
         /\ Marked(s, c, w).inode = s.inode /\ Marked(s, c, w).temp_file = s.temp_file
         /\ Marked(s, c, w).file_size = s.file_size
         /\ Marked(s, c, w).total_chunks = s.total_chunks
         /\ Marked(s, c, w).received = IF w /\ s.temp_file = "open"
                                       THEN s.received \cup {c.chunk_index} ELSE s.received
         /\ Marked(s, c, w).expected = IF w /\ s.temp_file = "open" /\ c.is_last_chunk
                                       THEN c.file_checksum ELSE s.expected
<1>1. CASE ~(w /\ s.temp_file = "open")
  <2>1. Marked(s, c, w) = s
    BY <1>1 DEF Marked
  <2> QED BY <1>1, <2>1
<1>2. CASE w /\ s.temp_file = "open"
  <2>1. PICK r, e : /\ r = s.received \cup {c.chunk_index}
                    /\ e = IF c.is_last_chunk THEN c.file_checksum ELSE s.expected
    OBVIOUS
  <2>2. r \in SUBSET (0..(MaxChunks - 1)) /\ e \in Origin \cup {Hole}
    BY <2>1 DEF Session, TransferChunk
  <2>3. PICK z : z = [s EXCEPT !.received = r, !.expected = e]
    OBVIOUS
  <2>4. Marked(s, c, w) = z
    BY <1>2, <2>1, <2>3 DEF Marked
  <2>5. /\ z \in Session
        /\ z.inode = s.inode /\ z.temp_file = s.temp_file /\ z.file_size = s.file_size
        /\ z.total_chunks = s.total_chunks /\ z.received = r /\ z.expected = e
    BY <2>2, <2>3 DEF Session
  <2> QED BY <1>2, <2>1, <2>4, <2>5
<1> QED BY <1>1, <1>2

\* The session that a chunk finds or opens, and its inode, which no other transfer
\* has a part in and which is not the finished file.
LEMMA SessionForParts ==
  ASSUME SenderTypes, StoreInv, NEW c, Sent(c), Accepts(c)
  PROVE  /\ c.transfer_id \in TransferId /\ SessionFor(c) \in Session
         /\ SessionFor(c).temp_file # "null"
         /\ SessionFor(c).file_size = c.file_size
         /\ SessionFor(c).total_chunks = c.total_chunks
         /\ streams[c.transfer_id] = None =>
               /\ SessionFor(c).received = {} /\ SessionFor(c).expected = Hole
               /\ SessionFor(c).temp_file = "open"
         /\ \A jd \in TransferId : jd # c.transfer_id => ~Owns(jd, SessionFor(c).inode)
         /\ OutputApart => SessionFor(c).inode # names[<<"out", c.transfer_id>>]
<1>0. ReceiverTypes /\ SessionsSound /\ InodesApart
  BY DEF StoreInv
<1>1. PICK id \in TransferId : id = c.transfer_id
  BY SentParts DEF TransferChunk
<1>2. /\ c \in TransferChunk /\ c.file_size \in FileSize /\ c.total_chunks \in Nat
      /\ c.file_size \in Nat
  BY SentParts, FileAssumption DEF TransferChunk
<1>3. PICK s : s = SessionFor(c)
  OBVIOUS
<1>4. CASE streams[id] # None
  <2>1. s = streams[id] /\ s \in Session
    BY <1>0, <1>1, <1>3, <1>4 DEF SessionFor, ReceiverTypes
  <2>2. s.file_size = c.file_size /\ s.total_chunks = c.total_chunks /\ s.temp_file # "null"
    BY <1>1, <1>4, <2>1 DEF Accepts
  <2>3. s.inode \in Inode
    BY <2>1 DEF Session
  <2>4. Owns(id, s.inode)
    BY <1>4, <2>1 DEF Owns
  <2>5. \A jd \in TransferId : jd # id => ~Owns(jd, s.inode)
    BY <1>0, <2>3, <2>4 DEF InodesApart
  <2>6. OutputApart => s.inode # names[<<"out", id>>]
    <3>1. s.inode # 0
      BY <2>3 DEF Inode
    <3> QED BY <1>4, <2>1, <2>2, <3>1 DEF OutputApart
  <2> QED BY <1>1, <1>3, <1>4, <2>1, <2>2, <2>5, <2>6
<1>5. CASE streams[id] = None
  <2>1. PICK n : n = TempInode(id)
    OBVIOUS
  <2>2. /\ n \in Inode
        /\ n = names[<<"temp", id>>] \/ n \notin InUse
        /\ n \notin InUse => names[<<"temp", id>>] = 0
    <3>1. CASE names[<<"temp", id>>] = 0
      BY <1>0, <1>5, <2>1, <3>1, NewInodeFree DEF TempInode
    <3>2. CASE names[<<"temp", id>>] # 0
      <4>1. n = names[<<"temp", id>>] /\ <<"temp", id>> \in {"temp", "out"} \X TransferId
        BY <2>1, <3>2 DEF TempInode
      <4>2. n \in Inode
        BY <1>0, <3>2, <4>1 DEF ReceiverTypes
      <4>3. n \in InUse
        BY <1>0, <4>1 DEF InUse, ReceiverTypes
      <4> QED BY <4>1, <4>2, <4>3
    <3> QED BY <3>1, <3>2
  <2>3. s = [file_size |-> c.file_size, total_chunks |-> c.total_chunks,
             expected |-> Hole, received |-> {}, inode |-> n, temp_file |-> "open"]
    BY <1>1, <1>3, <1>5, <2>1 DEF SessionFor
  <2>4. s \in Session
    BY <1>2, <2>2, <2>3 DEF Session
  <2>5. n \notin InUse => \A jd \in TransferId : ~Owns(jd, n)
    <3> SUFFICES ASSUME NEW jd \in TransferId, Owns(jd, n) PROVE n \in InUse
      OBVIOUS
    <3>1. <<"temp", jd>> \in DOMAIN names /\ <<"out", jd>> \in DOMAIN names
      BY <1>0 DEF ReceiverTypes
    <3> QED BY <3>1 DEF Owns, InUse
  <2>6. n = names[<<"temp", id>>] => Owns(id, n)
    BY DEF Owns
  <2>7. \A jd \in TransferId : jd # id => ~Owns(jd, n)
    BY <1>0, <2>2, <2>5, <2>6 DEF InodesApart
  <2>8. n # 0
    BY <2>2 DEF Inode
  <2>9. OutputApart => n # names[<<"out", id>>]
    <3>1. CASE n = names[<<"temp", id>>]
      BY <2>8, <3>1 DEF OutputApart
    <3>2. CASE n \notin InUse
      <4>1. ~Owns(id, n)
        BY <2>5, <3>2
      <4> QED BY <4>1 DEF Owns
    <3> QED BY <2>2, <3>1, <3>2
  <2>10. /\ s.inode = n /\ s.temp_file = "open" /\ s.received = {} /\ s.expected = Hole
         /\ s.file_size = c.file_size /\ s.total_chunks = c.total_chunks
    BY <2>3
  <2> QED BY <1>1, <1>3, <2>4, <2>7, <2>9, <2>10
<1> QED BY <1>4, <1>5

\* What StreamChunkToFile does to sessions, names and contents: it touches one
\* transfer, one inode and the temporary name, and what it marks is written.
Streamed(c, w, id, s, n) ==
    /\ id \in TransferId /\ s \in Session /\ n \in Inode
    /\ streams' \in [TransferId -> Session \cup {None}]
    /\ names' \in [{"temp", "out"} \X TransferId -> Inode \cup {0}]
    /\ data' \in [Inode -> [0..(MaxChunks - 1) -> Origin \cup {Hole}]]
    /\ streams'[id] = Marked(s, c, w) /\ streams'[id] \in Session
    /\ \A jd \in TransferId : jd # id => streams'[jd] = streams[jd]
    /\ \A jd \in TransferId : names'[<<"out", jd>>] = names[<<"out", jd>>]
    /\ \A jd \in TransferId : jd # id => names'[<<"temp", jd>>] = names[<<"temp", jd>>]
    /\ names'[<<"temp", id>>] \in {names[<<"temp", id>>], n}
    /\ \A m \in Inode : m # n => data'[m] = data[m]
    /\ \A i \in streams'[id].received : data'[n][i] # Hole

LEMMA StreamParts ==
  ASSUME SenderTypes, StoreInv, NEW c, Sent(c), Accepts(c), NEW w \in BOOLEAN,
         StreamChunkToFile(c, w),
         NEW id, id = c.transfer_id, NEW s, s = SessionFor(c), NEW n, n = s.inode
  PROVE  Streamed(c, w, id, s, n)
<1>0. ReceiverTypes /\ ReceivedIsWritten
  BY DEF StoreInv
<1>1. id \in TransferId /\ s \in Session
  BY SessionForParts
<1>2. n \in Inode /\ n = s.inode
  BY <1>1 DEF Session
<1>3. c \in TransferChunk /\ c.chunk_index \in 0..(MaxChunks - 1)
  <2>1. c \in TransferChunk /\ c.chunk_index \in 0..(c.total_chunks - 1)
        /\ c.file_size \in FileSize /\ c.total_chunks = Chunks(c.file_size)
    BY SentParts DEF TransferChunk
  <2>2. Chunks(c.file_size) <= MaxChunks /\ Chunks(c.file_size) \in Nat /\ MaxChunks \in Nat
    BY <2>1, ChunksBounded
  <2> QED BY <2>1, <2>2
<1>4. PICK k \in 0..(MaxChunks - 1) : k = c.chunk_index
  BY <1>3
<1>5. PICK x \in Origin : x = <<c.from, c.transfer_id>>
  BY SentParts DEF IsFile
<1>6. x # Hole
  <2>1. c.from \in Sender
    BY <1>3 DEF TransferChunk
  <2> QED BY <1>5, <2>1, SenderAssumption DEF Hole
<1>7. PICK old : old = IF streams[id] = None THEN Empty ELSE data[n]
  OBVIOUS
<1>8. old \in [0..(MaxChunks - 1) -> Origin \cup {Hole}]
  BY <1>0, <1>2, <1>7 DEF ReceiverTypes, Empty
<1>9. PICK new : new = IF w /\ s.temp_file = "open" THEN [old EXCEPT ![k] = x] ELSE old
  OBVIOUS
<1>10. new \in [0..(MaxChunks - 1) -> Origin \cup {Hole}]
  BY <1>8, <1>9
<1>11. /\ data' = [data EXCEPT ![n] = new]
       /\ names' = [names EXCEPT ![<<"temp", id>>] = IF streams[id] = None
                                                      THEN n ELSE names[<<"temp", id>>]]
       /\ streams' = [streams EXCEPT ![id] = Marked(s, c, w)]
  BY <1>0, <1>2, <1>4, <1>5, <1>7, <1>9 DEF StreamChunkToFile, WriteAt, ReceiverTypes
<1>12. Marked(s, c, w) \in Session /\ Marked(s, c, w).received =
          IF w /\ s.temp_file = "open" THEN s.received \cup {k} ELSE s.received
  BY <1>1, <1>3, <1>4, MarkedParts
<1>13. streams' \in [TransferId -> Session \cup {None}] /\ streams'[id] = Marked(s, c, w)
       /\ \A jd \in TransferId : jd # id => streams'[jd] = streams[jd]
  BY <1>0, <1>1, <1>11, <1>12 DEF ReceiverTypes
<1>14. data' \in [Inode -> [0..(MaxChunks - 1) -> Origin \cup {Hole}]] /\ data'[n] = new
       /\ \A m \in Inode : m # n => data'[m] = data[m]
  BY <1>0, <1>2, <1>10, <1>11 DEF ReceiverTypes
<1>15. /\ names' \in [{"temp", "out"} \X TransferId -> Inode \cup {0}]
       /\ \A jd \in TransferId : names'[<<"out", jd>>] = names[<<"out", jd>>]
       /\ \A jd \in TransferId : jd # id => names'[<<"temp", jd>>] = names[<<"temp", jd>>]
       /\ names'[<<"temp", id>>] \in {names[<<"temp", id>>], n}
  <2>1. PICK v : v = IF streams[id] = None THEN n ELSE names[<<"temp", id>>]
    OBVIOUS
  <2>2. <<"temp", id>> \in {"temp", "out"} \X TransferId
        /\ names \in [{"temp", "out"} \X TransferId -> Inode \cup {0}]
    BY <1>0, <1>1 DEF ReceiverTypes
  <2>3. v \in Inode \cup {0} /\ v \in {names[<<"temp", id>>], n}
    BY <1>2, <2>1, <2>2
  <2>4. names' = [names EXCEPT ![<<"temp", id>>] = v]
    BY <1>11, <2>1
  <2>5. names' \in [{"temp", "out"} \X TransferId -> Inode \cup {0}] /\ names'[<<"temp", id>>] = v
    BY <2>2, <2>3, <2>4
  <2>6. \A y \in {"temp", "out"} \X TransferId : y # <<"temp", id>> => names'[y] = names[y]
    BY <2>2, <2>4
  <2>7. \A jd \in TransferId : names'[<<"out", jd>>] = names[<<"out", jd>>]
    BY <2>6
  <2>8. \A jd \in TransferId : jd # id => names'[<<"temp", jd>>] = names[<<"temp", jd>>]
    BY <2>6
  <2> QED BY <2>3, <2>5, <2>7, <2>8
<1>16. ASSUME NEW i \in Marked(s, c, w).received
       PROVE  new[i] # Hole
  <2>1. i \in 0..(MaxChunks - 1)
    BY <1>12 DEF Session
  <2>2. i \in s.received => old[i] # Hole
    <3>1. CASE streams[id] = None
      BY <3>1, SessionForParts
    <3>2. CASE streams[id] # None
      <4>1. s = streams[id]
        BY <3>2 DEF SessionFor
      <4>2. old = data[streams[id].inode]
        BY <1>2, <1>7, <3>2, <4>1
      <4> QED BY <1>0, <1>1, <3>2, <4>1, <4>2 DEF ReceivedIsWritten
    <3> QED BY <3>1, <3>2
  <2>3. CASE w /\ s.temp_file = "open"
    BY <1>6, <1>8, <1>9, <1>12, <2>1, <2>2, <2>3
  <2>4. CASE ~(w /\ s.temp_file = "open")
    BY <1>9, <1>12, <2>2, <2>4
  <2> QED BY <2>3, <2>4
<1> QED BY <1>1, <1>2, <1>12, <1>13, <1>14, <1>15, <1>16 DEF Streamed

\* A file that is whole stays so while its contents do.
LEMMA WholeStays ==
  ASSUME FilesGrow, NEW o, IsFile(o)
  PROVE  /\ IsFile(o)' /\ files'[o[1]][o[2]] = files[o[1]][o[2]]
         /\ \A n : data'[n] = data[n] => Whole(n, o)' = Whole(n, o)
<1>1. o[1] \in Sender /\ o[2] \in DOMAIN files[o[1]]
  BY DEF IsFile, Origin
<1>2. o[2] \in DOMAIN files'[o[1]] /\ files'[o[1]][o[2]] = files[o[1]][o[2]]
  BY <1>1 DEF FilesGrow
<1> QED BY <1>2 DEF IsFile, Whole

LEMMA SoundStays ==
  ASSUME FilesGrow, NEW s, SoundSession(s)
  PROVE  SoundSession(s)'
<1>1. PICK e : e = s.expected
  OBVIOUS
<1>2. e # Hole => IsFile(e) /\ files[e[1]][e[2]] = s.file_size
  BY <1>1 DEF SoundSession
<1>3. e # Hole => IsFile(e)' /\ files'[e[1]][e[2]] = s.file_size
  BY <1>2, WholeStays
<1>4. Chunks(s.file_size)' = Chunks(s.file_size)
  BY DEF Chunks, CalculateTotalChunks
<1> QED BY <1>1, <1>3 DEF SoundSession

\* A chunk is streamed: sessions, inodes and marks stay in order.
LEMMA StreamStore ==
  ASSUME SenderTypes, StoreInv, FilesGrow, NEW c, Sent(c), Accepts(c), NEW w \in BOOLEAN,
         StreamChunkToFile(c, w), UNCHANGED <<tpc, job, aborted>>
  PROVE  StoreInv'
<1>0. ReceiverTypes /\ SessionsSound /\ InodesApart /\ ReceivedIsWritten
  BY DEF StoreInv
<1>1. PICK id, s, n : id = c.transfer_id /\ s = SessionFor(c) /\ n = s.inode
  OBVIOUS
<1>2. /\ id \in TransferId /\ s \in Session /\ n \in Inode
      /\ streams' \in [TransferId -> Session \cup {None}]
      /\ names' \in [{"temp", "out"} \X TransferId -> Inode \cup {0}]
      /\ data' \in [Inode -> [0..(MaxChunks - 1) -> Origin \cup {Hole}]]
      /\ streams'[id] = Marked(s, c, w) /\ streams'[id] \in Session
      /\ \A jd \in TransferId : jd # id => streams'[jd] = streams[jd]
      /\ \A jd \in TransferId : names'[<<"out", jd>>] = names[<<"out", jd>>]
      /\ \A jd \in TransferId : jd # id => names'[<<"temp", jd>>] = names[<<"temp", jd>>]
      /\ names'[<<"temp", id>>] \in {names[<<"temp", id>>], n}
      /\ \A m \in Inode : m # n => data'[m] = data[m]
      /\ \A i \in streams'[id].received : data'[n][i] # Hole
  <2>1. Streamed(c, w, id, s, n)
    BY <1>1, StreamParts, Zenon
  <2> QED BY <2>1 DEF Streamed
<1>3. \A jd \in TransferId : jd # id => ~Owns(jd, n)
  BY <1>1, SessionForParts
<1>4. c \in TransferChunk /\ c.chunk_index \in 0..(MaxChunks - 1)
  <2>1. c \in TransferChunk /\ c.chunk_index \in 0..(c.total_chunks - 1)
        /\ c.file_size \in FileSize /\ c.total_chunks = Chunks(c.file_size)
    BY SentParts DEF TransferChunk
  <2>2. Chunks(c.file_size) <= MaxChunks /\ Chunks(c.file_size) \in Nat /\ MaxChunks \in Nat
    BY <2>1, ChunksBounded
  <2> QED BY <2>1, <2>2
<1>5. PICK z : z = streams'[id]
  OBVIOUS
<1>6. /\ z.inode = n /\ z.temp_file = s.temp_file /\ z.file_size = s.file_size
      /\ z.total_chunks = s.total_chunks
      /\ z.received = IF w /\ s.temp_file = "open" THEN s.received \cup {c.chunk_index}
                                                   ELSE s.received
      /\ z.expected = IF w /\ s.temp_file = "open" /\ c.is_last_chunk
                      THEN c.file_checksum ELSE s.expected
  <2>1. z = Marked(s, c, w)
    BY <1>2, <1>5
  <2>2. s \in Session
    BY <1>2
  <2> QED BY <1>1, <1>4, <2>1, <2>2, MarkedParts, Zenon
<1>7. ReceiverTypes'
  BY <1>0, <1>2 DEF ReceiverTypes
<1>8. SessionsSound'
  <2>1. SoundSession(z)
    <3>1. /\ c.file_size \in FileSize /\ c.total_chunks = Chunks(c.file_size)
          /\ c.chunk_index \in 0..(c.total_chunks - 1)
          /\ IsFile(<<c.from, c.transfer_id>>)
          /\ files[c.from][c.transfer_id] = c.file_size
          /\ c.file_checksum = IF c.is_last_chunk THEN <<c.from, c.transfer_id>> ELSE Hole
      BY SentParts DEF TransferChunk
    <3>2. s.file_size = c.file_size /\ s.total_chunks = c.total_chunks
      BY <1>1, SessionForParts
    <3>3. /\ s.received \subseteq 0..(s.total_chunks - 1)
          /\ s.expected # Hole =>
                IsFile(s.expected) /\ files[s.expected[1]][s.expected[2]] = s.file_size
      <4>1. CASE streams[id] = None
        BY <1>1, <4>1, SessionForParts
      <4>2. CASE streams[id] # None
        <5>1. s = streams[id]
          BY <1>1, <4>2 DEF SessionFor
        <5> QED BY <1>0, <1>2, <4>2, <5>1 DEF SessionsSound, SoundSession
      <4> QED BY <4>1, <4>2
    <3>4. z.expected # Hole =>
             IsFile(z.expected) /\ files[z.expected[1]][z.expected[2]] = z.file_size
      BY <1>6, <3>1, <3>2, <3>3
    <3>5. z.received \subseteq 0..(z.total_chunks - 1)
      BY <1>6, <3>1, <3>2, <3>3
    <3>6. z.file_size \in FileSize /\ z.total_chunks = Chunks(z.file_size)
      BY <1>6, <3>1, <3>2
    <3> QED BY <3>4, <3>5, <3>6 DEF SoundSession
  <2>2. ASSUME NEW jd \in TransferId, NEW y, y = streams'[jd], y # None
        PROVE  SoundSession(y)'
    <3>1. SoundSession(y)
      BY <1>0, <1>2, <1>5, <2>1, <2>2 DEF SessionsSound
    <3> QED BY <3>1, SoundStays
  <2> QED BY <2>2 DEF SessionsSound
<1>9. InodesApart'
  <2> SUFFICES ASSUME NEW jd \in TransferId, NEW kd \in TransferId, NEW m \in Inode,
                      Owns(jd, m)', Owns(kd, m)'
               PROVE  jd = kd
    BY DEF InodesApart
  <2>1. ASSUME NEW ld \in TransferId, Owns(ld, m)'
        PROVE  Owns(ld, m) \/ (ld = id /\ m = n)
    <3>1. CASE ld # id
      BY <1>2, <2>1, <3>1 DEF Owns
    <3>2. CASE ld = id
      <4>1. streams'[id].inode = n
        BY <1>5, <1>6
      <4> QED BY <1>2, <2>1, <3>2, <4>1 DEF Owns
    <3> QED BY <3>1, <3>2
  <2>2. /\ Owns(jd, m) \/ (jd = id /\ m = n)
        /\ Owns(kd, m) \/ (kd = id /\ m = n)
    BY <2>1
  <2>3. Owns(jd, m) /\ Owns(kd, m) => jd = kd
    BY <1>0 DEF InodesApart
  <2> QED BY <1>3, <2>2, <2>3
<1>10. ReceivedIsWritten'
  <2> SUFFICES ASSUME NEW jd \in TransferId, streams'[jd] # None,
                      NEW i \in streams'[jd].received
               PROVE  data'[streams'[jd].inode][i] # Hole
    BY DEF ReceivedIsWritten
  <2>1. CASE jd = id
    BY <1>2, <1>5, <1>6, <2>1
  <2>2. CASE jd # id
    <3>1. PICK y : y = streams[jd] /\ y = streams'[jd]
      BY <1>2, <2>2
    <3>2. y \in Session /\ y.inode \in Inode
      BY <1>0, <3>1 DEF ReceiverTypes, Session
    <3>3. Owns(jd, y.inode)
      BY <3>1 DEF Owns
    <3>4. y.inode # n
      BY <1>3, <2>2, <3>3
    <3>5. data'[y.inode] = data[y.inode]
      BY <1>2, <3>2, <3>4
    <3>6. data[y.inode][i] # Hole
      BY <1>0, <3>1 DEF ReceivedIsWritten
    <3> QED BY <3>1, <3>5, <3>6
  <2> QED BY <2>1, <2>2
<1> QED BY <1>7, <1>8, <1>9, <1>10 DEF StoreInv

\* A finalising thread of whose transfer nothing changes but the name.
LEMMA GuardStays ==
  ASSUME FilesGrow, NEW t, NEW id, NEW o, Guarded(t, id, o),
         NEW m, m = names[<<"temp", id>>],
         streams'[id] = streams[id], tpc'[t] = tpc[t], names'[<<"temp", id>>] \in {0, m},
         m # 0 => data'[m] = data[m]
  PROVE  Guarded(t, id, o)'
<1>1. IsFile(o) /\ (tpc[t] \in {"clear", "rename"} /\ m # 0 => Whole(m, o))
  BY DEF Guarded
<1>2. IsFile(o)' /\ (m # 0 => Whole(m, o)' = Whole(m, o))
  BY <1>1, WholeStays
<1>3. tpc'[t] \in {"clear", "rename"} /\ names'[<<"temp", id>>] # 0 =>
         names'[<<"temp", id>>] = m /\ Whole(m, o)'
  BY <1>1, <1>2
<1> QED BY <1>2, <1>3 DEF Guarded, Whole

\* A finished file whose contents stay is still the file of a sender.
LEMMA OutputStays ==
  ASSUME FilesGrow, OutputWhole, NEW id \in TransferId, NEW m, m = names[<<"out", id>>],
         m # 0, data'[m] = data[m]
  PROVE  \E o \in Origin : IsFile(o)' /\ Whole(m, o)'
<1>1. PICK o \in Origin : IsFile(o) /\ Whole(m, o)
  BY DEF OutputWhole, IsFile
<1> QED BY <1>1, WholeStays

\* A chunk is streamed: finished files and files being finished are not touched.
LEMMA StreamOutput ==
  ASSUME SenderTypes, StoreInv, OutputInv, FilesGrow, NEW c, Sent(c), Accepts(c),
         NEW w \in BOOLEAN, StreamChunkToFile(c, w), UNCHANGED <<tpc, job, aborted>>
  PROVE  OutputInv'
<1>0. ReceiverTypes /\ InodesApart /\ OutputApart /\ FinalizerAlone /\ OutputWhole
  BY DEF StoreInv, OutputInv
<1>1. PICK id, s, n : id = c.transfer_id /\ s = SessionFor(c) /\ n = s.inode
  OBVIOUS
<1>2. Streamed(c, w, id, s, n)
  BY <1>1, StreamParts, Zenon
<1>3. /\ id \in TransferId /\ n \in Inode
      /\ \A jd \in TransferId : jd # id => streams'[jd] = streams[jd]
      /\ \A jd \in TransferId : names'[<<"out", jd>>] = names[<<"out", jd>>]
      /\ \A jd \in TransferId : jd # id => names'[<<"temp", jd>>] = names[<<"temp", jd>>]
      /\ names'[<<"temp", id>>] \in {names[<<"temp", id>>], n}
      /\ \A m \in Inode : m # n => data'[m] = data[m]
  BY <1>2 DEF Streamed
<1>4. streams'[id].inode = n
  <2>1. streams'[id] = Marked(s, c, w)
    BY <1>2 DEF Streamed
  <2>2. Marked(s, c, w).inode = s.inode
    BY DEF Marked
  <2> QED BY <1>1, <2>1, <2>2
<1>5. /\ \A jd \in TransferId : jd # id => ~Owns(jd, n)
      /\ n # names[<<"out", id>>] /\ s.temp_file # "null"
  BY <1>0, <1>1, SessionForParts
<1>6. streams[id] # None => streams[id].temp_file # "null"
  BY <1>1, <1>5 DEF SessionFor
<1>7. OutputApart'
  <2> SUFFICES ASSUME NEW jd \in TransferId, names'[<<"out", jd>>] # 0
               PROVE  /\ names'[<<"temp", jd>>] # names'[<<"out", jd>>]
                      /\ streams'[jd] # None /\ streams'[jd].temp_file # "null" =>
                            streams'[jd].inode # names'[<<"out", jd>>]
    BY DEF OutputApart
  <2>1. CASE jd # id
    BY <1>0, <1>3, <2>1 DEF OutputApart
  <2>2. CASE jd = id
    <3>1. names[<<"temp", id>>] # names[<<"out", id>>]
      BY <1>0, <1>3, <2>2 DEF OutputApart
    <3> QED BY <1>3, <1>4, <1>5, <2>2, <3>1
  <2> QED BY <2>1, <2>2
<1>8. FinalizerAlone'
  <2>1. ASSUME NEW t \in Thread, InFinalize(t)', NEW jd, NEW o,
               jd = job'[t].id, o = job'[t].expected
        PROVE  Guarded(t, jd, o)'
    <3>1. /\ InFinalize(t) /\ jd \in TransferId /\ jd = job[t].id /\ o = job[t].expected
      BY <1>0, <2>1 DEF InFinalize, ReceiverTypes
    <3>2. Guarded(t, jd, o)
      BY <1>0, <3>1 DEF FinalizerAlone
    <3>3. jd # id
      BY <1>6, <3>2 DEF Guarded
    <3>4. PICK m : m = names[<<"temp", jd>>]
      OBVIOUS
    <3>5. m # 0 => data'[m] = data[m]
      <4>1. m \in Inode \cup {0}
        BY <1>0, <3>1, <3>4 DEF ReceiverTypes
      <4>2. Owns(jd, m)
        BY <3>4 DEF Owns
      <4> QED BY <1>3, <1>5, <3>1, <3>3, <4>1, <4>2
    <3>6. streams'[jd] = streams[jd] /\ names'[<<"temp", jd>>] = m
      BY <1>3, <3>1, <3>3, <3>4
    <3> QED BY <3>2, <3>4, <3>5, <3>6, GuardStays
  <2>2. \A t, u \in Thread :
           InFinalize(t)' /\ InFinalize(u)' /\ job'[t].id = job'[u].id => t = u
    BY <1>0 DEF FinalizerAlone, InFinalize
  <2> QED BY <2>1, <2>2 DEF FinalizerAlone
<1>9. OutputWhole'
  <2>1. ASSUME NEW jd \in TransferId, NEW m, m = names'[<<"out", jd>>], m # 0
        PROVE  \E o \in Origin : IsFile(o)' /\ Whole(m, o)'
    <3>1. m = names[<<"out", jd>>]
      BY <1>3, <2>1
    <3>2. m \in Inode
      BY <1>0, <2>1, <3>1 DEF ReceiverTypes
    <3>3. m # n
      <4>1. Owns(jd, m)
        BY <3>1 DEF Owns
      <4> QED BY <1>5, <2>1, <3>1, <4>1
    <3> QED BY <1>0, <1>3, <2>1, <3>1, <3>2, <3>3, OutputStays
  <2> QED BY <2>1 DEF OutputWhole, IsFile, Whole
<1> QED BY <1>7, <1>8, <1>9 DEF OutputInv

-----------------------------------------------------------------------------
(* Finishing and giving up a file. *)

\* The sessions are the old ones or fewer, and no inode gets a new owner.
LEMMA StoreStays ==
  ASSUME StoreInv, FilesGrow, UNCHANGED data, ReceiverTypes',
         \A id \in TransferId : streams'[id] # None =>
            /\ streams[id] # None /\ streams'[id].inode = streams[id].inode
            /\ streams'[id].file_size = streams[id].file_size
            /\ streams'[id].total_chunks = streams[id].total_chunks
            /\ streams'[id].received = streams[id].received
            /\ streams'[id].expected = streams[id].expected,
         \A id \in TransferId : \A n \in Inode :
            names'[<<"temp", id>>] = n \/ names'[<<"out", id>>] = n => Owns(id, n)
  PROVE  StoreInv'
<1>1. SessionsSound'
  <2>1. ASSUME NEW id \in TransferId, NEW y, y = streams'[id], y # None
        PROVE  SoundSession(y)'
    <3>1. SoundSession(streams[id])
      BY <2>1 DEF StoreInv, SessionsSound
    <3>2. SoundSession(y)
      BY <2>1, <3>1 DEF SoundSession
    <3> QED BY <3>2, SoundStays
  <2> QED BY <2>1 DEF SessionsSound
<1>2. InodesApart'
  <2>1. \A id \in TransferId : \A n \in Inode : Owns(id, n)' => Owns(id, n)
    BY DEF Owns
  <2> QED BY <2>1 DEF StoreInv, InodesApart
<1>3. ReceivedIsWritten'
  BY DEF StoreInv, ReceivedIsWritten
<1> QED BY <1>1, <1>2, <1>3 DEF StoreInv

\* No file gets its final name, no session comes back to life.
LEMMA OutputKept ==
  ASSUME OutputInv, FilesGrow, UNCHANGED data, ReceiverTypes,
         \A id \in TransferId : streams'[id] # None =>
            /\ streams[id] # None /\ streams'[id].inode = streams[id].inode
            /\ streams'[id].temp_file # "null" => streams[id].temp_file # "null",
         \A id \in TransferId :
            /\ names'[<<"temp", id>>] \in {0, names[<<"temp", id>>]}
            /\ names'[<<"out", id>>] \in {0, names[<<"out", id>>]}
  PROVE  OutputApart' /\ OutputWhole'
<1>1. OutputApart'
  <2> SUFFICES ASSUME NEW id \in TransferId, names'[<<"out", id>>] # 0
               PROVE  /\ names'[<<"temp", id>>] # names'[<<"out", id>>]
                      /\ streams'[id] # None /\ streams'[id].temp_file # "null" =>
                            streams'[id].inode # names'[<<"out", id>>]
    BY DEF OutputApart
  <2>1. names'[<<"out", id>>] = names[<<"out", id>>]
        /\ names'[<<"temp", id>>] \in {0, names[<<"temp", id>>]}
    OBVIOUS
  <2> QED BY <2>1 DEF OutputInv, OutputApart
<1>2. OutputWhole'
  <2>1. ASSUME NEW id \in TransferId, NEW m, m = names'[<<"out", id>>], m # 0
        PROVE  \E o \in Origin : IsFile(o)' /\ Whole(m, o)'
    <3>1. m = names[<<"out", id>>]
      BY <2>1
    <3> QED BY <2>1, <3>1, OutputStays DEF OutputInv
  <2>2. \A id \in TransferId : names'[<<"out", id>>] # 0 =>
           \E o \in Origin : IsFile(o)' /\ \A i \in
              0..(CalculateTotalChunks(files'[o[1]][o[2]]) - 1) :
                 data'[names'[<<"out", id>>]][i] = o
    BY ONLY <2>1 DEF Whole, CalculateTotalChunks
  <2> QED BY ONLY <2>2 DEF OutputWhole, IsFile, Whole, CalculateTotalChunks
<1> QED BY <1>1, <1>2

\* Another finalising thread, of whose transfer nothing changes.
LEMMA OthersGuarded ==
  ASSUME FinalizerAlone, FilesGrow, UNCHANGED data, NEW u \in Thread, InFinalize(u),
         tpc'[u] = tpc[u], NEW id, id = job[u].id, NEW o, o = job[u].expected,
         streams'[id] = streams[id], names'[<<"temp", id>>] \in {0, names[<<"temp", id>>]}
  PROVE  Guarded(u, id, o)'
<1>1. Guarded(u, id, o)
  BY DEF FinalizerAlone
<1>2. PICK m : m = names[<<"temp", id>>]
  OBVIOUS
<1> QED BY <1>1, <1>2, GuardStays

\* A thread goes on to another part of a call.
LEMMA EnterParts ==
  ASSUME ReceiverTypes, NEW t \in Thread,
         NEW pc \in {"idle", "verify", "clear", "rename", "erase", "unlink"},
         NEW id \in TransferId, NEW o \in Origin \cup {Hole}, Enter(t, pc, id, o)
  PROVE  /\ tpc' \in [Thread -> {"idle", "verify", "clear", "rename", "erase", "unlink"}]
         /\ job' \in [Thread -> [id : TransferId, expected : Origin \cup {Hole}]]
         /\ tpc'[t] = pc /\ job'[t].id = id /\ job'[t].expected = o
         /\ \A u \in Thread : u # t => tpc'[u] = tpc[u] /\ job'[u] = job[u]
<1>1. PICK j : j = [id |-> id, expected |-> o]
  OBVIOUS
<1>2. j \in [id : TransferId, expected : Origin \cup {Hole}] /\ j.id = id /\ j.expected = o
  BY <1>1
<1>3. tpc' = [tpc EXCEPT ![t] = pc] /\ job' = [job EXCEPT ![t] = j]
  BY <1>1 DEF Enter
<1> QED BY <1>2, <1>3 DEF ReceiverTypes

LEMMA LeaveParts ==
  ASSUME ReceiverTypes, NEW t \in Thread, Leave(t)
  PROVE  /\ tpc' \in [Thread -> {"idle", "verify", "clear", "rename", "erase", "unlink"}]
         /\ job' \in [Thread -> [id : TransferId, expected : Origin \cup {Hole}]]
         /\ tpc'[t] = "idle"
         /\ \A u \in Thread : u # t => tpc'[u] = tpc[u] /\ job'[u] = job[u]
<1>1. 1 \in TransferId
  BY FileAssumption DEF TransferId
<1>2. Enter(t, "idle", 1, Hole)
  BY DEF Leave
<1>3. Hole \in Origin \cup {Hole} /\ "idle" \in {"idle", "verify", "clear", "rename", "erase", "unlink"}
  OBVIOUS
<1>4. PICK h, one, pc : h = Hole /\ one = 1 /\ pc = "idle"
  OBVIOUS
<1>5. Enter(t, pc, one, h)
  BY <1>2, <1>4
<1> QED BY <1>1, <1>3, <1>4, <1>5, EnterParts

\* The finalisers after a step of thread t that leaves the others alone: t is
\* idle or unlinking, or it is at its file and guards it.
LEMMA FinalizersStay ==
  ASSUME ReceiverTypes, FinalizerAlone, FilesGrow, UNCHANGED data, NEW t \in Thread,
         NEW id, NEW o,
         \A u \in Thread : u # t => tpc'[u] = tpc[u] /\ job'[u] = job[u],
         \A u \in Thread : u # t /\ InFinalize(u) =>
            /\ streams'[job[u].id] = streams[job[u].id]
            /\ names'[<<"temp", job[u].id>>] \in {0, names[<<"temp", job[u].id>>]}
            /\ InFinalize(t)' => job[u].id # id,
         InFinalize(t)' => job'[t].id = id /\ job'[t].expected = o /\ Guarded(t, id, o)'
  PROVE  FinalizerAlone'
<1>1. ASSUME NEW u \in Thread, InFinalize(u)', NEW jd, NEW q,
             jd = job'[u].id, q = job'[u].expected
      PROVE  Guarded(u, jd, q)'
  <2>1. CASE u = t
    <3>1. jd = id /\ q = o /\ Guarded(t, id, o)'
      BY <1>1, <2>1
    <3> QED BY <2>1, <3>1
  <2>2. CASE u # t
    <3>1. InFinalize(u) /\ jd = job[u].id /\ q = job[u].expected /\ tpc'[u] = tpc[u]
      BY <1>1, <2>2 DEF InFinalize
    <3>2. streams'[jd] = streams[jd] /\ names'[<<"temp", jd>>] \in {0, names[<<"temp", jd>>]}
      BY <2>2, <3>1
    <3> QED BY <3>1, <3>2, OthersGuarded
  <2> QED BY <2>1, <2>2
<1>2. \A u \in Thread : u # t /\ InFinalize(u)' => InFinalize(u) /\ job'[u] = job[u]
  BY DEF InFinalize
<1>3. ASSUME NEW u \in Thread, NEW v \in Thread, InFinalize(u)', InFinalize(v)',
             job'[u].id = job'[v].id
      PROVE  u = v
  <2>1. CASE u # t /\ v # t
    BY <1>2, <1>3, <2>1 DEF FinalizerAlone
  <2>2. CASE u = t /\ v # t
    BY <1>2, <1>3, <2>2
  <2>3. CASE u # t /\ v = t
    BY <1>2, <1>3, <2>3
  <2> QED BY <2>1, <2>2, <2>3
<1> QED BY <1>1, <1>3 DEF FinalizerAlone

LEMMA FinalizeLockedInv ==
  ASSUME StoreInv, FilesGrow, NEW t \in Thread, NEW id \in TransferId, FinalizeLocked(t, id)
  PROVE  StoreInv' /\ (OutputInv => OutputInv')
<1>0. ReceiverTypes /\ SessionsSound
  BY DEF StoreInv
<1>1. PICK s \in Session : s = streams[id] /\ AllReceived(s) /\ s.temp_file # "null"
  BY <1>0 DEF FinalizeLocked, ReceiverTypes
<1>2. PICK mode \in {"null", "closed"} :
         /\ streams' = [streams EXCEPT ![id].temp_file = mode]
         /\ \/ mode = "null" /\ Enter(t, "verify", id, s.expected)
            \/ mode = "closed" /\ UNCHANGED <<tpc, job>>
  BY <1>1 DEF FinalizeLocked
<1>3. tpc[t] = "idle" /\ UNCHANGED <<names, data, aborted>> /\ streams[id] # None
  BY DEF FinalizeLocked
<1>4. IsFile(s.expected) /\ s.expected \in Origin
  BY <1>0, <1>1, <1>3 DEF SessionsSound, SoundSession, AllReceived, IsFile
<1>5. PICK z : z = [s EXCEPT !.temp_file = mode]
  OBVIOUS
<1>6. /\ z \in Session /\ z.inode = s.inode /\ z.file_size = s.file_size
      /\ z.total_chunks = s.total_chunks /\ z.received = s.received
      /\ z.expected = s.expected /\ z.temp_file = mode
  BY <1>5 DEF Session
<1>7. streams' = [streams EXCEPT ![id] = z]
  BY <1>1, <1>2, <1>5
<1>8. /\ streams' \in [TransferId -> Session \cup {None}] /\ streams'[id] = z
      /\ \A jd \in TransferId : jd # id => streams'[jd] = streams[jd]
  BY <1>0, <1>6, <1>7 DEF ReceiverTypes
<1>9. /\ tpc' \in [Thread -> {"idle", "verify", "clear", "rename", "erase", "unlink"}]
      /\ job' \in [Thread -> [id : TransferId, expected : Origin \cup {Hole}]]
      /\ \A u \in Thread : u # t => tpc'[u] = tpc[u] /\ job'[u] = job[u]
      /\ InFinalize(t)' => /\ job'[t].id = id /\ job'[t].expected = s.expected
                           /\ mode = "null" /\ tpc'[t] = "verify"
  <2>1. CASE mode = "closed" /\ UNCHANGED <<tpc, job>>
    BY <1>0, <1>3, <2>1 DEF ReceiverTypes, InFinalize
  <2>2. CASE mode = "null" /\ Enter(t, "verify", id, s.expected)
    <3>1. PICK pc, o : pc = "verify" /\ o = s.expected
      OBVIOUS
    <3>2. Enter(t, pc, id, o)
      BY <2>2, <3>1
    <3> QED BY <1>0, <1>4, <2>2, <3>1, <3>2, EnterParts
  <2> QED BY <1>2, <2>1, <2>2
<1>10. ReceiverTypes'
  BY <1>0, <1>3, <1>8, <1>9 DEF ReceiverTypes
<1>11. StoreInv'
  <2>1. \A jd \in TransferId : \A n \in Inode :
           names'[<<"temp", jd>>] = n \/ names'[<<"out", jd>>] = n => Owns(jd, n)
    BY <1>3 DEF Owns
  <2> QED BY <1>1, <1>3, <1>6, <1>8, <1>10, <2>1, StoreStays
<1>12. ASSUME OutputInv PROVE OutputInv'
  <2>0. FinalizerAlone
    BY <1>12 DEF OutputInv
  <2>1. \A jd \in TransferId : streams'[jd] # None =>
            /\ streams[jd] # None /\ streams'[jd].inode = streams[jd].inode
            /\ streams'[jd].temp_file # "null" => streams[jd].temp_file # "null"
    BY <1>1, <1>3, <1>6, <1>8
  <2>2. OutputApart' /\ OutputWhole'
    BY <1>0, <1>3, <1>12, <2>1, OutputKept
  <2>3. \A u \in Thread : InFinalize(u) => job[u].id \in TransferId /\ job[u].id # id
    BY <1>0, <1>1, <2>0 DEF FinalizerAlone, Guarded, ReceiverTypes
  <2>4. PICK o : o = s.expected
    OBVIOUS
  <2>5. InFinalize(t)' => Guarded(t, id, o)'
    <3>1. IsFile(o)'
      BY <1>4, <2>4, WholeStays
    <3> QED BY <1>6, <1>8, <1>9, <3>1, NoneAssumption DEF Guarded
  <2>6. FinalizerAlone'
    <3>1. \A u \in Thread : u # t /\ InFinalize(u) =>
            /\ streams'[job[u].id] = streams[job[u].id]
            /\ names'[<<"temp", job[u].id>>] \in {0, names[<<"temp", job[u].id>>]}
            /\ InFinalize(t)' => job[u].id # id
      BY <1>3, <1>8, <2>3
    <3>2. InFinalize(t)' => job'[t].id = id /\ job'[t].expected = o
      BY <1>9, <2>4
    <3> QED BY <1>0, <1>3, <1>9, <2>0, <2>5, <3>1, <3>2, FinalizersStay
  <2> QED BY <2>2, <2>6 DEF OutputInv
<1> QED BY <1>11, <1>12

LEMMA FinalizeVerifyInv ==
  ASSUME StoreInv, FilesGrow, NEW t \in Thread, FinalizeVerify(t)
  PROVE  StoreInv' /\ (OutputInv => OutputInv')
<1>0. ReceiverTypes
  BY DEF StoreInv
<1>1. PICK id \in TransferId, o \in Origin \cup {Hole} : id = job[t].id /\ o = job[t].expected
  BY <1>0 DEF ReceiverTypes
<1>2. tpc[t] = "verify" /\ UNCHANGED <<streams, names, data, aborted>>
  BY DEF FinalizeVerify
<1>3. /\ tpc' \in [Thread -> {"idle", "verify", "clear", "rename", "erase", "unlink"}]
      /\ job' \in [Thread -> [id : TransferId, expected : Origin \cup {Hole}]]
      /\ \A u \in Thread : u # t => tpc'[u] = tpc[u] /\ job'[u] = job[u]
      /\ InFinalize(t)' => job'[t].id = id /\ job'[t].expected = o /\ Verified(id, o)
  <2>1. CASE Verified(id, o)
    <3>1. PICK pc : pc = "clear"
      OBVIOUS
    <3>2. Enter(t, pc, id, o)
      BY <1>1, <2>1, <3>1 DEF FinalizeVerify
    <3> QED BY <1>0, <2>1, <3>1, <3>2, EnterParts
  <2>2. CASE ~Verified(id, o)
    <3>1. Leave(t)
      BY <1>1, <2>2 DEF FinalizeVerify
    <3> QED BY <1>0, <3>1, LeaveParts DEF InFinalize
  <2> QED BY <2>1, <2>2
<1>4. ReceiverTypes'
  BY <1>0, <1>2, <1>3 DEF ReceiverTypes
<1>5. StoreInv'
  <2>1. \A jd \in TransferId : \A n \in Inode :
           names'[<<"temp", jd>>] = n \/ names'[<<"out", jd>>] = n => Owns(jd, n)
    BY <1>2 DEF Owns
  <2> QED BY <1>2, <1>4, <2>1, StoreStays
<1>6. ASSUME OutputInv PROVE OutputInv'
  <2>0. FinalizerAlone
    BY <1>6 DEF OutputInv
  <2>1. OutputApart' /\ OutputWhole'
    BY <1>0, <1>2, <1>6, OutputKept
  <2>2. InFinalize(t) /\ Guarded(t, id, o)
    BY <1>1, <1>2, <2>0 DEF FinalizerAlone, InFinalize
  <2>3. \A u \in Thread : u # t /\ InFinalize(u) => job[u].id # id
    BY <1>1, <2>0, <2>2 DEF FinalizerAlone
  <2>4. InFinalize(t)' => Guarded(t, id, o)'
    <3>1. IsFile(o)' /\ \A m : data'[m] = data[m] => Whole(m, o)' = Whole(m, o)
      BY <2>2, WholeStays DEF Guarded
    <3>2. PICK m : m = names[<<"temp", id>>]
      OBVIOUS
    <3>3. Verified(id, o) => Whole(m, o)'
      BY <1>2, <3>1, <3>2 DEF Verified, Whole
    <3>4. streams'[id] # None /\ streams'[id].temp_file = "null"
      BY <1>2, <2>2 DEF Guarded
    <3>5. m = names'[<<"temp", id>>]
      BY <1>2, <3>2
    <3> QED BY ONLY <1>3, <3>1, <3>3, <3>4, <3>5 DEF Guarded, Whole
  <2>5. FinalizerAlone'
    <3>1. \A u \in Thread : u # t /\ InFinalize(u) =>
            /\ streams'[job[u].id] = streams[job[u].id]
            /\ names'[<<"temp", job[u].id>>] \in {0, names[<<"temp", job[u].id>>]}
            /\ InFinalize(t)' => job[u].id # id
      BY <1>2, <2>3
    <3> QED BY <1>0, <1>2, <1>3, <2>0, <2>4, <3>1, FinalizersStay
  <2> QED BY <2>1, <2>5 DEF OutputInv
<1> QED BY <1>5, <1>6

LEMMA FinalizeRemoveInv ==
  ASSUME StoreInv, FilesGrow, NEW t \in Thread, FinalizeRemove(t)
  PROVE  StoreInv' /\ (OutputInv => OutputInv')
<1>0. ReceiverTypes
  BY DEF StoreInv
<1>1. PICK id \in TransferId, o \in Origin \cup {Hole} : id = job[t].id /\ o = job[t].expected
  BY <1>0 DEF ReceiverTypes
<1>2. tpc[t] = "clear" /\ UNCHANGED <<streams, data, aborted>>
  BY DEF FinalizeRemove
<1>3. /\ tpc' \in [Thread -> {"idle", "verify", "clear", "rename", "erase", "unlink"}]
      /\ job' \in [Thread -> [id : TransferId, expected : Origin \cup {Hole}]]
      /\ \A u \in Thread : u # t => tpc'[u] = tpc[u] /\ job'[u] = job[u]
      /\ job'[t].id = id /\ job'[t].expected = o
  <2>1. PICK pc : pc = "rename"
    OBVIOUS
  <2>2. Enter(t, pc, id, o)
    BY <1>1, <2>1 DEF FinalizeRemove
  <2> QED BY <1>0, <2>1, <2>2, EnterParts
<1>4. /\ names' \in [{"temp", "out"} \X TransferId -> Inode \cup {0}]
      /\ \A jd \in TransferId : names'[<<"temp", jd>>] = names[<<"temp", jd>>]
      /\ \A jd \in TransferId : names'[<<"out", jd>>] \in {0, names[<<"out", jd>>]}
  <2>1. names' = [names EXCEPT ![<<"out", id>>] = 0]
    BY <1>1 DEF FinalizeRemove
  <2>2. names \in [{"temp", "out"} \X TransferId -> Inode \cup {0}]
    BY <1>0 DEF ReceiverTypes
  <2> QED BY <2>1, <2>2
<1>5. ReceiverTypes'
  BY <1>0, <1>2, <1>3, <1>4 DEF ReceiverTypes
<1>6. StoreInv'
  <2>1. \A jd \in TransferId : \A n \in Inode :
           names'[<<"temp", jd>>] = n \/ names'[<<"out", jd>>] = n => Owns(jd, n)
    BY <1>4 DEF Owns, Inode
  <2> QED BY <1>2, <1>5, <2>1, StoreStays
<1>7. ASSUME OutputInv PROVE OutputInv'
  <2>0. FinalizerAlone
    BY <1>7 DEF OutputInv
  <2>1. OutputApart' /\ OutputWhole'
    BY <1>0, <1>2, <1>4, <1>7, OutputKept
  <2>2. InFinalize(t) /\ Guarded(t, id, o)
    BY <1>1, <1>2, <2>0 DEF FinalizerAlone, InFinalize
  <2>3. \A u \in Thread : u # t /\ InFinalize(u) => job[u].id # id /\ job[u].id \in TransferId
    BY <1>0, <1>1, <2>0, <2>2 DEF FinalizerAlone, ReceiverTypes
  <2>4. Guarded(t, id, o)'
    <3>1. IsFile(o)' /\ \A m : data'[m] = data[m] => Whole(m, o)' = Whole(m, o)
      BY <2>2, WholeStays DEF Guarded
    <3>2. PICK m : m = names[<<"temp", id>>]
      OBVIOUS
    <3>3. m # 0 => Whole(m, o)'
      BY <1>2, <2>2, <3>1, <3>2 DEF Guarded
    <3>4. streams'[id] # None /\ streams'[id].temp_file = "null"
      BY <1>2, <2>2 DEF Guarded
    <3>5. m = names'[<<"temp", id>>]
      BY <1>4, <3>2
    <3> QED BY ONLY <3>1, <3>3, <3>4, <3>5 DEF Guarded, Whole
  <2>5. FinalizerAlone'
    <3>1. \A u \in Thread : u # t /\ InFinalize(u) =>
            /\ streams'[job[u].id] = streams[job[u].id]
            /\ names'[<<"temp", job[u].id>>] \in {0, names[<<"temp", job[u].id>>]}
            /\ InFinalize(t)' => job[u].id # id
      BY <1>2, <1>4, <2>3
    <3> QED BY <1>0, <1>2, <1>3, <2>0, <2>4, <3>1, FinalizersStay
  <2> QED BY <2>1, <2>5 DEF OutputInv
<1> QED BY <1>6, <1>7

\* The rename gives the verified file its final name; no session writes to it,
\* since the one of this transfer takes no more data.
LEMMA FinalizeRenameInv ==
  ASSUME StoreInv, FilesGrow, NEW t \in Thread, FinalizeRename(t)
  PROVE  StoreInv' /\ (OutputInv => OutputInv')
<1>0. ReceiverTypes
  BY DEF StoreInv
<1>1. PICK id \in TransferId, o \in Origin \cup {Hole} : id = job[t].id /\ o = job[t].expected
  BY <1>0 DEF ReceiverTypes
<1>2. tpc[t] = "rename" /\ UNCHANGED <<streams, data, aborted>>
  BY DEF FinalizeRename
<1>3. PICK m \in Inode \cup {0} : m = names[<<"temp", id>>]
  BY <1>0 DEF ReceiverTypes
<1>4. \/ m = 0 /\ Leave(t) /\ UNCHANGED names
      \/ /\ m # 0 /\ Enter(t, "erase", id, o)
         /\ names' = [names EXCEPT ![<<"out", id>>] = m, ![<<"temp", id>>] = 0]
  BY <1>1, <1>3 DEF FinalizeRename
<1>5. /\ tpc' \in [Thread -> {"idle", "verify", "clear", "rename", "erase", "unlink"}]
      /\ job' \in [Thread -> [id : TransferId, expected : Origin \cup {Hole}]]
      /\ \A u \in Thread : u # t => tpc'[u] = tpc[u] /\ job'[u] = job[u]
      /\ InFinalize(t)' => job'[t].id = id /\ job'[t].expected = o /\ tpc'[t] = "erase"
  <2>1. CASE Enter(t, "erase", id, o)
    <3>1. PICK pc : pc = "erase"
      OBVIOUS
    <3>2. Enter(t, pc, id, o)
      BY <2>1, <3>1
    <3> QED BY <1>0, <3>1, <3>2, EnterParts
  <2>2. CASE Leave(t)
    BY <1>0, <2>2, LeaveParts DEF InFinalize
  <2> QED BY <1>4, <2>1, <2>2
<1>6. /\ names' \in [{"temp", "out"} \X TransferId -> Inode \cup {0}]
      /\ \A jd \in TransferId : jd # id => /\ names'[<<"temp", jd>>] = names[<<"temp", jd>>]
                                           /\ names'[<<"out", jd>>] = names[<<"out", jd>>]
      /\ names'[<<"temp", id>>] = 0
      /\ IF m = 0 THEN names'[<<"out", id>>] = names[<<"out", id>>]
                  ELSE names'[<<"out", id>>] = m
  <2>1. names \in [{"temp", "out"} \X TransferId -> Inode \cup {0}]
    BY <1>0 DEF ReceiverTypes
  <2> QED BY <1>3, <1>4, <2>1
<1>7. ReceiverTypes'
  BY <1>0, <1>2, <1>5, <1>6 DEF ReceiverTypes
<1>8. StoreInv'
  <2>1. \A jd \in TransferId : \A n \in Inode :
           names'[<<"temp", jd>>] = n \/ names'[<<"out", jd>>] = n => Owns(jd, n)
    BY <1>3, <1>6 DEF Owns, Inode
  <2> QED BY <1>2, <1>7, <2>1, StoreStays
<1>9. ASSUME OutputInv PROVE OutputInv'
  <2>0. FinalizerAlone /\ OutputApart /\ OutputWhole
    BY <1>9 DEF OutputInv
  <2>1. InFinalize(t) /\ Guarded(t, id, o)
    BY <1>1, <1>2, <2>0 DEF FinalizerAlone, InFinalize
  <2>2. \A u \in Thread : u # t /\ InFinalize(u) => job[u].id # id /\ job[u].id \in TransferId
    BY <1>0, <1>1, <2>0, <2>1 DEF FinalizerAlone, ReceiverTypes
  <2>3. IsFile(o)' /\ \A n : data'[n] = data[n] => Whole(n, o)' = Whole(n, o)
    BY <2>1, WholeStays DEF Guarded
  <2>4. InFinalize(t)' => Guarded(t, id, o)'
    BY <1>2, <1>5, <2>1, <2>3 DEF Guarded
  <2>5. FinalizerAlone'
    <3>1. \A u \in Thread : u # t /\ InFinalize(u) =>
            /\ streams'[job[u].id] = streams[job[u].id]
            /\ names'[<<"temp", job[u].id>>] \in {0, names[<<"temp", job[u].id>>]}
            /\ InFinalize(t)' => job[u].id # id
      BY <1>2, <1>6, <2>2
    <3> QED BY <1>0, <1>2, <1>5, <2>0, <2>4, <3>1, FinalizersStay
  <2>6. OutputApart'
    <3> SUFFICES ASSUME NEW jd \in TransferId, names'[<<"out", jd>>] # 0
                 PROVE  /\ names'[<<"temp", jd>>] # names'[<<"out", jd>>]
                        /\ streams'[jd] # None /\ streams'[jd].temp_file # "null" =>
                              streams'[jd].inode # names'[<<"out", jd>>]
      BY DEF OutputApart
    <3>1. CASE jd # id
      BY <1>2, <1>6, <2>0, <3>1 DEF OutputApart
    <3>2. CASE jd = id
      <4>1. streams'[id].temp_file = "null"
        BY <1>2, <2>1 DEF Guarded
      <4> QED BY <1>6, <3>2, <4>1
    <3> QED BY <3>1, <3>2
  <2>7. OutputWhole'
    <3>1. ASSUME NEW jd \in TransferId, NEW n, n = names'[<<"out", jd>>], n # 0
          PROVE  \E q \in Origin : IsFile(q)' /\ Whole(n, q)'
      <4>1. CASE n = names[<<"out", jd>>]
        BY <1>2, <2>0, <3>1, <4>1, OutputStays
      <4>2. CASE n # names[<<"out", jd>>]
        <5>1. n = m /\ m # 0
          BY <1>6, <3>1, <4>2
        <5>2. Whole(m, o)
          BY <1>2, <1>3, <2>1, <5>1 DEF Guarded
        <5>3. Whole(n, o)'
          BY <1>2, <2>3, <5>1, <5>2
        <5>4. o \in Origin
          BY <2>3 DEF IsFile
        <5> QED BY <2>3, <5>3, <5>4
      <4> QED BY <4>1, <4>2
    <3>2. \A jd \in TransferId : names'[<<"out", jd>>] # 0 =>
             \E q \in Origin : IsFile(q)' /\ \A i \in
                0..(CalculateTotalChunks(files'[q[1]][q[2]]) - 1) :
                   data'[names'[<<"out", jd>>]][i] = q
      BY ONLY <3>1 DEF Whole, CalculateTotalChunks
    <3> QED BY ONLY <3>2 DEF OutputWhole, IsFile, Whole, CalculateTotalChunks
  <2> QED BY <2>5, <2>6, <2>7 DEF OutputInv
<1> QED BY <1>8, <1>9

LEMMA FinalizeEraseInv ==
  ASSUME StoreInv, FilesGrow, NEW t \in Thread, FinalizeErase(t)
  PROVE  StoreInv' /\ (OutputInv => OutputInv')
<1>0. ReceiverTypes
  BY DEF StoreInv
<1>1. PICK id \in TransferId, o \in Origin \cup {Hole} : id = job[t].id /\ o = job[t].expected
  BY <1>0 DEF ReceiverTypes
<1>2. tpc[t] = "erase" /\ Leave(t) /\ UNCHANGED <<names, data, aborted>>
  BY DEF FinalizeErase
<1>3. /\ tpc' \in [Thread -> {"idle", "verify", "clear", "rename", "erase", "unlink"}]
      /\ job' \in [Thread -> [id : TransferId, expected : Origin \cup {Hole}]]
      /\ \A u \in Thread : u # t => tpc'[u] = tpc[u] /\ job'[u] = job[u]
      /\ ~InFinalize(t)'
  BY <1>0, <1>2, LeaveParts DEF InFinalize
<1>4. /\ streams' \in [TransferId -> Session \cup {None}] /\ streams'[id] = None
      /\ \A jd \in TransferId : jd # id => streams'[jd] = streams[jd]
  BY <1>0, <1>1 DEF FinalizeErase, ReceiverTypes
<1>5. ReceiverTypes'
  BY <1>0, <1>2, <1>3, <1>4 DEF ReceiverTypes
<1>6. StoreInv'
  <2>1. \A jd \in TransferId : \A n \in Inode :
           names'[<<"temp", jd>>] = n \/ names'[<<"out", jd>>] = n => Owns(jd, n)
    BY <1>2 DEF Owns
  <2> QED BY <1>2, <1>4, <1>5, <2>1, StoreStays
<1>7. ASSUME OutputInv PROVE OutputInv'
  <2>0. FinalizerAlone
    BY <1>7 DEF OutputInv
  <2>1. \A jd \in TransferId : streams'[jd] # None => streams'[jd] = streams[jd]
    BY <1>4
  <2>2. OutputApart' /\ OutputWhole'
    BY <1>0, <1>2, <1>7, <2>1, OutputKept
  <2>3. \A u \in Thread : u # t /\ InFinalize(u) => job[u].id # id /\ job[u].id \in TransferId
    BY <1>0, <1>1, <1>2, <2>0 DEF FinalizerAlone, ReceiverTypes, InFinalize
  <2>4. FinalizerAlone'
    <3>1. \A u \in Thread : u # t /\ InFinalize(u) =>
            /\ streams'[job[u].id] = streams[job[u].id]
            /\ names'[<<"temp", job[u].id>>] \in {0, names[<<"temp", job[u].id>>]}
            /\ InFinalize(t)' => job[u].id # id
      BY <1>2, <1>4, <2>3
    <3> QED BY <1>0, <1>2, <1>3, <2>0, <3>1, FinalizersStay
  <2> QED BY <2>2, <2>4 DEF OutputInv
<1> QED BY <1>6, <1>7

\* AbortStreamedFile takes the session away; that is safe for the output only when
\* nobody finalises the transfer.
LEMMA AbortLockedInv ==
  ASSUME StoreInv, FilesGrow, NEW t \in Thread, NEW id \in TransferId, AbortLocked(t, id)
  PROVE  StoreInv' /\ (AbortsAlone /\ OutputInv => OutputInv')
<1>0. ReceiverTypes
  BY DEF StoreInv
<1>1. tpc[t] = "idle" /\ UNCHANGED <<names, data>> /\ aborted' = aborted \cup {id}
  BY DEF AbortLocked
<1>2. /\ tpc' \in [Thread -> {"idle", "verify", "clear", "rename", "erase", "unlink"}]
      /\ job' \in [Thread -> [id : TransferId, expected : Origin \cup {Hole}]]
      /\ \A u \in Thread : u # t => tpc'[u] = tpc[u] /\ job'[u] = job[u]
      /\ ~InFinalize(t)'
  <2>1. PICK pc, o : pc = "unlink" /\ o = Hole
    OBVIOUS
  <2>2. Enter(t, pc, id, o)
    BY <2>1 DEF AbortLocked
  <2> QED BY <1>0, <2>1, <2>2, EnterParts DEF InFinalize
<1>3. /\ streams' \in [TransferId -> Session \cup {None}] /\ streams'[id] = None
      /\ \A jd \in TransferId : jd # id => streams'[jd] = streams[jd]
  BY <1>0 DEF AbortLocked, ReceiverTypes
<1>4. ReceiverTypes'
  BY <1>0, <1>1, <1>2, <1>3 DEF ReceiverTypes
<1>5. StoreInv'
  <2>1. \A jd \in TransferId : \A n \in Inode :
           names'[<<"temp", jd>>] = n \/ names'[<<"out", jd>>] = n => Owns(jd, n)
    BY <1>1 DEF Owns
  <2> QED BY <1>1, <1>3, <1>4, <2>1, StoreStays
<1>6. ASSUME AbortsAlone, OutputInv PROVE OutputInv'
  <2>0. FinalizerAlone
    BY <1>6 DEF OutputInv
  <2>1. \A jd \in TransferId : streams'[jd] # None => streams'[jd] = streams[jd]
    BY <1>3
  <2>2. OutputApart' /\ OutputWhole'
    BY <1>0, <1>1, <1>6, <2>1, OutputKept
  <2>3. \A u \in Thread : InFinalize(u) => job[u].id # id /\ job[u].id \in TransferId
    BY <1>0, <1>6 DEF AbortLocked, Finalizing, InFinalize, ReceiverTypes
  <2>4. FinalizerAlone'
    <3>1. \A u \in Thread : u # t /\ InFinalize(u) =>
            /\ streams'[job[u].id] = streams[job[u].id]
            /\ names'[<<"temp", job[u].id>>] \in {0, names[<<"temp", job[u].id>>]}
            /\ InFinalize(t)' => job[u].id # id
      BY <1>1, <1>3, <2>3
    <3> QED BY <1>0, <1>1, <1>2, <2>0, <3>1, FinalizersStay
  <2> QED BY <2>2, <2>4 DEF OutputInv
<1> QED BY <1>5, <1>6

LEMMA AbortUnlinkInv ==
  ASSUME StoreInv, FilesGrow, NEW t \in Thread, AbortUnlink(t)
  PROVE  StoreInv' /\ (OutputInv => OutputInv')
<1>0. ReceiverTypes
  BY DEF StoreInv
<1>1. PICK id \in TransferId : id = job[t].id
  BY <1>0 DEF ReceiverTypes
<1>2. tpc[t] = "unlink" /\ Leave(t) /\ UNCHANGED <<streams, data, aborted>>
  BY DEF AbortUnlink
<1>3. /\ tpc' \in [Thread -> {"idle", "verify", "clear", "rename", "erase", "unlink"}]
      /\ job' \in [Thread -> [id : TransferId, expected : Origin \cup {Hole}]]
      /\ \A u \in Thread : u # t => tpc'[u] = tpc[u] /\ job'[u] = job[u]
      /\ ~InFinalize(t)'
  BY <1>0, <1>2, LeaveParts DEF InFinalize
<1>4. /\ names' \in [{"temp", "out"} \X TransferId -> Inode \cup {0}]
      /\ \A jd \in TransferId : names'[<<"temp", jd>>] \in {0, names[<<"temp", jd>>]}
      /\ \A jd \in TransferId : names'[<<"out", jd>>] = names[<<"out", jd>>]
  <2>1. names' = [names EXCEPT ![<<"temp", id>>] = 0]
    BY <1>1 DEF AbortUnlink
  <2>2. names \in [{"temp", "out"} \X TransferId -> Inode \cup {0}]
    BY <1>0 DEF ReceiverTypes
  <2> QED BY <2>1, <2>2
<1>5. ReceiverTypes'
  BY <1>0, <1>2, <1>3, <1>4 DEF ReceiverTypes
<1>6. StoreInv'
  <2>1. \A jd \in TransferId : \A n \in Inode :
           names'[<<"temp", jd>>] = n \/ names'[<<"out", jd>>] = n => Owns(jd, n)
    BY <1>4 DEF Owns, Inode
  <2> QED BY <1>2, <1>5, <2>1, StoreStays
<1>7. ASSUME OutputInv PROVE OutputInv'
  <2>0. FinalizerAlone
    BY <1>7 DEF OutputInv
  <2>1. OutputApart' /\ OutputWhole'
    BY <1>0, <1>2, <1>4, <1>7, OutputKept
  <2>2. \A u \in Thread : InFinalize(u) => job[u].id \in TransferId
    BY <1>0 DEF ReceiverTypes
  <2>3. FinalizerAlone'
    <3>1. \A u \in Thread : u # t /\ InFinalize(u) =>
            /\ streams'[job[u].id] = streams[job[u].id]
            /\ names'[<<"temp", job[u].id>>] \in {0, names[<<"temp", job[u].id>>]}
            /\ InFinalize(t)' => job[u].id # id
      BY <1>2, <1>3, <1>4, <2>2
    <3> QED BY <1>0, <1>2, <1>3, <2>0, <3>1, FinalizersStay
  <2> QED BY <2>1, <2>3 DEF OutputInv
<1> QED BY <1>6, <1>7

-----------------------------------------------------------------------------
(* All steps. *)

\* A step of a sender does not touch the receiver.
LEMMA ReceiverStays ==
  ASSUME StoreInv, FilesGrow, UNCHANGED receiverVars
  PROVE  StoreInv' /\ (OutputInv => OutputInv')
<1>1. UNCHANGED <<streams, names, data, tpc, job, aborted>>
  BY DEF receiverVars
<1>2. ReceiverTypes'
  BY <1>1 DEF StoreInv, ReceiverTypes
<1>3. StoreInv'
  <2>1. \A jd \in TransferId : \A n \in Inode :
           names'[<<"temp", jd>>] = n \/ names'[<<"out", jd>>] = n => Owns(jd, n)
    BY <1>1 DEF Owns
  <2> QED BY <1>1, <1>2, <2>1, StoreStays
<1>4. ASSUME OutputInv PROVE OutputInv'
  <2>1. OutputApart' /\ OutputWhole'
    BY <1>1, <1>4, OutputKept DEF StoreInv
  <2>2. ASSUME NEW t \in Thread, InFinalize(t)', NEW id, NEW o,
               id = job'[t].id, o = job'[t].expected
        PROVE  Guarded(t, id, o)'
    <3>1. InFinalize(t) /\ id = job[t].id /\ o = job[t].expected
      BY <1>1, <2>2 DEF InFinalize
    <3>2. FinalizerAlone
      BY <1>4 DEF OutputInv
    <3> QED BY <1>1, <3>1, <3>2, OthersGuarded
  <2>3. \A t, u \in Thread :
           InFinalize(t)' /\ InFinalize(u)' /\ job'[t].id = job'[u].id => t = u
    BY <1>1, <1>4 DEF OutputInv, FinalizerAlone, InFinalize
  <2>4. FinalizerAlone'
    BY <2>2, <2>3 DEF FinalizerAlone
  <2> QED BY <2>1, <2>4 DEF OutputInv
<1> QED BY <1>3, <1>4

LEMMA TakeChunkInv ==
  ASSUME SenderInv, StoreInv, NEW t \in Thread, NEW c \in net, TakeChunk(t, c)
  PROVE  SenderInv' /\ StoreInv' /\ (OutputInv => OutputInv')
<1>1. SenderInv' /\ FilesGrow
  <2>1. UNCHANGED senderVars /\ net' \subseteq net
    BY DEF TakeChunk
  <2> QED BY <2>1, SendersStay
<1>2. SenderTypes /\ Sent(c) /\ UNCHANGED <<tpc, job, aborted>>
  BY DEF SenderInv, TakeChunk
<1>3. CASE UNCHANGED <<streams, names, data>>
  BY <1>1, <1>2, <1>3, ReceiverStays DEF receiverVars
<1>4. ASSUME NEW w \in BOOLEAN, Accepts(c), StreamChunkToFile(c, w)
      PROVE  StoreInv' /\ (OutputInv => OutputInv')
  BY <1>1, <1>2, <1>4, StreamStore, StreamOutput
<1>5. \/ UNCHANGED <<streams, names, data>>
      \/ Accepts(c) /\ \E w \in BOOLEAN : StreamChunkToFile(c, w)
  <2>1. PICK w : w = (c.chunk_index \notin SessionFor(c).received)
    OBVIOUS
  <2>2. w \in BOOLEAN
    BY <2>1
  <2> QED BY <2>1, <2>2 DEF TakeChunk
<1> QED BY <1>1, <1>3, <1>4, <1>5

LEMMA InitInv ==
  ASSUME Init
  PROVE  SenderInv /\ StoreInv /\ OutputInv
<1>1. SenderTypes
  <2>1. FreshRate \in [packets : Nat, bytes : Nat, burst : Nat]
    BY TuningAssumption DEF FreshRate
  <2>2. MaxFiles \in Nat /\ 0 <= MaxFiles
    BY FileAssumption
  <2> QED BY <2>1, <2>2 DEF Init, SenderTypes, Current
<1>2. \A p \in Sender : SenderOk(p)
  <2> SUFFICES ASSUME NEW p \in Sender PROVE SenderOk(p)
    OBVIOUS
  <2>1. spc[p] = "idle" /\ outq[p] = <<>> /\ taken[p] = <<>> /\ bytes[p] = 0
    BY DEF Init
  <2>2. AtChunk(p) /\ QueueSent(p)
    BY <2>1 DEF AtChunk, QueueSent
  <2>3. QueuedBytes(outq[p]) = 0
    BY <2>1, QueuedEmpty
  <2>4. BytesCounted(p)
    BY <2>1, <2>3 DEF BytesCounted, TakenBytes, Uncounted
  <2>5. InWindow(p)
    BY <2>1, <2>3, TuningAssumption DEF InWindow
  <2> QED BY <2>2, <2>4, <2>5 DEF SenderOk
<1>3. ReceiverTypes
  <2>1. 1 \in TransferId
    BY FileAssumption DEF TransferId
  <2> QED BY <2>1 DEF Init, ReceiverTypes, Empty
<1>4. \A id \in TransferId : streams[id] = None /\ names[<<"temp", id>>] = 0
                             /\ names[<<"out", id>>] = 0
  BY DEF Init
<1>5. \A t \in Thread : ~InFinalize(t)
  BY DEF Init, InFinalize
<1>6. SessionsSound /\ ReceivedIsWritten
  BY <1>4 DEF SessionsSound, ReceivedIsWritten
<1>7. InodesApart
  <2>1. \A id \in TransferId : \A n \in Inode : ~Owns(id, n)
    BY <1>4 DEF Owns, Inode
  <2> QED BY <2>1 DEF InodesApart
<1>8. OutputApart /\ OutputWhole /\ FinalizerAlone
  BY <1>4, <1>5 DEF OutputApart, OutputWhole, FinalizerAlone
<1> QED BY <1>1, <1>2, <1>3, <1>6, <1>7, <1>8 DEF Init, SenderInv, StoreInv, OutputInv

\* Every step keeps the three parts; the output only if aborts keep away from
\* finalising threads.
LEMMA NextInv ==
  ASSUME SenderInv, StoreInv, [Next]_vars
  PROVE  SenderInv' /\ StoreInv' /\ (AbortsAlone /\ OutputInv => OutputInv')
<1> DEFINE Goal == SenderInv' /\ StoreInv' /\ (AbortsAlone /\ OutputInv => OutputInv')
<1>1. ASSUME NEW p \in Sender, SenderStep(p) \/ OutgoingStep(p)
      PROVE  Goal
  <2>1. UNCHANGED receiverVars
    BY <1>1 DEF SenderStep, OutgoingStep, BeginFile, PushChunk, CountBytes, GiveUp, Dequeue,
                SubtractAndSend
  <2>2. SenderInv' /\ FilesGrow
    <3>1. CASE BeginFile(p)
      BY <3>1, BeginFileInv
    <3>2. CASE PushChunk(p)
      BY <3>2, PushChunkInv
    <3>3. CASE CountBytes(p)
      BY <3>3, CountBytesInv
    <3>4. CASE GiveUp(p)
      BY <3>4, GiveUpInv
    <3>5. CASE Dequeue(p)
      BY <3>5, DequeueInv
    <3>6. CASE SubtractAndSend(p)
      BY <3>6, SubtractInv
    <3> QED BY <1>1, <3>1, <3>2, <3>3, <3>4, <3>5, <3>6 DEF SenderStep, OutgoingStep
  <2> QED BY <2>1, <2>2, ReceiverStays
<1>2. ASSUME NEW t \in Thread, NEW c \in net, TakeChunk(t, c)
      PROVE  Goal
  BY <1>2, TakeChunkInv
<1>3. ASSUME NEW t \in Thread,
             FinalizeStep(t) \/ AbortUnlink(t) \/ \E id \in TransferId : AbortLocked(t, id)
      PROVE  Goal
  <2>1. UNCHANGED senderVars /\ net' \subseteq net
    BY <1>3 DEF FinalizeStep, FinalizeLocked, FinalizeVerify, FinalizeRemove, FinalizeRename,
                FinalizeErase, AbortUnlink, AbortLocked
  <2>2. SenderInv' /\ FilesGrow
    BY <2>1, SendersStay
  <2>3. StoreInv' /\ (AbortsAlone /\ OutputInv => OutputInv')
    <3>1. ASSUME NEW id \in TransferId, FinalizeLocked(t, id)
          PROVE  StoreInv' /\ (OutputInv => OutputInv')
      BY <2>2, <3>1, FinalizeLockedInv
    <3>2. CASE FinalizeVerify(t)
      BY <2>2, <3>2, FinalizeVerifyInv
    <3>3. CASE FinalizeRemove(t)
      BY <2>2, <3>3, FinalizeRemoveInv
    <3>4. CASE FinalizeRename(t)
      BY <2>2, <3>4, FinalizeRenameInv
    <3>5. CASE FinalizeErase(t)
      BY <2>2, <3>5, FinalizeEraseInv
    <3>6. CASE AbortUnlink(t)
      BY <2>2, <3>6, AbortUnlinkInv
    <3>7. ASSUME NEW id \in TransferId, AbortLocked(t, id)
          PROVE  StoreInv' /\ (AbortsAlone /\ OutputInv => OutputInv')
      BY <2>2, <3>7, AbortLockedInv
    <3> QED BY <1>3, <3>1, <3>2, <3>3, <3>4, <3>5, <3>6, <3>7 DEF FinalizeStep
  <2> QED BY <2>2, <2>3
<1>4. CASE UNCHANGED vars
  <2>1. UNCHANGED senderVars /\ net' \subseteq net /\ UNCHANGED receiverVars
    BY <1>4 DEF vars
  <2>2. SenderInv' /\ FilesGrow
    BY <2>1, SendersStay
  <2> QED BY <2>1, <2>2, ReceiverStays
<1>5. ASSUME Finished PROVE Goal
  BY <1>4, <1>5 DEF Finished
<1>6. ASSUME Next PROVE Goal
  <2> HIDE DEF Goal
  <2> QED BY <1>1, <1>2, <1>3, <1>5, <1>6 DEF Next, ReceiverStep
<1> QED BY <1>4, <1>6

\* StreamChunkToFile keeps its bookkeeping, for every interleaving of senders,
\* receiving threads, finalisers and aborts: a chunk that is marked is in the file.
THEOREM TransferKeepsBooks == Spec => []StreamInv
<1>1. Init => SenderInv /\ StoreInv
  BY InitInv
<1>2. SenderInv /\ StoreInv /\ [Next]_vars => (SenderInv /\ StoreInv)'
  BY NextInv
<1>3. SenderInv /\ StoreInv => StreamInv
  BY TypesSplit DEF SenderInv, StoreInv, StreamInv
<1> QED BY <1>1, <1>2, <1>3, PTL DEF Spec

\* Every chunk that SendFile makes, of a file of any size, passes the tests of
\* BuildTransferChunkPayload and ParseTransferChunkPayload.
THEOREM TransferChunksParse == Spec => []SentParses
<1>1. Init => SenderInv /\ StoreInv
  BY InitInv
<1>2. SenderInv /\ StoreInv /\ [Next]_vars => (SenderInv /\ StoreInv)'
  BY NextInv
<1>3. SenderInv => SentParses
  BY SentParts DEF SenderInv, SenderOk, QueueSent, SentParses
<1> QED BY <1>1, <1>2, <1>3, PTL DEF Spec

\* The outgoing queue stays within the window of TransferTuning and the chunk that
\* fills it, although two threads count and discount its bytes outside the queue.
THEOREM TransferWindowHolds == Spec => []WindowHolds
<1>1. Init => SenderInv /\ StoreInv
  BY InitInv
<1>2. SenderInv /\ StoreInv /\ [Next]_vars => (SenderInv /\ StoreInv)'
  BY NextInv
<1>3. SenderInv => WindowHolds
  BY DEF SenderInv, SenderOk, InWindow, WindowHolds
<1> QED BY <1>1, <1>2, <1>3, PTL DEF Spec

\* A file with its final name is and stays one sender's whole file, also when two
\* senders use one transfer_id, provided that AbortStreamedFile is not called for a
\* transfer while a thread finalises it.
THEOREM TransferOutputWhole ==
  ASSUME AbortsAlone
  PROVE  Spec => []OutputWhole
<1>1. Init => SenderInv /\ StoreInv /\ OutputInv
  BY InitInv
<1>2. SenderInv /\ StoreInv /\ OutputInv /\ [Next]_vars => (SenderInv /\ StoreInv /\ OutputInv)'
  BY NextInv
<1>3. OutputInv => OutputWhole
  BY DEF OutputInv
<1> QED BY <1>1, <1>2, <1>3, PTL DEF Spec

\* A session that has as many chunks as the file has them all.
LEMMA AllChunksThere ==
  ASSUME NEW n \in Nat \ {0}, NEW R \in SUBSET (0..(n - 1))
  PROVE  Cardinality(R) = n <=> 0..(n - 1) \subseteq R
<1>1. 0 \in Int /\ n - 1 \in Int /\ (n - 1) - 0 + 1 = n /\ 0 <= n - 1
  OBVIOUS
<1>2. IsFiniteSet(0..(n - 1)) /\ Cardinality(0..(n - 1)) = n
  BY <1>1, FS_Interval
<1>3. PICK S : S = 0..(n - 1)
  OBVIOUS
<1>4. R \subseteq S /\ IsFiniteSet(S) /\ Cardinality(S) = n
  BY <1>2, <1>3
<1>5. Cardinality(R) = Cardinality(S) => R = S
  BY <1>4, FS_Subset
<1>6. S \subseteq R => R = S
  BY <1>4
<1> QED BY <1>3, <1>4, <1>5, <1>6

\* Putting the file together from the chunks in memory and streaming it to disk
\* accept the same sessions: the sum of the sizes tells no more than the count.
LEMMA SessionAssembles ==
  ASSUME NEW s \in Session, SoundSession(s), s.expected # Hole, NEW kept,
         kept = [i \in s.received |-> [from |-> data[s.inode][i],
                   size |-> Minimum(s.file_size - i * ChunkSize, ChunkSize)]]
  PROVE  AssembleFileFromChunks(kept, s.total_chunks, s.file_size, s.expected)
           <=> AllReceived(s) /\ Whole(s.inode, s.expected)
<1>1. PICK size, n, R, o, k : /\ size = s.file_size /\ n = s.total_chunks /\ R = s.received
                              /\ o = s.expected /\ k = s.inode
  OBVIOUS
<1>2. /\ size \in FileSize /\ size \in Nat /\ n = Chunks(size) /\ R \subseteq 0..(n - 1)
      /\ o # Hole /\ files[o[1]][o[2]] = size
  BY <1>1, FileAssumption DEF SoundSession
<1>3. n \in Nat \ {0}
  BY <1>2, ChunkCount
<1>4. Whole(k, o) <=> \A i \in 0..(n - 1) : data[k][i] = o
  BY <1>2 DEF Whole, Chunks
<1>5. AllReceived(s) <=> 0..(n - 1) \subseteq R
  BY <1>1, <1>2, <1>3, AllChunksThere DEF AllReceived
<1>6. DOMAIN kept = R /\ \A i \in R : /\ kept[i].from = data[k][i]
                                      /\ kept[i].size = Minimum(size - i * ChunkSize, ChunkSize)
  BY <1>1
<1>7. ASSUME 0..(n - 1) \subseteq R
      PROVE  SumTo([i \in 0..(n - 1) |-> kept[i].size], n) = size
  <2>1. \A i \in 0..(n - 1) : kept[i].size = Minimum(size - i * ChunkSize, ChunkSize)
    BY <1>6, <1>7
  <2>2. [i \in 0..(n - 1) |-> kept[i].size]
           = [i \in 0..(n - 1) |-> Minimum(size - i * ChunkSize, ChunkSize)]
    BY <2>1
  <2>3. SumTo([i \in 0..(Chunks(size) - 1) |-> Minimum(size - i * ChunkSize, ChunkSize)],
              Chunks(size)) = size
    BY <1>2, ChunksAddUp
  <2> QED BY <1>2, <2>2, <2>3
<1>8. ASSUME 0..(n - 1) \subseteq R
      PROVE  (\A i \in 0..(n - 1) : kept[i].from = o) <=> Whole(k, o)
  <2>1. \A i \in 0..(n - 1) : kept[i].from = data[k][i]
    BY <1>6, <1>8
  <2> QED BY <1>4, <2>1
<1>9. AssembleFileFromChunks(kept, n, size, o) <=> AllReceived(s) /\ Whole(k, o)
  BY <1>2, <1>3, <1>5, <1>6, <1>7, <1>8 DEF AssembleFileFromChunks
<1> QED BY <1>1, <1>9

\* Streaming to disk and AssembleFileFromChunks accept the same transfers, for every
\* file size and chunk size.
THEOREM TransferAssembles == Spec => []AssembleAgrees
<1>1. Init => SenderInv /\ StoreInv
  BY InitInv
<1>2. SenderInv /\ StoreInv /\ [Next]_vars => (SenderInv /\ StoreInv)'
  BY NextInv
<1>3. StoreInv => AssembleAgrees
  <2> SUFFICES ASSUME StoreInv PROVE AssembleAgrees
    OBVIOUS
  <2>1. ASSUME NEW id \in TransferId, streams[id] # None, NEW s, s = streams[id],
               s.expected # Hole, NEW kept,
               kept = [i \in s.received |-> [from |-> data[s.inode][i],
                         size |-> Minimum(s.file_size - i * ChunkSize, ChunkSize)]]
        PROVE  AssembleFileFromChunks(kept, s.total_chunks, s.file_size, s.expected)
                 <=> AllReceived(s) /\ Whole(s.inode, s.expected)
    <3>1. s \in Session /\ SoundSession(s)
      BY <2>1 DEF StoreInv, ReceiverTypes, SessionsSound
    <3> QED BY <2>1, <3>1, SessionAssembles
  <2> QED BY <2>1 DEF AssembleAgrees
<1> QED BY <1>1, <1>2, <1>3, PTL DEF Spec
=============================================================================
