---------------------------- MODULE FileTransfer ----------------------------
(***************************************************************************)
(* ZFileTransporter (znet/z_file_transporter.cc): processes that send      *)
(* files in chunks through a window on their outgoing Control queue, and a *)
(* receiver whose threads stream the chunks into a temporary file, verify  *)
(* it and give it its final name.                                          *)
(*                                                                         *)
(* Chunks travel as reliable packets: between the outgoing queue and the   *)
(* receiver each one is delivered once, in any order (ReliableChannel).    *)
(* The data of a chunk is the file it comes from; a checksum stands for    *)
(* the bytes it was computed from, so that equal checksums mean equal      *)
(* bytes.  File names pass IsPathTraversal.                                *)
(*                                                                         *)
(* A receiving thread holds stream_mutex_ for StreamChunkToFile and for    *)
(* parts of FinalizeStreamedFile and AbortStreamedFile; the file system is *)
(* touched outside the mutex too, one action per call.                     *)
(***************************************************************************)
EXTENDS Naturals, Sequences, FiniteSets, FiniteSetsExt

CONSTANTS
    Sender,             \* sending processes
    FileSize,           \* the sizes of the files there are to send
    MaxFiles,           \* bound: files per sending process
    ChunkSize,          \* TransferTuning::chunk_size
    HeaderSize,         \* kFixedHeaderSize and the file name
    Thread,             \* threads of the receiving application
    MaxInflightChunks, MaxInflightBytes,    \* TransferTuning, 0: no limit
    MaxPackets, MaxBytes, BurstAllowance,   \* RateLimitConfig
    MayFail,            \* may reading, writing and flushing files fail?
    AbortsAlone,        \* is AbortStreamedFile kept apart from Finalize?
    None

ASSUME SenderAssumption == None \notin Sender
ASSUME FileAssumption ==
    FileSize \subseteq Nat /\ IsFiniteSet(FileSize) /\ FileSize # {} /\ MaxFiles \in Nat \ {0}
ASSUME TuningAssumption ==
    /\ {ChunkSize, HeaderSize} \subseteq Nat \ {0}
    /\ {MaxInflightChunks, MaxInflightBytes, MaxPackets, MaxBytes,
        BurstAllowance} \subseteq Nat
    /\ MayFail \in BOOLEAN /\ AbortsAlone \in BOOLEAN

VARIABLES
    spc,        \* a sender: "idle", "wait" (for the window), "count" or "failed"
    files,      \* the sizes of the files it has sent; the last is being sent
    index,      \* chunk_index
    rate,       \* packets_, bytes_sent_this_second_ and burst_tokens_
    outq,       \* its Control queue
    bytes,      \* channel_outgoing_bytes_ of the Control channel
    taken,      \* what its outgoing thread took and has not subtracted yet
    dropped,    \* history: chunks that Push refused
    net,        \* chunks dispatched and not handed to the application
    streams,    \* active_streams_: transfer_id -> session, or None
    names,      \* names in the file system: <<"temp" | "out", id>> -> inode
    data,       \* contents: inode -> chunk index -> where its bytes come from
    tpc, job,   \* a receiving thread and the call it is in
    aborted     \* history: transfer ids that were aborted

senderVars == <<spc, files, index, rate, outq, bytes, taken, dropped>>
receiverVars == <<streams, names, data, tpc, job, aborted>>
vars == <<senderVars, net, receiverVars>>

TransferId == 1..MaxFiles
Origin == Sender \X TransferId          \* the files there are
Hole == <<None, 0>>                     \* bytes nobody has written
CalculateTotalChunksDown(size) == size \div ChunkSize
CalculateTotalChunks(size) ==
    IF size = 0 THEN 1 ELSE (size + ChunkSize - 1) \div ChunkSize
MaxChunks == Max({CalculateTotalChunks(n) : n \in FileSize})
Current(p) == Len(files[p])             \* GenerateTransferId: 1, 2, ...
Inode == 1..(3 * Cardinality(TransferId))
Minimum(a, b) == IF a < b THEN a ELSE b

\* The loops that add up sizes: f[0] + ... + f[n - 1].
SumTo(f, n) ==
    LET sum[k \in 0..n] == IF k = 0 THEN 0 ELSE sum[k - 1] + f[k - 1]
    IN  sum[n]

-----------------------------------------------------------------------------
(* The chunks and their wire format. *)

TransferChunk ==
    [from : Sender, transfer_id : TransferId, file_size : FileSize, chunk_index : Nat,
     total_chunks : Nat, has_file_name : BOOLEAN, is_last_chunk : BOOLEAN,
     data_size : Nat, file_checksum : Origin \cup {Hole}]

\* What SendFile writes into the payload of chunk i of p's file f.
Chunk(p, f, i) ==
    LET size == files[p][f]
        total == CalculateTotalChunks(size)
    IN  [from |-> p, transfer_id |-> f, file_size |-> size, chunk_index |-> i,
         total_chunks |-> total, has_file_name |-> i = 0,
         is_last_chunk |-> i = total - 1,
         data_size |-> Minimum(size - i * ChunkSize, ChunkSize),
         file_checksum |-> IF i = total - 1 THEN <<p, f>> ELSE Hole]

\* The tests that BuildTransferChunkPayload and ParseTransferChunkPayload share.
ChunkConsistent(c) ==
    /\ c.transfer_id # 0 /\ c.total_chunks # 0
    /\ c.chunk_index < c.total_chunks
    /\ c.has_file_name = (c.chunk_index = 0)
    /\ c.is_last_chunk => c.chunk_index = c.total_chunks - 1
    /\ ~c.is_last_chunk => c.file_checksum = Hole
    /\ CalculateTotalChunks(c.file_size) = c.total_chunks
    /\ c.chunk_index * ChunkSize <= c.file_size
    /\ c.data_size = Minimum(c.file_size - c.chunk_index * ChunkSize, ChunkSize)

BuildTransferChunkPayload(c) == ChunkConsistent(c)

ParseTransferChunkPayload(c) ==
    ChunkConsistent(c) /\ (c.file_size = 0 => c.is_last_chunk)

AssembleUnchecked(chunks, total, size, sum) == 0..(total - 1) \subseteq DOMAIN chunks
\* Putting a file together from the chunks in memory: index -> [from, size].
\* A sum of Hole (0 in the code) means that there is no checksum to compare.
AssembleFileFromChunks(chunks, total, size, sum) ==
    /\ total # 0
    /\ 0..(total - 1) \subseteq DOMAIN chunks
    /\ SumTo([i \in 0..(total - 1) |-> chunks[i].size], total) = size
    /\ sum # Hole => \A i \in 0..(total - 1) : chunks[i].from = sum

-----------------------------------------------------------------------------
(* The sender. *)

FreshRate == [packets |-> 0, bytes |-> 0, burst |-> BurstAllowance]

\* CheckRateLimit: the burst token is gone even when the byte limit refuses.
CheckRateLimit(r, n) ==
    LET over == r.packets >= MaxPackets
        paid == IF over THEN [r EXCEPT !.burst = @ - 1] ELSE r
    IN  IF over /\ r.burst = 0 THEN [ok |-> FALSE, rate |-> r]
        ELSE IF r.bytes + n > MaxBytes THEN [ok |-> FALSE, rate |-> paid]
        ELSE [ok |-> TRUE, rate |-> [packets |-> r.packets + 1, bytes |-> r.bytes + n,
                                     burst |-> paid.burst]]

PayloadBytes(c) == HeaderSize + c.data_size

WindowOpenAtLimit(p) ==
    /\ MaxInflightChunks = 0 \/ Len(outq[p]) <= MaxInflightChunks
    /\ MaxInflightBytes = 0 \/ bytes[p] <= MaxInflightBytes
\* WaitForSendWindow: the loop ends.
WindowOpen(p) ==
    /\ MaxInflightChunks = 0 \/ Len(outq[p]) < MaxInflightChunks
    /\ MaxInflightBytes = 0 \/ bytes[p] < MaxInflightBytes

\* SendFile up to its loop: the transfer gets the process's next number.
BeginFile(p) ==
    /\ spc[p] \in {"idle", "failed"} /\ Current(p) < MaxFiles
    /\ spc' = [spc EXCEPT ![p] = "wait"]
    /\ \E n \in FileSize : files' = [files EXCEPT ![p] = Append(@, n)]
    /\ index' = [index EXCEPT ![p] = 0]
    /\ UNCHANGED <<rate, outq, bytes, taken, dropped, net, receiverVars>>

\* The end of the loop body: the next chunk, or SendFile returns true.
NextChunk(p) ==
    LET last == Chunk(p, Current(p), index[p]).is_last_chunk
    IN  /\ spc' = [spc EXCEPT ![p] = IF last THEN "idle" ELSE "wait"]
        /\ index' = [index EXCEPT ![p] = IF last THEN @ ELSE @ + 1]

\* Push: the rate limiter may drop the chunk, and EnqueuePacket returns true
\* all the same; else the packet is queued and its bytes are counted after.
PushChunk(p) ==
    LET c == Chunk(p, Current(p), index[p])
    IN  /\ spc[p] = "wait" /\ WindowOpen(p)
        /\ \E r \in {rate[p], FreshRate} :
              LET check == CheckRateLimit(r, PayloadBytes(c))
              IN  /\ rate' = [rate EXCEPT ![p] = check.rate]
                  /\ \/ /\ check.ok
                        /\ outq' = [outq EXCEPT ![p] = Append(@, c)]
                        /\ spc' = [spc EXCEPT ![p] = "count"]
                        /\ UNCHANGED <<index, dropped>>
                     \/ /\ ~check.ok
                        /\ dropped' = dropped \cup {c}
                        /\ NextChunk(p)
                        /\ UNCHANGED outq
        /\ UNCHANGED <<files, bytes, taken, net, receiverVars>>

CountBytes(p) ==
    /\ spc[p] = "count"
    /\ bytes' = [bytes EXCEPT ![p] = @ + PayloadBytes(Chunk(p, Current(p), index[p]))]
    /\ NextChunk(p)
    /\ UNCHANGED <<files, rate, outq, taken, dropped, net, receiverVars>>

GiveUpNever(p) ==
    /\ spc[p] = "wait" /\ MayFail /\ WindowOpen(p)
    /\ spc' = [spc EXCEPT ![p] = "failed"]
    /\ UNCHANGED <<files, index, rate, outq, bytes, taken, dropped, net,
                   receiverVars>>
\* SendFile returns false: the window stays shut for backpressure_timeout_ms,
\* or the file cannot be read (or the transport is no longer connected).
GiveUp(p) ==
    /\ spc[p] = "wait" /\ (MayFail \/ ~WindowOpen(p))
    /\ spc' = [spc EXCEPT ![p] = "failed"]
    /\ UNCHANGED <<files, index, rate, outq, bytes, taken, dropped, net,
                   receiverVars>>

\* The outgoing thread: dequeue, then SaturatingSub, then dispatch.
Dequeue(p) ==
    /\ taken[p] = <<>> /\ outq[p] # <<>>
    /\ taken' = [taken EXCEPT ![p] = <<Head(outq[p])>>]
    /\ outq' = [outq EXCEPT ![p] = Tail(@)]
    /\ UNCHANGED <<spc, files, index, rate, bytes, dropped, net, receiverVars>>

SaturatingSub(a, b) == IF a > b THEN a - b ELSE 0

SubtractAndSend(p) ==
    /\ taken[p] # <<>>
    /\ bytes' = [bytes EXCEPT ![p] = SaturatingSub(@, PayloadBytes(taken[p][1]))]
    /\ \/ net' = net \cup {taken[p][1]}
       \/ MayFail /\ UNCHANGED net             \* sendto() fails: no receipt
    /\ taken' = [taken EXCEPT ![p] = <<>>]
    /\ UNCHANGED <<spc, files, index, rate, outq, dropped, receiverVars>>

-----------------------------------------------------------------------------
(* The receiver. *)

Session == [file_size : Nat, total_chunks : Nat, expected : Origin \cup {Hole},
            received : SUBSET (0..(MaxChunks - 1)), inode : Inode,
            temp_file : {"open", "closed", "null"}]
ASSUME NoneAssumption == None \notin Session

Empty == [i \in 0..(MaxChunks - 1) |-> Hole]
InUse == {names[n] : n \in DOMAIN names} \cup
         {streams[id].inode : id \in {id \in TransferId : streams[id] # None}}
NewInode == Min(Inode \ InUse)

\* All chunks are there and the last one has brought the checksum.
AllReceived(s) ==
    Cardinality(s.received) = s.total_chunks /\ s.expected # Hole

\* EnsureStreamSession for a chunk without a session: only the first chunk, with
\* the name, opens one.  The temporary name depends on the transfer_id alone; a
\* file of that name is truncated.
Accepts(c) ==
    LET s == streams[c.transfer_id]
    IN  IF s = None THEN c.has_file_name
        ELSE /\ s.file_size = c.file_size /\ s.total_chunks = c.total_chunks
             /\ s.temp_file # "null"

TempInode(id) == IF names[<<"temp", id>>] = 0 THEN NewInode ELSE names[<<"temp", id>>]

SessionFor(c) ==
    IF streams[c.transfer_id] # None THEN streams[c.transfer_id]
    ELSE [file_size |-> c.file_size, total_chunks |-> c.total_chunks,
          expected |-> Hole, received |-> {}, inode |-> TempInode(c.transfer_id),
          temp_file |-> "open"]

\* WriteAt; a handle that FlushAndClose has closed takes no data.
WriteAt(s, contents, c) ==
    IF s.temp_file = "open"
    THEN [contents EXCEPT ![c.chunk_index] = <<c.from, c.transfer_id>>]
    ELSE contents

\* The session after a write: the chunk is marked, the last one has the checksum.
MarkedAlways(s, c, written) ==
    [s EXCEPT !.received = @ \cup {c.chunk_index},
              !.expected = IF c.is_last_chunk THEN c.file_checksum ELSE @]
Marked(s, c, written) ==
    IF written /\ s.temp_file = "open"
    THEN [s EXCEPT !.received = @ \cup {c.chunk_index},
                   !.expected = IF c.is_last_chunk THEN c.file_checksum ELSE @]
    ELSE s

\* StreamChunkToFile; a repeated chunk and one whose write fails change nothing,
\* but may open the session.
StreamChunkToFile(c, written) ==
    LET id == c.transfer_id
        s == SessionFor(c)
        old == IF streams[id] = None THEN Empty ELSE data[s.inode]
    IN  /\ data' = [data EXCEPT ![s.inode] = IF written THEN WriteAt(s, old, c) ELSE old]
        /\ names' = [names EXCEPT ![<<"temp", id>>] = IF streams[id] = None
                                                      THEN s.inode ELSE @]
        /\ streams' = [streams EXCEPT ![id] = Marked(s, c, written)]

\* A receiving thread takes a packet, parses it and streams it.  A chunk that is
\* refused (or cannot be written) does not come back: it is acknowledged.
TakeChunk(t, c) ==
    LET good == ParseTransferChunkPayload(c) /\ Accepts(c)
    IN  /\ tpc[t] = "idle" /\ c \in net
        /\ net' = net \ {c}
        /\ \/ good /\ StreamChunkToFile(c, c.chunk_index \notin SessionFor(c).received)
           \/ good /\ MayFail /\ StreamChunkToFile(c, FALSE)
           \/ ~good /\ UNCHANGED <<streams, names, data>>
        /\ UNCHANGED <<senderVars, tpc, job, aborted>>

Enter(t, pc, id, sum) ==
    /\ tpc' = [tpc EXCEPT ![t] = pc]
    /\ job' = [job EXCEPT ![t] = [id |-> id, expected |-> sum]]
Leave(t) == Enter(t, "idle", 1, Hole)

FinalizeLockedOnce(t, id) ==
    /\ tpc[t] = "idle" /\ streams[id] # None
    /\ AllReceived(streams[id]) /\ streams[id].temp_file # "null"
    /\ \/ /\ streams' = [streams EXCEPT ![id].temp_file = "null"]
          /\ Enter(t, "verify", id, streams[id].expected)
       \/ /\ MayFail
          /\ streams' = [streams EXCEPT ![id].temp_file = "null"]
          /\ UNCHANGED <<tpc, job>>
    /\ UNCHANGED <<senderVars, net, names, data, aborted>>
\* FinalizeStreamedFile under the mutex.  A failed flush leaves a closed handle
\* behind, on which the next call succeeds.
FinalizeLocked(t, id) ==
    /\ tpc[t] = "idle" /\ streams[id] # None
    /\ AllReceived(streams[id]) /\ streams[id].temp_file # "null"
    /\ \/ /\ streams' = [streams EXCEPT ![id].temp_file = "null"]
          /\ Enter(t, "verify", id, streams[id].expected)
       \/ /\ MayFail /\ streams[id].temp_file = "open"
          /\ streams' = [streams EXCEPT ![id].temp_file = "closed"]
          /\ UNCHANGED <<tpc, job>>
    /\ UNCHANGED <<senderVars, net, names, data, aborted>>

VerifiedNothing(id, sum) == names[<<"temp", id>>] # 0
\* ComputeFileChecksum over the file that has the temporary name now.
Verified(id, sum) ==
    LET n == names[<<"temp", id>>]
    IN  /\ n # 0
        /\ \A i \in 0..(CalculateTotalChunks(files[sum[1]][sum[2]]) - 1) : data[n][i] = sum

FinalizeVerify(t) ==
    /\ tpc[t] = "verify"
    /\ IF Verified(job[t].id, job[t].expected)
       THEN Enter(t, "clear", job[t].id, job[t].expected)
       ELSE Leave(t)
    /\ UNCHANGED <<senderVars, net, streams, names, data, aborted>>

\* std::remove of the output, and std::rename, which may find nothing.
FinalizeRemove(t) ==
    /\ tpc[t] = "clear"
    /\ names' = [names EXCEPT ![<<"out", job[t].id>>] = 0]
    /\ Enter(t, "rename", job[t].id, job[t].expected)
    /\ UNCHANGED <<senderVars, net, streams, data, aborted>>

FinalizeRename(t) ==
    LET id == job[t].id
    IN  /\ tpc[t] = "rename"
        /\ IF names[<<"temp", id>>] = 0
           THEN Leave(t) /\ UNCHANGED names
           ELSE /\ names' = [names EXCEPT ![<<"out", id>>] = names[<<"temp", id>>],
                                          ![<<"temp", id>>] = 0]
                /\ Enter(t, "erase", id, job[t].expected)
        /\ UNCHANGED <<senderVars, net, streams, data, aborted>>

FinalizeErase(t) ==
    /\ tpc[t] = "erase"
    /\ streams' = [streams EXCEPT ![job[t].id] = None]
    /\ Leave(t)
    /\ UNCHANGED <<senderVars, net, names, data, aborted>>

Finalizing(id) ==
    \E t \in Thread : tpc[t] \in {"verify", "clear", "rename", "erase"} /\ job[t].id = id

\* AbortStreamedFile: the session under the mutex, the file after it.
AbortLocked(t, id) ==
    /\ tpc[t] = "idle" /\ streams[id] # None
    /\ AbortsAlone => ~Finalizing(id)
    /\ streams' = [streams EXCEPT ![id] = None]
    /\ aborted' = aborted \cup {id}
    /\ Enter(t, "unlink", id, Hole)
    /\ UNCHANGED <<senderVars, net, names, data>>

AbortUnlink(t) ==
    /\ tpc[t] = "unlink"
    /\ names' = [names EXCEPT ![<<"temp", job[t].id>>] = 0]
    /\ Leave(t)
    /\ UNCHANGED <<senderVars, net, streams, data, aborted>>

-----------------------------------------------------------------------------
Init ==
    /\ spc = [p \in Sender |-> "idle"]
    /\ files = [p \in Sender |-> <<>>] /\ index = [p \in Sender |-> 0]
    /\ rate = [p \in Sender |-> FreshRate]
    /\ outq = [p \in Sender |-> <<>>] /\ bytes = [p \in Sender |-> 0]
    /\ taken = [p \in Sender |-> <<>>]
    /\ dropped = {} /\ net = {}
    /\ streams = [id \in TransferId |-> None]
    /\ names = [n \in {"temp", "out"} \X TransferId |-> 0]
    /\ data = [n \in Inode |-> Empty]
    /\ tpc = [t \in Thread |-> "idle"]
    /\ job = [t \in Thread |-> [id |-> 1, expected |-> Hole]]
    /\ aborted = {}

SenderStep(p) ==
    BeginFile(p) \/ PushChunk(p) \/ CountBytes(p) \/ GiveUp(p)
OutgoingStep(p) == Dequeue(p) \/ SubtractAndSend(p)
FinalizeStep(t) ==
    \/ \E id \in TransferId : FinalizeLocked(t, id)
    \/ FinalizeVerify(t) \/ FinalizeRemove(t) \/ FinalizeRename(t) \/ FinalizeErase(t)
ReceiverStep(t) == (\E c \in net : TakeChunk(t, c)) \/ FinalizeStep(t) \/ AbortUnlink(t)

\* Every file is sent or given up, and the receiver has nothing left to do.
Finished ==
    /\ \A p \in Sender : /\ spc[p] \in {"idle", "failed"}
                         /\ Current(p) = MaxFiles
                         /\ outq[p] = <<>> /\ taken[p] = <<>>
    /\ net = {} /\ \A t \in Thread : tpc[t] = "idle"
    /\ UNCHANGED vars

Next ==
    \/ \E p \in Sender : SenderStep(p) \/ OutgoingStep(p)
    \/ \E t \in Thread : ReceiverStep(t) \/ \E id \in TransferId : AbortLocked(t, id)
    \/ Finished

\* The loops of sender, outgoing thread and receiving application go on, and the
\* application finalises what is complete; nobody has to abort.
Fairness ==
    /\ \A p \in Sender : WF_vars(SenderStep(p)) /\ WF_vars(OutgoingStep(p))
    /\ \A t \in Thread : WF_vars(ReceiverStep(t))
    /\ WF_vars(\E t \in Thread : FinalizeStep(t))

Spec == Init /\ [][Next]_vars /\ Fairness

-----------------------------------------------------------------------------
\* Type invariant of the senders' windows, the sessions and the file system; the
\* byte counter of z_packet_queues.cc never falls below zero.
TypeOK ==
    /\ spc \in [Sender -> {"idle", "wait", "count", "failed"}]
    /\ files \in [Sender -> Seq(FileSize)] /\ \A p \in Sender : Current(p) <= MaxFiles
    /\ index \in [Sender -> Nat] /\ bytes \in [Sender -> Nat]
    /\ rate \in [Sender -> [packets : Nat, bytes : Nat, burst : Nat]]
    /\ outq \in [Sender -> Seq(TransferChunk)] /\ taken \in [Sender -> Seq(TransferChunk)]
    /\ net \cup dropped \subseteq TransferChunk /\ aborted \subseteq TransferId
    /\ streams \in [TransferId -> Session \cup {None}]
    /\ names \in [{"temp", "out"} \X TransferId -> Inode \cup {0}]
    /\ data \in [Inode -> [0..(MaxChunks - 1) -> Origin \cup {Hole}]]
    /\ tpc \in [Thread -> {"idle", "verify", "clear", "rename", "erase", "unlink"}]
    /\ job \in [Thread -> [id : TransferId, expected : Origin \cup {Hole}]]

Whole(n, o) ==
    \A i \in 0..(CalculateTotalChunks(files[o[1]][o[2]]) - 1) : data[n][i] = o

\* A file that has its final name is, from then on, one sender's whole file, even
\* when processes whose numbering starts at 1 send under one transfer_id.
OutputWhole ==
    \A id \in TransferId : names[<<"out", id>>] # 0 =>
        \E o \in Origin : o[2] \in DOMAIN files[o[1]] /\ Whole(names[<<"out", id>>], o)

\* A chunk that a session has marked received is in the file of that session,
\* whatever has happened to the names meanwhile: it will not be sent again.
ReceivedIsWritten ==
    \A id \in TransferId : streams[id] # None =>
        \A i \in streams[id].received : data[streams[id].inode][i] # Hole

\* StreamChunkToFile keeps its bookkeeping: types, a byte counter that is not
\* negative, and no chunk marked that is not in the file.
StreamInv == TypeOK /\ ReceivedIsWritten

\* Streaming to disk and AssembleFileFromChunks accept the same transfers.
AssembleAgrees ==
    \A id \in TransferId : streams[id] # None =>
        LET s == streams[id]
            size(i) == Minimum(s.file_size - i * ChunkSize, ChunkSize)
            kept == [i \in s.received |-> [from |-> data[s.inode][i], size |-> size(i)]]
        IN  s.expected # Hole =>
              (AssembleFileFromChunks(kept, s.total_chunks, s.file_size, s.expected)
                 <=> AllReceived(s) /\ Whole(s.inode, s.expected))

\* Every chunk SendFile makes passes the tests of the builder and of the parser.
SentParses ==
    \A p \in Sender : \A k \in DOMAIN outq[p] :
        BuildTransferChunkPayload(outq[p][k]) /\ ParseTransferChunkPayload(outq[p][k])

QueuedBytes(q) == SumTo([i \in 0..(Len(q) - 1) |-> PayloadBytes(q[i + 1])], Len(q))

\* The queue never holds more than the window (and the one chunk that fills it),
\* although its bytes are counted after the enqueue and discounted after the
\* dequeue, by two threads.
WindowHolds ==
    \A p \in Sender :
        /\ MaxInflightChunks # 0 => Len(outq[p]) <= MaxInflightChunks
        /\ MaxInflightBytes # 0 =>
              QueuedBytes(outq[p]) < MaxInflightBytes + HeaderSize + ChunkSize

\* SendFile returns, also when the byte count has drifted upwards for good
\* because a packet was dequeued before its bytes were counted.
SendReturns == \A p \in Sender : spc[p] = "wait" ~> spc[p] \in {"idle", "failed"}

\* A transfer whose chunks have all been written from one file gets its final
\* name, or is aborted.
CompleteIsFinalised ==
    \A id \in TransferId :
        (/\ streams[id] # None /\ AllReceived(streams[id])
         /\ streams[id].temp_file # "null"
         /\ Whole(streams[id].inode, streams[id].expected)) ~>
            (names[<<"out", id>>] # 0 \/ id \in aborted)

\* Not checked by a run, see the README: a chunk that SendFile has passed on is
\* queued.
SentIsQueued == dropped = {}
=============================================================================
