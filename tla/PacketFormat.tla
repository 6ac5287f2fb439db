---------------------------- MODULE PacketFormat ----------------------------
(***************************************************************************)
(* What a datagram is made of: PacketBuilder and PacketUnpacker            *)
(* (znet/z_packet_serdes), LZ4 and AES-GCM as the code uses them.          *)
(*                                                                         *)
(* A byte string is a tuple with a tag.  A checksum is a copy of what it   *)
(* is computed over, so it tells any two contents apart; so does the tag   *)
(* of an encrypted body.  The acknowledgement number travels beside the    *)
(* sequence number and is treated like it.                                 *)
(***************************************************************************)
EXTENDS Integers

CONSTANTS
    Empty,          \* the payload of length 0
    Compressible,   \* the payloads that LZ4 makes smaller
    NoKey,          \* no crypto context
    NoPacket        \* what is returned on failure

SystemMessage == {"ClientHello", "ServerHello", "ClientAuthProof"}
Noise == <<"noise", <<"noise", 0>>>>

\* A packet as the application pushes it.
Outgoing(type, payload, reliable, encrypted, compressed) ==
    [type |-> type, channel |-> IF type \in SystemMessage THEN "Control" ELSE "Data",
     payload |-> payload, reliable |-> reliable, encrypted |-> encrypted,
     compressed |-> compressed]

\* The flag is taken back when LZ4 does not help; nothing compresses to nothing.
StaysCompressed(p) ==
    p.compressed /\ (p.payload = Empty \/ p.payload \in Compressible)

Header(p) ==
    [type |-> p.type, channel |-> p.channel, reliable |-> p.reliable,
     encrypted |-> p.encrypted, compressed |-> StaysCompressed(p)]

AadOfHeader(header, seq) == <<header, 0>>
\* The header fields and numbers that the tag of an encrypted body covers.
Aad(header, seq) == <<header, seq>>

EncryptPayload(key, aad, body) == <<"gcm", key, aad, body>>
Decrypts(key, aad, body) ==
    key # NoKey /\ body[1] = "gcm" /\ body[2] = key /\ body[3] = aad

BuildPacket(p, key, next_sequence_number) ==
    LET header == Header(p)
        seq == IF p.reliable THEN next_sequence_number ELSE 0
        plain == <<IF header.compressed THEN "lz4" ELSE "raw", p.payload>>
        body == IF p.encrypted THEN EncryptPayload(key, Aad(header, seq), plain)
                ELSE plain
    IN  IF p.encrypted /\ (key = NoKey \/ p.payload = Empty) THEN NoPacket
        ELSE [header |-> header, header_checksum |-> header, seq |-> seq,
              original_size |-> p.payload, payload_checksum |-> body, body |-> body,
              whole |-> TRUE]

\* What can befall a datagram on its way.
Damaged(d) ==
    {[d EXCEPT !.header.type = "Message"], [d EXCEPT !.header.reliable = ~@],
     [d EXCEPT !.body = Noise], [d EXCEPT !.whole = FALSE]}
    \cup {[d EXCEPT !.seq = @ + 1] : r \in {TRUE} \cap {d.header.reliable}}
    \cup {[d EXCEPT !.original_size = Noise] : c \in {TRUE} \cap {d.header.compressed}}

\* Magic, version, sizes: a datagram that was cut short does not pass.
ValidatePacketHeader(d) == d.whole

DecryptPayloadIfNeeded(d, key) ==
    d.header.encrypted => Decrypts(key, Aad(d.header, d.seq), d.body)
Plain(d) == IF d.header.encrypted THEN d.body[4] ELSE d.body

\* LZ4 must return what the header announces.
Decompress(d) == d.header.compressed => Plain(d)[2] = d.original_size

\* The body of a datagram that comes through the checks, decrypted; the
\* sequence number is covered by no checksum.
UnpackPacket(d, key) ==
    IF /\ ValidatePacketHeader(d) /\ d.header_checksum = d.header
       /\ (d.header.type \in SystemMessage) <=> (d.header.channel = "Control")
       /\ d.payload_checksum = d.body
       /\ DecryptPayloadIfNeeded(d, key) /\ Decompress(d)
    THEN [type |-> d.header.type, seq |-> d.seq, payload |-> Plain(d)[2]]
    ELSE NoPacket
=============================================================================
