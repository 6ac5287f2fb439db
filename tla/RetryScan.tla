----------------------------- MODULE RetryScan ------------------------------
(***************************************************************************)
(* The retry scan of ProcessOutgoingPackets (znet/z_packet_queues.cc) and  *)
(* its clock.  The outgoing thread reads the wall clock once, in whole     *)
(* seconds truncated to u32, and walks over awaiting_ack_packets_; workers *)
(* file receipts and the incoming thread removes them meanwhile.  The age  *)
(* of a receipt is an unsigned difference.                                 *)
(***************************************************************************)
EXTENDS Naturals, FiniteSets

CONSTANTS
    Packet,         \* the reliable packets of this endpoint
    ResendInterval, \* kResendIntervalSeconds
    DropAfter,      \* kDropAfterSeconds
    TimeMod,        \* 2^32 in the code: seconds are kept in a u32
    MaxPause,       \* bound: seconds from one scan's clock reading to the next
    MaxScan,        \* bound: seconds that pass during a scan
    PeerAnswers     \* does the peer acknowledge anything?

ASSUME TimeAssumption ==
    /\ ResendInterval \in Nat /\ DropAfter \in Nat /\ TimeMod \in Nat
    /\ MaxPause \in Nat /\ ResendInterval < DropAfter
    /\ DropAfter + ResendInterval + MaxPause < TimeMod
    /\ MaxScan \in 0..ResendInterval /\ MaxScan <= MaxPause
    /\ PeerAnswers \in BOOLEAN

VARIABLES
    clock,          \* GetUnixTimeStamp() as u32
    status,         \* none, waiting (has a receipt), acked or dropped
    last_send_time, \* of the packet's receipt
    scanning,       \* the outgoing thread is inside the scan
    now,            \* the clock value the last scan works with
    visited,        \* receipts this scan has been at
    waited,         \* history: true seconds since the last transmission
    hasty           \* history: packets resent or dropped before their time

vars == <<clock, status, last_send_time, scanning, now, visited, waited, hasty>>

Long == DropAfter + 1       \* waited is counted up to here
Outstanding == {p \in Packet : status[p] = "waiting"}

Init == /\ clock = 1
        /\ status = [p \in Packet |-> "none"]
        /\ last_send_time = [p \in Packet |-> 0]
        /\ scanning = FALSE
        /\ now = 1
        /\ visited = {}
        /\ waited = [p \in Packet |-> 0]
        /\ hasty = {}

\* The outgoing thread may be slow, but not for TimeMod seconds (136 years).
Tick == /\ (clock + TimeMod - now) % TimeMod < IF scanning THEN MaxScan ELSE MaxPause
        /\ clock' = (clock + 1) % TimeMod
        /\ waited' = [p \in Packet |-> IF p \in Outstanding /\ waited[p] < Long
                                         THEN waited[p] + 1 ELSE waited[p]]
        /\ UNCHANGED <<status, last_send_time, scanning, now, visited, hasty>>

\* AddReceiptIfNeeded, right after the first transmission.
File(p) == /\ status[p] = "none"
           /\ status' = [status EXCEPT ![p] = "waiting"]
           /\ last_send_time' = [last_send_time EXCEPT ![p] = clock]
           /\ UNCHANGED <<clock, scanning, now, visited, waited, hasty>>

\* The incoming thread removes the receipt.
Acknowledge(p) == /\ PeerAnswers
                  /\ status[p] = "waiting"
                  /\ status' = [status EXCEPT ![p] = "acked"]
                  /\ waited' = [waited EXCEPT ![p] = 0]
                  /\ UNCHANGED <<clock, last_send_time, scanning, now, visited, hasty>>

BeginScan == /\ ~scanning
             /\ scanning' = TRUE
             /\ now' = clock
             /\ visited' = {}
             /\ UNCHANGED <<clock, status, last_send_time, waited, hasty>>

Age(p) == (now + TimeMod - last_send_time[p]) % TimeMod

Skip(p) == UNCHANGED <<status, last_send_time, waited, hasty>>

Drop(p) == /\ status' = [status EXCEPT ![p] = "dropped"]
           /\ waited' = [waited EXCEPT ![p] = 0]
           /\ hasty' = IF waited[p] > DropAfter THEN hasty
                                                ELSE hasty \cup {<<p, "drop">>}
           /\ UNCHANGED last_send_time

\* RetransmitPacket without the new time stamp.
ResendUnstamped(p) ==
    /\ waited' = [waited EXCEPT ![p] = 0]
    /\ hasty' = IF waited[p] + MaxScan > ResendInterval THEN hasty
                                                        ELSE hasty \cup {<<p, "resend">>}
    /\ UNCHANGED <<status, last_send_time>>

\* RetransmitPacket, then last_send_time = now.
Resend(p) ==
    /\ waited' = [waited EXCEPT ![p] = 0]
    /\ hasty' = IF waited[p] + MaxScan > ResendInterval THEN hasty
                                                        ELSE hasty \cup {<<p, "resend">>}
    /\ last_send_time' = [last_send_time EXCEPT ![p] = now]
    /\ UNCHANGED status

\* A scan that stamps every receipt it looks at.
VisitAndStamp(p) ==
    /\ scanning /\ p \in Outstanding \ visited
    /\ visited' = visited \cup {p}
    /\ \/ Age(p) > DropAfter /\ Drop(p)
       \/ Age(p) > ResendInterval /\ Age(p) <= DropAfter /\ Resend(p)
       \/ /\ Age(p) <= ResendInterval
          /\ last_send_time' = [last_send_time EXCEPT ![p] = now]
          /\ UNCHANGED <<status, waited, hasty>>
    /\ UNCHANGED <<clock, scanning, now>>

Visit(p) ==
    /\ scanning /\ p \in Outstanding \ visited
    /\ visited' = visited \cup {p}
    /\ \/ Age(p) > DropAfter /\ Drop(p)
       \/ Age(p) > ResendInterval /\ Age(p) <= DropAfter /\ Resend(p)
       \/ Age(p) <= ResendInterval /\ Skip(p)
    /\ UNCHANGED <<clock, scanning, now>>

EndScan == /\ scanning
           /\ Outstanding \subseteq visited
           /\ scanning' = FALSE
           /\ visited' = {}
           /\ UNCHANGED <<clock, status, last_send_time, now, waited, hasty>>

ScanStep == BeginScan \/ EndScan \/ \E p \in Packet : Visit(p)

Next == Tick \/ ScanStep \/ \E p \in Packet : File(p) \/ Acknowledge(p)

Spec == Init /\ [][Next]_vars

\* The outgoing thread runs and time passes.
FairSpec == Spec /\ WF_vars(ScanStep) /\ WF_vars(Tick)

-----------------------------------------------------------------------------
\* Types of the scan's state; the clock readings stay within TimeMod.
TypeOK ==
    /\ clock \in 0..(TimeMod - 1) /\ now \in 0..(TimeMod - 1)
    /\ status \in [Packet -> {"none", "waiting", "acked", "dropped"}]
    /\ last_send_time \in [Packet -> 0..(TimeMod - 1)]
    /\ scanning \in BOOLEAN
    /\ visited \subseteq Packet
    /\ waited \in [Packet -> 0..Long]
    /\ hasty \subseteq Packet \X {"resend", "drop"}

\* Two transmissions of a packet are more than kResendIntervalSeconds apart,
\* less the time a scan takes (the stamp is the scan's clock reading, taken
\* before its transmissions), however the scan, the workers and the seconds
\* interleave: the scan, which runs every 10 ms, cannot flood the peer.
ResendsAreSpaced == \A p \in Packet : <<p, "resend">> \notin hasty

\* The scan of z_packet_queues.cc:175: its types, and the distance it keeps.
ScanInv == TypeOK /\ ResendsAreSpaced

\* A receipt that is due is resent, acknowledged or given up: the scan, which
\* runs every 10 ms, never passes it over for good.
DueIsHandled ==
    \A p \in Packet : (status[p] = "waiting" /\ waited[p] > ResendInterval)
                          ~> (status[p] # "waiting" \/ waited[p] <= ResendInterval)

\* z_packet_queues.cc:183 "Drop packets that have exceeded retry budget": a
\* packet is given up only when it has waited longer than kDropAfterSeconds.  It
\* fails for a receipt filed during a scan, in a later second: its age wraps.
DroppedAfterBudget == \A p \in Packet : <<p, "drop">> \notin hasty

\* The same comment, "to cap memory growth": a packet that the peer never
\* acknowledges is given up in the end and its receipt removed.
DroppedInTheEnd ==
    \A p \in Packet : status[p] = "waiting" ~> status[p] # "waiting"

=============================================================================
