--------------------------- MODULE ReceiptProofs ----------------------------
(***************************************************************************)
(* The receipts of packets that await an acknowledgement: the scan over    *)
(* them (RetryScan) keeps its distance for any number of packets and any   *)
(* intervals, also when the u32 second counter wraps; the map that holds   *)
(* them (AckMap) loses none and leaves no dangling pointer, for any        *)
(* threads, nodes, numbers and buckets.                                    *)
(***************************************************************************)
EXTENDS RetryScan, AckMap, WellFoundedInduction, TLAPS

\* The unsigned difference of two clock readings.
Since(t, u) == (t + TimeMod - u) % TimeMod

\* The clock runs ahead of the scan's reading, by little.
ClockIsNear == /\ Since(clock, now) <= MaxPause
               /\ scanning => Since(clock, now) <= MaxScan

\* The stamp of a receipt is older than the scan's reading, or was taken after it.
Older(p) == Since(clock, last_send_time[p]) = Since(clock, now) + Age(p)
Newer(p) == Since(clock, last_send_time[p]) <= Since(clock, now)

\* A receipt that this scan need not come to any more is not due; one that it has
\* yet to come to has been due since the last scan at most.
StampIsNear(p) ==
    \/ Newer(p) /\ p \notin visited
    \/ Older(p) /\ Age(p) <= ResendInterval
    \/ Older(p) /\ Age(p) <= ResendInterval + MaxPause /\ scanning /\ p \notin visited

\* The history variable counts the seconds since the stamp, less those of the scan
\* that set it.
WaitIsCounted(p) ==
    waited[p] = Long \/ waited[p] + MaxScan >= Since(clock, last_send_time[p])

VisitedWasFiled == \A p \in visited : status[p] # "none"

IInv == /\ TypeOK /\ ResendsAreSpaced /\ ClockIsNear /\ VisitedWasFiled
        /\ \A p \in Outstanding : StampIsNear(p) /\ WaitIsCounted(p)

-----------------------------------------------------------------------------
(* Clock readings.                                                            *)

Reading == 0..(TimeMod - 1)

LEMMA Bounds ==
    /\ ResendInterval \in Nat /\ DropAfter \in Nat /\ TimeMod \in Nat /\ MaxPause \in Nat
    /\ MaxScan \in Nat /\ ResendInterval < DropAfter /\ MaxScan <= ResendInterval
    /\ MaxScan <= MaxPause /\ DropAfter + ResendInterval + MaxPause < TimeMod
BY TimeAssumption

\* The unsigned difference, without the remainder.
LEMMA SinceIs ==
    ASSUME NEW t \in Reading, NEW u \in Reading
    PROVE  Since(t, u) = IF u <= t THEN t - u ELSE t + TimeMod - u
<1>1. t \in Nat /\ u \in Nat /\ t < TimeMod /\ u < TimeMod /\ TimeMod \in Nat
  BY Bounds DEF Reading
<1>2. \A x \in 0..(TimeMod - 1) : x % TimeMod = x
  BY <1>1
<1>3. \A x \in TimeMod..(2 * TimeMod - 1) : x % TimeMod = x - TimeMod
  BY <1>1
<1> QED
  BY <1>1, <1>2, <1>3 DEF Since

\* The next second.
LEMMA NextReading ==
    ASSUME NEW t \in Reading
    PROVE  (t + 1) % TimeMod = IF t + 1 = TimeMod THEN 0 ELSE t + 1
<1>1. t \in Nat /\ t < TimeMod /\ TimeMod \in Nat \ {0}
  BY Bounds DEF Reading
<1>2. \A x \in 0..(TimeMod - 1) : x % TimeMod = x
  BY <1>1
<1>3. TimeMod % TimeMod = 0
  BY <1>1
<1> QED
  BY <1>1, <1>2, <1>3

LEMMA SinceFacts ==
    ASSUME NEW t \in Reading, NEW u \in Reading
    PROVE  /\ Since(t, u) \in Nat /\ Since(t, u) < TimeMod /\ Since(t, t) = 0
           /\ (t + 1) % TimeMod \in Reading
           /\ Since(t, u) + 1 < TimeMod => Since((t + 1) % TimeMod, u) = Since(t, u) + 1
<1>1. t \in Nat /\ u \in Nat /\ t < TimeMod /\ u < TimeMod /\ TimeMod \in Nat
  BY Bounds DEF Reading
<1>2. PICK v : v = (t + 1) % TimeMod
  OBVIOUS
<1>3. v = (IF t + 1 = TimeMod THEN 0 ELSE t + 1) /\ v \in Reading
  BY <1>1, <1>2, NextReading DEF Reading
<1>4. Since(v, u) = IF u <= v THEN v - u ELSE v + TimeMod - u
  BY <1>3, SinceIs
<1>5. Since(t, u) = IF u <= t THEN t - u ELSE t + TimeMod - u
  BY SinceIs
<1>6. Since(t, t) = 0
  BY <1>1, SinceIs
<1>7. Since(t, u) + 1 < TimeMod => Since(v, u) = Since(t, u) + 1
  BY <1>1, <1>3, <1>4, <1>5
<1> QED
  BY <1>1, <1>2, <1>3, <1>5, <1>6, <1>7

\* A stamp taken after the scan's reading: no age, or one that has wrapped.
LEMMA NewerAge ==
    ASSUME NEW c \in Reading, NEW n \in Reading, NEW l \in Reading,
           Since(c, l) <= Since(c, n)
    PROVE  (n = l /\ Since(n, l) = 0) \/ Since(n, l) + Since(c, n) >= TimeMod
<1>1. /\ c \in Nat /\ n \in Nat /\ l \in Nat /\ TimeMod \in Nat
      /\ c < TimeMod /\ n < TimeMod /\ l < TimeMod
  BY Bounds DEF Reading
<1>2. /\ Since(c, l) = IF l <= c THEN c - l ELSE c + TimeMod - l
      /\ Since(c, n) = IF n <= c THEN c - n ELSE c + TimeMod - n
      /\ Since(n, l) = IF l <= n THEN n - l ELSE n + TimeMod - l
  BY SinceIs
<1> QED
  BY <1>1, <1>2

-----------------------------------------------------------------------------
(* The invariant.                                                             *)

LEMMA InitScan == Init => IInv
<1>1. 1 \in Reading /\ 0 \in Reading /\ Since(1, 1) = 0
  BY Bounds, SinceFacts DEF Reading
<1> SUFFICES ASSUME Init PROVE IInv
  OBVIOUS
<1>2. TypeOK
  <2>1. 0 \in 0..Long /\ 0 \in 0..(TimeMod - 1) /\ 1 \in 0..(TimeMod - 1)
    BY Bounds DEF Long
  <2> QED
    BY <2>1, Zenon DEF Init, TypeOK
<1>3. Since(clock, now) = 0
  BY <1>1 DEF Init
<1>4. ClockIsNear
  BY <1>3, Bounds DEF ClockIsNear
<1>5. Outstanding = {} /\ ResendsAreSpaced
  BY DEF Init, Outstanding, ResendsAreSpaced
<1> QED
  BY <1>2, <1>4, <1>5 DEF IInv, VisitedWasFiled, Init

\* What is known of a receipt that waits.
LEMMA WaitingFacts ==
    ASSUME IInv, NEW p \in Outstanding
    PROVE  /\ clock \in Reading /\ now \in Reading /\ last_send_time[p] \in Reading
           /\ Since(clock, now) \in Nat /\ Since(clock, last_send_time[p]) \in Nat
           /\ Age(p) \in Nat /\ waited[p] \in Nat /\ waited[p] <= Long
           /\ ClockIsNear /\ StampIsNear(p) /\ WaitIsCounted(p)
           /\ Age(p) = Since(now, last_send_time[p])
<1>1. /\ clock \in Reading /\ now \in Reading /\ last_send_time[p] \in Reading
      /\ waited[p] \in 0..Long
  BY DEF IInv, TypeOK, Reading, Outstanding
<1>2. Age(p) = Since(now, last_send_time[p])
  BY DEF Age, Since
<1>3. /\ Since(clock, now) \in Nat /\ Since(clock, last_send_time[p]) \in Nat
      /\ Since(now, last_send_time[p]) \in Nat
  BY <1>1, SinceFacts
<1>4. waited[p] \in Nat /\ waited[p] <= Long
  BY <1>1, Bounds DEF Long
<1> QED
  BY <1>1, <1>2, <1>3, <1>4 DEF IInv

\* A second passes: every difference with the clock grows by one.
LEMMA TickScan ==
    ASSUME IInv, Tick
    PROVE  IInv'
<1>1. clock \in Reading /\ now \in Reading /\ last_send_time \in [Packet -> Reading]
  BY DEF IInv, TypeOK, Reading
<1>2. UNCHANGED <<status, last_send_time, scanning, now, visited, hasty>>
  BY DEF Tick
<1>3. clock' \in Reading
  BY <1>1, SinceFacts DEF Tick
<1>4. Since(clock, now) \in Nat /\ Since(clock, now) < IF scanning THEN MaxScan ELSE MaxPause
  BY <1>1, SinceFacts DEF Tick, Since
<1>5. Since(clock', now) = Since(clock, now) + 1
  <2>1. Since(clock, now) + 1 < TimeMod
    BY <1>4, Bounds
  <2> QED
    BY <1>1, <2>1, SinceFacts DEF Tick
<1>6. TypeOK'
  <2>1. waited \in [Packet -> 0..Long] /\ Long \in Nat
    BY Bounds DEF IInv, TypeOK, Long
  <2>2. waited' \in [Packet -> 0..Long]
    BY <2>1 DEF Tick
  <2> QED
    BY <1>2, <1>3, <2>2 DEF IInv, TypeOK, Reading, Long
<1>7. ClockIsNear'
  BY <1>2, <1>4, <1>5, Bounds DEF ClockIsNear
<1>8. ASSUME NEW p \in Outstanding' PROVE StampIsNear(p)' /\ WaitIsCounted(p)'
  <2>1. p \in Outstanding /\ p \in Packet
    BY <1>2 DEF Outstanding
  <2>2. PICK l : l = last_send_time[p] /\ l = last_send_time'[p]
    BY <1>2
  <2>3. /\ l \in Reading /\ Since(clock, l) \in Nat /\ Age(p) \in Nat
        /\ StampIsNear(p) /\ WaitIsCounted(p) /\ waited[p] \in Nat /\ waited[p] <= Long
    BY <2>1, <2>2, WaitingFacts
  <2>4. Age(p)' = Age(p)
    BY <1>2 DEF Age
  <2>5. Since(clock, l) + 1 < TimeMod
    BY <1>4, <2>2, <2>3, Bounds DEF StampIsNear, Older, Newer
  <2>6. Since(clock', l) = Since(clock, l) + 1
    BY <1>1, <2>3, <2>5, SinceFacts DEF Tick
  <2>7. StampIsNear(p)'
    BY <1>2, <1>4, <1>5, <2>2, <2>3, <2>4, <2>6 DEF StampIsNear, Older, Newer
  <2>8. waited'[p] = IF waited[p] < Long THEN waited[p] + 1 ELSE waited[p]
    BY <2>1 DEF Tick
  <2>9. WaitIsCounted(p)'
    BY <2>2, <2>3, <2>6, <2>8, Bounds DEF WaitIsCounted, Long
  <2> QED
    BY <2>7, <2>9
<1> QED
  BY <1>2, <1>6, <1>7, <1>8 DEF IInv, ResendsAreSpaced, VisitedWasFiled

\* A receipt filed now has the clock's stamp.
LEMMA FileScan ==
    ASSUME IInv, NEW p \in Packet, File(p)
    PROVE  IInv'
<1>1. clock \in Reading /\ now \in Reading
  BY DEF IInv, TypeOK, Reading
<1>2. UNCHANGED <<clock, scanning, now, visited, waited, hasty>>
  BY DEF File
<1>3. TypeOK'
  BY DEF IInv, TypeOK, File, Long
<1>4. ClockIsNear'
  BY <1>2 DEF IInv, ClockIsNear
<1>5. \A q \in Packet : q # p => /\ status'[q] = status[q]
                                 /\ last_send_time'[q] = last_send_time[q]
  BY DEF File, IInv, TypeOK
<1>6. ASSUME NEW q \in Outstanding' PROVE StampIsNear(q)' /\ WaitIsCounted(q)'
  <2>1. q \in Packet
    BY DEF Outstanding
  <2>2. CASE q = p
    <3>1. last_send_time'[p] = clock /\ Since(clock, clock) = 0
      BY <1>1, SinceFacts DEF File, IInv, TypeOK
    <3>2. Since(clock, now) \in Nat /\ waited[p] \in Nat
      BY <1>1, SinceFacts DEF IInv, TypeOK, Long
    <3>3. Newer(p)' /\ WaitIsCounted(p)'
      BY <1>2, <3>1, <3>2, Bounds DEF Newer, WaitIsCounted
    <3>4. p \notin visited
      BY DEF File, IInv, VisitedWasFiled
    <3> QED
      BY <1>2, <2>2, <3>3, <3>4 DEF StampIsNear
  <2>3. CASE q # p
    BY <1>2, <1>5, <2>1, <2>3 DEF IInv, Outstanding, StampIsNear, WaitIsCounted, Older, Newer, Age
  <2> QED
    BY <2>2, <2>3
<1>7. VisitedWasFiled'
  BY <1>2, <1>3 DEF IInv, VisitedWasFiled, File, TypeOK
<1> QED
  BY <1>2, <1>3, <1>4, <1>6, <1>7 DEF IInv, ResendsAreSpaced

\* A receipt goes: acknowledged, or given up by the scan.
LEMMA RemoveScan ==
    ASSUME IInv, NEW p \in Packet, NEW st \in {"acked", "dropped"},
           status' = [status EXCEPT ![p] = st], waited' = [waited EXCEPT ![p] = 0],
           UNCHANGED <<clock, last_send_time, scanning, now>>,
           visited' = visited \/ visited' = visited \cup {p},
           hasty' = hasty \/ hasty' = hasty \cup {<<p, "drop">>}
    PROVE  IInv'
<1>1. TypeOK'
  <2>1. waited' \in [Packet -> 0..Long]
    BY Bounds DEF IInv, TypeOK, Long
  <2> QED
    BY <2>1 DEF IInv, TypeOK, Long
<1>2. ClockIsNear'
  BY DEF IInv, ClockIsNear
<1>3. \A q \in Packet : /\ status'[q] = IF q = p THEN st ELSE status[q]
                        /\ q # p => waited'[q] = waited[q]
  BY DEF IInv, TypeOK
<1>4. ASSUME NEW q \in Outstanding' PROVE StampIsNear(q)' /\ WaitIsCounted(q)'
  <2>1. q \in Outstanding /\ q \in Packet /\ q # p
    BY <1>3 DEF Outstanding
  <2> QED
    BY <1>3, <2>1 DEF IInv, StampIsNear, WaitIsCounted, Older, Newer, Age
<1>5. VisitedWasFiled'
  BY <1>3 DEF IInv, VisitedWasFiled, TypeOK
<1>6. ResendsAreSpaced'
  <2>1. \A q : <<q, "resend">> # <<p, "drop">>
    OBVIOUS
  <2>2. \A x : x \in hasty' => x \in hasty \/ x = <<p, "drop">>
    OBVIOUS
  <2> QED
    BY <2>1, <2>2, Zenon DEF IInv, ResendsAreSpaced
<1> QED
  BY <1>1, <1>2, <1>4, <1>5, <1>6 DEF IInv

\* A resend: the receipt was due, and gets the scan's reading for a stamp.
LEMMA ResendScan ==
    ASSUME IInv, NEW p \in Outstanding \ visited, scanning, visited' = visited \cup {p},
           Age(p) > ResendInterval, Age(p) <= DropAfter, Resend(p),
           UNCHANGED <<clock, scanning, now>>
    PROVE  IInv'
<1>1. p \in Packet /\ UNCHANGED status
  BY DEF Outstanding, Resend
<1>2. /\ clock \in Reading /\ now \in Reading /\ last_send_time[p] \in Reading
      /\ Since(clock, now) \in Nat /\ Since(clock, last_send_time[p]) \in Nat
      /\ Age(p) \in Nat /\ waited[p] \in Nat /\ waited[p] <= Long
      /\ ClockIsNear /\ StampIsNear(p) /\ WaitIsCounted(p)
      /\ Age(p) = Since(now, last_send_time[p])
  BY WaitingFacts
<1>3. Older(p)
  <2>1. ASSUME Newer(p) PROVE Age(p) = 0 \/ Age(p) + Since(clock, now) >= TimeMod
    BY <1>2, <2>1, NewerAge DEF Newer
  <2>2. ~Newer(p)
    BY <1>2, <2>1, Bounds DEF ClockIsNear
  <2> QED
    BY <1>2, <2>2 DEF StampIsNear
<1>4. waited[p] + MaxScan > ResendInterval
  BY <1>2, <1>3, Bounds DEF Older, WaitIsCounted, Long
<1>5. hasty' = hasty
  BY <1>4 DEF Resend
<1>6. \A q \in Packet : /\ last_send_time'[q] = IF q = p THEN now ELSE last_send_time[q]
                        /\ waited'[q] = IF q = p THEN 0 ELSE waited[q]
  BY DEF IInv, TypeOK, Resend
<1>7. TypeOK'
  <2>1. 0 \in 0..Long /\ now \in 0..(TimeMod - 1)
    BY <1>2, Bounds DEF Long, Reading
  <2> QED
    BY <1>1, <1>5, <2>1 DEF IInv, TypeOK, Resend, Long
<1>8. ClockIsNear'
  BY DEF IInv, ClockIsNear
<1>9. ASSUME NEW q \in Outstanding' PROVE StampIsNear(q)' /\ WaitIsCounted(q)'
  <2>1. q \in Outstanding /\ q \in Packet
    BY <1>1 DEF Outstanding
  <2>2. CASE q = p
    <3>1. Age(p)' = 0
      <4>1. Age(p)' = Since(now, now)
        BY <1>1, <1>6 DEF Age, Since
      <4> QED
        BY <1>2, <4>1, SinceFacts
    <3>2. Older(p)'
      BY <1>1, <1>2, <1>6, <3>1 DEF Older
    <3>3. WaitIsCounted(p)'
      <4>1. waited'[p] = 0 /\ last_send_time'[p] = now /\ Since(clock, now) <= MaxScan
        BY <1>1, <1>2, <1>6 DEF ClockIsNear
      <4>2. waited'[p] + MaxScan >= Since(clock', last_send_time'[p])
        BY <1>2, <4>1, Bounds
      <4> QED
        BY <4>2 DEF WaitIsCounted
    <3> QED
      BY <2>2, <3>1, <3>2, <3>3, Bounds DEF StampIsNear
  <2>3. CASE q # p
    BY <1>6, <2>1, <2>3 DEF IInv, StampIsNear, WaitIsCounted, Older, Newer, Age
  <2> QED
    BY <2>2, <2>3
<1>10. VisitedWasFiled' /\ ResendsAreSpaced'
  BY <1>1, <1>5 DEF IInv, VisitedWasFiled, ResendsAreSpaced, Outstanding
<1> QED
  BY <1>7, <1>8, <1>9, <1>10 DEF IInv

\* A receipt that is not due stays as it is.
LEMMA SkipScan ==
    ASSUME IInv, NEW p \in Outstanding \ visited, scanning, visited' = visited \cup {p},
           Age(p) <= ResendInterval, Skip(p), UNCHANGED <<clock, scanning, now>>
    PROVE  IInv'
<1>1. UNCHANGED <<status, last_send_time, waited, hasty>> /\ p \in Packet
  BY DEF Skip, Outstanding
<1>2. TypeOK' /\ ClockIsNear' /\ ResendsAreSpaced'
  BY <1>1 DEF IInv, TypeOK, ClockIsNear, ResendsAreSpaced, Long
<1>3. VisitedWasFiled'
  BY <1>1 DEF IInv, VisitedWasFiled, Outstanding
<1>4. Older(p)
  <2>1. /\ clock \in Reading /\ now \in Reading /\ last_send_time[p] \in Reading
        /\ Since(clock, now) \in Nat /\ Since(clock, last_send_time[p]) \in Nat
        /\ Age(p) \in Nat /\ ClockIsNear /\ StampIsNear(p)
        /\ Age(p) = Since(now, last_send_time[p])
    BY WaitingFacts
  <2>2. ASSUME Newer(p) PROVE Age(p) = 0 /\ now = last_send_time[p]
    <3>1. \/ now = last_send_time[p] /\ Age(p) = 0
          \/ Age(p) + Since(clock, now) >= TimeMod
      BY <2>1, <2>2, NewerAge DEF Newer
    <3> QED
      BY <2>1, <3>1, Bounds DEF ClockIsNear
  <2>3. ASSUME Newer(p) PROVE Older(p)
    BY <2>1, <2>2, <2>3 DEF Older
  <2> QED
    BY <2>1, <2>3 DEF StampIsNear
<1>5. ASSUME NEW q \in Outstanding' PROVE StampIsNear(q)' /\ WaitIsCounted(q)'
  <2>1. q \in Outstanding
    BY <1>1 DEF Outstanding
  <2>2. WaitIsCounted(q)'
    BY <1>1, <2>1 DEF IInv, WaitIsCounted
  <2>3. CASE q = p
    BY <1>1, <1>4, <2>2, <2>3 DEF StampIsNear, Older, Age
  <2>4. CASE q # p
    BY <1>1, <2>1, <2>2, <2>4 DEF IInv, StampIsNear, Older, Newer, Age
  <2> QED
    BY <2>3, <2>4
<1> QED
  BY <1>2, <1>3, <1>5 DEF IInv

\* The scan reads the clock: every receipt is older than the reading.
LEMMA BeginScanScan ==
    ASSUME IInv, BeginScan
    PROVE  IInv'
<1>1. UNCHANGED <<clock, status, last_send_time, waited, hasty>>
  BY DEF BeginScan
<1>2. clock \in Reading /\ now' = clock /\ Since(clock, clock) = 0
  BY SinceFacts DEF IInv, TypeOK, Reading, BeginScan
<1>3. TypeOK' /\ VisitedWasFiled' /\ ResendsAreSpaced'
  BY <1>1 DEF BeginScan, IInv, TypeOK, VisitedWasFiled, ResendsAreSpaced, Long
<1>4. ClockIsNear'
  BY <1>1, <1>2, Bounds DEF ClockIsNear
<1>5. ASSUME NEW p \in Outstanding' PROVE StampIsNear(p)' /\ WaitIsCounted(p)'
  <2>1. p \in Outstanding
    BY <1>1 DEF Outstanding
  <2>2. /\ Since(clock, now) \in Nat /\ Since(clock, last_send_time[p]) \in Nat
        /\ Age(p) \in Nat /\ ClockIsNear /\ StampIsNear(p) /\ WaitIsCounted(p)
    BY <2>1, WaitingFacts
  <2>3. ~scanning /\ scanning' /\ visited' = {}
    BY DEF BeginScan
  <2>4. Age(p)' = Since(clock, last_send_time[p])
    BY <1>1, <1>2 DEF Age, Since
  <2>5. Since(clock, last_send_time[p]) <= ResendInterval + MaxPause
    BY <2>2, <2>3, Bounds DEF StampIsNear, Older, Newer, ClockIsNear
  <2>6. Older(p)'
    BY <1>1, <1>2, <2>2, <2>4 DEF Older
  <2>7. StampIsNear(p)'
    BY <2>3, <2>4, <2>5, <2>6 DEF StampIsNear
  <2> QED
    BY <1>1, <2>2, <2>7 DEF WaitIsCounted
<1> QED
  BY <1>3, <1>4, <1>5 DEF IInv

\* The scan ends when it has been at every receipt.
LEMMA EndScanScan ==
    ASSUME IInv, EndScan
    PROVE  IInv'
<1>1. UNCHANGED <<clock, status, last_send_time, now, waited, hasty>>
  BY DEF EndScan
<1>2. TypeOK' /\ VisitedWasFiled' /\ ResendsAreSpaced' /\ ClockIsNear'
  BY <1>1 DEF EndScan, IInv, TypeOK, VisitedWasFiled, ResendsAreSpaced, ClockIsNear, Long
<1>3. ASSUME NEW p \in Outstanding' PROVE StampIsNear(p)' /\ WaitIsCounted(p)'
  <2>1. p \in Outstanding /\ p \in visited
    BY <1>1 DEF Outstanding, EndScan
  <2>2. Older(p) /\ Age(p) <= ResendInterval
    BY <2>1 DEF IInv, StampIsNear
  <2> QED
    BY <1>1, <2>1, <2>2 DEF IInv, StampIsNear, WaitIsCounted, Older, Age
<1> QED
  BY <1>2, <1>3 DEF IInv

LEMMA VisitScan ==
    ASSUME IInv, NEW p \in Packet, Visit(p)
    PROVE  IInv'
<1>1. /\ scanning /\ p \in Outstanding \ visited /\ visited' = visited \cup {p}
      /\ UNCHANGED <<clock, scanning, now>>
  BY DEF Visit
<1>2. CASE Age(p) > DropAfter /\ Drop(p)
  BY <1>1, <1>2, RemoveScan DEF Drop
<1>3. CASE Age(p) > ResendInterval /\ Age(p) <= DropAfter /\ Resend(p)
  BY <1>1, <1>3, ResendScan
<1>4. CASE Age(p) <= ResendInterval /\ Skip(p)
  BY <1>1, <1>4, SkipScan
<1> QED
  BY <1>2, <1>3, <1>4 DEF Visit

\* However the scan, the workers, the acknowledgements and the seconds interleave,
\* and also across a wrap of the u32 clock: ProcessOutgoingPackets sends a packet
\* again only when more than kResendIntervalSeconds, less the duration of a scan,
\* have passed since it was sent last.
THEOREM ScanKeepsDistance == Spec => []ScanInv
<1>1. Init => IInv
  BY InitScan
<1>2. IInv /\ [Next]_vars => IInv'
  <2> SUFFICES ASSUME IInv, [Next]_vars PROVE IInv'
    OBVIOUS
  <2>1. CASE UNCHANGED vars
    BY <2>1 DEF vars, IInv, TypeOK, ResendsAreSpaced, ClockIsNear, VisitedWasFiled, Outstanding,
                StampIsNear, WaitIsCounted, Older, Newer, Age, Long
  <2>2. ASSUME NEW p \in Packet, Acknowledge(p) PROVE IInv'
    BY <2>2, RemoveScan DEF Acknowledge
  <2> QED
    BY <2>1, <2>2, TickScan, FileScan, BeginScanScan, EndScanScan, VisitScan DEF Next, ScanStep
<1>3. IInv => ScanInv
  BY DEF IInv, ScanInv
<1> QED
  BY <1>1, <1>2, <1>3, PTL DEF Spec

-----------------------------------------------------------------------------
(* The receipt map: what is where.                                            *)

Pointer == Node \cup {Null}

\* An inserting worker's node is not in its chain yet; in the chain only; listed.
Unlinked == {"load head", "swap head", "retry"}
Unlisted == {"load tail", "first head", "load next", "check tail", "append"}
Listing  == {"first tail", "swing tail"}
Removing == {"mark", "load prev", "unlink"}
Cleaning == {"gc next", "gc check", "gc tail"}

Label(t) ==
    {"idle"} \cup IF t \in Worker THEN Unlinked \cup Unlisted \cup Listing
                  ELSE {"find"} \cup Removing \cup
                       IF t = outgoing THEN Cleaning \cup {"gc sweep"} ELSE {}

MemoryOK ==
    /\ scenario \in Scenario /\ collections \in Nat
    /\ buckets \in [Bucket -> Pointer] /\ bucketNext \in [Node -> Pointer]
    /\ orderNext \in [Node -> Pointer] /\ orderHead \in Pointer /\ orderTail \in Pointer
    /\ links \in [Bucket -> Nat] /\ linkedAt \in [Node -> Nat]
    /\ deleted \subseteq Linked /\ inserted \subseteq Linked /\ Linked \subseteq used
    /\ used \subseteq Node /\ allNodes \subseteq used /\ freed \subseteq used
    /\ DOMAIN pc = Thread /\ DOMAIN loc = Thread

\* What is said of a thread t at a label with local pointers l: types first.
Typed(t, label, l) ==
    /\ label \in Label(t)
    /\ l \in [node : Pointer, prev : Pointer, next : Pointer \cup Key]
    /\ label # "find" => l.next \in Pointer
    /\ label = "find" => l.next \in Key
    /\ label = "idle" => l = Idle
    /\ label \in {"load next", "check tail", "append"} => l.prev \in Node

\* A worker's node is its own, and is not in a chain before its swap has succeeded.
InsertReady(t, label, l) == t \in Worker =>
    /\ label # "idle" => l.node \in used \ inserted
    /\ label \in Unlinked => l.node \notin Linked
    /\ label \in Unlisted \cup Listing => l.node \in Linked
OwnNodes ==
    \A v, w \in Worker :
       pc[v] # "idle" /\ pc[w] # "idle" /\ loc[v].node = loc[w].node => v = w

-----------------------------------------------------------------------------
(* The chains.  A chain runs from the nodes linked last to the first; it may  *)
(* hold removed nodes, and come to ones that were unlinked before, but it     *)
(* passes by no live node.                                                    *)

InBucket(p, b) == p \in Linked /\ BucketFor(p) = b
Live(b) == {n \in Linked \ deleted : BucketFor(n) = b}

\* Pointer p may follow node m in its chain.
Follows(m, p) ==
    /\ p # Null => InBucket(p, BucketFor(m)) /\ linkedAt[p] < linkedAt[m]
    /\ \A n \in Live(BucketFor(m)) :
          linkedAt[n] < linkedAt[m] => p # Null /\ linkedAt[n] <= linkedAt[p]

Heads(b, p) ==
    /\ p # Null => InBucket(p, b)
    /\ \A n \in Live(b) : p # Null /\ linkedAt[n] <= linkedAt[p]

Numbered ==
    /\ \A n \in Linked : linkedAt[n] <= links[BucketFor(n)]
    /\ \A m, n \in Linked :
          BucketFor(m) = BucketFor(n) /\ linkedAt[m] = linkedAt[n] => m = n

ChainsSorted ==
    /\ \A b \in Bucket : Heads(b, buckets[b])
    /\ \A m \in Linked : Follows(m, bucketNext[m])

SwapReady(label, l) == label = "swap head" =>
    /\ bucketNext[l.node] = l.next
    /\ l.next # Null => InBucket(l.next, BucketFor(l.node))

RemoveReady(label, l) == label \in Removing =>
    /\ l.node \in Linked
    /\ l.prev # Null => InBucket(l.prev, BucketFor(l.node))
    /\ label # "mark" => l.node \in deleted
    /\ label = "unlink" => Follows(l.node, l.next)

Ready(t, label, l) ==
    Typed(t, label, l) /\ InsertReady(t, label, l) /\ SwapReady(label, l) /\ RemoveReady(label, l)

ChainInv == /\ MemoryOK /\ OwnNodes /\ Numbered /\ ChainsSorted
            /\ \A t \in Thread : Ready(t, pc[t], loc[t])

-----------------------------------------------------------------------------
(* The order list, where the collector runs alone.                            *)

AloneInv == Collecting => \A t \in Thread : t = outgoing \/ pc[t] = "idle"

\* Who is about to append has a node that nothing leads to, and a tail that is listed.
AppendReady(label, l) ==
    /\ label \in Unlisted => l.node \notin OrderList /\ orderNext[l.node] = Null
    /\ label \in Listing => l.node \in OrderList
    /\ label \in {"load next", "check tail", "append"} => l.prev \in OrderList
    /\ label = "check tail" => l.next \in OrderList \cup {Null}

\* The list never meets: one node leads to another, none to the head.
OneWay ==
    /\ \A m, n \in OrderList : orderNext[m] = orderNext[n] /\ orderNext[m] # Null => m = n
    /\ \A m \in OrderList : orderNext[m] # Null => orderNext[m] # orderHead

\* Where the collector is: p leads to c, as far as p all removed nodes are unlisted.
LeadsTo(p, c) == IF p = Null THEN orderHead = c ELSE orderNext[p] = c
Ahead(c) == OrderList \cap deleted \subseteq Walk(c, orderNext)
CollectReady(label, l) ==
    /\ label \in Cleaning => l.prev \in (OrderList \ deleted) \cup {Null}
    /\ label \in {"gc next", "gc check"} => LeadsTo(l.prev, l.node) /\ Ahead(l.node)
    /\ label = "gc check" => l.node \in OrderList /\ l.next = orderNext[l.node]
    /\ label = "gc tail" => LeadsTo(l.prev, l.next) /\ Ahead(l.next)
    /\ label = "gc sweep" => OrderList \cap deleted = {}
    /\ \/ orderTail \in OrderList \cup {Null}
       \/ label = "gc tail" /\ orderTail = l.node

OrderInv ==
    /\ AloneInv /\ OneWay /\ LiveIsListed /\ OrderList \subseteq Linked
    /\ \A w \in Worker : AppendReady(pc[w], loc[w])
    /\ CollectReady(pc[outgoing], loc[outgoing])

-----------------------------------------------------------------------------
(* What has been given back, where every packet has its own number.           *)

\* The numbers that are in the map at a time when garbage is collected are near
\* each other, so that each has a bucket of its own.
NumbersApart ==
    \A s \in Scenario : s.collections # 0 =>
       \A m, n \in Node : s.bucket[s.key[m]] = s.bucket[s.key[n]] => s.key[m] = s.key[n]

OwnNumbers == \A m, n \in Node : KeyOf[m] = KeyOf[n] => m = n
OneToABucket == \A m, n \in Node : BucketFor(m) = BucketFor(n) => m = n

\* A removed node is still in its bucket only while its remover is about to unlink it.
MarkedIsUnlinked ==
    \A b \in Bucket : buckets[b] \in deleted =>
       \E r \in {incoming, outgoing} :
          pc[r] \in {"load prev", "unlink"} /\ loc[r].node = buckets[b]

FreeInv ==
    /\ freed \subseteq deleted /\ allNodes \cap freed = {}
    /\ OrderList \cap freed = {} /\ orderTail \notin freed
    /\ \A b \in Bucket : buckets[b] \notin freed
    /\ \A t \in Thread : pc[t] # "find" =>
          {loc[t].node, loc[t].prev, loc[t].next} \cap freed = {}
    /\ MarkedIsUnlinked
    /\ \A r \in {incoming, outgoing} : pc[r] \in Removing => loc[r].prev = Null

GarbageInv == OwnNumbers =>
    \/ scenario.collections = 0 /\ ~Collecting /\ freed = {}
    \/ OneToABucket /\ FreeInv

-----------------------------------------------------------------------------
(* Proofs about the receipt map: walks.                                       *)

\* A walk stays within any set that it cannot leave.
LEMMA WalkWithin ==
    ASSUME NEW S \in SUBSET Node, NEW start \in S \cup {Null}, NEW next, Closed(S, next)
    PROVE  Walk(start, next) \subseteq S
BY DEF Walk

\* The nodes of a walk cannot be left by next.
LEMMA WalkIsClosed ==
    ASSUME NEW start \in Pointer, NEW next \in [Node -> Pointer]
    PROVE  /\ Walk(start, next) \in SUBSET Node
           /\ start \in Walk(start, next) \cup {Null}
           /\ Closed(Walk(start, next), next)
<1>1. Walk(start, next) \in SUBSET Node
  BY DEF Walk
<1>2. start \in Walk(start, next) \cup {Null}
  BY DEF Walk, Pointer
<1>3. ASSUME NEW m \in Walk(start, next), next[m] # Null
      PROVE  next[m] \in Walk(start, next)
  <2>1. m \in Node /\ next[m] \in Node
    BY <1>1, <1>3 DEF Pointer
  <2> SUFFICES ASSUME NEW S \in SUBSET Node, start \in S \cup {Null}, Closed(S, next)
               PROVE  next[m] \in S
    BY <2>1 DEF Walk
  <2>2. m \in S
    BY WalkWithin
  <2> QED
    BY <1>3, <2>2 DEF Closed
<1> QED
  BY <1>1, <1>2, <1>3 DEF Closed

LEMMA WalkNull ==
    ASSUME NEW next
    PROVE  Walk(Null, next) = {}
<1>1. Closed({}, next) /\ {} \in SUBSET Node /\ Null \in {} \cup {Null}
  BY DEF Closed
<1> QED
  BY <1>1, WalkWithin

\* The first step of a walk.
LEMMA WalkStep ==
    ASSUME NEW next \in [Node -> Pointer], NEW m \in Node
    PROVE  /\ Walk(m, next) \subseteq {m} \cup Walk(next[m], next)
           /\ Walk(next[m], next) \subseteq Walk(m, next)
<1>1. next[m] \in Pointer
  OBVIOUS
<1>2. /\ Walk(next[m], next) \in SUBSET Node /\ Closed(Walk(next[m], next), next)
      /\ next[m] \in Walk(next[m], next) \cup {Null}
  BY <1>1, WalkIsClosed
<1>3. /\ Walk(m, next) \in SUBSET Node /\ Closed(Walk(m, next), next)
      /\ m \in Walk(m, next) \cup {Null}
  BY WalkIsClosed DEF Pointer
<1>4. m \in Walk(m, next)
  BY <1>3, MapAssumption
<1>5. Walk(next[m], next) \subseteq Walk(m, next)
  BY <1>3, <1>4, WalkWithin DEF Closed
<1>6. PICK S : S = {m} \cup Walk(next[m], next)
  OBVIOUS
<1>7. S \in SUBSET Node /\ Closed(S, next) /\ m \in S \cup {Null}
  BY <1>2, <1>6 DEF Closed
<1> QED
  BY <1>5, <1>6, <1>7, WalkWithin

\* A walk depends on the pointers of its own nodes only.
LEMMA WalkKept ==
    ASSUME NEW start \in Pointer, NEW next \in [Node -> Pointer], NEW new \in [Node -> Pointer],
           \A m \in Walk(start, next) : new[m] = next[m]
    PROVE  Walk(start, new) = Walk(start, next)
<1>1. PICK W : W = Walk(start, next)
  OBVIOUS
<1>2. W \in SUBSET Node /\ start \in W \cup {Null} /\ Closed(W, next) /\ Closed(W, new)
  BY <1>1, WalkIsClosed DEF Closed
<1>3. Walk(start, new) \subseteq W
  BY <1>2, WalkWithin
<1>4. PICK V : V = Walk(start, new)
  OBVIOUS
<1>5. V \in SUBSET Node /\ start \in V \cup {Null} /\ Closed(V, new)
  BY <1>4, WalkIsClosed
<1>6. V \subseteq W
  BY <1>3, <1>4
<1>7. Closed(V, next)
  BY <1>1, <1>5, <1>6 DEF Closed
<1>8. Walk(start, next) \subseteq V
  BY <1>5, <1>7, WalkWithin
<1> QED
  BY <1>1, <1>4, <1>6, <1>8

\* A node that leads nowhere, put after the last node of a walk, is added to it.
LEMMA WalkAppended ==
    ASSUME NEW start \in Pointer, NEW next \in [Node -> Pointer], NEW new \in [Node -> Pointer],
           NEW p \in Walk(start, next), NEW n \in Node, next[p] = Null, next[n] = Null, p # n,
           new[p] = n, \A m \in Node : m # p => new[m] = next[m]
    PROVE  Walk(start, new) = Walk(start, next) \cup {n}
<1>1. PICK W : W = Walk(start, next)
  OBVIOUS
<1>2. W \in SUBSET Node /\ start \in W \cup {Null} /\ Closed(W, next) /\ p \in W /\ p \in Node
  BY <1>1, WalkIsClosed
<1>3. new[p] = n /\ \A m \in Node : m # p => new[m] = next[m]
  OBVIOUS
<1>4. PICK U : U = W \cup {n}
  OBVIOUS
<1>5. U \in SUBSET Node /\ start \in U \cup {Null} /\ Closed(U, new)
  BY <1>2, <1>3, <1>4 DEF Closed
<1>6. Walk(start, new) \subseteq U
  BY <1>5, WalkWithin
<1>7. PICK V : V = Walk(start, new)
  OBVIOUS
<1>8. V \in SUBSET Node /\ start \in V \cup {Null} /\ Closed(V, new)
  BY <1>3, <1>7, WalkIsClosed
<1>9. Closed(V, next)
  BY <1>3, <1>8 DEF Closed
<1>10. W \subseteq V
  BY <1>1, <1>8, <1>9, WalkWithin
<1>11. n \in V
  BY <1>2, <1>3, <1>8, <1>10, MapAssumption DEF Closed
<1> QED
  BY <1>1, <1>4, <1>6, <1>7, <1>10, <1>11

\* A pointer that is moved past one node leaves a walk with all others.
LEMMA WalkPast ==
    ASSUME NEW start \in Pointer, NEW next \in [Node -> Pointer], NEW new \in [Node -> Pointer],
           NEW p \in Node, NEW c \in Node, next[p] = c, new[p] = next[c],
           \A m \in Node : m # p => new[m] = next[m]
    PROVE  Walk(start, next) \ {c} \subseteq Walk(start, new)
<1>1. PICK V : V = Walk(start, new)
  OBVIOUS
<1>2. V \in SUBSET Node /\ start \in V \cup {Null} /\ Closed(V, new)
  BY <1>1, WalkIsClosed
<1>3. CASE p \in V
  <2>1. PICK X : X = V \cup {c}
    OBVIOUS
  <2>2. X \in SUBSET Node /\ start \in X \cup {Null} /\ Closed(X, next)
    BY <1>2, <1>3, <2>1 DEF Closed
  <2>3. Walk(start, next) \subseteq X
    BY <2>2, WalkWithin
  <2> QED
    BY <1>1, <2>1, <2>3
<1>4. CASE p \notin V
  <2>1. Closed(V, next)
    BY <1>2, <1>4 DEF Closed
  <2> QED
    BY <1>1, <1>2, <2>1, WalkWithin
<1> QED
  BY <1>3, <1>4

\* A node with one predecessor, unlinked from it, leaves the walk; the others stay.
LEMMA WalkUnlinked ==
    ASSUME NEW start \in Pointer, NEW next \in [Node -> Pointer], NEW new \in [Node -> Pointer],
           NEW p \in Walk(start, next), NEW c \in Node, next[p] = c, p # c, start # c,
           \A m \in Walk(start, next) : next[m] = c => m = p,
           new[p] = next[c], \A m \in Node : m # p => new[m] = next[m]
    PROVE  Walk(start, new) = Walk(start, next) \ {c}
<1>1. PICK W : W = Walk(start, next)
  OBVIOUS
<1>2. W \in SUBSET Node /\ start \in W \cup {Null} /\ Closed(W, next) /\ p \in W /\ p \in Node
  BY <1>1, WalkIsClosed
<1>3. c \in W /\ c # Null
  BY <1>2, MapAssumption DEF Closed
<1>4. next[c] # c /\ \A m \in W : next[m] = c => m = p
  BY <1>1, <1>3
<1>5. PICK U : U = W \ {c}
  OBVIOUS
<1>6. U \in SUBSET Node /\ start \in U \cup {Null} /\ Closed(U, new)
  <2>1. ASSUME NEW m \in U PROVE new[m] \in U \cup {Null}
    <3>1. CASE m = p
      BY <1>2, <1>3, <1>4, <1>5, <3>1 DEF Closed
    <3>2. CASE m # p
      BY <1>2, <1>4, <1>5, <3>2 DEF Closed
    <3> QED
      BY <3>1, <3>2
  <2> QED
    BY <1>2, <1>5, <2>1 DEF Closed
<1>7. Walk(start, new) \subseteq U
  BY <1>6, WalkWithin
<1>8. Walk(start, next) \ {c} \subseteq Walk(start, new)
  BY <1>2, WalkPast
<1> QED
  BY <1>1, <1>5, <1>7, <1>8

\* The same for the first node of a walk.
LEMMA WalkBeheaded ==
    ASSUME NEW next \in [Node -> Pointer], NEW c \in Node,
           \A m \in Walk(c, next) : next[m] # c
    PROVE  Walk(next[c], next) = Walk(c, next) \ {c}
<1>1. PICK W : W = Walk(c, next)
  OBVIOUS
<1>2. W \in SUBSET Node /\ c \in W \cup {Null} /\ Closed(W, next)
  BY <1>1, WalkIsClosed DEF Pointer
<1>3. c \in W
  BY <1>2, MapAssumption
<1>4. PICK U : U = W \ {c}
  OBVIOUS
<1>5. U \in SUBSET Node /\ next[c] \in U \cup {Null} /\ Closed(U, next)
  BY <1>1, <1>2, <1>3, <1>4 DEF Closed
<1>6. Walk(next[c], next) \subseteq U
  BY <1>5, WalkWithin
<1> QED
  BY <1>1, <1>4, <1>6, WalkStep

-----------------------------------------------------------------------------
(* The chains are searched.                                                   *)

LEMMA ScenarioFacts ==
    ASSUME scenario \in Scenario
    PROVE  /\ Null \notin Node
           /\ \A n \in Node : KeyOf[n] \in Key /\ BucketFor(n) \in Bucket
           /\ \A k \in Key : BucketOf[k] \in Bucket
           /\ incoming \in Thread /\ outgoing \in Thread /\ Worker \subseteq Thread
           /\ incoming # outgoing /\ incoming \notin Worker /\ outgoing \notin Worker
<1>1. Null \notin Node
  BY MapAssumption
<1>2. \A n \in Node : KeyOf[n] \in Key /\ KeyOf[n] \in DOMAIN BucketOf
  BY MapAssumption DEF KeyOf, BucketOf, Key
<1>3. \A k \in Key : k \in DOMAIN BucketOf
  BY <1>2 DEF Key
<1>4. \A k \in DOMAIN BucketOf : BucketOf[k] \in Bucket
  BY DEF Bucket
<1>5. /\ incoming \in Thread /\ outgoing \in Thread /\ Worker \subseteq Thread
      /\ incoming # outgoing /\ incoming \notin Worker /\ outgoing \notin Worker
  BY MapAssumption DEF Thread
<1> QED
  BY <1>1, <1>2, <1>3, <1>4, <1>5 DEF BucketFor

\* A set of natural numbers that is not empty has a least member.
LEMMA LeastNumber ==
    ASSUME NEW S \in SUBSET Nat, S # {}
    PROVE  \E x \in S : \A y \in S : x <= y
<1> DEFINE R == OpToRel(<, Nat)
<1>1. IsWellFoundedOn(R, Nat)
  BY NatLessThanWellFounded
<1>2. \A x, y \in Nat : <<y, x>> \in R <=> y < x
  BY DEF OpToRel
<1> HIDE DEF R
<1>3. PICK x \in S : \A y \in S : ~(<<y, x>> \in R)
  BY <1>1, WFMin
<1>4. ASSUME NEW y \in S PROVE x <= y
  <2>1. ~(<<y, x>> \in R) /\ x \in Nat /\ y \in Nat
    BY <1>3
  <2> QED
    BY <1>2, <2>1
<1> QED
  BY <1>4

\* Of a set of nodes that is not empty, one has the least number.
LEMMA OldestNode ==
    ASSUME MemoryOK, NEW S \in SUBSET Node, S # {}
    PROVE  \E x \in S : \A y \in S : linkedAt[x] <= linkedAt[y]
<1>1. PICK T : T = {linkedAt[x] : x \in S}
  OBVIOUS
<1>2. linkedAt \in [Node -> Nat]
  BY DEF MemoryOK
<1>3. T \in SUBSET Nat /\ T # {}
  BY <1>1, <1>2
<1>4. PICK u \in T : \A v \in T : u <= v
  BY <1>3, LeastNumber
<1> QED
  BY <1>1, <1>4

\* A chain consists of linked nodes of its bucket.
LEMMA ChainMembers ==
    ASSUME ChainInv, NEW b \in Bucket
    PROVE  /\ Chain(b) \in SUBSET Node /\ \A n \in Chain(b) : InBucket(n, b)
           /\ buckets[b] \in Chain(b) \cup {Null}
           /\ Closed(Chain(b), bucketNext)
<1>1. buckets[b] \in Pointer /\ bucketNext \in [Node -> Pointer]
  BY DEF ChainInv, MemoryOK
<1>2. PICK S : S = {n \in Node : InBucket(n, b)}
  OBVIOUS
<1>3. Linked \subseteq Node
  BY DEF Linked
<1>4. buckets[b] \in S \cup {Null}
  BY <1>1, <1>2 DEF ChainInv, ChainsSorted, Heads, Pointer
<1>5. \A m \in S : Follows(m, bucketNext[m]) /\ bucketNext[m] \in Pointer /\ BucketFor(m) = b
  BY <1>1, <1>2 DEF ChainInv, ChainsSorted, InBucket
<1>6. Closed(S, bucketNext)
  BY <1>2, <1>3, <1>5 DEF Closed, Follows, InBucket
<1>7. Chain(b) \subseteq S
  BY <1>2, <1>4, <1>6, WalkWithin DEF Chain
<1>8. /\ Chain(b) \in SUBSET Node /\ Closed(Chain(b), bucketNext)
      /\ buckets[b] \in Chain(b) \cup {Null}
  BY <1>1, WalkIsClosed DEF Chain
<1> QED
  BY <1>2, <1>7, <1>8

\* A chain passes by no live node: the oldest node of it that is not older than the
\* live one is the live one.
LEMMA ChainsFindLive ==
    ASSUME ChainInv
    PROVE  LiveIsFindable
<1> SUFFICES ASSUME NEW n \in Linked \ deleted
             PROVE  n \in Chain(BucketFor(n))
  BY DEF LiveIsFindable
<1>1. PICK b \in Bucket : b = BucketFor(n)
  BY ScenarioFacts DEF ChainInv, MemoryOK, Linked
<1>2. n \in Live(b) /\ n \in Node
  BY <1>1 DEF Live, Linked
<1>3. linkedAt \in [Node -> Nat] /\ MemoryOK
  BY DEF ChainInv, MemoryOK
<1>4. PICK M : M = {x \in Chain(b) : linkedAt[n] <= linkedAt[x]}
  OBVIOUS
<1>5. M \in SUBSET Node
  BY <1>4, ChainMembers
<1>6. M # {}
  BY <1>2, <1>4, ChainMembers DEF ChainInv, ChainsSorted, Heads
<1>7. PICK x \in M : \A y \in M : linkedAt[x] <= linkedAt[y]
  BY <1>3, <1>5, <1>6, OldestNode
<1>8. x \in Chain(b) /\ InBucket(x, b) /\ linkedAt[n] <= linkedAt[x] /\ x \in Node
  BY <1>4, <1>5, <1>7, ChainMembers
<1>9. CASE linkedAt[x] = linkedAt[n]
  BY <1>1, <1>2, <1>8, <1>9 DEF ChainInv, Numbered, InBucket
<1>10. CASE linkedAt[x] # linkedAt[n]
  <2>1. linkedAt[n] < linkedAt[x]
    BY <1>2, <1>3, <1>8, <1>10
  <2>2. Follows(x, bucketNext[x]) /\ BucketFor(x) = b
    BY <1>8 DEF ChainInv, ChainsSorted, InBucket
  <2>3. PICK y : y = bucketNext[x]
    OBVIOUS
  <2>4. y # Null /\ linkedAt[n] <= linkedAt[y] /\ linkedAt[y] < linkedAt[x] /\ InBucket(y, b)
    BY <1>2, <2>1, <2>2, <2>3 DEF Follows
  <2>5. y \in Chain(b)
    BY <1>8, <2>3, <2>4, ChainMembers DEF Closed
  <2>6. y \in M /\ y \in Node
    BY <1>4, <1>5, <2>4, <2>5
  <2>7. linkedAt[x] <= linkedAt[y]
    BY <1>7, <2>6
  <2> QED
    BY <1>3, <1>8, <2>4, <2>6, <2>7
<1> QED
  BY <1>9, <1>10

\* Of the nodes of a chain that match, the one linked last comes first.
LEMMA FirstMatch ==
    ASSUME ChainInv, NEW b \in Bucket, NEW M \in SUBSET Chain(b), M # {}
    PROVE  \E n \in M : M \subseteq Walk(n, bucketNext)
<1>1. /\ bucketNext \in [Node -> Pointer] /\ linkedAt \in [Node -> Nat] /\ links[b] \in Nat
      /\ buckets[b] \in Pointer
  BY DEF ChainInv, MemoryOK
<1>2. PICK C : C = Chain(b)
  OBVIOUS
<1>3. /\ C \in SUBSET Node /\ \A x \in C : InBucket(x, b)
      /\ buckets[b] \in C \cup {Null} /\ Closed(C, bucketNext)
  BY <1>2, ChainMembers
<1>4. \A x \in C : linkedAt[x] <= links[b] /\ Follows(x, bucketNext[x])
  BY <1>3 DEF ChainInv, Numbered, ChainsSorted, InBucket
<1>5. PICK n \in M : \A y \in M : linkedAt[y] <= linkedAt[n]
  <2>1. PICK T : T = {links[b] - linkedAt[x] : x \in M}
    OBVIOUS
  <2>2. \A x \in M : links[b] - linkedAt[x] \in Nat
    BY <1>1, <1>2, <1>3, <1>4
  <2>3. T \in SUBSET Nat /\ T # {}
    BY <2>1, <2>2
  <2>4. PICK u \in T : \A v \in T : u <= v
    BY <2>3, LeastNumber
  <2>5. PICK n \in M : u = links[b] - linkedAt[n]
    BY <2>1
  <2>6. ASSUME NEW y \in M PROVE linkedAt[y] <= linkedAt[n]
    <3>1. links[b] - linkedAt[n] <= links[b] - linkedAt[y]
      BY <2>1, <2>4, <2>5
    <3>2. linkedAt[y] \in Nat /\ linkedAt[n] \in Nat
      BY <1>1, <1>2, <1>3
    <3> QED
      BY <1>1, <3>1, <3>2
  <2> QED
    BY <2>6
<1>6. n \in C /\ n \in Node
  BY <1>2, <1>3, <1>5
\* What can be reached from a node of the chain was not linked after it.
<1>7. ASSUME NEW m \in C, n \in Walk(m, bucketNext)
      PROVE  linkedAt[n] <= linkedAt[m]
  <2>1. PICK S : S = {x \in C : linkedAt[x] <= linkedAt[m]}
    OBVIOUS
  <2>2. S \in SUBSET Node /\ m \in S \cup {Null}
    BY <1>1, <1>3, <2>1
  <2>3. ASSUME NEW x \in S, bucketNext[x] # Null PROVE bucketNext[x] \in S
    <3>1. PICK y : y = bucketNext[x]
      OBVIOUS
    <3>2. x \in C /\ y \in C /\ linkedAt[y] < linkedAt[x] /\ linkedAt[x] <= linkedAt[m]
      BY <1>3, <1>4, <2>1, <2>3, <3>1 DEF Closed, Follows
    <3>3. linkedAt[x] \in Nat /\ linkedAt[y] \in Nat /\ linkedAt[m] \in Nat
      BY <1>1, <1>3, <3>2
    <3>4. linkedAt[y] <= linkedAt[m]
      BY <3>2, <3>3
    <3> QED
      BY <2>1, <3>1, <3>2, <3>4
  <2>4. Closed(S, bucketNext)
    BY <2>3 DEF Closed
  <2>5. Walk(m, bucketNext) \subseteq S
    BY <2>2, <2>4, WalkWithin
  <2> QED
    BY <1>7, <2>1, <2>5
\* Every node of the chain is before n or can be reached from it.
<1>8. PICK N : N = Walk(n, bucketNext)
  OBVIOUS
<1>9. N \in SUBSET Node /\ n \in N /\ Closed(N, bucketNext)
  BY <1>1, <1>6, <1>8, WalkIsClosed, MapAssumption DEF Pointer
<1>10. PICK T : T = N \cup {x \in C : n \in Walk(x, bucketNext)}
  OBVIOUS
<1>11. T \in SUBSET Node
  BY <1>3, <1>9, <1>10
<1>12. buckets[b] \in T \cup {Null}
  BY <1>2, <1>3, <1>6, <1>10 DEF Chain
<1>13. ASSUME NEW x \in T, bucketNext[x] # Null PROVE bucketNext[x] \in T
  <2>1. CASE x \in N
    BY <1>9, <1>10, <1>13, <2>1 DEF Closed
  <2>2. CASE x \notin N
    <3>1. x \in C /\ n \in Walk(x, bucketNext) /\ x # n /\ x \in Node
      BY <1>3, <1>9, <1>10, <2>2
    <3>2. n \in Walk(bucketNext[x], bucketNext)
      BY <1>1, <3>1, WalkStep
    <3>3. bucketNext[x] \in C
      BY <1>3, <1>13, <3>1 DEF Closed
    <3> QED
      BY <1>10, <3>2, <3>3
  <2> QED
    BY <2>1, <2>2
<1>14. Closed(T, bucketNext)
  BY <1>13 DEF Closed
<1>15. C \subseteq T
  BY <1>2, <1>11, <1>12, <1>14, WalkWithin DEF Chain
<1>16. ASSUME NEW m \in M PROVE m \in N
  <2>1. CASE n \in Walk(m, bucketNext)
    <3>1. m \in C /\ linkedAt[n] <= linkedAt[m] /\ linkedAt[m] <= linkedAt[n]
      BY <1>2, <1>5, <1>7, <2>1
    <3>2. linkedAt[m] = linkedAt[n]
      BY <1>1, <1>3, <1>6, <3>1
    <3>3. m = n
      BY <1>3, <1>6, <3>1, <3>2 DEF ChainInv, Numbered, InBucket
    <3> QED
      BY <1>9, <3>3
  <2>2. CASE n \notin Walk(m, bucketNext)
    BY <1>2, <1>10, <1>15, <2>2
  <2> QED
    BY <2>1, <2>2
<1> QED
  BY <1>5, <1>8, <1>16

\* find_in_bucket returns a node of the chain that has the key, if there is one.
LEMMA FindFacts ==
    ASSUME ChainInv, NEW k \in Key
    PROVE  \/ /\ find_in_bucket(k) = Null
              /\ \A m \in Chain(BucketOf[k]) : KeyOf[m] # k
           \/ /\ find_in_bucket(k) \in Chain(BucketOf[k]) /\ find_in_bucket(k) \in Node
              /\ KeyOf[find_in_bucket(k)] = k
              /\ BucketFor(find_in_bucket(k)) = BucketOf[k]
<1>1. PICK b \in Bucket : b = BucketOf[k]
  BY ScenarioFacts DEF ChainInv, MemoryOK
<1>2. PICK M : M = {n \in Chain(b) : KeyOf[n] = k}
  OBVIOUS
<1>3. find_in_bucket(k) = IF M = {} THEN Null
                          ELSE CHOOSE n \in M : M \subseteq Walk(n, bucketNext)
  BY <1>1, <1>2 DEF find_in_bucket
<1>4. CASE M = {}
  BY <1>1, <1>2, <1>3, <1>4
<1>5. CASE M # {}
  <2>1. \E n \in M : M \subseteq Walk(n, bucketNext)
    BY <1>2, <1>5, FirstMatch
  <2>2. find_in_bucket(k) \in M
    BY <1>3, <1>5, <2>1
  <2>3. Chain(b) \in SUBSET Node
    BY ChainMembers
  <2> QED
    BY <1>1, <1>2, <2>2, <2>3 DEF BucketFor
<1> QED
  BY <1>4, <1>5

\* The predecessor that find_in_bucket returns.
LEMMA PrevFacts ==
    ASSUME ChainInv, NEW n \in Node, n \in Chain(BucketFor(n))
    PROVE  PrevOf(n) = Null \/ InBucket(PrevOf(n), BucketFor(n))
<1>1. PICK b \in Bucket : b = BucketFor(n)
  BY ScenarioFacts DEF ChainInv, MemoryOK
<1>2. CASE buckets[b] = n
  BY <1>1, <1>2 DEF PrevOf
<1>3. CASE buckets[b] # n
  <2>1. PICK C : C = Chain(b)
    OBVIOUS
  <2>2. /\ C \in SUBSET Node /\ buckets[b] \in C \cup {Null} /\ Closed(C, bucketNext)
        /\ \A m \in C : InBucket(m, b)
    BY <2>1, ChainMembers
  <2>3. \E m \in C : bucketNext[m] = n
    <3> SUFFICES ASSUME \A m \in C : bucketNext[m] # n PROVE FALSE
      OBVIOUS
    <3>1. PICK S : S = C \ {n}
      OBVIOUS
    <3>2. S \in SUBSET Node /\ buckets[b] \in S \cup {Null} /\ Closed(S, bucketNext)
      BY <1>3, <2>2, <3>1 DEF Closed
    <3>3. Chain(b) \subseteq S
      BY <3>2, WalkWithin DEF Chain
    <3> QED
      BY <1>1, <3>1, <3>3
  <2>4. PrevOf(n) = CHOOSE m \in C : bucketNext[m] = n
    BY <1>1, <1>3, <2>1 DEF PrevOf
  <2>5. PrevOf(n) \in C
    BY <2>3, <2>4
  <2> QED
    BY <1>1, <2>2, <2>5
<1> QED
  BY <1>2, <1>3

-----------------------------------------------------------------------------
(* The chains keep their order.                                               *)

chainVars == <<chains, age, deleted, used, inserted, scenario>>

LEMMA InitChain ==
    ASSUME MapInit
    PROVE  ChainInv
<1>1. scenario \in Scenario /\ Linked = {}
  BY DEF MapInit, Linked
<1>2. MemoryOK
  BY <1>1 DEF MapInit, MemoryOK, Pointer
<1>3. OwnNodes
  BY ScenarioFacts, <1>1 DEF MapInit, OwnNodes
<1>4. Numbered
  BY <1>1 DEF Numbered
<1>5. ChainsSorted
  BY <1>1 DEF MapInit, ChainsSorted, Heads, Live
<1>6. ASSUME NEW t \in Thread PROVE Ready(t, pc[t], loc[t])
  <2>1. pc[t] = "idle" /\ loc[t] = Idle
    BY <1>6 DEF MapInit
  <2>2. Typed(t, "idle", Idle)
    BY DEF Typed, Label, Idle, Pointer
  <2>3. InsertReady(t, "idle", Idle) /\ SwapReady("idle", Idle) /\ RemoveReady("idle", Idle)
    BY DEF InsertReady, SwapReady, RemoveReady, Unlinked, Unlisted, Listing, Removing
  <2> QED
    BY <2>1, <2>2, <2>3 DEF Ready
<1> QED
  BY <1>2, <1>3, <1>4, <1>5, <1>6 DEF ChainInv

LEMMA GotoFacts ==
    ASSUME MemoryOK, NEW t \in Thread, NEW label, NEW l, Goto(t, label, l)
    PROVE  /\ DOMAIN pc' = Thread /\ DOMAIN loc' = Thread /\ pc'[t] = label /\ loc'[t] = l
           /\ \A u \in Thread : u # t => pc'[u] = pc[u] /\ loc'[u] = loc[u]
BY DEF MemoryOK, Goto

\* A thread that waits for a call may be idle.
LEMMA IdleReady ==
    ASSUME NEW t \in Thread
    PROVE  Ready(t, "idle", Idle)
<1>1. Typed(t, "idle", Idle)
  BY DEF Typed, Label, Idle, Pointer
<1> QED
  BY <1>1 DEF Ready, InsertReady, SwapReady, RemoveReady, Unlinked, Unlisted, Listing, Removing

\* What a step leaves alone in the chains it leaves alone in what is said of them.
LEMMA ChainsKept ==
    ASSUME Numbered, ChainsSorted, UNCHANGED chainVars
    PROVE  /\ Numbered' /\ ChainsSorted'
           /\ \A u, x, k : Ready(u, x, k)' <=> Ready(u, x, k)
           /\ Linked' = Linked /\ Key' = Key /\ Bucket' = Bucket
<1> USE DEF chainVars, chains, age
<1>1. /\ Linked' = Linked /\ KeyOf' = KeyOf /\ BucketOf' = BucketOf
      /\ Bucket' = Bucket /\ Key' = Key
  BY DEF Linked, KeyOf, BucketOf, Bucket, Key
<1>2. \A n : BucketFor(n)' = BucketFor(n)
  BY <1>1 DEF BucketFor
<1>3. \A b : Live(b)' = Live(b)
  BY <1>1, <1>2 DEF Live
<1>4. \A p, b : InBucket(p, b)' <=> InBucket(p, b)
  BY <1>1, <1>2 DEF InBucket
<1>5. /\ \A m, p : Follows(m, p)' <=> Follows(m, p)
      /\ \A b, p : Heads(b, p)' <=> Heads(b, p)
  BY <1>2, <1>3, <1>4 DEF Follows, Heads
<1>6. Numbered'
  BY <1>1, <1>2 DEF Numbered
<1>7. ChainsSorted'
  <2>1. \A b \in Bucket : Heads(b, buckets[b])
    BY DEF ChainsSorted
  <2>2. ASSUME NEW b \in Bucket PROVE Heads(b, buckets[b])'
    <3>1. PICK p : p = buckets[b]
      OBVIOUS
    <3>2. Heads(b, p)'
      BY <1>5, <2>1, <3>1
    <3> QED
      BY <3>1, <3>2
  <2>3. \A m \in Linked : Follows(m, bucketNext[m])
    BY DEF ChainsSorted
  <2>4. ASSUME NEW m \in Linked PROVE Follows(m, bucketNext[m])'
    <3>1. PICK p : p = bucketNext[m]
      OBVIOUS
    <3>2. Follows(m, p)'
      BY <1>5, <2>3, <3>1
    <3> QED
      BY <3>1, <3>2
  <2> QED
    BY <1>1, <2>2, <2>4 DEF ChainsSorted
<1>8. ASSUME NEW u, NEW x, NEW k PROVE Ready(u, x, k)' <=> Ready(u, x, k)
  <2>1. Typed(u, x, k)' <=> Typed(u, x, k)
    BY <1>1 DEF Typed
  <2>2. InsertReady(u, x, k)' <=> InsertReady(u, x, k)
    BY <1>1 DEF InsertReady
  <2>3. SwapReady(x, k)' <=> SwapReady(x, k)
    BY <1>2, <1>4 DEF SwapReady
  <2>4. RemoveReady(x, k)' <=> RemoveReady(x, k)
    BY <1>1, <1>2, <1>4, <1>5 DEF RemoveReady
  <2> QED
    BY <2>1, <2>2, <2>3, <2>4 DEF Ready
<1> QED
  BY <1>1, <1>6, <1>7, <1>8

LEMMA MemoryKept ==
    ASSUME MemoryOK, UNCHANGED chainVars, orderNext' \in [Node -> Pointer],
           orderHead' \in Pointer, orderTail' \in Pointer, collections' \in Nat,
           allNodes' \subseteq used, freed' \subseteq used,
           DOMAIN pc' = Thread, DOMAIN loc' = Thread
    PROVE  MemoryOK'
<1>1. Linked' = Linked /\ Bucket' = Bucket
  BY DEF chainVars, chains, age, Linked, Bucket, BucketOf
<1> QED
  BY <1>1 DEF MemoryOK, chainVars, chains, age

\* A worker keeps its node to itself.
LEMMA OwnersKept ==
    ASSUME MemoryOK, OwnNodes, NEW t \in Thread, NEW label, NEW l, Goto(t, label, l),
           t \in Worker /\ label # "idle" => pc[t] # "idle" /\ l.node = loc[t].node
    PROVE  OwnNodes'
<1>1. /\ pc'[t] = label /\ loc'[t] = l
      /\ \A u \in Thread : u # t => pc'[u] = pc[u] /\ loc'[u] = loc[u]
  BY GotoFacts
<1>2. Worker \subseteq Thread
  BY DEF Thread
<1> QED
  BY <1>1, <1>2 DEF OwnNodes

\* A step of one thread that leaves the chains alone.
LEMMA QuietStep ==
    ASSUME ChainInv, MemoryOK', UNCHANGED chainVars, NEW t \in Thread, NEW label, NEW l,
           Goto(t, label, l), Ready(t, label, l),
           t \in Worker /\ label # "idle" => pc[t] # "idle" /\ l.node = loc[t].node
    PROVE  ChainInv'
<1>1. /\ pc'[t] = label /\ loc'[t] = l
      /\ \A u \in Thread : u # t => pc'[u] = pc[u] /\ loc'[u] = loc[u]
  BY GotoFacts DEF ChainInv
<1>2. Numbered' /\ ChainsSorted' /\ \A u, x, k : Ready(u, x, k) => Ready(u, x, k)'
  BY ChainsKept DEF ChainInv
<1>3. OwnNodes'
  BY OwnersKept DEF ChainInv
<1>4. ASSUME NEW u \in Thread PROVE Ready(u, pc[u], loc[u])'
  <2>1. Ready(u, pc[u], loc[u])
    BY DEF ChainInv
  <2>2. PICK x, k : x = pc'[u] /\ k = loc'[u]
    OBVIOUS
  <2>3. Ready(u, x, k)
    BY <1>1, <2>1, <2>2
  <2>4. Ready(u, x, k)'
    BY <1>2, <2>3
  <2> QED
    BY <2>2, <2>4
<1> QED
  BY <1>2, <1>3, <1>4 DEF ChainInv

\* The labels of a worker.
Inserting == Unlinked \cup Unlisted \cup Listing

LEMMA WorkerFacts ==
    ASSUME ChainInv, NEW w \in Worker, pc[w] # "idle"
    PROVE  /\ w \in Thread /\ pc[w] \in Inserting /\ loc[w].node \in Node
           /\ loc[w] \in [node : Pointer, prev : Pointer, next : Pointer]
           /\ loc[w].node \in used \ inserted
           /\ pc[w] \in Unlinked => loc[w].node \notin Linked
           /\ pc[w] \notin Unlinked => loc[w].node \in Linked
           /\ pc[w] \in {"load next", "check tail", "append"} => loc[w].prev \in Node
<1>1. w \in Thread /\ used \subseteq Node
  BY DEF Thread, ChainInv, MemoryOK
<1>2. Ready(w, pc[w], loc[w])
  BY <1>1 DEF ChainInv
<1>3. pc[w] \in Inserting
  BY <1>2 DEF Ready, Typed, Label, Inserting
<1>4. loc[w] \in [node : Pointer, prev : Pointer, next : Pointer \cup Key] /\ loc[w].next \in Pointer
  BY <1>2, <1>3 DEF Ready, Typed, Inserting, Unlinked, Unlisted, Listing
<1>5. loc[w] \in [node : Pointer, prev : Pointer, next : Pointer]
  BY <1>4
<1> QED
  BY <1>1, <1>2, <1>3, <1>5 DEF Ready, InsertReady, Inserting, Typed

\* A worker that goes on with its node within a phase.
LEMMA WorkerReady ==
    ASSUME ChainInv, NEW w \in Worker, pc[w] # "idle", NEW label \in Inserting, NEW l,
           l \in [node : Pointer, prev : Pointer, next : Pointer], l.node = loc[w].node,
           label # "swap head", label \in Unlinked <=> pc[w] \in Unlinked,
           label \in {"load next", "check tail", "append"} => l.prev \in Node
    PROVE  Ready(w, label, l)
<1>1. /\ loc[w].node \in used \ inserted
      /\ pc[w] \in Unlinked => loc[w].node \notin Linked
      /\ pc[w] \notin Unlinked => loc[w].node \in Linked
  BY WorkerFacts
<1>2. label \notin {"find", "idle"} /\ label \notin Removing
  BY DEF Inserting, Unlinked, Unlisted, Listing, Removing
<1>3. Typed(w, label, l)
  BY <1>2 DEF Typed, Label, Inserting
<1>4. label \in Unlisted \cup Listing => label \notin Unlinked
  BY DEF Unlinked, Unlisted, Listing
<1>5. InsertReady(w, label, l)
  BY <1>1, <1>4 DEF InsertReady
<1> QED
  BY <1>2, <1>3, <1>5 DEF Ready, SwapReady, RemoveReady

\* The search is repeated, or given up.
LEMMA InsertRetryChain ==
    ASSUME ChainInv, NEW w \in Worker, InsertRetry(w)
    PROVE  ChainInv'
<1>1. /\ w \in Thread /\ pc[w] = "retry" /\ loc[w].node \in used /\ UNCHANGED chainVars
      /\ loc[w] \in [node : Pointer, prev : Pointer, next : Pointer]
  BY WorkerFacts DEF InsertRetry, chainVars
<1>4. /\ MemoryOK /\ orderNext \in [Node -> Pointer] /\ orderHead \in Pointer
      /\ orderTail \in Pointer /\ allNodes \subseteq used /\ freed \subseteq used
      /\ collections \in Nat
  BY DEF ChainInv, MemoryOK
<1>2. CASE find_in_bucket(KeyOf[loc[w].node]) = Null
  <2>1. PICK l : l = loc[w]
    OBVIOUS
  <2>2. Goto(w, "load head", l) /\ UNCHANGED freed
    BY <1>2, <2>1 DEF InsertRetry
  <2>3. MemoryOK'
    BY <1>1, <1>4, <2>2, GotoFacts, MemoryKept DEF InsertRetry, order
  <2>4. Ready(w, "load head", l)
    BY <1>1, <2>1, WorkerReady DEF Inserting, Unlinked
  <2> QED
    BY <1>1, <2>1, <2>2, <2>3, <2>4, QuietStep
<1>3. CASE find_in_bucket(KeyOf[loc[w].node]) # Null
  <2>1. Goto(w, "idle", Idle) /\ freed' = freed \cup {loc[w].node}
    BY <1>3 DEF InsertRetry, Return
  <2>2. MemoryOK'
    BY <1>1, <1>4, <2>1, GotoFacts, MemoryKept DEF InsertRetry, order
  <2> QED
    BY <1>1, <2>1, <2>2, IdleReady, QuietStep
<1> QED
  BY <1>2, <1>3

\* Phase 2, while the chains rest.
LEMMA PhaseTwoChain ==
    ASSUME ChainInv, NEW w \in Worker,
           LoadTail(w) \/ FirstHead(w) \/ LoadNext(w) \/ CheckTail(w) \/ Append(w)
    PROVE  ChainInv'
<1> DEFINE Loc == [node : Pointer, prev : Pointer, next : Pointer]
<1>1. /\ pc[w] \in Unlisted
      /\ UNCHANGED <<chains, memory, used, inserted, collections, age, scenario>>
  BY DEF LoadTail, FirstHead, LoadNext, CheckTail, Append, Unlisted
<1>2. pc[w] # "idle" /\ pc[w] \notin Unlinked /\ UNCHANGED chainVars
  BY <1>1 DEF Unlisted, Unlinked, chainVars, memory
<1>3. /\ w \in Thread /\ loc[w].node \in Node /\ loc[w] \in Loc
      /\ pc[w] \in {"load next", "check tail", "append"} => loc[w].prev \in Node
  BY <1>2, WorkerFacts
<1>4. /\ MemoryOK /\ orderNext \in [Node -> Pointer] /\ orderHead \in Pointer
      /\ orderTail \in Pointer /\ allNodes \subseteq used /\ freed \subseteq used
      /\ collections \in Nat
  BY DEF ChainInv, MemoryOK
\* Where the thread goes, and what it does to the order list.
<1>5. /\ orderNext' \in [Node -> Pointer] /\ orderHead' \in Pointer /\ orderTail' \in Pointer
      /\ \E label \in Unlisted \cup Listing, l \in Loc :
            /\ Goto(w, label, l) /\ l.node = loc[w].node
            /\ label \in {"load next", "check tail", "append"} => l.prev \in Node
  <2>1. CASE LoadTail(w)
    <3>1. PICK l : l = [loc[w] EXCEPT !.prev = orderTail]
      OBVIOUS
    <3>2. l \in Loc /\ l.node = loc[w].node /\ l.prev = orderTail
      BY <1>3, <1>4, <3>1
    <3>3. PICK label \in {"first head", "load next"} :
             Goto(w, label, l) /\ (label = "load next" => orderTail # Null)
      BY <2>1, <3>1 DEF LoadTail
    <3>4. label \in Unlisted /\ (label \in {"load next", "check tail", "append"} => l.prev \in Node)
      BY <1>4, <3>2, <3>3 DEF Unlisted, Pointer
    <3>5. UNCHANGED order
      BY <2>1 DEF LoadTail
    <3> QED
      BY <1>4, <3>2, <3>3, <3>4, <3>5 DEF order
  <2>2. CASE FirstHead(w)
    <3>1. orderNext' \in [Node -> Pointer] /\ orderHead' \in Pointer /\ orderTail' \in Pointer
      BY <1>3, <1>4, <2>2 DEF FirstHead, Pointer
    <3>2. PICK label \in {"first tail", "load tail"} : Goto(w, label, loc[w])
      BY <2>2 DEF FirstHead
    <3>3. label \in Unlisted \cup Listing /\ label \notin {"load next", "check tail", "append"}
      BY DEF Unlisted, Listing
    <3> QED
      BY <1>3, <3>1, <3>2, <3>3
  <2>3. CASE LoadNext(w)
    <3>1. PICK l : l = [loc[w] EXCEPT !.next = orderNext[loc[w].prev]]
      OBVIOUS
    <3>2. loc[w].prev \in Node
      BY <1>3, <2>3 DEF LoadNext
    <3>3. l \in Loc /\ l.node = loc[w].node /\ l.prev \in Node
      BY <1>3, <1>4, <3>1, <3>2
    <3> QED
      BY <1>4, <2>3, <3>1, <3>3 DEF LoadNext, order, Unlisted
  <2>4. CASE CheckTail(w)
    <3>1. orderNext' \in [Node -> Pointer] /\ orderHead' \in Pointer /\ orderTail' \in Pointer
      BY <1>3, <1>4, <2>4 DEF CheckTail
    <3>2. (Goto(w, "append", loc[w]) \/ Goto(w, "load tail", loc[w])) /\ loc[w].prev \in Node
      BY <1>3, <2>4 DEF CheckTail
    <3> QED
      BY <1>3, <3>1, <3>2 DEF Unlisted
  <2>5. CASE Append(w)
    <3>1. orderNext' \in [Node -> Pointer] /\ orderHead' \in Pointer /\ orderTail' \in Pointer
      BY <1>3, <1>4, <2>5 DEF Append, Pointer
    <3>2. PICK label \in {"swing tail", "load tail"} : Goto(w, label, loc[w])
      BY <2>5 DEF Append
    <3>3. label \in Unlisted \cup Listing /\ label \notin {"load next", "check tail", "append"}
      BY DEF Unlisted, Listing
    <3> QED
      BY <1>3, <3>1, <3>2, <3>3
  <2> QED
    BY <2>1, <2>2, <2>3, <2>4, <2>5
<1>6. PICK label \in Unlisted \cup Listing, l \in Loc :
            /\ Goto(w, label, l) /\ l.node = loc[w].node
            /\ label \in {"load next", "check tail", "append"} => l.prev \in Node
  BY <1>5
<1>7. MemoryOK'
  BY <1>1, <1>2, <1>3, <1>4, <1>5, <1>6, GotoFacts, MemoryKept DEF memory
<1>8. Ready(w, label, l)
  <2>1. label \in Inserting /\ label # "swap head" /\ label \notin Unlinked
    BY DEF Inserting, Unlisted, Listing, Unlinked
  <2> QED
    BY <1>2, <1>6, <2>1, WorkerReady
<1> QED
  BY <1>2, <1>3, <1>6, <1>7, <1>8, QuietStep

LEMMA RemoverFacts ==
    ASSUME ChainInv, NEW r \in {incoming, outgoing}
    PROVE  /\ r \in Thread /\ r \notin Worker /\ Ready(r, pc[r], loc[r])
           /\ pc[r] # "find" => loc[r] \in [node : Pointer, prev : Pointer, next : Pointer]
           /\ pc[r] = "find" => loc[r].next \in Key
           /\ pc[r] \in Removing => loc[r].node \in Linked /\ loc[r].node \in Node
<1>1. r \in Thread /\ r \notin Worker
  BY MapAssumption DEF Thread
<1>2. Ready(r, pc[r], loc[r])
  BY <1>1 DEF ChainInv
<1>3. /\ loc[r] \in [node : Pointer, prev : Pointer, next : Pointer \cup Key]
      /\ pc[r] # "find" => loc[r].next \in Pointer
      /\ pc[r] = "find" => loc[r].next \in Key
  BY <1>2 DEF Ready, Typed
<1> QED
  BY <1>1, <1>2, <1>3 DEF Ready, RemoveReady, Linked

\* Where a thread that inserts nothing may go.
LEMMA RemoverReady ==
    ASSUME NEW r \in {incoming, outgoing}, NEW label \in Label(r), NEW l,
           l \in [node : Pointer, prev : Pointer, next : Pointer],
           label # "find", label # "idle", RemoveReady(label, l)
    PROVE  Ready(r, label, l)
<1>1. r \notin Worker
  BY MapAssumption
<1>2. label \notin {"load next", "check tail", "append", "swap head"}
  BY <1>1 DEF Label, Removing, Cleaning
<1>3. Typed(r, label, l)
  BY <1>2 DEF Typed
<1> QED
  BY <1>1, <1>2, <1>3 DEF Ready, InsertReady, SwapReady

\* A call of remove and its search.
LEMMA RemoveCallChain ==
    ASSUME ChainInv, NEW r \in {incoming, outgoing}, NEW k \in Key, RemoveCall(r, k)
    PROVE  ChainInv'
<1>1. PICK l : l = [Idle EXCEPT !.next = k]
  OBVIOUS
<1>2. l \in [node : Pointer, prev : Pointer, next : Pointer \cup Key] /\ l.next = k
  BY <1>1 DEF Idle, Pointer
<1>3. r \in Thread /\ r \notin Worker
  BY RemoverFacts
<1>4. Goto(r, "find", l) /\ UNCHANGED <<chains, order, memory, used, inserted, collections, age, scenario>>
  BY <1>1 DEF RemoveCall
<1>5. MemoryOK'
  <2>1. MemoryOK
    BY DEF ChainInv
  <2> QED
    BY <1>3, <1>4, <2>1, GotoFacts, MemoryKept DEF chainVars, memory, order, MemoryOK
<1>6. Ready(r, "find", l)
  <2>1. Typed(r, "find", l)
    BY <1>2, <1>3 DEF Typed, Label
  <2> QED
    BY <1>3, <2>1 DEF Ready, InsertReady, SwapReady, RemoveReady, Removing
<1>7. UNCHANGED chainVars
  BY <1>4 DEF chainVars, memory
<1> QED
  BY <1>3, <1>4, <1>5, <1>6, <1>7, QuietStep

LEMMA RemoveFindChain ==
    ASSUME ChainInv, NEW r \in {incoming, outgoing}, RemoveFind(r)
    PROVE  ChainInv'
<1>1. /\ r \in Thread /\ r \notin Worker /\ pc[r] = "find" /\ loc[r].next \in Key
      /\ UNCHANGED <<chains, order, memory, used, inserted, collections, age, scenario>>
  BY RemoverFacts DEF RemoveFind
<1>2. UNCHANGED chainVars
  BY <1>1 DEF chainVars, memory
<1>3. ASSUME NEW label, NEW l, Goto(r, label, l), Ready(r, label, l)
      PROVE  ChainInv'
  <2>1. MemoryOK
    BY DEF ChainInv
  <2>2. MemoryOK'
    BY <1>1, <1>2, <1>3, <2>1, GotoFacts, MemoryKept DEF memory, order, MemoryOK
  <2> QED
    BY <1>1, <1>2, <1>3, <2>2, QuietStep
<1>4. PICK n : n = find_in_bucket(loc[r].next)
  OBVIOUS
<1>5. CASE n = Null
  <2>1. Goto(r, "idle", Idle)
    BY <1>4, <1>5 DEF RemoveFind, Return
  <2> QED
    BY <1>1, <1>3, <2>1, IdleReady
<1>6. CASE n # Null
  <2>1. n \in Node /\ n \in Chain(BucketFor(n))
    <3>1. PICK k \in Key : k = loc[r].next
      BY <1>1
    <3> QED
      BY <1>4, <1>6, <3>1, FindFacts
  <2>2. PICK b \in Bucket : b = BucketFor(n)
    BY <2>1, ScenarioFacts DEF ChainInv, MemoryOK
  <2>3. n \in Linked
    BY <2>1, <2>2, ChainMembers DEF InBucket
  <2>4. PICK p : p = PrevOf(n)
    OBVIOUS
  <2>5. p = Null \/ InBucket(p, BucketFor(n))
    BY <2>1, <2>4, PrevFacts
  <2>6. PICK l : l = [Idle EXCEPT !.node = n, !.prev = p]
    OBVIOUS
  <2>7. /\ l \in [node : Pointer, prev : Pointer, next : Pointer]
        /\ l.node = n /\ l.prev = p
    BY <2>1, <2>5, <2>6 DEF Idle, Pointer, InBucket, Linked
  <2>8. Goto(r, "mark", l)
    BY <1>4, <1>6, <2>4, <2>6 DEF RemoveFind
  <2>9. RemoveReady("mark", l)
    BY <2>3, <2>5, <2>7 DEF RemoveReady
  <2>10. "mark" \in Label(r)
    BY <1>1 DEF Label, Removing
  <2>11. Ready(r, "mark", l)
    BY <2>7, <2>9, <2>10, RemoverReady
  <2> QED
    BY <1>3, <2>8, <2>11
<1> QED
  BY <1>5, <1>6

\* try_unlink_bucket's loads.
LEMMA LoadPrevChain ==
    ASSUME ChainInv, NEW r \in {incoming, outgoing}, LoadPrev(r)
    PROVE  ChainInv'
<1>1. /\ r \in Thread /\ r \notin Worker /\ pc[r] = "load prev" /\ pc[r] \in Removing
      /\ UNCHANGED <<chains, order, memory, used, inserted, collections, age, scenario>>
  BY RemoverFacts DEF LoadPrev, Removing
<1>2. /\ Ready(r, pc[r], loc[r]) /\ loc[r].node \in Linked /\ loc[r].node \in Node
      /\ loc[r] \in [node : Pointer, prev : Pointer, next : Pointer]
  BY <1>1, RemoverFacts
<1>3. UNCHANGED chainVars
  BY <1>1 DEF chainVars, memory
<1>4. ASSUME NEW label, NEW l, Goto(r, label, l), Ready(r, label, l)
      PROVE  ChainInv'
  <2>1. MemoryOK
    BY DEF ChainInv
  <2>2. MemoryOK'
    BY <1>1, <1>3, <1>4, <2>1, GotoFacts, MemoryKept DEF memory, order, MemoryOK
  <2> QED
    BY <1>1, <1>3, <1>4, <2>2, QuietStep
<1>5. CASE Return(r)
  BY <1>1, <1>4, <1>5, IdleReady DEF Return
<1>6. CASE ~Return(r)
  <2>1. PICK n, p : n = loc[r].node /\ p = bucketNext[loc[r].node]
    OBVIOUS
  <2>2. p \in Pointer /\ Follows(n, p)
    BY <1>2, <2>1 DEF ChainInv, MemoryOK, ChainsSorted
  <2>3. PICK l : l = [loc[r] EXCEPT !.next = p]
    OBVIOUS
  <2>4. /\ l \in [node : Pointer, prev : Pointer, next : Pointer]
        /\ l.node = n /\ l.prev = loc[r].prev /\ l.next = p
    BY <1>2, <2>1, <2>2, <2>3
  <2>5. Goto(r, "unlink", l)
    BY <1>6, <2>1, <2>3 DEF LoadPrev
  <2>6. RemoveReady("load prev", loc[r])
    BY <1>1, <1>2 DEF Ready
  <2>7. RemoveReady("unlink", l)
    BY <2>1, <2>2, <2>4, <2>6 DEF RemoveReady, Removing
  <2>8. "unlink" \in Label(r)
    BY <1>1 DEF Label, Removing
  <2>9. Ready(r, "unlink", l)
    BY <2>4, <2>7, <2>8, RemoverReady
  <2> QED
    BY <1>4, <2>5, <2>9
<1> QED
  BY <1>5, <1>6

\* The collector does not touch the chains.
LEMMA CollectChain ==
    ASSUME ChainInv, CollectGarbage
    PROVE  ChainInv'
<1> DEFINE Loc == [node : Pointer, prev : Pointer, next : Pointer]
<1>1. /\ outgoing \in Thread /\ outgoing \notin Worker
      /\ pc[outgoing] # "find" => loc[outgoing] \in Loc
  BY RemoverFacts
<1>2. /\ MemoryOK /\ orderNext \in [Node -> Pointer] /\ orderHead \in Pointer
      /\ orderTail \in Pointer /\ allNodes \subseteq used /\ freed \subseteq used
      /\ collections \in Nat
  BY DEF ChainInv, MemoryOK
<1>3. UNCHANGED chainVars
  BY DEF CollectGarbage, GcBegin, GcNext, GcCheck, GcTail, GcSweep, chainVars, memory
<1>4. /\ orderNext' \in [Node -> Pointer] /\ orderHead' \in Pointer /\ orderTail' \in Pointer
      /\ allNodes' \subseteq used /\ freed' \subseteq used /\ collections' \in Nat
  <2>1. CASE GcBegin
    <3>1. /\ UNCHANGED <<orderNext, orderHead, orderTail, allNodes, freed>>
          /\ collections' = collections + 1
      BY <2>1 DEF GcBegin, order, memory
    <3> QED
      BY <1>2, <3>1
  <2>5. CASE GcNext
    <3>1. UNCHANGED <<orderNext, orderHead, orderTail, allNodes, freed, collections>>
      BY <2>5 DEF GcNext, order, memory
    <3> QED
      BY <1>2, <3>1
  <2>2. CASE GcCheck
    <3>1. loc[outgoing] \in Loc
      BY <1>1, <2>2 DEF GcCheck
    <3>2. loc[outgoing].next \in Pointer
      BY <3>1
    <3>3. orderNext' \in [Node -> Pointer] /\ orderHead' \in Pointer /\ orderTail' \in Pointer
      BY <1>2, <2>2, <3>2 DEF GcCheck
    <3> QED
      BY <1>2, <2>2, <3>3 DEF GcCheck, memory
  <2>3. CASE GcTail
    BY <1>1, <1>2, <2>3 DEF GcTail, memory
  <2>4. CASE GcSweep
    BY <1>2, <2>4 DEF GcSweep, order
  <2> QED
    BY <2>1, <2>2, <2>3, <2>4, <2>5 DEF CollectGarbage
<1>5. \E label \in Cleaning \cup {"gc sweep"}, l \in Loc : Goto(outgoing, label, l) \/ Return(outgoing)
  <2>1. Idle \in Loc
    BY DEF Idle, Pointer
  <2>2. CASE GcBegin
    <3>1. [Idle EXCEPT !.node = orderHead] \in Loc
      BY <1>2 DEF Idle, Pointer
    <3> QED
      BY <2>2, <3>1 DEF GcBegin, Cleaning
  <2>3. CASE GcNext
    <3>1. CASE loc[outgoing].node = Null
      BY <2>1, <2>3, <3>1 DEF GcNext
    <3>2. CASE loc[outgoing].node # Null
      <4>1. PICK l : l = [loc[outgoing] EXCEPT !.next = orderNext[loc[outgoing].node]]
        OBVIOUS
      <4>2. l \in Loc
        BY <1>1, <1>2, <2>3, <3>2, <4>1 DEF GcNext, Pointer
      <4> QED
        BY <2>3, <3>2, <4>1, <4>2 DEF GcNext, Cleaning
    <3> QED
      BY <3>1, <3>2
  <2>4. CASE GcCheck
    <3>1. PICK k : k = loc[outgoing]
      OBVIOUS
    <3>2. k \in Loc /\ [Idle EXCEPT !.node = k.next, !.prev = k.node] \in Loc
      BY <1>1, <2>4, <3>1 DEF GcCheck, Idle, Pointer
    <3> QED
      BY <2>4, <3>1, <3>2 DEF GcCheck, Cleaning
  <2>5. CASE GcTail
    <3>1. PICK k : k = loc[outgoing]
      OBVIOUS
    <3>2. k \in Loc /\ [k EXCEPT !.node = k.next, !.next = Null] \in Loc
      BY <1>1, <2>5, <3>1 DEF GcTail, Pointer
    <3> QED
      BY <2>5, <3>1, <3>2 DEF GcTail, Cleaning
  <2>6. CASE GcSweep
    BY <2>1, <2>6 DEF GcSweep
  <2> QED
    BY <2>2, <2>3, <2>4, <2>5, <2>6 DEF CollectGarbage
<1>6. ASSUME NEW label, NEW l, Goto(outgoing, label, l), Ready(outgoing, label, l)
      PROVE  ChainInv'
  <2>1. MemoryOK'
    BY <1>1, <1>2, <1>3, <1>4, <1>6, GotoFacts, MemoryKept
  <2> QED
    BY <1>1, <1>3, <1>6, <2>1, QuietStep
<1>7. CASE Return(outgoing)
  BY <1>1, <1>6, <1>7, IdleReady DEF Return
<1>8. ASSUME NEW label \in Cleaning \cup {"gc sweep"}, NEW l \in Loc, Goto(outgoing, label, l)
      PROVE  ChainInv'
  <2>1. label \in Label(outgoing) /\ label # "find" /\ label # "idle" /\ label \notin Removing
    BY <1>1 DEF Label, Cleaning, Removing
  <2>2. Ready(outgoing, label, l)
    BY <2>1, RemoverReady DEF RemoveReady
  <2> QED
    BY <1>6, <1>8, <2>2
<1> QED
  BY <1>5, <1>7, <1>8

-----------------------------------------------------------------------------
(* The steps that change what the chains are about.                           *)

\* A step that moves no pointer and revives no node.
LEMMA ChainsRest ==
    ASSUME Numbered, ChainsSorted, UNCHANGED <<chains, age, scenario>>,
           deleted \subseteq deleted'
    PROVE  /\ Numbered' /\ ChainsSorted'
           /\ \A u, x, k : Ready(u, x, k) /\ InsertReady(u, x, k)' => Ready(u, x, k)'
           /\ Linked' = Linked /\ Bucket' = Bucket
<1> USE DEF chains, age
<1>1. /\ Linked' = Linked /\ KeyOf' = KeyOf /\ BucketOf' = BucketOf
      /\ Bucket' = Bucket /\ Key' = Key
  BY DEF Linked, KeyOf, BucketOf, Bucket, Key
<1>2. \A n : BucketFor(n)' = BucketFor(n)
  BY <1>1 DEF BucketFor
<1>3. \A b : Live(b)' \subseteq Live(b)
  BY <1>1, <1>2 DEF Live
<1>4. \A p, b : InBucket(p, b)' <=> InBucket(p, b)
  BY <1>1, <1>2 DEF InBucket
<1>5. /\ \A m, p : Follows(m, p) => Follows(m, p)'
      /\ \A b, p : Heads(b, p) => Heads(b, p)'
  BY <1>2, <1>3, <1>4 DEF Follows, Heads
<1>6. Numbered'
  BY <1>1, <1>2 DEF Numbered
<1>7. ChainsSorted'
  <2>1. ASSUME NEW b \in Bucket PROVE Heads(b, buckets[b])'
    <3>1. PICK p : p = buckets[b]
      OBVIOUS
    <3>2. Heads(b, p)'
      BY <1>5, <3>1 DEF ChainsSorted
    <3> QED
      BY <3>1, <3>2
  <2>2. ASSUME NEW m \in Linked PROVE Follows(m, bucketNext[m])'
    <3>1. PICK p : p = bucketNext[m]
      OBVIOUS
    <3>2. Follows(m, p)'
      BY <1>5, <3>1 DEF ChainsSorted
    <3> QED
      BY <3>1, <3>2
  <2> QED
    BY <1>1, <2>1, <2>2 DEF ChainsSorted
<1>8. ASSUME NEW u, NEW x, NEW k, Ready(u, x, k), InsertReady(u, x, k)'
      PROVE  Ready(u, x, k)'
  <2>1. Typed(u, x, k)'
    BY <1>1, <1>8 DEF Ready, Typed
  <2>2. SwapReady(x, k)'
    BY <1>2, <1>4, <1>8 DEF Ready, SwapReady
  <2>3. RemoveReady(x, k)'
    BY <1>1, <1>2, <1>4, <1>5, <1>8 DEF Ready, RemoveReady
  <2> QED
    BY <1>8, <2>1, <2>2, <2>3 DEF Ready
<1> QED
  BY <1>1, <1>6, <1>7, <1>8

\* A node is taken for an insert.
LEMMA InsertFindChain ==
    ASSUME ChainInv, NEW w \in Worker, NEW n \in Node, InsertFind(w, n)
    PROVE  ChainInv'
<1>1. PICK l : l = [Idle EXCEPT !.node = n]
  OBVIOUS
<1>2. l \in [node : Pointer, prev : Pointer, next : Pointer] /\ l.node = n
  BY <1>1 DEF Idle, Pointer
<1>3. /\ n \notin used /\ used' = used \cup {n} /\ allNodes' = allNodes \cup {n}
      /\ Goto(w, "load head", l) /\ pc[w] = "idle"
      /\ UNCHANGED <<chains, order, deleted, freed, inserted, collections, age, scenario>>
  BY <1>1 DEF InsertFind, MayCall
<1>4. MemoryOK /\ w \in Thread /\ Worker \subseteq Thread
  BY DEF ChainInv, Thread
<1>5. /\ DOMAIN pc' = Thread /\ DOMAIN loc' = Thread /\ pc'[w] = "load head" /\ loc'[w] = l
      /\ \A u \in Thread : u # w => pc'[u] = pc[u] /\ loc'[u] = loc[u]
  BY <1>3, <1>4, GotoFacts
<1>6. Linked' = Linked /\ Bucket' = Bucket /\ Numbered' /\ ChainsSorted'
  BY <1>3, ChainsRest DEF ChainInv
<1>7. MemoryOK'
  BY <1>3, <1>4, <1>5, <1>6 DEF MemoryOK, chains, order, age
<1>8. \A u \in Worker : pc[u] # "idle" => loc[u].node \in used
  BY WorkerFacts
<1>9. OwnNodes'
  <2>1. /\ OwnNodes /\ loc'[w].node = n
        /\ \A u \in Worker : u # w => pc'[u] = pc[u] /\ loc'[u] = loc[u]
    BY <1>2, <1>4, <1>5 DEF ChainInv
  <2>2. \A u \in Worker : u # w /\ pc'[u] # "idle" => loc'[u].node # n
    BY <1>3, <1>8, <2>1
  <2> QED
    BY <2>1, <2>2 DEF OwnNodes
<1>10. ASSUME NEW u \in Thread PROVE Ready(u, pc[u], loc[u])'
  <2>1. CASE u = w
    <3>1. n \notin Linked /\ n \notin inserted
      BY <1>3, <1>4 DEF MemoryOK
    <3>2. InsertReady(w, "load head", l)'
      BY <1>2, <1>3, <1>6, <3>1 DEF InsertReady, Unlinked, Unlisted, Listing
    <3>3. Typed(w, "load head", l)'
      BY <1>2 DEF Typed, Label, Unlinked
    <3>4. Ready(w, "load head", l)'
      BY <3>2, <3>3 DEF Ready, SwapReady, RemoveReady, Removing
    <3> QED
      BY <1>5, <2>1, <3>4
  <2>2. CASE u # w
    <3>1. PICK x, k : x = pc[u] /\ k = loc[u]
      OBVIOUS
    <3>2. Ready(u, x, k)
      BY <3>1 DEF ChainInv
    <3>3. InsertReady(u, x, k)'
      BY <1>3, <1>6, <3>2 DEF Ready, InsertReady
    <3>4. Ready(u, x, k)'
      BY <1>3, <3>2, <3>3, ChainsRest DEF ChainInv
    <3> QED
      BY <1>5, <2>2, <3>1, <3>4
  <2> QED
    BY <2>1, <2>2
<1> QED
  BY <1>6, <1>7, <1>9, <1>10 DEF ChainInv

\* An insert that finds the key uses its node up.
LEMMA InsertExistsChain ==
    ASSUME ChainInv, NEW w \in Worker, NEW n \in Node, InsertExists(w, n)
    PROVE  ChainInv'
<1>1. /\ used' = used \cup {n}
      /\ UNCHANGED <<chains, order, memory, pc, loc, inserted, collections, age, scenario>>
  BY DEF InsertExists
<1>2. Linked' = Linked /\ Bucket' = Bucket /\ Numbered' /\ ChainsSorted'
  BY <1>1, ChainsRest DEF ChainInv, memory
<1>3. MemoryOK'
  BY <1>1, <1>2 DEF ChainInv, MemoryOK, chains, order, age, memory
<1>4. OwnNodes'
  BY <1>1 DEF ChainInv, OwnNodes
<1>5. ASSUME NEW u \in Thread PROVE Ready(u, pc[u], loc[u])'
  <2>1. PICK x, k : x = pc[u] /\ k = loc[u]
    OBVIOUS
  <2>2. Ready(u, x, k)
    BY <2>1 DEF ChainInv
  <2>3. InsertReady(u, x, k)'
    BY <1>1, <1>2, <2>2 DEF Ready, InsertReady
  <2>4. Ready(u, x, k)'
    BY <1>1, <2>2, <2>3, ChainsRest DEF ChainInv, memory
  <2> QED
    BY <1>1, <2>1, <2>4
<1> QED
  BY <1>2, <1>3, <1>4, <1>5 DEF ChainInv

\* An insert returns true.
LEMMA ReturnTrueChain ==
    ASSUME ChainInv, NEW w \in Worker, FirstTail(w) \/ SwingTail(w)
    PROVE  ChainInv'
<1>1. /\ pc[w] \in Listing /\ inserted' = inserted \cup {loc[w].node}
      /\ orderTail' = orderTail \/ orderTail' = loc[w].node
      /\ Goto(w, "idle", Idle)
      /\ UNCHANGED <<chains, orderNext, orderHead, memory, used, collections, age, scenario>>
  BY DEF FirstTail, SwingTail, Return, Listing
<1>2. pc[w] # "idle" /\ pc[w] \notin Unlinked
  BY <1>1 DEF Listing, Unlinked
<1>3. MemoryOK /\ w \in Thread /\ Worker \subseteq Thread /\ loc[w].node \in Linked /\ loc[w].node \in Node
  BY <1>2, WorkerFacts DEF ChainInv, Thread
<1>4. /\ DOMAIN pc' = Thread /\ DOMAIN loc' = Thread /\ pc'[w] = "idle" /\ loc'[w] = Idle
      /\ \A u \in Thread : u # w => pc'[u] = pc[u] /\ loc'[u] = loc[u]
  BY <1>1, <1>3, GotoFacts
<1>5. Linked' = Linked /\ Bucket' = Bucket /\ Numbered' /\ ChainsSorted'
  BY <1>1, ChainsRest DEF ChainInv, memory
<1>6. MemoryOK'
  BY <1>1, <1>3, <1>4, <1>5 DEF MemoryOK, chains, age, memory, Pointer
<1>7. OwnNodes'
  BY <1>3, <1>4 DEF ChainInv, OwnNodes
<1>8. ASSUME NEW u \in Thread PROVE Ready(u, pc[u], loc[u])'
  <2>1. CASE u = w
    <3>1. Ready(u, "idle", Idle)
      BY IdleReady
    <3>2. InsertReady(u, "idle", Idle)'
      BY DEF InsertReady, Unlinked, Unlisted, Listing
    <3>3. Ready(u, "idle", Idle)'
      BY <1>1, <3>1, <3>2, ChainsRest DEF ChainInv, memory
    <3> QED
      BY <1>4, <2>1, <3>3
  <2>2. CASE u # w
    <3>1. PICK x, k : x = pc[u] /\ k = loc[u]
      OBVIOUS
    <3>2. Ready(u, x, k)
      BY <3>1 DEF ChainInv
    <3>3. u \in Worker /\ x # "idle" => k.node # loc[w].node
      BY <1>2, <2>2, <3>1 DEF ChainInv, OwnNodes
    <3>4. InsertReady(u, x, k)'
      BY <1>1, <1>5, <3>2, <3>3 DEF Ready, InsertReady
    <3>5. Ready(u, x, k)'
      BY <1>1, <3>2, <3>4, ChainsRest DEF ChainInv, memory
    <3> QED
      BY <1>4, <2>2, <3>1, <3>5
  <2> QED
    BY <2>1, <2>2
<1> QED
  BY <1>5, <1>6, <1>7, <1>8 DEF ChainInv

\* A node is marked as removed.
LEMMA RemoveMarkChain ==
    ASSUME ChainInv, NEW r \in {incoming, outgoing}, RemoveMark(r)
    PROVE  ChainInv'
<1>1. PICK l : l = loc[r]
  OBVIOUS
<1>2. /\ pc[r] = "mark" /\ deleted' = deleted \cup {l.node} /\ Goto(r, "load prev", l)
      /\ UNCHANGED <<chains, order, allNodes, freed, used, inserted, collections, age, scenario>>
  BY <1>1 DEF RemoveMark
<1>3. /\ MemoryOK /\ r \in Thread /\ r \notin Worker /\ Ready(r, "mark", l)
      /\ l \in [node : Pointer, prev : Pointer, next : Pointer]
      /\ l.node \in Linked /\ l.node \in Node
  BY <1>1, <1>2, RemoverFacts DEF ChainInv, Removing
<1>4. /\ DOMAIN pc' = Thread /\ DOMAIN loc' = Thread /\ pc'[r] = "load prev" /\ loc'[r] = l
      /\ \A u \in Thread : u # r => pc'[u] = pc[u] /\ loc'[u] = loc[u]
  BY <1>2, <1>3, GotoFacts
<1>5. Linked' = Linked /\ Bucket' = Bucket /\ Numbered' /\ ChainsSorted'
  BY <1>2, ChainsRest DEF ChainInv
<1>6. MemoryOK'
  BY <1>2, <1>3, <1>4, <1>5 DEF MemoryOK, chains, age, order
<1>7. OwnNodes'
  <2>1. OwnNodes /\ \A u \in Worker : pc'[u] = pc[u] /\ loc'[u] = loc[u]
    BY <1>3, <1>4 DEF ChainInv, Thread
  <2> QED
    BY <2>1 DEF OwnNodes
<1>8. ASSUME NEW u \in Thread PROVE Ready(u, pc[u], loc[u])'
  <2>1. CASE u = r
    <3>1. Ready(r, "load prev", l)'
      <4>1. InsertReady(r, "load prev", l)' /\ SwapReady("load prev", l)'
        BY <1>3 DEF InsertReady, SwapReady
      <4>2. Typed(r, "load prev", l)'
        BY <1>3 DEF Typed, Label, Removing
      <4>3. \A p, b : InBucket(p, b)' <=> InBucket(p, b)
        BY <1>2, <1>5 DEF InBucket, BucketFor, BucketOf, KeyOf
      <4>4. BucketFor(l.node)' = BucketFor(l.node)
        BY <1>2 DEF BucketFor, BucketOf, KeyOf
      <4>5. RemoveReady("load prev", l)'
        BY <1>2, <1>3, <1>5, <4>3, <4>4 DEF Ready, RemoveReady, Removing
      <4> QED
        BY <4>1, <4>2, <4>5 DEF Ready
    <3> QED
      BY <1>4, <2>1, <3>1
  <2>2. CASE u # r
    <3>1. PICK x, k : x = pc[u] /\ k = loc[u]
      OBVIOUS
    <3>2. Ready(u, x, k)
      BY <3>1 DEF ChainInv
    <3>3. InsertReady(u, x, k)'
      BY <1>2, <1>5, <3>2 DEF Ready, InsertReady
    <3>4. Ready(u, x, k)'
      BY <1>2, <3>2, <3>3, ChainsRest DEF ChainInv
    <3> QED
      BY <1>4, <2>2, <3>1, <3>4
  <2> QED
    BY <2>1, <2>2
<1> QED
  BY <1>5, <1>6, <1>7, <1>8 DEF ChainInv

\* A thread at the head of a chain that is about to swap it is a worker.
LEMMA SwapperIsWorker ==
    ASSUME ChainInv, NEW u \in Thread, pc[u] = "swap head"
    PROVE  u \in Worker
<1>1. pc[u] \in Label(u)
  BY DEF ChainInv, Ready, Typed
<1> QED
  BY <1>1 DEF Label, Removing, Cleaning

\* The new node is led to the head of its bucket.
LEMMA LoadHeadChain ==
    ASSUME ChainInv, NEW w \in Worker, LoadHead(w)
    PROVE  ChainInv'
<1>1. PICK n : n = loc[w].node
  OBVIOUS
<1>2. PICK head : head = buckets[BucketFor(n)]
  OBVIOUS
<1>3. PICK l : l = [loc[w] EXCEPT !.next = head]
  OBVIOUS
<1>4. /\ pc[w] = "load head" /\ bucketNext' = [bucketNext EXCEPT ![n] = head]
      /\ Goto(w, "swap head", l)
      /\ UNCHANGED <<buckets, order, memory, used, inserted, collections, age, scenario>>
  BY <1>1, <1>2, <1>3 DEF LoadHead
<1>5. /\ w \in Thread /\ Worker \subseteq Thread /\ n \in Node /\ n \in used \ inserted /\ n \notin Linked
      /\ loc[w] \in [node : Pointer, prev : Pointer, next : Pointer]
  BY <1>1, <1>4, WorkerFacts DEF Thread, Unlinked
<1>6. /\ MemoryOK /\ buckets \in [Bucket -> Pointer] /\ bucketNext \in [Node -> Pointer]
      /\ BucketFor(n) \in Bucket
  BY <1>5, ScenarioFacts DEF ChainInv, MemoryOK
<1>7. head \in Pointer /\ Heads(BucketFor(n), head)
  BY <1>2, <1>6 DEF ChainInv, ChainsSorted
<1>8. /\ l \in [node : Pointer, prev : Pointer, next : Pointer] /\ l.node = n /\ l.next = head
  BY <1>1, <1>3, <1>5, <1>7
<1>9. /\ DOMAIN pc' = Thread /\ DOMAIN loc' = Thread /\ pc'[w] = "swap head" /\ loc'[w] = l
      /\ \A u \in Thread : u # w => pc'[u] = pc[u] /\ loc'[u] = loc[u]
  BY <1>4, <1>5, <1>6, GotoFacts
<1>10. /\ bucketNext' \in [Node -> Pointer] /\ bucketNext'[n] = head
       /\ \A m \in Node : m # n => bucketNext'[m] = bucketNext[m]
  BY <1>4, <1>5, <1>6, <1>7
<1>11. /\ Linked' = Linked /\ Bucket' = Bucket /\ Key' = Key
       /\ \A m : BucketFor(m)' = BucketFor(m)
  BY <1>4 DEF age, Linked, Bucket, Key, BucketFor, BucketOf, KeyOf
<1>12. /\ \A p, b : InBucket(p, b)' <=> InBucket(p, b)
       /\ \A b : Live(b)' = Live(b)
  BY <1>4, <1>11 DEF InBucket, Live, memory
<1>13. /\ \A m, p : Follows(m, p)' <=> Follows(m, p)
       /\ \A b, p : Heads(b, p)' <=> Heads(b, p)
  BY <1>4, <1>11, <1>12 DEF Follows, Heads, age
<1>14. MemoryOK'
  BY <1>4, <1>6, <1>9, <1>10, <1>11 DEF MemoryOK, order, memory, age
<1>15. OwnNodes'
  BY <1>1, <1>4, <1>5, <1>8, OwnersKept DEF ChainInv
<1>16. Numbered'
  BY <1>4, <1>11 DEF ChainInv, Numbered, age
<1>17. ChainsSorted'
  <2>1. ASSUME NEW b \in Bucket PROVE Heads(b, buckets[b])'
    <3>1. PICK p : p = buckets[b]
      OBVIOUS
    <3>2. Heads(b, p)'
      BY <1>13, <3>1 DEF ChainInv, ChainsSorted
    <3> QED
      BY <1>4, <3>1, <3>2
  <2>2. ASSUME NEW m \in Linked PROVE Follows(m, bucketNext[m])'
    <3>1. PICK p : p = bucketNext[m]
      OBVIOUS
    <3>2. Follows(m, p)'
      BY <1>13, <3>1 DEF ChainInv, ChainsSorted
    <3>3. bucketNext'[m] = p
      BY <1>5, <1>10, <3>1 DEF Linked
    <3> QED
      BY <3>2, <3>3
  <2> QED
    BY <1>11, <2>1, <2>2 DEF ChainsSorted
<1>18. ASSUME NEW u \in Thread PROVE Ready(u, pc[u], loc[u])'
  <2>1. CASE u = w
    <3>1. Typed(w, "swap head", l)'
      BY <1>8 DEF Typed, Label, Unlinked
    <3>2. InsertReady(w, "swap head", l)'
      BY <1>4, <1>5, <1>8, <1>11 DEF InsertReady, Unlinked, Unlisted, Listing
    <3>3. SwapReady("swap head", l)'
      BY <1>7, <1>8, <1>10, <1>11, <1>12 DEF SwapReady, Heads
    <3>4. Ready(w, "swap head", l)'
      BY <3>1, <3>2, <3>3 DEF Ready, RemoveReady, Removing
    <3> QED
      BY <1>9, <2>1, <3>4
  <2>2. CASE u # w
    <3>1. PICK x, k : x = pc[u] /\ k = loc[u]
      OBVIOUS
    <3>2. Ready(u, x, k)
      BY <3>1 DEF ChainInv
    <3>3. Typed(u, x, k)'
      BY <1>11, <3>2 DEF Ready, Typed
    <3>4. InsertReady(u, x, k)'
      BY <1>4, <1>11, <3>2 DEF Ready, InsertReady
    <3>5. SwapReady(x, k)'
      <4> SUFFICES ASSUME x = "swap head" PROVE SwapReady(x, k)'
        BY DEF SwapReady
      <4>1. u \in Worker
        BY <3>1, SwapperIsWorker
      <4>2. k.node # n /\ k.node \in Node
        BY <1>1, <1>4, <2>2, <3>1, <4>1, WorkerFacts DEF ChainInv, OwnNodes
      <4> QED
        BY <1>10, <1>11, <1>12, <3>2, <4>2 DEF Ready, SwapReady
    <3>6. RemoveReady(x, k)'
      BY <1>4, <1>11, <1>12, <1>13, <3>2 DEF Ready, RemoveReady, memory
    <3> QED
      BY <1>9, <2>2, <3>1, <3>3, <3>4, <3>5, <3>6 DEF Ready
  <2> QED
    BY <2>1, <2>2
<1> QED
  BY <1>14, <1>15, <1>16, <1>17, <1>18 DEF ChainInv

\* A swap that fails.
LEMMA SwapFailsChain ==
    ASSUME ChainInv, NEW w \in Worker, SwapHead(w), buckets[BucketFor(loc[w].node)] # loc[w].next
    PROVE  ChainInv'
<1>1. PICK l : l = loc[w]
  OBVIOUS
<1>2. /\ pc[w] = "swap head" /\ Goto(w, "retry", l)
      /\ UNCHANGED <<chains, order, memory, used, inserted, collections, age, scenario>>
  BY <1>1 DEF SwapHead, chains, order
<1>3. w \in Thread /\ l \in [node : Pointer, prev : Pointer, next : Pointer] /\ MemoryOK
  BY <1>1, <1>2, WorkerFacts DEF ChainInv
<1>4. Ready(w, "retry", l)
  BY <1>1, <1>2, <1>3, WorkerReady DEF Inserting, Unlinked
<1>5. UNCHANGED chainVars
  BY <1>2 DEF chainVars, memory
<1>6. MemoryOK'
  BY <1>2, <1>3, <1>5, GotoFacts, MemoryKept DEF memory, order, MemoryOK
<1> QED
  BY <1>1, <1>2, <1>3, <1>4, <1>5, <1>6, QuietStep

\* A swap that succeeds links the newest node of the bucket, at its head.
LEMMA SwapSucceedsChain ==
    ASSUME ChainInv, NEW w \in Worker, SwapHead(w), buckets[BucketFor(loc[w].node)] = loc[w].next
    PROVE  ChainInv'
<1>1. PICK n : n = loc[w].node
  OBVIOUS
<1>2. PICK b : b = BucketFor(n)
  OBVIOUS
<1>3. PICK l : l = [Idle EXCEPT !.node = n]
  OBVIOUS
<1>4. /\ pc[w] = "swap head" /\ Goto(w, "load tail", l)
      /\ buckets' = [buckets EXCEPT ![b] = n] /\ orderNext' = [orderNext EXCEPT ![n] = Null]
      /\ links' = [links EXCEPT ![b] = links[b] + 1] /\ linkedAt' = [linkedAt EXCEPT ![n] = links[b] + 1]
      /\ UNCHANGED <<bucketNext, orderHead, orderTail, memory, used, inserted, collections, scenario>>
  BY <1>1, <1>2, <1>3 DEF SwapHead
<1>5. /\ w \in Thread /\ Worker \subseteq Thread /\ n \in Node /\ n \in used \ inserted /\ n \notin Linked
      /\ Ready(w, "swap head", loc[w])
  <2>1. w \in Thread /\ Worker \subseteq Thread
    BY DEF Thread
  <2>2. n \in Node /\ n \in used \ inserted /\ n \notin Linked
    BY <1>1, <1>4, WorkerFacts DEF Unlinked
  <2> QED
    BY <1>4, <2>1, <2>2 DEF ChainInv
<1>6. /\ MemoryOK /\ buckets \in [Bucket -> Pointer] /\ bucketNext \in [Node -> Pointer] /\ b \in Bucket
      /\ links \in [Bucket -> Nat] /\ linkedAt \in [Node -> Nat]
      /\ orderNext \in [Node -> Pointer] /\ deleted \subseteq Linked
  BY <1>2, <1>5, ScenarioFacts DEF ChainInv, MemoryOK
<1>7. bucketNext[n] = buckets[b]
  BY <1>1, <1>2, <1>4, <1>5 DEF Ready, SwapReady
<1>8. /\ l \in [node : Pointer, prev : Pointer, next : Pointer] /\ l.node = n
  BY <1>3, <1>5 DEF Idle, Pointer
<1>9. /\ DOMAIN pc' = Thread /\ DOMAIN loc' = Thread /\ pc'[w] = "load tail" /\ loc'[w] = l
      /\ \A u \in Thread : u # w => pc'[u] = pc[u] /\ loc'[u] = loc[u]
  BY <1>4, <1>5, <1>6, GotoFacts
<1>10. /\ linkedAt' \in [Node -> Nat] /\ linkedAt'[n] = links[b] + 1 /\ n \notin deleted
       /\ \A m \in Node : m # n => linkedAt'[m] = linkedAt[m]
  <2>1. links[b] + 1 \in Nat
    BY <1>6
  <2> QED
    BY <1>4, <1>5, <1>6, <2>1
<1>11. /\ links' \in [Bucket -> Nat] /\ links'[b] = links[b] + 1
       /\ \A c \in Bucket : c # b => links'[c] = links[c]
  <2>1. links[b] + 1 \in Nat
    BY <1>6
  <2> QED
    BY <1>4, <1>6, <2>1
<1>12. /\ buckets' \in [Bucket -> Pointer] /\ buckets'[b] = n
       /\ \A c \in Bucket : c # b => buckets'[c] = buckets[c]
  BY <1>4, <1>5, <1>6 DEF Pointer
<1>13. /\ Bucket' = Bucket /\ Key' = Key /\ \A m : BucketFor(m)' = BucketFor(m)
  BY <1>4 DEF Bucket, Key, BucketFor, BucketOf, KeyOf
<1>14. Linked' = Linked \cup {n} /\ Linked \subseteq Node
  <2>1. links[b] + 1 # 0
    BY <1>6
  <2>2. linkedAt'[n] # 0
    BY <1>10, <2>1
  <2> QED
    BY <1>5, <1>10, <2>2 DEF Linked
<1>15. \A m \in Linked : m # n /\ m \in Node /\ linkedAt'[m] = linkedAt[m] /\ linkedAt[m] \in Nat
  BY <1>5, <1>6, <1>10, <1>14
<1>16. \A m \in Linked : BucketFor(m) = b => linkedAt[m] <= links[b]
  BY DEF ChainInv, Numbered
<1>17. \A p, c : InBucket(p, c) => p \in Linked /\ InBucket(p, c)'
  BY <1>13, <1>14 DEF InBucket
<1>18. /\ \A c : c # b => Live(c)' = Live(c)
       /\ Live(b)' = Live(b) \cup {n}
       /\ \A c : Live(c) \subseteq Linked
  BY <1>2, <1>4, <1>10, <1>13, <1>14 DEF Live, memory
<1>19. ASSUME NEW m \in Linked, NEW p, Follows(m, p)
       PROVE  Follows(m, p)'
  <2>1. p # Null => InBucket(p, BucketFor(m))' /\ linkedAt'[p] < linkedAt'[m]
    BY <1>13, <1>15, <1>17, <1>19 DEF Follows
  <2>2. ASSUME NEW x \in Live(BucketFor(m))', linkedAt'[x] < linkedAt'[m]
        PROVE  p # Null /\ linkedAt'[x] <= linkedAt'[p]
    <3>1. x # n
      <4> SUFFICES ASSUME x = n PROVE FALSE
        OBVIOUS
      <4>1. BucketFor(m) = b
        BY <1>2, <2>2, <1>13 DEF Live
      <4>2. linkedAt'[m] <= links[b] /\ linkedAt'[m] \in Nat /\ links[b] \in Nat
        BY <1>6, <1>15, <1>16, <4>1
      <4> QED
        BY <1>10, <2>2, <4>2
    <3>2. x \in Live(BucketFor(m)) /\ x \in Linked
      BY <1>13, <1>18, <2>2, <3>1
    <3>3. p # Null /\ linkedAt[x] <= linkedAt[p] /\ p \in Linked
      BY <1>15, <1>17, <1>19, <2>2, <3>2 DEF Follows
    <3> QED
      BY <1>15, <3>2, <3>3
  <2> QED
    BY <1>13, <2>1, <2>2 DEF Follows
<1>20. MemoryOK'
  <2>1. orderNext' \in [Node -> Pointer]
    BY <1>4, <1>6 DEF Pointer
  <2> QED
    BY <1>4, <1>5, <1>6, <1>9, <1>10, <1>11, <1>12, <1>13, <1>14, <2>1 DEF MemoryOK, memory
<1>21. OwnNodes'
  BY <1>1, <1>4, <1>5, <1>8, OwnersKept DEF ChainInv
<1>22. Numbered'
  <2>1. ASSUME NEW m \in Linked' PROVE linkedAt'[m] <= links'[BucketFor(m)]
    <3>1. CASE m = n
      BY <1>2, <1>6, <1>10, <1>11, <3>1
    <3>2. CASE m # n
      <4>1. m \in Linked /\ BucketFor(m) \in Bucket /\ linkedAt[m] <= links[BucketFor(m)]
        BY <1>6, <1>14, <3>2, ScenarioFacts DEF ChainInv, Numbered, MemoryOK
      <4> QED
        BY <1>6, <1>11, <1>15, <4>1
    <3> QED
      BY <3>1, <3>2
  <2>2. ASSUME NEW x \in Linked', NEW m \in Linked', BucketFor(x) = BucketFor(m),
               linkedAt'[x] = linkedAt'[m]
        PROVE  x = m
    <3>1. ASSUME NEW y \in Linked, BucketFor(y) = b PROVE linkedAt'[y] # linkedAt'[n]
      BY <1>6, <1>10, <1>15, <1>16, <3>1
    <3>2. CASE x = n \/ m = n
      BY <1>2, <1>14, <2>2, <3>1, <3>2
    <3>3. CASE x # n /\ m # n
      BY <1>14, <1>15, <2>2, <3>3 DEF ChainInv, Numbered
    <3> QED
      BY <3>2, <3>3
  <2> QED
    BY <1>13, <2>1, <2>2 DEF Numbered
<1>23. ChainsSorted'
  <2>0. ASSUME NEW x \in Live(b)
        PROVE  /\ linkedAt[x] <= links[b] /\ linkedAt'[x] = linkedAt[x]
               /\ linkedAt[x] \in Nat /\ x \in Linked
    BY <1>15, <1>16 DEF Live
  <2>1. ASSUME NEW c \in Bucket PROVE Heads(c, buckets[c])'
    <3>1. CASE c = b
      <4>1. InBucket(n, b)'
        BY <1>2, <1>13, <1>14 DEF InBucket
      <4>2. n # Null
        BY <1>5, MapAssumption
      <4>3. ASSUME NEW x \in Live(b)' PROVE linkedAt'[x] <= linkedAt'[n]
        <5>0. linkedAt'[n] <= linkedAt'[n]
          BY <1>6, <1>10
        <5>1. CASE x = n
          BY <5>0, <5>1
        <5>2. CASE x # n
          <6>1. x \in Live(b)
            BY <1>18, <4>3, <5>2
          <6> QED
            BY <1>6, <1>10, <2>0, <6>1
        <5> QED
          BY <5>1, <5>2
      <4>4. Heads(b, n)'
        BY <4>1, <4>2, <4>3 DEF Heads
      <4> QED
        BY <1>12, <3>1, <4>4
    <3>2. CASE c # b
      <4>1. PICK p : p = buckets[c]
        OBVIOUS
      <4>2. Heads(c, p)
        BY <4>1 DEF ChainInv, ChainsSorted
      <4>3. Heads(c, p)'
        BY <1>15, <1>17, <1>18, <3>2, <4>2 DEF Heads
      <4> QED
        BY <1>12, <3>2, <4>1, <4>3
    <3> QED
      BY <3>1, <3>2
  <2>2. ASSUME NEW m \in Linked' PROVE Follows(m, bucketNext[m])'
    <3>1. PICK p : p = bucketNext[m]
      OBVIOUS
    <3>2. CASE m = n
      <4>1. Heads(b, p)
        BY <1>6, <1>7, <3>1, <3>2 DEF ChainInv, ChainsSorted
      <4>2. p # Null => InBucket(p, b)' /\ linkedAt'[p] < linkedAt'[n]
        <5> SUFFICES ASSUME p # Null PROVE InBucket(p, b)' /\ linkedAt'[p] < linkedAt'[n]
          OBVIOUS
        <5>1. InBucket(p, b) /\ p \in Linked /\ linkedAt[p] <= links[b]
          BY <1>16, <4>1 DEF Heads, InBucket
        <5> QED
          BY <1>6, <1>10, <1>15, <1>17, <5>1
      <4>3. ASSUME NEW x \in Live(b)', linkedAt'[x] < linkedAt'[n]
            PROVE  p # Null /\ linkedAt'[x] <= linkedAt'[p]
        <5>0. ~(linkedAt'[n] < linkedAt'[n])
          BY <1>6, <1>10
        <5>1. x # n
          BY <4>3, <5>0
        <5>2. x \in Live(b) /\ x \in Linked
          BY <1>18, <4>3, <5>1
        <5>3. p # Null /\ linkedAt[x] <= linkedAt[p] /\ p \in Linked
          BY <1>17, <4>1, <5>2 DEF Heads
        <5> QED
          BY <1>15, <5>2, <5>3
      <4>4. Follows(n, p)'
        BY <1>2, <1>13, <4>2, <4>3 DEF Follows
      <4> QED
        BY <1>4, <3>1, <3>2, <4>4
    <3>3. CASE m # n
      <4>1. m \in Linked /\ Follows(m, p)
        BY <1>14, <3>1, <3>3 DEF ChainInv, ChainsSorted
      <4>2. Follows(m, p)'
        BY <1>19, <4>1
      <4> QED
        BY <1>4, <3>1, <4>2
    <3> QED
      BY <3>2, <3>3
  <2> QED
    BY <1>13, <2>1, <2>2 DEF ChainsSorted
<1>24. ASSUME NEW u \in Thread PROVE Ready(u, pc[u], loc[u])'
  <2>1. CASE u = w
    <3>1. Typed(w, "load tail", l)'
      BY <1>8 DEF Typed, Label, Unlisted
    <3>2. InsertReady(w, "load tail", l)'
      BY <1>4, <1>5, <1>8, <1>14 DEF InsertReady, Unlinked, Unlisted, Listing
    <3>3. Ready(w, "load tail", l)'
      BY <3>1, <3>2 DEF Ready, SwapReady, RemoveReady, Removing
    <3> QED
      BY <1>9, <2>1, <3>3
  <2>2. CASE u # w
    <3>1. PICK x, k : x = pc[u] /\ k = loc[u]
      OBVIOUS
    <3>2. Ready(u, x, k)
      BY <3>1 DEF ChainInv
    <3>3. Typed(u, x, k)'
      BY <1>13, <3>2 DEF Ready, Typed
    <3>4. u \in Worker /\ x # "idle" => k.node # n
      BY <1>1, <1>4, <2>2, <3>1 DEF ChainInv, OwnNodes
    <3>5. InsertReady(u, x, k)'
      BY <1>4, <1>14, <3>2, <3>4 DEF Ready, InsertReady, Unlinked
    <3>6. SwapReady(x, k)'
      BY <1>4, <1>13, <1>17, <3>2 DEF Ready, SwapReady
    <3>7. RemoveReady(x, k)'
      <4> SUFFICES ASSUME x \in Removing PROVE RemoveReady(x, k)'
        BY DEF RemoveReady
      <4>1. RemoveReady(x, k) /\ k.node \in Linked
        BY <3>2 DEF Ready, RemoveReady
      <4>2. x = "unlink" => Follows(k.node, k.next)'
        <5> SUFFICES ASSUME x = "unlink" PROVE Follows(k.node, k.next)'
          OBVIOUS
        <5>1. PICK m, p : m = k.node /\ p = k.next
          OBVIOUS
        <5>2. Follows(m, p)'
          BY <1>19, <4>1, <5>1 DEF RemoveReady
        <5> QED
          BY <5>1, <5>2
      <4> QED
        BY <1>4, <1>13, <1>14, <1>17, <4>1, <4>2 DEF RemoveReady, memory
    <3> QED
      BY <1>9, <2>2, <3>1, <3>3, <3>5, <3>6, <3>7 DEF Ready
  <2> QED
    BY <2>1, <2>2
<1> QED
  BY <1>20, <1>21, <1>22, <1>23, <1>24 DEF ChainInv

\* A removed node is taken out of its chain, if it still follows its predecessor.
LEMMA UnlinkChain ==
    ASSUME ChainInv, NEW r \in {incoming, outgoing}, Unlink(r)
    PROVE  ChainInv'
<1>1. PICK n, prev, next : n = loc[r].node /\ prev = loc[r].prev /\ next = loc[r].next
  OBVIOUS
<1>2. PICK b : b = BucketFor(n)
  OBVIOUS
<1>3. /\ pc[r] = "unlink" /\ Goto(r, "idle", Idle)
      /\ UNCHANGED <<order, memory, used, inserted, collections, age, scenario>>
  BY DEF Unlink, Return
<1>4. (PointsTo(prev, n) = n /\ SetPrev(prev, n, next)) \/ UNCHANGED chains
  BY <1>1 DEF Unlink
<1>5. /\ r \in Thread /\ r \notin Worker /\ n \in Linked /\ n \in Node
      /\ loc[r] \in [node : Pointer, prev : Pointer, next : Pointer]
      /\ Ready(r, "unlink", loc[r])
  BY <1>1, <1>3, RemoverFacts DEF Removing
<1>6. /\ n \in deleted /\ Follows(n, next)
      /\ prev # Null => InBucket(prev, b)
      /\ next \in Pointer /\ prev \in Pointer
  BY <1>1, <1>2, <1>5 DEF Ready, RemoveReady, Removing
<1>7. /\ MemoryOK /\ buckets \in [Bucket -> Pointer] /\ bucketNext \in [Node -> Pointer] /\ b \in Bucket
      /\ linkedAt \in [Node -> Nat] /\ Linked \subseteq Node
  BY <1>2, <1>5, ScenarioFacts DEF ChainInv, MemoryOK, Linked
<1>8. /\ DOMAIN pc' = Thread /\ DOMAIN loc' = Thread /\ pc'[r] = "idle" /\ loc'[r] = Idle
      /\ \A u \in Thread : u # r => pc'[u] = pc[u] /\ loc'[u] = loc[u]
  BY <1>3, <1>5, <1>7, GotoFacts
<1>9. /\ Linked' = Linked /\ Bucket' = Bucket /\ Key' = Key
      /\ \A m : BucketFor(m)' = BucketFor(m)
  BY <1>3 DEF age, Linked, Bucket, Key, BucketFor, BucketOf, KeyOf
<1>10. /\ \A p, c : InBucket(p, c)' <=> InBucket(p, c)
       /\ \A c : Live(c)' = Live(c)
  BY <1>3, <1>9 DEF InBucket, Live, memory
<1>11. /\ \A m, p : Follows(m, p)' <=> Follows(m, p)
       /\ \A c, p : Heads(c, p)' <=> Heads(c, p)
  BY <1>3, <1>9, <1>10 DEF Follows, Heads, age
\* The pointers of the new chains.
<1>12. ASSUME NEW x \in Live(b), linkedAt[x] <= linkedAt[n]
       PROVE  next # Null /\ linkedAt[x] <= linkedAt[next]
  <2>1. x \in Linked /\ x # n /\ BucketFor(x) = b
    BY <1>6 DEF Live
  <2>2. linkedAt[x] # linkedAt[n]
    BY <1>2, <1>5, <2>1 DEF ChainInv, Numbered
  <2>3. linkedAt[x] < linkedAt[n]
    BY <1>5, <1>7, <1>12, <2>1, <2>2
  <2> QED
    BY <1>2, <1>6, <2>3 DEF Follows
<1>13. /\ buckets' \in [Bucket -> Pointer] /\ bucketNext' \in [Node -> Pointer]
       /\ \A c \in Bucket : Heads(c, buckets'[c])
       /\ \A m \in Linked : Follows(m, bucketNext'[m])
       /\ \A m \in Node \ Linked : bucketNext'[m] = bucketNext[m]
  <2>0. /\ \A c \in Bucket : Heads(c, buckets[c])
        /\ \A m \in Linked : Follows(m, bucketNext[m])
    BY DEF ChainInv, ChainsSorted
  <2>1. CASE UNCHANGED chains
    BY <1>7, <2>0, <2>1 DEF chains
  <2>2. CASE PointsTo(prev, n) = n /\ SetPrev(prev, n, next) /\ prev = Null
    <3>1. /\ buckets[b] = n /\ buckets' = [buckets EXCEPT ![b] = next] /\ UNCHANGED bucketNext
      BY <1>2, <2>2 DEF PointsTo, SetPrev
    <3>2. /\ buckets' \in [Bucket -> Pointer] /\ buckets'[b] = next
          /\ \A c \in Bucket : c # b => buckets'[c] = buckets[c]
      BY <1>6, <1>7, <3>1
    <3>3. Heads(b, n)
      BY <1>7, <2>0, <3>1
    <3>4. Heads(b, next)
      BY <1>2, <1>6, <1>12, <3>3 DEF Heads, Follows
    <3> QED
      BY <1>7, <2>0, <3>1, <3>2, <3>4
  <2>3. CASE PointsTo(prev, n) = n /\ SetPrev(prev, n, next) /\ prev # Null
    <3>1. /\ bucketNext[prev] = n /\ bucketNext' = [bucketNext EXCEPT ![prev] = next]
          /\ UNCHANGED buckets
      BY <2>3 DEF PointsTo, SetPrev
    <3>2. prev \in Linked /\ prev \in Node /\ BucketFor(prev) = b
      BY <1>6, <1>7, <2>3 DEF InBucket
    <3>3. /\ bucketNext' \in [Node -> Pointer] /\ bucketNext'[prev] = next
          /\ \A m \in Node : m # prev => bucketNext'[m] = bucketNext[m]
      BY <1>6, <1>7, <3>1, <3>2
    <3>4. Follows(prev, n) /\ n # Null
      BY <1>5, <2>0, <3>1, <3>2, MapAssumption
    <3>5. linkedAt[n] < linkedAt[prev]
      BY <3>4 DEF Follows
    <3>6. next # Null => InBucket(next, b) /\ linkedAt[next] < linkedAt[prev]
      <4>1. next # Null => InBucket(next, b) /\ linkedAt[next] < linkedAt[n] /\ next \in Node
        BY <1>2, <1>6, <1>7 DEF Follows, InBucket
      <4> QED
        BY <1>5, <1>7, <3>2, <3>5, <4>1
    <3>7. \A x \in Live(b) : linkedAt[x] < linkedAt[prev] => next # Null /\ linkedAt[x] <= linkedAt[next]
      BY <1>12, <3>2, <3>4 DEF Follows
    <3>8. Follows(prev, next)
      BY <3>2, <3>6, <3>7 DEF Follows
    <3> QED
      BY <1>7, <2>0, <3>1, <3>2, <3>3, <3>8
  <2> QED
    BY <1>4, <2>1, <2>2, <2>3
<1>14. MemoryOK'
  BY <1>3, <1>7, <1>8, <1>9, <1>13 DEF MemoryOK, order, memory, age
<1>15. OwnNodes'
  BY <1>3, <1>5, <1>7, OwnersKept DEF ChainInv
<1>16. Numbered'
  BY <1>3, <1>9 DEF ChainInv, Numbered, age
<1>17. ChainsSorted'
  <2>1. ASSUME NEW c \in Bucket PROVE Heads(c, buckets[c])'
    <3>1. PICK p : p = buckets'[c]
      OBVIOUS
    <3>2. Heads(c, p)'
      BY <1>11, <1>13, <3>1
    <3> QED
      BY <3>1, <3>2
  <2>2. ASSUME NEW m \in Linked PROVE Follows(m, bucketNext[m])'
    <3>1. PICK p : p = bucketNext'[m]
      OBVIOUS
    <3>2. Follows(m, p)'
      BY <1>11, <1>13, <3>1
    <3> QED
      BY <3>1, <3>2
  <2> QED
    BY <1>9, <2>1, <2>2 DEF ChainsSorted
<1>18. ASSUME NEW u \in Thread PROVE Ready(u, pc[u], loc[u])'
  <2>1. CASE u = r
    <3>1. Typed(u, "idle", Idle)' /\ InsertReady(u, "idle", Idle)'
      BY DEF Typed, Label, Idle, Pointer, InsertReady, Unlinked, Unlisted, Listing
    <3>2. Ready(u, "idle", Idle)'
      BY <3>1 DEF Ready, SwapReady, RemoveReady, Removing
    <3> QED
      BY <1>8, <2>1, <3>2
  <2>2. CASE u # r
    <3>1. PICK x, k : x = pc[u] /\ k = loc[u]
      OBVIOUS
    <3>2. Ready(u, x, k)
      BY <3>1 DEF ChainInv
    <3>3. Typed(u, x, k)'
      BY <1>9, <3>2 DEF Ready, Typed
    <3>4. InsertReady(u, x, k)'
      BY <1>3, <1>9, <3>2 DEF Ready, InsertReady
    <3>5. SwapReady(x, k)'
      <4> SUFFICES ASSUME x = "swap head" PROVE SwapReady(x, k)'
        BY DEF SwapReady
      <4>1. u \in Worker
        BY <3>1, SwapperIsWorker
      <4>2. k.node \in Node \ Linked
        BY <3>1, <4>1, WorkerFacts DEF Unlinked
      <4> QED
        BY <1>9, <1>10, <1>13, <3>2, <4>2 DEF Ready, SwapReady
    <3>6. RemoveReady(x, k)'
      BY <1>3, <1>9, <1>10, <1>11, <3>2 DEF Ready, RemoveReady, memory
    <3> QED
      BY <1>8, <2>2, <3>1, <3>3, <3>4, <3>5, <3>6 DEF Ready
  <2> QED
    BY <2>1, <2>2
<1> QED
  BY <1>14, <1>15, <1>16, <1>17, <1>18 DEF ChainInv

LEMMA NextChain ==
    ASSUME ChainInv, [MapNext]_mapVars
    PROVE  ChainInv'
<1>1. ASSUME NEW w \in Worker, Insert(w) PROVE ChainInv'
  BY <1>1, InsertFindChain, InsertExistsChain, InsertRetryChain, LoadHeadChain,
     SwapFailsChain, SwapSucceedsChain, PhaseTwoChain, ReturnTrueChain DEF Insert
<1>2. ASSUME NEW r \in {incoming, outgoing}, Remove(r) PROVE ChainInv'
  BY <1>2, RemoveCallChain, RemoveFindChain, RemoveMarkChain, LoadPrevChain, UnlinkChain
     DEF Remove
<1>3. CASE UNCHANGED mapVars
  <2>1. UNCHANGED chainVars /\ UNCHANGED <<order, memory, collections, pc, loc>>
    BY <1>3 DEF mapVars, chainVars, memory
  <2>2. MemoryOK' /\ OwnNodes'
    BY <2>1, MemoryKept DEF ChainInv, MemoryOK, OwnNodes, order, memory
  <2>3. Numbered' /\ ChainsSorted' /\ \A u, x, k : Ready(u, x, k) => Ready(u, x, k)'
    BY <2>1, ChainsKept DEF ChainInv
  <2>4. ASSUME NEW u \in Thread PROVE Ready(u, pc[u], loc[u])'
    <3>1. PICK x, k : x = pc[u] /\ k = loc[u]
      OBVIOUS
    <3>2. Ready(u, x, k)'
      BY <2>3, <3>1 DEF ChainInv
    <3> QED
      BY <2>1, <3>1, <3>2
  <2> QED
    BY <2>2, <2>3, <2>4 DEF ChainInv
<1> QED
  BY <1>1, <1>2, <1>3, CollectChain DEF MapNext

\* insert, remove and try_unlink_bucket of LockFreeOrderedHashMap: for any number of
\* workers, nodes, keys and buckets, and whether or not the collector runs alone, a
\* receipt that is linked and not removed stays in its chain, however the loads and the
\* compare-and-swaps of a bucket interleave, so that its acknowledgement finds it.
THEOREM MapFindsLive == MapSpec => []LiveIsFindable
<1>1. MapInit => ChainInv
  BY InitChain
<1>2. ChainInv /\ [MapNext]_mapVars => ChainInv'
  BY NextChain
<1>3. ChainInv => LiveIsFindable
  BY ChainsFindLive
<1> QED
  BY <1>1, <1>2, <1>3, PTL DEF MapSpec

-----------------------------------------------------------------------------
(* The order list.                                                            *)

LEMMA ListFacts ==
    ASSUME ChainInv
    PROVE  /\ OrderList \in SUBSET Node /\ Closed(OrderList, orderNext)
           /\ orderHead \in OrderList \cup {Null} /\ orderHead \in Pointer
           /\ orderNext \in [Node -> Pointer] /\ orderTail \in Pointer
           /\ \A m \in OrderList : orderNext[m] # Null => orderNext[m] \in OrderList
<1>1. orderHead \in Pointer /\ orderNext \in [Node -> Pointer] /\ orderTail \in Pointer
  BY DEF ChainInv, MemoryOK
<1>2. /\ OrderList \in SUBSET Node /\ Closed(OrderList, orderNext)
      /\ orderHead \in OrderList \cup {Null}
  BY <1>1, WalkIsClosed DEF OrderList
<1> QED
  BY <1>1, <1>2 DEF Closed

LEMMA InitOrder ==
    ASSUME MapInit
    PROVE  OrderInv
<1>1. OrderList = {}
  BY WalkNull DEF MapInit, OrderList
<1>2. /\ outgoing \in Thread /\ Worker \subseteq Thread
      /\ \A t \in Thread : pc[t] = "idle"
  BY DEF Thread, MapInit
<1>3. AloneInv
  BY <1>2 DEF AloneInv
<1>4. OneWay /\ LiveIsListed /\ OrderList \subseteq Linked
  BY <1>1 DEF OneWay, LiveIsListed, MapInit
<1>5. ASSUME NEW w \in Worker PROVE AppendReady(pc[w], loc[w])
  BY <1>2 DEF AppendReady, Unlisted, Listing
<1>6. CollectReady(pc[outgoing], loc[outgoing])
  BY <1>2 DEF MapInit, CollectReady, Cleaning
<1> QED
  BY <1>3, <1>4, <1>5, <1>6 DEF OrderInv

\* Who is in a call, or may make one, has no collector beside it.
LEMMA NobodyCollects ==
    ASSUME ChainInv, OrderInv, CollectorAlone, NEW t \in Thread, t # outgoing,
           MayCall(t) \/ pc[t] # "idle"
    PROVE  ~Collecting
BY DEF OrderInv, AloneInv, MayCall

\* Where no thread begins to collect, none does.
LEMMA StaysQuiet ==
    ASSUME ChainInv, ~Collecting, NEW t \in Thread, NEW label, NEW l, Goto(t, label, l),
           label \notin Cleaning \cup {"gc sweep"}
    PROVE  ~Collecting' /\ AloneInv' /\ pc'[outgoing] \notin Cleaning \cup {"gc sweep"}
<1>1. MemoryOK /\ outgoing \in Thread
  BY DEF ChainInv, Thread
<1>2. pc'[t] = label /\ \A u \in Thread : u # t => pc'[u] = pc[u]
  BY <1>1, GotoFacts
<1> QED
  BY <1>1, <1>2 DEF Collecting, Cleaning, AloneInv

\* Without a collector the tail is listed.
LEMMA TailListed ==
    ASSUME OrderInv, ~Collecting
    PROVE  orderTail \in OrderList \cup {Null}
BY DEF OrderInv, CollectReady, Collecting

\* A step of a worker: the list may only grow, and only by its own node.
LEMMA WorkerStep ==
    ASSUME ChainInv, OrderInv, ~Collecting, NEW w \in Worker, NEW label, NEW l, Goto(w, label, l),
           label \in {"idle"} \cup Inserting, AppendReady(label, l)',
           OrderList \subseteq OrderList', OrderList' \subseteq Linked', deleted' = deleted,
           inserted' \subseteq inserted \cup OrderList', orderTail' \in OrderList' \cup {Null}, OneWay',
           \A u \in Worker : u # w /\ pc[u] \in Unlisted =>
               loc[u].node \notin OrderList' /\ orderNext'[loc[u].node] = Null
    PROVE  OrderInv'
<1>1. /\ w \in Thread /\ Worker \subseteq Thread /\ outgoing \in Thread /\ w # outgoing /\ MemoryOK
  BY MapAssumption DEF Thread, ChainInv
<1>2. /\ pc'[w] = label /\ loc'[w] = l
      /\ \A u \in Thread : u # w => pc'[u] = pc[u] /\ loc'[u] = loc[u]
  BY <1>1, GotoFacts
<1>3. label \notin Cleaning \cup {"gc sweep"}
  BY DEF Inserting, Unlinked, Unlisted, Listing, Cleaning
<1>4. AloneInv' /\ pc'[outgoing] \notin Cleaning \cup {"gc sweep"}
  BY <1>1, <1>3, StaysQuiet
<1>5. LiveIsListed'
  BY DEF OrderInv, LiveIsListed
<1>6. ASSUME NEW u \in Worker PROVE AppendReady(pc[u], loc[u])'
  <2>1. CASE u = w
    BY <1>2, <2>1
  <2>2. CASE u # w
    <3>1. PICK x, k : x = pc[u] /\ k = loc[u]
      OBVIOUS
    <3>2. AppendReady(x, k)
      BY <3>1 DEF OrderInv
    <3>3. AppendReady(x, k)'
      BY <2>2, <3>1, <3>2 DEF AppendReady
    <3> QED
      BY <1>1, <1>2, <2>2, <3>1, <3>3
  <2> QED
    BY <2>1, <2>2
<1>7. CollectReady(pc[outgoing], loc[outgoing])'
  BY <1>4 DEF CollectReady, Cleaning
<1> QED
  BY <1>4, <1>5, <1>6, <1>7 DEF OrderInv

\* One that leaves the list as it is.
LEMMA WorkerRests ==
    ASSUME ChainInv, ChainInv', OrderInv, ~Collecting, NEW w \in Worker, NEW label, NEW l, Goto(w, label, l),
           label \in {"idle"} \cup Inserting, AppendReady(label, l),
           UNCHANGED <<orderNext, orderHead, deleted>>, Linked \subseteq Linked',
           inserted' \subseteq inserted \cup OrderList, orderTail' \in OrderList \cup {Null}
    PROVE  OrderInv'
<1>1. OrderList' = OrderList
  BY DEF OrderList
<1>2. AppendReady(label, l)' /\ OneWay'
  BY <1>1 DEF AppendReady, OrderInv, OneWay
<1>3. \A u \in Worker : pc[u] \in Unlisted => loc[u].node \notin OrderList /\ orderNext[loc[u].node] = Null
  BY DEF OrderInv, AppendReady
<1>4. OrderList' \subseteq Linked'
  BY <1>1 DEF OrderInv
<1> QED
  BY <1>1, <1>2, <1>3, <1>4, WorkerStep

\* A step of a remover leaves the list as it is, and may mark a node.
LEMMA RemoverRests ==
    ASSUME ChainInv, OrderInv, ~Collecting, NEW r \in {incoming, outgoing}, NEW label, NEW l,
           Goto(r, label, l), label \notin Cleaning \cup {"gc sweep"},
           UNCHANGED <<order, inserted, age>>, deleted \subseteq deleted'
    PROVE  OrderInv'
<1>1. OrderList' = OrderList /\ Linked' = Linked
  BY DEF OrderList, Linked, order, age
<1>2. /\ r \in Thread /\ Worker \subseteq Thread /\ outgoing \in Thread /\ r \notin Worker /\ MemoryOK
  BY MapAssumption DEF Thread, ChainInv
<1>3. \A u \in Thread : u # r => pc'[u] = pc[u] /\ loc'[u] = loc[u]
  BY <1>2, GotoFacts
<1>4. AloneInv' /\ pc'[outgoing] \notin Cleaning \cup {"gc sweep"}
  BY <1>2, StaysQuiet
<1>5. OneWay' /\ LiveIsListed' /\ OrderList' \subseteq Linked'
  BY <1>1 DEF OrderInv, OneWay, LiveIsListed, order
<1>6. ASSUME NEW u \in Worker PROVE AppendReady(pc[u], loc[u])'
  BY <1>1, <1>2, <1>3 DEF OrderInv, AppendReady, order
<1>7. orderTail' \in OrderList' \cup {Null}
  BY <1>1, TailListed DEF order
<1>8. CollectReady(pc[outgoing], loc[outgoing])'
  BY <1>4, <1>7 DEF CollectReady, Cleaning
<1> QED
  BY <1>4, <1>5, <1>6, <1>8 DEF OrderInv

\* The list rests while a node is linked into its chain.
LEMMA PhaseOneOrder ==
    ASSUME ChainInv, ChainInv', OrderInv, CollectorAlone, NEW w \in Worker,
           \/ \E n \in Node : InsertFind(w, n)
           \/ InsertRetry(w) \/ LoadHead(w)
           \/ SwapHead(w) /\ buckets[BucketFor(loc[w].node)] # loc[w].next
    PROVE  OrderInv'
<1>1. UNCHANGED <<order, deleted, inserted, age>>
  BY DEF InsertFind, InsertRetry, LoadHead, SwapHead, memory, order
<1>2. MayCall(w) \/ pc[w] # "idle"
  BY DEF InsertFind, InsertRetry, LoadHead, SwapHead
<1>3. ~Collecting
  <2>1. w \in Thread /\ w # outgoing
    BY MapAssumption DEF Thread
  <2> QED
    BY <1>2, <2>1, NobodyCollects
<1>4. PICK label \in {"idle"} \cup Unlinked : \E l : Goto(w, label, l)
  <2>1. CASE \E n \in Node : InsertFind(w, n)
    BY <2>1 DEF InsertFind, Unlinked
  <2>2. CASE InsertRetry(w)
    BY <2>2 DEF InsertRetry, Return, Unlinked
  <2>3. CASE LoadHead(w)
    BY <2>3 DEF LoadHead, Unlinked
  <2>4. CASE SwapHead(w) /\ buckets[BucketFor(loc[w].node)] # loc[w].next
    BY <2>4 DEF SwapHead, Unlinked
  <2> QED
    BY <2>1, <2>2, <2>3, <2>4
<1>5. PICK l : Goto(w, label, l)
  BY <1>4
<1>8. label \in {"idle"} \cup Inserting /\ AppendReady(label, l)
  BY DEF Inserting, AppendReady, Unlinked, Unlisted, Listing
<1>6. orderTail \in OrderList \cup {Null}
  BY <1>3, TailListed
<1>7. Linked' = Linked
  BY <1>1 DEF Linked, age
<1> QED
  BY <1>1, <1>3, <1>5, <1>6, <1>7, <1>8, WorkerRests DEF order

\* A worker that appends has the facts of its label.
LEMMA AppenderFacts ==
    ASSUME ChainInv, OrderInv, CollectorAlone, NEW w \in Worker, pc[w] \in Unlisted \cup Listing
    PROVE  /\ ~Collecting /\ orderTail \in OrderList \cup {Null} /\ AppendReady(pc[w], loc[w])
           /\ loc[w].node \in Linked /\ loc[w].node \in Node
           /\ \A u \in Worker : u # w /\ pc[u] \in Unlisted => loc[u].node # loc[w].node
<1>1. pc[w] # "idle" /\ pc[w] \notin Unlinked
  BY DEF Unlisted, Listing, Unlinked
<1>2. w \in Thread /\ w # outgoing
  BY MapAssumption DEF Thread
<1>3. ~Collecting
  BY <1>1, <1>2, NobodyCollects
<1>4. orderTail \in OrderList \cup {Null}
  BY <1>3, TailListed
<1>5. AppendReady(pc[w], loc[w])
  BY DEF OrderInv
<1>6. loc[w].node \in Linked /\ loc[w].node \in Node
  BY <1>1, WorkerFacts
<1>7. \A u \in Worker : u # w /\ pc[u] \in Unlisted => loc[u].node # loc[w].node
  BY <1>1 DEF ChainInv, OwnNodes, Unlisted
<1> QED
  BY <1>3, <1>4, <1>5, <1>6, <1>7

\* The node that a swap has linked leads nowhere in the list yet.
LEMMA SwapSucceedsOrder ==
    ASSUME ChainInv, ChainInv', OrderInv, CollectorAlone, NEW w \in Worker, SwapHead(w),
           buckets[BucketFor(loc[w].node)] = loc[w].next
    PROVE  OrderInv'
<1>1. PICK n : n = loc[w].node
  OBVIOUS
<1>2. PICK l : l = [Idle EXCEPT !.node = n]
  OBVIOUS
<1>3. /\ pc[w] = "swap head" /\ Goto(w, "load tail", l) /\ l.node = n
      /\ orderNext' = [orderNext EXCEPT ![n] = Null]
      /\ UNCHANGED <<orderHead, orderTail, deleted, inserted>>
      /\ linkedAt' = [linkedAt EXCEPT ![n] = links[BucketFor(n)] + 1]
  BY <1>1, <1>2 DEF SwapHead, memory, Idle
<1>4. w \in Thread /\ w # outgoing /\ n \in Node /\ n \notin Linked
  <2>1. w \in Thread /\ w # outgoing
    BY MapAssumption DEF Thread
  <2>2. n \in Node /\ n \notin Linked
    BY <1>1, <1>3, WorkerFacts DEF Unlinked
  <2> QED
    BY <2>1, <2>2
<1>5. ~Collecting
  BY <1>3, <1>4, NobodyCollects
<1>6. Linked \subseteq Linked'
  BY <1>3, <1>4 DEF ChainInv, MemoryOK, Linked
<1>7. OrderList \subseteq Linked /\ n \notin OrderList
  BY <1>4 DEF OrderInv
<1>8. /\ orderNext' \in [Node -> Pointer] /\ orderNext'[n] = Null
      /\ \A m \in Node : m # n => orderNext'[m] = orderNext[m]
  BY <1>3, <1>4, ListFacts DEF Pointer
<1>9. OrderList' = OrderList
  <2>1. PICK new : new = orderNext'
    OBVIOUS
  <2>2. \A m \in OrderList : new[m] = orderNext[m]
    BY <1>7, <1>8, <2>1, ListFacts
  <2>3. Walk(orderHead, new) = OrderList
    BY <1>8, <2>1, <2>2, ListFacts, WalkKept DEF OrderList
  <2> QED
    BY <1>3, <2>1, <2>3 DEF OrderList
<1>10. OneWay'
  <2>1. \A m \in OrderList : orderNext'[m] = orderNext[m]
    BY <1>7, <1>8, ListFacts
  <2>2. OneWay /\ orderHead' = orderHead
    BY <1>3 DEF OrderInv
  <2> QED
    BY ONLY <1>9, <2>1, <2>2 DEF OneWay
<1>11. AppendReady("load tail", l)'
  BY <1>3, <1>7, <1>8, <1>9 DEF AppendReady, Unlisted, Listing
<1>12. ASSUME NEW u \in Worker, pc[u] \in Unlisted
       PROVE  loc[u].node \notin OrderList' /\ orderNext'[loc[u].node] = Null
  <2>1. loc[u].node \in Node /\ loc[u].node \notin OrderList /\ orderNext[loc[u].node] = Null
    BY <1>12, AppenderFacts DEF AppendReady
  <2> QED
    BY <1>8, <1>9, <2>1
<1>13. orderTail' \in OrderList' \cup {Null}
  BY <1>3, <1>5, <1>9, TailListed
<1> QED
  BY <1>3, <1>5, <1>6, <1>7, <1>9, <1>10, <1>11, <1>12, <1>13, WorkerStep DEF Inserting, Unlisted

\* The tail is read, checked and moved on; the list rests.
LEMMA TailOrder ==
    ASSUME ChainInv, ChainInv', OrderInv, CollectorAlone, NEW w \in Worker,
           \/ LoadTail(w) \/ LoadNext(w) \/ CheckTail(w) \/ FirstTail(w) \/ SwingTail(w)
           \/ FirstHead(w) /\ orderHead # Null
           \/ Append(w) /\ orderNext[loc[w].prev] # Null
    PROVE  OrderInv'
<1>1. pc[w] \in Unlisted \cup Listing
  BY DEF LoadTail, LoadNext, CheckTail, FirstTail, SwingTail, FirstHead, Append, Unlisted, Listing
<1>2. /\ ~Collecting /\ orderTail \in OrderList \cup {Null} /\ AppendReady(pc[w], loc[w])
      /\ loc[w] \in [node : Pointer, prev : Pointer, next : Pointer]
  BY <1>1, AppenderFacts, WorkerFacts DEF Unlisted, Listing
<1>3. UNCHANGED <<orderNext, orderHead, deleted, age>>
  BY DEF LoadTail, LoadNext, CheckTail, FirstTail, SwingTail, FirstHead, Append, order, memory
<1>4. Linked' = Linked
  BY <1>3 DEF Linked, age
<1>5. ASSUME NEW label \in {"idle"} \cup Inserting, NEW l, Goto(w, label, l), AppendReady(label, l),
             inserted' \subseteq inserted \cup OrderList, orderTail' \in OrderList \cup {Null}
      PROVE  OrderInv'
  BY <1>2, <1>3, <1>4, <1>5, WorkerRests
<1>6. ASSUME NEW label \in {"load tail", "append"}, Goto(w, label, loc[w]), pc[w] \in Unlisted,
             label = "append" => loc[w].prev \in OrderList,
             inserted' = inserted, orderTail' \in OrderList \cup {Null}
      PROVE  OrderInv'
  <2>1. label \in Inserting
    BY DEF Inserting, Unlisted
  <2>2. AppendReady(label, loc[w])
    BY <1>2, <1>6 DEF AppendReady, Unlisted, Listing
  <2> QED
    BY <1>5, <1>6, <2>1, <2>2
<1>7. CASE LoadTail(w)
  <2>1. PICK l : l = [loc[w] EXCEPT !.prev = orderTail]
    OBVIOUS
  <2>2. l.node = loc[w].node /\ l.prev = orderTail
    BY <1>2, <2>1
  <2>3. PICK label \in {"first head", "load next"} :
           Goto(w, label, l) /\ (label = "load next" => orderTail # Null)
    BY <1>7, <2>1 DEF LoadTail
  <2>4. pc[w] \in Unlisted /\ UNCHANGED <<inserted, orderTail>>
    BY <1>7 DEF LoadTail, Unlisted, order
  <2>5. AppendReady(label, l)
    BY <1>2, <2>2, <2>3, <2>4 DEF AppendReady, Unlisted, Listing
  <2>6. label \in Inserting
    BY DEF Inserting, Unlisted
  <2> QED
    BY <1>2, <1>5, <2>3, <2>4, <2>5, <2>6
<1>8. CASE LoadNext(w)
  <2>1. PICK l : l = [loc[w] EXCEPT !.next = orderNext[loc[w].prev]]
    OBVIOUS
  <2>2. l.node = loc[w].node /\ l.prev = loc[w].prev /\ l.next = orderNext[loc[w].prev]
    BY <1>2, <2>1
  <2>3. /\ Goto(w, "check tail", l) /\ pc[w] = "load next" /\ UNCHANGED <<inserted, orderTail>>
    BY <1>8, <2>1 DEF LoadNext, order
  <2>4. loc[w].prev \in OrderList /\ orderNext[loc[w].prev] \in OrderList \cup {Null}
    BY <1>2, <2>3, ListFacts DEF AppendReady
  <2>5. AppendReady("check tail", l)
    BY <1>2, <2>2, <2>3, <2>4 DEF AppendReady, Unlisted, Listing
  <2> QED
    BY <1>2, <1>5, <2>3, <2>5 DEF Inserting, Unlisted
<1>9. CASE CheckTail(w)
  <2>1. /\ pc[w] = "check tail" /\ inserted' = inserted
        /\ orderTail' = orderTail \/ orderTail' = loc[w].next
        /\ \E label \in {"load tail", "append"} : Goto(w, label, loc[w])
    BY <1>9 DEF CheckTail
  <2>2. loc[w].prev \in OrderList /\ loc[w].next \in OrderList \cup {Null}
    BY <1>2, <2>1 DEF AppendReady
  <2> QED
    BY <1>2, <1>6, <2>1, <2>2 DEF Unlisted
<1>10. CASE FirstTail(w) \/ SwingTail(w)
  <2>1. /\ pc[w] \in Listing /\ inserted' = inserted \cup {loc[w].node}
        /\ orderTail' = orderTail \/ orderTail' = loc[w].node
        /\ Goto(w, "idle", Idle)
    BY <1>10 DEF FirstTail, SwingTail, Return, Listing
  <2>2. loc[w].node \in OrderList
    BY <1>2, <2>1 DEF AppendReady
  <2>3. AppendReady("idle", Idle)
    BY DEF AppendReady, Unlisted, Listing
  <2> QED
    BY <1>2, <1>5, <2>1, <2>2, <2>3
<1>11. CASE FirstHead(w) /\ orderHead # Null
  <2>1. pc[w] \in Unlisted /\ Goto(w, "load tail", loc[w]) /\ UNCHANGED <<inserted, orderTail>>
    BY <1>11 DEF FirstHead, Unlisted
  <2> QED
    BY <1>2, <1>6, <2>1
<1>12. CASE Append(w) /\ orderNext[loc[w].prev] # Null
  <2>1. pc[w] \in Unlisted /\ Goto(w, "load tail", loc[w]) /\ UNCHANGED <<inserted, orderTail>>
    BY <1>12 DEF Append, Unlisted
  <2> QED
    BY <1>2, <1>6, <2>1
<1> QED
  BY <1>7, <1>8, <1>9, <1>10, <1>11, <1>12

\* The first node of the list.
LEMMA FirstHeadOrder ==
    ASSUME ChainInv, ChainInv', OrderInv, CollectorAlone, NEW w \in Worker, FirstHead(w),
           orderHead = Null
    PROVE  OrderInv'
<1>1. PICK n, l : n = loc[w].node /\ l = loc[w]
  OBVIOUS
<1>2. /\ pc[w] = "first head" /\ orderHead' = n /\ Goto(w, "first tail", l)
      /\ UNCHANGED <<orderNext, orderTail, deleted, inserted, age>>
  BY <1>1 DEF FirstHead, memory
<1>3. /\ ~Collecting /\ orderTail \in OrderList \cup {Null} /\ AppendReady("first head", l)
      /\ n \in Linked /\ n \in Node
      /\ \A u \in Worker : u # w /\ pc[u] \in Unlisted => loc[u].node # n
  BY <1>1, <1>2, AppenderFacts DEF Unlisted
<1>4. orderNext[n] = Null
  BY <1>1, <1>3 DEF AppendReady, Unlisted
<1>5. OrderList = {}
  BY WalkNull DEF OrderList
<1>6. OrderList' = {n}
  <2>1. Walk(n, orderNext) \subseteq {n} \cup Walk(orderNext[n], orderNext)
    BY <1>3, ListFacts, WalkStep
  <2>2. n \in Walk(n, orderNext) \cup {Null} /\ n # Null
    BY <1>3, ListFacts, WalkIsClosed, MapAssumption DEF Pointer
  <2>3. Walk(n, orderNext) = {n}
    BY <1>4, <2>1, <2>2, WalkNull
  <2> QED
    BY <1>2, <2>3 DEF OrderList
<1>7. OneWay'
  BY <1>2, <1>4, <1>6 DEF OneWay
<1>8. Linked' = Linked
  BY <1>2 DEF Linked, age
<1>9. AppendReady("first tail", l)'
  BY <1>1, <1>6 DEF AppendReady, Unlisted, Listing
<1>10. \A u \in Worker : u # w /\ pc[u] \in Unlisted =>
          loc[u].node \notin OrderList' /\ orderNext'[loc[u].node] = Null
  BY <1>2, <1>3, <1>6 DEF OrderInv, AppendReady
<1> QED
  BY <1>2, <1>3, <1>5, <1>6, <1>7, <1>8, <1>9, <1>10, WorkerStep DEF Inserting, Listing

\* A node is appended.
LEMMA AppendOrder ==
    ASSUME ChainInv, ChainInv', OrderInv, CollectorAlone, NEW w \in Worker, Append(w),
           orderNext[loc[w].prev] = Null
    PROVE  OrderInv'
<1>1. PICK n, p, l : n = loc[w].node /\ p = loc[w].prev /\ l = loc[w]
  OBVIOUS
<1>2. /\ pc[w] = "append" /\ orderNext' = [orderNext EXCEPT ![p] = n] /\ Goto(w, "swing tail", l)
      /\ UNCHANGED <<orderHead, orderTail, deleted, inserted, age>>
  BY <1>1 DEF Append, memory
<1>3. /\ ~Collecting /\ orderTail \in OrderList \cup {Null} /\ AppendReady("append", l)
      /\ n \in Linked /\ n \in Node
      /\ \A u \in Worker : u # w /\ pc[u] \in Unlisted => loc[u].node # n
  BY <1>1, <1>2, AppenderFacts DEF Unlisted
<1>4. orderNext[n] = Null /\ n \notin OrderList /\ p \in OrderList /\ orderNext[p] = Null
  BY <1>1, <1>3 DEF AppendReady, Unlisted
<1>5. p \in Node /\ p # n
  BY <1>4, ListFacts
<1>6. /\ orderNext' \in [Node -> Pointer] /\ orderNext'[p] = n
      /\ \A m \in Node : m # p => orderNext'[m] = orderNext[m]
  BY <1>2, <1>3, <1>5, ListFacts DEF Pointer
<1>7. OrderList' = OrderList \cup {n}
  <2>1. PICK new \in [Node -> Pointer] : new = orderNext'
    BY <1>6
  <2>2. p \in Walk(orderHead, orderNext) /\ orderHead \in Pointer /\ orderNext \in [Node -> Pointer]
    BY <1>4, ListFacts DEF OrderList
  <2>3. new[p] = n /\ \A m \in Node : m # p => new[m] = orderNext[m]
    BY <1>6, <2>1
  <2>4. Walk(orderHead, new) = Walk(orderHead, orderNext) \cup {n}
    BY <1>3, <1>4, <1>5, <2>2, <2>3, WalkAppended
  <2> QED
    BY <1>2, <2>1, <2>4 DEF OrderList
<1>8. OneWay'
  <2>1. ASSUME NEW m \in OrderList', orderNext'[m] # Null
        PROVE  /\ m \in OrderList
               /\ m = p \/ (orderNext'[m] = orderNext[m] /\ orderNext[m] \in OrderList)
    <3>1. m # n
      BY <1>3, <1>4, <1>5, <1>6, <2>1
    <3>2. m \in OrderList /\ m \in Node
      BY <1>7, <2>1, <3>1, ListFacts
    <3> QED
      BY <1>6, <2>1, <3>2, ListFacts
  <2>2. ASSUME NEW m \in OrderList', NEW x \in OrderList',
               orderNext'[m] = orderNext'[x], orderNext'[m] # Null
        PROVE  m = x
    BY <1>4, <1>6, <2>1, <2>2 DEF OrderInv, OneWay
  <2>3. ASSUME NEW m \in OrderList', orderNext'[m] # Null
        PROVE  orderNext'[m] # orderHead'
    <3>1. n # orderHead
      BY <1>3, <1>4, ListFacts, MapAssumption
    <3> QED
      BY <1>2, <1>6, <2>1, <2>3, <3>1 DEF OrderInv, OneWay
  <2> QED
    BY <2>2, <2>3 DEF OneWay
<1>9. Linked' = Linked
  BY <1>2 DEF Linked, age
<1>10. AppendReady("swing tail", l)'
  BY <1>1, <1>7 DEF AppendReady, Unlisted, Listing
<1>11. ASSUME NEW u \in Worker, u # w, pc[u] \in Unlisted
       PROVE  loc[u].node \notin OrderList' /\ orderNext'[loc[u].node] = Null
  <2>1. loc[u].node \in Node /\ loc[u].node \notin OrderList /\ orderNext[loc[u].node] = Null
    BY <1>11, AppenderFacts DEF AppendReady
  <2>2. loc[u].node # n /\ loc[u].node # p
    BY <1>3, <1>4, <1>11, <2>1
  <2> QED
    BY <1>7, <1>6, <2>1, <2>2
<1>12. OrderList' \subseteq Linked'
  BY <1>3, <1>7, <1>9 DEF OrderInv
<1>13. orderTail' \in OrderList' \cup {Null}
  BY <1>2, <1>3, <1>7
<1> QED
  BY <1>2, <1>3, <1>7, <1>8, <1>10, <1>11, <1>12, <1>13, WorkerStep DEF Inserting, Listing

\* A step that leaves the list alone and moves no thread.
LEMMA OrderKept ==
    ASSUME OrderInv, UNCHANGED <<order, deleted, age, pc, loc, inserted>>
    PROVE  OrderInv'
<1>1. OrderList' = OrderList /\ Linked' = Linked /\ Collecting' = Collecting
  BY DEF OrderList, Linked, order, age, Collecting
<1>2. AloneInv' /\ OneWay' /\ LiveIsListed' /\ OrderList' \subseteq Linked'
  BY <1>1 DEF OrderInv, AloneInv, OneWay, LiveIsListed, order
<1>3. \A x, k : AppendReady(x, k) => AppendReady(x, k)'
  BY <1>1 DEF AppendReady, order
<1>4. /\ \A p, c : LeadsTo(p, c) => LeadsTo(p, c)'
      /\ \A c : Ahead(c) => Ahead(c)'
  BY <1>1 DEF order, LeadsTo, Ahead
<1>5. ASSUME NEW x, NEW k, CollectReady(x, k) PROVE CollectReady(x, k)'
  <2>1. UNCHANGED <<orderTail, orderNext, deleted>>
    BY DEF order
  <2> QED
    BY ONLY <1>1, <1>4, <1>5, <2>1 DEF CollectReady
<1> QED
  BY <1>2, <1>3, <1>5 DEF OrderInv

LEMMA InsertOrder ==
    ASSUME ChainInv, ChainInv', OrderInv, CollectorAlone, NEW w \in Worker, Insert(w)
    PROVE  OrderInv'
<1>1. CASE \E n \in Node : InsertExists(w, n)
  <2>1. UNCHANGED <<order, deleted, age, pc, loc, inserted>>
    BY <1>1 DEF InsertExists, memory
  <2> QED
    BY <2>1, OrderKept
<1>2. CASE \E n \in Node : InsertFind(w, n)
  BY <1>2, PhaseOneOrder
<1>3. CASE InsertRetry(w) \/ LoadHead(w) \/ SwapHead(w)
  BY <1>3, PhaseOneOrder, SwapSucceedsOrder
<1>4. CASE LoadTail(w) \/ LoadNext(w) \/ CheckTail(w) \/ FirstTail(w) \/ SwingTail(w)
  BY <1>4, TailOrder
<1>5. CASE FirstHead(w) \/ Append(w)
  BY <1>5, TailOrder, FirstHeadOrder, AppendOrder
<1> QED
  BY <1>1, <1>2, <1>3, <1>4, <1>5 DEF Insert

\* A remover marks nodes, and leaves the list to the collector.
LEMMA RemoveOrder ==
    ASSUME ChainInv, OrderInv, CollectorAlone, NEW r \in {incoming, outgoing}, Remove(r)
    PROVE  OrderInv'
<1>1. /\ UNCHANGED <<order, inserted, age>> /\ deleted \subseteq deleted'
  BY DEF Remove, RemoveCall, RemoveFind, RemoveMark, LoadPrev, Unlink, memory
<1>2. MayCall(r) \/ pc[r] \in {"find"} \cup Removing
  BY DEF Remove, RemoveCall, RemoveFind, RemoveMark, LoadPrev, Unlink, Removing
<1>3. ~Collecting
  <2>1. CASE r = outgoing
    BY <1>2, <2>1 DEF MayCall, Collecting, Removing
  <2>2. CASE r # outgoing
    BY <1>2, <2>2, NobodyCollects DEF Thread, Removing
  <2> QED
    BY <2>1, <2>2
<1>4. PICK label \in {"idle", "find"} \cup Removing : \E l : Goto(r, label, l)
  <2>1. CASE \E k \in Key : RemoveCall(r, k)
    BY <2>1 DEF RemoveCall
  <2>2. CASE RemoveFind(r)
    BY <2>2 DEF RemoveFind, Return, Removing
  <2>3. CASE RemoveMark(r)
    BY <2>3 DEF RemoveMark, Removing
  <2>4. CASE LoadPrev(r)
    BY <2>4 DEF LoadPrev, Return, Removing
  <2>5. CASE Unlink(r)
    BY <2>5 DEF Unlink, Return
  <2> QED
    BY <2>1, <2>2, <2>3, <2>4, <2>5 DEF Remove
<1>5. PICK l : Goto(r, label, l)
  BY <1>4
<1>6. label \notin Cleaning \cup {"gc sweep"}
  BY DEF Cleaning, Removing
<1> QED
  BY <1>1, <1>3, <1>5, <1>6, RemoverRests

\* A step of the collector, while everyone else waits.
LEMMA CollectorStep ==
    ASSUME ChainInv, NEW label, NEW l, Goto(outgoing, label, l),
           \A t \in Thread : t = outgoing \/ pc[t] = "idle",
           OneWay', LiveIsListed', OrderList' \subseteq Linked', CollectReady(label, l)'
    PROVE  OrderInv'
<1>1. outgoing \in Thread /\ MemoryOK /\ Worker \subseteq Thread /\ outgoing \notin Worker
  BY MapAssumption DEF Thread, ChainInv
<1>2. /\ pc'[outgoing] = label /\ loc'[outgoing] = l
      /\ \A u \in Thread : u # outgoing => pc'[u] = pc[u]
  BY <1>1, GotoFacts
<1>3. AloneInv'
  BY <1>2 DEF AloneInv
<1>4. ASSUME NEW w \in Worker PROVE AppendReady(pc[w], loc[w])'
  BY <1>1, <1>2 DEF AppendReady, Unlisted, Listing
<1>5. CollectReady(pc[outgoing], loc[outgoing])'
  BY <1>2
<1> QED
  BY <1>3, <1>4, <1>5 DEF OrderInv

\* The collector begins, goes on to the next node, or is done with the list.
LEMMA CollectorRests ==
    ASSUME ChainInv, OrderInv, NEW label, NEW l, Goto(outgoing, label, l),
           \A t \in Thread : t = outgoing \/ pc[t] = "idle",
           UNCHANGED <<orderNext, orderHead, inserted, deleted, age>>,
           \/ orderTail' \in OrderList \cup {Null}
           \/ label = "gc tail" /\ orderTail' = l.node,
           label \in Cleaning => l.prev \in (OrderList \ deleted) \cup {Null},
           label \in {"gc next", "gc check"} => LeadsTo(l.prev, l.node) /\ Ahead(l.node),
           label = "gc check" => l.node \in OrderList /\ l.next = orderNext[l.node],
           label = "gc tail" => LeadsTo(l.prev, l.next) /\ Ahead(l.next),
           label = "gc sweep" => OrderList \cap deleted = {}
    PROVE  OrderInv'
<1>1. OrderList' = OrderList /\ Linked' = Linked
  BY DEF OrderList, Linked, age
<1>2. OneWay' /\ LiveIsListed' /\ OrderList' \subseteq Linked'
  BY <1>1 DEF OrderInv, OneWay, LiveIsListed
<1>3. /\ \A p, c : LeadsTo(p, c) => LeadsTo(p, c)'
      /\ \A c : Ahead(c) => Ahead(c)'
  BY <1>1 DEF LeadsTo, Ahead
<1>4. CollectReady(label, l)'
  BY <1>1, <1>3 DEF CollectReady
<1> QED
  BY <1>2, <1>4, CollectorStep

\* The collector has no thread beside it.
LEMMA CollectorFacts ==
    ASSUME ChainInv, OrderInv, CollectorAlone, CollectGarbage
    PROVE  /\ \A t \in Thread : t = outgoing \/ pc[t] = "idle"
           /\ CollectReady(pc[outgoing], loc[outgoing])
           /\ loc[outgoing] \in [node : Pointer, prev : Pointer, next : Pointer]
<1>1. pc[outgoing] = "idle" => \A t \in Thread : pc[t] = "idle"
  BY DEF CollectGarbage, GcBegin, GcNext, GcCheck, GcTail, GcSweep
<1>2. pc[outgoing] # "idle" => Collecting
  BY DEF CollectGarbage, GcBegin, GcNext, GcCheck, GcTail, GcSweep, Collecting
<1>3. pc[outgoing] # "find"
  BY <1>2 DEF Collecting
<1>4. loc[outgoing] \in [node : Pointer, prev : Pointer, next : Pointer]
  BY <1>3, RemoverFacts
<1>5. \A t \in Thread : t = outgoing \/ pc[t] = "idle"
  BY <1>1, <1>2 DEF OrderInv, AloneInv
<1> QED
  BY <1>4, <1>5 DEF OrderInv

\* The collector goes from node to node.
LEMMA GcMovesOrder ==
    ASSUME ChainInv, OrderInv, CollectorAlone, CollectGarbage,
           GcBegin \/ GcNext \/ GcTail \/ GcSweep
    PROVE  OrderInv'
<1>1. PICK k : k = loc[outgoing]
  OBVIOUS
<1>2. /\ \A t \in Thread : t = outgoing \/ pc[t] = "idle"
      /\ CollectReady(pc[outgoing], k)
      /\ k \in [node : Pointer, prev : Pointer, next : Pointer]
  BY <1>1, CollectorFacts
<1>3. UNCHANGED <<orderNext, orderHead, inserted, deleted, age>>
  BY DEF GcBegin, GcNext, GcTail, GcSweep, order, memory
<1>4. CASE GcBegin
  <2>1. PICK l : l = [Idle EXCEPT !.node = orderHead]
    OBVIOUS
  <2>2. l.node = orderHead /\ l.prev = Null
    BY <2>1 DEF Idle
  <2>3. pc[outgoing] = "idle" /\ Goto(outgoing, "gc next", l) /\ UNCHANGED orderTail
    BY <1>4, <2>1 DEF GcBegin, order
  <2>4. orderTail \in OrderList \cup {Null}
    BY <1>2, <2>3 DEF CollectReady
  <2>5. LeadsTo(l.prev, l.node) /\ Ahead(l.node)
    BY <2>2 DEF LeadsTo, Ahead, OrderList
  <2> QED
    BY <1>2, <1>3, <2>2, <2>3, <2>4, <2>5, CollectorRests
<1>5. CASE GcNext /\ k.node = Null
  <2>1. pc[outgoing] = "gc next" /\ Goto(outgoing, "gc sweep", Idle) /\ UNCHANGED orderTail
    BY <1>1, <1>5 DEF GcNext, order
  <2>2. orderTail \in OrderList \cup {Null} /\ Ahead(Null)
    BY <1>2, <1>5, <2>1 DEF CollectReady
  <2>3. OrderList \cap deleted = {}
    BY <2>2, WalkNull DEF Ahead
  <2> QED
    BY <1>2, <1>3, <2>1, <2>2, <2>3, CollectorRests DEF Cleaning
<1>6. CASE GcNext /\ k.node # Null
  <2>1. PICK l : l = [k EXCEPT !.next = orderNext[k.node]]
    OBVIOUS
  <2>2. l.node = k.node /\ l.prev = k.prev /\ l.next = orderNext[k.node]
    BY <1>2, <2>1
  <2>3. pc[outgoing] = "gc next" /\ Goto(outgoing, "gc check", l) /\ UNCHANGED orderTail
    BY <1>1, <1>6, <2>1 DEF GcNext, order
  <2>4. /\ orderTail \in OrderList \cup {Null} /\ LeadsTo(k.prev, k.node) /\ Ahead(k.node)
        /\ k.prev \in (OrderList \ deleted) \cup {Null}
    BY <1>2, <2>3 DEF CollectReady, Cleaning
  <2>5. k.node \in OrderList
    BY <1>6, <2>4, ListFacts DEF LeadsTo
  <2> QED
    BY <1>2, <1>3, <2>2, <2>3, <2>4, <2>5, CollectorRests DEF Cleaning
<1>7. CASE GcTail
  <2>1. PICK l : l = [k EXCEPT !.node = k.next, !.next = Null]
    OBVIOUS
  <2>2. l.node = k.next /\ l.prev = k.prev
    BY <1>2, <2>1
  <2>3. /\ pc[outgoing] = "gc tail" /\ Goto(outgoing, "gc next", l)
        /\ orderTail' = IF orderTail = k.node THEN k.prev ELSE orderTail
    BY <1>1, <1>7, <2>1 DEF GcTail
  <2>4. /\ LeadsTo(k.prev, k.next) /\ Ahead(k.next)
        /\ k.prev \in (OrderList \ deleted) \cup {Null}
        /\ orderTail \in OrderList \cup {Null} \/ orderTail = k.node
    BY <1>2, <2>3 DEF CollectReady, Cleaning
  <2>5. orderTail' \in OrderList \cup {Null}
    BY <2>3, <2>4
  <2> QED
    BY <1>2, <1>3, <2>2, <2>3, <2>4, <2>5, CollectorRests
<1>8. CASE GcSweep
  <2>1. pc[outgoing] = "gc sweep" /\ Goto(outgoing, "idle", Idle) /\ UNCHANGED orderTail
    BY <1>8 DEF GcSweep, Return, order
  <2>2. orderTail \in OrderList \cup {Null}
    BY <1>2, <2>1 DEF CollectReady
  <2> QED
    BY <1>2, <1>3, <2>1, <2>2, CollectorRests DEF Cleaning
<1> QED
  BY <1>4, <1>5, <1>6, <1>7, <1>8

\* A removed node is unlinked from the list, or a live one passed.
LEMMA GcCheckOrder ==
    ASSUME ChainInv, ChainInv', OrderInv, CollectorAlone, CollectGarbage, GcCheck
    PROVE  OrderInv'
<1>1. PICK l, c, p, next : l = loc[outgoing] /\ c = l.node /\ p = l.prev /\ next = l.next
  OBVIOUS
<1>2. pc[outgoing] = "gc check" /\ UNCHANGED <<orderTail, inserted, deleted, age>>
  BY DEF GcCheck, memory
<1>3. /\ \A t \in Thread : t = outgoing \/ pc[t] = "idle"
      /\ CollectReady("gc check", l)
      /\ l \in [node : Pointer, prev : Pointer, next : Pointer]
  BY <1>1, <1>2, CollectorFacts
<1>4. /\ c \in OrderList /\ next = orderNext[c] /\ LeadsTo(p, c) /\ Ahead(c)
      /\ p \in (OrderList \ deleted) \cup {Null} /\ orderTail \in OrderList \cup {Null}
  BY <1>1, <1>3 DEF CollectReady, Cleaning
<1>5. c \in Node /\ c # Null /\ next \in Pointer /\ next \in OrderList \cup {Null}
  BY <1>4, ListFacts, MapAssumption
<1>6. Walk(c, orderNext) \subseteq {c} \cup Walk(next, orderNext)
  BY <1>4, <1>5, ListFacts, WalkStep
<1>7. Linked' = Linked /\ OneWay /\ OrderList \subseteq Linked /\ LiveIsListed
  BY <1>2 DEF Linked, age, OrderInv
<1>8. CASE c \notin deleted
  <2>1. PICK k : k = [Idle EXCEPT !.node = next, !.prev = c]
    OBVIOUS
  <2>2. k.node = next /\ k.prev = c
    BY <2>1 DEF Idle
  <2>3. Goto(outgoing, "gc next", k) /\ UNCHANGED <<orderHead, orderNext>>
    BY <1>1, <1>8, <2>1 DEF GcCheck
  <2>4. LeadsTo(c, next) /\ Ahead(next)
    BY <1>4, <1>5, <1>6, <1>8 DEF LeadsTo, Ahead
  <2> QED
    BY <1>2, <1>3, <1>4, <1>8, <2>2, <2>3, <2>4, CollectorRests
<1>9. ASSUME c \in deleted, OrderList' = OrderList \ {c}, OneWay', LeadsTo(p, next)', Ahead(next)'
      PROVE  OrderInv'
  <2>1. Goto(outgoing, "gc tail", l)
    BY <1>1, <1>9 DEF GcCheck
  <2>2. LiveIsListed' /\ OrderList' \subseteq Linked'
    BY <1>2, <1>7, <1>9 DEF LiveIsListed
  <2>3. l.prev \in (OrderList' \ deleted') \cup {Null}
    BY <1>1, <1>2, <1>4, <1>9
  <2>4. orderTail' \in OrderList' \cup {Null} \/ orderTail' = l.node
    BY <1>1, <1>2, <1>4, <1>9
  <2>5. CollectReady("gc tail", l)'
    BY <1>1, <1>9, <2>3, <2>4 DEF CollectReady
  <2> QED
    BY <1>3, <1>9, <2>1, <2>2, <2>5, CollectorStep
<1>10. CASE c \in deleted /\ p = Null
  <2>1. orderHead' = next /\ UNCHANGED orderNext
    BY <1>1, <1>10 DEF GcCheck
  <2>2. orderHead = c
    BY <1>4, <1>10 DEF LeadsTo
  <2>3. \A m \in Walk(c, orderNext) : orderNext[m] # c
    BY <1>5, <1>7, <2>2 DEF OneWay, OrderList
  <2>4. Walk(orderNext[c], orderNext) = Walk(c, orderNext) \ {c}
    BY <1>5, <2>3, ListFacts, WalkBeheaded
  <2>5. OrderList' = OrderList \ {c}
    BY <1>4, <2>1, <2>2, <2>4 DEF OrderList
  <2>6. OneWay'
    BY <1>4, <1>7, <2>1, <2>5 DEF OneWay
  <2>7. LeadsTo(p, next)'
    BY <1>10, <2>1 DEF LeadsTo
  <2>8. Ahead(next)'
    BY <2>1 DEF Ahead, OrderList
  <2> QED
    BY <1>9, <1>10, <2>5, <2>6, <2>7, <2>8
<1>11. CASE c \in deleted /\ p # Null
  <2>1. orderNext' = [orderNext EXCEPT ![p] = next] /\ UNCHANGED orderHead
    BY <1>1, <1>11 DEF GcCheck
  <2>2. p \in OrderList /\ p \in Node /\ p # c /\ orderNext[p] = c /\ orderHead # c
    BY <1>4, <1>5, <1>7, <1>11, ListFacts DEF LeadsTo, OneWay
  <2>3. PICK new : new = orderNext'
    OBVIOUS
  <2>4. /\ new \in [Node -> Pointer] /\ new[p] = next
        /\ \A m \in Node : m # p => new[m] = orderNext[m]
    BY <1>5, <2>1, <2>2, <2>3, ListFacts
  <2>5. \A m \in Walk(orderHead, orderNext) : orderNext[m] = c => m = p
    BY <1>5, <1>7, <2>2 DEF OneWay, OrderList
  <2>6. /\ Walk(orderHead, new) = Walk(orderHead, orderNext) \ {c}
        /\ Walk(next, orderNext) \ {c} \subseteq Walk(next, new)
    <3>1. PICK W : W = Walk(orderHead, orderNext)
      OBVIOUS
    <3>2. p \in W /\ orderHead \in Pointer /\ orderNext \in [Node -> Pointer]
      BY <2>2, <3>1, ListFacts DEF OrderList
    <3>3. new[p] = orderNext[c] /\ c \in Node /\ orderNext[p] = c /\ p # c /\ orderHead # c
      BY <1>4, <1>5, <2>2, <2>4
    <3>4. \A m \in W : orderNext[m] = c => m = p
      BY <2>5, <3>1
    <3>5. Walk(orderHead, new) = W \ {c}
      BY ONLY MapAssumption, <2>4, <3>1, <3>2, <3>3, <3>4, WalkUnlinked
    <3>6. Walk(next, orderNext) \ {c} \subseteq Walk(next, new)
      BY <1>4, <1>5, <2>2, <2>4, <3>2, <3>3, WalkPast
    <3> QED
      BY <3>1, <3>5, <3>6
  <2>7. OrderList' = OrderList \ {c}
    BY <2>1, <2>3, <2>6 DEF OrderList
  <2>8. OneWay'
    <3>1. ASSUME NEW m \in OrderList', orderNext'[m] # Null
          PROVE  /\ m \in OrderList /\ m # c
                 /\ orderNext'[m] = IF m = p THEN orderNext[c] ELSE orderNext[m]
      BY <1>4, <2>3, <2>4, <2>7, <3>1, ListFacts
    <3>2. ASSUME NEW m \in OrderList', NEW x \in OrderList',
                 orderNext'[m] = orderNext'[x], orderNext'[m] # Null
          PROVE  m = x
      BY <1>4, <1>7, <3>1, <3>2 DEF OneWay
    <3>3. ASSUME NEW m \in OrderList', orderNext'[m] # Null
          PROVE  orderNext'[m] # orderHead'
      BY <1>4, <1>7, <2>1, <3>1, <3>3 DEF OneWay
    <3> QED
      BY <3>2, <3>3 DEF OneWay
  <2>9. LeadsTo(p, next)'
    BY <1>11, <2>3, <2>4 DEF LeadsTo
  <2>10. Ahead(next)'
    <3>1. OrderList' \cap deleted' \subseteq Walk(next, new)
      BY <1>2, <1>4, <1>6, <2>6, <2>7 DEF Ahead
    <3> QED
      BY <2>3, <3>1 DEF Ahead
  <2> QED
    BY <1>9, <1>11, <2>7, <2>8, <2>9, <2>10
<1> QED
  BY <1>8, <1>10, <1>11

LEMMA NextOrder ==
    ASSUME ChainInv, ChainInv', OrderInv, CollectorAlone, [MapNext]_mapVars
    PROVE  OrderInv'
<1>1. CASE UNCHANGED mapVars
  BY <1>1, OrderKept DEF mapVars, memory
<1>2. CASE CollectGarbage
  BY <1>2, GcMovesOrder, GcCheckOrder DEF CollectGarbage
<1> QED
  BY <1>1, <1>2, InsertOrder, RemoveOrder DEF MapNext

\* insert_internal's second phase and collect_garbage: for any number of workers and
\* nodes, however their appends interleave, a receipt whose insert has returned true is on
\* the order list until it is removed, so that the retry scan meets it.  The calls that
\* collect_garbage makes must not overlap another call: a worker that has read the tail
\* before the collector unlinks it appends to a node that is off the list.
THEOREM MapListsLive == ASSUME CollectorAlone PROVE MapSpec => []LiveIsListed
<1>1. MapInit => ChainInv /\ OrderInv
  BY InitChain, InitOrder
<1>2. ChainInv /\ OrderInv /\ [MapNext]_mapVars => (ChainInv /\ OrderInv)'
  BY NextChain, NextOrder
<1>3. OrderInv => LiveIsListed
  BY DEF OrderInv
<1> QED
  BY <1>1, <1>2, <1>3, PTL DEF MapSpec

-----------------------------------------------------------------------------
(* What the collector gives back.                                             *)

LEMMA InitGarbage ==
    ASSUME MapInit, NumbersApart
    PROVE  GarbageInv
<1> SUFFICES ASSUME OwnNumbers, scenario.collections # 0
             PROVE  OneToABucket /\ FreeInv
  <2>1. ~Collecting /\ freed = {}
    BY DEF MapInit, Collecting, Thread
  <2> QED
    BY <2>1 DEF GarbageInv
<1>1. scenario \in Scenario
  BY DEF MapInit
<1>2. OneToABucket
  BY <1>1 DEF NumbersApart, OwnNumbers, OneToABucket, BucketFor, BucketOf, KeyOf
<1>3. freed = {} /\ allNodes = {} /\ deleted = {} /\ \A t \in Thread : pc[t] = "idle"
  BY DEF MapInit
<1>4. MarkedIsUnlinked
  BY <1>3 DEF MarkedIsUnlinked
<1>5. \A r \in {incoming, outgoing} : pc[r] \notin Removing
  BY <1>3 DEF Thread, Removing
<1> QED
  BY <1>2, <1>3, <1>4, <1>5 DEF FreeInv

\* A node in its chain is alone there, and its bucket leads to it.
LEMMA AloneInChain ==
    ASSUME ChainInv, OneToABucket, NEW b \in Bucket, NEW n \in Chain(b)
    PROVE  /\ n \in Linked /\ BucketFor(n) = b /\ buckets[b] = n
<1>1. InBucket(n, b) /\ n \in Node /\ buckets[b] \in Chain(b) \cup {Null}
  BY ChainMembers
<1>2. buckets[b] # Null
  BY WalkNull DEF Chain
<1>3. InBucket(buckets[b], b) /\ buckets[b] \in Node
  BY <1>1, <1>2, ChainMembers
<1>4. buckets[b] = n
  BY <1>1, <1>3 DEF InBucket, OneToABucket
<1> QED
  BY <1>1, <1>4 DEF InBucket

\* Nothing follows a node in its chain.
LEMMA NothingFollows ==
    ASSUME ChainInv, OneToABucket, NEW m \in Linked, NEW p \in Pointer, Follows(m, p)
    PROVE  p = Null
<1> SUFFICES ASSUME p # Null PROVE FALSE
  OBVIOUS
<1>1. InBucket(p, BucketFor(m)) /\ linkedAt[p] < linkedAt[m]
  BY DEF Follows
<1>2. p \in Node /\ m \in Node /\ BucketFor(p) = BucketFor(m)
  BY <1>1 DEF InBucket, Linked
<1>3. p = m
  BY <1>2 DEF OneToABucket
<1>4. linkedAt[m] \in Nat
  BY <1>2 DEF ChainInv, MemoryOK
<1> QED
  BY <1>1, <1>3, <1>4

LEMMA GarbageDangles ==
    ASSUME ChainInv, OrderInv, GarbageInv
    PROVE  NoDangling
<1> SUFFICES ASSUME OwnNumbers
             PROVE  /\ \A b \in Bucket : Chain(b) \cap freed = {}
                    /\ (OrderList \cup {orderTail} \cup allNodes) \cap freed = {}
                    /\ \A t \in Thread : pc[t] # "find" =>
                          {loc[t].node, loc[t].prev, loc[t].next} \cap freed = {}
  BY DEF NoDangling, OwnNumbers
<1>1. CASE freed = {}
  BY <1>1
<1>2. CASE OneToABucket /\ FreeInv
  <2>1. \A b \in Bucket : Chain(b) \cap freed = {}
    BY <1>2, AloneInChain DEF FreeInv
  <2> QED
    BY <1>2, <2>1 DEF FreeInv
<1> QED
  BY <1>1, <1>2 DEF GarbageInv

\* An insert whose node is superfluous would have met its own number.
LEMMA NeverSuperfluous ==
    ASSUME ChainInv, OwnNumbers, NEW w \in Worker, InsertRetry(w)
    PROVE  /\ UNCHANGED freed
           /\ Goto(w, "load head", loc[w])
<1>1. PICK n : n = loc[w].node
  OBVIOUS
<1>2. n \in Node /\ n \notin Linked
  BY <1>1, WorkerFacts DEF InsertRetry, Unlinked
<1>3. PICK k \in Key : k = KeyOf[n]
  BY <1>2, ScenarioFacts DEF ChainInv, MemoryOK
<1>4. PICK b \in Bucket : b = BucketOf[k]
  BY ScenarioFacts DEF ChainInv, MemoryOK
<1>5. find_in_bucket(k) = Null
  <2> SUFFICES ASSUME find_in_bucket(k) # Null PROVE FALSE
    OBVIOUS
  <2>1. PICK m : m = find_in_bucket(k)
    OBVIOUS
  <2>2. m \in Chain(b) /\ m \in Node /\ KeyOf[m] = k
    BY <1>4, <2>1, FindFacts
  <2>3. m \in Linked
    BY <2>2, ChainMembers DEF InBucket
  <2>4. m = n
    BY <1>2, <1>3, <2>2 DEF OwnNumbers
  <2> QED
    BY <1>2, <2>3, <2>4
<1> QED
  BY <1>1, <1>3, <1>5 DEF InsertRetry

\* A step of a thread that gives nothing back.
LEMMA FreeStep ==
    ASSUME ChainInv, FreeInv, UNCHANGED <<freed, scenario>>, deleted \subseteq deleted',
           allNodes' \cap freed = {}, OrderList' \cap freed = {}, orderTail' \notin freed,
           \A b \in Bucket : buckets'[b] \notin freed, MarkedIsUnlinked',
           NEW t \in Thread, NEW label, NEW l, Goto(t, label, l),
           label # "find" => {l.node, l.prev, l.next} \cap freed = {},
           t \notin Worker /\ label \in Removing => l.prev = Null
    PROVE  FreeInv'
<1>1. MemoryOK /\ {incoming, outgoing} \subseteq Thread /\ {incoming, outgoing} \cap Worker = {}
  BY MapAssumption DEF ChainInv, Thread
<1>2. /\ pc'[t] = label /\ loc'[t] = l
      /\ \A u \in Thread : u # t => pc'[u] = pc[u] /\ loc'[u] = loc[u]
  BY <1>1, GotoFacts
<1>3. Bucket' = Bucket
  BY DEF Bucket, BucketOf
<1>4. ASSUME NEW u \in Thread, pc'[u] # "find"
      PROVE  {loc'[u].node, loc'[u].prev, loc'[u].next} \cap freed' = {}
  BY <1>2, <1>4 DEF FreeInv
<1>5. ASSUME NEW r \in {incoming, outgoing}, pc'[r] \in Removing
      PROVE  loc'[r].prev = Null
  BY <1>1, <1>2, <1>5 DEF FreeInv
<1> QED
  BY <1>3, <1>4, <1>5 DEF FreeInv

\* A worker lists no node but its own.
LEMMA ListGrows ==
    ASSUME ChainInv, ChainInv', OrderInv, CollectorAlone, NEW w \in Worker, Insert(w)
    PROVE  OrderList' \subseteq OrderList \cup {loc[w].node}
<1>1. CASE UNCHANGED <<orderNext, orderHead>>
  BY <1>1 DEF OrderList
<1>2. CASE ~UNCHANGED <<orderNext, orderHead>>
  <2>1. PICK n : n = loc[w].node
    OBVIOUS
  <2>2. /\ pc[w] \in {"swap head"} \cup Unlisted
        /\ orderHead' \in {orderHead, n}
        /\ pc[w] = "swap head" => orderNext' = [orderNext EXCEPT ![n] = Null]
        /\ \/ orderNext' = [orderNext EXCEPT ![n] = Null] \/ orderNext' = orderNext
           \/ orderNext' = [orderNext EXCEPT ![loc[w].prev] = n] /\ orderNext[loc[w].prev] = Null
              /\ pc[w] = "append"
    BY <1>2, <2>1 DEF Insert, InsertFind, InsertExists, InsertRetry, LoadHead, SwapHead, LoadTail,
       FirstHead, FirstTail, LoadNext, CheckTail, Append, SwingTail, order, Unlisted
  <2>3. n \in Node /\ n # Null
    BY <2>1, <2>2, WorkerFacts, MapAssumption DEF Unlisted
  <2>4. pc[w] \in Unlisted => orderNext[n] = Null
    BY <2>1 DEF OrderInv, AppendReady
  <2>5. pc[w] = "append" => loc[w].prev \in OrderList /\ n \notin OrderList
    BY <2>1 DEF OrderInv, AppendReady, Unlisted
  <2>6. PICK S, new, head : S = OrderList \cup {n} /\ new = orderNext' /\ head = orderHead'
    OBVIOUS
  <2>7. S \in SUBSET Node /\ head \in S \cup {Null}
    BY <2>2, <2>3, <2>6, ListFacts
  <2>8. ASSUME NEW m \in S PROVE new[m] \in S \cup {Null}
    <3>1. orderNext[m] \in S \cup {Null} \/ (m = n /\ pc[w] = "swap head")
      BY <2>2, <2>4, <2>6, ListFacts
    <3>2. m \in Node /\ orderNext \in [Node -> Pointer]
      BY <2>7, ListFacts
    <3>3. CASE orderNext' = [orderNext EXCEPT ![n] = Null]
      BY <2>6, <3>1, <3>2, <3>3
    <3>4. CASE orderNext' = orderNext
      BY <2>2, <2>3, <2>6, <3>1, <3>2, <3>4
    <3>5. CASE orderNext' = [orderNext EXCEPT ![loc[w].prev] = n] /\ pc[w] = "append"
      <4>1. new[m] = n \/ new[m] = orderNext[m]
        BY <2>6, <3>2, <3>5
      <4> QED
        BY <2>6, <3>1, <3>5, <4>1
    <3> QED
      BY <2>2, <3>3, <3>4, <3>5
  <2>9. Walk(head, new) \subseteq S
    BY <2>7, <2>8, WalkWithin DEF Closed
  <2> QED
    BY <2>1, <2>6, <2>9 DEF OrderList
<1> QED
  BY <1>1, <1>2

\* What an inserting thread comes to hold.
LEMMA WorkerHolds ==
    ASSUME ChainInv, OrderInv, FreeInv, CollectorAlone, OwnNumbers, NEW w \in Worker, Insert(w),
           ~\E n \in Node : InsertExists(w, n)
    PROVE  /\ UNCHANGED <<freed, deleted, scenario>>
           /\ allNodes' \cap freed = {} /\ ~Collecting /\ loc[w].node \notin freed
           /\ \E label \in {"idle"} \cup Inserting : \E l :
                 Goto(w, label, l) /\ {l.node, l.prev, l.next} \cap freed = {}
           /\ \/ UNCHANGED buckets
              \/ /\ loc[w].node \in Node \ Linked
                 /\ buckets' = [buckets EXCEPT ![BucketFor(loc[w].node)] = loc[w].node]
<1>1. w \in Thread /\ w # outgoing /\ Null \notin freed /\ freed \subseteq used
  BY MapAssumption DEF Thread, ChainInv, MemoryOK
<1>2. MayCall(w) \/ pc[w] # "idle"
  BY DEF Insert, InsertFind, InsertExists, InsertRetry, LoadHead, SwapHead, LoadTail,
     FirstHead, FirstTail, LoadNext, CheckTail, Append, SwingTail
<1>3. ~Collecting
  BY <1>1, <1>2, NobodyCollects
<1>4. pc[w] # "find"
  BY WorkerFacts DEF Inserting, Unlinked, Unlisted, Listing
<1>5. {loc[w].node, loc[w].prev, loc[w].next} \cap freed = {}
  BY <1>1, <1>4 DEF FreeInv
<1>6. loc[w] \in [node : Pointer, prev : Pointer, next : Pointer]
  BY <1>1, <1>4 DEF ChainInv, Ready, Typed
<1>7. orderTail \notin freed
  BY DEF FreeInv
<1>8. /\ UNCHANGED <<deleted, scenario>>
  BY DEF Insert, InsertFind, InsertExists, InsertRetry, LoadHead, SwapHead, LoadTail,
     FirstHead, FirstTail, LoadNext, CheckTail, Append, SwingTail, memory
<1>9. CASE \E n \in Node : InsertFind(w, n)
  <2>1. PICK n \in Node : InsertFind(w, n)
    BY <1>9
  <2>2. PICK l : l = [Idle EXCEPT !.node = n]
    OBVIOUS
  <2>3. /\ n \notin used /\ allNodes' = allNodes \cup {n} /\ Goto(w, "load head", l)
        /\ UNCHANGED <<freed, buckets>>
    BY <2>1, <2>2 DEF InsertFind, chains
  <2>4. {l.node, l.prev, l.next} \cap freed = {}
    BY <1>1, <2>2, <2>3 DEF Idle
  <2>5. allNodes' \cap freed = {}
    BY <1>1, <2>3 DEF FreeInv
  <2> QED
    BY <1>3, <1>5, <1>8, <2>3, <2>4, <2>5 DEF Inserting, Unlinked
<1>10. CASE InsertRetry(w)
  <2>1. UNCHANGED <<freed, allNodes, buckets>> /\ Goto(w, "load head", loc[w])
    BY <1>10, NeverSuperfluous DEF InsertRetry, chains
  <2> QED
    BY <1>3, <1>5, <1>8, <2>1 DEF Inserting, Unlinked, FreeInv
<1>11. ASSUME UNCHANGED <<freed, allNodes>>, NEW label \in Inserting, NEW p, NEW k,
              Goto(w, label, k), p \notin freed,
              {k.node, k.prev, k.next} \subseteq {loc[w].node, loc[w].prev, loc[w].next, p},
              \/ UNCHANGED buckets
              \/ /\ loc[w].node \in Node \ Linked
                 /\ buckets' = [buckets EXCEPT ![BucketFor(loc[w].node)] = loc[w].node]
       PROVE  /\ UNCHANGED <<freed, deleted, scenario>>
              /\ allNodes' \cap freed = {} /\ ~Collecting /\ loc[w].node \notin freed
              /\ \E x \in {"idle"} \cup Inserting : \E l :
                    Goto(w, x, l) /\ {l.node, l.prev, l.next} \cap freed = {}
              /\ \/ UNCHANGED buckets
                 \/ /\ loc[w].node \in Node \ Linked
                    /\ buckets' = [buckets EXCEPT ![BucketFor(loc[w].node)] = loc[w].node]
  <2>1. {k.node, k.prev, k.next} \cap freed = {} /\ loc[w].node \notin freed
    BY <1>5, <1>11
  <2>2. allNodes' \cap freed = {}
    BY <1>11 DEF FreeInv
  <2> QED
    BY <1>3, <1>8, <1>11, <2>1, <2>2
<1>12. CASE LoadHead(w)
  <2>1. PICK p, k : p = buckets[BucketFor(loc[w].node)] /\ k = [loc[w] EXCEPT !.next = p]
    OBVIOUS
  <2>2. Goto(w, "swap head", k) /\ UNCHANGED <<freed, allNodes, buckets>>
    BY <1>12, <2>1 DEF LoadHead, memory
  <2>3. loc[w].node \in Node
    BY <1>12, WorkerFacts DEF LoadHead
  <2>4. p \notin freed
    BY <2>1, <2>3, ScenarioFacts DEF FreeInv, ChainInv, MemoryOK
  <2>5. {k.node, k.prev, k.next} \subseteq {loc[w].node, loc[w].prev, loc[w].next, p}
    BY <1>6, <2>1
  <2> QED
    BY <1>11, <2>2, <2>4, <2>5 DEF Inserting, Unlinked
<1>13. CASE SwapHead(w) /\ buckets[BucketFor(loc[w].node)] # loc[w].next
  <2>1. Goto(w, "retry", loc[w]) /\ UNCHANGED <<freed, allNodes, buckets>>
    BY <1>13 DEF SwapHead, memory
  <2> QED
    BY <1>1, <1>11, <2>1 DEF Inserting, Unlinked
<1>14. CASE SwapHead(w) /\ buckets[BucketFor(loc[w].node)] = loc[w].next
  <2>1. PICK k : k = [Idle EXCEPT !.node = loc[w].node]
    OBVIOUS
  <2>2. /\ Goto(w, "load tail", k) /\ UNCHANGED <<freed, allNodes>> /\ pc[w] = "swap head"
        /\ buckets' = [buckets EXCEPT ![BucketFor(loc[w].node)] = loc[w].node]
    BY <1>14, <2>1 DEF SwapHead, memory
  <2>3. loc[w].node \in Node \ Linked
    BY <2>2, WorkerFacts DEF Unlinked
  <2>4. {k.node, k.prev, k.next} \subseteq {loc[w].node, loc[w].prev, loc[w].next, Null}
    BY <2>1 DEF Idle
  <2> QED
    BY <1>1, <1>11, <2>2, <2>3, <2>4 DEF Inserting, Unlisted
<1>15. CASE LoadTail(w)
  <2>1. PICK k : k = [loc[w] EXCEPT !.prev = orderTail]
    OBVIOUS
  <2>2. PICK label \in {"first head", "load next"} : Goto(w, label, k)
    BY <1>15, <2>1 DEF LoadTail
  <2>3. UNCHANGED <<freed, allNodes, buckets>> /\ label \in Inserting
    BY <1>15 DEF LoadTail, memory, chains, Inserting, Unlisted
  <2>4. {k.node, k.prev, k.next} \subseteq {loc[w].node, loc[w].prev, loc[w].next, orderTail}
    BY <1>6, <2>1
  <2> QED
    BY <1>7, <1>11, <2>2, <2>3, <2>4
<1>16. CASE LoadNext(w)
  <2>1. PICK p, k : p = orderNext[loc[w].prev] /\ k = [loc[w] EXCEPT !.next = p]
    OBVIOUS
  <2>2. Goto(w, "check tail", k) /\ UNCHANGED <<freed, allNodes, buckets>> /\ pc[w] = "load next"
    BY <1>16, <2>1 DEF LoadNext, memory, chains
  <2>3. loc[w].prev \in OrderList
    BY <2>2 DEF OrderInv, AppendReady
  <2>4. p \in OrderList \cup {Null}
    BY <2>1, <2>3, ListFacts
  <2>5. p \notin freed
    BY <1>1, <2>4 DEF FreeInv
  <2>6. {k.node, k.prev, k.next} \subseteq {loc[w].node, loc[w].prev, loc[w].next, p}
    BY <1>6, <2>1
  <2> QED
    BY <1>11, <2>2, <2>5, <2>6 DEF Inserting, Unlisted
<1>17. CASE FirstHead(w) \/ CheckTail(w) \/ Append(w)
  <2>1. PICK label \in {"first tail", "load tail", "append", "swing tail"} : Goto(w, label, loc[w])
    BY <1>17 DEF FirstHead, CheckTail, Append
  <2>2. UNCHANGED <<freed, allNodes, buckets>> /\ label \in Inserting
    BY <1>17 DEF FirstHead, CheckTail, Append, memory, chains, Inserting, Unlisted, Listing
  <2> QED
    BY <1>1, <1>11, <2>1, <2>2
<1>18. CASE FirstTail(w) \/ SwingTail(w)
  <2>1. Goto(w, "idle", Idle) /\ UNCHANGED <<freed, allNodes, buckets>>
    BY <1>18 DEF FirstTail, SwingTail, Return, memory, chains
  <2>2. {Idle.node, Idle.prev, Idle.next} \cap freed = {}
    BY <1>1 DEF Idle
  <2> QED
    BY <1>3, <1>5, <1>8, <2>1, <2>2 DEF FreeInv
<1> QED
  BY <1>9, <1>10, <1>12, <1>13, <1>14, <1>15, <1>16, <1>17, <1>18 DEF Insert

LEMMA InsertFree ==
    ASSUME ChainInv, ChainInv', OrderInv, OrderInv', CollectorAlone, OwnNumbers, FreeInv,
           NEW w \in Worker, Insert(w)
    PROVE  FreeInv'
<1>1. /\ {incoming, outgoing} \subseteq Thread /\ {incoming, outgoing} \cap Worker = {}
      /\ w \in Thread /\ Null \notin freed /\ MemoryOK
  BY MapAssumption DEF Thread, ChainInv, MemoryOK
<1>2. CASE \E n \in Node : InsertExists(w, n)
  <2>1. UNCHANGED <<freed, deleted, allNodes, order, buckets, pc, loc, scenario>>
    BY <1>2 DEF InsertExists, memory, chains
  <2>2. OrderList' = OrderList /\ Bucket' = Bucket
    BY <2>1 DEF OrderList, order, Bucket, BucketOf
  <2>3. MarkedIsUnlinked'
    BY <2>1, <2>2 DEF FreeInv, MarkedIsUnlinked
  <2> QED
    BY <2>1, <2>2, <2>3 DEF FreeInv, order
<1>3. CASE ~\E n \in Node : InsertExists(w, n)
  <2>1. /\ UNCHANGED <<freed, deleted, scenario>>
        /\ allNodes' \cap freed = {} /\ ~Collecting /\ loc[w].node \notin freed
        /\ \E label \in {"idle"} \cup Inserting : \E l :
              Goto(w, label, l) /\ {l.node, l.prev, l.next} \cap freed = {}
        /\ \/ UNCHANGED buckets
           \/ /\ loc[w].node \in Node \ Linked
              /\ buckets' = [buckets EXCEPT ![BucketFor(loc[w].node)] = loc[w].node]
    BY <1>3, WorkerHolds
  <2>2. PICK label \in {"idle"} \cup Inserting : \E l :
           Goto(w, label, l) /\ {l.node, l.prev, l.next} \cap freed = {}
    BY <2>1
  <2>3. PICK l : Goto(w, label, l) /\ {l.node, l.prev, l.next} \cap freed = {}
    BY <2>2
  <2>4. /\ label \notin Cleaning \cup {"gc sweep"} /\ label \notin Removing
        /\ \A u \in Thread : u # w => pc'[u] = pc[u] /\ loc'[u] = loc[u]
    BY <1>1, <2>3, GotoFacts DEF Inserting, Unlinked, Unlisted, Listing, Cleaning, Removing
  <2>5. OrderList' \cap freed = {}
    BY <2>1, ListGrows DEF FreeInv
  <2>6. orderTail' \notin freed
    <3>1. ~Collecting'
      BY <1>1, <2>1, <2>3, <2>4, StaysQuiet
    <3>2. orderTail' \in OrderList' \cup {Null}
      BY <3>1 DEF OrderInv, CollectReady, Collecting
    <3> QED
      BY <1>1, <2>5, <3>2
  <2>7. /\ buckets \in [Bucket -> Pointer] /\ deleted \subseteq Linked /\ Bucket' = Bucket
    BY <2>1 DEF ChainInv, MemoryOK, Bucket, BucketOf
  <2>8. \A b \in Bucket : buckets'[b] = buckets[b] \/ (buckets'[b] = loc[w].node /\ buckets'[b] \notin deleted)
    BY <2>1, <2>7
  <2>9. \A b \in Bucket : buckets'[b] \notin freed
    BY <2>1, <2>8 DEF FreeInv
  <2>10. MarkedIsUnlinked'
    <3> SUFFICES ASSUME NEW b \in Bucket, buckets'[b] \in deleted
                 PROVE  \E r \in {incoming, outgoing} :
                           pc'[r] \in {"load prev", "unlink"} /\ loc'[r].node = buckets'[b]
      BY <2>1, <2>7 DEF MarkedIsUnlinked
    <3>1. buckets'[b] = buckets[b]
      BY <2>8
    <3>2. PICK r \in {incoming, outgoing} : pc[r] \in {"load prev", "unlink"} /\ loc[r].node = buckets[b]
      BY <3>1 DEF FreeInv, MarkedIsUnlinked
    <3>3. r # w /\ r \in Thread
      BY <1>1
    <3> QED
      BY <2>4, <3>1, <3>2, <3>3
  <2> QED
    BY <1>1, <2>1, <2>3, <2>4, <2>5, <2>6, <2>9, <2>10, FreeStep
<1> QED
  BY <1>2, <1>3

\* What a removing thread comes to hold: its node is first in its bucket.
LEMMA RemoverHolds ==
    ASSUME ChainInv, FreeInv, OneToABucket, NEW r \in {incoming, outgoing}, Remove(r)
    PROVE  \E label \in {"idle", "find"} \cup Removing : \E l :
              /\ Goto(r, label, l)
              /\ label # "find" => {l.node, l.prev, l.next} \cap freed = {}
              /\ label \in Removing => l.prev = Null
<1>1. r \in Thread /\ Null \notin freed
  BY MapAssumption DEF Thread, ChainInv, MemoryOK
<1>2. {Idle.node, Idle.prev, Idle.next} \cap freed = {}
  BY <1>1 DEF Idle
<1>3. CASE Goto(r, "idle", Idle)
  <2>1. "idle" \notin Removing
    BY DEF Removing
  <2> QED
    BY <1>2, <1>3, <2>1
<1>4. CASE \E k \in Key : RemoveCall(r, k)
  <2>1. PICK l : Goto(r, "find", l)
    BY <1>4 DEF RemoveCall
  <2>2. "find" \notin Removing
    BY DEF Removing
  <2> QED
    BY <2>1, <2>2
<1>5. CASE RemoveFind(r) /\ ~Goto(r, "idle", Idle)
  <2>1. PICK k \in Key : k = loc[r].next
    BY <1>5, RemoverFacts DEF RemoveFind
  <2>2. PICK n : n = find_in_bucket(k)
    OBVIOUS
  <2>3. n # Null /\ Goto(r, "mark", [Idle EXCEPT !.node = n, !.prev = PrevOf(n)])
    BY <1>5, <2>1, <2>2 DEF RemoveFind, Return
  <2>4. PICK b \in Bucket : b = BucketOf[k]
    BY ScenarioFacts DEF ChainInv, MemoryOK
  <2>5. n \in Chain(b)
    BY <2>2, <2>3, <2>4, FindFacts
  <2>6. buckets[BucketFor(n)] = n /\ n \notin freed
    BY <2>5, AloneInChain DEF FreeInv
  <2>7. PrevOf(n) = Null
    BY <2>6 DEF PrevOf
  <2>8. PICK l : l = [Idle EXCEPT !.node = n, !.prev = PrevOf(n)]
    OBVIOUS
  <2>9. l.node = n /\ l.prev = Null /\ l.next = Null
    BY <2>7, <2>8 DEF Idle
  <2> QED
    BY <1>1, <2>3, <2>6, <2>8, <2>9 DEF Removing
<1>6. CASE RemoveMark(r)
  <2>1. Goto(r, "load prev", loc[r]) /\ pc[r] = "mark"
    BY <1>6 DEF RemoveMark
  <2>2. {loc[r].node, loc[r].prev, loc[r].next} \cap freed = {} /\ loc[r].prev = Null
    BY <1>1, <2>1 DEF FreeInv, Removing
  <2> QED
    BY <2>1, <2>2 DEF Removing
<1>7. CASE LoadPrev(r) /\ ~Goto(r, "idle", Idle)
  <2>1. pc[r] = "load prev" /\ Goto(r, "unlink", [loc[r] EXCEPT !.next = bucketNext[loc[r].node]])
    BY <1>7 DEF LoadPrev, Return
  <2>2. {loc[r].node, loc[r].prev, loc[r].next} \cap freed = {} /\ loc[r].prev = Null
    BY <1>1, <2>1 DEF FreeInv, Removing
  <2>3. /\ loc[r].node \in Linked /\ loc[r].node \in Node
        /\ loc[r] \in [node : Pointer, prev : Pointer, next : Pointer]
    BY <2>1, RemoverFacts DEF Removing
  <2>4. bucketNext[loc[r].node] = Null
    <3>1. /\ bucketNext[loc[r].node] \in Pointer
          /\ Follows(loc[r].node, bucketNext[loc[r].node])
      BY <2>3 DEF ChainInv, MemoryOK, ChainsSorted
    <3> QED
      BY <2>3, <3>1, NothingFollows
  <2>5. PICK l : l = [loc[r] EXCEPT !.next = bucketNext[loc[r].node]]
    OBVIOUS
  <2>6. l.node = loc[r].node /\ l.prev = Null /\ l.next = Null
    BY <2>2, <2>3, <2>4, <2>5
  <2> QED
    BY <1>1, <2>1, <2>2, <2>5, <2>6 DEF Removing
<1>8. Unlink(r) => Goto(r, "idle", Idle)
  BY DEF Unlink, Return
<1> QED
  BY <1>3, <1>4, <1>5, <1>6, <1>7, <1>8 DEF Remove

\* The buckets after a step of a remover: only its own removed node goes.
LEMMA RemoverLeaves ==
    ASSUME ChainInv, FreeInv, OneToABucket, NEW r \in {incoming, outgoing}, Remove(r),
           NEW b \in Bucket
    PROVE  \/ buckets'[b] = Null
           \/ /\ buckets'[b] = buckets[b]
              /\ buckets[b] \in deleted' =>
                    \E q \in {incoming, outgoing} :
                       pc'[q] \in {"load prev", "unlink"} /\ loc'[q].node = buckets[b]
<1>1. /\ {incoming, outgoing} \subseteq Thread /\ MemoryOK /\ r \in Thread
      /\ buckets \in [Bucket -> Pointer] /\ Linked \subseteq Node /\ Null \notin Node
  BY MapAssumption DEF Thread, ChainInv, MemoryOK, Linked
\* The node that a bucket leads to is of that bucket.
<1>2. buckets[b] # Null => BucketFor(buckets[b]) = b
  BY DEF ChainInv, ChainsSorted, Heads, InBucket
<1>3. ASSUME NEW label, NEW l, Goto(r, label, l), UNCHANGED <<buckets, deleted>>,
             pc[r] \in {"load prev", "unlink"} /\ loc[r].node = buckets[b] =>
                 label = "unlink" /\ l.node = buckets[b]
      PROVE  /\ buckets'[b] = buckets[b]
             /\ buckets[b] \in deleted' =>
                    \E q \in {incoming, outgoing} :
                       pc'[q] \in {"load prev", "unlink"} /\ loc'[q].node = buckets[b]
  <2>1. /\ pc'[r] = label /\ loc'[r] = l
        /\ \A u \in Thread : u # r => pc'[u] = pc[u] /\ loc'[u] = loc[u]
    <3>1. Goto(r, label, l)
      BY <1>3
    <3> QED
      BY <1>1, <3>1, GotoFacts
  <2> SUFFICES ASSUME buckets[b] \in deleted
               PROVE  \E q \in {incoming, outgoing} :
                         pc'[q] \in {"load prev", "unlink"} /\ loc'[q].node = buckets[b]
    BY <1>3
  <2>2. PICK q \in {incoming, outgoing} : pc[q] \in {"load prev", "unlink"} /\ loc[q].node = buckets[b]
    BY DEF FreeInv, MarkedIsUnlinked
  <2> QED
    BY <1>1, <1>3, <2>1, <2>2
<1>4. CASE \E k \in Key : RemoveCall(r, k)
  <2>1. /\ pc[r] = "idle" /\ UNCHANGED <<buckets, deleted>>
        /\ \E l : Goto(r, "find", l)
    BY <1>4 DEF RemoveCall, MayCall, chains, memory
  <2> QED
    BY <1>3, <2>1
<1>5. CASE RemoveFind(r)
  <2>1. /\ pc[r] = "find" /\ UNCHANGED <<buckets, deleted>>
        /\ \E label, l : Goto(r, label, l)
    BY <1>5 DEF RemoveFind, Return, chains, memory
  <2> QED
    BY <1>3, <2>1
<1>6. CASE RemoveMark(r)
  <2>1. /\ pc[r] = "mark" /\ UNCHANGED buckets /\ Goto(r, "load prev", loc[r])
        /\ deleted' = deleted \cup {loc[r].node}
    BY <1>6 DEF RemoveMark, chains
  <2>2. /\ pc'[r] = "load prev" /\ loc'[r] = loc[r]
        /\ \A u \in Thread : u # r => pc'[u] = pc[u] /\ loc'[u] = loc[u]
    BY <1>1, <2>1, GotoFacts
  <2>3. CASE buckets[b] = loc[r].node
    BY <2>1, <2>2, <2>3
  <2>4. CASE buckets[b] # loc[r].node /\ buckets[b] \in deleted
    <3>1. PICK q \in {incoming, outgoing} : pc[q] \in {"load prev", "unlink"} /\ loc[q].node = buckets[b]
      BY <2>4 DEF FreeInv, MarkedIsUnlinked
    <3>2. q # r
      BY <2>1, <3>1
    <3> QED
      BY <1>1, <2>1, <2>2, <3>1, <3>2
  <2> QED
    BY <2>1, <2>3, <2>4
<1>7. CASE LoadPrev(r)
  <2>1. PICK n : n = loc[r].node
    OBVIOUS
  <2>2. pc[r] = "load prev" /\ UNCHANGED <<buckets, deleted>>
    BY <1>7 DEF LoadPrev, chains, memory
  <2>3. /\ loc[r].prev = Null /\ n \in Node
        /\ loc[r] \in [node : Pointer, prev : Pointer, next : Pointer]
    BY <1>1, <2>1, <2>2, RemoverFacts DEF FreeInv, Removing
  <2>4. CASE buckets[BucketFor(n)] = n
    <3>1. PICK l : l = [loc[r] EXCEPT !.next = bucketNext[n]]
      OBVIOUS
    <3>2. Goto(r, "unlink", l) /\ l.node = n
      BY <1>7, <2>1, <2>3, <2>4, <3>1 DEF LoadPrev, PointsTo
    <3> QED
      BY <1>3, <2>1, <2>2, <3>2
  <2>5. CASE buckets[BucketFor(n)] # n
    <3>1. Goto(r, "idle", Idle)
      BY <1>7, <2>1, <2>3, <2>5 DEF LoadPrev, PointsTo, Return
    <3>2. n # buckets[b]
      BY <1>1, <1>2, <2>3, <2>5
    <3> QED
      BY <1>3, <2>1, <2>2, <3>1, <3>2
  <2> QED
    BY <2>4, <2>5
<1>8. CASE Unlink(r)
  <2>1. PICK n : n = loc[r].node
    OBVIOUS
  <2>2. pc[r] = "unlink" /\ Goto(r, "idle", Idle) /\ UNCHANGED deleted
    BY <1>8 DEF Unlink, Return, memory
  <2>3. /\ loc[r].prev = Null /\ n \in Node /\ n \in Linked
        /\ loc[r] \in [node : Pointer, prev : Pointer, next : Pointer]
        /\ Ready(r, "unlink", loc[r])
    BY <1>1, <2>1, <2>2, RemoverFacts DEF FreeInv, Removing
  <2>4. loc[r].next = Null
    <3>1. Follows(n, loc[r].next) /\ loc[r].next \in Pointer
      BY <2>1, <2>3 DEF Ready, RemoveReady, Removing
    <3> QED
      BY <2>3, <3>1, NothingFollows
  <2>5. CASE buckets[BucketFor(n)] = n
    <3>1. buckets' = [buckets EXCEPT ![BucketFor(n)] = Null]
      BY <1>8, <2>1, <2>3, <2>4, <2>5 DEF Unlink, PointsTo, SetPrev
    <3>2. CASE b = BucketFor(n)
      BY <1>1, <3>1, <3>2
    <3>3. CASE b # BucketFor(n)
      <4>1. buckets'[b] = buckets[b] /\ buckets[b] # n
        BY <1>1, <1>2, <2>3, <3>1, <3>3
      <4>2. \A u \in Thread : u # r => pc'[u] = pc[u] /\ loc'[u] = loc[u]
        BY <1>1, <2>2, GotoFacts
      <4>3. ASSUME buckets[b] \in deleted
            PROVE  \E q \in {incoming, outgoing} :
                      pc'[q] \in {"load prev", "unlink"} /\ loc'[q].node = buckets[b]
        <5>1. PICK q \in {incoming, outgoing} : pc[q] \in {"load prev", "unlink"} /\ loc[q].node = buckets[b]
          BY <4>3 DEF FreeInv, MarkedIsUnlinked
        <5>2. q # r
          BY <2>1, <4>1, <5>1
        <5> QED
          BY <1>1, <4>2, <5>1, <5>2
      <4> QED
        BY <2>2, <4>1, <4>3
    <3> QED
      BY <3>2, <3>3
  <2>6. CASE buckets[BucketFor(n)] # n
    <3>1. UNCHANGED <<buckets, deleted>>
      BY <1>8, <2>1, <2>2, <2>3, <2>6 DEF Unlink, PointsTo, chains
    <3>2. n # buckets[b]
      BY <1>1, <1>2, <2>3, <2>6
    <3> QED
      BY <1>3, <2>1, <2>2, <3>1, <3>2
  <2> QED
    BY <2>5, <2>6
<1> QED
  BY <1>4, <1>5, <1>6, <1>7, <1>8 DEF Remove

LEMMA RemoveFree ==
    ASSUME ChainInv, FreeInv, OneToABucket, NEW r \in {incoming, outgoing}, Remove(r)
    PROVE  FreeInv'
<1>1. r \in Thread /\ r \notin Worker /\ Null \notin freed
  BY MapAssumption DEF Thread, ChainInv, MemoryOK
<1>2. /\ UNCHANGED <<freed, allNodes, order, scenario>> /\ deleted \subseteq deleted'
  BY DEF Remove, RemoveCall, RemoveFind, RemoveMark, LoadPrev, Unlink, memory
<1>3. OrderList' = OrderList /\ orderTail' = orderTail /\ Bucket' = Bucket
  BY <1>2 DEF OrderList, order, Bucket, BucketOf
<1>4. PICK label \in {"idle", "find"} \cup Removing : \E l :
              /\ Goto(r, label, l)
              /\ label # "find" => {l.node, l.prev, l.next} \cap freed = {}
              /\ label \in Removing => l.prev = Null
  BY RemoverHolds
<1>5. PICK l : /\ Goto(r, label, l)
               /\ label # "find" => {l.node, l.prev, l.next} \cap freed = {}
               /\ label \in Removing => l.prev = Null
  BY <1>4
<1>6. \A b \in Bucket : buckets'[b] \notin freed
  BY <1>1, RemoverLeaves DEF FreeInv
<1>7. MarkedIsUnlinked'
  <2> SUFFICES ASSUME NEW b \in Bucket, buckets'[b] \in deleted'
               PROVE  \E q \in {incoming, outgoing} :
                         pc'[q] \in {"load prev", "unlink"} /\ loc'[q].node = buckets'[b]
    BY <1>3 DEF MarkedIsUnlinked
  <2>1. buckets'[b] # Null
    <3>1. deleted' \subseteq Node
      BY RemoverFacts DEF ChainInv, MemoryOK, Linked, Remove, RemoveCall, RemoveFind,
         RemoveMark, LoadPrev, Unlink, memory, Removing
    <3> QED
      BY <3>1, MapAssumption
  <2> QED
    BY <2>1, RemoverLeaves
<1>8. /\ allNodes' \cap freed = {} /\ OrderList' \cap freed = {} /\ orderTail' \notin freed
  BY <1>2, <1>3 DEF FreeInv
<1> QED
  BY <1>1, <1>2, <1>5, <1>6, <1>7, <1>8, FreeStep

\* The collector lists no node.
LEMMA ListShrinks ==
    ASSUME ChainInv, OrderInv, CollectorAlone, CollectGarbage
    PROVE  OrderList' \subseteq OrderList
<1>1. CASE UNCHANGED <<orderNext, orderHead>>
  BY <1>1 DEF OrderList
<1>2. CASE ~UNCHANGED <<orderNext, orderHead>>
  <2>1. PICK l : l = loc[outgoing]
    OBVIOUS
  <2>2. /\ pc[outgoing] = "gc check"
        /\ \/ orderHead' = l.next /\ orderNext' = orderNext
           \/ orderNext' = [orderNext EXCEPT ![l.prev] = l.next] /\ orderHead' = orderHead
    BY <1>2, <2>1 DEF CollectGarbage, GcBegin, GcNext, GcCheck, GcTail, GcSweep, order
  <2>3. l.next \in OrderList \cup {Null}
    BY <2>1, <2>2, CollectorFacts, ListFacts DEF CollectReady
  <2>4. PICK new, head : new = orderNext' /\ head = orderHead'
    OBVIOUS
  <2>5. head \in OrderList \cup {Null} /\ OrderList \in SUBSET Node /\ orderNext \in [Node -> Pointer]
    BY <2>2, <2>3, <2>4, ListFacts
  <2>6. \A m \in OrderList : new[m] = orderNext[m] \/ new[m] = l.next
    BY <2>2, <2>4, <2>5
  <2>7. Closed(OrderList, new)
    BY <2>3, <2>6, ListFacts DEF Closed
  <2>8. Walk(head, new) \subseteq OrderList
    BY <2>5, <2>7, WalkWithin
  <2> QED
    BY <2>4, <2>8 DEF OrderList
<1> QED
  BY <1>1, <1>2

\* While the collector runs no removed node is in its bucket.
LEMMA BucketsAreClean ==
    ASSUME ChainInv, OrderInv, FreeInv, CollectorAlone, CollectGarbage
    PROVE  \A b \in Bucket : buckets[b] \notin deleted
<1>1. /\ {incoming, outgoing} \subseteq Thread
      /\ \A t \in Thread : t = outgoing \/ pc[t] = "idle"
  BY CollectorFacts DEF Thread
<1>2. pc[outgoing] \notin {"load prev", "unlink"}
  BY DEF CollectGarbage, GcBegin, GcNext, GcCheck, GcTail, GcSweep
<1> QED
  BY <1>1, <1>2 DEF FreeInv, MarkedIsUnlinked

\* The first loop gives nothing back.
LEMMA GcUnlinkFree ==
    ASSUME ChainInv, OrderInv, FreeInv, CollectorAlone, CollectGarbage, ~GcSweep
    PROVE  FreeInv'
<1>1. /\ outgoing \in Thread /\ outgoing \notin Worker /\ Null \notin freed
  BY MapAssumption DEF Thread, ChainInv, MemoryOK
<1>2. UNCHANGED <<freed, deleted, allNodes, buckets, scenario>>
  BY DEF CollectGarbage, GcBegin, GcNext, GcCheck, GcTail, memory, chains
<1>3. Bucket' = Bucket
  BY <1>2 DEF Bucket, BucketOf
<1>4. PICK k : k = loc[outgoing]
  OBVIOUS
<1>5. /\ CollectReady(pc[outgoing], k) /\ k \in [node : Pointer, prev : Pointer, next : Pointer]
  BY <1>4, CollectorFacts
<1>6. {k.node, k.prev, k.next} \cap freed = {}
  <2>1. pc[outgoing] # "find"
    BY DEF CollectGarbage, GcBegin, GcNext, GcCheck, GcTail, GcSweep
  <2> QED
    BY <1>1, <1>4, <2>1 DEF FreeInv
<1>7. PICK label \in Cleaning \cup {"gc sweep"} : \E l :
         Goto(outgoing, label, l) /\ {l.node, l.prev, l.next} \cap freed = {}
  <2>1. CASE GcBegin
    <3>1. PICK l : l = [Idle EXCEPT !.node = orderHead]
      OBVIOUS
    <3>2. {l.node, l.prev, l.next} \cap freed = {}
      BY <1>1, <3>1, ListFacts DEF Idle, FreeInv
    <3> QED
      BY <2>1, <3>1, <3>2 DEF GcBegin, Cleaning
  <2>2. CASE GcNext /\ k.node = Null
    <3>1. {Idle.node, Idle.prev, Idle.next} \cap freed = {}
      BY <1>1 DEF Idle
    <3> QED
      BY <1>4, <2>2, <3>1 DEF GcNext
  <2>3. CASE GcNext /\ k.node # Null
    <3>1. PICK l : l = [k EXCEPT !.next = orderNext[k.node]]
      OBVIOUS
    <3>2. pc[outgoing] = "gc next" /\ Goto(outgoing, "gc check", l)
      BY <1>4, <2>3, <3>1 DEF GcNext
    <3>3. LeadsTo(k.prev, k.node) /\ k.prev \in OrderList \cup {Null}
      BY <1>5, <3>2 DEF CollectReady, Cleaning
    <3>4. k.node \in OrderList
      BY <2>3, <3>3, ListFacts DEF LeadsTo
    <3>5. orderNext[k.node] \in OrderList \cup {Null}
      BY <3>4, ListFacts
    <3>6. l.node = k.node /\ l.prev = k.prev /\ l.next \in OrderList \cup {Null}
      BY <1>5, <3>1, <3>5
    <3>7. {l.node, l.prev, l.next} \cap freed = {}
      BY <1>1, <1>6, <3>6 DEF FreeInv
    <3> QED
      BY <3>2, <3>7 DEF Cleaning
  <2>4. CASE GcCheck
    <3>1. PICK l : l = [Idle EXCEPT !.node = k.next, !.prev = k.node]
      OBVIOUS
    <3>2. {l.node, l.prev, l.next} \cap freed = {}
      BY <1>1, <1>6, <3>1 DEF Idle
    <3>3. Goto(outgoing, "gc tail", k) \/ Goto(outgoing, "gc next", l)
      BY <1>4, <2>4, <3>1 DEF GcCheck
    <3> QED
      BY <1>6, <3>2, <3>3 DEF Cleaning
  <2>5. CASE GcTail
    <3>1. PICK l : l = [k EXCEPT !.node = k.next, !.next = Null]
      OBVIOUS
    <3>2. {l.node, l.prev, l.next} \cap freed = {}
      BY <1>1, <1>5, <1>6, <3>1
    <3> QED
      BY <1>4, <2>5, <3>1, <3>2 DEF GcTail, Cleaning
  <2> QED
    BY <2>1, <2>2, <2>3, <2>4, <2>5 DEF CollectGarbage
<1>8. PICK l : Goto(outgoing, label, l) /\ {l.node, l.prev, l.next} \cap freed = {}
  BY <1>7
<1>9. orderTail' \notin freed
  <2>1. orderTail' = orderTail \/ orderTail' = k.prev
    BY <1>4 DEF CollectGarbage, GcBegin, GcNext, GcCheck, GcTail, order
  <2> QED
    BY <1>6, <2>1 DEF FreeInv
<1>10. allNodes' \cap freed = {} /\ OrderList' \cap freed = {} /\ \A b \in Bucket : buckets'[b] \notin freed
  BY <1>2, ListShrinks DEF FreeInv
<1>11. MarkedIsUnlinked'
  BY <1>2, <1>3, BucketsAreClean DEF MarkedIsUnlinked
<1>12. label \notin Removing
  BY DEF Cleaning, Removing
<1> QED
  BY <1>1, <1>2, <1>8, <1>9, <1>10, <1>11, <1>12, FreeStep

\* The sweep gives back what is marked: none of it is in a bucket or on the list.
LEMMA GcSweepFree ==
    ASSUME ChainInv, ChainInv', OrderInv, FreeInv, CollectorAlone, GcSweep
    PROVE  FreeInv'
<1>1. CollectGarbage /\ {incoming, outgoing} \subseteq Thread /\ outgoing \in Thread /\ MemoryOK
  BY DEF CollectGarbage, Thread, ChainInv
<1>2. /\ pc[outgoing] = "gc sweep" /\ freed' = freed \cup (allNodes \cap deleted)
      /\ allNodes' = allNodes \ deleted /\ Goto(outgoing, "idle", Idle)
      /\ UNCHANGED <<deleted, buckets, order, scenario>>
  BY DEF GcSweep, Return, chains
<1>3. freed' \subseteq deleted' /\ allNodes' \cap freed' = {}
  BY <1>2 DEF FreeInv
<1>4. OrderList' = OrderList /\ OrderList \cap deleted = {} /\ orderTail \in OrderList \cup {Null}
  BY <1>1, <1>2, CollectorFacts DEF CollectReady, OrderList, order
<1>5. Null \notin freed' /\ freed' \subseteq deleted
  BY <1>2, <1>3, MapAssumption DEF ChainInv, MemoryOK
<1>6. OrderList' \cap freed' = {} /\ orderTail' \notin freed'
  BY <1>2, <1>4, <1>5 DEF order
<1>7. Bucket' = Bucket /\ \A b \in Bucket : buckets'[b] \notin deleted
  BY <1>1, <1>2, BucketsAreClean DEF Bucket, BucketOf
<1>8. ASSUME NEW t \in Thread PROVE pc'[t] = "idle" /\ loc'[t] = Idle
  <2>1. CASE t = outgoing
    BY <1>1, <1>2, <2>1, GotoFacts
  <2>2. CASE t # outgoing
    <3>1. pc[t] = "idle"
      BY <1>1, <2>2, CollectorFacts
    <3>2. loc[t] = Idle
      BY <3>1 DEF ChainInv, Ready, Typed
    <3> QED
      BY <1>1, <1>2, <2>2, <3>1, <3>2, GotoFacts
  <2> QED
    BY <2>1, <2>2
<1>9. \A t \in Thread : {loc'[t].node, loc'[t].prev, loc'[t].next} \cap freed' = {}
  BY <1>5, <1>8 DEF Idle
<1>10. MarkedIsUnlinked'
  BY <1>2, <1>7 DEF MarkedIsUnlinked
<1>11. \A r \in {incoming, outgoing} : pc'[r] \notin Removing
  BY <1>1, <1>8 DEF Removing
<1> QED
  BY <1>3, <1>5, <1>6, <1>7, <1>9, <1>10, <1>11 DEF FreeInv

\* Where the collector is never called nothing is given back.
LEMMA NeverCollects ==
    ASSUME ChainInv, OwnNumbers, scenario.collections = 0, ~Collecting, MapNext
    PROVE  ~Collecting' /\ UNCHANGED freed
<1>1. MemoryOK /\ collections \in Nat /\ Worker \subseteq Thread /\ {incoming, outgoing} \subseteq Thread
  BY DEF ChainInv, MemoryOK, Thread
<1>2. ~CollectGarbage
  <2>1. ~GcBegin
    <3>1. ~(collections < scenario.collections)
      BY <1>1
    <3> QED
      BY <3>1 DEF GcBegin
  <2> QED
    BY <2>1 DEF CollectGarbage, GcNext, GcCheck, GcTail, GcSweep, Collecting
<1>3. ASSUME NEW w \in Worker, Insert(w) PROVE ~Collecting' /\ UNCHANGED freed
  <2>1. CASE InsertRetry(w)
    <3>1. UNCHANGED freed /\ Goto(w, "load head", loc[w])
      BY <2>1, NeverSuperfluous
    <3> QED
      BY <1>1, <3>1, StaysQuiet DEF Cleaning
  <2>2. CASE \E n \in Node : InsertExists(w, n)
    BY <2>2 DEF InsertExists, Collecting, memory
  <2>3. CASE \E n \in Node : InsertFind(w, n)
    <3>1. UNCHANGED freed /\ \E l : Goto(w, "load head", l)
      BY <2>3 DEF InsertFind
    <3> QED
      BY <1>1, <3>1, StaysQuiet DEF Cleaning
  <2>4. CASE LoadHead(w) \/ SwapHead(w)
    <3>1. UNCHANGED freed
      BY <2>4 DEF LoadHead, SwapHead, memory
    <3>2. \E label \in {"swap head", "retry", "load tail"} : \E l : Goto(w, label, l)
      BY <2>4 DEF LoadHead, SwapHead
    <3> QED
      BY <1>1, <3>1, <3>2, StaysQuiet DEF Cleaning
  <2>5. CASE LoadTail(w) \/ FirstHead(w) \/ FirstTail(w) \/ LoadNext(w) \/ CheckTail(w) \/ Append(w) \/ SwingTail(w)
    <3>1. UNCHANGED freed
      BY <2>5 DEF LoadTail, FirstHead, FirstTail, LoadNext, CheckTail, Append, SwingTail, memory
    <3>2. \E label \in {"idle"} \cup Unlisted \cup Listing : \E l : Goto(w, label, l)
      BY <2>5 DEF LoadTail, FirstHead, FirstTail, LoadNext, CheckTail, Append, SwingTail, Return, Unlisted, Listing
    <3> QED
      BY <1>1, <3>1, <3>2, StaysQuiet DEF Cleaning, Unlisted, Listing
  <2> QED
    BY <1>3, <2>1, <2>2, <2>3, <2>4, <2>5 DEF Insert
<1>4. ASSUME NEW r \in {incoming, outgoing}, Remove(r) PROVE ~Collecting' /\ UNCHANGED freed
  <2>1. UNCHANGED freed
    BY <1>4 DEF Remove, RemoveCall, RemoveFind, RemoveMark, LoadPrev, Unlink, memory
  <2>2. \E label \in {"idle", "find"} \cup Removing : \E l : Goto(r, label, l)
    BY <1>4 DEF Remove, RemoveCall, RemoveFind, RemoveMark, LoadPrev, Unlink, Return, Removing
  <2> QED
    BY <1>1, <2>1, <2>2, StaysQuiet DEF Cleaning, Removing
<1> QED
  BY <1>2, <1>3, <1>4 DEF MapNext

LEMMA NextGarbage ==
    ASSUME ChainInv, ChainInv', OrderInv, OrderInv', GarbageInv, CollectorAlone, [MapNext]_mapVars
    PROVE  GarbageInv'
<1>1. UNCHANGED scenario
  BY DEF MapNext, mapVars, Insert, Remove, CollectGarbage, InsertFind, InsertExists, InsertRetry, LoadHead,
     SwapHead, LoadTail, FirstHead, FirstTail, LoadNext, CheckTail, Append, SwingTail,
     RemoveCall, RemoveFind, RemoveMark, LoadPrev, Unlink, GcBegin, GcNext, GcCheck, GcTail, GcSweep
<1>2. (OwnNumbers' => OwnNumbers) /\ (OneToABucket => OneToABucket')
  BY <1>1 DEF OwnNumbers, OneToABucket, BucketFor, BucketOf, KeyOf
<1> SUFFICES ASSUME OwnNumbers
             PROVE  \/ scenario.collections = 0 /\ ~Collecting' /\ freed' = {}
                    \/ OneToABucket /\ FreeInv'
  BY <1>1, <1>2 DEF GarbageInv
<1>3. CASE UNCHANGED mapVars
  <2>1. UNCHANGED <<freed, deleted, allNodes, order, buckets, pc, loc, scenario>>
    BY <1>3 DEF mapVars, memory, chains
  <2>2. OrderList' = OrderList /\ Bucket' = Bucket /\ Collecting' = Collecting
    BY <2>1 DEF OrderList, order, Bucket, BucketOf, Collecting
  <2>3. MarkedIsUnlinked => MarkedIsUnlinked'
    BY <2>1, <2>2 DEF MarkedIsUnlinked
  <2>4. FreeInv => FreeInv'
    BY <2>1, <2>2, <2>3 DEF FreeInv, order
  <2> QED
    BY <2>1, <2>2, <2>4 DEF GarbageInv
<1>4. CASE MapNext /\ scenario.collections = 0 /\ ~Collecting /\ freed = {}
  BY <1>4, NeverCollects
<1>5. CASE MapNext /\ OneToABucket /\ FreeInv
  <2>1. CASE CollectGarbage
    BY <1>5, <2>1, GcUnlinkFree, GcSweepFree
  <2> QED
    BY <1>5, <2>1, InsertFree, RemoveFree DEF MapNext
<1> QED
  BY <1>3, <1>4, <1>5 DEF GarbageInv

\* collect_garbage: for any number of workers, nodes and collections, where the collector
\* runs alone, each packet has its own number and no two numbers share a bucket while
\* garbage is collected, a node given back to the allocator is in no chain, on no list and
\* in no thread's hands.
THEOREM MapLeavesNothingDangling ==
    ASSUME CollectorAlone, NumbersApart
    PROVE  MapSpec => []NoDangling
<1>1. MapInit => ChainInv /\ OrderInv /\ GarbageInv
  BY InitChain, InitOrder, InitGarbage
<1>2. ChainInv /\ OrderInv /\ GarbageInv /\ [MapNext]_mapVars => (ChainInv /\ OrderInv /\ GarbageInv)'
  BY NextChain, NextOrder, NextGarbage
<1>3. ChainInv /\ OrderInv /\ GarbageInv => NoDangling
  BY GarbageDangles
<1> QED
  BY <1>1, <1>2, <1>3, PTL DEF MapSpec

-----------------------------------------------------------------------------
(* One receipt to a number, where one worker inserts.                         *)

\* Live nodes have different numbers, and the number of the node that is about to be
\* linked is not among them.
OnceInv ==
    /\ \A m, n \in Linked \ deleted : KeyOf[m] = KeyOf[n] => m = n
    /\ \A w \in Worker : pc[w] \in {"load head", "swap head"} =>
          \A m \in Linked \ deleted : KeyOf[m] # KeyOf[loc[w].node]

\* A search that finds nothing tells that no live node has the number.
LEMMA NotFoundIsNotLive ==
    ASSUME ChainInv, NEW n \in Node, find_in_bucket(KeyOf[n]) = Null
    PROVE  \A m \in Linked \ deleted : KeyOf[m] # KeyOf[n]
<1> SUFFICES ASSUME NEW m \in Linked \ deleted, KeyOf[m] = KeyOf[n] PROVE FALSE
  OBVIOUS
<1>1. PICK k \in Key : k = KeyOf[n]
  BY ScenarioFacts DEF ChainInv, MemoryOK
<1>2. m \in Chain(BucketOf[k])
  BY <1>1, ChainsFindLive DEF LiveIsFindable, BucketFor
<1>3. \A x \in Chain(BucketOf[k]) : KeyOf[x] # k
  <2>1. k # Null => find_in_bucket(k) = Null
    BY <1>1
  <2>2. Chain(BucketOf[k]) \in SUBSET Node /\ Null \notin Node
    BY ScenarioFacts, ChainMembers DEF ChainInv, MemoryOK
  <2>3. find_in_bucket(k) \notin Node
    BY <1>1, <2>2
  <2> QED
    BY <2>3, FindFacts
<1> QED
  BY <1>1, <1>2, <1>3

\* A step that links no node, and after which the worker that is about to link one
\* is where it was, or has just searched.
LEMMA OnceKept ==
    ASSUME OnceInv, UNCHANGED <<age, scenario>>, deleted \subseteq deleted',
           \A w \in Worker : pc'[w] \in {"load head", "swap head"} =>
              \/ pc[w] \in {"load head", "swap head"} /\ loc'[w].node = loc[w].node
              \/ \A m \in Linked \ deleted : KeyOf[m] # KeyOf[loc'[w].node]
    PROVE  OnceInv'
<1>1. Linked' = Linked /\ KeyOf' = KeyOf
  BY DEF Linked, age, KeyOf
<1>2. \A m, n \in Linked' \ deleted' : KeyOf[m] = KeyOf[n] => m = n
  BY <1>1 DEF OnceInv
<1>3. ASSUME NEW w \in Worker, pc'[w] \in {"load head", "swap head"}, NEW m \in Linked' \ deleted'
      PROVE  KeyOf[m] # KeyOf[loc'[w].node]
  <2>1. m \in Linked \ deleted
    BY <1>1, <1>3
  <2> QED
    BY <1>3, <2>1 DEF OnceInv
<1> QED
  BY <1>1, <1>2, <1>3 DEF OnceInv

LEMMA InsertOnceKept ==
    ASSUME ChainInv, OnceInv, \A v, w \in Worker : v = w, NEW w \in Worker, Insert(w)
    PROVE  OnceInv'
<1>1. w \in Thread /\ MemoryOK /\ Worker = {w}
  BY DEF Thread, ChainInv
<1>2. ASSUME UNCHANGED <<age, scenario, deleted>>, NEW label, NEW l, Goto(w, label, l),
             label \in {"load head", "swap head"} =>
              \/ pc[w] \in {"load head", "swap head"} /\ l.node = loc[w].node
              \/ \A m \in Linked \ deleted : KeyOf[m] # KeyOf[l.node]
      PROVE  OnceInv'
  <2>1. pc'[w] = label /\ loc'[w] = l
    <3>1. Goto(w, label, l)
      BY <1>2
    <3> QED
      BY <1>1, <3>1, GotoFacts
  <2> QED
    BY <1>1, <1>2, <2>1, OnceKept
<1>3. CASE \E n \in Node : InsertExists(w, n)
  <2>1. UNCHANGED <<age, scenario, deleted, pc, loc>>
    BY <1>3 DEF InsertExists, memory
  <2> QED
    BY <2>1, OnceKept
<1>4. CASE \E n \in Node : InsertFind(w, n)
  <2>1. PICK n \in Node : InsertFind(w, n)
    BY <1>4
  <2>2. PICK l : l = [Idle EXCEPT !.node = n]
    OBVIOUS
  <2>3. /\ UNCHANGED <<age, scenario, deleted>> /\ Goto(w, "load head", l) /\ l.node = n
        /\ find_in_bucket(KeyOf[n]) = Null
    BY <2>1, <2>2 DEF InsertFind, Idle
  <2> QED
    BY <1>2, <2>3, NotFoundIsNotLive
<1>5. CASE InsertRetry(w)
  <2>1. UNCHANGED <<age, scenario, deleted>> /\ loc[w].node \in Node
    BY <1>5, WorkerFacts DEF InsertRetry
  <2>2. CASE find_in_bucket(KeyOf[loc[w].node]) = Null
    BY <1>2, <1>5, <2>1, <2>2, NotFoundIsNotLive DEF InsertRetry
  <2>3. CASE find_in_bucket(KeyOf[loc[w].node]) # Null
    BY <1>2, <1>5, <2>1, <2>3 DEF InsertRetry, Return
  <2> QED
    BY <2>2, <2>3
<1>6. CASE LoadHead(w)
  <2>1. PICK l : l = [loc[w] EXCEPT !.next = buckets[BucketFor(loc[w].node)]]
    OBVIOUS
  <2>2. UNCHANGED <<age, scenario, deleted>> /\ pc[w] = "load head" /\ Goto(w, "swap head", l)
    BY <1>6, <2>1 DEF LoadHead, memory
  <2>3. l.node = loc[w].node
    BY <2>1, <2>2, WorkerFacts
  <2> QED
    BY <1>2, <2>2, <2>3
<1>7. CASE SwapHead(w) /\ buckets[BucketFor(loc[w].node)] # loc[w].next
  BY <1>2, <1>7 DEF SwapHead, memory
<1>8. CASE SwapHead(w) /\ buckets[BucketFor(loc[w].node)] = loc[w].next
  <2>1. PICK n, l : n = loc[w].node /\ l = [Idle EXCEPT !.node = n]
    OBVIOUS
  <2>2. /\ pc[w] = "swap head" /\ Goto(w, "load tail", l) /\ UNCHANGED <<scenario, deleted>>
        /\ linkedAt' = [linkedAt EXCEPT ![n] = links[BucketFor(n)] + 1]
    BY <1>8, <2>1 DEF SwapHead, memory
  <2>3. Linked' \subseteq Linked \cup {n} /\ KeyOf' = KeyOf
    BY <1>1, <2>2 DEF Linked, KeyOf, MemoryOK
  <2>4. \A m \in Linked \ deleted : KeyOf[m] # KeyOf[n]
    BY <2>1, <2>2 DEF OnceInv
  <2>5. pc'[w] = "load tail"
    BY <1>1, <2>2, GotoFacts
  <2>6. \A x, y \in Linked' \ deleted' : KeyOf[x] = KeyOf[y] => x = y
    BY <2>2, <2>3, <2>4 DEF OnceInv
  <2> QED
    BY <1>1, <2>3, <2>5, <2>6 DEF OnceInv
<1>9. CASE LoadTail(w) \/ FirstHead(w) \/ FirstTail(w) \/ LoadNext(w) \/ CheckTail(w) \/ Append(w) \/ SwingTail(w)
  <2>1. UNCHANGED <<age, scenario, deleted>>
    BY <1>9 DEF LoadTail, FirstHead, FirstTail, LoadNext, CheckTail, Append, SwingTail, memory
  <2>2. PICK label \in {"idle"} \cup Unlisted \cup Listing : \E l : Goto(w, label, l)
    BY <1>9 DEF LoadTail, FirstHead, FirstTail, LoadNext, CheckTail, Append, SwingTail, Return, Unlisted, Listing
  <2>3. label \notin {"load head", "swap head"}
    BY DEF Unlisted, Listing
  <2> QED
    BY <1>2, <2>1, <2>2, <2>3
<1> QED
  BY <1>3, <1>4, <1>5, <1>6, <1>7, <1>8, <1>9 DEF Insert

LEMMA NextOnce ==
    ASSUME ChainInv, OnceInv, \A v, w \in Worker : v = w, [MapNext]_mapVars
    PROVE  OnceInv'
<1>1. ASSUME NEW r \in {incoming, outgoing}, NEW label, NEW l, Goto(r, label, l),
             UNCHANGED <<age, scenario>>, deleted \subseteq deleted'
      PROVE  OnceInv'
  <2>1. MemoryOK /\ r \in Thread /\ Worker \subseteq Thread /\ r \notin Worker /\ Goto(r, label, l)
    BY <1>1, MapAssumption DEF Thread, ChainInv
  <2>2. \A u \in Worker : pc'[u] = pc[u] /\ loc'[u] = loc[u]
    BY <2>1, GotoFacts
  <2> QED
    BY <1>1, <2>2, OnceKept
<1>2. ASSUME NEW r \in {incoming, outgoing}, Remove(r) PROVE OnceInv'
  <2>1. UNCHANGED <<age, scenario>> /\ deleted \subseteq deleted'
    BY <1>2 DEF Remove, RemoveCall, RemoveFind, RemoveMark, LoadPrev, Unlink, memory
  <2>2. \E label, l : Goto(r, label, l)
    BY <1>2 DEF Remove, RemoveCall, RemoveFind, RemoveMark, LoadPrev, Unlink, Return
  <2> QED
    BY <1>1, <2>1, <2>2
<1>3. CASE CollectGarbage
  <2>1. UNCHANGED <<age, scenario, deleted>>
    BY <1>3 DEF CollectGarbage, GcBegin, GcNext, GcCheck, GcTail, GcSweep, memory
  <2>2. \E label, l : Goto(outgoing, label, l)
    BY <1>3 DEF CollectGarbage, GcBegin, GcNext, GcCheck, GcTail, GcSweep, Return
  <2> QED
    BY <1>1, <2>1, <2>2
<1>4. CASE UNCHANGED mapVars
  <2>1. UNCHANGED <<age, scenario, deleted, pc, loc>>
    BY <1>4 DEF mapVars, memory
  <2> QED
    BY <2>1, OnceKept
<1> QED
  BY <1>2, <1>3, <1>4, InsertOnceKept DEF MapNext

\* insert_internal, "Key exists and is not deleted. Insertion fails.": where one worker
\* inserts, as with an executor of one thread, two receipts of one number are never in the
\* map together, whatever acknowledgements, the scan and the collector do between its
\* search and its compare-and-swap.  With two workers TLC has a counterexample.
THEOREM OneWorkerInsertsOnce ==
    ASSUME \A v, w \in Worker : v = w
    PROVE  MapSpec => []InsertOnce
<1>1. MapInit => ChainInv /\ OnceInv
  <2>1. MapInit => OnceInv
    BY DEF MapInit, OnceInv, Linked, Thread
  <2> QED
    BY <2>1, InitChain
<1>2. ChainInv /\ OnceInv /\ [MapNext]_mapVars => (ChainInv /\ OnceInv)'
  BY NextChain, NextOnce
<1>3. ChainInv /\ OnceInv => InsertOnce
  BY DEF ChainInv, MemoryOK, OnceInv, InsertOnce
<1> QED
  BY <1>1, <1>2, <1>3, PTL DEF MapSpec

=============================================================================
