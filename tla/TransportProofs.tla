-------------------------- MODULE TransportProofs ---------------------------
(***************************************************************************)
(* Proofs about Transport: the count of dispatch tasks is exact and Deinit *)
(* leaves nothing running, for any number of packets, workers, sessions.   *)
(***************************************************************************)
EXTENDS Transport, FiniteSetTheorems, TLAPS

\* The tasks can be counted, since the packets are finitely many.
LEMMA CountedIsFinite == IsFiniteSet(Counted)
<1>1. Counted \subseteq Packet
  BY DEF Counted
<1> QED
  BY <1>1, TransportAssumption, FS_Subset

\* The initial state has no task and no thread.
LEMMA InitTInv == Init => TInv
<1> SUFFICES ASSUME Init PROVE TInv
  OBVIOUS
<1>1. TypeOK
  <2>1. socket_open \in BOOLEAN /\ stop_threads \in BOOLEAN
    BY Zenon DEF Init
  <2>2. pending \in Nat /\ sessions \in 0..MaxSessions
    BY TransportAssumption DEF Init
  <2>3. stage \in [Packet -> Stage]
    BY DEF Init, Stage
  <2> QED
    BY <2>1, <2>2, <2>3 DEF Init, TypeOK
<1>2. Counted = {}
  BY DEF Init, Counted
<1>3. PendingExact
  BY <1>2, FS_EmptySet DEF Init, PendingExact
<1>4. QuietAfterDeinit /\ TakenBySubmit /\ JoinedStaysJoined
  BY <1>2 DEF Init, QuietAfterDeinit, TakenBySubmit, JoinedStaysJoined
<1> QED
  BY <1>1, <1>3, <1>4 DEF TInv

\* A step that moves no packet into or out of the counted stages keeps the count.
LEMMA CountKept ==
    ASSUME TInv, Counted' = Counted, pending' = pending
    PROVE  PendingExact'
BY DEF TInv, PendingExact

\* A step that leaves every packet where it is.
LEMMA StagesKept ==
    ASSUME TInv, stage' = stage, pending' = pending
    PROVE  PendingExact' /\ Counted' = Counted
<1>1. Counted' = Counted
  BY DEF Counted
<1> QED
  BY <1>1, CountKept

\* The application's calls and Deinit: they count nothing, and the end of
\* Deinit is reached only with both threads joined and the count at zero.
LEMMA AppStepTInv ==
    ASSUME TInv, \/ InitTransport \/ InitFails \/ Connected \/ DestroySocket
                 \/ DeinitStep \/ SpuriousWake
    PROVE  TInv'
<1> USE DEF TInv
<1>1. stage' = stage /\ pending' = pending
  BY DEF InitTransport, InitFails, Connected, DestroySocket, DeinitStep, StopThreads,
         JoinOutgoing, JoinIncoming, CheckPending, Sleep, SpuriousWake
<1>2. PendingExact' /\ Counted' = Counted
  BY <1>1, StagesKept
<1>3. TypeOK'
  <2>1. socket_open' \in BOOLEAN /\ stop_threads' \in BOOLEAN
    BY Zenon DEF TypeOK, InitTransport, InitFails, Connected, DestroySocket, DeinitStep,
                 StopThreads, JoinOutgoing, JoinIncoming, CheckPending, Sleep, SpuriousWake
  <2>2. sessions' \in 0..MaxSessions
    <3>1. \/ sessions' = sessions
          \/ sessions < MaxSessions /\ sessions' = sessions + 1
      BY DEF InitTransport, InitFails, Connected, DestroySocket, DeinitStep, StopThreads,
             JoinOutgoing, JoinIncoming, CheckPending, Sleep, SpuriousWake
    <3>2. sessions \in 0..MaxSessions /\ MaxSessions \in Nat
      BY TransportAssumption DEF TypeOK
    <3> HIDE DEF TInv
    <3> QED
      BY <3>1, <3>2
  <2>3. /\ state' \in {"disconnected", "connecting", "connected"}
        /\ outgoing' \in {"none", "loop", "batch", "submit", "exited"}
        /\ incoming' \in {"none", "loop", "exited"}
        /\ app' \in {"idle", "stop", "join outgoing", "join incoming", "check",
                     "before sleep", "asleep"}
    BY DEF TypeOK, InitTransport, InitFails, Connected, DestroySocket, DeinitStep, StopThreads,
           JoinOutgoing, JoinIncoming, CheckPending, Sleep, SpuriousWake
  <2> QED
    BY <1>1, <2>1, <2>2, <2>3 DEF TypeOK
<1>4. pending = 0 => Counted = {}
  BY CountedIsFinite, FS_EmptySet DEF PendingExact
<1>5. TakenBySubmit'
  BY <1>1 DEF TakenBySubmit, InitTransport, InitFails, Connected, DestroySocket, DeinitStep,
              StopThreads, JoinOutgoing, JoinIncoming, CheckPending, Sleep, SpuriousWake
<1>6. JoinedStaysJoined'
  BY DEF TypeOK, JoinedStaysJoined, InitTransport, InitFails, Connected, DestroySocket,
         DeinitStep, StopThreads, JoinOutgoing, JoinIncoming, CheckPending, Sleep,
         SpuriousWake
<1>7. QuietAfterDeinit'
  BY <1>2, <1>4
     DEF QuietAfterDeinit, JoinedStaysJoined, TypeOK, InitTransport, InitFails, Connected,
         DestroySocket, DeinitStep, StopThreads, JoinOutgoing, JoinIncoming, CheckPending,
         Sleep, SpuriousWake
<1> QED
  BY <1>2, <1>3, <1>5, <1>6, <1>7

\* EnqueuePacket touches packets that no thread has seen.
LEMMA EnqueueTInv ==
    ASSUME TInv, NEW p \in Packet, EnqueuePacket(p)
    PROVE  TInv'
<1> USE DEF TInv
<1>1. Counted' = Counted
  BY DEF EnqueuePacket, Counted, TypeOK
<1>2. PendingExact'
  BY <1>1, CountKept DEF EnqueuePacket
<1>3. TypeOK'
  BY DEF EnqueuePacket, TypeOK, Stage
<1>4. TakenBySubmit'
  BY DEF EnqueuePacket, TakenBySubmit, TypeOK
<1>5. JoinedStaysJoined' /\ QuietAfterDeinit'
  BY <1>1 DEF EnqueuePacket, JoinedStaysJoined, QuietAfterDeinit
<1> QED
  BY <1>2, <1>3, <1>4, <1>5

\* The outgoing thread runs only while it is not joined; TakePacket adds its
\* packet to the counted ones together with fetch_add.
LEMMA OutgoingTInv ==
    ASSUME TInv, OutgoingStep
    PROVE  TInv'
<1> USE DEF TInv
<1>1. CASE OutgoingRound \/ EndRound
  <2>1. PendingExact' /\ Counted' = Counted
    BY <1>1, StagesKept DEF OutgoingRound, EndRound
  <2>2. TypeOK' /\ TakenBySubmit' /\ JoinedStaysJoined'
    BY <1>1 DEF OutgoingRound, EndRound, TypeOK, TakenBySubmit, JoinedStaysJoined
  <2>3. QuietAfterDeinit'
    BY <1>1, <2>1 DEF OutgoingRound, EndRound, QuietAfterDeinit, JoinedStaysJoined
  <2> QED
    BY <2>1, <2>2, <2>3
<1>2. ASSUME NEW p \in Packet, TakePacket(p)
      PROVE  TInv'
  <2>1. TypeOK'
    <3>1. pending \in Nat /\ pending' = pending + 1
      BY <1>2 DEF TakePacket, TypeOK
    <3>2. stage' \in [Packet -> Stage]
      BY <1>2 DEF TakePacket, TypeOK, Stage
    <3>3. pending' \in Nat
      BY <3>1
    <3> QED
      BY <1>2, <3>1, <3>2, <3>3 DEF TakePacket, TypeOK
  <2>2. p \notin Counted /\ Counted' = Counted \cup {p}
    BY <1>2 DEF TakePacket, TypeOK, Counted
  <2>3. Cardinality(Counted \cup {p}) = Cardinality(Counted) + 1
    BY <2>2, CountedIsFinite, FS_AddElement
  <2>4. PendingExact'
    BY <1>2, <2>2, <2>3 DEF TakePacket, PendingExact
  <2>5. TakenBySubmit' /\ JoinedStaysJoined' /\ QuietAfterDeinit'
    BY <1>2 DEF TakePacket, TakenBySubmit, JoinedStaysJoined, QuietAfterDeinit, TypeOK
  <2> QED
    BY <2>1, <2>4, <2>5
<1>3. ASSUME NEW p \in Packet, Submit(p)
      PROVE  TInv'
  <2>1. TypeOK'
    BY <1>3 DEF Submit, TypeOK, Stage
  <2>2. Counted' = Counted
    BY <1>3 DEF Submit, TypeOK, Counted
  <2>3. PendingExact'
    BY <1>3, <2>2, CountKept DEF Submit
  <2>4. JoinedStaysJoined' /\ QuietAfterDeinit'
    BY <1>3 DEF Submit, JoinedStaysJoined, QuietAfterDeinit
  <2>5. TakenBySubmit'
    BY <1>3 DEF Submit, TakenBySubmit, TypeOK
  <2> QED
    BY <2>1, <2>3, <2>4, <2>5
<1> QED
  BY <1>1, <1>2, <1>3 DEF OutgoingStep

\* The incoming thread ends by itself; it is not joined by that.
LEMMA IncomingTInv ==
    ASSUME TInv, IncomingRound \/ Goodbye
    PROVE  TInv'
<1> USE DEF TInv
<1>1. PendingExact' /\ Counted' = Counted
  BY StagesKept DEF IncomingRound, Goodbye
<1>2. TypeOK' /\ TakenBySubmit' /\ JoinedStaysJoined'
  BY DEF IncomingRound, Goodbye, TypeOK, TakenBySubmit, JoinedStaysJoined
<1>3. QuietAfterDeinit'
  BY <1>1 DEF IncomingRound, Goodbye, QuietAfterDeinit
<1> QED
  BY <1>1, <1>2, <1>3

\* A task leaves the counted stages together with fetch_sub.
LEMMA TaskTInv ==
    ASSUME TInv, NEW p \in Packet, TaskStep(p)
    PROVE  TInv'
<1> USE DEF TInv
<1>1. CASE StartTask(p) \/ DispatchPacket(p)
  <2>1. TypeOK'
    <3>1. stage' = [stage EXCEPT ![p] = "dispatching"] \/ stage' = [stage EXCEPT ![p] = "dispatched"]
      BY <1>1 DEF StartTask, DispatchPacket
    <3>2. stage' \in [Packet -> Stage]
      BY <3>1 DEF TypeOK, Stage
    <3>3. UNCHANGED <<state, socket_open, stop_threads, outgoing, incoming, app, pending,
                      sessions>>
      BY <1>1 DEF StartTask, DispatchPacket
    <3>4. TypeOK
      OBVIOUS
    <3> QED
      BY ONLY <3>2, <3>3, <3>4 DEF TypeOK
  <2>2. Counted' = Counted /\ p \in Counted
    BY <1>1 DEF StartTask, DispatchPacket, TypeOK, Counted
  <2>3. PendingExact'
    BY <1>1, <2>2, CountKept DEF StartTask, DispatchPacket
  <2>4. JoinedStaysJoined' /\ TakenBySubmit'
    BY <1>1 DEF StartTask, DispatchPacket, JoinedStaysJoined, TakenBySubmit, TypeOK
  <2>5. QuietAfterDeinit'
    BY <1>1, <2>2 DEF StartTask, DispatchPacket, QuietAfterDeinit
  <2> QED
    BY <2>1, <2>3, <2>4, <2>5
<1>2. CASE CountOut(p)
  <2>1. p \in Counted /\ Counted' = Counted \ {p}
    BY <1>2 DEF CountOut, TypeOK, Counted
  <2>2. /\ Cardinality(Counted \ {p}) = Cardinality(Counted) - 1
        /\ Cardinality(Counted) \in Nat /\ Cardinality(Counted) # 0
    BY <2>1, CountedIsFinite, FS_RemoveElement, FS_CardinalityType, FS_EmptySet
  <2>3. PendingExact'
    BY <1>2, <2>1, <2>2 DEF CountOut, PendingExact
  <2>4. TypeOK'
    <3>1. pending' \in Nat
      BY <1>2, <2>2 DEF CountOut, PendingExact
    <3>2. stage' \in [Packet -> Stage]
      BY <1>2 DEF CountOut, TypeOK, Stage
    <3> QED
      BY <1>2, <3>1, <3>2 DEF CountOut, TypeOK
  <2>5. JoinedStaysJoined' /\ TakenBySubmit'
    BY <1>2 DEF CountOut, JoinedStaysJoined, TakenBySubmit, TypeOK
  <2>6. QuietAfterDeinit'
    BY <1>2, <2>1 DEF CountOut, QuietAfterDeinit
  <2> QED
    BY <2>3, <2>4, <2>5, <2>6
<1>3. CASE Notify(p)
  <2>1. TypeOK'
    BY <1>3 DEF Notify, TypeOK, Stage
  <2>2. Counted' = Counted
    BY <1>3 DEF Notify, TypeOK, Counted
  <2>3. PendingExact'
    BY <1>3, <2>2, CountKept DEF Notify
  <2>4. JoinedStaysJoined' /\ TakenBySubmit'
    BY <1>3 DEF Notify, JoinedStaysJoined, TakenBySubmit, TypeOK
  <2>5. QuietAfterDeinit'
    BY <1>3, <2>2 DEF Notify, QuietAfterDeinit, TypeOK
  <2> QED
    BY <2>1, <2>3, <2>4, <2>5
<1> QED
  BY <1>1, <1>2, <1>3 DEF TaskStep

\* Every step of the transport keeps the inductive invariant.
LEMMA NextTInv == TInv /\ [Next]_vars => TInv'
<1> SUFFICES ASSUME TInv, [Next]_vars PROVE TInv'
  OBVIOUS
<1>1. CASE UNCHANGED vars
  <2>1. PendingExact' /\ Counted' = Counted
    BY <1>1, StagesKept DEF vars
  <2> QED
    BY <1>1, <2>1 DEF vars, TInv, TypeOK, QuietAfterDeinit, TakenBySubmit, JoinedStaysJoined
<1>2. CASE AppCalls
  BY <1>2, AppStepTInv, EnqueueTInv DEF AppCalls
<1>3. CASE DeinitStep \/ SpuriousWake
  BY <1>3, AppStepTInv
<1>4. CASE OutgoingStep
  BY <1>4, OutgoingTInv
<1>5. CASE IncomingRound \/ Goodbye
  BY <1>5, IncomingTInv
<1>6. CASE \E p \in Packet : TaskStep(p)
  BY <1>6, TaskTInv
<1> QED
  BY <1>1, <1>2, <1>3, <1>4, <1>5, <1>6 DEF Next

\* The inductive invariant holds in every reachable state of the transport.
THEOREM TransportInvariant == Spec => []TInv
BY InitTInv, NextTInv, PTL DEF Spec

\* pending_dispatch_tasks_ counts the dispatch tasks exactly, however the
\* outgoing thread, the workers and Deinit interleave.
THEOREM TransportPendingExact == Spec => []PendingExact
<1>1. TInv => PendingExact
  BY DEF TInv
<1> QED
  BY <1>1, TransportInvariant, PTL

\* When Deinit has returned no thread runs and no task is left.
THEOREM TransportQuietAfterDeinit == Spec => []QuietAfterDeinit
<1>1. TInv => QuietAfterDeinit
  BY DEF TInv
<1> QED
  BY <1>1, TransportInvariant, PTL

=============================================================================
