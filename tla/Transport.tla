----------------------------- MODULE Transport ------------------------------
(***************************************************************************)
(* The life cycle of ZAsyncTransportLayer (znet/z_transport.cc) and of the *)
(* threads of its ZPacketQueue (znet/z_packet_queues.cc): Init, sessions,  *)
(* EnqueuePacket and Deinit by the application's thread, the outgoing and  *)
(* the incoming thread, and the dispatch tasks, which run on an executor   *)
(* that keeps the contract of module Executor.  A task is named by the     *)
(* packet it dispatches.                                                   *)
(***************************************************************************)
EXTENDS Naturals, FiniteSets

CONSTANTS
    Packet,         \* the packets the application ever enqueues
    WorkerCount,    \* workers of the executor
    MaxSessions,    \* bound: number of Init calls
    PeerMayClose    \* may the socket report that the peer has gone?

ASSUME TransportAssumption ==
    /\ IsFiniteSet(Packet)
    /\ WorkerCount \in Nat \ {0} /\ MaxSessions \in Nat
    /\ PeerMayClose \in BOOLEAN

VARIABLES
    state,          \* state_
    socket_open,
    stop_threads,
    outgoing,       \* none (not joinable), loop, batch, submit or exited
    incoming,       \* none, loop or exited
    app,            \* where the application's thread is
    stage,          \* how far each packet has got
    pending,        \* pending_dispatch_tasks_
    sessions        \* history: Init calls so far

vars == <<state, socket_open, stop_threads, outgoing, incoming, app, stage, pending,
          sessions>>

Stage == {"new", "queued", "taken", "submitted", "dispatching", "dispatched",
          "notifying", "done", "lost"}

\* Packets whose task has been counted in and not yet out.
Counted == {p \in Packet : stage[p] \in {"taken", "submitted", "dispatching", "dispatched"}}
\* Packets whose task occupies a worker.
OnWorker == {p \in Packet : stage[p] \in {"dispatching", "dispatched", "notifying"}}

Init == /\ state = "disconnected"
        /\ socket_open = FALSE
        /\ stop_threads = FALSE
        /\ outgoing = "none" /\ incoming = "none"
        /\ app = "idle"
        /\ stage = [p \in Packet |-> "new"]
        /\ pending = 0
        /\ sessions = 0

-----------------------------------------------------------------------------
\* ZAsyncTransportLayer::Init.  Its callers deinitialise first; a joinable
\* thread would be overwritten otherwise.  StartThreads starts both threads.
InitTransport ==
    /\ app = "idle" /\ outgoing = "none" /\ incoming = "none"
    /\ sessions < MaxSessions
    /\ sessions' = sessions + 1
    /\ state' = "connecting"
    /\ socket_open' = TRUE
    /\ stop_threads' = FALSE
    /\ outgoing' = "loop" /\ incoming' = "loop"
    /\ UNCHANGED <<app, stage, pending>>

\* No socket, or a socket but no key exchange: back to disconnected.
InitFails ==
    /\ app = "idle" /\ outgoing = "none" /\ incoming = "none"
    /\ sessions < MaxSessions
    /\ sessions' = sessions + 1
    /\ state' = "disconnected"
    /\ socket_open' \in BOOLEAN
    /\ UNCHANGED <<stop_threads, outgoing, incoming, app, stage, pending>>

\* The end of the handshake, in Update of ZServer, ZClient or ZP2PNode.
Connected ==
    /\ app = "idle" /\ state = "connecting"
    /\ state' = "connected"
    /\ UNCHANGED <<socket_open, stop_threads, outgoing, incoming, app, stage, pending,
                   sessions>>

\* EnqueuePacket: refused unless connected; Push may drop it silently.
EnqueuePacket(p) ==
    /\ app = "idle" /\ stage[p] = "new"
    /\ IF state = "connected"
       THEN \E s \in {"queued", "lost"} : stage' = [stage EXCEPT ![p] = s]
       ELSE stage' = [stage EXCEPT ![p] = "lost"]
    /\ UNCHANGED <<state, socket_open, stop_threads, outgoing, incoming, app, pending,
                   sessions>>

\* Deinit, first statement: DestroySocket.
DestroySocket ==
    /\ app = "idle" /\ sessions > 0
    /\ socket_open' = FALSE
    /\ app' = "stop"
    /\ UNCHANGED <<state, stop_threads, outgoing, incoming, stage, pending, sessions>>

\* StopThreads: raise the flag, join both threads, wait for the tasks.
StopThreads ==
    /\ app = "stop"
    /\ stop_threads' = TRUE
    /\ app' = "join outgoing"
    /\ UNCHANGED <<state, socket_open, outgoing, incoming, stage, pending, sessions>>

JoinOutgoing ==
    /\ app = "join outgoing" /\ outgoing \in {"none", "exited"}
    /\ outgoing' = "none"
    /\ app' = "join incoming"
    /\ UNCHANGED <<state, socket_open, stop_threads, incoming, stage, pending, sessions>>

\* StopThreads without WaitForPendingDispatchTasks.
JoinIncomingOnly ==
    /\ app = "join incoming" /\ incoming \in {"none", "exited"}
    /\ incoming' = "none"
    /\ app' = "idle"
    /\ state' = "disconnected"
    /\ UNCHANGED <<socket_open, stop_threads, outgoing, stage, pending, sessions>>

JoinIncoming ==
    /\ app = "join incoming" /\ incoming \in {"none", "exited"}
    /\ incoming' = "none"
    /\ app' = "check"
    /\ UNCHANGED <<state, socket_open, stop_threads, outgoing, stage, pending, sessions>>

\* WaitForPendingDispatchTasks: evaluate the predicate with the mutex held;
\* when it is true return, and Deinit ends.
CheckPending ==
    /\ app = "check"
    /\ IF pending = 0 THEN app' = "idle" /\ state' = "disconnected"
                      ELSE app' = "before sleep" /\ UNCHANGED state
    /\ UNCHANGED <<socket_open, stop_threads, outgoing, incoming, stage, pending, sessions>>

\* The condition variable puts the thread to sleep; a notification before this
\* step is lost, since the notifier does not take dispatch_wait_mutex_.
Sleep ==
    /\ app = "before sleep"
    /\ app' = "asleep"
    /\ UNCHANGED <<state, socket_open, stop_threads, outgoing, incoming, stage, pending,
                   sessions>>

SpuriousWake ==
    /\ app = "asleep"
    /\ app' = "check"
    /\ UNCHANGED <<state, socket_open, stop_threads, outgoing, incoming, stage, pending,
                   sessions>>

-----------------------------------------------------------------------------
\* ProcessOutgoingPackets: the flag is looked at once per round.
OutgoingRound ==
    /\ outgoing = "loop"
    /\ outgoing' = IF stop_threads THEN "exited" ELSE "batch"
    /\ UNCHANGED <<state, socket_open, stop_threads, incoming, app, stage, pending, sessions>>

\* The task is counted when it has been accepted, not before.
TakeUncounted(p) ==
    /\ outgoing = "batch" /\ stage[p] = "queued"
    /\ stage' = [stage EXCEPT ![p] = "taken"]
    /\ outgoing' = "submit"
    /\ UNCHANGED <<state, socket_open, stop_threads, incoming, app, pending, sessions>>

\* ProcessChannel: dequeue, count the task in, submit it.
TakePacket(p) ==
    /\ outgoing = "batch" /\ stage[p] = "queued"
    /\ stage' = [stage EXCEPT ![p] = "taken"]
    /\ pending' = pending + 1
    /\ outgoing' = "submit"
    /\ UNCHANGED <<state, socket_open, stop_threads, incoming, app, sessions>>

\* The executor drops the task without a word.
SubmitDropped(p) ==
    /\ outgoing = "submit" /\ stage[p] = "taken"
    /\ stage' = [stage EXCEPT ![p] = "lost"]
    /\ outgoing' = "batch"
    /\ UNCHANGED <<state, socket_open, stop_threads, incoming, app, pending, sessions>>

Submit(p) ==
    /\ outgoing = "submit" /\ stage[p] = "taken"
    /\ stage' = [stage EXCEPT ![p] = "submitted"]
    /\ outgoing' = "batch"
    /\ UNCHANGED <<state, socket_open, stop_threads, incoming, app, pending, sessions>>

\* A channel is empty, or kMaxDispatchPerChannelPerTick is reached.
EndRound ==
    /\ outgoing = "batch"
    /\ outgoing' = "loop"
    /\ UNCHANGED <<state, socket_open, stop_threads, incoming, app, stage, pending, sessions>>

\* ProcessReceiving polls a non-blocking socket and looks at the flag.
IncomingRoundForever ==
    /\ incoming = "loop"
    /\ UNCHANGED vars

IncomingRound ==
    /\ incoming = "loop" /\ stop_threads
    /\ incoming' = "exited"
    /\ UNCHANGED <<state, socket_open, stop_threads, outgoing, app, stage, pending, sessions>>

\* Goodbye: an empty datagram or a reset, or EBADF on the closed socket.  It
\* stops both threads and leaves state_ as it is.
Goodbye ==
    /\ incoming = "loop"
    /\ PeerMayClose \/ ~socket_open
    /\ stop_threads' = TRUE
    /\ incoming' = "exited"
    /\ UNCHANGED <<state, socket_open, outgoing, app, stage, pending, sessions>>

\* The executor starts a task on a free worker; it dispatches the packet.
StartTask(p) ==
    /\ stage[p] = "submitted" /\ Cardinality(OnWorker) < WorkerCount
    /\ stage' = [stage EXCEPT ![p] = "dispatching"]
    /\ UNCHANGED <<state, socket_open, stop_threads, outgoing, incoming, app, pending,
                   sessions>>

DispatchPacket(p) ==
    /\ stage[p] = "dispatching"
    /\ stage' = [stage EXCEPT ![p] = "dispatched"]
    /\ UNCHANGED <<state, socket_open, stop_threads, outgoing, incoming, app, pending,
                   sessions>>

\* TrackDispatchTaskCompletion: count the task out; the last one notifies.
CountOut(p) ==
    /\ stage[p] = "dispatched"
    /\ pending' = pending - 1
    /\ stage' = [stage EXCEPT ![p] = IF pending = 1 THEN "notifying" ELSE "done"]
    /\ UNCHANGED <<state, socket_open, stop_threads, outgoing, incoming, app, sessions>>

Notify(p) ==
    /\ stage[p] = "notifying"
    /\ stage' = [stage EXCEPT ![p] = "done"]
    /\ app' = IF app = "asleep" THEN "check" ELSE app
    /\ UNCHANGED <<state, socket_open, stop_threads, outgoing, incoming, pending, sessions>>

AppCalls == \/ InitTransport \/ InitFails \/ Connected \/ DestroySocket
            \/ \E p \in Packet : EnqueuePacket(p)
DeinitStep == StopThreads \/ JoinOutgoing \/ JoinIncoming \/ CheckPending \/ Sleep
OutgoingStep == OutgoingRound \/ EndRound \/ \E p \in Packet : TakePacket(p) \/ Submit(p)
TaskStep(p) == StartTask(p) \/ DispatchPacket(p) \/ CountOut(p) \/ Notify(p)

Next == \/ AppCalls \/ DeinitStep \/ SpuriousWake
        \/ OutgoingStep \/ IncomingRound \/ Goodbye
        \/ \E p \in Packet : TaskStep(p)

Spec == Init /\ [][Next]_vars

\* Threads that can run do run; a batch takes each packet it keeps seeing.
FairSpec == /\ Spec
            /\ WF_vars(DeinitStep) /\ WF_vars(OutgoingRound) /\ WF_vars(EndRound)
            /\ WF_vars(IncomingRound)
            /\ \A p \in Packet : /\ SF_vars(TakePacket(p)) /\ WF_vars(Submit(p))
                                 /\ WF_vars(TaskStep(p))

-----------------------------------------------------------------------------
\* Types of the transport's state.
TypeOK ==
    /\ state \in {"disconnected", "connecting", "connected"}
    /\ socket_open \in BOOLEAN /\ stop_threads \in BOOLEAN
    /\ outgoing \in {"none", "loop", "batch", "submit", "exited"}
    /\ incoming \in {"none", "loop", "exited"}
    /\ app \in {"idle", "stop", "join outgoing", "join incoming", "check",
                "before sleep", "asleep"}
    /\ stage \in [Packet -> Stage]
    /\ pending \in Nat
    /\ sessions \in 0..MaxSessions

\* pending_dispatch_tasks_ is the number of tasks between ProcessChannel's
\* fetch_add and TrackDispatchTaskCompletion's fetch_sub, so it cannot pass
\* below zero or reach zero early.
PendingExact == pending = Cardinality(Counted)

\* Deinit: when it has returned neither thread runs and no task will use the
\* socket, the peers or the crypto context again.
QuietAfterDeinit ==
    app = "idle" /\ state = "disconnected" =>
        outgoing = "none" /\ incoming = "none" /\ Counted = {}

\* The packet between fetch_add and Submit is in the outgoing thread's hands.
TakenBySubmit ==
    \A p \in Packet : stage[p] = "taken" =>
        outgoing = "submit" /\ \A q \in Packet : stage[q] = "taken" => p = q

\* What StopThreads has joined stays joined until the next Init.
JoinedStaysJoined ==
    /\ app \in {"join incoming", "check", "before sleep", "asleep"} => outgoing = "none"
    /\ app \in {"check", "before sleep", "asleep"} => incoming = "none"
    /\ app = "idle" /\ state # "disconnected" => outgoing # "none"

\* The inductive invariant behind PendingExact and QuietAfterDeinit: once the
\* outgoing thread is joined no task can be counted in, so the zero that
\* WaitForPendingDispatchTasks reads is final.
TInv == /\ TypeOK
        /\ PendingExact
        /\ QuietAfterDeinit
        /\ TakenBySubmit
        /\ JoinedStaysJoined

\* z_transport.cc:98 and StopThreads: once Deinit has begun both threads are
\* joined, whatever they are doing and however many packets are queued, and the
\* tasks they leave behind run out.
DeinitDrains ==
    app = "stop" ~> (app \in {"check", "before sleep", "asleep", "idle"} /\ pending = 0)

\* ProcessOutgoingPackets: a packet that EnqueuePacket has queued is dispatched
\* unless the application deinitialises or a goodbye stops the threads.
QueuedIsDispatched ==
    \A p \in Packet : (stage[p] = "queued" /\ outgoing # "none")
                          ~> (stage[p] = "done" \/ stop_threads \/ app # "idle")

\* StopThreads, WaitForPendingDispatchTasks: Deinit returns.  DeinitDrains is
\* what holds of it: the notification of the last task may come between
\* CheckPending and Sleep, and then nobody wakes the sleeping thread.
DeinitReturns == app = "stop" ~> app = "idle"

=============================================================================
