------------------------------ MODULE Executor ------------------------------
(***************************************************************************)
(* What ITaskExecutor (znet/z_task_executor.h) promises its callers: a     *)
(* task handed to Submit before the executor is closed is started once, in *)
(* the order of submission, by at most MaxRunning threads at a time, and   *)
(* runs to its end; a closed executor takes nothing new and still runs     *)
(* what it has.  The thread pool implements it (TaskExecutor).             *)
(***************************************************************************)
EXTENDS Sequences, FiniteSets, Naturals

CONSTANTS
    Task,           \* the closures handed to Submit, each of them once
    MaxRunning      \* how many tasks may run at the same time

VARIABLES
    waiting,        \* submitted and not started, oldest first
    running,        \* started and not ended
    finished,       \* ended, normally or by an exception
    closed          \* the destructor has begun to stop the executor

vars == <<waiting, running, finished, closed>>

Queued == {waiting[i] : i \in 1..Len(waiting)}

Init == /\ waiting = <<>>
        /\ running = {}
        /\ finished = {}
        /\ closed = FALSE

Accept(t) == /\ ~closed
             /\ t \notin Queued \cup running \cup finished
             /\ waiting' = Append(waiting, t)
             /\ UNCHANGED <<running, finished, closed>>

Start == /\ waiting # <<>>
         /\ Cardinality(running) < MaxRunning
         /\ running' = running \cup {Head(waiting)}
         /\ waiting' = Tail(waiting)
         /\ UNCHANGED <<finished, closed>>

End(t) == /\ t \in running
          /\ running' = running \ {t}
          /\ finished' = finished \cup {t}
          /\ UNCHANGED <<waiting, closed>>

Close == /\ ~closed
         /\ closed' = TRUE
         /\ UNCHANGED <<waiting, running, finished>>

Next == \/ \E t \in Task : Accept(t) \/ End(t)
        \/ Start
        \/ Close

Spec == Init /\ [][Next]_vars

=============================================================================
