---------------------------- MODULE TaskExecutor ----------------------------
(***************************************************************************)
(* ZThreadPoolTaskExecutor (znet/z_task_executor.cc): a queue of tasks     *)
(* behind one mutex, a fixed set of worker threads, and three condition    *)
(* variables.  A section of code that holds mutex_ is one action.  A       *)
(* condition variable is the set of the threads blocked in its wait();     *)
(* notify_one() removes any one of them, notify_all() all of them, and a   *)
(* thread may leave the set by itself (a spurious wake-up).  A thread that *)
(* has left the set evaluates the predicate again under the mutex.         *)
(***************************************************************************)
EXTENDS Naturals, Sequences, FiniteSets

CONSTANTS
    Worker,             \* the threads of workers_
    Submitter,          \* threads that call Submit
    Drainer,            \* threads that call Drain
    Owner,              \* the thread that runs the destructor
    Task,               \* the closures, each submitted at most once
    NoTask,
    max_queued_tasks    \* Options::max_queued_tasks, 0 for unbounded

Client == Submitter \cup Drainer \cup {Owner}

ASSUME WorkerAssumption == IsFiniteSet(Worker) /\ Worker # {}
ASSUME ClientAssumption == /\ Owner \notin Submitter \cup Drainer
                           /\ Submitter \cap Drainer = {}
                           /\ Worker \cap Client = {}
ASSUME QueueLimitAssumption == max_queued_tasks \in Nat
ASSUME NoTaskAssumption == NoTask \notin Task

VARIABLES
    tasks,              \* the queue tasks_
    active_workers,
    stopping,
    pc,                 \* where each thread is
    current,            \* the task a worker runs or a submitter carries
    task_cv, space_cv, idle_cv,
    finished,           \* history: tasks whose call has ended
    accepted,           \* history: tasks that were pushed on the queue
    refused,            \* history: tasks Submit returned without pushing
    before              \* history: accepted when the thread called Drain

clientVars == <<accepted, refused, before>>
vars == <<tasks, active_workers, stopping, pc, current, task_cv, space_cv,
          idle_cv, finished, accepted, refused, before>>

Elements(q) == {q[i] : i \in 1..Len(q)}
NoRepeats(q) == \A i, j \in 1..Len(q) : q[i] = q[j] => i = j

Queued == Elements(tasks)
Busy == {w \in Worker : pc[w] \in {"running", "completing"}}
Running == {w \in Worker : pc[w] = "running"}

\* The condition-variable sets that notify_one() may leave behind.
NotifyOne(cv) == IF cv = {} THEN {cv} ELSE {cv \ {t} : t \in cv}

-----------------------------------------------------------------------------
Init == /\ tasks = <<>>
        /\ active_workers = 0
        /\ stopping = FALSE
        /\ pc = [t \in Worker \cup Client |->
                    IF t \in Worker THEN "wait_task" ELSE "idle"]
        /\ current = [t \in Worker \cup Submitter |-> NoTask]
        /\ task_cv = {} /\ space_cv = {} /\ idle_cv = {}
        /\ finished = {} /\ accepted = {} /\ refused = {}
        /\ before = [d \in Drainer \cup {Owner} |-> {}]

-----------------------------------------------------------------------------
(* WorkerLoop *)

Waiting(w) == pc[w] = "wait_task" /\ w \notin task_cv

WorkerWait(w) ==
    /\ Waiting(w)
    /\ ~stopping /\ tasks = <<>>
    /\ task_cv' = task_cv \cup {w}
    /\ UNCHANGED <<tasks, active_workers, stopping, pc, current, space_cv,
                   idle_cv, finished, clientVars>>

\* A worker that leaves as soon as it sees stopping_.
WorkerExitEarly(w) ==
    /\ Waiting(w)
    /\ stopping
    /\ pc' = [pc EXCEPT ![w] = "exited"]
    /\ UNCHANGED <<tasks, active_workers, stopping, current, task_cv, space_cv,
                   idle_cv, finished, clientVars>>

WorkerExit(w) ==
    /\ Waiting(w)
    /\ stopping /\ tasks = <<>>
    /\ pc' = [pc EXCEPT ![w] = "exited"]
    /\ UNCHANGED <<tasks, active_workers, stopping, current, task_cv, space_cv,
                   idle_cv, finished, clientVars>>

\* A pop that tells no blocked submitter about the space it made.
WorkerTakeSilently(w) ==
    /\ Waiting(w)
    /\ tasks # <<>>
    /\ current' = [current EXCEPT ![w] = Head(tasks)]
    /\ tasks' = Tail(tasks)
    /\ active_workers' = active_workers + 1
    /\ pc' = [pc EXCEPT ![w] = "running"]
    /\ UNCHANGED <<stopping, task_cv, space_cv, idle_cv, finished, clientVars>>

\* front() without pop().
WorkerTakeTwice(w) ==
    /\ Waiting(w)
    /\ tasks # <<>>
    /\ current' = [current EXCEPT ![w] = Head(tasks)]
    /\ active_workers' = active_workers + 1
    /\ pc' = [pc EXCEPT ![w] = "running"]
    /\ UNCHANGED <<tasks, stopping, task_cv, space_cv, idle_cv, finished,
                   clientVars>>

WorkerTake(w) ==
    /\ Waiting(w)
    /\ tasks # <<>>
    /\ current' = [current EXCEPT ![w] = Head(tasks)]
    /\ tasks' = Tail(tasks)
    /\ active_workers' = active_workers + 1
    /\ pc' = [pc EXCEPT ![w] = "running"]
    /\ IF max_queued_tasks > 0 THEN space_cv' \in NotifyOne(space_cv)
                               ELSE UNCHANGED space_cv
    /\ UNCHANGED <<stopping, task_cv, idle_cv, finished, clientVars>>

\* task() returns, or throws into catch (...).
WorkerRun(w) ==
    /\ pc[w] = "running"
    /\ finished' = finished \cup {current[w]}
    /\ pc' = [pc EXCEPT ![w] = "completing"]
    /\ UNCHANGED <<tasks, active_workers, stopping, current, task_cv, space_cv,
                   idle_cv, clientVars>>

\* The last worker to finish wakes nobody who drains.
WorkerDoneSilently(w) ==
    /\ pc[w] = "completing"
    /\ active_workers' = active_workers - 1
    /\ current' = [current EXCEPT ![w] = NoTask]
    /\ pc' = [pc EXCEPT ![w] = "wait_task"]
    /\ UNCHANGED <<tasks, stopping, task_cv, space_cv, idle_cv, finished,
                   clientVars>>

WorkerDone(w) ==
    /\ pc[w] = "completing"
    /\ active_workers' = active_workers - 1
    /\ idle_cv' = IF tasks = <<>> /\ active_workers = 1 THEN {} ELSE idle_cv
    /\ current' = [current EXCEPT ![w] = NoTask]
    /\ pc' = [pc EXCEPT ![w] = "wait_task"]
    /\ UNCHANGED <<tasks, stopping, task_cv, space_cv, finished, clientVars>>

-----------------------------------------------------------------------------
(* Submit *)

HasSpace == max_queued_tasks = 0 \/ Len(tasks) < max_queued_tasks

Fresh == Task \ (accepted \cup refused \cup {current[s] : s \in Submitter})

\* push() without notify_one().
PushSilently(s, t) ==
    /\ tasks' = Append(tasks, t)
    /\ accepted' = accepted \cup {t}
    /\ UNCHANGED <<refused, task_cv>>

\* push() and notify_one() at the end of Submit.
Push(s, t) ==
    /\ tasks' = Append(tasks, t)
    /\ accepted' = accepted \cup {t}
    /\ task_cv' \in NotifyOne(task_cv)
    /\ UNCHANGED refused

\* The early returns of Submit when stopping_.
Refuse(s, t) ==
    /\ refused' = refused \cup {t}
    /\ UNCHANGED <<tasks, accepted, task_cv>>

\* Submit, up to its return or to the wait for space.
SubmitCall(s, t) ==
    /\ pc[s] = "idle" /\ pc[Owner] # "destroyed"
    /\ t \in Fresh
    /\ \/ stopping /\ Refuse(s, t) /\ UNCHANGED <<pc, current, space_cv>>
       \/ ~stopping /\ HasSpace /\ Push(s, t) /\ UNCHANGED <<pc, current, space_cv>>
       \/ /\ ~stopping /\ ~HasSpace
          /\ pc' = [pc EXCEPT ![s] = "wait_space"]
          /\ current' = [current EXCEPT ![s] = t]
          /\ space_cv' = space_cv \cup {s}
          /\ UNCHANGED <<tasks, accepted, refused, task_cv>>
    /\ UNCHANGED <<active_workers, stopping, idle_cv, finished, before>>

\* A submitter that was woken evaluates the predicate again.
SubmitResume(s) ==
    /\ pc[s] = "wait_space" /\ s \notin space_cv
    /\ \/ /\ IF stopping THEN Refuse(s, current[s])
                         ELSE HasSpace /\ Push(s, current[s])
          /\ pc' = [pc EXCEPT ![s] = "idle"]
          /\ current' = [current EXCEPT ![s] = NoTask]
          /\ UNCHANGED space_cv
       \/ /\ ~stopping /\ ~HasSpace
          /\ space_cv' = space_cv \cup {s}
          /\ UNCHANGED <<tasks, pc, current, task_cv, accepted, refused>>
    /\ UNCHANGED <<active_workers, stopping, idle_cv, finished, before>>

-----------------------------------------------------------------------------
(* Drain and the destructor *)

\* Drain that looks at the queue only.
IdleIgnoringWorkers == tasks = <<>>

Idle == tasks = <<>> /\ active_workers = 0

\* A call of Drain, or the destructor's own call of it.
DrainCall(d) ==
    /\ pc[d] \in {"idle", "drained"} /\ pc[Owner] # "destroyed"
    /\ pc' = [pc EXCEPT ![d] = "wait_idle"]
    /\ before' = [before EXCEPT ![d] = accepted]
    /\ UNCHANGED <<tasks, active_workers, stopping, current, task_cv, space_cv,
                   idle_cv, finished, accepted, refused>>

DrainCheck(d) ==
    /\ pc[d] = "wait_idle" /\ d \notin idle_cv
    /\ IF Idle
         THEN /\ pc' = [pc EXCEPT ![d] = IF d = Owner THEN "stopping" ELSE "drained"]
              /\ UNCHANGED idle_cv
         ELSE /\ idle_cv' = idle_cv \cup {d}
              /\ UNCHANGED pc
    /\ UNCHANGED <<tasks, active_workers, stopping, current, task_cv, space_cv,
                   finished, clientVars>>

SetStopping ==
    /\ pc[Owner] = "stopping"
    /\ stopping' = TRUE
    /\ pc' = [pc EXCEPT ![Owner] = "notify_task"]
    /\ UNCHANGED <<tasks, active_workers, current, task_cv, space_cv, idle_cv,
                   finished, clientVars>>

\* notify_one() where the destructor needs notify_all().
NotifyTaskOne ==
    /\ pc[Owner] = "notify_task"
    /\ task_cv' \in NotifyOne(task_cv)
    /\ pc' = [pc EXCEPT ![Owner] = "notify_space"]
    /\ UNCHANGED <<tasks, active_workers, stopping, current, space_cv, idle_cv,
                   finished, clientVars>>

NotifyTask ==
    /\ pc[Owner] = "notify_task"
    /\ task_cv' = {}
    /\ pc' = [pc EXCEPT ![Owner] = "notify_space"]
    /\ UNCHANGED <<tasks, active_workers, stopping, current, space_cv, idle_cv,
                   finished, clientVars>>

NotifySpace ==
    /\ pc[Owner] = "notify_space"
    /\ space_cv' = {}
    /\ pc' = [pc EXCEPT ![Owner] = "join"]
    /\ UNCHANGED <<tasks, active_workers, stopping, current, task_cv, idle_cv,
                   finished, clientVars>>

Join ==
    /\ pc[Owner] = "join"
    /\ \A w \in Worker : pc[w] = "exited"
    /\ pc' = [pc EXCEPT ![Owner] = "destroyed"]
    /\ UNCHANGED <<tasks, active_workers, stopping, current, task_cv, space_cv,
                   idle_cv, finished, clientVars>>

\* A condition variable may wake a thread that nobody notified.
SpuriousWake(t) ==
    /\ t \in task_cv \cup space_cv \cup idle_cv
    /\ task_cv' = task_cv \ {t}
    /\ space_cv' = space_cv \ {t}
    /\ idle_cv' = idle_cv \ {t}
    /\ UNCHANGED <<tasks, active_workers, stopping, pc, current, finished,
                   clientVars>>

\* The end: the executor is gone and no call is under way.
Terminated ==
    /\ pc[Owner] = "destroyed"
    /\ \A c \in Client : pc[c] \in {"idle", "drained", "destroyed"}
    /\ UNCHANGED vars

-----------------------------------------------------------------------------
WorkerStep(w) == \/ WorkerWait(w) \/ WorkerExit(w) \/ WorkerTake(w)
                 \/ WorkerRun(w) \/ WorkerDone(w)
OwnerStep == SetStopping \/ NotifyTask \/ NotifySpace \/ Join

Next == \/ \E w \in Worker : WorkerStep(w)
        \/ \E s \in Submitter : SubmitResume(s) \/ \E t \in Task : SubmitCall(s, t)
        \/ \E d \in Drainer \cup {Owner} : DrainCall(d) \/ DrainCheck(d)
        \/ OwnerStep
        \/ \E t \in Worker \cup Client : SpuriousWake(t)
        \/ Terminated

Spec == Init /\ [][Next]_vars

\* The operating system runs every thread that can run; nobody is obliged to
\* call Submit, Drain or the destructor.
Fairness == /\ \A w \in Worker : WF_vars(WorkerStep(w))
            /\ \A s \in Submitter : WF_vars(SubmitResume(s))
            /\ \A d \in Drainer \cup {Owner} : WF_vars(DrainCheck(d))
            /\ WF_vars(OwnerStep)

FairSpec == Spec /\ Fairness

-----------------------------------------------------------------------------
ThreadPC == {"wait_task", "running", "completing", "exited", "idle",
             "wait_space", "wait_idle", "drained", "stopping", "notify_task",
             "notify_space", "join", "destroyed"}

\* Type invariant; the counter active_workers_ never leaves 0..worker_count_
\* (it is unsigned, so a decrement below zero would make Drain wait forever).
TypeOK ==
    /\ tasks \in Seq(Task)
    /\ active_workers \in 0..Cardinality(Worker)
    /\ stopping \in BOOLEAN
    /\ pc \in [Worker \cup Client -> ThreadPC]
    /\ current \in [Worker \cup Submitter -> Task \cup {NoTask}]
    /\ task_cv \subseteq Worker
    /\ space_cv \subseteq Submitter
    /\ idle_cv \subseteq Drainer \cup {Owner}
    /\ finished \subseteq Task /\ accepted \subseteq Task /\ refused \subseteq Task
    /\ before \in [Drainer \cup {Owner} -> SUBSET Task]

\* Back-pressure: Submit never lets the queue grow past max_queued_tasks_,
\* however many submitters are woken by one pop and whoever takes the mutex
\* first after a notify.
QueueBounded == max_queued_tasks > 0 => Len(tasks) <= max_queued_tasks

\* A task that Submit accepted is in exactly one place: once in the queue, in
\* the hands of one worker, or ended.  No interleaving of workers runs a task
\* twice or loses it.
TaskInOnePlace ==
    /\ accepted = Queued \cup {current[w] : w \in Running} \cup finished
    /\ NoRepeats(tasks)
    /\ \A v, w \in Running : current[v] = current[w] => v = w
    /\ \A w \in Running : current[w] \notin Queued \cup finished
    /\ Queued \cap finished = {}

\* z_task_executor.h: Drain blocks "until all previously submitted tasks have
\* finished": when it has returned, so has every task accepted before the call.
DrainWaitsForEarlierTasks ==
    \A d \in Drainer \cup {Owner} :
        pc[d] \in {"drained", "stopping", "notify_task", "notify_space", "join",
                   "destroyed"} => before[d] \subseteq finished

\* The destructor discards nothing: once it has joined the workers, every task
\* that Submit accepted has run, also the ones that slipped in between its
\* Drain() and stopping_ = true.
DestructorRunsEverything ==
    pc[Owner] = "destroyed" => finished = accepted /\ tasks = <<>>

\* A worker leaves its loop only when no task can reach it any more.
ExitedWorkerMissesNothing ==
    (\E w \in Worker : pc[w] = "exited") => stopping /\ tasks = <<>>

-----------------------------------------------------------------------------
(* The inductive invariant behind the five properties above. *)

\* active_workers_ counts the workers between the pop and the decrement.
ActiveWorkersExact == active_workers = Cardinality(Busy)

\* A blocked submitter carries a task nobody else carries or has submitted.
CarriedTaskFresh ==
    /\ \A s \in Submitter : pc[s] = "wait_space" =>
            current[s] \in Task /\ current[s] \notin accepted
    /\ \A r, s \in Submitter :
            pc[r] = "wait_space" /\ pc[s] = "wait_space" /\ current[r] = current[s]
                => r = s

\* stopping_ is set by the destructor after its Drain, and once.
StoppingByOwner ==
    /\ stopping <=> pc[Owner] \in {"notify_task", "notify_space", "join", "destroyed"}
    /\ pc[Owner] = "destroyed" => \A w \in Worker : pc[w] = "exited"
    /\ pc[Owner] # "drained"

DrainSnapshot == \A d \in Drainer \cup {Owner} : before[d] \subseteq accepted

\* The inductive invariant of the pool: active_workers_ counts the workers that
\* hold a task, a carried task is nowhere else, stopping_ is the destructor's
\* alone, a Drain's snapshot was accepted, and no worker has left while a task
\* can still come.  It makes TypeOK and the properties above inductive.
IInv == /\ TypeOK
        /\ QueueBounded
        /\ ActiveWorkersExact
        /\ TaskInOnePlace
        /\ CarriedTaskFresh
        /\ StoppingByOwner
        /\ DrainSnapshot
        /\ DrainWaitsForEarlierTasks
        /\ ExitedWorkerMissesNothing

-----------------------------------------------------------------------------
\* Every accepted task is run: no wake-up of task_cv_ is lost.
EveryTaskRuns == \A t \in Task : t \in accepted ~> t \in finished

\* A submitter blocked for space comes back, with its task pushed or refused.
SubmitReturns == \A s \in Submitter : pc[s] = "wait_space" ~> pc[s] = "idle"

\* A call of Drain returns (the tasks submitted meanwhile are finitely many).
DrainReturns == \A d \in Drainer : pc[d] = "wait_idle" ~> pc[d] = "drained"

\* The destructor comes to its end: every worker is woken and joined.
DestructorReturns == pc[Owner] = "wait_idle" ~> pc[Owner] = "destroyed"

-----------------------------------------------------------------------------
Contract == INSTANCE Executor WITH
                MaxRunning <- Cardinality(Worker),
                waiting <- tasks,
                running <- {current[w] : w \in Running},
                closed <- stopping

\* The thread pool implements the executor contract: first in first out, at
\* most worker_count_ tasks at a time, nothing taken after the destructor has
\* set stopping_.
ImplementsContract == Contract!Spec

=============================================================================
