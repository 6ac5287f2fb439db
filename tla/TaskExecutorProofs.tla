------------------------- MODULE TaskExecutorProofs -------------------------
(***************************************************************************)
(* The safety of the thread pool for any number of workers, submitters and *)
(* tasks and any queue limit: IInv is inductive, and the pool implements   *)
(* the executor contract.                                                  *)
(***************************************************************************)
EXTENDS TaskExecutor, FiniteSetTheorems, TLAPS

\* What is in a queue after push().
LEMMA AppendElements ==
    ASSUME NEW S, NEW q \in Seq(S), NEW x \in S
    PROVE  /\ Append(q, x) \in Seq(S)
           /\ Len(Append(q, x)) = Len(q) + 1
           /\ Elements(Append(q, x)) = Elements(q) \cup {x}
           /\ NoRepeats(q) /\ x \notin Elements(q) => NoRepeats(Append(q, x))
<1> DEFINE r == Append(q, x)
<1>1. r \in Seq(S) /\ Len(r) = Len(q) + 1 /\ Len(q) \in Nat
  OBVIOUS
<1>2. r[Len(q) + 1] = x /\ \A i \in 1..Len(q) : r[i] = q[i]
  OBVIOUS
<1> HIDE DEF r
<1>3. Elements(r) = Elements(q) \cup {x}
  BY <1>1, <1>2 DEF Elements
<1>4. ASSUME NoRepeats(q), x \notin Elements(q),
             NEW i \in 1..Len(r), NEW j \in 1..Len(r), r[i] = r[j]
      PROVE  i = j
  BY <1>1, <1>2, <1>4 DEF NoRepeats, Elements
<1>5. NoRepeats(q) /\ x \notin Elements(q) => NoRepeats(r)
  BY <1>4 DEF NoRepeats
<1> QED
  BY <1>1, <1>3, <1>5 DEF r

\* What is in a queue after front() and pop().
LEMMA TailElements ==
    ASSUME NEW S, NEW q \in Seq(S), q # <<>>, NoRepeats(q)
    PROVE  /\ Head(q) \in S
           /\ Tail(q) \in Seq(S)
           /\ Len(Tail(q)) = Len(q) - 1
           /\ Elements(q) = Elements(Tail(q)) \cup {Head(q)}
           /\ Head(q) \notin Elements(Tail(q))
           /\ NoRepeats(Tail(q))
<1> DEFINE r == Tail(q)
<1>1. r \in Seq(S) /\ Len(q) \in Nat /\ Len(q) > 0 /\ Len(r) = Len(q) - 1
  OBVIOUS
<1>2. Head(q) = q[1] /\ q[1] \in S /\ \A i \in 1..Len(r) : r[i] = q[i + 1]
  BY <1>1
<1> HIDE DEF r
<1>3. Elements(q) \subseteq Elements(r) \cup {Head(q)}
  <2> SUFFICES ASSUME NEW i \in 1..Len(q), i # 1
               PROVE  q[i] \in Elements(r)
    BY <1>2 DEF Elements
  <2>1. i - 1 \in 1..Len(r) /\ r[i - 1] = q[i]
    BY <1>1, <1>2
  <2> QED
    BY <2>1 DEF Elements
<1>4. Elements(r) \cup {Head(q)} \subseteq Elements(q)
  BY <1>1, <1>2 DEF Elements
<1>5. Head(q) \notin Elements(r)
  BY <1>1, <1>2 DEF Elements, NoRepeats
<1>6. NoRepeats(r)
  BY <1>1, <1>2 DEF NoRepeats
<1> QED
  BY <1>1, <1>2, <1>3, <1>4, <1>5, <1>6 DEF r

\* notify_one() only takes threads out of the wait set.
LEMMA NotifyOneShrinks ==
    ASSUME NEW cv, NEW x \in NotifyOne(cv)
    PROVE  x \subseteq cv
BY DEF NotifyOne

\* The workers are finitely many, so a set of them can be counted.
LEMMA WorkersCounted ==
    ASSUME NEW S \in SUBSET Worker
    PROVE  IsFiniteSet(S) /\ Cardinality(S) \in 0..Cardinality(Worker)
<1>1. Cardinality(Worker) \in Nat /\ Cardinality(S) \in Nat
    /\ Cardinality(S) <= Cardinality(Worker) /\ IsFiniteSet(S)
  BY WorkerAssumption, FS_Subset, FS_CardinalityType
<1> QED
  BY <1>1

-----------------------------------------------------------------------------
\* The pool is constructed with the inductive invariant.
LEMMA InitIInv == Init => IInv
<1> SUFFICES ASSUME Init PROVE IInv
  OBVIOUS
<1>1. Busy = {} /\ Running = {}
  BY ClientAssumption DEF Init, Busy, Running, Client
<1>2. TypeOK
  <2>1. 0 \in 0..Cardinality(Worker)
    BY WorkersCounted, FS_EmptySet
  <2>2. pc \in [Worker \cup Client -> ThreadPC]
    BY DEF Init, ThreadPC
  <2>3. /\ current \in [Worker \cup Submitter -> Task \cup {NoTask}]
        /\ before \in [Drainer \cup {Owner} -> SUBSET Task]
    BY DEF Init
  <2>4. tasks \in Seq(Task)
    BY DEF Init
  <2> QED
    BY <2>1, <2>2, <2>3, <2>4 DEF Init, TypeOK
<1>3. ActiveWorkersExact
  BY <1>1, FS_EmptySet DEF Init, ActiveWorkersExact
<1>4. TaskInOnePlace
  BY <1>1 DEF Init, TaskInOnePlace, Queued, Elements, NoRepeats
<1>5. QueueBounded
  BY QueueLimitAssumption DEF Init, QueueBounded
<1>6. CarriedTaskFresh /\ StoppingByOwner /\ DrainSnapshot
      /\ DrainWaitsForEarlierTasks /\ ExitedWorkerMissesNothing
  BY ClientAssumption DEF Init, CarriedTaskFresh, StoppingByOwner, DrainSnapshot,
     DrainWaitsForEarlierTasks, ExitedWorkerMissesNothing, Client
<1> QED
  BY <1>2, <1>3, <1>4, <1>5, <1>6 DEF IInv

\* Steps that only move threads between condition variables or move a client.
LEMMA WaitStepsKeepIInv ==
    ASSUME IInv, UNCHANGED <<tasks, active_workers, stopping, pc, current,
                             finished, accepted, refused, before>>,
           task_cv' \subseteq Worker, space_cv' \subseteq Submitter,
           idle_cv' \subseteq Drainer \cup {Owner}
    PROVE  IInv'
<1>1. Busy' = Busy /\ Running' = Running /\ Queued' = Queued
  BY DEF Busy, Running, Queued
<1>2. TypeOK' /\ QueueBounded' /\ ActiveWorkersExact'
  BY <1>1 DEF IInv, TypeOK, QueueBounded, ActiveWorkersExact
<1>3. TaskInOnePlace'
  BY <1>1 DEF IInv, TaskInOnePlace
<1>4. CarriedTaskFresh' /\ StoppingByOwner' /\ DrainSnapshot'
      /\ DrainWaitsForEarlierTasks' /\ ExitedWorkerMissesNothing'
  BY DEF IInv, CarriedTaskFresh, StoppingByOwner, DrainSnapshot,
     DrainWaitsForEarlierTasks, ExitedWorkerMissesNothing
<1> QED
  BY <1>2, <1>3, <1>4 DEF IInv

\* WorkerLoop: taking the front task, with its notify of space_cv_.
LEMMA WorkerTakeIInv ==
    ASSUME IInv, NEW w \in Worker, WorkerTake(w)
    PROVE  IInv'
<1> USE DEF IInv
<1>1. /\ tasks # <<>> /\ tasks' = Tail(tasks) /\ w \notin Busy /\ w \notin Running
      /\ pc' = [pc EXCEPT ![w] = "running"]
      /\ current' = [current EXCEPT ![w] = Head(tasks)]
      /\ pc[w] = "wait_task"
      /\ UNCHANGED <<stopping, task_cv, idle_cv, finished, accepted, refused, before>>
  BY DEF WorkerTake, Waiting, Busy, Running, clientVars
<1>2. w \in DOMAIN pc /\ w \in DOMAIN current /\ w \notin Client
  BY ClientAssumption DEF TypeOK
<1>3. Busy' = Busy \cup {w} /\ Running' = Running \cup {w}
  BY <1>1, <1>2 DEF Busy, Running, TypeOK
<1>4. /\ Head(tasks) \in Task /\ tasks' \in Seq(Task) /\ Len(tasks') = Len(tasks) - 1
      /\ Queued = Queued' \cup {Head(tasks)} /\ Head(tasks) \notin Queued'
      /\ NoRepeats(tasks')
  <2>1. tasks \in Seq(Task) /\ NoRepeats(tasks)
    BY DEF TaskInOnePlace, TypeOK
  <2> HIDE DEF IInv
  <2>2. QED
    BY <1>1, <2>1, TailElements DEF Queued
<1>5. ActiveWorkersExact'
  <2>1. Busy \in SUBSET Worker
    BY DEF Busy
  <2> QED
    BY <1>1, <1>3, <2>1, WorkersCounted, FS_AddElement DEF WorkerTake, ActiveWorkersExact
<1>6. active_workers' \in 0..Cardinality(Worker)
  <2>1. Busy' \in SUBSET Worker
    BY DEF Busy
  <2> QED
    BY <1>5, <2>1, WorkersCounted DEF ActiveWorkersExact
<1>7. TypeOK'
  <2>1. space_cv' \subseteq space_cv
    BY NotifyOneShrinks DEF WorkerTake
  <2> QED
    BY <1>1, <1>2, <1>4, <1>6, <2>1 DEF TypeOK, ThreadPC
<1>8. QueueBounded'
  BY <1>1, <1>4, QueueLimitAssumption DEF QueueBounded, TypeOK
<1>9. TaskInOnePlace'
  <2>1. \A v \in Running : current'[v] = current[v] /\ v # w
    BY <1>1 DEF TypeOK
  <2>2. current'[w] = Head(tasks)
    BY <1>1, <1>2
  <2>3. accepted' = Queued' \cup {current'[v] : v \in Running'} \cup finished'
    BY <1>1, <1>3, <1>4, <2>1, <2>2 DEF TaskInOnePlace
  <2>4. \A u, v \in Running' : current'[u] = current'[v] => u = v
    BY <1>3, <1>4, <2>1, <2>2 DEF TaskInOnePlace
  <2>5. \A v \in Running' : current'[v] \notin Queued' \cup finished'
    BY <1>1, <1>3, <1>4, <2>1, <2>2 DEF TaskInOnePlace
  <2> QED
    BY <1>1, <1>4, <2>3, <2>4, <2>5 DEF TaskInOnePlace
<1>10. \A c \in Client : pc'[c] = pc[c]
  BY <1>1, <1>2
<1>11. \A s \in Submitter : current'[s] = current[s] /\ pc'[s] = pc[s]
  BY <1>1, <1>2, <1>10 DEF Client
<1>12. CarriedTaskFresh'
  BY <1>1, <1>11 DEF CarriedTaskFresh
<1>13. DrainSnapshot' /\ DrainWaitsForEarlierTasks'
  BY <1>1, <1>10 DEF DrainSnapshot, DrainWaitsForEarlierTasks, Client
<1>14. \A v \in Worker : pc[v] # "exited" /\ pc'[v] # "exited"
  BY <1>1, <1>2 DEF ExitedWorkerMissesNothing, TypeOK
<1>15. StoppingByOwner' /\ ExitedWorkerMissesNothing'
  BY <1>1, <1>10, <1>14 DEF StoppingByOwner, ExitedWorkerMissesNothing, Client
<1> QED
  BY <1>5, <1>7, <1>8, <1>9, <1>12, <1>13, <1>15

\* WorkerLoop: running the task outside the lock.
LEMMA WorkerRunIInv ==
    ASSUME IInv, NEW w \in Worker, WorkerRun(w)
    PROVE  IInv'
<1> USE DEF IInv
<1>1. /\ pc[w] = "running" /\ w \in Running
      /\ pc' = [pc EXCEPT ![w] = "completing"]
      /\ finished' = finished \cup {current[w]}
      /\ UNCHANGED <<tasks, active_workers, stopping, current, task_cv, space_cv,
                     idle_cv, accepted, refused, before>>
  BY DEF WorkerRun, Running, clientVars
<1>2. w \in DOMAIN pc /\ w \notin Client /\ current[w] \in accepted
  BY <1>1, ClientAssumption DEF TypeOK, TaskInOnePlace
<1>3. Busy' = Busy /\ Running' = Running \ {w} /\ Queued' = Queued
  BY <1>1, <1>2 DEF Busy, Running, TypeOK, Queued
<1>4. TypeOK'
  BY <1>1, <1>2 DEF TypeOK, ThreadPC
<1>5. QueueBounded' /\ ActiveWorkersExact'
  BY <1>1, <1>3 DEF QueueBounded, ActiveWorkersExact
<1>6. TaskInOnePlace'
  BY <1>1, <1>3 DEF TaskInOnePlace
<1>7. \A c \in Client : pc'[c] = pc[c]
  BY <1>1, <1>2
<1>8. CarriedTaskFresh'
  BY <1>1, <1>7 DEF CarriedTaskFresh, Client
<1>9. DrainSnapshot' /\ DrainWaitsForEarlierTasks'
  BY <1>1, <1>7 DEF DrainSnapshot, DrainWaitsForEarlierTasks, Client
<1>10. \A v \in Worker : pc'[v] = "exited" <=> pc[v] = "exited"
  BY <1>1, <1>2 DEF TypeOK
<1>11. StoppingByOwner' /\ ExitedWorkerMissesNothing'
  BY <1>1, <1>7, <1>10 DEF StoppingByOwner, ExitedWorkerMissesNothing, Client
<1> QED
  BY <1>4, <1>5, <1>6, <1>8, <1>9, <1>11

\* WorkerLoop: --active_workers_ and the notify of idle_cv_.
LEMMA WorkerDoneIInv ==
    ASSUME IInv, NEW w \in Worker, WorkerDone(w)
    PROVE  IInv'
<1> USE DEF IInv
<1>1. /\ pc[w] = "completing" /\ w \in Busy /\ w \notin Running
      /\ pc' = [pc EXCEPT ![w] = "wait_task"]
      /\ current' = [current EXCEPT ![w] = NoTask]
      /\ active_workers' = active_workers - 1
      /\ idle_cv' \subseteq idle_cv
      /\ UNCHANGED <<tasks, stopping, task_cv, space_cv, finished, accepted,
                     refused, before>>
  BY DEF WorkerDone, Running, Busy, clientVars
<1>2. w \in DOMAIN pc /\ w \in DOMAIN current /\ w \notin Client
  BY ClientAssumption DEF TypeOK
<1>3. Busy' = Busy \ {w} /\ Running' = Running /\ Queued' = Queued
  BY <1>1, <1>2 DEF Busy, Running, TypeOK, Queued
<1>4. ActiveWorkersExact' /\ active_workers' \in 0..Cardinality(Worker)
  <2>1. Busy \in SUBSET Worker /\ Busy' \in SUBSET Worker
    BY DEF Busy
  <2>2. Cardinality(Busy') = Cardinality(Busy) - 1
    BY <1>1, <1>3, <2>1, WorkersCounted, FS_RemoveElement
  <2> QED
    BY <1>1, <2>1, <2>2, WorkersCounted DEF ActiveWorkersExact
<1>5. TypeOK'
  BY <1>1, <1>2, <1>4 DEF TypeOK, ThreadPC
<1>6. QueueBounded'
  BY <1>1 DEF QueueBounded
<1>7. TaskInOnePlace'
  <2>1. \A v \in Running : current'[v] = current[v]
    BY <1>1 DEF TypeOK, Running
  <2> QED
    BY <1>1, <1>3, <2>1 DEF TaskInOnePlace
<1>8. \A c \in Client : pc'[c] = pc[c]
  BY <1>1, <1>2
<1>9. \A s \in Submitter : current'[s] = current[s] /\ pc'[s] = pc[s]
  BY <1>1, <1>2, <1>8 DEF Client
<1>10. CarriedTaskFresh'
  BY <1>1, <1>9 DEF CarriedTaskFresh
<1>11. DrainSnapshot' /\ DrainWaitsForEarlierTasks'
  BY <1>1, <1>8 DEF DrainSnapshot, DrainWaitsForEarlierTasks, Client
<1>12. \A v \in Worker : pc'[v] = "exited" <=> pc[v] = "exited"
  BY <1>1, <1>2 DEF TypeOK
<1>13. StoppingByOwner' /\ ExitedWorkerMissesNothing'
  BY <1>1, <1>8, <1>12 DEF StoppingByOwner, ExitedWorkerMissesNothing, Client
<1> QED
  BY <1>4, <1>5, <1>6, <1>7, <1>10, <1>11, <1>13

\* WorkerLoop: a worker leaves only when stopping_ and nothing is queued.
LEMMA WorkerExitIInv ==
    ASSUME IInv, NEW w \in Worker, WorkerExit(w)
    PROVE  IInv'
<1> USE DEF IInv
<1>1. /\ pc[w] = "wait_task" /\ stopping /\ tasks = <<>>
      /\ pc' = [pc EXCEPT ![w] = "exited"]
      /\ UNCHANGED <<tasks, active_workers, stopping, current, task_cv, space_cv,
                     idle_cv, finished, accepted, refused, before>>
  BY DEF WorkerExit, Waiting, clientVars
<1>2. w \in DOMAIN pc /\ w \notin Client
  BY ClientAssumption DEF TypeOK
<1>3. Busy' = Busy /\ Running' = Running /\ Queued' = Queued
  BY <1>1, <1>2 DEF Busy, Running, TypeOK, Queued
<1>4. TypeOK'
  BY <1>1, <1>2 DEF TypeOK, ThreadPC
<1>5. QueueBounded' /\ ActiveWorkersExact' /\ TaskInOnePlace'
  BY <1>1, <1>3 DEF QueueBounded, ActiveWorkersExact, TaskInOnePlace
<1>6. \A c \in Client : pc'[c] = pc[c]
  BY <1>1, <1>2
<1>7. CarriedTaskFresh' /\ DrainSnapshot' /\ DrainWaitsForEarlierTasks'
  BY <1>1, <1>6 DEF CarriedTaskFresh, DrainSnapshot, DrainWaitsForEarlierTasks, Client
<1>8. \A v \in Worker : pc[v] = "exited" => pc'[v] = "exited"
  BY <1>1, <1>2 DEF TypeOK
<1>9. StoppingByOwner' /\ ExitedWorkerMissesNothing'
  BY <1>1, <1>6, <1>8 DEF StoppingByOwner, ExitedWorkerMissesNothing, Client
<1> QED
  BY <1>4, <1>5, <1>7, <1>9

-----------------------------------------------------------------------------
\* What a client's step cannot touch: the workers.
LEMMA ClientMoves ==
    ASSUME TypeOK, NEW c \in Client, NEW x,
           pc' = [pc EXCEPT ![c] = x] \/ pc' = pc
    PROVE  /\ \A w \in Worker : pc'[w] = pc[w]
           /\ Busy' = Busy /\ Running' = Running
<1>1. \A w \in Worker : pc'[w] = pc[w]
  BY ClientAssumption DEF TypeOK
<1> QED
  BY <1>1 DEF Busy, Running

\* Submit returns to its caller, from the first check or after a wait.
SubmitReturnsTo(s) ==
    \/ pc[s] = "idle" /\ UNCHANGED <<pc, current>>
    \/ pc' = [pc EXCEPT ![s] = "idle"] /\ current' = [current EXCEPT ![s] = NoTask]

\* A submitter that returns leaves workers and queue alone.
LEMMA SubmitReturnMoves ==
    ASSUME IInv, NEW s \in Submitter, SubmitReturnsTo(s)
    PROVE  /\ pc' \in [Worker \cup Client -> ThreadPC]
           /\ current' \in [Worker \cup Submitter -> Task \cup {NoTask}]
           /\ Busy' = Busy /\ Running' = Running
           /\ \A w \in Worker : pc'[w] = pc[w] /\ current'[w] = current[w]
           /\ \A d \in Drainer \cup {Owner} : pc'[d] = pc[d]
           /\ \A r \in Submitter : pc'[r] = "wait_space" =>
                  r # s /\ pc[r] = "wait_space" /\ current'[r] = current[r]
<1>1. s \in Client /\ s \notin Worker /\ s \notin Drainer \cup {Owner}
  BY ClientAssumption DEF Client
<1>2. TypeOK
  BY DEF IInv
<1>3. Busy' = Busy /\ Running' = Running
  BY <1>1, <1>2, ClientMoves DEF SubmitReturnsTo
<1>4. pc' \in [Worker \cup Client -> ThreadPC]
  BY <1>2 DEF SubmitReturnsTo, TypeOK, ThreadPC
<1>5. current' \in [Worker \cup Submitter -> Task \cup {NoTask}]
  BY <1>2 DEF SubmitReturnsTo, TypeOK
<1>6. \A w \in Worker : pc'[w] = pc[w] /\ current'[w] = current[w]
  BY <1>1, <1>2 DEF SubmitReturnsTo, TypeOK
<1>7. \A d \in Drainer \cup {Owner} : pc'[d] = pc[d]
  BY <1>1, <1>2 DEF SubmitReturnsTo, TypeOK, Client
<1>8. \A r \in Submitter : pc'[r] = "wait_space" =>
                  r # s /\ pc[r] = "wait_space" /\ current'[r] = current[r]
  BY <1>1, <1>2 DEF SubmitReturnsTo, TypeOK, Client
<1> QED
  BY <1>3, <1>4, <1>5, <1>6, <1>7, <1>8

\* Submit: push and the notify of task_cv_.
LEMMA PushIInv ==
    ASSUME IInv, NEW s \in Submitter, NEW t \in Task, Push(s, t),
           ~stopping, HasSpace, t \notin accepted, SubmitReturnsTo(s),
           \A r \in Submitter : r # s /\ pc[r] = "wait_space" => current[r] # t,
           UNCHANGED <<active_workers, stopping, space_cv, idle_cv, finished, before>>
    PROVE  IInv'
<1> USE DEF IInv
<1>1. /\ tasks' = Append(tasks, t) /\ accepted' = accepted \cup {t}
      /\ task_cv' \subseteq task_cv /\ refused' = refused
  BY NotifyOneShrinks DEF Push
<1>2. /\ pc' \in [Worker \cup Client -> ThreadPC]
      /\ current' \in [Worker \cup Submitter -> Task \cup {NoTask}]
      /\ Busy' = Busy /\ Running' = Running
      /\ \A w \in Worker : pc'[w] = pc[w] /\ current'[w] = current[w]
      /\ \A d \in Drainer \cup {Owner} : pc'[d] = pc[d]
      /\ \A r \in Submitter : pc'[r] = "wait_space" =>
             r # s /\ pc[r] = "wait_space" /\ current'[r] = current[r]
  BY SubmitReturnMoves
<1>3. /\ tasks' \in Seq(Task) /\ Len(tasks') = Len(tasks) + 1
      /\ Queued' = Queued \cup {t} /\ NoRepeats(tasks')
  <2>1. tasks \in Seq(Task) /\ NoRepeats(tasks) /\ t \notin Elements(tasks)
    BY DEF TypeOK, TaskInOnePlace, Queued
  <2> HIDE DEF IInv
  <2>2. QED
    BY <1>1, <2>1, AppendElements DEF Queued
<1>4. TypeOK'
  BY <1>1, <1>2, <1>3 DEF TypeOK
<1>5. QueueBounded'
  BY <1>3, QueueLimitAssumption DEF QueueBounded, HasSpace, TypeOK
<1>6. ActiveWorkersExact'
  BY <1>2 DEF ActiveWorkersExact
<1>7. TaskInOnePlace'
  <2>1. \A w \in Running : w \in Worker /\ current'[w] = current[w] /\ current[w] # t
    BY <1>2 DEF Running, TaskInOnePlace
  <2>2. t \notin finished
    BY DEF TaskInOnePlace
  <2>3. accepted' = Queued' \cup {current'[v] : v \in Running'} \cup finished'
    BY <1>1, <1>2, <1>3, <2>1 DEF TaskInOnePlace
  <2> QED
    BY <1>1, <1>2, <1>3, <2>1, <2>2, <2>3 DEF TaskInOnePlace
<1>8. CarriedTaskFresh'
  BY <1>1, <1>2 DEF CarriedTaskFresh
<1>9. DrainSnapshot' /\ DrainWaitsForEarlierTasks'
  BY <1>1, <1>2 DEF DrainSnapshot, DrainWaitsForEarlierTasks
<1>10. StoppingByOwner' /\ ExitedWorkerMissesNothing'
  BY <1>2 DEF StoppingByOwner, ExitedWorkerMissesNothing
<1> QED
  BY <1>4, <1>5, <1>6, <1>7, <1>8, <1>9, <1>10

\* Submit: a stopping pool drops the task.
LEMMA RefuseIInv ==
    ASSUME IInv, NEW s \in Submitter, NEW t \in Task, Refuse(s, t),
           SubmitReturnsTo(s),
           UNCHANGED <<active_workers, stopping, space_cv, idle_cv, finished, before>>
    PROVE  IInv'
<1> USE DEF IInv
<1>1. /\ UNCHANGED <<tasks, accepted, task_cv>> /\ refused' = refused \cup {t}
  BY DEF Refuse
<1>2. /\ pc' \in [Worker \cup Client -> ThreadPC]
      /\ current' \in [Worker \cup Submitter -> Task \cup {NoTask}]
      /\ Busy' = Busy /\ Running' = Running
      /\ \A w \in Worker : pc'[w] = pc[w] /\ current'[w] = current[w]
      /\ \A d \in Drainer \cup {Owner} : pc'[d] = pc[d]
      /\ \A r \in Submitter : pc'[r] = "wait_space" =>
             r # s /\ pc[r] = "wait_space" /\ current'[r] = current[r]
  BY SubmitReturnMoves
<1>3. TypeOK' /\ QueueBounded' /\ ActiveWorkersExact'
  BY <1>1, <1>2 DEF TypeOK, QueueBounded, ActiveWorkersExact
<1>4. TaskInOnePlace'
  <2>1. \A w \in Running : current'[w] = current[w]
    BY <1>2 DEF Running
  <2> QED
    BY <1>1, <1>2, <2>1 DEF TaskInOnePlace, Queued
<1>5. CarriedTaskFresh' /\ DrainSnapshot' /\ DrainWaitsForEarlierTasks'
  BY <1>1, <1>2 DEF CarriedTaskFresh, DrainSnapshot, DrainWaitsForEarlierTasks
<1>6. StoppingByOwner' /\ ExitedWorkerMissesNothing'
  BY <1>1, <1>2 DEF StoppingByOwner, ExitedWorkerMissesNothing
<1> QED
  BY <1>3, <1>4, <1>5, <1>6

\* The submitter goes to sleep with a task nobody else carries.
LEMMA BlockIInv ==
    ASSUME IInv, NEW s \in Submitter, NEW t \in Fresh,
           pc' = [pc EXCEPT ![s] = "wait_space"],
           current' = [current EXCEPT ![s] = t],
           space_cv' = space_cv \cup {s},
           UNCHANGED <<tasks, active_workers, stopping, task_cv, idle_cv, finished,
                       accepted, refused, before>>
    PROVE  IInv'
<1> USE DEF IInv
<1>1. s \in Client /\ s \notin Worker /\ s \notin Drainer \cup {Owner}
  BY ClientAssumption DEF Client
<1>2. /\ Busy' = Busy /\ Running' = Running /\ Queued' = Queued
      /\ \A w \in Worker : pc'[w] = pc[w] /\ current'[w] = current[w]
      /\ \A d \in Drainer \cup {Owner} : pc'[d] = pc[d]
  <2>1. Busy' = Busy /\ Running' = Running /\ \A w \in Worker : pc'[w] = pc[w]
    BY <1>1, ClientMoves
  <2> QED
    BY <1>1, <2>1 DEF TypeOK, Client, Queued
<1>3. /\ t \in Task /\ t \notin accepted /\ \A r \in Submitter : current[r] # t
  BY DEF Fresh
<1>4. TypeOK'
  BY <1>1, <1>3 DEF TypeOK, ThreadPC
<1>5. QueueBounded' /\ ActiveWorkersExact'
  BY <1>2 DEF QueueBounded, ActiveWorkersExact
<1>6. TaskInOnePlace'
  <2>1. \A w \in Running : current'[w] = current[w]
    BY <1>2 DEF Running
  <2> QED
    BY <1>2, <2>1 DEF TaskInOnePlace
<1>7. CarriedTaskFresh'
  <2>1. pc'[s] = "wait_space" /\ current'[s] = t
    BY <1>1 DEF TypeOK
  <2>2. \A r \in Submitter : r # s => pc'[r] = pc[r] /\ current'[r] = current[r]
    BY <1>1 DEF TypeOK, Client
  <2> QED
    BY <1>3, <2>1, <2>2 DEF CarriedTaskFresh
<1>8. DrainSnapshot' /\ DrainWaitsForEarlierTasks' /\ StoppingByOwner'
      /\ ExitedWorkerMissesNothing'
  BY <1>2 DEF DrainSnapshot, DrainWaitsForEarlierTasks, StoppingByOwner,
     ExitedWorkerMissesNothing
<1> QED
  BY <1>4, <1>5, <1>6, <1>7, <1>8

\* Submit, from its call to its return or its first wait.
LEMMA SubmitCallIInv ==
    ASSUME IInv, NEW s \in Submitter, NEW t \in Task, SubmitCall(s, t)
    PROVE  IInv'
<1>1. /\ pc[s] = "idle" /\ t \in Fresh /\ t \notin accepted
      /\ \A r \in Submitter : current[r] # t
      /\ UNCHANGED <<active_workers, stopping, idle_cv, finished, before>>
  BY DEF SubmitCall, Fresh
<1>2. CASE stopping /\ Refuse(s, t) /\ UNCHANGED <<pc, current, space_cv>>
  BY <1>1, <1>2, RefuseIInv DEF SubmitReturnsTo
<1>3. CASE ~stopping /\ HasSpace /\ Push(s, t) /\ UNCHANGED <<pc, current, space_cv>>
  BY <1>1, <1>3, PushIInv DEF SubmitReturnsTo
<1>4. CASE /\ pc' = [pc EXCEPT ![s] = "wait_space"]
           /\ current' = [current EXCEPT ![s] = t]
           /\ space_cv' = space_cv \cup {s}
           /\ UNCHANGED <<tasks, accepted, refused, task_cv>>
  BY <1>1, <1>4, BlockIInv
<1> QED
  BY <1>2, <1>3, <1>4 DEF SubmitCall

\* Submit, after a wait for space.
LEMMA SubmitResumeIInv ==
    ASSUME IInv, NEW s \in Submitter, SubmitResume(s)
    PROVE  IInv'
<1>1. /\ pc[s] = "wait_space" /\ current[s] \in Task /\ current[s] \notin accepted
      /\ \A r \in Submitter : r # s /\ pc[r] = "wait_space" => current[r] # current[s]
      /\ UNCHANGED <<active_workers, stopping, idle_cv, finished, before>>
  BY DEF SubmitResume, IInv, CarriedTaskFresh
<1>2. CASE /\ IF stopping THEN Refuse(s, current[s])
                          ELSE HasSpace /\ Push(s, current[s])
           /\ pc' = [pc EXCEPT ![s] = "idle"]
           /\ current' = [current EXCEPT ![s] = NoTask]
           /\ UNCHANGED space_cv
  <2>1. SubmitReturnsTo(s)
    BY <1>2 DEF SubmitReturnsTo
  <2>2. CASE stopping
    BY <1>1, <1>2, <2>1, <2>2, RefuseIInv
  <2>3. CASE ~stopping
    BY <1>1, <1>2, <2>1, <2>3, PushIInv
  <2> QED
    BY <2>2, <2>3
<1>3. CASE /\ space_cv' = space_cv \cup {s}
           /\ UNCHANGED <<tasks, pc, current, task_cv, accepted, refused>>
  BY <1>1, <1>3, WaitStepsKeepIInv DEF IInv, TypeOK
<1> QED
  BY <1>2, <1>3 DEF SubmitResume

-----------------------------------------------------------------------------
\* A thread in Drain or in the destructor moves on; the rest of the pool stays.
LEMMA DrainerMovesIInv ==
    ASSUME IInv, NEW d \in Drainer \cup {Owner}, NEW x \in ThreadPC,
           pc' = [pc EXCEPT ![d] = x],
           UNCHANGED <<tasks, active_workers, current, finished, accepted, refused>>,
           task_cv' \subseteq task_cv, space_cv' \subseteq space_cv, idle_cv' = idle_cv,
           stopping' \in BOOLEAN, stopping => stopping',
           before' \in [Drainer \cup {Owner} -> SUBSET Task],
           StoppingByOwner', DrainSnapshot', DrainWaitsForEarlierTasks'
    PROVE  IInv'
<1> USE DEF IInv
<1>1. d \in Client /\ d \notin Worker /\ d \notin Submitter
  BY ClientAssumption DEF Client
<1>2. /\ Busy' = Busy /\ Running' = Running /\ Queued' = Queued
      /\ \A w \in Worker : pc'[w] = pc[w]
  <2>1. Busy' = Busy /\ Running' = Running /\ \A w \in Worker : pc'[w] = pc[w]
    BY <1>1, ClientMoves
  <2> QED
    BY <2>1 DEF Queued
<1>3. \A s \in Submitter : pc'[s] = pc[s]
  BY <1>1 DEF TypeOK, Client
<1>4. TypeOK'
  BY DEF TypeOK
<1>5. QueueBounded' /\ ActiveWorkersExact' /\ TaskInOnePlace'
  BY <1>2 DEF QueueBounded, ActiveWorkersExact, TaskInOnePlace
<1>6. CarriedTaskFresh'
  BY <1>3 DEF CarriedTaskFresh
<1>7. ExitedWorkerMissesNothing'
  BY <1>2 DEF ExitedWorkerMissesNothing
<1> QED
  BY <1>4, <1>5, <1>6, <1>7

\* Drain and the destructor, from the call to the first test.
LEMMA DrainCallIInv ==
    ASSUME IInv, NEW d \in Drainer \cup {Owner}, DrainCall(d)
    PROVE  IInv'
<1>1. /\ pc[d] \in {"idle", "drained"}
      /\ pc' = [pc EXCEPT ![d] = "wait_idle"]
      /\ before' = [before EXCEPT ![d] = accepted]
      /\ UNCHANGED <<tasks, active_workers, stopping, current, task_cv, space_cv,
                     idle_cv, finished, accepted, refused>>
  BY DEF DrainCall
<1>2. TypeOK /\ d \in DOMAIN pc /\ d \in DOMAIN before /\ Owner \in DOMAIN pc
  BY DEF IInv, TypeOK, Client
<1>3. before' \in [Drainer \cup {Owner} -> SUBSET Task]
  BY <1>1, <1>2 DEF TypeOK
<1>4. DrainSnapshot' /\ DrainWaitsForEarlierTasks'
  BY <1>1, <1>2 DEF IInv, TypeOK, DrainSnapshot, DrainWaitsForEarlierTasks, Client
<1>5. StoppingByOwner'
  <2>1. \A w \in Worker : w # d /\ w \in DOMAIN pc
    BY ClientAssumption, <1>2 DEF Client, TypeOK
  <2> QED
    BY <1>1, <1>2, <2>1 DEF IInv, StoppingByOwner
<1>6. "wait_idle" \in ThreadPC
  BY DEF ThreadPC
<1> QED
  BY <1>1, <1>2, <1>3, <1>4, <1>5, <1>6, DrainerMovesIInv DEF TypeOK

\* Drain: the predicate is tested again.
LEMMA DrainCheckIInv ==
    ASSUME IInv, NEW d \in Drainer \cup {Owner}, DrainCheck(d)
    PROVE  IInv'
<1>1. /\ pc[d] = "wait_idle"
      /\ UNCHANGED <<tasks, active_workers, stopping, current, task_cv, space_cv,
                     finished, accepted, refused, before>>
  BY DEF DrainCheck, clientVars
<1>2. TypeOK /\ d \in DOMAIN pc /\ Owner \in DOMAIN pc
  BY DEF IInv, TypeOK, Client
<1>3. CASE ~Idle
  <2>1. idle_cv' \subseteq Drainer \cup {Owner} /\ UNCHANGED pc
    BY <1>3, <1>2 DEF DrainCheck, TypeOK
  <2> QED
    BY <1>1, <1>2, <2>1, WaitStepsKeepIInv DEF TypeOK
<1>4. CASE Idle
  <2> DEFINE x == IF d = Owner THEN "stopping" ELSE "drained"
  <2>1. pc' = [pc EXCEPT ![d] = x] /\ idle_cv' = idle_cv /\ x \in ThreadPC
    BY <1>4 DEF DrainCheck, ThreadPC
  <2>2. Busy = {} /\ Queued = {}
    <3>1. Busy \in SUBSET Worker
      BY DEF Busy
    <3>2. Busy = {}
      BY <1>4, <3>1, WorkersCounted, FS_EmptySet DEF Idle, IInv, ActiveWorkersExact
    <3> QED
      BY <1>4, <3>2 DEF Idle, Queued, Elements
  <2>3. accepted = finished
    <3>1. Running = {}
      BY <2>2 DEF Busy, Running
    <3> QED
      BY <2>2, <3>1 DEF IInv, TaskInOnePlace
  <2>4. DrainSnapshot' /\ DrainWaitsForEarlierTasks'
    BY <1>1, <1>2, <2>1, <2>3
    DEF IInv, TypeOK, DrainSnapshot, DrainWaitsForEarlierTasks, Client
  <2>5. StoppingByOwner'
    <3>1. \A w \in Worker : w # d /\ w \in DOMAIN pc
      BY ClientAssumption, <1>2 DEF Client, TypeOK
    <3> QED
      BY <1>1, <1>2, <2>1, <3>1 DEF IInv, StoppingByOwner
  <2> HIDE DEF x
  <2> QED
    BY <1>1, <1>2, <2>1, <2>4, <2>5, DrainerMovesIInv DEF TypeOK
<1> QED
  BY <1>3, <1>4

\* The destructor: stopping_, the two notifications, the joins.
LEMMA OwnerStepIInv ==
    ASSUME IInv, OwnerStep
    PROVE  IInv'
<1>1. TypeOK /\ Owner \in DOMAIN pc /\ \A w \in Worker : w # Owner /\ w \in DOMAIN pc
  BY ClientAssumption DEF IInv, TypeOK, Client
<1>2. PICK x \in {"notify_task", "notify_space", "join", "destroyed"} :
        /\ pc' = [pc EXCEPT ![Owner] = x]
        /\ x = "destroyed" => \A w \in Worker : pc[w] = "exited"
        /\ stopping' = TRUE
        /\ pc[Owner] \in {"stopping", "notify_task", "notify_space", "join"}
        /\ task_cv' \subseteq task_cv /\ space_cv' \subseteq space_cv
        /\ UNCHANGED <<tasks, active_workers, current, idle_cv, finished,
                       accepted, refused, before>>
  <2>1. CASE SetStopping
    BY <2>1 DEF SetStopping, clientVars
  <2>2. CASE NotifyTask
    BY <2>2 DEF NotifyTask, clientVars, IInv, StoppingByOwner
  <2>3. CASE NotifySpace
    BY <2>3 DEF NotifySpace, clientVars, IInv, StoppingByOwner
  <2>4. CASE Join
    BY <2>4 DEF Join, clientVars, IInv, StoppingByOwner
  <2> QED
    BY <2>1, <2>2, <2>3, <2>4 DEF OwnerStep
<1>3. StoppingByOwner'
  BY <1>1, <1>2 DEF StoppingByOwner
<1>4. DrainSnapshot' /\ DrainWaitsForEarlierTasks'
  BY <1>1, <1>2 DEF IInv, TypeOK, DrainSnapshot, DrainWaitsForEarlierTasks, Client
<1>5. x \in ThreadPC
  BY DEF ThreadPC
<1> QED
  BY <1>1, <1>2, <1>3, <1>4, <1>5, DrainerMovesIInv DEF TypeOK

-----------------------------------------------------------------------------
\* Every step of the pool keeps the inductive invariant.
LEMMA NextIInv == IInv /\ [Next]_vars => IInv'
<1> SUFFICES ASSUME IInv, [Next]_vars PROVE IInv'
  OBVIOUS
<1>1. TypeOK
  BY DEF IInv
<1>2. CASE UNCHANGED vars
  BY <1>1, <1>2, WaitStepsKeepIInv DEF vars, TypeOK
<1>3. ASSUME NEW w \in Worker, WorkerStep(w) PROVE IInv'
  <2>1. CASE WorkerWait(w)
    BY <1>1, <2>1, WaitStepsKeepIInv DEF WorkerWait, clientVars, TypeOK
  <2> QED
    BY <1>3, <2>1, WorkerExitIInv, WorkerTakeIInv, WorkerRunIInv, WorkerDoneIInv
    DEF WorkerStep
<1>4. ASSUME NEW t \in Worker \cup Client, SpuriousWake(t) PROVE IInv'
  BY <1>1, <1>4, WaitStepsKeepIInv DEF SpuriousWake, clientVars, TypeOK
<1>5. CASE Terminated
  BY <1>2, <1>5 DEF Terminated
<1> QED
  BY <1>2, <1>3, <1>4, <1>5, SubmitCallIInv, SubmitResumeIInv, DrainCallIInv,
     DrainCheckIInv, OwnerStepIInv
  DEF Next

\* The inductive invariant holds in every reachable state of the thread pool.
THEOREM PoolInvariant == Spec => []IInv
BY InitIInv, NextIInv, PTL DEF Spec

\* The counter active_workers_ and every other variable keep their types,
\* whatever the number of workers and the queue limit.
THEOREM PoolTypeCorrect == Spec => []TypeOK
<1>1. IInv => TypeOK
  BY DEF IInv
<1> QED
  BY <1>1, PoolInvariant, PTL

\* Submit never overruns max_queued_tasks_.
THEOREM PoolQueueBounded == Spec => []QueueBounded
<1>1. IInv => QueueBounded
  BY DEF IInv
<1> QED
  BY <1>1, PoolInvariant, PTL

\* No task is lost or run twice.
THEOREM PoolTaskInOnePlace == Spec => []TaskInOnePlace
<1>1. IInv => TaskInOnePlace
  BY DEF IInv
<1> QED
  BY <1>1, PoolInvariant, PTL

\* Drain returns only when the tasks submitted before it have ended.
THEOREM PoolDrainWaits == Spec => []DrainWaitsForEarlierTasks
<1>1. IInv => DrainWaitsForEarlierTasks
  BY DEF IInv
<1> QED
  BY <1>1, PoolInvariant, PTL

\* The destructor returns only when every accepted task has ended.
THEOREM PoolDestructorRunsEverything == Spec => []DestructorRunsEverything
<1>1. IInv => DestructorRunsEverything
  <2> SUFFICES ASSUME IInv, pc[Owner] = "destroyed"
               PROVE  finished = accepted /\ tasks = <<>>
    BY DEF DestructorRunsEverything
  <2>1. \A w \in Worker : pc[w] = "exited"
    BY DEF IInv, StoppingByOwner
  <2>2. tasks = <<>> /\ Running = {}
    BY <2>1, WorkerAssumption DEF IInv, ExitedWorkerMissesNothing, Running
  <2>3. Queued = {}
    BY <2>2 DEF Queued, Elements
  <2> QED
    BY <2>2, <2>3 DEF IInv, TaskInOnePlace
<1> QED
  BY <1>1, PoolInvariant, PTL

-----------------------------------------------------------------------------
(* Refinement: each step of the pool is a step of the contract or none. *)

held == {current[w] : w \in Running}

\* A step that moves no task and leaves stopping_ alone is a stutter.
LEMMA StepsThatMoveNoTask ==
    ASSUME UNCHANGED <<tasks, finished, stopping>>, held' = held
    PROVE  UNCHANGED Contract!vars
BY DEF Contract!vars, held

\* WorkerTake is the contract's Start.
LEMMA TakeIsStart ==
    ASSUME IInv, NEW w \in Worker, WorkerTake(w)
    PROVE  Contract!Start
<1>1. /\ w \notin Running /\ w \in DOMAIN current /\ w \in DOMAIN pc /\ tasks # <<>>
      /\ current' = [current EXCEPT ![w] = Head(tasks)]
      /\ pc' = [pc EXCEPT ![w] = "running"]
      /\ tasks' = Tail(tasks) /\ UNCHANGED <<finished, stopping>>
  BY DEF WorkerTake, Waiting, Running, IInv, TypeOK
<1>2. Running' = Running \cup {w}
  BY <1>1 DEF Running, IInv, TypeOK
<1>3. held' = held \cup {Head(tasks)}
  <2>1. \A v \in Running : current'[v] = current[v]
    BY <1>1 DEF IInv, TypeOK
  <2>2. current'[w] = Head(tasks)
    BY <1>1
  <2> QED
    BY <1>2, <2>1, <2>2 DEF held
<1>4. Cardinality(held) < Cardinality(Worker)
  <2>1. Running \in SUBSET (Worker \ {w})
    BY <1>1 DEF Running
  <2>2. IsFiniteSet(Worker \ {w}) /\ Cardinality(Worker \ {w}) = Cardinality(Worker) - 1
    BY WorkerAssumption, FS_RemoveElement
  <2>3. IsFiniteSet(Running) /\ Cardinality(Running) <= Cardinality(Worker \ {w})
    BY <2>1, <2>2, FS_Subset
  <2>4. [v \in Running |-> current[v]] \in Surjection(Running, held)
    BY DEF Surjection, held
  <2>5. IsFiniteSet(held) /\ Cardinality(held) <= Cardinality(Running)
    BY <2>3, <2>4, FS_Surjection
  <2>6. Cardinality(held) \in Nat /\ Cardinality(Running) \in Nat /\ Cardinality(Worker) \in Nat
    BY <2>3, <2>5, WorkerAssumption, FS_CardinalityType
  <2> QED
    BY <2>2, <2>3, <2>5, <2>6
<1>5. /\ Cardinality({current[v] : v \in Running}) < Cardinality(Worker)
      /\ {current'[v] : v \in Running'} = {current[v] : v \in Running} \cup {Head(tasks)}
  BY <1>3, <1>4 DEF held
<1> QED
  BY <1>1, <1>5 DEF Contract!Start, Contract!Cardinality, Cardinality

\* WorkerRun is the contract's End.
LEMMA RunIsEnd ==
    ASSUME IInv, NEW w \in Worker, WorkerRun(w)
    PROVE  \E t \in Task : Contract!End(t)
<1>1. /\ w \in Running /\ w \in DOMAIN pc /\ pc' = [pc EXCEPT ![w] = "completing"]
      /\ finished' = finished \cup {current[w]}
      /\ UNCHANGED <<tasks, current, stopping>>
  BY DEF WorkerRun, Running, IInv, TypeOK
<1>2. Running' = Running \ {w}
  BY <1>1 DEF Running, IInv, TypeOK
<1>3. current[w] \in Task /\ current[w] \in held /\ held' = held \ {current[w]}
  BY <1>1, <1>2 DEF held, IInv, TaskInOnePlace, TypeOK
<1> QED
  BY <1>1, <1>3 DEF Contract!End, held

\* Push is the contract's Accept.
LEMMA PushIsAccept ==
    ASSUME IInv, NEW s \in Submitter, NEW t \in Task, Push(s, t), ~stopping,
           t \notin accepted, SubmitReturnsTo(s), UNCHANGED <<stopping, finished>>
    PROVE  Contract!Accept(t)
<1>1. held' = held
  <2>1. Running' = Running /\ \A w \in Worker : current'[w] = current[w]
    BY SubmitReturnMoves
  <2> QED
    BY <2>1 DEF held, Running
<1>2. t \notin Queued \cup held \cup finished
  BY DEF IInv, TaskInOnePlace, held
<1> QED
  BY <1>1, <1>2 DEF Contract!Accept, Contract!Queued, Push, held, Queued, Elements

\* Every step of a submitter is an Accept or a stutter.
LEMMA SubmitSteps ==
    ASSUME IInv, NEW s \in Submitter,
           SubmitResume(s) \/ \E t \in Task : SubmitCall(s, t)
    PROVE  (\E t \in Task : Contract!Accept(t)) \/ UNCHANGED Contract!vars
<1>1. ASSUME NEW t \in Task, Push(s, t), ~stopping, t \notin accepted,
             SubmitReturnsTo(s), UNCHANGED <<stopping, finished>>
      PROVE  \E u \in Task : Contract!Accept(u)
  BY <1>1, PushIsAccept
<1>2. ASSUME SubmitReturnsTo(s), UNCHANGED <<tasks, stopping, finished>>
      PROVE  UNCHANGED Contract!vars
  <2>1. Running' = Running /\ \A w \in Worker : current'[w] = current[w]
    BY <1>2, SubmitReturnMoves
  <2>2. held' = held
    BY <2>1 DEF held, Running
  <2> QED
    BY <1>2, <2>2, StepsThatMoveNoTask
<1>3. ASSUME NEW t \in Task, SubmitCall(s, t)
      PROVE  (\E u \in Task : Contract!Accept(u)) \/ UNCHANGED Contract!vars
  <2>1. pc[s] = "idle" /\ t \notin accepted /\ UNCHANGED <<stopping, finished>>
    BY <1>3 DEF SubmitCall, Fresh
  <2>2. CASE stopping /\ Refuse(s, t) /\ UNCHANGED <<pc, current, space_cv>>
    BY <1>2, <2>1, <2>2 DEF Refuse, SubmitReturnsTo
  <2>3. CASE ~stopping /\ HasSpace /\ Push(s, t) /\ UNCHANGED <<pc, current, space_cv>>
    BY <1>1, <2>1, <2>3 DEF SubmitReturnsTo
  <2>4. CASE /\ pc' = [pc EXCEPT ![s] = "wait_space"]
             /\ current' = [current EXCEPT ![s] = t]
             /\ UNCHANGED tasks
    <3>1. s \in Client /\ s \notin Worker /\ TypeOK
      BY ClientAssumption DEF Client, IInv
    <3>2. Running' = Running
      BY <2>4, <3>1, ClientMoves
    <3>3. \A w \in Worker : current'[w] = current[w]
      BY <2>4, <3>1 DEF TypeOK
    <3>4. held' = held
      BY <3>2, <3>3 DEF held, Running
    <3> QED
      BY <2>1, <2>4, <3>4, StepsThatMoveNoTask
  <2> QED
    BY <1>3, <2>2, <2>3, <2>4 DEF SubmitCall
<1>4. ASSUME SubmitResume(s)
      PROVE  (\E u \in Task : Contract!Accept(u)) \/ UNCHANGED Contract!vars
  <2>1. /\ current[s] \in Task /\ current[s] \notin accepted
        /\ UNCHANGED <<stopping, finished>>
    BY <1>4 DEF SubmitResume, IInv, CarriedTaskFresh
  <2>2. CASE /\ IF stopping THEN Refuse(s, current[s])
                            ELSE HasSpace /\ Push(s, current[s])
             /\ pc' = [pc EXCEPT ![s] = "idle"]
             /\ current' = [current EXCEPT ![s] = NoTask]
    <3>1. SubmitReturnsTo(s)
      BY <2>2 DEF SubmitReturnsTo
    <3>2. CASE stopping
      BY <1>2, <2>1, <2>2, <3>1, <3>2 DEF Refuse
    <3>3. CASE ~stopping
      BY <1>1, <2>1, <2>2, <3>1, <3>3
    <3> QED
      BY <3>2, <3>3
  <2>3. CASE UNCHANGED <<tasks, pc, current>>
    BY <2>1, <2>3, StepsThatMoveNoTask DEF held, Running
  <2> QED
    BY <1>4, <2>2, <2>3 DEF SubmitResume
<1> QED
  BY <1>3, <1>4

\* Every step of a worker is a Start, an End or a stutter.
LEMMA WorkerSteps ==
    ASSUME IInv, NEW w \in Worker, WorkerStep(w)
    PROVE  \/ Contract!Start
           \/ \E t \in Task : Contract!End(t)
           \/ UNCHANGED Contract!vars
<1>1. TypeOK /\ w \in DOMAIN pc /\ w \in DOMAIN current
  BY DEF IInv, TypeOK
<1>2. CASE WorkerWait(w)
  BY <1>2, StepsThatMoveNoTask DEF WorkerWait, held, Running
<1>3. CASE WorkerExit(w)
  <2>1. Running' = Running
    BY <1>1, <1>3 DEF WorkerExit, Waiting, Running, TypeOK
  <2> QED
    BY <1>3, <2>1, StepsThatMoveNoTask DEF WorkerExit, held
<1>4. CASE WorkerDone(w)
  <2>1. Running' = Running /\ w \notin Running
    BY <1>1, <1>4 DEF WorkerDone, Running, TypeOK
  <2>2. \A v \in Running : current'[v] = current[v]
    BY <1>1, <1>4, <2>1 DEF WorkerDone, TypeOK
  <2>3. held' = held
    BY <2>1, <2>2 DEF held
  <2> QED
    BY <1>4, <2>3, StepsThatMoveNoTask DEF WorkerDone
<1>5. CASE WorkerTake(w)
  BY <1>5, TakeIsStart
<1>6. CASE WorkerRun(w)
  BY <1>6, RunIsEnd
<1> QED
  BY <1>2, <1>3, <1>4, <1>5, <1>6 DEF WorkerStep

\* Every step of a drainer or the owner is a Close or a stutter.
LEMMA DrainerSteps ==
    ASSUME IInv,
           \/ \E d \in Drainer \cup {Owner} : DrainCall(d) \/ DrainCheck(d)
           \/ OwnerStep
    PROVE  Contract!Close \/ UNCHANGED Contract!vars
<1>1. PICK d \in Drainer \cup {Owner}, x \in ThreadPC :
        pc' = [pc EXCEPT ![d] = x] \/ pc' = pc
  BY DEF DrainCall, DrainCheck, OwnerStep, SetStopping, NotifyTask, NotifySpace,
     Join, ThreadPC
<1>2. Running' = Running
  BY <1>1, ClientMoves DEF IInv, Client
<1>3. UNCHANGED <<tasks, finished, current>>
  BY DEF DrainCall, DrainCheck, OwnerStep, SetStopping, NotifyTask, NotifySpace, Join
<1>4. held' = held
  BY <1>2, <1>3 DEF held
<1>5. CASE SetStopping
  <2>1. ~stopping /\ stopping'
    BY <1>5 DEF SetStopping, IInv, StoppingByOwner
  <2> QED
    BY <1>3, <1>4, <2>1, <1>5 DEF Contract!Close, held, SetStopping
<1>6. CASE ~SetStopping
  <2>1. stopping' = stopping
    BY <1>6 DEF DrainCall, DrainCheck, OwnerStep, NotifyTask, NotifySpace, Join
  <2> QED
    BY <1>3, <1>4, <2>1, StepsThatMoveNoTask
<1> QED
  BY <1>5, <1>6

\* The thread pool implements the executor contract.
THEOREM PoolImplementsContract == Spec => ImplementsContract
<1>1. Init => Contract!Init
  <2> SUFFICES ASSUME Init PROVE Contract!Init
    OBVIOUS
  <2>1. Running = {}
    BY ClientAssumption DEF Init, Running, Client
  <2> QED
    BY <2>1 DEF Init, Contract!Init
<1>2. IInv /\ [Next]_vars => [Contract!Next]_Contract!vars
  <2> SUFFICES ASSUME IInv, [Next]_vars
               PROVE  Contract!Next \/ UNCHANGED Contract!vars
    OBVIOUS
  <2>1. CASE UNCHANGED vars
    BY <2>1, StepsThatMoveNoTask DEF vars, held, Running
  <2>2. ASSUME NEW t \in Worker \cup Client, SpuriousWake(t)
        PROVE  UNCHANGED Contract!vars
    BY <2>2, StepsThatMoveNoTask DEF SpuriousWake, held, Running
  <2>3. CASE Terminated
    BY <2>1, <2>3 DEF Terminated
  <2> QED
    BY <2>1, <2>2, <2>3, WorkerSteps, SubmitSteps, DrainerSteps
    DEF Next, Contract!Next
<1> QED
  BY <1>1, <1>2, PoolInvariant, PTL DEF Spec, Contract!Spec, ImplementsContract


=============================================================================
