\* Two workers, two submitters that overrun a queue of one task, one thread
\* that drains and one that destroys the pool; fair threads.
CONSTANTS
    Worker = {w1, w2}
    Submitter = {s1, s2}
    Drainer = {d1}
    Owner = owner
    Task = {t1, t2, t3}
    NoTask = NoTask
    max_queued_tasks = 1
SPECIFICATION FairSpec
INVARIANTS
    DestructorRunsEverything
    IInv
PROPERTIES
    ImplementsContract
    EveryTaskRuns
    SubmitReturns
    DrainReturns
    DestructorReturns
