\* The two threads of the server: wait_for_tasks(1).
CONSTANTS
    Delay = 1
    MaxTasks = 5
SPECIFICATION FairSpec
INVARIANTS OnceInOrder OversleptOnlyAfterStaleRead
PROPERTY EveryTaskRuns
