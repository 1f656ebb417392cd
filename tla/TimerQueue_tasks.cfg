SPECIFICATION FairSpec
CONSTANTS
    Ids = {1, 2, 3, 4}
    Delays = {1, 2}
    Demos = {1}
    TASK_MAX_SIZE = 3
    TvalRange = 3
    MaxNow = 1
    MaxDepth = 3
CHECK_DEADLOCK FALSE
INVARIANTS
    QueuesSound
    NotBeforeDue
PROPERTIES
    SetTasksRun
