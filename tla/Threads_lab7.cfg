SPECIFICATION Spec
CONSTANTS
    Tasks = {t0, t1, t2, t3}
    Shell = t0
    MaskedFork = FALSE
    ExecState = "PENDING"
    ShellTasks = 1
    ShellJobs = {"fork_demo", "thread_demo", "exec"}
    Kill = TRUE
    NULL = NULL
SYMMETRY MCSymmetry
INVARIANTS
    NextLeadsHome
    OnlyOverlapLosesTasks
    OnlyStaleChoiceRevives
    StacksFreedOnce
    OnlyUnreadyGoesWild
CHECK_DEADLOCK FALSE
