\* Lab 5: the shell's fork_demo and thread_demo, with up to two tasks from the
\* shell; fork is masked and nothing calls kill or exec.
SPECIFICATION FairSpec
CONSTANTS
    Tasks = {t0, t1, t2, t3}
    Shell = t0
    MaskedFork = TRUE
    ExecState = "RUNNING"
    ShellTasks = 2
    ShellJobs = {"fork_demo", "thread_demo"}
    Kill = FALSE
    NULL = NULL
INVARIANTS
    SoundWhenMasked
PROPERTIES
    EveryTaskGetsItsTurn
