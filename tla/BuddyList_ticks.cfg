SPECIFICATION ListsSpec
CONSTANTS
    MaxOrder = 2
    NumPages = 8
    Pow <- MCPow
    Threads = {t1, t2}
    MaxCuts = 3
    CutsAtCall = 0
    Ranges <- WholeBlock
CHECK_DEADLOCK FALSE
SYMMETRY ThreadsAlike
INVARIANTS
    ListsSound
PROPERTIES
    ListsPromise
