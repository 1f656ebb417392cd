\* A task may end while others wait for nothing: all tasks dead is no error.
SPECIFICATION FairSignalSpec
CONSTANTS
    Tasks = {t1, t2}
    First = t1
    NSIG = 3
    Kills <- TwoSignals
    Handled = {2}
    Execs = {t1}
CHECK_DEADLOCK FALSE
INVARIANTS
    ReturnsToProgram
    OnlyShiftOrTearMixesSignals
PROPERTIES
    SignalsGetThrough
