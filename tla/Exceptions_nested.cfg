SPECIFICATION Spec
CONSTANTS
    Tasks = {t0, t1, t2}
    Shell = t0
    MaxFrames = 2
SYMMETRY ProgramsAlike
CHECK_DEADLOCK FALSE
INVARIANTS
    ComesHome
    StacksSound
    HandlerUndisturbed
PROPERTIES
    FramesUntouched
