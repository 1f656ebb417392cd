SPECIFICATION FairSpec
CONSTANTS
    Letters = {"a", "b"}
    Erase = "DEL"
    Newline = "LF"
    NUL = "NUL"
    Space = "SP"
    Back = "BS"
    Return = "CR"
    BUFFER_SIZE = 3
    LineSize = 2
    MaxTyped = 3
CHECK_DEADLOCK FALSE
INVARIANTS
    LinesSound
    EchoSound
PROPERTIES
    LinesReturn
