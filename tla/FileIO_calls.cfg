SPECIFICATION Spec
CONSTANTS
    t1 = t1
    t2 = t2
    x = x
    y = y
    a = a
    Tasks <- Two
    FirstTask = t1
    MAX_FD = 1
    MAX_FILE_SIZE = 2
    SizeMod = 8
    Bytes <- TwoBytes
    Counts = {1, 2}
    Offsets <- MCOffsets
    Program <- MCProgram
    Objs = {1, 2}
    Nodes = {"tmpfs"}
    Execs <- One
SYMMETRY BytesAlike
CHECK_DEADLOCK FALSE
INVARIANTS
    FileSound
    EachDescriptorItsOwnFile
PROPERTIES
    ReadsAreSound
    PositionsMoveAlone
    BytesKept
