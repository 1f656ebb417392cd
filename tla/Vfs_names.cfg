SPECIFICATION Spec
CONSTANTS
    Slash = "/"
    Dot = "."
    t1 = t1
    t2 = t2
    Tasks <- MCTasks
    FirstTask = t1
    Archive <- OneFile
    InitramfsName <- InitramfsIs
    MAX_DIR_ENTRY = 2
    MAX_FD = 1
    OpenPaths <- OpenNames
    MkdirPaths <- MkdirNames
    MountTargets <- Targets
    ChdirPaths <- ChdirNames
    MaxVnodes = 7
    MaxMounts = 2
    MaxCwd = 2
    Creat = {TRUE, FALSE}
    Filesystems = {"tmpfs"}
CHECK_DEADLOCK FALSE
INVARIANTS
    TreeSound
    NoTwoFilesOneName
    PathsSound
    ResolvesShallow
PROPERTIES
    ChildInherits
