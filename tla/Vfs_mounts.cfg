SPECIFICATION Spec
CONSTANTS
    Slash = "/"
    Dot = "."
    t1 = t1
    t2 = t2
    Tasks <- MCTasks
    FirstTask = t1
    Archive <- TwoFiles
    InitramfsName <- InitramfsIs
    MAX_DIR_ENTRY = 3
    MAX_FD = 1
    OpenPaths <- OpenMissing
    MkdirPaths <- MkdirMounted
    MountTargets <- Targets
    ChdirPaths = {}
    MaxVnodes = 8
    MaxMounts = 3
    MaxCwd = 2
    Creat = {FALSE}
    Filesystems = {"initramfs", "tmpfs"}
CHECK_DEADLOCK FALSE
INVARIANTS
    ArchiveComplete
