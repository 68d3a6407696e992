SPECIFICATION Spec
CONSTANTS
    FileSystems <- Disks
    Objects <- Pool
    MaxOutputs = 3
    OutputDirs <- Dirs
    CacheDir <- Cache
    Dest <- Final
    Actions = {"move", "copy", "leave"}
    MaxLinks = 2
INVARIANTS IInv Delivered NothingLost CleanedUp
PROPERTIES OthersKept
\* The run ends.
CHECK_DEADLOCK FALSE
