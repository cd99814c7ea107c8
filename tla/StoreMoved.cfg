SPECIFICATION Spec
CONSTANTS
    Disks <- MCEcuDisks
    MaxLoads = 2
    LargestIndex = 7
INVARIANT
    SoundFilesLoad
CHECK_DEADLOCK FALSE
