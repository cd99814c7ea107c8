SPECIFICATION Spec
CONSTANTS
    Disks <- MCEcuDisks
    MaxLoads = 2
    LargestIndex = 7
INVARIANT
    PartNumbersMatchDisk
CHECK_DEADLOCK FALSE
