SPECIFICATION FairSpec
CONSTANTS
    Disks <- MCDisks
    MaxLoads = 3
    LargestIndex = 7
INVARIANTS
    TypeOK
    NoOrphans
    AtMostOneLost
    CompletedMatchesDisk
    IndexesStored
PROPERTIES
    ImplementsCatalogue
    LoadEnds
CHECK_DEADLOCK FALSE
