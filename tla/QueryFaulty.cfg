SPECIFICATION FairSpec
CONSTANTS
    MaxQueries = 2
    CommandLength = 1
    DataLengths = {1}
    StrayValues = {0}
    Faults = {"late", "garble", "hangup"}
INVARIANTS
    WrongOnlyAfterLoss
    QuietBetweenQueries
    WaitIsBounded
PROPERTY
    QueryEnds
CHECK_DEADLOCK FALSE
