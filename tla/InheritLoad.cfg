SPECIFICATION CommandsSpec
CONSTANTS
    None <- MCNone
    Databases <- MCAllDatabases
    Invocations <- MCInvocations
    FamilyDictionary <- MCFamilies
INVARIANTS
    MergedByPrecedence
    CommandsAreNearest
    CommandsTypeOK
    OfflineStaysOffline
    LogAligned
PROPERTIES
    HigherPriorityStays
    LoadingEnds
    CommandReturns
CHECK_DEADLOCK FALSE
