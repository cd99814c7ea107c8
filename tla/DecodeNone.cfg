SPECIFICATION Spec
CONSTANTS
    Jobs <- MCNoneJobs
    Expressions <- MCExpressions
    WordBits <- MCWordBits
    StrayShifts <- MCStrayShifts
    StrayWords <- MCStrayWords
    Tables <- MCTables
INVARIANT LevelsAsDocumented
CHECK_DEADLOCK FALSE
