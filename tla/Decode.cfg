SPECIFICATION ReportSpec
CONSTANTS
    Jobs <- ReportJobs
    Expressions <- ReportExpressions
    WordBits <- MCWordBits
    StrayShifts <- MCStrayShifts
    StrayWords <- MCStrayWords
    Tables <- MCTables
    Tasks <- MCTasks
    Documents <- MCDocuments
    Paths <- MCPaths
    Responses <- MCResponses
    CharOf <- MCCharOf
    RightMargin <- MCRightMargin
    IntBits <- MCIntBits
    LargestBits <- MCLargestBits
INVARIANTS
    TypeOK
    FramesChecked
    
    RpnMeansInfix
    OutcomeExplained
    GrammarAccepted
    TextsDecoded
    WrittenReadsBack
    
    ClientFindsResults
    ResultsPlaced
    OneError
PROPERTIES
    ReaderProgress
CHECK_DEADLOCK FALSE
