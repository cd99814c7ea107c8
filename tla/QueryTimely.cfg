SPECIFICATION Spec
CONSTANTS
    MaxQueries = 3
    CommandLength = 1
    DataLengths <- MCDataLengths
    StrayValues <- MCStrayValues
    Faults = {"absent", "truncate"}
INVARIANTS
    TypeOK
    AnswersOwnQuery
PROPERTY
    ImplementsTransport
CHECK_DEADLOCK FALSE
