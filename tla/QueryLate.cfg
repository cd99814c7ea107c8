SPECIFICATION Spec
CONSTANTS
    MaxQueries = 1
    CommandLength = 1
    DataLengths <- MCDataLengths
    StrayValues <- MCStrayValues
    Faults = {"late"}
PROPERTY
    TimeoutMeansSilence
CHECK_DEADLOCK FALSE
