SPECIFICATION FairSpec
CONSTANTS
    Known <- MCKnown
    Families <- MCFamilies
    Modules <- MCModules
    Records <- MCRecords
    Units <- MCUnits
    Cars <- MCCars
    StrayFlags <- MCStrayFlags
    Iterations = 2
    Faults = {"timeout", "failure"}
INVARIANTS
    TypeOK
    FlagsDescribeFound
    BestMatchWins
    EveryUnitReported
PROPERTY
    CommandEnds
CHECK_DEADLOCK FALSE
