SPECIFICATION Spec
CONSTANTS
    Known <- MCKnown
    Families <- MCFamilies
    Modules <- MCModules
    Records <- MCRecords
    Units <- MCUnits
    Cars <- MCCars
    StrayFlags <- MCStrayFlags
    Iterations = 1
    Faults = {}
INVARIANT
    FoundAtProbedAddress
CHECK_DEADLOCK FALSE
