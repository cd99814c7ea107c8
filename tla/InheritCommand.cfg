SPECIFICATION Spec
CONSTANTS
    None <- MCNone
    Databases <- MCThreeGenerations
INVARIANT
    CommandsInherited
CHECK_DEADLOCK FALSE
