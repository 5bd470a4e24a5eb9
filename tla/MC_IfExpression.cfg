CONSTANTS
    Spellings <- MCSpellings
    Inputs <- MCInputs
SPECIFICATION FairSpec
CHECK_DEADLOCK FALSE
INVARIANTS
    TypeOK
    AgreesWithC
    NoUnderflow
    StackRoom
PROPERTIES
    Ends
