CONSTANTS
    Names = {"A", "G"}
    Headers <- MCHeaders
    Documents <- MCDocuments
    Endless <- MCEndless
    MaxIncludes = 6
SPECIFICATION FairSpec
CHECK_DEADLOCK FALSE
INVARIANTS
    TypeOK
    NoCrash
    AgreesWithC
PROPERTIES
    Ends
    TextIsNotRemoved
    OneGroupKept
    ImplementsC
