CONSTANTS
    Names = {"A", "G"}
    Headers <- MCHeaders
    Documents <- ThreeElifs
    Endless <- MCEndless
    MaxIncludes = 6
SPECIFICATION Spec
CHECK_DEADLOCK FALSE
PROPERTIES
    OneGroupKept
