CONSTANTS
    Names = {"A", "G"}
    Headers <- OpenHeaders
    Documents <- OpenDocuments
    Endless <- MCEndless
    MaxIncludes = 6
SPECIFICATION Spec
CHECK_DEADLOCK FALSE
PROPERTIES
    TextIsNotRemoved
