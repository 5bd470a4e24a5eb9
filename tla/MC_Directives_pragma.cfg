CONSTANTS
    Names = {"A", "G"}
    Headers <- MCHeaders
    Documents <- PragmaDocuments
    Endless = {}
    MaxIncludes = 6
SPECIFICATION FairSpec
CHECK_DEADLOCK FALSE
PROPERTIES
    Ends
