CONSTANTS
    Characters <- MCCharacters
    Letters <- MCLetters
    Keywords <- MCKeywords
    Directives <- MCDirectives
    DIRECTIVE_INCLUDE <- MCInclude
    DIRECTIVE_DEFINE <- MCDefine
    Programs <- MCPrograms
    MAX_LEXEME_LENGTH = 5
    ULONG = 128
SPECIFICATION FairSpec
CHECK_DEADLOCK FALSE
INVARIANTS
    TypeOK
    InBounds
    AgreesWithC
PROPERTIES
    Ends
