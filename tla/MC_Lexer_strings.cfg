CONSTANTS
    Characters <- MCCharacters
    Letters <- MCLetters
    Keywords <- MCKeywords
    Directives <- MCDirectives
    DIRECTIVE_INCLUDE <- MCInclude
    DIRECTIVE_DEFINE <- MCDefine
    Programs <- Backslashes
    MAX_LEXEME_LENGTH = 12
    ULONG = 128
SPECIFICATION Spec
CHECK_DEADLOCK FALSE
INVARIANTS
    StringsEndAtTheirQuote
