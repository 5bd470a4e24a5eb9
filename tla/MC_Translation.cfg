CONSTANTS
    Programs <- MCPrograms
    STACK_FRAMES = 12
    MAX_TOKENS = 60
SPECIFICATION Translations
INVARIANTS TypeOK AgreesWithC AgreesWithGrammar EndsNest
PROPERTIES NothingSkipped Ends
