CONSTANTS
    k1 = k1
    k2 = k2
    Keys = {k1, k2}
    Bodies = {b1, b2}
    NULL = NULL
    Capacity = 3
    Hash <- MCHash
    TableSize = 8
    MacroSize = 16
SPECIFICATION Spec
INVARIANTS
    TypeOK
    NeverOutOfMemory
    EntriesPointAtMacros
    OneSlotPerMacro
PROPERTIES
    ImplementsEnvironment
