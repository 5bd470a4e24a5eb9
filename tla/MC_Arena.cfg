CONSTANTS
    ArenaCapacity = 44
    Sizes = {1, 7, 8, 9, 16}
SPECIFICATION Spec
CHECK_DEADLOCK FALSE
INVARIANTS
    TypeOK
    BlocksInBounds
    BlocksDisjoint
