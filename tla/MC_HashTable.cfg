CONSTANTS
    k1 = k1
    k2 = k2
    k3 = k3
    k4 = k4
    Keys = {k1, k2, k3, k4}
    Values = {v1, v2}
    NULL = NULL
    Capacity = 3
    Hash <- MCHash
SPECIFICATION FairSpec
INVARIANTS
    TypeOK
    Filled
    ProbeChain
    UniqueKeys
    LengthCounts
    ProbeKnowledge
    NeverAborts
PROPERTIES
    SlotsAreSpent
    ImplementsDictionary
    CallsReturn
