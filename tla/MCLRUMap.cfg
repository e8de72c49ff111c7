CONSTANTS
    Keys = {k1, k2, k3, k4}
    Values = {v1, v2}
    Missing = Missing
    Null = Null
    Capacity = 3
    Ttl = 2
    MaxTime = 4
SPECIFICATION Spec
INVARIANTS
    TypeOK
    WellLinked
PROPERTY
    ImplementsStore
SYMMETRY Symmetry
