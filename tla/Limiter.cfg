SPECIFICATION Spec
CONSTANTS
    Addresses = {p, q, r}
    Callers = {c, d}
    Burst = 2
    Cost = 2
    MaxEntries = 2
    NoBucket = NoBucket
    MaxTime = 4
INVARIANTS
    TypeOK
    RateBound
    SweepBoundsTable
PROPERTIES
    TimeMonotone
    RefusalJustified
    Implements
SYMMETRY
    Symmetry
