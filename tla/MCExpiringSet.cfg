\* Three reports, entries that live for two ticks, a clock of four ticks.
SPECIFICATION Spec
CONSTANTS
    r1 = r1
    r2 = r2
    r3 = r3
    None = None
    Item <- MCItem
    TTL = 2
    MaxTime = 4
SYMMETRY Symmetric
INVARIANTS
    TypeOK
    NeverRaises
PROPERTY
    ImplementsMemory
CHECK_DEADLOCK FALSE
