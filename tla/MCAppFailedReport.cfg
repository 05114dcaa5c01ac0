\* Nothing fails but the conversion of one report.
SPECIFICATION Spec
CONSTANTS
    r1 = r1
    m1 = m1
    m2 = m2
    Anonymous = Anonymous
    Invalid = Invalid
    NoMsg = NoMsg
    Item <- CorrectedItem
    Msg <- CorrectedMsg
    Parts <- CorrectedParts
    TTL = 1
    MaxTime = 0
    MaxStops = 0
    MaxFaults = 0
INVARIANTS
    ArchivedIsCounted
CHECK_DEADLOCK FALSE
