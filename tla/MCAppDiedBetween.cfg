\* One crash at any point.
SPECIFICATION Spec
CONSTANTS
    r1 = r1
    m1 = m1
    m2 = m2
    Anonymous = Anonymous
    Invalid = Invalid
    NoMsg = NoMsg
    Item <- TwiceItem
    Msg <- TwiceMsg
    Parts <- TwiceParts
    TTL = 2
    MaxTime = 0
    MaxStops = 1
    MaxFaults = 0
INVARIANTS
    CountedOnceAlways
CHECK_DEADLOCK FALSE
