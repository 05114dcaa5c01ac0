\* Messages of every kind under fair scheduling.
\* CHECK_DEADLOCK is off as in MCAppDuplicates.
SPECIFICATION FairSpec
CONSTANTS
    r1 = r1
    m1 = m1
    m2 = m2
    Anonymous = Anonymous
    Invalid = Invalid
    NoMsg = NoMsg
    Item <- KindsItem
    Msg <- KindsMsg
    Parts <- KindsParts
    TTL = 1
    MaxTime = 0
    MaxStops = 1
    MaxFaults = 1
PROPERTIES
    EventuallyFiled
    StopsInTheEnd
CHECK_DEADLOCK FALSE
