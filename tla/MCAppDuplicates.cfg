\* The same report in two messages; one crash or cancellation, one failing command or write.
\* CHECK_DEADLOCK is off: the clock, the mail and the ends of the process are bounded,
\* and an exporter that finds a torn file does not start again.
SPECIFICATION Spec
CONSTANTS
    r1 = r1
    m1 = m1
    m2 = m2
    Anonymous = Anonymous
    Invalid = Invalid
    NoMsg = NoMsg
    Item <- TwiceItem
    Msg <- TwiceMsg
    Parts <- TwiceParts
    TTL = 2
    MaxTime = 2
    MaxStops = 1
    MaxFaults = 1
INVARIANTS
    TypeOK
    NeverDropped
    CountedOnce
    SuppressedOnlyIfCounted
    WholeAtExit
PROPERTIES
    FiledOnlyIfCounted
    FileGrows
    OneByOne
CHECK_DEADLOCK FALSE
