\* Up to three messages and three faults of any kind.
\* CHECK_DEADLOCK is off: a poll task that was stopped stays so.
SPECIFICATION FairSpec
CONSTANTS
    MaxCount = 3
    MaxFaults = 3
    Faults = {"select", "move", "stall", "fetch", "skip", "update"}
INVARIANTS
    TypeOK
    CompletedIsComplete
    WaitsForResponse
PROPERTIES
    OneByOne
    RoundEnds
    StopReturns
CHECK_DEADLOCK FALSE
