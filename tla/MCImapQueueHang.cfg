\* One message; the FETCH fails once, as when the connection is reset.
SPECIFICATION FairSpec
CONSTANTS
    MaxCount = 1
    MaxFaults = 1
    Faults = {"fetch"}
PROPERTIES
    NoDeadlock
CHECK_DEADLOCK FALSE
