\* One SELECT; the connection may end once.
SPECIFICATION FairSpec
CONSTANTS
    Sessions = {{"SELECT"}}
    MaxFaults = 1
PROPERTIES
    NoCommandHangs
CHECK_DEADLOCK FALSE
