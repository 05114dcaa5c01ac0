\* A command with a literal beside one without, or two of the same name; one fault of the
\* server or the connection.
\* CHECK_DEADLOCK is off: a session that was left stays so.
SPECIFICATION FairSpec
CONSTANTS
    Sessions = {{"SELECT", "FETCH"}, {"SELECT", "SELECT inbox"}}
    MaxFaults = 1
INVARIANTS
    TypeOK
    WritersDoNotMix
    SuccessIsServed
    SameNameInTurn
    LeftIsClosed
PROPERTIES
    CommandsEnd
CHECK_DEADLOCK FALSE
