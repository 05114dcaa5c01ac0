SPECIFICATION FairSpec
CONSTANTS
    a = a
    b = b
    None = None
    Text = Text
    Name <- MCName
    Inboxes <- MCInboxes
    Scraper = {s1}
INVARIANTS
    TypeOK
    AnswersFit
    EveryRowCounts
    RaisesForCause
PROPERTIES
    ScrapeIsAMoment
    RequestsAreAnswered
    ServerCloses
CHECK_DEADLOCK FALSE
