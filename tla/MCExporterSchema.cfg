SPECIFICATION Spec
CONSTANTS
    a = a
    b = b
    None = None
    Text = Text
    Name <- MCName
    Inboxes <- SupportedInboxes
    Scraper = {s1}
INVARIANTS
    ReportsAreSupported
CHECK_DEADLOCK FALSE
