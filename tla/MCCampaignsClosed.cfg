SPECIFICATION FairSpec
CONSTANTS
    Clients = {r1, r2}
    Campaigns = {"c1"}
    Assignments = {"a1"}
    InitiallyHeld = {"a1"}
    Kinds = {"create", "start", "cancel", "decide"}
    MaxRequests = 4
    UnknownReviewer = {}
    Spelling <- MCSpelling
    Lower <- MCLower
    None = None
PROPERTIES
    ClosedIsFinal
CHECK_DEADLOCK FALSE
