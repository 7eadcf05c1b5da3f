SPECIFICATION FairSpec
CONSTANTS
    Clients = {r1}
    Campaigns = {"c1", "c2", "c3"}
    Assignments = {"a1", "a2"}
    InitiallyHeld = {"a1"}
    Kinds = {"create", "start", "complete", "cancel", "decide", "grant", "revoke"}
    MaxRequests = 5
    UnknownReviewer = {"c3"}
    Spelling <- MCSpelling
    Lower <- MCLower
    None = None
INVARIANTS
    RecordsAgree
PROPERTIES
    ReviewIsImplemented
CHECK_DEADLOCK FALSE
