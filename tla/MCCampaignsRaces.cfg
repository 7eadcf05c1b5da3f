SPECIFICATION FairSpec
CONSTANTS
    Clients = {r1, r2}
    Campaigns = {"c1"}
    Assignments = {"a1", "a2"}
    InitiallyHeld = {"a1", "a2"}
    Kinds = {"create", "start", "complete", "cancel", "decide", "revoke"}
    MaxRequests = 5
    UnknownReviewer = {}
    Spelling <- MCSpelling
    Lower <- MCLower
    None = None
INVARIANTS
    ItemsAgreeWithDecisions
    CountersNeverOverstate
    CompletedIsDecided
    ReviewedAccessIsHeld
PROPERTIES
    RequestsAreAnswered
CHECK_DEADLOCK FALSE
