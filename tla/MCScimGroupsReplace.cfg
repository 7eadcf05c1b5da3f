SPECIFICATION Spec
CONSTANTS
    Clients = {r1, r2}
    Groups <- MCGroups
    Users <- MCUsers
    Strangers = {"zed"}
    Names <- MCNames
    Lower <- MCLower
    None = None
    Malformed = Malformed
    InitialGroups <- MCInitialGroups
    InitialMembers <- MCInitialMembers
    Workload <- MCReplaceWorkload
    MaxRequests = 2
    MaxFailures = 0
INVARIANTS
    ReplacementIsServed
CHECK_DEADLOCK FALSE
