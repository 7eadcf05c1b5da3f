SPECIFICATION Spec
CONSTANTS
    Clients = {r1, r2}
    Groups <- MCGroups
    Users <- MCUsers
    Strangers = {"zed"}
    Names <- MCNames
    Lower <- MCLower
    None = None
    Malformed = Malformed
    InitialGroups <- MCInitialGroups
    InitialMembers <- MCInitialMembers
    Workload <- MCWorkload
    MaxRequests = 3
    MaxFailures = 1
INVARIANTS
    TypeOK
    EventsTellMembership
    NamesUnique
    MembersAreExplained
PROPERTIES
    OnlySeenMembersGo
CHECK_DEADLOCK FALSE
