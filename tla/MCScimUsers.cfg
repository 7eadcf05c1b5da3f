SPECIFICATION FairSpec
CONSTANTS
    Clients = {r1, r2}
    Users <- MCUsers
    Value <- MCValue
    None = None
    UNSET = UNSET
    Malformed = Malformed
    UserName = UserName
    InitialUsers <- MCInitialUsers
    InitialProfiles <- MCInitialProfiles
    Lower <- MCLower
    Default = "Provisioned"
    Workload <- MCWorkload
    MaxRequests = 3
INVARIANTS
    TypeOK
    ManagersAcyclic
    NumbersUnique
    DepartmentsAgree
PROPERTIES
    ChangesAreAudited
    RequestsAreServed
CHECK_DEADLOCK FALSE
