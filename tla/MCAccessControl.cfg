SPECIFICATION Spec
CONSTANTS
    Users <- MCUsers
    OperatorRole <- MCOperatorRole
    Finance = {"root"}
    Applications = {"hr", "fin"}
    FinancePortal = {"fin"}
    Entitlements <- MCEntitlements
    ApplicationOf <- MCApplicationOf
    Administrator = {"admin"}
    Groups = {"g"}
    None = None
    Clients = {r1, r2}
    Workload <- MCWorkload
    InitialAccess <- MCInitialAccess
    FirstAccessId = 2
    Delegated <- MCDelegated
    Temporary = {2}
    MaxDelegations = 5
    MaxRequests = 3
    MaxChanges = 1
INVARIANTS
    TypeOK
    ChangesAreJustified
    AuditIsComplete
    RevokedIsGone
CHECK_DEADLOCK FALSE
