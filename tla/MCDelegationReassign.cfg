SPECIFICATION FairSpec
CONSTANTS
    Users <- MCUsers
    OperatorRole <- MCOperatorRole
    Finance = {"root"}
    Applications = {"hr", "fin"}
    FinancePortal = {"fin"}
    Entitlements <- MCEntitlements
    ApplicationOf <- MCApplicationOf
    Administrator = {"admin"}
    Groups = {"g"}
    None = None
    Clients = {r1}
    Workload <- Reassigning
    InitialAccess <- MCInitialAccess
    FirstAccessId = 2
    Delegated <- OneDelegation
    Temporary = {}
    MaxDelegations = 4
    MaxRequests = 4
    MaxChanges = 0
PROPERTIES
    RemovalSucceeds
CHECK_DEADLOCK FALSE
