SPECIFICATION Spec
CONSTANTS
    Clients = {r1, r2}
    None = None
    QueryNodes <- MCNodes
    QueryEdges <- MCEdges
    Position <- MCPosition
    Rows <- MCRows
    InitialRows <- MCInitialRows
    Changes <- MCChanges
    Kinds = {"load", "refresh", "invalidate", "status"}
    MaxRequests = 3
    MaxChanges = 1
    MaxFailures = 1
INVARIANTS
    CacheTypeOK
    InvalidationIsHonoured
    GraphIsOfTheTables
    AnswersAreRight
    PathsAreShortest
PROPERTIES
    AllEnds
CHECK_DEADLOCK FALSE
