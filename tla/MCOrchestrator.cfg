SPECIFICATION FairSpec
CONSTANTS
    Names <- MCNames
    Normal <- MCNormal
    Connectors <- MCConnectors
    Enabled <- MCEnabled
    Mode <- MCMode
    Failures <- MCFailures
    Supported <- MCSupported
    Operations <- MCOperations
    Correlations = {"c1", "c2"}
    MaxAttempts = 3
    BaseDelay = 100
    MaxDelay = 150
    Requests <- MCRequests
    Workload <- MCWorkload
    MaxCalls <- MCMaxCalls
    NoCall = NoCall
INVARIANTS
    TypeOK
    LoopComputesOutcome
    RecordsAgree
    StreamsAreWhole
PROPERTIES
    ExecuteReturns
    JobsFollowLifecycle
CHECK_DEADLOCK FALSE
