SPECIFICATION FairSpec
CONSTANTS
    Names <- MCNames
    Normal <- MCNormal
    Connectors <- MCConnectors
    Enabled <- MCEnabled
    Mode <- MCMode
    Failures <- MCFailures
    Supported <- MCSupported
    Operations <- MCOperations
    Correlations <- OwnIdSet
    MaxAttempts = 2
    BaseDelay = 100
    MaxDelay = 150
    Workers = {w1, w2}
    Campaigns = {1}
    Items = {1, 2, 3, 4}
    CampaignOf <- OneCampaign
    Reviewed <- OneApproved
    ConnectorFor <- Mixed
    MaxRuns = 2
    CorrelationOf <- OwnIds
    MaxFaults = 1
    NoConnector = NoConnector
    NoJob = NoJob
INVARIANTS
    TypeOK
    CompletedMeansRevoked
    RevokedAgainOnlyAfterLoss
    OutcomesAreRecorded
PROPERTIES
    JobsAreFinal
    RequestsEnd
CHECK_DEADLOCK FALSE
