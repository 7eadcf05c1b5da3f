SPECIFICATION Spec
CONSTANTS
    Names <- MCNames
    Normal <- MCNormal
    Connectors <- MCConnectors
    Enabled <- MCEnabled
    Mode <- MCMode
    Failures <- MCFailures
    Supported <- MCSupported
    Operations <- MCOperations
    Correlations <- OwnIdSet
    MaxAttempts = 2
    BaseDelay = 100
    MaxDelay = 150
    Workers = {w1}
    Campaigns = {1}
    Items = {1, 2}
    CampaignOf <- OneCampaign
    Reviewed <- AllRevoked
    ConnectorFor <- Unmapped
    MaxRuns = 1
    CorrelationOf <- OwnIds
    MaxFaults = 0
    NoConnector = NoConnector
    NoJob = NoJob
INVARIANTS
    LinksAreOwn
CHECK_DEADLOCK FALSE
