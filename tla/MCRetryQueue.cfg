SPECIFICATION FairSpec
CONSTANTS
    w1 = w1
    h1 = h1
    h2 = h2
    t1 = t1
    o1 = o1
    Workers <- OneWorker
    Handlers <- TwoHandlers
    Targets <- CampaignTarget
    Uncampaigned = {}
    Orgs <- MCOrgs
    OrgOf <- MCOrgOf
    MayRunOut <- MCOrgs
    MaxAttempts = 2
    MaxCampaignCalls = 1
    MaxDeliveries = 2
    MaxFaults = 1
INVARIANTS
    TypeOK
    DialsPerChainAccounted
    DuplicateChainOnlyWhenRacing
    FailedCallIsQueued
PROPERTIES
    EveryChainEnds
CHECK_DEADLOCK FALSE
