SPECIFICATION Spec
CONSTANTS
    Ranks = 1
    Bankgroups = 1
    BanksPerGroup = 2
    Rows = {0, 1}
    RowHitLimit = 2
    T <- MCTiming
    Addr = {a0, a1, a2}
    a0 = a0
    a1 = a1
    a2 = a2
    AddressMapping <- MCAddressMapping
    Configs <- AllPolicies
    TransQueueSize = 2
    CmdQueueSize = 2
    DrainThreshold = 1
    ActivateLimit = 2
    Padding = 0
    MaxReads = 1
    MaxWrites = 1
    MaxRefreshes = 2
INVARIANTS TypeOK NoAbort PendingMatchesQueues RefreshOnTime
PROPERTIES ImplementsPort
