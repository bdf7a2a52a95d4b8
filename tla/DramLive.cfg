SPECIFICATION FairSpec
CONSTANTS
    Ranks = 2
    Bankgroups = 1
    BanksPerGroup = 1
    Rows = {0, 1}
    RowHitLimit = 2
    T <- MCTiming
    Addr = {a0, a1, a2}
    a0 = a0
    a1 = a1
    a2 = a2
    AddressMapping <- MCAddressMapping
    Configs <- StaggeredOpen
    TransQueueSize = 2
    CmdQueueSize = 2
    DrainThreshold = 1
    ActivateLimit = 2
    Padding = 2
    MaxReads = 1
    MaxWrites = 1
    MaxRefreshes = 2
PROPERTIES EveryRequestAnswered EveryRankRefreshed
