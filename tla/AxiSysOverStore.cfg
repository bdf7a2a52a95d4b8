\* The program does a store that oversteps its bus word.
SPECIFICATION FairSpec
CONSTANTS
    NWords = 1
    Words <- MCWords
    NextWord <- MCNextWord
    Data = {0}
    NoReq = NoReq
    FlushAddr = 0
    OverLoads = FALSE
    OverStores = TRUE
    SlowReads = TRUE
PROPERTY
    StoreServed
