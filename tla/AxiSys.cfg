\* Two words, two values: a fetch, a load and a store can share a word or not.
SPECIFICATION FairSpec
CONSTANTS
    NWords = 2
    Words <- MCWords
    NextWord <- MCNextWord
    Data = {0, 1}
    NoReq = NoReq
    FlushAddr = 0
    OverLoads = TRUE
    OverStores = TRUE
    SlowReads = TRUE
INVARIANTS
    LoadData
    StoreDone
    FetchData
    FetchAlone
    BusInv
PROPERTIES
    MemServed
    FetchServed
    RamOnlyByStore
