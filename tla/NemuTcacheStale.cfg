SPECIFICATION Spec
CONSTANTS
    Programs <- StalePrograms
    TcacheSize = 6
    NumRecords = 7
    BBListSize = 2
    BBPoolSize = 3
INVARIANT FreeListEnds
