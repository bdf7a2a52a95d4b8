SPECIFICATION Spec
CONSTANTS
    Programs <- AllPrograms
    TcacheSize = 6
    NumRecords = 7
    BBListSize = 2
    BBPoolSize = 3
INVARIANT NoAbort
