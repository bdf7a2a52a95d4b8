SPECIFICATION FairSpec
CONSTANTS
    Programs <- SomePrograms
    TcacheSize = 6
    NumRecords = 7
    BBListSize = 2
    BBPoolSize = 3
INVARIANTS TypeOK FreeListEnds InUse NoAbort
PROPERTIES ImplementsInterpreter KeepsExecuting
