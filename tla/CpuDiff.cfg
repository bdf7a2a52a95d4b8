\* Every order of arithmetic, loads, stores, jumps and branches.
SPECIFICATION Spec
CONSTANTS
    Value <- MCValue
    Zero = 0
    Four = 1
    Regs = {0, 1}
    x0 = 0
    Words <- MCWords
    WordOf <- MCWordOf
    Alu <- MCAlu
    Add <- MCAdd
    Taken <- MCTaken
    Program <- MCProgram
    ResetPc <- MCResetPc
    NoPc = NoPc
    NoCommit = NoCommit
    PC_START = 0
    FIRST_INST_ADDRESS = 0
    LoadStoreSame = FALSE
    NValue = 3
    NBefore = 0
    Kinds = "all"
INVARIANT
    PipeInv
PROPERTIES
    Sequential
    StallsOnce
