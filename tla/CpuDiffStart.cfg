\* The cleared words before the program, then the program.
SPECIFICATION FairSpec
CONSTANTS
    Value <- MCValue
    Zero = 0
    Four = 1
    Regs = {0, 1}
    x0 = 0
    Words <- MCWords
    WordOf <- MCWordOf
    Alu <- MCAlu
    Add <- MCAdd
    Taken <- MCTaken
    Program <- MCProgram
    ResetPc <- MCResetPc
    NoPc = NoPc
    NoCommit = NoCommit
    PC_START = 0
    FIRST_INST_ADDRESS = 0
    LoadStoreSame = FALSE
    NValue = 3
    NBefore = 2
    Kinds = "loadstore"
PROPERTY
    DifftestEnabled
