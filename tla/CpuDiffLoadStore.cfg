\* A register is loaded and stored at the address in that register.
SPECIFICATION Spec
CONSTANTS
    Value <- MCValue
    Zero = 0
    Four = 1
    Regs = {0, 1}
    x0 = 0
    Words <- MCWords
    WordOf <- MCWordOf
    Alu <- MCAlu
    Add <- MCAdd
    Taken <- MCTaken
    Program <- MCProgram
    ResetPc <- MCResetPc
    NoPc = NoPc
    NoCommit = NoCommit
    PC_START = 0
    FIRST_INST_ADDRESS = 0
    LoadStoreSame = TRUE
    NValue = 2
    NBefore = 0
    Kinds = "loadstore"
PROPERTY
    Sequential
