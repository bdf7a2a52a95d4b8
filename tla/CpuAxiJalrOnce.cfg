\* A jalr that overwrites its base, with declarations evaluated once.
SPECIFICATION Spec
CONSTANTS
    Value <- MCValue
    Zero = 0
    Four = 1
    Regs = {0, 1}
    x0 = 0
    Words <- MCWords
    WordOf <- MCWordOf
    Alu <- MCAlu
    Add <- MCAdd
    Taken <- MCTaken
    Program <- MCProgram
    System <- MCSystem
    ResetPc = 0
    PC_START = 0
    NoPc = NoPc
    MIE <- MCMIE
    MTIE <- MCMTIE
    Trap <- MCTrap
    Return <- MCReturn
    Or <- MCOr
    AndNot <- MCAndNot
    LowBits <- MCLowBits
    EcallCode = 1
    TimerCode = 2
    InitOnce = TRUE
    Csrrci0 = 0
    JalrTar0 = 0
    CsrReset <- MCCsrReset
    TimerFires = FALSE
    Avoids = {}
    NValue = 3
    Kinds = "plain"
INVARIANT
    DifftestAgrees
