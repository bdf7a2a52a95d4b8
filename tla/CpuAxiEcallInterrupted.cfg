\* An ecall that a timer interrupt finds in WB.
SPECIFICATION TrapSpec
CONSTANTS
    Value <- MCValue
    Zero = 0
    Four = 1
    Regs = {0, 1}
    x0 = 0
    Words <- MCWords
    WordOf <- MCWordOf
    Alu <- MCAlu
    Add <- MCAdd
    Taken <- MCTaken
    Program <- MCProgram
    System <- MCSystem
    ResetPc = 0
    PC_START = 0
    NoPc = NoPc
    MIE <- MCMIE
    MTIE <- MCMTIE
    Trap <- MCTrap
    Return <- MCReturn
    Or <- MCOr
    AndNot <- MCAndNot
    LowBits <- MCLowBits
    EcallCode = 1
    TimerCode = 2
    InitOnce = FALSE
    Csrrci0 = 0
    JalrTar0 = 0
    CsrReset <- MCCsrReset
    TimerFires = TRUE
    Avoids = {"ecall_masked","mret_interrupted","store_interrupted","csr_interrupted","csrrw_rd","csrrc_high"}
    NValue = 4
    Kinds = "trap"
INVARIANT
    DifftestAgrees
