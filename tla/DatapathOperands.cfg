SPECIFICATION Spec
CONSTANTS
    ByteBits = 1
    Operands <- MCOperands
    AboveMem <- MCAboveMem
    AnyOperand = TRUE
    AnyAddress = FALSE
INVARIANTS ResultsAgree
