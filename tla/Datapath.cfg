SPECIFICATION Spec
CONSTANTS
    ByteBits = 1
    Operands <- MCOperands
    AboveMem <- MCAboveMem
    AnyOperand = FALSE
    AnyAddress = FALSE
INVARIANTS ResultsAgree BranchesAgree
