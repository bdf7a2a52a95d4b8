------------------------------ MODULE MCCpuAxi ------------------------------
(* Small instances of CpuAxi for TLC.  Values and addresses are the numbers  *)
(* modulo NValue.  As the value of a CSR, bit 0 stands for the low five bits *)
(* (MIE), bit 1 for the others (MPIE, MTIE).                                 *)
EXTENDS CpuAxi, Integers

CONSTANTS
    NValue,     \* how many values there are
    Kinds       \* which of the instruction sets below the program uses

MCValue  == 0..(NValue - 1)
MCWords  == 0..1
MCWordOf == [v \in MCValue |-> v % 2]

\* An operation that tells its operands apart, and addition.
MCAlu(a, b)   == (1 + a * (1 + b)) % NValue
MCAdd(a, b)   == (a + b) % NValue
MCTaken(a, b) == a < b

Low(a)  == a % 2
High(a) == (a \div 2) % 2

MCMIE(a)       == Low(a) = 1
MCMTIE(a)      == High(a) = 1
MCTrap(a)      == 2 * Low(a)
MCReturn(a)    == (2 + High(a)) % NValue
MCOr(a, b)     == (Low(a) + Low(b) - Low(a) * Low(b)
                     + 2 * (High(a) + High(b) - High(a) * High(b))) % NValue
MCAndNot(a, b) == Low(a) * (1 - Low(b)) + 2 * High(a) * (1 - High(b))
MCLowBits(a)   == Low(a)

MCCsrReset == [c \in Csrs |-> IF c = "mstatus" THEN 1 ELSE 0]

I(op, rd, rs1, rs2, imm) == [op |-> op, rd |-> rd, rs1 |-> rs1, rs2 |-> rs2, imm |-> imm]

C(op, c, rd, rs1, imm) ==
    [op |-> op, rd |-> rd, rs1 |-> rs1, rs2 |-> 0, imm |-> imm, csr |-> c]

PlainInstrs ==
    {NOP, I("IMM", 1, 1, 0, 1), I("REG", 1, 0, 1, 0),
     I("LOAD", 1, 1, 0, 0), I("LOAD", 1, 0, 0, 1), I("STORE", 0, 1, 1, 0),
     I("STORE", 0, 0, 1, 1), I("BRANCH", 0, 0, 1, 2), I("JAL", 1, 0, 0, 2),
     I("JALR", 1, 1, 0, 1), I("JALR", 0, 1, 0, 0)}

TrapInstrs == {NOP, I("IMM", 1, 0, 0, 1), I("LOAD", 0, 1, 0, 0), I("JALR", 0, 1, 0, 1)}

TrapSystem ==
    {I("ECALL", 0, 0, 0, 0), I("MRET", 0, 0, 0, 0),
     C("CSRRSI", "mstatus", 0, 0, 1), C("CSRRCI", "mstatus", 1, 0, 1),
     C("CSRRWI", "mie", 0, 0, 2),
     C("CSRRWI", "mtvec", 0, 0, 2),
     C("CSRRS", "mepc", 1, 0, 0)}

\* The word at PC_START is executed twice.
MCProgram == [v \in MCValue |->
    IF v = PC_START          THEN {IF Kinds = "plain" THEN I("IMM", 1, 0, 0, 1) ELSE NOP}
    ELSE IF Kinds = "plain"  THEN PlainInstrs
    ELSE IF Kinds = "trap"   THEN TrapInstrs
    ELSE {NOP, I("IMM", 1, 1, 0, 1), I("LOAD", 1, 0, 0, 1), I("STORE", 0, 0, 1, 1)}]

MCSystem == [v \in MCValue |->
    IF v = PC_START \/ Kinds = "plain" THEN {}
    ELSE IF Kinds = "trap" THEN TrapSystem
    ELSE TrapSystem \cup {C("CSRRW", "mtvec", 1, 0, 0), C("CSRRC", "mie", 0, 1, 0)}]

\* The conditions of the agreement hold unless a configuration asks for a defect.
ASSUME MCConditions == Careful /\ ~InitOnce => Conditions

\* What the registers and memory hold at reset does not matter to traps.
TrapInit == Init /\ rf = [r \in Regs |-> Zero] /\ ram = [w \in Words |-> Zero]
TrapSpec == TrapInit /\ [][Next]_vars /\ Fairness
=============================================================================
