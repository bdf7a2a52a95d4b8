------------------------------ MODULE MCCpuDiff ------------------------------
(* Small instances of CpuDiff for TLC: values and addresses are the numbers  *)
(* modulo NValue, a word is one address, and the cleared words fetched        *)
(* before the program have the negative addresses.                           *)
EXTENDS CpuDiff, Integers

CONSTANTS
    NValue,     \* how many values there are
    NBefore,    \* how many words are fetched before the program
    Kinds       \* which of the instruction sets below the program uses

MCValue == (-NBefore)..(NValue - 1)
MCResetPc == -NBefore
MCWords == 0..1
MCWordOf == [v \in MCValue |-> v % 2]

\* An operation that tells its operands apart, and addition.
MCAlu(a, b)   == (1 + a * (1 + b)) % NValue
MCAdd(a, b)   == IF a < 0 THEN a + 1 ELSE (a + b + 2 * NValue) % NValue
MCTaken(a, b) == a < b

\* One general register is enough for every forwarding path: what matters is
\* how many instructions in flight write it.
I(op, rd, rs1, rs2, imm) == [op |-> op, rd |-> rd, rs1 |-> rs1, rs2 |-> rs2, imm |-> imm]

Instrs ==
    {NOP, I("AUIPC", 1, 0, 0, 2), I("REG", 1, 0, 1, 0), I("LOAD", 1, 1, 0, 1),
     I("STORE", 0, 1, 0, 1), I("STORE", 0, 0, 1, 1), I("BRANCH", 0, 0, 1, 0),
     I("BRANCH", 0, 1, 0, 2), I("JAL", 1, 0, 0, 2), I("JALR", 1, 1, 0, 1)}

MCProgram == [v \in MCValue |->
    IF v < 0 THEN {NOP}
    ELSE IF Kinds = "all" THEN Instrs
    ELSE {NOP, I("LOAD", 1, 0, 0, 1), I("STORE", 0, 1, 1, 1)}]
=============================================================================
