-------------------------------- MODULE Rv64 --------------------------------
(***************************************************************************)
(* The instructions the two pipelines of the repository execute, as        *)
(* idu.sv tells them apart.  Arithmetic is a parameter: what an operation  *)
(* computes is alu.sv's business, the pipelines only have to bring it the  *)
(* right operands.                                                         *)
(***************************************************************************)
CONSTANTS
    Value,      \* register values, addresses, program counters
    Zero, Four, \* two of them
    Regs,       \* the register names
    x0,         \* the register that always reads as Zero
    Words,      \* the words of memory
    WordOf,     \* the word an address lies in
    Alu(_,_),   \* the result of a register or immediate operation
    Add(_,_),   \* address arithmetic
    Taken(_,_), \* whether a branch is taken
    Program,    \* the instructions that can be found at an address
    ResetPc,    \* where fetching starts
    NoPc        \* not an address (a diffpc of 0 or 1)

Ops   == {"REG", "IMM", "AUIPC", "LOAD", "STORE", "BRANCH", "JAL", "JALR"}
Instr == [op : Ops, rd : Regs, rs1 : Regs, rs2 : Regs, imm : Value]

ASSUME RvAssumption ==
    /\ Zero \in Value
    /\ Four \in Value
    /\ x0 \in Regs
    /\ WordOf \in [Value -> Words]
    /\ \A a, b \in Value : Alu(a, b) \in Value /\ Add(a, b) \in Value
    /\ \A a, b \in Value : Taken(a, b) \in BOOLEAN
    /\ Program \in [Value -> SUBSET Instr]
    /\ ResetPc \in Value
    /\ NoPc \notin Value

\* ADDI x0, x0, 0.  The all-zero word of cleared memory decodes to the same.
NOP == [op |-> "IMM", rd |-> x0, rs1 |-> x0, rs2 |-> x0, imm |-> Zero]

----------------------------------------------------------------------------
(* idu.sv: what an instruction reads and writes.  An instruction without a *)
(* source reads x0, one without a destination writes nothing.              *)

rs1id(i) == IF i.op \in {"AUIPC", "JAL"} THEN x0 ELSE i.rs1
rs2id(i) == IF i.op \in {"REG", "STORE", "BRANCH"} THEN i.rs2 ELSE x0
rdwen(i) == i.op \notin {"STORE", "BRANCH"} /\ i.rd # x0
lden(i)  == i.op = "LOAD"
sten(i)  == i.op = "STORE"

\* exu.sv: the operands the source selection of an instruction picks.
exu_res(i, pc, rs1, rs2) ==
    IF i.op = "REG"                THEN Alu(rs1, rs2)
    ELSE IF i.op = "IMM"           THEN Alu(rs1, i.imm)
    ELSE IF i.op = "AUIPC"         THEN Add(pc, i.imm)
    ELSE IF i.op \in {"JAL", "JALR"} THEN Add(pc, Four)
    ELSE Add(rs1, i.imm)

\* bru.sv: whether and where control goes on elsewhere.
jump(i, rs1, rs2) ==
    \/ i.op \in {"JAL", "JALR"}
    \/ i.op = "BRANCH" /\ Taken(rs1, rs2)

jump_pc(i, pc, rs1) == IF i.op = "JALR" THEN Add(rs1, i.imm) ELSE Add(pc, i.imm)
=============================================================================
