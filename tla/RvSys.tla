-------------------------------- MODULE RvSys --------------------------------
(***************************************************************************)
(* The system instructions of cpu_axi_diff on top of Rv64, and the         *)
(* reference model difftest.cpp steps beside the processor: an             *)
(* architectural state, one operator for the execution of an instruction   *)
(* and one for a timer interrupt.                                          *)
(*                                                                         *)
(* A CSR is a value.  Of mstatus and mie only the interrupt enables matter *)
(* (MIE, MPIE and MTIE), so how a trap and mret change mstatus are         *)
(* parameters.  mtvec is in direct mode.                                   *)
(***************************************************************************)
EXTENDS Rv64

CONSTANTS
    MIE(_),         \* mstatus[3]
    MTIE(_),        \* mie[7]
    Trap(_),        \* mstatus after a trap: MPIE is MIE, MIE is cleared
    Return(_),      \* mstatus after mret: MIE is MPIE, MPIE is set
    Or(_,_), AndNot(_,_),
    LowBits(_),     \* the bits 4:0 of a value
    EcallCode, TimerCode,   \* the two values of mcause
    InitOnce,       \* how "logic x = e" is simulated, see csrrci
    Csrrci0,        \* the value of e in exu.sv when simulation starts
    System          \* the system instructions that can be found at an address

Csrs    == {"mstatus", "mie", "mtvec", "mepc", "mcause"}
CsrRegs == {"CSRRW", "CSRRS", "CSRRC"}
CsrImms == {"CSRRWI", "CSRRSI", "CSRRCI"}

SysInstr == [op : CsrRegs \cup CsrImms, rd : Regs, rs1 : Regs, rs2 : {x0},
             imm : Value, csr : Csrs]
                \cup [op : {"ECALL", "MRET"}, rd : {x0}, rs1 : {x0}, rs2 : {x0},
                      imm : {Zero}]

ASSUME SysAssumption ==
    /\ \A a, b \in Value : Or(a, b) \in Value /\ AndNot(a, b) \in Value
    /\ \A a \in Value : /\ MIE(a) \in BOOLEAN /\ MTIE(a) \in BOOLEAN
                         /\ Trap(a) \in Value /\ Return(a) \in Value
                         /\ LowBits(a) \in Value
    /\ EcallCode \in Value /\ TimerCode \in Value
    /\ InitOnce \in BOOLEAN /\ Csrrci0 \in Value
    /\ System \in [Value -> SUBSET SysInstr]

\* The all-zero word that flushed and squashed stages hold.
Bubble == [op |-> "NONE", rd |-> x0, rs1 |-> x0, rs2 |-> x0, imm |-> Zero]

is_csr(i)   == i.op \in CsrRegs \cup CsrImms
is_ecall(i) == i.op = "ECALL"
is_mret(i)  == i.op = "MRET"

\* idu.sv: system instructions do not set o_rdwen; csr_to_rf writes for them.
o_rdwen(i) == i.op \in Ops /\ rdwen(i)

\* exu.sv and bru.sv each declare a signal as "logic x = e".  It is meant as an
\* assignment; SystemVerilog makes it a value given once, before time 0.
csrrci(csr_data, csr_wdata) ==
    IF InitOnce THEN Csrrci0 ELSE AndNot(csr_data, csr_wdata)

\* exu.sv: the new value of the CSR.  csrrc replaces bits 4:0 only.
csr_data_res(i, csr_data, csr_wdata) ==
    IF i.op \in {"CSRRW", "CSRRWI"}         THEN csr_wdata
    ELSE IF i.op \in {"CSRRS", "CSRRSI"}    THEN Or(csr_data, csr_wdata)
    ELSE Or(AndNot(csr_data, LowBits(csr_data)), LowBits(csrrci(csr_data, csr_wdata)))

\* exu.sv: whether the old value goes to a register.
csr_to_rf(i) == i.op \in {"CSRRS", "CSRRSI", "CSRRC", "CSRRCI"}

----------------------------------------------------------------------------
(* The reference model.                                                    *)

SetReg(regs, r, v) == IF r = x0 THEN regs ELSE [regs EXCEPT ![r] = v]

\* raise_intr and ecall.
Trapped(s, code) ==
    [s EXCEPT !.pc = s.csr["mtvec"],
              !.csr = [s.csr EXCEPT !["mstatus"] = Trap(@), !["mepc"] = s.pc,
                                    !["mcause"] = code]]

CsrOp(i, old, v) ==
    IF i.op \in {"CSRRW", "CSRRWI"}      THEN v
    ELSE IF i.op \in {"CSRRS", "CSRRSI"} THEN Or(old, v)
    ELSE AndNot(old, v)

\* proxy->exec(1) when instruction i is found at s.pc.
Executed(s, i) ==
    LET rs1  == s.regs[i.rs1]
        rs2  == s.regs[i.rs2]
        addr == WordOf[Add(rs1, i.imm)]
        next == IF jump(i, rs1, rs2) THEN jump_pc(i, s.pc, rs1) ELSE Add(s.pc, Four)
    IN  IF is_ecall(i) THEN Trapped(s, EcallCode)
        ELSE IF is_mret(i)
        THEN [s EXCEPT !.pc = s.csr["mepc"],
                       !.csr = [s.csr EXCEPT !["mstatus"] = Return(@)]]
        ELSE IF is_csr(i)
        THEN [s EXCEPT !.pc = next,
                       !.regs = SetReg(@, i.rd, s.csr[i.csr]),
                       !.csr[i.csr] = CsrOp(i, @, IF i.op \in CsrImms THEN i.imm ELSE rs1)]
        ELSE [s EXCEPT !.pc = next,
                       !.regs = IF ~rdwen(i) THEN @
                                ELSE [@ EXCEPT ![i.rd] =
                                        IF lden(i) THEN s.mem[addr]
                                        ELSE exu_res(i, s.pc, rs1, rs2)],
                       !.mem = IF sten(i) THEN [@ EXCEPT ![addr] = rs2] ELSE @]
=============================================================================
