------------------------------- MODULE CpuDiff -------------------------------
(***************************************************************************)
(* projects/cpu_diff: the five-stage pipeline over a memory that answers   *)
(* in the same cycle (RAMHelper).  One step is one clock edge.             *)
(*                                                                         *)
(* A stage register holds its instruction and the values that travel with  *)
(* it; the control bits are functions of the instruction.  A bubble is a   *)
(* NOP whose diffpc is NoPc (SimTop.sv tells difftest nothing about it).   *)
(* Every valid and ready signal is constantly 1 once the pipeline is full, *)
(* and the registers hold bubbles before that, so the handshakes of the    *)
(* pipe_*.sv modules come down to "every stage moves at every edge".       *)
(***************************************************************************)
EXTENDS Rv64

CONSTANTS
    NoCommit,
    PC_START,       \* the first word of the program
    FIRST_INST_ADDRESS, \* the address at which difftest starts comparing
    LoadStoreSame   \* the program stores a just loaded register at the
                    \* address in that same register

VARIABLES
    pc,     \* bru.o_pc: the address being fetched
    id,     \* pipe_if_id
    ex,     \* pipe_id_ex
    ls,     \* pipe_ex_ls
    wb,     \* pipe_ls_wb
    rf,     \* regfile
    ram     \* RAMHelper

vars == <<pc, id, ex, ls, wb, rf, ram>>

Pcs == Value \cup {NoPc}

ASSUME CpuDiffAssumption ==
    /\ NoCommit \notin [pc : Value, ins : Instr]
    /\ PC_START \in Value
    /\ FIRST_INST_ADDRESS \in Value
    /\ LoadStoreSame \in BOOLEAN

----------------------------------------------------------------------------
(* What the stages compute during a cycle.                                 *)

exu_exres == exu_res(ex.ins, ex.pc, ex.rs1, ex.rs2)

lsu_lsres == ram[WordOf[ls.exres]]

\* What the instruction in MEM is going to write.
lsu_rd == IF lden(ls.ins) THEN lsu_lsres ELSE ls.exres

Writes(s, r) == rdwen(s.ins) /\ s.ins.rd = r

\* Mutant: the older of two pending results is forwarded.
o_idu_rs_OldFirst(r) ==
    IF Writes(wb, r)                          THEN wb.rd
    ELSE IF Writes(ls, r)                     THEN lsu_rd
    ELSE IF ~lden(ex.ins) /\ Writes(ex, r)    THEN exu_exres
    ELSE rf[r]

\* bypass.sv: the value of register r for the instruction in ID.
o_idu_rs(r) ==
    IF ~lden(ex.ins) /\ Writes(ex, r)         THEN exu_exres
    ELSE IF Writes(ls, r)                     THEN lsu_rd
    ELSE IF Writes(wb, r)                     THEN wb.rd
    ELSE rf[r]

\* The data of the store in ID is being loaded: it is taken in EX instead.
o_idu_ldstbp == lden(ex.ins) /\ Writes(ex, rs2id(id.ins)) /\ sten(id.ins)

\* Mutant: the ID stage is not held back, so it waits for the load twice.
o_idex_bubble_Long ==
    /\ \/ lden(ex.ins) /\ (Writes(ex, rs1id(id.ins)) \/ Writes(ex, rs2id(id.ins)))
       \/ lden(ls.ins) /\ Writes(ls, rs1id(id.ins))
    /\ ~o_idu_ldstbp

\* The instruction in ID needs a value that is only being loaded.
o_idex_bubble ==
    /\ lden(ex.ins)
    /\ Writes(ex, rs1id(id.ins)) \/ Writes(ex, rs2id(id.ins))
    /\ ~o_idu_ldstbp

\* Mutant: the store in EX does not take the data loaded in MEM.
o_exu_rs2_NoBypass == ex.rs2

o_exu_rs2 == IF ex.ldstbp THEN lsu_lsres ELSE ex.rs2

idu_rs1 == o_idu_rs(rs1id(id.ins))
idu_rs2 == o_idu_rs(rs2id(id.ins))
jumping == jump(id.ins, idu_rs1, idu_rs2)

----------------------------------------------------------------------------
(* The clock edge, register by register.                                   *)

\* bru.sv, ifu.sv, pipe_if_id.sv: held while ID waits for a load; otherwise
\* the fetched instruction, unless the one before it jumps.
FetchStage ==
    IF o_idex_bubble
    THEN UNCHANGED <<pc, id>>
    ELSE /\ pc' = IF jumping THEN jump_pc(id.ins, id.pc, idu_rs1) ELSE Add(pc, Four)
         /\ IF jumping
            THEN id' = [ins |-> NOP, pc |-> pc, diffpc |-> NoPc]
            ELSE \E i \in Program[pc] :
                   /\ LoadStoreSame \/ ~(/\ lden(id.ins) /\ sten(i)
                                         /\ Writes(id, i.rs1) /\ Writes(id, i.rs2))
                   /\ id' = [ins |-> i, pc |-> pc, diffpc |-> pc]

\* pipe_id_ex.sv
DecodeStage ==
    ex' = IF o_idex_bubble
          THEN [ins |-> NOP, pc |-> id.pc, diffpc |-> NoPc,
                rs1 |-> Zero, rs2 |-> Zero, ldstbp |-> FALSE]
          ELSE [ins |-> id.ins, pc |-> id.pc, diffpc |-> id.diffpc,
                rs1 |-> idu_rs1, rs2 |-> idu_rs2, ldstbp |-> o_idu_ldstbp]

\* exu.sv, pipe_ex_ls.sv
ExecuteStage ==
    ls' = [ins |-> ex.ins, diffpc |-> ex.diffpc,
           exres |-> exu_exres, rs2 |-> o_exu_rs2]

\* lsu.sv, pipe_ls_wb.sv, wbu.sv
MemoryStage ==
    /\ wb' = [ins |-> ls.ins, diffpc |-> ls.diffpc, rd |-> lsu_rd]
    /\ ram' = IF sten(ls.ins) THEN [ram EXCEPT ![WordOf[ls.exres]] = ls.rs2] ELSE ram

\* regfile.sv
WriteBackStage ==
    rf' = IF rdwen(wb.ins) THEN [rf EXCEPT ![wb.ins.rd] = wb.rd] ELSE rf

Next ==
    /\ FetchStage
    /\ DecodeStage
    /\ ExecuteStage
    /\ MemoryStage
    /\ WriteBackStage

\* Reset clears the stage registers, and puts the program counter before the
\* program; the register file and memory keep whatever they hold.
Init ==
    /\ pc = ResetPc
    /\ id = [ins |-> NOP, pc |-> Zero, diffpc |-> NoPc]
    /\ ex = [ins |-> NOP, pc |-> Zero, diffpc |-> NoPc,
             rs1 |-> Zero, rs2 |-> Zero, ldstbp |-> FALSE]
    /\ ls = [ins |-> NOP, diffpc |-> NoPc, exres |-> Zero, rs2 |-> Zero]
    /\ wb = [ins |-> NOP, diffpc |-> NoPc, rd |-> Zero]
    /\ rf \in [Regs -> Value] /\ rf[x0] = Zero
    /\ ram \in [Words -> Value]

Spec     == Init /\ [][Next]_vars
FairSpec == Spec /\ WF_vars(Next)

----------------------------------------------------------------------------
(* What difftest is told (SimTop.sv).                                      *)

\* regfile.o_regs: the registers with the write of this cycle.
o_regs == IF rdwen(wb.ins) THEN [rf EXCEPT ![wb.ins.rd] = wb.rd] ELSE rf

\* The first word of the program is not reported.
inst_valid == wb.diffpc \notin {PC_START, NoPc}

\* difftest.cpp: comparing starts when the first instruction is reported.
do_first_instr_commit == inst_valid /\ wb.diffpc = FIRST_INST_ADDRESS

----------------------------------------------------------------------------
(* Properties.                                                             *)

\* The stage registers of the pipe_*.sv hold instructions, values, addresses.
TypeOK ==
    /\ pc \in Value
    /\ id \in [ins : Instr, pc : Value, diffpc : Pcs]
    /\ ex \in [ins : Instr, pc : Value, diffpc : Pcs, rs1 : Value, rs2 : Value,
               ldstbp : BOOLEAN]
    /\ ls \in [ins : Instr, diffpc : Pcs, exres : Value, rs2 : Value]
    /\ wb \in [ins : Instr, diffpc : Pcs, rd : Value]
    /\ rf \in [Regs -> Value]
    /\ ram \in [Words -> Value]

\* The address of the instruction behind EX, behind MEM and behind WB: that of
\* the oldest one that is not a bubble, or the one being fetched.
BehindEx       == IF id.diffpc # NoPc THEN id.diffpc ELSE pc
BehindLs       == IF ex.diffpc # NoPc THEN ex.diffpc ELSE BehindEx
NextToComplete == IF ls.diffpc # NoPc THEN ls.diffpc ELSE BehindLs

\* Seen through the commits, the registers and memory, the pipeline executes
\* one instruction after another: no forwarding path, stall or squash shows.
ISA == INSTANCE Isa WITH
    pc <- NextToComplete,
    regs <- o_regs,
    mem <- ram,
    commit <- IF wb.diffpc = NoPc THEN NoCommit
                                  ELSE [pc |-> wb.diffpc, ins |-> wb.ins]

Sequential == ISA!Spec

\* An instruction waits for a load at most one cycle (bypass.o_idex_bubble).
StallsOnce == [][o_idex_bubble => ~o_idex_bubble']_vars

\* Some instruction SimTop.sv reports lets difftest start comparing
\* (do_first_instr_commit).
DifftestEnabled == <>do_first_instr_commit
----------------------------------------------------------------------------
(* The inductive invariant behind Sequential: every stage already holds    *)
(* what the instructions ahead of it will have done.                       *)

\* The registers once the instruction in MEM has completed, too.
regs_ls == IF rdwen(ls.ins) THEN [o_regs EXCEPT ![ls.ins.rd] = lsu_rd] ELSE o_regs

\* Where control goes after i at address a, given the registers.
NextOf(i, a, regs) ==
    IF jump(i, regs[i.rs1], regs[i.rs2]) THEN jump_pc(i, a, regs[i.rs1])
                                         ELSE Add(a, Four)

Bubbles ==
    /\ id.diffpc = NoPc => id.ins = NOP
    /\ ex.diffpc = NoPc => ex.ins = NOP
    /\ ls.diffpc = NoPc => ls.ins = NOP
    /\ id.diffpc # NoPc => /\ id.pc = id.diffpc
                           /\ id.ins \in Program[id.diffpc]
                           /\ pc = Add(id.diffpc, Four)
    /\ ex.diffpc # NoPc => ex.pc = ex.diffpc /\ ex.ins \in Program[ex.diffpc]
    /\ ls.diffpc # NoPc => ls.ins \in Program[ls.diffpc]

\* The instruction in MEM has the operands it needs.
LsOperands ==
    ls.diffpc # NoPc =>
        /\ ls.exres = exu_res(ls.ins, ls.diffpc, o_regs[ls.ins.rs1], o_regs[ls.ins.rs2])
        /\ sten(ls.ins) => ls.rs2 = o_regs[ls.ins.rs2]
        /\ BehindLs = NextOf(ls.ins, ls.diffpc, o_regs)

\* So has the one in EX, or it is a store whose data is being loaded.
ExOperands ==
    /\ ex.diffpc # NoPc =>
        /\ ex.rs1 = regs_ls[rs1id(ex.ins)]
        /\ ex.ldstbp \/ ex.rs2 = regs_ls[rs2id(ex.ins)]
        /\ BehindEx = NextOf(ex.ins, ex.diffpc, regs_ls)
    /\ ex.ldstbp => sten(ex.ins) /\ lden(ls.ins) /\ Writes(ls, rs2id(ex.ins))

\* What the store bypass cannot do.
NoLoadStoreSame ==
    ~(/\ lden(ex.ins) /\ sten(id.ins)
      /\ Writes(ex, id.ins.rs1) /\ Writes(ex, id.ins.rs2))

\* Every stage holds what its instruction would find if those ahead of it had
\* completed.
PipeInv ==
    /\ TypeOK
    /\ rf[x0] = Zero
    /\ Bubbles
    /\ LsOperands
    /\ ExOperands
    /\ NoLoadStoreSame
=============================================================================
