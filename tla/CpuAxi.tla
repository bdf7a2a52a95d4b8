------------------------------- MODULE CpuAxi -------------------------------
(***************************************************************************)
(* projects/cpu_axi_diff: the five-stage pipeline behind the bus of        *)
(* AxiBus, with traps (csr.sv) and the reports it gives difftest, and the  *)
(* reference model difftest.cpp compares it with.  One step is one clock   *)
(* edge.                                                                   *)
(*                                                                         *)
(* The bus is reduced to two inputs: f, the fetch completes in this cycle, *)
(* and m, the load or store in MEM completes.  The memory's timing is the  *)
(* guard MayFetch.  The third input, t, is clint.sv's mtime_int.           *)
(*                                                                         *)
(* A stage register keeps its contents when its valid bit falls, and much  *)
(* of the processor looks at contents only; registers and valid bits are   *)
(* therefore modelled apart.                                               *)
(***************************************************************************)
EXTENDS RvSys

CONSTANTS
    PC_START,
    JalrTar0,       \* i_rf1 + i_imm of bru.sv when simulation starts
    CsrReset,       \* the CSRs after reset
    TimerFires,     \* mtime reaches mtimecmp
    Avoids          \* what the program refrains from, see Avoided

VARIABLES
    pc, delay, jalr_bp_tar,     \* bru.sv: the address after if_pc
    if_pc,                      \* ifu.o_pc: the address being fetched
    keep,                       \* csr.sv: the next fetched word is dropped
    id, id_valid,               \* pipe_if_id
    ex, ex_valid,               \* pipe_id_ex
    ls, ls_valid,               \* pipe_ex_ls
    wb, wb_valid,               \* pipe_ls_wb
    rf, csr, ram,
    old,                        \* cpu.sv old_ins, old_pc
    cmt,                        \* what difftest has been told of the last cycle
    ref                         \* the reference model

vars == <<pc, delay, jalr_bp_tar, if_pc, keep, id, id_valid, ex, ex_valid,
          ls, ls_valid, wb, wb_valid, rf, csr, ram, old, cmt, ref>>

ASSUME CpuAxiAssumption ==
    /\ PC_START \in Value /\ JalrTar0 \in Value
    /\ CsrReset \in [Csrs -> Value]
    /\ TimerFires \in BOOLEAN

----------------------------------------------------------------------------
(* Handshakes.                                                             *)

Writes(s, r) == o_rdwen(s.ins) /\ s.ins.rd = r

visit_axi       == lden(ls.ins) \/ sten(ls.ins)
axi_mem_valid   == ls_valid /\ visit_axi
mem_wb_valid(m) == IF visit_axi THEN axi_mem_valid /\ m ELSE ls_valid
mem_ready(f)    == ~wb_valid \/ f
ex_ready(f, m)  == ~ls_valid \/ (mem_wb_valid(m) /\ mem_ready(f))
id_ready(f, m)  == ~ex_valid \/ ex_ready(f, m)
br_handshake(f, m) == id_valid /\ id_ready(f, m)

----------------------------------------------------------------------------
(* bypass.sv: the operands of the instruction in ID.                       *)

exu_exres == exu_res(ex.ins, ex.pc, ex.rs1, ex.rs2)
lsu_lsres == ram[WordOf[ls.exres]]

o_idu_rs(r, m) ==
    IF ex_valid /\ ~lden(ex.ins) /\ Writes(ex, r) THEN exu_exres
    ELSE IF mem_wb_valid(m) /\ Writes(ls, r)
         THEN IF lden(ls.ins) THEN lsu_lsres ELSE ls.exres
    ELSE IF wb_valid /\ Writes(wb, r)             THEN wb.rd
    ELSE rf[r]

idu_rs1(m) == o_idu_rs(rs1id(id.ins), m)
idu_rs2(m) == o_idu_rs(rs2id(id.ins), m)

o_idu_ldstbp == lden(ex.ins) /\ Writes(ex, rs2id(id.ins)) /\ sten(id.ins)

\* Mutant: the load in EX is believed even when the register is empty.
o_ifid_stall_Stale ==
    /\ lden(ex.ins)
    /\ Writes(ex, rs1id(id.ins)) \/ Writes(ex, rs2id(id.ins))
    /\ ~o_idu_ldstbp

\* Only a load whose own source and destination agree meets itself here.
o_ifid_stall ==
    /\ ex_valid /\ lden(ex.ins)
    /\ Writes(ex, rs1id(id.ins)) \/ Writes(ex, rs2id(id.ins))
    /\ ~o_idu_ldstbp

\* The store in EX looks its data up again, as the instruction in ID.
o_exu_rs2(m) == IF ex.ldstbp THEN idu_rs2(m) ELSE ex.rs2

----------------------------------------------------------------------------
(* csr.sv: traps, for the contents of WB.                                  *)

except_en   == is_ecall(wb.ins)
mret        == is_mret(wb.ins)
ecall(f)    == f /\ except_en
time_int    == wb.mtime_int /\ MIE(csr["mstatus"]) /\ MTIE(csr["mie"]) /\ wb.ins # Bubble
interrupt_en(f) == f /\ MTIE(csr["mie"]) /\ wb.ins # Bubble

flush(f) == ecall(f) \/ (interrupt_en(f) /\ time_int) \/ mret

\* The interrupt takes effect in the CSRs.
int_taken(f) == wb.mtime_int /\ MIE(csr["mstatus"]) /\ interrupt_en(f)

csr_write(c) == is_csr(wb.ins) /\ wb.ins.csr = c

csr_next(f) ==
    [c \in Csrs |->
      IF c = "mstatus"
      THEN IF MIE(csr[c]) /\ (except_en \/ int_taken(f))   THEN Trap(csr[c])
           ELSE IF csr_write(c) /\ ~time_int /\ f          THEN wb.csr_res
           ELSE IF mret                                    THEN Return(csr[c])
           ELSE csr[c]
      ELSE IF c = "mie"
      THEN IF csr_write(c) /\ f THEN wb.csr_res ELSE csr[c]
      ELSE IF c = "mtvec"
      THEN IF csr_write(c) THEN wb.csr_res ELSE csr[c]
      ELSE IF int_taken(f) THEN IF c = "mepc" THEN wb.pc ELSE TimerCode
      ELSE IF except_en    THEN IF c = "mepc" THEN ex.pc ELSE EcallCode
      ELSE IF csr_write(c) THEN wb.csr_res
      ELSE csr[c]]

\* What the *_diff wires show difftest.
csr_diff(f) ==
    [c \in Csrs |->
      IF c = "mstatus"
      THEN IF csr_write(c) /\ ~time_int /\ f               THEN wb.csr_res
           ELSE IF MIE(csr[c]) /\ (except_en \/ int_taken(f)) THEN Trap(csr[c])
           ELSE IF mret                                    THEN Return(csr[c])
           ELSE csr[c]
      ELSE IF c \in {"mie", "mtvec"}
      THEN IF csr_write(c) THEN wb.csr_res ELSE csr[c]
      ELSE IF except_en    THEN IF c = "mepc" THEN ex.pc ELSE EcallCode
      ELSE IF csr_write(c) THEN wb.csr_res
      ELSE IF int_taken(f) THEN IF c = "mepc" THEN wb.pc ELSE TimerCode
      ELSE csr[c]]

----------------------------------------------------------------------------
(* bru.sv                                                                  *)

jumping(m) == jump(id.ins, idu_rs1(m), idu_rs2(m))
jalr_bp    == id.ins.op = "JALR" /\ id.ins.rs1 = id.ins.rd

jalr_bp_tar_i == IF InitOnce THEN JalrTar0 ELSE Add(rf[rs1id(id.ins)], id.ins.imm)

\* Mutant: the target of a jalr that overwrites its base is not kept.
next_pc_NoJalrReg(m) ==
    IF ~jumping(m)              THEN Add(pc, Four)
    ELSE IF id.ins.op # "JALR"  THEN Add(id.pc, id.ins.imm)
    ELSE Add(idu_rs1(m), id.ins.imm)

next_pc(m) ==
    IF ~jumping(m)              THEN Add(pc, Four)
    ELSE IF id.ins.op # "JALR"  THEN Add(id.pc, id.ins.imm)
    ELSE IF jalr_bp             THEN jalr_bp_tar
    ELSE Add(idu_rs1(m), id.ins.imm)

pc_wen(f, m) == (br_handshake(f, m) \/ jumping(m) \/ delay) /\ ~o_ifid_stall /\ ~keep

Bru(f, m) ==
    /\ pc' = IF flush(f) /\ (ecall(f) \/ time_int)    THEN csr["mtvec"]
             ELSE IF flush(f) /\ is_mret(id.ins)      THEN csr["mepc"]
             ELSE IF pc_wen(f, m)                     THEN next_pc(m)
             ELSE pc
    /\ delay' = (jumping(m) /\ br_handshake(f, m))
    /\ jalr_bp_tar' = IF jalr_bp /\ br_handshake(f, m) THEN jalr_bp_tar_i ELSE jalr_bp_tar

----------------------------------------------------------------------------
(* ifu.sv, pipe_if_id.sv, and keep of csr.sv.                              *)

if_ready(f, m) == (~id_valid \/ id_ready(f, m)) /\ ~o_ifid_stall

\* Defects of the processor that a program can stay clear of.
Avoided(i) ==
    LET enabled == MIE(csr'["mstatus"]) /\ MTIE(csr'["mie"])
    IN  \/ "ecall_masked" \in Avoids /\ is_ecall(i) /\ ~MIE(csr'["mstatus"])
        \/ "ecall_interrupted" \in Avoids /\ is_ecall(i) /\ enabled
        \/ "mret_interrupted" \in Avoids /\ is_mret(i) /\ enabled
        \/ "store_interrupted" \in Avoids /\ sten(i) /\ enabled
        \/ "csr_interrupted" \in Avoids /\ is_csr(i) /\ i.csr # "mstatus" /\ enabled
        \/ "csrrw_rd" \in Avoids /\ i.op \in {"CSRRW", "CSRRWI"} /\ i.rd # x0
        \/ "csrrc_high" \in Avoids /\ i.op = "CSRRC"

\* Mutant: nothing ends the discarding of fetched words.
Fetch_KeepForever(f, m) ==
    /\ if_pc' = IF flush(f) THEN NoPc ELSE IF f THEN pc ELSE if_pc
    /\ keep' = (flush(f) \/ keep)
    /\ id_valid' = IF if_ready(f, m) THEN f ELSE id_valid
    /\ IF flush(f)
       THEN id' = [ins |-> Bubble, pc |-> NoPc]
       ELSE IF ~(if_ready(f, m) /\ f)
       THEN id' = id
       ELSE IF jumping(m) \/ keep
       THEN id' = [ins |-> Bubble, pc |-> if_pc]
       ELSE \E i \in Program[if_pc] \cup System[if_pc] :
              ~Avoided(i) /\ id' = [ins |-> i, pc |-> if_pc]

Fetch(f, m) ==
    /\ if_pc' = IF flush(f) THEN NoPc ELSE IF f THEN pc ELSE if_pc
    /\ keep' = (flush(f) \/ (keep /\ ~f))
    /\ id_valid' = IF if_ready(f, m) THEN f ELSE id_valid
    /\ IF flush(f)
       THEN id' = [ins |-> Bubble, pc |-> NoPc]
       ELSE IF ~(if_ready(f, m) /\ f)
       THEN id' = id
       ELSE IF jumping(m) \/ keep
       THEN id' = [ins |-> Bubble, pc |-> if_pc]
       ELSE \E i \in Program[if_pc] \cup System[if_pc] : ~Avoided(i) /\ id' = [ins |-> i, pc |-> if_pc]

----------------------------------------------------------------------------
(* The other pipeline registers.                                           *)

\* pipe_id_ex.sv
Decode(f, m, t) ==
    /\ ex_valid' = IF id_ready(f, m) THEN id_valid ELSE ex_valid
    /\ ex' = IF flush(f)
             THEN [ins |-> Bubble, pc |-> NoPc, rs1 |-> Zero, rs2 |-> Zero,
                   ldstbp |-> FALSE, mtime_int |-> FALSE]
             ELSE IF br_handshake(f, m)
             THEN [ins |-> IF o_ifid_stall THEN Bubble ELSE id.ins, pc |-> id.pc,
                   rs1 |-> idu_rs1(m), rs2 |-> idu_rs2(m),
                   ldstbp |-> o_idu_ldstbp, mtime_int |-> t]
             ELSE ex

\* idu.sv: exu.sv takes the operand of a CSR instruction from ID.
id_csr_wdata == IF id.ins.op \in CsrImms THEN id.ins.imm ELSE rf[rs1id(id.ins)]

\* exu.sv, pipe_ex_ls.sv
Execute(f, m) ==
    /\ ls_valid' = IF ex_ready(f, m) THEN ex_valid ELSE ls_valid
    /\ ls' = IF flush(f)
             THEN [ins |-> Bubble, pc |-> NoPc, exres |-> Zero, rs2 |-> Zero,
                   csr_data |-> Zero, csr_res |-> Zero, mtime_int |-> FALSE]
             ELSE IF ex_valid /\ ex_ready(f, m)
             THEN LET data == IF is_csr(ex.ins) THEN csr[ex.ins.csr] ELSE Zero
                  IN [ins |-> ex.ins, pc |-> ex.pc, exres |-> exu_exres,
                      rs2 |-> o_exu_rs2(m), csr_data |-> data,
                      csr_res |-> IF is_csr(ex.ins)
                                  THEN csr_data_res(ex.ins, data, id_csr_wdata) ELSE Zero,
                      mtime_int |-> ex.mtime_int]
             ELSE ls

\* lsu.sv, pipe_ls_wb.sv, wbu.sv
Memory(f, m) ==
    /\ wb_valid' = IF mem_ready(f) THEN mem_wb_valid(m) ELSE wb_valid
    /\ wb' = IF flush(f)
             THEN [ins |-> Bubble, pc |-> NoPc, rd |-> Zero, csr_res |-> Zero,
                   mtime_int |-> FALSE]
             ELSE IF mem_wb_valid(m) /\ mem_ready(f)
             THEN [ins |-> ls.ins, pc |-> ls.pc,
                   rd |-> IF csr_to_rf(ls.ins)  THEN ls.csr_data
                          ELSE IF lden(ls.ins)  THEN lsu_lsres
                          ELSE ls.exres,
                   csr_res |-> ls.csr_res, mtime_int |-> ls.mtime_int]
             ELSE wb
    /\ ram' = IF axi_mem_valid /\ m /\ sten(ls.ins)
              THEN [ram EXCEPT ![WordOf[ls.exres]] = ls.rs2] ELSE ram

\* Mutant: an interrupted instruction still writes its register.
rf_wen_Interrupted(f) == (o_rdwen(wb.ins) \/ csr_to_rf(wb.ins)) /\ wb_valid /\ f

\* bypass.sv rf_wen, regfile.sv
rf_wen(f) == (o_rdwen(wb.ins) \/ csr_to_rf(wb.ins)) /\ wb_valid /\ f /\ ~flush(f)

\* Mutant: register 0 can be written.
WriteBack_X0(f) ==
    /\ rf' = IF rf_wen(f) THEN [rf EXCEPT ![wb.ins.rd] = wb.rd] ELSE rf
    /\ csr' = csr_next(f)

WriteBack(f) ==
    /\ rf' = IF rf_wen(f) THEN SetReg(rf, wb.ins.rd, wb.rd) ELSE rf
    /\ csr' = csr_next(f)

----------------------------------------------------------------------------
(* What difftest is told of the cycle, and what it does.                   *)

NoCommit == [kind |-> "none"]

\* cpu.sv: the commit filter knows an instruction again by its address.
inst_valid(f) ==
    /\ \/ /\ wb_valid /\ f
          /\ old # [ins |-> wb.ins, pc |-> wb.pc]
          /\ wb.ins # Bubble /\ wb.pc # NoPc
       \/ flush(f)
    /\ ~(f /\ time_int)

intrNO(f) == f /\ time_int

Difftest(f, m) ==
    /\ old' = IF f \/ (axi_mem_valid /\ m) THEN [ins |-> wb.ins, pc |-> wb.pc] ELSE old
    /\ cmt' = IF intrNO(f) \/ inst_valid(f)
              THEN [kind |-> IF intrNO(f) THEN "interrupt" ELSE "commit",
                    pc |-> wb.pc, ref_pc |-> ref.pc,
                    regs |-> IF rf_wen(f) THEN SetReg(rf, wb.ins.rd, wb.rd) ELSE rf,
                    csr |-> csr_diff(f)]
              ELSE NoCommit
    /\ ref' = IF intrNO(f)          THEN Trapped(ref, TimerCode)
              ELSE IF inst_valid(f) THEN Executed(ref, wb.ins)
              ELSE ref

----------------------------------------------------------------------------

\* The memory's timing, as in AxiSys: when a fetch completes, the word fetched
\* before it is in WB, or gone.
MayFetch == ~o_ifid_stall /\ ~id_valid /\ ~ex_valid /\ ~ls_valid

Edge(f, m, t) ==
    /\ f => MayFetch
    /\ m => axi_mem_valid
    /\ t => TimerFires
    /\ Bru(f, m)
    /\ WriteBack(f)
    /\ Fetch(f, m)
    /\ Decode(f, m, t)
    /\ Execute(f, m)
    /\ Memory(f, m)
    /\ Difftest(f, m)

Next == \E f, m, t \in BOOLEAN : Edge(f, m, t)

Init ==
    /\ pc = PC_START /\ if_pc = PC_START
    /\ delay = FALSE /\ jalr_bp_tar = PC_START /\ keep = FALSE
    /\ id = [ins |-> Bubble, pc |-> NoPc] /\ id_valid = FALSE
    /\ ex = [ins |-> Bubble, pc |-> NoPc, rs1 |-> Zero, rs2 |-> Zero,
             ldstbp |-> FALSE, mtime_int |-> FALSE] /\ ex_valid = FALSE
    /\ ls = [ins |-> Bubble, pc |-> NoPc, exres |-> Zero, rs2 |-> Zero,
             csr_data |-> Zero, csr_res |-> Zero, mtime_int |-> FALSE] /\ ls_valid = FALSE
    /\ wb = [ins |-> Bubble, pc |-> NoPc, rd |-> Zero, csr_res |-> Zero,
             mtime_int |-> FALSE] /\ wb_valid = FALSE
    /\ rf \in [Regs -> Value] /\ rf[x0] = Zero
    /\ csr = CsrReset
    /\ ram \in [Words -> Value]
    /\ old = [ins |-> Bubble, pc |-> NoPc]
    /\ cmt = NoCommit
    /\ ref = [pc |-> PC_START, regs |-> rf, mem |-> ram, csr |-> csr]

Fairness ==
    /\ WF_vars(\E t \in BOOLEAN : Edge(FALSE, FALSE, t))
    /\ WF_vars(\E m, t \in BOOLEAN : Edge(TRUE, m, t))
    /\ WF_vars(\E f, t \in BOOLEAN : Edge(f, TRUE, t))

Spec     == Init /\ [][Next]_vars
FairSpec == Spec /\ Fairness

----------------------------------------------------------------------------
(* Properties.                                                             *)

Stage == [ins : Instr \cup SysInstr \cup {Bubble}, pc : Value \cup {NoPc}]

\* Register 0 stays zero (regfile.sv), program counters stay addresses, the
\* flushed registers of the pipe_*.sv stay well formed.
TypeOK ==
    /\ pc \in Value /\ jalr_bp_tar \in Value /\ if_pc \in Value \cup {NoPc}
    /\ {delay, keep, id_valid, ex_valid, ls_valid, wb_valid} \subseteq BOOLEAN
    /\ {[ins |-> s.ins, pc |-> s.pc] : s \in {id, ex, ls, wb, old}} \subseteq Stage
    /\ {ex.rs1, ex.rs2, ls.exres, ls.rs2, ls.csr_data, ls.csr_res,
        wb.rd, wb.csr_res} \subseteq Value
    /\ {ex.ldstbp, ex.mtime_int, ls.mtime_int, wb.mtime_int} \subseteq BOOLEAN
    /\ rf \in [Regs -> Value] /\ rf[x0] = Zero
    /\ csr \in [Csrs -> Value]
    /\ ram \in [Words -> Value]
    /\ ref \in [pc : Value, regs : [Regs -> Value], mem : [Words -> Value],
                csr : [Csrs -> Value]]

\* What Difftest::step compares after every report ("different at pc"): after
\* each instruction and interrupt cpu.sv reports, the address, the registers
\* and the CSRs are those of the reference model.
DifftestAgrees ==
    cmt.kind # "none" => /\ cmt.pc = cmt.ref_pc
                         /\ cmt.regs = ref.regs
                         /\ cmt.csr = ref.csr

\* What difftest does not compare: with nothing in WB, memory (lsu.sv) and the
\* register file (regfile.sv) are those of the reference model.
StateAgrees ==
    ~wb_valid => ram = ref.mem /\ rf = ref.regs

\* What AxiSys assumes of the pipeline (pipe_*.sv, bypass.sv): a load or store
\* in MEM is the only instruction in flight, and only a load in EX, taken for
\* its own successor in ID, withdraws the fetch.
RequestContract ==
    /\ axi_mem_valid => ~id_valid /\ ~ex_valid /\ ~wb_valid
    /\ o_ifid_stall => ~id_valid /\ lden(ex.ins) /\ ~ls_valid

\* Instructions keep being reported to difftest, whatever csr.sv flushes and
\* keep discards ("no instruction commits ... maybe get stuck").
KeepsCommitting == []<>(cmt.kind # "none")

----------------------------------------------------------------------------
(* The inductive invariant behind RequestContract: the pipeline holds one  *)
(* instruction at a time.                                                  *)

OneAtATime ==
    /\ id_valid \in BOOLEAN /\ ex_valid \in BOOLEAN
    /\ ls_valid \in BOOLEAN /\ wb_valid \in BOOLEAN
    /\ id_valid => ~ex_valid /\ ~ls_valid /\ ~wb_valid
    /\ ex_valid => ~ls_valid /\ ~wb_valid
    /\ ls_valid => ~wb_valid

----------------------------------------------------------------------------
(* What the pipeline and the reference model need to agree.                *)

\* A program without system instructions, or one that refrains from all that
\* Avoided names.
Careful ==
    \/ {"ecall_masked", "ecall_interrupted", "mret_interrupted", "store_interrupted",
        "csr_interrupted", "csrrw_rd", "csrrc_high"} \subseteq Avoids
    \/ \A v \in Value : System[v] = {}

\* The word at PC_START goes through the pipeline twice, unless it jumps: it
\* does not change what it reads, and no interrupt can fall between.
RepeatableStart ==
    /\ \E i \in Instr : /\ Program[PC_START] = {i}
                        /\ i.op \in {"JAL", "JALR"} \/ (rdwen(i) => i.rd \notin {rs1id(i), rs2id(i)})
    /\ System[PC_START] = {}
    /\ ~MTIE(CsrReset["mie"])

\* An instruction is not its own successor, a trap disables interrupts, and
\* an immediate of csrrci has low bits only.
Arithmetic ==
    /\ \A v \in Value : Add(v, Four) # v
    /\ \A v \in Value : ~MIE(Trap(v))
    /\ \A v \in Value : \A i \in System[v] : i.op = "CSRRCI" =>
          \A d \in Value : Or(AndNot(d, LowBits(d)), LowBits(AndNot(d, i.imm))) = AndNot(d, i.imm)

Conditions == ~InitOnce /\ Careful /\ RepeatableStart /\ Arithmetic
=============================================================================
