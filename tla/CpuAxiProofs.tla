---------------------------- MODULE CpuAxiProofs ----------------------------
(***************************************************************************)
(* Proofs about CpuAxi for every program, every set of values and every    *)
(* behaviour of the timer.                                                 *)
(***************************************************************************)
EXTENDS CpuAxi, TLAPS

\* A clock edge moves the one instruction on, or takes in the next.
LEMMA EdgeOneAtATime ==
    ASSUME OneAtATime, NEW f \in BOOLEAN, NEW m \in BOOLEAN, NEW t \in BOOLEAN,
           Edge(f, m, t)
    PROVE  OneAtATime'
  <1>1. /\ f => ~id_valid /\ ~ex_valid /\ ~ls_valid
        /\ m => ls_valid
    BY DEF Edge, MayFetch, axi_mem_valid
  <1>2. /\ id_valid' = IF if_ready(f, m) THEN f ELSE id_valid
        /\ ex_valid' = IF id_ready(f, m) THEN id_valid ELSE ex_valid
        /\ ls_valid' = IF ex_ready(f, m) THEN ex_valid ELSE ls_valid
        /\ wb_valid' = IF mem_ready(f) THEN mem_wb_valid(m) ELSE wb_valid
    BY DEF Edge, Fetch, Decode, Execute, Memory
  <1>3. mem_wb_valid(m) \in BOOLEAN /\ (mem_wb_valid(m) => ls_valid)
    BY DEF mem_wb_valid, axi_mem_valid, OneAtATime
  <1>4. /\ o_ifid_stall => ex_valid
        /\ mem_ready(f) <=> ~wb_valid \/ f
        /\ ex_ready(f, m) <=> ~ls_valid \/ (mem_wb_valid(m) /\ mem_ready(f))
        /\ id_ready(f, m) <=> ~ex_valid \/ ex_ready(f, m)
        /\ if_ready(f, m) <=> (~id_valid \/ id_ready(f, m)) /\ ~o_ifid_stall
    BY DEF o_ifid_stall, mem_ready, ex_ready, id_ready, if_ready
  <1>5. QED
    BY <1>1, <1>2, <1>3, <1>4 DEF OneAtATime

\* The pipeline never holds two instructions, whatever the registers that
\* keep their contents say.
THEOREM OneInPipeline == Spec => []OneAtATime
  <1>1. Init => OneAtATime
    BY DEF Init, OneAtATime
  <1>2. OneAtATime /\ [Next]_vars => OneAtATime'
    <2>1. CASE UNCHANGED vars
      BY <2>1 DEF vars, OneAtATime
    <2>2. CASE Next
      BY <2>2, EdgeOneAtATime DEF Next
    <2>3. QED
      BY <2>1, <2>2
  <1>3. QED
    BY <1>1, <1>2, PTL DEF Spec

\* What the bus may rely on: a load or store has the pipeline for itself, and
\* only a load in EX withdraws the fetch.
THEOREM ContractKept == Spec => []RequestContract
  <1>1. OneAtATime => RequestContract
    BY DEF OneAtATime, RequestContract, axi_mem_valid, o_ifid_stall
  <1>2. QED
    BY <1>1, OneInPipeline, PTL

----------------------------------------------------------------------------
(* Instructions and values.                                                *)

AnyIns == Instr \cup SysInstr \cup {Bubble}

LEMMA InsTyped ==
    ASSUME NEW i \in AnyIns
    PROVE  /\ i.rd \in Regs /\ i.rs1 \in Regs /\ i.rs2 \in Regs /\ i.imm \in Value
           /\ rs1id(i) \in Regs /\ rs2id(i) \in Regs
           /\ i.op \in Ops \cup CsrRegs \cup CsrImms \cup {"ECALL", "MRET", "NONE"}
           /\ i = Bubble <=> i.op = "NONE"
           /\ is_csr(i) => i.csr \in Csrs
  <1>1. CASE i \in Instr
    BY <1>1, RvAssumption DEF Instr, Ops, Bubble, rs1id, rs2id, is_csr, CsrRegs, CsrImms
  <1>2. CASE i \in SysInstr
    BY <1>2, RvAssumption DEF SysInstr, Ops, Bubble, rs1id, rs2id, is_csr, CsrRegs, CsrImms
  <1>3. CASE i = Bubble
    BY <1>3, RvAssumption DEF Bubble, Ops, rs1id, rs2id, is_csr, CsrRegs, CsrImms
  <1>4. QED
    BY <1>1, <1>2, <1>3 DEF AnyIns

LEMMA ResultTyped ==
    ASSUME NEW i \in AnyIns, NEW p \in Value \cup {NoPc}, i # Bubble => p \in Value,
           NEW a \in Value, NEW b \in Value
    PROVE  /\ exu_res(i, p, a, b) \in Value
           /\ i # Bubble => jump_pc(i, p, a) \in Value
           /\ jump(i, a, b) \in BOOLEAN
  BY InsTyped, RvAssumption DEF exu_res, jump_pc, jump

LEMMA SetRegTyped ==
    ASSUME NEW regs \in [Regs -> Value], regs[x0] = Zero, NEW r \in Regs, NEW v \in Value
    PROVE  SetReg(regs, r, v) \in [Regs -> Value] /\ SetReg(regs, r, v)[x0] = Zero
  BY RvAssumption DEF SetReg

RefStates == [pc : Value, regs : [Regs -> Value], mem : [Words -> Value], csr : [Csrs -> Value]]

LEMMA TrappedTyped ==
    ASSUME NEW s \in RefStates, NEW code \in Value
    PROVE  Trapped(s, code) \in RefStates
  BY SysAssumption DEF Trapped, RefStates, Csrs

LEMMA ExecutedTyped ==
    ASSUME NEW s \in RefStates, NEW i \in AnyIns, i # Bubble
    PROVE  Executed(s, i) \in RefStates
  <1> DEFINE rs1  == s.regs[i.rs1]
             rs2  == s.regs[i.rs2]
             next == IF jump(i, rs1, rs2) THEN jump_pc(i, s.pc, rs1) ELSE Add(s.pc, Four)
             a    == WordOf[Add(rs1, i.imm)]
  <1>1. /\ rs1 \in Value /\ rs2 \in Value /\ next \in Value
        /\ s.pc \in Value /\ s.regs \in [Regs -> Value]
        /\ s.mem \in [Words -> Value] /\ s.csr \in [Csrs -> Value]
        /\ a \in Words /\ exu_res(i, s.pc, rs1, rs2) \in Value
    BY InsTyped, ResultTyped, RvAssumption DEF RefStates
  <1>2. CASE is_ecall(i)
    BY <1>2, TrappedTyped, SysAssumption DEF Executed
  <1>3. CASE ~is_ecall(i) /\ is_mret(i)
    BY <1>3, <1>1, SysAssumption DEF Executed, RefStates, Csrs
  <1>4. CASE ~is_ecall(i) /\ ~is_mret(i) /\ is_csr(i)
    <2>1. /\ i.csr \in Csrs /\ i.rd \in Regs /\ s.csr[i.csr] \in Value
      BY <1>4, <1>1, InsTyped
    <2>2. SetReg(s.regs, i.rd, s.csr[i.csr]) \in [Regs -> Value]
      BY <2>1, <1>1 DEF SetReg
    <2>3. CsrOp(i, s.csr[i.csr], IF i.op \in CsrImms THEN i.imm ELSE rs1) \in Value
      BY <2>1, <1>1, InsTyped, SysAssumption DEF CsrOp
    <2>4. QED
      BY <1>4, <1>1, <2>1, <2>2, <2>3 DEF Executed, RefStates
  <1>5. CASE ~is_ecall(i) /\ ~is_mret(i) /\ ~is_csr(i)
    <2>1. i.rd \in Regs
      BY InsTyped
    <2>2. QED
      BY <1>5, <1>1, <2>1 DEF Executed, RefStates
  <1>6. QED
    BY <1>2, <1>3, <1>4, <1>5

----------------------------------------------------------------------------
(* Types. The instruction in flight is the one whose word ID still holds:   *)
(* the contents of every stage it has reached are its own.                  *)

InLs == ~id_valid /\ ~ex_valid
InWb == ~id_valid /\ ~ex_valid /\ ~ls_valid

Follows ==
    /\ ~id_valid => ex.ins = id.ins /\ ex.pc = id.pc
    /\ InLs => ls.ins = id.ins /\ ls.pc = id.pc
    /\ InWb => wb.ins = id.ins /\ wb.pc = id.pc
    /\ ~InWb => ~is_ecall(wb.ins) /\ ~is_mret(wb.ins)
    /\ id.ins # Bubble => id.pc \in Value
    /\ if_pc = NoPc => keep

Typed ==
    /\ pc \in Value /\ jalr_bp_tar \in Value /\ if_pc \in Value \cup {NoPc}
    /\ delay \in BOOLEAN /\ keep \in BOOLEAN
    /\ id_valid \in BOOLEAN /\ ex_valid \in BOOLEAN
    /\ ls_valid \in BOOLEAN /\ wb_valid \in BOOLEAN
    /\ id.ins \in AnyIns /\ id.pc \in Value \cup {NoPc}
    /\ ex.ins \in AnyIns /\ ex.pc \in Value \cup {NoPc}
    /\ ls.ins \in AnyIns /\ ls.pc \in Value \cup {NoPc}
    /\ wb.ins \in AnyIns /\ wb.pc \in Value \cup {NoPc}
    /\ old.ins \in AnyIns /\ old.pc \in Value \cup {NoPc}
    /\ ex.rs1 \in Value /\ ex.rs2 \in Value
    /\ ls.exres \in Value /\ ls.rs2 \in Value /\ ls.csr_data \in Value /\ ls.csr_res \in Value
    /\ wb.rd \in Value /\ wb.csr_res \in Value
    /\ ex.ldstbp \in BOOLEAN /\ ex.mtime_int \in BOOLEAN
    /\ ls.mtime_int \in BOOLEAN /\ wb.mtime_int \in BOOLEAN
    /\ rf \in [Regs -> Value] /\ rf[x0] = Zero
    /\ csr \in [Csrs -> Value]
    /\ ram \in [Words -> Value]
    /\ ref \in RefStates

LEMMA TypeParts == TypeOK <=> Typed
  <1>1. \A s : [ins |-> s.ins, pc |-> s.pc] \in Stage
                 <=> s.ins \in AnyIns /\ s.pc \in Value \cup {NoPc}
    BY DEF Stage, AnyIns
  <1>2. {[ins |-> s.ins, pc |-> s.pc] : s \in {id, ex, ls, wb, old}} \subseteq Stage
          <=> \A s \in {id, ex, ls, wb, old} : s.ins \in AnyIns /\ s.pc \in Value \cup {NoPc}
    BY <1>1
  <1>3. QED
    BY <1>2 DEF TypeOK, Typed, RefStates

FlightInv == OneAtATime /\ Follows

\* When a fetch completes, and when a stage is flushed, the instruction in
\* flight is in WB.
LEMMA WhenInWb ==
    ASSUME FlightInv, NEW f \in BOOLEAN, f => MayFetch
    PROVE  /\ f => InWb
           /\ flush(f) => InWb
  BY DEF FlightInv, Follows, MayFetch, InWb, flush, ecall, interrupt_en, mret

LEMMA OperandsTyped ==
    ASSUME Typed, FlightInv, NEW m \in BOOLEAN
    PROVE  /\ idu_rs1(m) \in Value /\ idu_rs2(m) \in Value
           /\ ex_valid => exu_exres \in Value
           /\ lsu_lsres \in Value
  <1>1. ex_valid => exu_exres \in Value
    BY ResultTyped DEF Typed, FlightInv, Follows, OneAtATime, exu_exres
  <1>2. lsu_lsres \in Value
    BY RvAssumption DEF Typed, lsu_lsres
  <1>3. \A r \in Regs : o_idu_rs(r, m) \in Value
    BY <1>1, <1>2 DEF o_idu_rs, Typed
  <1>4. QED
    BY <1>1, <1>2, <1>3, InsTyped DEF idu_rs1, idu_rs2, Typed

LEMMA CsrNextTyped ==
    ASSUME Typed, FlightInv, NEW f \in BOOLEAN, f => MayFetch
    PROVE  csr_next(f) \in [Csrs -> Value]
  <1>1. except_en => ex.pc \in Value
    BY DEF FlightInv, Follows, except_en, is_ecall, InWb, Typed, Bubble
  <1>2. int_taken(f) => wb.pc \in Value
    BY WhenInWb DEF FlightInv, Follows, int_taken, interrupt_en, InWb, Typed
  <1>3. /\ csr \in [Csrs -> Value] /\ wb.csr_res \in Value
        /\ EcallCode \in Value /\ TimerCode \in Value
        /\ \A v \in Value : Trap(v) \in Value /\ Return(v) \in Value
    BY SysAssumption DEF Typed
  <1>4. ASSUME NEW c \in Csrs
        PROVE  csr_next(f)[c] \in Value
    BY <1>1, <1>2, <1>3 DEF csr_next
  <1>5. QED
    BY <1>4 DEF csr_next

LEMMA EdgeWords ==
    ASSUME Typed, FlightInv, NEW f \in BOOLEAN, NEW m \in BOOLEAN, NEW t \in BOOLEAN,
           Edge(f, m, t)
    PROVE  /\ f => InWb
           /\ flush(f) => InWb
           /\ if_pc' \in Value \cup {NoPc} /\ (if_pc' = NoPc => keep') /\ keep' \in BOOLEAN
           /\ id'.ins \in AnyIns /\ id'.pc \in Value \cup {NoPc}
           /\ id'.ins # Bubble => id'.pc \in Value
           /\ ~flush(f) /\ ~f => id' = id
           /\ flush(f) => id' = [ins |-> Bubble, pc |-> NoPc]
  <1>1. f => MayFetch
    BY DEF Edge
  <1>2. /\ f => InWb
        /\ flush(f) => InWb
    BY <1>1, WhenInWb
  <1>3. Fetch(f, m)
    BY DEF Edge
  <1>4. if_pc' \in Value \cup {NoPc} /\ (if_pc' = NoPc => keep') /\ keep' \in BOOLEAN
    <2>1. /\ if_pc' = IF flush(f) THEN NoPc ELSE IF f THEN pc ELSE if_pc
          /\ keep' = (flush(f) \/ (keep /\ ~f))
      BY <1>3 DEF Fetch
    <2>2. /\ keep \in BOOLEAN /\ (if_pc = NoPc => keep)
          /\ pc \in Value /\ if_pc \in Value \cup {NoPc}
      BY DEF Typed, FlightInv, Follows
    <2>3. QED
      BY <2>1, <2>2, RvAssumption
  <1>5. /\ id'.ins \in AnyIns /\ id'.pc \in Value \cup {NoPc}
        /\ id'.ins # Bubble => id'.pc \in Value
    <2>1. CASE flush(f)
      BY <1>3, <2>1 DEF Fetch, AnyIns
    <2>2. CASE ~flush(f) /\ ~(if_ready(f, m) /\ f)
      BY <1>3, <2>2 DEF Fetch, Typed, FlightInv, Follows
    <2>3. CASE ~flush(f) /\ if_ready(f, m) /\ f /\ (jumping(m) \/ keep)
      BY <1>3, <2>3 DEF Fetch, Typed, AnyIns
    <2>4. CASE ~flush(f) /\ if_ready(f, m) /\ f /\ ~(jumping(m) \/ keep)
      <3>1. PICK i \in Program[if_pc] \cup System[if_pc] : id' = [ins |-> i, pc |-> if_pc]
        BY <1>3, <2>4 DEF Fetch
      <3>2. if_pc \in Value
        BY <2>4 DEF Typed, FlightInv, Follows
      <3>3. i \in AnyIns
        BY <3>2, RvAssumption, SysAssumption DEF AnyIns
      <3>4. QED
        BY <3>1, <3>2, <3>3
    <2>5. QED
      BY <2>1, <2>2, <2>3, <2>4
  <1>6. /\ ~flush(f) /\ ~f => id' = id
        /\ flush(f) => id' = [ins |-> Bubble, pc |-> NoPc]
    BY <1>3 DEF Fetch
  <1>7. QED
    BY <1>2, <1>4, <1>5, <1>6

\* Where the valid bits are after an edge.
LEMMA EdgeMoves ==
    ASSUME FlightInv, Typed, NEW f \in BOOLEAN, NEW m \in BOOLEAN, NEW t \in BOOLEAN,
           Edge(f, m, t)
    PROVE  /\ id_valid => /\ br_handshake(f, m) /\ ~o_ifid_stall
                          /\ ~id_valid' /\ ex_valid' /\ ~f /\ ~m
           /\ ex_valid => ~br_handshake(f, m) /\ ex_ready(f, m) /\ ~id_valid' /\ ~ex_valid'
                          /\ ls_valid' /\ ~f /\ ~m
           /\ ls_valid => /\ ~br_handshake(f, m) /\ ~id_valid' /\ ~ex_valid' /\ mem_ready(f) /\ ~f
                          /\ ls_valid' = ~mem_wb_valid(m) /\ wb_valid' = mem_wb_valid(m)
           /\ InWb => /\ ~br_handshake(f, m) /\ ~mem_wb_valid(m) /\ ~ex_valid' /\ ~ls_valid'
                      /\ id_valid' = f /\ if_ready(f, m) /\ ~o_ifid_stall /\ ~m
                      /\ wb_valid' = (wb_valid /\ ~f)
           /\ ~ls_valid => ~mem_wb_valid(m)
  <1>1. /\ f => ~id_valid /\ ~ex_valid /\ ~ls_valid
        /\ m => ls_valid
        /\ f \in BOOLEAN /\ m \in BOOLEAN
    BY DEF Edge, MayFetch, axi_mem_valid
  <1>2. /\ id_valid' = IF if_ready(f, m) THEN f ELSE id_valid
        /\ ex_valid' = IF id_ready(f, m) THEN id_valid ELSE ex_valid
        /\ ls_valid' = IF ex_ready(f, m) THEN ex_valid ELSE ls_valid
        /\ wb_valid' = IF mem_ready(f) THEN mem_wb_valid(m) ELSE wb_valid
    BY DEF Edge, Fetch, Decode, Execute, Memory
  <1>3. mem_wb_valid(m) \in BOOLEAN /\ (mem_wb_valid(m) => ls_valid)
    BY DEF mem_wb_valid, axi_mem_valid, FlightInv, OneAtATime
  <1>4. /\ o_ifid_stall \in BOOLEAN /\ (o_ifid_stall => ex_valid)
        /\ mem_ready(f) = (~wb_valid \/ f)
        /\ ex_ready(f, m) = (~ls_valid \/ (mem_wb_valid(m) /\ mem_ready(f)))
        /\ id_ready(f, m) = (~ex_valid \/ ex_ready(f, m))
        /\ if_ready(f, m) = ((~id_valid \/ id_ready(f, m)) /\ ~o_ifid_stall)
        /\ br_handshake(f, m) = (id_valid /\ id_ready(f, m))
    BY DEF o_ifid_stall, mem_ready, ex_ready, id_ready, if_ready, br_handshake
  <1>5. QED
    BY <1>1, <1>2, <1>3, <1>4 DEF FlightInv, OneAtATime, InWb

LEMMA EdgeFollows ==
    ASSUME FlightInv, Typed, NEW f \in BOOLEAN, NEW m \in BOOLEAN, NEW t \in BOOLEAN,
           Edge(f, m, t)
    PROVE  Follows'
  <1>1. Decode(f, m, t) /\ Execute(f, m) /\ Memory(f, m)
    BY DEF Edge
  <1>2. CASE flush(f)
    <2>1. /\ id' = [ins |-> Bubble, pc |-> NoPc]
          /\ ex'.ins = Bubble /\ ex'.pc = NoPc
          /\ ls'.ins = Bubble /\ ls'.pc = NoPc
          /\ wb'.ins = Bubble /\ wb'.pc = NoPc
      BY <1>1, <1>2, EdgeWords DEF Decode, Execute, Memory
    <2>2. QED
      BY <2>1, EdgeWords DEF Follows, InLs, InWb, is_ecall, is_mret, Bubble
  <1>3. CASE ~flush(f)
    <2>1. /\ ex' = IF br_handshake(f, m)
                   THEN [ins |-> IF o_ifid_stall THEN Bubble ELSE id.ins, pc |-> id.pc,
                         rs1 |-> idu_rs1(m), rs2 |-> idu_rs2(m),
                         ldstbp |-> o_idu_ldstbp, mtime_int |-> t]
                   ELSE ex
          /\ ~(ex_valid /\ ex_ready(f, m)) => ls' = ls
          /\ ex_valid /\ ex_ready(f, m) => ls'.ins = ex.ins /\ ls'.pc = ex.pc
          /\ ~(mem_wb_valid(m) /\ mem_ready(f)) => wb' = wb
          /\ mem_wb_valid(m) /\ mem_ready(f) => wb'.ins = ls.ins /\ wb'.pc = ls.pc
      BY <1>1, <1>3 DEF Decode, Execute, Memory
    <2>2. CASE id_valid
      BY <2>1, <2>2, <1>3, EdgeWords, EdgeMoves DEF Follows, InLs, InWb, FlightInv, OneAtATime
    <2>3. CASE ex_valid
      BY <2>1, <2>3, <1>3, EdgeWords, EdgeMoves DEF Follows, InLs, InWb, FlightInv, OneAtATime
    <2>4. CASE ls_valid
      BY <2>1, <2>4, <1>3, EdgeWords, EdgeMoves DEF Follows, InLs, InWb, FlightInv, OneAtATime
    <2>5. CASE InWb /\ f
      <3>1. ~is_ecall(wb.ins) /\ ~is_mret(wb.ins)
        BY <1>3, <2>5 DEF flush, ecall, except_en, mret
      <3>2. QED
        BY <2>1, <2>5, <3>1, EdgeWords, EdgeMoves DEF Follows, InLs, InWb
    <2>6. CASE InWb /\ ~f
      BY <2>1, <2>6, <1>3, EdgeWords, EdgeMoves DEF Follows, InLs, InWb, FlightInv
    <2>7. QED
      BY <2>2, <2>3, <2>4, <2>5, <2>6 DEF InWb
  <1>4. QED
    BY <1>2, <1>3

LEMMA EdgeTyped ==
    ASSUME FlightInv, Typed, NEW f \in BOOLEAN, NEW m \in BOOLEAN, NEW t \in BOOLEAN,
           Edge(f, m, t)
    PROVE  Typed'
  <1>1. /\ Bru(f, m) /\ WriteBack(f) /\ Decode(f, m, t) /\ Execute(f, m) /\ Memory(f, m)
        /\ Difftest(f, m)
        /\ f => MayFetch
    BY DEF Edge
  <1>2. /\ idu_rs1(m) \in Value /\ idu_rs2(m) \in Value
        /\ ex_valid => exu_exres \in Value
        /\ lsu_lsres \in Value
    BY OperandsTyped
  <1>3. pc' \in Value /\ jalr_bp_tar' \in Value /\ delay' \in BOOLEAN
    <2>1. csr["mtvec"] \in Value /\ csr["mepc"] \in Value
      BY DEF Typed, Csrs
    <2>2. next_pc(m) \in Value
      <3>1. id.ins.op = "JALR" \/ jumping(m) => id.pc \in Value
        BY DEF FlightInv, Follows, Typed, Bubble, jumping, jump
      <3>2. QED
        BY <1>2, <3>1, InsTyped, RvAssumption DEF next_pc, Typed
    <2>3. jalr_bp_tar_i \in Value
      BY InsTyped, RvAssumption, CpuAxiAssumption DEF jalr_bp_tar_i, Typed
    <2>4. jumping(m) \in BOOLEAN
      BY <1>2, ResultTyped, RvAssumption DEF jumping, Typed, jump
    <2>5. QED
      BY <1>1, <2>1, <2>2, <2>3, <2>4 DEF Bru, Typed, br_handshake
  <1>4. /\ rf' \in [Regs -> Value] /\ rf'[x0] = Zero
        /\ csr' \in [Csrs -> Value]
    <2>1. csr' = csr_next(f) /\ csr_next(f) \in [Csrs -> Value]
      BY <1>1, CsrNextTyped DEF WriteBack
    <2>2. rf' = IF rf_wen(f) THEN SetReg(rf, wb.ins.rd, wb.rd) ELSE rf
      BY <1>1 DEF WriteBack
    <2>3. wb.ins.rd \in Regs
      BY InsTyped DEF Typed
    <2>4. QED
      BY <2>1, <2>2, <2>3, SetRegTyped DEF Typed
  <1>5. /\ ex'.ins \in AnyIns /\ ex'.pc \in Value \cup {NoPc}
        /\ ex'.rs1 \in Value /\ ex'.rs2 \in Value
        /\ ex'.ldstbp \in BOOLEAN /\ ex'.mtime_int \in BOOLEAN
    <2>1. o_idu_ldstbp \in BOOLEAN /\ Bubble \in AnyIns /\ Zero \in Value
      BY RvAssumption DEF o_idu_ldstbp, AnyIns
    <2>2. QED
      BY <1>1, <1>2, <2>1 DEF Decode, Typed
  <1>6. /\ ls'.ins \in AnyIns /\ ls'.pc \in Value \cup {NoPc}
        /\ ls'.exres \in Value /\ ls'.rs2 \in Value /\ ls'.csr_data \in Value
        /\ ls'.csr_res \in Value /\ ls'.mtime_int \in BOOLEAN
    <2> DEFINE data == IF is_csr(ex.ins) THEN csr[ex.ins.csr] ELSE Zero
    <2>1. data \in Value /\ Zero \in Value /\ Bubble \in AnyIns
      BY InsTyped, RvAssumption DEF Typed, AnyIns
    <2>2. id_csr_wdata \in Value
      BY InsTyped DEF Typed, id_csr_wdata
    <2>3. \A v \in Value, w \in Value : csr_data_res(ex.ins, v, w) \in Value
      BY SysAssumption DEF csr_data_res, csrrci
    <2>4. o_exu_rs2(m) \in Value
      BY <1>2 DEF o_exu_rs2, Typed
    <2> HIDE DEF data
    <2>5. CASE flush(f)
      BY <1>1, <2>1, <2>5 DEF Execute
    <2>6. CASE ~flush(f) /\ ex_valid /\ ex_ready(f, m)
      <3>1. ls' = [ins |-> ex.ins, pc |-> ex.pc, exres |-> exu_exres,
                   rs2 |-> o_exu_rs2(m), csr_data |-> data,
                   csr_res |-> IF is_csr(ex.ins)
                               THEN csr_data_res(ex.ins, data, id_csr_wdata) ELSE Zero,
                   mtime_int |-> ex.mtime_int]
        BY <1>1, <2>6 DEF Execute, data
      <3>2. QED
        BY <3>1, <1>2, <2>1, <2>2, <2>3, <2>4, <2>6 DEF Typed
    <2>7. CASE ~flush(f) /\ ~(ex_valid /\ ex_ready(f, m))
      BY <1>1, <2>7 DEF Execute, Typed
    <2>8. QED
      BY <2>5, <2>6, <2>7
  <1>7. /\ wb'.ins \in AnyIns /\ wb'.pc \in Value \cup {NoPc}
        /\ wb'.rd \in Value /\ wb'.csr_res \in Value /\ wb'.mtime_int \in BOOLEAN
        /\ ram' \in [Words -> Value]
    <2>1. Zero \in Value /\ Bubble \in AnyIns
      BY RvAssumption DEF AnyIns
    <2>2. ram' \in [Words -> Value]
      BY <1>1, RvAssumption DEF Memory, Typed
    <2>3. CASE flush(f)
      BY <1>1, <2>1, <2>2, <2>3 DEF Memory
    <2>4. CASE ~flush(f)
      BY <1>1, <1>2, <2>2, <2>4 DEF Memory, Typed
    <2>5. QED
      BY <2>3, <2>4
  <1>8. /\ old'.ins \in AnyIns /\ old'.pc \in Value \cup {NoPc}
        /\ ref' \in RefStates
    <2>1. old'.ins \in AnyIns /\ old'.pc \in Value \cup {NoPc}
      <3>1. old' = IF f \/ (axi_mem_valid /\ m) THEN [ins |-> wb.ins, pc |-> wb.pc] ELSE old
        BY <1>1 DEF Difftest
      <3>2. QED
        BY <3>1 DEF Typed
    <2>2. inst_valid(f) => wb.ins # Bubble
      BY DEF inst_valid, flush, ecall, except_en, mret, interrupt_en, is_ecall, is_mret, Bubble
    <2>3. ref' \in RefStates
      <3>1. ref' = IF intrNO(f)          THEN Trapped(ref, TimerCode)
                   ELSE IF inst_valid(f) THEN Executed(ref, wb.ins)
                   ELSE ref
        BY <1>1 DEF Difftest
      <3>2. TimerCode \in Value
        BY SysAssumption
      <3>3. QED
        BY <3>1, <3>2, <2>2, TrappedTyped, ExecutedTyped DEF Typed
    <2>4. QED
      BY <2>1, <2>3
  <1>9. /\ id_valid' \in BOOLEAN /\ ex_valid' \in BOOLEAN
        /\ ls_valid' \in BOOLEAN /\ wb_valid' \in BOOLEAN
    BY EdgeOneAtATime DEF FlightInv, OneAtATime
  <1>10. QED
    BY <1>3, <1>4, <1>5, <1>6, <1>7, <1>8, <1>9, EdgeWords DEF Typed

LEMMA InitTyped == Init => Typed /\ FlightInv
  <1> SUFFICES ASSUME Init PROVE Typed /\ FlightInv
    OBVIOUS
  <1>1. Bubble \in AnyIns /\ Zero \in Value /\ NoPc \notin Value
    BY RvAssumption DEF AnyIns
  <1>2. ref \in RefStates
    BY RvAssumption, CpuAxiAssumption DEF Init, RefStates
  <1>3. Typed
    BY <1>1, <1>2, RvAssumption, CpuAxiAssumption DEF Init, Typed
  <1>4. FlightInv
    BY <1>1, CpuAxiAssumption DEF Init, FlightInv, OneAtATime, Follows, InLs, InWb, is_ecall, is_mret, Bubble
  <1>5. QED
    BY <1>3, <1>4

LEMMA FlightInvariant == Spec => [](Typed /\ FlightInv)
  <1>1. Typed /\ FlightInv /\ [Next]_vars => (Typed /\ FlightInv)'
    <2> SUFFICES ASSUME Typed, FlightInv, [Next]_vars PROVE Typed' /\ FlightInv'
      OBVIOUS
    <2>1. CASE UNCHANGED vars
      BY <2>1 DEF vars, Typed, FlightInv, OneAtATime, Follows, InLs, InWb
    <2>2. CASE Next
      <3>1. PICK f \in BOOLEAN, m \in BOOLEAN, t \in BOOLEAN : Edge(f, m, t)
        BY <2>2 DEF Next
      <3>2. QED
        BY <3>1, EdgeTyped, EdgeFollows, EdgeOneAtATime DEF FlightInv
    <2>3. QED
      BY <2>1, <2>2
  <1>2. QED
    BY <1>1, InitTyped, PTL DEF Spec

\* Register 0 stays zero and nothing but words and addresses enters the
\* pipeline, the registers and the CSRs, whatever is flushed or interrupted.
THEOREM TypeCorrect == Spec => []TypeOK
  BY FlightInvariant, TypeParts, PTL

----------------------------------------------------------------------------
(* Agreement with the reference model. The conditions are those of          *)
(* CpuAxi: the simulator takes "logic x = e" as an assignment, the program  *)
(* stays clear of the defects (or has no system instructions), and the      *)
(* first word, which goes through the pipeline twice, may do so.            *)

\* The instruction in flight, and the operands it reads.
Real  == id.ins # Bubble
Rs1   == rf[rs1id(id.ins)]
Rs2   == rf[rs2id(id.ins)]
Jumps == jump(id.ins, Rs1, Rs2)

\* The first word, the second time: cpu.sv will not report it again. At is
\* the reference state it was executed in, Done the state after it.
Repeated == Real /\ old = [ins |-> id.ins, pc |-> id.pc]
At       == IF Repeated THEN [ref EXCEPT !.pc = id.pc] ELSE ref
Done     == Executed(At, id.ins)

Enabled(c) == MIE(c["mstatus"]) /\ MTIE(c["mie"])

\* What no instruction is when it is fetched with the CSRs c.
Unsafe(i, c) ==
    \/ is_ecall(i) /\ (~MIE(c["mstatus"]) \/ Enabled(c))
    \/ Enabled(c) /\ (is_mret(i) \/ sten(i) \/ (is_csr(i) /\ i.csr # "mstatus"))
    \/ i.op \in {"CSRRW", "CSRRWI"} /\ i.rd # x0
    \/ i.op = "CSRRC"

\* csr.sv writes these as long as the instruction is in WB, not when it leaves.
Early(i) == is_csr(i) /\ i.csr \in {"mtvec", "mepc", "mcause"}

\* Where fetching stands.
PcInv ==
    /\ keep => ~Real /\ pc = ref.pc
    /\ ~keep /\ ~Real =>
        /\ if_pc = ref.pc
        /\ IF id_valid THEN pc = if_pc
           ELSE \/ pc = Add(if_pc, Four)
                \/ pc = PC_START /\ if_pc = PC_START /\ ~MTIE(csr["mie"])
    /\ Real /\ id_valid => pc = if_pc
    /\ Real /\ ~id_valid /\ ~Jumps => pc = Add(if_pc, Four)
    /\ Real /\ ~id_valid /\ Jumps /\ ~(ex_valid /\ jalr_bp) => pc = jump_pc(id.ins, id.pc, Rs1)
    /\ Real => if_pc = Add(id.pc, Four)
               \/ /\ if_pc = PC_START /\ id.pc = PC_START /\ ~Repeated
                  /\ ~MTIE(ref.csr["mie"])
    /\ delay => Jumps /\ ~id_valid
    /\ Real /\ ~id_valid /\ jalr_bp => jalr_bp_tar = Add(Rs1, id.ins.imm)

\* What is known of the instruction itself.
WordInv ==
    Real => /\ ~keep
            /\ id.ins \in Program[id.pc] \cup System[id.pc]
            /\ ~Unsafe(id.ins, ref.csr)
            /\ ~Repeated => ref.pc = id.pc
            /\ ~InWb => (Repeated <=> wb.ins = id.ins /\ wb.pc = id.pc)
            /\ InWb => wb_valid

RepeatInv ==
    Repeated => /\ id.pc = PC_START /\ ref.pc = Add(PC_START, Four)
                /\ ~MTIE(ref.csr["mie"])
                /\ ~Jumps
                /\ Done.regs = ref.regs /\ Done.mem = ref.mem

\* What the instruction has computed so far.
StageInv ==
    /\ ex_valid /\ Real => ex.rs1 = Rs1 /\ ex.rs2 = Rs2
    /\ ls_valid /\ Real =>
        /\ ls.exres = exu_res(id.ins, id.pc, Rs1, Rs2)
        /\ sten(id.ins) => ls.rs2 = Rs2
        /\ is_csr(id.ins) => /\ ls.csr_data = csr[id.ins.csr]
                             /\ ls.csr_res = Done.csr[id.ins.csr]
    /\ InWb /\ Real =>
        /\ Done.regs = IF o_rdwen(id.ins) \/ csr_to_rf(id.ins)
                       THEN SetReg(rf, id.ins.rd, wb.rd) ELSE rf
        /\ is_csr(id.ins) => wb.csr_res = Done.csr[id.ins.csr]

\* Registers, memory and CSRs, and the CSR write that WB goes on repeating.
StateInv ==
    /\ rf = ref.regs
    /\ ~(InWb /\ Real) => ram = ref.mem /\ csr = ref.csr
    /\ InWb /\ Real =>
        /\ ram = Done.mem
        /\ csr = ref.csr \/ (csr = Done.csr /\ (is_ecall(id.ins) \/ Early(id.ins)))
    /\ ~InWb /\ Early(wb.ins) => csr[wb.ins.csr] = wb.csr_res
    /\ (\A v \in Value : System[v] = {}) => csr = CsrReset

AgreeInv == PcInv /\ WordInv /\ RepeatInv /\ StageInv /\ StateInv
----------------------------------------------------------------------------
(* What the next edge reads.                                               *)

LEMMA OperandsRead ==
    ASSUME Typed, FlightInv, NEW m \in BOOLEAN, NEW r \in Regs,
           id_valid \/ ~(o_rdwen(id.ins) /\ id.ins.rd = r)
    PROVE  o_idu_rs(r, m) = rf[r]
  <1>1. ~(ex_valid /\ Writes(ex, r)) /\ ~(wb_valid /\ Writes(wb, r))
    BY DEF FlightInv, OneAtATime, Follows, InWb, Writes, Typed
  <1>2. ~(mem_wb_valid(m) /\ Writes(ls, r))
    <2>1. mem_wb_valid(m) => ls_valid
      BY DEF mem_wb_valid, axi_mem_valid
    <2>2. QED
      BY <2>1 DEF FlightInv, OneAtATime, Follows, InLs, Writes, Typed
  <1>3. QED
    BY <1>1, <1>2 DEF o_idu_rs

LEMMA JumpRead ==
    ASSUME Typed, FlightInv, NEW m \in BOOLEAN
    PROVE  /\ jumping(m) = Jumps
           /\ sten(id.ins) => idu_rs2(m) = Rs2
           /\ id.ins.op = "JALR" /\ ~jalr_bp => idu_rs1(m) = Rs1
           /\ id_valid => idu_rs1(m) = Rs1 /\ idu_rs2(m) = Rs2
           /\ Rs1 \in Value /\ Rs2 \in Value /\ Jumps \in BOOLEAN
  <1>1. rs1id(id.ins) \in Regs /\ rs2id(id.ins) \in Regs
    BY InsTyped DEF Typed
  <1>2. /\ sten(id.ins) => idu_rs2(m) = Rs2
        /\ id.ins.op = "JALR" /\ ~jalr_bp => idu_rs1(m) = Rs1
        /\ id_valid => idu_rs1(m) = Rs1 /\ idu_rs2(m) = Rs2
    BY <1>1, OperandsRead DEF idu_rs1, idu_rs2, Rs1, Rs2, sten, o_rdwen, rdwen, jalr_bp, rs1id
  <1>3. id.ins.op = "BRANCH" => idu_rs1(m) = Rs1 /\ idu_rs2(m) = Rs2
    BY <1>1, OperandsRead DEF idu_rs1, idu_rs2, Rs1, Rs2, o_rdwen, rdwen
  <1>4. Rs1 \in Value /\ Rs2 \in Value
    BY <1>1 DEF Rs1, Rs2, Typed
  <1>5. Jumps \in BOOLEAN
    BY <1>4, RvAssumption DEF Jumps, jump
  <1>6. jumping(m) = Jumps
    BY <1>3, <1>4, OperandsTyped, RvAssumption DEF jumping, Jumps, jump
  <1>7. QED
    BY <1>2, <1>4, <1>5, <1>6

LEMMA NextPc ==
    ASSUME Typed, FlightInv, NEW m \in BOOLEAN
    PROVE  /\ ~Jumps => next_pc(m) = Add(pc, Four)
           /\ Jumps /\ (jalr_bp => jalr_bp_tar = Add(Rs1, id.ins.imm)) =>
                next_pc(m) = jump_pc(id.ins, id.pc, Rs1)
  BY JumpRead DEF next_pc, jump_pc, jalr_bp

\* An edge that neither takes in a word nor flushes leaves the architectural
\* state of the instruction in flight alone.
LEMMA QuietEdge ==
    ASSUME FlightInv, Typed, WordInv, NEW f \in BOOLEAN, NEW m \in BOOLEAN, NEW t \in BOOLEAN,
           Edge(f, m, t), ~f, ~flush(f)
    PROVE  /\ id' = id /\ if_pc' = if_pc /\ keep' = keep
           /\ rf' = rf /\ ref' = ref /\ cmt' = NoCommit
           /\ Real' = Real /\ Rs1' = Rs1 /\ Rs2' = Rs2 /\ Jumps' = Jumps
           /\ Repeated' = Repeated /\ At' = At /\ Done' = Done
           /\ jalr_bp' = jalr_bp
  <1>1. /\ id' = id /\ if_pc' = if_pc /\ keep' = keep
    BY DEF Edge, Fetch, Typed
  <1>2. rf' = rf
    BY DEF Edge, WriteBack, rf_wen
  <1>3. ~intrNO(f) /\ ~inst_valid(f)
    BY DEF intrNO, inst_valid
  <1>4. ref' = ref /\ cmt' = NoCommit
    BY <1>3 DEF Edge, Difftest
  <1>5. /\ Real' = Real /\ Rs1' = Rs1 /\ Rs2' = Rs2 /\ Jumps' = Jumps /\ jalr_bp' = jalr_bp
    BY <1>1, <1>2 DEF Real, Rs1, Rs2, Jumps, jalr_bp
  <1>6. Repeated' = Repeated
    <2>1. old' = IF axi_mem_valid /\ m THEN [ins |-> wb.ins, pc |-> wb.pc] ELSE old
      BY DEF Edge, Difftest
    <2>2. axi_mem_valid => ~InWb
      BY DEF axi_mem_valid, InWb
    <2>3. Real /\ ~InWb => (Repeated <=> wb.ins = id.ins /\ wb.pc = id.pc)
      BY DEF WordInv
    <2>4. Repeated = (Real /\ old = [ins |-> id.ins, pc |-> id.pc])
          /\ Repeated' = (Real' /\ old' = [ins |-> id'.ins, pc |-> id'.pc])
      BY DEF Repeated
    <2>5. QED
      BY <2>1, <2>2, <2>3, <2>4, <1>1, <1>5
  <1>7. At' = At /\ Done' = Done
    BY <1>1, <1>4, <1>6 DEF At, Done
  <1>8. QED
    BY <1>1, <1>2, <1>4, <1>5, <1>6, <1>7

----------------------------------------------------------------------------
(* The reference model's step, in terms of what the pipeline reads.        *)

Plain(i) == ~is_ecall(i) /\ ~is_mret(i) /\ ~is_csr(i)

NextPcOf(p) == IF Jumps THEN jump_pc(id.ins, p, Rs1) ELSE Add(p, Four)
ResultAt(p) == exu_res(id.ins, p, Rs1, Rs2)

LEMMA AtParts ==
    ASSUME Typed
    PROVE  At = [pc |-> IF Repeated THEN id.pc ELSE ref.pc, regs |-> ref.regs,
                 mem |-> ref.mem, csr |-> ref.csr]
  BY DEF Typed, RefStates, At

LEMMA DoneEcall ==
    ASSUME Typed, is_ecall(id.ins)
    PROVE  /\ Done.pc = ref.csr["mtvec"] /\ Done.regs = ref.regs /\ Done.mem = ref.mem
           /\ Done.csr = [ref.csr EXCEPT !["mstatus"] = Trap(ref.csr["mstatus"]),
                                         !["mepc"] = At.pc, !["mcause"] = EcallCode]
  <1>1. Done = [At EXCEPT !.pc = At.csr["mtvec"],
                          !.csr = [At.csr EXCEPT !["mstatus"] = Trap(At.csr["mstatus"]),
                                                 !["mepc"] = At.pc, !["mcause"] = EcallCode]]
    BY DEF Done, Executed, Trapped
  <1>2. QED
    BY <1>1, AtParts

LEMMA DoneMret ==
    ASSUME Typed, is_mret(id.ins)
    PROVE  /\ Done.pc = ref.csr["mepc"] /\ Done.regs = ref.regs /\ Done.mem = ref.mem
           /\ Done.csr = [ref.csr EXCEPT !["mstatus"] = Return(ref.csr["mstatus"])]
  <1>1. Done = [At EXCEPT !.pc = At.csr["mepc"],
                          !.csr = [At.csr EXCEPT !["mstatus"] = Return(At.csr["mstatus"])]]
    BY DEF Done, Executed, is_ecall, is_mret
  <1>2. QED
    BY <1>1, AtParts

LEMMA DoneCsr ==
    ASSUME Typed, is_csr(id.ins), rf = ref.regs
    PROVE  /\ Done.pc = Add(At.pc, Four) /\ ~Jumps
           /\ Done.regs = SetReg(rf, id.ins.rd, ref.csr[id.ins.csr]) /\ Done.mem = ref.mem
           /\ Done.csr = [ref.csr EXCEPT ![id.ins.csr] =
                             CsrOp(id.ins, ref.csr[id.ins.csr],
                                   IF id.ins.op \in CsrImms THEN id.ins.imm ELSE Rs1)]
  <1>1. ~is_ecall(id.ins) /\ ~is_mret(id.ins) /\ ~Jumps
        /\ ~jump(id.ins, rf[id.ins.rs1], rf[id.ins.rs2])
    BY DEF is_csr, is_ecall, is_mret, CsrRegs, CsrImms, Jumps, jump
  <1>2. Rs1 = rf[id.ins.rs1]
    BY DEF Rs1, rs1id, is_csr, CsrRegs, CsrImms
  <1>3. At.regs = rf /\ At.mem = ref.mem /\ At.csr = ref.csr
    BY AtParts
  <1>4. Done = [At EXCEPT
                  !.pc = Add(At.pc, Four),
                  !.regs = SetReg(rf, id.ins.rd, ref.csr[id.ins.csr]),
                  !.csr[id.ins.csr] = CsrOp(id.ins, ref.csr[id.ins.csr],
                                            IF id.ins.op \in CsrImms THEN id.ins.imm ELSE Rs1)]
    BY <1>1, <1>2, <1>3 DEF Done, Executed
  <1>5. QED
    BY <1>1, <1>4, AtParts

LEMMA DonePlain ==
    ASSUME Typed, Plain(id.ins), Real, rf = ref.regs
    PROVE  /\ Done.pc = NextPcOf(At.pc) /\ Done.csr = ref.csr
           /\ Done.regs = IF ~rdwen(id.ins) THEN rf
                          ELSE [rf EXCEPT ![id.ins.rd] =
                                  IF lden(id.ins) THEN ref.mem[WordOf[ResultAt(At.pc)]]
                                                  ELSE ResultAt(At.pc)]
           /\ Done.mem = IF sten(id.ins)
                         THEN [ref.mem EXCEPT ![WordOf[ResultAt(At.pc)]] = Rs2] ELSE ref.mem
           /\ id.ins.op \in Ops
  <1>1. id.ins.op \in Ops
    BY InsTyped DEF Typed, Plain, Real, is_ecall, is_mret, is_csr
  <1> DEFINE a == rf[id.ins.rs1]
             b == rf[id.ins.rs2]
  <1>2. /\ jump(id.ins, a, b) = Jumps
        /\ \A p : jump_pc(id.ins, p, a) = jump_pc(id.ins, p, Rs1)
                  \/ ~Jumps
        /\ \A p : exu_res(id.ins, p, a, b) = ResultAt(p)
        /\ lden(id.ins) \/ sten(id.ins) => \A p : Add(a, id.ins.imm) = ResultAt(p)
        /\ sten(id.ins) => b = Rs2
    BY <1>1 DEF Ops, Jumps, jump, jump_pc, exu_res, ResultAt, Rs1, Rs2, rs1id, rs2id, lden, sten
  <1>3. At.regs = rf /\ At.mem = ref.mem /\ At.csr = ref.csr
    BY AtParts
  <1>4. Done = [At EXCEPT
                  !.pc = IF jump(id.ins, a, b) THEN jump_pc(id.ins, At.pc, a)
                                               ELSE Add(At.pc, Four),
                  !.regs = IF ~rdwen(id.ins) THEN rf
                           ELSE [rf EXCEPT ![id.ins.rd] =
                                   IF lden(id.ins) THEN ref.mem[WordOf[Add(a, id.ins.imm)]]
                                   ELSE exu_res(id.ins, At.pc, a, b)],
                  !.mem = IF sten(id.ins) THEN [ref.mem EXCEPT ![WordOf[Add(a, id.ins.imm)]] = b]
                          ELSE ref.mem]
    BY <1>3 DEF Done, Executed, Plain
  <1> HIDE DEF a, b
  <1>5. /\ Done.pc = IF jump(id.ins, a, b) THEN jump_pc(id.ins, At.pc, a) ELSE Add(At.pc, Four)
        /\ Done.regs = IF ~rdwen(id.ins) THEN rf
                       ELSE [rf EXCEPT ![id.ins.rd] =
                               IF lden(id.ins) THEN ref.mem[WordOf[Add(a, id.ins.imm)]]
                               ELSE exu_res(id.ins, At.pc, a, b)]
        /\ Done.mem = IF sten(id.ins) THEN [ref.mem EXCEPT ![WordOf[Add(a, id.ins.imm)]] = b]
                      ELSE ref.mem
        /\ Done.csr = ref.csr
    BY <1>4, AtParts
  <1>6. QED
    BY <1>1, <1>2, <1>5 DEF NextPcOf

LEMMA AtPc ==
    ASSUME Typed, WordInv, Real
    PROVE  At.pc = id.pc
  BY AtParts DEF WordInv

----------------------------------------------------------------------------
(* Edges between two fetches.                                              *)

\* The CSRs of an edge without a fetch and without a flush.
LEMMA QuietCsr ==
    ASSUME FlightInv, Typed, AgreeInv, Arithmetic,
           NEW f \in BOOLEAN, NEW m \in BOOLEAN, NEW t \in BOOLEAN,
           Edge(f, m, t), ~f, ~flush(f)
    PROVE  /\ ~(InWb /\ Real) => csr' = csr
           /\ InWb /\ Real =>
                csr' = csr \/ (csr' = Done.csr /\ (is_ecall(id.ins) \/ Early(id.ins)))
  <1>1. /\ csr' = csr_next(f) /\ ~int_taken(f) /\ ~mret
        /\ csr \in [Csrs -> Value]
    BY DEF Edge, WriteBack, int_taken, interrupt_en, flush, Typed
  <1>2. csr' = [c \in Csrs |->
                  IF c = "mstatus" THEN IF MIE(csr[c]) /\ except_en THEN Trap(csr[c]) ELSE csr[c]
                  ELSE IF c = "mie" THEN csr[c]
                  ELSE IF c = "mtvec" THEN IF csr_write(c) THEN wb.csr_res ELSE csr[c]
                  ELSE IF except_en THEN IF c = "mepc" THEN ex.pc ELSE EcallCode
                  ELSE IF csr_write(c) THEN wb.csr_res
                  ELSE csr[c]]
    BY <1>1 DEF csr_next
  <1>6. csr' = [c \in Csrs |-> csr'[c]]
    BY <1>2
  <1>3. CASE ~(InWb /\ Real)
    <2>1. ~except_en
      BY <1>3 DEF FlightInv, Follows, except_en, is_ecall, Real, Bubble
    <2>2. \A c \in {"mtvec", "mepc", "mcause"} : csr_write(c) => csr[c] = wb.csr_res
      BY <1>3 DEF FlightInv, Follows, AgreeInv, StateInv, csr_write, Early, is_csr, Real, Bubble,
                  CsrRegs, CsrImms
    <2>3. \A c \in Csrs : csr'[c] = csr[c]
      BY <1>2, <2>1, <2>2 DEF Csrs
    <2>4. QED
      BY <1>1, <1>2, <1>3, <2>3
  <1>4. CASE InWb /\ Real
    <2>1. /\ wb.ins = id.ins /\ ex.pc = id.pc
          /\ At.pc = id.pc
          /\ ~Unsafe(id.ins, ref.csr)
          /\ rf = ref.regs
          /\ csr = ref.csr \/ (csr = Done.csr /\ (is_ecall(id.ins) \/ Early(id.ins)))
          /\ is_csr(id.ins) => wb.csr_res = Done.csr[id.ins.csr]
          /\ ref.csr \in [Csrs -> Value]
      BY <1>4, AtPc DEF FlightInv, Follows, AgreeInv, WordInv, StateInv, StageInv, InWb,
                        Typed, RefStates
    <2>2. CASE is_ecall(id.ins)
      <3>1. /\ except_en
            /\ MIE(ref.csr["mstatus"]) /\ ~MIE(Trap(ref.csr["mstatus"]))
        BY <2>1, <2>2 DEF except_en, Unsafe, Arithmetic, Csrs
      <3>2. Done.csr = [ref.csr EXCEPT !["mstatus"] = Trap(ref.csr["mstatus"]),
                                       !["mepc"] = id.pc, !["mcause"] = EcallCode]
        BY <2>1, <2>2, DoneEcall
      <3>3. ~csr_write("mtvec")
        BY <2>1, <2>2 DEF csr_write, is_csr, is_ecall, CsrRegs, CsrImms
      <3>4. \A c \in Csrs : csr'[c] = Done.csr[c]
        <4>1. CASE csr = ref.csr
          BY <1>2, <2>1, <3>1, <3>2, <3>3, <4>1 DEF Csrs
        <4>2. CASE csr = Done.csr
          BY <1>2, <2>1, <3>1, <3>2, <3>3, <4>2 DEF Csrs
        <4>3. QED
          BY <2>1, <4>1, <4>2
      <3>5. Done.csr = [c \in Csrs |-> Done.csr[c]]
        BY <2>1, <3>2
      <3>6. [c \in Csrs |-> csr'[c]] = [c \in Csrs |-> Done.csr[c]]
        BY <3>4
      <3>7. csr' = Done.csr
        BY <1>6, <3>5, <3>6, Zenon
      <3>8. QED
        BY <1>4, <2>2, <3>7
    <2>3. CASE is_csr(id.ins)
      <3>1. ~except_en
        BY <2>1, <2>3 DEF except_en, is_csr, is_ecall, CsrRegs, CsrImms
      <3>2. /\ Done.csr = [ref.csr EXCEPT ![id.ins.csr] = wb.csr_res]
            /\ id.ins.csr \in Csrs
        BY <2>1, <2>3, DoneCsr, InsTyped DEF Typed
      <3>3. \A c \in Csrs : csr_write(c) <=> id.ins.csr = c
        BY <2>1, <2>3 DEF csr_write
      <3>4. CASE Early(id.ins)
        <4>1. \A c \in Csrs : csr'[c] = Done.csr[c]
          BY <1>2, <2>1, <3>1, <3>2, <3>3, <3>4 DEF Csrs, Early
        <4>2. Done.csr = [c \in Csrs |-> Done.csr[c]]
          BY <2>1, <3>2
        <4>3. [c \in Csrs |-> csr'[c]] = [c \in Csrs |-> Done.csr[c]]
          BY <4>1
        <4>4. csr' = Done.csr
          BY <1>6, <4>2, <4>3, Zenon
        <4>5. QED
          BY <1>4, <3>4, <4>4
      <3>5. CASE ~Early(id.ins)
        <4>1. \A c \in Csrs : csr'[c] = csr[c]
          BY <1>2, <2>3, <3>1, <3>3, <3>5 DEF Csrs, Early
        <4>2. QED
          BY <1>1, <1>2, <4>1
      <3>6. QED
        BY <3>4, <3>5
    <2>4. CASE Plain(id.ins)
      <3>1. ~except_en /\ \A c : ~csr_write(c)
        BY <2>1, <2>4 DEF except_en, csr_write, Plain
      <3>2. \A c \in Csrs : csr'[c] = csr[c]
        BY <1>2, <3>1 DEF Csrs
      <3>3. QED
        BY <1>1, <1>2, <3>2
    <2>5. ~is_mret(id.ins)
      BY <1>1, <2>1 DEF mret
    <2>6. QED
      BY <2>2, <2>3, <2>4, <2>5 DEF Plain
  <1>5. QED
    BY <1>3, <1>4

LEMMA QuietMoves ==
    ASSUME FlightInv, Typed, NEW f \in BOOLEAN, NEW m \in BOOLEAN, NEW t \in BOOLEAN,
           Edge(f, m, t), ~f, ~flush(f)
    PROVE  /\ ~id_valid'
           /\ InWb => /\ InWb' /\ wb' = wb /\ wb_valid' = wb_valid /\ ram' = ram
           /\ ~InWb' => ~InWb /\ wb' = wb /\ ram' = ram
           /\ InWb' /\ ~InWb => ls_valid /\ mem_wb_valid(m) /\ wb_valid'
           /\ ex_valid' => id_valid
           /\ ls_valid' => ex_valid \/ (ls_valid /\ ls' = ls)
           /\ ex_valid' => ex' = [ins |-> id.ins, pc |-> id.pc,
                                  rs1 |-> idu_rs1(m), rs2 |-> idu_rs2(m),
                                  ldstbp |-> o_idu_ldstbp, mtime_int |-> t]
  <1>1. /\ ex' = IF br_handshake(f, m)
                 THEN [ins |-> IF o_ifid_stall THEN Bubble ELSE id.ins, pc |-> id.pc,
                       rs1 |-> idu_rs1(m), rs2 |-> idu_rs2(m),
                       ldstbp |-> o_idu_ldstbp, mtime_int |-> t]
                 ELSE ex
        /\ ~(ex_valid /\ ex_ready(f, m)) => ls' = ls
        /\ ~(mem_wb_valid(m) /\ mem_ready(f)) => wb' = wb
        /\ ~(axi_mem_valid /\ m) => ram' = ram
    BY DEF Edge, Decode, Execute, Memory
  <1>2. axi_mem_valid /\ m => mem_wb_valid(m) /\ ls_valid
    BY DEF axi_mem_valid, mem_wb_valid
  <1>3. CASE id_valid
    BY <1>1, <1>2, <1>3, EdgeMoves, EdgeOneAtATime DEF FlightInv, OneAtATime, InWb
  <1>4. CASE ex_valid
    BY <1>1, <1>2, <1>4, EdgeMoves DEF FlightInv, OneAtATime, InWb
  <1>5. CASE ls_valid
    BY <1>1, <1>2, <1>5, EdgeMoves DEF FlightInv, OneAtATime, InWb
  <1>6. CASE InWb
    BY <1>1, <1>2, <1>6, EdgeMoves DEF FlightInv, OneAtATime, InWb
  <1>7. QED
    BY <1>3, <1>4, <1>5, <1>6 DEF InWb

LEMMA QuietPc ==
    ASSUME FlightInv, Typed, AgreeInv, Conditions,
           NEW f \in BOOLEAN, NEW m \in BOOLEAN, NEW t \in BOOLEAN,
           Edge(f, m, t), ~f, ~flush(f)
    PROVE  PcInv'
  <1>1. /\ PcInv /\ WordInv
        /\ id' = id /\ if_pc' = if_pc /\ keep' = keep /\ ref' = ref
        /\ Real' = Real /\ Rs1' = Rs1 /\ Jumps' = Jumps /\ Repeated' = Repeated
        /\ jalr_bp' = jalr_bp
    BY QuietEdge DEF AgreeInv
  <1>2. /\ pc' = IF pc_wen(f, m) THEN next_pc(m) ELSE pc
        /\ pc_wen(f, m) = ((br_handshake(f, m) \/ Jumps \/ delay) /\ ~o_ifid_stall /\ ~keep)
        /\ delay' = (Jumps /\ br_handshake(f, m))
        /\ jalr_bp_tar' = IF jalr_bp /\ br_handshake(f, m) THEN Add(Rs1, id.ins.imm)
                                                           ELSE jalr_bp_tar
    BY JumpRead DEF Edge, Bru, jalr_bp_tar_i, Conditions, Rs1, pc_wen
  <1>3. /\ ~Jumps => next_pc(m) = Add(pc, Four)
        /\ Jumps /\ (jalr_bp => jalr_bp_tar = Add(Rs1, id.ins.imm)) =>
             next_pc(m) = jump_pc(id.ins, id.pc, Rs1)
    BY NextPc
  <1>4. /\ id_valid => br_handshake(f, m) /\ ~o_ifid_stall /\ ex_valid'
        /\ ~id_valid => ~br_handshake(f, m)
        /\ ~id_valid'
        /\ ex_valid' => id_valid
    BY EdgeMoves, QuietMoves DEF br_handshake
  <1>5. Jumps => Real /\ ~o_ifid_stall
    <2>1. Jumps => id.ins.op \in {"JAL", "JALR", "BRANCH"}
      BY DEF Jumps, jump
    <2>2. o_ifid_stall => id.ins.op = "LOAD"
      BY DEF o_ifid_stall, lden, FlightInv, Follows, OneAtATime
    <2>3. QED
      BY <2>1, <2>2 DEF Real, Bubble
  <1>6. ~(InWb /\ Real) => csr' = csr
    BY QuietCsr DEF Conditions
  <1>7. /\ (keep => ~Real /\ pc = ref.pc)' 
        /\ (delay => Jumps /\ ~id_valid)'
        /\ (Real /\ ~id_valid /\ jalr_bp => jalr_bp_tar = Add(Rs1, id.ins.imm))'
    BY <1>1, <1>2, <1>4 DEF PcInv
  <1>8. (~keep /\ ~Real =>
            /\ if_pc = ref.pc
            /\ IF id_valid THEN pc = if_pc
               ELSE \/ pc = Add(if_pc, Four)
                    \/ pc = PC_START /\ if_pc = PC_START /\ ~MTIE(csr["mie"]))'
    BY <1>1, <1>2, <1>3, <1>4, <1>5, <1>6 DEF PcInv
  <1>9. (Real /\ ~id_valid /\ ~Jumps => pc = Add(if_pc, Four))'
    BY <1>1, <1>2, <1>3, <1>4 DEF PcInv, WordInv
  <1>10. (Real /\ ~id_valid /\ Jumps /\ ~(ex_valid /\ jalr_bp) =>
            pc = jump_pc(id.ins, id.pc, Rs1))'
    BY <1>1, <1>2, <1>3, <1>4, <1>5 DEF PcInv, WordInv
  <1>11. (Real => if_pc = Add(id.pc, Four)
                  \/ /\ if_pc = PC_START /\ id.pc = PC_START /\ ~Repeated
                     /\ ~MTIE(ref.csr["mie"]))'
    BY <1>1 DEF PcInv
  <1>12. QED
    BY <1>4, <1>7, <1>8, <1>9, <1>10, <1>11 DEF PcInv

LEMMA QuietWord ==
    ASSUME FlightInv, Typed, AgreeInv, Conditions,
           NEW f \in BOOLEAN, NEW m \in BOOLEAN, NEW t \in BOOLEAN,
           Edge(f, m, t), ~f, ~flush(f)
    PROVE  WordInv' /\ RepeatInv'
  <1>1. /\ id' = id /\ keep' = keep /\ ref' = ref
        /\ Real' = Real /\ Jumps' = Jumps /\ Repeated' = Repeated /\ Done' = Done
    BY QuietEdge DEF AgreeInv
  <1>2. WordInv'
    <2>1. (~InWb => (Repeated <=> wb.ins = id.ins /\ wb.pc = id.pc))' \/ ~Real
      BY <1>1, QuietMoves DEF AgreeInv, WordInv
    <2>2. (InWb => wb_valid)' \/ ~Real
      BY <1>1, QuietMoves DEF AgreeInv, WordInv
    <2>3. QED
      BY <1>1, <2>1, <2>2 DEF AgreeInv, WordInv
  <1>3. RepeatInv'
    BY <1>1 DEF AgreeInv, RepeatInv
  <1>4. QED
    BY <1>2, <1>3

\* EX leaves for MEM with the right result, store data and CSR value.
LEMMA ExecuteStep ==
    ASSUME FlightInv, Typed, AgreeInv, Conditions,
           NEW f \in BOOLEAN, NEW m \in BOOLEAN, NEW t \in BOOLEAN,
           Edge(f, m, t), ~f, ~flush(f), ex_valid, Real
    PROVE  /\ ls'.exres = exu_res(id.ins, id.pc, Rs1, Rs2)
           /\ sten(id.ins) => ls'.rs2 = Rs2
           /\ is_csr(id.ins) => /\ ls'.csr_data = csr[id.ins.csr]
                                /\ ls'.csr_res = Done.csr[id.ins.csr]
  <1> DEFINE data == IF is_csr(ex.ins) THEN csr[ex.ins.csr] ELSE Zero
  <1>1. /\ ex.ins = id.ins /\ ex.pc = id.pc /\ ex.rs1 = Rs1 /\ ex.rs2 = Rs2
        /\ ~InWb /\ csr = ref.csr /\ rf = ref.regs
        /\ id.ins \in Program[id.pc] \cup System[id.pc] /\ id.pc \in Value
        /\ ~Unsafe(id.ins, ref.csr)
    BY DEF FlightInv, OneAtATime, Follows, AgreeInv, StageInv, StateInv, InWb, WordInv, Real
  <1>2. ls' = [ins |-> ex.ins, pc |-> ex.pc, exres |-> exu_exres,
               rs2 |-> o_exu_rs2(m), csr_data |-> data,
               csr_res |-> IF is_csr(ex.ins)
                           THEN csr_data_res(ex.ins, data, id_csr_wdata) ELSE Zero,
               mtime_int |-> ex.mtime_int]
    BY EdgeMoves DEF Edge, Execute
  <1>3. ls'.exres = exu_res(id.ins, id.pc, Rs1, Rs2)
    BY <1>1, <1>2 DEF exu_exres
  <1>4. sten(id.ins) => ls'.rs2 = Rs2
    BY <1>1, <1>2, JumpRead DEF o_exu_rs2
  <1>5. is_csr(id.ins) => /\ ls'.csr_data = csr[id.ins.csr]
                          /\ ls'.csr_res = Done.csr[id.ins.csr]
    <2> SUFFICES ASSUME is_csr(id.ins)
                 PROVE  /\ ls'.csr_data = csr[id.ins.csr]
                        /\ ls'.csr_res = Done.csr[id.ins.csr]
      OBVIOUS
    <2> DEFINE w == IF id.ins.op \in CsrImms THEN id.ins.imm ELSE Rs1
               d == csr[id.ins.csr]
    <2>1. id_csr_wdata = w
      BY DEF id_csr_wdata, Rs1
    <2>2. /\ id.ins.csr \in Csrs /\ d \in Value
          /\ id.ins.op \in CsrRegs \cup CsrImms
      BY InsTyped DEF Typed, is_csr
    <2>3. Done.csr[id.ins.csr] = CsrOp(id.ins, d, w)
      BY <1>1, <2>2, DoneCsr DEF Typed, RefStates
    <2> HIDE DEF w, d
    <2>4. csr_data_res(id.ins, d, w) = CsrOp(id.ins, d, w)
      <3>1. CASE id.ins.op = "CSRRCI"
        <4>1. w = id.ins.imm
          BY <3>1 DEF w, CsrImms
        <4>2. id.ins \in System[id.pc]
          BY <1>1, <3>1, RvAssumption DEF Instr, Ops
        <4>3. Or(AndNot(d, LowBits(d)), LowBits(AndNot(d, w))) = AndNot(d, w)
          BY <1>1, <2>2, <3>1, <4>1, <4>2 DEF Conditions, Arithmetic
        <4>4. QED
          BY <3>1, <4>3 DEF csr_data_res, csrrci, CsrOp, Conditions
      <3>2. CASE id.ins.op # "CSRRCI"
        BY <1>1, <2>2, <3>2 DEF csr_data_res, CsrOp, Unsafe, CsrRegs, CsrImms
      <3>3. QED
        BY <3>1, <3>2
    <2>5. ls'.csr_data = d /\ ls'.csr_res = csr_data_res(id.ins, d, w)
      BY <1>1, <1>2, <2>1 DEF d
    <2>6. QED
      BY <2>3, <2>4, <2>5 DEF d
  <1>6. QED
    BY <1>3, <1>4, <1>5

\* MEM leaves for WB with the register value and the CSR value, and memory
\* written.
LEMMA MemoryStep ==
    ASSUME FlightInv, Typed, AgreeInv, Conditions,
           NEW f \in BOOLEAN, NEW m \in BOOLEAN, NEW t \in BOOLEAN,
           Edge(f, m, t), ~f, ~flush(f), ls_valid, mem_wb_valid(m), Real
    PROVE  /\ Done.regs = IF o_rdwen(id.ins) \/ csr_to_rf(id.ins)
                          THEN SetReg(rf, id.ins.rd, wb'.rd) ELSE rf
           /\ is_csr(id.ins) => wb'.csr_res = Done.csr[id.ins.csr]
           /\ ram' = Done.mem
  <1>1. /\ ls.ins = id.ins
        /\ ls.exres = exu_res(id.ins, id.pc, Rs1, Rs2)
        /\ sten(id.ins) => ls.rs2 = Rs2
        /\ is_csr(id.ins) => /\ ls.csr_data = ref.csr[id.ins.csr]
                             /\ ls.csr_res = Done.csr[id.ins.csr]
        /\ rf = ref.regs /\ ram = ref.mem
        /\ At.pc = id.pc
        /\ ~Unsafe(id.ins, ref.csr)
    BY AtPc DEF FlightInv, OneAtATime, Follows, AgreeInv, StageInv, StateInv, InWb, InLs, WordInv
  <1>2. wb' = [ins |-> ls.ins, pc |-> ls.pc,
               rd |-> IF csr_to_rf(ls.ins)  THEN ls.csr_data
                      ELSE IF lden(ls.ins)  THEN lsu_lsres
                      ELSE ls.exres,
               csr_res |-> ls.csr_res, mtime_int |-> ls.mtime_int]
    BY EdgeMoves DEF Edge, Memory
  <1>3. ram' = IF sten(id.ins) THEN [ram EXCEPT ![WordOf[ls.exres]] = ls.rs2] ELSE ram
    BY <1>1 DEF Edge, Memory, axi_mem_valid, visit_axi, mem_wb_valid
  <1>4. CASE is_ecall(id.ins) \/ is_mret(id.ins)
    <2>1. Done.regs = rf /\ Done.mem = ref.mem
      BY <1>1, <1>4, DoneEcall, DoneMret
    <2>2. ~o_rdwen(id.ins) /\ ~csr_to_rf(id.ins) /\ ~is_csr(id.ins) /\ ~sten(id.ins)
      BY <1>4 DEF is_ecall, is_mret, o_rdwen, Ops, csr_to_rf, is_csr, CsrRegs, CsrImms, sten
    <2>3. QED
      BY <1>1, <1>3, <2>1, <2>2
  <1>5. CASE is_csr(id.ins)
    <2>1. /\ Done.regs = SetReg(rf, id.ins.rd, ref.csr[id.ins.csr])
          /\ Done.mem = ref.mem
      BY <1>1, <1>5, DoneCsr
    <2>2. ~o_rdwen(id.ins) /\ ~sten(id.ins)
      BY <1>5 DEF o_rdwen, Ops, is_csr, CsrRegs, CsrImms, sten
    <2>3. csr_to_rf(id.ins) => wb'.rd = ref.csr[id.ins.csr]
      BY <1>1, <1>2, <1>5
    <2>4. ~csr_to_rf(id.ins) => id.ins.rd = x0
      BY <1>1, <1>5 DEF Unsafe, csr_to_rf, is_csr, CsrRegs, CsrImms
    <2>5. wb'.csr_res = Done.csr[id.ins.csr]
      BY <1>1, <1>2, <1>5
    <2>6. QED
      BY <1>1, <1>3, <2>1, <2>2, <2>3, <2>4, <2>5 DEF SetReg
  <1>6. CASE Plain(id.ins)
    <2>1. /\ Done.regs = IF ~rdwen(id.ins) THEN rf
                         ELSE [rf EXCEPT ![id.ins.rd] =
                                 IF lden(id.ins) THEN ref.mem[WordOf[ls.exres]] ELSE ls.exres]
          /\ Done.mem = IF sten(id.ins) THEN [ref.mem EXCEPT ![WordOf[ls.exres]] = Rs2]
                        ELSE ref.mem
          /\ id.ins.op \in Ops
      BY <1>1, <1>6, DonePlain DEF ResultAt
    <2>2. ~csr_to_rf(id.ins) /\ ~is_csr(id.ins) /\ o_rdwen(id.ins) = rdwen(id.ins)
      BY <1>6, <2>1 DEF Plain, csr_to_rf, is_csr, CsrRegs, CsrImms, o_rdwen, Ops, rdwen
    <2>3. wb'.rd = IF lden(id.ins) THEN ref.mem[WordOf[ls.exres]] ELSE ls.exres
      BY <1>1, <1>2, <2>2 DEF lsu_lsres
    <2>4. rdwen(id.ins) => id.ins.rd # x0
      BY DEF rdwen
    <2>5. ram' = Done.mem
      BY <1>1, <1>3, <2>1
    <2>6. QED
      BY <2>1, <2>2, <2>3, <2>4, <2>5 DEF SetReg
  <1>7. QED
    BY <1>4, <1>5, <1>6 DEF Plain

LEMMA QuietState ==
    ASSUME FlightInv, Typed, AgreeInv, Conditions,
           NEW f \in BOOLEAN, NEW m \in BOOLEAN, NEW t \in BOOLEAN,
           Edge(f, m, t), ~f, ~flush(f)
    PROVE  StageInv' /\ StateInv'
  <1>1. /\ id' = id /\ ref' = ref /\ rf' = rf
        /\ Real' = Real /\ Rs1' = Rs1 /\ Rs2' = Rs2 /\ Done' = Done
    BY QuietEdge DEF AgreeInv
  <1>2. /\ ~(InWb /\ Real) => csr' = csr
        /\ InWb /\ Real =>
             csr' = csr \/ (csr' = Done.csr /\ (is_ecall(id.ins) \/ Early(id.ins)))
    BY QuietCsr DEF Conditions
  <1>3. StageInv /\ StateInv /\ WordInv
    BY DEF AgreeInv
  <1>4. (ex_valid /\ Real => ex.rs1 = Rs1 /\ ex.rs2 = Rs2)'
    BY <1>1, QuietMoves, JumpRead
  <1>5. (ls_valid /\ Real =>
            /\ ls.exres = exu_res(id.ins, id.pc, Rs1, Rs2)
            /\ sten(id.ins) => ls.rs2 = Rs2
            /\ is_csr(id.ins) => /\ ls.csr_data = csr[id.ins.csr]
                                 /\ ls.csr_res = Done.csr[id.ins.csr])'
    <2> SUFFICES ASSUME ls_valid', Real
                 PROVE  /\ ls'.exres = exu_res(id.ins, id.pc, Rs1, Rs2)
                        /\ sten(id.ins) => ls'.rs2 = Rs2
                        /\ is_csr(id.ins) => /\ ls'.csr_data = csr'[id.ins.csr]
                                             /\ ls'.csr_res = Done.csr[id.ins.csr]
      BY <1>1
    <2>1. csr' = csr
      BY <1>2, QuietMoves DEF InWb
    <2>2. CASE ex_valid
      BY <2>1, <2>2, ExecuteStep
    <2>3. CASE ls_valid /\ ls' = ls
      BY <1>3, <2>1, <2>3 DEF StageInv
    <2>4. QED
      BY <2>2, <2>3, QuietMoves
  <1>6. (InWb /\ Real =>
            /\ Done.regs = IF o_rdwen(id.ins) \/ csr_to_rf(id.ins)
                           THEN SetReg(rf, id.ins.rd, wb.rd) ELSE rf
            /\ is_csr(id.ins) => wb.csr_res = Done.csr[id.ins.csr])'
    <2>1. CASE InWb
      BY <1>1, <1>3, <2>1, QuietMoves DEF StageInv
    <2>2. CASE ~InWb
      BY <1>1, <2>2, QuietMoves, MemoryStep
    <2>3. QED
      BY <2>1, <2>2
  <1>7. (/\ rf = ref.regs
         /\ ~(InWb /\ Real) => ram = ref.mem /\ csr = ref.csr)'
    <2>1. ~Real => ram' = ram
      <3>1. ls_valid /\ sten(ls.ins) => Real
        BY DEF FlightInv, OneAtATime, Follows, InLs, Real, Bubble, sten
      <3>2. QED
        BY <3>1 DEF Edge, Memory, axi_mem_valid
    <2>2. QED
      BY <1>1, <1>2, <1>3, <2>1, QuietMoves DEF StateInv
  <1>8. (InWb /\ Real =>
            /\ ram = Done.mem
            /\ csr = ref.csr \/ (csr = Done.csr /\ (is_ecall(id.ins) \/ Early(id.ins))))'
    <2>1. CASE InWb
      BY <1>1, <1>2, <1>3, <2>1, QuietMoves DEF StateInv, Early
    <2>2. CASE ~InWb
      BY <1>1, <1>2, <1>3, <2>2, QuietMoves, MemoryStep DEF StateInv
    <2>3. QED
      BY <2>1, <2>2
  <1>9. (~InWb /\ Early(wb.ins) => csr[wb.ins.csr] = wb.csr_res)'
    BY <1>2, <1>3, QuietMoves DEF StateInv, Early
  <1>10. ((\A v \in Value : System[v] = {}) => csr = CsrReset)'
    <2> SUFFICES ASSUME \A v \in Value : System[v] = {} PROVE csr' = CsrReset
      BY DEF Typed
    <2>1. (~is_ecall(id.ins) /\ ~Early(id.ins)) \/ ~Real
      <3>1. Real => id.ins \in Instr
        BY <1>3, RvAssumption DEF WordInv, FlightInv, Follows, Real
      <3>2. QED
        BY <3>1 DEF Instr, Ops, is_ecall, Early, is_csr, CsrRegs, CsrImms
    <2>2. csr' = csr
      BY <1>2, <2>1
    <2>3. QED
      BY <1>3, <2>2 DEF StateInv
  <1>11. StageInv'
    BY <1>4, <1>5, <1>6 DEF StageInv
  <1>12. QED
    BY <1>7, <1>8, <1>9, <1>10, <1>11 DEF StateInv

----------------------------------------------------------------------------
(* Edges that flush.                                                       *)

\* What is known of an instruction in WB.
LEMMA InWbState ==
    ASSUME FlightInv, Typed, AgreeInv, Conditions, InWb, Real
    PROVE  /\ wb.ins = id.ins /\ wb.pc = id.pc /\ ex.pc = id.pc /\ id.pc \in Value
           /\ At.pc = id.pc /\ (~Repeated => At = ref /\ ref.pc = id.pc)
           /\ rf = ref.regs /\ ram = Done.mem
           /\ csr = ref.csr \/ (csr = Done.csr /\ (is_ecall(id.ins) \/ Early(id.ins)))
           /\ ~Unsafe(id.ins, ref.csr)
           /\ wb_valid /\ ~keep
           /\ ref.csr \in [Csrs -> Value] /\ csr \in [Csrs -> Value]
           /\ is_ecall(id.ins) \/ is_mret(id.ins) => ~Repeated
           /\ Enabled(csr) => /\ csr = ref.csr /\ ~Repeated /\ ~Early(id.ins)
                              /\ ~is_ecall(id.ins) /\ ~is_mret(id.ins) /\ ~sten(id.ins)
                              /\ is_csr(id.ins) => id.ins.csr = "mstatus"
  <1>1. /\ wb.ins = id.ins /\ wb.pc = id.pc /\ ex.pc = id.pc /\ id.pc \in Value
        /\ At.pc = id.pc /\ (~Repeated => At = ref /\ ref.pc = id.pc)
        /\ rf = ref.regs /\ ram = Done.mem
        /\ csr = ref.csr \/ (csr = Done.csr /\ (is_ecall(id.ins) \/ Early(id.ins)))
        /\ ~Unsafe(id.ins, ref.csr)
        /\ wb_valid /\ ~keep
        /\ ref.csr \in [Csrs -> Value] /\ csr \in [Csrs -> Value]
    BY AtPc DEF FlightInv, Follows, InWb, AgreeInv, WordInv, StateInv, Real, At, Typed, RefStates
  <1>2. is_ecall(id.ins) \/ is_mret(id.ins) => ~Repeated
    <2>1. Repeated => id.ins \in Program[PC_START]
      BY DEF AgreeInv, RepeatInv, WordInv, Conditions, RepeatableStart
    <2>2. Repeated => id.ins.op \in Ops
      BY <2>1, RvAssumption, CpuAxiAssumption DEF Instr
    <2>3. QED
      BY <2>2 DEF Ops, is_ecall, is_mret
  <1>3. Enabled(csr) => csr = ref.csr
    <2>1. CASE csr = Done.csr /\ is_ecall(id.ins)
      <3>1. csr["mstatus"] = Trap(ref.csr["mstatus"]) /\ ref.csr["mstatus"] \in Value
        BY <1>1, <2>1, DoneEcall DEF Csrs
      <3>2. QED
        BY <3>1 DEF Enabled, Conditions, Arithmetic
    <2>2. CASE csr = Done.csr /\ Early(id.ins)
      <3>1. csr["mstatus"] = ref.csr["mstatus"] /\ csr["mie"] = ref.csr["mie"]
        <4> DEFINE v == CsrOp(id.ins, ref.csr[id.ins.csr],
                              IF id.ins.op \in CsrImms THEN id.ins.imm ELSE Rs1)
        <4>1. /\ csr = [ref.csr EXCEPT ![id.ins.csr] = v]
              /\ id.ins.csr \in {"mtvec", "mepc", "mcause"}
          BY <1>1, <2>2, DoneCsr DEF Early
        <4> HIDE DEF v
        <4>2. QED
          BY <1>1, <4>1 DEF Csrs
      <3>2. QED
        BY <1>1, <2>2, <3>1 DEF Enabled, Unsafe, Early
    <2>3. QED
      BY <1>1, <2>1, <2>2
  <1>4. Enabled(csr) => ~Repeated
    BY <1>3 DEF AgreeInv, RepeatInv, Enabled
  <1>5. Enabled(csr) => /\ ~Early(id.ins)
                        /\ ~is_ecall(id.ins) /\ ~is_mret(id.ins) /\ ~sten(id.ins)
                        /\ is_csr(id.ins) => id.ins.csr = "mstatus"
    BY <1>1, <1>3 DEF Unsafe, Early
  <1>6. QED
    BY <1>1, <1>2, <1>3, <1>4, <1>5

\* A flush leaves bubbles behind; agreement is all there is to show.
LEMMA FlushTo ==
    ASSUME FlightInv, Typed, NEW f \in BOOLEAN, NEW m \in BOOLEAN, NEW t \in BOOLEAN,
           Edge(f, m, t), flush(f),
           pc' = ref'.pc, rf = ref'.regs, ram = ref'.mem, csr' = ref'.csr,
           (\A v \in Value : System[v] = {}) => csr' = CsrReset
    PROVE  AgreeInv'
  <1>1. /\ id' = [ins |-> Bubble, pc |-> NoPc] /\ InWb
        /\ keep'
        /\ wb'.ins = Bubble
        /\ rf' = rf
        /\ delay' = (jumping(m) /\ br_handshake(f, m))
    BY EdgeWords DEF Edge, Fetch, Memory, WriteBack, rf_wen, Bru
  <1>2. ~br_handshake(f, m) /\ ram' = ram
    <2>1. ~axi_mem_valid
      BY <1>1 DEF InWb, axi_mem_valid
    <2>2. QED
      BY <1>1, <2>1, EdgeMoves DEF Edge, Memory
  <1>3. ~Real' /\ ~Repeated' /\ ~Early(wb'.ins)
    BY <1>1 DEF Real, Repeated, Early, is_csr, Bubble, CsrRegs, CsrImms
  <1>4. PcInv'
    BY <1>1, <1>2, <1>3 DEF PcInv
  <1>5. WordInv' /\ RepeatInv' /\ StageInv'
    BY <1>3 DEF WordInv, RepeatInv, StageInv
  <1>6. StateInv'
    BY <1>1, <1>2, <1>3 DEF StateInv
  <1>7. QED
    BY <1>4, <1>5, <1>6 DEF AgreeInv

LEMMA FlushEdge ==
    ASSUME FlightInv, Typed, AgreeInv, Conditions,
           NEW f \in BOOLEAN, NEW m \in BOOLEAN, NEW t \in BOOLEAN,
           Edge(f, m, t), flush(f)
    PROVE  AgreeInv' /\ DifftestAgrees'
  <1>1. /\ InWb /\ Real /\ wb.ins = id.ins
        /\ csr' = csr_next(f)
        /\ ~rf_wen(f)
        /\ ecall(f) \/ (f /\ time_int) \/ mret
        /\ time_int => Enabled(csr)
    <2>1. InWb /\ wb.ins = id.ins
      BY EdgeWords DEF FlightInv, Follows
    <2>2. Real
      BY <2>1 DEF flush, ecall, except_en, interrupt_en, mret, Real, Bubble, is_ecall, is_mret
    <2>3. QED
      BY <2>1, <2>2 DEF Edge, WriteBack, rf_wen, flush, interrupt_en, time_int, Enabled
  <1>2. /\ wb.ins = id.ins /\ wb.pc = id.pc /\ ex.pc = id.pc /\ id.pc \in Value
        /\ At.pc = id.pc /\ (~Repeated => At = ref /\ ref.pc = id.pc)
        /\ rf = ref.regs /\ ram = Done.mem
        /\ csr = ref.csr \/ (csr = Done.csr /\ (is_ecall(id.ins) \/ Early(id.ins)))
        /\ ~Unsafe(id.ins, ref.csr)
        /\ ref.csr \in [Csrs -> Value] /\ csr \in [Csrs -> Value]
        /\ is_ecall(id.ins) \/ is_mret(id.ins) => ~Repeated
        /\ Enabled(csr) => /\ csr = ref.csr /\ ~Repeated /\ ~Early(id.ins)
                           /\ ~is_ecall(id.ins) /\ ~is_mret(id.ins) /\ ~sten(id.ins)
                           /\ is_csr(id.ins) => id.ins.csr = "mstatus"
    BY <1>1, InWbState
  <1>3. /\ pc' = IF ecall(f) \/ time_int THEN csr["mtvec"]
                 ELSE IF is_mret(id.ins) THEN csr["mepc"]
                 ELSE IF pc_wen(f, m) THEN next_pc(m) ELSE pc
        /\ ref' = IF f /\ time_int THEN Trapped(ref, TimerCode) ELSE Executed(ref, wb.ins)
        /\ cmt' = [kind |-> IF f /\ time_int THEN "interrupt" ELSE "commit",
                   pc |-> wb.pc, ref_pc |-> ref.pc, regs |-> rf, csr |-> csr_diff(f)]
    BY <1>1 DEF Edge, Bru, Difftest, intrNO, inst_valid
  <1>4. CASE f /\ time_int
    <2>1. /\ Enabled(csr) /\ csr = ref.csr /\ ref.pc = id.pc
          /\ ~is_ecall(id.ins) /\ ~is_mret(id.ins) /\ ~sten(id.ins)
          /\ ~except_en /\ ~mret /\ int_taken(f)
          /\ \A c \in Csrs : csr_write(c) => c = "mstatus"
      BY <1>1, <1>2, <1>4 DEF except_en, mret, int_taken, time_int, interrupt_en, Enabled, csr_write
    <2>2. /\ ref'.pc = csr["mtvec"] /\ ref'.regs = ref.regs /\ ref'.mem = ref.mem
          /\ ref'.csr = [csr EXCEPT !["mstatus"] = Trap(csr["mstatus"]),
                                    !["mepc"] = id.pc, !["mcause"] = TimerCode]
      <3>1. ref' = [ref EXCEPT !.pc = csr["mtvec"],
                               !.csr = [csr EXCEPT !["mstatus"] = Trap(csr["mstatus"]),
                                                   !["mepc"] = id.pc, !["mcause"] = TimerCode]]
        BY <1>3, <1>4, <2>1 DEF Trapped
      <3>2. QED
        BY <3>1 DEF Typed, RefStates
    <2>3. csr_next(f) = ref'.csr /\ csr_diff(f) = ref'.csr
      <3> DEFINE g == [c \in Csrs |-> IF c = "mstatus" THEN Trap(csr[c])
                                      ELSE IF c = "mepc" THEN id.pc
                                      ELSE IF c = "mcause" THEN TimerCode
                                      ELSE csr[c]]
      <3>1. ref'.csr = g
        BY <1>2, <2>2 DEF Csrs
      <3>2. csr_next(f) = g
        BY <1>1, <1>2, <1>4, <2>1 DEF csr_next, Csrs, Enabled
      <3>3. csr_diff(f) = g
        BY <1>1, <1>2, <1>4, <2>1 DEF csr_diff, Csrs, Enabled
      <3>4. QED
        BY <3>1, <3>2, <3>3
    <2>4. ref'.mem = ram
      <3>1. Done.mem = ref.mem
        BY <1>1, <1>2, <2>1, DoneEcall, DoneMret, DoneCsr, DonePlain DEF Plain
      <3>2. QED
        BY <1>2, <2>2, <3>1
    <2>5. ~\A v \in Value : System[v] = {}
      BY <2>1 DEF AgreeInv, StateInv, Conditions, RepeatableStart, Enabled
    <2>6. AgreeInv'
      BY <1>1, <1>2, <1>3, <1>4, <2>2, <2>3, <2>4, <2>5, FlushTo
    <2>7. DifftestAgrees'
      BY <1>2, <1>3, <1>4, <2>1, <2>2, <2>3 DEF DifftestAgrees
    <2>8. QED
      BY <2>6, <2>7
  <1>5. CASE ~(f /\ time_int)
    <2>1. /\ is_ecall(id.ins) \/ is_mret(id.ins)
          /\ is_ecall(id.ins) => f
          /\ ~time_int /\ ~int_taken(f)
      BY <1>1, <1>2, <1>5 DEF ecall, except_en, mret, int_taken, time_int, interrupt_en, Enabled,
                              is_ecall, is_mret
    <2>2. /\ ref' = Done /\ ref.pc = id.pc /\ At = ref
          /\ ~\A v \in Value : System[v] = {}
          /\ \A c : ~csr_write(c)
      <3>1. id.ins \in Program[id.pc] \cup System[id.pc]
        BY <1>1 DEF AgreeInv, WordInv
      <3>2. id.ins \notin Program[id.pc]
        BY <1>2, <2>1, RvAssumption DEF Instr, Ops, is_ecall, is_mret
      <3>3. QED
        BY <1>2, <1>3, <1>5, <2>1, <3>1, <3>2 DEF Done, csr_write, is_csr, is_ecall, is_mret,
                                                CsrRegs, CsrImms
    <2>3. /\ pc' = Done.pc /\ Done.regs = ref.regs /\ Done.mem = ref.mem
          /\ csr_next(f) = Done.csr /\ csr_diff(f) = Done.csr
      <3>1. CASE is_ecall(id.ins)
        <4>1. /\ except_en /\ ecall(f) /\ ~mret
              /\ Done.pc = ref.csr["mtvec"] /\ Done.regs = ref.regs /\ Done.mem = ref.mem
              /\ Done.csr = [ref.csr EXCEPT !["mstatus"] = Trap(ref.csr["mstatus"]),
                                            !["mepc"] = id.pc, !["mcause"] = EcallCode]
              /\ MIE(ref.csr["mstatus"]) /\ ~MIE(Trap(ref.csr["mstatus"]))
          BY <1>2, <2>1, <3>1, DoneEcall DEF except_en, ecall, mret, is_ecall, is_mret,
                 Unsafe, Conditions, Arithmetic, Csrs
        <4> DEFINE g == [c \in Csrs |-> IF c = "mstatus" THEN Trap(ref.csr[c])
                                        ELSE IF c = "mepc" THEN id.pc
                                        ELSE IF c = "mcause" THEN EcallCode
                                        ELSE ref.csr[c]]
        <4>2. Done.csr = g
          BY <1>2, <4>1 DEF Csrs
        <4>3. csr = ref.csr \/ csr = g
          BY <1>2, <4>2
        <4>4. csr_next(f) = g
          BY <1>2, <2>1, <2>2, <4>1, <4>3 DEF csr_next, Csrs
        <4>5. csr_diff(f) = g
          BY <1>2, <2>1, <2>2, <4>1, <4>3 DEF csr_diff, Csrs
        <4>6. pc' = Done.pc
          BY <1>3, <4>1, <4>3 DEF Csrs
        <4>7. QED
          BY <4>1, <4>2, <4>4, <4>5, <4>6
      <3>2. CASE is_mret(id.ins)
        <4>1. /\ ~except_en /\ ~ecall(f) /\ mret /\ csr = ref.csr
              /\ Done.pc = ref.csr["mepc"] /\ Done.regs = ref.regs /\ Done.mem = ref.mem
              /\ Done.csr = [ref.csr EXCEPT !["mstatus"] = Return(ref.csr["mstatus"])]
          BY <1>2, <2>1, <3>2, DoneMret DEF except_en, ecall, mret, is_ecall, is_mret, Early, is_csr,
                 CsrRegs, CsrImms
        <4> DEFINE g == [c \in Csrs |-> IF c = "mstatus" THEN Return(csr[c]) ELSE csr[c]]
        <4>2. Done.csr = g
          BY <1>2, <4>1 DEF Csrs
        <4>3. csr_next(f) = g
          BY <1>2, <2>1, <2>2, <4>1 DEF csr_next, Csrs
        <4>4. csr_diff(f) = g
          BY <1>2, <2>1, <2>2, <4>1 DEF csr_diff, Csrs
        <4>5. QED
          BY <1>3, <2>1, <3>2, <4>1, <4>2, <4>3, <4>4
      <3>3. QED
        BY <2>1, <3>1, <3>2
    <2>4. AgreeInv'
      BY <1>1, <1>2, <2>2, <2>3, FlushTo
    <2>5. DifftestAgrees'
      BY <1>2, <1>3, <1>5, <2>2, <2>3 DEF DifftestAgrees
    <2>6. QED
      BY <2>4, <2>5
  <1>6. QED
    BY <1>4, <1>5

----------------------------------------------------------------------------
(* Edges that take in a word.                                              *)

LEMMA FetchMoves ==
    ASSUME FlightInv, Typed, AgreeInv, Conditions,
           NEW f \in BOOLEAN, NEW m \in BOOLEAN, NEW t \in BOOLEAN,
           Edge(f, m, t), f, ~flush(f)
    PROVE  /\ InWb /\ wb.ins = id.ins /\ wb.pc = id.pc
           /\ id_valid' /\ ~ex_valid' /\ ~ls_valid' /\ ~delay' /\ ~keep'
           /\ if_pc' = pc /\ pc' = pc /\ wb' = wb /\ ram' = ram
           /\ old' = [ins |-> wb.ins, pc |-> wb.pc]
           /\ ~except_en /\ ~mret /\ ~time_int /\ ~int_taken(f)
           /\ IF Jumps \/ keep THEN id' = [ins |-> Bubble, pc |-> if_pc]
              ELSE \E i \in Program[if_pc] \cup System[if_pc] :
                     ~Avoided(i) /\ id' = [ins |-> i, pc |-> if_pc]
  <1>1. /\ InWb /\ wb.ins = id.ins /\ wb.pc = id.pc
        /\ id_valid' /\ ~ex_valid' /\ ~ls_valid'
        /\ ~br_handshake(f, m) /\ ~mem_wb_valid(m) /\ if_ready(f, m) /\ ~o_ifid_stall /\ ~m
    BY EdgeWords, EdgeMoves DEF FlightInv, Follows
  <1>2. ~except_en /\ ~mret /\ ~time_int /\ ~int_taken(f)
    BY DEF flush, ecall, interrupt_en, time_int, int_taken
  <1>3. jumping(m) = Jumps
    BY JumpRead
  <1>4. /\ ~delay' /\ wb' = wb /\ ram' = ram
        /\ old' = [ins |-> wb.ins, pc |-> wb.pc]
        /\ if_pc' = pc /\ ~keep'
    BY <1>1 DEF Edge, Bru, Memory, Difftest, Fetch
  <1>5. pc' = pc
    <2>1. pc' = IF (Jumps \/ delay) /\ ~keep THEN next_pc(m) ELSE pc
      BY <1>1, <1>2, <1>3 DEF Edge, Bru, pc_wen
    <2>2. Jumps => Real
      BY DEF Jumps, jump, Real, Bubble
    <2>3. (Jumps \/ delay) /\ ~keep => next_pc(m) = pc
      BY <1>1, <2>2, NextPc DEF AgreeInv, PcInv, InWb
    <2>4. QED
      BY <2>1, <2>3
  <1>6. IF Jumps \/ keep THEN id' = [ins |-> Bubble, pc |-> if_pc]
        ELSE \E i \in Program[if_pc] \cup System[if_pc] :
               ~Avoided(i) /\ id' = [ins |-> i, pc |-> if_pc]
    BY <1>1, <1>3 DEF Edge, Fetch
  <1>7. QED
    BY <1>1, <1>2, <1>4, <1>5, <1>6

\* WB leaves: the CSR it writes, in the processor and as difftest sees it.
LEMMA FetchCsr ==
    ASSUME FlightInv, Typed, AgreeInv, Conditions,
           NEW f \in BOOLEAN, NEW m \in BOOLEAN, NEW t \in BOOLEAN,
           Edge(f, m, t), f, ~flush(f)
    PROVE  /\ csr' = csr_diff(f)
           /\ ~Real => csr' = csr
           /\ Real => csr' = Done.csr
           /\ Early(wb.ins) => csr'[wb.ins.csr] = wb.csr_res
           /\ ~is_csr(id.ins) => csr' = csr
  <1> DEFINE g == [c \in Csrs |-> IF csr_write(c) THEN wb.csr_res ELSE csr[c]]
  <1>1. /\ wb.ins = id.ins /\ InWb /\ csr \in [Csrs -> Value]
        /\ ~except_en /\ ~mret /\ ~time_int /\ ~int_taken(f)
    BY FetchMoves DEF Typed
  <1>2. csr_next(f) = g
    BY <1>1 DEF csr_next
  <1>3. csr_diff(f) = g
    BY <1>1 DEF csr_diff
  <1>4. csr' = g
    BY <1>2 DEF Edge, WriteBack
  <1>5. ~is_csr(id.ins) => csr' = csr
    <2>1. ~is_csr(id.ins) => \A c \in Csrs : ~csr_write(c)
      BY <1>1 DEF csr_write
    <2>2. QED
      BY <1>1, <1>4, <2>1
  <1>6. Early(wb.ins) => csr'[wb.ins.csr] = wb.csr_res
    BY <1>4 DEF Early, csr_write, Csrs
  <1>7. ~Real => csr' = csr
    BY <1>5 DEF Real, Bubble, is_csr, CsrRegs, CsrImms
  <1>8. Real => csr' = Done.csr
    <2> SUFFICES ASSUME Real PROVE csr' = Done.csr
      OBVIOUS
    <2>1. /\ csr = ref.csr \/ (csr = Done.csr /\ (is_ecall(id.ins) \/ Early(id.ins)))
          /\ rf = ref.regs /\ ref.csr \in [Csrs -> Value]
          /\ ~is_ecall(id.ins) /\ ~is_mret(id.ins)
      BY <1>1, InWbState DEF except_en, mret
    <2>2. CASE is_csr(id.ins)
      <3>1. /\ Done.csr = [ref.csr EXCEPT ![id.ins.csr] = wb.csr_res]
            /\ id.ins.csr \in Csrs
        BY <1>1, <2>1, <2>2, DoneCsr, InsTyped DEF Typed, AgreeInv, StageInv
      <3>2. \A c \in Csrs : csr_write(c) <=> id.ins.csr = c
        BY <1>1, <2>2 DEF csr_write
      <3>3. Done.csr = g
        BY <2>1, <3>1, <3>2
      <3>4. QED
        BY <1>4, <3>3
    <2>3. CASE ~is_csr(id.ins)
      <3>1. Plain(id.ins) /\ ~Early(id.ins)
        BY <2>1, <2>3 DEF Plain, Early
      <3>2. QED
        BY <1>5, <2>1, <2>3, <3>1, DonePlain
    <2>4. QED
      BY <2>2, <2>3
  <1>9. QED
    BY <1>3, <1>4, <1>5, <1>6, <1>7, <1>8

\* The reference model follows, and the report agrees with it.
LEMMA FetchState ==
    ASSUME FlightInv, Typed, AgreeInv, Conditions,
           NEW f \in BOOLEAN, NEW m \in BOOLEAN, NEW t \in BOOLEAN,
           Edge(f, m, t), f, ~flush(f)
    PROVE  /\ rf' = ref'.regs /\ ram' = ref'.mem /\ csr' = ref'.csr
           /\ ~Real => ref' = ref
           /\ Real /\ ~Repeated => ref' = Done
           /\ Real => /\ ref'.pc = IF Jumps THEN jump_pc(id.ins, id.pc, Rs1) ELSE Add(id.pc, Four)
                      /\ rf' = Done.regs
           /\ DifftestAgrees'
  <1>1. /\ wb.ins = id.ins /\ wb.pc = id.pc /\ InWb /\ ram' = ram
        /\ ~except_en /\ ~mret /\ ~time_int
    BY FetchMoves
  <1>2. /\ csr' = csr_diff(f)
        /\ ~Real => csr' = csr
        /\ Real => csr' = Done.csr
    BY FetchCsr
  <1>3. /\ ref' = IF inst_valid(f) THEN Executed(ref, id.ins) ELSE ref
        /\ cmt' = IF inst_valid(f)
                  THEN [kind |-> "commit", pc |-> id.pc, ref_pc |-> ref.pc, regs |-> rf',
                        csr |-> csr_diff(f)]
                  ELSE NoCommit
        /\ rf' = IF rf_wen(f) THEN SetReg(rf, id.ins.rd, wb.rd) ELSE rf
    BY <1>1 DEF Edge, Difftest, WriteBack, intrNO
  <1>4. CASE ~Real
    <2>1. ~inst_valid(f) /\ ~rf_wen(f)
      <3>1. wb.ins = Bubble
        BY <1>1, <1>4 DEF Real
      <3>2. ~o_rdwen(Bubble) /\ ~csr_to_rf(Bubble)
        BY DEF o_rdwen, csr_to_rf, Bubble, Ops
      <3>3. QED
        BY <3>1, <3>2 DEF inst_valid, rf_wen
    <2>2. rf = ref.regs /\ ram = ref.mem /\ csr = ref.csr
      BY <1>4 DEF AgreeInv, StateInv
    <2>3. QED
      BY <1>1, <1>2, <1>3, <1>4, <2>1, <2>2 DEF DifftestAgrees, NoCommit
  <1>5. CASE Real
    <2>1. /\ id.pc \in Value /\ At.pc = id.pc /\ (~Repeated => At = ref /\ ref.pc = id.pc)
          /\ rf = ref.regs /\ ram = Done.mem /\ wb_valid
          /\ ~is_ecall(id.ins) /\ ~is_mret(id.ins)
      BY <1>1, <1>5, InWbState DEF except_en, mret
    <2>2. rf' = Done.regs
      <3>1. Done.regs = IF o_rdwen(id.ins) \/ csr_to_rf(id.ins)
                        THEN SetReg(rf, id.ins.rd, wb.rd) ELSE rf
        BY <1>1, <1>5 DEF AgreeInv, StageInv
      <3>2. rf_wen(f) = (o_rdwen(id.ins) \/ csr_to_rf(id.ins))
        BY <1>1, <2>1 DEF rf_wen, o_rdwen, csr_to_rf
      <3>3. QED
        BY <1>3, <3>1, <3>2
    <2>3. inst_valid(f) = ~Repeated
      <3>1. id.pc # NoPc /\ id.ins # Bubble
        BY <1>5, <2>1, RvAssumption DEF Real
      <3>2. QED
        BY <1>1, <1>5, <2>1, <3>1 DEF inst_valid, Repeated
    <2>4. Done.pc = IF Jumps THEN jump_pc(id.ins, id.pc, Rs1) ELSE Add(id.pc, Four)
      BY <1>5, <2>1, DoneCsr, DonePlain DEF Plain, NextPcOf
    <2>5. CASE ~Repeated
      <3>1. ref' = Done
        BY <1>3, <2>1, <2>3, <2>5 DEF Done
      <3>2. DifftestAgrees'
        BY <1>2, <1>3, <1>5, <2>1, <2>2, <2>3, <2>5, <3>1 DEF DifftestAgrees
      <3>3. QED
        BY <1>1, <1>2, <1>5, <2>1, <2>2, <2>4, <3>1, <3>2
    <2>6. CASE Repeated
      <3>1. /\ id.pc = PC_START /\ ref.pc = Add(PC_START, Four) /\ ~Jumps
            /\ Done.regs = ref.regs /\ Done.mem = ref.mem
        BY <2>6 DEF AgreeInv, RepeatInv
      <3>2. id.ins \in Instr
        BY <1>5, <3>1, RvAssumption, CpuAxiAssumption DEF AgreeInv, WordInv, Conditions, RepeatableStart
      <3>3. Plain(id.ins)
        BY <3>2 DEF Instr, Ops, Plain, is_ecall, is_mret, is_csr, CsrRegs, CsrImms
      <3>4. Done.csr = ref.csr
        BY <1>5, <2>1, <3>3, DonePlain
      <3>5. ref' = ref /\ cmt' = NoCommit
        BY <1>3, <2>3, <2>6
      <3>6. QED
        BY <1>1, <1>2, <1>5, <2>1, <2>2, <2>6, <3>1, <3>4, <3>5 DEF DifftestAgrees, NoCommit
    <2>7. QED
      BY <2>5, <2>6
  <1>6. QED
    BY <1>4, <1>5

\* An instruction that does not change what it reads does the same again.
LEMMA ExecutedTwice ==
    ASSUME NEW s \in RefStates, NEW i \in Instr, NEW d, d = Executed(s, i),
           i.op \notin {"JAL", "JALR"}, rdwen(i) => i.rd \notin {rs1id(i), rs2id(i)},
           ~jump(i, s.regs[i.rs1], s.regs[i.rs2])
    PROVE  LET e == Executed([d EXCEPT !.pc = s.pc], i)
           IN  /\ e.regs = d.regs /\ e.mem = d.mem
               /\ ~jump(i, d.regs[rs1id(i)], d.regs[rs2id(i)])
  <1> DEFINE a == s.regs[i.rs1]
             b == s.regs[i.rs2]
             p == [d EXCEPT !.pc = s.pc]
             x == d.regs[i.rs1]
             y == d.regs[i.rs2]
             e == Executed(p, i)
  <1>1. /\ i.op \in {"REG", "IMM", "AUIPC", "LOAD", "STORE", "BRANCH"}
        /\ i.rd \in Regs /\ i.rs1 \in Regs /\ i.rs2 \in Regs /\ i.imm \in Value
        /\ ~is_ecall(i) /\ ~is_mret(i) /\ ~is_csr(i)
    BY DEF Instr, Ops, is_ecall, is_mret, is_csr, CsrRegs, CsrImms
  <1>2. /\ s.regs \in [Regs -> Value] /\ s.mem \in [Words -> Value] /\ s.csr \in [Csrs -> Value]
        /\ s.pc \in Value /\ s = [pc |-> s.pc, regs |-> s.regs, mem |-> s.mem, csr |-> s.csr]
    BY DEF RefStates
  <1>3. d = [pc |-> Add(s.pc, Four),
             regs |-> IF ~rdwen(i) THEN s.regs
                      ELSE [s.regs EXCEPT ![i.rd] = IF lden(i) THEN s.mem[WordOf[Add(a, i.imm)]]
                                                    ELSE exu_res(i, s.pc, a, b)],
             mem |-> IF sten(i) THEN [s.mem EXCEPT ![WordOf[Add(a, i.imm)]] = b] ELSE s.mem,
             csr |-> s.csr]
    BY <1>1, <1>2 DEF Executed
  <1>4. p = [pc |-> s.pc, regs |-> d.regs, mem |-> d.mem, csr |-> s.csr]
    BY <1>3
  <1>5. /\ i.op \in {"REG", "IMM", "LOAD", "STORE", "BRANCH"} => x = a
        /\ i.op \in {"REG", "STORE", "BRANCH"} => y = b
    <2>1. \A r \in Regs : (rdwen(i) => i.rd # r) => d.regs[r] = s.regs[r]
      BY <1>1, <1>2, <1>3
    <2>2. QED
      BY <1>1, <2>1 DEF rs1id, rs2id
  <1> HIDE DEF a, b, x, y, p
  <1>6. /\ ~jump(i, x, y)
        /\ exu_res(i, s.pc, x, y) = exu_res(i, s.pc, a, b)
        /\ lden(i) \/ sten(i) => x = a
        /\ sten(i) => y = b
    BY <1>1, <1>5 DEF jump, exu_res, lden, sten, a, b
  <1>7. /\ e.regs = IF ~rdwen(i) THEN d.regs
                    ELSE [d.regs EXCEPT ![i.rd] = IF lden(i) THEN d.mem[WordOf[Add(x, i.imm)]]
                                                  ELSE exu_res(i, s.pc, x, y)]
        /\ e.mem = IF sten(i) THEN [d.mem EXCEPT ![WordOf[Add(x, i.imm)]] = y] ELSE d.mem
    <2>1. p.regs = d.regs /\ p.mem = d.mem /\ p.pc = s.pc
      BY <1>4
    <2>2. e = [p EXCEPT !.pc = IF jump(i, x, y) THEN jump_pc(i, p.pc, x) ELSE Add(p.pc, Four),
                        !.regs = IF ~rdwen(i) THEN d.regs
                                 ELSE [d.regs EXCEPT ![i.rd] =
                                         IF lden(i) THEN d.mem[WordOf[Add(x, i.imm)]]
                                         ELSE exu_res(i, s.pc, x, y)],
                        !.mem = IF sten(i) THEN [d.mem EXCEPT ![WordOf[Add(x, i.imm)]] = y]
                                ELSE d.mem]
      BY <1>1, <2>1 DEF Executed, x, y
    <2>3. QED
      BY <1>4, <2>2
  <1>8. e.mem = d.mem
    BY <1>2, <1>3, <1>6, <1>7
  <1>9. e.regs = d.regs
    <2>1. lden(i) => d.mem = s.mem
      BY <1>3 DEF lden, sten
    <2>2. QED
      BY <1>2, <1>3, <1>6, <1>7, <2>1
  <1>10. ~jump(i, d.regs[rs1id(i)], d.regs[rs2id(i)])
    BY <1>1, <1>6 DEF jump, rs1id, rs2id, x, y
  <1>11. QED
    BY <1>8, <1>9, <1>10 DEF p

\* What a fetch does to the state does not depend on the word fetched.
LEMMA FetchAgreed ==
    ASSUME FlightInv, Typed, AgreeInv, Conditions,
           NEW f \in BOOLEAN, NEW m \in BOOLEAN, NEW t \in BOOLEAN,
           Edge(f, m, t), f, ~flush(f)
    PROVE  StageInv' /\ StateInv'
  <1>1. /\ InWb /\ wb.ins = id.ins /\ wb' = wb
        /\ id_valid' /\ ~ex_valid' /\ ~ls_valid' /\ ~InWb'
    BY FetchMoves DEF InWb
  <1>2. /\ rf' = ref'.regs /\ ram' = ref'.mem /\ csr' = ref'.csr
    BY FetchState
  <1>3. Early(wb'.ins) => csr'[wb'.ins.csr] = wb'.csr_res
    BY <1>1, FetchCsr
  <1>4. (\A v \in Value : System[v] = {}) => csr' = CsrReset
    <2> SUFFICES ASSUME \A v \in Value : System[v] = {} PROVE csr' = CsrReset
      OBVIOUS
    <2>1. csr = CsrReset
      BY DEF AgreeInv, StateInv
    <2>2. Real => id.ins \in Instr
      BY RvAssumption DEF AgreeInv, WordInv, FlightInv, Follows, Real
    <2>3. Real => ~is_csr(id.ins)
      BY <2>2 DEF Instr, Ops, is_csr, CsrRegs, CsrImms
    <2>4. QED
      BY <2>1, <2>3, FetchCsr
  <1>5. StageInv'
    BY <1>1 DEF StageInv
  <1>6. QED
    BY <1>1, <1>2, <1>3, <1>4, <1>5 DEF StateInv

LEMMA FetchBubble ==
    ASSUME FlightInv, Typed, AgreeInv, Conditions,
           NEW f \in BOOLEAN, NEW m \in BOOLEAN, NEW t \in BOOLEAN,
           Edge(f, m, t), f, ~flush(f), Jumps \/ keep
    PROVE  AgreeInv'
  <1>1. /\ InWb /\ id_valid' /\ ~delay' /\ ~keep' /\ if_pc' = pc /\ pc' = pc
        /\ id' = [ins |-> Bubble, pc |-> if_pc]
    BY FetchMoves
  <1>2. ~Real' /\ ~Repeated'
    BY <1>1 DEF Real, Repeated
  <1>3. pc = ref'.pc
    <2>1. Jumps => Real
      BY DEF Jumps, jump, Real, Bubble
    <2>2. CASE Jumps
      BY <1>1, <2>1, <2>2, FetchState DEF AgreeInv, PcInv, InWb
    <2>3. CASE ~Jumps /\ keep
      BY <2>3, FetchState DEF AgreeInv, PcInv
    <2>4. QED
      BY <2>2, <2>3
  <1>4. PcInv'
    BY <1>1, <1>2, <1>3 DEF PcInv
  <1>5. WordInv' /\ RepeatInv'
    BY <1>2 DEF WordInv, RepeatInv
  <1>6. QED
    BY <1>4, <1>5, FetchAgreed DEF AgreeInv

LEMMA FetchWord ==
    ASSUME FlightInv, Typed, AgreeInv, Conditions,
           NEW f \in BOOLEAN, NEW m \in BOOLEAN, NEW t \in BOOLEAN,
           Edge(f, m, t), f, ~flush(f), ~Jumps, ~keep
    PROVE  AgreeInv'
  <1>1. /\ InWb /\ wb.ins = id.ins /\ wb.pc = id.pc /\ wb' = wb
        /\ id_valid' /\ ~delay' /\ ~keep' /\ if_pc' = pc /\ pc' = pc
        /\ old' = [ins |-> id.ins, pc |-> id.pc]
    BY FetchMoves
  <1>2. PICK i \in Program[if_pc] \cup System[if_pc] :
          ~Avoided(i) /\ id' = [ins |-> i, pc |-> if_pc]
    BY FetchMoves
  <1>3. /\ rf' = ref'.regs /\ csr' = ref'.csr
        /\ ~Real => ref' = ref /\ csr = ref.csr
        /\ Real /\ ~Repeated => ref' = Done
        /\ Real => ref'.pc = Add(id.pc, Four) /\ rf' = Done.regs
    BY FetchState DEF AgreeInv, StateInv
  <1>4. if_pc \in Value /\ i \in Instr \cup SysInstr /\ i # Bubble
    <2>1. if_pc \in Value
      BY DEF FlightInv, Follows, Typed
    <2>2. i \in Instr \cup SysInstr
      BY <2>1, RvAssumption, SysAssumption
    <2>3. i.op # "NONE"
      BY <2>2 DEF Instr, SysInstr, Ops, CsrRegs, CsrImms
    <2>4. QED
      BY <2>1, <2>2, <2>3 DEF Bubble
  <1>5. /\ Real'
        /\ Repeated' <=> Real /\ id.ins = i /\ id.pc = if_pc
        /\ ~InWb'
    <2>1. Real'
      BY <1>2, <1>4 DEF Real
    <2>2. Repeated' <=> [ins |-> id.ins, pc |-> id.pc] = [ins |-> i, pc |-> if_pc]
      BY <1>1, <1>2, <2>1 DEF Repeated
    <2>3. QED
      BY <1>1, <1>4, <2>1, <2>2 DEF InWb, Real
  \* The word at PC_START, fetched again.
  <1>6. Real => \/ if_pc = Add(id.pc, Four) /\ if_pc # id.pc
                \/ /\ if_pc = PC_START /\ id.pc = PC_START /\ ~Repeated
                   /\ ~MTIE(ref.csr["mie"]) /\ id.ins = i /\ Repeated'
    <2> SUFFICES ASSUME Real
                 PROVE  \/ if_pc = Add(id.pc, Four) /\ if_pc # id.pc
                        \/ /\ if_pc = PC_START /\ id.pc = PC_START /\ ~Repeated
                           /\ ~MTIE(ref.csr["mie"]) /\ id.ins = i /\ Repeated'
      OBVIOUS
    <2>1. CASE if_pc = Add(id.pc, Four)
      <3>1. id.pc \in Value
        BY DEF FlightInv, Follows, Real
      <3>2. QED
        BY <2>1, <3>1 DEF Conditions, Arithmetic
    <2>2. CASE if_pc # Add(id.pc, Four)
      <3>1. if_pc = PC_START /\ id.pc = PC_START /\ ~Repeated /\ ~MTIE(ref.csr["mie"])
        BY <2>2 DEF AgreeInv, PcInv
      <3>2. id.ins = i
        BY <3>1 DEF AgreeInv, WordInv, Conditions, RepeatableStart
      <3>3. QED
        BY <1>5, <3>1, <3>2
    <2>3. QED
      BY <2>1, <2>2
  <1>7. PcInv'
    <2>1. Real' => if_pc' = Add(id'.pc, Four)
                   \/ /\ if_pc' = PC_START /\ id'.pc = PC_START /\ ~Repeated'
                      /\ ~MTIE(ref'.csr["mie"])
      <3>1. CASE Real
        BY <1>1, <1>2, <3>1 DEF AgreeInv, PcInv, InWb
      <3>2. CASE ~Real
        BY <1>1, <1>2, <1>3, <1>5, <3>2 DEF AgreeInv, PcInv, InWb
      <3>3. QED
        BY <3>1, <3>2
    <2>2. QED
      BY <1>1, <1>5, <2>1 DEF PcInv
  <1>8. WordInv'
    <2>1. ~Unsafe(i, ref'.csr)
      <3>1. CASE {"ecall_masked", "ecall_interrupted", "mret_interrupted", "store_interrupted",
                  "csr_interrupted", "csrrw_rd", "csrrc_high"} \subseteq Avoids
        BY <1>2, <1>3, <3>1 DEF Avoided, Unsafe, Enabled
      <3>2. CASE \A v \in Value : System[v] = {}
        <4>1. ref'.csr = CsrReset
          BY <1>3, <3>2, FetchAgreed DEF StateInv
        <4>2. i \in Instr
          BY <1>2, <1>4, <3>2, RvAssumption
        <4>3. i.op \in Ops
          BY <4>2 DEF Instr
        <4>4. QED
          BY <4>1, <4>3 DEF Unsafe, Enabled, Conditions, RepeatableStart, Ops, is_ecall, is_mret,
                            is_csr, CsrRegs, CsrImms
      <3>3. QED
        BY <3>1, <3>2 DEF Conditions, Careful
    <2>2. ~Repeated' => ref'.pc = if_pc
      <3>1. CASE Real
        BY <1>3, <1>6, <3>1
      <3>2. CASE ~Real
        BY <1>3, <3>2 DEF AgreeInv, PcInv
      <3>3. QED
        BY <3>1, <3>2
    <2>3. Repeated' <=> wb'.ins = i /\ wb'.pc = if_pc
      BY <1>1, <1>4, <1>5 DEF Real
    <2>4. QED
      BY <1>1, <1>2, <1>5, <2>1, <2>2, <2>3 DEF WordInv
  <1>9. RepeatInv'
    <2> SUFFICES ASSUME Repeated'
                 PROVE  /\ id'.pc = PC_START /\ ref'.pc = Add(PC_START, Four)
                        /\ ~MTIE(ref'.csr["mie"])
                        /\ ~Jumps'
                        /\ Done'.regs = ref'.regs /\ Done'.mem = ref'.mem
      BY DEF RepeatInv
    <2>1. /\ Real /\ id.ins = i /\ id.pc = PC_START /\ if_pc = PC_START /\ ~Repeated
          /\ ~MTIE(ref.csr["mie"])
      BY <1>5, <1>6
    <2>2. ref' = Done /\ ref'.pc = Add(PC_START, Four) /\ rf' = ref'.regs
      BY <1>3, <2>1
    <2>3. i \in Instr /\ (i.op \in {"JAL", "JALR"} \/ (rdwen(i) => i.rd \notin {rs1id(i), rs2id(i)}))
      <3>1. PICK j \in Instr : /\ Program[PC_START] = {j}
                               /\ j.op \in {"JAL", "JALR"}
                                    \/ (rdwen(j) => j.rd \notin {rs1id(j), rs2id(j)})
        BY DEF Conditions, RepeatableStart
      <3>2. i = j
        BY <1>2, <2>1, <3>1 DEF Conditions, RepeatableStart
      <3>3. QED
        BY <3>1, <3>2
    <2>4. rf = ref.regs /\ At = ref /\ ref.pc = PC_START /\ ref \in RefStates
      BY <1>1, <2>1, InWbState DEF Typed
    <2>5. Done = Executed(ref, i)
      BY <2>1, <2>4 DEF Done
    <2>6. i.op \notin {"JAL", "JALR"} /\ ~jump(i, ref.regs[i.rs1], ref.regs[i.rs2])
      BY <2>1, <2>3, <2>4 DEF Jumps, jump, Rs1, Rs2, rs1id, rs2id
    <2>7. LET e == Executed([Done EXCEPT !.pc = ref.pc], i)
          IN  /\ e.regs = Done.regs /\ e.mem = Done.mem
              /\ ~jump(i, Done.regs[rs1id(i)], Done.regs[rs2id(i)])
      BY <2>3, <2>4, <2>5, <2>6, ExecutedTwice
    <2>8. At' = [Done EXCEPT !.pc = ref.pc] /\ Done' = Executed([Done EXCEPT !.pc = ref.pc], i)
      BY <1>2, <2>1, <2>2, <2>4 DEF At, Done
    <2>9. Jumps' = jump(i, Done.regs[rs1id(i)], Done.regs[rs2id(i)])
      BY <1>2, <2>2 DEF Jumps, Rs1, Rs2
    <2>10. ref'.csr = ref.csr
      <3>1. Plain(id.ins)
        BY <2>1, <2>3 DEF Instr, Ops, Plain, is_ecall, is_mret, is_csr, CsrRegs, CsrImms
      <3>2. QED
        BY <2>1, <2>2, <2>4, <3>1, DonePlain
    <2>11. QED
      BY <1>2, <2>1, <2>2, <2>7, <2>8, <2>9, <2>10
  <1>10. QED
    BY <1>7, <1>8, <1>9, FetchAgreed DEF AgreeInv

----------------------------------------------------------------------------
(* The invariant.                                                          *)

LEMMA AgreeStep ==
    ASSUME FlightInv, Typed, AgreeInv, Conditions,
           NEW f \in BOOLEAN, NEW m \in BOOLEAN, NEW t \in BOOLEAN,
           Edge(f, m, t)
    PROVE  AgreeInv' /\ DifftestAgrees'
  <1>1. CASE flush(f)
    BY <1>1, FlushEdge
  <1>2. CASE ~flush(f) /\ ~f
    <2>1. AgreeInv'
      BY <1>2, QuietPc, QuietWord, QuietState DEF AgreeInv
    <2>2. cmt' = NoCommit
      BY <1>2, QuietEdge DEF AgreeInv
    <2>3. QED
      BY <2>1, <2>2 DEF DifftestAgrees, NoCommit
  <1>3. CASE ~flush(f) /\ f
    <2>1. AgreeInv'
      BY <1>3, FetchBubble, FetchWord
    <2>2. QED
      BY <1>3, <2>1, FetchState
  <1>4. QED
    BY <1>1, <1>2, <1>3

LEMMA InitAgrees == Conditions /\ Init => AgreeInv /\ DifftestAgrees
  <1> SUFFICES ASSUME Conditions, Init PROVE AgreeInv /\ DifftestAgrees
    OBVIOUS
  <1>1. ~Real /\ ~Repeated /\ ~Early(wb.ins)
    BY DEF Init, Real, Repeated, Early, is_csr, Bubble, CsrRegs, CsrImms
  <1>2. PcInv
    BY <1>1 DEF Init, PcInv, Conditions, RepeatableStart
  <1>3. WordInv /\ RepeatInv /\ StageInv
    BY <1>1 DEF WordInv, RepeatInv, StageInv
  <1>4. StateInv
    BY <1>1 DEF Init, StateInv
  <1>5. QED
    BY <1>2, <1>3, <1>4 DEF AgreeInv, Init, DifftestAgrees, NoCommit

LEMMA Agreement == Conditions => (Spec => [](AgreeInv /\ DifftestAgrees /\ FlightInv /\ Typed))
  <1> DEFINE Inv == AgreeInv /\ DifftestAgrees /\ FlightInv /\ Typed
  <1> SUFFICES ASSUME Conditions PROVE Spec => []Inv
    OBVIOUS
  <1>1. Init => Inv
    BY InitAgrees, InitTyped
  <1>2. Inv /\ [Next]_vars => Inv'
    <2> SUFFICES ASSUME Inv, [Next]_vars PROVE Inv'
      OBVIOUS
    <2>1. CASE UNCHANGED vars
      <3>1. AgreeInv'
        BY <2>1 DEF vars, AgreeInv, PcInv, WordInv, RepeatInv, StageInv, StateInv, Real, Rs1, Rs2,
                    Jumps, Repeated, At, Done, InWb, jalr_bp
      <3>2. DifftestAgrees' /\ FlightInv' /\ Typed'
        BY <2>1 DEF vars, DifftestAgrees, FlightInv, Follows, OneAtATime, InLs, InWb, Typed
      <3>3. QED
        BY <3>1, <3>2
    <2>2. CASE Next
      <3>1. PICK f \in BOOLEAN, m \in BOOLEAN, t \in BOOLEAN : Edge(f, m, t)
        BY <2>2 DEF Next
      <3>2. QED
        BY <3>1, AgreeStep, EdgeTyped, EdgeFollows, EdgeOneAtATime DEF FlightInv
    <2>3. QED
      BY <2>1, <2>2
  <1>3. QED
    BY <1>1, <1>2, PTL DEF Spec

\* Difftest::step never reports a difference: after every instruction and
\* every interrupt cpu.sv reports, the address, the registers and the CSRs are
\* those of the reference model.
THEOREM DifftestAlwaysAgrees == Conditions => (Spec => []DifftestAgrees)
  BY Agreement, PTL

\* Nor does what difftest does not look at differ: with nothing in WB, memory
\* and the register file are those of the reference model.
THEOREM StateAlwaysAgrees == Conditions => (Spec => []StateAgrees)
  <1>1. AgreeInv /\ FlightInv => StateAgrees
    BY DEF AgreeInv, StateInv, WordInv, StateAgrees
  <1>2. QED
    BY <1>1, Agreement, PTL

=============================================================================
