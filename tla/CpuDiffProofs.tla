---------------------------- MODULE CpuDiffProofs ----------------------------
(***************************************************************************)
(* Proof that the pipeline of cpu_diff executes its program one            *)
(* instruction after another, for every arithmetic, every program and      *)
(* every number of registers and words, as long as no instruction stores a *)
(* register just loaded at the address in that same register.              *)
(***************************************************************************)
EXTENDS CpuDiff, TLAPS

----------------------------------------------------------------------------
(* What the operators of Rv64 return.                                      *)

\* The result of an operation on values is a value.
LEMMA ResultType ==
    ASSUME NEW i \in Instr, NEW a \in Value, NEW r1 \in Value, NEW r2 \in Value
    PROVE  exu_res(i, a, r1, r2) \in Value
  BY RvAssumption DEF exu_res, Instr

\* So is the target of a jump.
LEMMA TargetType ==
    ASSUME NEW i \in Instr, NEW a \in Value, NEW r1 \in Value
    PROVE  jump_pc(i, a, r1) \in Value
  BY RvAssumption DEF jump_pc, Instr

\* A NOP is an instruction that changes nothing and goes nowhere.
LEMMA NopFacts ==
    /\ NOP \in Instr
    /\ ~rdwen(NOP) /\ ~lden(NOP) /\ ~sten(NOP)
    /\ \A r1, r2 : ~jump(NOP, r1, r2)
  BY RvAssumption DEF NOP, Instr, Ops, rdwen, lden, sten, jump

\* The registers an instruction reads are registers.
LEMMA SourceTypes ==
    ASSUME NEW i \in Instr
    PROVE  i.rd \in Regs /\ rs1id(i) \in Regs /\ rs2id(i) \in Regs
  BY RvAssumption DEF Instr, rs1id, rs2id

\* What an instruction computes depends on the registers it reads only.
LEMMA SourcesSuffice ==
    ASSUME NEW i \in Instr, NEW a, NEW regs, NEW r1, NEW r2,
           r1 = regs[rs1id(i)], sten(i) \/ r2 = regs[rs2id(i)]
    PROVE  /\ exu_res(i, a, r1, r2) = exu_res(i, a, regs[i.rs1], regs[i.rs2])
           /\ jump(i, r1, r2) = jump(i, regs[i.rs1], regs[i.rs2])
           /\ i.op = "JALR" => jump_pc(i, a, r1) = jump_pc(i, a, regs[i.rs1])
           /\ i.op # "JALR" => jump_pc(i, a, r1) = jump_pc(i, a, regs[i.rs1])
  BY DEF exu_res, jump, jump_pc, rs1id, rs2id, sten, Instr, Ops

----------------------------------------------------------------------------
(* The values in the pipeline.                                             *)

\* Everything a stage computes is of its type.
LEMMA StageTypes ==
    ASSUME TypeOK
    PROVE  /\ id.ins \in Instr /\ id.pc \in Value /\ id.diffpc \in Pcs
           /\ ex.ins \in Instr /\ ex.pc \in Value /\ ex.diffpc \in Pcs
           /\ ex.rs1 \in Value /\ ex.rs2 \in Value /\ ex.ldstbp \in BOOLEAN
           /\ ls.ins \in Instr /\ ls.diffpc \in Pcs
           /\ ls.exres \in Value /\ ls.rs2 \in Value
           /\ wb.ins \in Instr /\ wb.diffpc \in Pcs /\ wb.rd \in Value
           /\ rf \in [Regs -> Value] /\ ram \in [Words -> Value]
           /\ exu_exres \in Value
           /\ lsu_lsres \in Value /\ lsu_rd \in Value
           /\ o_exu_rs2 \in Value
           /\ o_regs \in [Regs -> Value]
           /\ regs_ls \in [Regs -> Value]
           /\ \A r \in Regs : o_idu_rs(r) \in Value
           /\ idu_rs1 \in Value /\ idu_rs2 \in Value
  <1>1. /\ id.ins \in Instr /\ id.pc \in Value /\ id.diffpc \in Pcs
        /\ ex.ins \in Instr /\ ex.pc \in Value /\ ex.diffpc \in Pcs
        /\ ex.rs1 \in Value /\ ex.rs2 \in Value /\ ex.ldstbp \in BOOLEAN
        /\ ls.ins \in Instr /\ ls.diffpc \in Pcs
        /\ ls.exres \in Value /\ ls.rs2 \in Value
        /\ wb.ins \in Instr /\ wb.diffpc \in Pcs /\ wb.rd \in Value
        /\ rf \in [Regs -> Value] /\ ram \in [Words -> Value]
    BY DEF TypeOK
  <1>2. exu_exres \in Value
    BY <1>1, ResultType DEF exu_exres
  <1>3. lsu_lsres \in Value /\ lsu_rd \in Value
    BY <1>1, RvAssumption DEF lsu_lsres, lsu_rd
  <1>4. o_exu_rs2 \in Value
    BY <1>1, <1>3 DEF o_exu_rs2
  <1>5. o_regs \in [Regs -> Value]
    BY <1>1 DEF o_regs
  <1>6. regs_ls \in [Regs -> Value]
    BY <1>3, <1>5 DEF regs_ls
  <1>7. \A r \in Regs : o_idu_rs(r) \in Value
    BY <1>1, <1>2, <1>3 DEF o_idu_rs
  <1>8. idu_rs1 \in Value /\ idu_rs2 \in Value
    BY <1>1, <1>7, SourceTypes DEF idu_rs1, idu_rs2
  <1>9. QED
    BY <1>1, <1>2, <1>3, <1>4, <1>5, <1>6, <1>7, <1>8

\* The registers of the next cycle are those behind the instruction in MEM.
LEMMA RegsStep ==
    ASSUME TypeOK, Next
    PROVE  /\ o_regs' = regs_ls
           /\ lsu_rd' = IF lden(ex.ins) THEN ram'[WordOf[exu_exres]] ELSE exu_exres
           /\ regs_ls' = IF rdwen(ex.ins)
                         THEN [regs_ls EXCEPT ![ex.ins.rd] = lsu_rd'] ELSE regs_ls
  <1>1. rf' = o_regs
    BY DEF Next, WriteBackStage, o_regs
  <1>2. wb'.ins = ls.ins /\ wb'.rd = lsu_rd
    BY DEF Next, MemoryStage
  <1>3. o_regs' = regs_ls
    BY <1>1, <1>2 DEF o_regs, regs_ls
  <1>4. ls'.ins = ex.ins /\ ls'.exres = exu_exres
    BY DEF Next, ExecuteStage
  <1>5. lsu_rd' = IF lden(ex.ins) THEN ram'[WordOf[exu_exres]] ELSE exu_exres
    BY <1>4 DEF lsu_rd, lsu_lsres
  <1>6. QED
    BY <1>3, <1>4, <1>5 DEF regs_ls

\* Forwarding gives ID the value a register has behind the instruction in EX,
\* unless that is still to be loaded.
LEMMA Forwarding ==
    ASSUME TypeOK, Next, NEW r \in Regs, ~(lden(ex.ins) /\ Writes(ex, r))
    PROVE  o_idu_rs(r) = regs_ls'[r]
  <1>1. ls.ins.rd \in Regs /\ wb.ins.rd \in Regs /\ ex.ins.rd \in Regs
    BY StageTypes, SourceTypes
  <1>2. o_regs[r] = IF Writes(wb, r) THEN wb.rd ELSE rf[r]
    BY <1>1, StageTypes DEF o_regs, Writes
  <1>3. regs_ls[r] = IF Writes(ls, r) THEN lsu_rd ELSE o_regs[r]
    BY <1>1, StageTypes DEF regs_ls, Writes
  <1>4. regs_ls'[r] = IF Writes(ex, r) THEN lsu_rd' ELSE regs_ls[r]
    BY <1>1, StageTypes, RegsStep DEF Writes
  <1>5. Writes(ex, r) => lsu_rd' = exu_exres
    BY RegsStep
  <1>6. QED
    BY <1>2, <1>3, <1>4, <1>5 DEF o_idu_rs

\* The operands of the instruction that leaves ID.
LEMMA Operands ==
    ASSUME PipeInv, Next, ~o_idex_bubble
    PROVE  /\ idu_rs1 = regs_ls'[rs1id(id.ins)]
           /\ o_idu_ldstbp \/ idu_rs2 = regs_ls'[rs2id(id.ins)]
           /\ o_idu_ldstbp => /\ sten(id.ins) /\ lden(ex.ins)
                              /\ Writes(ex, rs2id(id.ins))
  <1>1. TypeOK
    BY DEF PipeInv
  <1>2. rs1id(id.ins) \in Regs /\ rs2id(id.ins) \in Regs
    BY <1>1, StageTypes, SourceTypes
  <1>3. o_idu_ldstbp => /\ sten(id.ins) /\ lden(ex.ins)
                        /\ Writes(ex, rs2id(id.ins))
    BY DEF o_idu_ldstbp
  <1>4. ~(lden(ex.ins) /\ Writes(ex, rs1id(id.ins)))
    <2>1. CASE o_idu_ldstbp
      <3>1. rs1id(id.ins) = id.ins.rs1 /\ rs2id(id.ins) = id.ins.rs2
        BY <1>3, <2>1 DEF sten, rs1id, rs2id
      <3>2. QED
        BY <1>3, <2>1, <3>1 DEF PipeInv, NoLoadStoreSame
    <2>2. CASE ~o_idu_ldstbp
      BY <2>2 DEF o_idex_bubble
    <2>3. QED
      BY <2>1, <2>2
  <1>5. o_idu_ldstbp \/ ~(lden(ex.ins) /\ Writes(ex, rs2id(id.ins)))
    BY DEF o_idex_bubble
  <1>6. QED
    BY <1>1, <1>2, <1>3, <1>4, <1>5, Forwarding DEF idu_rs1, idu_rs2

\* The registers the instruction in EX sees are those behind MEM.
LEMMA ExSees ==
    ASSUME PipeInv, ex.diffpc # NoPc
    PROVE  /\ exu_exres = exu_res(ex.ins, ex.diffpc, regs_ls[ex.ins.rs1], regs_ls[ex.ins.rs2])
           /\ sten(ex.ins) => o_exu_rs2 = regs_ls[ex.ins.rs2]
  <1>1. TypeOK /\ ex.pc = ex.diffpc
    BY DEF PipeInv, Bubbles
  <1>2. ex.ins \in Instr /\ ls.ins.rd \in Regs
    BY <1>1, StageTypes, SourceTypes
  <1>3. /\ ex.rs1 = regs_ls[rs1id(ex.ins)]
        /\ ex.ldstbp \/ ex.rs2 = regs_ls[rs2id(ex.ins)]
        /\ ex.ldstbp => sten(ex.ins) /\ lden(ls.ins) /\ Writes(ls, rs2id(ex.ins))
    BY DEF PipeInv, ExOperands
  <1>4. exu_exres = exu_res(ex.ins, ex.diffpc, regs_ls[ex.ins.rs1], regs_ls[ex.ins.rs2])
    BY <1>1, <1>2, <1>3, SourcesSuffice DEF exu_exres
  <1>5. SUFFICES ASSUME sten(ex.ins) PROVE o_exu_rs2 = regs_ls[ex.ins.rs2]
    BY <1>4
  <1>6. rs2id(ex.ins) = ex.ins.rs2
    BY <1>5 DEF sten, rs2id
  <1>7. CASE ex.ldstbp
    <2>1. lden(ls.ins) /\ rdwen(ls.ins) /\ ls.ins.rd = ex.ins.rs2
      BY <1>3, <1>6, <1>7 DEF Writes
    <2>2. regs_ls[ex.ins.rs2] = lsu_lsres
      BY <1>1, <1>2, <2>1, StageTypes DEF regs_ls, lsu_rd
    <2>3. QED
      BY <1>7, <2>2 DEF o_exu_rs2
  <1>8. CASE ~ex.ldstbp
    BY <1>3, <1>6, <1>8 DEF o_exu_rs2
  <1>9. QED
    BY <1>7, <1>8

\* A clock edge moves the addresses of the instructions one stage on.
LEMMA BehindStep ==
    ASSUME PipeInv, Next
    PROVE  BehindLs' = BehindEx /\ NextToComplete' = BehindLs
  <1>1. TypeOK
    BY DEF PipeInv
  <1>2. ls'.diffpc = ex.diffpc
    BY DEF Next, ExecuteStage
  <1>3. BehindLs' = BehindEx
    <2>1. CASE o_idex_bubble
      <3>1. ex'.diffpc = NoPc /\ id' = id /\ pc' = pc
        BY <2>1 DEF Next, DecodeStage, FetchStage
      <3>2. QED
        BY <3>1 DEF BehindLs, BehindEx
    <2>2. CASE ~o_idex_bubble
      <3>1. ex'.diffpc = id.diffpc
        BY <2>2 DEF Next, DecodeStage
      <3>2. CASE id.diffpc # NoPc
        BY <3>1, <3>2 DEF BehindLs, BehindEx
      <3>3. CASE id.diffpc = NoPc
        <4>1. ~jumping
          BY <3>3, NopFacts DEF PipeInv, Bubbles, jumping
        <4>2. id'.diffpc = pc
          BY <2>2, <4>1 DEF Next, FetchStage
        <4>3. pc # NoPc
          BY <1>1, RvAssumption DEF TypeOK
        <4>4. QED
          BY <3>1, <3>3, <4>2, <4>3 DEF BehindLs, BehindEx
      <3>4. QED
        BY <3>2, <3>3
    <2>3. QED
      BY <2>1, <2>2
  <1>4. QED
    BY <1>2, <1>3 DEF NextToComplete, BehindLs

----------------------------------------------------------------------------
(* The invariant is inductive.                                             *)

\* The pipeline starts full of bubbles.
LEMMA InitInv == ASSUME Init PROVE PipeInv
  <1>1. TypeOK
    BY NopFacts, RvAssumption DEF Init, TypeOK, Pcs
  <1>2. Bubbles /\ LsOperands /\ ExOperands /\ NoLoadStoreSame
    BY NopFacts DEF Init, Bubbles, LsOperands, ExOperands, NoLoadStoreSame
  <1>3. QED
    BY <1>1, <1>2 DEF Init, PipeInv

\* What is fetched is an instruction of the program at its address.
LEMMA Fetched ==
    ASSUME PipeInv, LoadStoreSame = FALSE, Next, ~o_idex_bubble, ~jumping
    PROVE  \E i \in Program[pc] :
              /\ ~(lden(id.ins) /\ sten(i) /\ Writes(id, i.rs1) /\ Writes(id, i.rs2))
              /\ id' = [ins |-> i, pc |-> pc, diffpc |-> pc]
              /\ i \in Instr
  <1>1. pc \in Value
    BY DEF PipeInv, TypeOK
  <1>2. Program[pc] \in SUBSET Instr
    BY <1>1, RvAssumption
  <1>3. QED
    BY <1>2 DEF Next, FetchStage

\* Type correctness is inductive.
LEMMA NextTypes ==
    ASSUME PipeInv, LoadStoreSame = FALSE, Next
    PROVE  TypeOK'
  <1>1. TypeOK
    BY DEF PipeInv
  <1>2. pc \in Value /\ NoPc \in Pcs /\ pc \in Pcs
    BY <1>1 DEF TypeOK, Pcs
  <1>3. pc' \in Value
    BY <1>1, <1>2, StageTypes, TargetType, RvAssumption DEF Next, FetchStage
  <1>4. id' \in [ins : Instr, pc : Value, diffpc : Pcs]
    <2>1. CASE o_idex_bubble
      BY <1>1, <2>1 DEF Next, FetchStage, TypeOK
    <2>2. CASE ~o_idex_bubble /\ jumping
      BY <1>2, <2>2, NopFacts DEF Next, FetchStage
    <2>3. CASE ~o_idex_bubble /\ ~jumping
      <3>1. PICK i \in Program[pc] :
                 id' = [ins |-> i, pc |-> pc, diffpc |-> pc] /\ i \in Instr
        BY <2>3, Fetched
      <3>2. QED
        BY <1>2, <3>1
    <2>4. QED
      BY <2>1, <2>2, <2>3
  <1>5. ex' \in [ins : Instr, pc : Value, diffpc : Pcs, rs1 : Value, rs2 : Value,
                 ldstbp : BOOLEAN]
    <2>1. o_idu_ldstbp \in BOOLEAN
      BY DEF o_idu_ldstbp, lden, sten, Writes, rdwen
    <2>2. QED
      BY <1>1, <1>2, <2>1, StageTypes, NopFacts, RvAssumption DEF Next, DecodeStage
  <1>6. ls' \in [ins : Instr, diffpc : Pcs, exres : Value, rs2 : Value]
    BY <1>1, StageTypes DEF Next, ExecuteStage
  <1>7. wb' \in [ins : Instr, diffpc : Pcs, rd : Value]
    BY <1>1, StageTypes DEF Next, MemoryStage
  <1>8. ram' \in [Words -> Value]
    BY <1>1, StageTypes DEF Next, MemoryStage
  <1>9. rf' \in [Regs -> Value]
    BY <1>1, StageTypes DEF Next, WriteBackStage
  <1>10. QED
    BY <1>3, <1>4, <1>5, <1>6, <1>7, <1>8, <1>9 DEF TypeOK

\* Bubbles stay bubbles, and instructions keep their addresses.
LEMMA NextBubbles ==
    ASSUME PipeInv, LoadStoreSame = FALSE, Next
    PROVE  Bubbles'
  <1>1. TypeOK /\ Bubbles /\ pc \in Value /\ pc # NoPc
    BY RvAssumption DEF PipeInv, TypeOK
  <1>2. /\ id'.diffpc = NoPc => id'.ins = NOP
        /\ id'.diffpc # NoPc => /\ id'.pc = id'.diffpc
                                /\ id'.ins \in Program[id'.diffpc]
                                /\ pc' = Add(id'.diffpc, Four)
    <2>1. CASE o_idex_bubble
      BY <1>1, <2>1 DEF Next, FetchStage, Bubbles
    <2>2. CASE ~o_idex_bubble /\ jumping
      BY <2>2 DEF Next, FetchStage
    <2>3. CASE ~o_idex_bubble /\ ~jumping
      <3>1. pc' = Add(pc, Four)
        BY <2>3 DEF Next, FetchStage
      <3>2. PICK i \in Program[pc] : id' = [ins |-> i, pc |-> pc, diffpc |-> pc]
        BY <2>3, Fetched
      <3>3. QED
        BY <1>1, <3>1, <3>2
    <2>4. QED
      BY <2>1, <2>2, <2>3
  <1>3. /\ ex'.diffpc = NoPc => ex'.ins = NOP
        /\ ex'.diffpc # NoPc => ex'.pc = ex'.diffpc /\ ex'.ins \in Program[ex'.diffpc]
    BY <1>1 DEF Next, DecodeStage, Bubbles
  <1>4. /\ ls'.diffpc = NoPc => ls'.ins = NOP
        /\ ls'.diffpc # NoPc => ls'.ins \in Program[ls'.diffpc]
    BY <1>1 DEF Next, ExecuteStage, Bubbles
  <1>5. QED
    BY <1>2, <1>3, <1>4 DEF Bubbles

\* The instruction that enters MEM brings its operands.
LEMMA NextLs ==
    ASSUME PipeInv, Next
    PROVE  LsOperands'
  <1>1. /\ ls'.ins = ex.ins /\ ls'.diffpc = ex.diffpc
        /\ ls'.exres = exu_exres /\ ls'.rs2 = o_exu_rs2
    BY DEF Next, ExecuteStage
  <1>2. o_regs' = regs_ls
    BY RegsStep DEF PipeInv
  <1>3. SUFFICES ASSUME ex.diffpc # NoPc PROVE LsOperands'
    BY <1>1 DEF LsOperands
  <1>4. BehindLs' = NextOf(ex.ins, ex.diffpc, regs_ls)
    BY <1>3, BehindStep DEF PipeInv, ExOperands
  <1>5. NextOf(ls.ins, ls.diffpc, o_regs)' = NextOf(ex.ins, ex.diffpc, regs_ls)
    BY <1>1, <1>2 DEF NextOf
  <1>6. QED
    BY <1>1, <1>2, <1>3, <1>4, <1>5, ExSees DEF LsOperands

\* The instruction that enters EX brings its operands.
LEMMA NextEx ==
    ASSUME PipeInv, Next
    PROVE  ExOperands'
  <1>1. TypeOK
    BY DEF PipeInv
  <1>2. ls'.ins = ex.ins
    BY DEF Next, ExecuteStage
  <1>3. CASE o_idex_bubble
    BY <1>3 DEF Next, DecodeStage, ExOperands
  <1>4. CASE ~o_idex_bubble
    <2>1. ex' = [ins |-> id.ins, pc |-> id.pc, diffpc |-> id.diffpc,
                 rs1 |-> idu_rs1, rs2 |-> idu_rs2, ldstbp |-> o_idu_ldstbp]
      BY <1>4 DEF Next, DecodeStage
    <2>2. /\ idu_rs1 = regs_ls'[rs1id(id.ins)]
          /\ o_idu_ldstbp \/ idu_rs2 = regs_ls'[rs2id(id.ins)]
          /\ o_idu_ldstbp => /\ sten(id.ins) /\ lden(ex.ins)
                             /\ Writes(ex, rs2id(id.ins))
      BY <1>4, Operands
    <2>3. o_idu_ldstbp => /\ lden(ls'.ins) /\ rdwen(ls'.ins)
                          /\ ls'.ins.rd = rs2id(id.ins)
      BY <1>2, <2>2 DEF Writes
    <2>4. id.diffpc # NoPc => BehindEx' = NextOf(id.ins, id.diffpc, regs_ls')
      <3>1. SUFFICES ASSUME id.diffpc # NoPc
                     PROVE  BehindEx' = NextOf(id.ins, id.diffpc, regs_ls')
        OBVIOUS
      <3>2. id.ins \in Instr /\ id.pc = id.diffpc /\ pc = Add(id.diffpc, Four)
        BY <1>1, <3>1, StageTypes DEF PipeInv, Bubbles
      <3>3. /\ jumping = jump(id.ins, regs_ls'[id.ins.rs1], regs_ls'[id.ins.rs2])
            /\ jump_pc(id.ins, id.pc, idu_rs1)
                 = jump_pc(id.ins, id.diffpc, regs_ls'[id.ins.rs1])
        BY <2>2, <3>2, SourcesSuffice DEF jumping
      <3>4. CASE jumping
        <4>1. id'.diffpc = NoPc /\ pc' = jump_pc(id.ins, id.pc, idu_rs1)
          BY <1>4, <3>4 DEF Next, FetchStage
        <4>2. QED
          BY <3>3, <3>4, <4>1 DEF BehindEx, NextOf
      <3>5. CASE ~jumping
        <4>1. id'.diffpc = pc
          BY <1>4, <3>5 DEF Next, FetchStage
        <4>2. pc # NoPc
          BY <1>1, RvAssumption DEF TypeOK
        <4>3. QED
          BY <3>2, <3>3, <3>5, <4>1, <4>2 DEF BehindEx, NextOf
      <3>6. QED
        BY <3>4, <3>5
    <2>5. NextOf(ex.ins, ex.diffpc, regs_ls)' = NextOf(id.ins, id.diffpc, regs_ls')
      BY <2>1 DEF NextOf
    <2>6. QED
      BY <1>2, <2>1, <2>2, <2>3, <2>4, <2>5 DEF ExOperands, Writes
  <1>5. QED
    BY <1>3, <1>4

\* A load and a store that the store bypass would betray are never adjacent.
LEMMA NextNoLoadStoreSame ==
    ASSUME PipeInv, LoadStoreSame = FALSE, Next
    PROVE  NoLoadStoreSame'
  <1>1. CASE o_idex_bubble
    <2>1. ex'.ins = NOP
      BY <1>1 DEF Next, DecodeStage
    <2>2. QED
      BY <2>1, NopFacts DEF NoLoadStoreSame
  <1>2. CASE ~o_idex_bubble /\ jumping
    <2>1. id'.ins = NOP
      BY <1>2 DEF Next, FetchStage
    <2>2. QED
      BY <2>1, NopFacts DEF NoLoadStoreSame
  <1>3. CASE ~o_idex_bubble /\ ~jumping
    <2>1. PICK i \in Program[pc] :
             /\ ~(lden(id.ins) /\ sten(i) /\ Writes(id, i.rs1) /\ Writes(id, i.rs2))
             /\ id' = [ins |-> i, pc |-> pc, diffpc |-> pc]
      BY <1>3, Fetched
    <2>2. ex'.ins = id.ins /\ id'.ins = i
      BY <1>3, <2>1 DEF Next, DecodeStage
    <2>3. QED
      BY <2>1, <2>2 DEF NoLoadStoreSame, Writes
  <1>4. QED
    BY <1>1, <1>2, <1>3

\* Every step keeps the invariant.
LEMMA NextInv ==
    ASSUME PipeInv, LoadStoreSame = FALSE, [Next]_vars
    PROVE  PipeInv'
  <1>1. CASE Next
    <2>1. TypeOK' /\ Bubbles' /\ LsOperands' /\ ExOperands' /\ NoLoadStoreSame'
      BY <1>1, NextTypes, NextBubbles, NextLs, NextEx, NextNoLoadStoreSame
    <2>2. rf'[x0] = Zero
      <3>1. wb.ins.rd \in Regs /\ rf \in [Regs -> Value] /\ rf[x0] = Zero
        BY StageTypes, SourceTypes DEF PipeInv
      <3>2. QED
        BY <1>1, <3>1, RvAssumption DEF Next, WriteBackStage, rdwen
    <2>3. QED
      BY <2>1, <2>2 DEF PipeInv
  <1>2. CASE UNCHANGED vars
    <2>1. /\ pc' = pc /\ id' = id /\ ex' = ex /\ ls' = ls /\ wb' = wb
          /\ rf' = rf /\ ram' = ram
      BY <1>2 DEF vars
    <2>2. o_regs' = o_regs /\ lsu_rd' = lsu_rd
      BY <2>1 DEF o_regs, lsu_rd, lsu_lsres
    <2>3. regs_ls' = regs_ls /\ BehindEx' = BehindEx /\ BehindLs' = BehindLs
      BY <2>1, <2>2 DEF regs_ls, BehindEx, BehindLs
    <2>4. TypeOK' /\ Bubbles' /\ NoLoadStoreSame'
      BY <2>1 DEF PipeInv, TypeOK, Bubbles, NoLoadStoreSame, Writes
    <2>5. LsOperands' /\ ExOperands'
      BY <2>1, <2>2, <2>3 DEF PipeInv, LsOperands, ExOperands, NextOf, Writes
    <2>6. QED
      BY <2>1, <2>4, <2>5 DEF PipeInv
  <1>3. QED
    BY <1>1, <1>2

\* Every stage always holds what its instruction would find if those ahead of
\* it had completed: no forwarding path, load bubble or squash of bypass.sv and
\* bru.sv is missing, whatever the program.
THEOREM PipeInvariant ==
    ASSUME LoadStoreSame = FALSE
    PROVE  Spec => []PipeInv
  <1>1. Init => PipeInv
    BY InitInv
  <1>2. PipeInv /\ [Next]_vars => PipeInv'
    BY NextInv
  <1>3. QED
    BY <1>1, <1>2, PTL DEF Spec

----------------------------------------------------------------------------
(* The pipeline implements the sequential machine.                         *)

\* The machine's instructions are the pipeline's.
LEMMA SameInstructions ==
    /\ \A i : ISA!rdwen(i) = rdwen(i)
    /\ \A i, a, r1, r2 : ISA!exu_res(i, a, r1, r2) = exu_res(i, a, r1, r2)
    /\ \A i, r1, r2 : ISA!jump(i, r1, r2) = jump(i, r1, r2)
    /\ \A i, a, r1 : ISA!jump_pc(i, a, r1) = jump_pc(i, a, r1)
  BY DEF ISA!rdwen, rdwen, ISA!exu_res, exu_res, ISA!jump, jump, ISA!jump_pc, jump_pc

\* The pipeline starts as the machine does.
LEMMA InitSimulates == ASSUME Init PROVE ISA!Init
  <1>1. wb.diffpc = NoPc /\ NextToComplete = ResetPc
    BY DEF Init, NextToComplete, BehindLs, BehindEx
  <1>2. o_regs = rf
    BY NopFacts DEF Init, o_regs
  <1>3. QED
    BY <1>1, <1>2 DEF Init, ISA!Init

\* A clock edge that takes a bubble out of MEM is no step of the machine.
LEMMA BubbleIsIdle ==
    ASSUME PipeInv, Next, ls.diffpc = NoPc
    PROVE  ISA!Idle
  <1>1. ls.ins = NOP
    BY DEF PipeInv, Bubbles
  <1>2. ram' = ram /\ wb'.diffpc = NoPc
    BY <1>1, NopFacts DEF Next, MemoryStage
  <1>3. o_regs' = o_regs
    BY <1>1, NopFacts, RegsStep DEF PipeInv, regs_ls
  <1>4. NextToComplete' = NextToComplete
    BY BehindStep DEF NextToComplete
  <1>5. QED
    BY <1>2, <1>3, <1>4 DEF ISA!Idle

\* One that takes an instruction out of MEM executes it.
LEMMA CompletionIsExecution ==
    ASSUME PipeInv, Next, ls.diffpc # NoPc
    PROVE  ls.ins \in Program[NextToComplete] /\ ISA!Execute(ls.ins)
  <1>1. TypeOK /\ ls.ins \in Instr
    BY StageTypes DEF PipeInv
  <1>2. NextToComplete = ls.diffpc /\ ls.ins \in Program[ls.diffpc]
    BY DEF NextToComplete, PipeInv, Bubbles
  <1>3. /\ ls.exres = exu_res(ls.ins, ls.diffpc, o_regs[ls.ins.rs1], o_regs[ls.ins.rs2])
        /\ sten(ls.ins) => ls.rs2 = o_regs[ls.ins.rs2]
        /\ BehindLs = NextOf(ls.ins, ls.diffpc, o_regs)
    BY DEF PipeInv, LsOperands
  <1>4. ls.ins.op \in {"LOAD", "STORE"} =>
            ls.exres = Add(o_regs[ls.ins.rs1], ls.ins.imm)
    BY <1>3 DEF exu_res
  <1>5. /\ o_regs' = IF ISA!rdwen(ls.ins)
                     THEN [o_regs EXCEPT ![ls.ins.rd] = ISA!Result(ls.ins)] ELSE o_regs
    <2>1. o_regs' = regs_ls
      BY <1>1, RegsStep
    <2>2. lsu_rd = ISA!Result(ls.ins)
      BY <1>2, <1>3, <1>4, SameInstructions DEF lsu_rd, lsu_lsres, lden, ISA!Result
    <2>3. QED
      BY <2>1, <2>2, SameInstructions DEF regs_ls
  <1>6. ram' = IF ls.ins.op = "STORE"
               THEN [ram EXCEPT ![WordOf[Add(o_regs[ls.ins.rs1], ls.ins.imm)]]
                                  = o_regs[ls.ins.rs2]]
               ELSE ram
    BY <1>3, <1>4 DEF Next, MemoryStage, sten
  <1>7. NextToComplete' =
            IF ISA!jump(ls.ins, o_regs[ls.ins.rs1], o_regs[ls.ins.rs2])
            THEN ISA!jump_pc(ls.ins, NextToComplete, o_regs[ls.ins.rs1])
            ELSE Add(NextToComplete, Four)
    BY <1>2, <1>3, BehindStep, SameInstructions DEF NextOf
  <1>8. /\ wb'.diffpc = ls.diffpc /\ wb'.ins = ls.ins
    BY DEF Next, MemoryStage
  <1>9. QED
    BY <1>2, <1>5, <1>6, <1>7, <1>8 DEF ISA!Execute

\* A clock edge is a step of the machine, or none.
LEMMA StepSimulates ==
    ASSUME PipeInv, [Next]_vars
    PROVE  [ISA!Next]_(ISA!isaVars)
  <1>1. CASE Next
    <2>1. CASE ls.diffpc = NoPc
      BY <1>1, <2>1, BubbleIsIdle DEF ISA!Next
    <2>2. CASE ls.diffpc # NoPc
      BY <1>1, <2>2, CompletionIsExecution DEF ISA!Next
    <2>3. QED
      BY <2>1, <2>2
  <1>2. CASE UNCHANGED vars
    BY <1>2 DEF vars, ISA!isaVars, o_regs, NextToComplete, BehindLs, BehindEx
  <1>3. QED
    BY <1>1, <1>2

\* What the pipeline of cpu_diff commits, its registers and its memory are those
\* of the program executed one instruction after another.
THEOREM SequentialExecution ==
    ASSUME LoadStoreSame = FALSE
    PROVE  Spec => Sequential
  <1>1. Init => ISA!Init
    BY InitSimulates
  <1>2. PipeInv /\ [Next]_vars => [ISA!Next]_(ISA!isaVars)
    BY StepSimulates
  <1>3. QED
    BY <1>1, <1>2, PipeInvariant, PTL DEF Spec, Sequential, ISA!Spec

\* A load holds its successor back for one cycle, even where the store bypass
\* is not complete: what enters EX behind it is a bubble, which loads nothing.
THEOREM OneBubble == Spec => StallsOnce
  <1>1. ASSUME Next, o_idex_bubble
        PROVE  ~o_idex_bubble'
    <2>1. ex'.ins = NOP
      BY <1>1 DEF Next, DecodeStage
    <2>2. ~lden(NOP)
      BY NopFacts
    <2>3. QED
      BY <2>1, <2>2 DEF o_idex_bubble
  <1>2. [Next]_vars => [o_idex_bubble => ~o_idex_bubble']_vars
    BY <1>1
  <1>3. QED
    BY <1>2, PTL DEF Spec, StallsOnce

=============================================================================
