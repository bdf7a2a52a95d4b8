--------------------------------- MODULE Isa ---------------------------------
(***************************************************************************)
(* The machine a pipeline promises to be: one instruction after another,   *)
(* each seeing all effects of the ones before it.  It is the reference     *)
(* model difftest runs beside the processor, and "commit" is what it is    *)
(* told of every clock cycle.                                              *)
(***************************************************************************)
EXTENDS Rv64

CONSTANT NoCommit   \* no instruction completed in the cycle, not a pair of pc and ins

VARIABLES pc, regs, mem, commit

isaVars == <<pc, regs, mem, commit>>

\* The value that instruction i leaves in its destination register.
Result(i) ==
    IF i.op = "LOAD" THEN mem[WordOf[Add(regs[i.rs1], i.imm)]]
                     ELSE exu_res(i, pc, regs[i.rs1], regs[i.rs2])

\* One instruction, found at pc, is executed.
Execute(i) ==
    /\ regs' = IF rdwen(i) THEN [regs EXCEPT ![i.rd] = Result(i)] ELSE regs
    /\ mem' = IF i.op = "STORE"
              THEN [mem EXCEPT ![WordOf[Add(regs[i.rs1], i.imm)]] = regs[i.rs2]]
              ELSE mem
    /\ pc' = IF jump(i, regs[i.rs1], regs[i.rs2])
             THEN jump_pc(i, pc, regs[i.rs1]) ELSE Add(pc, Four)
    /\ commit' = [pc |-> pc, ins |-> i]

\* A cycle in which nothing completes.
Idle == commit' = NoCommit /\ UNCHANGED <<pc, regs, mem>>

Init ==
    /\ pc = ResetPc
    /\ regs \in [Regs -> Value] /\ regs[x0] = Zero
    /\ mem \in [Words -> Value]
    /\ commit = NoCommit

Next == Idle \/ \E i \in Program[pc] : Execute(i)

Spec == Init /\ [][Next]_isaVars
=============================================================================
