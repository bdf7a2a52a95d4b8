--------------------------- MODULE NemuInterp ---------------------------
(* What NEMU's optimised interpreter has to be: the plain loop of           *)
(* cpu-exec.c that fetches, decodes and executes the instruction at pc.     *)
(* Until a fence.i an instruction that was overwritten may be run in its    *)
(* old form. What a program computes is abstracted: a branch goes either    *)
(* way, an indirect jump to one of the addresses its register can hold, and *)
(* a trap may come at every instruction.                                    *)
EXTENDS Naturals

CONSTANTS Programs  \* [code : pc -> instruction, patch : instruction, start, handler]

VARIABLES
    program,    \* the program that runs
    pc,         \* cpu.pc
    code,       \* the instruction in memory at each pc
    seen        \* what was in memory at each pc since the last fence.i

vars == <<program, pc, code, seen>>

\* Where an instruction of this kind at p can go; a store and a fence go on.
Successors(p, instr) ==
    CASE instr.kind \in {"J", "I", "X"} -> instr.to
      [] instr.kind = "B"               -> instr.to \cup {p + 1}
      [] OTHER                          -> {p + 1}

Init ==
    /\ program \in Programs
    /\ pc = program.start
    /\ code = program.code
    /\ seen = [p \in DOMAIN code |-> {code[p]}]

Effect(instr) ==
    CASE instr.kind = "S" ->
            /\ \E p \in instr.to : /\ code' = [code EXCEPT ![p] = program.patch]
                                   /\ seen' = [seen EXCEPT ![p] = @ \cup {program.patch}]
      [] instr.kind = "F" ->
            /\ seen' = [p \in DOMAIN code |-> {code[p]}]
            /\ UNCHANGED code
      [] OTHER -> UNCHANGED <<code, seen>>

Execute ==
    \E instr \in seen[pc] :
        /\ pc' \in Successors(pc, instr)
        /\ Effect(instr)
        /\ UNCHANGED program

Trap ==
    /\ pc' = program.handler
    /\ UNCHANGED <<program, code, seen>>

Next == Execute \/ Trap

Spec == Init /\ [][Next]_vars
=============================================================================
