----------------------------- MODULE Datapath -----------------------------
(* What the execute and load/store stages of cpu_axi_diff compute, next to  *)
(* what NEMU computes for the same instructions: alu.sv, the comparisons of *)
(* bru.sv, and the byte lanes of lsu.sv and axi_rw.sv against rvi, rvm and  *)
(* host_read/host_write. Both start equal and execute one instruction at a  *)
(* time on one register and one doubleword of memory. AND, OR and XOR are   *)
(* the same operator on both sides and left out.                            *)
EXTENDS Integers

CONSTANTS
    ByteBits,       \* bits of a byte; a register has eight bytes
    Operands,       \* second operands that occur
    AboveMem,       \* the doubleword after the one that is stored to
    AnyOperand,     \* FALSE: operands stay where alu.sv is meant to be exact
    AnyAddress      \* FALSE: stores are aligned

XLEN == 8 * ByteBits
WLEN == 4 * ByteBits    \* of the W instructions

Byte == 0 .. 2^ByteBits - 1
Word == 0 .. 2^XLEN - 1
Lane == 0 .. 7

ASSUME DatapathAssumption ==
    /\ ByteBits \in Nat \ {0}
    /\ Operands \subseteq Word
    /\ AboveMem \in [Lane -> Byte]
    /\ AnyOperand \in BOOLEAN /\ AnyAddress \in BOOLEAN

VARIABLES
    x, ram,         \* of the CPU: a register, the doubleword
    nx, nram        \* of NEMU

vars == <<x, ram, nx, nram>>

----------------------------------------------------------------------------
(* Words as both programs use them.                                         *)

Low(v, n)    == v % 2^n
Signed(v, n) == IF Low(v, n) < 2^(n - 1) THEN Low(v, n) ELSE Low(v, n) - 2^n
Sext(v, n)   == Low(Signed(v, n), XLEN)

\* C's division of signed numbers rounds towards zero.
Abs(v)     == IF v < 0 THEN -v ELSE v
Quot(a, b) == IF (a < 0) = (b < 0) THEN Abs(a) \div Abs(b) ELSE -(Abs(a) \div Abs(b))
Rem(a, b)  == a - b * Quot(a, b)

Bit(p) == IF p THEN 1 ELSE 0

Ops == {"ADD", "SUB", "SLL", "SRL", "SRA", "SLT", "SLTU", "MUL", "MULH", "MULHSU", "MULHU",
        "DIV", "DIVU", "REM", "REMU", "ADDW", "SUBW", "SLLW", "SRLW", "SRAW", "MULW",
        "DIVW", "DIVUW", "REMW", "REMUW"}

Branches == {"BEQ", "BNE", "BLT", "BGE", "BLTU", "BGEU"}

----------------------------------------------------------------------------
(* alu.sv. The divisions are Verilog's of unsigned numbers; by zero the     *)
(* simulator (Verilator) makes them 0.                                      *)

UDiv(a, b) == IF b = 0 THEN 0 ELSE a \div b
UMod(a, b) == IF b = 0 THEN 0 ELSE a % b

\* {{32{src1[31]}}, src1[31:0]} >> src2[4:0]
sraw(a, b) == Sext(Sext(a, WLEN) \div 2^(b % WLEN), WLEN)

alu(op, a, b) ==
    CASE op = "ADD"   -> Low(a + b, XLEN)
      [] op = "SUB"   -> Low(a - b, XLEN)
      [] op = "SLL"   -> Low(a * 2^(b % XLEN), XLEN)
      [] op = "SRL"   -> a \div 2^(b % XLEN)
      [] op = "SRA"   -> Low((Low(Signed(a, XLEN), 2 * XLEN)) \div 2^(b % XLEN), XLEN)
      [] op = "SLT"   -> Low(a - b, XLEN) \div 2^(XLEN - 1)
      [] op = "SLTU"  -> Low(a - b, XLEN + 1) \div 2^XLEN
      [] op = "MUL"   -> Low(a * b, XLEN)
      [] op = "MULH"  -> Low(a * b, XLEN) \div 2^XLEN
      [] op \in {"MULHSU", "MULHU"} -> Low(a * b, XLEN + 1) \div 2^XLEN
      [] op \in {"DIV", "DIVU"} -> UDiv(a, b)
      [] op \in {"REM", "REMU"} -> UMod(a, b)
      [] op = "ADDW"  -> Sext(a + b, WLEN)
      [] op = "SUBW"  -> Sext(a - b, WLEN)
      [] op = "SLLW"  -> Sext(a * 2^(b % WLEN), WLEN)
      [] op = "SRLW"  -> Sext(Low(a, WLEN) \div 2^(b % WLEN), WLEN)
      [] op = "SRAW"  -> sraw(a, b)
      [] op = "MULW"  -> Sext(a * b, WLEN)
      [] op \in {"DIVW", "DIVUW"} -> Sext(UDiv(Low(a, WLEN), Low(b, WLEN)), WLEN)
      [] op \in {"REMW", "REMUW"} -> Sext(UMod(Low(a, WLEN), Low(b, WLEN)), WLEN)

\* Mutant: unsigned branches look at the sign of the difference.
branch_Sign(op, a, b) ==
    LET less == Low(a - b, XLEN) >= 2^(XLEN - 1)
    IN  CASE op = "BEQ" -> a = b [] op = "BNE" -> a # b
          [] op \in {"BLT", "BLTU"} -> less [] op \in {"BGE", "BGEU"} -> ~less

\* bru.sv: sub_res and supersub_resbit.
branch(op, a, b) ==
    LET sub_res  == Low(a - b, XLEN)
        negative == sub_res >= 2^(XLEN - 1)
    IN  CASE op = "BEQ"  -> sub_res = 0
          [] op = "BNE"  -> sub_res # 0
          [] op = "BLT"  -> negative
          [] op = "BGE"  -> ~negative
          [] op = "BLTU" -> Low(a - b, XLEN + 1) >= 2^XLEN
          [] op = "BGEU" -> Low(a - b, XLEN + 1) < 2^XLEN

----------------------------------------------------------------------------
(* NEMU: c_op.h, rvi and rvm.                                               *)

\* div, rem and their unsigned forms on n-bit numbers, with the cases the
\* interpreter tests for first.
divs(a, b, n) ==
    IF Low(b, n) = 0 THEN -1 ELSE Quot(Signed(a, n), Signed(b, n))
rems(a, b, n) ==
    IF Low(b, n) = 0 THEN Signed(a, n) ELSE Rem(Signed(a, n), Signed(b, n))
divu(a, b, n) == IF Low(b, n) = 0 THEN -1 ELSE Low(a, n) \div Low(b, n)
remu(a, b, n) == IF Low(b, n) = 0 THEN Low(a, n) ELSE Low(a, n) % Low(b, n)

mulhu(a, b) == (a * b) \div 2^XLEN

rtl(op, a, b) ==
    CASE op = "ADD"    -> Low(a + b, XLEN)
      [] op = "SUB"    -> Low(a - b, XLEN)
      [] op = "SLL"    -> Low(a * 2^(b % XLEN), XLEN)
      [] op = "SRL"    -> a \div 2^(b % XLEN)
      [] op = "SRA"    -> Low(Signed(a, XLEN) \div 2^(b % XLEN), XLEN)
      [] op = "SLT"    -> Bit(Signed(a, XLEN) < Signed(b, XLEN))
      [] op = "SLTU"   -> Bit(a < b)
      [] op = "MUL"    -> Low(a * b, XLEN)
      [] op = "MULH"   -> Low((Signed(a, XLEN) * Signed(b, XLEN)) \div 2^XLEN, XLEN)
      [] op = "MULHSU" -> Low(mulhu(a, b) - (IF Signed(a, XLEN) < 0 THEN b ELSE 0), XLEN)
      [] op = "MULHU"  -> mulhu(a, b)
      [] op = "DIV"    -> Low(divs(a, b, XLEN), XLEN)
      [] op = "DIVU"   -> Low(divu(a, b, XLEN), XLEN)
      [] op = "REM"    -> Low(rems(a, b, XLEN), XLEN)
      [] op = "REMU"   -> Low(remu(a, b, XLEN), XLEN)
      [] op = "ADDW"   -> Sext(a + b, WLEN)
      [] op = "SUBW"   -> Sext(a - b, WLEN)
      [] op = "SLLW"   -> Sext(Low(a, WLEN) * 2^(b % WLEN), WLEN)
      [] op = "SRLW"   -> Sext(Low(a, WLEN) \div 2^(b % WLEN), WLEN)
      [] op = "SRAW"   -> Low(Signed(a, WLEN) \div 2^(b % WLEN), XLEN)
      [] op = "MULW"   -> Sext(a * b, WLEN)
      [] op = "DIVW"   -> Sext(divs(a, b, WLEN), WLEN)
      [] op = "DIVUW"  -> Sext(divu(a, b, WLEN), WLEN)
      [] op = "REMW"   -> Sext(rems(a, b, WLEN), WLEN)
      [] op = "REMUW"  -> Sext(remu(a, b, WLEN), WLEN)

interpret_relop(op, a, b) ==
    CASE op = "BEQ"  -> a = b
      [] op = "BNE"  -> a # b
      [] op = "BLT"  -> Signed(a, XLEN) < Signed(b, XLEN)
      [] op = "BGE"  -> Signed(a, XLEN) >= Signed(b, XLEN)
      [] op = "BLTU" -> a < b
      [] op = "BGEU" -> a >= b

----------------------------------------------------------------------------
(* Memory: n is the number of bytes (rw_size_i), s the place of the first   *)
(* one in its doubleword.                                                   *)

Sizes == {1, 2, 4, 8}

ByteOf(v, i)    == (v \div 2^(ByteBits * i)) % 2^ByteBits
FromBytes(f, n) ==
    LET part(i) == IF i < n THEN f[i] * 2^(ByteBits * i) ELSE 0
    IN  part(0) + part(1) + part(2) + part(3) + part(4) + part(5) + part(6) + part(7)

\* Mutant: the strobe of a halfword covers its first byte only.
wmask_Half(n, s) ==
    CASE n = 1 -> {s}
      [] n = 2 -> {s}
      [] n = 4 -> IF s \in {0, 4} THEN s .. s + 3 ELSE {}
      [] n = 8 -> Lane

\* lsu.sv: the lanes of a store and what they carry.
wmask(n, s) ==
    CASE n = 1 -> {s}
      [] n = 2 -> IF s \in {0, 2, 4, 6} THEN s .. s + 1 ELSE {}
      [] n = 4 -> IF s \in {0, 4} THEN s .. s + 3 ELSE {}
      [] n = 8 -> Lane

mem_wdata(n, s, v, i) == ByteOf(v, IF n = 8 THEN i ELSE i - s)

lsu_store(m, n, s, v) ==
    [i \in Lane |-> IF i \in wmask(n, s) THEN mem_wdata(n, s, v, i) ELSE m[i]]

\* axi_rw.sv: the beat of the first doubleword shifted down, and when the
\* access oversteps it, the beat of the second shifted up.
data_read(m, n, s) ==
    LET mask     == s .. s + n - 1
        overstep == s + n - 1 > 7
    IN  [i \in Lane |->
            (IF i + s \in mask \cap Lane THEN m[i + s] ELSE 0)
          + (IF overstep /\ i + s - 8 \in Lane /\ i + s \in mask THEN AboveMem[i + s - 8] ELSE 0)]

o_ld_data(m, n, s, unsigned) ==
    LET v == FromBytes(data_read(m, n, s), 8)
    IN  IF unsigned THEN Low(v, n * ByteBits) ELSE Sext(v, n * ByteBits)

\* NEMU: host_write and host_read of n bytes, rtl_lms and rtl_lm.
host_write(m, n, s, v) == [i \in Lane |-> IF i \in s .. s + n - 1 THEN ByteOf(v, i - s) ELSE m[i]]

rtl_load(m, n, s, unsigned) ==
    LET v == FromBytes([i \in 0 .. n - 1 |-> IF s + i \in Lane THEN m[s + i] ELSE AboveMem[s + i - 8]], n)
    IN  IF unsigned THEN v ELSE Sext(v, n * ByteBits)

----------------------------------------------------------------------------
(* Instructions of the program.                                             *)

\* Where alu.sv and bru.sv compute what the instruction set says: signed
\* comparisons whose difference does not overflow, products that fit, divisions
\* of non-negative numbers by one that is not zero.
Exact(op, a, b) ==
    CASE op \in {"SLT", "BLT", "BGE"} ->
             Signed(a, XLEN) - Signed(b, XLEN) \in -(2^(XLEN - 1)) .. 2^(XLEN - 1) - 1
      [] op \in {"MULH", "MULHSU"} ->
             a * b < 2^XLEN /\ Signed(a, XLEN) >= 0 /\ Signed(b, XLEN) >= 0
      [] op = "MULHU" -> a * b < 2^(XLEN + 1)
      [] op \in {"DIV", "REM"} -> Signed(a, XLEN) >= 0 /\ Signed(b, XLEN) > 0
      [] op \in {"DIVU", "REMU"} -> b # 0
      [] op \in {"DIVW", "REMW"} -> Signed(a, WLEN) >= 0 /\ Signed(b, WLEN) > 0
      [] op \in {"DIVUW", "REMUW"} -> Low(b, WLEN) # 0
      [] OTHER -> TRUE

Occurs(op, b) == b \in Operands /\ (AnyOperand \/ Exact(op, x, b))

Init == x = 0 /\ ram = [i \in Lane |-> 0] /\ nx = x /\ nram = ram

Execute(op, b) ==
    /\ Occurs(op, b)
    /\ x' = alu(op, x, b)
    /\ nx' = rtl(op, nx, b)
    /\ UNCHANGED <<ram, nram>>

Store(n, s) ==
    /\ s + n <= 8
    /\ AnyAddress \/ s % n = 0
    /\ ram' = lsu_store(ram, n, s, x)
    /\ nram' = host_write(nram, n, s, nx)
    /\ UNCHANGED <<x, nx>>

Load(n, s, unsigned) ==
    /\ x' = o_ld_data(ram, n, s, unsigned)
    /\ nx' = rtl_load(nram, n, s, unsigned)
    /\ UNCHANGED <<ram, nram>>

Next ==
    \/ \E op \in Ops, b \in Operands : Execute(op, b)
    \/ \E n \in Sizes, s \in Lane : Store(n, s)
    \/ \E n \in Sizes, s \in Lane, unsigned \in BOOLEAN : Load(n, s, unsigned)

Spec == Init /\ [][Next]_vars

----------------------------------------------------------------------------
(* Properties: what difftest compares after every instruction.              *)

\* The CPU and NEMU have the same register and the same memory, wherever a
\* load reads from and however many lanes a store drives.
ResultsAgree == x = nx /\ ram = nram

\* They would take the same branches.
BranchesAgree ==
    \A op \in Branches, b \in Operands :
        Occurs(op, b) => branch(op, x, b) = interpret_relop(op, nx, b)
=============================================================================
