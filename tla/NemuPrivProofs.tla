-------------------------- MODULE NemuPrivProofs --------------------------
(* Proofs about the privileged state of NEMU, for any addresses, interrupts *)
(* and causes. MmuStateCurrent alone needs that sret is not executed in M   *)
(* mode, which is the assumption of its theorem.                            *)
EXTENDS NemuPriv, TLAPS

USE DEF MODE_U, MODE_S, MODE_M, Modes

LEMMA ModesOrdered ==
    /\ \A m \in Modes : m \in Nat /\ m <= 3
    /\ \A m \in Modes : m < MODE_M <=> m \in {MODE_U, MODE_S}
    /\ \A m \in Modes : m < MODE_M <=> m # MODE_M
OBVIOUS

----------------------------------------------------------------------------
(* Types.                                                                   *)

LEMMA MmuStateTyped ==
    ASSUME NEW m, NEW st, NEW sm
    PROVE  update_mmu_state(m, st, sm) \in [ifetch : MmuStates, data : MmuStates]
<1>1. \A i \in BOOLEAN : MmuState(i, m, st, sm) \in MmuStates
    BY DEF MmuState, MmuStates
<1> QED BY <1>1 DEF update_mmu_state

LEMMA InitTyped == Init => TypeOK
<1> SUFFICES ASSUME Init PROVE TypeOK
    OBVIOUS
<1>1. mstatus \in Status
    BY DEF Init, Status
<1>2. mmu \in [ifetch : MmuStates, data : MmuStates]
    BY DEF Init, MmuStates
<1>3. frame \in [{"M", "S"} -> Frame]
    BY PrivAssumption DEF Init, NoFrame, Frame
<1>4. epc \in [{"M", "S"} -> Pcs] /\ tval \in [{"M", "S"} -> Nat]
    BY DEF Init, NoAddr
<1> QED BY <1>1, <1>2, <1>3, <1>4 DEF Init, TypeOK

\* A trap, whoever handles it, keeps the types.
LEMMA TrapTyped ==
    ASSUME TypeOK, NEW no, NEW is_intr \in BOOLEAN,
           NEW written \in [{"M", "S"} -> Nat], raise_intr(no, is_intr, written)
    PROVE  TypeOK'
<1>1. mmu' \in [ifetch : MmuStates, data : MmuStates]
    BY MmuStateTyped DEF raise_intr
<1>2. UNCHANGED <<mideleg, medeleg, satp>>
    BY DEF raise_intr, csrVars
<1>3. \A x \in {"M", "S"} : SetTval(x, no, is_intr, written) => tval' \in [{"M", "S"} -> Nat]
    BY DEF SetTval, NoAddr
<1>4. CASE TrapM(no, is_intr, written)
    <2>1. mstatus' \in Status
        BY <1>4 DEF TrapM, TypeOK, Status
    <2>2. frame' \in [{"M", "S"} -> Frame] /\ epc' \in [{"M", "S"} -> Pcs]
        BY <1>4 DEF TrapM, TypeOK, Frame, Status
    <2> QED BY <1>1, <1>2, <1>3, <1>4, <2>1, <2>2, PrivAssumption DEF TrapM, TypeOK
<1>5. CASE delegS(no, is_intr) /\ TrapS(no, is_intr, written)
    <2>1. mode \in {MODE_U, MODE_S}
        BY <1>5 DEF delegS, TypeOK
    <2>2. mstatus' \in Status
        BY <1>5, <2>1 DEF TrapS, TypeOK, Status
    <2>3. frame' \in [{"M", "S"} -> Frame] /\ epc' \in [{"M", "S"} -> Pcs]
        BY <1>5 DEF TrapS, TypeOK, Frame, Status
    <2> QED BY <1>1, <1>2, <1>3, <1>5, <2>2, <2>3, PrivAssumption DEF TrapS, TypeOK
<1> QED BY <1>4, <1>5 DEF raise_intr

LEMMA ForgetTyped ==
    ASSUME TypeOK, NEW xs, Forget(xs)
    PROVE  frame' \in [{"M", "S"} -> Frame]
<1>1. NoFrame \in Frame
    BY PrivAssumption DEF NoFrame, Frame
<1> QED BY <1>1 DEF Forget, TypeOK

\* Which disjuncts of Next are traps.
LEMMA Traps ==
    ASSUME TypeOK,
           \/ \E irq \in Irqs : Interrupt(irq)
           \/ Ecall
           \/ \E v \in Vaddrs : FetchFault(v) \/ \E no \in Causes : DataFault(no, v)
    PROVE  \E no \in Nat, is_intr \in BOOLEAN, written \in [{"M", "S"} -> Nat] :
               raise_intr(no, is_intr, written)
<1>1. ASSUME NEW irq \in Irqs, Interrupt(irq)
      PROVE  raise_intr(irq, TRUE, tval) /\ irq \in Nat
    <2>1. raise_intr(irq, TRUE, tval)
        BY <1>1 DEF Interrupt
    <2>2. irq \in Nat
        BY PrivAssumption
    <2> QED BY <2>1, <2>2
<1>2. ASSUME Ecall
      PROVE  raise_intr(EX_ECU + mode, FALSE, tval) /\ EX_ECU + mode \in Nat
    <2>1. raise_intr(EX_ECU + mode, FALSE, tval)
        BY <1>2 DEF Ecall
    <2>2. EX_ECU + mode \in Nat
        BY DEF EX_ECU, TypeOK
    <2> QED BY <2>1, <2>2
<1>3. ASSUME NEW v \in Vaddrs, FetchFault(v)
      PROVE  raise_intr(EX_IPF, FALSE, [tval EXCEPT !["S"] = v])
    BY <1>3 DEF FetchFault
<1>4. ASSUME NEW v \in Vaddrs, NEW no \in Causes, DataFault(no, v)
      PROVE  raise_intr(no, FALSE, [tval EXCEPT ![FaultRegister] = v]) /\ no \in Nat
    <2>1. raise_intr(no, FALSE, [tval EXCEPT ![FaultRegister] = v])
        BY <1>4 DEF DataFault
    <2>2. no \in Nat
        BY PrivAssumption
    <2> QED BY <2>1, <2>2
<1>5. \A v \in Vaddrs : \A x \in {"M", "S"} : [tval EXCEPT ![x] = v] \in [{"M", "S"} -> Nat]
    BY PrivAssumption DEF TypeOK
<1>6. FaultRegister \in {"M", "S"} /\ EX_IPF \in Nat /\ tval \in [{"M", "S"} -> Nat]
    BY DEF FaultRegister, EX_IPF, TypeOK
<1> QED BY <1>1, <1>2, <1>3, <1>4, <1>5, <1>6

LEMMA NextTyped == TypeOK /\ [Next]_vars => TypeOK'
<1> SUFFICES ASSUME TypeOK, [Next]_vars PROVE TypeOK'
    OBVIOUS
<1>1. CASE \/ \E irq \in Irqs : Interrupt(irq)
           \/ Ecall
           \/ \E v \in Vaddrs : FetchFault(v) \/ \E no \in Causes : DataFault(no, v)
    BY <1>1, Traps, TrapTyped
<1>2. CASE Mret
    BY <1>2, ForgetTyped, MmuStateTyped DEF Mret, TypeOK, Status, csrVars
<1>3. CASE Sret
    BY <1>3, ForgetTyped DEF Sret, TypeOK, Status, csrVars
<1>4. CASE WriteMstatus
    <2>1. mstatus' \in Status
        BY <1>4 DEF WriteMstatus, TypeOK, Status
    <2> QED BY <1>4, <2>1, ForgetTyped, MmuStateTyped DEF WriteMstatus, TypeOK, csrVars
<1>5. CASE WriteSstatus
    <2>1. mstatus' \in Status
        BY <1>5 DEF WriteSstatus, TypeOK, Status
    <2> QED BY <1>5, <2>1, ForgetTyped DEF WriteSstatus, TypeOK, csrVars
<1>6. CASE WriteSatp
    BY <1>6, MmuStateTyped DEF WriteSatp, TypeOK
<1>7. CASE WriteDeleg
    BY <1>7 DEF WriteDeleg, TypeOK
<1>8. CASE WriteEpc
    <2>1. epc' \in [{"M", "S"} -> Pcs]
        BY <1>8 DEF WriteEpc, TypeOK
    <2> QED BY <1>8, <2>1, ForgetTyped DEF WriteEpc, TypeOK, csrVars
<1>9. CASE Other
    BY <1>9 DEF Other, TypeOK, csrVars
<1>10. CASE UNCHANGED vars
    BY <1>10 DEF vars, csrVars, TypeOK
<1> QED BY <1>1, <1>2, <1>3, <1>4, <1>5, <1>6, <1>7, <1>8, <1>9, <1>10 DEF Next

\* Every variable keeps its type; in particular mideleg and medeleg never have
\* a bit that csr_write masks out.
THEOREM TypeCorrect == Spec => []TypeOK
<1> QED BY InitTyped, NextTyped, PTL DEF Spec

----------------------------------------------------------------------------
(* Returns.                                                                 *)

\* While the history of a trap stands, the registers of its handler hold what
\* the trap saved in them.
FramesKept ==
    /\ frame["M"].valid =>
          <<mstatus.mpp, mstatus.mpie, epc["M"]>> = <<frame["M"].mode, frame["M"].ie, frame["M"].pc>>
    /\ frame["S"].valid =>
          <<mstatus.spp, mstatus.spie, epc["S"]>> = <<frame["S"].mode, frame["S"].ie, frame["S"].pc>>

LEMMA TrapFrames ==
    ASSUME TypeOK, FramesKept, NEW no, NEW is_intr, NEW written, raise_intr(no, is_intr, written)
    PROVE  FramesKept'
<1>1. CASE TrapM(no, is_intr, written)
    BY <1>1 DEF TrapM, TypeOK, Status, Frame, FramesKept
<1>2. CASE TrapS(no, is_intr, written)
    BY <1>2 DEF TrapS, TypeOK, Status, Frame, FramesKept
<1> QED BY <1>1, <1>2 DEF raise_intr

LEMMA NextFrames == TypeOK /\ FramesKept /\ [Next]_vars => FramesKept'
<1> SUFFICES ASSUME TypeOK, FramesKept, [Next]_vars PROVE FramesKept'
    OBVIOUS
<1>1. CASE \/ \E irq \in Irqs : Interrupt(irq)
           \/ Ecall
           \/ \E v \in Vaddrs : FetchFault(v) \/ \E no \in Causes : DataFault(no, v)
    BY <1>1, Traps, TrapFrames
<1>2. CASE Mret
    BY <1>2 DEF Mret, Forget, NoFrame, TypeOK, Status, FramesKept
<1>3. CASE Sret
    BY <1>3 DEF Sret, Forget, NoFrame, TypeOK, Status, FramesKept
<1>4. CASE WriteMstatus
    BY <1>4 DEF WriteMstatus, Forget, NoFrame, FramesKept
<1>5. CASE WriteSstatus
    BY <1>5 DEF WriteSstatus, Forget, NoFrame, TypeOK, Status, FramesKept
<1>6. CASE WriteSatp \/ WriteDeleg \/ Other \/ UNCHANGED vars
    BY <1>6 DEF WriteSatp, WriteDeleg, Other, vars, csrVars, FramesKept
<1>7. CASE WriteEpc
    BY <1>7 DEF WriteEpc, Forget, NoFrame, TypeOK, FramesKept
<1> QED BY <1>1, <1>2, <1>3, <1>4, <1>5, <1>6, <1>7 DEF Next

\* A return goes back to where its trap came from, with the mode and the
\* interrupt enable of then: nested traps of the other mode, returns from them
\* and writes of other registers do not disturb it.
THEOREM TrapsReturn == Spec => ReturnRestores
<1>1. Init => FramesKept
    <2>1. Init => frame["M"] = NoFrame /\ frame["S"] = NoFrame
        BY DEF Init
    <2> QED BY <2>1 DEF NoFrame, FramesKept
<1>2. TypeOK /\ FramesKept /\ [Next]_vars =>
        [/\ Mret /\ frame["M"].valid =>
             <<mode', pc', mstatus'.mie>> = <<frame["M"].mode, frame["M"].pc, frame["M"].ie>>
         /\ Sret /\ frame["S"].valid =>
             <<mode', pc', mstatus'.sie>> = <<frame["S"].mode, frame["S"].pc, frame["S"].ie>>]_vars
    <2> SUFFICES ASSUME TypeOK, FramesKept
                 PROVE  /\ Mret /\ frame["M"].valid =>
                            <<mode', pc', mstatus'.mie>> = <<frame["M"].mode, frame["M"].pc, frame["M"].ie>>
                        /\ Sret /\ frame["S"].valid =>
                            <<mode', pc', mstatus'.sie>> = <<frame["S"].mode, frame["S"].pc, frame["S"].ie>>
        OBVIOUS
    <2>1. ASSUME Mret, frame["M"].valid
          PROVE  <<mode', pc', mstatus'.mie>> = <<frame["M"].mode, frame["M"].pc, frame["M"].ie>>
        BY <2>1 DEF Mret, TypeOK, Status, FramesKept
    <2>2. ASSUME Sret, frame["S"].valid
          PROVE  <<mode', pc', mstatus'.sie>> = <<frame["S"].mode, frame["S"].pc, frame["S"].ie>>
        BY <2>2 DEF Sret, TypeOK, Status, FramesKept
    <2> QED BY <2>1, <2>2
<1> QED BY <1>1, <1>2, InitTyped, NextTyped, NextFrames, PTL DEF Spec, ReturnRestores

----------------------------------------------------------------------------
(* Interrupts.                                                              *)

\* An interrupt never lowers the mode, and a delegated one is never handled in
\* M mode.
THEOREM InterruptsDelegated == Spec => DelegatedInterrupts
<1>1. TypeOK /\ [Next]_vars =>
        [\A irq \in Irqs : Interrupt(irq) =>
            mode' >= mode /\ (irq \in mideleg => mode' = MODE_S)]_vars
    <2> SUFFICES ASSUME TypeOK, NEW irq \in Irqs, Interrupt(irq)
                 PROVE  mode' >= mode /\ (irq \in mideleg => mode' = MODE_S)
        OBVIOUS
    <2>1. GlobalEnable(irq) /\ raise_intr(irq, TRUE, tval)
        BY DEF Interrupt, isa_query_intr
    <2>2. CASE irq \in mideleg
        <3>1. mode < MODE_M
            <4>1. mode < MODE_S \/ mode = MODE_S
                BY <2>1, <2>2 DEF GlobalEnable
            <4> QED BY <4>1 DEF TypeOK
        <3>2. TrapS(irq, TRUE, tval)
            BY <2>1, <2>2, <3>1 DEF raise_intr, delegS
        <3> QED BY <3>1, <3>2 DEF TrapS, TypeOK
    <2>3. CASE irq \notin mideleg
        <3>1. TrapM(irq, TRUE, tval)
            BY <2>1, <2>3 DEF raise_intr, delegS
        <3> QED BY <2>3, <3>1 DEF TrapM, TypeOK
    <2> QED BY <2>2, <2>3
<1> QED BY <1>1, InitTyped, NextTyped, PTL DEF Spec, DelegatedInterrupts

----------------------------------------------------------------------------
(* What holds when sret is not executed in M mode.                          *)

\* mmu.c's state is a function of the others; below M mode, MPP is U.
LowerInv ==
    /\ mmu = update_mmu_state(mode, mstatus, satp)
    /\ mode # MODE_M => mstatus.mpp = MODE_U

LEMMA TrapLower ==
    ASSUME TypeOK, LowerInv, NEW no, NEW is_intr, NEW written, raise_intr(no, is_intr, written)
    PROVE  LowerInv'
<1>1. mmu' = update_mmu_state(mode', mstatus', satp')
    BY DEF raise_intr, csrVars
<1>2. CASE TrapM(no, is_intr, written)
    BY <1>1, <1>2 DEF TrapM, LowerInv
<1>3. CASE delegS(no, is_intr) /\ TrapS(no, is_intr, written)
    BY <1>1, <1>3 DEF TrapS, delegS, TypeOK, Status, LowerInv
<1> QED BY <1>2, <1>3 DEF raise_intr

LEMMA NextLower ==
    ASSUME MODE_M \notin SretModes
    PROVE  TypeOK /\ LowerInv /\ [Next]_vars => LowerInv'
<1> SUFFICES ASSUME TypeOK, LowerInv, [Next]_vars PROVE LowerInv'
    OBVIOUS
<1>1. CASE \/ \E irq \in Irqs : Interrupt(irq)
           \/ Ecall
           \/ \E v \in Vaddrs : FetchFault(v) \/ \E no \in Causes : DataFault(no, v)
    BY <1>1, Traps, TrapLower
<1>2. CASE Mret
    BY <1>2 DEF Mret, csrVars, TypeOK, Status, LowerInv
<1>3. CASE Sret
    <2>1. mode # MODE_M /\ mode' # MODE_M /\ mode \in Modes /\ mode' \in Modes
        BY <1>3 DEF Sret, TypeOK, Status
    <2>2. mstatus'.mprv = mstatus.mprv /\ mstatus'.mpp = mstatus.mpp /\ satp' = satp /\ mmu' = mmu
        BY <1>3 DEF Sret, csrVars, TypeOK, Status
    <2>3. update_mmu_state(mode', mstatus', satp') = update_mmu_state(mode, mstatus, satp)
        BY <2>1, <2>2, ModesOrdered DEF update_mmu_state, MmuState
    <2> QED BY <2>1, <2>2, <2>3 DEF LowerInv
<1>4. CASE WriteMstatus
    BY <1>4 DEF WriteMstatus, csrVars, LowerInv
<1>5. CASE WriteSstatus
    <2>1. mstatus'.mprv = mstatus.mprv /\ mstatus'.mpp = mstatus.mpp
        BY <1>5 DEF WriteSstatus, TypeOK, Status
    <2>2. update_mmu_state(mode, mstatus', satp) = update_mmu_state(mode, mstatus, satp)
        BY <2>1 DEF update_mmu_state, MmuState
    <2> QED BY <1>5, <2>1, <2>2 DEF WriteSstatus, csrVars, LowerInv
<1>6. CASE WriteSatp
    BY <1>6 DEF WriteSatp, LowerInv
<1>7. CASE WriteDeleg \/ WriteEpc \/ Other \/ UNCHANGED vars
    BY <1>7 DEF WriteDeleg, WriteEpc, Other, vars, csrVars, LowerInv
<1> QED BY <1>1, <1>2, <1>3, <1>4, <1>5, <1>6, <1>7 DEF Next

LEMMA InitLower == Init => LowerInv
BY DEF Init, LowerInv, update_mmu_state, MmuState

LEMMA LowerMeans == TypeOK /\ LowerInv => MmuStateCurrent
<1> SUFFICES ASSUME TypeOK, LowerInv PROVE MmuStateCurrent
    OBVIOUS
<1>1. mmu.ifetch = MmuState(TRUE, mode, mstatus, satp) /\ mmu.data = MmuState(FALSE, mode, mstatus, satp)
    BY DEF LowerInv, update_mmu_state
<1>2. mode \in Modes /\ mstatus.mpp \in Modes /\ mstatus.mprv \in BOOLEAN
    BY DEF TypeOK, Status
<1> QED BY <1>1, <1>2, ModesOrdered DEF MmuState, MmuStateCurrent

\* The cached translation state is the one mode, mstatus and satp demand.
THEOREM MmuStateKept ==
    ASSUME MODE_M \notin SretModes PROVE Spec => []MmuStateCurrent
<1> QED BY InitTyped, NextTyped, InitLower, NextLower, LowerMeans, PTL DEF Spec

\* mret does not raise the mode of a program below M mode.
THEOREM MretLowers ==
    ASSUME MODE_M \notin SretModes PROVE Spec => MretNeverRaises
<1>1. TypeOK /\ LowerInv /\ [Next]_vars => [Mret => mode' <= mode]_vars
    BY DEF LowerInv, Mret, TypeOK, Status
<1> QED BY <1>1, InitTyped, NextTyped, InitLower, NextLower, PTL DEF Spec, MretNeverRaises

\* The handler of a page fault finds the address in its own register.
THEOREM FaultsReported ==
    ASSUME MODE_M \notin SretModes PROVE Spec => FaultAddress
<1>1. TypeOK /\ LowerInv /\ [Next]_vars =>
        [\A v \in Vaddrs : \A no \in {EX_IPF, EX_LPF, EX_SPF} :
          /\ no \in medeleg \/ mode = MODE_M
          /\ IF no = EX_IPF THEN FetchFault(v) ELSE DataFault(no, v)
          => tval'[IF mode' = MODE_M THEN "M" ELSE "S"] = v]_vars
    <2> SUFFICES ASSUME TypeOK, LowerInv, NEW v \in Vaddrs, NEW no \in {EX_IPF, EX_LPF, EX_SPF},
                        no \in medeleg \/ mode = MODE_M,
                        IF no = EX_IPF THEN FetchFault(v) ELSE DataFault(no, v)
                 PROVE  tval'[IF mode' = MODE_M THEN "M" ELSE "S"] = v
        OBVIOUS
    <2> DEFINE x == IF mode = MODE_M THEN "M" ELSE "S"
    <2>1. mode = MODE_M => no # EX_IPF
        <3>1. MmuStateCurrent
            BY LowerMeans
        <3> QED BY <3>1 DEF MmuStateCurrent, FetchFault
    <2>2. raise_intr(no, FALSE, [tval EXCEPT ![x] = v])
        BY <2>1 DEF FetchFault, DataFault, FaultRegister
    <2>3. KeepsTval(no, FALSE)
        BY DEF KeepsTval
    <2>4. tval' = [tval EXCEPT ![x] = v]
        BY <2>2, <2>3 DEF raise_intr, TrapM, TrapS, SetTval
    <2>5. mode' = IF mode = MODE_M THEN MODE_M ELSE MODE_S
        <3>1. mode \in Modes
            BY DEF TypeOK
        <3>2. delegS(no, FALSE) <=> mode # MODE_M
            BY <3>1, ModesOrdered DEF delegS
        <3> QED BY <2>2, <3>2 DEF raise_intr, TrapM, TrapS
    <2> QED BY <2>4, <2>5 DEF TypeOK
<1> QED BY <1>1, InitTyped, NextTyped, InitLower, NextLower, PTL DEF Spec, FaultAddress
=============================================================================
