---------------------------- MODULE NemuPriv ----------------------------
(* The privileged state of NEMU as a riscv64 reference: modes, traps and    *)
(* their delegation, interrupts, mret and sret (system/priv.c, intr.c), and *)
(* the address-translation state mmu.c caches from them. Of the program     *)
(* only the privileged instructions matter: they come in any order.         *)
EXTENDS Naturals, FiniteSets

CONSTANTS
    Pcs,            \* program addresses
    mtvec, stvec,   \* those of the two trap handlers
    Irqs,           \* interrupt numbers a device or program can raise
    Causes,         \* exception numbers that occur (EX_IPF, EX_LPF, EX_SPF, ecall)
    Vaddrs,         \* addresses that can fault
    SretModes       \* modes in which the program executes sret

MODE_U == 0
MODE_S == 1
MODE_M == 3
Modes  == {MODE_U, MODE_S, MODE_M}

EX_ECU == 8
EX_IPF == 12
EX_LPF == 13
EX_SPF == 15

NoAddr == 0     \* mtval and stval of a trap without an address

ASSUME PrivAssumption ==
    /\ mtvec \in Pcs /\ stvec \in Pcs
    /\ Irqs \subseteq 0 .. 11
    /\ Causes \subseteq 0 .. 15
    /\ Vaddrs \subseteq Nat \ {NoAddr}
    /\ SretModes \subseteq Modes

VARIABLES
    mode,       \* cpu.mode
    mstatus,    \* the fields traps and translation use
    mideleg, medeleg,
    satp,       \* satp->mode: 0 (bare) or 8 (Sv39)
    pc,
    epc,        \* mepc and sepc
    tval,       \* mtval and stval
    mmu,        \* ifetch_mmu_state and data_mmu_state
    frame       \* history: what the last trap to M, to S interrupted

csrVars == <<mideleg, medeleg, satp>>
vars == <<mode, mstatus, csrVars, pc, epc, tval, mmu, frame>>

\* csr_write keeps what 0x222 and 0xf3ff select.
SMode       == {1, 5, 9}
Delegatable == 0 .. 15 \ {10, 11}

Status == [mie : BOOLEAN, mpie : BOOLEAN, mpp : Modes,
           sie : BOOLEAN, spie : BOOLEAN, spp : {MODE_U, MODE_S}, mprv : BOOLEAN]

MmuStates == {"DIRECT", "TRANSLATE"}

NoFrame == [mode |-> MODE_U, pc |-> mtvec, ie |-> FALSE, valid |-> FALSE]
Frame   == [mode : Modes, pc : Pcs, ie : BOOLEAN, valid : BOOLEAN]

\* update_mmu_state_internal for mode m, status st and satp mode sm.
MmuState(ifetch, m, st, sm) ==
    LET eff == IF st.mprv /\ ~ifetch THEN st.mpp ELSE m
    IN  IF eff < MODE_M /\ sm = 8 THEN "TRANSLATE" ELSE "DIRECT"

\* Mutant: MPRV is looked at for data accesses in M mode only.
update_mmu_state_NoMprv(m, st, sm) ==
    [ifetch |-> MmuState(TRUE, m, st, sm), data |-> MmuState(TRUE, m, st, sm)]

update_mmu_state(m, st, sm) ==
    [ifetch |-> MmuState(TRUE, m, st, sm), data |-> MmuState(FALSE, m, st, sm)]

Init ==
    /\ mode = MODE_M
    /\ mstatus = [mie |-> FALSE, mpie |-> FALSE, mpp |-> MODE_U, sie |-> FALSE,
                  spie |-> FALSE, spp |-> MODE_U, mprv |-> FALSE]
    /\ mideleg = {} /\ medeleg = {}
    /\ satp = 0
    /\ pc \in Pcs
    /\ epc = [x \in {"M", "S"} |-> pc]
    /\ tval = [x \in {"M", "S"} |-> NoAddr]
    /\ mmu = [ifetch |-> "DIRECT", data |-> "DIRECT"]
    /\ frame = [x \in {"M", "S"} |-> NoFrame]

\* What a return has used or a write has overwritten drops out of the history.
Forget(xs) == frame' = [x \in {"M", "S"} |-> IF x \in xs THEN NoFrame ELSE frame[x]]

----------------------------------------------------------------------------
(* raise_intr.                                                              *)

\* Mutant: a trap from M mode can be delegated.
delegS_FromM(no, is_intr) == no \in (IF is_intr THEN mideleg ELSE medeleg)

delegS(no, is_intr) ==
    /\ no \in (IF is_intr THEN mideleg ELSE medeleg)
    /\ mode < MODE_M

\* tval is left alone by the page faults, which have written it themselves.
KeepsTval(no, is_intr) == ~is_intr /\ no \in {EX_IPF, EX_LPF, EX_SPF}

SetTval(x, no, is_intr, written) ==
    tval' = IF KeepsTval(no, is_intr) THEN written ELSE [written EXCEPT ![x] = NoAddr]

\* Mutant: the interrupt enable that is saved is the one of S mode.
TrapM_SavesSie(no, is_intr, written) ==
    /\ epc' = [epc EXCEPT !["M"] = pc]
    /\ frame' = [frame EXCEPT !["M"] = [mode |-> mode, pc |-> pc, ie |-> mstatus.mie, valid |-> TRUE]]
    /\ mstatus' = [mstatus EXCEPT !.mpp = mode, !.mpie = mstatus.sie, !.mie = FALSE]
    /\ SetTval("M", no, is_intr, written)
    /\ mode' = MODE_M
    /\ pc' = mtvec

TrapM(no, is_intr, written) ==
    /\ epc' = [epc EXCEPT !["M"] = pc]
    /\ frame' = [frame EXCEPT !["M"] = [mode |-> mode, pc |-> pc, ie |-> mstatus.mie, valid |-> TRUE]]
    /\ mstatus' = [mstatus EXCEPT !.mpp = mode, !.mpie = mstatus.mie, !.mie = FALSE]
    /\ SetTval("M", no, is_intr, written)
    /\ mode' = MODE_M
    /\ pc' = mtvec

TrapS(no, is_intr, written) ==
    /\ epc' = [epc EXCEPT !["S"] = pc]
    /\ frame' = [frame EXCEPT !["S"] = [mode |-> mode, pc |-> pc, ie |-> mstatus.sie, valid |-> TRUE]]
    /\ mstatus' = [mstatus EXCEPT !.spp = mode, !.spie = mstatus.sie, !.sie = FALSE]
    /\ SetTval("S", no, is_intr, written)
    /\ mode' = MODE_S
    /\ pc' = stvec

\* written: tval after the fault has stored the address.
raise_intr(no, is_intr, written) ==
    /\ \/ delegS(no, is_intr) /\ TrapS(no, is_intr, written)
       \/ ~delegS(no, is_intr) /\ TrapM(no, is_intr, written)
    /\ mmu' = update_mmu_state(mode', mstatus', satp)
    /\ UNCHANGED csrVars

----------------------------------------------------------------------------
(* isa_query_intr, asked between two batches of instructions with whatever  *)
(* is pending and enabled (mie & mip) then.                                 *)

priority == <<11, 3, 7, 9, 1, 5, 8, 0, 4>>

\* Mutant: a delegated interrupt is taken in every mode.
GlobalEnable_AnyMode(irq) == irq \in mideleg \/ mode < MODE_M \/ mstatus.mie

GlobalEnable(irq) ==
    IF irq \in mideleg
    THEN mode < MODE_S \/ (mode = MODE_S /\ mstatus.sie)
    ELSE mode < MODE_M \/ (mode = MODE_M /\ mstatus.mie)

\* The first in the order of priority.
isa_query_intr(intr_vec) ==
    {irq \in intr_vec :
        \E i \in 1 .. 9 :
            /\ priority[i] = irq /\ GlobalEnable(irq)
            /\ \A j \in 1 .. i - 1 : ~(priority[j] \in intr_vec /\ GlobalEnable(priority[j]))}

Interrupt(irq) ==
    /\ \E intr_vec \in SUBSET Irqs : irq \in isa_query_intr(intr_vec)
    /\ raise_intr(irq, TRUE, tval)

----------------------------------------------------------------------------
(* Exceptions.                                                              *)

Ecall == EX_ECU + mode \in Causes /\ raise_intr(EX_ECU + mode, FALSE, tval)

\* check_permission fails: a fetch writes stval, a load or store the register
\* of the current mode.
FetchFault(v) ==
    /\ mmu.ifetch = "TRANSLATE"
    /\ EX_IPF \in Causes
    /\ raise_intr(EX_IPF, FALSE, [tval EXCEPT !["S"] = v])

FaultRegister == IF mode = MODE_M THEN "M" ELSE "S"

DataFault(no, v) ==
    /\ mmu.data = "TRANSLATE"
    /\ no \in Causes \cap {EX_LPF, EX_SPF}
    /\ raise_intr(no, FALSE, [tval EXCEPT ![FaultRegister] = v])

----------------------------------------------------------------------------
(* priv_instr. Neither return looks at the mode it is executed in.          *)

\* Mutant: mret leaves MPP as it was.
Mret_KeepsMpp ==
    /\ mode' = mstatus.mpp
    /\ mstatus' = [mstatus EXCEPT !.mie = mstatus.mpie, !.mpie = TRUE]
    /\ mmu' = update_mmu_state(mode', mstatus', satp)
    /\ pc' = epc["M"]
    /\ Forget({"M"})
    /\ UNCHANGED <<csrVars, epc, tval>>

Mret ==
    /\ mode' = mstatus.mpp
    /\ mstatus' = [mstatus EXCEPT !.mie = mstatus.mpie, !.mpie = TRUE, !.mpp = MODE_U]
    /\ mmu' = update_mmu_state(mode', mstatus', satp)
    /\ pc' = epc["M"]
    /\ Forget({"M"})
    /\ UNCHANGED <<csrVars, epc, tval>>

\* sret does not update the translation state.
Sret ==
    /\ mode \in SretModes
    /\ mode' = mstatus.spp
    /\ mstatus' = [mstatus EXCEPT !.sie = mstatus.spie, !.spie = TRUE, !.spp = MODE_U]
    /\ pc' = epc["S"]
    /\ Forget({"S"})
    /\ UNCHANGED <<csrVars, epc, tval, mmu>>

----------------------------------------------------------------------------
(* csrrw and its relatives, one field at a time. csr_is_legal: the number   *)
(* of a CSR says which mode may touch it.                                   *)

WriteMstatus ==
    /\ mode = MODE_M
    /\ \/ \E b \in BOOLEAN : mstatus' \in {[mstatus EXCEPT !.mie = b], [mstatus EXCEPT !.mpie = b],
                                           [mstatus EXCEPT !.sie = b], [mstatus EXCEPT !.spie = b],
                                           [mstatus EXCEPT !.mprv = b]}
       \/ \E m \in Modes : mstatus' = [mstatus EXCEPT !.mpp = m]
       \/ \E m \in {MODE_U, MODE_S} : mstatus' = [mstatus EXCEPT !.spp = m]
    /\ mmu' = update_mmu_state(mode, mstatus', satp)
    /\ Forget({"M", "S"})
    /\ UNCHANGED <<mode, csrVars, pc, epc, tval>>

\* SSTATUS_WMASK has none of the M fields, and no MPRV.
WriteSstatus ==
    /\ mode \in {MODE_S, MODE_M}
    /\ \/ \E b \in BOOLEAN : mstatus' \in {[mstatus EXCEPT !.sie = b], [mstatus EXCEPT !.spie = b]}
       \/ \E m \in {MODE_U, MODE_S} : mstatus' = [mstatus EXCEPT !.spp = m]
    /\ Forget({"S"})
    /\ UNCHANGED <<mode, csrVars, pc, epc, tval, mmu>>

WriteSatp ==
    /\ mode \in {MODE_S, MODE_M}
    /\ satp' \in {0, 8}
    /\ mmu' = update_mmu_state(mode, mstatus, satp')
    /\ UNCHANGED <<mode, mstatus, mideleg, medeleg, pc, epc, tval, frame>>

WriteDeleg ==
    /\ mode = MODE_M
    /\ \/ /\ \E s \in SUBSET Irqs : mideleg' = s \cap SMode
          /\ UNCHANGED medeleg
       \/ /\ \E s \in SUBSET Causes : medeleg' = s \cap Delegatable
          /\ UNCHANGED mideleg
    /\ UNCHANGED <<mode, mstatus, satp, pc, epc, tval, mmu, frame>>

WriteEpc ==
    /\ \E p \in Pcs :
        \/ mode = MODE_M /\ epc' = [epc EXCEPT !["M"] = p] /\ Forget({"M"})
        \/ mode \in {MODE_S, MODE_M} /\ epc' = [epc EXCEPT !["S"] = p] /\ Forget({"S"})
    /\ UNCHANGED <<mode, mstatus, csrVars, pc, tval, mmu>>

\* Any other instruction.
Other ==
    /\ pc' \in Pcs
    /\ UNCHANGED <<mode, mstatus, csrVars, epc, tval, mmu, frame>>

Next ==
    \/ \E irq \in Irqs : Interrupt(irq)
    \/ Ecall
    \/ \E v \in Vaddrs : FetchFault(v) \/ \E no \in Causes : DataFault(no, v)
    \/ Mret \/ Sret
    \/ WriteMstatus \/ WriteSstatus \/ WriteSatp \/ WriteDeleg \/ WriteEpc
    \/ Other

Spec == Init /\ [][Next]_vars

----------------------------------------------------------------------------
(* Properties.                                                              *)

\* Every variable has its type.
TypeOK ==
    /\ mode \in Modes /\ mstatus \in Status
    /\ mideleg \subseteq SMode /\ medeleg \subseteq Delegatable
    /\ satp \in {0, 8} /\ pc \in Pcs
    /\ epc \in [{"M", "S"} -> Pcs]
    /\ tval \in [{"M", "S"} -> Nat]
    /\ mmu \in [ifetch : MmuStates, data : MmuStates]
    /\ frame \in [{"M", "S"} -> Frame]

\* The translation state mmu.c keeps is the one the mode, mstatus and satp
\* demand, although each of them is changed in places of its own.
MmuStateCurrent ==
    /\ mmu.ifetch = "TRANSLATE" <=> satp = 8 /\ mode # MODE_M
    /\ mmu.data = "TRANSLATE" <=>
            satp = 8 /\ (IF mstatus.mprv THEN mstatus.mpp ELSE mode) # MODE_M

\* A return takes the program back to where the trap found it, in the mode and
\* with the interrupt enable it had, whatever traps to the other handler came
\* between, unless the handler wrote one of them.
ReturnRestores ==
    [][/\ Mret /\ frame["M"].valid =>
            <<mode', pc', mstatus'.mie>> = <<frame["M"].mode, frame["M"].pc, frame["M"].ie>>
       /\ Sret /\ frame["S"].valid =>
            <<mode', pc', mstatus'.sie>> = <<frame["S"].mode, frame["S"].pc, frame["S"].ie>>]_vars

\* mret is safe without a look at the mode it is executed in: below M it finds
\* MPP = U.
MretNeverRaises == [][Mret => mode' <= mode]_vars

\* A delegated interrupt is never taken by the handler of M mode, and no trap
\* lowers the mode.
DelegatedInterrupts ==
    [][\A irq \in Irqs : Interrupt(irq) =>
            mode' >= mode /\ (irq \in mideleg => mode' = MODE_S)]_vars

\* The handler of a page fault finds the address, when page faults are
\* delegated or happen in M mode.
FaultAddress ==
    [][\A v \in Vaddrs : \A no \in {EX_IPF, EX_LPF, EX_SPF} :
          /\ no \in medeleg \/ mode = MODE_M
          /\ IF no = EX_IPF THEN FetchFault(v) ELSE DataFault(no, v)
          => tval'[IF mode' = MODE_M THEN "M" ELSE "S"] = v]_vars

\* The comment of decode.c: a fetch that faults leaves its address in mtval.
FetchFaultMtval == [][\A v \in Vaddrs : FetchFault(v) /\ mode' = MODE_M => tval'["M"] = v]_vars
=============================================================================
