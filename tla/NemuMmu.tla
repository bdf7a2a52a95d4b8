----------------------------- MODULE NemuMmu -----------------------------
(* Address translation of loads and stores in NEMU (PERF_OPT): the Sv39     *)
(* walk of mmu.c, the host TLB of host-tlb.c that remembers its results,    *)
(* and the translation state that rvi/decode.h puts into a load or store    *)
(* when the instruction is decoded into the trace cache. The program is a   *)
(* kernel in S mode under firmware in M mode; it changes its page table and *)
(* satp and then fences.                                                    *)
EXTENDS Integers

CONSTANTS
    Pages,          \* virtual page numbers
    Frames,         \* physical page numbers
    Leaves,         \* leaf entries of the page table
    LeafOf,         \* page -> leaf: a superpage maps more than one page
    Pmem,           \* physical pages that are memory; the others are devices
    Slots, SlotOf,  \* HOSTTLB_SIZE, hosttlb_idx
    Sites,          \* load and store instructions of the program
    RunsIn          \* site -> the modes in which it is executed

Modes  == {"S", "M"}
NoPage == -1        \* (sword_t)-1
None   == "none"    \* not in the trace cache

ASSUME MmuAssumption ==
    /\ LeafOf \in [Pages -> Leaves]
    /\ Pages \subseteq Frames
    /\ Pmem \subseteq Frames
    /\ SlotOf \in [Pages -> Slots]
    /\ NoPage \notin Pages
    /\ RunsIn \in [Sites -> SUBSET Modes]

VARIABLES
    mode,       \* cpu.mode
    satp,       \* satp->mode: 0 (bare) or 8 (Sv39)
    mmu,        \* data_mmu_state
    pte,        \* the leaf entries
    rtlb, wtlb, \* hostrtlb, hostwtlb: slot -> [gvpn, page]
    decoded,    \* the state each site was decoded with
    changed,    \* pages whose entry was written since they were last fenced
    moved       \* satp was written since the last full fence

memVars == <<mode, satp, mmu, pte>>
tlbVars == <<rtlb, wtlb>>
vars == <<memVars, tlbVars, decoded, changed, moved>>

\* A leaf entry: not valid, read-only or writable, with its A and D bits.
Pte == [v : BOOLEAN, w : BOOLEAN, a : BOOLEAN, d : BOOLEAN, ppn : Frames]

Unmapped(f) == [v |-> FALSE, w |-> FALSE, a |-> FALSE, d |-> FALSE, ppn |-> f]

NoEntry == [gvpn |-> NoPage, page |-> NoPage]
Entry   == [gvpn : Pages, page : Pmem]

PagesOf(l) == {p \in Pages : LeafOf[p] = l}

update_mmu_state(m, sm) == IF m = "S" /\ sm = 8 THEN "TRANSLATE" ELSE "DIRECT"

Init ==
    /\ mode = "M" /\ satp = 0 /\ mmu = "DIRECT"
    /\ pte \in [Leaves -> {Unmapped(f) : f \in Frames}]
    /\ rtlb = [i \in Slots |-> NoEntry] /\ wtlb = [i \in Slots |-> NoEntry]
    /\ decoded = [i \in Sites |-> None]
    /\ changed = {} /\ moved = FALSE

----------------------------------------------------------------------------
(* The kernel.                                                              *)

WritePte(l) ==
    /\ \/ \E w \in BOOLEAN, f \in Frames :
             pte' = [pte EXCEPT ![l] = [v |-> TRUE, w |-> w, a |-> FALSE, d |-> FALSE, ppn |-> f]]
       \/ pte' = [pte EXCEPT ![l] = Unmapped(@.ppn)]
    /\ changed' = changed \cup PagesOf(l)
    /\ UNCHANGED <<mode, satp, mmu, tlbVars, decoded, moved>>

\* csr_write of satp.
WriteSatp ==
    /\ satp' \in {0, 8} \ {satp}
    /\ mmu' = update_mmu_state(mode, satp')
    /\ moved' = TRUE
    /\ UNCHANGED <<mode, pte, tlbVars, decoded, changed>>

\* raise_intr of a trap to M mode, or mret to S mode: neither fences.
ChangeMode ==
    /\ mode' \in Modes \ {mode}
    /\ mmu' = update_mmu_state(mode', satp)
    /\ UNCHANGED <<satp, pte, tlbVars, decoded, changed, moved>>

\* Mutant: only the entries for reading are flushed.
hosttlb_flush_Read(i, p) ==
    /\ rtlb' = [j \in Slots |-> IF j \in i /\ rtlb[j].gvpn \in p THEN NoEntry ELSE rtlb[j]]
    /\ UNCHANGED wtlb

\* The entries of slots i that hold one of the pages p.
hosttlb_flush(i, p) ==
    /\ rtlb' = [j \in Slots |-> IF j \in i /\ rtlb[j].gvpn \in p THEN NoEntry ELSE rtlb[j]]
    /\ wtlb' = [j \in Slots |-> IF j \in i /\ wtlb[j].gvpn \in p THEN NoEntry ELSE wtlb[j]]

\* Mutant: the decoded instructions stay.
SfenceAll_KeepsTcache ==
    /\ hosttlb_flush(Slots, Pages)
    /\ changed' = {} /\ moved' = FALSE
    /\ UNCHANGED <<memVars, decoded>>

\* mmu_tlb_flush(0): the trace cache is flushed as well.
SfenceAll ==
    /\ hosttlb_flush(Slots, Pages)
    /\ decoded' = [i \in Sites |-> None]
    /\ changed' = {} /\ moved' = FALSE
    /\ UNCHANGED memVars

\* mmu_tlb_flush of an address in page p; the kernel relies on it for
\* everything that the leaf of p maps.
SfencePage(p) ==
    /\ hosttlb_flush({SlotOf[p]}, {p})
    /\ changed' = changed \ PagesOf(LeafOf[p])
    /\ UNCHANGED <<memVars, decoded, moved>>

FenceI ==
    /\ decoded' = [i \in Sites |-> None]
    /\ UNCHANGED <<memVars, tlbVars, changed, moved>>

----------------------------------------------------------------------------
(* Loads and stores.                                                        *)

\* The state the site runs with: decoded now, or found in the trace cache.
StateAt(i) == IF decoded[i] = None THEN mmu ELSE decoded[i]

Decode(i) == decoded' = [decoded EXCEPT ![i] = StateAt(i)]

Allowed(p, write) == pte[LeafOf[p]].v /\ (write => pte[LeafOf[p]].w)

\* Mutant: a store to a page that was accessed does not set its D bit.
ptw_KeepsD(p, write) ==
    pte' = [pte EXCEPT ![LeafOf[p]].a = TRUE,
                       ![LeafOf[p]].d = @ \/ (write /\ ~pte[LeafOf[p]].a)]

\* The walk sets the A bit, and the D bit for a store.
ptw(p, write) ==
    pte' = [pte EXCEPT ![LeafOf[p]].a = TRUE, ![LeafOf[p]].d = @ \/ write]

\* Mutant: one host TLB for loads and stores.
Fill_Both(p, write, page) ==
    /\ rtlb' = [rtlb EXCEPT ![SlotOf[p]] = [gvpn |-> p, page |-> page]]
    /\ wtlb' = [wtlb EXCEPT ![SlotOf[p]] = [gvpn |-> p, page |-> page]]
    /\ write \in BOOLEAN

\* The slow path remembers pages of memory.
Fill(p, write, page) ==
    LET e == [gvpn |-> p, page |-> page]
    IN  /\ rtlb' = IF page \in Pmem /\ ~write THEN [rtlb EXCEPT ![SlotOf[p]] = e] ELSE rtlb
        /\ wtlb' = IF page \in Pmem /\ write THEN [wtlb EXCEPT ![SlotOf[p]] = e] ELSE wtlb

Hit(p, write) == (IF write THEN wtlb ELSE rtlb)[SlotOf[p]].gvpn = p

\* An access of the site that goes to memory untranslated, or hits.
AccessFast(i, p, write) ==
    /\ StateAt(i) = "DIRECT" \/ Hit(p, write)
    /\ Decode(i)
    /\ UNCHANGED <<memVars, tlbVars, changed, moved>>

\* va2pa asks for the present state again (isa_mmu_check).
AccessSlow(i, p, write) ==
    /\ StateAt(i) = "TRANSLATE" /\ ~Hit(p, write)
    /\ Decode(i)
    /\ \/ /\ mmu = "DIRECT"
          /\ Fill(p, write, p)
          /\ UNCHANGED pte
       \/ /\ mmu = "TRANSLATE" /\ Allowed(p, write)
          /\ ptw(p, write)
          /\ Fill(p, write, pte[LeafOf[p]].ppn)
    /\ UNCHANGED <<mode, satp, mmu, changed, moved>>

\* A page fault, delegated to S mode or not: the instruction stays decoded.
AccessFault(i, p, write) ==
    /\ StateAt(i) = "TRANSLATE" /\ ~Hit(p, write)
    /\ mmu = "TRANSLATE" /\ ~Allowed(p, write)
    /\ Decode(i)
    /\ mode' \in Modes
    /\ mmu' = update_mmu_state(mode', satp)
    /\ UNCHANGED <<satp, pte, tlbVars, changed, moved>>

Access(i, p, write) ==
    /\ mode \in RunsIn[i]
    /\ AccessFast(i, p, write) \/ AccessSlow(i, p, write) \/ AccessFault(i, p, write)

Next ==
    \/ \E l \in Leaves : WritePte(l)
    \/ WriteSatp \/ ChangeMode \/ SfenceAll \/ FenceI
    \/ \E p \in Pages : SfencePage(p)
    \/ \E i \in Sites, p \in Pages, write \in BOOLEAN : Access(i, p, write)

Spec == Init /\ [][Next]_vars

----------------------------------------------------------------------------
(* Properties.                                                              *)

\* Every variable has its type; an entry is in the slot of its page.
TypeOK ==
    /\ mode \in Modes /\ satp \in {0, 8} /\ mmu \in {"DIRECT", "TRANSLATE"}
    /\ pte \in [Leaves -> Pte]
    /\ rtlb \in [Slots -> {NoEntry} \cup Entry] /\ wtlb \in [Slots -> {NoEntry} \cup Entry]
    /\ \A i \in Slots : \A e \in {rtlb[i], wtlb[i]} : e.gvpn # NoPage => SlotOf[e.gvpn] = i
    /\ decoded \in [Sites -> {None, "DIRECT", "TRANSLATE"}]
    /\ changed \subseteq Pages /\ moved \in BOOLEAN

\* The pages for which the kernel has fenced what it did.
Settled == {p \in Pages : p \notin changed /\ ~moved}

\* What the host TLB says of a settled page is what a walk would find now.
TlbCurrent(tlb, write) ==
    \A i \in Slots : tlb[i].gvpn \in Settled =>
        /\ satp = 8
        /\ Allowed(tlb[i].gvpn, write)
        /\ tlb[i].page = pte[LeafOf[tlb[i].gvpn]].ppn

\* After a fence no load or store uses a translation from before it.
TlbCoherent == TlbCurrent(rtlb, FALSE) /\ TlbCurrent(wtlb, TRUE)

\* A page that is read or written without a walk has its A bit, and its D bit,
\* set: the kernel finds every page that was written.
DirtyMarked ==
    \A i \in Slots :
        /\ rtlb[i].gvpn \in Settled => pte[LeafOf[rtlb[i].gvpn]].a
        /\ wtlb[i].gvpn \in Settled => pte[LeafOf[wtlb[i].gvpn]].d

\* Once a change of satp is fenced, an instruction found in the trace cache was
\* decoded for the translation state it runs with.
DecodedCurrent ==
    ~moved => \A i \in Sites : mode \in RunsIn[i] => decoded[i] \in {None, mmu}
=============================================================================
