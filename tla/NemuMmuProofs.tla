-------------------------- MODULE NemuMmuProofs --------------------------
(* The host TLB and the trace cache of NEMU agree with the page table, for  *)
(* any pages, frames, slots and program. Two conditions on the guest make   *)
(* it so; without either a run of TLC finds the disagreement.               *)
EXTENDS NemuMmu, TLAPS

\* Every page has a leaf entry of its own (no superpage is fenced page-wise).
OwnLeaves == \A p, q \in Pages : LeafOf[p] = LeafOf[q] => p = q

\* No load or store is executed in two modes.
OneMode == \A i \in Sites : \A m, n \in RunsIn[i] : m = n

----------------------------------------------------------------------------
(* The invariant.                                                           *)

\* What must hold of a TLB entry e, used for stores or for loads.
EntryOK(e, write) ==
    e.gvpn \in Settled =>
        /\ satp = 8
        /\ pte[LeafOf[e.gvpn]].v
        /\ e.page = pte[LeafOf[e.gvpn]].ppn
        /\ IF write THEN pte[LeafOf[e.gvpn]].w /\ pte[LeafOf[e.gvpn]].d
                    ELSE pte[LeafOf[e.gvpn]].a

Entries == {NoEntry} \cup Entry

Tlb(write) == IF write THEN wtlb ELSE rtlb

TlbInv == \A i \in Slots, write \in BOOLEAN, e \in Entries :
            e = Tlb(write)[i] => EntryOK(e, write)

\* Until satp moves, an instruction is decoded for the mode it runs in.
StateInv ==
    /\ mmu = update_mmu_state(mode, satp)
    /\ ~moved => \A i \in Sites : \A m \in RunsIn[i] :
            decoded[i] \in {None, update_mmu_state(m, satp)}

----------------------------------------------------------------------------
(* Types.                                                                   *)

TlbTyped(t) ==
    /\ t \in [Slots -> Entries]
    /\ \A i \in Slots : t[i].gvpn # NoPage => SlotOf[t[i].gvpn] = i

LEMMA TypeParts ==
    TypeOK <=>
        /\ mode \in Modes /\ satp \in {0, 8} /\ mmu \in {"DIRECT", "TRANSLATE"}
        /\ pte \in [Leaves -> Pte]
        /\ TlbTyped(rtlb) /\ TlbTyped(wtlb)
        /\ decoded \in [Sites -> {None, "DIRECT", "TRANSLATE"}]
        /\ changed \subseteq Pages /\ moved \in BOOLEAN
BY DEF TypeOK, TlbTyped, Entries

LEMMA EntryPages ==
    /\ NoEntry.gvpn = NoPage
    /\ \A e \in Entries : e.gvpn \in Pages \/ (e = NoEntry /\ e.gvpn \notin Pages)
BY MmuAssumption DEF Entries, Entry, NoEntry

LEMMA MmuTyped == \A m, s : update_mmu_state(m, s) \in {"DIRECT", "TRANSLATE"}
BY DEF update_mmu_state

LEMMA InitTyped == Init => TypeOK
<1> SUFFICES ASSUME Init PROVE TypeOK
    OBVIOUS
<1>1. TlbTyped([i \in Slots |-> NoEntry])
    BY EntryPages DEF TlbTyped, Entries
<1>2. pte \in [Leaves -> Pte]
    <2>1. \A f \in Frames : Unmapped(f) \in Pte
        BY DEF Unmapped, Pte
    <2>2. pte \in [Leaves -> {Unmapped(f) : f \in Frames}]
        BY DEF Init
    <2> QED BY <2>1, <2>2
<1> QED BY <1>1, <1>2, TypeParts DEF Init, Modes, None

LEMMA FlushTyped ==
    ASSUME TypeOK, NEW s, NEW p, hosttlb_flush(s, p)
    PROVE  TlbTyped(rtlb)' /\ TlbTyped(wtlb)'
<1>1. TlbTyped(rtlb) /\ TlbTyped(wtlb)
    BY TypeParts
<1> QED BY <1>1, EntryPages DEF hosttlb_flush, TlbTyped, Entries

LEMMA FillTyped ==
    ASSUME TypeOK, NEW p \in Pages, NEW write \in BOOLEAN, NEW page, Fill(p, write, page)
    PROVE  TlbTyped(rtlb)' /\ TlbTyped(wtlb)'
<1>1. TlbTyped(rtlb) /\ TlbTyped(wtlb)
    BY TypeParts
<1>2. SlotOf[p] \in Slots
    BY MmuAssumption
<1>3. page \in Pmem => [gvpn |-> p, page |-> page] \in Entries
    BY DEF Entries, Entry
<1> QED BY <1>1, <1>2, <1>3 DEF Fill, TlbTyped

LEMMA DecodeTyped ==
    ASSUME TypeOK, NEW i \in Sites, Decode(i)
    PROVE  decoded' \in [Sites -> {None, "DIRECT", "TRANSLATE"}]
BY DEF Decode, StateAt, TypeOK

LEMMA WalkTyped ==
    ASSUME TypeOK, NEW p \in Pages, NEW write \in BOOLEAN, ptw(p, write)
    PROVE  /\ pte' \in [Leaves -> Pte]
           /\ \A l \in Leaves : /\ pte'[l].v = pte[l].v /\ pte'[l].w = pte[l].w
                                /\ pte'[l].ppn = pte[l].ppn
                                /\ pte[l].a => pte'[l].a
                                /\ pte[l].d => pte'[l].d
           /\ pte'[LeafOf[p]].a /\ (write => pte'[LeafOf[p]].d)
<1> DEFINE old == pte[LeafOf[p]]
           new == [old EXCEPT !.a = TRUE, !.d = @ \/ write]
<1>1. LeafOf[p] \in Leaves /\ pte \in [Leaves -> Pte] /\ old \in Pte
    BY MmuAssumption DEF TypeOK
<1>2. /\ new \in Pte /\ new.v = old.v /\ new.w = old.w /\ new.ppn = old.ppn
      /\ new.a /\ (write \/ old.d => new.d)
    BY <1>1 DEF Pte
<1>3. pte' = [pte EXCEPT ![LeafOf[p]] = new]
    BY DEF ptw
<1> HIDE DEF new
<1> QED BY <1>1, <1>2, <1>3

LEMMA WriteTyped ==
    ASSUME TypeOK, NEW l \in Leaves, WritePte(l)
    PROVE  /\ pte' \in [Leaves -> Pte]
           /\ \A k \in Leaves : k # l => pte'[k] = pte[k]
<1>1. pte \in [Leaves -> Pte] /\ pte[l] \in Pte
    BY DEF TypeOK
<1>2. PICK e \in Pte : pte' = [pte EXCEPT ![l] = e]
    <2>1. CASE \E w \in BOOLEAN, f \in Frames :
               pte' = [pte EXCEPT ![l] = [v |-> TRUE, w |-> w, a |-> FALSE, d |-> FALSE, ppn |-> f]]
        <3>1. \A w \in BOOLEAN, f \in Frames :
                [v |-> TRUE, w |-> w, a |-> FALSE, d |-> FALSE, ppn |-> f] \in Pte
            BY DEF Pte
        <3> QED BY <2>1, <3>1
    <2>2. CASE pte' = [pte EXCEPT ![l] = Unmapped(@.ppn)]
        <3>1. Unmapped(pte[l].ppn) \in Pte
            BY <1>1 DEF Pte, Unmapped
        <3>2. pte' = [pte EXCEPT ![l] = Unmapped(pte[l].ppn)]
            BY <1>1, <2>2
        <3> QED BY <3>1, <3>2
    <2> QED BY <2>1, <2>2 DEF WritePte
<1> QED BY <1>1, <1>2

LEMMA NextTyped == TypeOK /\ [Next]_vars => TypeOK'
<1> SUFFICES ASSUME TypeOK, [Next]_vars
             PROVE  /\ mode' \in Modes /\ satp' \in {0, 8} /\ mmu' \in {"DIRECT", "TRANSLATE"}
                    /\ pte' \in [Leaves -> Pte]
                    /\ TlbTyped(rtlb)' /\ TlbTyped(wtlb)'
                    /\ decoded' \in [Sites -> {None, "DIRECT", "TRANSLATE"}]
                    /\ changed' \subseteq Pages /\ moved' \in BOOLEAN
    BY DEF TypeOK, TlbTyped, Entries
<1>0. /\ TlbTyped(rtlb) /\ TlbTyped(wtlb)
      /\ [i \in Sites |-> None] \in [Sites -> {None, "DIRECT", "TRANSLATE"}]
    BY TypeParts
<1>1. ASSUME UNCHANGED tlbVars PROVE TlbTyped(rtlb)' /\ TlbTyped(wtlb)'
    BY <1>0, <1>1 DEF tlbVars, TlbTyped
<1>2. ASSUME NEW l \in Leaves, WritePte(l) PROVE TypeOK'
    <2>1. pte' \in [Leaves -> Pte]
        BY <1>2, WriteTyped
    <2>2. changed' \subseteq Pages
        BY <1>2 DEF WritePte, PagesOf, TypeOK
    <2> QED BY <1>1, <1>2, <2>1, <2>2 DEF WritePte, TypeOK, TlbTyped, Entries, tlbVars
<1>3. CASE WriteSatp \/ ChangeMode
    BY <1>1, <1>3, MmuTyped DEF WriteSatp, ChangeMode, TypeOK
<1>4. CASE SfenceAll
    <2>1. TlbTyped(rtlb)' /\ TlbTyped(wtlb)'
        BY <1>4, FlushTyped DEF SfenceAll
    <2> QED BY <1>0, <1>4, <2>1 DEF SfenceAll, memVars, TypeOK
<1>5. CASE FenceI
    BY <1>0, <1>1, <1>5 DEF FenceI, memVars, TypeOK
<1>6. ASSUME NEW p \in Pages, SfencePage(p) PROVE TypeOK'
    <2>1. TlbTyped(rtlb)' /\ TlbTyped(wtlb)'
        BY <1>6, FlushTyped DEF SfencePage
    <2> QED BY <1>6, <2>1 DEF SfencePage, memVars, TypeOK, TlbTyped, Entries
<1>7. ASSUME NEW i \in Sites, NEW p \in Pages, NEW write \in BOOLEAN, Access(i, p, write)
      PROVE  TypeOK'
    <2>1. decoded' \in [Sites -> {None, "DIRECT", "TRANSLATE"}]
        BY <1>7, DecodeTyped DEF Access, AccessFast, AccessSlow, AccessFault
    <2>2. CASE AccessFast(i, p, write)
        BY <1>1, <2>1, <2>2 DEF AccessFast, memVars, tlbVars, TypeOK, TlbTyped, Entries
    <2>3. CASE AccessSlow(i, p, write)
        <3>1. pte' \in [Leaves -> Pte]
            BY <2>3, WalkTyped DEF AccessSlow, TypeOK
        <3>2. TlbTyped(rtlb)' /\ TlbTyped(wtlb)'
            BY <2>3, FillTyped DEF AccessSlow
        <3> QED BY <2>1, <2>3, <3>1, <3>2 DEF AccessSlow, TypeOK, TlbTyped, Entries
    <2>4. CASE AccessFault(i, p, write)
        BY <1>1, <2>1, <2>4, MmuTyped DEF AccessFault, tlbVars, TypeOK, TlbTyped, Entries
    <2> QED BY <1>7, <2>2, <2>3, <2>4 DEF Access
<1>8. CASE UNCHANGED vars
    BY <1>1, <1>8 DEF vars, memVars, tlbVars, TypeOK
<1>9. TypeOK' => /\ mode' \in Modes /\ satp' \in {0, 8} /\ mmu' \in {"DIRECT", "TRANSLATE"}
                 /\ pte' \in [Leaves -> Pte]
                 /\ TlbTyped(rtlb)' /\ TlbTyped(wtlb)'
                 /\ decoded' \in [Sites -> {None, "DIRECT", "TRANSLATE"}]
                 /\ changed' \subseteq Pages /\ moved' \in BOOLEAN
    BY DEF TypeOK, TlbTyped, Entries
<1> QED BY <1>2, <1>3, <1>4, <1>5, <1>6, <1>7, <1>8, <1>9 DEF Next

\* Every variable has its type and every TLB entry is in the slot of its page.
THEOREM TypeCorrect == Spec => []TypeOK
<1> QED BY InitTyped, NextTyped, PTL DEF Spec

----------------------------------------------------------------------------
(* The translation state.                                                   *)

LEMMA NextState ==
    ASSUME OneMode PROVE TypeOK /\ StateInv /\ [Next]_vars => StateInv'
<1> SUFFICES ASSUME TypeOK, StateInv, [Next]_vars PROVE StateInv'
    OBVIOUS
<1>1. ASSUME NEW i \in Sites, mode \in RunsIn[i], Decode(i), UNCHANGED <<satp, moved>>, ~moved
      PROVE  \A j \in Sites : \A m \in RunsIn[j] : decoded'[j] \in {None, update_mmu_state(m, satp)}
    <2>1. \A m \in RunsIn[i] : m = mode
        BY <1>1 DEF OneMode
    <2>2. StateAt(i) = update_mmu_state(mode, satp)
        BY <1>1 DEF StateAt, StateInv
    <2>3. decoded' = [decoded EXCEPT ![i] = StateAt(i)] /\ decoded \in [Sites -> {None, "DIRECT", "TRANSLATE"}]
        BY <1>1 DEF Decode, TypeOK
    <2> QED BY <1>1, <2>1, <2>2, <2>3 DEF StateInv
<1>2. ASSUME NEW l \in Leaves, WritePte(l) PROVE StateInv'
    BY <1>2 DEF WritePte, StateInv
<1>3. CASE WriteSatp \/ ChangeMode
    BY <1>3 DEF WriteSatp, ChangeMode, StateInv
<1>4. CASE SfenceAll \/ FenceI
    BY <1>4 DEF SfenceAll, FenceI, memVars, StateInv
<1>5. ASSUME NEW p \in Pages, SfencePage(p) PROVE StateInv'
    BY <1>5 DEF SfencePage, memVars, StateInv
<1>6. ASSUME NEW i \in Sites, NEW p \in Pages, NEW write \in BOOLEAN, Access(i, p, write)
      PROVE  StateInv'
    <2>1. mmu' = update_mmu_state(mode', satp')
        BY <1>6 DEF Access, AccessFast, AccessSlow, AccessFault, memVars, StateInv
    <2>2. mode \in RunsIn[i] /\ Decode(i) /\ UNCHANGED <<satp, moved>>
        BY <1>6 DEF Access, AccessFast, AccessSlow, AccessFault, memVars
    <2> QED BY <1>1, <2>1, <2>2 DEF StateInv
<1>7. CASE UNCHANGED vars
    BY <1>7 DEF vars, memVars, StateInv
<1> QED BY <1>2, <1>3, <1>4, <1>5, <1>6, <1>7 DEF Next

LEMMA InitState == Init => StateInv
BY DEF Init, StateInv, update_mmu_state

\* An instruction in the trace cache was decoded for the state it runs with.
THEOREM DecodedKept ==
    ASSUME OneMode PROVE Spec => []DecodedCurrent
<1>1. TypeOK /\ StateInv => DecodedCurrent
    BY DEF StateInv, DecodedCurrent
<1> QED BY <1>1, InitTyped, NextTyped, InitState, NextState, PTL DEF Spec

----------------------------------------------------------------------------
(* The host TLB.                                                            *)

\* An entry stays right while its leaf only gains A and D bits and its page is
\* not newly fenced.
LEMMA Stays ==
    ASSUME TypeOK, NEW e \in Entries, NEW write \in BOOLEAN, EntryOK(e, write), satp' = satp,
           \A l \in Leaves : /\ pte'[l].v = pte[l].v /\ pte'[l].w = pte[l].w
                             /\ pte'[l].ppn = pte[l].ppn
                             /\ pte[l].a => pte'[l].a
                             /\ pte[l].d => pte'[l].d,
           e.gvpn \in Settled' => e.gvpn \in Settled
    PROVE  EntryOK(e, write)'
<1>1. SUFFICES ASSUME e.gvpn \in Settled, e.gvpn \in Settled' PROVE EntryOK(e, write)'
    BY DEF EntryOK
<1>2. LeafOf[e.gvpn] \in Leaves
    BY <1>1, MmuAssumption DEF Settled
<1> QED BY <1>1, <1>2 DEF EntryOK

\* A fence of page p covers what it is relied on for.
LEMMA PageFence ==
    ASSUME OwnLeaves, TypeOK, TlbInv, NEW p \in Pages, SfencePage(p)
    PROVE  TlbInv'
<1> SUFFICES ASSUME NEW i \in Slots, NEW write \in BOOLEAN, NEW e \in Entries, e = Tlb(write)'[i]
             PROVE  EntryOK(e, write)'
    BY DEF TlbInv, Tlb
<1>1. TlbTyped(rtlb) /\ TlbTyped(wtlb)
    BY TypeParts
<1>2. e.gvpn # p
    <2>1. Tlb(write)'[i] = IF i = SlotOf[p] /\ Tlb(write)[i].gvpn = p THEN NoEntry ELSE Tlb(write)[i]
        BY DEF SfencePage, hosttlb_flush, Tlb
    <2>2. Tlb(write)[i].gvpn = p => i = SlotOf[p]
        BY <1>1, MmuAssumption DEF TlbTyped, Tlb
    <2> QED BY <2>1, <2>2, MmuAssumption, EntryPages
<1>3. CASE e = NoEntry
    <2>1. e.gvpn \notin Pages
        BY <1>3, EntryPages, MmuAssumption
    <2> QED BY <2>1 DEF EntryOK, Settled
<1>4. CASE e # NoEntry
    <2>1. e = Tlb(write)[i]
        BY <1>4 DEF SfencePage, hosttlb_flush, Tlb
    <2>2. PagesOf(LeafOf[p]) = {p}
        BY DEF PagesOf, OwnLeaves
    <2>3. e.gvpn \in Settled' => e.gvpn \in Settled
        BY <1>2, <2>2 DEF SfencePage, Settled
    <2> QED BY <2>1, <2>3, Stays DEF SfencePage, memVars, TlbInv
<1> QED BY <1>3, <1>4

\* The slow path remembers what the walk has just found.
LEMMA SlowAccess ==
    ASSUME TypeOK, StateInv, TlbInv, NEW i \in Sites, NEW p \in Pages, NEW write \in BOOLEAN,
           mode \in RunsIn[i], AccessSlow(i, p, write)
    PROVE  TlbInv'
<1> SUFFICES ASSUME NEW s \in Slots, NEW w \in BOOLEAN, NEW e \in Entries, e = Tlb(w)'[s]
             PROVE  EntryOK(e, w)'
    BY DEF TlbInv, Tlb
<1>1. satp' = satp /\ changed' = changed /\ moved' = moved
    BY DEF AccessSlow
<1>2. CASE mmu = "DIRECT"
    <2>1. decoded[i] = "TRANSLATE"
        BY <1>2 DEF AccessSlow, StateAt, TypeOK
    <2>2. moved
        <3>1. "TRANSLATE" \notin {None, "DIRECT"}
            BY DEF None
        <3> QED BY <1>2, <2>1, <3>1 DEF StateInv, TypeOK
    <2> QED BY <1>1, <2>2 DEF EntryOK, Settled
<1>3. CASE mmu = "TRANSLATE"
    <2>1. Allowed(p, write) /\ ptw(p, write) /\ Fill(p, write, pte[LeafOf[p]].ppn)
        BY <1>3 DEF AccessSlow
    <2>2. satp = 8
        BY <1>3 DEF StateInv, update_mmu_state
    <2>3. /\ \A l \in Leaves : /\ pte'[l].v = pte[l].v /\ pte'[l].w = pte[l].w
                               /\ pte'[l].ppn = pte[l].ppn
                               /\ pte[l].a => pte'[l].a
                               /\ pte[l].d => pte'[l].d
          /\ pte'[LeafOf[p]].a /\ (write => pte'[LeafOf[p]].d)
        BY <2>1, WalkTyped
    <2>4. CASE e = Tlb(w)[s]
        BY <1>1, <2>3, <2>4, Stays DEF TlbInv, Settled
    <2>5. CASE e # Tlb(w)[s]
        <3>1. w = write /\ e = [gvpn |-> p, page |-> pte[LeafOf[p]].ppn]
            <4>1. rtlb \in [Slots -> Entries] /\ wtlb \in [Slots -> Entries]
                BY TypeParts DEF TlbTyped
            <4> QED BY <2>1, <2>5, <4>1 DEF Fill, Tlb
        <3>2. LeafOf[p] \in Leaves
            BY MmuAssumption
        <3> QED BY <1>1, <2>1, <2>2, <2>3, <3>1, <3>2 DEF EntryOK, Allowed
    <2> QED BY <2>4, <2>5
<1> QED BY <1>2, <1>3 DEF TypeOK

LEMMA NextTlb ==
    ASSUME OwnLeaves PROVE TypeOK /\ StateInv /\ TlbInv /\ [Next]_vars => TlbInv'
<1> SUFFICES ASSUME TypeOK, StateInv, TlbInv, [Next]_vars PROVE TlbInv'
    OBVIOUS
<1>1. ASSUME UNCHANGED <<satp, pte, rtlb, wtlb, changed, moved>> PROVE TlbInv'
    BY <1>1 DEF TlbInv, Tlb, EntryOK, Settled
<1>2. ASSUME NEW l \in Leaves, WritePte(l) PROVE TlbInv'
    <2> SUFFICES ASSUME NEW i \in Slots, NEW write \in BOOLEAN, NEW e \in Entries, e = Tlb(write)'[i],
                        e.gvpn \in Settled'
                 PROVE  EntryOK(e, write)'
        BY DEF TlbInv, Tlb, EntryOK
    <2>1. e = Tlb(write)[i] /\ satp' = satp /\ moved' = moved /\ changed' = changed \cup PagesOf(l)
        BY <1>2 DEF WritePte, tlbVars, Tlb
    <2>2. e.gvpn \in Settled /\ e.gvpn \in Pages /\ e.gvpn \notin PagesOf(l)
        BY <2>1 DEF Settled
    <2>3. LeafOf[e.gvpn] \in Leaves /\ LeafOf[e.gvpn] # l
        BY <2>2, MmuAssumption DEF PagesOf
    <2>4. pte'[LeafOf[e.gvpn]] = pte[LeafOf[e.gvpn]]
        BY <1>2, <2>3, WriteTyped
    <2>5. EntryOK(e, write)
        BY <2>1 DEF TlbInv
    <2> QED BY <2>1, <2>2, <2>4, <2>5 DEF EntryOK
<1>3. CASE WriteSatp
    BY <1>3 DEF WriteSatp, TlbInv, EntryOK, Settled
<1>4. CASE ChangeMode
    BY <1>1, <1>4 DEF ChangeMode, tlbVars
<1>5. CASE SfenceAll
    <2> SUFFICES ASSUME NEW i \in Slots, NEW write \in BOOLEAN, NEW e \in Entries, e = Tlb(write)'[i]
                 PROVE  EntryOK(e, write)'
        BY DEF TlbInv, Tlb
    <2>1. rtlb \in [Slots -> Entries] /\ wtlb \in [Slots -> Entries]
        BY TypeParts DEF TlbTyped
    <2>2. e.gvpn \notin Pages
        BY <1>5, <2>1, EntryPages, MmuAssumption DEF SfenceAll, hosttlb_flush, Tlb
    <2> QED BY <2>2 DEF EntryOK, Settled
<1>6. CASE FenceI
    BY <1>1, <1>6 DEF FenceI, memVars, tlbVars
<1>7. ASSUME NEW p \in Pages, SfencePage(p) PROVE TlbInv'
    BY <1>7, PageFence
<1>8. ASSUME NEW i \in Sites, NEW p \in Pages, NEW write \in BOOLEAN, Access(i, p, write)
      PROVE  TlbInv'
    <2>1. CASE AccessFast(i, p, write) \/ AccessFault(i, p, write)
        BY <1>1, <2>1 DEF AccessFast, AccessFault, memVars, tlbVars
    <2>2. CASE AccessSlow(i, p, write)
        BY <1>8, <2>2, SlowAccess DEF Access
    <2> QED BY <1>8, <2>1, <2>2 DEF Access
<1>9. CASE UNCHANGED vars
    BY <1>1, <1>9 DEF vars, memVars, tlbVars
<1> QED BY <1>2, <1>3, <1>4, <1>5, <1>6, <1>7, <1>8, <1>9 DEF Next

LEMMA InitTlb == Init => TlbInv
<1> SUFFICES ASSUME Init, NEW i \in Slots, NEW write \in BOOLEAN, NEW e \in Entries, e = Tlb(write)[i]
             PROVE  EntryOK(e, write)
    BY DEF TlbInv
<1>1. e = NoEntry
    BY DEF Init, Tlb
<1> QED BY <1>1, EntryPages, MmuAssumption DEF EntryOK, Settled

\* TlbInv, said of the two arrays.
LEMMA TlbMeans == TypeOK /\ TlbInv => TlbCoherent /\ DirtyMarked
<1> SUFFICES ASSUME TypeOK, TlbInv, NEW i \in Slots
             PROVE  /\ EntryOK(rtlb[i], FALSE) /\ EntryOK(wtlb[i], TRUE)
    BY DEF TlbCoherent, TlbCurrent, DirtyMarked, EntryOK, Allowed
<1>1. rtlb[i] \in Entries /\ wtlb[i] \in Entries
    BY TypeParts DEF TlbTyped
<1>2. Tlb(FALSE) = rtlb /\ Tlb(TRUE) = wtlb
    BY DEF Tlb
<1> QED BY <1>1, <1>2 DEF TlbInv

LEMMA TlbInvariant ==
    ASSUME OwnLeaves, OneMode PROVE Spec => [](TypeOK /\ TlbInv)
<1> QED BY InitTyped, InitState, InitTlb, NextTyped, NextState, NextTlb, PTL DEF Spec

\* After a fence, a hit in the host TLB is what a walk would find.
THEOREM TlbKeptCoherent ==
    ASSUME OwnLeaves, OneMode PROVE Spec => []TlbCoherent
<1> QED BY TlbInvariant, TlbMeans, PTL

\* A page that is read or written without a walk has its A and D bits set.
THEOREM DirtyBitsKept ==
    ASSUME OwnLeaves, OneMode PROVE Spec => []DirtyMarked
<1> QED BY TlbInvariant, TlbMeans, PTL
=============================================================================
