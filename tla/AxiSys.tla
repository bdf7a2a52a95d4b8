------------------------------- MODULE AxiSys -------------------------------
(***************************************************************************)
(* The bus of cpu_axi_diff with its two requesters, the fetch stage        *)
(* (ifu.sv) and the MEM stage (lsu.sv), reduced to what they ask of the    *)
(* bus.  The fetch stage always asks for the word at if_addr.  A fetched   *)
(* instruction walks down the pipeline, one stage a cycle; in MEM it may   *)
(* be a load or store, which then holds the bus until it is acknowledged,  *)
(* and in WB it may flush (csr.sv), after which the next word fetched is   *)
(* thrown away.                                                            *)
(***************************************************************************)
EXTENDS AxiBus

CONSTANTS
    FlushAddr,      \* where the fetch stage points after a flush (address 0)
    OverLoads,      \* the program does loads that overstep a bus word
    OverStores,     \* the program does stores that overstep a bus word
    SlowReads       \* the memory's timing, see SlowEnough

ASSUME SysAssumption ==
    /\ FlushAddr \in Words
    /\ OverLoads \in BOOLEAN
    /\ OverStores \in BOOLEAN
    /\ SlowReads \in BOOLEAN

VARIABLES
    if_addr,        \* ifu.o_pc, the word being fetched
    keep,           \* csr.keep: the next fetched instruction is discarded
    mem_valid,      \* a load or store is in MEM
    mem,            \* the MEM stage's request registers
    stage,          \* where the last fetched instruction is
    stall           \* bypass.o_ifid_stall: no fetch is requested

reqVars == <<if_addr, keep, mem_valid, mem, stage, stall>>
vars    == <<busVars, reqVars>>

MemReqs ==
    {m \in [store : BOOLEAN, addr : Words, over : BOOLEAN, wdata : Data] :
        m.over => IF m.store THEN OverStores ELSE OverLoads}

q == Arbitrate(~stall, if_addr, mem_valid, mem)

fetch_hs(e) == ~stall /\ if_rw_ready(q, e)

(***************************************************************************)
(* The timing cpu_axi_diff relies on: a read takes longer than the last    *)
(* fetched instruction needs to reach MEM and, if it is a store, to be     *)
(* acknowledged there.                                                     *)
(***************************************************************************)
SlowEnough(e) == SlowReads /\ e.r => stage \notin {"ID", "EX"} /\ ~q.write

----------------------------------------------------------------------------
(* One clock cycle, by what it means to the requesters.                    *)

\* The pipe_*.sv valid bits: one stage a cycle unless MEM waits for the bus.
Advance ==
    IF stage = "ID"                         THEN "EX"
    ELSE IF stage = "EX"                    THEN "MEM"
    ELSE IF stage = "MEM" /\ ~mem_valid     THEN "WB"
    ELSE stage

\* bypass.sv: the ID register still holds the instruction that is in EX.  If
\* that one loads a register it also reads, it is taken for its own
\* successor, and the fetch request is withdrawn for the cycle.
MayStall(s) == IF s = "EX" THEN BOOLEAN ELSE {FALSE}

\* The bus works on a request or the current request is not answered.
Wait(e) ==
    /\ ~fetch_hs(e)
    /\ ~mem_rw_ready(q, e)
    /\ ~stall
    /\ BusCycle(q, e)
    /\ stage' = Advance
    /\ stall' \in MayStall(stage')
    /\ UNCHANGED <<if_addr, keep, mem_valid, mem>>

\* ifu.sv: the fetched instruction leaves and the next address is loaded.
FetchDone(e) ==
    /\ fetch_hs(e)
    /\ BusCycle(q, e)
    /\ if_addr' \in Words
    /\ keep' = FALSE
    /\ stage' = IF keep THEN "NONE" ELSE "ID"
    /\ UNCHANGED <<mem_valid, mem, stall>>

\* Mutant: a flush does not make the next fetched instruction a bubble.
Flush_NoKeep(e) ==
    /\ stage = "WB"
    /\ BusCycle(q, e)
    /\ if_addr' = FlushAddr
    /\ stage' = "NONE"
    /\ UNCHANGED <<keep, mem_valid, mem, stall>>

\* csr.sv, ifu.sv: an ecall or interrupt flushes when a fetch completes, an
\* mret as soon as it is in WB.
Flush(e) ==
    /\ stage = "WB"
    /\ BusCycle(q, e)
    /\ if_addr' = FlushAddr
    /\ keep' = TRUE
    /\ stage' = "NONE"
    /\ UNCHANGED <<mem_valid, mem, stall>>

\* The last fetched instruction reaches MEM and is a load or a store.
MemArrives(e) ==
    /\ stage = "EX"
    /\ ~fetch_hs(e)
    /\ BusCycle(q, e)
    /\ stage' = Advance
    /\ mem_valid' = TRUE
    /\ mem' \in {m \in MemReqs : stall => ~m.store}
    /\ stall' = FALSE
    /\ UNCHANGED <<if_addr, keep>>

\* lsu.sv: the load or store is acknowledged and leaves MEM.
MemDone(e) ==
    /\ mem_rw_ready(q, e)
    /\ BusCycle(q, e)
    /\ mem_valid' = FALSE
    /\ stage' = "WB"
    /\ UNCHANGED <<if_addr, keep, mem, stall>>

Cycle(e) ==
    Wait(e) \/ FetchDone(e) \/ Flush(e) \/ MemArrives(e) \/ MemDone(e)

Next == \E e \in Env : SlowEnough(e) /\ Cycle(e)

Init ==
    /\ BusInit
    /\ if_addr \in Words
    /\ keep \in BOOLEAN
    /\ mem_valid = FALSE
    /\ mem \in MemReqs
    /\ stage = "NONE"
    /\ stall = FALSE

(***************************************************************************)
(* The clock never stops, and the DRAM model neither refuses nor withholds *)
(* forever: whatever channel handshake is possible again and again happens *)
(* at last.                                                                *)
(***************************************************************************)
Step(P(_)) == \E e \in Env : P(e) /\ SlowEnough(e) /\ Cycle(e)

Fairness ==
    /\ WF_vars(Next)
    /\ SF_vars(Step(LAMBDA e : ar_hs(q, e)))
    /\ SF_vars(Step(LAMBDA e : r_hs(e)))
    /\ SF_vars(Step(LAMBDA e : aw_hs(q, e)))
    /\ SF_vars(Step(LAMBDA e : w_hs(q, e)))
    /\ SF_vars(Step(LAMBDA e : e.add /\ w_req # NoReq))
    /\ SF_vars(Step(LAMBDA e : b_hs(e)))

Spec     == Init /\ [][Next]_vars
FairSpec == Spec /\ Fairness

----------------------------------------------------------------------------
(* Properties.                                                             *)

\* The state machines of axi_rw and ram.cpp stay in their states and the beat
\* counter within a burst, with requests for words of memory only.
TypeOK ==
    /\ w_state \in {"IDLE", "ADDR", "WRITE", "RESP"}
    /\ r_state \in {"IDLE", "ADDR", "READ"}
    /\ len \in 0..1
    /\ rw_ready \in BOOLEAN
    /\ data_read \in Seq(Beats)
    /\ r_id \in Ids
    /\ b_id \in Ids
    /\ reads \in Seq(Reads)
    /\ r_wait \in BOOLEAN
    /\ w_req \in WriteReq \cup {NoReq}
    /\ writes \in Seq(WriteReq)
    /\ b_wait \in BOOLEAN
    /\ ram \in [Words -> Data]
    /\ if_addr \in Words
    /\ keep \in BOOLEAN
    /\ mem_valid \in BOOLEAN
    /\ mem \in MemReqs
    /\ stage \in {"NONE", "ID", "EX", "MEM", "WB"}
    /\ stall \in BOOLEAN

\* The memory holds at most one read and one write ("currently only accept
\* one in-flight read + one in-flight write", ram.cpp), although axi_rw
\* abandons and re-issues fetches when a load or store takes the bus.
OneInFlight ==
    /\ Len(reads) <= 1
    /\ Len(writes) <= 1
    /\ w_req # NoReq => writes = <<>>

\* What a completed read of m must have put in data_read_o.
ReadOf(m) ==
    LET first  == [word |-> m.addr, val |-> ram[m.addr], lane |-> m.addr]
        second == [word |-> NextWord[m.addr], val |-> ram[NextWord[m.addr]],
                   lane |-> m.addr]
    IN  IF m.over THEN <<first, second>> ELSE <<first>>

\* A load is acknowledged only with every beat of its own word, as memory
\* holds it then, cut with its own lanes; a fetch that was in flight when the
\* load took the bus cannot be mistaken for it.
LoadData ==
    \A e \in Env : SlowEnough(e) /\ mem_rw_ready(q, e) /\ ~mem.store
                       => data_read = ReadOf(mem)

\* A store is acknowledged only when the memory holds its value and has
\* nothing of it left to do.
StoreDone ==
    \A e \in Env : SlowEnough(e) /\ mem_rw_ready(q, e) /\ mem.store
                       => /\ ram[mem.addr] = mem.wdata
                          /\ w_req = NoReq
                          /\ writes = <<>>

\* Unless it is going to be discarded, a fetched instruction was read from
\* the address the fetch stage asks for.
FetchData ==
    \A e \in Env : SlowEnough(e) /\ fetch_hs(e) /\ ~keep
                       => /\ Len(data_read) = 1
                          /\ data_read[1].word = if_addr
                          /\ data_read[1].lane = if_addr

\* No fetch completes before the last fetched instruction has reached WB: what
\* every handshake of the pipeline silently relies on (MayFetch of CpuAxi).
FetchAlone ==
    \A e \in Env : SlowEnough(e) /\ fetch_hs(e) => stage \in {"NONE", "WB"}

\* Memory changes only under the store in MEM, at its address, to its value.
RamOnlyByStore ==
    [][ram' # ram => /\ mem_valid
                     /\ mem.store
                     /\ ram' = [ram EXCEPT ![mem.addr] = mem.wdata]]_ram

\* A store that oversteps its bus word waits in MEM for a second burst.
OverStore == mem_valid /\ mem.store /\ mem.over

\* Every load and every store within a word is acknowledged in the end.
MemServed == mem_valid /\ ~OverStore ~> ~mem_valid

\* Instructions keep being fetched, whatever loads and stores interrupt.
FetchServed == []<>(OverStore \/ \E e \in Env : SlowEnough(e) /\ fetch_hs(e))

\* Every store is acknowledged, those that overstep included.
StoreServed == mem_valid ~> ~mem_valid

----------------------------------------------------------------------------
(* The inductive invariant behind the safety properties: which transaction *)
(* is where, phase by phase.                                               *)

LoadBurst ==
    IF mem.over THEN <<ram[mem.addr], ram[NextWord[mem.addr]]>>
                ELSE <<ram[mem.addr]>>

\* The memory works on a fetch, of the current address or to be discarded.
FetchInFlight ==
    /\ ~r_wait
    /\ \E a \in Words, v \in Data :
          /\ reads = <<[id |-> IF_ID, addr |-> a, left |-> 1, data |-> <<v>>]>>
          /\ keep \/ a = if_addr

\* The memory works on the load in MEM and has not answered yet.
LoadInFlight ==
    /\ mem_valid
    /\ ~mem.store
    /\ ~r_wait
    /\ len = 0
    /\ reads = <<[id |-> MEM_ID, addr |-> mem.addr,
                  left |-> IF mem.over THEN 2 ELSE 1, data |-> LoadBurst]>>

\* The first of the two beats of the load in MEM has arrived.
LoadHalfway ==
    /\ mem_valid
    /\ ~mem.store
    /\ mem.over
    /\ r_wait
    /\ len = 1
    /\ reads = <<[id |-> MEM_ID, addr |-> mem.addr, left |-> 1, data |-> LoadBurst]>>
    /\ data_read = <<ReadOf(mem)[1]>>

ReadPhase ==
    \/ r_state \in {"IDLE", "ADDR"} /\ reads = <<>> /\ ~r_wait
    \/ r_state = "READ" /\ (FetchInFlight \/ LoadInFlight \/ LoadHalfway)

StoreWith(data) ==
    [id |-> MEM_ID, addr |-> mem.addr, len |-> IF mem.over THEN 2 ELSE 1,
     data |-> data]

WritePhase ==
    \/ /\ w_state \in {"IDLE", "ADDR"}
       /\ w_req = NoReq /\ writes = <<>> /\ ~b_wait
    \/ /\ w_state = "WRITE"
       /\ mem_valid /\ mem.store
       /\ w_req = StoreWith(<<>>) /\ writes = <<>> /\ ~b_wait
    \/ /\ w_state = "RESP"
       /\ mem_valid /\ mem.store
       /\ w_req = StoreWith(<<mem.wdata>>) /\ writes = <<>> /\ ~b_wait
    \/ /\ w_state = "RESP"
       /\ mem_valid /\ mem.store /\ ~mem.over
       /\ w_req = NoReq /\ writes = <<StoreWith(<<mem.wdata>>)>>

\* The beat counter is past the first beat only for an overstepping access:
\* a load halfway or just done, or a store whose second beat never comes.
LenPhase ==
    len # 0 => /\ mem_valid
               /\ mem.over
               /\ IF mem.store THEN w_state = "RESP"
                               ELSE r_state = "IDLE" \/ LoadHalfway

\* What a completion pulse stands for.
ReadyPhase ==
    rw_ready =>
        IF mem_valid /\ mem.store
        THEN w_state = "IDLE" /\ ram[mem.addr] = mem.wdata
        ELSE /\ r_state = "IDLE"
             /\ r_id = MEM_ID => /\ mem_valid
                                 /\ data_read = ReadOf(mem)
             /\ (r_id = IF_ID /\ ~mem_valid /\ ~keep) =>
                    \E v \in Data :
                       data_read = <<[word |-> if_addr, val |-> v, lane |-> if_addr]>>

\* A completion of a fetch meets no instruction on its way to WB.
FetchPhase == rw_ready /\ ~mem_valid => stage \in {"NONE", "WB"}

\* Every transaction on the bus belongs to the request of a stage that still
\* waits for it, in the phase its state machine says, with the beats counted.
BusInv ==
    /\ TypeOK
    /\ mem_valid => stage = "MEM"
    /\ stall => stage = "EX"
    /\ ReadPhase
    /\ WritePhase
    /\ LenPhase
    /\ ReadyPhase
=============================================================================
