------------------------------- MODULE AxiBus -------------------------------
(***************************************************************************)
(* The bus side of projects/cpu_axi_diff: the request arbiter              *)
(* (atributer.sv), the AXI4 read/write master (axi_rw.sv), their wiring in *)
(* SimTop.sv, and the simulated memory at the other end of the bus         *)
(* (difftest's ram.cpp, ticked once per clock by emu.cpp).                 *)
(*                                                                         *)
(* One step is one clock cycle.  The registers hold the values they have   *)
(* after a rising edge; BusCycle(q, e) is the next rising edge, given the  *)
(* request q the arbiter forwards during the cycle and the choices e the   *)
(* memory makes during it.  Every "always" block is one operator.          *)
(*                                                                         *)
(* Data abstraction: an address is a bus word, a value is a whole word.    *)
(* "over" marks an unaligned access that oversteps its word, which axi_rw  *)
(* turns into a two-beat burst (word, then NextWord of it).  What byte     *)
(* lanes a read keeps depends on the address requested when the beat       *)
(* arrives, so every received beat remembers that address as its lane.     *)
(***************************************************************************)
EXTENDS Naturals, Sequences

CONSTANTS
    Words,      \* the bus words that are accessed
    NextWord,   \* the word after a word
    Data,       \* the values of a word
    NoReq       \* no write request is collected (wait_req_w == NULL)

VARIABLES
    w_state, r_state,   \* the two state machines of axi_rw
    len,                \* beats received in the current burst
    rw_ready,           \* completion pulse to the arbiter
    data_read,          \* data_read_o: the beats kept so far
    r_id, b_id,         \* ids last driven by the memory on R and B
    reads,              \* reads accepted by the memory, oldest first
    r_wait,             \* wait_resp_r # NULL: the oldest is on the R channel
    w_req,              \* wait_req_w: the write being collected
    writes,             \* writes accepted by the DRAM, oldest first
    b_wait,             \* wait_resp_b # NULL: the oldest is on the B channel
    ram                 \* memory contents

masterVars == <<w_state, r_state, len, rw_ready, data_read>>
slaveVars  == <<r_id, b_id, reads, r_wait, w_req, writes, b_wait, ram>>
busVars    == <<masterVars, slaveVars>>

IF_ID  == 1     \* axi_ar_id of a fetch
MEM_ID == 2     \* axi_ar_id, axi_aw_id of a load or a store
Ids    == 0..2

Requests ==     \* what the arbiter hands to axi_rw
    [valid : BOOLEAN, mem : BOOLEAN, write : BOOLEAN,
     addr : Words, over : BOOLEAN, wdata : Data]

\* What the DRAM model decides in one cycle: will_accept for a read and for
\* a write address or data beat, whether a read or a write has finished, and
\* will_accept for a completely collected write.
Env == [ar : BOOLEAN, r : BOOLEAN, aw : BOOLEAN, add : BOOLEAN, b : BOOLEAN]

Beats    == [word : Words, val : Data, lane : Words]
Reads    == [id : Ids, addr : Words, left : 1..2, data : Seq(Data)]
WriteReq == [id : Ids, addr : Words, len : 1..2, data : Seq(Data)]

ASSUME BusAssumption ==
    /\ NextWord \in [Words -> Words]
    /\ NoReq \notin WriteReq

----------------------------------------------------------------------------
(* atributer.sv: a load or store in MEM always wins over the fetch.        *)

\* Mutant: the store flag of the MEM stage is not gated by its valid bit.
Arbitrate_StaleStore(if_valid, if_addr, mem_valid, mem) ==
    [valid |-> mem_valid \/ if_valid,
     mem   |-> mem_valid,
     write |-> mem.store,
     addr  |-> IF mem_valid THEN mem.addr ELSE if_addr,
     over  |-> mem_valid /\ mem.over,
     wdata |-> mem.wdata]

Arbitrate(if_valid, if_addr, mem_valid, mem) ==
    [valid |-> IF mem_valid THEN TRUE ELSE if_valid,
     mem   |-> mem_valid,
     write |-> mem_valid /\ mem.store,
     addr  |-> IF mem_valid THEN mem.addr ELSE if_addr,
     over  |-> mem_valid /\ mem.over,
     wdata |-> mem.wdata]

----------------------------------------------------------------------------
(* Combinational signals of axi_rw.                                        *)

w_valid(q) == q.valid /\ q.write
r_valid(q) == q.valid /\ ~q.write

axi_len(q) == IF q.over THEN 1 ELSE 0

axi_aw_valid(q) == w_state = "ADDR" /\ w_valid(q)
axi_w_valid     == w_state = "WRITE"
axi_b_ready     == w_state = "RESP"
axi_ar_valid(q) == r_state = "ADDR" /\ r_valid(q)
axi_r_ready     == r_state = "READ"

----------------------------------------------------------------------------
(* What the memory drives in a cycle (dramsim3_helper_falling).            *)

ar_ready(q, e) == axi_ar_valid(q) /\ e.ar
r_beat(e)      == r_wait \/ (reads # <<>> /\ e.r)
aw_ready(q, e) == w_req = NoReq /\ axi_aw_valid(q) /\ e.aw
w_ready(q, e)  == aw_ready(q, e) \/ (w_req # NoReq /\ e.aw /\ Len(w_req.data) # w_req.len)
b_beat(e)      == b_wait \/ (writes # <<>> /\ e.b)

r_last      == Head(reads).left = 1
r_id_now(e) == IF r_beat(e) THEN Head(reads).id ELSE r_id
b_id_now(e) == IF b_beat(e) THEN Head(writes).id ELSE b_id

aw_hs(q, e) == aw_ready(q, e) /\ axi_aw_valid(q)
w_hs(q, e)  == w_ready(q, e) /\ axi_w_valid
b_hs(e)     == axi_b_ready /\ b_beat(e)
ar_hs(q, e) == ar_ready(q, e) /\ axi_ar_valid(q)
r_hs(e)     == axi_r_ready /\ r_beat(e)
r_done(e)   == r_hs(e) /\ r_last

trans_done(q, e) == IF q.write THEN b_hs(e) ELSE r_done(e)

----------------------------------------------------------------------------
(* Completion as the two requesters see it: SimTop picks the id channel by *)
(* the request of the current cycle, one cycle after the handshake.        *)

\* Mutant: the id of a completion is always taken from the write channel.
axi_ret_id_WriteOnly(q, e) == b_id_now(e)

axi_ret_id(q, e) == IF q.write THEN b_id_now(e) ELSE r_id_now(e)

if_rw_ready(q, e)  == ~q.mem /\ axi_ret_id(q, e) = IF_ID /\ rw_ready
\* Mutant: a completion counts for MEM whatever its id.
mem_rw_ready_AnyId(q, e) == q.mem /\ rw_ready

mem_rw_ready(q, e) == q.mem /\ axi_ret_id(q, e) = MEM_ID /\ rw_ready

----------------------------------------------------------------------------
(* axi_rw, rising edge.                                                    *)

WriteFsm(q, e) ==
    w_state' = IF ~w_valid(q)                         THEN w_state
               ELSE IF w_state = "IDLE"                  THEN "ADDR"
               ELSE IF w_state = "ADDR"  /\ aw_hs(q, e)  THEN "WRITE"
               ELSE IF w_state = "WRITE" /\ w_hs(q, e)   THEN "RESP"
               ELSE IF w_state = "RESP"  /\ b_hs(e)      THEN "IDLE"
               ELSE w_state

\* Mutant: a read in flight is forgotten when MEM takes the bus.
ReadFsm_Forget(q, e) ==
    r_state' = IF ~r_valid(q)                              THEN r_state
               ELSE IF r_state = "IDLE"                       THEN "ADDR"
               ELSE IF r_state = "ADDR" /\ ar_hs(q, e)        THEN "READ"
               ELSE IF r_state = "READ" /\ (r_done(e) \/ q.mem) THEN "IDLE"
               ELSE r_state

ReadFsm(q, e) ==
    r_state' = IF ~r_valid(q)                        THEN r_state
               ELSE IF r_state = "IDLE"                 THEN "ADDR"
               ELSE IF r_state = "ADDR" /\ ar_hs(q, e)  THEN "READ"
               ELSE IF r_state = "READ" /\ r_done(e)    THEN "IDLE"
               ELSE r_state

LenCounter(q, e) ==
    len' = IF (q.write /\ w_state = "IDLE") \/ (~q.write /\ r_state = "IDLE")
           THEN 0
           ELSE IF len # axi_len(q) /\ (w_hs(q, e) \/ r_hs(e)) THEN len + 1
           ELSE len

\* Mutant: a store counts as done when its data has left.
RwReady_DataSent(q, e) ==
    rw_ready' = IF q.write THEN w_hs(q, e) ELSE r_done(e)

\* Mutant: the completion stays up until the next request begins.
RwReady_Held(q, e) ==
    rw_ready' = (trans_done(q, e) \/ (rw_ready /\ r_state # "ADDR"))

RwReady(q, e) == rw_ready' = trans_done(q, e)

\* The beat on the R channel as data_read_o would keep it.
RBeat(q) ==
    LET rd == Head(reads)
        i  == IF Len(rd.data) = rd.left THEN 1 ELSE 2
    IN  [word |-> IF i = 1 THEN rd.addr ELSE NextWord[rd.addr],
         val  |-> rd.data[i],
         lane |-> q.addr]

DataRead(q, e) ==
    data_read' = IF ~r_hs(e) THEN data_read
                 ELSE IF q.over
                      THEN IF len = 1 THEN <<data_read[1], RBeat(q)>>
                                      ELSE <<RBeat(q)>>
                      ELSE IF len = 0 THEN <<RBeat(q)>> ELSE data_read

----------------------------------------------------------------------------
(* ram.cpp, rising edge: one read and one write side.                      *)

\* Mutant: every read carries the id of a fetch.
NewRead_OneId(q) ==
    [id   |-> IF_ID,
     addr |-> q.addr,
     left |-> axi_len(q) + 1,
     data |-> IF q.over THEN <<ram[q.addr], ram[NextWord[q.addr]]>>
                        ELSE <<ram[q.addr]>>]

\* axi_read_data copies the whole burst from ram when the address is taken.
NewRead(q) ==
    [id   |-> IF q.mem THEN MEM_ID ELSE IF_ID,
     addr |-> q.addr,
     left |-> axi_len(q) + 1,
     data |-> IF q.over THEN <<ram[q.addr], ram[NextWord[q.addr]]>>
                        ELSE <<ram[q.addr]>>]

\* The read after one of its beats has been taken.
BeatTaken(rd) ==
    [id |-> rd.id, addr |-> rd.addr, left |-> rd.left - 1, data |-> rd.data]

SlaveRead(q, e) ==
    LET afterR == IF ~r_hs(e) THEN reads
                  ELSE IF r_last THEN Tail(reads)
                  ELSE <<BeatTaken(Head(reads))>> \o Tail(reads)
    IN  /\ reads' = IF ar_hs(q, e) THEN Append(afterR, NewRead(q)) ELSE afterR
        /\ r_wait' = (r_beat(e) /\ ~r_done(e))
        /\ r_id' = r_id_now(e)

\* The write after one more of its beats has been collected.
BeatAdded(wr, d) ==
    [id |-> wr.id, addr |-> wr.addr, len |-> wr.len, data |-> Append(wr.data, d)]

\* Accepting the address, collecting the beat, and passing a complete write
\* on to the DRAM can all happen at one edge, in this order.
SlaveWrite(q, e) ==
    LET new    == [id |-> IF q.mem THEN MEM_ID ELSE 0, addr |-> q.addr,
                   len |-> axi_len(q) + 1, data |-> <<>>]
        afterA == IF aw_hs(q, e) THEN new ELSE w_req
        afterW == IF w_hs(q, e) THEN BeatAdded(afterA, q.wdata) ELSE afterA
        full   == afterW # NoReq /\ Len(afterW.data) = afterW.len /\ e.add
        afterB == IF b_hs(e) THEN Tail(writes) ELSE writes
        done   == Head(writes)
    IN  /\ w_req' = IF full THEN NoReq ELSE afterW
        /\ writes' = IF full THEN Append(afterB, afterW) ELSE afterB
        /\ b_wait' = (b_beat(e) /\ ~b_hs(e))
        /\ b_id' = b_id_now(e)
        /\ ram' = IF ~b_hs(e) THEN ram
                  ELSE IF done.len = 1
                       THEN [ram EXCEPT ![done.addr] = done.data[1]]
                       ELSE [ram EXCEPT ![done.addr] = done.data[1],
                                        ![NextWord[done.addr]] = done.data[2]]

BusCycle(q, e) ==
    /\ WriteFsm(q, e)
    /\ ReadFsm(q, e)
    /\ LenCounter(q, e)
    /\ RwReady(q, e)
    /\ DataRead(q, e)
    /\ SlaveRead(q, e)
    /\ SlaveWrite(q, e)

\* After reset.  Nothing has driven the id inputs yet.
BusInit ==
    /\ w_state = "IDLE"
    /\ r_state = "IDLE"
    /\ len = 0
    /\ rw_ready = FALSE
    /\ data_read = <<>>
    /\ r_id \in Ids
    /\ b_id \in Ids
    /\ reads = <<>>
    /\ r_wait = FALSE
    /\ w_req = NoReq
    /\ writes = <<>>
    /\ b_wait = FALSE
    /\ ram \in [Words -> Data]
=============================================================================
