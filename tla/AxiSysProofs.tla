---------------------------- MODULE AxiSysProofs ----------------------------
(***************************************************************************)
(* Proofs about AxiSys, for every set of words and values, under the       *)
(* timing cpu_axi_diff relies on (SlowReads).                              *)
(***************************************************************************)
EXTENDS AxiSys, TLAPS

----------------------------------------------------------------------------
(* Sequences of one element, which is all the bus ever holds.              *)

\* The queues of ram.cpp hold at most one transaction each, so these are the
\* only facts about sequences that the other proofs need.
LEMMA OneElement ==
    ASSUME NEW S, NEW x \in S
    PROVE  /\ <<x>> \in Seq(S)
           /\ <<>> \in Seq(S)
           /\ <<x>> # <<>>
           /\ Len(<<x>>) = 1
           /\ Len(<<>>) = 0
           /\ <<x>>[1] = x
           /\ Head(<<x>>) = x
           /\ Tail(<<x>>) = <<>>
           /\ Append(<<>>, x) = <<x>>
           /\ <<x>> \o <<>> = <<x>>
  OBVIOUS

\* An empty queue is a queue of anything.
LEMMA NoElement == ASSUME NEW S PROVE <<>> \in Seq(S)
  OBVIOUS

\* Neither of them is longer than one.
LEMMA ShortLen ==
    ASSUME NEW s, s = <<>> \/ \E x : s = <<x>>
    PROVE  Len(s) <= 1
  <1>1. CASE s = <<>>
    <2>1. Len(<<>>) = 0
      OBVIOUS
    <2>2. QED
      BY <1>1, <2>1
  <1>2. ASSUME NEW x, s = <<x>> PROVE Len(s) <= 1
    <2>1. Len(<<x>>) = 1
      OBVIOUS
    <2>2. QED
      BY <1>2, <2>1
  <1>3. QED
    BY <1>1, <1>2

----------------------------------------------------------------------------
(* The request of a cycle, field by field.                                 *)

\* The arbiter gives the bus to MEM whenever a load or store is there.
LEMMA RequestFields ==
    ASSUME TypeOK
    PROVE  /\ q.valid = (mem_valid \/ ~stall)
           /\ q.mem = mem_valid
           /\ q.write = (mem_valid /\ mem.store)
           /\ q.addr = IF mem_valid THEN mem.addr ELSE if_addr
           /\ q.over = (mem_valid /\ mem.over)
           /\ q.wdata = mem.wdata
           /\ q.addr \in Words
           /\ mem_valid \in BOOLEAN
           /\ stall \in BOOLEAN
           /\ if_addr \in Words
           /\ mem.store \in BOOLEAN
           /\ mem.over \in BOOLEAN
           /\ mem.addr \in Words
           /\ mem.wdata \in Data
  <1>1. /\ mem \in [store : BOOLEAN, addr : Words, over : BOOLEAN, wdata : Data]
        /\ mem_valid \in BOOLEAN
        /\ stall \in BOOLEAN
        /\ if_addr \in Words
    BY DEF TypeOK, MemReqs
  <1>2. QED
    BY <1>1 DEF q, Arbitrate

----------------------------------------------------------------------------
(* What one clock edge does to the read side, phase by phase.              *)

\* With no read outstanding the memory drives no beat; the read machine moves
\* on, or issues the address, only for a read request.
LEMMA ReadIdleStep ==
    ASSUME TypeOK, NEW e \in Env, BusCycle(q, e),
           r_state \in {"IDLE", "ADDR"}, reads = <<>>, ~r_wait
    PROVE  /\ ~r_hs(e) /\ ~r_done(e) /\ r_id_now(e) = r_id
           /\ data_read' = data_read
           /\ r_id' = r_id
           /\ r_wait' = FALSE
           /\ \/ r_state' \in {"IDLE", "ADDR"} /\ reads' = <<>>
              \/ r_state' = "READ" /\ reads' = <<NewRead(q)>> /\ ~q.write
                 /\ r_state = "ADDR"
           /\ q.write => r_state' = r_state
  <1>1. ~r_beat(e) /\ ~r_hs(e) /\ ~r_done(e) /\ r_id_now(e) = r_id
    BY DEF r_beat, r_hs, r_done, axi_r_ready, r_id_now
  <1>2. data_read' = data_read
    BY <1>1 DEF BusCycle, DataRead
  <1>3. r_id' = r_id /\ r_wait' = FALSE
    BY <1>1 DEF BusCycle, SlaveRead, r_id_now
  <1>4. reads' = IF ar_hs(q, e) THEN <<NewRead(q)>> ELSE <<>>
    BY <1>1, OneElement DEF BusCycle, SlaveRead
  <1>5. ar_hs(q, e) => r_state = "ADDR" /\ q.valid /\ ~q.write
    BY DEF ar_hs, ar_ready, axi_ar_valid, r_valid
  <1>6. r_state' = IF q.write \/ ~q.valid THEN r_state
                   ELSE IF r_state = "IDLE" THEN "ADDR"
                   ELSE IF ar_hs(q, e) THEN "READ" ELSE "ADDR"
    BY <1>1, RequestFields DEF BusCycle, ReadFsm, r_valid
  <1>7. QED
    BY <1>1, <1>2, <1>3, <1>4, <1>5, <1>6

\* What the memory will answer to an address taken in this cycle.
LEMMA NewReadIs ==
    ASSUME TypeOK
    PROVE  NewRead(q) =
             IF ~mem_valid
             THEN [id |-> IF_ID, addr |-> if_addr, left |-> 1,
                   data |-> <<ram[if_addr]>>]
             ELSE [id |-> MEM_ID, addr |-> mem.addr,
                   left |-> IF mem.over THEN 2 ELSE 1, data |-> LoadBurst]
  <1>1. CASE ~mem_valid
    <2>1. q.mem = FALSE /\ q.over = FALSE /\ q.addr = if_addr
      BY <1>1, RequestFields
    <2>2. axi_len(q) + 1 = 1
      BY <2>1 DEF axi_len
    <2>3. QED
      BY <1>1, <2>1, <2>2, Zenon DEF NewRead
  <1>2. CASE mem_valid
    <2>1. q.mem = TRUE /\ q.over = mem.over /\ q.addr = mem.addr
      BY <1>2, RequestFields
    <2>2. axi_len(q) + 1 = IF mem.over THEN 2 ELSE 1
      BY <2>1 DEF axi_len
    <2>3. QED
      BY <1>2, <2>1, <2>2, Zenon DEF NewRead, LoadBurst
  <1>3. QED
    BY <1>1, <1>2

\* A read the memory has not begun to answer stays as it is until it does.
LEMMA ReadBusyStep ==
    ASSUME TypeOK, NEW e \in Env, BusCycle(q, e), r_state = "READ", ~r_beat(e)
    PROVE  /\ ~r_hs(e) /\ ~r_done(e) /\ r_id_now(e) = r_id
           /\ data_read' = data_read
           /\ r_id' = r_id
           /\ r_wait' = FALSE
           /\ r_state' = "READ"
           /\ reads' = reads
  <1>1. ~r_hs(e) /\ ~r_done(e) /\ ~ar_hs(q, e)
    BY DEF r_hs, r_done, ar_hs, axi_ar_valid
  <1>2. QED
    BY <1>1 DEF BusCycle, ReadFsm, SlaveRead, DataRead, r_id_now

\* The last beat of the one read in flight ends it.
LEMMA ReadLastStep ==
    ASSUME TypeOK, NEW e \in Env, BusCycle(q, e), r_state = "READ", r_beat(e),
           q.valid, ~q.write, NEW rd \in Reads, reads = <<rd>>, rd.left = 1
    PROVE  /\ r_hs(e) /\ r_done(e)
           /\ r_id' = rd.id
           /\ r_wait' = FALSE
           /\ r_state' = "IDLE"
           /\ reads' = <<>>
           /\ rw_ready' = TRUE
  <1>1. Head(reads) = rd /\ Tail(reads) = <<>>
    BY OneElement
  <1>2. r_hs(e) /\ r_done(e) /\ r_last /\ ~ar_hs(q, e)
    BY <1>1 DEF r_hs, r_done, ar_hs, axi_ar_valid, axi_r_ready, r_last
  <1>3. r_id' = rd.id /\ r_wait' = FALSE /\ reads' = <<>>
    BY <1>1, <1>2 DEF BusCycle, SlaveRead, r_id_now
  <1>4. r_state' = "IDLE"
    BY <1>2, RequestFields DEF BusCycle, ReadFsm, r_valid
  <1>5. rw_ready' = TRUE
    BY <1>2 DEF BusCycle, RwReady, trans_done
  <1>6. QED
    BY <1>2, <1>3, <1>4, <1>5

\* The first of two beats leaves the second on the channel.
LEMMA ReadFirstStep ==
    ASSUME TypeOK, NEW e \in Env, BusCycle(q, e), r_state = "READ", r_beat(e),
           NEW rd \in Reads, reads = <<rd>>, rd.left = 2
    PROVE  /\ r_hs(e) /\ ~r_done(e)
           /\ r_id' = rd.id
           /\ r_wait' = TRUE
           /\ r_state' = "READ"
           /\ reads' = <<[id |-> rd.id, addr |-> rd.addr, left |-> 1,
                          data |-> rd.data]>>
  <1>1. Head(reads) = rd /\ Tail(reads) = <<>>
    BY OneElement
  <1>2. r_hs(e) /\ ~r_done(e) /\ ~r_last /\ ~ar_hs(q, e)
    BY <1>1 DEF r_hs, r_done, ar_hs, axi_ar_valid, axi_r_ready, r_last
  <1>3. r_id' = rd.id /\ r_wait' = TRUE
    BY <1>1, <1>2 DEF BusCycle, SlaveRead, r_id_now
  <1>4. BeatTaken(rd) = [id |-> rd.id, addr |-> rd.addr, left |-> 1, data |-> rd.data]
    BY DEF BeatTaken
  <1>5. reads' = <<BeatTaken(rd)>>
    BY <1>1, <1>2, OneElement DEF BusCycle, SlaveRead
  <1>6. r_state' = "READ"
    BY <1>2 DEF BusCycle, ReadFsm
  <1>7. QED
    BY <1>2, <1>3, <1>4, <1>5, <1>6

----------------------------------------------------------------------------
(* What one clock edge does to the write side, phase by phase.             *)

\* Only a store moves the write side, and an idle one changes no memory.
LEMMA WriteIdleStep ==
    ASSUME TypeOK, NEW e \in Env, BusCycle(q, e),
           w_state \in {"IDLE", "ADDR"},
           w_req = NoReq, writes = <<>>, b_wait = FALSE
    PROVE  /\ ~w_hs(q, e) /\ ~b_hs(e)
           /\ b_wait' = FALSE
           /\ writes' = <<>>
           /\ ram' = ram
           /\ ~q.write => w_state' = w_state /\ w_req' = NoReq
           /\ q.write =>
                \/ w_state' \in {"IDLE", "ADDR"} /\ w_req' = NoReq
                \/ w_state' = "WRITE" /\ w_req' = StoreWith(<<>>)
  <1>1. ~w_hs(q, e) /\ ~b_hs(e) /\ ~b_beat(e)
    BY DEF w_hs, axi_w_valid, b_hs, axi_b_ready, b_beat
  <1> DEFINE new == [id |-> IF q.mem THEN MEM_ID ELSE 0, addr |-> q.addr,
                     len |-> axi_len(q) + 1, data |-> <<>>]
             afterA == IF aw_hs(q, e) THEN new ELSE w_req
             full == afterA # NoReq /\ Len(afterA.data) = afterA.len /\ e.add
  <1>2. /\ w_req' = IF full THEN NoReq ELSE afterA
        /\ writes' = IF full THEN Append(writes, afterA) ELSE writes
        /\ b_wait' = FALSE
        /\ ram' = ram
    BY <1>1, Zenon DEF BusCycle, SlaveWrite
  <1>3. Len(new.data) # new.len
    BY DEF axi_len
  <1>4. ~full
    BY <1>3
  <1>5. aw_hs(q, e) => w_state = "ADDR" /\ q.write
    BY DEF aw_hs, axi_aw_valid, w_valid
  <1>6. q.write => new = StoreWith(<<>>)
    <2>1. SUFFICES ASSUME q.write PROVE new = StoreWith(<<>>)
      OBVIOUS
    <2>2. mem_valid /\ q.mem = TRUE /\ q.addr = mem.addr /\ q.over = mem.over
      BY <2>1, RequestFields
    <2>3. axi_len(q) + 1 = IF mem.over THEN 2 ELSE 1
      BY <2>2 DEF axi_len
    <2>4. QED
      BY <2>2, <2>3, Zenon DEF StoreWith
  <1>7. w_state' = IF ~q.write THEN w_state
                   ELSE IF w_state = "IDLE" THEN "ADDR"
                   ELSE IF aw_hs(q, e) THEN "WRITE" ELSE "ADDR"
    BY <1>1, RequestFields DEF BusCycle, WriteFsm, w_valid
  <1>8. w_req' = (IF aw_hs(q, e) THEN new ELSE NoReq) /\ writes' = <<>>
    BY <1>2, <1>4
  <1> HIDE DEF new
  <1>9. QED
    BY <1>1, <1>2, <1>5, <1>6, <1>7, <1>8

\* The address is taken: the memory waits for the one data beat.
LEMMA WriteDataStep ==
    ASSUME TypeOK, NEW e \in Env, BusCycle(q, e), w_state = "WRITE",
           mem_valid, mem.store,
           w_req = StoreWith(<<>>), writes = <<>>, b_wait = FALSE
    PROVE  /\ ~b_hs(e)
           /\ b_wait' = FALSE
           /\ ram' = ram
           /\ \/ /\ w_state' = "WRITE"
                 /\ w_req' = StoreWith(<<>>) /\ writes' = <<>>
                 /\ ~w_hs(q, e)
              \/ /\ w_state' = "RESP"
                 /\ w_req' = StoreWith(<<mem.wdata>>) /\ writes' = <<>>
              \/ /\ w_state' = "RESP"
                 /\ ~mem.over
                 /\ w_req' = NoReq /\ writes' = <<StoreWith(<<mem.wdata>>)>>
  <1>1. ~b_hs(e) /\ ~b_beat(e) /\ ~aw_hs(q, e)
    BY DEF b_hs, b_beat, aw_hs, axi_aw_valid, axi_b_ready
  <1>2. q.write /\ q.valid /\ q.wdata = mem.wdata
    BY RequestFields
  <1>3. BeatAdded(w_req, q.wdata) = StoreWith(<<mem.wdata>>)
    BY <1>2, OneElement DEF BeatAdded, StoreWith
  <1>4. /\ StoreWith(<<>>).data = <<>>
        /\ StoreWith(<<>>).len \in 1..2
        /\ StoreWith(<<mem.wdata>>).data = <<mem.wdata>>
        /\ StoreWith(<<mem.wdata>>).len = IF mem.over THEN 2 ELSE 1
    BY DEF StoreWith
  <1>5. w_state' = IF w_hs(q, e) THEN "RESP" ELSE "WRITE"
    BY <1>1, <1>2 DEF BusCycle, WriteFsm, w_valid
  <1>6. b_wait' = FALSE /\ ram' = ram
    BY <1>1 DEF BusCycle, SlaveWrite
  <1>7. CASE ~w_hs(q, e)
    <2>1. Len(w_req.data) # w_req.len
      BY <1>4, OneElement
    <2>2. w_req' = w_req /\ writes' = writes
      BY <1>1, <1>7, <2>1, Zenon DEF BusCycle, SlaveWrite
    <2>3. QED
      BY <1>1, <1>5, <1>6, <1>7, <2>2
  <1>8. CASE w_hs(q, e)
    <2> DEFINE st == StoreWith(<<mem.wdata>>)
               full == st # NoReq /\ Len(st.data) = st.len /\ e.add
    <2>1. /\ w_req' = IF full THEN NoReq ELSE st
          /\ writes' = IF full THEN Append(writes, st) ELSE writes
      BY <1>1, <1>3, <1>8, Zenon DEF BusCycle, SlaveWrite
    <2>2. full => ~mem.over
      BY RequestFields, OneElement DEF StoreWith
    <2>3. Append(writes, st) = <<st>>
      BY OneElement
    <2> HIDE DEF st
    <2>4. CASE full
      <3>1. w_req' = NoReq /\ writes' = <<st>> /\ ~mem.over
        BY <2>1, <2>2, <2>3, <2>4
      <3>2. QED
        BY <3>1, <1>1, <1>5, <1>6, <1>8 DEF st
    <2>5. CASE ~full
      <3>1. w_req' = st /\ writes' = <<>>
        BY <2>1, <2>5
      <3>2. QED
        BY <3>1, <1>1, <1>5, <1>6, <1>8 DEF st
    <2>6. QED
      BY <2>4, <2>5
  <1>9. QED
    BY <1>7, <1>8

\* The beat is collected: it is passed on to the DRAM, unless the memory is
\* still waiting for the second beat that axi_rw never sends.
LEMMA WriteCollectedStep ==
    ASSUME TypeOK, NEW e \in Env, BusCycle(q, e), w_state = "RESP",
           mem_valid, mem.store,
           w_req = StoreWith(<<mem.wdata>>), writes = <<>>, b_wait = FALSE
    PROVE  /\ ~b_hs(e) /\ ~w_hs(q, e)
           /\ b_wait' = FALSE
           /\ ram' = ram
           /\ w_state' = "RESP"
           /\ \/ /\ w_req' = StoreWith(<<mem.wdata>>) /\ writes' = <<>>
              \/ /\ ~mem.over
                 /\ w_req' = NoReq /\ writes' = <<StoreWith(<<mem.wdata>>)>>
  <1>1. ~b_hs(e) /\ ~b_beat(e) /\ ~aw_hs(q, e) /\ ~w_hs(q, e)
    BY DEF b_hs, b_beat, aw_hs, axi_aw_valid, w_hs, axi_w_valid
  <1>2. w_state' = "RESP" /\ b_wait' = FALSE /\ ram' = ram
    BY <1>1 DEF BusCycle, WriteFsm, SlaveWrite
  <1> DEFINE st == StoreWith(<<mem.wdata>>)
             full == st # NoReq /\ Len(st.data) = st.len /\ e.add
  <1>3. /\ w_req' = IF full THEN NoReq ELSE st
        /\ writes' = IF full THEN Append(writes, st) ELSE writes
    BY <1>1, Zenon DEF BusCycle, SlaveWrite
  <1>4. full => ~mem.over
    BY RequestFields, OneElement DEF StoreWith
  <1>5. Append(writes, st) = <<st>>
    BY OneElement
  <1> HIDE DEF st
  <1>6. CASE full
    <2>1. w_req' = NoReq /\ writes' = <<st>> /\ ~mem.over
      BY <1>3, <1>4, <1>5, <1>6
    <2>2. QED
      BY <2>1, <1>1, <1>2 DEF st
  <1>7. CASE ~full
    <2>1. w_req' = st /\ writes' = <<>>
      BY <1>3, <1>7
    <2>2. QED
      BY <2>1, <1>1, <1>2 DEF st
  <1>8. QED
    BY <1>6, <1>7

\* The write is in the DRAM: it changes memory when it is answered.
LEMMA WriteAnswerStep ==
    ASSUME TypeOK, NEW e \in Env, BusCycle(q, e), w_state = "RESP",
           mem_valid, mem.store, ~mem.over,
           w_req = NoReq, writes = <<StoreWith(<<mem.wdata>>)>>
    PROVE  /\ ~w_hs(q, e)
           /\ w_req' = NoReq
           /\ b_wait' = FALSE
           /\ \/ /\ ~b_hs(e)
                 /\ w_state' = "RESP" /\ ram' = ram
                 /\ writes' = <<StoreWith(<<mem.wdata>>)>>
              \/ /\ b_hs(e)
                 /\ w_state' = "IDLE" /\ writes' = <<>>
                 /\ ram' = [ram EXCEPT ![mem.addr] = mem.wdata]
  <1> DEFINE st == StoreWith(<<mem.wdata>>)
  <1>1. ~aw_hs(q, e) /\ ~w_hs(q, e) /\ b_hs(e) = b_beat(e)
    BY DEF b_hs, b_beat, aw_hs, axi_aw_valid, w_hs, axi_w_valid, axi_b_ready
  <1>2. q.write /\ q.valid
    BY RequestFields
  <1>3. w_state' = IF b_hs(e) THEN "IDLE" ELSE "RESP"
    BY <1>1, <1>2 DEF BusCycle, WriteFsm, w_valid
  <1>4. Head(writes) = st /\ Tail(writes) = <<>>
    BY OneElement
  <1>5. st.addr = mem.addr /\ st.len = 1 /\ st.data[1] = mem.wdata
    BY OneElement DEF StoreWith
  <1>6. w_req' = NoReq /\ b_wait' = FALSE
    BY <1>1, Zenon DEF BusCycle, SlaveWrite
  <1>7. writes' = IF b_hs(e) THEN <<>> ELSE writes
    BY <1>1, <1>4, Zenon DEF BusCycle, SlaveWrite
  <1>8. ram' = IF b_hs(e) THEN [ram EXCEPT ![mem.addr] = mem.wdata] ELSE ram
    BY <1>4, <1>5, Zenon DEF BusCycle, SlaveWrite
  <1>9. QED
    BY <1>1, <1>3, <1>6, <1>7, <1>8

----------------------------------------------------------------------------
(* What one clock edge does to a bus in the invariant, as the requesters   *)
(* of the cycle see it.                                                    *)

FetchRead(a, v) == [id |-> IF_ID, addr |-> a, left |-> 1, data |-> <<v>>]
LoadRead(n)     == [id |-> MEM_ID, addr |-> mem.addr, left |-> n, data |-> LoadBurst]

\* No read is answered while a store has the bus: the fetch in flight is too
\* slow, and a burst already begun belongs to a load.
LEMMA StoreNoBeat ==
    ASSUME BusInv, SlowReads = TRUE, NEW e \in Env, SlowEnough(e), q.write
    PROVE  ~r_beat(e) /\ ~r_hs(e)
  <1>1. mem_valid /\ mem.store
    BY RequestFields DEF BusInv
  <1>2. ~r_wait
    BY <1>1 DEF BusInv, ReadPhase, FetchInFlight, LoadInFlight, LoadHalfway, TypeOK
  <1>3. ~e.r
    BY DEF SlowEnough
  <1>4. QED
    BY <1>2, <1>3 DEF r_beat, r_hs

\* During a read request the counter counts the first beat of an overstepping
\* load and nothing else.
LEMMA LenReadStep ==
    ASSUME BusInv, NEW e \in Env, BusCycle(q, e), ~q.write
    PROVE  /\ ~w_hs(q, e) /\ ~b_hs(e)
           /\ len' = IF r_state = "IDLE" THEN 0
                     ELSE IF r_hs(e) /\ q.over /\ len = 0 THEN 1 ELSE len
  <1>1. ~(mem_valid /\ mem.store)
    BY RequestFields DEF BusInv
  <1>2. w_state \in {"IDLE", "ADDR"}
    BY <1>1 DEF BusInv, WritePhase
  <1>3. ~w_hs(q, e) /\ ~b_hs(e)
    BY <1>2 DEF w_hs, axi_w_valid, b_hs, axi_b_ready
  <1>4. len \in 0..1
    BY DEF BusInv, TypeOK
  <1>5. len = 1 => q.over
    BY RequestFields DEF BusInv, LenPhase
  <1>6. axi_len(q) = IF q.over THEN 1 ELSE 0
    BY DEF axi_len
  <1>7. QED
    BY <1>3, <1>4, <1>5, <1>6, RequestFields DEF BusCycle, LenCounter, BusInv

\* During a store the counter counts the beat of an overstepping store.
LEMMA LenWriteStep ==
    ASSUME BusInv, NEW e \in Env, BusCycle(q, e), q.write, ~r_hs(e)
    PROVE  len' = IF w_state = "IDLE" THEN 0
                  ELSE IF w_hs(q, e) /\ q.over /\ len = 0 THEN 1 ELSE len
  <1>1. len \in 0..1
    BY DEF BusInv, TypeOK
  <1>2. len = 1 => q.over
    BY RequestFields DEF BusInv, LenPhase
  <1>3. axi_len(q) = IF q.over THEN 1 ELSE 0
    BY DEF axi_len
  <1>4. QED
    BY <1>1, <1>2, <1>3, RequestFields DEF BusCycle, LenCounter, BusInv

\* The words and values a load of MEM reads are words and values.
LEMMA LoadTypes ==
    ASSUME TypeOK
    PROVE  /\ ram[mem.addr] \in Data
           /\ NextWord[mem.addr] \in Words
           /\ ram[NextWord[mem.addr]] \in Data
           /\ LoadBurst \in Seq(Data)
           /\ Len(LoadBurst) = IF mem.over THEN 2 ELSE 1
           /\ LoadBurst[1] = ram[mem.addr]
           /\ mem.over => LoadBurst[2] = ram[NextWord[mem.addr]]
           /\ \A n \in 1..2 : LoadRead(n) \in Reads
  <1>1. mem.addr \in Words /\ ram \in [Words -> Data] /\ NextWord \in [Words -> Words]
    BY RequestFields, BusAssumption DEF TypeOK
  <1>2. ram[mem.addr] \in Data /\ NextWord[mem.addr] \in Words
    BY <1>1
  <1>3. ram[NextWord[mem.addr]] \in Data
    BY <1>1, <1>2
  <1>4. /\ LoadBurst \in Seq(Data)
        /\ Len(LoadBurst) = IF mem.over THEN 2 ELSE 1
        /\ LoadBurst[1] = ram[mem.addr]
        /\ mem.over => LoadBurst[2] = ram[NextWord[mem.addr]]
    BY <1>2, <1>3 DEF LoadBurst
  <1>5. \A n \in 1..2 : LoadRead(n) \in Reads
    BY <1>1, <1>4 DEF LoadRead, Reads, Ids, MEM_ID
  <1>6. QED
    BY <1>2, <1>3, <1>4, <1>5

\* A beat of the read at the head of the queue, as data_read_o keeps it.
LEMMA BeatOf ==
    ASSUME NEW rd, reads = <<rd>>
    PROVE  RBeat(q) =
             [word |-> IF Len(rd.data) = rd.left THEN rd.addr ELSE NextWord[rd.addr],
              val  |-> IF Len(rd.data) = rd.left THEN rd.data[1] ELSE rd.data[2],
              lane |-> q.addr]
  <1>1. Head(reads) = rd
    BY OneElement
  <1>2. QED
    BY <1>1 DEF RBeat

\* A fetch in flight waits, or is answered under a read request; what it
\* leaves counts for the fetch stage only if MEM has not taken the bus.
LEMMA FetchInFlightStep ==
    ASSUME BusInv, SlowReads = TRUE, NEW e \in Env, SlowEnough(e), BusCycle(q, e),
           r_state = "READ", FetchInFlight
    PROVE  \/ /\ ~r_hs(e) /\ ~r_done(e)
              /\ r_state' = "READ" /\ reads' = reads /\ r_wait' = FALSE
              /\ data_read' = data_read /\ r_id' = r_id
           \/ /\ r_hs(e) /\ r_done(e) /\ ~q.write
              /\ stage \notin {"ID", "EX"}
              /\ r_state' = "IDLE" /\ reads' = <<>> /\ r_wait' = FALSE
              /\ r_id' = IF_ID
              /\ data_read' \in Seq(Beats)
              /\ ~mem_valid /\ ~keep =>
                    \E v \in Data :
                       data_read' = <<[word |-> if_addr, val |-> v, lane |-> if_addr]>>
  <1>1. PICK a \in Words, v \in Data :
             reads = <<FetchRead(a, v)>> /\ (keep \/ a = if_addr)
    BY DEF FetchInFlight, FetchRead
  <1> DEFINE rd == FetchRead(a, v)
  <1>2. /\ rd.id = IF_ID /\ rd.addr = a /\ rd.left = 1 /\ rd.data = <<v>>
        /\ rd \in Reads
    BY OneElement DEF FetchRead, Reads, Ids, IF_ID
  <1>3. TypeOK
    BY DEF BusInv
  <1>4. CASE ~r_beat(e)
    BY <1>3, <1>4, ReadBusyStep
  <1>5. CASE r_beat(e)
    <2>1. ~q.write
      BY <1>5, StoreNoBeat
    <2>2. e.r /\ stage \notin {"ID", "EX"}
      BY <1>5 DEF r_beat, FetchInFlight, SlowEnough
    <2>3. /\ r_hs(e) /\ r_done(e)
          /\ r_state' = "IDLE" /\ reads' = <<>> /\ r_wait' = FALSE
          /\ r_id' = IF_ID
      <3>1. q.valid
        BY <1>3, <2>2, RequestFields DEF BusInv
      <3> HIDE DEF rd
      <3>2. QED
        BY <1>1, <1>2, <1>3, <1>5, <2>1, <3>1, ReadLastStep DEF rd
    <2>4. RBeat(q) = [word |-> a, val |-> v, lane |-> q.addr]
      <3>1. Len(rd.data) = rd.left /\ rd.data[1] = v /\ rd.addr = a
        BY <1>2, OneElement
      <3>2. QED
        BY <1>1, <3>1, BeatOf
    <2>5. len = 0
      <3>1. ~LoadHalfway
        BY DEF FetchInFlight, LoadHalfway
      <3>2. ~(mem_valid /\ mem.store)
        BY <1>3, <2>1, RequestFields
      <3>3. QED
        BY <3>1, <3>2 DEF BusInv, LenPhase
    <2>6. data_read' = <<RBeat(q)>>
      BY <2>3, <2>5 DEF BusCycle, DataRead
    <2>7. RBeat(q) \in Beats
      BY <2>4, <1>3, RequestFields DEF Beats
    <2>8. data_read' \in Seq(Beats)
      BY <2>6, <2>7, OneElement
    <2>9. ~mem_valid /\ ~keep => RBeat(q) = [word |-> if_addr, val |-> v, lane |-> if_addr]
      BY <1>1, <2>4, <1>3, RequestFields
    <2>10. QED
      BY <2>1, <2>2, <2>3, <2>6, <2>8, <2>9
  <1>6. QED
    BY <1>4, <1>5

\* A load in flight waits, or its first beat arrives: the only one, or the
\* first of two.
LEMMA LoadInFlightStep ==
    ASSUME BusInv, SlowReads = TRUE, NEW e \in Env, SlowEnough(e), BusCycle(q, e),
           r_state = "READ", LoadInFlight
    PROVE  \/ /\ ~r_hs(e) /\ ~r_done(e)
              /\ r_state' = "READ" /\ reads' = reads /\ r_wait' = FALSE
              /\ data_read' = data_read /\ r_id' = r_id /\ len' = 0
           \/ /\ r_hs(e) /\ r_done(e) /\ ~mem.over
              /\ r_state' = "IDLE" /\ reads' = <<>> /\ r_wait' = FALSE
              /\ r_id' = MEM_ID /\ len' = 0
              /\ data_read' = ReadOf(mem) /\ data_read' \in Seq(Beats)
           \/ /\ r_hs(e) /\ ~r_done(e) /\ mem.over
              /\ r_state' = "READ" /\ reads' = <<LoadRead(1)>> /\ r_wait' = TRUE
              /\ r_id' = MEM_ID /\ len' = 1
              /\ data_read' = <<ReadOf(mem)[1]>> /\ data_read' \in Seq(Beats)
  <1> DEFINE n  == IF mem.over THEN 2 ELSE 1
             rd == LoadRead(n)
             b1 == [word |-> mem.addr, val |-> ram[mem.addr], lane |-> mem.addr]
  <1>1. TypeOK /\ mem_valid /\ ~mem.store /\ len = 0 /\ reads = <<rd>>
    BY DEF BusInv, LoadInFlight, LoadRead
  <1>2. q.valid /\ ~q.write /\ q.over = mem.over /\ q.addr = mem.addr
    BY <1>1, RequestFields
  <1>3. rd.id = MEM_ID /\ rd.addr = mem.addr /\ rd.left = n /\ rd.data = LoadBurst
    BY DEF LoadRead
  <1>4. rd \in Reads
    BY <1>1, LoadTypes
  <1>5. len' = IF r_hs(e) /\ mem.over THEN 1 ELSE 0
    BY <1>1, <1>2, LenReadStep
  <1>6. CASE ~r_beat(e)
    BY <1>1, <1>5, <1>6, ReadBusyStep
  <1>7. CASE r_beat(e)
    <2>1. RBeat(q) = b1
      <3>1. Len(rd.data) = rd.left /\ rd.data[1] = ram[mem.addr]
        BY <1>1, <1>3, LoadTypes
      <3>2. QED
        BY <1>1, <1>2, <1>3, <3>1, BeatOf
    <2>2. r_hs(e) => data_read' = <<b1>>
      BY <1>1, <2>1 DEF BusCycle, DataRead
    <2>3. b1 \in Beats /\ <<b1>> \in Seq(Beats)
      BY <1>1, LoadTypes, RequestFields DEF Beats
    <2> HIDE DEF rd, b1
    <2>4. CASE ~mem.over
      <3>1. rd.left = 1
        BY <1>3, <2>4
      <3>2. /\ r_hs(e) /\ r_done(e)
            /\ r_state' = "IDLE" /\ reads' = <<>> /\ r_wait' = FALSE
            /\ r_id' = MEM_ID
        BY <1>1, <1>2, <1>3, <1>4, <1>7, <3>1, ReadLastStep
      <3>3. ReadOf(mem) = <<b1>>
        BY <2>4 DEF ReadOf, b1
      <3>4. QED
        BY <1>5, <2>2, <2>3, <2>4, <3>2, <3>3
    <2>5. CASE mem.over
      <3>1. rd.left = 2
        BY <1>3, <2>5
      <3>2. /\ r_hs(e) /\ ~r_done(e)
            /\ r_state' = "READ" /\ r_wait' = TRUE
            /\ r_id' = MEM_ID
            /\ reads' = <<[id |-> rd.id, addr |-> rd.addr, left |-> 1, data |-> rd.data]>>
        BY <1>1, <1>3, <1>4, <1>7, <3>1, ReadFirstStep
      <3>3. reads' = <<LoadRead(1)>>
        BY <1>3, <3>2 DEF LoadRead
      <3>4. ReadOf(mem)[1] = b1
        BY <2>5 DEF ReadOf, b1
      <3>5. QED
        BY <1>5, <2>2, <2>3, <2>5, <3>2, <3>3, <3>4
    <2>6. QED
      BY <2>4, <2>5
  <1>8. QED
    BY <1>6, <1>7

\* The second beat of a load is on the channel: it arrives at once.
LEMMA LoadHalfwayStep ==
    ASSUME BusInv, SlowReads = TRUE, NEW e \in Env, SlowEnough(e), BusCycle(q, e),
           r_state = "READ", LoadHalfway
    PROVE  /\ r_hs(e) /\ r_done(e)
           /\ r_state' = "IDLE" /\ reads' = <<>> /\ r_wait' = FALSE
           /\ r_id' = MEM_ID
           /\ len' = 1
           /\ data_read' = ReadOf(mem) /\ data_read' \in Seq(Beats)
  <1> DEFINE rd == LoadRead(1)
             b1 == [word |-> mem.addr, val |-> ram[mem.addr], lane |-> mem.addr]
             b2 == [word |-> NextWord[mem.addr], val |-> ram[NextWord[mem.addr]],
                    lane |-> mem.addr]
  <1>1. /\ TypeOK /\ mem_valid /\ ~mem.store /\ mem.over /\ len = 1 /\ r_wait
        /\ reads = <<rd>> /\ data_read = <<ReadOf(mem)[1]>>
    BY DEF BusInv, LoadHalfway, LoadRead
  <1>2. q.valid /\ ~q.write /\ q.over = TRUE /\ q.addr = mem.addr
    BY <1>1, RequestFields
  <1>3. rd.id = MEM_ID /\ rd.addr = mem.addr /\ rd.left = 1 /\ rd.data = LoadBurst
    BY DEF LoadRead
  <1>4. rd \in Reads
    BY <1>1, LoadTypes
  <1>5. RBeat(q) = b2
    <2>1. Len(LoadBurst) = 2 /\ LoadBurst[2] = ram[NextWord[mem.addr]]
      BY <1>1, LoadTypes
    <2>2. Len(rd.data) # rd.left /\ rd.data[2] = ram[NextWord[mem.addr]]
      BY <1>3, <2>1
    <2>3. QED
      BY <1>1, <1>2, <1>3, <2>2, BeatOf
  <1>6. ReadOf(mem) = <<b1, b2>> /\ data_read[1] = b1
    BY <1>1 DEF ReadOf
  <1>7. <<b1, b2>> \in Seq(Beats)
    BY <1>1, LoadTypes, RequestFields DEF Beats
  <1> HIDE DEF rd, b1, b2
  <1>8. /\ r_hs(e) /\ r_done(e)
        /\ r_state' = "IDLE" /\ reads' = <<>> /\ r_wait' = FALSE
        /\ r_id' = MEM_ID
    <2>1. r_beat(e)
      BY <1>1 DEF r_beat
    <2>2. QED
      BY <1>1, <1>2, <1>3, <1>4, <2>1, ReadLastStep
  <1>9. data_read' = <<b1, b2>>
    BY <1>1, <1>2, <1>5, <1>6, <1>8 DEF BusCycle, DataRead
  <1>10. len' = 1
    BY <1>1, <1>2, LenReadStep
  <1>11. QED
    BY <1>6, <1>7, <1>8, <1>9, <1>10

\* The read side after a clock edge: nothing outstanding, a fetch, or the load
\* in MEM; and what a completed read leaves behind.
LEMMA ReadOutcome ==
    ASSUME BusInv, SlowReads = TRUE, NEW e \in Env, SlowEnough(e), BusCycle(q, e)
    PROVE  /\ \/ r_state' \in {"IDLE", "ADDR"} /\ reads' = <<>> /\ r_wait' = FALSE
              \/ /\ r_state' = "READ" /\ r_wait' = FALSE
                 /\ \E a \in Words, v \in Data :
                       reads' = <<FetchRead(a, v)>> /\ (keep \/ a = if_addr)
              \/ /\ r_state' = "READ" /\ r_wait' = FALSE
                 /\ mem_valid /\ ~mem.store /\ len' = 0
                 /\ reads' = <<LoadRead(IF mem.over THEN 2 ELSE 1)>>
              \/ /\ r_state' = "READ" /\ r_wait' = TRUE
                 /\ mem_valid /\ ~mem.store /\ mem.over /\ len' = 1
                 /\ reads' = <<LoadRead(1)>> /\ data_read' = <<ReadOf(mem)[1]>>
           /\ data_read' \in Seq(Beats) /\ r_id' \in Ids /\ reads' \in Seq(Reads)
           /\ r_done(e) =>
                /\ r_state' = "IDLE" /\ ~q.write
                /\ r_state = "READ" /\ stage # "EX"
                /\ r_id' = MEM_ID => /\ mem_valid /\ ~mem.store
                                     /\ data_read' = ReadOf(mem)
                /\ r_id' = IF_ID /\ ~mem_valid /\ ~keep =>
                      \E v \in Data :
                         data_read' = <<[word |-> if_addr, val |-> v, lane |-> if_addr]>>
           /\ r_hs(e) => ~q.write /\ (r_done(e) \/ r_wait' = TRUE)
  <1>1. TypeOK
    BY DEF BusInv
  <1>2. /\ data_read \in Seq(Beats) /\ r_id \in Ids /\ reads \in Seq(Reads)
        /\ <<>> \in Seq(Reads) /\ IF_ID \in Ids /\ MEM_ID \in Ids /\ IF_ID # MEM_ID
    BY <1>1 DEF TypeOK, Ids, IF_ID, MEM_ID
  <1>3. mem_valid => stage # "EX"
    BY DEF BusInv
  <1>4. CASE r_state \in {"IDLE", "ADDR"}
    <2>1. reads = <<>> /\ ~r_wait
      BY <1>4 DEF BusInv, ReadPhase
    <2>2. /\ ~r_hs(e) /\ ~r_done(e)
          /\ data_read' = data_read /\ r_id' = r_id /\ r_wait' = FALSE
          /\ \/ r_state' \in {"IDLE", "ADDR"} /\ reads' = <<>>
             \/ /\ r_state' = "READ" /\ reads' = <<NewRead(q)>> /\ ~q.write
                /\ r_state = "ADDR"
      BY <1>1, <1>4, <2>1, ReadIdleStep
    <2>3. CASE r_state' \in {"IDLE", "ADDR"} /\ reads' = <<>>
      BY <1>2, <2>2, <2>3
    <2>4. CASE /\ r_state' = "READ" /\ reads' = <<NewRead(q)>> /\ ~q.write
               /\ r_state = "ADDR"
      <3>1. CASE ~mem_valid
        <4>1. ram[if_addr] \in Data /\ if_addr \in Words
          BY <1>1 DEF TypeOK
        <4>2. reads' = <<FetchRead(if_addr, ram[if_addr])>>
          BY <1>1, <2>4, <3>1, NewReadIs DEF FetchRead
        <4>3. FetchRead(if_addr, ram[if_addr]) \in Reads
          BY <4>1 DEF FetchRead, Reads, Ids, IF_ID
        <4>4. reads' \in Seq(Reads)
          BY <4>2, <4>3, OneElement
        <4>5. QED
          BY <1>2, <2>2, <2>4, <4>1, <4>2, <4>4
      <3>2. CASE mem_valid
        <4>1. ~mem.store
          BY <1>1, <2>4, <3>2, RequestFields
        <4>2. reads' = <<LoadRead(IF mem.over THEN 2 ELSE 1)>>
          BY <1>1, <2>4, <3>2, NewReadIs DEF LoadRead
        <4>3. LoadRead(IF mem.over THEN 2 ELSE 1) \in Reads
          BY <1>1, LoadTypes
        <4>4. reads' \in Seq(Reads)
          BY <4>2, <4>3, OneElement
        <4>5. len' = len
          BY <2>2, <2>4, LenReadStep
        <4>6. len = 0
          BY <2>1, <2>4, <4>1 DEF BusInv, LenPhase, LoadHalfway
        <4>7. QED
          BY <1>2, <2>2, <2>4, <3>2, <4>1, <4>2, <4>4, <4>5, <4>6
      <3>3. QED
        BY <3>1, <3>2
    <2>5. QED
      BY <2>2, <2>3, <2>4
  <1>5. CASE r_state = "READ" /\ FetchInFlight
    <2>1. \E a \in Words, v \in Data :
             reads = <<FetchRead(a, v)>> /\ (keep \/ a = if_addr)
      BY <1>5 DEF FetchInFlight, FetchRead
    <2>2. QED
      BY <1>2, <1>5, <2>1, FetchInFlightStep
  <1>6. CASE r_state = "READ" /\ LoadInFlight
    <2>1. mem_valid /\ ~mem.store /\ reads = <<LoadRead(IF mem.over THEN 2 ELSE 1)>>
      BY <1>6 DEF LoadInFlight, LoadRead
    <2>2. LoadRead(1) \in Reads
      BY <1>1, LoadTypes
    <2>3. <<LoadRead(1)>> \in Seq(Reads)
      BY <2>2, OneElement
    <2>4. ~q.write
      BY <1>1, <2>1, RequestFields
    <2>5. \/ /\ ~r_hs(e) /\ ~r_done(e)
             /\ r_state' = "READ" /\ reads' = reads /\ r_wait' = FALSE
             /\ data_read' = data_read /\ r_id' = r_id /\ len' = 0
          \/ /\ r_hs(e) /\ r_done(e) /\ ~mem.over
             /\ r_state' = "IDLE" /\ reads' = <<>> /\ r_wait' = FALSE
             /\ r_id' = MEM_ID /\ len' = 0
             /\ data_read' = ReadOf(mem) /\ data_read' \in Seq(Beats)
          \/ /\ r_hs(e) /\ ~r_done(e) /\ mem.over
             /\ r_state' = "READ" /\ reads' = <<LoadRead(1)>> /\ r_wait' = TRUE
             /\ r_id' = MEM_ID /\ len' = 1
             /\ data_read' = <<ReadOf(mem)[1]>> /\ data_read' \in Seq(Beats)
      BY <1>6, LoadInFlightStep
    <2>6. QED
      BY <1>2, <1>3, <1>6, <2>1, <2>3, <2>4, <2>5
  <1>7. CASE r_state = "READ" /\ LoadHalfway
    <2>1. mem_valid /\ ~mem.store
      BY <1>7 DEF LoadHalfway
    <2>2. ~q.write
      BY <1>1, <2>1, RequestFields
    <2>3. QED
      BY <1>2, <1>3, <1>7, <2>1, <2>2, LoadHalfwayStep
  <1>8. QED
    BY <1>4, <1>5, <1>6, <1>7 DEF BusInv, ReadPhase

\* The write side after a clock edge: idle, or in a phase of the store in MEM,
\* whose acknowledgement writes memory.
LEMMA WriteOutcome ==
    ASSUME BusInv, NEW e \in Env, BusCycle(q, e)
    PROVE  /\ \/ /\ w_state' \in {"IDLE", "ADDR"}
                 /\ w_req' = NoReq /\ writes' = <<>> /\ b_wait' = FALSE
              \/ /\ w_state' = "WRITE"
                 /\ mem_valid /\ mem.store
                 /\ w_req' = StoreWith(<<>>) /\ writes' = <<>> /\ b_wait' = FALSE
              \/ /\ w_state' = "RESP"
                 /\ mem_valid /\ mem.store
                 /\ w_req' = StoreWith(<<mem.wdata>>) /\ writes' = <<>> /\ b_wait' = FALSE
              \/ /\ w_state' = "RESP"
                 /\ mem_valid /\ mem.store /\ ~mem.over
                 /\ w_req' = NoReq /\ writes' = <<StoreWith(<<mem.wdata>>)>>
                 /\ b_wait' = FALSE
           /\ ~b_hs(e) => ram' = ram
           /\ b_hs(e) => /\ mem_valid /\ mem.store /\ ~mem.over
                         /\ w_state = "RESP" /\ w_state' = "IDLE"
                         /\ ram' = [ram EXCEPT ![mem.addr] = mem.wdata]
           /\ w_hs(q, e) => w_state = "WRITE" /\ w_state' = "RESP"
           /\ w_state = "RESP" /\ mem.over => w_state' = "RESP"
           /\ ~q.write => w_state' \in {"IDLE", "ADDR"}
           /\ w_state = "IDLE" => w_state' \in {"IDLE", "ADDR"}
  <1>1. TypeOK
    BY DEF BusInv
  <1>2. q.write = (mem_valid /\ mem.store)
    BY <1>1, RequestFields
  <1>3. CASE /\ w_state \in {"IDLE", "ADDR"}
             /\ w_req = NoReq /\ writes = <<>> /\ ~b_wait
    <2>1. b_wait = FALSE
      BY <1>1, <1>3 DEF TypeOK
    <2>2. w_state = "IDLE" => w_state' \in {"IDLE", "ADDR"}
      BY DEF BusCycle, WriteFsm
    <2>3. QED
      BY <1>1, <1>2, <1>3, <2>1, <2>2, WriteIdleStep
  <1>4. CASE /\ w_state = "WRITE" /\ mem_valid /\ mem.store
             /\ w_req = StoreWith(<<>>) /\ writes = <<>> /\ ~b_wait
    <2>1. b_wait = FALSE
      BY <1>1, <1>4 DEF TypeOK
    <2>2. QED
      BY <1>1, <1>2, <1>4, <2>1, WriteDataStep
  <1>5. CASE /\ w_state = "RESP" /\ mem_valid /\ mem.store
             /\ w_req = StoreWith(<<mem.wdata>>) /\ writes = <<>> /\ ~b_wait
    <2>1. b_wait = FALSE
      BY <1>1, <1>5 DEF TypeOK
    <2>2. QED
      BY <1>1, <1>2, <1>5, <2>1, WriteCollectedStep
  <1>6. CASE /\ w_state = "RESP" /\ mem_valid /\ mem.store /\ ~mem.over
             /\ w_req = NoReq /\ writes = <<StoreWith(<<mem.wdata>>)>>
    BY <1>1, <1>2, <1>6, WriteAnswerStep
  <1>7. QED
    BY <1>3, <1>4, <1>5, <1>6, Zenon DEF BusInv, WritePhase

\* The write queue and memory keep their types.
LEMMA WriteTypes ==
    ASSUME BusInv, NEW e \in Env, BusCycle(q, e)
    PROVE  /\ w_state' \in {"IDLE", "ADDR", "WRITE", "RESP"}
           /\ w_req' \in WriteReq \cup {NoReq}
           /\ writes' \in Seq(WriteReq)
           /\ b_wait' \in BOOLEAN
           /\ b_id' \in Ids
           /\ ram' \in [Words -> Data]
  <1>1. TypeOK
    BY DEF BusInv
  <1>2. /\ mem.addr \in Words /\ mem.wdata \in Data /\ mem.over \in BOOLEAN
        /\ ram \in [Words -> Data] /\ b_id \in Ids
    BY <1>1, RequestFields DEF TypeOK
  <1>3. StoreWith(<<>>) \in WriteReq /\ StoreWith(<<mem.wdata>>) \in WriteReq
    BY <1>2 DEF StoreWith, WriteReq, Ids, MEM_ID
  <1>4. <<StoreWith(<<mem.wdata>>)>> \in Seq(WriteReq) /\ <<>> \in Seq(WriteReq)
    BY <1>3, OneElement
  <1>5. ram' \in [Words -> Data]
    BY <1>2, WriteOutcome
  <1>6. b_beat(e) => Head(writes).id = MEM_ID
    <2>1. SUFFICES ASSUME b_beat(e) PROVE Head(writes).id = MEM_ID
      OBVIOUS
    <2>2. writes = <<StoreWith(<<mem.wdata>>)>>
      BY <2>1 DEF BusInv, WritePhase, b_beat
    <2>3. QED
      BY <2>2, OneElement DEF StoreWith
  <1>7. b_id' \in Ids
    BY <1>2, <1>6 DEF BusCycle, SlaveWrite, b_id_now, Ids, MEM_ID
  <1> HIDE DEF StoreWith
  <1>8. QED
    BY <1>3, <1>4, <1>5, <1>7, WriteOutcome

\* The beat counter after a clock edge.
LEMMA LenOutcome ==
    ASSUME BusInv, SlowReads = TRUE, NEW e \in Env, SlowEnough(e), BusCycle(q, e)
    PROVE  /\ len' \in 0..1
           /\ len' # 0 => /\ mem_valid /\ mem.over
                          /\ IF mem.store THEN w_state' = "RESP"
                             ELSE r_state' = "IDLE" \/ r_wait' = TRUE
           /\ rw_ready => len' = 0
  <1>1. TypeOK /\ len \in 0..1
    BY DEF BusInv, TypeOK
  <1>2. /\ q.write <=> mem_valid /\ mem.store
        /\ q.over <=> mem_valid /\ mem.over
    BY <1>1, RequestFields
  <1>3. CASE q.write
    <2>1. ~r_hs(e)
      BY <1>3, StoreNoBeat
    <2>2. len' = IF w_state = "IDLE" THEN 0
                 ELSE IF w_hs(q, e) /\ q.over /\ len = 0 THEN 1 ELSE len
      BY <1>3, <2>1, LenWriteStep
    <2>3. len # 0 => mem.over /\ w_state = "RESP"
      BY <1>2, <1>3 DEF BusInv, LenPhase
    <2>4. rw_ready => w_state = "IDLE"
      BY <1>2, <1>3 DEF BusInv, ReadyPhase
    <2>5. /\ w_hs(q, e) => w_state = "WRITE" /\ w_state' = "RESP"
          /\ w_state = "RESP" /\ mem.over => w_state' = "RESP"
      BY WriteOutcome
    <2>6. len' \in 0..1 /\ (rw_ready => len' = 0)
      BY <1>1, <2>2, <2>4
    <2>7. len' # 0 => mem.over /\ w_state' = "RESP"
      BY <1>2, <2>2, <2>3, <2>5
    <2>8. QED
      BY <1>2, <1>3, <2>6, <2>7
  <1>4. CASE ~q.write
    <2>1. len' = IF r_state = "IDLE" THEN 0
                 ELSE IF r_hs(e) /\ q.over /\ len = 0 THEN 1 ELSE len
      BY <1>4, LenReadStep
    <2>2. rw_ready => r_state = "IDLE"
      BY <1>2, <1>4 DEF BusInv, ReadyPhase
    <2>3. len # 0 => mem_valid /\ mem.over /\ (r_state = "IDLE" \/ LoadHalfway)
      BY <1>2, <1>4 DEF BusInv, LenPhase
    <2>4. LoadHalfway => r_state = "READ"
      BY DEF BusInv, ReadPhase, LoadHalfway
    <2>5. LoadHalfway => r_state' = "IDLE"
      BY <2>4, LoadHalfwayStep
    <2>6. r_hs(e) => r_state' = "IDLE" \/ r_wait' = TRUE
      BY ReadOutcome
    <2>7. len' \in 0..1 /\ (rw_ready => len' = 0)
      BY <1>1, <2>1, <2>2
    <2>8. len' # 0 => mem_valid /\ mem.over
      BY <1>2, <2>1, <2>3
    <2>9. len' # 0 => r_state' = "IDLE" \/ r_wait' = TRUE
      BY <2>1, <2>3, <2>5, <2>6
    <2>10. QED
      BY <1>2, <1>4, <2>7, <2>8, <2>9
  <1>5. QED
    BY <1>3, <1>4

\* The pulse after a clock edge, by the request it was raised under.
LEMMA ReadyOutcome ==
    ASSUME NEW e \in Env, BusCycle(q, e)
    PROVE  rw_ready' = IF q.write THEN b_hs(e) ELSE r_done(e)
  BY DEF BusCycle, RwReady, trans_done

\* Every variable of the bus keeps its type over a clock edge.
LEMMA BusTypes ==
    ASSUME BusInv, SlowReads = TRUE, NEW e \in Env, SlowEnough(e), BusCycle(q, e),
           if_addr' \in Words, keep' \in BOOLEAN, mem_valid' \in BOOLEAN,
           mem' \in MemReqs, stage' \in {"NONE", "ID", "EX", "MEM", "WB"},
           stall' \in BOOLEAN
    PROVE  TypeOK'
  <1>1. /\ r_state' \in {"IDLE", "ADDR", "READ"} /\ r_wait' \in BOOLEAN
        /\ data_read' \in Seq(Beats) /\ r_id' \in Ids /\ reads' \in Seq(Reads)
    BY ReadOutcome
  <1>2. len' \in 0..1
    BY LenOutcome
  <1>3. rw_ready' \in BOOLEAN
    BY ReadyOutcome DEF b_hs, r_done, r_hs
  <1>4. QED
    BY <1>1, <1>2, <1>3, WriteTypes DEF TypeOK

\* A clock edge over which the requests do not change.
LEMMA SameRequest ==
    ASSUME BusInv, SlowReads = TRUE, NEW e \in Env, SlowEnough(e), BusCycle(q, e),
           UNCHANGED <<if_addr, keep, mem_valid, mem>>
    PROVE  ReadPhase' /\ WritePhase' /\ LenPhase' /\ ReadyPhase'
  <1>1. TypeOK
    BY DEF BusInv
  <1>2. q.write <=> mem_valid /\ mem.store
    BY <1>1, RequestFields
  <1>3. mem_valid /\ ~mem.store => ram' = ram
    BY WriteOutcome
  <1>4. mem_valid /\ ~mem.store =>
           /\ ReadOf(mem)' = ReadOf(mem)
           /\ \A n \in 1..2 : LoadRead(n)' = LoadRead(n)
    BY <1>3 DEF ReadOf, LoadRead, LoadBurst
  <1>5. ReadPhase'
    <2>1. CASE r_state' \in {"IDLE", "ADDR"} /\ reads' = <<>> /\ r_wait' = FALSE
      BY <2>1 DEF ReadPhase
    <2>2. CASE /\ r_state' = "READ" /\ r_wait' = FALSE
               /\ \E a \in Words, v \in Data :
                     reads' = <<FetchRead(a, v)>> /\ (keep \/ a = if_addr)
      BY <2>2 DEF ReadPhase, FetchInFlight, FetchRead
    <2>3. CASE /\ r_state' = "READ" /\ r_wait' = FALSE
               /\ mem_valid /\ ~mem.store /\ len' = 0
               /\ reads' = <<LoadRead(IF mem.over THEN 2 ELSE 1)>>
      <3>1. LoadInFlight'
        BY <1>3, <2>3 DEF LoadInFlight, LoadRead, LoadBurst
      <3>2. QED
        BY <2>3, <3>1 DEF ReadPhase
    <2>4. CASE /\ r_state' = "READ" /\ r_wait' = TRUE
               /\ mem_valid /\ ~mem.store /\ mem.over /\ len' = 1
               /\ reads' = <<LoadRead(1)>> /\ data_read' = <<ReadOf(mem)[1]>>
      <3>1. LoadHalfway'
        BY <1>3, <1>4, <2>4 DEF LoadHalfway, LoadRead, LoadBurst
      <3>2. QED
        BY <2>4, <3>1 DEF ReadPhase
    <2>5. QED
      BY <2>1, <2>2, <2>3, <2>4, ReadOutcome
  <1>6. WritePhase'
    BY WriteOutcome DEF WritePhase, StoreWith
  <1>7. LenPhase'
    <2>1. r_wait' = TRUE => LoadHalfway'
      BY <1>5 DEF ReadPhase, FetchInFlight, LoadInFlight
    <2>2. QED
      BY <2>1, LenOutcome DEF LenPhase
  <1>8. ReadyPhase'
    <2>1. CASE q.write
      <3>1. rw_ready' => b_hs(e)
        BY <2>1, ReadyOutcome
      <3>2. b_hs(e) => w_state' = "IDLE" /\ ram' = [ram EXCEPT ![mem.addr] = mem.wdata]
        BY WriteOutcome
      <3>3. b_hs(e) => ram'[mem.addr] = mem.wdata
        BY <1>1, <3>2, RequestFields DEF TypeOK
      <3>4. QED
        BY <1>2, <2>1, <3>1, <3>2, <3>3 DEF ReadyPhase
    <2>2. CASE ~q.write
      <3>1. rw_ready' => r_done(e)
        BY <2>2, ReadyOutcome
      <3>2. ~(mem_valid /\ mem.store)
        BY <1>2, <2>2
      <3>3. r_done(e) =>
              /\ r_state' = "IDLE"
              /\ r_id' = MEM_ID => /\ mem_valid /\ ~mem.store
                                   /\ data_read' = ReadOf(mem)
              /\ r_id' = IF_ID /\ ~mem_valid /\ ~keep =>
                    \E v \in Data :
                       data_read' = <<[word |-> if_addr, val |-> v, lane |-> if_addr]>>
        BY ReadOutcome
      <3>4. QED
        BY <1>4, <3>1, <3>2, <3>3 DEF ReadyPhase
    <2>3. QED
      BY <2>1, <2>2
  <1>9. QED
    BY <1>5, <1>6, <1>7, <1>8

\* A clock edge over which the requests change while the bus holds no more
\* than a fetch, which is then either still wanted or to be discarded.
LEMMA NewRequest ==
    ASSUME BusInv, SlowReads = TRUE, NEW e \in Env, SlowEnough(e), BusCycle(q, e),
           w_state' \in {"IDLE", "ADDR"},
           len' = 0,
           r_state' = "READ" => ~(mem_valid /\ ~mem.store),
           r_state' = "READ" => keep' \/ (if_addr' = if_addr /\ ~keep)
                                      \/ (keep' = keep /\ if_addr' = if_addr),
           rw_ready' => keep' /\ ~mem_valid' /\ r_state' = "IDLE" /\ r_id' # MEM_ID
    PROVE  ReadPhase' /\ WritePhase' /\ LenPhase' /\ ReadyPhase'
  <1>1. ReadPhase'
    <2>1. \/ r_state' \in {"IDLE", "ADDR"} /\ reads' = <<>> /\ r_wait' = FALSE
          \/ /\ r_state' = "READ" /\ r_wait' = FALSE
             /\ \E a \in Words, v \in Data :
                   reads' = <<FetchRead(a, v)>> /\ (keep \/ a = if_addr)
      BY ReadOutcome
    <2>2. QED
      BY <2>1 DEF ReadPhase, FetchInFlight, FetchRead
  <1>2. WritePhase'
    BY WriteOutcome DEF WritePhase
  <1>3. LenPhase' /\ ReadyPhase'
    BY DEF LenPhase, ReadyPhase
  <1>4. QED
    BY <1>1, <1>2, <1>3

----------------------------------------------------------------------------
(* The invariant is inductive.                                             *)

\* The bus starts idle, with nothing outstanding.
LEMMA InitInv == ASSUME Init PROVE BusInv
  <1>1. TypeOK
    <2>1. data_read \in Seq(Beats) /\ reads \in Seq(Reads) /\ writes \in Seq(WriteReq)
      BY NoElement, Zenon DEF Init, BusInit
    <2>2. len \in 0..1 /\ w_req \in WriteReq \cup {NoReq}
      BY DEF Init, BusInit
    <2>3. QED
      BY <2>1, <2>2 DEF Init, BusInit, TypeOK
  <1>2. ReadPhase /\ WritePhase /\ LenPhase /\ ReadyPhase
    BY DEF Init, BusInit, ReadPhase, WritePhase, LenPhase, ReadyPhase
  <1>3. QED
    BY <1>1, <1>2 DEF BusInv, Init

\* What mem_rw_ready and if_rw_ready say about the bus.
LEMMA Completed ==
    ASSUME BusInv, SlowReads = TRUE, NEW e \in Env, SlowEnough(e)
    PROVE  /\ if_rw_ready(q, e) =>
                /\ rw_ready /\ ~mem_valid /\ ~q.write /\ ~r_beat(e)
                /\ r_state = "IDLE" /\ r_id = IF_ID
           /\ mem_rw_ready(q, e) =>
                /\ rw_ready /\ mem_valid
                /\ IF mem.store
                   THEN w_state = "IDLE" /\ q.write /\ ram[mem.addr] = mem.wdata
                   ELSE /\ r_state = "IDLE" /\ ~q.write /\ r_id = MEM_ID
                        /\ data_read = ReadOf(mem)
  <1>1. TypeOK
    BY DEF BusInv
  <1>2. (q.write <=> mem_valid /\ mem.store) /\ (q.mem <=> mem_valid)
    BY <1>1, RequestFields
  <1>3. rw_ready /\ ~q.write => r_state = "IDLE"
    BY <1>2 DEF BusInv, ReadyPhase
  <1>4. rw_ready /\ ~q.write => ~r_beat(e)
    BY <1>3 DEF BusInv, ReadPhase, r_beat
  <1>5. rw_ready /\ ~q.write => axi_ret_id(q, e) = r_id
    BY <1>4 DEF axi_ret_id, r_id_now
  <1>6. rw_ready /\ q.write => w_state = "IDLE" /\ ram[mem.addr] = mem.wdata
    BY <1>2 DEF BusInv, ReadyPhase
  <1>7. rw_ready /\ ~q.write /\ r_id = MEM_ID => data_read = ReadOf(mem)
    BY <1>2 DEF BusInv, ReadyPhase
  <1>8. QED
    BY <1>2, <1>3, <1>4, <1>5, <1>6, <1>7 DEF if_rw_ready, mem_rw_ready

\* Every clock cycle preserves the invariant, one step per action.
LEMMA NextInv ==
    ASSUME BusInv, SlowReads = TRUE, [Next]_vars
    PROVE  BusInv'
  <1>1. TypeOK /\ (mem_valid => stage = "MEM") /\ (stall => stage = "EX")
    BY DEF BusInv
  <1>2. CASE UNCHANGED vars
    <2> USE <1>2 DEF vars, busVars, masterVars, slaveVars, reqVars
    <2>1. TypeOK' /\ (mem_valid' => stage' = "MEM") /\ (stall' => stage' = "EX")
      BY <1>1 DEF TypeOK
    <2>2. ReadPhase'
      BY DEF BusInv, ReadPhase, FetchInFlight, LoadInFlight, LoadHalfway,
             LoadBurst, ReadOf
    <2>3. WritePhase'
      BY DEF BusInv, WritePhase, StoreWith
    <2>4. LenPhase'
      BY DEF BusInv, LenPhase, LoadHalfway, LoadBurst, ReadOf
    <2>5. ReadyPhase'
      BY DEF BusInv, ReadyPhase, ReadOf
    <2>6. QED
      BY <2>1, <2>2, <2>3, <2>4, <2>5 DEF BusInv
  <1>3. CASE Next
    <2>1. PICK e \in Env : SlowEnough(e) /\ Cycle(e)
      BY <1>3 DEF Next
    <2>2. /\ q.write <=> mem_valid /\ mem.store
          /\ mem_valid \in BOOLEAN /\ mem.store \in BOOLEAN /\ keep \in BOOLEAN
          /\ if_addr \in Words /\ mem \in MemReqs
          /\ stage \in {"NONE", "ID", "EX", "MEM", "WB"} /\ stall \in BOOLEAN
      BY <1>1, RequestFields DEF TypeOK
    <2>3. Advance \in {"NONE", "ID", "EX", "MEM", "WB"}
      BY <2>2 DEF Advance
    <2>4. CASE Wait(e)
      <3>1. /\ BusCycle(q, e) /\ stage' = Advance
            /\ stall' \in BOOLEAN /\ (stall' => stage' = "EX")
            /\ UNCHANGED <<if_addr, keep, mem_valid, mem>>
        BY <2>4 DEF Wait, MayStall
      <3>2. TypeOK'
        BY <2>1, <2>2, <2>3, <3>1, BusTypes
      <3>3. mem_valid' => stage' = "MEM"
        BY <1>1, <3>1 DEF Advance
      <3>4. ReadPhase' /\ WritePhase' /\ LenPhase' /\ ReadyPhase'
        BY <2>1, <3>1, SameRequest
      <3>5. QED
        BY <3>1, <3>2, <3>3, <3>4 DEF BusInv
    <2>5. CASE FetchDone(e)
      <3>1. /\ if_rw_ready(q, e) /\ BusCycle(q, e)
            /\ if_addr' \in Words /\ keep' = FALSE
            /\ stage' \in {"NONE", "ID"}
            /\ stall = FALSE /\ stall' = FALSE
            /\ UNCHANGED <<mem_valid, mem>>
        BY <2>2, <2>5 DEF FetchDone, fetch_hs
      <3>2. rw_ready /\ ~mem_valid /\ ~q.write /\ r_state = "IDLE"
        BY <2>1, <3>1, Completed
      <3>3. TypeOK'
        BY <2>1, <2>2, <3>1, BusTypes
      <3>4. r_state' = "ADDR"
        BY <1>1, <3>1, <3>2, RequestFields DEF BusCycle, ReadFsm, r_valid
      <3>5. ~rw_ready'
        BY <2>1, <3>1, <3>2, ReadyOutcome, ReadOutcome
      <3>6. len' = 0 /\ w_state' \in {"IDLE", "ADDR"}
        BY <2>1, <3>1, <3>2, LenOutcome, WriteOutcome
      <3>7. ReadPhase' /\ WritePhase' /\ LenPhase' /\ ReadyPhase'
        BY <2>1, <3>1, <3>4, <3>5, <3>6, NewRequest
      <3>8. QED
        BY <3>1, <3>2, <3>3, <3>7 DEF BusInv
    <2>6. CASE Flush(e)
      <3>1. /\ stage = "WB" /\ BusCycle(q, e)
            /\ if_addr' = FlushAddr /\ keep' = TRUE /\ stage' = "NONE"
            /\ stall' = FALSE
            /\ UNCHANGED <<mem_valid, mem>>
        BY <1>1, <2>2, <2>6 DEF Flush
      <3>2. ~mem_valid /\ ~q.write
        BY <1>1, <2>2, <3>1
      <3>3. TypeOK'
        BY <2>1, <2>2, <3>1, SysAssumption, BusTypes
      <3>4. len' = 0 /\ w_state' \in {"IDLE", "ADDR"}
        BY <2>1, <2>2, <3>1, <3>2, LenOutcome, WriteOutcome
      <3>5. rw_ready' => r_state' = "IDLE" /\ r_id' # MEM_ID
        BY <2>1, <3>1, <3>2, ReadyOutcome, ReadOutcome
      <3>6. ReadPhase' /\ WritePhase' /\ LenPhase' /\ ReadyPhase'
        BY <2>1, <3>1, <3>2, <3>4, <3>5, NewRequest
      <3>7. QED
        BY <3>1, <3>2, <3>3, <3>6 DEF BusInv
    <2>7. CASE MemArrives(e)
      <3>1. /\ stage = "EX" /\ BusCycle(q, e)
            /\ stage' = Advance /\ mem_valid' = TRUE /\ mem' \in MemReqs
            /\ stall' = FALSE
            /\ UNCHANGED <<if_addr, keep>>
        BY <2>7 DEF MemArrives
      <3>2. ~mem_valid /\ ~q.write
        BY <1>1, <2>2, <3>1
      <3>3. TypeOK'
        BY <2>1, <2>2, <2>3, <3>1, BusTypes
      <3>4. stage' = "MEM"
        BY <3>1 DEF Advance
      <3>5. len' = 0 /\ w_state' \in {"IDLE", "ADDR"}
        BY <2>1, <2>2, <3>1, <3>2, LenOutcome, WriteOutcome
      <3>6. ~rw_ready'
        BY <2>1, <3>1, <3>2, ReadyOutcome, ReadOutcome
      <3>7. ReadPhase' /\ WritePhase' /\ LenPhase' /\ ReadyPhase'
        BY <2>1, <3>1, <3>2, <3>5, <3>6, NewRequest
      <3>8. QED
        BY <3>1, <3>3, <3>4, <3>7 DEF BusInv
    <2>8. CASE MemDone(e)
      <3>1. /\ mem_rw_ready(q, e) /\ BusCycle(q, e)
            /\ mem_valid' = FALSE /\ stage' = "WB"
            /\ UNCHANGED <<if_addr, keep, mem, stall>>
        BY <2>8 DEF MemDone
      <3>2. /\ rw_ready /\ mem_valid
            /\ mem.store  => w_state = "IDLE" /\ q.write
            /\ ~mem.store => r_state = "IDLE" /\ ~q.write
            /\ stall' = FALSE
        BY <1>1, <2>1, <2>2, <3>1, Completed
      <3>3. TypeOK'
        BY <2>1, <2>2, <3>1, BusTypes
      <3>4. len' = 0 /\ w_state' \in {"IDLE", "ADDR"}
        BY <2>1, <3>1, <3>2, LenOutcome, WriteOutcome
      <3>5. ~mem.store => r_state' = "ADDR"
        BY <1>1, <3>1, <3>2, RequestFields DEF BusCycle, ReadFsm, r_valid
      <3>6. ~rw_ready'
        BY <2>1, <3>1, <3>2, ReadyOutcome, ReadOutcome, WriteOutcome
      <3>7. ReadPhase' /\ WritePhase' /\ LenPhase' /\ ReadyPhase'
        BY <2>1, <3>1, <3>4, <3>5, <3>6, NewRequest
      <3>8. QED
        BY <3>1, <3>2, <3>3, <3>7 DEF BusInv
    <2>9. QED
      BY <2>1, <2>4, <2>5, <2>6, <2>7, <2>8 DEF Cycle
  <1>4. QED
    BY <1>2, <1>3

----------------------------------------------------------------------------
(* The theorems.                                                           *)

\* Every transaction on the bus belongs to a stage that still waits for it.
THEOREM BusInvariant == ASSUME SlowReads = TRUE PROVE Spec => []BusInv
  <1>1. Init => BusInv
    BY InitInv
  <1>2. BusInv /\ [Next]_vars => BusInv'
    BY NextInv
  <1>3. QED
    BY <1>1, <1>2, PTL DEF Spec

\* Type correctness.
THEOREM TypeCorrect == ASSUME SlowReads = TRUE PROVE Spec => []TypeOK
  <1>1. BusInv => TypeOK
    BY DEF BusInv
  <1>2. QED
    BY <1>1, BusInvariant, PTL

\* The memory never holds more than one read and one write.
THEOREM AtMostOneInFlight == ASSUME SlowReads = TRUE PROVE Spec => []OneInFlight
  <1>1. ASSUME BusInv PROVE OneInFlight
    <2>1. reads = <<>> \/ \E x : reads = <<x>>
      BY <1>1 DEF BusInv, ReadPhase, FetchInFlight, LoadInFlight, LoadHalfway
    <2>2. Len(reads) <= 1
      BY <2>1, ShortLen
    <2>3. \/ writes = <<>>
          \/ w_req = NoReq /\ \E x : writes = <<x>>
      BY <1>1 DEF BusInv, WritePhase
    <2>4. Len(writes) <= 1 /\ (w_req # NoReq => writes = <<>>)
      BY <2>3, ShortLen
    <2>5. QED
      BY <2>2, <2>4 DEF OneInFlight
  <1>2. QED
    BY <1>1, BusInvariant, PTL

\* A load is acknowledged only with its own data.
THEOREM LoadsCorrect == ASSUME SlowReads = TRUE PROVE Spec => []LoadData
  <1>1. ASSUME BusInv PROVE LoadData
    BY <1>1, Completed DEF LoadData
  <1>2. QED
    BY <1>1, BusInvariant, PTL

\* A store is acknowledged only when memory holds its value.
THEOREM StoresCorrect == ASSUME SlowReads = TRUE PROVE Spec => []StoreDone
  <1>1. ASSUME BusInv PROVE StoreDone
    <2>1. w_state = "IDLE" => w_req = NoReq /\ writes = <<>>
      BY <1>1 DEF BusInv, WritePhase
    <2>2. QED
      BY <1>1, <2>1, Completed DEF StoreDone
  <1>2. QED
    BY <1>1, BusInvariant, PTL

\* A fetched instruction was read from the address asked for.
THEOREM FetchesCorrect == ASSUME SlowReads = TRUE PROVE Spec => []FetchData
  <1>1. ASSUME BusInv PROVE FetchData
    <2>1. SUFFICES ASSUME NEW e \in Env, SlowEnough(e), fetch_hs(e), ~keep
                   PROVE  /\ Len(data_read) = 1
                          /\ data_read[1].word = if_addr
                          /\ data_read[1].lane = if_addr
      BY DEF FetchData
    <2>2. rw_ready /\ ~mem_valid /\ r_id = IF_ID
      BY <1>1, <2>1, Completed DEF fetch_hs
    <2>3. PICK v \in Data :
               data_read = <<[word |-> if_addr, val |-> v, lane |-> if_addr]>>
      BY <1>1, <2>1, <2>2 DEF BusInv, ReadyPhase
    <2>4. QED
      BY <2>3, OneElement
  <1>2. QED
    BY <1>1, BusInvariant, PTL

\* No fetch completes before the last fetched instruction has reached WB.
THEOREM FetchesAlone == ASSUME SlowReads = TRUE PROVE Spec => []FetchAlone
  <1>1. Init => FetchPhase
    BY DEF Init, BusInit, FetchPhase
  <1>2. ASSUME BusInv, FetchPhase, [Next]_vars PROVE FetchPhase'
    <2>1. CASE UNCHANGED vars
      BY <1>2, <2>1 DEF vars, busVars, masterVars, reqVars, FetchPhase
    <2>2. CASE Next
      <3>1. PICK e \in Env : SlowEnough(e) /\ Cycle(e)
        BY <2>2 DEF Next
      <3>2. SUFFICES ASSUME rw_ready', ~mem_valid' PROVE stage' \in {"NONE", "WB"}
        BY DEF FetchPhase
      <3>3. CASE MemDone(e)
        BY <3>3 DEF MemDone
      <3>4. CASE MemArrives(e)
        BY <3>2, <3>4 DEF MemArrives
      <3>5. CASE Flush(e)
        BY <3>5 DEF Flush
      <3>6. CASE Wait(e) \/ FetchDone(e)
        <4>1. ~mem_valid /\ BusCycle(q, e)
          BY <3>2, <3>6 DEF Wait, FetchDone
        <4>2. ~q.write
          BY <4>1 DEF q, Arbitrate
        <4>3. r_done(e)
          BY <3>2, <4>1, <4>2 DEF BusCycle, RwReady, trans_done
        <4>4. r_state = "READ" /\ ~r_wait /\ ~rw_ready
          BY <1>2, <4>1, <4>3
          DEF BusInv, ReadPhase, ReadyPhase, LoadInFlight, LoadHalfway,
              FetchInFlight, r_done, r_hs, axi_r_ready
        <4>5. e.r
          BY <4>3, <4>4 DEF r_done, r_hs, r_beat
        <4>6. stage \notin {"ID", "EX"}
          BY <3>1, <4>5 DEF SlowEnough
        <4>7. stage \in {"NONE", "MEM", "WB"}
          BY <1>2, <4>6 DEF BusInv, TypeOK
        <4>8. Wait(e)
          BY <3>6, <4>4 DEF FetchDone, fetch_hs, if_rw_ready
        <4>9. stage' = Advance
          BY <4>8 DEF Wait
        <4>10. QED
          BY <4>1, <4>7, <4>9 DEF Advance
      <3>7. QED
        BY <3>1, <3>3, <3>4, <3>5, <3>6 DEF Cycle
    <2>3. QED
      BY <1>2, <2>1, <2>2
  <1>3. FetchPhase => FetchAlone
    BY DEF FetchPhase, FetchAlone, fetch_hs, if_rw_ready, q, Arbitrate
  <1>4. QED
    BY <1>1, <1>2, <1>3, BusInvariant, PTL DEF Spec

\* Memory changes only under the store in MEM, at its address, to its value.
THEOREM MemoryCorrect == ASSUME SlowReads = TRUE PROVE Spec => RamOnlyByStore
  <1>1. ASSUME BusInv, [Next]_vars
        PROVE  [ram' # ram => /\ mem_valid
                              /\ mem.store
                              /\ ram' = [ram EXCEPT ![mem.addr] = mem.wdata]]_ram
    <2>1. CASE UNCHANGED vars
      BY <2>1 DEF vars, busVars, slaveVars
    <2>2. CASE Next
      <3>1. PICK e \in Env : BusCycle(q, e)
        BY <2>2 DEF Next, Cycle, Wait, FetchDone, Flush, MemArrives, MemDone
      <3>2. QED
        BY <1>1, <3>1, WriteOutcome
    <2>3. QED
      BY <1>1, <2>1, <2>2
  <1>2. QED
    BY <1>1, BusInvariant, PTL DEF Spec, RamOnlyByStore
=============================================================================
