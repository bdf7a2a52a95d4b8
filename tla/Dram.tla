------------------------------ MODULE Dram ------------------------------
(* One channel of the DRAMsim3 memory model that stands behind the AXI      *)
(* memory of the simulation: the co-simulation layer (cosimulation.cc), the *)
(* controller with its transaction queues (controller.cc), the per-bank     *)
(* command queues (command_queue.cc), the channel and bank state            *)
(* (channel_state.cc, bankstate.cc) and the refresh timer (refresh.cc).     *)
(*                                                                          *)
(* A memory clock (CoDRAMsim3::tick) returns what is done, ticks the refresh *)
(* timer, issues a command and schedules a transaction, in this order and    *)
(* to the end; requests and responses pass between two clocks (phase idle).  *)
EXTENDS DramTiming, Sequences, FiniteSets, SequencesExt

CONSTANTS
    Addr,               \* addresses (hex_addr)
    AddressMapping,     \* address -> [bank, row, col]
    Configs,            \* ini files with the addresses the program uses
    TransQueueSize,     \* trans_queue_size: read queue and write buffer
    CmdQueueSize,       \* cmd_queue_size: each command queue
    DrainThreshold,     \* lower threshold of the write buffer (8)
    ActivateLimit,      \* activations in a tFAW window (4)
    Padding,            \* cycles the co-simulation adds to a response (40)
    MaxReads, MaxWrites,\* requests ram.cpp keeps outstanding
    MaxRefreshes        \* bound: refreshes waiting at a time

VARIABLES
    config,         \* Config, read from the ini file at the start
    phase,          \* where the memory clock stands
    req_list,       \* CoDRAMsim3: requests without an answer
    resp_read,      \* CoDRAMsim3: answered reads, with their padding
    resp_write,     \* CoDRAMsim3: answered writes, with their padding
    read_queue,     \* reads without a command
    write_buffer,   \* writes without a command
    write_draining, \* writes to schedule before reads are looked at
    pending_rd,     \* reads not yet issued, by address
    pending_wr,     \* addresses with a write not yet issued
    return_queue,   \* transactions whose completion cycle is known
    queues,         \* the command queue of each bank
    queue_idx,      \* the queue looked at last
    is_in_ref,      \* a refresh holds back the queues of ref_q_indices
    ref_q_indices,
    bank,           \* the state of each bank
    timing,         \* clocks until a bank may take a command
    four_aw,        \* the activation windows of each rank
    refresh_q,      \* refreshes that are due
    refresh_in,     \* clocks until the next refresh falls due
    next_ref        \* the bank (or a bank of the rank) refreshed next

cosimVars == <<req_list, resp_read, resp_write>>
transVars == <<read_queue, write_buffer, write_draining>>
pendVars  == <<pending_rd, pending_wr, return_queue>>
cmdVars   == <<queues, queue_idx>>
inRefVars == <<is_in_ref, ref_q_indices>>
bankVars  == <<bank, timing, four_aw>>
refVars   == <<refresh_in, next_ref>>
vars == <<config, phase, cosimVars, transVars, pendVars, cmdVars, inRefVars,
          bankVars, refresh_q, refVars>>

Policies == {"RANK_LEVEL_SIMULTANEOUS", "RANK_LEVEL_STAGGERED", "BANK_LEVEL_STAGGERED"}

ASSUME DramAssumption ==
    /\ AddressMapping \in [Addr -> [bank : Banks, row : Rows, col : Nat]]
    /\ Configs \subseteq [page : {"OPEN_PAGE", "CLOSE_PAGE"}, refresh : Policies,
                          addrs : SUBSET Addr]
    /\ TransQueueSize \in Nat \ {0} /\ CmdQueueSize \in Nat \ {0}
    /\ DrainThreshold \in Nat /\ ActivateLimit \in Nat \ {0}
    /\ Padding \in Nat /\ MaxReads \in Nat /\ MaxWrites \in Nat
    /\ MaxRefreshes \in Nat \ {0}

Request     == [addr : Addr, is_write : BOOLEAN]
Response    == [addr : Addr, wait : Nat]
Transaction == [addr : Addr, is_write : BOOLEAN, wait : Nat]

BankOf(a) == AddressMapping[a].bank
RowOf(a)  == AddressMapping[a].row

\* Cycles between two refreshes of the timer.
refresh_interval ==
    CASE config.refresh = "RANK_LEVEL_SIMULTANEOUS" -> T.tREFI
      [] config.refresh = "BANK_LEVEL_STAGGERED"    -> T.tREFIb
      [] OTHER                                      -> T.tREFI \div Ranks

Init ==
    /\ config \in Configs
    /\ phase = "idle"
    /\ req_list = <<>> /\ resp_read = <<>> /\ resp_write = <<>>
    /\ read_queue = <<>> /\ write_buffer = <<>> /\ write_draining = 0
    /\ pending_rd = [a \in Addr |-> 0]
    /\ pending_wr = {}
    /\ return_queue = <<>>
    /\ queues = [b \in Banks |-> <<>>]
    /\ queue_idx = 0
    /\ is_in_ref = FALSE /\ ref_q_indices = {}
    /\ bank = [b \in Banks |-> ClosedBank]
    /\ timing = [b \in Banks |-> [t \in CmdTypes |-> 0]]
    /\ four_aw = [r \in 0 .. Ranks - 1 |-> <<>>]
    /\ refresh_q = <<>>
    /\ refresh_in = refresh_interval
    /\ next_ref = 0

\* Every abort() and exit(1) of the program ends here.
Abort == phase' = "aborted"

----------------------------------------------------------------------------
(* Between two clocks: dramsim3_helper_rising and _falling of ram.cpp.      *)

Outstanding(w) ==
    Cardinality({i \in 1 .. Len(req_list) : req_list[i].is_write = w})
      + Len(IF w THEN resp_write ELSE resp_read)

\* Mutant: one transaction too many is accepted.
WillAccept_OneMore(w) == Len(IF w THEN write_buffer ELSE read_queue) <= TransQueueSize

WillAccept(w) == Len(IF w THEN write_buffer ELSE read_queue) < TransQueueSize

\* A transaction that is answered from the write buffer, or a write that is
\* answered at once, comes back in the clock after the next.
AnswerSoon(a, w) ==
    return_queue' = Append(return_queue, [addr |-> a, is_write |-> w, wait |-> 1])

AddRequest(a, w) ==
    /\ phase = "idle"
    /\ WillAccept(w)
    /\ req_list' = Append(req_list, [addr |-> a, is_write |-> w])

\* A read: served from the write buffer, or queued unless the same address is
\* already on its way.
AddRead(a) ==
    /\ AddRequest(a, FALSE)
    /\ Outstanding(FALSE) < MaxReads
    /\ \/ /\ a \in pending_wr
          /\ AnswerSoon(a, FALSE)
          /\ UNCHANGED <<pending_rd, read_queue>>
       \/ /\ a \notin pending_wr
          /\ pending_rd' = [pending_rd EXCEPT ![a] = @ + 1]
          /\ read_queue' = IF pending_rd[a] = 0 THEN Append(read_queue, a) ELSE read_queue
          /\ UNCHANGED return_queue
    /\ UNCHANGED <<config, phase, resp_read, resp_write, write_buffer, write_draining,
                   pending_wr, cmdVars, inRefVars, bankVars, refresh_q, refVars>>

\* Mutant: a write is buffered although one to the same address is waiting.
AddWrite_NoMerge(a) ==
    /\ AddRequest(a, TRUE)
    /\ Outstanding(TRUE) < MaxWrites
    /\ write_buffer' = Append(write_buffer, a)
    /\ pending_wr' = pending_wr \cup {a}
    /\ AnswerSoon(a, TRUE)
    /\ UNCHANGED <<config, phase, resp_read, resp_write, read_queue, write_draining,
                   pending_rd, cmdVars, inRefVars, bankVars, refresh_q, refVars>>

\* A write: merged with one that waits for the same address, answered anyway.
AddWrite(a) ==
    /\ AddRequest(a, TRUE)
    /\ Outstanding(TRUE) < MaxWrites
    /\ write_buffer' = IF a \in pending_wr THEN write_buffer ELSE Append(write_buffer, a)
    /\ pending_wr' = pending_wr \cup {a}
    /\ AnswerSoon(a, TRUE)
    /\ UNCHANGED <<config, phase, resp_read, resp_write, read_queue, write_draining,
                   pending_rd, cmdVars, inRefVars, bankVars, refresh_q, refVars>>

\* check_read_response, check_write_response: the oldest one, once its padding
\* has passed.
TakeRead ==
    /\ phase = "idle"
    /\ resp_read # <<>> /\ Head(resp_read).wait = 0
    /\ resp_read' = Tail(resp_read)
    /\ UNCHANGED <<config, phase, req_list, resp_write, transVars, pendVars, cmdVars,
                   inRefVars, bankVars, refresh_q, refVars>>

TakeWrite ==
    /\ phase = "idle"
    /\ resp_write # <<>> /\ Head(resp_write).wait = 0
    /\ resp_write' = Tail(resp_write)
    /\ UNCHANGED <<config, phase, req_list, resp_read, transVars, pendVars, cmdVars,
                   inRefVars, bankVars, refresh_q, refVars>>

----------------------------------------------------------------------------
(* A clock begins: JedecDRAMSystem::ClockTick hands every finished          *)
(* transaction, in queue order, to ComplexCoDRAMsim3::callback.             *)

\* The first transaction that is done, 0 when there is none.
Done == SelectInSeq(return_queue, LAMBDA t : t.wait = 0)

\* Mutant: the answer goes to the oldest request for the address of any kind.
Callback_AnyKind(t) ==
    LET i == SelectInSeq(req_list, LAMBDA r : r.addr = t.addr)
        resp == [addr |-> t.addr, wait |-> Padding]
    IN  /\ i # 0
        /\ req_list' = RemoveAt(req_list, i)
        /\ resp_read' = IF t.is_write THEN resp_read ELSE Append(resp_read, resp)
        /\ resp_write' = IF t.is_write THEN Append(resp_write, resp) ELSE resp_write
        /\ phase' = "return"

\* The oldest request for the address gets the answer.
Callback(t) ==
    LET i == SelectInSeq(req_list, LAMBDA r : r.addr = t.addr /\ r.is_write = t.is_write)
        resp == [addr |-> t.addr, wait |-> Padding]
    IN  \/ /\ i = 0
           /\ Abort
           /\ UNCHANGED cosimVars
        \/ /\ i # 0
           /\ req_list' = RemoveAt(req_list, i)
           /\ resp_read' = IF t.is_write THEN resp_read ELSE Append(resp_read, resp)
           /\ resp_write' = IF t.is_write THEN Append(resp_write, resp) ELSE resp_write
           /\ phase' = "return"

ReturnDoneTrans ==
    /\ phase \in {"idle", "return"}
    /\ Done # 0
    /\ return_queue' = RemoveAt(return_queue, Done)
    /\ Callback(return_queue[Done])
    /\ UNCHANGED <<config, transVars, pending_rd, pending_wr, cmdVars, inRefVars,
                   bankVars, refresh_q, refVars>>

----------------------------------------------------------------------------
(* Nothing more to return: Controller::ClockTick begins with the refresh     *)
(* timer, Refresh::ClockTick.                                               *)

\* The bank after b in the fixed order of bank-level refresh: bankgroup first,
\* then bank, then rank.
NextBank(b) ==
    LET r == RankOf(b)
        k == b % BanksPerGroup
    IN  IF (b % BanksPerRank) + BanksPerGroup < BanksPerRank THEN b + BanksPerGroup
        ELSE IF k + 1 < BanksPerGroup THEN r * BanksPerRank + k + 1
        ELSE ((r + 1) % Ranks) * BanksPerRank

NeedRefresh(t, b) ==
    refresh_q' = IF Len(refresh_q) < MaxRefreshes
                 THEN Append(refresh_q, [type |-> t, bank |-> b])
                 ELSE refresh_q

\* Mutant: the staggered policy refreshes one rank all the time.
InsertRefresh_OneRank ==
    /\ NeedRefresh("REFRESH", next_ref)
    /\ UNCHANGED next_ref

\* The loop of the simultaneous policy leaves after the first rank.
InsertRefresh ==
    \/ /\ config.refresh = "RANK_LEVEL_SIMULTANEOUS"
       /\ NeedRefresh("REFRESH", 0)
       /\ UNCHANGED next_ref
    \/ /\ config.refresh = "RANK_LEVEL_STAGGERED"
       /\ NeedRefresh("REFRESH", next_ref)
       /\ next_ref' = (next_ref + BanksPerRank) % NumBanks
    \/ /\ config.refresh = "BANK_LEVEL_STAGGERED"
       /\ NeedRefresh("REFRESH_BANK", next_ref)
       /\ next_ref' = NextBank(next_ref)

RefreshClockTick ==
    /\ phase \in {"idle", "return"}
    /\ Done = 0
    /\ phase' = "issue"
    /\ \/ /\ refresh_in = 0
          /\ InsertRefresh
          /\ refresh_in' = refresh_interval - 1
       \/ /\ refresh_in > 0
          /\ refresh_in' = refresh_in - 1
          /\ UNCHANGED <<refresh_q, next_ref>>
    /\ UNCHANGED <<config, cosimVars, transVars, pendVars, cmdVars, inRefVars, bankVars>>

----------------------------------------------------------------------------
(* phase issue: at most one command leaves for the banks.                   *)

\* At most ActivateLimit activations of a rank in a tFAW window.
IsFAWReady(r) ==
    four_aw[r] # <<>> => Head(four_aw[r]) = 0 \/ Len(four_aw[r]) < ActivateLimit

\* The command that bank b needs next for command t, and whether it may take
\* it now (BankState::GetReadyCommand, ChannelState::GetReadyCommand).
Needed(b, t, row) == RequiredType(bank[b], t, row)

IsReady(b, t, row) ==
    /\ timing[b][Needed(b, t, row)] = 0
    /\ Needed(b, t, row) = "ACTIVATE" => IsFAWReady(RankOf(b))

\* TransToCommand: the row-buffer policy decides the command of a transaction.
ColumnCmd(is_write) ==
    IF config.page = "OPEN_PAGE"
    THEN IF is_write THEN "WRITE" ELSE "READ"
    ELSE IF is_write THEN "WRITE_PRECHARGE" ELSE "READ_PRECHARGE"

\* The row of bank b may be closed for the command at i: nothing is ahead of
\* it, and no command behind it hits the open row, or enough of them did.
ArbitratePrecharge(b, i) ==
    /\ i = 1
    /\ \/ \A j \in i .. Len(queues[b]) : RowOf(queues[b][j].addr) # bank[b].row
       \/ bank[b].hits >= RowHitLimit

\* A read of the same column is queued ahead of the write at i.
HasRWDependency(b, i) ==
    \E j \in 1 .. i - 1 :
        /\ ~queues[b][j].is_write
        /\ AddressMapping[queues[b][j].addr] = AddressMapping[queues[b][i].addr]

\* The command at i of the queue of bank b, or the one that prepares for it,
\* may be issued now.
Issuable(b, i) ==
    LET e == queues[b][i]
        t == ColumnCmd(e.is_write)
        n == Needed(b, t, RowOf(e.addr))
    IN  /\ IsReady(b, t, RowOf(e.addr))
        /\ n = "PRECHARGE" => ArbitratePrecharge(b, i)
        /\ n \in WriteCmds => ~HasRWDependency(b, i)

IssuableIn(b) == {i \in 1 .. Len(queues[b]) : Issuable(b, i)}

\* The queues a refresh holds back (GetRefQIndices).
RefQueues(ref) == IF ref.type = "REFRESH" THEN RankBanks(RankOf(ref.bank)) ELSE {ref.bank}

\* Mutant: a pending refresh holds back no queue.
Held_None(b) == b \in {} /\ refresh_q # <<>>

\* FinishRefresh has run: a pending refresh holds back the queues it involves.
Held(b) ==
    /\ refresh_q # <<>>
    /\ b \in (IF is_in_ref THEN ref_q_indices ELSE RefQueues(Head(refresh_q)))

\* The banks a pending refresh could precharge now, and whether it can be
\* issued itself: every bank it involves is closed and ready.
RefPrecharges(ref) ==
    {b \in RefQueues(ref) : IsRowOpen(bank[b]) /\ timing[b]["PRECHARGE"] = 0}

\* Mutant: a refresh does not wait for the rows to be closed.
RefReady_Open(ref) == \A b \in RefQueues(ref) : timing[b][ref.type] = 0

RefReady(ref) ==
    \A b \in RefQueues(ref) : ~IsRowOpen(bank[b]) /\ timing[b][ref.type] = 0

NextFor(ref) == RefPrecharges(ref) # {} \/ RefReady(ref)

\* ChannelState::UpdateTimingAndStates for command t on bank b.
UpdateTimingAndStates(t, b, row) ==
    LET hit == IF t = "REFRESH" THEN RankBanks(RankOf(b)) ELSE {b}
    IN  /\ bank' = [c \in Banks |-> IF c \in hit THEN AfterCommand(bank[c], t, row) ELSE bank[c]]
        /\ timing' = [c \in Banks |-> [n \in CmdTypes |->
                          Max2(timing[c][n], Delay(t, n, Relation(c, b)))]]
        /\ four_aw' = IF t # "ACTIVATE" THEN four_aw
                      ELSE [four_aw EXCEPT ![RankOf(b)] =
                               Append(IF @ # <<>> /\ Head(@) = 0 THEN Tail(@) ELSE @, T.tFAW)]

\* Anything BankState::UpdateState has no case for ends the program.
LegalNow(t, b) ==
    \A c \in IF t = "REFRESH" THEN RankBanks(RankOf(b)) ELSE {b} : Legal(bank[c], t)

\* Controller::IssueCommand for command t on bank b. A read answers every
\* pending read of its address after read_delay.
IssueCommand(t, b, a, row) ==
    /\ UpdateTimingAndStates(t, b, row)
    /\ \/ /\ t \in ReadCmds
          /\ return_queue' = return_queue \o
                 [n \in 1 .. pending_rd[a] |-> [addr |-> a, is_write |-> FALSE, wait |-> read_delay]]
          /\ pending_rd' = [pending_rd EXCEPT ![a] = 0]
          /\ UNCHANGED pending_wr
          /\ IF pending_rd[a] > 0 /\ LegalNow(t, b) THEN phase' = "schedule" ELSE Abort
       \/ /\ t \in WriteCmds
          /\ pending_wr' = pending_wr \ {a}
          /\ UNCHANGED <<pending_rd, return_queue>>
          /\ IF a \in pending_wr /\ LegalNow(t, b) THEN phase' = "schedule" ELSE Abort
       \/ /\ t \notin ColumnCmds
          /\ UNCHANGED pendVars
          /\ IF LegalNow(t, b) THEN phase' = "schedule" ELSE Abort

\* FinishRefresh gives the refresh at the head of the queue, or a precharge
\* that prepares it.
IssueForRefresh ==
    /\ phase = "issue"
    /\ refresh_q # <<>>
    /\ LET ref == Head(refresh_q)
       IN  \/ /\ RefPrecharges(ref) # {}
              /\ \E b \in RefPrecharges(ref) :
                    /\ \A c \in RefPrecharges(ref) : b <= c
                    /\ IssueCommand("PRECHARGE", b, NoRow, NoRow)
              /\ is_in_ref' = TRUE
              /\ ref_q_indices' = {b \in Banks : Held(b)}
              /\ UNCHANGED refresh_q
           \/ /\ RefPrecharges(ref) = {}
              /\ RefReady(ref)
              /\ IssueCommand(ref.type, ref.bank, NoRow, NoRow)
              /\ is_in_ref' = FALSE
              /\ ref_q_indices' = {}
              /\ refresh_q' = Tail(refresh_q)
    /\ UNCHANGED <<config, cosimVars, transVars, cmdVars, refVars>>

\* The queue GetCommandToIssue reaches after k steps of its round robin.
QueueAt(k) == (queue_idx + k) % NumBanks

\* The rounds at which it finds a command, a refresh having been looked at.
Rounds == {k \in 1 .. NumBanks : ~Held(QueueAt(k)) /\ IssuableIn(QueueAt(k)) # {}}

\* The queue it takes the command from.
NextQueue == {QueueAt(k) : k \in {j \in Rounds : \A l \in Rounds : j <= l}}

NoRefreshNow == refresh_q # <<>> => ~NextFor(Head(refresh_q))

HoldQueues ==
    /\ is_in_ref' = (refresh_q # <<>>)
    /\ ref_q_indices' = {b \in Banks : Held(b)}

\* The first command of the queue with the same address and type.
EraseRWCommand(b, i) ==
    queues' = [queues EXCEPT ![b] = RemoveFirstMatch(@, LAMBDA e : e = queues[b][i])]

\* GetCommandToIssue: the first queue in turn with a command that can leave,
\* or can have its row opened or closed.
IssueQueued ==
    /\ phase = "issue"
    /\ NoRefreshNow
    /\ \E b \in NextQueue : \E i \in {Min(IssuableIn(b))} : \E e \in {queues[b][i]} :
       \E t \in {Needed(b, ColumnCmd(e.is_write), RowOf(e.addr))} :
           /\ IssueCommand(t, b, e.addr, RowOf(e.addr))
           /\ IF t \in ColumnCmds THEN EraseRWCommand(b, i) ELSE UNCHANGED queues
           /\ queue_idx' = b
    /\ HoldQueues
    /\ UNCHANGED <<config, cosimVars, transVars, refresh_q, refVars>>

IssueNothing ==
    /\ phase = "issue"
    /\ NoRefreshNow
    /\ Rounds = {}
    /\ phase' = "schedule"
    /\ HoldQueues
    /\ UNCHANGED <<config, cosimVars, transVars, pendVars, cmdVars, bankVars, refresh_q, refVars>>

----------------------------------------------------------------------------
(* phase schedule: ScheduleTransaction, then clk_ advances: every time      *)
(* still to wait gets shorter by one.                                       *)

Less(n) == IF n > 0 THEN n - 1 ELSE 0

AdvanceClock ==
    /\ timing' = [b \in Banks |-> [t \in CmdTypes |-> Less(timing[b][t])]]
    /\ four_aw' = [r \in DOMAIN four_aw |-> [j \in DOMAIN four_aw[r] |-> Less(four_aw[r][j])]]
    /\ return_queue' = [j \in DOMAIN return_queue |-> [return_queue[j] EXCEPT !.wait = Less(@)]]
    /\ resp_read' = [j \in DOMAIN resp_read |-> [resp_read[j] EXCEPT !.wait = Less(@)]]
    /\ resp_write' = [j \in DOMAIN resp_write |-> [resp_write[j] EXCEPT !.wait = Less(@)]]

\* Whether writes are scheduled: the buffer is full, or past its lower
\* threshold with nothing else to do, and then until it is empty.
Draining ==
    IF /\ write_draining = 0
       /\ \/ Len(write_buffer) >= TransQueueSize
          \/ Len(write_buffer) > DrainThreshold /\ \A b \in Banks : queues[b] = <<>>
    THEN Len(write_buffer)
    ELSE write_draining

\* The first transaction of s whose command queue has room, 0 without one.
FirstAccepted(s) == SelectInSeq(s, LAMBDA a : Len(queues[BankOf(a)]) < CmdQueueSize)

AddCommand(a, w) ==
    queues' = [queues EXCEPT ![BankOf(a)] = Append(@, [addr |-> a, is_write |-> w])]

\* Mutant: a write that waits for a read keeps the buffer draining.
ScheduleWrite_KeepDraining(i) ==
    IF pending_rd[write_buffer[i]] > 0
    THEN /\ write_draining' = Draining
         /\ UNCHANGED <<queues, write_buffer>>
    ELSE /\ AddCommand(write_buffer[i], TRUE)
         /\ write_buffer' = RemoveAt(write_buffer, i)
         /\ write_draining' = Draining - 1

\* A write whose address has a read pending ends the draining instead.
ScheduleWrite(i) ==
    \/ /\ pending_rd[write_buffer[i]] > 0
       /\ write_draining' = 0
       /\ UNCHANGED <<queues, write_buffer>>
    \/ /\ pending_rd[write_buffer[i]] = 0
       /\ AddCommand(write_buffer[i], TRUE)
       /\ write_buffer' = RemoveAt(write_buffer, i)
       /\ write_draining' = Draining - 1

ScheduleRead(i) ==
    /\ AddCommand(read_queue[i], FALSE)
    /\ read_queue' = RemoveAt(read_queue, i)

ScheduleTransaction ==
    /\ phase = "schedule"
    /\ phase' = "idle"
    /\ \/ /\ Draining > 0
          /\ \E i \in {FirstAccepted(write_buffer)} \ {0} : ScheduleWrite(i)
          /\ UNCHANGED read_queue
       \/ /\ Draining = 0
          /\ \E i \in {FirstAccepted(read_queue)} \ {0} : ScheduleRead(i)
          /\ UNCHANGED <<write_buffer, write_draining>>
       \/ /\ FirstAccepted(IF Draining > 0 THEN write_buffer ELSE read_queue) = 0
          /\ write_draining' = Draining
          /\ UNCHANGED <<read_queue, write_buffer, queues>>
    /\ AdvanceClock
    /\ UNCHANGED <<config, req_list, pending_rd, pending_wr, queue_idx, inRefVars, bank,
                   refresh_q, refVars>>

----------------------------------------------------------------------------
Clock == \/ ReturnDoneTrans \/ RefreshClockTick
         \/ IssueForRefresh \/ IssueQueued \/ IssueNothing \/ ScheduleTransaction

Next ==
    \/ \E a \in config.addrs : AddRead(a) \/ AddWrite(a)
    \/ TakeRead \/ TakeWrite
    \/ Clock

Spec == Init /\ [][Next]_vars

\* The emulator ticks the memory in every cycle and looks for a response of
\* either kind between two clocks. That is a moment which comes and goes, so a
\* response that waits in every cycle needs strong fairness to be taken.
Fairness == WF_vars(Clock) /\ SF_vars(TakeRead) /\ SF_vars(TakeWrite)

FairSpec == Spec /\ Fairness

----------------------------------------------------------------------------
(* Properties.                                                              *)

\* Every variable has its type, and every queue keeps its capacity.
TypeOK ==
    /\ config \in Configs
    /\ phase \in {"idle", "return", "issue", "schedule", "aborted"}
    /\ req_list \in Seq(Request)
    /\ resp_read \in Seq(Response) /\ resp_write \in Seq(Response)
    /\ read_queue \in Seq(Addr) /\ Len(read_queue) <= TransQueueSize
    /\ write_buffer \in Seq(Addr) /\ Len(write_buffer) <= TransQueueSize
    /\ write_draining \in 0 .. Len(write_buffer)
    /\ pending_rd \in [Addr -> Nat]
    /\ pending_wr \subseteq Addr
    /\ return_queue \in Seq(Transaction)
    /\ queues \in [Banks -> Seq(Request)]
    /\ \A b \in Banks : Len(queues[b]) <= CmdQueueSize
    /\ queue_idx \in Banks
    /\ is_in_ref \in BOOLEAN /\ ref_q_indices \subseteq Banks
    /\ bank \in [Banks -> [row : Rows \cup {NoRow}, hits : 0 .. RowHitLimit]]
    /\ timing \in [Banks -> [CmdTypes -> Nat]]
    /\ four_aw \in [0 .. Ranks - 1 -> Seq(Nat)]
    /\ \A r \in 0 .. Ranks - 1 : Len(four_aw[r]) <= ActivateLimit
    /\ refresh_q \in Seq([type : RefreshCmds, bank : Banks])
    /\ refresh_in \in Nat /\ next_ref \in Banks

\* No step reaches an abort() or exit(1): every command fits the state of its
\* bank, every issued read or write is still pending, and every finished
\* transaction finds the request it answers.
NoAbort == phase # "aborted"

\* Every place a transaction of address a that is not issued can be.
Places(a, w) ==
    Cardinality({i \in DOMAIN (IF w THEN write_buffer ELSE read_queue) :
                    (IF w THEN write_buffer ELSE read_queue)[i] = a})
      + Cardinality({i \in DOMAIN queues[BankOf(a)] :
                        queues[BankOf(a)][i] = [addr |-> a, is_write |-> w]})

\* The maps of pending transactions describe the queues: an address is pending
\* exactly when one transaction for it, and no more, is waiting, so merging a
\* request into a pending one never loses it and never issues it twice.
PendingMatchesQueues ==
    phase # "aborted" =>
        \A a \in Addr :
            /\ Places(a, FALSE) = IF pending_rd[a] > 0 THEN 1 ELSE 0
            /\ Places(a, TRUE)  = IF a \in pending_wr THEN 1 ELSE 0

\* With staggered refresh a rank is refreshed before the next refresh falls
\* due, whatever traffic there is: the queues it holds back stay quiet and the
\* banks can be closed in time.
RefreshOnTime ==
    config.refresh = "RANK_LEVEL_STAGGERED" => Len(refresh_q) <= 1

\* The memory as the AXI side sees it.
Count(s, P(_)) == Cardinality({i \in DOMAIN s : P(s[i])})

Port == INSTANCE DramPort WITH
    reads  <- [a \in Addr |-> Count(req_list, LAMBDA r : r.addr = a /\ ~r.is_write)
                                + Count(resp_read, LAMBDA r : r.addr = a)],
    writes <- [a \in Addr |-> Count(req_list, LAMBDA r : r.addr = a /\ r.is_write)
                                + Count(resp_write, LAMBDA r : r.addr = a)]

\* The channel implements the port: it answers only what was asked, each
\* request once.
ImplementsPort == Port!Spec

\* With one read and one write outstanding (ram.cpp) every request is answered:
\* no scheduling decision leaves a read behind the writes, or a command behind
\* a refresh, for ever.
EveryRequestAnswered == Port!Answers

\* Every rank is refreshed again and again, not only the first one.
EveryRankRefreshed ==
    \A r \in 0 .. Ranks - 1 :
        []<>(\E b \in RankBanks(r) : timing[b]["REFRESH"] = T.tRFC)
=============================================================================
