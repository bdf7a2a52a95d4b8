# Verification of the OSCPU processors and of the simulators they run in

TLA+ models of the two pipelined RV64 processors of this repository, of the bus
and data path of one of them, of the memory model behind that bus (DRAMsim3),
and of the reference model that difftest compares the processors with (NEMU);
TLC configurations that check the models on small instances; and proofs, checked
by TLAPS, for instances of every size.

All paths below are relative to `src/`. `A/` stands for
`projects/cpu_axi_diff/vsrc/`, `D/` for `projects/cpu_diff/vsrc/`, `M/` for
`libraries/DRAMsim3/src/`, `N/` for `libraries/NEMU/src/`.

## 1. The system

| Component | Source | State it keeps | Operations | Status |
|---|---|---|---|---|
| AXI interface | `A/axi_rw.sv`, `A/atributer.sv`, `A/SimTop.sv`, `libraries/difftest/.../ram.cpp` | read and write machines, beat counter, data, completion pulse; the memory's pending requests | arbitrate, address / data / answer handshakes, completion | modelled |
| cpu_axi_diff pipeline | `A/cpu.sv`, `ifu`, `idu`, `exu`, `lsu`, `wbu`, `bru`, `bypass`, `pipe_*`, `regfile` | pc, stage registers and valid bits, registers | one clock edge; stall, squash, forward, jump | partly |
| traps | `A/csr.sv` | mstatus, mie, mtvec, mepc, mcause, keep | ecall, mret, CSR instructions, timer interrupt, flush | partly |
| timer | `A/clint.sv` | mtime, mtimecmp | tick, memory-mapped write | a free input |
| ALU | `A/alu.sv`, `A/bru.sv` | none | arithmetic, comparisons | partly |
| byte lanes | `A/lsu.sv`, `A/axi_rw.sv` | none | masks and shifts of loads and stores | modelled |
| cpu_diff pipeline | `D/*.sv` | pc, stage registers, registers | one clock edge | partly |
| difftest | `libraries/difftest/.../difftest.cpp` | has_commit, last_commit, copies of the state | step, first commit, interrupt, commit, compare | partly |
| DRAM channel | `M/cosimulation.cc`, `controller.cc`, `command_queue.cc`, `channel_state.cc`, `bankstate.cc`, `timing.cc`, `refresh.cc` | requests and answers, transaction and command queues, pending maps, bank states, timers, refreshes due | add a request, take an answer, one memory clock | partly |
| NEMU loop and trace cache | `N/cpu/tcache.c`, `N/cpu/cpu-exec.c` | decoded entries, basic blocks, records and their free list | decode, execute, fault, fence, interrupt | modelled |
| NEMU privileged state | `N/isa/riscv64/system/{priv,intr}.c` | mode, mstatus, delegation, satp, epc, tval | traps, mret, sret, CSR writes | partly |
| NEMU address translation | `N/isa/riscv64/system/mmu.c`, `N/memory/host-tlb.c`, `N/isa/riscv64/instr/rvi/decode.h` | host TLB, cached translation state, state decoded into loads and stores | walk, fill, hit, fence | partly |
| driver | `emu.cpp`, `main.cpp` | reset, trap and cycle counters | tick | not modelled |
| ysyxSoC, chisel_cpu_diff, cpu, counter, dpi-c, finish, soc, bin; NEMU's monitor and devices; DRAMsim3's statistics | | | | not modelled: section 6 |

**How they interact.** The processor of cpu_axi_diff has five stages and one
bus. `atributer.sv` gives the bus to the load or store in MEM, otherwise to the
fetch stage. `axi_rw.sv` turns the request of the moment into AXI handshakes
with the memory of `ram.cpp`, which asks DRAMsim3 when an access is over: it
adds a request, ticks the channel once a cycle and looks for an answer by
address. One cycle after the last handshake a one-bit pulse and the identifier
of the answer say whose request is complete. WB leaves the pipeline only when
the *next* fetch completes (`pipe_ls_wb.sv`, `wb_ready` is the fetch handshake),
and traps take effect there. `cpu.sv` tells difftest, every cycle, of an
instruction committed or an interrupt taken; difftest then steps NEMU and
compares registers and CSRs. cpu_diff has the same five stages over a memory
that answers in the same cycle, without valid bits, stalls for memory, or traps.
NEMU runs an instruction through its trace cache; loads and stores go to host
memory directly or through a host TLB over the guest's page table.

**What is hard.**
- Requests change while the bus works on them: a load enters MEM with a fetch in
  flight, a flush changes the address being fetched, a bubble withdraws the
  request for one cycle. Nothing is cancelled on the bus, so answers arrive for
  requests nobody makes any more.
- One counter, one data register and one completion pulse serve all requests.
- Stage registers keep their contents when their valid bit falls, and bypass,
  jump and trap logic look at contents. An instruction can meet itself.
- An interrupt comes at any cycle and cancels an instruction that is half done.
- A jump stays in ID after it has left and computes its target again.
- In cpu_diff three stages can hold a value for one register; a store next to
  the load of its data takes it one stage later.
- Every wait ends only if another component moves: WB waits for a fetch, the
  fetch for the bus, the bus for the memory and for MEM, MEM for WB.
- In the DRAM channel reads, buffered writes, refreshes and open rows compete
  for one command a clock. Requests for one address are merged in maps kept
  beside the queues. A command that no longer fits its bank ends the simulation.
- NEMU remembers what it has decoded and translated. Every fence, fault and full
  pool must drop what is stale and keep the links between blocks whole.
- Mode, mstatus and satp change in many places, and the translation state is a
  copy of what follows from them.

**What makes each part correct.** Bus: each requester gets exactly the answer to
its request; memory changes by the store in MEM only; everyone is served.
Pipelines: the result is that of executing one instruction after another.
Traps: control, CSRs and registers go where the reference takes them. Reports:
after each, processor and reference agree, and reports never cease. Data path:
the same results as NEMU. DRAM: only what was asked is answered, all of it in
the end, refreshes are in time, no abort. NEMU: the trace cache runs what the
plain loop would; returns restore what traps saved; translations are those of
the page table.

## 2. The modules

| Module | Models |
|---|---|
| `AxiBus` | bus interface and memory: state, signals of a cycle, one operator per `always` block, `BusCycle` |
| `AxiSys` | `AxiBus` with its two requesters, the specification of the whole; its properties and `BusInv` |
| `Rv64` | instructions as the decoders tell them apart, results and jumps |
| `Isa` | abstract specification: a machine that executes one instruction after another |
| `CpuDiff` | cpu_diff; refines `Isa` |
| `RvSys` | ecall, mret and CSR instructions, and the reference model with interrupts |
| `CpuAxi` | cpu_axi_diff with traps and the reports to difftest, beside the reference model |
| `Datapath` | `alu.sv`, the comparisons of `bru.sv` and the byte lanes, beside NEMU's operators |
| `DramTiming` | `timing.cc`, `channel_state.cc`, `bankstate.cc`: which command may follow which, and when |
| `Dram` | a channel under the interface `ram.cpp` calls; refines `DramPort` |
| `DramPort` | abstract specification: a memory that answers what it was asked |
| `NemuInterp` | abstract specification: fetch, decode and execute the instruction at pc |
| `NemuTcache` | the trace cache and the loop around it; refines `NemuInterp` |
| `NemuPriv` | modes, traps, delegation, interrupts, returns, the cached translation state |
| `NemuMmu` | page table, host TLB, translation state in decoded instructions |
| `MC*` | small instances of each |
| `AxiSysProofs`, `CpuDiffProofs`, `CpuAxiProofs`, `DramProofs`, `DatapathProofs`, `NemuTcacheProofs`, `NemuPrivProofs`, `NemuMmuProofs` | theorems |

`AxiSys` extends `AxiBus`; `CpuDiff` and `RvSys` extend `Rv64`; `CpuAxi` extends
`RvSys`; `Dram` extends `DramTiming`. `CpuDiff` instantiates `Isa`, `Dram`
instantiates `DramPort` and `NemuTcache` instantiates `NemuInterp` under a
refinement mapping. Definitions named `X_Something` under a comment `Mutant:`
are wrong variants of `X`, used only to show that a property notices them.

### AxiBus and AxiSys

One step is one clock cycle: registers hold the values after a rising edge, and
`e`, one choice for each channel of the memory, says what the DRAM does before the next edge
(`dramsim3_helper_falling`, then `dramsim3_helper_rising`). Each `always` block
of `axi_rw.sv` is one operator (`WriteFsm`, `ReadFsm`, `LenCounter`, `RwReady`,
`DataRead`), `SlaveRead` and `SlaveWrite` are the two halves of `ram.cpp`.

- An address is a bus word. `over` marks an access that crosses its word, which
  becomes a burst of two beats. Each beat remembers the word, the value, and the
  address whose lanes cut it, so a beat cut for another request is noticed.
- Identifiers on the wires are undefined until the memory first drives them:
  any value (`BusInit`).
- The requesters are reduced to what they ask: `Advance` is the walk of the
  last fetched instruction through the stages, `MemArrives` its request in MEM,
  `Flush` a trap in WB. What the pipeline must keep for this to be right is
  `RequestContract` of `CpuAxi`; what `CpuAxi` takes from the bus in return
  (`MayFetch`) is `FetchAlone` of `AxiSys`. `MayFetch` asks it also of the bubble that a
  discarded word leaves in the pipeline for three cycles and `AxiSys` does not follow.
- `SlowReads`: an answer to a read comes no earlier than the last fetched
  instruction has reached MEM (and, if it is a store, has been acknowledged).
  DRAMsim3 takes tens of cycles for a read, the pipeline three. This is
  an assumption of the design, not of the model: with a memory that answers at
  once a load would wait in MEM behind an undrained WB, whose fetch it blocks.
  Writes are acknowledged by `ram.cpp` out of its buffer.

### Rv64, Isa and CpuDiff

Arithmetic (`Alu`, `Add`, `Taken`) is a parameter. The decoder's many
instructions are eight kinds: what a pipeline must get right is which operands
reach them and what they change. `Program` is the set of instructions that may be
found at an address, chosen again at each fetch, so all programs are covered in
one run.

`CpuDiff` has one variable per stage register and one operator per stage module;
`Next` is their conjunction, the clock edge. A bubble has `diffpc = NoPc`.
The refinement mapping gives `Isa` the registers including the write in WB
(`regfile.o_regs`), memory as it is, and as program counter the oldest
instruction that has not passed MEM (`NextToComplete`).

### RvSys and CpuAxi

`Edge(f, m, t)` is a clock edge in which the fetch completes (f), the access in
MEM completes (m), and the timer is pending (t). Stage contents and valid bits are
separate variables, since csr.sv, bru.sv and bypass.sv read contents only. The
reference `ref` is stepped by what `cpu.sv` reports, and `cmt` is the report of
the last cycle with the values difftest compares.

- A CSR is a value. `MIE`, `MTIE`, `Trap`, `Return`, `LowBits` say what traps
  and CSR instructions do with it; MPP and the fields above are left out, mtvec
  is in direct mode.
- The word at `PC_START` goes through the pipeline twice after reset (`ifu.o_pc`
  and `bru.o_pc` start equal) and is reported once. The images start with an
  instruction for which that makes no difference; the instances put a NOP or a
  load of a constant there. `RepeatableStart` is what the proofs ask of it.
- The reference starts with the processor's registers and memory, as
  `do_first_instr_commit` copies them.
- `InitOnce`: `A/bru.sv:34` and `A/exu.sv:30` declare `logic x = e`. SystemVerilog
  evaluates that once, before time 0; a continuous assignment is meant, and the riscv-tests
  program for jalr works only with it. FALSE is the continuous reading, used in
  all listed runs. `CpuAxiJalrOnce.cfg` shows the other one to be wrong.
- `Avoids` names situations a program stays clear of, each a disagreement
  between processor and reference (section 5).

### Datapath

Processor and NEMU execute the same instruction on one register and one
doubleword; every step computes both sides from the state, so sequences of
operations feed results back as operands. `ByteBits` scales the whole design:
eight bytes to a register, four to a W operand. `Exact` states, for each
operation, the operands for which `alu.sv` and `bru.sv` are meant to be right.

### DramTiming and Dram

A memory clock is three phases in the order of `Controller::ClockTick`: return
what is done (with the callback that pairs it with a request), tick the refresh
timer, issue a command and schedule a transaction. Requests are added and answers taken between
clocks. A wait is stored as the clocks that are left, so no counter grows; the
C++ stores the clock at which it ends.

- `timing.cc` fills tables by relation (same bank, same group, same rank, other
  rank) and by pair of commands; `Delay` is that table as a function, written
  from the same parameters.
- `AnswerSoon` and the two pending sets are the merging of `AddTransaction`: a
  read of a buffered write is answered at once, a second read or write of an
  address joins the first.
- `Abort` stands for each `AbruptExit`, `abort` or failed pairing.
- `config` is chosen at the start: page policy, refresh policy and the addresses
  in use.

### NemuInterp and NemuTcache

An instruction is a kind (ordinary, store, system, jump, branch, indirect jump,
trap or return, fence) and the addresses it may go to; what it computes is free.
`tc` holds the pool of decoded entries, the pool of records, and the list of
blocks. `s` is the C variable of that name: the entry that runs next. The
refinement maps `pc` to the address of `s`: every execution of an entry, fault
and interrupt is a step of the plain loop, every decoding a stutter. An overwritten
instruction may run in its old form until a fence (`seen`), as the C code and the
architecture allow. Programs are closed: no instruction leads out of them
(`ProgramsAssumption`). `FreeRecords` is the least set of records that the free
list cannot leave, which needs no recursion and is right for a list with a cycle.
`MovesRecord` names one step of `tcache_jr_fetch`: an indirect jump that has
linked a record moves the link from `tnext` to `ntnext`.

### NemuPriv and NemuMmu

`NemuPriv` has one action per trap cause, per return and per writable CSR; the
history variable `frame` remembers what the last trap to each mode interrupted.
The program is any sequence of these. `NemuMmu` has a kernel that edits leaf
entries and satp, fences and is preempted by M mode, and loads and stores that
run from the trace cache; `changed` and `moved` record what it has not fenced
yet, and the properties speak of the rest (`Settled`). The walk is one step: NEMU is
one thread.

## 3. The runs

| Run | What it asks | Size |
|---|---|---|
| `axisys` | every answer reaches the right requester with the right data; memory changes by the store in MEM only; no fetch completes beside a load or store; every load, every store within a doubleword and every fetch that is not withdrawn is served | 2 words, 2 values; 29,836 states |
| `cpudiff` | cpu_diff refines `Isa`; a load costs one bubble at most | 304,938 states |
| `cpuaxi_plain` | without traps, registers and memory agree with the reference; the bus is asked as it needs to be | 3 values; 31,818 states |
| `cpuaxi_trap` | with traps and interrupts at any cycle, registers and CSRs agree with the reference at each report, and reports never cease | 4 values; ~306,000 states |
| `datapath` | the same register, memory and branches as NEMU after any sequence of operations | 8-bit registers, 7 operands; 65,536 states |
| `dram_safety` | no abort; merged requests neither lost nor repeated; refreshes do not pile up; the channel refines `DramPort` | 2 banks, 3 addresses, four configurations; 1,360,971 states |
| `dram_live` | every request is answered, every rank refreshed for ever | 2 ranks, 2 addresses; 145,553 states |
| `nemu_tcache` | the trace cache refines the plain loop; free list and links stay whole; execution never stops | three programs of 5 or 6 instructions, pools of 6 entries and 7 records; 21,046 states |
| `nemu_priv` | the cached translation state, returns, mret, delegation and fault addresses | 2 interrupts, 3 causes; 386,048 states |
| `nemu_mmu` | host TLB and decoded state agree with page table and mode; D bits are complete | 2 pages in one slot, 3 frames, 2 sites; 589,944 states |
| `cpudiff_load_store` (violation) | a store right after the load of its base and data | 2 values |
| `nemu_tcache_records` (violation) | the free list of the trace cache never runs out | one program of 4 instructions |

**Why the bounds are enough to be interesting.** *Bus:* a fetch, a load and a
store can be at the same word or at different ones, a burst can wrap onto the word being
fetched, and no more than one read and one write are ever outstanding; the
safety part is proved for all sizes. *cpu_diff:* one register besides x0 lets
every stage hold a value for it, which is the hardest case of forwarding; the
arithmetic is not symmetric, so swapped or stale operands give other results;
the refinement is proved for all sizes. *cpu_axi_diff:* addresses are a ring, so every jump
target and every trap vector is also an ordinary address; four values are the
smallest number that hold MIE, MPIE and MTIE apart. *Data path:* with one-bit
bytes all 256 values of a register occur, with the boundaries of both widths and
of the sign among the operands, at every offset and size; no operation treats a
wider byte differently. *DRAM:* two rows of one bank force row conflicts,
queues of two are full and empty, two addresses beyond the limit of one
outstanding request keep transactions waiting, and the shortest timing
parameters keep the order of a DDR4 part's while refresh is due every few
commands; `MaxRefreshes` bounds the refreshes that wait, and `RefreshOnTime`
shows that staggered refresh never reaches it. *Trace cache:* the pools are filled in the middle
of a block, the record pool has the spare records of the original and no more,
and the programs have every kind of instruction, faults, interrupts and code
that is overwritten. *Privileged state:* all values of every field that is used.
*MMU:* pages compete for one slot, one frame is a device, one site runs in each mode.

`cpuaxi_trap` fixes the register file and memory at reset to zero
(`TrapSpec`), `cpuaxi_plain` starts from any contents.

**Fairness.** The clock never stops: WF of the next-state relation.
- For the bus and `CpuAxi` the memory is the environment: it completes each
  transaction it accepted and does not refuse one for ever, hence strong
  fairness of each channel handshake in `AxiSys` (strong, because a request can be
  withdrawn and made again), and, in `CpuAxi`, weak fairness of an edge without
  an answer, one with a fetch and one with an access. That the memory does so is
  `EveryRequestAnswered` of `Dram`.
- In `Dram` the clock is weakly fair, since the emulator ticks the memory every
  cycle. `TakeRead` and `TakeWrite` are strongly fair: `ram.cpp` looks for an
  answer once a cycle, between two clocks; the action is disabled while a clock
  runs and enabled again after it, for as long as the answer waits.
- In `NemuTcache` the loop goes on: WF of `Next`.

No fairness is assumed of a processor beyond its clock.

## 4. The proofs

| Theorem | Assumes | States |
|---|---|---|
| `AxiSysProofs!BusInvariant` | SlowReads | `BusInv` is an invariant of `AxiSys` |
| `TypeCorrect`, `AtMostOneInFlight`, `LoadsCorrect`, `StoresCorrect`, `FetchesCorrect`, `FetchesAlone`, `MemoryCorrect` | SlowReads | the safety properties of `axisys` |
| `CpuDiffProofs!PipeInvariant` | ~LoadStoreSame | `PipeInv` is an invariant of `CpuDiff` |
| `SequentialExecution` | ~LoadStoreSame | `CpuDiff` implements `Isa` |
| `OneBubble` | | `StallsOnce` |
| `CpuAxiProofs!OneInPipeline` | | cpu_axi_diff holds one valid instruction at a time |
| `ContractKept`, `TypeCorrect` | | `RequestContract`, `TypeOK` |
| `DifftestAlwaysAgrees`, `StateAlwaysAgrees` | Conditions | `DifftestAgrees`, `StateAgrees` |
| `DatapathProofs!ResultsCorrect`, `BranchesCorrect` | ~AnyOperand, ~AnyAddress | `ResultsAgree`, `BranchesAgree` |
| `DramProofs!TypeCorrect`, `NeverAborts`, `PendingAlwaysMatchesQueues` | | `TypeOK`, `NoAbort`, `PendingMatchesQueues` |
| `Implements` | | `Dram` implements `DramPort` |
| `RefreshInTime` | RefreshFits | `RefreshOnTime` |
| `NemuTcacheProofs!TypeCorrect` | | `TypeOK` |
| `RecordsInUse`, `FreeListAlwaysEnds` | no step is `MovesRecord` | `InUse`, `FreeListEnds` |
| `Implements` | no step is `MovesRecord` | `NemuTcache` implements `NemuInterp` |
| `PlainPrograms` | each program has neither interrupts nor faults, or no indirect jump | all three |
| `RecordsSuffice` | no program has interrupts or faults, EnoughRecords | `NoAbort` |
| `NemuPrivProofs!TypeCorrect`, `TrapsReturn`, `InterruptsDelegated` | | `TypeOK`, `ReturnRestores`, `DelegatedInterrupts` |
| `MmuStateKept`, `MretLowers`, `FaultsReported` | sret is not executed in M mode | `MmuStateCurrent`, `MretNeverRaises`, `FaultAddress` |
| `NemuMmuProofs!TypeCorrect` | | `TypeOK` |
| `DecodedKept` | OneMode | `DecodedCurrent` |
| `TlbKeptCoherent`, `DirtyBitsKept` | OwnLeaves, OneMode | `TlbCoherent`, `DirtyMarked` |

Every theorem holds for every value of the constants and rests only on the
ASSUMEs the modules name, which give the parameters the types their comments
give, and on the condition in the table. A configuration that drops a condition
shows the violation (section 5), except for `RepeatableStart`, which describes
the images, `Arithmetic`, which says of the uninterpreted functions what
their Verilog does, and `RefreshFits`, which describes the ini files.

- **BusInv.** No safety property of the bus is inductive: that a load gets its
  data depends on what is in flight when it arrives. `BusInv` lists the phases
  of a read (none, a fetch in flight, the load of MEM in flight, halfway through
  its burst) and of a write (none, address, data, answer) with the transaction the memory
  holds in each, what the beat counter may be, and what a pending
  completion pulse means. `ReadOutcome`, `WriteOutcome`, `LenOutcome` and
  `ReadyOutcome` are the steps of the four parts, which `SameRequest` and
  `NewRequest` put together for an edge that keeps the request and one that changes it.
- **PipeInv** says that each stage already holds what its instruction will find
  when those ahead of it are done: operands in EX against the registers after
  MEM, results in MEM against the registers after WB, and that the address
  behind each instruction is where the reference goes. `Forwarding` shows that the bypass returns
  exactly that; `StepSimulates` maps an edge to one step or a stutter of `Isa`.
- **OneAtATime** is inductive as it stands, from `MayFetch` alone: the
  pipeline of cpu_axi_diff is in effect a multi-cycle processor.
- **AgreeInv.** `DifftestAgrees` speaks of the cycles in which something is
  reported. The invariant says what holds in between, with one instruction (or
  none) in flight: where fetching stands (`PcInv`), which word of the program
  the instruction is and that the reference is about to execute it (`WordInv`),
  what each stage has computed of it so far (`StageInv`), and that registers, memory
  and CSRs are the reference's, those in WB up to what the instruction has
  written already (`StateInv`). Stage registers keep their contents, so `Follows`
  says that every stage the instruction has passed still holds that instruction
  and no other: nothing stale can forward, jump or trap. mtvec, mepc and mcause
  are written from the first cycle in WB on, again and again (`Early`), so their
  value is stated for both sides of the write. `RepeatInv` is about the first word,
  which runs twice and is reported once: the second time changes nothing, and no
  interrupt can come between, as mie is clear at reset.
- **Conditions** of the two theorems: `Careful`, that the program is clear of
  the seven disagreements or has no system instructions; `~InitOnce`;
  `RepeatableStart`; and `Arithmetic`: an instruction is not its own successor,
  a trap disables interrupts, the operand of csrrci has low bits only.
- **SameInv**, that both sides hold the same words and bytes, is all the data path
  needs; the work is in the arithmetic. `Least` (a set of natural
  numbers has a least element, which is induction by the least counterexample)
  and the library's count of the subsets of a set give the laws of powers of two; `DivMod`
  to `DivBounds` are those of quotients and remainders. From them: what a shift brings
  in above the sign does not reach the low bits (`ShiftRight`), the difference
  of one bit more than the operands compares them (`Comparisons`), n bytes make
  a number below 2^(8n) (`FromBytesTyped`, a telescoping sum). `SameResult`,
  `SameBranch`, `SameLoad` and `SameStore` are the four statements about one instruction.
  `~AnyOperand` keeps to the operands `Exact` allows, `~AnyAddress` to aligned stores:
  outside them the code computes something else (section 5).
- **DramInv.** That a bank's queue accepts what is scheduled, and that a
  callback finds its request, does not follow from the queues alone. `PendingInv` says
  that an address marked pending has exactly one transaction in the transaction
  queue or in a command queue and any other address none; `HomeInv`, that a command queue
  holds its own bank's transactions, so a command that is issued removes the
  entry it was made for; `RequestInv`, that the requests without an answer are, for
  each address and direction, the merged reads not issued plus the transactions
  that are about to return. With these `NoAbort` is inductive. The lemmas about
  `CountIn` count the entries of a sequence when one is appended or removed.
  `TimingAssumption` asks of the parameters that the refresh intervals divide
  to at least one clock. The refinement maps the port's open requests to those in
  `req_list` and in the answers not taken; accepting and taking are its two
  steps, a clock is a stutter.
- **DueInv** is a schedule: while a refresh of a rank waits, the clocks left until the
  next one falls due are enough to wait out each open bank, to precharge the
  open banks one in a clock, and to wait tRP (`ClosesWithin`). A precharge makes
  one bank fewer (`PrechargeHelps`), a clock in which nothing can be done brings every
  bank a clock closer (`ClockHelps`), and commands that leave meanwhile
  go to another rank, as the queues of this one are held, and add nothing to its
  times (`ElsewhereSame`). **BusyInv** bounds the times a refresh starts with.
  `RefreshFits` is the condition on the ini file: the longest of read to
  precharge, write to precharge and tRAS, plus tRP, plus a clock for each bank of
  a rank, is less than the interval tREFI / ranks, and so is tRFC. All 88
  ini files under DRAMsim3's `configs/` satisfy it, XiangShan.ini among them, and so
  does the instance TLC checks. It is sufficient and not sharp: on that instance, whose
  interval is 8 clocks, TLC finds `RefreshOnTime` violated with 2 and not yet with 3.
- **TypeInv** of the trace cache says which shape the pools have: an entry that
  is decoded and does not end a block is followed by the entry of the next
  instruction; the list of blocks and the links lead to whole blocks or to
  records; the block being built ends at `tc_idx`. A fault in the middle of a
  block leaves it without an end: nothing leads to it, which is why `Complete` is
  part of the invariant.
- **LinkInv** ties links to records: a record in use stands for one side of one
  entry, that link leads to it, and no link leads to a free record; no two
  free records have the same successor and none has the first. From that the
  free list ends, by counting: a list without an end maps the free records
  one to one into those that are not the first. The refinement (`StepMoves`) needs
  that a link goes where the instruction goes (`Leads`).
- **MovesRecord** is not excluded by the code: `NemuTcacheStale` shows that the
  free list becomes a cycle after such a step, when an interrupt has come between linking and
  decoding. `PlainPrograms` shows where it cannot happen: without indirect jumps
  there is no such link, and without interrupts and faults a record that a jump
  leads to runs next or has its block built now (`JumpInv`), and that block
  replaces the link before the jump can run again.
- **CountInv** is what `RecordsSuffice` adds: the records in use are at most one for
  each bucket in use plus one for the block that is looked for or being built. A
  jump takes a record only for a target without one, decoding the target frees
  it when its block goes into a bucket, and a flush, which comes before either
  pool of blocks overflows, frees all. `EnoughRecords` asks for one record more than `BBListSize`
  and `BBPoolSize` together; tcache.c has `CONFIG_TCACHE_SIZE / 4 + 2` of them, 2050
  by default, next to 1024 and 1024. That after a
  flush every record is on the free list is proved with `Least`.
- **FramesKept** ties the history of a trap to the registers of its handler, for
  both handlers at once: a trap to M mode leaves what S mode saved, and the
  reverse. **LowerInv** has the two facts that only hold together: the
  translation state is a function of mode, mstatus and satp, and below M mode
  MPP is U. The second is why mret need not look at the mode.
- **TlbInv** says of each entry that its page is settled only if the entry is
  what a walk would find, with its A or D bit. It needs **StateInv**: an
  instruction decoded for translation never fills the TLB untranslated unless a
  change of satp is still to be fenced. That needs `OneMode`, and a page-wise
  fence covers what the kernel relies on only with `OwnLeaves`.

`AxiSys`'s `TypeOK` and `OneInFlight` are consequences of `BusInv` and checked by
TLC through it; `TypeOK` of `NemuPriv` is proved and in no run of its own.

**Only model-checked:** the programs of
`NemuTcache` that interrupts or faults disturb for `NoAbort` (they do abort, see
section 5), and for its other properties those that move links; all liveness (`MemServed`, `FetchServed`, `KeepsCommitting`,
`EveryRequestAnswered`, `EveryRankRefreshed`, `KeepsExecuting`), which this
prover does not reach, as it does not reach ENABLED or the library's induction
theorems, which take an operator as a parameter. No module has a recursive
operator.

## 5. Where the code disagrees with what it says

Counterexamples of the two violation runs:

1. `D/bypass.sv:82`: `ld x1,0(x2); sd x1,0(x1)` computes its address from the
   old x1. The comment says no bubble is needed.
2. `N/cpu/tcache.c:52`: when a return or an indirect jump has linked a record
   for a target that is not decoded yet and an interrupt comes before it runs,
   the record is lost at the next such jump. The free list runs out and
   `assert(s != NULL)` ends the program.

Further configurations, each violated, beside the listed runs:

| Configuration (module) | Property | What it shows |
|---|---|---|
| `AxiSysOverStore` (`MCAxiSys`) | `StoreServed` | a store that crosses an 8-byte boundary announces two beats and sends one; the memory waits, the processor hangs (`A/axi_rw.sv:291`) |
| `CpuDiffStart` (`MCCpuDiff`) | `DifftestEnabled` | the commit at 0x80000000, the only one that makes difftest start, is never reported (`D/SimTop.sv:318`) |
| `CpuAxiMretInterrupted` (`MCCpuAxi`; so are the next five) | `DifftestAgrees` | mret with a pending timer commits, but the next fetch is at mtvec (`A/bru.sv:84`) |
| `CpuAxiStoreInterrupted` | | a store that an interrupt cancels has already been written (`A/cpu.sv:641`) |
| `CpuAxiCsrrwRd` | | csrrw and csrrwi do not write their register (`A/exu.sv:35`) |
| `CpuAxiEcallInterrupted` | | an interrupt at an ecall is reported with its mcause (`A/csr.sv:167`) |
| `CpuAxiCsrInterrupted` | | an interrupted write of mtvec or mie takes place (`A/csr.sv:95`, `:127`) |
| `CpuAxiJalrOnce` | | see `InitOnce` |
| `DatapathOperands` (`MCDatapath`) | `ResultsAgree` | division by zero, signed division, MULH, MULHSU and SLT on the operands `Exact` excludes (`A/alu.sv:98`) |
| `DramSimultaneous` (`MCDram`) | `EveryRankRefreshed` | RANK_LEVEL_SIMULTANEOUS leaves its loop after the first rank (`M/refresh.cc:36`) |
| `NemuTcacheStale` (`MCNemuTcache`) | `FreeListEnds` | moving a link to a record whose block was given up leaves the copy in `ntnext` when the record is freed (`N/cpu/tcache.c:152`, `:157`); taken again, the record is freed twice and the free list becomes a cycle |
| `NemuPrivMtval` (`MCNemuPriv`) | `FetchFaultMtval` | a fetch fault handled in M mode leaves its address in stval (`N/isa/riscv64/system/mmu.c:57`) |
| `NemuPrivSret` (`MCNemuPriv`) | `MmuStateCurrent` | sret executed in M mode leaves translation off (`N/isa/riscv64/system/priv.c:168`) |
| `NemuMmuSuper` (`MCNemuMmu`) | `TlbCoherent` | a page-wise fence of a superpage drops one page of it (`N/memory/host-tlb.c:33`) |
| `NemuMmuShared` (`MCNemuMmu`) | `DecodedCurrent` | a load run in M and in S mode keeps the state it was decoded with (`N/isa/riscv64/instr/rvi/decode.h:66`) |

Three more need a constant changed in a configuration that is there:

- `CpuAxiTrap` with "ecall_masked" left out of `Avoids`: ecall with MIE clear
  leaves mstatus (`A/csr.sv:71`), against `DifftestAgrees`.
- `CpuAxiCsrrwRd` with `SPECIFICATION Spec` and, in `Avoids`, "csrrw_rd" in place of
  "csrrc_high": csrrc changes bits 4:0 only (`A/exu.sv:33`), against the same.
- `DatapathOperands` with `AnyAddress = TRUE` and `AnyOperand = FALSE`: a misaligned
  half or word store writes nothing (`A/lsu.sv:112`), against `ResultsAgree`.

`cpuaxi_trap` avoids the seven trap situations and finds none besides; the runs
of the other modules avoid what their configurations show and find none besides.

## 6. Not modelled

- **cpu_axi_diff:** the registers of `clint.sv` (the interrupt is a free input,
  which covers every timer); mip, mscratch, sstatus and vectored mtvec; the
  opcodes 0x6b (end of simulation) and 0x7b (output); the iterative multiplier
  and divider, which the build does not define; reset in mid-run.
- **difftest:** device instructions that are skipped, store and refill checks,
  several cores. **Driver:** a sequential loop around `Difftest::step`.
- **DRAMsim3:** self-refresh, dual commands of HBM, one queue for a rank or a
  channel, GDDR's window of 32 activations: no configuration of the repository
  turns them on. Statistics, the thermal solver, the memory cube.
- **NEMU:** accesses that cross a page, translated fetches, U-mode permissions;
  floating point, vectors and atomics; devices and monitor; other instruction sets.
- **ysyxSoC** is vendored and no processor is connected to it; **chisel_cpu_diff** is a
  single-cycle example; **cpu, counter, dpi-c, finish, soc** are exercises of a
  few registers; **bin** holds images.
- Verilated, vendored and numeric sources (json, catch, fmt, SuperLU, bbl,
  kconfig) have no state of this system.

## 7. Plan

Done: bus, both pipelines, traps and difftest, data path and lanes, DRAM
channel, trace cache, privileged state, address translation; proofs of the
safety properties of the bus, of both pipelines, of the DRAM channel, of the
privileged state and the MMU, and of the trace cache where no link to a record
is moved; that its records suffice where nothing interrupts; that staggered
refreshes are in time; the data path for words of any width; refinement proofs
for cpu_diff, the channel and the trace cache.

Worth proving next: `CpuAxi` refines the stage part of `AxiSys`, so that the two
models compose by proof and not only by their two contracts.

Worth modelling: `clint.sv` with the enables held by MEM; translated fetches and
the fences that do not flush the trace cache; the first-commit and skip logic of
difftest with its limits.
