--------------------------- MODULE NemuTcache ---------------------------
(* NEMU's trace cache (libraries/NEMU/src/cpu/tcache.c) and the loop of     *)
(* cpu-exec.c that runs it: decoded instructions are kept in basic blocks,  *)
(* and the last instruction of a block is linked to the blocks it can go    *)
(* to. A block that is not decoded yet is stood for by a record taken from  *)
(* a free list; when it is decoded the link is patched and the record freed.*)
EXTENDS Integers

CONSTANTS
    Programs,       \* programs NEMU is given, see NemuInterp
    TcacheSize,     \* CONFIG_TCACHE_SIZE
    NumRecords,     \* TCACHE_BB_SIZE
    BBListSize,     \* CONFIG_BB_LIST_SIZE
    BBPoolSize      \* CONFIG_BB_POOL_SIZE

ASSUME TcacheAssumption ==
    /\ TcacheSize \in Nat \ {0} /\ NumRecords \in Nat \ {0}
    /\ BBListSize \in Nat \ {0} /\ BBPoolSize \in Nat

Kinds == {"N", "S", "U", "J", "B", "I", "X", "F"}

\* What may be found at p: the instruction of the program, or the one a store
\* puts there.
Possible(P, p) ==
    {P.code[p]} \cup
    {i \in {P.patch} : \E q \in DOMAIN P.code : \E j \in {P.code[q], P.patch} :
                          j.kind = "S" /\ p \in j.to}

\* A program goes from each of its addresses to another of them.
ASSUME ProgramsAssumption == \A P \in Programs :
    /\ DOMAIN P.code \subseteq Nat
    /\ P.start \in DOMAIN P.code /\ P.handler \in DOMAIN P.code
    /\ \A p \in DOMAIN P.code : \A i \in Possible(P, p) :
        /\ i \in [kind : Kinds, to : SUBSET DOMAIN P.code]
        /\ i.kind \in {"J", "B"} => i.to # {}
        /\ i.kind \in {"N", "S", "U", "B", "F"} => p + 1 \in DOMAIN P.code

VARIABLES
    program,        \* the program that runs
    code, seen,     \* memory, and its contents since the last fence.i
    tc,             \* the trace cache: entries, records and basic blocks
    tcache_state,   \* TCACHE_RUNNING or TCACHE_BB_BUILDING
    bb_now, bb_now_record,  \* the block being built, the record it replaces
    s,              \* the entry to run next (prev_s between two batches)
    phase           \* execute, or the loop of cpu_exec around it

memVars   == <<program, code, seen>>
buildVars == <<tcache_state, bb_now, bb_now_record>>
vars == <<memVars, tc, buildVars, s, phase>>

Entries == 1 .. TcacheSize                      \* tcache_pool
Records == TcacheSize + 1 .. TcacheSize + NumRecords    \* tcache_bb_pool
Null == 0
Ex   == -1                                      \* the static Decode ex

\* EHelper = g_exec_nemu_decode: the entry has to be decoded when it is run.
NotDecoded == [kind |-> "decode", to |-> {}]

\* An entry of either pool. For a record tnext is the link of the free list
\* and ntnext is bb_src.
Fresh(pc) == [pc |-> pc, instr |-> NotDecoded, tnext |-> Null, ntnext |-> Null, type |-> 0]

----------------------------------------------------------------------------
(* tcache.c: every operator gives the cache after a function of that name.  *)

tcache_flush(addresses) ==
    [pool    |-> [e \in Entries \cup Records |->
                     [Fresh(-1) EXCEPT !.tnext =
                         IF e \in Records /\ e + 1 \in Records THEN e + 1 ELSE Null]],
     tc_idx  |-> 0,
     free    |-> TcacheSize + 1,
     bb      |-> [p \in addresses |-> Null],
     bb_idx  |-> 0,
     abort   |-> FALSE]

\* Mutant: the pool has one entry more than it has.
HasRoom_OneMore(t) == t.tc_idx <= TcacheSize

\* tcache_new gives an entry only while there is one.
HasRoom(t) == t.tc_idx < TcacheSize

tcache_new(t, pc) ==
    [t EXCEPT !.tc_idx = @ + 1, !.pool[t.tc_idx + 1] = Fresh(pc)]

\* tcache_bb_new: the record is the head of the free list, which must have one.
tcache_bb_new(t, pc) ==
    IF t.free = Null THEN [t EXCEPT !.abort = TRUE]
    ELSE [t EXCEPT !.free = t.pool[t.free].tnext, !.pool[t.free] = Fresh(pc)]

tcache_bb_free(t, r) == [t EXCEPT !.pool[r].tnext = t.free, !.free = r]

SetNext(t, e, is_taken, to) ==
    IF e \notin DOMAIN t.pool THEN t
    ELSE IF is_taken THEN [t EXCEPT !.pool[e].tnext = to]
    ELSE [t EXCEPT !.pool[e].ntnext = to]

\* A block whose bucket is in use takes a node of the pool.
Bucket(t, pc) == {p \in DOMAIN t.bb : p % BBListSize = pc % BBListSize /\ t.bb[p] # Null}

bb_full(t, pc) == Bucket(t, pc) # {} /\ t.bb_idx = BBPoolSize

bb_insert(t, pc, fill) ==
    [t EXCEPT !.bb[pc] = fill, !.bb_idx = IF Bucket(t, pc) = {} THEN @ ELSE @ + 1]

\* The entry tcache_bb_fetch links to.
Fetched(t, jpc) == IF t.bb[jpc] # Null THEN t.bb[jpc] ELSE t.free

tcache_bb_fetch(t, e, is_taken, jpc) ==
    IF t.bb[jpc] # Null THEN SetNext(t, e, is_taken, t.bb[jpc])
    ELSE IF t.free = Null THEN [t EXCEPT !.abort = TRUE]
    ELSE SetNext([tcache_bb_new(t, jpc) EXCEPT
                     !.pool[t.free].type = IF is_taken THEN 2 ELSE 1,
                     !.pool[t.free].ntnext = e],
                 e, is_taken, t.free)

\* Mutant: the record is freed and the link to it left as it is.
tcache_patch_and_free_NoPatch(t, r, bb) == tcache_bb_free(t, r)

\* Mutant: the record is never freed.
tcache_patch_and_free_NoFree(t, r, bb) ==
    IF t.pool[r].type = 0 THEN t ELSE SetNext(t, t.pool[r].ntnext, t.pool[r].type = 2, bb)

\* The link that leads to record r now leads to bb.
tcache_patch_and_free(t, r, bb) ==
    LET rec == t.pool[r]
    IN  tcache_bb_free(IF rec.type = 0 THEN t ELSE SetNext(t, rec.ntnext, rec.type = 2, bb), r)

tcache_jr_fetch(t, e, jpc) ==
    tcache_bb_fetch([t EXCEPT !.pool[e].ntnext = t.pool[e].tnext], e, TRUE, jpc)

----------------------------------------------------------------------------
Init ==
    /\ program \in Programs
    /\ code = program.code
    /\ seen = [p \in DOMAIN code |-> {code[p]}]
    /\ tc = tcache_bb_new(tcache_flush(DOMAIN code), program.start)
    /\ tcache_state = "RUNNING" /\ bb_now = Null /\ bb_now_record = Null
    /\ s = TcacheSize + 1
    /\ phase = "execute"

Pc == tc.pool[s].pc
Decoded == tc.pool[s].instr # NotDecoded

\* A step stays within the program: what runs off its end is not modelled.
Running(t) == phase' = IF t.abort THEN "aborted" ELSE "execute"
Between(t) == phase' = IF t.abort THEN "aborted" ELSE "loop"

\* tcache_handle_exception(jpc) on cache t. bb_now and bb_now_record mean nothing
\* until the next block is begun, and keep what they are.
HandleException(t, jpc) ==
    /\ tc' = tcache_bb_fetch(t, Ex, TRUE, jpc)
    /\ s' = IF tc'.abort THEN s ELSE Fetched(t, jpc)
    /\ tcache_state' = "RUNNING"
    /\ UNCHANGED <<bb_now, bb_now_record>>

----------------------------------------------------------------------------
(* tcache_decode, the EHelper of what is not decoded.                       *)

\* The block is already decoded: it is linked to, and run.
DecodeFound ==
    /\ phase = "execute" /\ ~Decoded
    /\ tcache_state = "RUNNING" /\ tc.bb[Pc] # Null
    /\ tc' = tcache_patch_and_free(tc, s, tc.bb[Pc])
    /\ s' = tc.bb[Pc]
    /\ UNCHANGED <<memVars, buildVars, phase>>

\* Mutant: the instruction is decoded again without anything being dropped.
Full_KeepsAll ==
    /\ tcache_state' = "RUNNING"
    /\ Between(tc)
    /\ UNCHANGED <<memVars, tc, bb_now, bb_now_record, s>>

\* A pool is full: everything is dropped and the instruction decoded again.
Full ==
    /\ tc' = tcache_bb_new(tcache_flush(DOMAIN code), Pc)
    /\ s' = TcacheSize + 1
    /\ bb_now' = Null /\ bb_now_record' = Null
    /\ tcache_state' = "RUNNING"
    /\ Between(tc')
    /\ UNCHANGED memVars

\* What the end e of block now, which replaces record old, is linked to.
Link(t, e, now, old) ==
    LET instr == t.pool[e].instr
        u     == tcache_patch_and_free(bb_insert(t, t.pool[now].pc, now), old, now)
    IN  CASE instr.kind = "J" ->
                tcache_bb_fetch(u, e, TRUE, CHOOSE p \in instr.to : TRUE)
          [] instr.kind = "B" ->
                tcache_bb_fetch(tcache_bb_fetch(u, e, TRUE, CHOOSE p \in instr.to : TRUE),
                                e, FALSE, t.pool[e].pc + 1)
          [] OTHER -> SetNext(SetNext(u, e, TRUE, e), e, FALSE, e)

EndsBlock(instr) == instr.kind \in {"J", "B", "I", "X"}

\* Entry e of cache t is decoded; it belongs to the block that starts at now.
FetchDecode(t, e, now, old) ==
    LET instr == code[t.pool[e].pc]
        u     == [t EXCEPT !.pool[e].instr = instr]
    IN  \/ /\ ~EndsBlock(instr) /\ HasRoom(u)
           /\ tc' = tcache_new(u, u.pool[e].pc + 1)
           /\ s' = e
           /\ tcache_state' = "BUILDING" /\ bb_now' = now /\ bb_now_record' = old
           /\ UNCHANGED <<memVars, phase>>
        \/ /\ EndsBlock(instr) /\ ~bb_full(u, u.pool[now].pc)
           /\ tc' = Link(u, e, now, old)
           /\ s' = e
           /\ tcache_state' = "RUNNING" /\ bb_now' = Null /\ bb_now_record' = Null
           /\ Running(tc')
           /\ UNCHANGED memVars
        \/ /\ IF EndsBlock(instr) THEN bb_full(u, u.pool[now].pc) ELSE ~HasRoom(u)
           /\ Full

\* Mutant: the record of the block that is given up is freed, still linked to.
FetchFault_Frees(t) ==
    /\ Pc \in program.faults
    /\ HandleException(tcache_bb_free(t, IF tcache_state = "RUNNING" THEN s ELSE bb_now_record),
                       program.handler)
    /\ Running(tc')
    /\ UNCHANGED memVars

\* The fetch traps after the entry was made: the block is given up.
FetchFault(t) ==
    /\ Pc \in program.faults
    /\ HandleException(t, program.handler)
    /\ Running(tc')
    /\ UNCHANGED memVars

\* The first instruction of a block.
DecodeFirst ==
    /\ phase = "execute" /\ ~Decoded
    /\ tcache_state = "RUNNING" /\ tc.bb[Pc] = Null
    /\ \/ ~HasRoom(tc) /\ Full
       \/ /\ HasRoom(tc)
          /\ LET t == tcache_new(tc, Pc)
                 e == t.tc_idx
             IN  FetchDecode(t, e, e, s) \/ FetchFault(t)

\* The next instruction of the block.
DecodeNext ==
    /\ phase = "execute" /\ ~Decoded
    /\ tcache_state = "BUILDING"
    /\ FetchDecode(tc, s, bb_now, bb_now_record) \/ FetchFault(tc)

----------------------------------------------------------------------------
(* execute: a decoded instruction runs.                                     *)

Executes(kinds) ==
    /\ phase = "execute" /\ Decoded
    /\ tc.pool[s].instr.kind \in kinds

\* The end of a block may be the end of a batch.
EndOfBlock(t) == Running(t) \/ Between(t)

ExecNormal ==
    /\ Executes({"N", "S", "U"})
    /\ s' = s + 1
    /\ \/ /\ tc.pool[s].instr.kind = "S"
          /\ \E p \in tc.pool[s].instr.to :
                /\ code' = [code EXCEPT ![p] = program.patch]
                /\ seen' = [seen EXCEPT ![p] = @ \cup {program.patch}]
          /\ UNCHANGED phase
       \/ /\ tc.pool[s].instr.kind = "N"
          /\ UNCHANGED <<code, seen, phase>>
       \/ /\ tc.pool[s].instr.kind = "U"
          /\ phase' = "loop"
          /\ UNCHANGED <<code, seen>>
    /\ UNCHANGED <<program, tc, buildVars>>

\* A load or store that traps (longjmp_exception).
ExecFault ==
    /\ Executes({"N", "S"})
    /\ Pc \in program.faults
    /\ HandleException(tc, program.handler)
    /\ Running(tc')
    /\ UNCHANGED memVars

\* rtl_j, rtl_jrelop.
ExecBranch ==
    /\ Executes({"J", "B"})
    /\ s' \in IF tc.pool[s].instr.kind = "J" THEN {tc.pool[s].tnext}
              ELSE {tc.pool[s].tnext, tc.pool[s].ntnext}
    /\ EndOfBlock(tc)
    /\ UNCHANGED <<memVars, tc, buildVars>>

\* rtl_jr, and rtl_priv_jr (ecall, mret, sret), which always leaves execute.
ExecJr ==
    /\ Executes({"I", "X"})
    /\ \E target \in tc.pool[s].instr.to :
        LET taken == tc.pool[s].tnext
            other == tc.pool[s].ntnext
        IN  \/ /\ tc.pool[taken].pc = target
               /\ s' = taken /\ UNCHANGED tc
            \/ /\ tc.pool[taken].pc # target /\ tc.pool[other].pc = target
               /\ s' = other /\ UNCHANGED tc
            \/ /\ tc.pool[taken].pc # target /\ tc.pool[other].pc # target
               /\ tc' = tcache_jr_fetch(tc, s, target)
               /\ s' = tc'.pool[s].tnext
    /\ IF tc.pool[s].instr.kind = "X" THEN Between(tc') ELSE EndOfBlock(tc')
    /\ UNCHANGED <<memVars, buildVars>>

\* Mutant: what was decoded before the fence stays.
ExecFence_KeepsCache ==
    /\ Executes({"F"})
    /\ HandleException(tc, Pc + 1)
    /\ seen' = [p \in DOMAIN code |-> {code[p]}]
    /\ Between(tc')
    /\ UNCHANGED <<program, code>>

\* fence.i and sfence.vma: tcache_handle_flush.
ExecFence ==
    /\ Executes({"F"})
    /\ HandleException(tcache_flush(DOMAIN code), Pc + 1)
    /\ seen' = [p \in DOMAIN code |-> {code[p]}]
    /\ Between(tc')
    /\ UNCHANGED <<program, code>>

----------------------------------------------------------------------------
(* The loop of cpu_exec: an interrupt is taken, or execute called again.    *)

Interrupt ==
    /\ phase = "loop"
    /\ program.irq
    /\ HandleException(tc, program.handler)
    /\ Running(tc')
    /\ UNCHANGED memVars

Resume ==
    /\ phase = "loop"
    /\ phase' = "execute"
    /\ UNCHANGED <<memVars, tc, buildVars, s>>

Next == \/ DecodeFound \/ DecodeFirst \/ DecodeNext
        \/ ExecNormal \/ ExecFault \/ ExecBranch \/ ExecJr \/ ExecFence
        \/ Interrupt \/ Resume

Spec == Init /\ [][Next]_vars

\* One thread, which never waits.
FairSpec == Spec /\ WF_vars(Next)

----------------------------------------------------------------------------
(* Properties.                                                              *)

Instructions == [kind : Kinds, to : SUBSET DOMAIN code]

\* Every variable has its type; no pool is used past its end.
TypeOK ==
    /\ tc.pool \in [Entries \cup Records ->
                       [pc : {-1} \cup DOMAIN code,
                        instr : Instructions \cup {NotDecoded},
                        tnext : {Null} \cup Entries \cup Records,
                        ntnext : {Null, Ex} \cup Entries \cup Records, type : 0 .. 2]]
    /\ tc.tc_idx \in 0 .. TcacheSize /\ tc.bb_idx \in 0 .. BBPoolSize
    /\ tc.free \in {Null} \cup Records
    /\ tc.bb \in [DOMAIN code -> {Null} \cup Entries]
    /\ tcache_state \in {"RUNNING", "BUILDING"}
    /\ bb_now \in {Null} \cup Entries /\ bb_now_record \in {Null} \cup Records
    /\ s \in Entries \cup Records
    /\ phase \in {"execute", "loop", "aborted"}

\* The records that every set of records holds which the free list cannot leave.
FreeOf(t) ==
    {r \in Records : \A F \in SUBSET Records :
        (/\ t.free \in F \cup {Null}
         /\ \A q \in F : t.pool[q].tnext \in F \cup {Null}) => r \in F}

FreeRecords == FreeOf(tc)

\* The free list ends: no record was freed twice, so none is ever given to
\* two branches.
FreeListEnds ==
    FreeRecords # {} => \E r \in FreeRecords : tc.pool[r].tnext = Null

\* The entry that runs next is not a free record, nor is the record of the
\* block that is being built: a link outlives its record in no branch that is
\* taken again.
InUse ==
    phase # "aborted" =>
        /\ s \notin FreeRecords
        /\ tcache_state = "BUILDING" => bb_now_record \notin FreeRecords

\* assert(s != NULL) of tcache_bb_new: with one record for each block there can
\* be and two to spare, the free list is never empty when a record is needed.
NoAbort == phase # "aborted"

Interp == INSTANCE NemuInterp WITH pc <- Pc

\* The trace cache is the plain interpreter, only faster: whatever is decoded,
\* linked, dropped, interrupted or overwritten, the next instruction is one
\* the plain loop would run next, in a form memory had since the last fence.
ImplementsInterpreter == Interp!Spec

\* tcache_jr_fetch moves a link to a record into ntnext. When the record's block
\* is decoded, tnext is patched (its type is TAKEN) and ntnext goes on leading
\* to the record, which is free. A jump leads to a record and runs again only
\* after an interrupt or a fault came before the block was decoded.
MovesRecord ==
    /\ Executes({"I", "X"})
    /\ tc.pool[s].tnext \in Records
    /\ tc'.pool[s].ntnext = tc.pool[s].tnext

Exec == ExecNormal \/ ExecBranch \/ ExecJr \/ ExecFence

\* Instructions go on being run: dropping the cache when a pool is full always
\* makes the room that the block needs.
KeepsExecuting == []<><<Exec>>_vars
=============================================================================
