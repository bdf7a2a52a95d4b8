------------------------- MODULE NemuTcacheProofs -------------------------
(* NEMU's trace cache for every program and every size of its pools, in     *)
(* three parts:                                                             *)
(*  - its types, and more: what is decoded is in whole blocks, and every    *)
(*    link leads to a whole block or to a record (TypeInv);                 *)
(*  - as long as no link to a record is moved (MovesRecord), a record in    *)
(*    use stands for one link and that link leads to it (LinkInv). So the   *)
(*    free list ends, no record runs after it was freed, and the cache      *)
(*    implements the plain interpreter. No link to a record is moved by a   *)
(*    program that nothing interrupts, nor by one without indirect jumps;   *)
(*  - the records are enough for a program that nothing interrupts          *)
(*    (CountInv).                                                           *)
EXTENDS NemuTcache, FiniteSetTheorems, WellFoundedInduction, TLAPS

----------------------------------------------------------------------------
(* Caches.                                                                  *)

Nodes == Entries \cup Records

\* The addresses of the program.
Dom == DOMAIN program.code

Instrs(D) == [kind : Kinds, to : SUBSET D]

Node(D) ==
    [pc : {-1} \cup D, instr : Instrs(D) \cup {NotDecoded},
     tnext : {Null} \cup Nodes, ntnext : {Null, Ex} \cup Nodes, type : 0 .. 2]

Cache(D) ==
    [pool : [Nodes -> Node(D)], tc_idx : 0 .. TcacheSize, free : {Null} \cup Records,
     bb : [D -> {Null} \cup Entries], bb_idx : 0 .. BBPoolSize, abort : BOOLEAN]

IsDecoded(t, e) == t.pool[e].instr # NotDecoded

Ends(t, e) == EndsBlock(t.pool[e].instr)

\* Entry e is in a block whose end is decoded.
Complete(t, e) ==
    /\ e \in Entries
    /\ \E f \in Entries : /\ e <= f /\ Ends(t, f)
                          /\ \A g \in Entries : e <= g /\ g <= f => IsDecoded(t, g)

\* What may run next between two blocks.
Target(t, x) ==
    /\ x \in Nodes /\ t.pool[x].pc # -1
    /\ x \in Records \/ Complete(t, x)

\* Entry e is decoded in a form that memory had, and the next entry is for the
\* next instruction.
Follows(t, e, forms) ==
    /\ e <= t.tc_idx /\ t.pool[e].pc # -1
    /\ t.pool[e].instr \in forms[t.pool[e].pc]
    /\ ~Ends(t, e) => e + 1 <= t.tc_idx /\ t.pool[e + 1].pc = t.pool[e].pc + 1

\* Entries follow each other as the instructions do; records stand in the free
\* list or for a link of an entry; the list of blocks leads to whole blocks.
Shaped(t, D, forms) ==
    /\ \A e \in Entries : IsDecoded(t, e) => Follows(t, e, forms)
    /\ \A r \in Records :
        /\ ~IsDecoded(t, r)
        /\ t.pool[r].tnext \in {Null} \cup Records /\ t.pool[r].ntnext \in {Null, Ex} \cup Entries
    /\ \A p \in D : t.bb[p] # Null => Complete(t, t.bb[p]) /\ t.pool[t.bb[p]].pc = p

\* The links an instruction uses: taken (tnext) and not taken (ntnext).
Sides(instr) ==
    IF instr.kind = "J" THEN {TRUE}
    ELSE IF instr.kind \in {"B", "I", "X"} THEN BOOLEAN ELSE {}

NextOf(t, e, b) == IF b THEN t.pool[e].tnext ELSE t.pool[e].ntnext

\* The links lead somewhere, but for those of X.
Linked(t, X) ==
    \A e \in Entries : \A b \in Sides(t.pool[e].instr) :
        <<e, b>> \notin X => Target(t, NextOf(t, e, b))

----------------------------------------------------------------------------
(* Types.                                                                   *)

\* What memory holds, and what it held, is in the program.
SeenInv ==
    /\ program \in Programs
    /\ DOMAIN code = Dom /\ DOMAIN seen = Dom
    /\ \A p \in Dom : code[p] \in seen[p] /\ seen[p] \subseteq Possible(program, p)

\* The block that is being built: all of it but the last entry is decoded.
Building ==
    /\ bb_now \in Entries /\ bb_now_record \in Records
    /\ bb_now < tc.tc_idx /\ s \in {tc.tc_idx - 1, tc.tc_idx}
    /\ \A g \in Entries : bb_now <= g /\ g < tc.tc_idx => IsDecoded(tc, g) /\ ~Ends(tc, g)
    /\ ~IsDecoded(tc, tc.tc_idx)

\* What runs next.
RunInv ==
    /\ tc.pool[s].pc # -1
    /\ tcache_state = "RUNNING" => s \in Records \/ Complete(tc, s)
    /\ tcache_state = "BUILDING" => Building

TypeInv ==
    /\ SeenInv
    /\ tc \in Cache(Dom) /\ Shaped(tc, Dom, seen)
    /\ s \in Nodes
    /\ tcache_state \in {"RUNNING", "BUILDING"}
    /\ bb_now \in {Null} \cup Entries /\ bb_now_record \in {Null} \cup Records
    /\ phase \in {"execute", "loop", "aborted"}
    /\ tc.abort <=> phase = "aborted"
    /\ ~tc.abort => Linked(tc, {}) /\ RunInv

----------------------------------------------------------------------------
(* The operators of tcache.c keep the types.                                *)

LEMMA Numbers ==
    /\ \A e \in Entries : e \in Int /\ e \notin Records /\ e # Null /\ e # Ex /\ e \in Nodes
    /\ \A r \in Records : r \in Int /\ r \notin Entries /\ r # Null /\ r # Ex /\ r \in Nodes
    /\ TcacheSize + 1 \in Records
    /\ Null \notin Nodes /\ Ex \notin Nodes
  BY TcacheAssumption DEF Entries, Records, Nodes, Null, Ex

LEMMA Positions ==
    /\ TcacheSize \in Nat
    /\ \A k \in Int : 1 <= k /\ k <= TcacheSize => k \in Entries
    /\ \A e \in Entries : 1 <= e /\ e <= TcacheSize
  BY TcacheAssumption DEF Entries

LEMMA Fields ==
    ASSUME NEW D, NEW t \in Cache(D)
    PROVE  /\ t.pool \in [Nodes -> Node(D)] /\ t.tc_idx \in 0 .. TcacheSize
           /\ t.free \in {Null} \cup Records /\ t.bb \in [D -> {Null} \cup Entries]
           /\ t.bb_idx \in 0 .. BBPoolSize /\ t.abort \in BOOLEAN
  BY DEF Cache

LEMMA NodeFields ==
    ASSUME NEW D, NEW t \in Cache(D), NEW n \in Nodes
    PROVE  /\ t.pool[n] \in Node(D)
           /\ t.pool[n].pc \in {-1} \cup D
           /\ t.pool[n].instr \in Instrs(D) \cup {NotDecoded}
           /\ t.pool[n].tnext \in {Null} \cup Nodes /\ t.pool[n].ntnext \in {Null, Ex} \cup Nodes
           /\ t.pool[n].type \in 0 .. 2
  BY DEF Cache, Node

LEMMA FreshTyped ==
    ASSUME NEW D, NEW pc \in {-1} \cup D
    PROVE  Fresh(pc) \in Node(D)
  BY DEF Fresh, Node

LEMMA SetNextOf ==
    ASSUME NEW D, NEW t \in Cache(D), NEW e \in {Null, Ex} \cup Entries, NEW b \in BOOLEAN,
           NEW x \in Nodes, NEW u, u = SetNext(t, e, b, x)
    PROVE  /\ u \in Cache(D)
           /\ u.tc_idx = t.tc_idx /\ u.free = t.free /\ u.bb = t.bb
           /\ u.bb_idx = t.bb_idx /\ u.abort = t.abort
           /\ \A n \in Nodes : /\ u.pool[n].pc = t.pool[n].pc
                               /\ u.pool[n].instr = t.pool[n].instr
                               /\ u.pool[n].type = t.pool[n].type
                               /\ n # e => u.pool[n] = t.pool[n]
           /\ e \in Entries => /\ NextOf(u, e, b) = x
                               /\ \A c \in BOOLEAN : c # b => NextOf(u, e, c) = NextOf(t, e, c)
  <1>1. DOMAIN t.pool = Nodes
    BY Fields
  <1>2. CASE e \notin Entries
    <2>1. e \notin DOMAIN t.pool
      BY <1>1, <1>2, Numbers
    <2>2. u = t
      BY <2>1 DEF SetNext
    <2>3. QED
      BY <1>2, <2>1, <2>2
  <1>3. CASE e \in Entries /\ b
    <2>1. u = [t EXCEPT !.pool[e].tnext = x]
      BY <1>1, <1>3, Numbers DEF SetNext
    <2>2. e \in Nodes /\ t.pool[e] \in Node(D)
      BY <1>3, Numbers, NodeFields
    <2>3. [t.pool[e] EXCEPT !.tnext = x] \in Node(D)
      BY <2>2 DEF Node
    <2>4. u.pool = [t.pool EXCEPT ![e] = [t.pool[e] EXCEPT !.tnext = x]]
      BY <2>1, <2>2, Fields DEF Cache
    <2>5. u \in Cache(D)
      BY <2>1, <2>2, <2>3, <2>4, Fields DEF Cache
    <2>6. /\ u.tc_idx = t.tc_idx /\ u.free = t.free /\ u.bb = t.bb
          /\ u.bb_idx = t.bb_idx /\ u.abort = t.abort
      BY <2>1, <2>2 DEF Cache
    <2>7. /\ u.pool[e] = [t.pool[e] EXCEPT !.tnext = x]
          /\ \A n \in Nodes : n # e => u.pool[n] = t.pool[n]
      BY <2>2, <2>4, Fields
    <2>8. /\ u.pool[e].pc = t.pool[e].pc /\ u.pool[e].instr = t.pool[e].instr
          /\ u.pool[e].type = t.pool[e].type
          /\ u.pool[e].tnext = x /\ u.pool[e].ntnext = t.pool[e].ntnext
      BY <2>2, <2>7 DEF Node
    <2>9. b = TRUE
      BY <1>3
    <2>10. NextOf(u, e, b) = x /\ NextOf(u, e, FALSE) = NextOf(t, e, FALSE)
      BY <2>8, <2>9 DEF NextOf
    <2>11. \A c \in BOOLEAN : c # b => NextOf(u, e, c) = NextOf(t, e, c)
      BY <2>9, <2>10
    <2>12. QED
      BY <1>3, <2>5, <2>6, <2>7, <2>8, <2>10, <2>11
  <1>4. CASE e \in Entries /\ ~b
    <2>1. u = [t EXCEPT !.pool[e].ntnext = x]
      BY <1>1, <1>4, Numbers DEF SetNext
    <2>2. e \in Nodes /\ t.pool[e] \in Node(D)
      BY <1>4, Numbers, NodeFields
    <2>3. [t.pool[e] EXCEPT !.ntnext = x] \in Node(D)
      BY <2>2 DEF Node
    <2>4. u.pool = [t.pool EXCEPT ![e] = [t.pool[e] EXCEPT !.ntnext = x]]
      BY <2>1, <2>2, Fields DEF Cache
    <2>5. u \in Cache(D)
      BY <2>1, <2>2, <2>3, <2>4, Fields DEF Cache
    <2>6. /\ u.tc_idx = t.tc_idx /\ u.free = t.free /\ u.bb = t.bb
          /\ u.bb_idx = t.bb_idx /\ u.abort = t.abort
      BY <2>1, <2>2 DEF Cache
    <2>7. /\ u.pool[e] = [t.pool[e] EXCEPT !.ntnext = x]
          /\ \A n \in Nodes : n # e => u.pool[n] = t.pool[n]
      BY <2>2, <2>4, Fields
    <2>8. /\ u.pool[e].pc = t.pool[e].pc /\ u.pool[e].instr = t.pool[e].instr
          /\ u.pool[e].type = t.pool[e].type
          /\ u.pool[e].ntnext = x /\ u.pool[e].tnext = t.pool[e].tnext
      BY <2>2, <2>7 DEF Node
    <2>9. b = FALSE
      BY <1>4
    <2>10. NextOf(u, e, b) = x /\ NextOf(u, e, TRUE) = NextOf(t, e, TRUE)
      BY <2>8, <2>9 DEF NextOf
    <2>11. \A c \in BOOLEAN : c # b => NextOf(u, e, c) = NextOf(t, e, c)
      BY <2>9, <2>10
    <2>12. QED
      BY <1>4, <2>5, <2>6, <2>7, <2>8, <2>10, <2>11
  <1>5. QED
    BY <1>2, <1>3, <1>4

LEMMA BbNewOf ==
    ASSUME NEW D, NEW t \in Cache(D), NEW pc \in D, t.free # Null,
           NEW u, u = tcache_bb_new(t, pc)
    PROVE  /\ u.pool[t.free] = Fresh(pc)
           /\ \A n \in Nodes : n # t.free => u.pool[n] = t.pool[n]
           /\ u.pool \in [Nodes -> Node(D)]
           /\ u.free = t.pool[t.free].tnext
           /\ u.tc_idx = t.tc_idx /\ u.bb = t.bb /\ u.bb_idx = t.bb_idx /\ u.abort = t.abort
           /\ u.free \in {Null} \cup Records => u \in Cache(D)
  <1>1. u = [t EXCEPT !.free = t.pool[t.free].tnext, !.pool[t.free] = Fresh(pc)]
    BY DEF tcache_bb_new
  <1>2. t.free \in Nodes /\ Fresh(pc) \in Node(D)
    BY Fields, Numbers, FreshTyped
  <1>3. u.pool = [t.pool EXCEPT ![t.free] = Fresh(pc)] /\ u.free = t.pool[t.free].tnext
    BY <1>1, <1>2 DEF Cache
  <1>4. /\ u.tc_idx = t.tc_idx /\ u.bb = t.bb /\ u.bb_idx = t.bb_idx /\ u.abort = t.abort
        /\ u = [pool |-> u.pool, tc_idx |-> t.tc_idx, free |-> u.free, bb |-> t.bb,
                bb_idx |-> t.bb_idx, abort |-> t.abort]
    BY <1>1, <1>2 DEF Cache
  <1>5. QED
    BY <1>2, <1>3, <1>4, Fields DEF Cache

LEMMA BbFreeOf ==
    ASSUME NEW D, NEW t \in Cache(D), NEW r \in Records, NEW u, u = tcache_bb_free(t, r)
    PROVE  /\ u \in Cache(D)
           /\ u.free = r /\ u.pool[r].tnext = t.free
           /\ u.tc_idx = t.tc_idx /\ u.bb = t.bb /\ u.bb_idx = t.bb_idx /\ u.abort = t.abort
           /\ \A n \in Nodes : /\ u.pool[n].pc = t.pool[n].pc
                               /\ u.pool[n].instr = t.pool[n].instr
                               /\ u.pool[n].type = t.pool[n].type
                               /\ u.pool[n].ntnext = t.pool[n].ntnext
                               /\ n # r => u.pool[n] = t.pool[n]
  <1>1. u = [t EXCEPT !.pool[r].tnext = t.free, !.free = r]
    BY DEF tcache_bb_free
  <1>2. r \in Nodes /\ t.pool[r] \in Node(D) /\ t.free \in {Null} \cup Nodes
    BY Fields, Numbers, NodeFields
  <1>3. [t.pool[r] EXCEPT !.tnext = t.free] \in Node(D)
    BY <1>2 DEF Node
  <1>4. u.pool = [t.pool EXCEPT ![r] = [t.pool[r] EXCEPT !.tnext = t.free]] /\ u.free = r
    BY <1>1, <1>2 DEF Cache
  <1>5. /\ u.tc_idx = t.tc_idx /\ u.bb = t.bb /\ u.bb_idx = t.bb_idx /\ u.abort = t.abort
        /\ u = [pool |-> u.pool, tc_idx |-> t.tc_idx, free |-> u.free, bb |-> t.bb,
                bb_idx |-> t.bb_idx, abort |-> t.abort]
    BY <1>1, <1>2 DEF Cache
  <1>6. QED
    BY <1>2, <1>3, <1>4, <1>5, Fields DEF Cache, Node

\* The record tcache_bb_fetch takes from the free list for address pc.
Recorded(t, e, b, pc) ==
    [tcache_bb_new(t, pc) EXCEPT !.pool[t.free].type = IF b THEN 2 ELSE 1,
                                 !.pool[t.free].ntnext = e]

\* The type of a record: 2 is TAKEN, 1 is NTAKEN.
TypeOf(b) == IF b THEN 2 ELSE 1

\* Record r is the one for side b of entry e and address pc.
StandsFor(u, r, e, b, pc) ==
    /\ u.pool[r].pc = pc /\ u.pool[r].instr = NotDecoded
    /\ u.pool[r].tnext = Null /\ u.pool[r].ntnext = e
    /\ u.pool[r].type = TypeOf(b)

LEMMA RecordedOf ==
    ASSUME NEW D, NEW t \in Cache(D), NEW pc \in D, t.free # Null,
           t.pool[t.free].tnext \in {Null} \cup Records,
           NEW e \in {Null, Ex} \cup Entries, NEW b \in BOOLEAN, NEW u, u = Recorded(t, e, b, pc)
    PROVE  /\ u \in Cache(D)
           /\ StandsFor(u, t.free, e, b, pc)
           /\ \A n \in Nodes : n # t.free => u.pool[n] = t.pool[n]
           /\ u.free = t.pool[t.free].tnext
           /\ u.tc_idx = t.tc_idx /\ u.bb = t.bb /\ u.bb_idx = t.bb_idx /\ u.abort = t.abort
  <1> DEFINE v == tcache_bb_new(t, pc)
  <1>1. /\ v.pool[t.free] = Fresh(pc)
        /\ \A n \in Nodes : n # t.free => v.pool[n] = t.pool[n]
        /\ v.free = t.pool[t.free].tnext
        /\ v.tc_idx = t.tc_idx /\ v.bb = t.bb /\ v.bb_idx = t.bb_idx /\ v.abort = t.abort
        /\ v \in Cache(D)
    BY BbNewOf
  <1>2. t.free \in Nodes /\ e \in {Null, Ex} \cup Nodes
    BY Fields, Numbers
  <1> DEFINE k == IF b THEN 2 ELSE 1
             w == [Fresh(pc) EXCEPT !.type = k, !.ntnext = e]
  <1>3. u = [v EXCEPT !.pool[t.free].type = k, !.pool[t.free].ntnext = e]
    BY DEF Recorded
  <1>4. k \in 0 .. 2
    OBVIOUS
  <1> HIDE DEF v, k
  <1>5. w \in Node(D)
    BY <1>2, <1>4, FreshTyped DEF Fresh, Node
  <1>6. u.pool = [v.pool EXCEPT ![t.free] = w]
    <2> DEFINE x == [v EXCEPT !.pool[t.free].type = k]
    <2>1. x.pool = [v.pool EXCEPT ![t.free] = [Fresh(pc) EXCEPT !.type = k]]
      BY <1>1, <1>2 DEF Cache
    <2>2. x.pool[t.free] = [Fresh(pc) EXCEPT !.type = k]
      BY <1>1, <1>2, <2>1 DEF Cache
    <2>3. u.pool = [x.pool EXCEPT ![t.free] = [x.pool[t.free] EXCEPT !.ntnext = e]]
      BY <1>1, <1>3 DEF Cache
    <2>4. [x.pool[t.free] EXCEPT !.ntnext = e] = w
      BY <2>2
    <2>5. QED
      BY <2>1, <2>3, <2>4
  <1>7. /\ u.tc_idx = v.tc_idx /\ u.free = v.free /\ u.bb = v.bb
        /\ u.bb_idx = v.bb_idx /\ u.abort = v.abort
        /\ u = [pool |-> u.pool, tc_idx |-> v.tc_idx, free |-> v.free, bb |-> v.bb,
                bb_idx |-> v.bb_idx, abort |-> v.abort]
    BY <1>1, <1>3 DEF Cache
  <1> HIDE DEF w
  <1>8. u.pool \in [Nodes -> Node(D)] /\ u.pool[t.free] = w
        /\ \A n \in Nodes : n # t.free => u.pool[n] = v.pool[n]
    BY <1>1, <1>2, <1>5, <1>6 DEF Cache
  <1>9. u \in Cache(D)
    BY <1>1, <1>7, <1>8 DEF Cache
  <1>10. StandsFor(u, t.free, e, b, pc)
    BY <1>8 DEF w, k, StandsFor, Fresh, TypeOf
  <1>11. QED
    BY <1>1, <1>7, <1>8, <1>9, <1>10

LEMMA NewOf ==
    ASSUME NEW D, NEW t \in Cache(D), NEW pc \in D, HasRoom(t), NEW u, u = tcache_new(t, pc)
    PROVE  /\ u \in Cache(D)
           /\ t.tc_idx + 1 \in Entries /\ u.tc_idx = t.tc_idx + 1
           /\ u.pool[t.tc_idx + 1] = Fresh(pc)
           /\ \A n \in Nodes : n # t.tc_idx + 1 => u.pool[n] = t.pool[n]
           /\ u.free = t.free /\ u.bb = t.bb /\ u.bb_idx = t.bb_idx /\ u.abort = t.abort
  <1>1. t.tc_idx + 1 \in Entries /\ t.tc_idx + 1 \in 0 .. TcacheSize
    BY Fields, Positions DEF HasRoom
  <1>2. t.tc_idx + 1 \in Nodes /\ Fresh(pc) \in Node(D)
    BY <1>1, Numbers, FreshTyped
  <1>3. /\ u.tc_idx = t.tc_idx + 1 /\ u.pool = [t.pool EXCEPT ![t.tc_idx + 1] = Fresh(pc)]
        /\ u.free = t.free /\ u.bb = t.bb /\ u.bb_idx = t.bb_idx /\ u.abort = t.abort
        /\ u = [pool |-> u.pool, tc_idx |-> u.tc_idx, free |-> t.free, bb |-> t.bb,
                bb_idx |-> t.bb_idx, abort |-> t.abort]
    BY DEF Cache, tcache_new
  <1>4. QED
    BY <1>1, <1>2, <1>3, Fields DEF Cache

\* Entry e is decoded.
DecodedAs(t, e, instr) == [t EXCEPT !.pool[e].instr = instr]

LEMMA DecodedOf ==
    ASSUME NEW D, NEW t \in Cache(D), NEW e \in Entries, NEW instr \in Instrs(D),
           NEW u, u = DecodedAs(t, e, instr)
    PROVE  /\ u \in Cache(D)
           /\ u.pool[e].instr = instr /\ u.pool[e].pc = t.pool[e].pc
           /\ \A n \in Nodes : n # e => u.pool[n] = t.pool[n]
           /\ u.free = t.free /\ u.bb = t.bb /\ u.bb_idx = t.bb_idx /\ u.abort = t.abort
           /\ u.tc_idx = t.tc_idx
  <1>1. e \in Nodes /\ t.pool[e] \in Node(D)
    BY Numbers, NodeFields
  <1>2. [t.pool[e] EXCEPT !.instr = instr] \in Node(D)
    BY <1>1 DEF Node
  <1>3. /\ u.pool = [t.pool EXCEPT ![e] = [t.pool[e] EXCEPT !.instr = instr]]
        /\ u.free = t.free /\ u.bb = t.bb /\ u.bb_idx = t.bb_idx /\ u.abort = t.abort
        /\ u.tc_idx = t.tc_idx
        /\ u = [pool |-> u.pool, tc_idx |-> t.tc_idx, free |-> t.free, bb |-> t.bb,
                bb_idx |-> t.bb_idx, abort |-> t.abort]
    BY <1>1 DEF Cache, DecodedAs
  <1>4. QED
    BY <1>1, <1>2, <1>3, Fields DEF Cache, Node

LEMMA InsertOf ==
    ASSUME NEW D, NEW t \in Cache(D), NEW pc \in D, NEW now \in Entries, ~bb_full(t, pc),
           NEW u, u = bb_insert(t, pc, now)
    PROVE  /\ u \in Cache(D)
           /\ u.pool = t.pool /\ u.free = t.free /\ u.abort = t.abort /\ u.tc_idx = t.tc_idx
           /\ u.bb = [t.bb EXCEPT ![pc] = now]
  <1>1. /\ u.bb = [t.bb EXCEPT ![pc] = now]
        /\ u.bb_idx = IF Bucket(t, pc) = {} THEN t.bb_idx ELSE t.bb_idx + 1
        /\ u.pool = t.pool /\ u.free = t.free /\ u.abort = t.abort /\ u.tc_idx = t.tc_idx
        /\ u = [pool |-> t.pool, tc_idx |-> t.tc_idx, free |-> t.free, bb |-> u.bb,
                bb_idx |-> u.bb_idx, abort |-> t.abort]
    BY DEF Cache, bb_insert
  <1>2. u.bb_idx \in 0 .. BBPoolSize
    BY <1>1, Fields, TcacheAssumption DEF bb_full
  <1>3. QED
    BY <1>1, <1>2, Fields DEF Cache

LEMMA FlushOf ==
    ASSUME NEW D, NEW t, t = tcache_flush(D)
    PROVE  /\ t \in Cache(D)
           /\ \A n \in Nodes : /\ t.pool[n].pc = -1 /\ ~IsDecoded(t, n)
                               /\ t.pool[n].ntnext = Null /\ t.pool[n].type = 0
           /\ \A r \in Records : t.pool[r].tnext = IF r + 1 \in Records THEN r + 1 ELSE Null
           /\ t.free = TcacheSize + 1 /\ t.tc_idx = 0 /\ ~t.abort
           /\ \A p \in D : t.bb[p] = Null
  <1> DEFINE w(e) == [Fresh(-1) EXCEPT !.tnext =
                         IF e \in Records /\ e + 1 \in Records THEN e + 1 ELSE Null]
  <1>1. /\ t.pool = [e \in Nodes |-> w(e)]
        /\ t.free = TcacheSize + 1 /\ t.tc_idx = 0 /\ t.abort = FALSE /\ t.bb_idx = 0
        /\ t.bb = [p \in D |-> Null]
        /\ t = [pool |-> t.pool, tc_idx |-> 0, free |-> TcacheSize + 1, bb |-> t.bb,
                bb_idx |-> 0, abort |-> FALSE]
    BY DEF tcache_flush, Nodes
  <1>2. \A e \in Nodes : w(e) \in Node(D)
    <2> SUFFICES ASSUME NEW e \in Nodes PROVE w(e) \in Node(D)
      OBVIOUS
    <2>1. Fresh(-1) \in Node(D)
      BY FreshTyped
    <2>2. (IF e \in Records /\ e + 1 \in Records THEN e + 1 ELSE Null) \in {Null} \cup Nodes
      BY Numbers
    <2>3. QED
      BY <2>1, <2>2 DEF Node, Fresh
  <1>3. \A e \in Nodes :
            /\ t.pool[e].pc = -1 /\ t.pool[e].instr = NotDecoded
            /\ t.pool[e].ntnext = Null /\ t.pool[e].type = 0
            /\ t.pool[e].tnext = IF e \in Records /\ e + 1 \in Records THEN e + 1 ELSE Null
    BY <1>1 DEF Fresh
  <1>4. t.pool \in [Nodes -> Node(D)]
    BY <1>1, <1>2
  <1>5. 0 \in 0 .. TcacheSize /\ 0 \in 0 .. BBPoolSize /\ t.bb \in [D -> {Null} \cup Entries]
    BY <1>1, TcacheAssumption
  <1>6. t \in Cache(D)
    BY <1>1, <1>4, <1>5, Numbers DEF Cache
  <1>7. QED
    BY <1>1, <1>3, <1>6, Numbers DEF IsDecoded

----------------------------------------------------------------------------
(* Blocks and links are kept.                                               *)

\* u has what is decoded in t, and what has an address keeps one.
Grows(t, u) ==
    /\ \A n \in Nodes : t.pool[n].pc # -1 => u.pool[n].pc # -1
    /\ \A e \in Entries : IsDecoded(t, e) =>
           u.pool[e].instr = t.pool[e].instr /\ u.pool[e].pc = t.pool[e].pc

\* The same instructions at the same addresses.
SameCode(t, u) ==
    \A n \in Nodes : u.pool[n].pc = t.pool[n].pc /\ u.pool[n].instr = t.pool[n].instr

LEMMA EndsDecoded == \A t, e : Ends(t, e) => IsDecoded(t, e)
  BY DEF Ends, EndsBlock, IsDecoded, NotDecoded

LEMMA SidesDecoded == \A t, e, b : b \in Sides(t.pool[e].instr) => Ends(t, e) /\ b \in BOOLEAN
  BY DEF Sides, Ends, EndsBlock

LEMMA GrowsKeeps ==
    ASSUME NEW t, NEW u, Grows(t, u)
    PROVE  /\ \A e : Complete(t, e) => Complete(u, e)
           /\ \A x : Target(t, x) => Target(u, x)
  <1>1. ASSUME NEW e, Complete(t, e) PROVE Complete(u, e)
    <2>1. PICK f \in Entries : /\ e <= f /\ Ends(t, f)
                               /\ \A g \in Entries : e <= g /\ g <= f => IsDecoded(t, g)
      BY <1>1 DEF Complete
    <2>2. Ends(u, f)
      BY <2>1, EndsDecoded DEF Grows, Ends
    <2>3. \A g \in Entries : e <= g /\ g <= f => IsDecoded(u, g)
      BY <2>1 DEF Grows, IsDecoded
    <2>4. QED
      BY <1>1, <2>1, <2>2, <2>3 DEF Complete
  <1>2. ASSUME NEW x, Target(t, x) PROVE Target(u, x)
    BY <1>1, <1>2 DEF Target, Grows
  <1>3. QED
    BY <1>1, <1>2

LEMMA GrowsTrans ==
    ASSUME NEW t, NEW u, NEW v, Grows(t, u), Grows(u, v)
    PROVE  Grows(t, v)
  BY DEF Grows, IsDecoded

\* A cache that differs in its links and records only.
SameBlocks(t, u) ==
    /\ \A e \in Entries : u.pool[e].pc = t.pool[e].pc /\ u.pool[e].instr = t.pool[e].instr
    /\ \A r \in Records : t.pool[r].pc # -1 => u.pool[r].pc # -1
    /\ \A r \in Records :
        /\ ~IsDecoded(u, r)
        /\ u.pool[r].tnext \in {Null} \cup Records /\ u.pool[r].ntnext \in {Null, Ex} \cup Entries
    /\ u.tc_idx = t.tc_idx /\ u.bb = t.bb

LEMMA SameShaped ==
    ASSUME NEW D, NEW F, NEW t \in Cache(D), NEW u, Shaped(t, D, F), SameBlocks(t, u)
    PROVE  Shaped(u, D, F) /\ Grows(t, u)
  <1>1. Grows(t, u)
    BY Numbers DEF SameBlocks, Grows, Nodes
  <1>2. \A e \in Entries : (IsDecoded(t, e) <=> IsDecoded(u, e)) /\ (Ends(t, e) <=> Ends(u, e))
    BY DEF SameBlocks, IsDecoded, Ends
  <1>3. ASSUME NEW e \in Entries, IsDecoded(u, e) PROVE Follows(u, e, F)
    <2>1. Follows(t, e, F)
      BY <1>2, <1>3 DEF Shaped
    <2>2. /\ u.pool[e].pc = t.pool[e].pc /\ u.pool[e].instr = t.pool[e].instr
          /\ u.tc_idx = t.tc_idx
      BY DEF SameBlocks
    <2>3. ASSUME ~Ends(u, e) PROVE e + 1 <= u.tc_idx /\ u.pool[e + 1].pc = u.pool[e].pc + 1
      <3>1. e + 1 <= t.tc_idx /\ t.pool[e + 1].pc = t.pool[e].pc + 1
        BY <1>2, <2>1, <2>3 DEF Follows
      <3>2. e + 1 \in Entries
        BY <3>1, Fields, Numbers, Positions
      <3>3. QED
        BY <2>2, <3>1, <3>2 DEF SameBlocks
    <2>4. QED
      BY <2>1, <2>2, <2>3 DEF Follows
  <1>4. \A p \in D : u.bb[p] # Null => Complete(u, u.bb[p]) /\ u.pool[u.bb[p]].pc = p
    <2> SUFFICES ASSUME NEW p \in D, u.bb[p] # Null
                 PROVE  Complete(u, u.bb[p]) /\ u.pool[u.bb[p]].pc = p
      OBVIOUS
    <2>1. Complete(t, t.bb[p]) /\ t.pool[t.bb[p]].pc = p /\ u.bb[p] = t.bb[p] /\ t.bb[p] \in Entries
      BY Fields DEF SameBlocks, Shaped
    <2>2. QED
      BY <1>1, <2>1, GrowsKeeps DEF SameBlocks
  <1>5. QED
    BY <1>1, <1>3, <1>4 DEF Shaped, SameBlocks

\* Links that are kept lead on.
LEMMA SameLinked ==
    ASSUME NEW t, NEW u, NEW X, NEW Y, Linked(t, X), Grows(t, u),
           \A e \in Entries : u.pool[e].instr = t.pool[e].instr,
           \A e \in Entries, b \in BOOLEAN : <<e, b>> \notin Y =>
               (<<e, b>> \notin X /\ NextOf(u, e, b) = NextOf(t, e, b)) \/ Target(u, NextOf(u, e, b))
    PROVE  Linked(u, Y)
  <1> SUFFICES ASSUME NEW e \in Entries, NEW b \in Sides(u.pool[e].instr), <<e, b>> \notin Y
               PROVE  Target(u, NextOf(u, e, b))
    BY DEF Linked
  <1>1. b \in BOOLEAN /\ b \in Sides(t.pool[e].instr)
    BY SidesDecoded
  <1>2. QED
    BY <1>1, GrowsKeeps DEF Linked

LEMMA SetNextKeeps ==
    ASSUME NEW D, NEW F, NEW t \in Cache(D), Shaped(t, D, F), NEW e \in {Null, Ex} \cup Entries,
           NEW b \in BOOLEAN, NEW x, Target(t, x), NEW X, Linked(t, X),
           NEW u, u = SetNext(t, e, b, x)
    PROVE  /\ u \in Cache(D) /\ Shaped(u, D, F) /\ Grows(t, u) /\ Linked(u, X \ {<<e, b>>})
           /\ SameCode(t, u)
  <1>1. x \in Nodes
    BY DEF Target
  <1>2. /\ u.tc_idx = t.tc_idx /\ u.bb = t.bb
        /\ \A n \in Nodes : /\ u.pool[n].pc = t.pool[n].pc /\ u.pool[n].instr = t.pool[n].instr
                            /\ n # e => u.pool[n] = t.pool[n]
        /\ e \in Entries => /\ NextOf(u, e, b) = x
                            /\ \A c \in BOOLEAN : c # b => NextOf(u, e, c) = NextOf(t, e, c)
    BY <1>1, SetNextOf
  <1>3. SameBlocks(t, u)
    BY <1>2, Numbers DEF SameBlocks, Shaped, IsDecoded
  <1>4. Shaped(u, D, F) /\ Grows(t, u)
    BY <1>3, SameShaped
  <1>5. Linked(u, X \ {<<e, b>>})
    <2>1. ASSUME NEW g \in Entries, NEW c \in BOOLEAN, <<g, c>> \notin X \ {<<e, b>>}
          PROVE  (<<g, c>> \notin X /\ NextOf(u, g, c) = NextOf(t, g, c)) \/ Target(u, NextOf(u, g, c))
      <3>1. CASE g = e /\ c = b
        <4>1. NextOf(u, g, c) = x
          BY <1>2, <3>1
        <4>2. QED
          BY <1>4, <4>1, GrowsKeeps
      <3>2. CASE ~(g = e /\ c = b)
        <4>1. <<g, c>> \notin X
          BY <2>1, <3>2
        <4>2. NextOf(u, g, c) = NextOf(t, g, c)
          <5>1. CASE g = e
            BY <1>2, <3>2, <5>1
          <5>2. CASE g # e
            <6>1. u.pool[g] = t.pool[g]
              BY <1>2, <5>2, Numbers
            <6>2. QED
              BY <6>1 DEF NextOf
          <5>3. QED
            BY <5>1, <5>2
        <4>3. QED
          BY <4>1, <4>2
      <3>3. QED
        BY <3>1, <3>2
    <2>2. \A g \in Entries : u.pool[g].instr = t.pool[g].instr
      BY <1>2, Numbers
    <2>3. QED
      BY <1>4, <2>1, <2>2, SameLinked
  <1>6. SameCode(t, u)
    BY <1>2 DEF SameCode
  <1>7. u \in Cache(D)
    BY <1>1, SetNextOf
  <1>8. QED
    BY <1>4, <1>5, <1>6, <1>7

LEMMA BbNewKeeps ==
    ASSUME NEW D, NEW F, NEW t \in Cache(D), Shaped(t, D, F), -1 \notin D, NEW pc \in D, t.free # Null,
           NEW X, Linked(t, X), NEW u, u = tcache_bb_new(t, pc)
    PROVE  u \in Cache(D) /\ Shaped(u, D, F) /\ Grows(t, u) /\ Linked(u, X)
  <1>1. t.free \in Records /\ t.pool[t.free].tnext \in {Null} \cup Records
    BY Fields DEF Shaped
  <1>2. /\ u.pool[t.free] = Fresh(pc) /\ u \in Cache(D)
        /\ \A n \in Nodes : n # t.free => u.pool[n] = t.pool[n]
        /\ u.tc_idx = t.tc_idx /\ u.bb = t.bb
    BY <1>1, BbNewOf
  <1>3. /\ u.pool[t.free].pc # -1 /\ u.pool[t.free].tnext = Null
        /\ u.pool[t.free].ntnext = Null /\ u.pool[t.free].instr = NotDecoded
    BY <1>2 DEF Fresh
  <1>4. SameBlocks(t, u)
    BY <1>1, <1>2, <1>3, Numbers DEF SameBlocks, Shaped, IsDecoded
  <1>5. Shaped(u, D, F) /\ Grows(t, u)
    BY <1>4, SameShaped
  <1>6. Linked(u, X)
    <2>1. \A e \in Entries : u.pool[e] = t.pool[e]
      BY <1>1, <1>2, Numbers
    <2>2. \A e \in Entries, b \in BOOLEAN : NextOf(u, e, b) = NextOf(t, e, b)
      BY <2>1 DEF NextOf
    <2>3. QED
      BY <1>5, <2>1, <2>2, SameLinked
  <1>7. QED
    BY <1>2, <1>5, <1>6

LEMMA RecordedKeeps ==
    ASSUME NEW D, NEW F, NEW t \in Cache(D), Shaped(t, D, F), -1 \notin D, NEW pc \in D, t.free # Null,
           NEW e \in {Null, Ex} \cup Entries, NEW b \in BOOLEAN,
           NEW X, Linked(t, X), NEW u, u = Recorded(t, e, b, pc)
    PROVE  u \in Cache(D) /\ Shaped(u, D, F) /\ Grows(t, u) /\ Linked(u, X) /\ Target(u, t.free)
  <1>1. t.free \in Records /\ t.pool[t.free].tnext \in {Null} \cup Records
    BY Fields DEF Shaped
  <1>2. /\ u \in Cache(D)
        /\ StandsFor(u, t.free, e, b, pc)
        /\ \A n \in Nodes : n # t.free => u.pool[n] = t.pool[n]
        /\ u.tc_idx = t.tc_idx /\ u.bb = t.bb
    BY <1>1, RecordedOf
  <1>3. /\ u.pool[t.free].pc # -1 /\ u.pool[t.free].tnext = Null
        /\ u.pool[t.free].ntnext = e /\ u.pool[t.free].instr = NotDecoded
    BY <1>2 DEF StandsFor
  <1>4. SameBlocks(t, u)
    BY <1>1, <1>2, <1>3, Numbers DEF SameBlocks, Shaped, IsDecoded
  <1>5. Shaped(u, D, F) /\ Grows(t, u)
    BY <1>4, SameShaped
  <1>6. Linked(u, X)
    <2>1. \A f \in Entries : u.pool[f] = t.pool[f]
      BY <1>1, <1>2, Numbers
    <2>2. \A f \in Entries, c \in BOOLEAN : NextOf(u, f, c) = NextOf(t, f, c)
      BY <2>1 DEF NextOf
    <2>3. QED
      BY <1>5, <2>1, <2>2, SameLinked
  <1>7. QED
    BY <1>1, <1>2, <1>3, <1>5, <1>6, Numbers DEF Target

LEMMA BbFreeKeeps ==
    ASSUME NEW D, NEW F, NEW t \in Cache(D), Shaped(t, D, F), NEW r \in Records,
           NEW X, Linked(t, X), NEW u, u = tcache_bb_free(t, r)
    PROVE  u \in Cache(D) /\ Shaped(u, D, F) /\ Grows(t, u) /\ Linked(u, X) /\ SameCode(t, u)
  <1>1. /\ u \in Cache(D) /\ u.free = r /\ u.pool[r].tnext = t.free
        /\ u.tc_idx = t.tc_idx /\ u.bb = t.bb
        /\ \A n \in Nodes : /\ u.pool[n].pc = t.pool[n].pc /\ u.pool[n].instr = t.pool[n].instr
                            /\ u.pool[n].ntnext = t.pool[n].ntnext
                            /\ n # r => u.pool[n] = t.pool[n]
    BY BbFreeOf
  <1>2. t.free \in {Null} \cup Records
    BY Fields
  <1>3. SameBlocks(t, u)
    BY <1>1, <1>2, Numbers DEF SameBlocks, Shaped, IsDecoded
  <1>4. Shaped(u, D, F) /\ Grows(t, u)
    BY <1>3, SameShaped
  <1>5. \A f \in Entries : u.pool[f] = t.pool[f]
    BY <1>1, Numbers
  <1>6. \A f \in Entries, c \in BOOLEAN : NextOf(u, f, c) = NextOf(t, f, c)
    BY <1>5 DEF NextOf
  <1>7. Linked(u, X)
    BY <1>4, <1>5, <1>6, SameLinked
  <1>8. SameCode(t, u)
    BY <1>1 DEF SameCode
  <1>9. QED
    BY <1>1, <1>4, <1>7, <1>8

\* tcache_bb_fetch leaves the cache as it is but for a link, unless there is
\* no record.
LEMMA BbFetchCases ==
    ASSUME NEW t, NEW e, NEW b, NEW pc, NEW u, u = tcache_bb_fetch(t, e, b, pc)
    PROVE  \/ /\ t.bb[pc] # Null /\ u = SetNext(t, e, b, t.bb[pc]) /\ Fetched(t, pc) = t.bb[pc]
           \/ /\ t.bb[pc] = Null /\ t.free = Null /\ u = [t EXCEPT !.abort = TRUE]
              /\ Fetched(t, pc) = t.free
           \/ /\ t.bb[pc] = Null /\ t.free # Null /\ Fetched(t, pc) = t.free
              /\ u = SetNext(Recorded(t, e, b, pc), e, b, t.free)
  BY DEF tcache_bb_fetch, Recorded, Fetched

LEMMA AbortOf ==
    ASSUME NEW D, NEW t \in Cache(D), NEW u, u = [t EXCEPT !.abort = TRUE]
    PROVE  /\ u \in Cache(D) /\ u.abort
           /\ u.pool = t.pool /\ u.tc_idx = t.tc_idx /\ u.free = t.free /\ u.bb = t.bb
  BY DEF Cache

LEMMA BbFetchKeeps ==
    ASSUME NEW D, NEW F, NEW t \in Cache(D), Shaped(t, D, F), -1 \notin D, NEW pc \in D,
           NEW e \in {Ex} \cup Entries, NEW b \in BOOLEAN,
           NEW X, t.abort \/ Linked(t, X), NEW u, u = tcache_bb_fetch(t, e, b, pc)
    PROVE  /\ u \in Cache(D) /\ Shaped(u, D, F) /\ Grows(t, u)
           /\ t.abort => u.abort
           /\ u.abort => t.abort \/ u.pool = t.pool
           /\ u.abort \/ (Linked(u, X \ {<<e, b>>}) /\ Target(u, Fetched(t, pc))
                            /\ u.pool[Fetched(t, pc)].pc = pc
                            /\ (e \in Entries => NextOf(u, e, b) = Fetched(t, pc)))
  <1>1. PICK Y : Linked(t, Y) /\ (~t.abort => Y = X)
    <2>1. CASE t.abort
      <3>1. Linked(t, Entries \X BOOLEAN)
        BY SidesDecoded DEF Linked
      <3>2. QED
        BY <2>1, <3>1
    <2>2. CASE ~t.abort
      BY <2>2
    <2>3. QED
      BY <2>1, <2>2
  <1>2. CASE t.bb[pc] # Null /\ u = SetNext(t, e, b, t.bb[pc]) /\ Fetched(t, pc) = t.bb[pc]
    <2>1. Complete(t, t.bb[pc]) /\ t.pool[t.bb[pc]].pc = pc
      BY <1>2 DEF Shaped
    <2>2. Target(t, t.bb[pc])
      BY <2>1, Numbers DEF Target, Complete
    <2>3. /\ u \in Cache(D) /\ u.abort = t.abort
          /\ \A n \in Nodes : u.pool[n].pc = t.pool[n].pc
          /\ e \in Entries => NextOf(u, e, b) = t.bb[pc]
      BY <1>2, <2>2, SetNextOf DEF Target
    <2>4. Shaped(u, D, F) /\ Grows(t, u) /\ Linked(u, Y \ {<<e, b>>})
      BY <1>2, <1>1, <2>2, SetNextKeeps
    <2>5. Target(u, t.bb[pc]) /\ u.pool[t.bb[pc]].pc = pc
      BY <2>1, <2>2, <2>3, <2>4, GrowsKeeps DEF Target
    <2>6. QED
      BY <1>2, <1>1, <2>3, <2>4, <2>5
  <1>3. CASE t.free = Null /\ u = [t EXCEPT !.abort = TRUE]
    <2>1. u \in Cache(D) /\ u.abort /\ u.pool = t.pool /\ u.tc_idx = t.tc_idx /\ u.bb = t.bb
      BY <1>3, AbortOf
    <2>2. SameBlocks(t, u)
      BY <2>1 DEF SameBlocks, Shaped, IsDecoded
    <2>3. QED
      BY <2>1, <2>2, SameShaped
  <1>4. CASE /\ t.free # Null /\ Fetched(t, pc) = t.free
             /\ u = SetNext(Recorded(t, e, b, pc), e, b, t.free)
    <2> DEFINE v == Recorded(t, e, b, pc)
    <2>1. t.free \in Records /\ t.pool[t.free].tnext \in {Null} \cup Records /\ t.free \in Nodes
      BY <1>4, Fields, Numbers DEF Shaped
    <2>2. /\ v \in Cache(D) /\ v.abort = t.abort
          /\ StandsFor(v, t.free, e, b, pc)
      BY <1>4, <2>1, RecordedOf
    <2>3. Shaped(v, D, F) /\ Grows(t, v) /\ Linked(v, Y) /\ Target(v, t.free)
      BY <1>4, <1>1, RecordedKeeps
    <2>4. v.pool[t.free].pc = pc
      BY <2>2 DEF StandsFor
    <2> HIDE DEF v
    <2>5. u = SetNext(v, e, b, t.free)
      BY <1>4 DEF v
    <2>6. /\ u \in Cache(D) /\ u.abort = v.abort /\ u.pool[t.free].pc = pc
          /\ e \in Entries => NextOf(u, e, b) = t.free
      <3>1. v \in Cache(D) /\ t.free \in Nodes /\ e \in {Null, Ex} \cup Entries
        BY <2>1, <2>2
      <3>2. /\ u \in Cache(D) /\ u.abort = v.abort
            /\ \A n \in Nodes : u.pool[n].pc = v.pool[n].pc
            /\ e \in Entries => NextOf(u, e, b) = t.free
        BY <2>5, <3>1, SetNextOf
      <3>3. QED
        BY <2>4, <3>1, <3>2
    <2>7. Shaped(u, D, F) /\ Grows(v, u) /\ Linked(u, Y \ {<<e, b>>})
      BY <2>2, <2>3, <2>5, SetNextKeeps
    <2>8. Grows(t, u) /\ Target(u, t.free)
      BY <2>3, <2>7, GrowsKeeps, GrowsTrans
    <2>9. QED
      BY <1>4, <1>1, <2>2, <2>6, <2>7, <2>8
  <1>5. QED
    BY <1>2, <1>3, <1>4, BbFetchCases

\* tcache_patch_and_free patches a link of an entry, or none.
LEMMA PatchCases ==
    ASSUME NEW t, NEW r, NEW now, NEW u, u = tcache_patch_and_free(t, r, now)
    PROVE  \/ t.pool[r].type = 0 /\ u = tcache_bb_free(t, r)
           \/ \E c \in BOOLEAN :
                /\ c => t.pool[r].type = 2
                /\ ~c => t.pool[r].type \notin {0, 2}
                /\ u = tcache_bb_free(SetNext(t, t.pool[r].ntnext, c, now), r)
  <1>1. CASE t.pool[r].type = 0
    BY <1>1 DEF tcache_patch_and_free
  <1>2. CASE t.pool[r].type = 2
    <2>1. PICK c \in BOOLEAN : c
      OBVIOUS
    <2>2. u = tcache_bb_free(SetNext(t, t.pool[r].ntnext, c, now), r)
      BY <1>2, <2>1 DEF tcache_patch_and_free, SetNext
    <2>3. QED
      BY <1>2, <2>1, <2>2
  <1>3. CASE t.pool[r].type # 0 /\ t.pool[r].type # 2
    <2>1. PICK c \in BOOLEAN : ~c
      OBVIOUS
    <2>2. u = tcache_bb_free(SetNext(t, t.pool[r].ntnext, c, now), r)
      BY <1>3, <2>1 DEF tcache_patch_and_free, SetNext
    <2>3. QED
      BY <1>3, <2>1, <2>2
  <1>4. QED
    BY <1>1, <1>2, <1>3

LEMMA PatchKeeps ==
    ASSUME NEW D, NEW F, NEW t \in Cache(D), Shaped(t, D, F), NEW r \in Records,
           NEW now \in Entries, Target(t, now), NEW X, Linked(t, X),
           NEW u, u = tcache_patch_and_free(t, r, now)
    PROVE  /\ u \in Cache(D) /\ Shaped(u, D, F) /\ Grows(t, u) /\ Linked(u, X) /\ SameCode(t, u)
           /\ u.abort = t.abort /\ u.tc_idx = t.tc_idx /\ u.bb = t.bb
  <1>1. CASE u = tcache_bb_free(t, r)
    BY <1>1, BbFreeKeeps, BbFreeOf
  <1>2. ASSUME NEW c \in BOOLEAN, u = tcache_bb_free(SetNext(t, t.pool[r].ntnext, c, now), r)
        PROVE  /\ u \in Cache(D) /\ Shaped(u, D, F) /\ Grows(t, u) /\ Linked(u, X) /\ SameCode(t, u)
               /\ u.abort = t.abort /\ u.tc_idx = t.tc_idx /\ u.bb = t.bb
    <2>1. PICK e \in {Null, Ex} \cup Entries : e = t.pool[r].ntnext
      BY DEF Shaped
    <2>2. PICK v : v = SetNext(t, e, c, now)
      OBVIOUS
    <2>3. now \in Nodes
      BY Numbers
    <2>4. v.abort = t.abort /\ v.tc_idx = t.tc_idx /\ v.bb = t.bb
      BY <2>2, <2>3, SetNextOf
    <2>5. /\ v \in Cache(D) /\ Shaped(v, D, F) /\ Grows(t, v) /\ Linked(v, X \ {<<e, c>>})
          /\ SameCode(t, v)
      BY <2>2, SetNextKeeps
    <2>6. Linked(v, X)
      BY <2>5 DEF Linked
    <2>7. u = tcache_bb_free(v, r)
      BY <1>2, <2>1, <2>2
    <2>8. u \in Cache(D) /\ Shaped(u, D, F) /\ Grows(v, u) /\ Linked(u, X) /\ SameCode(v, u)
      BY <2>5, <2>6, <2>7, BbFreeKeeps
    <2>9. u.abort = v.abort /\ u.tc_idx = v.tc_idx /\ u.bb = v.bb
      BY <2>5, <2>7, BbFreeOf
    <2>10. SameCode(t, u)
      BY <2>5, <2>8 DEF SameCode
    <2>11. QED
      BY <2>4, <2>5, <2>8, <2>9, <2>10, GrowsTrans
  <1>3. QED
    BY <1>1, <1>2, PatchCases

\* Entries of Z are made or decoded.
Makes(t, u, Z, F) ==
    /\ Z \in SUBSET Entries
    /\ \A z \in Z : ~IsDecoded(t, z) /\ u.pool[z].pc # -1
    /\ \A z \in Z : z <= t.tc_idx => u.pool[z].pc = t.pool[z].pc
    /\ \A z \in Z : IsDecoded(u, z) => Follows(u, z, F)
    /\ \A n \in Nodes : n \notin Z => u.pool[n] = t.pool[n]
    /\ t.tc_idx <= u.tc_idx /\ u.bb = t.bb

LEMMA EntriesKeep ==
    ASSUME NEW D, NEW F, NEW t \in Cache(D), Shaped(t, D, F), NEW u \in Cache(D),
           NEW Z, Makes(t, u, Z, F), NEW X, Linked(t, X)
    PROVE  Shaped(u, D, F) /\ Grows(t, u) /\ Linked(u, X \cup (Z \X BOOLEAN))
  <1>1. \A g \in Entries : IsDecoded(t, g) => g \notin Z /\ u.pool[g] = t.pool[g]
    BY Numbers DEF Makes
  <1>2. Grows(t, u)
    BY <1>1 DEF Grows, Makes
  <1>3. ASSUME NEW g \in Entries, IsDecoded(u, g) PROVE Follows(u, g, F)
    <2>1. CASE g \in Z
      BY <1>3, <2>1 DEF Makes
    <2>2. CASE g \notin Z
      <3>1. u.pool[g] = t.pool[g] /\ g \in Int
        BY <2>2, Numbers DEF Makes
      <3>2. Follows(t, g, F)
        BY <1>3, <3>1 DEF Shaped, IsDecoded
      <3>3. t.tc_idx \in Int /\ u.tc_idx \in Int
        BY Fields, Positions
      <3>4. ASSUME ~Ends(u, g) PROVE g + 1 <= u.tc_idx /\ u.pool[g + 1].pc = u.pool[g].pc + 1
        <4>1. g + 1 <= t.tc_idx /\ t.pool[g + 1].pc = t.pool[g].pc + 1
          BY <3>1, <3>2, <3>4 DEF Follows, Ends
        <4>2. g + 1 \in Entries /\ g + 1 \in Nodes
          BY <3>1, <4>1, Positions, Fields, Numbers
        <4>3. u.pool[g + 1].pc = t.pool[g + 1].pc
          BY <4>1, <4>2 DEF Makes
        <4>4. QED
          BY <3>1, <3>3, <4>1, <4>3 DEF Makes
      <3>5. g <= u.tc_idx
        BY <3>1, <3>2, <3>3 DEF Follows, Makes
      <3>6. QED
        BY <3>1, <3>2, <3>4, <3>5 DEF Follows
    <2>3. QED
      BY <2>1, <2>2
  <1>4. \A r \in Records : u.pool[r] = t.pool[r]
    BY Numbers DEF Makes
  <1>5. \A r \in Records :
            /\ ~IsDecoded(u, r) /\ u.pool[r].tnext \in {Null} \cup Records
            /\ u.pool[r].ntnext \in {Null, Ex} \cup Entries
    BY <1>4 DEF Shaped, IsDecoded
  <1>6. ASSUME NEW p \in D, u.bb[p] # Null
        PROVE  Complete(u, u.bb[p]) /\ u.pool[u.bb[p]].pc = p
    <2>1. Complete(t, t.bb[p]) /\ t.pool[t.bb[p]].pc = p /\ u.bb[p] = t.bb[p]
      BY <1>6 DEF Shaped, Makes
    <2>2. t.bb[p] \in Entries /\ IsDecoded(t, t.bb[p])
      BY <2>1, Numbers DEF Complete
    <2>3. QED
      BY <1>1, <1>2, <2>1, <2>2, GrowsKeeps
  <1>7. Shaped(u, D, F)
    BY <1>3, <1>5, <1>6 DEF Shaped
  <1>8. ASSUME NEW g \in Entries, g \notin Z, NEW b \in Sides(u.pool[g].instr), <<g, b>> \notin X
        PROVE  Target(u, NextOf(u, g, b))
    <2>1. u.pool[g] = t.pool[g]
      BY <1>8, Numbers DEF Makes
    <2>2. Target(t, NextOf(t, g, b))
      BY <1>8, <2>1 DEF Linked
    <2>3. QED
      BY <1>2, <2>1, <2>2, GrowsKeeps DEF NextOf
  <1>9. Linked(u, X \cup (Z \X BOOLEAN))
    <2> SUFFICES ASSUME NEW g \in Entries, NEW b \in Sides(u.pool[g].instr),
                        <<g, b>> \notin X \cup (Z \X BOOLEAN)
                 PROVE  Target(u, NextOf(u, g, b))
      BY DEF Linked
    <2>1. g \notin Z /\ <<g, b>> \notin X
      BY SidesDecoded
    <2>2. QED
      BY <1>8, <2>1
  <1>10. QED
    BY <1>2, <1>7, <1>9

\* An entry that does not end a block has no links.
LEMMA Unlinked ==
    ASSUME NEW t, NEW X, NEW Z, Linked(t, X \cup (Z \X BOOLEAN)), \A z \in Z : ~Ends(t, z)
    PROVE  Linked(t, X)
  <1> SUFFICES ASSUME NEW g \in Entries, NEW b \in Sides(t.pool[g].instr), <<g, b>> \notin X
               PROVE  Target(t, NextOf(t, g, b))
    BY DEF Linked
  <1>1. g \notin Z
    BY SidesDecoded
  <1>2. <<g, b>> \notin X \cup (Z \X BOOLEAN)
    BY <1>1
  <1>3. QED
    BY <1>2 DEF Linked

\* tcache_new makes an entry.
LEMMA NewMakes ==
    ASSUME NEW D, NEW F, NEW t \in Cache(D), Shaped(t, D, F), -1 \notin D, NEW pc \in D, HasRoom(t),
           NEW u, u = tcache_new(t, pc)
    PROVE  /\ \E Z : Makes(t, u, Z, F) /\ \A z \in Z : ~Ends(u, z)
           /\ ~IsDecoded(u, u.tc_idx)
  <1>1. PICK e : e = t.tc_idx + 1
    OBVIOUS
  <1>2. /\ u \in Cache(D) /\ e \in Entries /\ u.tc_idx = e
        /\ u.pool[e] = Fresh(pc) /\ u.bb = t.bb
        /\ \A n \in Nodes : n \notin {e} => u.pool[n] = t.pool[n]
    BY <1>1, NewOf
  <1>3. u.pool[e].pc # -1 /\ ~IsDecoded(u, e) /\ ~Ends(u, e)
    BY <1>2, EndsDecoded DEF Fresh, IsDecoded
  <1>4. t.tc_idx \in Nat /\ ~(e <= t.tc_idx) /\ t.tc_idx <= e
    BY <1>1, Fields, Positions
  <1>5. ~IsDecoded(t, e)
    BY <1>2, <1>4 DEF Shaped, Follows
  <1>6. PICK Z : Z = {e}
    OBVIOUS
  <1>7. Makes(t, u, Z, F) /\ \A z \in Z : ~Ends(u, z)
    BY <1>2, <1>3, <1>4, <1>5, <1>6 DEF Makes
  <1>8. QED
    BY <1>2, <1>3, <1>7

LEMMA NewKeeps ==
    ASSUME NEW D, NEW F, NEW t \in Cache(D), Shaped(t, D, F), -1 \notin D, NEW pc \in D, HasRoom(t),
           NEW X, Linked(t, X), NEW u, u = tcache_new(t, pc)
    PROVE  /\ u \in Cache(D) /\ Shaped(u, D, F) /\ Grows(t, u) /\ Linked(u, X)
           /\ ~IsDecoded(u, u.tc_idx)
  <1>1. PICK Z : Makes(t, u, Z, F) /\ \A z \in Z : ~Ends(u, z)
    BY NewMakes
  <1>2. u \in Cache(D) /\ ~IsDecoded(u, u.tc_idx)
    BY NewOf, NewMakes
  <1>3. Shaped(u, D, F) /\ Grows(t, u) /\ Linked(u, X \cup (Z \X BOOLEAN))
    BY <1>1, <1>2, EntriesKeep
  <1>4. Linked(u, X)
    BY <1>1, <1>3, Unlinked
  <1>5. QED
    BY <1>2, <1>3, <1>4

\* The entry at the end of the pool is decoded, and the next one made.
LEMMA DecodeNewKeeps ==
    ASSUME NEW D, NEW F, NEW t \in Cache(D), Shaped(t, D, F), NEW e \in Entries, e = t.tc_idx,
           ~IsDecoded(t, e), -1 \notin D, NEW p \in D, p = t.pool[e].pc, p + 1 \in D,
           NEW instr \in Instrs(D), instr \in F[p], ~EndsBlock(instr),
           NEW u, u = DecodedAs(t, e, instr), HasRoom(u), NEW v, v = tcache_new(u, p + 1),
           Linked(t, {})
    PROVE  /\ v \in Cache(D) /\ Shaped(v, D, F) /\ Grows(t, v) /\ Linked(v, {})
           /\ v.tc_idx = e + 1 /\ v.free = t.free /\ v.bb = t.bb /\ v.abort = t.abort
           /\ e + 1 \in Entries /\ ~IsDecoded(v, e + 1)
           /\ v.pool[e].instr = instr /\ v.pool[e].pc = p
           /\ \A n \in Nodes : n \notin {e, e + 1} => v.pool[n] = t.pool[n]
           /\ \E Z : Makes(t, v, Z, F) /\ \A z \in Z : ~Ends(v, z)
  <1>1. /\ u \in Cache(D) /\ u.pool[e].instr = instr /\ u.pool[e].pc = p
        /\ \A n \in Nodes : n # e => u.pool[n] = t.pool[n]
        /\ u.free = t.free /\ u.bb = t.bb /\ u.abort = t.abort /\ u.tc_idx = t.tc_idx
    <2>1. u \in Cache(D) /\ u.pool[e].instr = instr /\ u.pool[e].pc = t.pool[e].pc
      BY DecodedOf
    <2>2. \A n \in Nodes : n # e => u.pool[n] = t.pool[n]
      BY DecodedOf
    <2>3. u.free = t.free /\ u.bb = t.bb /\ u.abort = t.abort /\ u.tc_idx = t.tc_idx
      BY DecodedOf
    <2>4. QED
      BY <2>1, <2>2, <2>3
  <1>2. /\ v \in Cache(D) /\ e + 1 \in Entries /\ v.tc_idx = e + 1
        /\ v.pool[e + 1] = Fresh(p + 1)
        /\ \A n \in Nodes : n # e + 1 => v.pool[n] = u.pool[n]
        /\ v.free = u.free /\ v.bb = u.bb /\ v.abort = u.abort
    BY <1>1, NewOf
  <1>3. e \in Int /\ e # e + 1 /\ ~(e + 1 <= t.tc_idx) /\ t.tc_idx <= e + 1
    BY Numbers
  <1>4. v.pool[e].instr = instr /\ v.pool[e].pc = p
    BY <1>1, <1>2, <1>3, Numbers
  <1>5. /\ v.pool[e + 1].pc = p + 1 /\ ~IsDecoded(v, e + 1) /\ ~Ends(v, e + 1)
    <2>1. Fresh(p + 1).pc = p + 1 /\ Fresh(p + 1).instr = NotDecoded
      BY DEF Fresh
    <2>2. v.pool[e + 1] = Fresh(p + 1)
      BY <1>2
    <2>3. v.pool[e + 1].pc = p + 1
      BY <2>1, <2>2
    <2>4. ~IsDecoded(v, e + 1)
      BY <2>1, <2>2 DEF IsDecoded
    <2>5. QED
      BY <2>3, <2>4, EndsDecoded
  <1>6. ~IsDecoded(t, e + 1) /\ ~Ends(v, e)
    BY <1>2, <1>3, <1>4 DEF Shaped, Follows, Ends
  <1>7. Follows(v, e, F)
    <2>1. e <= v.tc_idx /\ e + 1 <= v.tc_idx
      BY <1>2, <1>3
    <2>2. v.pool[e].pc # -1 /\ v.pool[e].instr \in F[v.pool[e].pc]
      BY <1>4
    <2>3. v.pool[e + 1].pc = v.pool[e].pc + 1
      BY <1>4, <1>5
    <2>4. QED
      BY <2>1, <2>2, <2>3 DEF Follows
  <1>8. \A n \in Nodes : n \notin {e, e + 1} => v.pool[n] = t.pool[n]
    BY <1>1, <1>2
  <1>9. PICK Z : Z = {e, e + 1}
    OBVIOUS
  <1>10. Makes(t, v, Z, F) /\ \A z \in Z : ~Ends(v, z)
    <2>1. \A z \in Z : ~IsDecoded(t, z) /\ v.pool[z].pc # -1 /\ ~Ends(v, z)
      BY <1>4, <1>5, <1>6, <1>9
    <2>2. \A z \in Z : z <= t.tc_idx => v.pool[z].pc = t.pool[z].pc
      BY <1>3, <1>4, <1>9
    <2>3. \A z \in Z : IsDecoded(v, z) => Follows(v, z, F)
      BY <1>5, <1>7, <1>9
    <2>4. t.tc_idx <= v.tc_idx /\ v.bb = t.bb /\ Z \in SUBSET Entries
      BY <1>1, <1>2, <1>3, <1>9
    <2>5. \A n \in Nodes : n \notin Z => v.pool[n] = t.pool[n]
      BY <1>8, <1>9
    <2>6. QED
      BY <2>1, <2>2, <2>3, <2>4, <2>5 DEF Makes
  <1>11. PICK X : X = {}
    OBVIOUS
  <1>12. Shaped(v, D, F) /\ Grows(t, v) /\ Linked(v, X \cup (Z \X BOOLEAN))
    BY <1>2, <1>10, <1>11, EntriesKeep
  <1>13. Linked(v, X)
    BY <1>10, <1>12, Unlinked
  <1>14. QED
    BY <1>1, <1>2, <1>4, <1>5, <1>8, <1>10, <1>11, <1>12, <1>13

\* The end of a block is decoded, and its links not set yet.
LEMMA DecodeEndKeeps ==
    ASSUME NEW D, NEW F, NEW t \in Cache(D), Shaped(t, D, F), NEW e \in Entries, e <= t.tc_idx,
           ~IsDecoded(t, e), -1 \notin D, NEW p \in D, p = t.pool[e].pc,
           NEW instr \in Instrs(D), instr \in F[p], EndsBlock(instr),
           NEW u, u = DecodedAs(t, e, instr), Linked(t, {})
    PROVE  /\ u \in Cache(D) /\ Shaped(u, D, F) /\ Grows(t, u) /\ Linked(u, {e} \X BOOLEAN)
           /\ Ends(u, e) /\ IsDecoded(u, e)
           /\ \E Z : Z = {e} /\ Makes(t, u, Z, F)
  <1>1. /\ u \in Cache(D) /\ u.pool[e].instr = instr /\ u.pool[e].pc = p
        /\ \A n \in Nodes : n # e => u.pool[n] = t.pool[n]
        /\ u.bb = t.bb /\ u.tc_idx = t.tc_idx
    <2>1. u \in Cache(D) /\ u.pool[e].instr = instr /\ u.pool[e].pc = t.pool[e].pc
      BY DecodedOf
    <2>2. \A n \in Nodes : n # e => u.pool[n] = t.pool[n]
      BY DecodedOf
    <2>3. u.bb = t.bb /\ u.tc_idx = t.tc_idx
      BY DecodedOf
    <2>4. QED
      BY <2>1, <2>2, <2>3
  <1>2. Ends(u, e) /\ IsDecoded(u, e)
    BY <1>1, EndsDecoded DEF Ends
  <1>3. Follows(u, e, F)
    BY <1>1, <1>2 DEF Follows
  <1>4. t.tc_idx <= u.tc_idx
    BY <1>1, Fields, Positions
  <1>5. PICK Z : Z = {e}
    OBVIOUS
  <1>6. Makes(t, u, Z, F)
    BY <1>1, <1>3, <1>4, <1>5 DEF Makes
  <1>7. PICK X : X = {}
    OBVIOUS
  <1>8. Shaped(u, D, F) /\ Grows(t, u) /\ Linked(u, X \cup (Z \X BOOLEAN))
    BY <1>1, <1>6, <1>7, EntriesKeep
  <1>9. Linked(u, {e} \X BOOLEAN)
    BY <1>5, <1>7, <1>8 DEF Linked
  <1>10. QED
    BY <1>1, <1>2, <1>5, <1>6, <1>8, <1>9

LEMMA InsertKeeps ==
    ASSUME NEW D, NEW F, NEW t \in Cache(D), Shaped(t, D, F), NEW pc \in D, NEW now,
           Complete(t, now), t.pool[now].pc = pc, ~bb_full(t, pc), NEW X, Linked(t, X),
           NEW u, u = bb_insert(t, pc, now)
    PROVE  /\ u \in Cache(D) /\ Shaped(u, D, F) /\ Grows(t, u) /\ Linked(u, X)
           /\ u.pool = t.pool /\ u.abort = t.abort /\ u.tc_idx = t.tc_idx /\ u.free = t.free
  <1>1. now \in Entries
    BY DEF Complete
  <1>2. /\ u \in Cache(D)
        /\ u.pool = t.pool /\ u.abort = t.abort /\ u.tc_idx = t.tc_idx /\ u.free = t.free
        /\ u.bb = [t.bb EXCEPT ![pc] = now]
    BY <1>1, InsertOf
  <1>3. Grows(t, u)
    BY <1>2 DEF Grows
  <1>4. \A e \in Entries : IsDecoded(u, e) => Follows(u, e, F)
    BY <1>2 DEF Shaped, Follows, IsDecoded, Ends
  <1>5. ASSUME NEW p \in D, u.bb[p] # Null
        PROVE  Complete(u, u.bb[p]) /\ u.pool[u.bb[p]].pc = p
    <2>1. CASE p = pc
      <3>1. u.bb[p] = now
        BY <1>2, <2>1, Fields
      <3>2. QED
        BY <1>2, <1>3, <2>1, <3>1, GrowsKeeps
    <2>2. CASE p # pc
      <3>1. u.bb[p] = t.bb[p]
        BY <1>2, <2>2, Fields
      <3>2. Complete(t, t.bb[p]) /\ t.pool[t.bb[p]].pc = p
        BY <1>5, <3>1 DEF Shaped
      <3>3. QED
        BY <1>2, <1>3, <3>1, <3>2, GrowsKeeps
    <2>3. QED
      BY <2>1, <2>2
  <1>6. Shaped(u, D, F)
    BY <1>2, <1>4, <1>5 DEF Shaped, IsDecoded
  <1>7. Linked(u, X)
    <2> SUFFICES ASSUME NEW g \in Entries, NEW b \in Sides(u.pool[g].instr), <<g, b>> \notin X
                 PROVE  Target(u, NextOf(u, g, b))
      BY DEF Linked
    <2>1. Target(t, NextOf(t, g, b)) /\ NextOf(u, g, b) = NextOf(t, g, b)
      BY <1>2 DEF Linked, NextOf
    <2>2. QED
      BY <1>3, <2>1, GrowsKeeps
  <1>8. QED
    BY <1>2, <1>3, <1>6, <1>7

\* After tcache_flush nothing is decoded.
LEMMA FlushShaped ==
    ASSUME NEW D, NEW F, NEW t, t = tcache_flush(D)
    PROVE  t \in Cache(D) /\ Shaped(t, D, F) /\ Linked(t, {}) /\ ~t.abort
           /\ t.free = TcacheSize + 1
  <1>1. /\ t \in Cache(D) /\ ~t.abort /\ t.free = TcacheSize + 1
        /\ \A n \in Nodes : ~IsDecoded(t, n) /\ t.pool[n].ntnext = Null
        /\ \A r \in Records : t.pool[r].tnext = IF r + 1 \in Records THEN r + 1 ELSE Null
        /\ \A p \in D : t.bb[p] = Null
    BY FlushOf
  <1>2. \A e \in Entries : ~IsDecoded(t, e)
    BY <1>1, Numbers
  <1>3. \A r \in Records : /\ ~IsDecoded(t, r) /\ t.pool[r].tnext \in {Null} \cup Records
                           /\ t.pool[r].ntnext \in {Null, Ex} \cup Entries
    BY <1>1, Numbers
  <1>4. Shaped(t, D, F)
    BY <1>1, <1>2, <1>3 DEF Shaped
  <1>5. Linked(t, {})
    BY <1>2, SidesDecoded, EndsDecoded DEF Linked
  <1>6. QED
    BY <1>1, <1>4, <1>5

\* Where an instruction of the program at p goes.
GoesOn(D, p, instr) ==
    /\ instr \in Instrs(D)
    /\ instr.kind \in {"J", "B"} => instr.to # {}
    /\ instr.kind \in {"N", "S", "U", "B", "F"} => p + 1 \in D

LEMMA BothSides ==
    ASSUME NEW e, NEW a \in BOOLEAN, NEW b \in BOOLEAN, a, ~b
    PROVE  (({e} \X BOOLEAN) \ {<<e, a>>}) \ {<<e, b>>} = {}
  <1>1. \A c \in BOOLEAN : c = a \/ c = b
    OBVIOUS
  <1>2. ASSUME NEW z \in {e} \X BOOLEAN PROVE z = <<e, a>> \/ z = <<e, b>>
    <2>1. PICK c \in BOOLEAN : z = <<e, c>>
      OBVIOUS
    <2>2. QED
      BY <1>1, <2>1
  <1>3. QED
    BY <1>2

\* The end e of block now is linked.
LEMMA LinkKeeps ==
    ASSUME NEW D, -1 \notin D, NEW F, NEW t \in Cache(D), Shaped(t, D, F), ~t.abort,
           NEW e \in Entries, Ends(t, e), NEW p, p = t.pool[e].pc, GoesOn(D, p, t.pool[e].instr),
           NEW now, Complete(t, now), NEW pc \in D, pc = t.pool[now].pc, ~bb_full(t, pc),
           NEW old \in Records, Linked(t, {e} \X BOOLEAN), NEW u, u = Link(t, e, now, old)
    PROVE  u \in Cache(D) /\ Shaped(u, D, F) /\ Grows(t, u) /\ (u.abort \/ Linked(u, {}))
  <1>1. now \in Entries /\ now \in Nodes /\ pc # -1 /\ Target(t, now)
    BY Numbers DEF Complete, Target
  <1>2. IsDecoded(t, e) /\ t.pool[e].pc # -1
    BY EndsDecoded DEF Shaped, Follows
  <1>3. Complete(t, e)
    BY <1>2, Numbers DEF Complete
  <1>4. Target(t, e)
    BY <1>2, <1>3, Numbers DEF Target
  <1>5. PICK X : X = {e} \X BOOLEAN
    OBVIOUS
  <1>6. PICK v : v = bb_insert(t, pc, now)
    OBVIOUS
  <1>7. v \in Cache(D) /\ Shaped(v, D, F) /\ Grows(t, v) /\ Linked(v, X) /\ v.abort = t.abort
    BY <1>5, <1>6, InsertKeeps
  <1>8. PICK w : w = tcache_patch_and_free(v, old, now)
    OBVIOUS
  <1>9. /\ w \in Cache(D) /\ Shaped(w, D, F) /\ Grows(v, w) /\ Linked(w, X)
        /\ w.abort = v.abort
    <2>1. Target(v, now)
      BY <1>1, <1>7, GrowsKeeps
    <2>2. QED
      BY <1>1, <1>7, <1>8, <2>1, PatchKeeps
  <1>10. Grows(t, w) /\ ~w.abort
    BY <1>7, <1>9, GrowsTrans
  <1>11. PICK instr : instr = t.pool[e].instr
    OBVIOUS
  <1>12. CASE instr.kind = "J"
    <2>1. PICK q \in D : u = tcache_bb_fetch(w, e, TRUE, q)
      <3>1. (CHOOSE q \in instr.to : TRUE) \in D
        BY <1>11, <1>12 DEF GoesOn, Instrs
      <3>2. u = tcache_bb_fetch(w, e, TRUE, CHOOSE q \in instr.to : TRUE)
        BY <1>6, <1>8, <1>11, <1>12 DEF Link
      <3>3. QED
        BY <3>1, <3>2
    <2>2. PICK b \in BOOLEAN : b
      OBVIOUS
    <2>3. u = tcache_bb_fetch(w, e, b, q)
      BY <2>1, <2>2
    <2>4. PICK Y : Y = X \ {<<e, b>>}
      OBVIOUS
    <2>5. u \in Cache(D) /\ Shaped(u, D, F) /\ Grows(w, u) /\ (u.abort \/ Linked(u, Y))
      BY <1>9, <1>10, <2>3, <2>4, BbFetchKeeps
    <2>6. Grows(t, u)
      BY <1>10, <2>5, GrowsTrans
    <2>7. Sides(u.pool[e].instr) = {TRUE}
      BY <1>2, <1>11, <1>12, <2>6 DEF Grows, Sides
    <2>8. ASSUME Linked(u, Y) PROVE Linked(u, {})
      <3> SUFFICES ASSUME NEW g \in Entries, NEW c \in Sides(u.pool[g].instr)
                   PROVE  Target(u, NextOf(u, g, c))
        BY DEF Linked
      <3>1. <<g, c>> \notin Y
        BY <1>5, <2>2, <2>7, <2>4
      <3>2. QED
        BY <2>8, <3>1 DEF Linked
    <2>9. QED
      BY <2>5, <2>6, <2>8
  <1>13. CASE instr.kind = "B"
    <2>1. PICK a \in BOOLEAN, b \in BOOLEAN : a /\ ~b
      OBVIOUS
    <2>2. PICK r \in D : r = p + 1
      BY <1>11, <1>13 DEF GoesOn
    <2>3. PICK q \in D : u = tcache_bb_fetch(tcache_bb_fetch(w, e, TRUE, q), e, FALSE, p + 1)
      <3>1. (CHOOSE q \in instr.to : TRUE) \in D
        BY <1>11, <1>13 DEF GoesOn, Instrs
      <3>2. u = tcache_bb_fetch(tcache_bb_fetch(w, e, TRUE, CHOOSE q \in instr.to : TRUE),
                                e, FALSE, p + 1)
        BY <1>6, <1>8, <1>11, <1>13 DEF Link
      <3>3. QED
        BY <3>1, <3>2
    <2>4. PICK x : x = tcache_bb_fetch(w, e, a, q)
      OBVIOUS
    <2>5. PICK Y, Z : Y = X \ {<<e, a>>} /\ Z = Y \ {<<e, b>>}
      OBVIOUS
    <2>6. u = tcache_bb_fetch(x, e, b, r)
      BY <2>1, <2>2, <2>3, <2>4
    <2>7. x \in Cache(D) /\ Shaped(x, D, F) /\ Grows(w, x) /\ (x.abort \/ Linked(x, Y))
      BY <1>9, <1>10, <2>4, <2>5, BbFetchKeeps
    <2>8. u \in Cache(D) /\ Shaped(u, D, F) /\ Grows(x, u) /\ (u.abort \/ Linked(u, Z))
      BY <2>5, <2>6, <2>7, BbFetchKeeps
    <2>9. Grows(t, u)
      BY <1>10, <2>7, <2>8, GrowsTrans
    <2>10. Z = {}
      BY <1>5, <2>1, <2>5, BothSides
    <2>11. QED
      BY <2>8, <2>9, <2>10
  <1>14. CASE instr.kind \notin {"J", "B"}
    <2>1. PICK a \in BOOLEAN, b \in BOOLEAN : a /\ ~b
      OBVIOUS
    <2>2. PICK x : x = SetNext(w, e, a, e)
      OBVIOUS
    <2>3. u = SetNext(x, e, b, e)
      <3>1. u = SetNext(SetNext(w, e, TRUE, e), e, FALSE, e)
        BY <1>6, <1>8, <1>11, <1>14 DEF Link
      <3>2. QED
        BY <2>1, <2>2, <3>1
    <2>4. PICK Y : Y = X \ {<<e, a>>}
      OBVIOUS
    <2>5. x \in Cache(D) /\ Shaped(x, D, F) /\ Grows(w, x) /\ Linked(x, Y)
      <3>1. Target(w, e)
        BY <1>4, <1>10, GrowsKeeps
      <3>2. QED
        BY <1>9, <2>2, <2>4, <3>1, SetNextKeeps
    <2>6. Grows(t, x)
      BY <1>10, <2>5, GrowsTrans
    <2>7. u \in Cache(D) /\ Shaped(u, D, F) /\ Grows(x, u) /\ Linked(u, Y \ {<<e, b>>})
      <3>1. Target(x, e)
        BY <1>4, <2>6, GrowsKeeps
      <3>2. QED
        BY <2>3, <2>5, <3>1, SetNextKeeps
    <2>8. Y \ {<<e, b>>} = {}
      BY <1>5, <2>1, <2>4, BothSides
    <2>9. QED
      BY <2>6, <2>7, <2>8, GrowsTrans
  <1>15. QED
    BY <1>12, <1>13, <1>14

----------------------------------------------------------------------------
(* Every step keeps the types.                                              *)

LEMMA ProgramFacts ==
    ASSUME SeenInv
    PROVE  /\ Dom \subseteq Nat /\ -1 \notin Dom /\ DOMAIN code = Dom
           /\ program.start \in Dom /\ program.handler \in Dom
           /\ \A p \in Dom : code[p] \in seen[p]
           /\ \A p \in Dom : \A i \in seen[p] : GoesOn(Dom, p, i)
  <1>1. program \in Programs /\ DOMAIN code = Dom
    BY DEF SeenInv
  <1>2. Dom \subseteq Nat /\ program.start \in Dom /\ program.handler \in Dom
    BY <1>1, ProgramsAssumption DEF Dom
  <1>3. ASSUME NEW p \in Dom, NEW i \in seen[p] PROVE GoesOn(Dom, p, i)
    <2>1. i \in Possible(program, p)
      BY <1>3 DEF SeenInv
    <2>2. QED
      BY <1>1, <1>3, <2>1, ProgramsAssumption DEF Dom, GoesOn, Instrs
  <1>4. QED
    BY <1>1, <1>2, <1>3 DEF SeenInv

LEMMA SameMemory ==
    ASSUME SeenInv, UNCHANGED memVars
    PROVE  SeenInv' /\ Dom' = Dom /\ seen' = seen /\ code' = code
  BY DEF SeenInv, memVars, Dom

\* Everything is dropped and a block begun.
LEMMA FlushKeeps ==
    ASSUME NEW D, -1 \notin D, NEW F, NEW pc \in D, NEW t, t = tcache_bb_new(tcache_flush(D), pc)
    PROVE  /\ t \in Cache(D) /\ Shaped(t, D, F) /\ Linked(t, {}) /\ ~t.abort
           /\ TcacheSize + 1 \in Nodes /\ Target(t, TcacheSize + 1)
           /\ t.pool[TcacheSize + 1].pc = pc
  <1>1. PICK v : v = tcache_flush(D)
    OBVIOUS
  <1>2. PICK X : X = {}
    OBVIOUS
  <1>3. /\ v \in Cache(D) /\ Shaped(v, D, F) /\ Linked(v, X) /\ ~v.abort
        /\ v.free = TcacheSize + 1
    BY <1>1, <1>2, FlushShaped
  <1>4. v.free # Null /\ v.free \in Records
    BY <1>3, Numbers
  <1>5. t = tcache_bb_new(v, pc)
    BY <1>1
  <1>6. t \in Cache(D) /\ Shaped(t, D, F) /\ Linked(t, X)
    BY <1>3, <1>4, <1>5, BbNewKeeps
  <1>7. t.pool[v.free] = Fresh(pc) /\ t.abort = v.abort
    BY <1>3, <1>4, <1>5, BbNewOf
  <1>8. t.pool[TcacheSize + 1].pc = pc /\ TcacheSize + 1 \in Records /\ TcacheSize + 1 \in Nodes
    BY <1>3, <1>4, <1>7, Numbers DEF Fresh
  <1>9. Target(t, TcacheSize + 1)
    BY <1>8 DEF Target
  <1>10. QED
    BY <1>2, <1>3, <1>6, <1>7, <1>8, <1>9

LEMMA HandleKeeps ==
    ASSUME NEW D, -1 \notin D, NEW F, NEW t \in Cache(D), Shaped(t, D, F), Linked(t, {}),
           ~t.abort, NEW jpc \in D, s \in Nodes, HandleException(t, jpc)
    PROVE  /\ tc' \in Cache(D) /\ Shaped(tc', D, F) /\ s' \in Nodes
           /\ tcache_state' = "RUNNING" /\ bb_now' = bb_now /\ bb_now_record' = bb_now_record
           /\ ~tc'.abort => Linked(tc', {}) /\ Target(tc', s') /\ tc'.pool[s'].pc = jpc
  <1>1. PICK b \in BOOLEAN : b
    OBVIOUS
  <1>2. PICK u : u = tcache_bb_fetch(t, Ex, b, jpc) /\ u = tc'
    BY <1>1 DEF HandleException
  <1>3. PICK X, Y : X = {} /\ Y = X \ {<<Ex, b>>}
    OBVIOUS
  <1>4. Linked(t, X)
    BY <1>3
  <1>5. PICK e \in {Ex} \cup Entries : e = Ex
    OBVIOUS
  <1>6. u = tcache_bb_fetch(t, e, b, jpc) /\ Y = X \ {<<e, b>>}
    BY <1>2, <1>3, <1>5
  <1>7. /\ u \in Cache(D) /\ Shaped(u, D, F)
        /\ u.abort \/ (Linked(u, Y) /\ Target(u, Fetched(t, jpc)) /\ u.pool[Fetched(t, jpc)].pc = jpc)
    BY <1>4, <1>6, BbFetchKeeps
  <1>8. s' = IF tc'.abort THEN s ELSE Fetched(t, jpc)
    BY DEF HandleException
  <1>9. Y = {}
    BY <1>3
  <1>10. CASE u.abort
    BY <1>2, <1>7, <1>8, <1>10 DEF HandleException
  <1>11. CASE ~u.abort
    <2>1. s' = Fetched(t, jpc) /\ Linked(u, {}) /\ Target(u, s') /\ u.pool[s'].pc = jpc
      BY <1>2, <1>7, <1>8, <1>9, <1>11
    <2>2. s' \in Nodes
      BY <2>1 DEF Target
    <2>3. QED
      BY <1>2, <1>7, <2>1, <2>2 DEF HandleException
  <1>12. QED
    BY <1>10, <1>11

\* What runs after an exception.
LEMMA HandleTyped ==
    ASSUME TypeInv, ~tc.abort, SeenInv', Dom' = Dom, NEW t \in Cache(Dom), Shaped(t, Dom, seen'),
           Linked(t, {}), ~t.abort, NEW jpc \in Dom, HandleException(t, jpc),
           Running(tc') \/ Between(tc')
    PROVE  TypeInv'
  <1>1. -1 \notin Dom
    BY ProgramFacts DEF TypeInv
  <1>2. PICK F : F = seen'
    OBVIOUS
  <1>3. s \in Nodes /\ bb_now \in {Null} \cup Entries /\ bb_now_record \in {Null} \cup Records
    BY DEF TypeInv
  <1>4. /\ tc' \in Cache(Dom) /\ Shaped(tc', Dom, F) /\ s' \in Nodes
        /\ tcache_state' = "RUNNING" /\ bb_now' = bb_now /\ bb_now_record' = bb_now_record
        /\ ~tc'.abort => Linked(tc', {}) /\ Target(tc', s')
    BY <1>1, <1>2, <1>3, HandleKeeps
  <1>5. /\ tc'.abort <=> phase' = "aborted"
        /\ phase' \in {"execute", "loop", "aborted"}
    BY <1>4, Fields DEF Running, Between
  <1>6. ~tc'.abort => RunInv'
    BY <1>4 DEF RunInv, Target
  <1>7. QED
    BY <1>2, <1>3, <1>4, <1>5, <1>6 DEF TypeInv

LEMMA InitTyped == Init => TypeInv
  <1> SUFFICES ASSUME Init PROVE TypeInv
    OBVIOUS
  <1>1. SeenInv
    BY DEF Init, SeenInv, Dom, Possible
  <1>2. Dom \subseteq Nat /\ -1 \notin Dom /\ DOMAIN code = Dom /\ program.start \in Dom
    BY <1>1, ProgramFacts
  <1>3. tc = tcache_bb_new(tcache_flush(Dom), program.start)
    BY <1>2 DEF Init
  <1>4. /\ tc \in Cache(Dom) /\ Shaped(tc, Dom, seen) /\ Linked(tc, {}) /\ ~tc.abort
        /\ TcacheSize + 1 \in Nodes /\ Target(tc, TcacheSize + 1)
    BY <1>2, <1>3, FlushKeeps
  <1>5. RunInv
    BY <1>4 DEF Init, RunInv, Target
  <1>6. QED
    BY <1>1, <1>4, <1>5 DEF Init, TypeInv

LEMMA FullTyped ==
    ASSUME TypeInv, ~tc.abort, Full
    PROVE  TypeInv'
  <1>1. SeenInv' /\ Dom' = Dom /\ seen' = seen /\ Pc \in Dom /\ -1 \notin Dom /\ DOMAIN code = Dom
    <2>1. s \in Nodes /\ tc \in Cache(Dom) /\ RunInv
      BY DEF TypeInv
    <2>2. Pc \in Dom
      BY <2>1, NodeFields DEF RunInv, Pc
    <2>3. QED
      BY <2>2, SameMemory, ProgramFacts DEF TypeInv, Full
  <1>2. tc' = tcache_bb_new(tcache_flush(Dom), Pc)
    BY <1>1 DEF Full
  <1>3. /\ tc' \in Cache(Dom) /\ Shaped(tc', Dom, seen) /\ Linked(tc', {}) /\ ~tc'.abort
        /\ TcacheSize + 1 \in Nodes /\ Target(tc', TcacheSize + 1)
    BY <1>1, <1>2, FlushKeeps
  <1>4. /\ s' = TcacheSize + 1 /\ tcache_state' = "RUNNING" /\ bb_now' = Null /\ bb_now_record' = Null
        /\ phase' = "loop"
    BY <1>3 DEF Full, Between
  <1>5. RunInv'
    BY <1>3, <1>4 DEF RunInv, Target
  <1>6. QED
    BY <1>1, <1>3, <1>4, <1>5 DEF TypeInv

LEMMA RunFacts ==
    ASSUME TypeInv, ~tc.abort
    PROVE  /\ SeenInv /\ tc \in Cache(Dom) /\ Shaped(tc, Dom, seen) /\ Linked(tc, {}) /\ RunInv
           /\ s \in Nodes /\ Pc \in Dom /\ -1 \notin Dom /\ DOMAIN code = Dom
           /\ program.handler \in Dom
           /\ bb_now \in {Null} \cup Entries /\ bb_now_record \in {Null} \cup Records
  <1>1. /\ SeenInv /\ tc \in Cache(Dom) /\ Shaped(tc, Dom, seen) /\ Linked(tc, {}) /\ RunInv
        /\ s \in Nodes
        /\ bb_now \in {Null} \cup Entries /\ bb_now_record \in {Null} \cup Records
    BY DEF TypeInv
  <1>2. Pc \in Dom
    BY <1>1, NodeFields DEF RunInv, Pc
  <1>3. QED
    BY <1>1, <1>2, ProgramFacts

LEMMA DecodedFacts ==
    ASSUME TypeInv, ~tc.abort, Decoded
    PROVE  /\ s \in Entries /\ IsDecoded(tc, s) /\ Follows(tc, s, seen)
           /\ tc.pool[s].instr \in seen[Pc] /\ GoesOn(Dom, Pc, tc.pool[s].instr)
  <1>1. s \in Entries /\ IsDecoded(tc, s)
    BY RunFacts DEF Decoded, IsDecoded, Shaped, Nodes
  <1>2. Follows(tc, s, seen)
    BY <1>1, RunFacts DEF Shaped
  <1>3. QED
    BY <1>1, <1>2, RunFacts, ProgramFacts DEF Follows, Pc

\* What is not decoded and runs is a record, or the entry at the end.
LEMMA UndecodedFacts ==
    ASSUME TypeInv, ~tc.abort, ~Decoded
    PROVE  /\ tcache_state = "RUNNING" => s \in Records
           /\ tcache_state = "BUILDING" => s = tc.tc_idx /\ s \in Entries
  <1>1. ~IsDecoded(tc, s) /\ s \in Nodes /\ RunInv
    BY RunFacts DEF Decoded, IsDecoded
  <1>2. ASSUME tcache_state = "RUNNING" PROVE s \in Records
    <2>1. ASSUME Complete(tc, s) PROVE IsDecoded(tc, s)
      BY <2>1, Numbers DEF Complete
    <2>2. QED
      BY <1>1, <1>2, <2>1 DEF RunInv
  <1>3. ASSUME tcache_state = "BUILDING" PROVE s = tc.tc_idx /\ s \in Entries
    <2>1. Building
      BY <1>1, <1>3 DEF RunInv
    <2>2. tc.tc_idx \in Nat /\ tc.tc_idx <= TcacheSize /\ TcacheSize \in Nat /\ bb_now \in Int
          /\ 1 <= bb_now
      BY <2>1, RunFacts, Fields, Positions, Numbers DEF Building
    <2>3. s \in Int /\ 1 <= s /\ s <= TcacheSize /\ bb_now <= s
      BY <2>1, <2>2 DEF Building
    <2>4. s \in Entries
      BY <2>3, Positions
    <2>5. ~(s < tc.tc_idx)
      BY <1>1, <2>1, <2>3, <2>4 DEF Building
    <2>6. QED
      BY <2>1, <2>2, <2>4, <2>5 DEF Building
  <1>4. QED
    BY <1>2, <1>3

\* The end of a block runs only when the block is decoded.
LEMMA EndsRunning ==
    ASSUME TypeInv, ~tc.abort, Executes({"J", "B", "I", "X"})
    PROVE  tcache_state = "RUNNING" /\ Ends(tc, s)
  <1>1. Ends(tc, s) /\ Decoded
    BY DEF Executes, Ends, EndsBlock
  <1>2. s \in Entries /\ IsDecoded(tc, s)
    BY <1>1, DecodedFacts
  <1>3. ASSUME tcache_state = "BUILDING" PROVE FALSE
    <2>1. Building
      BY <1>3, RunFacts DEF RunInv
    <2>2. tc.tc_idx \in Int /\ bb_now \in Int /\ bb_now < tc.tc_idx /\ s # tc.tc_idx
      BY <1>2, <2>1, RunFacts, Fields, Positions, Numbers DEF Building
    <2>3. s = tc.tc_idx - 1
      BY <2>1, <2>2 DEF Building
    <2>4. bb_now <= s /\ s < tc.tc_idx
      BY <2>2, <2>3
    <2>5. QED
      BY <1>1, <1>2, <2>1, <2>4 DEF Building
  <1>4. QED
    BY <1>1, <1>3 DEF TypeInv

LEMMA TrapTyped ==
    ASSUME TypeInv, Interrupt \/ ExecFault
    PROVE  TypeInv'
  <1>1. /\ ~tc.abort /\ UNCHANGED memVars /\ Running(tc')
        /\ HandleException(tc, program.handler)
    BY DEF TypeInv, Interrupt, ExecFault, Executes
  <1>2. SeenInv' /\ Dom' = Dom /\ seen' = seen
    BY <1>1, SameMemory DEF TypeInv
  <1>3. QED
    BY <1>1, <1>2, RunFacts, HandleTyped

LEMMA FenceTyped ==
    ASSUME TypeInv, ExecFence
    PROVE  TypeInv'
  <1>1. ~tc.abort /\ Decoded /\ tc.pool[s].instr.kind = "F"
    BY DEF TypeInv, ExecFence, Executes
  <1>2. Pc + 1 \in Dom
    BY <1>1, DecodedFacts DEF GoesOn
  <1>3. SeenInv' /\ Dom' = Dom
    <2>1. Dom' = Dom /\ code' = code /\ program' = program
      BY DEF ExecFence, Dom
    <2>2. DOMAIN seen' = Dom /\ \A p \in Dom : seen'[p] = {code[p]}
      BY <1>1, RunFacts DEF ExecFence
    <2>3. QED
      BY <2>1, <2>2 DEF TypeInv, SeenInv
  <1>4. PICK t : t = tcache_flush(Dom)
    OBVIOUS
  <1>5. t \in Cache(Dom) /\ Shaped(t, Dom, seen') /\ Linked(t, {}) /\ ~t.abort
    BY <1>4, FlushShaped
  <1>6. HandleException(t, Pc + 1) /\ Between(tc')
    BY <1>1, <1>4, RunFacts DEF ExecFence
  <1>7. QED
    BY <1>1, <1>2, <1>3, <1>5, <1>6, HandleTyped

LEMMA ResumeTyped ==
    ASSUME TypeInv, Resume
    PROVE  TypeInv'
  <1>1. SeenInv' /\ Dom' = Dom /\ seen' = seen
    BY SameMemory DEF TypeInv, Resume
  <1>2. RunInv' <=> RunInv
    BY DEF Resume, RunInv, Building, buildVars
  <1>3. QED
    BY <1>1, <1>2 DEF Resume, TypeInv, buildVars

LEMMA BranchTyped ==
    ASSUME TypeInv, ExecBranch
    PROVE  TypeInv'
  <1>1. ~tc.abort /\ Decoded /\ tc.pool[s].instr.kind \in {"J", "B"}
    BY DEF TypeInv, ExecBranch, Executes
  <1>2. tcache_state = "RUNNING" /\ s \in Entries /\ Linked(tc, {})
    BY <1>1, EndsRunning, DecodedFacts, RunFacts DEF ExecBranch, Executes
  <1>3. Target(tc, s')
    <2>1. PICK b \in Sides(tc.pool[s].instr) : s' = NextOf(tc, s, b)
      BY <1>1 DEF ExecBranch, Sides, NextOf
    <2>2. QED
      BY <1>2, <2>1 DEF Linked
  <1>4. SeenInv' /\ Dom' = Dom /\ seen' = seen
    BY SameMemory DEF TypeInv, ExecBranch
  <1>5. tc' = tc /\ UNCHANGED buildVars /\ phase' \in {"execute", "loop"}
    BY <1>1 DEF ExecBranch, EndOfBlock, Running, Between
  <1>6. RunInv' /\ s' \in Nodes
    BY <1>2, <1>3, <1>5 DEF RunInv, Target, buildVars
  <1>7. QED
    BY <1>1, <1>4, <1>5, <1>6 DEF TypeInv, buildVars

LEMMA StoreKeepsMemory ==
    ASSUME TypeInv, ~tc.abort, Decoded, tc.pool[s].instr.kind = "S",
           NEW p \in tc.pool[s].instr.to, program' = program,
           code' = [code EXCEPT ![p] = program.patch],
           seen' = [seen EXCEPT ![p] = @ \cup {program.patch}]
    PROVE  SeenInv' /\ Dom' = Dom /\ \A q \in Dom : seen[q] \subseteq seen'[q]
  <1>1. SeenInv /\ Pc \in Dom /\ DOMAIN seen = Dom /\ DOMAIN code = Dom
    BY RunFacts DEF SeenInv
  <1>2. tc.pool[s].instr \in seen[Pc] /\ GoesOn(Dom, Pc, tc.pool[s].instr)
    BY DecodedFacts
  <1>3. p \in Dom
    BY <1>2 DEF GoesOn, Instrs
  <1>4. tc.pool[s].instr \in Possible(program, Pc)
    BY <1>1, <1>2 DEF SeenInv
  <1>5. tc.pool[s].instr \in {program.code[Pc], program.patch}
    BY <1>4 DEF Possible
  <1>6. program.patch \in Possible(program, p)
    BY <1>1, <1>5 DEF Possible, Dom
  <1>7. Dom' = Dom
    BY DEF Dom
  <1>8. DOMAIN code' = Dom /\ DOMAIN seen' = Dom
    BY <1>1
  <1>9. \A q \in Dom : seen'[q] = IF q = p THEN seen[q] \cup {program.patch} ELSE seen[q]
    BY <1>1, <1>3
  <1>10. \A q \in Dom : code'[q] = IF q = p THEN program.patch ELSE code[q]
    BY <1>1, <1>3
  <1>11. \A q \in Dom : code'[q] \in seen'[q] /\ seen'[q] \subseteq Possible(program, q)
    BY <1>1, <1>6, <1>9, <1>10 DEF SeenInv
  <1>12. SeenInv'
    BY <1>1, <1>7, <1>8, <1>11 DEF SeenInv
  <1>13. QED
    BY <1>7, <1>9, <1>12

\* What may be decoded may be decoded when more was seen.
LEMMA SeenMore ==
    ASSUME NEW D, NEW F, NEW G, NEW t \in Cache(D), Shaped(t, D, F), -1 \notin D,
           \A p \in D : F[p] \subseteq G[p]
    PROVE  Shaped(t, D, G)
  <1>1. ASSUME NEW e \in Entries, Follows(t, e, F) PROVE Follows(t, e, G)
    <2>1. t.pool[e].pc \in D
      BY <1>1, NodeFields, Numbers DEF Follows
    <2>2. QED
      BY <1>1, <2>1 DEF Follows
  <1>2. QED
    BY <1>1 DEF Shaped

LEMMA NormalTyped ==
    ASSUME TypeInv, ExecNormal
    PROVE  TypeInv'
  <1>1. /\ ~tc.abort /\ Decoded /\ tc.pool[s].instr.kind \in {"N", "S", "U"}
        /\ s' = s + 1 /\ program' = program /\ tc' = tc /\ UNCHANGED buildVars
        /\ phase' \in {"execute", "loop"}
    BY DEF TypeInv, ExecNormal, Executes
  <1>2. SeenInv' /\ Dom' = Dom /\ \A q \in Dom : seen[q] \subseteq seen'[q]
    <2>1. CASE UNCHANGED <<code, seen>>
      BY <1>1, <2>1, SameMemory, RunFacts DEF memVars
    <2>2. CASE /\ tc.pool[s].instr.kind = "S"
               /\ \E p \in tc.pool[s].instr.to :
                    /\ code' = [code EXCEPT ![p] = program.patch]
                    /\ seen' = [seen EXCEPT ![p] = @ \cup {program.patch}]
      BY <1>1, <2>2, StoreKeepsMemory
    <2>3. QED
      BY <2>1, <2>2 DEF ExecNormal
  <1>3. Shaped(tc, Dom, seen')
    BY <1>1, <1>2, RunFacts, SeenMore
  <1>4. /\ s \in Entries /\ s \in Int /\ IsDecoded(tc, s) /\ Follows(tc, s, seen) /\ ~Ends(tc, s)
    BY <1>1, DecodedFacts, Numbers DEF Ends, EndsBlock
  <1>5. /\ s + 1 <= tc.tc_idx /\ tc.pool[s + 1].pc = tc.pool[s].pc + 1 /\ s + 1 \in Entries
    BY <1>1, <1>4, RunFacts, Fields, Positions DEF Follows
  <1>6. tc.pool[s + 1].pc # -1
    <2>1. Pc \in Nat
      BY <1>1, RunFacts, ProgramFacts
    <2>2. QED
      BY <1>5, <2>1 DEF Pc
  <1>7. ASSUME tcache_state = "RUNNING" PROVE Complete(tc, s + 1)
    <2>1. Complete(tc, s)
      BY <1>1, <1>4, <1>7, RunFacts, Numbers DEF RunInv
    <2>2. PICK f \in Entries : /\ s <= f /\ Ends(tc, f)
                               /\ \A g \in Entries : s <= g /\ g <= f => IsDecoded(tc, g)
      BY <2>1 DEF Complete
    <2>3. s # f /\ f \in Int
      BY <1>4, <2>2, Numbers
    <2>4. s + 1 <= f
      BY <1>4, <2>2, <2>3
    <2>5. \A g \in Entries : s + 1 <= g /\ g <= f => IsDecoded(tc, g)
      BY <1>4, <2>2, Numbers
    <2>6. QED
      BY <1>5, <2>2, <2>4, <2>5 DEF Complete
  <1>8. ASSUME tcache_state = "BUILDING" PROVE Building'
    <2>1. Building /\ tc.tc_idx \in Int
      BY <1>1, <1>8, RunFacts, Fields, Positions DEF RunInv
    <2>2. s + 1 = tc.tc_idx
      BY <1>4, <1>5, <2>1 DEF Building
    <2>3. QED
      BY <1>1, <2>1, <2>2 DEF Building, buildVars
  <1>9. RunInv' /\ s' \in Nodes
    BY <1>1, <1>5, <1>6, <1>7, <1>8, Numbers DEF RunInv, buildVars
  <1>10. QED
    BY <1>1, <1>2, <1>3, <1>9 DEF TypeInv, buildVars

\* What an indirect jump does to the cache.
LEMMA JrCases ==
    ASSUME TypeInv, ExecJr
    PROVE  \E target \in tc.pool[s].instr.to : target \in Dom /\
           \/ tc' = tc /\ \E b \in BOOLEAN : s' = NextOf(tc, s, b) /\ tc.pool[s'].pc = target
           \/ \E b \in BOOLEAN, c \in BOOLEAN : \E v :
                /\ b /\ ~c /\ tc.pool[NextOf(tc, s, b)].pc # target
                /\ tc.pool[NextOf(tc, s, c)].pc # target
                /\ v = SetNext(tc, s, c, NextOf(tc, s, b))
                /\ tc' = tcache_bb_fetch(v, s, b, target) /\ s' = NextOf(tc', s, b)
  <1>1. ~tc.abort /\ Decoded
    BY DEF TypeInv, ExecJr, Executes
  <1>2. PICK target \in tc.pool[s].instr.to :
            \/ /\ tc.pool[tc.pool[s].tnext].pc = target
               /\ s' = tc.pool[s].tnext /\ UNCHANGED tc
            \/ /\ tc.pool[tc.pool[s].ntnext].pc = target
               /\ s' = tc.pool[s].ntnext /\ UNCHANGED tc
            \/ /\ tc.pool[tc.pool[s].tnext].pc # target /\ tc.pool[tc.pool[s].ntnext].pc # target
               /\ tc' = tcache_jr_fetch(tc, s, target)
               /\ s' = tc'.pool[s].tnext
    BY DEF ExecJr
  <1>3. target \in Dom
    BY <1>1, DecodedFacts DEF GoesOn, Instrs
  <1>4. PICK b \in BOOLEAN, c \in BOOLEAN : b /\ ~c
    OBVIOUS
  <1>5. CASE tc.pool[tc.pool[s].tnext].pc = target /\ s' = tc.pool[s].tnext /\ UNCHANGED tc
    <2>1. s' = NextOf(tc, s, b)
      BY <1>4, <1>5 DEF NextOf
    <2>2. QED
      BY <1>3, <1>5, <2>1
  <1>6. CASE tc.pool[tc.pool[s].ntnext].pc = target /\ s' = tc.pool[s].ntnext /\ UNCHANGED tc
    <2>1. s' = NextOf(tc, s, c)
      BY <1>4, <1>6 DEF NextOf
    <2>2. QED
      BY <1>3, <1>6, <2>1
  <1>7. CASE /\ tc.pool[tc.pool[s].tnext].pc # target /\ tc.pool[tc.pool[s].ntnext].pc # target
             /\ tc' = tcache_jr_fetch(tc, s, target) /\ s' = tc'.pool[s].tnext
    <2>1. NextOf(tc, s, b) = tc.pool[s].tnext /\ NextOf(tc, s, c) = tc.pool[s].ntnext
      BY <1>4 DEF NextOf
    <2>2. PICK v : v = SetNext(tc, s, c, NextOf(tc, s, b))
      OBVIOUS
    <2>3. s \in DOMAIN tc.pool
      BY <1>1, RunFacts, Fields
    <2>4. v = [tc EXCEPT !.pool[s].ntnext = tc.pool[s].tnext]
      BY <1>4, <2>1, <2>2, <2>3 DEF SetNext
    <2>5. tc' = tcache_bb_fetch(v, s, TRUE, target)
      BY <1>7, <2>4 DEF tcache_jr_fetch
    <2>6. tc' = tcache_bb_fetch(v, s, b, target) /\ s' = NextOf(tc', s, b)
      BY <1>4, <1>7, <2>5 DEF NextOf
    <2>7. QED
      BY <1>3, <1>4, <1>7, <2>1, <2>2, <2>6
  <1>8. QED
    BY <1>2, <1>5, <1>6, <1>7

LEMMA JrTyped ==
    ASSUME TypeInv, ExecJr
    PROVE  TypeInv'
  <1>1. /\ ~tc.abort /\ Decoded /\ tc.pool[s].instr.kind \in {"I", "X"}
        /\ UNCHANGED <<memVars, buildVars>>
    BY DEF TypeInv, ExecJr, Executes
  <1>2. /\ tcache_state = "RUNNING" /\ s \in Entries /\ Linked(tc, {}) /\ IsDecoded(tc, s)
        /\ tc \in Cache(Dom) /\ Shaped(tc, Dom, seen) /\ -1 \notin Dom
    BY <1>1, EndsRunning, DecodedFacts, RunFacts DEF ExecJr, Executes
  <1>3. \A b \in BOOLEAN : Target(tc, NextOf(tc, s, b))
    <2>1. Sides(tc.pool[s].instr) = BOOLEAN
      BY <1>1 DEF Sides
    <2>2. QED
      BY <1>2, <2>1 DEF Linked
  <1>4. SeenInv' /\ Dom' = Dom /\ seen' = seen
    BY <1>1, SameMemory DEF TypeInv
  <1>5. /\ tc' \in Cache(Dom) /\ Shaped(tc', Dom, seen) /\ s' \in Nodes
        /\ ~tc'.abort => Linked(tc', {}) /\ Target(tc', s')
    <2>1. PICK target \in Dom :
           \/ tc' = tc /\ \E b \in BOOLEAN : s' = NextOf(tc, s, b) /\ tc.pool[s'].pc = target
           \/ \E b \in BOOLEAN, c \in BOOLEAN : \E v :
                /\ b /\ ~c
                /\ v = SetNext(tc, s, c, NextOf(tc, s, b))
                /\ tc' = tcache_bb_fetch(v, s, b, target) /\ s' = NextOf(tc', s, b)
      BY JrCases
    <2>2. CASE tc' = tc /\ \E b \in BOOLEAN : s' = NextOf(tc, s, b)
      BY <1>2, <1>3, <2>2 DEF Target
    <2>3. ASSUME NEW b \in BOOLEAN, NEW c \in BOOLEAN, NEW v, b /\ ~c,
                 v = SetNext(tc, s, c, NextOf(tc, s, b)),
                 tc' = tcache_bb_fetch(v, s, b, target), s' = NextOf(tc', s, b)
          PROVE  /\ tc' \in Cache(Dom) /\ Shaped(tc', Dom, seen) /\ s' \in Nodes
                 /\ ~tc'.abort => Linked(tc', {}) /\ Target(tc', s')
      <3>1. PICK x : x = NextOf(tc, s, b)
        OBVIOUS
      <3>2. Target(tc, x) /\ x \in Nodes
        BY <1>3, <3>1 DEF Target
      <3>3. PICK X, Y, Z : X = {} /\ Y = X \ {<<s, c>>} /\ Z = Y \ {<<s, b>>}
        OBVIOUS
      <3>4. Linked(tc, X) /\ v = SetNext(tc, s, c, x)
        BY <1>2, <2>3, <3>1, <3>3
      <3>5. v \in Cache(Dom) /\ Shaped(v, Dom, seen) /\ Linked(v, Y) /\ Grows(tc, v)
        BY <1>2, <3>2, <3>3, <3>4, SetNextKeeps
      <3>6. v.abort = tc.abort
        BY <1>2, <3>2, <3>4, SetNextOf
      <3>7. NextOf(v, s, b) = NextOf(tc, s, b)
        <4>1. \A d \in BOOLEAN : d # c => NextOf(v, s, d) = NextOf(tc, s, d)
          BY <1>2, <3>2, <3>4, SetNextOf
        <4>2. b # c
          BY <2>3
        <4>3. QED
          BY <4>1, <4>2
      <3>8. PICK u : u = tcache_bb_fetch(v, s, b, target) /\ u = tc'
        BY <2>3
      <3>9. /\ u \in Cache(Dom) /\ Shaped(u, Dom, seen) /\ Grows(v, u)
            /\ u.abort => v.abort \/ u.pool = v.pool
            /\ u.abort \/ (/\ Linked(u, Z) /\ Target(u, Fetched(v, target))
                           /\ NextOf(u, s, b) = Fetched(v, target))
        <4>1. PICK e \in {Ex} \cup Entries : e = s
          BY <1>2
        <4>2. u = tcache_bb_fetch(v, e, b, target) /\ Z = Y \ {<<e, b>>} /\ e \in Entries
          BY <1>2, <3>3, <3>8, <4>1
        <4>3. u \in Cache(Dom) /\ Shaped(u, Dom, seen) /\ Grows(v, u)
          BY <1>2, <3>5, <4>2, BbFetchKeeps, ZenonT(40)
        <4>4. u.abort => v.abort \/ u.pool = v.pool
          BY <1>2, <3>5, <4>2, BbFetchKeeps
        <4>5. u.abort \/ (/\ Linked(u, Z) /\ Target(u, Fetched(v, target))
                          /\ NextOf(u, e, b) = Fetched(v, target))
          BY <1>2, <3>5, <4>2, BbFetchKeeps
        <4>6. QED
          BY <4>1, <4>3, <4>4, <4>5
      <3>10. CASE u.abort
        <4>1. s' = x
          BY <1>1, <2>3, <3>1, <3>6, <3>7, <3>8, <3>9, <3>10 DEF NextOf
        <4>2. QED
          BY <3>2, <3>8, <3>9, <3>10, <4>1
      <3>11. CASE ~u.abort
        <4>1. Target(u, s') /\ Linked(u, {})
          BY <2>3, <3>3, <3>8, <3>9, <3>11
        <4>2. QED
          BY <3>8, <3>9, <4>1 DEF Target
      <3>12. QED
        BY <3>10, <3>11
    <2>4. QED
      BY <2>1, <2>2, <2>3
  <1>6. /\ tc'.abort <=> phase' = "aborted"
        /\ phase' \in {"execute", "loop", "aborted"}
    <2>1. Running(tc') \/ Between(tc')
      BY DEF ExecJr, EndOfBlock
    <2>2. QED
      BY <1>5, <2>1, Fields DEF Running, Between
  <1>7. ~tc'.abort => RunInv'
    BY <1>1, <1>2, <1>5 DEF RunInv, Target, buildVars
  <1>8. QED
    BY <1>1, <1>4, <1>5, <1>6, <1>7 DEF TypeInv, buildVars

LEMMA FoundTyped ==
    ASSUME TypeInv, DecodeFound
    PROVE  TypeInv'
  <1>1. /\ ~tc.abort /\ ~Decoded /\ tcache_state = "RUNNING" /\ phase' = "execute"
        /\ UNCHANGED <<memVars, buildVars>>
    BY DEF TypeInv, DecodeFound
  <1>2. s \in Records /\ Pc \in Dom /\ -1 \notin Dom
    BY <1>1, RunFacts, UndecodedFacts
  <1>3. PICK now : now = tc.bb[Pc] /\ now # Null /\ s' = now
    BY DEF DecodeFound
  <1>4. Complete(tc, now) /\ tc.pool[now].pc = Pc
    BY <1>1, <1>2, <1>3, RunFacts DEF Shaped
  <1>5. now \in Entries /\ Target(tc, now)
    BY <1>2, <1>4, Numbers DEF Complete, Target
  <1>6. PICK X : X = {}
    OBVIOUS
  <1>7. /\ tc \in Cache(Dom) /\ Shaped(tc, Dom, seen) /\ Linked(tc, X)
        /\ tc' = tcache_patch_and_free(tc, s, now)
    BY <1>1, <1>3, <1>6, RunFacts DEF DecodeFound
  <1>8. PICK u : u = tc'
    OBVIOUS
  <1>9. /\ u \in Cache(Dom) /\ Shaped(u, Dom, seen) /\ Linked(u, X) /\ Grows(tc, u)
        /\ u.abort = tc.abort
    BY <1>2, <1>5, <1>7, <1>8, PatchKeeps
  <1>10. Target(u, now)
    BY <1>5, <1>9, GrowsKeeps
  <1>11. SeenInv' /\ Dom' = Dom /\ seen' = seen
    BY <1>1, SameMemory DEF TypeInv
  <1>12. RunInv' /\ s' \in Nodes
    BY <1>1, <1>3, <1>8, <1>10 DEF RunInv, Target, buildVars
  <1>13. QED
    BY <1>1, <1>6, <1>8, <1>9, <1>11, <1>12 DEF TypeInv, buildVars

LEMMA FetchDecodeTyped ==
    ASSUME TypeInv, ~tc.abort, NEW t \in Cache(Dom), Shaped(t, Dom, seen), Linked(t, {}), ~t.abort,
           NEW e \in Entries, e = t.tc_idx, ~IsDecoded(t, e), NEW p \in Dom, p = t.pool[e].pc,
           NEW now \in Entries, now <= e, NEW q \in Dom, q = t.pool[now].pc,
           \A g \in Entries : now <= g /\ g < e => IsDecoded(t, g) /\ ~Ends(t, g),
           NEW old \in Records, phase = "execute", FetchDecode(t, e, now, old)
    PROVE  TypeInv'
  <1>1. SeenInv /\ -1 \notin Dom
    BY RunFacts
  <1>2. PICK instr : instr = code[p]
    OBVIOUS
  <1>3. GoesOn(Dom, p, instr) /\ instr \in seen[p] /\ instr \in Instrs(Dom)
    BY <1>1, <1>2, ProgramFacts DEF GoesOn
  <1>4. PICK u : u = DecodedAs(t, e, instr)
    OBVIOUS
  <1>5. u = [t EXCEPT !.pool[e].instr = code[t.pool[e].pc]]
    BY <1>2, <1>4 DEF DecodedAs
  <1>6. /\ u \in Cache(Dom) /\ u.pool[e].instr = instr /\ u.pool[e].pc = p
        /\ u.abort = t.abort /\ u.tc_idx = t.tc_idx
    BY <1>3, <1>4, DecodedOf
  <1>7. \A n \in Nodes : n # e => u.pool[n] = t.pool[n]
    BY <1>3, <1>4, DecodedOf
  <1>8. u.pool[now].pc = q
    BY <1>6, <1>7, Numbers
  <1>9. CASE ~EndsBlock(instr) /\ HasRoom(u) /\ tc' = tcache_new(u, u.pool[e].pc + 1)
             /\ s' = e /\ tcache_state' = "BUILDING" /\ bb_now' = now /\ bb_now_record' = old
             /\ UNCHANGED <<memVars, phase>>
    <2>1. p + 1 \in Dom
      <3>1. instr.kind \in {"N", "S", "U", "F"}
        BY <1>3, <1>9 DEF GoesOn, Instrs, Kinds, EndsBlock
      <3>2. QED
        BY <1>3, <3>1 DEF GoesOn
    <2>2. PICK v : v = tcache_new(u, p + 1) /\ v = tc'
      BY <1>6, <1>9
    <2>3. /\ v \in Cache(Dom) /\ Shaped(v, Dom, seen) /\ Grows(t, v) /\ Linked(v, {})
          /\ v.tc_idx = e + 1 /\ v.abort = t.abort
          /\ e + 1 \in Entries /\ ~IsDecoded(v, e + 1)
          /\ v.pool[e].instr = instr /\ v.pool[e].pc = p
      <3>1. /\ -1 \notin Dom /\ p + 1 \in Dom
            /\ instr \in Instrs(Dom) /\ instr \in seen[p] /\ ~EndsBlock(instr)
            /\ u = DecodedAs(t, e, instr) /\ HasRoom(u) /\ v = tcache_new(u, p + 1)
            /\ Shaped(t, Dom, seen) /\ Linked(t, {})
        BY <1>1, <1>3, <1>4, <1>9, <2>1, <2>2
      <3>2. QED
        BY <3>1, DecodeNewKeeps
    <2>4. \A n \in Nodes : n \notin {e, e + 1} => v.pool[n] = t.pool[n]
      BY <1>1, <1>3, <1>4, <1>9, <2>1, <2>2, DecodeNewKeeps
    <2>5. SeenInv' /\ Dom' = Dom /\ seen' = seen
      BY <1>1, <1>9, SameMemory
    <2>6. IsDecoded(v, e) /\ ~Ends(v, e)
      <3>1. instr # NotDecoded
        BY <1>3 DEF GoesOn, Instrs, Kinds, NotDecoded
      <3>2. QED
        BY <1>9, <2>3, <3>1 DEF IsDecoded, Ends
    <2>7. ASSUME NEW g \in Entries, now <= g, g < e + 1
          PROVE  IsDecoded(v, g) /\ ~Ends(v, g)
      <3>1. CASE g = e
        BY <2>6, <3>1
      <3>2. CASE g # e
        <4>1. g \in Nodes /\ g \notin {e, e + 1} /\ g < e
          BY <2>7, <3>2, Numbers
        <4>2. v.pool[g] = t.pool[g] /\ IsDecoded(t, g) /\ ~Ends(t, g)
          BY <2>4, <2>7, <4>1
        <4>3. QED
          BY <4>2 DEF IsDecoded, Ends
      <3>3. QED
        BY <3>1, <3>2
    <2>8. Building'
      <3>1. now < e + 1 /\ e = e + 1 - 1 /\ e + 1 # e
        BY Numbers
      <3>2. QED
        <4>1. tc' = v /\ s' = e /\ bb_now' = now /\ bb_now_record' = old
          BY <1>9, <2>2
        <4>2. \A g \in Entries : now <= g /\ g < v.tc_idx => IsDecoded(v, g) /\ ~Ends(v, g)
          BY <2>3, <2>7
        <4>3. ~IsDecoded(v, v.tc_idx) /\ now < v.tc_idx /\ e \in {v.tc_idx - 1, v.tc_idx}
          BY <2>3, <3>1, Numbers
        <4>4. QED
          BY <4>1, <4>2, <4>3 DEF Building
    <2>9. RunInv'
      BY <1>1, <1>9, <2>2, <2>3, <2>8 DEF RunInv
    <2>10. QED
      BY <1>9, <2>2, <2>3, <2>5, <2>9, Numbers DEF TypeInv
  <1>10. CASE EndsBlock(instr) /\ ~bb_full(u, u.pool[now].pc) /\ tc' = Link(u, e, now, old)
              /\ s' = e /\ tcache_state' = "RUNNING" /\ bb_now' = Null /\ bb_now_record' = Null
              /\ Running(tc') /\ UNCHANGED memVars
    <2>1. e <= t.tc_idx
      BY Numbers
    <2>2. /\ u \in Cache(Dom) /\ Shaped(u, Dom, seen) /\ Grows(t, u) /\ Linked(u, {e} \X BOOLEAN)
          /\ Ends(u, e) /\ IsDecoded(u, e)
      BY <1>1, <1>3, <1>4, <1>10, <2>1, DecodeEndKeeps
    <2>3. Complete(u, now) /\ Complete(u, e)
      <3>1. ASSUME NEW g \in Entries, now <= g, g <= e PROVE IsDecoded(u, g)
        <4>1. CASE g = e
          BY <2>2, <4>1
        <4>2. CASE g # e
          <5>1. g < e
            BY <3>1, <4>2, Numbers
          <5>2. IsDecoded(t, g)
            BY <3>1, <5>1
          <5>3. QED
            BY <2>2, <5>2 DEF Grows, IsDecoded
        <4>3. QED
          BY <4>1, <4>2
      <3>2. \A g \in Entries : e <= g /\ g <= e => g = e
        BY Numbers
      <3>3. e <= e
        BY Numbers
      <3>4. QED
        BY <2>2, <3>1, <3>2, <3>3 DEF Complete
    <2>4. PICK v : v = Link(u, e, now, old) /\ v = tc'
      BY <1>10
    <2>5. v \in Cache(Dom) /\ Shaped(v, Dom, seen) /\ Grows(u, v) /\ (v.abort \/ Linked(v, {}))
      BY <1>1, <1>3, <1>6, <1>8, <1>10, <2>2, <2>3, <2>4, LinkKeeps
    <2>6. Target(v, e)
      <3>1. Target(u, e)
        BY <1>1, <1>6, <2>3, Numbers DEF Target
      <3>2. QED
        BY <2>5, <3>1, GrowsKeeps
    <2>7. SeenInv' /\ Dom' = Dom /\ seen' = seen
      BY <1>1, <1>10, SameMemory
    <2>8. RunInv' /\ s' \in Nodes
      BY <1>10, <2>4, <2>6 DEF RunInv, Target
    <2>9. /\ tc'.abort <=> phase' = "aborted"
          /\ phase' \in {"execute", "loop", "aborted"}
      BY <1>10, <2>4, <2>5, Fields DEF Running
    <2>10. QED
      BY <1>10, <2>4, <2>5, <2>7, <2>8, <2>9 DEF TypeInv
  <1>11. CASE Full
    BY <1>11, FullTyped
  <1>12. QED
    BY <1>2, <1>5, <1>6, <1>9, <1>10, <1>11 DEF FetchDecode

LEMMA FetchFaultTyped ==
    ASSUME TypeInv, ~tc.abort, NEW t \in Cache(Dom), Shaped(t, Dom, seen), Linked(t, {}), ~t.abort,
           FetchFault(t)
    PROVE  TypeInv'
  <1>1. HandleException(t, program.handler) /\ Running(tc') /\ UNCHANGED memVars
    BY DEF FetchFault
  <1>2. SeenInv' /\ Dom' = Dom /\ seen' = seen
    BY <1>1, SameMemory DEF TypeInv
  <1>3. QED
    BY <1>1, <1>2, RunFacts, HandleTyped

LEMMA FirstTyped ==
    ASSUME TypeInv, DecodeFirst
    PROVE  TypeInv'
  <1>1. ~tc.abort /\ ~Decoded /\ tcache_state = "RUNNING" /\ phase = "execute"
    BY DEF TypeInv, DecodeFirst
  <1>2. s \in Records /\ Pc \in Dom /\ -1 \notin Dom
    BY <1>1, RunFacts, UndecodedFacts
  <1>3. CASE Full
    BY <1>1, <1>3, FullTyped
  <1>4. CASE HasRoom(tc) /\ LET t == tcache_new(tc, Pc)
                                e == t.tc_idx
                            IN  FetchDecode(t, e, e, s) \/ FetchFault(t)
    <2>1. PICK t : t = tcache_new(tc, Pc)
      OBVIOUS
    <2>2. PICK e : e = t.tc_idx
      OBVIOUS
    <2>3. PICK X : X = {}
      OBVIOUS
    <2>4. tc \in Cache(Dom) /\ Shaped(tc, Dom, seen) /\ Linked(tc, X)
      BY <1>1, <2>3, RunFacts
    <2>5. /\ t \in Cache(Dom) /\ Shaped(t, Dom, seen) /\ Linked(t, X) /\ ~IsDecoded(t, e)
      BY <1>2, <1>4, <2>1, <2>2, <2>4, NewKeeps
    <2>6. /\ e \in Entries /\ t.pool[e] = Fresh(Pc) /\ t.abort = tc.abort
      BY <1>2, <1>4, <2>1, <2>2, <2>4, NewOf
    <2>7. PICK p \in Dom : p = Pc /\ p = t.pool[e].pc
      BY <1>2, <2>6 DEF Fresh
    <2>8. CASE FetchDecode(t, e, e, s)
      <3>1. e <= e /\ \A g \in Entries : ~(e <= g /\ g < e)
        BY <2>6, Numbers
      <3>2. QED
        BY <1>1, <1>2, <2>2, <2>3, <2>5, <2>6, <2>7, <2>8, <3>1, FetchDecodeTyped
    <2>9. CASE FetchFault(t)
      BY <1>1, <2>3, <2>5, <2>6, <2>9, FetchFaultTyped
    <2>10. QED
      BY <1>4, <2>1, <2>2, <2>8, <2>9
  <1>5. QED
    BY <1>3, <1>4 DEF DecodeFirst

LEMMA NextTyped ==
    ASSUME TypeInv, DecodeNext
    PROVE  TypeInv'
  <1>1. ~tc.abort /\ ~Decoded /\ tcache_state = "BUILDING" /\ phase = "execute"
    BY DEF TypeInv, DecodeNext
  <1>2. s = tc.tc_idx /\ s \in Entries /\ ~IsDecoded(tc, s)
    BY <1>1, UndecodedFacts DEF Decoded, IsDecoded
  <1>3. /\ tc \in Cache(Dom) /\ Shaped(tc, Dom, seen) /\ Linked(tc, {}) /\ -1 \notin Dom
        /\ Building /\ Pc \in Dom
    BY <1>1, RunFacts DEF RunInv
  <1>4. CASE FetchDecode(tc, s, bb_now, bb_now_record)
    <2>1. PICK p \in Dom : p = tc.pool[s].pc
      BY <1>3 DEF Pc
    <2>2. bb_now \in Entries /\ bb_now_record \in Records /\ bb_now <= s
      BY <1>2, <1>3, Numbers DEF Building
    <2>3. \A g \in Entries : bb_now <= g /\ g < s => IsDecoded(tc, g) /\ ~Ends(tc, g)
      BY <1>2, <1>3 DEF Building
    <2>4. IsDecoded(tc, bb_now)
      <3>1. bb_now <= bb_now /\ bb_now < s
        BY <1>2, <1>3, <2>2, Numbers DEF Building
      <3>2. QED
        BY <2>2, <2>3, <3>1
    <2>5. PICK q \in Dom : q = tc.pool[bb_now].pc
      BY <1>3, <2>2, <2>4, NodeFields, Numbers DEF Shaped, Follows
    <2>6. QED
      BY <1>1, <1>2, <1>3, <1>4, <2>1, <2>2, <2>3, <2>5, FetchDecodeTyped
  <1>5. CASE FetchFault(tc)
    BY <1>1, <1>3, <1>5, FetchFaultTyped
  <1>6. QED
    BY <1>4, <1>5 DEF DecodeNext

LEMMA StepTyped == TypeInv /\ [Next]_vars => TypeInv'
  <1> SUFFICES ASSUME TypeInv, [Next]_vars PROVE TypeInv'
    OBVIOUS
  <1>1. CASE UNCHANGED vars
    <2>1. SeenInv' /\ Dom' = Dom
      BY <1>1 DEF vars, memVars, TypeInv, SeenInv, Dom
    <2>2. RunInv' <=> RunInv
      BY <1>1 DEF vars, buildVars, RunInv, Building
    <2>3. QED
      BY <1>1, <2>1, <2>2 DEF TypeInv, vars, memVars, buildVars
  <1>2. CASE DecodeFound
    BY <1>2, FoundTyped
  <1>3. CASE DecodeFirst
    BY <1>3, FirstTyped
  <1>4. CASE DecodeNext
    BY <1>4, NextTyped
  <1>5. CASE ExecNormal
    BY <1>5, NormalTyped
  <1>6. CASE ExecFault \/ Interrupt
    BY <1>6, TrapTyped
  <1>7. CASE ExecBranch
    BY <1>7, BranchTyped
  <1>8. CASE ExecJr
    BY <1>8, JrTyped
  <1>9. CASE ExecFence
    BY <1>9, FenceTyped
  <1>10. CASE Resume
    BY <1>10, ResumeTyped
  <1>11. QED
    BY <1>1, <1>2, <1>3, <1>4, <1>5, <1>6, <1>7, <1>8, <1>9, <1>10 DEF Next

LEMMA TypeInvImpliesTypeOK == TypeInv => TypeOK
  <1> SUFFICES ASSUME TypeInv PROVE TypeOK
    OBVIOUS
  <1>1. DOMAIN code = Dom /\ tc \in Cache(Dom)
    BY DEF TypeInv, SeenInv
  <1>2. tc.pool \in [Nodes -> Node(Dom)]
    BY <1>1, Fields
  <1>3. Node(Dom) = [pc : {-1} \cup DOMAIN code,
                     instr : Instructions \cup {NotDecoded},
                     tnext : {Null} \cup Entries \cup Records,
                     ntnext : {Null, Ex} \cup Entries \cup Records, type : 0 .. 2]
    <2>1. Instrs(Dom) = Instructions
      BY <1>1 DEF Instrs, Instructions
    <2>2. {Null} \cup Nodes = {Null} \cup Entries \cup Records
      BY DEF Nodes
    <2>3. {Null, Ex} \cup Nodes = {Null, Ex} \cup Entries \cup Records
      BY DEF Nodes
    <2>4. QED
      BY <1>1, <2>1, <2>2, <2>3 DEF Node
  <1>4. QED
    BY <1>1, <1>2, <1>3, Fields DEF TypeInv, TypeOK, Nodes

\* Every variable of the trace cache has its type, and no pool is used past
\* its end, whatever the program and the sizes of the pools.
THEOREM TypeCorrect == Spec => []TypeOK
  <1>1. Init => TypeInv
    BY InitTyped
  <1>2. TypeInv /\ [Next]_vars => TypeInv'
    BY StepTyped
  <1>3. TypeInv => TypeOK
    BY TypeInvImpliesTypeOK
  <1>4. QED
    BY <1>1, <1>2, <1>3, PTL DEF Spec

----------------------------------------------------------------------------
(* Links and records.                                                       *)

\* No two records lead to the same free one, and none leads to the first.
Linear(t) ==
    \A r \in FreeOf(t) :
        /\ t.pool[r].tnext # t.free
        /\ \A q \in FreeOf(t) : t.pool[q].tnext = t.pool[r].tnext /\ t.pool[r].tnext # Null => q = r

\* Record r stands for side b of entry e.
Stands(t, r, e, b) == t.pool[r].ntnext = e /\ t.pool[r].type = TypeOf(b)

\* An instruction is linked to where it goes; before an indirect jump runs it is
\* linked to itself.
Leads(t, x, e) ==
    LET instr == t.pool[e].instr
    IN  \/ t.pool[x].pc \in Interp!Successors(t.pool[e].pc, instr)
        \/ instr.kind \in {"I", "X"} /\ t.pool[x].pc = t.pool[e].pc

\* A record that a link leads to is in use and knows the link; an indirect jump
\* moves links to entries only.
LinkKept(t, e, b) ==
    LET x == NextOf(t, e, b)
    IN  /\ x \in Nodes
        /\ x \in Records => x \notin FreeOf(t) /\ Stands(t, x, e, b)
        /\ Leads(t, x, e)
        /\ t.pool[e].instr.kind \in {"I", "X"} /\ ~b => x \in Entries

\* The link that a record in use stands for is not in X, and leads to it.
RecordKept(t, r, X) ==
    \A e \in Entries, b \in BOOLEAN : Stands(t, r, e, b) =>
        <<e, b>> \notin X /\ b \in Sides(t.pool[e].instr) /\ NextOf(t, e, b) = r

Kept(t, X) ==
    /\ \A e \in Entries : \A b \in Sides(t.pool[e].instr) : <<e, b>> \notin X => LinkKept(t, e, b)
    /\ \A r \in Records \ FreeOf(t) : RecordKept(t, r, X)

\* The record that runs next, or whose block is being built, is in use.
LinkInv ==
    /\ Linear(tc)
    /\ ~tc.abort =>
        /\ Kept(tc, {})
        /\ s \notin FreeOf(tc)
        /\ tcache_state = "BUILDING" =>
            bb_now_record \notin FreeOf(tc) /\ tc.pool[bb_now_record].pc = tc.pool[bb_now].pc

----------------------------------------------------------------------------
(* The free list.                                                           *)

\* The free list does not leave F.
Closed(t, F) ==
    /\ t.free \in F \cup {Null}
    /\ \A q \in F : t.pool[q].tnext \in F \cup {Null}

LEMMA FreeLeast ==
    ASSUME NEW t, NEW F \in SUBSET Records, Closed(t, F)
    PROVE  FreeOf(t) \subseteq F
  BY DEF FreeOf, Closed

LEMMA FreeClosed ==
    ASSUME NEW t, Closed(t, Records)
    PROVE  FreeOf(t) \in SUBSET Records /\ Closed(t, FreeOf(t))
  <1>1. FreeOf(t) \in SUBSET Records
    BY DEF FreeOf
  <1>2. t.free \in FreeOf(t) \cup {Null}
    BY DEF Closed, FreeOf
  <1>3. ASSUME NEW q \in FreeOf(t) PROVE t.pool[q].tnext \in FreeOf(t) \cup {Null}
    <2> SUFFICES ASSUME t.pool[q].tnext # Null, NEW F \in SUBSET Records, Closed(t, F)
                 PROVE  t.pool[q].tnext \in F
      BY <1>1 DEF Closed, FreeOf
    <2>1. q \in F
      BY FreeLeast
    <2>2. QED
      BY <2>1 DEF Closed
  <1>4. QED
    BY <1>1, <1>2, <1>3 DEF Closed

\* In a cache every record leads to a record.
LEMMA ListTyped ==
    ASSUME NEW D, NEW F, NEW t \in Cache(D), Shaped(t, D, F)
    PROVE  Closed(t, Records)
  BY Fields DEF Shaped, Closed

\* The same list.
LEMMA FreeSame ==
    ASSUME NEW t, NEW u, Closed(t, Records), Closed(u, Records), u.free = t.free,
           \A r \in FreeOf(t) : u.pool[r].tnext = t.pool[r].tnext
    PROVE  FreeOf(u) = FreeOf(t) /\ (Linear(t) => Linear(u))
  <1>1. /\ FreeOf(t) \in SUBSET Records /\ Closed(t, FreeOf(t))
        /\ FreeOf(u) \in SUBSET Records /\ Closed(u, FreeOf(u))
    BY FreeClosed
  <1>2. FreeOf(u) \subseteq FreeOf(t)
    <2>1. Closed(u, FreeOf(t))
      BY <1>1 DEF Closed
    <2>2. QED
      BY <1>1, <2>1, FreeLeast
  <1>3. FreeOf(t) \subseteq FreeOf(u)
    <2>1. Closed(t, FreeOf(u))
      BY <1>1, <1>2 DEF Closed
    <2>2. QED
      BY <1>1, <2>1, FreeLeast
  <1>4. FreeOf(u) = FreeOf(t)
    BY <1>2, <1>3
  <1>5. ASSUME Linear(t) PROVE Linear(u)
    BY <1>4, <1>5 DEF Linear
  <1>6. QED
    BY <1>4, <1>5

\* The head of the list is taken.
LEMMA FreePop ==
    ASSUME NEW t, NEW u, Closed(t, Records), Closed(u, Records), Linear(t), t.free # Null,
           u.free = t.pool[t.free].tnext,
           \A r \in Records : r # t.free => u.pool[r].tnext = t.pool[r].tnext
    PROVE  FreeOf(u) = FreeOf(t) \ {t.free} /\ Linear(u) /\ t.free \in FreeOf(t)
  <1>1. /\ FreeOf(t) \in SUBSET Records /\ Closed(t, FreeOf(t))
        /\ FreeOf(u) \in SUBSET Records /\ Closed(u, FreeOf(u))
    BY FreeClosed
  <1>2. t.free \in FreeOf(t)
    BY <1>1 DEF Closed
  <1>3. FreeOf(u) \subseteq FreeOf(t) \ {t.free}
    <2>1. PICK F : F = FreeOf(t) \ {t.free}
      OBVIOUS
    <2>2. u.free \in F \cup {Null}
      BY <1>1, <1>2, <2>1 DEF Closed, Linear
    <2>3. ASSUME NEW q \in F PROVE u.pool[q].tnext \in F \cup {Null}
      <3>1. u.pool[q].tnext = t.pool[q].tnext /\ q \in FreeOf(t)
        BY <1>1, <2>1
      <3>2. t.pool[q].tnext \in FreeOf(t) \cup {Null} /\ t.pool[q].tnext # t.free
        BY <1>1, <3>1 DEF Closed, Linear
      <3>3. QED
        BY <2>1, <3>1, <3>2
    <2>4. Closed(u, F) /\ F \in SUBSET Records
      BY <1>1, <2>1, <2>2, <2>3 DEF Closed
    <2>5. QED
      BY <2>1, <2>4, FreeLeast
  <1>4. FreeOf(t) \subseteq FreeOf(u) \cup {t.free}
    <2>1. PICK F : F = FreeOf(u) \cup {t.free}
      OBVIOUS
    <2>2. ASSUME NEW q \in F PROVE t.pool[q].tnext \in F \cup {Null}
      <3>1. CASE q = t.free
        BY <1>1, <2>1, <3>1 DEF Closed
      <3>2. CASE q # t.free
        <4>1. q \in FreeOf(u) /\ u.pool[q].tnext = t.pool[q].tnext
          BY <1>1, <2>1, <3>2
        <4>2. QED
          BY <1>1, <2>1, <4>1 DEF Closed
      <3>3. QED
        BY <3>1, <3>2
    <2>3. Closed(t, F) /\ F \in SUBSET Records
      BY <1>1, <1>2, <2>1, <2>2 DEF Closed
    <2>4. QED
      BY <2>1, <2>3, FreeLeast
  <1>5. Linear(u)
    <2> SUFFICES ASSUME NEW r \in FreeOf(u)
                 PROVE  /\ u.pool[r].tnext # u.free
                        /\ \A q \in FreeOf(u) : u.pool[q].tnext = u.pool[r].tnext
                                                    /\ u.pool[r].tnext # Null => q = r
      BY DEF Linear
    <2>1. /\ r \in FreeOf(t) /\ r # t.free
          /\ \A q \in FreeOf(u) : q \in FreeOf(t) /\ u.pool[q].tnext = t.pool[q].tnext
      BY <1>1, <1>3
    <2>2. \A q \in FreeOf(u) : u.pool[q].tnext = u.pool[r].tnext /\ u.pool[r].tnext # Null => q = r
      BY <2>1 DEF Linear
    <2>3. u.free # Null
      <3>1. CASE u.free = Null
        <4>1. {} \in SUBSET Records /\ Closed(u, {})
          BY <3>1 DEF Closed
        <4>2. FreeOf(u) \subseteq {}
          BY <4>1, FreeLeast
        <4>3. QED
          BY <4>2
      <3>2. QED
        BY <3>1
    <2>4. u.pool[r].tnext # u.free
      BY <1>2, <2>1, <2>3 DEF Linear
    <2>5. QED
      BY <2>2, <2>4
  <1>6. QED
    BY <1>2, <1>3, <1>4, <1>5

\* A record that is in use is freed.
LEMMA FreePush ==
    ASSUME NEW t, NEW u, Closed(t, Records), Closed(u, Records), Linear(t),
           NEW r \in Records, r \notin FreeOf(t), u.free = r, u.pool[r].tnext = t.free,
           \A q \in Records : q # r => u.pool[q].tnext = t.pool[q].tnext
    PROVE  FreeOf(u) = FreeOf(t) \cup {r} /\ Linear(u)
  <1>1. /\ FreeOf(t) \in SUBSET Records /\ Closed(t, FreeOf(t))
        /\ FreeOf(u) \in SUBSET Records /\ Closed(u, FreeOf(u))
    BY FreeClosed
  <1>2. \A q \in FreeOf(t) : q # r /\ u.pool[q].tnext = t.pool[q].tnext
    BY <1>1
  <1>3. r # Null /\ r \in FreeOf(u)
    BY <1>1, Numbers DEF Closed
  <1>4. FreeOf(u) \subseteq FreeOf(t) \cup {r}
    <2>1. PICK F : F = FreeOf(t) \cup {r}
      OBVIOUS
    <2>2. ASSUME NEW q \in F PROVE u.pool[q].tnext \in F \cup {Null}
      <3>1. CASE q = r
        BY <1>1, <2>1, <3>1 DEF Closed
      <3>2. CASE q # r
        <4>1. q \in FreeOf(t) /\ u.pool[q].tnext = t.pool[q].tnext
          BY <1>2, <2>1, <3>2
        <4>2. QED
          BY <1>1, <2>1, <4>1 DEF Closed
      <3>3. QED
        BY <3>1, <3>2
    <2>3. Closed(u, F) /\ F \in SUBSET Records
      BY <1>1, <2>1, <2>2 DEF Closed
    <2>4. QED
      BY <2>1, <2>3, FreeLeast
  <1>5. FreeOf(t) \subseteq FreeOf(u)
    <2>1. PICK F : F = FreeOf(u) \cap FreeOf(t)
      OBVIOUS
    <2>2. t.free \in F \cup {Null}
      BY <1>1, <1>3, <2>1 DEF Closed
    <2>3. ASSUME NEW q \in F PROVE t.pool[q].tnext \in F \cup {Null}
      <3>1. q \in FreeOf(t) /\ q \in FreeOf(u) /\ u.pool[q].tnext = t.pool[q].tnext
        BY <1>2, <2>1
      <3>2. QED
        BY <1>1, <2>1, <3>1 DEF Closed
    <2>4. Closed(t, F) /\ F \in SUBSET Records
      BY <1>1, <2>1, <2>2, <2>3 DEF Closed
    <2>5. QED
      BY <2>1, <2>4, FreeLeast
  <1>6. FreeOf(u) = FreeOf(t) \cup {r}
    BY <1>3, <1>4, <1>5
  <1>7. ASSUME NEW q \in FreeOf(u) PROVE u.pool[q].tnext # r
    <2>1. CASE q = r
      BY <1>1, <1>3, <2>1 DEF Closed
    <2>2. CASE q # r
      <3>1. q \in FreeOf(t)
        BY <1>6, <2>2
      <3>2. u.pool[q].tnext \in FreeOf(t) \cup {Null}
        BY <1>1, <1>2, <3>1 DEF Closed
      <3>3. QED
        BY <1>3, <3>2
    <2>3. QED
      BY <2>1, <2>2
  <1>8. ASSUME NEW q \in FreeOf(u), NEW p \in FreeOf(u), u.pool[p].tnext = u.pool[q].tnext,
               u.pool[q].tnext # Null
        PROVE  p = q
    <2>1. CASE p # r /\ q # r
      BY <1>2, <1>6, <1>8, <2>1 DEF Linear
    <2>2. CASE p = r /\ q # r
      BY <1>2, <1>6, <1>8, <2>2 DEF Linear
    <2>3. CASE p # r /\ q = r
      BY <1>2, <1>6, <1>8, <2>3 DEF Linear
    <2>4. QED
      BY <2>1, <2>2, <2>3
  <1>9. Linear(u)
    BY <1>7, <1>8 DEF Linear
  <1>10. QED
    BY <1>6, <1>9

----------------------------------------------------------------------------
(* The operators of tcache.c keep the links and the records.                *)

\* What is decoded stays, and so do the records in use.
Calm(t, u) ==
    /\ \A g \in Entries : u.pool[g].pc = t.pool[g].pc /\ u.pool[g].instr = t.pool[g].instr
    /\ \A r \in Records \ FreeOf(t) :
        /\ u.pool[r].pc = t.pool[r].pc
        /\ u.pool[r].ntnext = t.pool[r].ntnext /\ u.pool[r].type = t.pool[r].type

\* A link that is as it was leads to what is still in use.
SameLink(t, u, g, c) == NextOf(u, g, c) = NextOf(t, g, c) /\ NextOf(u, g, c) \notin FreeOf(u)

\* A record that was in use is in use, and the link it stands for leads to it.
SameRecord(t, u, r) ==
    /\ r \notin FreeOf(t)
    /\ \A g \in Entries, c \in BOOLEAN : Stands(t, r, g, c) => NextOf(u, g, c) = r

LEMMA SameLinkKept ==
    ASSUME NEW t, NEW u, Calm(t, u), NEW g \in Entries, NEW c \in BOOLEAN, SameLink(t, u, g, c),
           LinkKept(t, g, c)
    PROVE  LinkKept(u, g, c)
  <1>1. PICK x : x = NextOf(t, g, c) /\ x = NextOf(u, g, c)
    BY DEF SameLink
  <1>2. x \in Nodes /\ x \notin FreeOf(u)
    BY <1>1 DEF LinkKept, SameLink
  <1>3. x \in Records => x \notin FreeOf(t) /\ Stands(t, x, g, c)
    BY <1>1 DEF LinkKept
  <1>4. u.pool[x].pc = t.pool[x].pc
    BY <1>2, <1>3 DEF Calm, Nodes
  <1>5. u.pool[g].pc = t.pool[g].pc /\ u.pool[g].instr = t.pool[g].instr
    BY DEF Calm
  <1>6. x \in Records => Stands(u, x, g, c)
    BY <1>3 DEF Stands, Calm
  <1>7. Leads(u, x, g)
    <2>1. Leads(t, x, g)
      BY <1>1 DEF LinkKept
    <2>2. QED
      BY <1>4, <1>5, <2>1 DEF Leads
  <1>8. t.pool[g].instr.kind \in {"I", "X"} /\ ~c => x \in Entries
    BY <1>1 DEF LinkKept
  <1>9. QED
    BY <1>1, <1>2, <1>5, <1>6, <1>7, <1>8 DEF LinkKept

\* What is not in Y is as it was, or kept again.
Carries(t, u, X, Y) ==
    /\ \A g \in Entries, c \in BOOLEAN : <<g, c>> \notin Y /\ c \in Sides(t.pool[g].instr) =>
         (<<g, c>> \notin X /\ SameLink(t, u, g, c)) \/ LinkKept(u, g, c)
    /\ \A r \in Records \ FreeOf(u) : SameRecord(t, u, r) \/ RecordKept(u, r, Y)

LEMMA KeptOn ==
    ASSUME NEW t, NEW u, Calm(t, u), NEW X, NEW Y, Y \subseteq X, Kept(t, X),
           Carries(t, u, X, Y)
    PROVE  Kept(u, Y)
  <1>1. ASSUME NEW g \in Entries, NEW c \in Sides(u.pool[g].instr), <<g, c>> \notin Y
        PROVE  LinkKept(u, g, c)
    <2>1. c \in Sides(t.pool[g].instr) /\ c \in BOOLEAN
      BY SidesDecoded DEF Calm
    <2>2. CASE <<g, c>> \notin X /\ SameLink(t, u, g, c)
      <3>1. LinkKept(t, g, c)
        BY <2>1, <2>2 DEF Kept
      <3>2. QED
        BY <2>1, <2>2, <3>1, SameLinkKept
    <2>3. QED
      BY <1>1, <2>1, <2>2 DEF Carries
  <1>2. ASSUME NEW r \in Records \ FreeOf(u), SameRecord(t, u, r)
        PROVE  RecordKept(u, r, Y)
    <2> SUFFICES ASSUME NEW g \in Entries, NEW c \in BOOLEAN, Stands(u, r, g, c)
                 PROVE  <<g, c>> \notin Y /\ c \in Sides(u.pool[g].instr) /\ NextOf(u, g, c) = r
      BY DEF RecordKept
    <2>1. r \in Records \ FreeOf(t)
      BY <1>2 DEF SameRecord
    <2>2. Stands(t, r, g, c)
      BY <2>1 DEF Stands, Calm
    <2>3. RecordKept(t, r, X)
      BY <2>1 DEF Kept
    <2>4. <<g, c>> \notin X /\ c \in Sides(t.pool[g].instr)
      BY <2>2, <2>3 DEF RecordKept
    <2>5. QED
      BY <1>2, <2>2, <2>4 DEF SameRecord, Calm
  <1>3. QED
    BY <1>1, <1>2 DEF Kept, Carries

\* Entries that are made or decoded leave the others as they are.
LEMMA EntriesKept ==
    ASSUME NEW D, NEW F, NEW t \in Cache(D), Shaped(t, D, F), NEW u \in Cache(D), Shaped(u, D, F),
           NEW Z, Makes(t, u, Z, F), u.free = t.free, NEW X, Linked(t, X), Kept(t, X)
    PROVE  Kept(u, X \cup (Z \X BOOLEAN)) /\ FreeOf(u) = FreeOf(t) /\ (Linear(t) => Linear(u))
  <1>1. \A r \in Records : u.pool[r] = t.pool[r]
    BY Numbers DEF Makes
  <1>2. FreeOf(t) \in SUBSET Records
    BY ListTyped, FreeClosed
  <1>3. FreeOf(u) = FreeOf(t) /\ (Linear(t) => Linear(u))
    <2>1. Closed(t, Records) /\ Closed(u, Records)
      BY ListTyped
    <2>2. QED
      BY <1>1, <1>2, <2>1, FreeSame
  <1>4. \A g \in Entries : g \notin Z => u.pool[g] = t.pool[g]
    BY Numbers DEF Makes
  <1>5. PICK Y : Y = X \cup (Z \X BOOLEAN)
    OBVIOUS
  <1>6. ASSUME NEW g \in Entries, NEW c \in Sides(u.pool[g].instr), <<g, c>> \notin Y
        PROVE  LinkKept(u, g, c)
    <2>1. c \in BOOLEAN /\ g \notin Z /\ <<g, c>> \notin X
      BY <1>5, <1>6, SidesDecoded
    <2>2. u.pool[g] = t.pool[g]
      BY <1>4, <2>1
    <2>3. PICK x : x = NextOf(t, g, c) /\ x = NextOf(u, g, c)
      BY <2>2 DEF NextOf
    <2>4. LinkKept(t, g, c) /\ Target(t, x)
      BY <2>1, <2>2, <2>3 DEF Kept, Linked
    <2>5. x \notin Z /\ x \in Nodes
      <3>1. ASSUME Complete(t, x) PROVE IsDecoded(t, x)
        BY <3>1, Numbers DEF Complete
      <3>2. QED
        BY <2>4, <3>1, Numbers DEF Target, Makes
    <2>6. u.pool[x] = t.pool[x]
      BY <2>5 DEF Makes
    <2>7. Leads(u, x, g)
      BY <2>2, <2>3, <2>4, <2>6 DEF Leads, LinkKept
    <2>8. x \in Records => x \notin FreeOf(u) /\ Stands(u, x, g, c)
      BY <1>3, <2>3, <2>4, <2>6 DEF Stands, LinkKept
    <2>9. u.pool[g].instr.kind \in {"I", "X"} /\ ~c => x \in Entries
      BY <2>2, <2>3, <2>4 DEF LinkKept
    <2>10. QED
      BY <2>3, <2>5, <2>7, <2>8, <2>9 DEF LinkKept
  <1>7. ASSUME NEW r \in Records \ FreeOf(u) PROVE RecordKept(u, r, Y)
    <2> SUFFICES ASSUME NEW g \in Entries, NEW c \in BOOLEAN, Stands(u, r, g, c)
                 PROVE  <<g, c>> \notin Y /\ c \in Sides(u.pool[g].instr) /\ NextOf(u, g, c) = r
      BY DEF RecordKept
    <2>1. Stands(t, r, g, c) /\ RecordKept(t, r, X)
      BY <1>1, <1>3 DEF Stands, Kept
    <2>2. <<g, c>> \notin X /\ c \in Sides(t.pool[g].instr) /\ NextOf(t, g, c) = r
      BY <2>1 DEF RecordKept
    <2>3. g \notin Z
      BY <2>2, SidesDecoded, EndsDecoded DEF Makes
    <2>4. QED
      BY <1>4, <1>5, <2>2, <2>3 DEF NextOf
  <1>8. QED
    BY <1>3, <1>5, <1>6, <1>7 DEF Kept

\* An entry that does not end a block has no links to keep.
LEMMA KeptUnended ==
    ASSUME NEW t, NEW X, NEW Z, Kept(t, X \cup (Z \X BOOLEAN)), \A z \in Z : ~Ends(t, z)
    PROVE  Kept(t, X)
  <1>1. ASSUME NEW g \in Entries, NEW c \in Sides(t.pool[g].instr), <<g, c>> \notin X
        PROVE  LinkKept(t, g, c)
    <2>1. <<g, c>> \notin X \cup (Z \X BOOLEAN)
      BY <1>1, SidesDecoded
    <2>2. QED
      BY <2>1 DEF Kept
  <1>2. ASSUME NEW r \in Records \ FreeOf(t) PROVE RecordKept(t, r, X)
    <2>1. RecordKept(t, r, X \cup (Z \X BOOLEAN))
      BY DEF Kept
    <2>2. QED
      BY <2>1 DEF RecordKept
  <1>3. QED
    BY <1>1, <1>2 DEF Kept

\* No record in use stands for side b of e.
Unused(t, e, b) == \A r \in Records \ FreeOf(t) : ~Stands(t, r, e, b)

LEMMA UnusedOf ==
    ASSUME NEW t, NEW X, Kept(t, X), NEW e \in Entries, NEW b \in BOOLEAN, <<e, b>> \in X
    PROVE  Unused(t, e, b)
  BY DEF Unused, Kept, RecordKept

\* A link of an entry is set.
LEMMA SetNextSame ==
    ASSUME NEW D, NEW F, NEW t \in Cache(D), Shaped(t, D, F), NEW e \in {Null, Ex} \cup Entries,
           NEW b \in BOOLEAN, NEW x \in Nodes, NEW u, u = SetNext(t, e, b, x)
    PROVE  /\ FreeOf(u) = FreeOf(t) /\ (Linear(t) => Linear(u)) /\ Closed(u, Records)
           /\ \A r \in Records : u.pool[r] = t.pool[r]
           /\ Calm(t, u) /\ u.free = t.free /\ u.abort = t.abort
           /\ \A g \in Entries, c \in BOOLEAN :
                <<g, c>> # <<e, b>> => NextOf(u, g, c) = NextOf(t, g, c)
           /\ e \in Entries => NextOf(u, e, b) = x
  <1>1. /\ u.tc_idx = t.tc_idx /\ u.bb = t.bb
        /\ \A n \in Nodes : /\ u.pool[n].pc = t.pool[n].pc /\ u.pool[n].instr = t.pool[n].instr
                            /\ n # e => u.pool[n] = t.pool[n]
        /\ e \in Entries => /\ NextOf(u, e, b) = x
                            /\ \A c \in BOOLEAN : c # b => NextOf(u, e, c) = NextOf(t, e, c)
    BY SetNextOf
  <1>2. u.free = t.free /\ u.abort = t.abort
    BY SetNextOf
  <1>3. \A r \in Records : u.pool[r] = t.pool[r]
    BY <1>1, Numbers
  <1>4. Closed(t, Records)
    BY ListTyped
  <1>5. Closed(u, Records)
    BY <1>2, <1>3, <1>4 DEF Closed
  <1>6. FreeOf(t) \in SUBSET Records
    BY <1>4, FreeClosed
  <1>7. FreeOf(u) = FreeOf(t) /\ (Linear(t) => Linear(u))
    BY <1>2, <1>3, <1>4, <1>5, <1>6, FreeSame
  <1>8. Calm(t, u)
    BY <1>1, <1>3, Numbers DEF Calm
  <1>9. ASSUME NEW g \in Entries, NEW c \in BOOLEAN, <<g, c>> # <<e, b>>
        PROVE  NextOf(u, g, c) = NextOf(t, g, c)
    <2>1. CASE g = e
      BY <1>1, <1>9, <2>1
    <2>2. CASE g # e
      <3>1. u.pool[g] = t.pool[g]
        BY <1>1, <2>2, Numbers
      <3>2. QED
        BY <3>1 DEF NextOf
    <2>3. QED
      BY <2>1, <2>2
  <1>10. QED
    BY <1>1, <1>2, <1>3, <1>5, <1>7, <1>8, <1>9

LEMMA SetNextKept ==
    ASSUME NEW D, NEW F, NEW t \in Cache(D), Shaped(t, D, F), NEW e \in Entries,
           NEW b \in BOOLEAN, NEW x \in Entries, Leads(t, x, e), Unused(t, e, b),
           NEW X, Kept(t, X), NEW Y, Y = X \ {<<e, b>>}, NEW u, u = SetNext(t, e, b, x)
    PROVE  Kept(u, Y)
  <1>1. x \in Nodes
    BY Numbers
  <1>2. /\ FreeOf(u) = FreeOf(t) /\ Calm(t, u) /\ NextOf(u, e, b) = x
        /\ \A g \in Entries, c \in BOOLEAN :
             <<g, c>> # <<e, b>> => NextOf(u, g, c) = NextOf(t, g, c)
    BY <1>1, SetNextSame
  <1>3. LinkKept(u, e, b)
    <2>1. x \notin Records
      BY Numbers
    <2>2. Leads(u, x, e)
      BY <1>2 DEF Leads, Calm
    <2>3. QED
      BY <1>1, <1>2, <2>1, <2>2 DEF LinkKept
  <1>4. ASSUME NEW g \in Entries, NEW c \in BOOLEAN, <<g, c>> \notin Y, c \in Sides(t.pool[g].instr)
        PROVE  (<<g, c>> \notin X /\ SameLink(t, u, g, c)) \/ LinkKept(u, g, c)
    <2>1. CASE <<g, c>> = <<e, b>>
      BY <1>3, <2>1
    <2>2. CASE <<g, c>> # <<e, b>>
      <3>1. <<g, c>> \notin X
        BY <1>4, <2>2
      <3>2. LinkKept(t, g, c) /\ NextOf(u, g, c) = NextOf(t, g, c)
        BY <1>2, <1>4, <2>2, <3>1 DEF Kept
      <3>3. FreeOf(t) \subseteq Records
        BY ListTyped, FreeClosed
      <3>4. SameLink(t, u, g, c)
        BY <1>2, <3>2, <3>3 DEF SameLink, LinkKept
      <3>5. QED
        BY <3>1, <3>4
    <2>3. QED
      BY <2>1, <2>2
  <1>5. ASSUME NEW r \in Records \ FreeOf(u) PROVE SameRecord(t, u, r)
    <2> SUFFICES ASSUME NEW g \in Entries, NEW c \in BOOLEAN, Stands(t, r, g, c)
                 PROVE  NextOf(u, g, c) = r
      BY <1>2 DEF SameRecord
    <2>1. NextOf(t, g, c) = r
      BY <1>2 DEF Kept, RecordKept
    <2>2. <<g, c>> # <<e, b>>
      BY <1>2 DEF Unused
    <2>3. QED
      BY <1>2, <2>1, <2>2
  <1>6. Y \subseteq X
    OBVIOUS
  <1>7. QED
    <2>1. Carries(t, u, X, Y)
      BY <1>4, <1>5 DEF Carries
    <2>2. QED
      BY <1>2, <1>6, <2>1, KeptOn

\* The link that record r stands for now leads to now.
Patched(t, v, r, now) ==
    /\ FreeOf(v) = FreeOf(t) /\ Linear(v) /\ Closed(v, Records) /\ Calm(t, v)
    /\ \A g \in Entries, d \in BOOLEAN :
         /\ Stands(t, r, g, d) => NextOf(v, g, d) = now
         /\ ~Stands(t, r, g, d) => NextOf(v, g, d) = NextOf(t, g, d)

LEMMA PatchedOf ==
    ASSUME NEW D, NEW F, NEW t \in Cache(D), Shaped(t, D, F), Linear(t), NEW r \in Records,
           NEW now \in Entries, NEW u, u = tcache_patch_and_free(t, r, now)
    PROVE  \E v \in Cache(D) : Patched(t, v, r, now) /\ u = tcache_bb_free(v, r)
  <1>1. CASE t.pool[r].type = 0 /\ u = tcache_bb_free(t, r)
    <2>1. \A g \in Entries, d \in BOOLEAN : ~Stands(t, r, g, d)
      BY <1>1 DEF Stands, TypeOf
    <2>2. Closed(t, Records)
      BY ListTyped
    <2>3. Patched(t, t, r, now)
      BY <2>1, <2>2 DEF Patched, Calm
    <2>4. QED
      BY <1>1, <2>3
  <1>2. ASSUME NEW c \in BOOLEAN, c => t.pool[r].type = 2, ~c => t.pool[r].type \notin {0, 2},
               u = tcache_bb_free(SetNext(t, t.pool[r].ntnext, c, now), r)
        PROVE  \E v \in Cache(D) : Patched(t, v, r, now) /\ u = tcache_bb_free(v, r)
    <2>1. PICK e \in {Null, Ex} \cup Entries : e = t.pool[r].ntnext
      BY DEF Shaped
    <2>2. t.pool[r].type = TypeOf(c)
      <3>1. t.pool[r].type \in 0 .. 2
        BY NodeFields, Numbers
      <3>2. QED
        BY <1>2, <3>1 DEF TypeOf
    <2>3. PICK v : v = SetNext(t, e, c, now)
      OBVIOUS
    <2>4. now \in Nodes
      BY Numbers
    <2>5. /\ FreeOf(v) = FreeOf(t) /\ Linear(v) /\ Closed(v, Records) /\ Calm(t, v)
          /\ e \in Entries => NextOf(v, e, c) = now
      BY <2>3, <2>4, SetNextSame
    <2>6. \A g \in Entries, d \in BOOLEAN :
              <<g, d>> # <<e, c>> => NextOf(v, g, d) = NextOf(t, g, d)
      BY <2>3, <2>4, SetNextSame
    <2>7. \A g \in Entries, d \in BOOLEAN : Stands(t, r, g, d) <=> <<g, d>> = <<e, c>>
      BY <2>1, <2>2 DEF Stands, TypeOf
    <2>8. Patched(t, v, r, now)
      <3>1. ASSUME NEW g \in Entries, NEW d \in BOOLEAN, Stands(t, r, g, d)
            PROVE  NextOf(v, g, d) = now
        <4>1. g = e /\ d = c
          BY <2>7, <3>1
        <4>2. QED
          BY <2>5, <4>1
      <3>2. \A g \in Entries, d \in BOOLEAN :
                ~Stands(t, r, g, d) => NextOf(v, g, d) = NextOf(t, g, d)
        BY <2>6, <2>7
      <3>3. QED
        BY <2>5, <3>1, <3>2 DEF Patched
    <2>9. v \in Cache(D)
      BY <2>3, <2>4, SetNextOf
    <2>10. u = tcache_bb_free(v, r)
      BY <1>2, <2>1, <2>3
    <2>11. QED
      BY <2>8, <2>9, <2>10
  <1>3. QED
    BY <1>1, <1>2, PatchCases

\* A record in use is freed after the link it stands for was patched.
LEMMA PatchKept ==
    ASSUME NEW D, NEW F, NEW t \in Cache(D), Shaped(t, D, F), Linear(t),
           NEW r \in Records, r \notin FreeOf(t), NEW now \in Entries, t.pool[now].pc = t.pool[r].pc,
           NEW X, Kept(t, X), NEW u, u = tcache_patch_and_free(t, r, now)
    PROVE  Kept(u, X) /\ FreeOf(u) = FreeOf(t) \cup {r} /\ Linear(u)
  <1>1. PICK v \in Cache(D) : Patched(t, v, r, now) /\ u = tcache_bb_free(v, r)
    BY PatchedOf
  <1>2. /\ u \in Cache(D) /\ u.free = r /\ u.pool[r].tnext = v.free
        /\ \A n \in Nodes : /\ u.pool[n].pc = v.pool[n].pc /\ u.pool[n].instr = v.pool[n].instr
                            /\ u.pool[n].type = v.pool[n].type
                            /\ u.pool[n].ntnext = v.pool[n].ntnext
                            /\ n # r => u.pool[n] = v.pool[n]
    BY <1>1, BbFreeOf
  <1>3. FreeOf(u) = FreeOf(t) \cup {r} /\ Linear(u)
    <2>1. \A q \in Records : q # r => u.pool[q].tnext = v.pool[q].tnext
      BY <1>2, Numbers
    <2>2. Closed(u, Records)
      BY <1>1, <1>2, <2>1 DEF Closed, Patched
    <2>3. QED
      BY <1>1, <1>2, <2>1, <2>2, FreePush DEF Patched
  <1>4. Calm(t, u)
    BY <1>1, <1>2, Numbers DEF Patched, Calm
  <1>5. \A g \in Entries, d \in BOOLEAN : NextOf(u, g, d) = NextOf(v, g, d)
    BY <1>2, Numbers DEF NextOf
  <1>6. ASSUME NEW g \in Entries, NEW d \in BOOLEAN, <<g, d>> \notin X, d \in Sides(t.pool[g].instr)
        PROVE  SameLink(t, u, g, d) \/ LinkKept(u, g, d)
    <2>1. LinkKept(t, g, d)
      BY <1>6 DEF Kept
    <2>2. CASE Stands(t, r, g, d)
      <3>1. NextOf(t, g, d) = r /\ NextOf(u, g, d) = now
        <4>1. RecordKept(t, r, X)
          BY DEF Kept
        <4>2. NextOf(t, g, d) = r
          BY <2>2, <4>1 DEF RecordKept
        <4>3. QED
          BY <1>1, <1>5, <2>2, <4>2 DEF Patched
      <3>2. now \notin Records /\ now \in Nodes
        BY Numbers
      <3>3. Leads(u, now, g)
        <4>1. Leads(t, r, g)
          BY <2>1, <3>1 DEF LinkKept
        <4>2. /\ u.pool[now].pc = t.pool[r].pc
              /\ u.pool[g].instr = t.pool[g].instr /\ u.pool[g].pc = t.pool[g].pc
          BY <1>4 DEF Calm
        <4>3. QED
          BY <4>1, <4>2 DEF Leads
      <3>4. QED
        BY <3>1, <3>2, <3>3 DEF LinkKept
    <2>3. CASE ~Stands(t, r, g, d)
      <3>1. NextOf(u, g, d) = NextOf(t, g, d)
        BY <1>1, <1>5, <2>3 DEF Patched
      <3>2. NextOf(t, g, d) \notin FreeOf(t) /\ NextOf(t, g, d) # r
        <4>1. FreeOf(t) \subseteq Records
          BY ListTyped, FreeClosed
        <4>2. QED
          BY <2>1, <2>3, <4>1 DEF LinkKept
      <3>3. QED
        BY <1>3, <3>1, <3>2 DEF SameLink
    <2>4. QED
      BY <2>2, <2>3
  <1>7. ASSUME NEW q \in Records \ FreeOf(u) PROVE SameRecord(t, u, q)
    <2>1. q \in Records \ FreeOf(t) /\ q # r
      BY <1>3
    <2> SUFFICES ASSUME NEW g \in Entries, NEW d \in BOOLEAN, Stands(t, q, g, d)
                 PROVE  NextOf(u, g, d) = q
      BY <2>1 DEF SameRecord
    <2>2. NextOf(t, g, d) = q
      BY <2>1 DEF Kept, RecordKept
    <2>3. ~Stands(t, r, g, d)
      BY <2>1, <2>2 DEF Kept, RecordKept
    <2>4. QED
      BY <1>1, <1>5, <2>2, <2>3 DEF Patched
  <1>8. Kept(u, X)
    <2>1. Carries(t, u, X, X)
      BY <1>6, <1>7 DEF Carries
    <2>2. QED
      BY <1>4, <2>1, KeptOn
  <1>9. QED
    BY <1>3, <1>8

\* The head of the free list stands for side b of e.
LEMMA RecordedFree ==
    ASSUME NEW D, NEW F, NEW t \in Cache(D), Shaped(t, D, F), -1 \notin D, NEW pc \in D, t.free # Null,
           NEW e \in {Null, Ex} \cup Entries, NEW b \in BOOLEAN, Linear(t),
           NEW v, v = Recorded(t, e, b, pc)
    PROVE  /\ v \in Cache(D) /\ Shaped(v, D, F) /\ StandsFor(v, t.free, e, b, pc)
           /\ FreeOf(v) = FreeOf(t) \ {t.free} /\ Linear(v)
           /\ t.free \in FreeOf(t) /\ t.free \in Records
           /\ \A n \in Nodes : n # t.free => v.pool[n] = t.pool[n]
  <1>1. t.free \in Records /\ t.pool[t.free].tnext \in {Null} \cup Records
    BY Fields DEF Shaped
  <1>2. /\ v \in Cache(D) /\ StandsFor(v, t.free, e, b, pc)
        /\ \A n \in Nodes : n # t.free => v.pool[n] = t.pool[n]
        /\ v.free = t.pool[t.free].tnext
    BY <1>1, RecordedOf
  <1>3. Shaped(v, D, F)
    <2>1. PICK X : X = Entries \X BOOLEAN
      OBVIOUS
    <2>2. Linked(t, X)
      BY <2>1, SidesDecoded DEF Linked
    <2>3. QED
      BY <2>2, RecordedKeeps
  <1>4. Closed(t, Records) /\ Closed(v, Records)
    BY <1>2, <1>3, ListTyped
  <1>5. \A r \in Records : r # t.free => v.pool[r].tnext = t.pool[r].tnext
    BY <1>2, Numbers
  <1>6. FreeOf(v) = FreeOf(t) \ {t.free} /\ Linear(v) /\ t.free \in FreeOf(t)
    BY <1>2, <1>4, <1>5, FreePop
  <1>7. QED
    BY <1>1, <1>2, <1>3, <1>6

\* No record is given twice, even when there is none.
LEMMA BbFetchLinear ==
    ASSUME NEW D, NEW F, NEW t \in Cache(D), Shaped(t, D, F), -1 \notin D, NEW pc \in D,
           NEW e \in {Ex} \cup Entries, NEW b \in BOOLEAN, Linear(t),
           NEW u, u = tcache_bb_fetch(t, e, b, pc)
    PROVE  Linear(u)
  <1>1. CASE t.bb[pc] # Null /\ u = SetNext(t, e, b, t.bb[pc])
    <2>1. t.bb[pc] \in Nodes
      BY <1>1, Fields, Numbers
    <2>2. QED
      BY <1>1, <2>1, SetNextSame
  <1>2. CASE u = [t EXCEPT !.abort = TRUE]
    <2>1. u.pool = t.pool /\ u.free = t.free /\ Closed(t, Records)
      BY <1>2, AbortOf, ListTyped
    <2>2. Closed(u, Records)
      BY <2>1 DEF Closed
    <2>3. QED
      BY <2>1, <2>2, FreeSame
  <1>3. CASE t.free # Null /\ u = SetNext(Recorded(t, e, b, pc), e, b, t.free)
    <2>1. PICK v : v = Recorded(t, e, b, pc)
      OBVIOUS
    <2>2. v \in Cache(D) /\ Shaped(v, D, F) /\ Linear(v) /\ t.free \in Nodes
      BY <1>3, <2>1, RecordedFree, Numbers
    <2>3. u = SetNext(v, e, b, t.free)
      BY <1>3, <2>1
    <2>4. QED
      BY <2>2, <2>3, SetNextSame
  <1>4. QED
    BY <1>1, <1>2, <1>3, BbFetchCases

\* Side b of the instruction of e goes to pc.
GoesTo(t, e, b, pc) ==
    LET instr == t.pool[e].instr
    IN  /\ b \in Sides(instr) /\ pc \in Interp!Successors(t.pool[e].pc, instr)
        /\ instr.kind \in {"I", "X"} => b

LEMMA KeptEx ==
    ASSUME NEW t, NEW X, Kept(t, X), NEW b \in BOOLEAN, NEW Y, Y = X \ {<<Ex, b>>}
    PROVE  Kept(t, Y)
  <1>1. \A g \in Entries, c \in BOOLEAN : <<g, c>> \notin Y => <<g, c>> \notin X
    BY Numbers
  <1>2. \A g \in Entries : \A c \in Sides(t.pool[g].instr) : <<g, c>> \notin Y => LinkKept(t, g, c)
    BY <1>1, SidesDecoded DEF Kept
  <1>3. \A r \in Records \ FreeOf(t) : RecordKept(t, r, Y)
    BY DEF Kept, RecordKept
  <1>4. QED
    BY <1>2, <1>3 DEF Kept

\* A link is set to the block, or to a record that now stands for it.
LEMMA BbFetchKept ==
    ASSUME NEW D, NEW F, NEW t \in Cache(D), Shaped(t, D, F), -1 \notin D, NEW pc \in D,
           NEW e \in {Ex} \cup Entries, NEW b \in BOOLEAN, Linear(t),
           e \in Entries => GoesTo(t, e, b, pc) /\ Unused(t, e, b),
           NEW X, Kept(t, X), NEW Y, Y = X \ {<<e, b>>},
           NEW u, u = tcache_bb_fetch(t, e, b, pc), ~u.abort
    PROVE  Kept(u, Y) /\ Fetched(t, pc) \notin FreeOf(u)
           /\ \A g \in Entries : u.pool[g].pc = t.pool[g].pc /\ u.pool[g].instr = t.pool[g].instr
  <1>1. CASE t.bb[pc] # Null /\ u = SetNext(t, e, b, t.bb[pc]) /\ Fetched(t, pc) = t.bb[pc]
    <2>1. PICK x \in Entries : x = t.bb[pc]
      BY <1>1, Fields
    <2>2. u = SetNext(t, e, b, x) /\ t.pool[x].pc = pc /\ x \in Nodes
      BY <1>1, <2>1, Numbers DEF Shaped
    <2>3. FreeOf(u) = FreeOf(t) /\ Calm(t, u) /\ FreeOf(t) \subseteq Records
      BY <2>2, SetNextSame, ListTyped, FreeClosed
    <2>4. CASE e \in Entries
      <3>1. Leads(t, x, e)
        BY <2>2, <2>4 DEF Leads, GoesTo
      <3>2. Kept(u, Y)
        BY <2>2, <2>4, <3>1, SetNextKept
      <3>3. QED
        BY <1>1, <2>1, <2>3, <3>2, Numbers DEF Calm
    <2>5. CASE e = Ex
      <3>1. Ex \notin DOMAIN t.pool
        BY Fields, Numbers
      <3>2. u = t
        BY <2>2, <2>5, <3>1 DEF SetNext
      <3>3. Kept(u, Y)
        BY <2>5, <3>2, KeptEx
      <3>4. QED
        BY <1>1, <2>1, <2>3, <3>3, Numbers DEF Calm
    <2>6. QED
      BY <2>4, <2>5
  <1>2. CASE u = [t EXCEPT !.abort = TRUE]
    BY <1>2, AbortOf
  <1>3. CASE /\ t.free # Null /\ Fetched(t, pc) = t.free
             /\ u = SetNext(Recorded(t, e, b, pc), e, b, t.free)
    <2>1. PICK v : v = Recorded(t, e, b, pc)
      OBVIOUS
    <2>2. PICK r \in Records : r = t.free
      BY <1>3, Fields
    <2>3. /\ v \in Cache(D) /\ Shaped(v, D, F) /\ StandsFor(v, r, e, b, pc)
          /\ FreeOf(v) = FreeOf(t) \ {r} /\ r \in FreeOf(t)
          /\ \A n \in Nodes : n # r => v.pool[n] = t.pool[n]
      BY <1>3, <2>1, <2>2, RecordedFree
    <2>4. u = SetNext(v, e, b, r) /\ r \in Nodes
      BY <1>3, <2>1, <2>2, Numbers
    <2>5. /\ FreeOf(u) = FreeOf(v) /\ Calm(v, u)
          /\ \A q \in Records : u.pool[q] = v.pool[q]
          /\ e \in Entries => NextOf(u, e, b) = r
      BY <2>3, <2>4, SetNextSame
    <2>6. \A g \in Entries, c \in BOOLEAN : <<g, c>> # <<e, b>> => NextOf(u, g, c) = NextOf(v, g, c)
      BY <2>3, <2>4, SetNextSame
    <2>7. \A g \in Entries : v.pool[g] = t.pool[g]
      BY <2>3, Numbers
    <2>8. \A g \in Entries, c \in BOOLEAN : <<g, c>> # <<e, b>> => NextOf(u, g, c) = NextOf(t, g, c)
      BY <2>6, <2>7 DEF NextOf
    <2>9. Calm(t, u)
      <3>1. \A q \in Records \ FreeOf(t) : u.pool[q] = t.pool[q]
        BY <2>3, <2>5, Numbers
      <3>2. QED
        BY <2>5, <2>7, <3>1 DEF Calm
    <2>10. FreeOf(u) = FreeOf(t) \ {r} /\ r \notin FreeOf(u)
      BY <2>3, <2>5
    <2>11. \A g \in Entries, c \in BOOLEAN : Stands(u, r, g, c) <=> g = e /\ c = b
      BY <2>3, <2>5 DEF StandsFor, Stands, TypeOf
    <2>12. ASSUME NEW g \in Entries, NEW c \in BOOLEAN, <<g, c>> \notin Y, c \in Sides(t.pool[g].instr)
           PROVE  (<<g, c>> \notin X /\ SameLink(t, u, g, c)) \/ LinkKept(u, g, c)
      <3>1. CASE g = e /\ c = b
        <4>1. NextOf(u, g, c) = r /\ Stands(u, r, g, c) /\ u.pool[r].pc = pc
          BY <2>3, <2>5, <2>11, <3>1 DEF StandsFor
        <4>2. Leads(u, r, g)
          BY <2>9, <3>1, <4>1 DEF Leads, Calm, GoesTo
        <4>3. ~(u.pool[g].instr.kind \in {"I", "X"} /\ ~c)
          BY <2>9, <3>1 DEF Calm, GoesTo
        <4>4. QED
          BY <2>4, <2>10, <4>1, <4>2, <4>3 DEF LinkKept
      <3>2. CASE ~(g = e /\ c = b)
        <4>1. <<g, c>> \notin X /\ <<g, c>> # <<e, b>>
          BY <2>12, <3>2
        <4>2. LinkKept(t, g, c) /\ NextOf(u, g, c) = NextOf(t, g, c)
          BY <2>8, <2>12, <4>1 DEF Kept
        <4>3. FreeOf(t) \subseteq Records
          BY ListTyped, FreeClosed
        <4>4. SameLink(t, u, g, c)
          BY <2>10, <4>2, <4>3 DEF SameLink, LinkKept
        <4>5. QED
          BY <4>1, <4>4
      <3>3. QED
        BY <3>1, <3>2
    <2>13. ASSUME NEW q \in Records \ FreeOf(u) PROVE SameRecord(t, u, q) \/ RecordKept(u, q, Y)
      <3>1. CASE q = r
        <4> SUFFICES ASSUME NEW g \in Entries, NEW c \in BOOLEAN, Stands(u, r, g, c)
                     PROVE  <<g, c>> \notin Y /\ c \in Sides(u.pool[g].instr) /\ NextOf(u, g, c) = r
          BY <3>1 DEF RecordKept
        <4>1. g = e /\ c = b
          BY <2>11
        <4>2. QED
          BY <2>5, <2>9, <4>1 DEF GoesTo, Calm
      <3>2. CASE q # r
        <4>1. q \in Records \ FreeOf(t)
          BY <2>10, <3>2
        <4>2. ASSUME NEW g \in Entries, NEW c \in BOOLEAN, Stands(t, q, g, c)
              PROVE  NextOf(u, g, c) = q
          <5>1. NextOf(t, g, c) = q
            BY <4>1, <4>2 DEF Kept, RecordKept
          <5>2. <<g, c>> # <<e, b>>
            BY <4>1, <4>2 DEF Unused
          <5>3. QED
            BY <2>8, <5>1, <5>2
        <4>3. QED
          BY <4>1, <4>2 DEF SameRecord
      <3>3. QED
        BY <3>1, <3>2
    <2>14. Kept(u, Y)
      <3>1. Y \subseteq X
        OBVIOUS
      <3>2. \A g \in Entries, c \in BOOLEAN : <<g, c>> \notin Y /\ c \in Sides(t.pool[g].instr) =>
                (<<g, c>> \notin X /\ SameLink(t, u, g, c)) \/ LinkKept(u, g, c)
        BY <2>12
      <3>3. \A q \in Records \ FreeOf(u) : SameRecord(t, u, q) \/ RecordKept(u, q, Y)
        BY <2>13
      <3>4. Carries(t, u, X, Y)
        BY <3>2, <3>3 DEF Carries
      <3>5. QED
        BY <2>9, <3>1, <3>4, KeptOn
    <2>15. QED
      BY <1>3, <2>2, <2>9, <2>10, <2>14 DEF Calm
  <1>4. QED
    BY <1>1, <1>2, <1>3, BbFetchCases

\* The list of blocks has no part in the links.
LEMMA InsertKept ==
    ASSUME NEW t, NEW u, u.pool = t.pool, u.free = t.free, NEW X, Kept(t, X), Linear(t)
    PROVE  Kept(u, X) /\ Linear(u) /\ FreeOf(u) = FreeOf(t)
  <1>1. FreeOf(u) = FreeOf(t)
    BY DEF FreeOf
  <1>2. Linear(u)
    BY <1>1 DEF Linear
  <1>3. \A g \in Entries : \A c \in Sides(u.pool[g].instr) : <<g, c>> \notin X => LinkKept(u, g, c)
    BY <1>1 DEF Kept, LinkKept, NextOf, Stands, Leads
  <1>4. \A r \in Records \ FreeOf(u) : RecordKept(u, r, X)
    BY <1>1 DEF Kept, RecordKept, NextOf, Stands
  <1>5. QED
    BY <1>1, <1>2, <1>3, <1>4 DEF Kept

\* tcache_flush makes one list of the records.
LEMMA FlushKept ==
    ASSUME NEW D, NEW t, t = tcache_flush(D)
    PROVE  Kept(t, {}) /\ Linear(t)
  <1>1. /\ \A n \in Nodes : ~IsDecoded(t, n) /\ t.pool[n].ntnext = Null
        /\ \A r \in Records : t.pool[r].tnext = IF r + 1 \in Records THEN r + 1 ELSE Null
        /\ t.free = TcacheSize + 1
    BY FlushOf
  <1>2. Kept(t, {})
    <2>1. \A g \in Entries : ~IsDecoded(t, g)
      BY <1>1, Numbers
    <2>2. \A r \in Records, g \in Entries, c \in BOOLEAN : ~Stands(t, r, g, c)
      BY <1>1, Numbers DEF Stands
    <2>3. QED
      BY <2>1, <2>2, SidesDecoded, EndsDecoded DEF Kept, RecordKept
  <1>3. Linear(t)
    <2>1. FreeOf(t) \subseteq Records
      BY DEF FreeOf
    <2>2. \A r \in Records : r \in Int /\ r >= TcacheSize + 1 /\ TcacheSize \in Nat
      BY TcacheAssumption DEF Records
    <2>3. \A r \in Records : t.pool[r].tnext # t.free
      BY <1>1, <2>2 DEF Null
    <2>4. \A r \in Records, q \in Records :
              t.pool[q].tnext = t.pool[r].tnext /\ t.pool[r].tnext # Null => q = r
      BY <1>1, <2>2
    <2>5. QED
      BY <2>1, <2>3, <2>4 DEF Linear
  <1>4. QED
    BY <1>2, <1>3

\* Everything is dropped and a block begun.
LEMMA FlushNewKept ==
    ASSUME NEW D, -1 \notin D, NEW pc \in D, NEW u, u = tcache_bb_new(tcache_flush(D), pc)
    PROVE  Kept(u, {}) /\ Linear(u) /\ TcacheSize + 1 \notin FreeOf(u)
  <1>1. PICK t : t = tcache_flush(D)
    OBVIOUS
  <1>2. PICK F : F = {}
    OBVIOUS
  <1>3. t \in Cache(D) /\ Shaped(t, D, F) /\ Linear(t) /\ t.free = TcacheSize + 1
    BY <1>1, FlushShaped, FlushKept
  <1>4. \A n \in Nodes : ~IsDecoded(t, n) /\ t.pool[n].ntnext = Null
    BY <1>1, FlushOf
  <1>5. t.free \in Records /\ t.free # Null
    BY <1>3, Numbers
  <1>6. u = tcache_bb_new(t, pc)
    BY <1>1
  <1>7. /\ u.pool[t.free] = Fresh(pc)
        /\ \A n \in Nodes : n # t.free => u.pool[n] = t.pool[n]
        /\ u.free = t.pool[t.free].tnext
    BY <1>3, <1>5, <1>6, BbNewOf
  <1>8. Linear(u) /\ TcacheSize + 1 \notin FreeOf(u)
    <2>1. Shaped(u, D, F)
      BY <1>1, FlushKeeps
    <2>2. u \in Cache(D)
      BY <1>1, FlushKeeps
    <2>3. Closed(t, Records) /\ Closed(u, Records)
      BY <1>3, <2>1, <2>2, ListTyped
    <2>4. \A r \in Records : r # t.free => u.pool[r].tnext = t.pool[r].tnext
      BY <1>7, Numbers
    <2>5. FreeOf(u) = FreeOf(t) \ {t.free} /\ Linear(u)
      BY <1>3, <1>5, <1>7, <2>3, <2>4, FreePop
    <2>6. QED
      BY <1>3, <2>5
  <1>9. Kept(u, {})
    <2>1. \A g \in Entries : ~IsDecoded(u, g)
      BY <1>4, <1>5, <1>7, Numbers DEF IsDecoded
    <2>2. \A r \in Records : u.pool[r].ntnext = Null
      BY <1>4, <1>7, Numbers DEF Fresh
    <2>3. \A r \in Records, g \in Entries, c \in BOOLEAN : ~Stands(u, r, g, c)
      BY <2>2, Numbers DEF Stands
    <2>4. QED
      BY <2>1, <2>3, SidesDecoded, EndsDecoded DEF Kept, RecordKept
  <1>10. QED
    BY <1>8, <1>9

\* The end e of block now, which replaces record old, is linked.
LEMMA EndKept ==
    ASSUME NEW D, -1 \notin D, NEW F, NEW t \in Cache(D), Shaped(t, D, F), ~t.abort,
           NEW e \in Entries, Ends(t, e), NEW p, p = t.pool[e].pc, GoesOn(D, p, t.pool[e].instr),
           NEW now, Complete(t, now), NEW pc \in D, pc = t.pool[now].pc, ~bb_full(t, pc),
           NEW old \in Records, old \notin FreeOf(t), t.pool[old].pc = pc,
           Linked(t, {e} \X BOOLEAN), Kept(t, {e} \X BOOLEAN), Linear(t),
           NEW u, u = Link(t, e, now, old)
    PROVE  Linear(u) /\ (u.abort \/ Kept(u, {}))
  <1>1. now \in Entries /\ now \in Nodes /\ pc # -1 /\ Target(t, now)
    BY Numbers DEF Complete, Target
  <1>2. PICK X : X = {e} \X BOOLEAN
    OBVIOUS
  <1>3. PICK v : v = bb_insert(t, pc, now)
    OBVIOUS
  <1>4. /\ v \in Cache(D) /\ Shaped(v, D, F) /\ Grows(t, v) /\ Linked(v, X) /\ v.abort = t.abort
        /\ v.pool = t.pool /\ v.free = t.free
    BY <1>2, <1>3, InsertKeeps
  <1>5. Kept(v, X) /\ Linear(v) /\ FreeOf(v) = FreeOf(t)
    BY <1>2, <1>4, InsertKept
  <1>6. PICK w : w = tcache_patch_and_free(v, old, now)
    OBVIOUS
  <1>7. w \in Cache(D) /\ Shaped(w, D, F) /\ Linked(w, X) /\ w.abort = v.abort /\ SameCode(v, w)
    <2>1. Target(v, now)
      BY <1>1, <1>4, GrowsKeeps
    <2>2. QED
      BY <1>1, <1>4, <1>6, <2>1, PatchKeeps
  <1>8. Kept(w, X) /\ Linear(w)
    <2>1. old \notin FreeOf(v) /\ v.pool[now].pc = v.pool[old].pc
      BY <1>4, <1>5
    <2>2. QED
      BY <1>1, <1>4, <1>5, <1>6, <2>1, PatchKept
  <1>9. PICK instr : instr = t.pool[e].instr
    OBVIOUS
  <1>10. w.pool[e].instr = instr /\ w.pool[e].pc = p /\ ~w.abort
    BY <1>4, <1>7, <1>9, Numbers DEF SameCode
  <1>11. CASE instr.kind = "J"
    <2>1. PICK q \in D : u = tcache_bb_fetch(w, e, TRUE, q) /\ q \in instr.to
      <3>1. (CHOOSE q \in instr.to : TRUE) \in D /\ (CHOOSE q \in instr.to : TRUE) \in instr.to
        BY <1>9, <1>11 DEF GoesOn, Instrs
      <3>2. u = tcache_bb_fetch(w, e, TRUE, CHOOSE q \in instr.to : TRUE)
        BY <1>3, <1>6, <1>9, <1>11 DEF Link
      <3>3. QED
        BY <3>1, <3>2
    <2>2. PICK b \in BOOLEAN : b
      OBVIOUS
    <2>3. <<e, b>> \in X
      BY <1>2
    <2>4. u = tcache_bb_fetch(w, e, b, q)
      BY <2>1, <2>2, <2>3
    <2>5. PICK Y : Y = X \ {<<e, b>>}
      OBVIOUS
    <2>6. Linear(u)
      BY <1>7, <1>8, <2>4, BbFetchLinear
    <2>7. ASSUME ~u.abort PROVE Kept(u, {})
      <3>1. GoesTo(w, e, b, q)
        BY <1>10, <1>11, <2>1, <2>2, <2>3 DEF GoesTo, Sides, Interp!Successors
      <3>2. Unused(w, e, b)
        BY <1>8, <2>3, UnusedOf
      <3>3. /\ Kept(u, Y)
            /\ \A h \in Entries : u.pool[h].pc = w.pool[h].pc /\ u.pool[h].instr = w.pool[h].instr
        BY <1>7, <1>8, <2>4, <2>5, <2>7, <3>1, <3>2, BbFetchKept
      <3>4. Sides(u.pool[e].instr) = {TRUE}
        BY <1>10, <1>11, <3>3 DEF Sides
      <3>5. \A h \in Entries : \A c \in Sides(u.pool[h].instr) : <<h, c>> \notin Y
        BY <1>2, <2>2, <2>3, <2>5, <3>4
      <3>6. \A h \in Entries : \A c \in Sides(u.pool[h].instr) : LinkKept(u, h, c)
        BY <3>3, <3>5 DEF Kept
      <3>7. ASSUME NEW r \in Records \ FreeOf(u) PROVE RecordKept(u, r, {})
        <4>1. RecordKept(u, r, Y)
          BY <3>3 DEF Kept
        <4>2. QED
          BY <4>1 DEF RecordKept
      <3>8. QED
        BY <3>6, <3>7 DEF Kept
    <2>8. QED
      BY <2>6, <2>7
  <1>12. CASE instr.kind = "B"
    <2>1. PICK a \in BOOLEAN, b \in BOOLEAN : a /\ ~b
      OBVIOUS
    <2>2. PICK r \in D : r = p + 1
      BY <1>9, <1>12 DEF GoesOn
    <2>3. PICK q \in D : /\ u = tcache_bb_fetch(tcache_bb_fetch(w, e, TRUE, q), e, FALSE, p + 1)
                         /\ q \in instr.to
      <3>1. (CHOOSE q \in instr.to : TRUE) \in D /\ (CHOOSE q \in instr.to : TRUE) \in instr.to
        BY <1>9, <1>12 DEF GoesOn, Instrs
      <3>2. u = tcache_bb_fetch(tcache_bb_fetch(w, e, TRUE, CHOOSE q \in instr.to : TRUE),
                                e, FALSE, p + 1)
        BY <1>3, <1>6, <1>9, <1>12 DEF Link
      <3>3. QED
        BY <3>1, <3>2
    <2>4. <<e, a>> \in X
      BY <1>2
    <2>5. PICK x : x = tcache_bb_fetch(w, e, a, q)
      OBVIOUS
    <2>6. u = tcache_bb_fetch(x, e, b, r)
      BY <2>1, <2>2, <2>3, <2>4, <2>5
    <2>7. PICK Y, Z : Y = X \ {<<e, a>>} /\ Z = Y \ {<<e, b>>}
      OBVIOUS
    <2>8. x \in Cache(D) /\ Shaped(x, D, F) /\ (x.abort \/ Linked(x, Y))
      BY <1>7, <1>10, <2>5, <2>7, BbFetchKeeps
    <2>9. x.abort => u.abort
      BY <2>6, <2>7, <2>8, BbFetchKeeps
    <2>10. Linear(x)
      BY <1>7, <1>8, <2>5, BbFetchLinear
    <2>11. Linear(u)
      BY <2>6, <2>8, <2>10, BbFetchLinear
    <2>12. ASSUME ~u.abort PROVE Kept(u, {})
      <3>1. GoesTo(w, e, a, q)
        BY <1>10, <1>12, <2>1, <2>3, <2>4 DEF GoesTo, Sides, Interp!Successors
      <3>2. Unused(w, e, a)
        BY <1>8, <2>4, UnusedOf
      <3>3. /\ Kept(x, Y)
            /\ \A h \in Entries : x.pool[h].pc = w.pool[h].pc /\ x.pool[h].instr = w.pool[h].instr
        BY <1>7, <1>8, <2>5, <2>7, <2>9, <2>12, <3>1, <3>2, BbFetchKept
      <3>4. x.pool[e].instr = instr /\ x.pool[e].pc = p
        BY <1>10, <2>4, <3>3
      <3>5. GoesTo(x, e, b, r)
        BY <1>12, <2>1, <2>2, <3>4 DEF GoesTo, Sides, Interp!Successors
      <3>6. <<e, b>> \in Y /\ Z = {}
        BY <1>2, <2>1, <2>4, <2>7, BothSides
      <3>7. Unused(x, e, b)
        BY <3>3, <3>6, UnusedOf
      <3>8. Kept(u, Z)
        BY <2>6, <2>7, <2>8, <2>10, <2>12, <3>3, <3>5, <3>7, BbFetchKept
      <3>9. QED
        BY <3>6, <3>8
    <2>13. QED
      BY <2>11, <2>12
  <1>13. CASE instr.kind \notin {"J", "B"}
    <2>1. PICK a \in BOOLEAN, b \in BOOLEAN : a /\ ~b
      OBVIOUS
    <2>2. PICK x : x = SetNext(w, e, a, e)
      OBVIOUS
    <2>3. u = SetNext(x, e, b, e)
      <3>1. u = SetNext(SetNext(w, e, TRUE, e), e, FALSE, e)
        BY <1>3, <1>6, <1>9, <1>13 DEF Link
      <3>2. QED
        BY <2>1, <2>2, <3>1
    <2>4. PICK Y, Z : Y = X \ {<<e, a>>} /\ Z = Y \ {<<e, b>>}
      OBVIOUS
    <2>5. Target(w, e)
      <3>1. IsDecoded(t, e) /\ t.pool[e].pc # -1
        BY EndsDecoded DEF Shaped, Follows
      <3>2. Complete(w, e)
        <4>1. Ends(w, e) /\ IsDecoded(w, e)
          BY <1>9, <1>10, <3>1 DEF Ends, IsDecoded
        <4>2. QED
          BY <4>1, Numbers DEF Complete
      <3>3. QED
        BY <1>10, <3>1, <3>2, Numbers DEF Target
    <2>6. x \in Cache(D) /\ Shaped(x, D, F) /\ Linked(x, Y) /\ SameCode(w, x)
      BY <1>7, <2>2, <2>4, <2>5, SetNextKeeps
    <2>7. e \in Nodes /\ instr.kind \in {"I", "X"}
      BY <1>9, <1>13, Numbers DEF Ends, EndsBlock
    <2>8. Leads(w, e, e)
      BY <1>10, <2>7 DEF Leads
    <2>9. Kept(x, Y)
      <3>1. <<e, a>> \in X /\ Kept(w, X)
        BY <1>2, <1>8
      <3>2. Unused(w, e, a)
        BY <3>1, UnusedOf
      <3>3. QED
        BY <1>7, <1>8, <2>2, <2>4, <2>8, <3>2, SetNextKept
    <2>10. Linear(x)
      BY <1>7, <1>8, <2>2, <2>7, SetNextSame
    <2>11. Leads(x, e, e)
      BY <1>10, <2>6, <2>7 DEF Leads, SameCode
    <2>12. <<e, b>> \in Y /\ Z = {}
      BY <1>2, <2>1, <2>4, BothSides
    <2>13. Kept(u, Z)
      <3>1. Unused(x, e, b)
        BY <2>9, <2>12, UnusedOf
      <3>2. QED
        BY <2>3, <2>4, <2>6, <2>9, <2>11, <3>1, SetNextKept
    <2>14. Linear(u)
      BY <2>3, <2>6, <2>7, <2>10, SetNextSame
    <2>15. QED
      BY <2>12, <2>13, <2>14
  <1>14. QED
    BY <1>11, <1>12, <1>13

----------------------------------------------------------------------------
(* Every step keeps the links and the records.                              *)

LEMMA LinkFacts ==
    ASSUME LinkInv, ~tc.abort
    PROVE  /\ Linear(tc) /\ Kept(tc, {}) /\ s \notin FreeOf(tc)
           /\ tcache_state = "BUILDING" =>
                bb_now_record \notin FreeOf(tc) /\ tc.pool[bb_now_record].pc = tc.pool[bb_now].pc
  BY DEF LinkInv

\* An entry is not in the free list.
LEMMA EntryUsed == \A t : \A e \in Entries : e \notin FreeOf(t)
  BY Numbers DEF FreeOf

LEMMA InitLinked == Init => LinkInv
  <1> SUFFICES ASSUME Init PROVE LinkInv
    OBVIOUS
  <1>1. TypeInv
    BY InitTyped
  <1>2. Dom = DOMAIN code /\ -1 \notin Dom /\ program.start \in Dom
    BY <1>1, ProgramFacts DEF TypeInv
  <1>3. tc = tcache_bb_new(tcache_flush(Dom), program.start)
    BY <1>2 DEF Init
  <1>4. Kept(tc, {}) /\ Linear(tc) /\ TcacheSize + 1 \notin FreeOf(tc)
    BY <1>2, <1>3, FlushNewKept
  <1>5. QED
    BY <1>4 DEF Init, LinkInv

LEMMA FullLinked ==
    ASSUME TypeInv, ~tc.abort, Full
    PROVE  LinkInv'
  <1>1. Pc \in Dom /\ -1 \notin Dom /\ DOMAIN code = Dom
    BY RunFacts
  <1>2. tc' = tcache_bb_new(tcache_flush(Dom), Pc) /\ s' = TcacheSize + 1
        /\ tcache_state' = "RUNNING"
    BY <1>1 DEF Full
  <1>3. PICK u : u = tc'
    OBVIOUS
  <1>4. Kept(u, {}) /\ Linear(u) /\ TcacheSize + 1 \notin FreeOf(u)
    BY <1>1, <1>2, <1>3, FlushNewKept
  <1>5. QED
    BY <1>2, <1>3, <1>4 DEF LinkInv

\* A record may stand for the static ex, which no link of an entry is.
LEMMA FetchExKept ==
    ASSUME NEW D, NEW F, NEW t \in Cache(D), Shaped(t, D, F), -1 \notin D, NEW pc \in D,
           NEW e \in {Ex} \cup Entries, e \notin Entries, NEW b \in BOOLEAN, Linear(t),
           NEW X, Kept(t, X), NEW Y, Y = X \ {<<e, b>>},
           NEW u, u = tcache_bb_fetch(t, e, b, pc), ~u.abort
    PROVE  Kept(u, Y) /\ Fetched(t, pc) \notin FreeOf(u)
  <1>1. e \in Entries => GoesTo(t, e, b, pc) /\ Unused(t, e, b)
    OBVIOUS
  <1>2. QED
    BY <1>1, BbFetchKept

LEMMA HandleLinked ==
    ASSUME NEW D, -1 \notin D, NEW F, NEW t \in Cache(D), Shaped(t, D, F), Linked(t, {}), ~t.abort,
           Kept(t, {}), Linear(t), NEW jpc \in D, HandleException(t, jpc)
    PROVE  LinkInv'
  <1>1. PICK b \in BOOLEAN : b
    OBVIOUS
  <1>2. PICK e \in {Ex} \cup Entries : e = Ex
    OBVIOUS
  <1>3. PICK u : u = tcache_bb_fetch(t, e, b, jpc) /\ u = tc'
    BY <1>1, <1>2 DEF HandleException
  <1>4. PICK X : X = {}
    OBVIOUS
  <1>5. PICK Y : Y = X \ {<<e, b>>}
    OBVIOUS
  <1>6. Linear(u)
    BY <1>3, BbFetchLinear
  <1>7. ASSUME ~u.abort PROVE Kept(u, {}) /\ s' \notin FreeOf(u)
    <2>1. Kept(t, X) /\ e \notin Entries
      BY <1>2, <1>4, Numbers
    <2>2. Kept(u, Y) /\ Fetched(t, jpc) \notin FreeOf(u)
      BY <1>3, <1>7, <1>5, <2>1, FetchExKept
    <2>3. s' = Fetched(t, jpc)
      BY <1>3, <1>7 DEF HandleException
    <2>4. Y = {}
      BY <1>4, <1>5
    <2>5. QED
      BY <2>2, <2>3, <2>4
  <1>8. tcache_state' = "RUNNING"
    BY DEF HandleException
  <1>9. QED
    BY <1>3, <1>6, <1>7, <1>8 DEF LinkInv

LEMMA TrapLinked ==
    ASSUME TypeInv, LinkInv, Interrupt \/ ExecFault
    PROVE  LinkInv'
  <1>1. ~tc.abort /\ HandleException(tc, program.handler)
    BY DEF TypeInv, Interrupt, ExecFault, Executes
  <1>2. /\ tc \in Cache(Dom) /\ Shaped(tc, Dom, seen) /\ Linked(tc, {}) /\ -1 \notin Dom
        /\ program.handler \in Dom
    BY <1>1, RunFacts
  <1>3. QED
    BY <1>1, <1>2, LinkFacts, HandleLinked

LEMMA FenceLinked ==
    ASSUME TypeInv, ExecFence
    PROVE  LinkInv'
  <1>1. ~tc.abort /\ Decoded /\ tc.pool[s].instr.kind = "F"
    BY DEF TypeInv, ExecFence, Executes
  <1>2. Pc + 1 \in Dom /\ -1 \notin Dom /\ DOMAIN code = Dom
    BY <1>1, DecodedFacts, RunFacts DEF GoesOn
  <1>3. PICK t, F : t = tcache_flush(Dom) /\ F = seen
    OBVIOUS
  <1>4. t \in Cache(Dom) /\ Shaped(t, Dom, F) /\ Linked(t, {}) /\ ~t.abort
    BY <1>3, FlushShaped
  <1>5. Kept(t, {}) /\ Linear(t)
    BY <1>3, FlushKept
  <1>6. HandleException(t, Pc + 1)
    BY <1>2, <1>3 DEF ExecFence
  <1>7. QED
    BY <1>2, <1>4, <1>5, <1>6, HandleLinked

LEMMA BranchLinked ==
    ASSUME TypeInv, LinkInv, ExecBranch
    PROVE  LinkInv'
  <1>1. ~tc.abort /\ Decoded /\ tc.pool[s].instr.kind \in {"J", "B"}
    BY DEF TypeInv, ExecBranch, Executes
  <1>2. tcache_state = "RUNNING" /\ s \in Entries
    BY <1>1, EndsRunning, DecodedFacts DEF ExecBranch, Executes
  <1>3. PICK b \in Sides(tc.pool[s].instr) : s' = NextOf(tc, s, b)
    BY <1>1 DEF ExecBranch, Sides, NextOf
  <1>4. LinkKept(tc, s, b)
    BY <1>1, <1>2, LinkFacts DEF Kept
  <1>5. s' \notin FreeOf(tc)
    BY <1>3, <1>4, EntryUsed DEF LinkKept, Nodes
  <1>6. tc' = tc /\ tcache_state' = "RUNNING"
    BY <1>2 DEF ExecBranch, buildVars
  <1>7. QED
    BY <1>1, <1>5, <1>6, LinkFacts DEF LinkInv

LEMMA NormalLinked ==
    ASSUME TypeInv, LinkInv, ExecNormal \/ Resume
    PROVE  LinkInv'
  <1>1. tc' = tc /\ UNCHANGED buildVars
    BY DEF ExecNormal, Resume
  <1>2. ASSUME ~tc.abort PROVE s' \notin FreeOf(tc)
    <2>1. CASE Resume
      BY <1>2, <2>1, LinkFacts DEF Resume
    <2>2. CASE ExecNormal
      <3>1. Decoded /\ tc.pool[s].instr.kind \in {"N", "S", "U"} /\ s' = s + 1
        BY <2>2 DEF ExecNormal, Executes
      <3>2. s \in Entries /\ Follows(tc, s, seen) /\ ~Ends(tc, s)
        BY <1>2, <3>1, DecodedFacts DEF Ends, EndsBlock
      <3>3. s + 1 \in Entries
        BY <1>2, <3>2, RunFacts, Fields, Numbers, Positions DEF Follows
      <3>4. QED
        BY <3>1, <3>3, EntryUsed
    <2>3. QED
      BY <2>1, <2>2
  <1>3. QED
    BY <1>1, <1>2 DEF LinkInv, buildVars

LEMMA FoundLinked ==
    ASSUME TypeInv, LinkInv, DecodeFound
    PROVE  LinkInv'
  <1>1. ~tc.abort /\ ~Decoded /\ tcache_state = "RUNNING" /\ UNCHANGED buildVars
    BY DEF TypeInv, DecodeFound
  <1>2. s \in Records /\ Pc \in Dom
    BY <1>1, RunFacts, UndecodedFacts
  <1>3. PICK now : now = tc.bb[Pc] /\ now # Null /\ s' = now
    BY DEF DecodeFound
  <1>4. now \in Entries /\ tc.pool[now].pc = tc.pool[s].pc
    BY <1>1, <1>2, <1>3, RunFacts DEF Shaped, Complete, Pc
  <1>5. PICK u, X : u = tc' /\ X = {}
    OBVIOUS
  <1>6. u = tcache_patch_and_free(tc, s, now)
    BY <1>3, <1>5 DEF DecodeFound
  <1>7. /\ tc \in Cache(Dom) /\ Shaped(tc, Dom, seen) /\ Linear(tc) /\ Kept(tc, X)
        /\ s \notin FreeOf(tc)
    BY <1>1, <1>5, RunFacts, LinkFacts
  <1>8. Kept(u, X) /\ Linear(u)
    BY <1>2, <1>4, <1>6, <1>7, PatchKept
  <1>9. QED
    BY <1>1, <1>3, <1>4, <1>5, <1>8, EntryUsed DEF LinkInv, buildVars

\* tcache_bb_fetch leaves the other side of the instruction as it is.
LEMMA BbFetchOther ==
    ASSUME NEW D, NEW F, NEW t \in Cache(D), Shaped(t, D, F), NEW pc \in D,
           NEW e \in Entries, NEW b \in BOOLEAN, NEW c \in BOOLEAN, c # b, Linear(t), -1 \notin D,
           NEW u, u = tcache_bb_fetch(t, e, b, pc)
    PROVE  NextOf(u, e, c) = NextOf(t, e, c)
  <1>1. CASE t.bb[pc] # Null /\ u = SetNext(t, e, b, t.bb[pc])
    <2>1. t.bb[pc] \in Nodes
      BY <1>1, Fields, Numbers
    <2>2. QED
      BY <1>1, <2>1, SetNextOf
  <1>2. CASE u = [t EXCEPT !.abort = TRUE]
    BY <1>2, AbortOf DEF NextOf
  <1>3. CASE t.free # Null /\ u = SetNext(Recorded(t, e, b, pc), e, b, t.free)
    <2>1. PICK v : v = Recorded(t, e, b, pc)
      OBVIOUS
    <2>2. /\ v \in Cache(D) /\ t.free \in Nodes /\ t.free \in Records
          /\ \A n \in Nodes : n # t.free => v.pool[n] = t.pool[n]
      BY <1>3, <2>1, RecordedFree, Numbers
    <2>3. NextOf(v, e, c) = NextOf(t, e, c)
      BY <2>2, Numbers DEF NextOf
    <2>4. u = SetNext(v, e, b, t.free)
      BY <1>3, <2>1
    <2>5. NextOf(u, e, c) = NextOf(v, e, c)
      BY <2>2, <2>4, SetNextOf
    <2>6. QED
      BY <2>3, <2>5
  <1>4. QED
    BY <1>1, <1>2, <1>3, BbFetchCases

LEMMA JrLinked ==
    ASSUME TypeInv, LinkInv, ExecJr, ~MovesRecord
    PROVE  LinkInv'
  <1>1. /\ ~tc.abort /\ Decoded /\ tc.pool[s].instr.kind \in {"I", "X"}
        /\ Executes({"I", "X"}) /\ UNCHANGED buildVars
    BY DEF TypeInv, ExecJr, Executes
  <1>2. /\ tcache_state = "RUNNING" /\ s \in Entries /\ Linked(tc, {})
        /\ tc \in Cache(Dom) /\ Shaped(tc, Dom, seen) /\ -1 \notin Dom
    BY <1>1, EndsRunning, DecodedFacts, RunFacts DEF Executes
  <1>3. Sides(tc.pool[s].instr) = BOOLEAN
    BY <1>1 DEF Sides
  <1>4. \A b \in BOOLEAN : LinkKept(tc, s, b) /\ Target(tc, NextOf(tc, s, b))
    BY <1>1, <1>2, <1>3, LinkFacts DEF Kept, Linked
  <1>5. PICK target \in Dom : target \in tc.pool[s].instr.to /\
           \/ tc' = tc /\ \E b \in BOOLEAN : s' = NextOf(tc, s, b) /\ tc.pool[s'].pc = target
           \/ \E b \in BOOLEAN, c \in BOOLEAN : \E v :
                /\ b /\ ~c
                /\ v = SetNext(tc, s, c, NextOf(tc, s, b))
                /\ tc' = tcache_bb_fetch(v, s, b, target) /\ s' = NextOf(tc', s, b)
    BY JrCases
  <1>6. CASE tc' = tc /\ \E b \in BOOLEAN : s' = NextOf(tc, s, b)
    <2>1. s' \notin FreeOf(tc)
      BY <1>4, <1>6, EntryUsed DEF LinkKept, Nodes
    <2>2. QED
      BY <1>1, <1>2, <1>6, <2>1, LinkFacts DEF LinkInv, buildVars
  <1>7. ASSUME NEW b \in BOOLEAN, NEW c \in BOOLEAN, NEW v, b /\ ~c,
               v = SetNext(tc, s, c, NextOf(tc, s, b)),
               tc' = tcache_bb_fetch(v, s, b, target), s' = NextOf(tc', s, b)
        PROVE  LinkInv'
    <2>1. PICK x : x = NextOf(tc, s, b)
      OBVIOUS
    <2>2. x \in Nodes /\ Target(tc, x) /\ Leads(tc, x, s)
      BY <1>4, <2>1 DEF LinkKept
    <2>3. PICK X, Y : X = {} /\ Y = X \ {<<s, c>>}
      OBVIOUS
    <2>4. PICK Z : Z = Y \ {<<s, b>>}
      OBVIOUS
    <2>5. v = SetNext(tc, s, c, x) /\ Linked(tc, X) /\ Linear(tc) /\ Kept(tc, X)
      BY <1>1, <1>2, <1>7, <2>1, <2>3, LinkFacts
    <2>6. v \in Cache(Dom) /\ Shaped(v, Dom, seen) /\ SameCode(tc, v)
      BY <1>2, <2>2, <2>5, SetNextKeeps
    <2>7. Linear(v) /\ NextOf(v, s, c) = x
      BY <1>2, <2>2, <2>5, SetNextSame
    <2>8. NextOf(v, s, b) = x
      <3>1. \A d \in BOOLEAN : d # c => NextOf(v, s, d) = NextOf(tc, s, d)
        BY <1>2, <2>2, <2>5, SetNextOf
      <3>2. b # c
        BY <1>7
      <3>3. QED
        BY <2>1, <3>1, <3>2
    <2>9. PICK u : u = tc'
      OBVIOUS
    <2>10. u = tcache_bb_fetch(v, s, b, target)
      BY <1>7, <2>9
    <2>11. Linear(u)
      BY <1>2, <2>6, <2>7, <2>10, BbFetchLinear
    <2>12. x \in Entries
      <3>1. NextOf(u, s, c) = x
        <4>1. c # b
          BY <1>7
        <4>2. NextOf(u, s, c) = NextOf(v, s, c)
          BY <1>2, <2>6, <2>7, <2>10, <4>1, BbFetchOther
        <4>3. QED
          BY <2>7, <4>2
      <3>2. tc'.pool[s].ntnext = x /\ tc.pool[s].tnext = x
        BY <1>7, <2>1, <2>9, <3>1 DEF NextOf
      <3>3. x \notin Records
        BY <1>1, <3>2 DEF MovesRecord
      <3>4. QED
        BY <2>2, <3>3 DEF Nodes
    <2>13. Unused(tc, s, c)
      <3> SUFFICES ASSUME NEW r \in Records \ FreeOf(tc), Stands(tc, r, s, c) PROVE FALSE
        BY DEF Unused
      <3>1. RecordKept(tc, r, X)
        BY <2>5 DEF Kept
      <3>2. NextOf(tc, s, c) = r
        BY <1>2, <3>1 DEF RecordKept
      <3>3. NextOf(tc, s, c) \in Entries
        BY <1>1, <1>4, <1>7 DEF LinkKept
      <3>4. QED
        BY <3>2, <3>3, Numbers
    <2>14. Kept(v, Y)
      BY <1>2, <2>2, <2>3, <2>5, <2>12, <2>13, SetNextKept
    <2>15. Unused(v, s, b)
      <3> SUFFICES ASSUME NEW r \in Records \ FreeOf(v), Stands(v, r, s, b) PROVE FALSE
        BY DEF Unused
      <3>1. RecordKept(v, r, Y)
        BY <2>14 DEF Kept
      <3>2. NextOf(v, s, b) = r
        BY <1>2, <3>1 DEF RecordKept
      <3>3. QED
        BY <2>8, <2>12, <3>2, Numbers
    <2>16. GoesTo(v, s, b, target)
      <3>1. v.pool[s].instr = tc.pool[s].instr
        BY <1>2, <2>6, Numbers DEF SameCode
      <3>2. b \in Sides(v.pool[s].instr)
        BY <1>3, <3>1
      <3>3. target \in Interp!Successors(v.pool[s].pc, v.pool[s].instr)
        BY <1>1, <1>5, <3>1 DEF Interp!Successors
      <3>4. QED
        BY <1>7, <3>2, <3>3 DEF GoesTo
    <2>17. ASSUME ~u.abort PROVE Kept(u, {}) /\ s' \notin FreeOf(u)
      <3>1. /\ Kept(u, Z)
            /\ \A g \in Entries : u.pool[g].pc = v.pool[g].pc /\ u.pool[g].instr = v.pool[g].instr
        BY <1>2, <2>4, <2>6, <2>7, <2>10, <2>14, <2>15, <2>16, <2>17, BbFetchKept
      <3>2. Kept(u, {})
        BY <2>3, <2>4, <3>1
      <3>3. b \in Sides(u.pool[s].instr)
        BY <1>2, <1>3, <2>6, <3>1, Numbers DEF SameCode
      <3>4. LinkKept(u, s, b)
        BY <1>2, <3>2, <3>3 DEF Kept
      <3>5. QED
        BY <1>7, <2>9, <3>2, <3>4, EntryUsed DEF LinkKept, Nodes
    <2>18. QED
      BY <1>1, <1>2, <2>9, <2>11, <2>17 DEF LinkInv, buildVars
  <1>8. QED
    BY <1>5, <1>6, <1>7

\* An entry is decoded: the block goes on, ends, or everything is dropped.
LEMMA FetchDecodeLinked ==
    ASSUME TypeInv, ~tc.abort, NEW t \in Cache(Dom), Shaped(t, Dom, seen), Linked(t, {}), ~t.abort,
           NEW e \in Entries, e = t.tc_idx, ~IsDecoded(t, e), NEW p \in Dom, p = t.pool[e].pc,
           NEW now \in Entries, now <= e, NEW q \in Dom, q = t.pool[now].pc,
           \A g \in Entries : now <= g /\ g < e => IsDecoded(t, g) /\ ~Ends(t, g),
           NEW old \in Records, old \notin FreeOf(t), t.pool[old].pc = q,
           Kept(t, {}), Linear(t), FetchDecode(t, e, now, old)
    PROVE  LinkInv'
  <1>1. SeenInv /\ -1 \notin Dom
    BY RunFacts
  <1>2. PICK instr : instr = code[p]
    OBVIOUS
  <1>3. GoesOn(Dom, p, instr) /\ instr \in seen[p] /\ instr \in Instrs(Dom)
    BY <1>1, <1>2, ProgramFacts DEF GoesOn
  <1>4. PICK u : u = DecodedAs(t, e, instr)
    OBVIOUS
  <1>5. u = [t EXCEPT !.pool[e].instr = code[t.pool[e].pc]]
    BY <1>2, <1>4 DEF DecodedAs
  <1>6. /\ u \in Cache(Dom) /\ u.pool[e].instr = instr /\ u.pool[e].pc = p
        /\ u.abort = t.abort /\ u.tc_idx = t.tc_idx /\ u.free = t.free
    BY <1>3, <1>4, DecodedOf
  <1>7. \A n \in Nodes : n # e => u.pool[n] = t.pool[n]
    BY <1>3, <1>4, DecodedOf
  <1>8. u.pool[now].pc = q /\ u.pool[old].pc = q
    BY <1>6, <1>7, Numbers
  <1>9. PICK F, X : F = seen /\ X = {}
    OBVIOUS
  <1>10. Shaped(t, Dom, F) /\ Linked(t, X) /\ Kept(t, X) /\ instr \in F[p]
    BY <1>3, <1>9
  <1>11. CASE ~EndsBlock(instr) /\ HasRoom(u) /\ tc' = tcache_new(u, u.pool[e].pc + 1)
             /\ s' = e /\ bb_now' = now /\ bb_now_record' = old
    <2>1. p + 1 \in Dom
      <3>1. instr.kind \in {"N", "S", "U", "F"}
        BY <1>3, <1>11 DEF GoesOn, Instrs, Kinds, EndsBlock
      <3>2. QED
        BY <1>3, <3>1 DEF GoesOn
    <2>2. PICK v : v = tcache_new(u, p + 1) /\ v = tc'
      BY <1>6, <1>11
    <2>3. /\ v \in Cache(Dom) /\ Shaped(v, Dom, F) /\ v.free = t.free /\ v.pool[e].pc = p
          /\ e + 1 \in Entries
      <3>1. /\ -1 \notin Dom /\ p + 1 \in Dom
            /\ instr \in Instrs(Dom) /\ instr \in F[p] /\ ~EndsBlock(instr)
            /\ u = DecodedAs(t, e, instr) /\ HasRoom(u) /\ v = tcache_new(u, p + 1)
            /\ Shaped(t, Dom, F) /\ Linked(t, {})
        BY <1>1, <1>3, <1>4, <1>9, <1>10, <1>11, <2>1, <2>2
      <3>2. QED
        BY <3>1, DecodeNewKeeps
    <2>4. \A n \in Nodes : n \notin {e, e + 1} => v.pool[n] = t.pool[n]
      BY <1>1, <1>3, <1>4, <1>9, <1>10, <1>11, <2>1, <2>2, DecodeNewKeeps
    <2>5. \E Z : Makes(t, v, Z, F) /\ \A z \in Z : ~Ends(v, z)
      BY <1>1, <1>3, <1>4, <1>9, <1>10, <1>11, <2>1, <2>2, DecodeNewKeeps
    <2>6. PICK Z : Makes(t, v, Z, F) /\ \A z \in Z : ~Ends(v, z)
      BY <2>5
    <2>7. Kept(v, X \cup (Z \X BOOLEAN)) /\ FreeOf(v) = FreeOf(t) /\ Linear(v)
      BY <1>10, <2>3, <2>6, EntriesKept
    <2>8. Kept(v, X)
      BY <2>6, <2>7, KeptUnended
    <2>9. v.pool[old].pc = v.pool[now].pc
      <3>1. old \in Nodes /\ old \notin {e, e + 1}
        BY <2>3, Numbers
      <3>2. v.pool[now].pc = q
        <4>1. now \in Nodes /\ now # e + 1
          BY Numbers
        <4>2. QED
          BY <2>3, <2>4, <4>1
      <3>3. QED
        BY <2>4, <3>1, <3>2
    <2>10. QED
      BY <1>9, <1>11, <2>2, <2>7, <2>8, <2>9, EntryUsed DEF LinkInv
  <1>12. CASE EndsBlock(instr) /\ ~bb_full(u, u.pool[now].pc) /\ tc' = Link(u, e, now, old)
              /\ s' = e /\ tcache_state' = "RUNNING"
    <2>1. e <= t.tc_idx
      BY Numbers
    <2>2. /\ Shaped(u, Dom, F) /\ Grows(t, u) /\ Linked(u, {e} \X BOOLEAN)
          /\ Ends(u, e) /\ IsDecoded(u, e)
      BY <1>1, <1>3, <1>4, <1>9, <1>10, <1>12, <2>1, DecodeEndKeeps
    <2>3. \E Z : Z = {e} /\ Makes(t, u, Z, F)
      BY <1>1, <1>3, <1>4, <1>9, <1>10, <1>12, <2>1, DecodeEndKeeps
    <2>4. PICK Z : Z = {e} /\ Makes(t, u, Z, F)
      BY <2>3
    <2>5. Kept(u, X \cup (Z \X BOOLEAN)) /\ FreeOf(u) = FreeOf(t) /\ Linear(u)
      BY <1>6, <1>10, <2>2, <2>4, EntriesKept
    <2>6. Kept(u, {e} \X BOOLEAN)
      BY <1>9, <2>4, <2>5
    <2>7. Complete(u, now)
      <3>1. ASSUME NEW g \in Entries, now <= g, g <= e PROVE IsDecoded(u, g)
        <4>1. CASE g = e
          BY <2>2, <4>1
        <4>2. CASE g # e
          <5>1. g < e
            BY <3>1, <4>2, Numbers
          <5>2. IsDecoded(t, g)
            BY <3>1, <5>1
          <5>3. QED
            BY <2>2, <5>2 DEF Grows, IsDecoded
        <4>3. QED
          BY <4>1, <4>2
      <3>2. QED
        BY <2>2, <3>1 DEF Complete
    <2>8. PICK v : v = Link(u, e, now, old) /\ v = tc'
      BY <1>12
    <2>9. old \notin FreeOf(u) /\ ~u.abort /\ GoesOn(Dom, p, u.pool[e].instr)
      BY <1>3, <1>6, <2>5
    <2>10. Linear(v) /\ (v.abort \/ Kept(v, {}))
      BY <1>1, <1>6, <1>8, <1>12, <2>2, <2>5, <2>6, <2>7, <2>8, <2>9, EndKept
    <2>11. QED
      BY <1>12, <2>8, <2>10, EntryUsed DEF LinkInv
  <1>13. CASE Full
    BY <1>13, FullLinked
  <1>14. QED
    BY <1>2, <1>5, <1>6, <1>11, <1>12, <1>13 DEF FetchDecode

LEMMA FirstLinked ==
    ASSUME TypeInv, LinkInv, DecodeFirst
    PROVE  LinkInv'
  <1>1. ~tc.abort /\ ~Decoded /\ tcache_state = "RUNNING"
    BY DEF TypeInv, DecodeFirst
  <1>2. s \in Records /\ Pc \in Dom /\ -1 \notin Dom /\ program.handler \in Dom
    BY <1>1, RunFacts, UndecodedFacts
  <1>3. CASE Full
    BY <1>1, <1>3, FullLinked
  <1>4. CASE HasRoom(tc) /\ LET t == tcache_new(tc, Pc)
                                e == t.tc_idx
                            IN  FetchDecode(t, e, e, s) \/ FetchFault(t)
    <2>1. PICK t : t = tcache_new(tc, Pc)
      OBVIOUS
    <2>2. PICK e : e = t.tc_idx
      OBVIOUS
    <2>3. PICK X : X = {}
      OBVIOUS
    <2>4. PICK F : F = seen
      OBVIOUS
    <2>5. /\ tc \in Cache(Dom) /\ Shaped(tc, Dom, F) /\ Linked(tc, X)
          /\ Linear(tc) /\ Kept(tc, X) /\ s \notin FreeOf(tc)
      BY <1>1, <2>3, <2>4, RunFacts, LinkFacts
    <2>6. t \in Cache(Dom) /\ Shaped(t, Dom, F) /\ Linked(t, X) /\ ~IsDecoded(t, e)
      BY <1>2, <1>4, <2>1, <2>2, <2>5, NewKeeps
    <2>7. /\ e \in Entries /\ t.pool[e] = Fresh(Pc) /\ t.abort = tc.abort /\ t.free = tc.free
          /\ \A n \in Nodes : n # e => t.pool[n] = tc.pool[n]
      BY <1>2, <1>4, <2>1, <2>2, <2>5, NewOf
    <2>8. PICK Z : Makes(tc, t, Z, F) /\ \A z \in Z : ~Ends(t, z)
      BY <1>2, <1>4, <2>1, <2>5, NewMakes
    <2>9. Kept(t, X \cup (Z \X BOOLEAN)) /\ FreeOf(t) = FreeOf(tc) /\ Linear(t)
      BY <2>5, <2>6, <2>7, <2>8, EntriesKept
    <2>10. Kept(t, X)
      BY <2>8, <2>9, KeptUnended
    <2>11. PICK p \in Dom : p = Pc /\ p = t.pool[e].pc
      BY <1>2, <2>7 DEF Fresh
    <2>12. s \notin FreeOf(t) /\ t.pool[s].pc = p
      <3>1. s # e /\ s \in Nodes
        BY <1>2, <2>7, Numbers
      <3>2. QED
        BY <2>5, <2>7, <2>9, <2>11, <3>1 DEF Pc
    <2>13. /\ t \in Cache(Dom) /\ Shaped(t, Dom, seen) /\ Linked(t, {}) /\ ~t.abort
           /\ Kept(t, {}) /\ Linear(t)
      BY <1>1, <2>3, <2>4, <2>6, <2>7, <2>9, <2>10
    <2>14. CASE FetchDecode(t, e, e, s)
      <3>1. e <= e /\ \A g \in Entries : ~(e <= g /\ g < e)
        BY <2>7, Numbers
      <3>2. QED
        BY <1>1, <1>2, <2>2, <2>6, <2>7, <2>11, <2>12, <2>13, <2>14, <3>1, FetchDecodeLinked
    <2>15. CASE FetchFault(t)
      BY <1>2, <2>13, <2>15, HandleLinked DEF FetchFault
    <2>16. QED
      BY <1>4, <2>1, <2>2, <2>14, <2>15
  <1>5. QED
    BY <1>3, <1>4 DEF DecodeFirst

LEMMA NextLinked ==
    ASSUME TypeInv, LinkInv, DecodeNext
    PROVE  LinkInv'
  <1>1. ~tc.abort /\ ~Decoded /\ tcache_state = "BUILDING"
    BY DEF TypeInv, DecodeNext
  <1>2. s = tc.tc_idx /\ s \in Entries /\ ~IsDecoded(tc, s)
    BY <1>1, UndecodedFacts DEF Decoded, IsDecoded
  <1>3. /\ tc \in Cache(Dom) /\ Shaped(tc, Dom, seen) /\ Linked(tc, {}) /\ -1 \notin Dom
        /\ Building /\ Pc \in Dom /\ program.handler \in Dom
    BY <1>1, RunFacts DEF RunInv
  <1>4. /\ Linear(tc) /\ Kept(tc, {}) /\ bb_now_record \notin FreeOf(tc)
        /\ tc.pool[bb_now_record].pc = tc.pool[bb_now].pc
    BY <1>1, LinkFacts
  <1>5. CASE FetchDecode(tc, s, bb_now, bb_now_record)
    <2>1. PICK p \in Dom : p = tc.pool[s].pc
      BY <1>3 DEF Pc
    <2>2. bb_now \in Entries /\ bb_now_record \in Records /\ bb_now <= s
      BY <1>2, <1>3, Numbers DEF Building
    <2>3. \A g \in Entries : bb_now <= g /\ g < s => IsDecoded(tc, g) /\ ~Ends(tc, g)
      BY <1>2, <1>3 DEF Building
    <2>4. IsDecoded(tc, bb_now)
      <3>1. bb_now <= bb_now /\ bb_now < s
        BY <1>2, <1>3, <2>2, Numbers DEF Building
      <3>2. QED
        BY <2>2, <2>3, <3>1
    <2>5. PICK q \in Dom : q = tc.pool[bb_now].pc
      BY <1>3, <2>2, <2>4, NodeFields, Numbers DEF Shaped, Follows
    <2>6. tc.pool[bb_now_record].pc = q
      BY <1>4, <2>5
    <2>7. QED
      BY <1>1, <1>2, <1>3, <1>4, <1>5, <2>1, <2>2, <2>3, <2>5, <2>6, FetchDecodeLinked
  <1>6. CASE FetchFault(tc)
    BY <1>1, <1>3, <1>4, <1>6, HandleLinked DEF FetchFault
  <1>7. QED
    BY <1>5, <1>6 DEF DecodeNext

LEMMA StepLinked == TypeInv /\ LinkInv /\ [Next]_vars /\ [~MovesRecord]_vars => LinkInv'
  <1> SUFFICES ASSUME TypeInv, LinkInv, [Next]_vars, [~MovesRecord]_vars PROVE LinkInv'
    OBVIOUS
  <1>1. CASE UNCHANGED vars
    BY <1>1 DEF vars, buildVars, LinkInv
  <1>2. CASE Next /\ ~MovesRecord
    <2>1. CASE DecodeFound
      BY <2>1, FoundLinked
    <2>2. CASE DecodeFirst
      BY <2>2, FirstLinked
    <2>3. CASE DecodeNext
      BY <2>3, NextLinked
    <2>4. CASE ExecNormal \/ Resume
      BY <2>4, NormalLinked
    <2>5. CASE ExecFault \/ Interrupt
      BY <2>5, TrapLinked
    <2>6. CASE ExecBranch
      BY <2>6, BranchLinked
    <2>7. CASE ExecJr
      BY <1>2, <2>7, JrLinked
    <2>8. CASE ExecFence
      BY <2>8, FenceLinked
    <2>9. QED
      BY <1>2, <2>1, <2>2, <2>3, <2>4, <2>5, <2>6, <2>7, <2>8 DEF Next
  <1>3. QED
    BY <1>1, <1>2

\* What runs next, and the record of the block that is being built, are in use
\* as long as no link to a record is moved.
THEOREM RecordsInUse == Spec /\ [][~MovesRecord]_vars => []InUse
  <1>1. Init => TypeInv /\ LinkInv
    BY InitTyped, InitLinked
  <1>2. TypeInv /\ [Next]_vars => TypeInv'
    BY StepTyped
  <1>3. TypeInv /\ LinkInv /\ [Next]_vars /\ [~MovesRecord]_vars => LinkInv'
    BY StepLinked
  <1>4. TypeInv /\ LinkInv => InUse
    BY DEF TypeInv, LinkInv, InUse, FreeRecords
  <1>5. QED
    BY <1>1, <1>2, <1>3, <1>4, PTL DEF Spec

\* In a list of finitely many records some record comes last.
LEMMA LinearEnds ==
    ASSUME NEW t, Closed(t, Records), Linear(t), FreeOf(t) # {}
    PROVE  \E r \in FreeOf(t) : t.pool[r].tnext = Null
  <1> SUFFICES ASSUME \A r \in FreeOf(t) : t.pool[r].tnext # Null PROVE FALSE
    OBVIOUS
  <1>1. PICK F : F = FreeOf(t)
    OBVIOUS
  <1>2. F \in SUBSET Records /\ Closed(t, F)
    BY <1>1, FreeClosed
  <1>3. IsFiniteSet(F)
    <2>1. TcacheSize + 1 \in Int /\ TcacheSize + NumRecords \in Int
      BY TcacheAssumption
    <2>2. IsFiniteSet(Records)
      BY <2>1, FS_Interval DEF Records
    <2>3. QED
      BY <1>2, <2>2, FS_Subset
  <1>4. t.free \in F
    <2>1. CASE t.free = Null
      <3>1. {} \in SUBSET Records /\ Closed(t, {})
        BY <2>1 DEF Closed
      <3>2. FreeOf(t) \subseteq {}
        BY <3>1, FreeLeast
      <3>3. QED
        BY <3>2
    <2>2. QED
      BY <1>2, <2>1 DEF Closed
  <1>5. PICK G : G = F \ {t.free}
    OBVIOUS
  <1>6. PICK f : f = [r \in F |-> t.pool[r].tnext]
    OBVIOUS
  <1>7. \A r \in F : t.pool[r].tnext \in G
    BY <1>1, <1>2, <1>5 DEF Closed, Linear
  <1>8. IsFiniteSet(G) /\ Cardinality(G) = Cardinality(F) - 1 /\ Cardinality(F) \in Nat
    BY <1>3, <1>4, <1>5, FS_RemoveElement, FS_CardinalityType
  <1>9. f \in [F -> G]
    BY <1>6, <1>7
  <1>10. Cardinality(G) < Cardinality(F)
    BY <1>8
  <1>11. PICK q \in F, r \in F : q # r /\ f[q] = f[r]
    BY <1>3, <1>8, <1>9, <1>10, FS_PigeonHole
  <1>12. t.pool[q].tnext = t.pool[r].tnext /\ t.pool[r].tnext # Null
    BY <1>1, <1>6, <1>11
  <1>13. QED
    BY <1>1, <1>11, <1>12 DEF Linear

\* No record is ever freed twice, so the free list ends, as long as no link to a
\* record is moved.
THEOREM FreeListAlwaysEnds == Spec /\ [][~MovesRecord]_vars => []FreeListEnds
  <1>1. Init => TypeInv /\ LinkInv
    BY InitTyped, InitLinked
  <1>2. TypeInv /\ [Next]_vars => TypeInv'
    BY StepTyped
  <1>3. TypeInv /\ LinkInv /\ [Next]_vars /\ [~MovesRecord]_vars => LinkInv'
    BY StepLinked
  <1>4. TypeInv /\ LinkInv => FreeListEnds
    <2> SUFFICES ASSUME TypeInv, Linear(tc), FreeOf(tc) # {}
                 PROVE  \E r \in FreeOf(tc) : tc.pool[r].tnext = Null
      BY DEF FreeListEnds, FreeRecords, LinkInv
    <2>1. Closed(tc, Records)
      BY ListTyped DEF TypeInv
    <2>2. QED
      BY <2>1, LinearEnds
  <1>5. QED
    BY <1>1, <1>2, <1>3, <1>4, PTL DEF Spec

----------------------------------------------------------------------------
(* Every step is a step of the plain interpreter, or none.                  *)

\* The program goes from Pc to a successor of the instruction that runs.
LEMMA Executed ==
    ASSUME TypeInv, ~tc.abort, Decoded, NEW instr, instr = tc.pool[s].instr,
           Pc' \in Interp!Successors(Pc, instr), Interp!Effect(instr), program' = program
    PROVE  Interp!Next
  <1>1. instr \in seen[Pc]
    BY DecodedFacts
  <1>2. QED
    BY <1>1 DEF Interp!Next, Interp!Execute

\* The program stays where it is.
LEMMA Stuttered ==
    ASSUME Pc' = Pc, UNCHANGED memVars
    PROVE  UNCHANGED Interp!vars
  BY DEF Interp!vars, memVars

LEMMA Trapped ==
    ASSUME Pc' \in {Pc, program.handler}, UNCHANGED memVars
    PROVE  [Interp!Next]_(Interp!vars)
  BY Stuttered DEF Interp!Next, Interp!Trap, memVars

\* An exception goes to its handler, but where no record is left.
LEMMA HandleMoves ==
    ASSUME NEW D, -1 \notin D, NEW F, NEW t \in Cache(D), Shaped(t, D, F), Linked(t, {}),
           ~t.abort, NEW jpc \in D, s \in Nodes, t.pool[s].pc = Pc, HandleException(t, jpc)
    PROVE  Pc' = jpc \/ (tc'.abort /\ Pc' = Pc)
  <1>1. CASE ~tc'.abort
    <2>1. ~tc'.abort => Linked(tc', {}) /\ Target(tc', s') /\ tc'.pool[s'].pc = jpc
      BY HandleKeeps
    <2>2. QED
      BY <1>1, <2>1 DEF Pc
  <1>2. CASE tc'.abort
    <2>1. PICK b \in BOOLEAN : b
      OBVIOUS
    <2>2. PICK e \in {Ex} \cup Entries : e = Ex
      OBVIOUS
    <2>3. PICK u, X : u = tc' /\ X = {}
      OBVIOUS
    <2>4. u = tcache_bb_fetch(t, e, b, jpc) /\ Linked(t, X)
      BY <2>1, <2>2, <2>3 DEF HandleException
    <2>5. u.abort => t.abort \/ u.pool = t.pool
      BY <2>4, BbFetchKeeps
    <2>6. s' = s
      BY <1>2 DEF HandleException
    <2>7. QED
      BY <1>2, <2>3, <2>5, <2>6 DEF Pc
  <1>3. QED
    BY <1>1, <1>2

LEMMA FullMoves ==
    ASSUME TypeInv, ~tc.abort, Full
    PROVE  [Interp!Next]_(Interp!vars)
  <1>1. Pc \in Dom /\ -1 \notin Dom /\ DOMAIN code = Dom
    BY RunFacts
  <1>2. PICK u, F : u = tc' /\ F = seen
    OBVIOUS
  <1>3. u = tcache_bb_new(tcache_flush(Dom), Pc)
    BY <1>1, <1>2 DEF Full
  <1>4. u.pool[TcacheSize + 1].pc = Pc
    BY <1>1, <1>3, FlushKeeps
  <1>5. Pc' = Pc
    BY <1>2, <1>4 DEF Full, Pc
  <1>6. QED
    BY <1>5, Trapped DEF Full

LEMMA FoundMoves ==
    ASSUME TypeInv, DecodeFound
    PROVE  [Interp!Next]_(Interp!vars)
  <1>1. ~tc.abort /\ ~Decoded /\ tcache_state = "RUNNING"
    BY DEF TypeInv, DecodeFound
  <1>2. s \in Records /\ Pc \in Dom
    BY <1>1, RunFacts, UndecodedFacts
  <1>3. PICK now : now = tc.bb[Pc] /\ now # Null /\ s' = now
    BY DEF DecodeFound
  <1>4. Complete(tc, now) /\ tc.pool[now].pc = Pc
    BY <1>1, <1>2, <1>3, RunFacts DEF Shaped
  <1>5. now \in Entries /\ Target(tc, now)
    BY <1>1, <1>2, <1>4, RunFacts, Numbers DEF Complete, Target
  <1>6. PICK u, X : u = tc' /\ X = {}
    OBVIOUS
  <1>7. /\ tc \in Cache(Dom) /\ Shaped(tc, Dom, seen) /\ Linked(tc, X)
        /\ u = tcache_patch_and_free(tc, s, now)
    BY <1>1, <1>3, <1>6, RunFacts DEF DecodeFound
  <1>8. SameCode(tc, u)
    BY <1>2, <1>5, <1>7, PatchKeeps
  <1>9. Pc' = Pc
    BY <1>3, <1>4, <1>5, <1>6, <1>8, Numbers DEF SameCode, Pc
  <1>10. QED
    BY <1>9, Trapped DEF DecodeFound

LEMMA NormalMoves ==
    ASSUME TypeInv, ExecNormal
    PROVE  Interp!Next
  <1>1. /\ ~tc.abort /\ Decoded /\ tc.pool[s].instr.kind \in {"N", "S", "U"}
        /\ s' = s + 1 /\ tc' = tc /\ program' = program
    BY DEF TypeInv, ExecNormal, Executes
  <1>2. PICK instr : instr = tc.pool[s].instr
    OBVIOUS
  <1>3. Follows(tc, s, seen) /\ ~Ends(tc, s)
    BY <1>1, DecodedFacts DEF Ends, EndsBlock
  <1>4. Pc' = Pc + 1
    BY <1>1, <1>3 DEF Follows, Pc
  <1>5. Pc' \in Interp!Successors(Pc, instr)
    BY <1>1, <1>2, <1>4 DEF Interp!Successors
  <1>6. Interp!Effect(instr)
    BY <1>1, <1>2 DEF ExecNormal, Interp!Effect
  <1>7. QED
    BY <1>1, <1>2, <1>5, <1>6, Executed

LEMMA TrapMoves ==
    ASSUME TypeInv, ExecFault \/ Interrupt
    PROVE  [Interp!Next]_(Interp!vars)
  <1>1. /\ ~tc.abort /\ HandleException(tc, program.handler) /\ UNCHANGED memVars
    BY DEF TypeInv, Interrupt, ExecFault, Executes
  <1>2. /\ tc \in Cache(Dom) /\ Shaped(tc, Dom, seen) /\ Linked(tc, {}) /\ -1 \notin Dom
        /\ program.handler \in Dom /\ s \in Nodes /\ tc.pool[s].pc = Pc
    BY <1>1, RunFacts DEF Pc
  <1>3. Pc' \in {Pc, program.handler}
    BY <1>1, <1>2, HandleMoves
  <1>4. QED
    BY <1>1, <1>3, Trapped

\* The flush leaves records, so the fence goes on.
LEMMA FenceMoves ==
    ASSUME TypeInv, ExecFence
    PROVE  Interp!Next
  <1>1. /\ ~tc.abort /\ Decoded /\ tc.pool[s].instr.kind = "F" /\ program' = program
        /\ UNCHANGED code /\ seen' = [p \in DOMAIN code |-> {code[p]}]
    BY DEF TypeInv, ExecFence, Executes
  <1>2. Pc + 1 \in Dom /\ -1 \notin Dom /\ DOMAIN code = Dom /\ s \in Nodes
    BY <1>1, DecodedFacts, RunFacts DEF GoesOn
  <1>3. PICK t, F : t = tcache_flush(Dom) /\ F = seen
    OBVIOUS
  <1>4. /\ t \in Cache(Dom) /\ Shaped(t, Dom, F) /\ Linked(t, {}) /\ ~t.abort
        /\ t.free = TcacheSize + 1
    BY <1>3, FlushShaped
  <1>5. HandleException(t, Pc + 1)
    BY <1>2, <1>3 DEF ExecFence
  <1>6. ~tc'.abort
    <2>1. PICK q \in Dom : q = Pc + 1
      BY <1>2
    <2>2. PICK b \in BOOLEAN : b
      OBVIOUS
    <2>3. PICK u : u = tc'
      OBVIOUS
    <2>4. u = tcache_bb_fetch(t, Ex, b, q)
      BY <1>5, <2>1, <2>2, <2>3 DEF HandleException
    <2>5. t.bb[q] = Null /\ t.free # Null
      BY <1>3, <1>4, FlushOf, Numbers
    <2>6. t.pool[t.free].tnext \in {Null} \cup Records
      BY <1>4, Numbers DEF Shaped
    <2>7. u = SetNext(Recorded(t, Ex, b, q), Ex, b, t.free)
      BY <2>4, <2>5, BbFetchCases
    <2>8. PICK e \in {Null, Ex} \cup Entries : e = Ex
      OBVIOUS
    <2>9. PICK v : v = Recorded(t, e, b, q)
      OBVIOUS
    <2>10. v \in Cache(Dom) /\ v.abort = t.abort
      BY <1>4, <2>5, <2>6, <2>9, RecordedOf
    <2>11. u = v
      BY <2>7, <2>8, <2>9, <2>10, Fields, Numbers DEF SetNext
    <2>12. QED
      BY <1>4, <2>3, <2>10, <2>11
  <1>7. Pc' = Pc + 1
    BY <1>2, <1>4, <1>5, <1>6, HandleKeeps DEF Pc
  <1>8. PICK instr : instr = tc.pool[s].instr
    OBVIOUS
  <1>9. Pc' \in Interp!Successors(Pc, instr) /\ Interp!Effect(instr)
    BY <1>1, <1>7, <1>8 DEF Interp!Successors, Interp!Effect
  <1>10. QED
    BY <1>1, <1>8, <1>9, Executed

LEMMA BranchMoves ==
    ASSUME TypeInv, LinkInv, ExecBranch
    PROVE  Interp!Next
  <1>1. /\ ~tc.abort /\ Decoded /\ tc.pool[s].instr.kind \in {"J", "B"}
        /\ tc' = tc /\ UNCHANGED memVars
    BY DEF TypeInv, ExecBranch, Executes
  <1>2. s \in Entries
    BY <1>1, DecodedFacts
  <1>3. PICK b \in Sides(tc.pool[s].instr) : s' = NextOf(tc, s, b)
    BY <1>1 DEF ExecBranch, Sides, NextOf
  <1>4. LinkKept(tc, s, b)
    BY <1>1, <1>2, LinkFacts DEF Kept
  <1>5. PICK instr : instr = tc.pool[s].instr
    OBVIOUS
  <1>6. Pc' \in Interp!Successors(Pc, instr)
    BY <1>1, <1>3, <1>4, <1>5 DEF LinkKept, Leads, Pc
  <1>7. Interp!Effect(instr)
    BY <1>1, <1>5 DEF Interp!Effect, memVars
  <1>8. QED
    BY <1>1, <1>5, <1>6, <1>7, Executed DEF memVars

LEMMA JrMoves ==
    ASSUME TypeInv, LinkInv, ExecJr
    PROVE  [Interp!Next]_(Interp!vars)
  <1>1. /\ ~tc.abort /\ Decoded /\ tc.pool[s].instr.kind \in {"I", "X"} /\ UNCHANGED memVars
    BY DEF TypeInv, ExecJr, Executes
  <1>2. /\ s \in Entries /\ tc \in Cache(Dom) /\ Shaped(tc, Dom, seen) /\ Linked(tc, {})
        /\ -1 \notin Dom
    BY <1>1, DecodedFacts, RunFacts
  <1>3. PICK instr : instr = tc.pool[s].instr
    OBVIOUS
  <1>4. Interp!Effect(instr) /\ Interp!Successors(Pc, instr) = instr.to /\ program' = program
    BY <1>1, <1>3 DEF Interp!Effect, Interp!Successors, memVars
  <1>5. \A b \in BOOLEAN : LinkKept(tc, s, b)
    BY <1>1, <1>2, LinkFacts DEF Kept, Sides
  <1>6. PICK target \in Dom : target \in tc.pool[s].instr.to /\
           \/ tc' = tc /\ \E b \in BOOLEAN : s' = NextOf(tc, s, b) /\ tc.pool[s'].pc = target
           \/ \E b \in BOOLEAN, c \in BOOLEAN : \E v :
                /\ b /\ ~c /\ tc.pool[NextOf(tc, s, b)].pc # target
                /\ tc.pool[NextOf(tc, s, c)].pc # target
                /\ v = SetNext(tc, s, c, NextOf(tc, s, b))
                /\ tc' = tcache_bb_fetch(v, s, b, target) /\ s' = NextOf(tc', s, b)
    BY JrCases
  <1>7. ASSUME Pc' \in instr.to PROVE Interp!Next
    BY <1>1, <1>3, <1>4, <1>7, Executed
  <1>8. CASE tc' = tc /\ tc.pool[s'].pc = target
    BY <1>3, <1>6, <1>7, <1>8 DEF Pc
  <1>9. ASSUME NEW b \in BOOLEAN, NEW c \in BOOLEAN, NEW v, b /\ ~c,
               v = SetNext(tc, s, c, NextOf(tc, s, b)),
               tc' = tcache_bb_fetch(v, s, b, target), s' = NextOf(tc', s, b)
        PROVE  [Interp!Next]_(Interp!vars)
    <2>1. PICK x : x = NextOf(tc, s, b)
      OBVIOUS
    <2>2. x \in Nodes /\ Leads(tc, x, s)
      BY <1>5, <2>1 DEF LinkKept
    <2>3. PICK X : X = {}
      OBVIOUS
    <2>4. PICK Y : Y = X \ {<<s, c>>}
      OBVIOUS
    <2>5. v = SetNext(tc, s, c, x) /\ Linked(tc, X)
      BY <1>2, <1>9, <2>1, <2>3
    <2>6. Target(tc, x)
      BY <1>1, <1>2, <2>1 DEF Linked, Sides
    <2>7. /\ v \in Cache(Dom) /\ Shaped(v, Dom, seen) /\ SameCode(tc, v) /\ Linked(v, Y)
      BY <1>2, <2>2, <2>4, <2>5, <2>6, SetNextKeeps
    <2>8. v.abort = tc.abort
      BY <1>2, <2>2, <2>5, SetNextOf
    <2>9. NextOf(v, s, b) = x
      <3>1. \A d \in BOOLEAN : d # c => NextOf(v, s, d) = NextOf(tc, s, d)
        BY <1>2, <2>2, <2>5, SetNextOf
      <3>2. b # c
        BY <1>9
      <3>3. QED
        BY <2>1, <3>1, <3>2
    <2>10. PICK u : u = tc'
      OBVIOUS
    <2>11. u = tcache_bb_fetch(v, s, b, target)
      BY <1>9, <2>10
    <2>12. PICK e \in {Ex} \cup Entries : e = s
      BY <1>2
    <2>13. u = tcache_bb_fetch(v, e, b, target) /\ e \in Entries /\ (v.abort \/ Linked(v, Y))
      BY <1>2, <2>7, <2>11, <2>12
    <2>14. PICK Z : Z = Y \ {<<e, b>>}
      OBVIOUS
    <2>15. /\ u \in Cache(Dom) /\ Shaped(u, Dom, seen) /\ Grows(v, u)
           /\ u.abort => v.abort \/ u.pool = v.pool
           /\ u.abort \/ (/\ Linked(u, Z) /\ Target(u, Fetched(v, target))
                          /\ u.pool[Fetched(v, target)].pc = target
                          /\ NextOf(u, e, b) = Fetched(v, target))
      BY <1>2, <2>7, <2>13, <2>14, BbFetchKeeps
    <2>16. CASE u.abort
      <3>1. u.pool = v.pool
        BY <1>1, <2>8, <2>16, <2>15
      <3>2. s' = x
        BY <1>9, <2>9, <2>10, <3>1 DEF NextOf
      <3>3. Pc' = tc.pool[x].pc
        BY <2>2, <2>7, <2>10, <3>1, <3>2 DEF SameCode, Pc
      <3>4. Pc' \in instr.to \/ Pc' = Pc
        BY <1>3, <1>4, <2>2, <3>3 DEF Leads, Pc
      <3>5. QED
        BY <1>1, <1>7, <3>4, Trapped
    <2>17. CASE ~u.abort
      <3>1. Pc' = target
        BY <1>9, <2>10, <2>12, <2>17, <2>15 DEF Pc
      <3>2. QED
        BY <1>3, <1>6, <1>7, <3>1
    <2>18. QED
      BY <2>16, <2>17
  <1>10. QED
    BY <1>6, <1>8, <1>9

\* Decoding an entry leaves the program where it is.
LEMMA FetchDecodeMoves ==
    ASSUME TypeInv, ~tc.abort, NEW t \in Cache(Dom), Shaped(t, Dom, seen), Linked(t, {}), ~t.abort,
           NEW e \in Entries, e = t.tc_idx, ~IsDecoded(t, e), Pc = t.pool[e].pc,
           NEW now \in Entries, now <= e, NEW q \in Dom, q = t.pool[now].pc,
           \A g \in Entries : now <= g /\ g < e => IsDecoded(t, g) /\ ~Ends(t, g),
           NEW old \in Records, FetchDecode(t, e, now, old)
    PROVE  [Interp!Next]_(Interp!vars)
  <1>1. SeenInv /\ -1 \notin Dom
    BY RunFacts
  <1>2. PICK p \in Dom : p = Pc
    BY RunFacts
  <1>3. PICK instr : instr = code[p]
    OBVIOUS
  <1>4. GoesOn(Dom, p, instr) /\ instr \in seen[p] /\ instr \in Instrs(Dom) /\ p = t.pool[e].pc
    BY <1>1, <1>3, <1>2, ProgramFacts DEF GoesOn
  <1>5. PICK u : u = DecodedAs(t, e, instr)
    OBVIOUS
  <1>6. u = [t EXCEPT !.pool[e].instr = code[t.pool[e].pc]]
    BY <1>3, <1>4, <1>5 DEF DecodedAs
  <1>7. /\ u \in Cache(Dom) /\ u.pool[e].instr = instr /\ u.pool[e].pc = p
        /\ u.abort = t.abort /\ u.tc_idx = t.tc_idx
    BY <1>4, <1>5, DecodedOf
  <1>8. \A n \in Nodes : n # e => u.pool[n] = t.pool[n]
    BY <1>4, <1>5, DecodedOf
  <1>9. u.pool[now].pc = q
    BY <1>4, <1>7, <1>8, Numbers
  <1>10. CASE ~EndsBlock(instr) /\ HasRoom(u) /\ tc' = tcache_new(u, u.pool[e].pc + 1)
             /\ s' = e /\ UNCHANGED memVars
    <2>1. p + 1 \in Dom
      <3>1. instr.kind \in {"N", "S", "U", "F"}
        BY <1>4, <1>10 DEF GoesOn, Instrs, Kinds, EndsBlock
      <3>2. QED
        BY <1>4, <3>1 DEF GoesOn
    <2>2. PICK v : v = tcache_new(u, p + 1) /\ v = tc'
      BY <1>7, <1>10
    <2>3. v.pool[e].pc = p
      BY <1>1, <1>4, <1>5, <1>10, <2>1, <2>2, DecodeNewKeeps
    <2>4. Pc' = Pc
      BY <1>10, <1>2, <2>2, <2>3 DEF Pc
    <2>5. QED
      BY <1>10, <2>4, Trapped
  <1>11. CASE EndsBlock(instr) /\ ~bb_full(u, u.pool[now].pc) /\ tc' = Link(u, e, now, old)
              /\ s' = e /\ UNCHANGED memVars
    <2>1. e <= t.tc_idx
      BY Numbers
    <2>2. /\ u \in Cache(Dom) /\ Shaped(u, Dom, seen) /\ Grows(t, u) /\ Linked(u, {e} \X BOOLEAN)
          /\ Ends(u, e) /\ IsDecoded(u, e)
      BY <1>1, <1>4, <1>5, <1>11, <2>1, DecodeEndKeeps
    <2>3. Complete(u, now)
      <3>1. ASSUME NEW g \in Entries, now <= g, g <= e PROVE IsDecoded(u, g)
        <4>1. CASE g = e
          BY <2>2, <4>1
        <4>2. CASE g # e
          <5>1. g < e
            BY <3>1, <4>2, Numbers
          <5>2. IsDecoded(t, g)
            BY <3>1, <5>1
          <5>3. QED
            BY <2>2, <5>2 DEF Grows, IsDecoded
        <4>3. QED
          BY <4>1, <4>2
      <3>2. QED
        BY <2>2, <3>1 DEF Complete
    <2>4. PICK v : v = Link(u, e, now, old) /\ v = tc'
      BY <1>11
    <2>5. Grows(u, v)
      BY <1>1, <1>4, <1>7, <1>9, <1>11, <2>2, <2>3, <2>4, LinkKeeps
    <2>6. Pc' = Pc
      BY <1>7, <1>11, <1>2, <2>2, <2>4, <2>5 DEF Grows, Pc
    <2>7. QED
      BY <1>11, <2>6, Trapped
  <1>12. CASE Full
    BY <1>12, FullMoves
  <1>13. QED
    BY <1>3, <1>4, <1>6, <1>7, <1>10, <1>11, <1>12 DEF FetchDecode

LEMMA FirstMoves ==
    ASSUME TypeInv, DecodeFirst
    PROVE  [Interp!Next]_(Interp!vars)
  <1>1. ~tc.abort /\ ~Decoded /\ tcache_state = "RUNNING"
    BY DEF TypeInv, DecodeFirst
  <1>2. s \in Records /\ Pc \in Dom /\ -1 \notin Dom /\ program.handler \in Dom /\ s \in Nodes
    BY <1>1, RunFacts, UndecodedFacts
  <1>3. CASE Full
    BY <1>1, <1>3, FullMoves
  <1>4. CASE HasRoom(tc) /\ LET t == tcache_new(tc, Pc)
                                e == t.tc_idx
                            IN  FetchDecode(t, e, e, s) \/ FetchFault(t)
    <2>1. PICK t : t = tcache_new(tc, Pc)
      OBVIOUS
    <2>2. PICK e : e = t.tc_idx
      OBVIOUS
    <2>3. PICK X : X = {}
      OBVIOUS
    <2>4. PICK F : F = seen
      OBVIOUS
    <2>5. tc \in Cache(Dom) /\ Shaped(tc, Dom, F) /\ Linked(tc, X)
      BY <1>1, <2>3, <2>4, RunFacts
    <2>6. t \in Cache(Dom) /\ Shaped(t, Dom, F) /\ Linked(t, X) /\ ~IsDecoded(t, e)
      BY <1>2, <1>4, <2>1, <2>2, <2>5, NewKeeps
    <2>7. /\ e \in Entries /\ t.pool[e] = Fresh(Pc) /\ t.abort = tc.abort
          /\ \A n \in Nodes : n # e => t.pool[n] = tc.pool[n]
      BY <1>2, <1>4, <2>1, <2>2, <2>5, NewOf
    <2>8. PICK p \in Dom : p = Pc /\ p = t.pool[e].pc
      BY <1>2, <2>7 DEF Fresh
    <2>9. t.pool[s].pc = Pc
      <3>1. s # e
        BY <1>2, <2>7, Numbers
      <3>2. QED
        BY <1>2, <2>7, <3>1 DEF Pc
    <2>10. t \in Cache(Dom) /\ Shaped(t, Dom, seen) /\ Linked(t, {}) /\ ~t.abort
      BY <1>1, <2>3, <2>4, <2>6, <2>7
    <2>11. CASE FetchDecode(t, e, e, s)
      <3>1. e <= e /\ \A g \in Entries : ~(e <= g /\ g < e)
        BY <2>7, Numbers
      <3>2. QED
        BY <1>1, <1>2, <2>2, <2>6, <2>7, <2>8, <2>10, <2>11, <3>1, FetchDecodeMoves
    <2>12. CASE FetchFault(t)
      <3>1. HandleException(t, program.handler) /\ UNCHANGED memVars
        BY <2>12 DEF FetchFault
      <3>2. Pc' \in {Pc, program.handler}
        BY <1>2, <2>9, <2>10, <3>1, HandleMoves
      <3>3. QED
        BY <3>1, <3>2, Trapped
    <2>13. QED
      BY <1>4, <2>1, <2>2, <2>11, <2>12
  <1>5. QED
    BY <1>3, <1>4 DEF DecodeFirst

LEMMA NextMoves ==
    ASSUME TypeInv, DecodeNext
    PROVE  [Interp!Next]_(Interp!vars)
  <1>1. ~tc.abort /\ ~Decoded /\ tcache_state = "BUILDING"
    BY DEF TypeInv, DecodeNext
  <1>2. s = tc.tc_idx /\ s \in Entries /\ ~IsDecoded(tc, s)
    BY <1>1, UndecodedFacts DEF Decoded, IsDecoded
  <1>3. /\ tc \in Cache(Dom) /\ Shaped(tc, Dom, seen) /\ Linked(tc, {}) /\ -1 \notin Dom
        /\ Building /\ Pc = tc.pool[s].pc /\ program.handler \in Dom /\ s \in Nodes
    BY <1>1, RunFacts DEF RunInv, Pc
  <1>4. CASE FetchDecode(tc, s, bb_now, bb_now_record)
    <2>1. bb_now \in Entries /\ bb_now_record \in Records /\ bb_now <= s
      BY <1>2, <1>3, Numbers DEF Building
    <2>2. \A g \in Entries : bb_now <= g /\ g < s => IsDecoded(tc, g) /\ ~Ends(tc, g)
      BY <1>2, <1>3 DEF Building
    <2>3. IsDecoded(tc, bb_now)
      <3>1. bb_now <= bb_now /\ bb_now < s
        BY <1>2, <1>3, <2>1, Numbers DEF Building
      <3>2. QED
        BY <2>1, <2>2, <3>1
    <2>4. PICK q \in Dom : q = tc.pool[bb_now].pc
      BY <1>3, <2>1, <2>3, NodeFields, Numbers DEF Shaped, Follows
    <2>5. QED
      BY <1>1, <1>2, <1>3, <1>4, <2>1, <2>2, <2>4, FetchDecodeMoves
  <1>5. CASE FetchFault(tc)
    <2>1. HandleException(tc, program.handler) /\ UNCHANGED memVars
      BY <1>5 DEF FetchFault
    <2>2. Pc' \in {Pc, program.handler}
      BY <1>1, <1>3, <2>1, HandleMoves
    <2>3. QED
      BY <2>1, <2>2, Trapped
  <1>6. QED
    BY <1>4, <1>5 DEF DecodeNext

LEMMA StepMoves == TypeInv /\ LinkInv /\ [Next]_vars => [Interp!Next]_(Interp!vars)
  <1> SUFFICES ASSUME TypeInv, LinkInv, [Next]_vars PROVE [Interp!Next]_(Interp!vars)
    OBVIOUS
  <1>1. CASE UNCHANGED vars \/ Resume
    <2>1. Pc' = Pc /\ UNCHANGED memVars
      BY <1>1 DEF vars, Resume, Pc
    <2>2. QED
      BY <2>1, Stuttered
  <1>2. CASE DecodeFound
    BY <1>2, FoundMoves
  <1>3. CASE DecodeFirst
    BY <1>3, FirstMoves
  <1>4. CASE DecodeNext
    BY <1>4, NextMoves
  <1>5. CASE ExecNormal
    BY <1>5, NormalMoves
  <1>6. CASE ExecFault \/ Interrupt
    BY <1>6, TrapMoves
  <1>7. CASE ExecBranch
    BY <1>7, BranchMoves
  <1>8. CASE ExecJr
    BY <1>8, JrMoves
  <1>9. CASE ExecFence
    BY <1>9, FenceMoves
  <1>10. QED
    BY <1>1, <1>2, <1>3, <1>4, <1>5, <1>6, <1>7, <1>8, <1>9 DEF Next

LEMMA InitMoves == Init => Interp!Init
  <1> SUFFICES ASSUME Init PROVE Interp!Init
    OBVIOUS
  <1>1. Dom = DOMAIN code /\ -1 \notin Dom /\ program.start \in Dom
    BY InitTyped, ProgramFacts DEF TypeInv
  <1>2. PICK F : F = seen
    OBVIOUS
  <1>3. tc = tcache_bb_new(tcache_flush(Dom), program.start)
    BY <1>1 DEF Init
  <1>4. tc.pool[TcacheSize + 1].pc = program.start
    BY <1>1, <1>3, FlushKeeps
  <1>5. Pc = program.start
    BY <1>4 DEF Init, Pc
  <1>6. QED
    BY <1>5 DEF Init, Interp!Init

\* The trace cache implements the plain interpreter, as long as no link to a
\* record is moved: what it decodes, links, drops and traps shows only as the
\* steps that the plain loop takes.
THEOREM Implements == Spec /\ [][~MovesRecord]_vars => ImplementsInterpreter
  <1>1. Init => TypeInv /\ LinkInv
    BY InitTyped, InitLinked
  <1>2. TypeInv /\ [Next]_vars => TypeInv'
    BY StepTyped
  <1>3. TypeInv /\ LinkInv /\ [Next]_vars /\ [~MovesRecord]_vars => LinkInv'
    BY StepLinked
  <1>4. Init => Interp!Init
    BY InitMoves
  <1>5. TypeInv /\ LinkInv /\ [Next]_vars => [Interp!Next]_(Interp!vars)
    BY StepMoves
  <1>6. QED
    BY <1>1, <1>2, <1>3, <1>4, <1>5, PTL DEF Spec, ImplementsInterpreter, Interp!Spec

----------------------------------------------------------------------------
(* Where nothing interrupts a program no link to a record is moved: a jump  *)
(* that leads to a record goes there, and the block is decoded at once.     *)

\* Nothing traps but the instructions that say so.
Undisturbed(P) == P.faults = {} /\ ~P.irq

\* No instruction of the program jumps where a register says.
Direct(P) == \A p \in DOMAIN P.code : \A i \in Possible(P, p) : i.kind \notin {"I", "X"}

Jumps(t, e) == t.pool[e].instr.kind \in {"I", "X"}

Settled(t, e) == Jumps(t, e) => t.pool[e].tnext \notin Records

\* The only record that a jump leads to is r.
WaitsFor(t, e, r) == Jumps(t, e) /\ t.pool[e].tnext \in Records => t.pool[e].tnext = r

OneWaits(t, r) == \A e \in Entries : WaitsFor(t, e, r)

\* What runs next, or the record whose block is being built.
Current == IF tcache_state = "BUILDING" THEN bb_now_record ELSE s

JumpInv == Undisturbed(program) /\ ~tc.abort => OneWaits(tc, Current)

\* Once the record is patched no jump leads to one.
LEMMA PatchSettles ==
    ASSUME NEW D, NEW F, NEW t \in Cache(D), Shaped(t, D, F), Linear(t), NEW r \in Records,
           NEW now \in Entries, NEW u, u = tcache_patch_and_free(t, r, now),
           NEW g \in Entries, WaitsFor(t, g, r), Jumps(t, g) => LinkKept(t, g, TRUE)
    PROVE  Settled(u, g) /\ (Jumps(u, g) <=> Jumps(t, g))
  <1>1. PICK v \in Cache(D) : Patched(t, v, r, now) /\ u = tcache_bb_free(v, r)
    BY PatchedOf
  <1>2. PICK b \in BOOLEAN : b
    OBVIOUS
  <1>3. u.pool[g] = v.pool[g]
    BY <1>1, Fields, Numbers DEF tcache_bb_free
  <1>4. v.pool[g].instr = t.pool[g].instr
    BY <1>1 DEF Patched, Calm
  <1>5. Jumps(u, g) <=> Jumps(t, g)
    BY <1>3, <1>4 DEF Jumps
  <1>6. ASSUME Jumps(t, g) PROVE NextOf(v, g, b) \notin Records
    <2>1. CASE Stands(t, r, g, b)
      BY <1>1, <2>1, Numbers DEF Patched
    <2>2. CASE ~Stands(t, r, g, b)
      <3>1. NextOf(v, g, b) = NextOf(t, g, b)
        BY <1>1, <2>2 DEF Patched
      <3>2. LinkKept(t, g, b)
        BY <1>2, <1>6
      <3>3. NextOf(t, g, b) # r
        BY <2>2, <3>2 DEF LinkKept
      <3>4. NextOf(t, g, b) \notin Records
        BY <1>2, <1>6, <3>3 DEF WaitsFor, NextOf
      <3>5. QED
        BY <3>1, <3>4
    <2>3. QED
      BY <2>1, <2>2
  <1>7. QED
    BY <1>2, <1>3, <1>5, <1>6 DEF Settled, NextOf

\* tcache_bb_fetch leaves the other entries as they are.
LEMMA BbFetchEntries ==
    ASSUME NEW D, NEW F, NEW t \in Cache(D), Shaped(t, D, F), -1 \notin D, NEW pc \in D,
           NEW e \in {Ex} \cup Entries, NEW b \in BOOLEAN,
           NEW u, u = tcache_bb_fetch(t, e, b, pc)
    PROVE  \A g \in Entries : /\ u.pool[g].instr = t.pool[g].instr
                              /\ g # e => u.pool[g] = t.pool[g]
  <1>1. CASE t.bb[pc] # Null /\ u = SetNext(t, e, b, t.bb[pc])
    <2>1. PICK x \in Nodes : x = t.bb[pc]
      BY <1>1, Fields, Numbers
    <2>2. PICK f \in {Null, Ex} \cup Entries : f = e
      OBVIOUS
    <2>3. u = SetNext(t, f, b, x)
      BY <1>1, <2>1, <2>2
    <2>4. \A n \in Nodes : u.pool[n].instr = t.pool[n].instr /\ (n # f => u.pool[n] = t.pool[n])
      BY <2>3, SetNextOf
    <2>5. QED
      BY <2>2, <2>4, Numbers
  <1>2. CASE u = [t EXCEPT !.abort = TRUE]
    BY <1>2, AbortOf
  <1>3. CASE t.free # Null /\ u = SetNext(Recorded(t, e, b, pc), e, b, t.free)
    <2>1. PICK v : v = Recorded(t, e, b, pc)
      OBVIOUS
    <2>2. t.free \in Records /\ t.free \in Nodes /\ t.pool[t.free].tnext \in {Null} \cup Records
      BY <1>3, Fields, Numbers DEF Shaped
    <2>3. v \in Cache(D) /\ \A n \in Nodes : n # t.free => v.pool[n] = t.pool[n]
      BY <1>3, <2>1, <2>2, RecordedOf
    <2>4. PICK x \in Nodes : x = t.free
      BY <2>2
    <2>5. u = SetNext(v, e, b, x)
      BY <1>3, <2>1, <2>4
    <2>6. \A n \in Nodes : u.pool[n].instr = v.pool[n].instr /\ (n # e => u.pool[n] = v.pool[n])
      BY <2>3, <2>5, SetNextOf
    <2>7. QED
      BY <2>2, <2>3, <2>6, Numbers
  <1>4. QED
    BY <1>1, <1>2, <1>3, BbFetchCases

\* The end of a block is decoded: its record is patched, and it leads to itself
\* or to where it goes.
LEMMA EndSettles ==
    ASSUME NEW D, -1 \notin D, NEW F, NEW t \in Cache(D), Shaped(t, D, F), ~t.abort,
           NEW e \in Entries, Ends(t, e), NEW p, p = t.pool[e].pc, GoesOn(D, p, t.pool[e].instr),
           NEW now, Complete(t, now), NEW pc \in D, pc = t.pool[now].pc, ~bb_full(t, pc),
           NEW old \in Records, Linked(t, {e} \X BOOLEAN), Kept(t, {e} \X BOOLEAN), Linear(t),
           \A g \in Entries : g # e => WaitsFor(t, g, old),
           NEW u, u = Link(t, e, now, old)
    PROVE  \A g \in Entries : Settled(u, g)
  <1>1. now \in Entries /\ pc # -1 /\ Target(t, now)
    BY Numbers DEF Complete, Target
  <1>2. PICK X : X = {e} \X BOOLEAN
    OBVIOUS
  <1>3. PICK v : v = bb_insert(t, pc, now)
    OBVIOUS
  <1>4. /\ v \in Cache(D) /\ Shaped(v, D, F) /\ Grows(t, v) /\ Linked(v, X) /\ v.abort = t.abort
        /\ v.pool = t.pool /\ v.free = t.free
    BY <1>1, <1>2, <1>3, InsertKeeps
  <1>5. Kept(v, X) /\ Linear(v)
    BY <1>1, <1>2, <1>4, InsertKept
  <1>6. PICK w : w = tcache_patch_and_free(v, old, now)
    OBVIOUS
  <1>7. w \in Cache(D) /\ Shaped(w, D, F) /\ SameCode(v, w)
    <2>1. Target(v, now)
      BY <1>1, <1>4, GrowsKeeps
    <2>2. QED
      BY <1>1, <1>4, <1>6, <2>1, PatchKeeps
  <1>8. PICK instr : instr = t.pool[e].instr
    OBVIOUS
  <1>9. w.pool[e].instr = instr
    BY <1>4, <1>7, <1>8, Numbers DEF SameCode
  <1>10. ASSUME NEW g \in Entries, g # e PROVE Settled(w, g)
    <2>1. Jumps(v, g) => LinkKept(v, g, TRUE)
      <3>1. \A b \in BOOLEAN : <<g, b>> \notin X
        BY <1>2, <1>10
      <3>2. Jumps(v, g) => TRUE \in Sides(v.pool[g].instr)
        BY DEF Jumps, Sides
      <3>3. QED
        BY <1>5, <3>1, <3>2 DEF Kept
    <2>2. WaitsFor(v, g, old)
      BY <1>4, <1>10 DEF WaitsFor, Jumps
    <2>3. QED
      BY <1>1, <1>4, <1>5, <1>6, <2>1, <2>2, PatchSettles
  <1>11. CASE instr.kind = "J"
    <2>1. PICK q \in D : u = tcache_bb_fetch(w, e, TRUE, q)
      <3>1. (CHOOSE q \in instr.to : TRUE) \in D
        BY <1>8, <1>11 DEF GoesOn, Instrs
      <3>2. u = tcache_bb_fetch(w, e, TRUE, CHOOSE q \in instr.to : TRUE)
        BY <1>3, <1>6, <1>8, <1>11 DEF Link
      <3>3. QED
        BY <3>1, <3>2
    <2>2. PICK b \in BOOLEAN : b
      OBVIOUS
    <2>3. u = tcache_bb_fetch(w, e, b, q)
      BY <2>1, <2>2
    <2>4. \A g \in Entries : u.pool[g].instr = w.pool[g].instr /\ (g # e => u.pool[g] = w.pool[g])
      BY <1>7, <2>3, BbFetchEntries
    <2>5. QED
      BY <1>9, <1>10, <1>11, <2>4 DEF Settled, Jumps
  <1>12. CASE instr.kind = "B"
    <2>1. PICK a \in BOOLEAN, b \in BOOLEAN : a /\ ~b
      OBVIOUS
    <2>2. PICK r \in D : r = p + 1
      BY <1>8, <1>12 DEF GoesOn
    <2>3. PICK q \in D : u = tcache_bb_fetch(tcache_bb_fetch(w, e, TRUE, q), e, FALSE, p + 1)
      <3>1. (CHOOSE q \in instr.to : TRUE) \in D
        BY <1>8, <1>12 DEF GoesOn, Instrs
      <3>2. u = tcache_bb_fetch(tcache_bb_fetch(w, e, TRUE, CHOOSE q \in instr.to : TRUE),
                                e, FALSE, p + 1)
        BY <1>3, <1>6, <1>8, <1>12 DEF Link
      <3>3. QED
        BY <3>1, <3>2
    <2>4. PICK x : x = tcache_bb_fetch(w, e, a, q)
      OBVIOUS
    <2>5. u = tcache_bb_fetch(x, e, b, r)
      BY <2>1, <2>2, <2>3, <2>4
    <2>6. PICK Y : Y = Entries \X BOOLEAN
      OBVIOUS
    <2>7. Linked(w, Y)
      BY <2>6, SidesDecoded DEF Linked
    <2>8. PICK Z : Z = Y \ {<<e, a>>}
      OBVIOUS
    <2>9. x \in Cache(D) /\ Shaped(x, D, F) /\ (x.abort \/ Linked(x, Z))
      BY <1>7, <2>4, <2>7, <2>8, BbFetchKeeps
    <2>10. \A g \in Entries : x.pool[g].instr = w.pool[g].instr /\ (g # e => x.pool[g] = w.pool[g])
      BY <1>7, <2>4, BbFetchEntries
    <2>11. \A g \in Entries : u.pool[g].instr = x.pool[g].instr /\ (g # e => u.pool[g] = x.pool[g])
      BY <2>5, <2>9, BbFetchEntries
    <2>12. QED
      BY <1>9, <1>10, <1>12, <2>10, <2>11 DEF Settled, Jumps
  <1>13. CASE instr.kind \notin {"J", "B"}
    <2>1. PICK a \in BOOLEAN, b \in BOOLEAN : a /\ ~b
      OBVIOUS
    <2>2. PICK x : x = SetNext(w, e, a, e)
      OBVIOUS
    <2>3. u = SetNext(x, e, b, e)
      <3>1. u = SetNext(SetNext(w, e, TRUE, e), e, FALSE, e)
        BY <1>3, <1>6, <1>8, <1>13 DEF Link
      <3>2. QED
        BY <2>1, <2>2, <3>1
    <2>4. e \in Nodes
      BY Numbers
    <2>5. /\ x \in Cache(D) /\ NextOf(x, e, a) = e
          /\ \A n \in Nodes : n # e => x.pool[n] = w.pool[n]
      BY <1>7, <2>2, <2>4, SetNextOf
    <2>6. \A n \in Nodes : n # e => u.pool[n] = x.pool[n]
      BY <2>3, <2>4, <2>5, SetNextOf
    <2>7. \A c \in BOOLEAN : c # b => NextOf(u, e, c) = NextOf(x, e, c)
      BY <2>3, <2>4, <2>5, SetNextOf
    <2>8. a # b
      BY <2>1
    <2>9. NextOf(u, e, a) = e
      BY <2>5, <2>7, <2>8
    <2>10. Settled(u, e)
      BY <2>1, <2>9, Numbers DEF Settled, NextOf
    <2>11. \A g \in Entries : g # e => u.pool[g] = w.pool[g]
      BY <2>5, <2>6 DEF Nodes
    <2>12. QED
      BY <1>10, <2>10, <2>11 DEF Settled, Jumps
  <1>14. QED
    BY <1>11, <1>12, <1>13

\* Nothing is decoded after a flush.
LEMMA FlushNoJumps ==
    ASSUME NEW D, NEW t, t = tcache_flush(D)
    PROVE  /\ \A g \in Entries : ~Jumps(t, g)
           /\ \A pc \in D : \A g \in Entries : ~Jumps(tcache_bb_new(t, pc), g)
  <1>1. /\ t \in Cache(D) /\ t.free = TcacheSize + 1
        /\ \A n \in Nodes : ~IsDecoded(t, n)
    BY FlushOf
  <1>2. \A n \in Nodes : ~Jumps(t, n)
    BY <1>1 DEF IsDecoded, Jumps, NotDecoded
  <1>3. ASSUME NEW pc \in D, NEW g \in Entries PROVE ~Jumps(tcache_bb_new(t, pc), g)
    <2>1. PICK u : u = tcache_bb_new(t, pc)
      OBVIOUS
    <2>2. t.free # Null /\ g # t.free /\ g \in Nodes
      BY <1>1, Numbers
    <2>3. u.pool[g] = t.pool[g]
      BY <1>1, <2>1, <2>2, BbNewOf
    <2>4. QED
      BY <1>2, <2>1, <2>2, <2>3 DEF Jumps
  <1>4. QED
    BY <1>2, <1>3, Numbers

LEMMA FullWaits ==
    ASSUME TypeInv, ~tc.abort, Full
    PROVE  JumpInv'
  <1>1. Pc \in Dom /\ DOMAIN code = Dom
    BY RunFacts
  <1>2. PICK t : t = tcache_flush(Dom)
    OBVIOUS
  <1>3. tc' = tcache_bb_new(t, Pc)
    BY <1>1, <1>2 DEF Full
  <1>4. \A g \in Entries : ~Jumps(tc', g)
    BY <1>1, <1>2, <1>3, FlushNoJumps
  <1>5. QED
    BY <1>4 DEF JumpInv, OneWaits, WaitsFor, Jumps

LEMMA InitWaits == Init => JumpInv
  <1> SUFFICES ASSUME Init PROVE JumpInv
    OBVIOUS
  <1>1. Dom = DOMAIN code /\ program.start \in Dom
    BY InitTyped, ProgramFacts DEF TypeInv
  <1>2. PICK t : t = tcache_flush(Dom)
    OBVIOUS
  <1>3. tc = tcache_bb_new(t, program.start)
    BY <1>1, <1>2 DEF Init
  <1>4. \A g \in Entries : ~Jumps(tc, g)
    BY <1>1, <1>2, <1>3, FlushNoJumps
  <1>5. QED
    BY <1>4 DEF JumpInv, OneWaits, WaitsFor, Jumps

\* When an entry runs no jump leads to a record.
LEMMA EntryRuns ==
    ASSUME OneWaits(tc, s), s \in Entries
    PROVE  \A g \in Entries : Settled(tc, g)
  BY Numbers DEF OneWaits, WaitsFor, Settled

\* When no jump leads to a record it does not matter what runs next.
LEMMA SettledWaits ==
    ASSUME NEW t, \A g \in Entries : Settled(t, g), NEW r
    PROVE  OneWaits(t, r)
  BY DEF Settled, OneWaits, WaitsFor

LEMMA FoundWaits ==
    ASSUME TypeInv, LinkInv, OneWaits(tc, Current), DecodeFound
    PROVE  OneWaits(tc', Current')
  <1>1. ~tc.abort /\ ~Decoded /\ tcache_state = "RUNNING" /\ Current = s
    BY DEF TypeInv, DecodeFound, Current
  <1>2. s \in Records /\ Pc \in Dom
    BY <1>1, RunFacts, UndecodedFacts
  <1>3. PICK now : now = tc.bb[Pc] /\ now # Null
    BY DEF DecodeFound
  <1>4. now \in Entries
    BY <1>1, <1>2, <1>3, RunFacts DEF Shaped, Complete
  <1>5. PICK u : u = tc'
    OBVIOUS
  <1>6. u = tcache_patch_and_free(tc, s, now)
    BY <1>3, <1>5 DEF DecodeFound
  <1>7. /\ tc \in Cache(Dom) /\ Shaped(tc, Dom, seen) /\ Linear(tc) /\ Kept(tc, {})
    BY <1>1, RunFacts, LinkFacts
  <1>8. ASSUME NEW g \in Entries PROVE Settled(u, g)
    <2>1. WaitsFor(tc, g, s)
      BY <1>1 DEF OneWaits
    <2>2. Jumps(tc, g) => LinkKept(tc, g, TRUE)
      BY <1>7 DEF Kept, Jumps, Sides
    <2>3. QED
      BY <1>2, <1>4, <1>6, <1>7, <2>1, <2>2, PatchSettles
  <1>9. QED
    BY <1>5, <1>8, SettledWaits

LEMMA FenceWaits ==
    ASSUME TypeInv, ExecFence
    PROVE  OneWaits(tc', Current')
  <1>1. ~tc.abort /\ Decoded /\ tc.pool[s].instr.kind = "F"
    BY DEF TypeInv, ExecFence, Executes
  <1>2. -1 \notin Dom /\ DOMAIN code = Dom
    BY <1>1, RunFacts
  <1>3. PICK q \in Dom : q = Pc + 1
    BY <1>1, DecodedFacts DEF GoesOn
  <1>4. PICK t, F : t = tcache_flush(Dom) /\ F = seen
    OBVIOUS
  <1>5. t \in Cache(Dom) /\ Shaped(t, Dom, F)
    BY <1>4, FlushShaped
  <1>6. PICK b \in BOOLEAN : b
    OBVIOUS
  <1>7. PICK e \in {Ex} \cup Entries : e = Ex
    OBVIOUS
  <1>8. PICK u : u = tc'
    OBVIOUS
  <1>9. u = tcache_bb_fetch(t, e, b, q)
    BY <1>2, <1>3, <1>4, <1>6, <1>7, <1>8 DEF ExecFence, HandleException
  <1>10. \A g \in Entries : u.pool[g].instr = t.pool[g].instr
    BY <1>2, <1>5, <1>9, BbFetchEntries
  <1>11. \A g \in Entries : ~Jumps(u, g)
    BY <1>4, <1>10, FlushNoJumps DEF Jumps
  <1>12. QED
    BY <1>8, <1>11 DEF OneWaits, WaitsFor

LEMMA SameCacheWaits ==
    ASSUME TypeInv, ~tc.abort, OneWaits(tc, Current), ExecNormal \/ Resume \/ ExecBranch
    PROVE  OneWaits(tc', Current')
  <1>1. tc' = tc /\ UNCHANGED buildVars
    BY DEF ExecNormal, Resume, ExecBranch
  <1>2. CASE tcache_state = "BUILDING" \/ Resume
    <2>1. Current' = Current
      <3>1. CASE Resume
        BY <1>1, <3>1 DEF Resume, buildVars, Current
      <3>2. CASE tcache_state = "BUILDING"
        BY <1>1, <3>2 DEF buildVars, Current
      <3>3. QED
        BY <1>2, <3>1, <3>2
    <2>2. QED
      BY <1>1, <2>1
  <1>3. CASE tcache_state # "BUILDING" /\ ~Resume
    <2>1. Decoded /\ Current = s
      BY <1>3 DEF ExecNormal, ExecBranch, Executes, Current
    <2>2. s \in Entries
      BY <2>1, DecodedFacts
    <2>3. \A g \in Entries : Settled(tc, g)
      BY <2>1, <2>2, EntryRuns
    <2>4. QED
      BY <1>1, <2>3, SettledWaits
  <1>4. QED
    BY <1>2, <1>3

LEMMA JrWaits ==
    ASSUME TypeInv, OneWaits(tc, Current), ExecJr
    PROVE  OneWaits(tc', Current')
  <1>1. /\ ~tc.abort /\ Decoded /\ Executes({"I", "X"}) /\ UNCHANGED buildVars
    BY DEF TypeInv, ExecJr, Executes
  <1>2. /\ tcache_state = "RUNNING" /\ s \in Entries /\ Linked(tc, {}) /\ Ends(tc, s)
        /\ tc \in Cache(Dom) /\ Shaped(tc, Dom, seen) /\ -1 \notin Dom
    BY <1>1, EndsRunning, DecodedFacts, RunFacts DEF Executes
  <1>3. Current = s /\ Current' = s'
    BY <1>1, <1>2 DEF Current, buildVars
  <1>4. \A g \in Entries : Settled(tc, g)
    BY <1>2, <1>3, EntryRuns
  <1>5. PICK target \in Dom :
           \/ tc' = tc
           \/ \E b \in BOOLEAN, c \in BOOLEAN : \E v :
                /\ b /\ ~c
                /\ v = SetNext(tc, s, c, NextOf(tc, s, b))
                /\ tc' = tcache_bb_fetch(v, s, b, target) /\ s' = NextOf(tc', s, b)
    BY JrCases
  <1>6. CASE tc' = tc
    BY <1>4, <1>6, SettledWaits
  <1>7. ASSUME NEW b \in BOOLEAN, NEW c \in BOOLEAN, NEW v, b /\ ~c,
               v = SetNext(tc, s, c, NextOf(tc, s, b)),
               tc' = tcache_bb_fetch(v, s, b, target), s' = NextOf(tc', s, b)
        PROVE  OneWaits(tc', Current')
    <2>1. PICK x : x = NextOf(tc, s, b)
      OBVIOUS
    <2>2. Target(tc, x) /\ x \in Nodes
      <3>1. Sides(tc.pool[s].instr) = BOOLEAN
        BY <1>1 DEF Executes, Sides
      <3>2. QED
        BY <1>2, <2>1, <3>1 DEF Linked, Target
    <2>3. PICK X : X = {}
      OBVIOUS
    <2>4. PICK Y : Y = X \ {<<s, c>>}
      OBVIOUS
    <2>5. v = SetNext(tc, s, c, x) /\ Linked(tc, X)
      BY <1>2, <1>7, <2>1, <2>3
    <2>6. v \in Cache(Dom) /\ Shaped(v, Dom, seen)
      BY <1>2, <2>2, <2>4, <2>5, SetNextKeeps
    <2>7. \A n \in Nodes : n # s => v.pool[n] = tc.pool[n]
      BY <1>2, <2>2, <2>5, SetNextOf
    <2>8. PICK u : u = tc'
      OBVIOUS
    <2>9. u = tcache_bb_fetch(v, s, b, target)
      BY <1>7, <2>8
    <2>10. PICK e \in {Ex} \cup Entries : e = s
      BY <1>2
    <2>11. u = tcache_bb_fetch(v, e, b, target)
      BY <2>9, <2>10
    <2>12. \A g \in Entries : u.pool[g].instr = v.pool[g].instr /\ (g # e => u.pool[g] = v.pool[g])
      BY <1>2, <2>6, <2>11, BbFetchEntries
    <2>13. ASSUME NEW g \in Entries PROVE WaitsFor(u, g, s')
      <3>1. CASE g = s
        BY <1>7, <2>8, <3>1 DEF WaitsFor, NextOf
      <3>2. CASE g # s
        <4>1. g \in Nodes
          BY Numbers
        <4>2. u.pool[g] = tc.pool[g]
          BY <2>7, <2>10, <2>12, <3>2, <4>1
        <4>3. QED
          BY <1>4, <4>2 DEF Settled, WaitsFor, Jumps
      <3>3. QED
        BY <3>1, <3>2
    <2>14. QED
      BY <1>3, <2>8, <2>13 DEF OneWaits
  <1>8. QED
    BY <1>5, <1>6, <1>7

LEMMA FetchDecodeWaits ==
    ASSUME TypeInv, ~tc.abort, NEW t \in Cache(Dom), Shaped(t, Dom, seen), Linked(t, {}), ~t.abort,
           NEW e \in Entries, e = t.tc_idx, ~IsDecoded(t, e), NEW p \in Dom, p = t.pool[e].pc,
           NEW now \in Entries, now <= e, NEW q \in Dom, q = t.pool[now].pc,
           \A g \in Entries : now <= g /\ g < e => IsDecoded(t, g) /\ ~Ends(t, g),
           NEW old \in Records, OneWaits(t, old),
           Kept(t, {}), Linear(t), FetchDecode(t, e, now, old)
    PROVE  JumpInv'
  <1>1. SeenInv /\ -1 \notin Dom
    BY RunFacts
  <1>2. PICK instr : instr = code[p]
    OBVIOUS
  <1>3. GoesOn(Dom, p, instr) /\ instr \in seen[p] /\ instr \in Instrs(Dom)
    BY <1>1, <1>2, ProgramFacts DEF GoesOn
  <1>4. PICK u : u = DecodedAs(t, e, instr)
    OBVIOUS
  <1>5. u = [t EXCEPT !.pool[e].instr = code[t.pool[e].pc]]
    BY <1>2, <1>4 DEF DecodedAs
  <1>6. /\ u \in Cache(Dom) /\ u.pool[e].instr = instr /\ u.pool[e].pc = p
        /\ u.abort = t.abort /\ u.tc_idx = t.tc_idx /\ u.free = t.free
    BY <1>3, <1>4, DecodedOf
  <1>7. \A n \in Nodes : n # e => u.pool[n] = t.pool[n]
    BY <1>3, <1>4, DecodedOf
  <1>8. u.pool[now].pc = q
    BY <1>6, <1>7, Numbers
  <1>9. PICK F, X : F = seen /\ X = {}
    OBVIOUS
  <1>10. Shaped(t, Dom, F) /\ Linked(t, X) /\ Kept(t, X) /\ instr \in F[p]
    BY <1>3, <1>9
  <1>11. CASE ~EndsBlock(instr) /\ HasRoom(u) /\ tc' = tcache_new(u, u.pool[e].pc + 1)
             /\ tcache_state' = "BUILDING" /\ bb_now_record' = old
    <2>1. PICK r \in Dom : r = p + 1
      <3>1. instr.kind \in {"N", "S", "U", "F"}
        BY <1>3, <1>11 DEF GoesOn, Instrs, Kinds, EndsBlock
      <3>2. QED
        BY <1>3, <3>1 DEF GoesOn
    <2>2. PICK v : v = tcache_new(u, r)
      OBVIOUS
    <2>3. tc' = v
      BY <1>6, <1>11, <2>1, <2>2
    <2>4. /\ v \in Cache(Dom)
          /\ u.tc_idx + 1 \in Entries /\ v.tc_idx = u.tc_idx + 1
          /\ v.pool[u.tc_idx + 1] = Fresh(r)
          /\ \A n \in Nodes : n # u.tc_idx + 1 => v.pool[n] = u.pool[n]
      BY <1>6, <1>11, <2>1, <2>2, NewOf
    <2>5. ASSUME NEW g \in Entries PROVE WaitsFor(v, g, old)
      <3>1. g \in Nodes
        BY Numbers
      <3>2. CASE g = u.tc_idx + 1
        BY <2>4, <3>2 DEF WaitsFor, Jumps, Fresh, NotDecoded
      <3>3. CASE g # u.tc_idx + 1 /\ g = e
        <4>1. v.pool[g] = u.pool[e]
          BY <2>4, <3>1, <3>3
        <4>2. QED
          BY <1>6, <1>11, <4>1 DEF WaitsFor, Jumps, EndsBlock
      <3>4. CASE g # u.tc_idx + 1 /\ g # e
        <4>1. v.pool[g] = t.pool[g] /\ WaitsFor(t, g, old)
          BY <1>7, <2>4, <3>1, <3>4 DEF OneWaits
        <4>2. QED
          BY <4>1 DEF WaitsFor, Jumps
      <3>5. QED
        BY <3>2, <3>3, <3>4
    <2>6. QED
      BY <1>11, <2>3, <2>5 DEF JumpInv, OneWaits, Current
  <1>12. CASE EndsBlock(instr) /\ ~bb_full(u, u.pool[now].pc) /\ tc' = Link(u, e, now, old)
    <2>1. e <= t.tc_idx
      BY Numbers
    <2>2. /\ Shaped(u, Dom, F) /\ Grows(t, u) /\ Linked(u, {e} \X BOOLEAN)
          /\ Ends(u, e) /\ IsDecoded(u, e)
      BY <1>1, <1>3, <1>4, <1>9, <1>10, <1>12, <2>1, DecodeEndKeeps
    <2>3. \E Z : Z = {e} /\ Makes(t, u, Z, F)
      BY <1>1, <1>3, <1>4, <1>9, <1>10, <1>12, <2>1, DecodeEndKeeps
    <2>4. PICK Z : Z = {e} /\ Makes(t, u, Z, F)
      BY <2>3
    <2>5. Kept(u, X \cup (Z \X BOOLEAN)) /\ Linear(u)
      BY <1>6, <1>10, <2>2, <2>4, EntriesKept
    <2>6. Kept(u, {e} \X BOOLEAN)
      BY <1>9, <2>4, <2>5
    <2>7. Complete(u, now)
      <3>1. ASSUME NEW g \in Entries, now <= g, g <= e PROVE IsDecoded(u, g)
        <4>1. CASE g = e
          BY <2>2, <4>1
        <4>2. CASE g # e
          <5>1. g < e
            BY <3>1, <4>2, Numbers
          <5>2. IsDecoded(t, g)
            BY <3>1, <5>1
          <5>3. QED
            BY <2>2, <5>2 DEF Grows, IsDecoded
        <4>3. QED
          BY <4>1, <4>2
      <3>2. QED
        BY <2>2, <3>1 DEF Complete
    <2>8. PICK v : v = Link(u, e, now, old) /\ v = tc'
      BY <1>12
    <2>9. ~u.abort /\ GoesOn(Dom, p, u.pool[e].instr)
      BY <1>3, <1>6
    <2>10. \A g \in Entries : g # e => WaitsFor(u, g, old)
      BY <1>7, Numbers DEF OneWaits, WaitsFor, Jumps
    <2>11. \A g \in Entries : Settled(v, g)
      BY <1>1, <1>6, <1>8, <1>12, <2>2, <2>5, <2>6, <2>7, <2>8, <2>9, <2>10, EndSettles
    <2>12. QED
      BY <2>8, <2>11, SettledWaits DEF JumpInv
  <1>13. CASE Full
    BY <1>13, FullWaits
  <1>14. QED
    BY <1>2, <1>5, <1>6, <1>11, <1>12, <1>13 DEF FetchDecode

LEMMA FirstWaits ==
    ASSUME TypeInv, LinkInv, Undisturbed(program), OneWaits(tc, Current), DecodeFirst
    PROVE  JumpInv'
  <1>1. ~tc.abort /\ ~Decoded /\ tcache_state = "RUNNING" /\ Current = s
    BY DEF TypeInv, DecodeFirst, Current
  <1>2. s \in Records /\ Pc \in Dom /\ -1 \notin Dom
    BY <1>1, RunFacts, UndecodedFacts
  <1>3. CASE Full
    BY <1>1, <1>3, FullWaits
  <1>4. CASE HasRoom(tc) /\ LET t == tcache_new(tc, Pc)
                                e == t.tc_idx
                            IN  FetchDecode(t, e, e, s)
    <2>1. PICK t : t = tcache_new(tc, Pc)
      OBVIOUS
    <2>2. PICK e : e = t.tc_idx
      OBVIOUS
    <2>3. PICK X : X = {}
      OBVIOUS
    <2>4. PICK F : F = seen
      OBVIOUS
    <2>5. /\ tc \in Cache(Dom) /\ Shaped(tc, Dom, F) /\ Linked(tc, X)
          /\ Linear(tc) /\ Kept(tc, X)
      BY <1>1, <2>3, <2>4, RunFacts, LinkFacts
    <2>6. t \in Cache(Dom) /\ Shaped(t, Dom, F) /\ Linked(t, X) /\ ~IsDecoded(t, e)
      BY <1>2, <1>4, <2>1, <2>2, <2>5, NewKeeps
    <2>7. /\ e \in Entries /\ t.pool[e] = Fresh(Pc) /\ t.abort = tc.abort /\ t.free = tc.free
          /\ \A n \in Nodes : n # e => t.pool[n] = tc.pool[n]
      BY <1>2, <1>4, <2>1, <2>2, <2>5, NewOf
    <2>8. PICK Z : Makes(tc, t, Z, F) /\ \A z \in Z : ~Ends(t, z)
      BY <1>2, <1>4, <2>1, <2>5, NewMakes
    <2>9. Kept(t, X \cup (Z \X BOOLEAN)) /\ Linear(t)
      BY <2>5, <2>6, <2>7, <2>8, EntriesKept
    <2>10. Kept(t, X)
      BY <2>8, <2>9, KeptUnended
    <2>11. PICK p \in Dom : p = Pc /\ p = t.pool[e].pc
      BY <1>2, <2>7 DEF Fresh
    <2>12. OneWaits(t, s)
      <3> SUFFICES ASSUME NEW g \in Entries PROVE WaitsFor(t, g, s)
        BY DEF OneWaits
      <3>1. CASE g = e
        BY <2>7, <3>1 DEF WaitsFor, Jumps, Fresh, NotDecoded
      <3>2. CASE g # e
        <4>1. t.pool[g] = tc.pool[g] /\ WaitsFor(tc, g, s)
          BY <1>1, <2>7, <3>2, Numbers DEF OneWaits
        <4>2. QED
          BY <4>1 DEF WaitsFor, Jumps
      <3>3. QED
        BY <3>1, <3>2
    <2>13. /\ t \in Cache(Dom) /\ Shaped(t, Dom, seen) /\ Linked(t, {}) /\ ~t.abort
           /\ Kept(t, {}) /\ Linear(t)
      BY <1>1, <2>3, <2>4, <2>6, <2>7, <2>9, <2>10
    <2>14. FetchDecode(t, e, e, s)
      BY <1>4, <2>1, <2>2
    <2>15. e <= e /\ \A g \in Entries : ~(e <= g /\ g < e)
      BY <2>7, Numbers
    <2>16. QED
      BY <1>1, <1>2, <2>2, <2>6, <2>7, <2>11, <2>12, <2>13, <2>14, <2>15, FetchDecodeWaits
  <1>5. QED
    BY <1>3, <1>4 DEF DecodeFirst, FetchFault, Undisturbed

LEMMA NextWaits ==
    ASSUME TypeInv, LinkInv, Undisturbed(program), OneWaits(tc, Current), DecodeNext
    PROVE  JumpInv'
  <1>1. ~tc.abort /\ ~Decoded /\ tcache_state = "BUILDING" /\ Current = bb_now_record
    BY DEF TypeInv, DecodeNext, Current
  <1>2. s = tc.tc_idx /\ s \in Entries /\ ~IsDecoded(tc, s)
    BY <1>1, UndecodedFacts DEF Decoded, IsDecoded
  <1>3. /\ tc \in Cache(Dom) /\ Shaped(tc, Dom, seen) /\ Linked(tc, {}) /\ Building
        /\ Linear(tc) /\ Kept(tc, {})
    BY <1>1, RunFacts, LinkFacts DEF RunInv
  <1>4. FetchDecode(tc, s, bb_now, bb_now_record)
    BY DEF DecodeNext, FetchFault, Undisturbed
  <1>5. PICK p \in Dom : p = tc.pool[s].pc
    BY <1>1, RunFacts DEF Pc
  <1>6. bb_now \in Entries /\ bb_now_record \in Records /\ bb_now <= s
    BY <1>2, <1>3, Numbers DEF Building
  <1>7. \A g \in Entries : bb_now <= g /\ g < s => IsDecoded(tc, g) /\ ~Ends(tc, g)
    BY <1>2, <1>3 DEF Building
  <1>8. IsDecoded(tc, bb_now)
    <2>1. bb_now <= bb_now /\ bb_now < s
      BY <1>2, <1>3, <1>6, Numbers DEF Building
    <2>2. QED
      BY <1>6, <1>7, <2>1
  <1>9. PICK q \in Dom : q = tc.pool[bb_now].pc
    BY <1>3, <1>6, <1>8, NodeFields, Numbers DEF Shaped, Follows
  <1>10. QED
    BY <1>1, <1>2, <1>3, <1>4, <1>5, <1>6, <1>7, <1>9, FetchDecodeWaits

LEMMA StepWaits == TypeInv /\ LinkInv /\ JumpInv /\ [Next]_vars => JumpInv'
  <1> SUFFICES ASSUME TypeInv, LinkInv, JumpInv, [Next]_vars PROVE JumpInv'
    OBVIOUS
  <1>1. CASE UNCHANGED vars
    BY <1>1 DEF vars, buildVars, memVars, JumpInv, Current
  <1>2. CASE Next
    <2>1. program' = program /\ ~tc.abort
      BY <1>2 DEF Next, DecodeFound, DecodeFirst, DecodeNext, FetchDecode, FetchFault, Full,
                  ExecNormal, ExecFault, ExecBranch, ExecJr, ExecFence, Executes, Interrupt,
                  Resume, memVars, TypeInv
    <2>2. SUFFICES ASSUME Undisturbed(program), ~tc'.abort PROVE JumpInv'
      BY <2>1 DEF JumpInv
    <2>3. OneWaits(tc, Current)
      BY <2>1, <2>2 DEF JumpInv
    <2>4. ~ExecFault /\ ~Interrupt
      BY <2>2 DEF Undisturbed, ExecFault, Interrupt
    <2>5. CASE DecodeFirst
      BY <2>2, <2>3, <2>5, FirstWaits
    <2>6. CASE DecodeNext
      BY <2>2, <2>3, <2>6, NextWaits
    <2>7. CASE ~DecodeFirst /\ ~DecodeNext
      <3>1. OneWaits(tc', Current')
        BY <1>2, <2>1, <2>3, <2>4, <2>7, FoundWaits, SameCacheWaits, JrWaits, FenceWaits DEF Next
      <3>2. QED
        BY <3>1 DEF JumpInv
    <2>8. QED
      BY <2>5, <2>6, <2>7
  <1>3. QED
    BY <1>1, <1>2

\* An indirect jump that runs again leads to a block.
LEMMA LinksNotMoved ==
    ASSUME TypeInv, JumpInv, Undisturbed(program) \/ Direct(program)
    PROVE  ~MovesRecord
  <1> SUFFICES ASSUME MovesRecord PROVE FALSE
    OBVIOUS
  <1>1. /\ ~tc.abort /\ Decoded /\ Executes({"I", "X"}) /\ Jumps(tc, s)
        /\ tc.pool[s].tnext \in Records
    BY DEF TypeInv, MovesRecord, Executes, Jumps
  <1>2. s \in Entries /\ tcache_state = "RUNNING"
    BY <1>1, EndsRunning, DecodedFacts DEF Executes
  <1>3. CASE Undisturbed(program)
    <2>1. OneWaits(tc, s)
      BY <1>1, <1>2, <1>3 DEF JumpInv, Current
    <2>2. QED
      BY <1>1, <1>2, <2>1, EntryRuns DEF Settled
  <1>4. CASE Direct(program)
    <2>1. tc.pool[s].instr \in seen[Pc] /\ Pc \in Dom
      BY <1>1, DecodedFacts, RunFacts
    <2>2. tc.pool[s].instr \in Possible(program, Pc)
      BY <2>1 DEF TypeInv, SeenInv
    <2>3. QED
      BY <1>1, <1>4, <2>1, <2>2 DEF Direct, Jumps, Dom
  <1>5. QED
    BY <1>3, <1>4

\* Without an interrupt and a fault, or without indirect jumps, no link to a
\* record is moved, so the trace cache is what it promises to be: no record is
\* freed twice, none runs when it is free, and the cache implements the plain
\* interpreter.
THEOREM PlainPrograms ==
    ASSUME \A P \in Programs : Undisturbed(P) \/ Direct(P)
    PROVE  Spec => []FreeListEnds /\ []InUse /\ ImplementsInterpreter
  <1>1. Init => TypeInv /\ LinkInv /\ JumpInv
    BY InitTyped, InitLinked, InitWaits
  <1>2. TypeInv /\ [Next]_vars => TypeInv'
    BY StepTyped
  <1>3. TypeInv /\ JumpInv => ~MovesRecord
    <2>1. TypeInv => Undisturbed(program) \/ Direct(program)
      BY DEF TypeInv, SeenInv
    <2>2. QED
      BY <2>1, LinksNotMoved
  <1>4. TypeInv /\ LinkInv /\ JumpInv /\ [Next]_vars => LinkInv' /\ JumpInv' /\ [~MovesRecord]_vars
    BY <1>3, StepLinked, StepWaits
  <1>5. Spec => [][~MovesRecord]_vars
    BY <1>1, <1>2, <1>4, PTL DEF Spec
  <1>6. QED
    BY <1>5, FreeListAlwaysEnds, RecordsInUse, Implements, PTL

----------------------------------------------------------------------------
(* How many records are in use.                                             *)

\* The buckets of bb_list in use. The first block of a bucket is kept in
\* bb_list, the others take a node of bb_pool each.
UsedBuckets(t) == {p % BBListSize : p \in {q \in DOMAIN t.bb : t.bb[q] # Null}}

Blocks(t) == t.bb_idx + Cardinality(UsedBuckets(t))

Used(t) == Cardinality(Records \ FreeOf(t))

\* A branch that ended its block and did not run yet may be linked to two
\* records.
Ahead ==
    /\ s \in Entries /\ tc.pool[s].instr.kind = "B"
    /\ tc.pool[s].tnext \in Records /\ tc.pool[s].ntnext \in Records

Slack == IF s \in Records \/ tcache_state = "BUILDING" \/ Ahead THEN 1 ELSE 0

\* There is one record in use for every block that was inserted, and one for the
\* block that is looked for or built.
Counted == ~tc.abort /\ Used(tc) <= Blocks(tc) + Slack

CountInv == Undisturbed(program) => Counted

EnoughRecords == NumRecords > BBListSize + BBPoolSize

\* A set of natural numbers that is not empty has a least element. A statement
\* about all of them is proved by the least one that would break it.
LEMMA Least ==
    ASSUME NEW G \in SUBSET Nat, G # {}
    PROVE  \E x \in G : \A y \in G : x <= y
  <1>1. PICK R : R = OpToRel(<, Nat) /\ IsWellFoundedOn(R, Nat)
    BY NatLessThanWellFounded
  <1>2. \A x \in Nat, y \in Nat : x < y => <<x, y>> \in R
    BY <1>1 DEF OpToRel
  <1>3. PICK x \in G : \A y \in G : <<y, x>> \notin R
    BY <1>1, WFMin
  <1>4. ASSUME NEW y \in G PROVE x <= y
    <2>1. <<y, x>> \notin R
      BY <1>3
    <2>2. x \in Nat /\ y \in Nat
      OBVIOUS
    <2>3. ~(y < x)
      BY <1>2, <2>1, <2>2
    <2>4. QED
      BY <2>2, <2>3
  <1>5. QED
    BY <1>4

\* After a flush every record is free.
LEMMA FlushFree ==
    ASSUME NEW D, NEW t, t = tcache_flush(D)
    PROVE  FreeOf(t) = Records
  <1>1. /\ \A r \in Records : t.pool[r].tnext = IF r + 1 \in Records THEN r + 1 ELSE Null
        /\ t.free = TcacheSize + 1
    BY FlushOf
  <1>2. ASSUME NEW F \in SUBSET Records, Closed(t, F) PROVE Records \subseteq F
    <2> SUFFICES ASSUME Records \ F # {} PROVE FALSE
      OBVIOUS
    <2>1. Records \ F \in SUBSET Nat
      BY TcacheAssumption DEF Records
    <2>2. PICK x \in Records \ F : \A y \in Records \ F : x <= y
      BY <2>1, Least
    <2>3. TcacheSize + 1 \in F
      BY <1>1, <1>2, Numbers DEF Closed
    <2>4. x - 1 \in Records /\ x \in Nat
      BY <2>2, <2>3, TcacheAssumption DEF Records
    <2>5. x - 1 \in F
      BY <2>2, <2>4
    <2>6. t.pool[x - 1].tnext = x
      BY <1>1, <2>2, <2>4
    <2>7. QED
      BY <1>2, <2>2, <2>5, <2>6, Numbers DEF Closed
  <1>3. QED
    BY <1>2 DEF FreeOf, Closed

LEMMA RecordsCount ==
    /\ IsFiniteSet(Records) /\ Cardinality(Records) = NumRecords
    /\ \A t : /\ IsFiniteSet(Records \ FreeOf(t))
              /\ Used(t) \in Nat /\ Used(t) <= NumRecords
  <1>1. IsFiniteSet(Records) /\ Cardinality(Records) = NumRecords
    BY FS_Interval, TcacheAssumption DEF Records
  <1>2. ASSUME NEW t
        PROVE  /\ IsFiniteSet(Records \ FreeOf(t))
               /\ Used(t) \in Nat /\ Used(t) <= NumRecords
    <2>1. Records \ FreeOf(t) \in SUBSET Records
      OBVIOUS
    <2>2. QED
      BY <1>1, <2>1, FS_Subset, FS_CardinalityType DEF Used
  <1>3. QED
    BY <1>1, <1>2

\* While not all records are in use the free list has a head.
LEMMA RecordLeft ==
    ASSUME NEW t, Used(t) < NumRecords
    PROVE  t.free # Null
  <1> SUFFICES ASSUME t.free = Null PROVE FALSE
    OBVIOUS
  <1>1. {} \in SUBSET Records /\ Closed(t, {})
    BY DEF Closed
  <1>2. Records \ FreeOf(t) = Records
    BY <1>1, FreeLeast
  <1>3. QED
    BY <1>2, RecordsCount DEF Used

LEMMA BlocksCount ==
    ASSUME NEW D \in SUBSET Nat, NEW t \in Cache(D)
    PROVE  /\ IsFiniteSet(UsedBuckets(t))
           /\ Blocks(t) \in Nat /\ Blocks(t) <= BBListSize + BBPoolSize
  <1>1. BBListSize \in Nat \ {0} /\ BBPoolSize \in Nat
    BY TcacheAssumption
  <1>2. t.bb_idx \in 0 .. BBPoolSize /\ DOMAIN t.bb = D
    BY Fields
  <1>3. UsedBuckets(t) \in SUBSET (0 .. BBListSize - 1)
    <2>1. \A p \in Nat : p % BBListSize \in 0 .. BBListSize - 1
      BY <1>1
    <2>2. QED
      BY <1>2, <2>1 DEF UsedBuckets
  <1>4. IsFiniteSet(0 .. BBListSize - 1) /\ Cardinality(0 .. BBListSize - 1) = BBListSize
    BY <1>1, FS_Interval
  <1>5. /\ IsFiniteSet(UsedBuckets(t)) /\ Cardinality(UsedBuckets(t)) <= BBListSize
        /\ Cardinality(UsedBuckets(t)) \in Nat
    BY <1>3, <1>4, FS_Subset, FS_CardinalityType
  <1>6. QED
    BY <1>1, <1>2, <1>5 DEF Blocks

\* Only bb_list counts.
LEMMA BlocksSame ==
    ASSUME NEW t, NEW u, u.bb = t.bb, u.bb_idx = t.bb_idx
    PROVE  Blocks(u) = Blocks(t)
  BY DEF Blocks, UsedBuckets

\* bb_insert makes one more block.
LEMMA InsertCounts ==
    ASSUME NEW D \in SUBSET Nat, NEW t \in Cache(D), NEW pc \in D, NEW now \in Entries,
           ~bb_full(t, pc), NEW u, u = bb_insert(t, pc, now)
    PROVE  Blocks(u) = Blocks(t) + 1
  <1>1. /\ u \in Cache(D) /\ u.bb = [t.bb EXCEPT ![pc] = now]
        /\ DOMAIN t.bb = D /\ DOMAIN u.bb = D /\ t.bb_idx \in Int
    BY InsertOf, Fields
  <1>2. PICK k : k = pc % BBListSize
    OBVIOUS
  <1>3. UsedBuckets(u) = UsedBuckets(t) \cup {k}
    <2>1. ASSUME NEW m \in UsedBuckets(u) PROVE m \in UsedBuckets(t) \cup {k}
      <3>1. PICK p \in D : m = p % BBListSize /\ u.bb[p] # Null
        BY <1>1 DEF UsedBuckets
      <3>2. CASE p = pc
        BY <1>2, <3>1, <3>2
      <3>3. CASE p # pc
        <4>1. t.bb[p] # Null
          BY <1>1, <3>1, <3>3
        <4>2. QED
          BY <1>1, <3>1, <4>1 DEF UsedBuckets
      <3>4. QED
        BY <3>2, <3>3
    <2>2. ASSUME NEW m \in UsedBuckets(t) PROVE m \in UsedBuckets(u)
      <3>1. PICK p \in D : m = p % BBListSize /\ t.bb[p] # Null
        BY <1>1 DEF UsedBuckets
      <3>2. u.bb[p] # Null
        BY <1>1, <3>1, Numbers
      <3>3. QED
        BY <1>1, <3>1, <3>2 DEF UsedBuckets
    <2>3. k \in UsedBuckets(u)
      <3>1. u.bb[pc] # Null
        BY <1>1, Numbers
      <3>2. QED
        BY <1>1, <1>2, <3>1 DEF UsedBuckets
    <2>4. QED
      BY <2>1, <2>2, <2>3
  <1>4. k \in UsedBuckets(t) <=> Bucket(t, pc) # {}
    BY <1>1, <1>2 DEF UsedBuckets, Bucket
  <1>5. /\ IsFiniteSet(UsedBuckets(t)) /\ Cardinality(UsedBuckets(t)) \in Nat
        /\ Cardinality(UsedBuckets(u)) =
              IF k \in UsedBuckets(t) THEN Cardinality(UsedBuckets(t))
              ELSE Cardinality(UsedBuckets(t)) + 1
    BY <1>3, BlocksCount, FS_AddElement, FS_CardinalityType
  <1>6. u.bb_idx = IF Bucket(t, pc) = {} THEN t.bb_idx ELSE t.bb_idx + 1
    BY DEF bb_insert, Cache
  <1>7. QED
    BY <1>1, <1>4, <1>5, <1>6 DEF Blocks

\* A record that is in use is freed: one less is.
LEMMA PatchCounts ==
    ASSUME NEW D, NEW F, NEW t \in Cache(D), Shaped(t, D, F), Linear(t),
           NEW r \in Records, r \notin FreeOf(t), NEW now \in Entries, t.pool[now].pc = t.pool[r].pc,
           NEW X, Kept(t, X), NEW u, u = tcache_patch_and_free(t, r, now)
    PROVE  Used(u) = Used(t) - 1 /\ Blocks(u) = Blocks(t)
  <1>1. FreeOf(u) = FreeOf(t) \cup {r}
    BY PatchKept
  <1>2. Records \ FreeOf(u) = (Records \ FreeOf(t)) \ {r}
    BY <1>1
  <1>3. Used(u) = Used(t) - 1
    BY <1>2, RecordsCount, FS_RemoveElement DEF Used
  <1>4. u.bb = t.bb /\ u.bb_idx = t.bb_idx
    BY DEF tcache_patch_and_free, tcache_bb_free, SetNext
  <1>5. QED
    BY <1>3, <1>4, BlocksSame

\* A link to what is not decoded takes a record, while there is one.
LEMMA FetchCounts ==
    ASSUME NEW D, NEW F, NEW t \in Cache(D), Shaped(t, D, F), -1 \notin D, NEW pc \in D,
           NEW e \in {Ex} \cup Entries, NEW b \in BOOLEAN, Linear(t), Used(t) < NumRecords,
           NEW u, u = tcache_bb_fetch(t, e, b, pc)
    PROVE  /\ u.abort = t.abort /\ Blocks(u) = Blocks(t)
           /\ Used(u) = Used(t) \/ (Used(u) = Used(t) + 1 /\ Fetched(t, pc) \in Records)
           /\ e \in Entries => NextOf(u, e, b) = Fetched(t, pc)
  <1>1. t.free # Null
    BY RecordLeft
  <1>2. CASE t.bb[pc] # Null /\ u = SetNext(t, e, b, t.bb[pc]) /\ Fetched(t, pc) = t.bb[pc]
    <2>1. t.bb[pc] \in Nodes
      BY <1>2, Fields, Numbers
    <2>2. FreeOf(u) = FreeOf(t)
      <3>1. PICK x \in Nodes : x = t.bb[pc]
        BY <2>1
      <3>2. u = SetNext(t, e, b, x) /\ e \in {Null, Ex} \cup Entries
        BY <1>2, <3>1
      <3>3. QED
        BY <3>2, SetNextSame
    <2>3. u.bb = t.bb /\ u.bb_idx = t.bb_idx /\ u.abort = t.abort
          /\ (e \in Entries => NextOf(u, e, b) = t.bb[pc])
      BY <1>2, <2>1, SetNextOf
    <2>4. QED
      BY <1>2, <2>2, <2>3, BlocksSame DEF Used
  <1>3. CASE Fetched(t, pc) = t.free /\ u = SetNext(Recorded(t, e, b, pc), e, b, t.free)
    <2>1. PICK v : v = Recorded(t, e, b, pc)
      OBVIOUS
    <2>2. /\ v \in Cache(D) /\ Shaped(v, D, F) /\ FreeOf(v) = FreeOf(t) \ {t.free}
          /\ t.free \in FreeOf(t) /\ t.free \in Records
      BY <1>1, <2>1, RecordedFree
    <2>3. v.bb = t.bb /\ v.bb_idx = t.bb_idx /\ v.abort = t.abort
      <3>1. t.pool[t.free].tnext \in {Null} \cup Records
        BY <2>2 DEF Shaped
      <3>2. QED
        BY <1>1, <2>1, <3>1, RecordedOf
    <2>4. t.free \in Nodes
      BY <2>2, Numbers
    <2>5. FreeOf(u) = FreeOf(v)
      <3>1. PICK x \in Nodes : x = t.free
        BY <2>4
      <3>2. u = SetNext(v, e, b, x) /\ e \in {Null, Ex} \cup Entries
        BY <1>3, <2>1, <3>1
      <3>3. QED
        BY <2>2, <3>2, SetNextSame
    <2>6. u.bb = v.bb /\ u.bb_idx = v.bb_idx /\ u.abort = v.abort
          /\ (e \in Entries => NextOf(u, e, b) = t.free)
      BY <1>3, <2>1, <2>2, <2>4, SetNextOf
    <2>7. Records \ FreeOf(u) = (Records \ FreeOf(t)) \cup {t.free}
      BY <2>2, <2>5
    <2>8. Used(u) = Used(t) + 1
      BY <2>2, <2>7, RecordsCount, FS_AddElement DEF Used
    <2>9. QED
      BY <1>3, <2>2, <2>3, <2>6, <2>8, BlocksSame
  <1>4. QED
    BY <1>1, <1>2, <1>3, BbFetchCases

\* The first record after a flush.
LEMMA FlushCounts ==
    ASSUME NEW D, -1 \notin D, NEW pc \in D, NEW u, u = tcache_bb_new(tcache_flush(D), pc)
    PROVE  ~u.abort /\ Used(u) = 1
  <1>1. PICK t : t = tcache_flush(D)
    OBVIOUS
  <1>2. PICK F : F = {}
    OBVIOUS
  <1>3. t \in Cache(D) /\ Shaped(t, D, F) /\ Linear(t) /\ t.free = TcacheSize + 1 /\ t.free # Null
        /\ ~t.abort
    BY <1>1, FlushShaped, FlushKept, Numbers
  <1>4. t.pool[t.free].tnext \in {Null} \cup Records /\ t.free \in Records
    BY <1>3, Numbers DEF Shaped
  <1>5. /\ u.abort = t.abort /\ u.free = t.pool[t.free].tnext
        /\ \A r \in Records : r # t.free => u.pool[r].tnext = t.pool[r].tnext
    BY <1>1, <1>3, <1>4, BbNewOf, Numbers
  <1>6. Closed(t, Records)
    BY <1>3, ListTyped
  <1>7. u.pool[t.free].tnext = Null
    <2>1. u.pool[t.free] = Fresh(pc)
      BY <1>1, <1>3, BbNewOf
    <2>2. QED
      BY <2>1 DEF Fresh
  <1>8. Closed(u, Records)
    BY <1>4, <1>5, <1>6, <1>7 DEF Closed
  <1>9. FreeOf(u) = FreeOf(t) \ {t.free}
    BY <1>3, <1>5, <1>6, <1>8, FreePop
  <1>10. Records \ FreeOf(u) = {TcacheSize + 1}
    BY <1>1, <1>3, <1>4, <1>9, FlushFree
  <1>11. QED
    BY <1>3, <1>5, <1>10, FS_Singleton DEF Used

\* The end of a block that is inserted leaves no more records in use than there
\* are blocks, but where both sides of a branch took one.
LEMMA EndCounts ==
    ASSUME NEW D \in SUBSET Nat, -1 \notin D, NEW F, NEW t \in Cache(D), Shaped(t, D, F), ~t.abort,
           NEW e \in Entries, Ends(t, e), NEW p, p = t.pool[e].pc, GoesOn(D, p, t.pool[e].instr),
           NEW now, Complete(t, now), NEW pc \in D, pc = t.pool[now].pc, ~bb_full(t, pc),
           NEW old \in Records, old \notin FreeOf(t), t.pool[old].pc = pc,
           Linked(t, {e} \X BOOLEAN), Kept(t, {e} \X BOOLEAN), Linear(t),
           EnoughRecords, Used(t) <= Blocks(t) + 1,
           NEW u, u = Link(t, e, now, old)
    PROVE  /\ ~u.abort
           /\ \/ Used(u) <= Blocks(u)
              \/ /\ Used(u) <= Blocks(u) + 1 /\ t.pool[e].instr.kind = "B"
                 /\ u.pool[e].tnext \in Records /\ u.pool[e].ntnext \in Records
  <1>1. now \in Entries /\ now \in Nodes /\ pc # -1 /\ Target(t, now)
    BY Numbers DEF Complete, Target
  <1>2. PICK X : X = {e} \X BOOLEAN
    OBVIOUS
  <1>3. PICK v : v = bb_insert(t, pc, now)
    OBVIOUS
  <1>4. /\ v \in Cache(D) /\ Shaped(v, D, F) /\ Grows(t, v) /\ Linked(v, X) /\ v.abort = t.abort
        /\ v.pool = t.pool /\ v.free = t.free
    BY <1>2, <1>3, InsertKeeps
  <1>5. Kept(v, X) /\ Linear(v) /\ FreeOf(v) = FreeOf(t)
    BY <1>2, <1>4, InsertKept
  <1>6. PICK w : w = tcache_patch_and_free(v, old, now)
    OBVIOUS
  <1>7. w \in Cache(D) /\ Shaped(w, D, F) /\ Linked(w, X) /\ w.abort = v.abort /\ SameCode(v, w)
    <2>1. Target(v, now)
      BY <1>1, <1>4, GrowsKeeps
    <2>2. QED
      BY <1>1, <1>4, <1>6, <2>1, PatchKeeps
  <1>8. Linear(w) /\ Used(w) = Used(v) - 1 /\ Blocks(w) = Blocks(v)
    <2>1. old \notin FreeOf(v) /\ v.pool[now].pc = v.pool[old].pc
      BY <1>4, <1>5
    <2>2. Linear(w)
      BY <1>1, <1>4, <1>5, <1>6, <2>1, PatchKept
    <2>3. Used(w) = Used(v) - 1 /\ Blocks(w) = Blocks(v)
      BY <1>1, <1>4, <1>5, <1>6, <2>1, PatchCounts
    <2>4. QED
      BY <2>2, <2>3
  <1>9. Used(w) + 1 <= Blocks(w)
    <2>1. Used(v) = Used(t)
      BY <1>5 DEF Used
    <2>2. Blocks(v) = Blocks(t) + 1
      BY <1>1, <1>3, InsertCounts
    <2>3. Used(t) \in Nat /\ Blocks(t) \in Nat
      BY RecordsCount, BlocksCount
    <2>4. QED
      BY <1>8, <2>1, <2>2, <2>3
  <1>10. /\ Used(w) \in Nat /\ Blocks(w) \in Nat /\ Used(w) + 1 < NumRecords
         /\ NumRecords \in Nat
    <2>1. BBListSize \in Nat /\ BBPoolSize \in Nat /\ NumRecords \in Nat
      BY TcacheAssumption
    <2>2. Used(w) \in Nat /\ Blocks(w) \in Nat /\ Blocks(w) <= BBListSize + BBPoolSize
      BY <1>7, RecordsCount, BlocksCount
    <2>3. QED
      BY <1>9, <2>1, <2>2 DEF EnoughRecords
  <1>11. PICK instr : instr = t.pool[e].instr
    OBVIOUS
  <1>12. w.pool[e].instr = instr /\ w.pool[e].pc = p /\ ~w.abort
    BY <1>4, <1>7, <1>11, Numbers DEF SameCode
  <1>13. CASE instr.kind = "J"
    <2>1. PICK q \in D : u = tcache_bb_fetch(w, e, TRUE, q)
      <3>1. (CHOOSE q \in instr.to : TRUE) \in D
        BY <1>11, <1>13 DEF GoesOn, Instrs
      <3>2. u = tcache_bb_fetch(w, e, TRUE, CHOOSE q \in instr.to : TRUE)
        BY <1>3, <1>6, <1>11, <1>13 DEF Link
      <3>3. QED
        BY <3>1, <3>2
    <2>2. PICK b \in BOOLEAN : b
      OBVIOUS
    <2>3. u = tcache_bb_fetch(w, e, b, q)
      <3>1. b = TRUE
        BY <2>2
      <3>2. QED
        BY <2>1, <3>1
    <2>4. /\ u.abort = w.abort /\ Blocks(u) = Blocks(w)
          /\ Used(u) = Used(w) \/ Used(u) = Used(w) + 1
      <3>1. Used(w) < NumRecords
        BY <1>10
      <3>2. QED
        BY <1>7, <1>8, <2>3, <3>1, FetchCounts
    <2>5. QED
      BY <1>9, <1>10, <1>12, <2>4
  <1>14. CASE instr.kind = "B"
    <2>1. PICK a \in BOOLEAN, b \in BOOLEAN : a = TRUE /\ b = FALSE
      OBVIOUS
    <2>2. PICK r \in D : r = p + 1
      BY <1>11, <1>14 DEF GoesOn
    <2>3. PICK q \in D : u = tcache_bb_fetch(tcache_bb_fetch(w, e, TRUE, q), e, FALSE, p + 1)
      <3>1. (CHOOSE q \in instr.to : TRUE) \in D
        BY <1>11, <1>14 DEF GoesOn, Instrs
      <3>2. u = tcache_bb_fetch(tcache_bb_fetch(w, e, TRUE, CHOOSE q \in instr.to : TRUE),
                                e, FALSE, p + 1)
        BY <1>3, <1>6, <1>11, <1>14 DEF Link
      <3>3. QED
        BY <3>1, <3>2
    <2>4. PICK x : x = tcache_bb_fetch(w, e, a, q)
      OBVIOUS
    <2>5. u = tcache_bb_fetch(x, e, b, r)
      BY <2>1, <2>2, <2>3, <2>4
    <2>6. x \in Cache(D) /\ Shaped(x, D, F)
      BY <1>7, <1>12, <2>4, BbFetchKeeps
    <2>7. Linear(x)
      BY <1>7, <1>8, <2>4, BbFetchLinear
    <2>8. /\ x.abort = w.abort /\ Blocks(x) = Blocks(w)
          /\ Used(x) = Used(w) \/ (Used(x) = Used(w) + 1 /\ NextOf(x, e, a) \in Records)
      <3>1. Used(w) < NumRecords
        BY <1>10
      <3>2. QED
        BY <1>7, <1>8, <2>4, <3>1, FetchCounts
    <2>9. /\ u.abort = x.abort /\ Blocks(u) = Blocks(x)
          /\ Used(u) = Used(x) \/ (Used(u) = Used(x) + 1 /\ NextOf(u, e, b) \in Records)
      <3>1. Used(x) < NumRecords
        BY <1>10, <2>8
      <3>2. QED
        BY <2>5, <2>6, <2>7, <3>1, FetchCounts
    <2>10. NextOf(u, e, a) = NextOf(x, e, a)
      <3>1. a # b
        BY <2>1
      <3>2. QED
        BY <2>5, <2>6, <2>7, <3>1, BbFetchOther
    <2>11. u.pool[e].tnext = NextOf(x, e, a) /\ u.pool[e].ntnext = NextOf(u, e, b)
      BY <2>1, <2>10 DEF NextOf
    <2>12. QED
      BY <1>9, <1>10, <1>11, <1>12, <1>14, <2>8, <2>9, <2>11
  <1>15. CASE instr.kind \notin {"J", "B"}
    <2>1. PICK a \in BOOLEAN, b \in BOOLEAN : a = TRUE /\ b = FALSE
      OBVIOUS
    <2>2. PICK x : x = SetNext(w, e, a, e)
      OBVIOUS
    <2>3. u = SetNext(x, e, b, e)
      <3>1. u = SetNext(SetNext(w, e, TRUE, e), e, FALSE, e)
        BY <1>3, <1>6, <1>11, <1>15 DEF Link
      <3>2. QED
        BY <2>1, <2>2, <3>1
    <2>4. e \in Nodes /\ e \in {Null, Ex} \cup Entries
      BY Numbers
    <2>5. /\ FreeOf(x) = FreeOf(w) /\ x.bb = w.bb /\ x.bb_idx = w.bb_idx /\ x.abort = w.abort
          /\ x \in Cache(D) /\ SameBlocks(w, x)
      <3>1. FreeOf(x) = FreeOf(w) /\ \A n \in Records : x.pool[n] = w.pool[n]
        BY <1>7, <2>2, <2>4, SetNextSame
      <3>2. /\ x.bb = w.bb /\ x.bb_idx = w.bb_idx /\ x.abort = w.abort /\ x.tc_idx = w.tc_idx
            /\ x \in Cache(D)
            /\ \A n \in Nodes : x.pool[n].pc = w.pool[n].pc /\ x.pool[n].instr = w.pool[n].instr
        BY <1>7, <2>2, <2>4, SetNextOf
      <3>3. SameBlocks(w, x)
        BY <1>7, <3>1, <3>2, Numbers DEF SameBlocks, Shaped, IsDecoded
      <3>4. QED
        BY <3>1, <3>2, <3>3
    <2>6. Shaped(x, D, F)
      BY <1>7, <2>5, SameShaped
    <2>7. FreeOf(u) = FreeOf(x)
      BY <2>3, <2>4, <2>5, <2>6, SetNextSame
    <2>8. u.bb = x.bb /\ u.bb_idx = x.bb_idx /\ u.abort = x.abort
      BY <2>3, <2>4, <2>5, SetNextOf
    <2>9. Used(u) = Used(w) /\ Blocks(u) = Blocks(w)
      BY <2>5, <2>7, <2>8, BlocksSame DEF Used
    <2>10. QED
      BY <1>9, <1>10, <1>12, <2>5, <2>8, <2>9
  <1>16. QED
    BY <1>13, <1>14, <1>15

----------------------------------------------------------------------------
(* Every step of a program that nothing interrupts keeps the count.         *)

LEMMA CountedAfter ==
    ASSUME TypeInv', ~tc'.abort,
           \/ Used(tc') <= Blocks(tc')
           \/ /\ Used(tc') <= Blocks(tc') + 1
              /\ s' \in Records \/ tcache_state' = "BUILDING" \/ Ahead'
    PROVE  Counted'
  <1>1. PICK u : u = tc'
    OBVIOUS
  <1>2. PICK D \in SUBSET Nat : u \in Cache(D)
    <2>1. program' \in Programs /\ tc' \in Cache(Dom')
      BY DEF TypeInv, SeenInv
    <2>2. Dom' \in SUBSET Nat
      BY <2>1, ProgramsAssumption DEF Dom
    <2>3. QED
      BY <1>1, <2>1, <2>2
  <1>3. Used(u) \in Nat /\ Blocks(u) \in Nat
    BY <1>2, RecordsCount, BlocksCount
  <1>4. QED
    BY <1>1, <1>3 DEF Counted, Slack

LEMMA CountFacts ==
    ASSUME TypeInv, Counted
    PROVE  /\ Dom \in SUBSET Nat /\ tc \in Cache(Dom) /\ ~tc.abort
           /\ Used(tc) \in Nat /\ Blocks(tc) \in Nat
           /\ Used(tc) <= Blocks(tc) + 1
           /\ (s \in Entries /\ tcache_state = "RUNNING" /\ ~Ahead => Used(tc) <= Blocks(tc))
           /\ (EnoughRecords => Blocks(tc) < NumRecords)
           /\ NumRecords \in Nat
  <1>1. Dom \in SUBSET Nat /\ tc \in Cache(Dom) /\ ~tc.abort
    BY RunFacts, ProgramFacts DEF Counted
  <1>2. /\ Used(tc) \in Nat /\ Blocks(tc) \in Nat /\ Blocks(tc) <= BBListSize + BBPoolSize
        /\ BBListSize \in Nat /\ BBPoolSize \in Nat /\ NumRecords \in Nat
    BY <1>1, RecordsCount, BlocksCount, TcacheAssumption
  <1>3. Used(tc) <= Blocks(tc) + Slack
    BY DEF Counted
  <1>4. Slack \in {0, 1} /\ (s \in Entries /\ tcache_state = "RUNNING" /\ ~Ahead => Slack = 0)
    BY Numbers DEF Slack
  <1>5. QED
    BY <1>1, <1>2, <1>3, <1>4 DEF EnoughRecords

LEMMA FoundCounts ==
    ASSUME TypeInv, LinkInv, TypeInv', Counted, DecodeFound
    PROVE  Counted'
  <1>1. ~tc.abort /\ ~Decoded /\ tcache_state = "RUNNING"
    BY DEF TypeInv, DecodeFound
  <1>2. s \in Records /\ Pc \in Dom
    BY <1>1, RunFacts, UndecodedFacts
  <1>3. PICK now : now = tc.bb[Pc] /\ now # Null
    BY DEF DecodeFound
  <1>4. now \in Entries /\ tc.pool[now].pc = tc.pool[s].pc
    BY <1>1, <1>2, <1>3, RunFacts DEF Shaped, Complete, Pc
  <1>5. Target(tc, now)
    BY <1>1, <1>2, <1>3, <1>4, RunFacts, Numbers DEF Shaped, Target, Pc
  <1>6. PICK u, X : u = tc' /\ X = {}
    OBVIOUS
  <1>7. u = tcache_patch_and_free(tc, s, now)
    BY <1>3, <1>6 DEF DecodeFound
  <1>8. /\ tc \in Cache(Dom) /\ Shaped(tc, Dom, seen) /\ Linear(tc) /\ Kept(tc, X) /\ Linked(tc, X)
        /\ s \notin FreeOf(tc)
    BY <1>1, <1>6, RunFacts, LinkFacts
  <1>9. Used(u) = Used(tc) - 1 /\ Blocks(u) = Blocks(tc)
    BY <1>2, <1>4, <1>7, <1>8, PatchCounts
  <1>10. u.abort = tc.abort
    BY <1>2, <1>4, <1>5, <1>7, <1>8, PatchKeeps
  <1>11. Used(u) <= Blocks(u)
    BY <1>9, CountFacts
  <1>12. QED
    BY <1>1, <1>6, <1>10, <1>11, CountedAfter

LEMMA FullCounts ==
    ASSUME TypeInv, ~tc.abort, TypeInv', Full
    PROVE  Counted'
  <1>1. Pc \in Dom /\ -1 \notin Dom /\ DOMAIN code = Dom
    BY RunFacts
  <1>2. PICK u : u = tc'
    OBVIOUS
  <1>3. u = tcache_bb_new(tcache_flush(Dom), Pc) /\ s' \in Records
    BY <1>1, <1>2, Numbers DEF Full
  <1>4. ~u.abort /\ Used(u) = 1
    BY <1>1, <1>3, FlushCounts
  <1>5. PICK D \in SUBSET Nat : u \in Cache(D)
    <2>1. program' \in Programs /\ tc' \in Cache(Dom')
      BY DEF TypeInv, SeenInv
    <2>2. Dom' \in SUBSET Nat
      BY <2>1, ProgramsAssumption DEF Dom
    <2>3. QED
      BY <1>2, <2>1, <2>2
  <1>6. Blocks(u) \in Nat
    BY <1>5, BlocksCount
  <1>7. QED
    BY <1>2, <1>3, <1>4, <1>6, CountedAfter

LEMMA FenceCounts ==
    ASSUME TypeInv, TypeInv', ExecFence
    PROVE  Counted'
  <1>1. ~tc.abort /\ Decoded /\ tc.pool[s].instr.kind = "F"
    BY DEF TypeInv, ExecFence, Executes
  <1>2. Pc + 1 \in Dom /\ -1 \notin Dom /\ DOMAIN code = Dom /\ Dom \in SUBSET Nat
    BY <1>1, DecodedFacts, RunFacts, ProgramFacts DEF GoesOn
  <1>3. PICK t, F, D : t = tcache_flush(Dom) /\ F = seen /\ D = Dom
    OBVIOUS
  <1>4. PICK pc \in D : pc = Pc + 1
    BY <1>2, <1>3
  <1>5. /\ t \in Cache(D) /\ Shaped(t, D, F) /\ ~t.abort /\ t.free = TcacheSize + 1
        /\ t.bb[pc] = Null /\ Linear(t) /\ FreeOf(t) = Records
    BY <1>3, FlushShaped, FlushOf, FlushKept, FlushFree
  <1>6. Used(t) = 0
    <2>1. Records \ FreeOf(t) = {}
      BY <1>5
    <2>2. QED
      BY <2>1, FS_EmptySet DEF Used
  <1>7. PICK e \in {Ex} \cup Entries, b \in BOOLEAN : e = Ex /\ b = TRUE
    OBVIOUS
  <1>8. PICK u : u = tcache_bb_fetch(t, e, b, pc) /\ u = tc'
    BY <1>2, <1>3, <1>4, <1>7 DEF ExecFence, HandleException
  <1>9. /\ u.abort = t.abort /\ Blocks(u) = Blocks(t)
        /\ Used(u) = Used(t) \/ Used(u) = Used(t) + 1
    <2>1. Used(t) < NumRecords /\ -1 \notin D
      BY <1>2, <1>3, <1>6, TcacheAssumption
    <2>2. t \in Cache(D) /\ Shaped(t, D, F) /\ Linear(t) /\ u = tcache_bb_fetch(t, e, b, pc)
      BY <1>5, <1>8
    <2>3. QED
      BY <2>1, <2>2, FetchCounts
  <1>10. s' \in Records
    <2>1. s' = Fetched(t, pc)
      BY <1>2, <1>3, <1>4, <1>5, <1>8, <1>9 DEF ExecFence, HandleException
    <2>2. QED
      BY <1>5, <2>1, Numbers DEF Fetched
  <1>11. Blocks(t) \in Nat
    BY <1>2, <1>3, <1>5, BlocksCount
  <1>12. QED
    BY <1>5, <1>6, <1>8, <1>9, <1>10, <1>11, CountedAfter

LEMMA SameCacheCounts ==
    ASSUME TypeInv, TypeInv', Counted, ExecNormal \/ Resume \/ ExecBranch
    PROVE  Counted'
  <1>1. tc' = tc /\ UNCHANGED buildVars
    BY DEF ExecNormal, Resume, ExecBranch
  <1>2. ~tc'.abort
    BY <1>1 DEF Counted
  <1>3. CASE Resume
    BY <1>1, <1>3 DEF Resume, Counted, Slack, Ahead, buildVars
  <1>4. CASE tcache_state = "BUILDING"
    BY <1>1, <1>2, <1>4, CountFacts, CountedAfter DEF buildVars
  <1>5. CASE tcache_state = "RUNNING" /\ ~Resume
    <2>1. Decoded /\ s \in Entries
      BY <1>5, DecodedFacts DEF Counted, ExecNormal, ExecBranch, Executes
    <2>2. CASE Ahead
      <3>1. s' \in Records
        BY <1>5, <2>2 DEF Ahead, ExecNormal, ExecBranch, Executes
      <3>2. QED
        BY <1>1, <1>2, <3>1, CountFacts, CountedAfter
    <2>3. CASE ~Ahead
      BY <1>1, <1>2, <1>5, <2>1, <2>3, CountFacts, CountedAfter
    <2>4. QED
      BY <2>2, <2>3
  <1>6. QED
    BY <1>3, <1>4, <1>5 DEF TypeInv

LEMMA JrCounts ==
    ASSUME TypeInv, LinkInv, TypeInv', Counted, EnoughRecords, ExecJr
    PROVE  Counted'
  <1>1. ~tc.abort /\ Decoded /\ Executes({"I", "X"}) /\ UNCHANGED buildVars
    BY DEF Counted, ExecJr, Executes
  <1>2. /\ tcache_state = "RUNNING" /\ s \in Entries /\ Linked(tc, {}) /\ Ends(tc, s)
        /\ tc \in Cache(Dom) /\ Shaped(tc, Dom, seen) /\ -1 \notin Dom /\ Linear(tc)
    BY <1>1, EndsRunning, DecodedFacts, RunFacts, LinkFacts DEF Executes
  <1>3. Used(tc) <= Blocks(tc) /\ Used(tc) \in Nat /\ Blocks(tc) \in Nat
        /\ Used(tc) < NumRecords
    <2>1. ~Ahead
      BY <1>1 DEF Ahead, Executes
    <2>2. QED
      BY <1>2, <2>1, CountFacts
  <1>4. PICK target \in Dom :
           \/ tc' = tc
           \/ \E b \in BOOLEAN, c \in BOOLEAN : \E v :
                /\ b /\ ~c
                /\ v = SetNext(tc, s, c, NextOf(tc, s, b))
                /\ tc' = tcache_bb_fetch(v, s, b, target) /\ s' = NextOf(tc', s, b)
    BY JrCases
  <1>5. CASE tc' = tc
    BY <1>1, <1>3, <1>5, CountedAfter
  <1>6. ASSUME NEW b \in BOOLEAN, NEW c \in BOOLEAN, NEW v, b /\ ~c,
               v = SetNext(tc, s, c, NextOf(tc, s, b)),
               tc' = tcache_bb_fetch(v, s, b, target), s' = NextOf(tc', s, b)
        PROVE  Counted'
    <2>1. PICK x : x = NextOf(tc, s, b)
      OBVIOUS
    <2>2. Target(tc, x) /\ x \in Nodes
      <3>1. Sides(tc.pool[s].instr) = BOOLEAN
        BY <1>1 DEF Executes, Sides
      <3>2. QED
        BY <1>2, <2>1, <3>1 DEF Linked, Target
    <2>3. PICK X : X = {}
      OBVIOUS
    <2>4. v = SetNext(tc, s, c, x) /\ Linked(tc, X)
      BY <1>2, <1>6, <2>1, <2>3
    <2>5. v \in Cache(Dom) /\ Shaped(v, Dom, seen)
      BY <1>2, <2>2, <2>4, SetNextKeeps
    <2>6. FreeOf(v) = FreeOf(tc) /\ Linear(v)
      BY <1>2, <2>2, <2>4, SetNextSame
    <2>7. v.bb = tc.bb /\ v.bb_idx = tc.bb_idx /\ v.abort = tc.abort
      BY <1>2, <2>2, <2>4, SetNextOf
    <2>8. Used(v) = Used(tc) /\ Blocks(v) = Blocks(tc)
      BY <2>6, <2>7, BlocksSame DEF Used
    <2>9. PICK u : u = tc'
      OBVIOUS
    <2>10. PICK e \in {Ex} \cup Entries : e = s
      BY <1>2
    <2>11. PICK D : D = Dom
      OBVIOUS
    <2>12. u = tcache_bb_fetch(v, e, b, target) /\ target \in D
      BY <1>6, <2>9, <2>10, <2>11
    <2>13. /\ u.abort = v.abort /\ Blocks(u) = Blocks(v)
           /\ Used(u) = Used(v) \/ (Used(u) = Used(v) + 1 /\ Fetched(v, target) \in Records)
           /\ e \in Entries => NextOf(u, e, b) = Fetched(v, target)
      <3>1. Used(v) < NumRecords /\ -1 \notin D /\ v \in Cache(D) /\ Shaped(v, D, seen)
        BY <1>2, <1>3, <2>5, <2>8, <2>11
      <3>2. QED
        BY <2>6, <2>12, <3>1, FetchCounts
    <2>14. s' = NextOf(u, e, b) /\ e \in Entries
      BY <1>2, <1>6, <2>9, <2>10
    <2>15. Used(tc') <= Blocks(tc') \/ (Used(tc') <= Blocks(tc') + 1 /\ s' \in Records)
      BY <1>3, <2>8, <2>9, <2>13, <2>14
    <2>16. ~tc'.abort
      BY <1>1, <2>7, <2>9, <2>13
    <2>17. QED
      BY <2>15, <2>16, CountedAfter
  <1>7. QED
    BY <1>4, <1>5, <1>6

LEMMA FetchDecodeCounts ==
    ASSUME TypeInv, ~tc.abort, NEW t \in Cache(Dom), Shaped(t, Dom, seen), Linked(t, {}), ~t.abort,
           NEW e \in Entries, e = t.tc_idx, ~IsDecoded(t, e), NEW p \in Dom, p = t.pool[e].pc,
           NEW now \in Entries, now <= e, NEW q \in Dom, q = t.pool[now].pc,
           \A g \in Entries : now <= g /\ g < e => IsDecoded(t, g) /\ ~Ends(t, g),
           NEW old \in Records, old \notin FreeOf(t), t.pool[old].pc = q,
           Kept(t, {}), Linear(t), FetchDecode(t, e, now, old),
           TypeInv', EnoughRecords, Used(t) <= Blocks(t) + 1
    PROVE  Counted'
  <1>1. SeenInv /\ -1 \notin Dom /\ Dom \in SUBSET Nat
    BY RunFacts, ProgramFacts
  <1>2. PICK instr : instr = code[p]
    OBVIOUS
  <1>3. GoesOn(Dom, p, instr) /\ instr \in seen[p] /\ instr \in Instrs(Dom)
    BY <1>1, <1>2, ProgramFacts DEF GoesOn
  <1>4. PICK u : u = DecodedAs(t, e, instr)
    OBVIOUS
  <1>5. u = [t EXCEPT !.pool[e].instr = code[t.pool[e].pc]]
    BY <1>2, <1>4 DEF DecodedAs
  <1>6. /\ u \in Cache(Dom) /\ u.pool[e].instr = instr /\ u.pool[e].pc = p
        /\ u.abort = t.abort /\ u.tc_idx = t.tc_idx /\ u.free = t.free
        /\ u.bb = t.bb /\ u.bb_idx = t.bb_idx
    BY <1>3, <1>4, DecodedOf
  <1>7. \A n \in Nodes : n # e => u.pool[n] = t.pool[n]
    BY <1>3, <1>4, DecodedOf
  <1>8. u.pool[now].pc = q /\ u.pool[old].pc = q
    BY <1>6, <1>7, Numbers
  <1>9. PICK F, X : F = seen /\ X = {}
    OBVIOUS
  <1>10. Shaped(t, Dom, F) /\ Linked(t, X) /\ Kept(t, X) /\ instr \in F[p]
    BY <1>3, <1>9
  <1>11. CASE ~EndsBlock(instr) /\ HasRoom(u) /\ tc' = tcache_new(u, u.pool[e].pc + 1)
             /\ tcache_state' = "BUILDING"
    <2>1. p + 1 \in Dom
      <3>1. instr.kind \in {"N", "S", "U", "F"}
        BY <1>3, <1>11 DEF GoesOn, Instrs, Kinds, EndsBlock
      <3>2. QED
        BY <1>3, <3>1 DEF GoesOn
    <2>2. PICK v : v = tcache_new(u, p + 1) /\ v = tc'
      BY <1>6, <1>11
    <2>3. v \in Cache(Dom) /\ Shaped(v, Dom, F) /\ v.free = t.free
      <3>1. /\ -1 \notin Dom /\ p + 1 \in Dom
            /\ instr \in Instrs(Dom) /\ instr \in F[p] /\ ~EndsBlock(instr)
            /\ u = DecodedAs(t, e, instr) /\ HasRoom(u) /\ v = tcache_new(u, p + 1)
            /\ Shaped(t, Dom, F) /\ Linked(t, {})
        BY <1>1, <1>3, <1>4, <1>9, <1>10, <1>11, <2>1, <2>2
      <3>2. QED
        BY <3>1, DecodeNewKeeps
    <2>4. \E Z : Makes(t, v, Z, F) /\ \A z \in Z : ~Ends(v, z)
      <3>1. /\ -1 \notin Dom /\ p + 1 \in Dom
            /\ instr \in Instrs(Dom) /\ instr \in F[p] /\ ~EndsBlock(instr)
            /\ u = DecodedAs(t, e, instr) /\ HasRoom(u) /\ v = tcache_new(u, p + 1)
            /\ Shaped(t, Dom, F) /\ Linked(t, {})
        BY <1>1, <1>3, <1>4, <1>9, <1>10, <1>11, <2>1, <2>2
      <3>2. QED
        BY <3>1, DecodeNewKeeps
    <2>5. PICK Z : Makes(t, v, Z, F)
      BY <2>4
    <2>6. Kept(v, X \cup (Z \X BOOLEAN)) /\ FreeOf(v) = FreeOf(t)
      BY <1>10, <2>3, <2>5, EntriesKept
    <2>7. v.bb = u.bb /\ v.bb_idx = u.bb_idx /\ v.abort = u.abort
      BY <1>6, <1>11, <2>1, <2>2, NewOf
    <2>8. Used(v) = Used(t) /\ Blocks(v) = Blocks(t)
      BY <1>6, <2>6, <2>7, BlocksSame DEF Used
    <2>9. QED
      BY <1>6, <1>11, <2>2, <2>7, <2>8, CountedAfter
  <1>12. CASE EndsBlock(instr) /\ ~bb_full(u, u.pool[now].pc) /\ tc' = Link(u, e, now, old)
              /\ s' = e
    <2>1. e <= t.tc_idx
      BY Numbers
    <2>2. /\ Shaped(u, Dom, F) /\ Grows(t, u) /\ Linked(u, {e} \X BOOLEAN)
          /\ Ends(u, e) /\ IsDecoded(u, e)
      BY <1>1, <1>3, <1>4, <1>9, <1>10, <1>12, <2>1, DecodeEndKeeps
    <2>3. \E Z : Z = {e} /\ Makes(t, u, Z, F)
      BY <1>1, <1>3, <1>4, <1>9, <1>10, <1>12, <2>1, DecodeEndKeeps
    <2>4. PICK Z : Z = {e} /\ Makes(t, u, Z, F)
      BY <2>3
    <2>5. Kept(u, X \cup (Z \X BOOLEAN)) /\ FreeOf(u) = FreeOf(t) /\ Linear(u)
      BY <1>6, <1>10, <2>2, <2>4, EntriesKept
    <2>6. Kept(u, {e} \X BOOLEAN)
      BY <1>9, <2>4, <2>5
    <2>7. Complete(u, now)
      <3>1. ASSUME NEW g \in Entries, now <= g, g <= e PROVE IsDecoded(u, g)
        <4>1. CASE g = e
          BY <2>2, <4>1
        <4>2. CASE g # e
          <5>1. g < e
            BY <3>1, <4>2, Numbers
          <5>2. IsDecoded(t, g)
            BY <3>1, <5>1
          <5>3. QED
            BY <2>2, <5>2 DEF Grows, IsDecoded
        <4>3. QED
          BY <4>1, <4>2
      <3>2. QED
        BY <2>2, <3>1 DEF Complete
    <2>8. PICK v : v = Link(u, e, now, old) /\ v = tc'
      BY <1>12
    <2>9. old \notin FreeOf(u) /\ ~u.abort /\ GoesOn(Dom, p, u.pool[e].instr)
      BY <1>3, <1>6, <2>5
    <2>10. Used(u) <= Blocks(u) + 1
      BY <1>6, <2>5, BlocksSame DEF Used
    <2>11. /\ ~v.abort
           /\ \/ Used(v) <= Blocks(v)
              \/ /\ Used(v) <= Blocks(v) + 1 /\ u.pool[e].instr.kind = "B"
                 /\ v.pool[e].tnext \in Records /\ v.pool[e].ntnext \in Records
      BY <1>1, <1>6, <1>8, <1>12, <2>2, <2>5, <2>6, <2>7, <2>8, <2>9, <2>10, EndCounts
    <2>12. v.pool[e].instr = u.pool[e].instr
      <3>1. Grows(u, v)
        BY <1>1, <1>6, <1>8, <1>12, <2>2, <2>7, <2>8, <2>9, LinkKeeps
      <3>2. QED
        BY <2>2, <3>1 DEF Grows
    <2>13. Used(tc') <= Blocks(tc') \/ (Used(tc') <= Blocks(tc') + 1 /\ Ahead')
      BY <1>12, <2>8, <2>11, <2>12 DEF Ahead
    <2>14. QED
      BY <2>8, <2>11, <2>13, CountedAfter
  <1>13. CASE Full
    BY <1>13, FullCounts
  <1>14. QED
    BY <1>2, <1>5, <1>6, <1>11, <1>12, <1>13 DEF FetchDecode

LEMMA FirstCounts ==
    ASSUME TypeInv, LinkInv, TypeInv', Counted, EnoughRecords, Undisturbed(program), DecodeFirst
    PROVE  Counted'
  <1>1. ~tc.abort /\ ~Decoded /\ tcache_state = "RUNNING"
    BY DEF TypeInv, DecodeFirst
  <1>2. s \in Records /\ Pc \in Dom /\ -1 \notin Dom
    BY <1>1, RunFacts, UndecodedFacts
  <1>3. CASE Full
    BY <1>1, <1>3, FullCounts
  <1>4. CASE HasRoom(tc) /\ LET t == tcache_new(tc, Pc)
                                e == t.tc_idx
                            IN  FetchDecode(t, e, e, s)
    <2>1. PICK t : t = tcache_new(tc, Pc)
      OBVIOUS
    <2>2. PICK e : e = t.tc_idx
      OBVIOUS
    <2>3. PICK X : X = {}
      OBVIOUS
    <2>4. PICK F : F = seen
      OBVIOUS
    <2>5. /\ tc \in Cache(Dom) /\ Shaped(tc, Dom, F) /\ Linked(tc, X)
          /\ Linear(tc) /\ Kept(tc, X) /\ s \notin FreeOf(tc)
      BY <1>1, <2>3, <2>4, RunFacts, LinkFacts
    <2>6. t \in Cache(Dom) /\ Shaped(t, Dom, F) /\ Linked(t, X) /\ ~IsDecoded(t, e)
      BY <1>2, <1>4, <2>1, <2>2, <2>5, NewKeeps
    <2>7. /\ e \in Entries /\ t.pool[e] = Fresh(Pc) /\ t.abort = tc.abort /\ t.free = tc.free
          /\ t.bb = tc.bb /\ t.bb_idx = tc.bb_idx
          /\ \A n \in Nodes : n # e => t.pool[n] = tc.pool[n]
      BY <1>2, <1>4, <2>1, <2>2, <2>5, NewOf
    <2>8. PICK Z : Makes(tc, t, Z, F) /\ \A z \in Z : ~Ends(t, z)
      BY <1>2, <1>4, <2>1, <2>5, NewMakes
    <2>9. Kept(t, X \cup (Z \X BOOLEAN)) /\ FreeOf(t) = FreeOf(tc) /\ Linear(t)
      BY <2>5, <2>6, <2>7, <2>8, EntriesKept
    <2>10. Kept(t, X)
      BY <2>8, <2>9, KeptUnended
    <2>11. PICK p \in Dom : p = Pc /\ p = t.pool[e].pc
      BY <1>2, <2>7 DEF Fresh
    <2>12. s \notin FreeOf(t) /\ t.pool[s].pc = p
      <3>1. s # e /\ s \in Nodes
        BY <1>2, <2>7, Numbers
      <3>2. QED
        BY <2>5, <2>7, <2>9, <2>11, <3>1 DEF Pc
    <2>13. /\ t \in Cache(Dom) /\ Shaped(t, Dom, seen) /\ Linked(t, {}) /\ ~t.abort
           /\ Kept(t, {}) /\ Linear(t)
      BY <1>1, <2>3, <2>4, <2>6, <2>7, <2>9, <2>10
    <2>14. FetchDecode(t, e, e, s)
      BY <1>4, <2>1, <2>2
    <2>15. e <= e /\ \A g \in Entries : ~(e <= g /\ g < e)
      BY <2>7, Numbers
    <2>16. Used(t) <= Blocks(t) + 1
      BY <2>7, <2>9, BlocksSame, CountFacts DEF Used
    <2>17. QED
      BY <1>1, <1>2, <2>2, <2>6, <2>7, <2>11, <2>12, <2>13, <2>14, <2>15, <2>16, FetchDecodeCounts
  <1>5. QED
    BY <1>3, <1>4 DEF DecodeFirst, FetchFault, Undisturbed

LEMMA NextCounts ==
    ASSUME TypeInv, LinkInv, TypeInv', Counted, EnoughRecords, Undisturbed(program), DecodeNext
    PROVE  Counted'
  <1>1. ~tc.abort /\ ~Decoded /\ tcache_state = "BUILDING"
    BY DEF TypeInv, DecodeNext
  <1>2. s = tc.tc_idx /\ s \in Entries /\ ~IsDecoded(tc, s)
    BY <1>1, UndecodedFacts DEF Decoded, IsDecoded
  <1>3. /\ tc \in Cache(Dom) /\ Shaped(tc, Dom, seen) /\ Linked(tc, {}) /\ Building
    BY <1>1, RunFacts DEF RunInv
  <1>4. /\ Linear(tc) /\ Kept(tc, {}) /\ bb_now_record \notin FreeOf(tc)
        /\ tc.pool[bb_now_record].pc = tc.pool[bb_now].pc
    BY <1>1, LinkFacts
  <1>5. FetchDecode(tc, s, bb_now, bb_now_record)
    BY DEF DecodeNext, FetchFault, Undisturbed
  <1>6. PICK p \in Dom : p = tc.pool[s].pc
    BY <1>1, RunFacts DEF Pc
  <1>7. bb_now \in Entries /\ bb_now_record \in Records /\ bb_now <= s
    BY <1>2, <1>3, Numbers DEF Building
  <1>8. \A g \in Entries : bb_now <= g /\ g < s => IsDecoded(tc, g) /\ ~Ends(tc, g)
    BY <1>2, <1>3 DEF Building
  <1>9. IsDecoded(tc, bb_now)
    <2>1. bb_now <= bb_now /\ bb_now < s
      BY <1>2, <1>3, <1>7, Numbers DEF Building
    <2>2. QED
      BY <1>7, <1>8, <2>1
  <1>10. PICK q \in Dom : q = tc.pool[bb_now].pc
    BY <1>3, <1>7, <1>9, NodeFields, Numbers DEF Shaped, Follows
  <1>11. tc.pool[bb_now_record].pc = q
    BY <1>4, <1>10
  <1>12. Used(tc) <= Blocks(tc) + 1
    BY CountFacts
  <1>13. QED
    BY <1>1, <1>2, <1>3, <1>4, <1>5, <1>6, <1>7, <1>8, <1>10, <1>11, <1>12, FetchDecodeCounts

LEMMA InitCounts == Init => CountInv
  <1> SUFFICES ASSUME Init PROVE CountInv
    OBVIOUS
  <1>1. TypeInv
    BY InitTyped
  <1>2. Dom = DOMAIN code /\ -1 \notin Dom /\ program.start \in Dom
    BY <1>1, ProgramFacts DEF Init, TypeInv
  <1>3. tc = tcache_bb_new(tcache_flush(Dom), program.start)
    BY <1>2 DEF Init
  <1>4. ~tc.abort /\ Used(tc) = 1
    BY <1>2, <1>3, FlushCounts
  <1>5. s \in Records
    BY Numbers DEF Init
  <1>6. Blocks(tc) \in Nat
    BY <1>1, <1>4, RunFacts, ProgramFacts, BlocksCount
  <1>7. QED
    BY <1>4, <1>5, <1>6 DEF CountInv, Counted, Slack

LEMMA StepCounts ==
    ASSUME TypeInv, LinkInv, CountInv, EnoughRecords, [Next]_vars
    PROVE  CountInv'
  <1>1. TypeInv'
    BY StepTyped
  <1>2. CASE UNCHANGED vars
    BY <1>2 DEF vars, buildVars, memVars, CountInv, Counted, Slack, Ahead
  <1>3. CASE Next
    <2>1. program' = program
      BY <1>3 DEF Next, DecodeFound, DecodeFirst, DecodeNext, FetchDecode, FetchFault, Full,
                  ExecNormal, ExecFault, ExecBranch, ExecJr, ExecFence, Executes, Interrupt,
                  Resume, memVars
    <2>2. SUFFICES ASSUME Undisturbed(program) PROVE Counted'
      BY <2>1 DEF CountInv
    <2>3. Counted
      BY <2>2 DEF CountInv
    <2>4. ~ExecFault /\ ~Interrupt
      BY <2>2 DEF Undisturbed, ExecFault, Interrupt
    <2>5. CASE DecodeFirst
      BY <1>1, <2>2, <2>3, <2>5, FirstCounts
    <2>6. CASE DecodeNext
      BY <1>1, <2>2, <2>3, <2>6, NextCounts
    <2>7. CASE ~DecodeFirst /\ ~DecodeNext
      BY <1>1, <1>3, <2>3, <2>4, <2>7, FoundCounts, SameCacheCounts, JrCounts, FenceCounts DEF Next
    <2>8. QED
      BY <2>5, <2>6, <2>7
  <1>4. QED
    BY <1>2, <1>3

\* tcache_bb_new's assert(s != NULL) holds for every program that nothing
\* interrupts, as long as there are more records than the lists of basic blocks
\* can hold blocks (TCACHE_BB_SIZE is two more than the defaults of
\* CONFIG_BB_LIST_SIZE and CONFIG_BB_POOL_SIZE together): a block is inserted
\* when a record is freed, and the pools are emptied before more blocks are
\* inserted than the lists hold.
THEOREM RecordsSuffice ==
    ASSUME \A P \in Programs : Undisturbed(P),
           EnoughRecords
    PROVE  Spec => []NoAbort
  <1>1. Init => TypeInv /\ LinkInv /\ JumpInv /\ CountInv
    BY InitTyped, InitLinked, InitWaits, InitCounts
  <1>2. TypeInv /\ [Next]_vars => TypeInv'
    BY StepTyped
  <1>3. TypeInv => Undisturbed(program)
    BY DEF TypeInv, SeenInv
  <1>4. TypeInv /\ JumpInv => ~MovesRecord
    BY <1>3, LinksNotMoved
  <1>5. TypeInv /\ LinkInv /\ JumpInv /\ [Next]_vars => LinkInv' /\ JumpInv'
    BY <1>4, StepLinked, StepWaits
  <1>6. TypeInv /\ LinkInv /\ CountInv /\ [Next]_vars => CountInv'
    BY StepCounts
  <1>7. TypeInv /\ CountInv => NoAbort
    BY <1>3 DEF CountInv, Counted, TypeInv, NoAbort
  <1>8. QED
    BY <1>1, <1>2, <1>5, <1>6, <1>7, PTL DEF Spec

=============================================================================
