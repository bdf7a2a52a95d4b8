----------------------------- MODULE DramProofs -----------------------------
(***************************************************************************)
(* Proofs about Dram for every shape of a channel, every timing, every     *)
(* size of the queues and every sequence of requests.                      *)
(***************************************************************************)
EXTENDS Dram, TLAPS, FunctionTheorems, FiniteSetTheorems, SequenceTheorems,
        WellFoundedInduction

----------------------------------------------------------------------------
(* Counting the elements of a sequence that lie in a set.                  *)

Indices(s, S) == {i \in DOMAIN s : s[i] \in S}
CountIn(s, S) == Cardinality(Indices(s, S))

LEMMA CountNat ==
    ASSUME NEW E, NEW s \in Seq(E), NEW S
    PROVE  /\ IsFiniteSet(Indices(s, S)) /\ CountIn(s, S) \in Nat
           /\ CountIn(s, S) <= Len(s)
           /\ CountIn(s, S) > 0 <=> \E i \in 1 .. Len(s) : s[i] \in S
           /\ CountIn(s, S) = 0 <=> \A i \in 1 .. Len(s) : s[i] \notin S
  <1>1. /\ DOMAIN s = 1 .. Len(s) /\ Len(s) \in Nat
        /\ Indices(s, S) \in SUBSET (1 .. Len(s))
        /\ Indices(s, S) = {} <=> ~\E i \in 1 .. Len(s) : s[i] \in S
    BY DEF Indices
  <1>2. IsFiniteSet(1 .. Len(s)) /\ Cardinality(1 .. Len(s)) = Len(s)
    <2>1. Len(s) \in Nat
      OBVIOUS
    <2>2. QED
      BY <2>1, FS_Interval
  <1>3. IsFiniteSet(Indices(s, S)) /\ CountIn(s, S) <= Len(s)
    BY <1>1, <1>2, FS_Subset DEF CountIn
  <1>4. CountIn(s, S) \in Nat
    BY <1>3, FS_CardinalityType DEF CountIn
  <1>5. CountIn(s, S) = 0 <=> Indices(s, S) = {}
    BY <1>3, FS_EmptySet DEF CountIn
  <1>6. QED
    BY <1>1, <1>3, <1>4, <1>5

LEMMA CountEmpty == \A S : CountIn(<<>>, S) = 0
  BY FS_EmptySet DEF CountIn, Indices

LEMMA CountAppend ==
    ASSUME NEW E, NEW s \in Seq(E), NEW e \in E, NEW S
    PROVE  CountIn(Append(s, e), S) = CountIn(s, S) + (IF e \in S THEN 1 ELSE 0)
  <1> DEFINE n == Len(s) + 1
  <1>1. /\ n \in Nat /\ n \notin DOMAIN s
        /\ DOMAIN Append(s, e) = DOMAIN s \cup {n}
        /\ Append(s, e)[n] = e
        /\ \A i \in DOMAIN s : Append(s, e)[i] = s[i]
    BY AppendProperties
  <1>2. Indices(Append(s, e), S) = IF e \in S THEN Indices(s, S) \cup {n} ELSE Indices(s, S)
    BY <1>1 DEF Indices
  <1>3. n \notin Indices(s, S)
    BY <1>1 DEF Indices
  <1>4. IsFiniteSet(Indices(s, S)) /\ CountIn(s, S) \in Nat
    BY CountNat
  <1>5. Cardinality(Indices(s, S) \cup {n}) = Cardinality(Indices(s, S)) + 1
    BY <1>3, <1>4, FS_AddElement
  <1>6. QED
    BY <1>2, <1>4, <1>5 DEF CountIn

\* Sequences that hold the same, as far as S is concerned.
LEMMA CountSame ==
    ASSUME NEW s, NEW S, NEW t, NEW R, DOMAIN s = DOMAIN t,
           \A i \in DOMAIN s : s[i] \in S <=> t[i] \in R
    PROVE  CountIn(s, S) = CountIn(t, R)
  <1>1. Indices(s, S) = Indices(t, R)
    BY DEF Indices
  <1>2. QED
    BY <1>1 DEF CountIn

LEMMA CountConcat ==
    ASSUME NEW E, NEW s \in Seq(E), NEW t \in Seq(E), NEW S
    PROVE  /\ (\A i \in DOMAIN t : t[i] \in S) => CountIn(s \o t, S) = CountIn(s, S) + Len(t)
           /\ (\A i \in DOMAIN t : t[i] \notin S) => CountIn(s \o t, S) = CountIn(s, S)
  <1> DEFINE n == Len(s)
             k == Len(t)
             J == (n + 1) .. (n + k)
  <1>1. /\ n \in Nat /\ k \in Nat
        /\ DOMAIN s = 1 .. n /\ DOMAIN t = 1 .. k
        /\ DOMAIN (s \o t) = 1 .. (n + k)
        /\ \A i \in 1 .. (n + k) : (s \o t)[i] = IF i <= n THEN s[i] ELSE t[i - n]
    BY ConcatProperties
  <1>2. ASSUME \A i \in DOMAIN t : t[i] \in S
        PROVE  CountIn(s \o t, S) = CountIn(s, S) + k
    <2>1. Indices(s \o t, S) = Indices(s, S) \cup J /\ Indices(s, S) \cap J = {}
      BY <1>1, <1>2 DEF Indices
    <2>2. IsFiniteSet(J) /\ Cardinality(J) = k
      <3>1. n \in Nat /\ k \in Nat /\ n + 1 \in Int /\ n + k \in Int
        OBVIOUS
      <3> HIDE DEF n, k
      <3>2. /\ IsFiniteSet(J)
            /\ Cardinality(J) = IF n + 1 > n + k THEN 0 ELSE n + k - (n + 1) + 1
        BY <3>1, FS_Interval
      <3>3. QED
        BY <3>1, <3>2
    <2>3. IsFiniteSet(Indices(s, S)) /\ CountIn(s, S) \in Nat
      BY CountNat
    <2> HIDE DEF J
    <2>4. /\ Cardinality(Indices(s, S) \cup J) =
               Cardinality(Indices(s, S)) + Cardinality(J) - Cardinality(Indices(s, S) \cap J)
      BY <2>2, <2>3, FS_Union
    <2>5. Cardinality({}) = 0
      BY FS_EmptySet
    <2>6. k \in Nat
      OBVIOUS
    <2>7. /\ CountIn(s \o t, S) = Cardinality(Indices(s, S) \cup J)
          /\ Cardinality(Indices(s, S) \cap J) = 0
      BY <2>1, <2>5, Zenon DEF CountIn
    <2>8. QED
      BY <2>2, <2>3, <2>4, <2>6, <2>7 DEF CountIn
  <1>3. ASSUME \A i \in DOMAIN t : t[i] \notin S
        PROVE  CountIn(s \o t, S) = CountIn(s, S)
    <2>1. Indices(s \o t, S) = Indices(s, S)
      BY <1>1, <1>3 DEF Indices
    <2>2. QED
      BY <2>1 DEF CountIn
  <1>4. QED
    BY <1>2, <1>3

LEMMA RemoveAtParts ==
    ASSUME NEW E, NEW s \in Seq(E), NEW i \in 1 .. Len(s)
    PROVE  /\ RemoveAt(s, i) \in Seq(E)
           /\ Len(RemoveAt(s, i)) = Len(s) - 1
           /\ \A j \in 1 .. (Len(s) - 1) :
                RemoveAt(s, i)[j] = IF j < i THEN s[j] ELSE s[j + 1]
  <1> DEFINE u == SubSeq(s, 1, i - 1)
             v == SubSeq(s, i + 1, Len(s))
  <1>1. /\ u \in Seq(E) /\ Len(u) = i - 1
        /\ \A j \in 1 .. (i - 1) : u[j] = s[j]
    BY SubSeqProperties
  <1>2. /\ v \in Seq(E) /\ Len(v) = Len(s) - i
        /\ \A j \in 1 .. (Len(s) - i) : v[j] = s[i + j]
    BY SubSeqProperties
  <1> HIDE DEF u, v
  <1>3. RemoveAt(s, i) = u \o v
    BY DEF RemoveAt, u, v
  <1>4. /\ u \o v \in Seq(E) /\ Len(u \o v) = Len(u) + Len(v)
        /\ \A j \in 1 .. Len(u) + Len(v) :
             (u \o v)[j] = IF j <= Len(u) THEN u[j] ELSE v[j - Len(u)]
    <2>1. u \in Seq(E) /\ v \in Seq(E)
      BY <1>1, <1>2
    <2>2. QED
      BY <2>1, ConcatProperties
  <1>5. ASSUME NEW j \in 1 .. (Len(s) - 1)
        PROVE  (u \o v)[j] = IF j < i THEN s[j] ELSE s[j + 1]
    <2>1. /\ i \in 1 .. Len(s) /\ Len(s) \in Nat
          /\ Len(u) + Len(v) = Len(s) - 1
      BY <1>1, <1>2
    <2>2. (u \o v)[j] = IF j <= i - 1 THEN u[j] ELSE v[j - (i - 1)]
      BY <1>1, <1>4, <2>1
    <2>3. CASE j < i
      BY <1>1, <2>1, <2>2, <2>3
    <2>4. CASE ~(j < i)
      <3>1. j - (i - 1) \in 1 .. (Len(s) - i) /\ i + (j - (i - 1)) = j + 1 /\ ~(j <= i - 1)
        BY <2>1, <2>4
      <3>2. QED
        BY <1>2, <2>2, <2>4, <3>1
    <2>5. QED
      BY <2>3, <2>4
  <1>6. QED
    BY <1>1, <1>2, <1>3, <1>4, <1>5

LEMMA CountRemove ==
    ASSUME NEW E, NEW s \in Seq(E), NEW i \in 1 .. Len(s), NEW S
    PROVE  CountIn(RemoveAt(s, i), S) = CountIn(s, S) - (IF s[i] \in S THEN 1 ELSE 0)
  <1> DEFINE r == RemoveAt(s, i)
             A == Indices(s, S) \ {i}
             B == Indices(r, S)
             f == [j \in A |-> IF j < i THEN j ELSE j - 1]
  <1>1. /\ DOMAIN s = 1 .. Len(s) /\ DOMAIN r = 1 .. (Len(s) - 1) /\ Len(s) \in Nat
        /\ \A j \in 1 .. (Len(s) - 1) : r[j] = IF j < i THEN s[j] ELSE s[j + 1]
    <2>1. /\ r \in Seq(E) /\ Len(r) = Len(s) - 1
          /\ \A j \in 1 .. (Len(s) - 1) : r[j] = IF j < i THEN s[j] ELSE s[j + 1]
      BY RemoveAtParts
    <2> HIDE DEF r
    <2>2. QED
      BY <2>1
  <1>2. /\ A = {j \in 1 .. Len(s) : s[j] \in S /\ j # i}
        /\ B = {j \in 1 .. (Len(s) - 1) : (IF j < i THEN s[j] ELSE s[j + 1]) \in S}
    BY <1>1 DEF Indices
  <1> HIDE DEF A, B, r
  <1>3. f \in [A -> B]
    BY <1>2
  <1>4. \A j, k \in A : f[j] = f[k] => j = k
    BY <1>2
  <1>5. \A k \in B : \E j \in A : f[j] = k
    <2> TAKE k \in B
    <2>1. CASE k < i
      BY <1>2, <2>1
    <2>2. CASE k >= i
      <3>1. k + 1 \in A /\ f[k + 1] = k
        BY <1>2, <2>2
      <3>2. QED
        BY <3>1
    <2>3. QED
      BY <1>2, <2>1, <2>2
  <1>6. ExistsBijection(A, B)
    <2> HIDE DEF f
    <2>1. f \in Bijection(A, B)
      BY <1>3, <1>4, <1>5, Fun_IsBij
    <2>2. QED
      BY <2>1 DEF ExistsBijection
  <1>7. /\ IsFiniteSet(A)
        /\ Cardinality(A) = CountIn(s, S) - (IF s[i] \in S THEN 1 ELSE 0)
    <2>1. IsFiniteSet(Indices(s, S))
      BY CountNat
    <2>2. i \in Indices(s, S) <=> s[i] \in S
      BY <1>1 DEF Indices
    <2>3. /\ IsFiniteSet(Indices(s, S) \ {i})
          /\ Cardinality(Indices(s, S) \ {i}) =
               IF i \in Indices(s, S) THEN CountIn(s, S) - 1 ELSE CountIn(s, S)
      BY <2>1, FS_RemoveElement DEF CountIn
    <2>4. CountIn(s, S) \in Nat
      BY CountNat
    <2>5. QED
      BY <2>2, <2>3, <2>4 DEF A
  <1>8. QED
    BY <1>6, <1>7, FS_Bijection DEF B, r, CountIn

LEMMA MinInSet ==
    ASSUME NEW S \in SUBSET Nat, S # {}
    PROVE  Min(S) \in S /\ \A x \in S : Min(S) <= x
  <1>1. PICK x \in S : \A y \in S : ~(<<y, x>> \in OpToRel(<, Nat))
    BY NatLessThanWellFounded, WFMin
  <1>2. \A y \in S : x <= y
    <2> SUFFICES ASSUME NEW y \in S, y < x PROVE FALSE
      OBVIOUS
    <2>1. <<y, x>> \in Nat \X Nat /\ <<y, x>>[1] < <<y, x>>[2]
      OBVIOUS
    <2>2. <<y, x>> \in OpToRel(<, Nat)
      BY <2>1 DEF OpToRel
    <2>3. QED
      BY <1>1, <2>2
  <1>3. QED
    BY <1>2 DEF Min

LEMMA MapSeq ==
    ASSUME NEW E, NEW s \in Seq(E), NEW F, NEW t, t = [i \in DOMAIN s |-> t[i]],
           \A i \in 1 .. Len(s) : t[i] \in F
    PROVE  t \in Seq(F) /\ Len(t) = Len(s) /\ DOMAIN t = DOMAIN s
  <1>1. DOMAIN s = 1 .. Len(s) /\ Len(s) \in Nat
    OBVIOUS
  <1>2. t \in [1 .. Len(s) -> F] /\ DOMAIN t = 1 .. Len(s)
    BY <1>1
  <1>3. QED
    BY <1>1, <1>2

----------------------------------------------------------------------------
(* The shape of a channel.                                                 *)

LEMMA Multiples ==
    ASSUME NEW k \in Nat, NEW a \in Nat, NEW b \in Nat, a < b
    PROVE  a * k + k <= b * k
  <1>1. PICK d \in Nat : b = a + 1 + d
    <2>1. b - a - 1 \in Nat /\ b = a + 1 + (b - a - 1)
      OBVIOUS
    <2>2. QED
      BY <2>1
  <1>2. (a + 1 + d) * k = a * k + k + d * k
    OBVIOUS
  <1>3. d * k \in Nat /\ a * k \in Nat
    OBVIOUS
  <1>4. QED
    BY <1>1, <1>2, <1>3

LEMMA Shape ==
    /\ BanksPerRank \in Nat \ {0} /\ BanksPerGroup <= BanksPerRank
    /\ NumBanks \in Nat \ {0} /\ 0 \in Banks
    /\ \A b \in Int : b % NumBanks \in Banks
  <1>1. \A m, n \in Nat \ {0} : m * n \in Nat \ {0} /\ n <= m * n
    OBVIOUS
  <1>2. /\ BanksPerRank \in Nat \ {0} /\ BanksPerGroup <= BanksPerRank
        /\ NumBanks \in Nat \ {0}
    BY <1>1, ShapeAssumption DEF BanksPerRank, NumBanks
  <1>3. QED
    BY <1>2 DEF Banks

LEMMA RankTyped ==
    ASSUME NEW b \in Banks
    PROVE  RankOf(b) \in 0 .. Ranks - 1
  <1>1. b \in Nat /\ b < Ranks * BanksPerRank
    BY Shape DEF Banks, NumBanks
  <1>2. QED
    BY <1>1, Shape, ShapeAssumption DEF RankOf

LEMMA NextBankTyped ==
    ASSUME NEW b \in Banks
    PROVE  NextBank(b) \in Banks
  <1> DEFINE r == RankOf(b)
             n == BanksPerRank
  <1>1. /\ r \in 0 .. Ranks - 1 /\ n \in Nat \ {0} /\ BanksPerGroup <= n
        /\ Ranks \in Nat \ {0} /\ BanksPerGroup \in Nat \ {0} /\ b \in Nat
        /\ b = r * n + (b % n) /\ b % n \in Nat
        /\ b % BanksPerGroup \in Nat
        /\ Banks = 0 .. (Ranks * n) - 1
    BY RankTyped, Shape, ShapeAssumption, SMTT(30) DEF Banks, NumBanks, RankOf
  <1> HIDE DEF r, n
  <1>2. \A q \in 0 .. Ranks - 1 : q * n + n <= Ranks * n /\ q * n \in Nat
    BY <1>1, Multiples
  <1>3. CASE (b % n) + BanksPerGroup < n
    BY <1>1, <1>2, <1>3 DEF NextBank, n
  <1>4. CASE ~((b % n) + BanksPerGroup < n) /\ (b % BanksPerGroup) + 1 < BanksPerGroup
    <2> DEFINE k == b % BanksPerGroup
    <2>1. k \in Nat /\ k + 1 < BanksPerGroup /\ BanksPerGroup <= n
      BY <1>1, <1>4
    <2>2. r * n + n <= Ranks * n /\ r * n \in Nat /\ Ranks * n \in Nat
      BY <1>1, <1>2
    <2>3. NextBank(b) = r * n + k + 1
      BY <1>4 DEF NextBank, n, r
    <2> HIDE DEF k
    <2>4. QED
      BY <1>1, <2>1, <2>2, <2>3
  <1>5. CASE ~((b % n) + BanksPerGroup < n) /\ ~((b % BanksPerGroup) + 1 < BanksPerGroup)
    <2>1. (r + 1) % Ranks \in 0 .. Ranks - 1
      BY <1>1
    <2>2. ((r + 1) % Ranks) * n \in Banks
      BY <1>1, <1>2, <2>1
    <2>3. QED
      BY <1>5, <2>2 DEF NextBank, n, r
  <1>6. QED
    BY <1>3, <1>4, <1>5

----------------------------------------------------------------------------
(* The timing and the state of a bank.                                     *)

LEMMA Parameters ==
    /\ T.AL \in Nat /\ T.CL \in Nat /\ T.CWL \in Nat /\ T.burst_cycle \in Nat
    /\ T.tCCD_L \in Nat /\ T.tCCD_S \in Nat /\ T.tRTRS \in Nat /\ T.tRTP \in Nat
    /\ T.tRP \in Nat /\ T.tWTR_L \in Nat /\ T.tWTR_S \in Nat /\ T.tWR \in Nat
    /\ T.tRAS \in Nat /\ T.tRCD \in Nat /\ T.tRRD_L \in Nat /\ T.tRRD_S \in Nat
    /\ T.tRFC \in Nat /\ T.tFAW \in Nat /\ T.tREFI \in Nat /\ T.tREFIb \in Nat
  BY TimingAssumption

LEMMA DelayTyped == \A c, t, rel : Delay(c, t, rel) \in Int
  <1> TAKE c, t, rel
  <1>1. /\ RL \in Nat /\ WL \in Nat /\ read_delay \in Nat /\ write_delay \in Nat
        /\ tRC \in Nat /\ tCCD_L \in Nat /\ tWTR_L \in Nat /\ tRRD_L \in Nat
        /\ read_to_precharge \in Nat /\ write_to_precharge \in Nat
    BY Parameters DEF RL, WL, read_delay, write_delay, tRC, tCCD_L, tWTR_L, tRRD_L,
                      read_to_precharge, write_to_precharge
  <1>2. SameDirection(rel) \in Nat
    BY <1>1, Parameters DEF SameDirection, Max2
  <1>3. ColumnToColumn(c, t, rel) \in Int
    BY <1>1, <1>2, Parameters DEF ColumnToColumn
  <1>4. ColumnToRow(c, t) \in Int
    BY <1>1, Parameters DEF ColumnToRow
  <1>5. AfterColumn(c, t, rel) \in Int
    BY <1>3, <1>4 DEF AfterColumn
  <1>6. AfterActivate(t, rel) \in Int
    BY <1>1, Parameters DEF AfterActivate
  <1>7. AfterPrecharge(t, rel) \in Int /\ AfterRefreshBank(t, rel) \in Int
        /\ AfterRefresh(t, rel) \in Int
    BY Parameters DEF AfterPrecharge, AfterRefreshBank, AfterRefresh
  <1>8. QED
    BY <1>5, <1>6, <1>7 DEF Delay

BankState == [row : Rows \cup {NoRow}, hits : 0 .. RowHitLimit]

LEMMA AfterCommandTyped ==
    ASSUME NEW s \in BankState, NEW t \in CmdTypes, NEW row, t = "ACTIVATE" => row \in Rows
    PROVE  AfterCommand(s, t, row) \in BankState
  <1>1. RowHitLimit \in Nat
    BY ShapeAssumption
  <1>2. CASE t \in {"READ", "WRITE"}
    BY <1>1, <1>2 DEF AfterCommand, BankState
  <1>3. CASE t = "ACTIVATE"
    BY <1>3 DEF AfterCommand, BankState
  <1>4. CASE t \in RefreshCmds
    BY <1>4 DEF AfterCommand, BankState, RefreshCmds
  <1>5. CASE t \notin {"READ", "WRITE", "ACTIVATE"} \cup RefreshCmds
    BY <1>1, <1>5 DEF AfterCommand, BankState, ClosedBank
  <1>6. QED
    BY <1>2, <1>3, <1>4, <1>5

\* The command a bank needs next is one it has a case for.
LEMMA RequiredLegal ==
    ASSUME NEW s, NEW t \in ColumnCmds, NEW row
    PROVE  /\ RequiredType(s, t, row) \in {t, "ACTIVATE", "PRECHARGE"}
           /\ Legal(s, RequiredType(s, t, row))
  BY DEF RequiredType, Legal, ColumnCmds, ReadCmds, WriteCmds, RefreshCmds

\* The policies have an interval.
LEMMA IntervalTyped ==
    ASSUME config \in Configs
    PROVE  refresh_interval \in Nat \ {0}
  <1>1. config.refresh \in Policies
    BY DramAssumption
  <1>2. T.tREFI \div Ranks \in Nat \ {0} /\ T.tREFIb \in Nat \ {0}
    BY Parameters, ShapeAssumption, TimingAssumption
  <1>3. T.tREFI \in Nat \ {0}
    <2>1. T.tREFI # 0
      <3> SUFFICES ASSUME T.tREFI = 0 PROVE FALSE
        OBVIOUS
      <3>1. 0 \div Ranks = 0
        BY ShapeAssumption
      <3>2. QED
        BY <1>2, <3>1
    <2>2. QED
      BY <2>1, Parameters
  <1>4. QED
    BY <1>1, <1>2, <1>3 DEF refresh_interval, Policies

----------------------------------------------------------------------------
(* Type correctness.                                                       *)

LEMMA DoneTyped ==
    ASSUME TypeOK
    PROVE  Done \in 0 .. Len(return_queue)
  <1> DEFINE I == {i \in 1 .. Len(return_queue) : return_queue[i].wait = 0}
  <1>1. Done = IF I # {} THEN Min(I) ELSE 0
    BY DEF Done, SelectInSeq
  <1>2. I \in SUBSET Nat /\ I \subseteq 1 .. Len(return_queue) /\ Len(return_queue) \in Nat
    BY DEF TypeOK
  <1>3. I # {} => Min(I) \in I
    BY <1>2, MinInSet
  <1>4. QED
    BY <1>1, <1>2, <1>3

LEMMA FirstAcceptedTyped ==
    ASSUME NEW s \in Seq(Addr)
    PROVE  /\ FirstAccepted(s) \in 0 .. Len(s)
           /\ FirstAccepted(s) # 0 => Len(queues[BankOf(s[FirstAccepted(s)])]) < CmdQueueSize
  <1> DEFINE I == {i \in 1 .. Len(s) : Len(queues[BankOf(s[i])]) < CmdQueueSize}
  <1>1. FirstAccepted(s) = IF I # {} THEN Min(I) ELSE 0
    BY DEF FirstAccepted, SelectInSeq
  <1>2. I \in SUBSET Nat /\ I \subseteq 1 .. Len(s) /\ Len(s) \in Nat
    OBVIOUS
  <1>3. I # {} => Min(I) \in I
    BY <1>2, MinInSet
  <1>4. QED
    BY <1>1, <1>2, <1>3

\* Erasing a command of a queue removes one that equals it.
LEMMA Erased ==
    ASSUME TypeOK, NEW b \in Banks, NEW i \in 1 .. Len(queues[b])
    PROVE  \E j \in 1 .. Len(queues[b]) :
              /\ queues[b][j] = queues[b][i]
              /\ RemoveFirstMatch(queues[b], LAMBDA e : e = queues[b][i]) = RemoveAt(queues[b], j)
  <1> DEFINE q == queues[b]
             I == {j \in 1 .. Len(q) : q[j] = q[i]}
  <1>1. i \in I /\ I \in SUBSET Nat
    OBVIOUS
  <1>2. Min(I) \in I
    BY <1>1, MinInSet
  <1>3. RemoveFirstMatch(q, LAMBDA e : e = q[i]) = RemoveAt(q, Min(I))
    BY <1>1 DEF RemoveFirstMatch, SelectInSeq
  <1>4. QED
    BY <1>2, <1>3

LEMMA Mapped ==
    /\ \A a \in Addr : BankOf(a) \in Banks /\ RowOf(a) \in Rows
    /\ \A c \in Configs : /\ c.page \in {"OPEN_PAGE", "CLOSE_PAGE"}
                          /\ c.refresh \in Policies /\ c.addrs \subseteq Addr
  BY DramAssumption DEF BankOf, RowOf

LEMMA ReadDelayTyped == read_delay \in Nat
  BY Parameters DEF read_delay, RL

BankTypes ==
    /\ bank \in [Banks -> BankState]
    /\ timing \in [Banks -> [CmdTypes -> Nat]]
    /\ four_aw \in [0 .. Ranks - 1 -> Seq(Nat)]
    /\ \A r \in 0 .. Ranks - 1 : Len(four_aw[r]) <= ActivateLimit

LEMMA UpdateTyped ==
    ASSUME BankTypes, NEW t \in CmdTypes, NEW b \in Banks, NEW row,
           t = "ACTIVATE" => row \in Rows /\ IsFAWReady(RankOf(b)),
           UpdateTimingAndStates(t, b, row)
    PROVE  BankTypes'
  <1>1. bank' \in [Banks -> BankState]
    <2> DEFINE hit == IF t = "REFRESH" THEN RankBanks(RankOf(b)) ELSE {b}
    <2>1. \A c \in Banks : AfterCommand(bank[c], t, row) \in BankState
      BY AfterCommandTyped DEF BankTypes
    <2>2. bank' = [c \in Banks |-> IF c \in hit THEN AfterCommand(bank[c], t, row) ELSE bank[c]]
      BY DEF UpdateTimingAndStates
    <2>3. QED
      BY <2>1, <2>2 DEF BankTypes
  <1>2. timing' \in [Banks -> [CmdTypes -> Nat]]
    <2>1. \A c \in Banks, n \in CmdTypes :
             Max2(timing[c][n], Delay(t, n, Relation(c, b))) \in Nat
      <3> TAKE c \in Banks, n \in CmdTypes
      <3>1. timing[c][n] \in Nat
        BY DEF BankTypes
      <3>2. Delay(t, n, Relation(c, b)) \in Int
        BY DelayTyped
      <3>3. QED
        BY <3>1, <3>2 DEF Max2
    <2>2. timing' = [c \in Banks |-> [n \in CmdTypes |->
                          Max2(timing[c][n], Delay(t, n, Relation(c, b)))]]
      BY DEF UpdateTimingAndStates
    <2>3. QED
      BY <2>1, <2>2
  <1>3. /\ four_aw' \in [0 .. Ranks - 1 -> Seq(Nat)]
        /\ \A r \in 0 .. Ranks - 1 : Len(four_aw'[r]) <= ActivateLimit
    <2>1. CASE t # "ACTIVATE"
      BY <2>1 DEF UpdateTimingAndStates, BankTypes
    <2>2. CASE t = "ACTIVATE"
      <3> DEFINE f == four_aw[RankOf(b)]
                 g == IF f # <<>> /\ Head(f) = 0 THEN Tail(f) ELSE f
      <3>1. RankOf(b) \in 0 .. Ranks - 1 /\ f \in Seq(Nat) /\ Len(f) <= ActivateLimit
        BY RankTyped DEF BankTypes
      <3>2. four_aw' = [four_aw EXCEPT ![RankOf(b)] = Append(g, T.tFAW)]
        BY <2>2 DEF UpdateTimingAndStates
      <3>3. f # <<>> => Head(f) = 0 \/ Len(f) < ActivateLimit
        BY <2>2 DEF IsFAWReady
      <3>4. ActivateLimit \in Nat \ {0}
        BY DramAssumption
      <3>5. g \in Seq(Nat) /\ Len(g) < ActivateLimit
        BY <3>1, <3>3, <3>4
      <3>6. T.tFAW \in Nat
        BY Parameters
      <3> HIDE DEF f, g
      <3>7. Append(g, T.tFAW) \in Seq(Nat) /\ Len(Append(g, T.tFAW)) <= ActivateLimit
        BY <3>4, <3>5, <3>6
      <3>8. QED
        BY <3>1, <3>2, <3>7 DEF BankTypes
    <2>3. QED
      BY <2>1, <2>2
  <1>4. QED
    BY <1>1, <1>2, <1>3 DEF BankTypes

PendTypes ==
    /\ pending_rd \in [Addr -> Nat]
    /\ pending_wr \subseteq Addr
    /\ return_queue \in Seq(Transaction)

LEMMA IssueTyped ==
    ASSUME BankTypes, PendTypes, NEW t \in CmdTypes, NEW b \in Banks, NEW a, NEW row,
           t \in ColumnCmds => a \in Addr,
           t = "ACTIVATE" => row \in Rows /\ IsFAWReady(RankOf(b)),
           IssueCommand(t, b, a, row)
    PROVE  BankTypes' /\ PendTypes' /\ phase' \in {"schedule", "aborted"}
  <1>1. BankTypes'
    BY UpdateTyped DEF IssueCommand
  <1>2. phase' \in {"schedule", "aborted"}
    BY DEF IssueCommand, Abort
  <1>3. PendTypes'
    <2>1. CASE t \in ReadCmds
      <3> DEFINE new == [n \in 1 .. pending_rd[a] |->
                            [addr |-> a, is_write |-> FALSE, wait |-> read_delay]]
      <3>1. a \in Addr /\ pending_rd[a] \in Nat
        BY <2>1 DEF ColumnCmds, PendTypes
      <3>2. [addr |-> a, is_write |-> FALSE, wait |-> read_delay] \in Transaction
        BY <3>1, ReadDelayTyped DEF Transaction
      <3>3. new \in Seq(Transaction)
        <4> DEFINE k == pending_rd[a]
                   t0 == [addr |-> a, is_write |-> FALSE, wait |-> read_delay]
        <4>1. k \in Nat /\ t0 \in Transaction
          BY <3>1, <3>2
        <4> HIDE DEF k, t0
        <4>2. [n \in 1 .. k |-> t0] \in [1 .. k -> Transaction]
          BY <4>1
        <4>3. [n \in 1 .. k |-> t0] \in Seq(Transaction)
          BY <4>1, <4>2
        <4>4. QED
          BY <4>3 DEF k, t0
      <3>4. t \notin WriteCmds /\ ~(t \notin ColumnCmds)
        BY <2>1 DEF ColumnCmds, ReadCmds, WriteCmds
      <3>5. /\ return_queue' = return_queue \o new
            /\ pending_rd' = [pending_rd EXCEPT ![a] = 0]
            /\ pending_wr' = pending_wr
        BY <3>4 DEF IssueCommand
      <3> HIDE DEF new
      <3>6. return_queue \o new \in Seq(Transaction)
        BY <3>3, ConcatProperties DEF PendTypes
      <3>7. QED
        BY <3>5, <3>6 DEF PendTypes
    <2>2. CASE t \in WriteCmds
      <3>1. t \notin ReadCmds /\ ~(t \notin ColumnCmds)
        BY <2>2 DEF ColumnCmds, ReadCmds, WriteCmds
      <3>2. pending_wr' = pending_wr \ {a} /\ UNCHANGED <<pending_rd, return_queue>>
        BY <3>1 DEF IssueCommand
      <3>3. QED
        BY <3>2 DEF PendTypes
    <2>3. CASE t \notin ColumnCmds
      BY <2>3 DEF IssueCommand, PendTypes, pendVars, ColumnCmds
    <2>4. QED
      BY <2>1, <2>2, <2>3 DEF ColumnCmds
  <1>4. QED
    BY <1>1, <1>2, <1>3

LEMMA AddTyped ==
    ASSUME TypeOK, NEW a \in config.addrs, AddRead(a) \/ AddWrite(a)
    PROVE  TypeOK'
  <1>1. a \in Addr
    BY Mapped DEF TypeOK
  <1>2. \A w \in BOOLEAN : Append(req_list, [addr |-> a, is_write |-> w]) \in Seq(Request)
    BY <1>1 DEF TypeOK, Request
  <1>3. \A w \in BOOLEAN :
           Append(return_queue, [addr |-> a, is_write |-> w, wait |-> 1]) \in Seq(Transaction)
    BY <1>1 DEF TypeOK, Transaction
  <1>4. TransQueueSize \in Nat
    BY DramAssumption
  <1>5. CASE AddRead(a)
    <2>1. req_list' \in Seq(Request) /\ phase' \in {"idle", "return", "issue", "schedule", "aborted"}
      BY <1>2, <1>5 DEF AddRead, AddRequest, TypeOK
    <2>2. /\ read_queue' \in Seq(Addr) /\ Len(read_queue') <= TransQueueSize
          /\ pending_rd' \in [Addr -> Nat]
      <3>1. Len(read_queue) < TransQueueSize /\ read_queue \in Seq(Addr) /\ pending_rd \in [Addr -> Nat]
        BY <1>5 DEF AddRead, AddRequest, WillAccept, TypeOK
      <3>2. read_queue' \in {read_queue, Append(read_queue, a)}
        BY <1>5 DEF AddRead
      <3>3. pending_rd' \in {pending_rd, [pending_rd EXCEPT ![a] = @ + 1]}
        BY <1>5 DEF AddRead
      <3>4. read_queue' \in Seq(Addr) /\ Len(read_queue') <= TransQueueSize
        BY <1>1, <1>4, <3>1, <3>2
      <3>5. [pending_rd EXCEPT ![a] = @ + 1] \in [Addr -> Nat]
        BY <1>1, <3>1
      <3>6. QED
        BY <3>1, <3>3, <3>4, <3>5
    <2>3. return_queue' \in Seq(Transaction)
      BY <1>3, <1>5 DEF AddRead, AnswerSoon, TypeOK
    <2>4. UNCHANGED <<config, phase, resp_read, resp_write, write_buffer, write_draining,
                      pending_wr, queues, queue_idx, is_in_ref, ref_q_indices, bank, timing,
                      four_aw, refresh_q, refresh_in, next_ref>>
      BY <1>5 DEF AddRead, cmdVars, inRefVars, bankVars, refVars
    <2>5. QED
      BY <2>1, <2>2, <2>3, <2>4 DEF TypeOK
  <1>6. CASE AddWrite(a)
    <2>1. req_list' \in Seq(Request)
      BY <1>2, <1>6 DEF AddWrite, AddRequest
    <2>2. /\ write_buffer' \in Seq(Addr) /\ Len(write_buffer') <= TransQueueSize
          /\ write_draining \in 0 .. Len(write_buffer')
      <3>1. /\ Len(write_buffer) < TransQueueSize /\ write_buffer \in Seq(Addr)
            /\ write_draining \in 0 .. Len(write_buffer)
        BY <1>6 DEF AddWrite, AddRequest, WillAccept, TypeOK
      <3>2. write_buffer' \in {write_buffer, Append(write_buffer, a)}
        BY <1>6 DEF AddWrite
      <3>3. QED
        BY <1>1, <1>4, <3>1, <3>2
    <2>3. return_queue' \in Seq(Transaction)
      BY <1>3, <1>6 DEF AddWrite, AnswerSoon
    <2>4. pending_wr' \subseteq Addr
      BY <1>1, <1>6 DEF AddWrite, TypeOK
    <2>5. UNCHANGED <<config, phase, resp_read, resp_write, read_queue, write_draining,
                      pending_rd, queues, queue_idx, is_in_ref, ref_q_indices, bank, timing,
                      four_aw, refresh_q, refresh_in, next_ref>>
      BY <1>6 DEF AddWrite, cmdVars, inRefVars, bankVars, refVars
    <2>6. QED
      BY <2>1, <2>2, <2>3, <2>4, <2>5 DEF TypeOK
  <1>7. QED
    BY <1>5, <1>6

LEMMA TakeTyped ==
    ASSUME TypeOK, TakeRead \/ TakeWrite
    PROVE  TypeOK'
  <1>1. \A s \in Seq(Response) : s # <<>> => Tail(s) \in Seq(Response)
    OBVIOUS
  <1>2. /\ resp_read' \in Seq(Response) /\ resp_write' \in Seq(Response)
    BY <1>1 DEF TypeOK, TakeRead, TakeWrite
  <1>3. UNCHANGED <<config, phase, req_list, read_queue, write_buffer, write_draining, pending_rd,
                    pending_wr, return_queue, queues, queue_idx, is_in_ref, ref_q_indices, bank,
                    timing, four_aw, refresh_q, refresh_in, next_ref>>
    BY DEF TakeRead, TakeWrite, transVars, pendVars, cmdVars, inRefVars, bankVars, refVars
  <1>4. QED
    BY <1>2, <1>3 DEF TypeOK

LEMMA ReturnTyped ==
    ASSUME TypeOK, ReturnDoneTrans
    PROVE  TypeOK'
  <1> DEFINE t == return_queue[Done]
             i == SelectInSeq(req_list, LAMBDA r : r.addr = t.addr /\ r.is_write = t.is_write)
             resp == [addr |-> t.addr, wait |-> Padding]
  <1>1. /\ Done \in 1 .. Len(return_queue) /\ t \in Transaction
        /\ return_queue' = RemoveAt(return_queue, Done)
    BY DoneTyped DEF TypeOK, ReturnDoneTrans
  <1>2. return_queue' \in Seq(Transaction)
    <2>1. return_queue \in Seq(Transaction)
      BY DEF TypeOK
    <2>2. QED
      BY <1>1, <2>1, RemoveAtParts
  <1>3. i \in 0 .. Len(req_list)
    <2> DEFINE I == {j \in 1 .. Len(req_list) :
                       req_list[j].addr = t.addr /\ req_list[j].is_write = t.is_write}
    <2>1. i = IF I # {} THEN Min(I) ELSE 0
      BY DEF SelectInSeq
    <2>2. I \in SUBSET Nat /\ I \subseteq 1 .. Len(req_list) /\ Len(req_list) \in Nat
      BY DEF TypeOK
    <2>3. I # {} => Min(I) \in I
      BY <2>2, MinInSet
    <2>4. QED
      BY <2>1, <2>2, <2>3
  <1>4. resp \in Response
    BY <1>1, DramAssumption DEF Response, Transaction
  <1>5. /\ phase' \in {"return", "aborted"}
        /\ \/ UNCHANGED cosimVars
           \/ /\ i # 0
              /\ req_list' = RemoveAt(req_list, i)
              /\ resp_read' \in {resp_read, Append(resp_read, resp)}
              /\ resp_write' \in {resp_write, Append(resp_write, resp)}
    BY DEF ReturnDoneTrans, Callback, Abort
  <1> HIDE DEF t, i, resp
  <1>6. req_list \in Seq(Request) /\ resp_read \in Seq(Response) /\ resp_write \in Seq(Response)
    BY DEF TypeOK
  <1>7. i # 0 => RemoveAt(req_list, i) \in Seq(Request)
    <2> SUFFICES ASSUME i # 0 PROVE RemoveAt(req_list, i) \in Seq(Request)
      OBVIOUS
    <2>1. i \in 1 .. Len(req_list)
      BY <1>3, <1>6
    <2>2. QED
      BY <1>6, <2>1, RemoveAtParts
  <1>8. /\ Append(resp_read, resp) \in Seq(Response)
        /\ Append(resp_write, resp) \in Seq(Response)
    BY <1>4, <1>6
  <1>9. req_list' \in Seq(Request) /\ resp_read' \in Seq(Response) /\ resp_write' \in Seq(Response)
    BY <1>5, <1>6, <1>7, <1>8 DEF cosimVars
  <1>10. UNCHANGED <<config, read_queue, write_buffer, write_draining, pending_rd, pending_wr,
                     queues, queue_idx, is_in_ref, ref_q_indices, bank, timing, four_aw,
                     refresh_q, refresh_in, next_ref>>
    BY DEF ReturnDoneTrans, transVars, cmdVars, inRefVars, bankVars, refVars
  <1>11. QED
    BY <1>2, <1>5, <1>9, <1>10 DEF TypeOK

LEMMA RefreshTickTyped ==
    ASSUME TypeOK, RefreshClockTick
    PROVE  TypeOK'
  <1>1. refresh_interval \in Nat \ {0} /\ refresh_in' \in Nat
    BY IntervalTyped DEF TypeOK, RefreshClockTick
  <1>2. next_ref' \in Banks
    <2>1. next_ref \in Banks
      BY DEF TypeOK
    <2>2. next_ref + BanksPerRank \in Int
      BY <2>1, Shape DEF Banks
    <2>3. (next_ref + BanksPerRank) % NumBanks \in Banks
      BY <2>2, Shape
    <2>4. NextBank(next_ref) \in Banks
      BY <2>1, NextBankTyped
    <2>5. next_ref' \in {next_ref, (next_ref + BanksPerRank) % NumBanks, NextBank(next_ref)}
      BY DEF RefreshClockTick, InsertRefresh
    <2>6. QED
      BY <2>1, <2>3, <2>4, <2>5
  <1>3. refresh_q' \in Seq([type : RefreshCmds, bank : Banks])
    <2>1. \A t \in RefreshCmds, b \in Banks :
             Append(refresh_q, [type |-> t, bank |-> b]) \in Seq([type : RefreshCmds, bank : Banks])
      BY DEF TypeOK
    <2>2. \/ refresh_q' = refresh_q
          \/ \E t \in RefreshCmds, b \in {0, next_ref} :
                refresh_q' = Append(refresh_q, [type |-> t, bank |-> b])
      BY DEF RefreshClockTick, InsertRefresh, NeedRefresh, RefreshCmds
    <2>3. 0 \in Banks /\ next_ref \in Banks
      BY Shape DEF TypeOK
    <2>4. CASE refresh_q' = refresh_q
      BY <2>4 DEF TypeOK
    <2>5. CASE \E t \in RefreshCmds, b \in {0, next_ref} :
                  refresh_q' = Append(refresh_q, [type |-> t, bank |-> b])
      <3>1. PICK t \in RefreshCmds, b \in Banks :
                  refresh_q' = Append(refresh_q, [type |-> t, bank |-> b])
        BY <2>3, <2>5
      <3>2. QED
        BY <2>1, <3>1
    <2>6. QED
      BY <2>2, <2>4, <2>5
  <1>4. /\ phase' = "issue"
        /\ UNCHANGED <<config, req_list, resp_read, resp_write, read_queue, write_buffer,
                       write_draining, pending_rd, pending_wr, return_queue, queues, queue_idx,
                       is_in_ref, ref_q_indices, bank, timing, four_aw>>
    BY DEF RefreshClockTick, cosimVars, transVars, pendVars, cmdVars, inRefVars, bankVars
  <1>5. QED
    BY <1>1, <1>2, <1>3, <1>4 DEF TypeOK

\* What IssueQueued issues, and what it leaves in the queue.
LEMMA QueuedCommand ==
    ASSUME TypeOK, IssueQueued
    PROVE  \E b \in Banks : \E i, j \in 1 .. Len(queues[b]) : \E t \in CmdTypes :
             /\ ~Held(b)
             /\ t = Needed(b, ColumnCmd(queues[b][i].is_write), RowOf(queues[b][i].addr))
             /\ t = "ACTIVATE" => IsFAWReady(RankOf(b))
             /\ queues[b][j] = queues[b][i]
             /\ IssueCommand(t, b, queues[b][i].addr, RowOf(queues[b][i].addr))
             /\ queues' = IF t \in ColumnCmds
                          THEN [queues EXCEPT ![b] = RemoveAt(queues[b], j)]
                          ELSE queues
             /\ queue_idx' = b
  <1>1. PICK b \in NextQueue : \E i \in {Min(IssuableIn(b))} : \E e \in {queues[b][i]} :
           \E t \in {Needed(b, ColumnCmd(e.is_write), RowOf(e.addr))} :
              /\ IssueCommand(t, b, e.addr, RowOf(e.addr))
              /\ IF t \in ColumnCmds THEN EraseRWCommand(b, i) ELSE UNCHANGED queues
              /\ queue_idx' = b
    BY DEF IssueQueued
  <1> DEFINE i == Min(IssuableIn(b))
             e == queues[b][i]
             t == Needed(b, ColumnCmd(e.is_write), RowOf(e.addr))
  <1>2. /\ IssueCommand(t, b, e.addr, RowOf(e.addr))
        /\ IF t \in ColumnCmds THEN EraseRWCommand(b, i) ELSE UNCHANGED queues
        /\ queue_idx' = b
    BY <1>1
  <1>3. b \in Banks /\ IssuableIn(b) # {} /\ ~Held(b)
    <2>1. PICK k \in Rounds : b = QueueAt(k)
      BY DEF NextQueue
    <2>2. queue_idx + k \in Int
      BY <2>1 DEF Rounds, TypeOK, Banks
    <2>3. QED
      BY <2>1, <2>2, Shape DEF Rounds, QueueAt
  <1>4. i \in IssuableIn(b) /\ i \in 1 .. Len(queues[b])
    <2>1. IssuableIn(b) \in SUBSET Nat /\ IssuableIn(b) \subseteq 1 .. Len(queues[b])
      BY DEF IssuableIn
    <2>2. i \in IssuableIn(b)
      BY <1>3, <2>1, MinInSet
    <2>3. QED
      BY <2>1, <2>2
  <1>5. t \in CmdTypes
    <2>1. ColumnCmd(e.is_write) \in ColumnCmds
      BY DEF ColumnCmd, ColumnCmds, ReadCmds, WriteCmds
    <2>2. QED
      BY <2>1, RequiredLegal DEF Needed, CmdTypes
  <1>6. t = "ACTIVATE" => IsFAWReady(RankOf(b))
    BY <1>4 DEF IssuableIn, Issuable, IsReady, Needed
  <1>7. PICK j \in 1 .. Len(queues[b]) :
              /\ queues[b][j] = queues[b][i]
              /\ RemoveFirstMatch(queues[b], LAMBDA x : x = queues[b][i]) = RemoveAt(queues[b], j)
    BY <1>3, <1>4, Erased
  <1>8. EraseRWCommand(b, i) => queues' = [queues EXCEPT ![b] = RemoveAt(queues[b], j)]
    BY <1>3, <1>7 DEF EraseRWCommand, TypeOK
  <1> HIDE DEF i, t
  <1>9. queues' = IF t \in ColumnCmds
                  THEN [queues EXCEPT ![b] = RemoveAt(queues[b], j)]
                  ELSE queues
    BY <1>2, <1>8
  <1>10. t = Needed(b, ColumnCmd(e.is_write), RowOf(e.addr))
    BY DEF t
  <1>11. QED
    BY <1>2, <1>3, <1>4, <1>5, <1>6, <1>7, <1>9, <1>10

\* What a refresh that waits issues.
LEMMA RefreshCommand ==
    ASSUME TypeOK, IssueForRefresh
    PROVE  \E t \in RefreshCmds \cup {"PRECHARGE"} : \E b \in Banks :
             /\ IssueCommand(t, b, NoRow, NoRow)
             /\ LegalNow(t, b)
             /\ refresh_q' \in {refresh_q, Tail(refresh_q)}
  <1> DEFINE ref == Head(refresh_q)
  <1>1. refresh_q # <<>> /\ refresh_q \in Seq([type : RefreshCmds, bank : Banks])
    BY DEF TypeOK, IssueForRefresh
  <1>2. ref.type \in RefreshCmds /\ ref.bank \in Banks
    <2>1. ref \in [type : RefreshCmds, bank : Banks]
      BY <1>1, HeadTailProperties
    <2> HIDE DEF ref
    <2>2. QED
      BY <2>1
  <1>3. CASE RefPrecharges(ref) # {}
    <2>1. PICK b \in RefPrecharges(ref) : IssueCommand("PRECHARGE", b, NoRow, NoRow)
      BY <1>3 DEF IssueForRefresh
    <2>2. refresh_q' = refresh_q
      BY <1>3 DEF IssueForRefresh
    <2>3. b \in Banks /\ IsRowOpen(bank[b])
      BY <1>2 DEF RefPrecharges, RefQueues, RankBanks
    <2>4. LegalNow("PRECHARGE", b)
      BY <2>3 DEF LegalNow, Legal
    <2>5. QED
      BY <2>1, <2>2, <2>3, <2>4
  <1>4. CASE RefPrecharges(ref) = {}
    <2>1. /\ RefReady(ref) /\ IssueCommand(ref.type, ref.bank, NoRow, NoRow)
          /\ refresh_q' = Tail(refresh_q)
      BY <1>4 DEF IssueForRefresh
    <2>2. LegalNow(ref.type, ref.bank)
      BY <2>1, <1>2 DEF RefReady, RefQueues, LegalNow, Legal
    <2>3. QED
      BY <1>2, <2>1, <2>2
  <1>5. QED
    BY <1>3, <1>4

LEMMA TypesSplit ==
    TypeOK <=>
      /\ config \in Configs
      /\ phase \in {"idle", "return", "issue", "schedule", "aborted"}
      /\ req_list \in Seq(Request)
      /\ resp_read \in Seq(Response) /\ resp_write \in Seq(Response)
      /\ read_queue \in Seq(Addr) /\ Len(read_queue) <= TransQueueSize
      /\ write_buffer \in Seq(Addr) /\ Len(write_buffer) <= TransQueueSize
      /\ write_draining \in 0 .. Len(write_buffer)
      /\ PendTypes /\ BankTypes
      /\ queues \in [Banks -> Seq(Request)]
      /\ \A b \in Banks : Len(queues[b]) <= CmdQueueSize
      /\ queue_idx \in Banks
      /\ is_in_ref \in BOOLEAN /\ ref_q_indices \subseteq Banks
      /\ refresh_q \in Seq([type : RefreshCmds, bank : Banks])
      /\ refresh_in \in Nat /\ next_ref \in Banks
  BY DEF TypeOK, PendTypes, BankTypes, BankState

LEMMA IssueRefreshTyped ==
    ASSUME TypeOK, IssueForRefresh
    PROVE  TypeOK'
  <1>1. PICK t \in RefreshCmds \cup {"PRECHARGE"}, b \in Banks :
             /\ IssueCommand(t, b, NoRow, NoRow)
             /\ refresh_q' \in {refresh_q, Tail(refresh_q)}
    BY RefreshCommand
  <1>2. t \in CmdTypes /\ t \notin ColumnCmds /\ t # "ACTIVATE"
    BY DEF CmdTypes, ColumnCmds, ReadCmds, WriteCmds, RefreshCmds
  <1>3. BankTypes' /\ PendTypes' /\ phase' \in {"schedule", "aborted"}
    BY <1>1, <1>2, IssueTyped, TypesSplit
  <1>4. refresh_q' \in Seq([type : RefreshCmds, bank : Banks])
    <2>1. refresh_q \in Seq([type : RefreshCmds, bank : Banks]) /\ refresh_q # <<>>
      BY DEF TypeOK, IssueForRefresh
    <2>2. Tail(refresh_q) \in Seq([type : RefreshCmds, bank : Banks])
      BY <2>1
    <2>3. QED
      BY <1>1, <2>1, <2>2
  <1>5. is_in_ref' \in BOOLEAN /\ ref_q_indices' \subseteq Banks
    BY DEF IssueForRefresh
  <1>6. UNCHANGED <<config, req_list, resp_read, resp_write, read_queue, write_buffer,
                    write_draining, queues, queue_idx, refresh_in, next_ref>>
    BY DEF IssueForRefresh, cosimVars, transVars, cmdVars, refVars
  <1>7. QED
    BY <1>3, <1>4, <1>5, <1>6 DEF TypeOK, PendTypes, BankTypes, BankState

LEMMA IssueQueuedTyped ==
    ASSUME TypeOK, IssueQueued
    PROVE  TypeOK'
  <1>1. PICK b \in Banks : \E i, j \in 1 .. Len(queues[b]) : \E t \in CmdTypes :
             /\ t = "ACTIVATE" => IsFAWReady(RankOf(b))
             /\ IssueCommand(t, b, queues[b][i].addr, RowOf(queues[b][i].addr))
             /\ queues' = IF t \in ColumnCmds
                          THEN [queues EXCEPT ![b] = RemoveAt(queues[b], j)]
                          ELSE queues
             /\ queue_idx' = b
    BY QueuedCommand
  <1>2. PICK i \in 1 .. Len(queues[b]), j \in 1 .. Len(queues[b]), t \in CmdTypes :
             /\ t = "ACTIVATE" => IsFAWReady(RankOf(b))
             /\ IssueCommand(t, b, queues[b][i].addr, RowOf(queues[b][i].addr))
             /\ queues' = IF t \in ColumnCmds
                          THEN [queues EXCEPT ![b] = RemoveAt(queues[b], j)]
                          ELSE queues
             /\ queue_idx' = b
    BY <1>1
  <1>3. /\ queues[b] \in Seq(Request) /\ queues[b][i] \in Request
        /\ queues[b][i].addr \in Addr /\ RowOf(queues[b][i].addr) \in Rows
    <2>1. queues[b] \in Seq(Request) /\ queues[b][i] \in Request
      BY SMTT(30) DEF TypeOK
    <2>2. queues[b][i].addr \in Addr
      BY <2>1 DEF Request
    <2>3. QED
      BY <2>1, <2>2, Mapped
  <1>4. BankTypes' /\ PendTypes' /\ phase' \in {"schedule", "aborted"}
    BY <1>2, <1>3, IssueTyped, TypesSplit
  <1>5. RemoveAt(queues[b], j) \in Seq(Request) /\ Len(RemoveAt(queues[b], j)) = Len(queues[b]) - 1
    BY <1>3, RemoveAtParts
  <1>6. /\ queues' \in [Banks -> Seq(Request)]
        /\ \A c \in Banks : Len(queues'[c]) <= CmdQueueSize
    <2>1. /\ queues \in [Banks -> Seq(Request)] /\ CmdQueueSize \in Nat
          /\ \A c \in Banks : Len(queues[c]) <= CmdQueueSize
      BY DramAssumption DEF TypeOK
    <2>2. queues' = queues \/ queues' = [queues EXCEPT ![b] = RemoveAt(queues[b], j)]
      BY <1>2
    <2>3. Len(RemoveAt(queues[b], j)) <= CmdQueueSize
      <3>1. Len(queues[b]) \in Nat /\ Len(queues[b]) <= CmdQueueSize
        BY <1>3, <2>1
      <3>2. QED
        BY <1>5, <2>1, <3>1
    <2> DEFINE r == RemoveAt(queues[b], j)
    <2> HIDE DEF r
    <2>4. r \in Seq(Request) /\ Len(r) <= CmdQueueSize
      BY <1>5, <2>3 DEF r
    <2>5. queues' = queues \/ queues' = [queues EXCEPT ![b] = r]
      BY <2>2 DEF r
    <2>6. QED
      BY <2>1, <2>4, <2>5
  <1>7. queue_idx' \in Banks /\ is_in_ref' \in BOOLEAN /\ ref_q_indices' \subseteq Banks
    BY <1>2 DEF IssueQueued, HoldQueues
  <1>8. UNCHANGED <<config, req_list, resp_read, resp_write, read_queue, write_buffer,
                    write_draining, refresh_q, refresh_in, next_ref>>
    BY DEF IssueQueued, cosimVars, transVars, refVars
  <1>9. QED
    BY <1>4, <1>6, <1>7, <1>8 DEF TypeOK, PendTypes, BankTypes, BankState

LEMMA IssueNothingTyped ==
    ASSUME TypeOK, IssueNothing
    PROVE  TypeOK'
  BY DEF TypeOK, IssueNothing, HoldQueues, cosimVars, transVars, pendVars, cmdVars, bankVars, refVars

LEMMA LessTyped == \A n \in Nat : Less(n) \in Nat
  BY DEF Less

Shorter(s) == [j \in DOMAIN s |-> [s[j] EXCEPT !.wait = Less(@)]]

LEMMA ShorterTyped ==
    ASSUME NEW s \in Seq(Response)
    PROVE  /\ Shorter(s) \in Seq(Response) /\ DOMAIN Shorter(s) = DOMAIN s
           /\ \A j \in DOMAIN s : Shorter(s)[j].addr = s[j].addr
  <1> DEFINE u == Shorter(s)
  <1>1. ASSUME NEW j \in 1 .. Len(s)
        PROVE  u[j] \in Response /\ u[j].addr = s[j].addr
    <2>1. s[j] \in Response /\ u[j] = [s[j] EXCEPT !.wait = Less(@)]
      BY DEF Shorter
    <2>2. QED
      BY <2>1, LessTyped DEF Response
  <1>2. u = [j \in DOMAIN s |-> u[j]]
    BY DEF Shorter
  <1> HIDE DEF u
  <1>3. u \in Seq(Response) /\ DOMAIN u = DOMAIN s
    BY <1>1, <1>2, MapSeq
  <1>4. QED
    BY <1>1, <1>3 DEF u

LEMMA AdvanceTyped ==
    ASSUME TypeOK, AdvanceClock
    PROVE  /\ timing' \in [Banks -> [CmdTypes -> Nat]]
           /\ four_aw' \in [0 .. Ranks - 1 -> Seq(Nat)]
           /\ \A r \in 0 .. Ranks - 1 : Len(four_aw'[r]) <= ActivateLimit
           /\ return_queue' \in Seq(Transaction) /\ DOMAIN return_queue' = DOMAIN return_queue
           /\ resp_read' \in Seq(Response) /\ DOMAIN resp_read' = DOMAIN resp_read
           /\ resp_write' \in Seq(Response) /\ DOMAIN resp_write' = DOMAIN resp_write
           /\ \A i \in DOMAIN return_queue : return_queue'[i].addr = return_queue[i].addr
                                          /\ return_queue'[i].is_write = return_queue[i].is_write
           /\ \A i \in DOMAIN resp_read : resp_read'[i].addr = resp_read[i].addr
           /\ \A i \in DOMAIN resp_write : resp_write'[i].addr = resp_write[i].addr
  <1>1. timing' \in [Banks -> [CmdTypes -> Nat]]
    <2>1. \A b \in Banks, t \in CmdTypes : Less(timing[b][t]) \in Nat
      BY LessTyped DEF TypeOK
    <2>2. QED
      BY <2>1 DEF AdvanceClock
  <1>2. /\ four_aw' \in [0 .. Ranks - 1 -> Seq(Nat)]
        /\ \A r \in 0 .. Ranks - 1 : Len(four_aw'[r]) <= ActivateLimit
    <2>1. DOMAIN four_aw = 0 .. Ranks - 1
      BY DEF TypeOK
    <2>2. four_aw' = [r \in 0 .. Ranks - 1 |->
                        [j \in DOMAIN four_aw[r] |-> Less(four_aw[r][j])]]
      BY <2>1 DEF AdvanceClock
    <2>3. ASSUME NEW r \in 0 .. Ranks - 1
          PROVE  four_aw'[r] \in Seq(Nat) /\ Len(four_aw'[r]) <= ActivateLimit
      <3> DEFINE f == four_aw[r]
                 g == four_aw'[r]
      <3>1. f \in Seq(Nat) /\ Len(f) <= ActivateLimit
        BY DEF TypeOK
      <3>2. g = [j \in DOMAIN f |-> Less(f[j])]
        BY <2>2
      <3> HIDE DEF f, g
      <3>3. \A j \in 1 .. Len(f) : g[j] \in Nat
        BY <3>1, <3>2, LessTyped
      <3>4. g = [j \in DOMAIN f |-> g[j]]
        BY <3>2
      <3>5. g \in Seq(Nat) /\ Len(g) = Len(f)
        BY <3>1, <3>3, <3>4, MapSeq
      <3>6. QED
        BY <3>1, <3>5 DEF f, g
    <2>4. four_aw' \in [0 .. Ranks - 1 -> Seq(Nat)]
      <3>1. DOMAIN four_aw' = 0 .. Ranks - 1 /\ four_aw' = [r \in 0 .. Ranks - 1 |-> four_aw'[r]]
        BY <2>2
      <3>2. QED
        BY <2>3, <3>1
    <2>5. QED
      BY <2>3, <2>4
  <1>3. /\ return_queue' \in Seq(Transaction) /\ DOMAIN return_queue' = DOMAIN return_queue
        /\ \A i \in DOMAIN return_queue : return_queue'[i].addr = return_queue[i].addr
                                       /\ return_queue'[i].is_write = return_queue[i].is_write
    <2>1. return_queue \in Seq(Transaction)
      BY DEF TypeOK
    <2>2. return_queue' = [j \in DOMAIN return_queue |-> [return_queue[j] EXCEPT !.wait = Less(@)]]
      BY DEF AdvanceClock
    <2>3. ASSUME NEW j \in 1 .. Len(return_queue)
          PROVE  /\ return_queue'[j] \in Transaction
                 /\ return_queue'[j].addr = return_queue[j].addr
                 /\ return_queue'[j].is_write = return_queue[j].is_write
      <3>1. return_queue[j] \in Transaction
        BY <2>1
      <3>2. return_queue'[j] = [return_queue[j] EXCEPT !.wait = Less(@)]
        BY <2>1, <2>2, SMTT(30)
      <3>3. QED
        BY <3>1, <3>2, LessTyped DEF Transaction
    <2>4. return_queue' = [j \in DOMAIN return_queue |-> return_queue'[j]]
      BY <2>2
    <2>5. return_queue' \in Seq(Transaction) /\ DOMAIN return_queue' = DOMAIN return_queue
      BY <2>1, <2>3, <2>4, MapSeq
    <2>6. QED
      BY <2>1, <2>3, <2>5
  <1>4. /\ resp_read' \in Seq(Response) /\ DOMAIN resp_read' = DOMAIN resp_read
        /\ \A i \in DOMAIN resp_read : resp_read'[i].addr = resp_read[i].addr
    <2>1. resp_read \in Seq(Response)
      BY DEF TypeOK
    <2>2. resp_read' = Shorter(resp_read)
      BY DEF AdvanceClock, Shorter
    <2>3. QED
      BY <2>1, <2>2, ShorterTyped
  <1>5. /\ resp_write' \in Seq(Response) /\ DOMAIN resp_write' = DOMAIN resp_write
        /\ \A i \in DOMAIN resp_write : resp_write'[i].addr = resp_write[i].addr
    <2>1. resp_write \in Seq(Response)
      BY DEF TypeOK
    <2>2. resp_write' = Shorter(resp_write)
      BY DEF AdvanceClock, Shorter
    <2>3. QED
      BY <2>1, <2>2, ShorterTyped
  <1>6. QED
    BY <1>1, <1>2, <1>3, <1>4, <1>5

\* A scheduled transaction moves from its queue to the one of its bank.
LEMMA ScheduleMoves ==
    ASSUME TypeOK, ScheduleTransaction
    PROVE  \/ /\ UNCHANGED <<read_queue, write_buffer, queues>>
              /\ write_draining' \in 0 .. Len(write_buffer)
           \/ \E i \in 1 .. Len(write_buffer) :
                 /\ Len(queues[BankOf(write_buffer[i])]) < CmdQueueSize
                 /\ AddCommand(write_buffer[i], TRUE)
                 /\ write_buffer' = RemoveAt(write_buffer, i)
                 /\ write_draining' \in 0 .. Len(write_buffer) - 1
                 /\ read_queue' = read_queue
           \/ \E i \in 1 .. Len(read_queue) :
                 /\ Len(queues[BankOf(read_queue[i])]) < CmdQueueSize
                 /\ AddCommand(read_queue[i], FALSE)
                 /\ read_queue' = RemoveAt(read_queue, i)
                 /\ UNCHANGED <<write_buffer, write_draining>>
  <1>1. /\ read_queue \in Seq(Addr) /\ write_buffer \in Seq(Addr)
        /\ Len(write_buffer) \in Nat /\ write_draining \in 0 .. Len(write_buffer)
    BY DEF TypeOK
  <1>2. Draining \in 0 .. Len(write_buffer)
    BY <1>1 DEF Draining
  <1>3. ASSUME Draining > 0, NEW i \in {FirstAccepted(write_buffer)} \ {0}, ScheduleWrite(i),
               read_queue' = read_queue
        PROVE  \/ /\ UNCHANGED <<read_queue, write_buffer, queues>>
                  /\ write_draining' \in 0 .. Len(write_buffer)
               \/ /\ i \in 1 .. Len(write_buffer)
                  /\ Len(queues[BankOf(write_buffer[i])]) < CmdQueueSize
                  /\ AddCommand(write_buffer[i], TRUE)
                  /\ write_buffer' = RemoveAt(write_buffer, i)
                  /\ write_draining' \in 0 .. Len(write_buffer) - 1
                  /\ read_queue' = read_queue
    <2>1. i \in 1 .. Len(write_buffer) /\ Len(queues[BankOf(write_buffer[i])]) < CmdQueueSize
      BY <1>1, <1>3, FirstAcceptedTyped
    <2>2. CASE write_draining' = 0 /\ UNCHANGED <<queues, write_buffer>>
      <3>1. write_draining' \in 0 .. Len(write_buffer)
        BY <1>1, <2>2
      <3>2. QED
        BY <1>3, <2>2, <3>1
    <2>3. CASE /\ AddCommand(write_buffer[i], TRUE)
               /\ write_buffer' = RemoveAt(write_buffer, i)
               /\ write_draining' = Draining - 1
      <3>1. write_draining' \in 0 .. Len(write_buffer) - 1
        BY <1>1, <1>2, <1>3, <2>3
      <3>2. QED
        BY <1>3, <2>1, <2>3, <3>1
    <2>4. QED
      BY <1>3, <2>2, <2>3 DEF ScheduleWrite
  <1>4. ASSUME NEW i \in {FirstAccepted(read_queue)} \ {0}, ScheduleRead(i)
        PROVE  /\ i \in 1 .. Len(read_queue)
               /\ Len(queues[BankOf(read_queue[i])]) < CmdQueueSize
               /\ AddCommand(read_queue[i], FALSE)
               /\ read_queue' = RemoveAt(read_queue, i)
    <2>1. i \in 1 .. Len(read_queue) /\ Len(queues[BankOf(read_queue[i])]) < CmdQueueSize
      BY <1>1, <1>4, FirstAcceptedTyped
    <2>2. QED
      BY <1>4, <2>1 DEF ScheduleRead
  <1>5. CASE /\ Draining > 0
             /\ \E i \in {FirstAccepted(write_buffer)} \ {0} : ScheduleWrite(i)
             /\ UNCHANGED read_queue
    <2>1. PICK i \in {FirstAccepted(write_buffer)} \ {0} : ScheduleWrite(i)
      BY <1>5
    <2>2. QED
      BY <1>3, <1>5, <2>1
  <1>6. CASE /\ \E i \in {FirstAccepted(read_queue)} \ {0} : ScheduleRead(i)
             /\ UNCHANGED <<write_buffer, write_draining>>
    BY <1>4, <1>6
  <1>7. CASE write_draining' = Draining /\ UNCHANGED <<read_queue, write_buffer, queues>>
    BY <1>2, <1>7
  <1>8. QED
    BY <1>5, <1>6, <1>7 DEF ScheduleTransaction

LEMMA AddCommandTyped ==
    ASSUME TypeOK, NEW a \in Addr, NEW w \in BOOLEAN, AddCommand(a, w),
           Len(queues[BankOf(a)]) < CmdQueueSize
    PROVE  /\ queues' \in [Banks -> Seq(Request)]
           /\ \A b \in Banks : Len(queues'[b]) <= CmdQueueSize
  <1> DEFINE e == [addr |-> a, is_write |-> w]
             q == Append(queues[BankOf(a)], e)
  <1>1. BankOf(a) \in Banks /\ e \in Request /\ CmdQueueSize \in Nat
    BY Mapped, DramAssumption DEF Request
  <1>2. /\ queues \in [Banks -> Seq(Request)]
        /\ \A b \in Banks : Len(queues[b]) <= CmdQueueSize
    BY DEF TypeOK
  <1> HIDE DEF e
  <1>3. q \in Seq(Request) /\ Len(q) <= CmdQueueSize
    BY <1>1, <1>2
  <1>4. queues' = [queues EXCEPT ![BankOf(a)] = q]
    BY <1>1, <1>2 DEF AddCommand, e
  <1> HIDE DEF q
  <1>5. QED
    BY <1>1, <1>2, <1>3, <1>4

LEMMA ScheduleTyped ==
    ASSUME TypeOK, ScheduleTransaction
    PROVE  TypeOK'
  <1>1. AdvanceClock
    BY DEF ScheduleTransaction
  <1>2. /\ timing' \in [Banks -> [CmdTypes -> Nat]]
        /\ four_aw' \in [0 .. Ranks - 1 -> Seq(Nat)]
        /\ \A r \in 0 .. Ranks - 1 : Len(four_aw'[r]) <= ActivateLimit
        /\ return_queue' \in Seq(Transaction)
        /\ resp_read' \in Seq(Response) /\ resp_write' \in Seq(Response)
    BY <1>1, AdvanceTyped
  <1>3. /\ read_queue \in Seq(Addr) /\ Len(read_queue) <= TransQueueSize
        /\ write_buffer \in Seq(Addr) /\ Len(write_buffer) <= TransQueueSize
        /\ Len(read_queue) \in Nat /\ Len(write_buffer) \in Nat /\ TransQueueSize \in Nat
        /\ queues \in [Banks -> Seq(Request)]
        /\ \A b \in Banks : Len(queues[b]) <= CmdQueueSize
        /\ write_draining \in 0 .. Len(write_buffer)
    BY DramAssumption DEF TypeOK
  <1>4. /\ read_queue' \in Seq(Addr) /\ Len(read_queue') <= TransQueueSize
        /\ write_buffer' \in Seq(Addr) /\ Len(write_buffer') <= TransQueueSize
        /\ write_draining' \in 0 .. Len(write_buffer')
        /\ queues' \in [Banks -> Seq(Request)]
        /\ \A b \in Banks : Len(queues'[b]) <= CmdQueueSize
    <2>1. CASE /\ UNCHANGED <<read_queue, write_buffer, queues>>
               /\ write_draining' \in 0 .. Len(write_buffer)
      BY <1>3, <2>1
    <2>2. CASE \E i \in 1 .. Len(write_buffer) :
                 /\ Len(queues[BankOf(write_buffer[i])]) < CmdQueueSize
                 /\ AddCommand(write_buffer[i], TRUE)
                 /\ write_buffer' = RemoveAt(write_buffer, i)
                 /\ write_draining' \in 0 .. Len(write_buffer) - 1
                 /\ read_queue' = read_queue
      <3>1. PICK i \in 1 .. Len(write_buffer) :
                 /\ Len(queues[BankOf(write_buffer[i])]) < CmdQueueSize
                 /\ AddCommand(write_buffer[i], TRUE)
                 /\ write_buffer' = RemoveAt(write_buffer, i)
                 /\ write_draining' \in 0 .. Len(write_buffer) - 1
                 /\ read_queue' = read_queue
        BY <2>2
      <3>2. write_buffer[i] \in Addr
        BY <1>3
      <3>3. /\ RemoveAt(write_buffer, i) \in Seq(Addr)
            /\ Len(RemoveAt(write_buffer, i)) = Len(write_buffer) - 1
        BY <1>3, RemoveAtParts
      <3>4. /\ queues' \in [Banks -> Seq(Request)]
            /\ \A b \in Banks : Len(queues'[b]) <= CmdQueueSize
        BY <3>1, <3>2, AddCommandTyped
      <3>5. QED
        BY <1>3, <3>1, <3>3, <3>4
    <2>3. CASE \E i \in 1 .. Len(read_queue) :
                 /\ Len(queues[BankOf(read_queue[i])]) < CmdQueueSize
                 /\ AddCommand(read_queue[i], FALSE)
                 /\ read_queue' = RemoveAt(read_queue, i)
                 /\ UNCHANGED <<write_buffer, write_draining>>
      <3>1. PICK i \in 1 .. Len(read_queue) :
                 /\ Len(queues[BankOf(read_queue[i])]) < CmdQueueSize
                 /\ AddCommand(read_queue[i], FALSE)
                 /\ read_queue' = RemoveAt(read_queue, i)
                 /\ UNCHANGED <<write_buffer, write_draining>>
        BY <2>3
      <3>2. read_queue[i] \in Addr
        BY <1>3
      <3>3. /\ RemoveAt(read_queue, i) \in Seq(Addr)
            /\ Len(RemoveAt(read_queue, i)) = Len(read_queue) - 1
        BY <1>3, RemoveAtParts
      <3>4. /\ queues' \in [Banks -> Seq(Request)]
            /\ \A b \in Banks : Len(queues'[b]) <= CmdQueueSize
        BY <3>1, <3>2, AddCommandTyped
      <3>5. QED
        BY <1>3, <3>1, <3>3, <3>4
    <2>4. QED
      BY <2>1, <2>2, <2>3, ScheduleMoves
  <1>5. /\ phase' = "idle"
        /\ UNCHANGED <<config, req_list, pending_rd, pending_wr, queue_idx, is_in_ref,
                       ref_q_indices, bank, refresh_q, refresh_in, next_ref>>
    BY DEF ScheduleTransaction, inRefVars, refVars
  <1>6. QED
    BY <1>2, <1>4, <1>5 DEF TypeOK

LEMMA InitTyped == Init => TypeOK
  <1> SUFFICES ASSUME Init PROVE TypeOK
    OBVIOUS
  <1>1. refresh_in \in Nat /\ queue_idx \in Banks /\ next_ref \in Banks
    BY IntervalTyped, Shape DEF Init
  <1>2. bank \in [Banks -> [row : Rows \cup {NoRow}, hits : 0 .. RowHitLimit]]
    BY ShapeAssumption DEF Init, ClosedBank
  <1>3. timing \in [Banks -> [CmdTypes -> Nat]]
    BY DEF Init
  <1>4. /\ four_aw \in [0 .. Ranks - 1 -> Seq(Nat)]
        /\ \A r \in 0 .. Ranks - 1 : Len(four_aw[r]) <= ActivateLimit
    BY DramAssumption DEF Init
  <1>5. /\ queues \in [Banks -> Seq(Request)] /\ \A b \in Banks : Len(queues[b]) <= CmdQueueSize
    BY DramAssumption DEF Init
  <1>6. TransQueueSize \in Nat
    BY DramAssumption
  <1>7. QED
    BY <1>1, <1>2, <1>3, <1>4, <1>5, <1>6 DEF Init, TypeOK

\* The types of Dram hold in every state: the queues of the controller and of
\* every bank keep their capacity, the activation windows stay within the
\* limit, and write draining never exceeds what is in the buffer.
THEOREM TypeCorrect == Spec => []TypeOK
  <1>1. Init => TypeOK
    BY InitTyped
  <1>2. TypeOK /\ [Next]_vars => TypeOK'
    <2> SUFFICES ASSUME TypeOK, [Next]_vars PROVE TypeOK'
      OBVIOUS
    <2>1. CASE \E a \in config.addrs : AddRead(a) \/ AddWrite(a)
      BY <2>1, AddTyped
    <2>2. CASE TakeRead \/ TakeWrite
      BY <2>2, TakeTyped
    <2>3. CASE ReturnDoneTrans
      BY <2>3, ReturnTyped
    <2>4. CASE RefreshClockTick
      BY <2>4, RefreshTickTyped
    <2>5. CASE IssueForRefresh
      BY <2>5, IssueRefreshTyped
    <2>6. CASE IssueQueued
      BY <2>6, IssueQueuedTyped
    <2>7. CASE IssueNothing
      BY <2>7, IssueNothingTyped
    <2>8. CASE ScheduleTransaction
      BY <2>8, ScheduleTyped
    <2>9. CASE UNCHANGED vars
      BY <2>9 DEF TypeOK, vars, cosimVars, transVars, pendVars, cmdVars, inRefVars, bankVars,
                  refVars
    <2>10. QED
      BY <2>1, <2>2, <2>3, <2>4, <2>5, <2>6, <2>7, <2>8, <2>9 DEF Next, Clock
  <1>3. QED
    BY <1>1, <1>2, PTL DEF Spec

----------------------------------------------------------------------------
(* The inductive invariant behind NoAbort and PendingMatchesQueues.        *)

Entry(a, w)   == {[addr |-> a, is_write |-> w]}
Returns(a, w) == {t \in Transaction : t.addr = a /\ t.is_write = w}

\* Where the transactions of an address are, and what is recorded of them.
InTransQueue(a, w) == CountIn(IF w THEN write_buffer ELSE read_queue, {a})
InCmdQueue(a, w)   == CountIn(queues[BankOf(a)], Entry(a, w))
Unanswered(a, w)   == CountIn(req_list, Entry(a, w))
Returning(a, w)    == CountIn(return_queue, Returns(a, w))
NotIssued(a, w)    == IF w THEN 0 ELSE pending_rd[a]
IsPending(a, w)    == IF w THEN a \in pending_wr ELSE pending_rd[a] > 0

\* A pending address has one transaction in the queues, any other has none.
PendingInv ==
    \A a \in Addr, w \in BOOLEAN :
        InTransQueue(a, w) + InCmdQueue(a, w) = IF IsPending(a, w) THEN 1 ELSE 0

\* The queue of a bank holds transactions of that bank only.
HomeInv ==
    \A b \in Banks : \A i \in 1 .. Len(queues[b]) : BankOf(queues[b][i].addr) = b

\* The co-simulation layer waits for exactly the answers that are to come: a
\* read that is not issued yet, a transaction that is about to return.
RequestInv ==
    \A a \in Addr, w \in BOOLEAN : Unanswered(a, w) = NotIssued(a, w) + Returning(a, w)

DramInv == TypeOK /\ NoAbort /\ PendingInv /\ HomeInv /\ RequestInv

LEMMA EntryOf ==
    ASSUME NEW e \in Request, NEW a, NEW w
    PROVE  e \in Entry(a, w) <=> e.addr = a /\ e.is_write = w
  BY DEF Request, Entry

LEMMA ReturnsOf ==
    ASSUME NEW t \in Transaction, NEW a, NEW w
    PROVE  t \in Returns(a, w) <=> t.addr = a /\ t.is_write = w
  BY DEF Returns

LEMMA Sequences ==
    ASSUME TypeOK
    PROVE  /\ read_queue \in Seq(Addr) /\ write_buffer \in Seq(Addr)
           /\ req_list \in Seq(Request) /\ return_queue \in Seq(Transaction)
           /\ \A b \in Banks : queues[b] \in Seq(Request)
           /\ pending_rd \in [Addr -> Nat]
           /\ config.addrs \subseteq Addr
           /\ DOMAIN queues = Banks
  BY Mapped DEF TypeOK

LEMMA CountTypes ==
    ASSUME TypeOK, NEW a \in Addr, NEW w \in BOOLEAN
    PROVE  /\ InTransQueue(a, w) \in Nat /\ InCmdQueue(a, w) \in Nat
           /\ Unanswered(a, w) \in Nat /\ Returning(a, w) \in Nat /\ NotIssued(a, w) \in Nat
  <1>1. BankOf(a) \in Banks
    BY Mapped
  <1>2. QED
    BY <1>1, Sequences, CountNat DEF InTransQueue, InCmdQueue, Unanswered, Returning, NotIssued

----------------------------------------------------------------------------
(* Requests that arrive.                                                   *)

LEMMA AddPending ==
    ASSUME TypeOK, PendingInv, NEW a \in config.addrs, AddRead(a) \/ AddWrite(a)
    PROVE  PendingInv'
  <1>1. /\ a \in Addr /\ read_queue \in Seq(Addr) /\ write_buffer \in Seq(Addr)
        /\ pending_rd \in [Addr -> Nat]
    BY Sequences
  <1> SUFFICES ASSUME NEW b \in Addr, NEW w \in BOOLEAN
               PROVE  (InTransQueue(b, w) + InCmdQueue(b, w)
                         = IF IsPending(b, w) THEN 1 ELSE 0)'
    BY DEF PendingInv
  <1>2. /\ InTransQueue(b, w) \in Nat /\ InCmdQueue(b, w) \in Nat
        /\ InTransQueue(b, w) + InCmdQueue(b, w) = IF IsPending(b, w) THEN 1 ELSE 0
    BY CountTypes DEF PendingInv
  <1>3. InCmdQueue(b, w)' = InCmdQueue(b, w)
    BY DEF AddRead, AddWrite, cmdVars, InCmdQueue
  <1>4. CASE /\ InTransQueue(b, w)' = InTransQueue(b, w)
             /\ IsPending(b, w)' = IsPending(b, w)
    BY <1>2, <1>3, <1>4
  <1>5. CASE /\ InTransQueue(b, w)' = InTransQueue(b, w) + 1
             /\ ~IsPending(b, w) /\ IsPending(b, w)'
    BY <1>2, <1>3, <1>5
  <1>6. CASE AddRead(a)
    <2>1. UNCHANGED <<write_buffer, pending_wr>>
      BY <1>6 DEF AddRead
    <2>2. CASE w = TRUE
      BY <1>4, <2>1, <2>2 DEF InTransQueue, IsPending
    <2>3. CASE w = FALSE /\ UNCHANGED <<pending_rd, read_queue>>
      BY <1>4, <2>3 DEF InTransQueue, IsPending
    <2>4. CASE /\ w = FALSE
               /\ pending_rd' = [pending_rd EXCEPT ![a] = @ + 1]
               /\ read_queue' = IF pending_rd[a] = 0 THEN Append(read_queue, a) ELSE read_queue
      <3>1. pending_rd'[b] = IF a = b THEN pending_rd[b] + 1 ELSE pending_rd[b]
        BY <1>1, <2>4
      <3>2. pending_rd[b] \in Nat
        BY <1>1
      <3>3. CASE pending_rd[a] > 0 \/ a # b
        <4>1. IsPending(b, w)' = IsPending(b, w)
          BY <2>4, <3>1, <3>2, <3>3 DEF IsPending
        <4>2. CountIn(Append(read_queue, a), {b})
                = CountIn(read_queue, {b}) + IF a \in {b} THEN 1 ELSE 0
          BY <1>1, CountAppend
        <4>3. CountIn(read_queue, {b}) \in Nat
          BY <1>1, CountNat
        <4>4. CountIn(read_queue', {b}) = CountIn(read_queue, {b})
          BY <2>4, <3>3, <4>2, <4>3
        <4>5. QED
          BY <1>4, <2>4, <4>1, <4>4 DEF InTransQueue
      <3>4. CASE ~(pending_rd[a] > 0) /\ a = b
        <4>1. ~IsPending(b, w) /\ IsPending(b, w)' /\ pending_rd[a] = 0
          BY <1>1, <2>4, <3>1, <3>2, <3>4 DEF IsPending
        <4>2. CountIn(Append(read_queue, a), {b})
                = CountIn(read_queue, {b}) + IF a \in {b} THEN 1 ELSE 0
          BY <1>1, CountAppend
        <4>3. CountIn(read_queue', {b}) = CountIn(read_queue, {b}) + 1
          BY <2>4, <3>4, <4>1, <4>2
        <4>4. QED
          BY <1>5, <2>4, <4>1, <4>3 DEF InTransQueue
      <3>5. QED
        BY <3>3, <3>4
    <2>5. QED
      BY <1>6, <2>2, <2>3, <2>4 DEF AddRead
  <1>7. CASE AddWrite(a)
    <2>1. /\ UNCHANGED <<read_queue, pending_rd>>
          /\ write_buffer' = IF a \in pending_wr THEN write_buffer ELSE Append(write_buffer, a)
          /\ pending_wr' = pending_wr \cup {a}
      BY <1>7 DEF AddWrite
    <2>2. CASE w = FALSE
      BY <1>4, <2>1, <2>2 DEF InTransQueue, IsPending
    <2>3. CASE w = TRUE /\ (a \in pending_wr \/ a # b)
      <3>1. CountIn(Append(write_buffer, a), {b})
              = CountIn(write_buffer, {b}) + IF a \in {b} THEN 1 ELSE 0
        BY <1>1, CountAppend
      <3>2. CountIn(write_buffer, {b}) \in Nat
        BY <1>1, CountNat
      <3>3. CountIn(write_buffer', {b}) = CountIn(write_buffer, {b})
        BY <2>1, <2>3, <3>1, <3>2
      <3>4. IsPending(b, w)' = IsPending(b, w)
        BY <2>1, <2>3 DEF IsPending
      <3>5. QED
        BY <1>4, <2>3, <3>3, <3>4 DEF InTransQueue
    <2>4. CASE w = TRUE /\ ~(a \in pending_wr) /\ a = b
      <3>1. CountIn(Append(write_buffer, a), {b})
              = CountIn(write_buffer, {b}) + IF a \in {b} THEN 1 ELSE 0
        BY <1>1, CountAppend
      <3>2. CountIn(write_buffer', {b}) = CountIn(write_buffer, {b}) + 1
        BY <2>1, <2>4, <3>1
      <3>3. ~IsPending(b, w) /\ IsPending(b, w)'
        BY <2>1, <2>4 DEF IsPending
      <3>4. QED
        BY <1>5, <2>4, <3>2, <3>3 DEF InTransQueue
    <2>5. QED
      BY <2>2, <2>3, <2>4
  <1>8. QED
    BY <1>6, <1>7

\* A request that is accepted is answered at once, or becomes a pending read.
LEMMA AddRequests ==
    ASSUME TypeOK, RequestInv, NEW a \in config.addrs, AddRead(a) \/ AddWrite(a)
    PROVE  RequestInv'
  <1>1. /\ a \in Addr /\ req_list \in Seq(Request) /\ return_queue \in Seq(Transaction)
        /\ pending_rd \in [Addr -> Nat]
    BY Sequences
  <1> SUFFICES ASSUME NEW b \in Addr, NEW v \in BOOLEAN
               PROVE  (Unanswered(b, v) = NotIssued(b, v) + Returning(b, v))'
    BY DEF RequestInv
  <1>2. /\ Unanswered(b, v) \in Nat /\ NotIssued(b, v) \in Nat /\ Returning(b, v) \in Nat
        /\ Unanswered(b, v) = NotIssued(b, v) + Returning(b, v)
    BY CountTypes DEF RequestInv
  <1>3. ASSUME NEW w \in BOOLEAN,
               req_list' = Append(req_list, [addr |-> a, is_write |-> w])
        PROVE  Unanswered(b, v)' = Unanswered(b, v) + IF a = b /\ v = w THEN 1 ELSE 0
    <2> DEFINE e == [addr |-> a, is_write |-> w]
    <2>1. e \in Request /\ (e \in Entry(b, v) <=> a = b /\ v = w)
      BY <1>1 DEF Request, Entry
    <2> HIDE DEF e
    <2>2. CountIn(Append(req_list, e), Entry(b, v))
            = CountIn(req_list, Entry(b, v)) + IF e \in Entry(b, v) THEN 1 ELSE 0
      BY <1>1, <2>1, CountAppend
    <2>3. req_list' = Append(req_list, e)
      BY <1>3 DEF e
    <2>4. QED
      BY <2>1, <2>2, <2>3 DEF Unanswered
  <1>4. ASSUME NEW w \in BOOLEAN, AnswerSoon(a, w)
        PROVE  Returning(b, v)' = Returning(b, v) + IF a = b /\ v = w THEN 1 ELSE 0
    <2> DEFINE t == [addr |-> a, is_write |-> w, wait |-> 1]
    <2>1. t \in Transaction /\ (t \in Returns(b, v) <=> a = b /\ v = w)
      BY <1>1 DEF Transaction, Returns
    <2> HIDE DEF t
    <2>2. CountIn(Append(return_queue, t), Returns(b, v))
            = CountIn(return_queue, Returns(b, v)) + IF t \in Returns(b, v) THEN 1 ELSE 0
      BY <1>1, <2>1, CountAppend
    <2>3. return_queue' = Append(return_queue, t)
      BY <1>4 DEF t, AnswerSoon
    <2>4. QED
      BY <2>1, <2>2, <2>3 DEF Returning
  <1>5. CASE AddWrite(a)
    <2>1. NotIssued(b, v)' = NotIssued(b, v)
      BY <1>5 DEF AddWrite, NotIssued
    <2>2. Unanswered(b, v)' = Unanswered(b, v) + IF a = b /\ v = TRUE THEN 1 ELSE 0
      BY <1>3, <1>5 DEF AddWrite, AddRequest
    <2>3. Returning(b, v)' = Returning(b, v) + IF a = b /\ v = TRUE THEN 1 ELSE 0
      BY <1>4, <1>5 DEF AddWrite
    <2>4. QED
      BY <1>2, <2>1, <2>2, <2>3
  <1>6. CASE AddRead(a)
    <2>1. Unanswered(b, v)' = Unanswered(b, v) + IF a = b /\ v = FALSE THEN 1 ELSE 0
      BY <1>3, <1>6 DEF AddRead, AddRequest
    <2>2. CASE AnswerSoon(a, FALSE) /\ pending_rd' = pending_rd
      <3>1. NotIssued(b, v)' = NotIssued(b, v)
        BY <2>2 DEF NotIssued
      <3>2. Returning(b, v)' = Returning(b, v) + IF a = b /\ v = FALSE THEN 1 ELSE 0
        BY <1>4, <2>2
      <3>3. QED
        BY <1>2, <2>1, <3>1, <3>2
    <2>3. CASE /\ return_queue' = return_queue
               /\ pending_rd' = [pending_rd EXCEPT ![a] = @ + 1]
      <3>1. Returning(b, v)' = Returning(b, v)
        BY <2>3 DEF Returning
      <3>2. NotIssued(b, v)' = NotIssued(b, v) + IF a = b /\ v = FALSE THEN 1 ELSE 0
        BY <1>1, <1>2, <2>3 DEF NotIssued
      <3>3. QED
        BY <1>2, <2>1, <3>1, <3>2
    <2>4. QED
      BY <1>6, <2>2, <2>3 DEF AddRead
  <1>7. QED
    BY <1>5, <1>6

----------------------------------------------------------------------------
(* Answers.                                                                *)

\* A transaction that is done always finds the request it answers.
LEMMA Returned ==
    ASSUME TypeOK, RequestInv, ReturnDoneTrans
    PROVE  \E d \in 1 .. Len(return_queue), i \in 1 .. Len(req_list) :
             /\ req_list[i].addr = return_queue[d].addr
             /\ req_list[i].is_write = return_queue[d].is_write
             /\ return_queue' = RemoveAt(return_queue, d)
             /\ req_list' = RemoveAt(req_list, i)
             /\ resp_read' = IF return_queue[d].is_write THEN resp_read
                             ELSE Append(resp_read, [addr |-> return_queue[d].addr, wait |-> Padding])
             /\ resp_write' = IF return_queue[d].is_write
                              THEN Append(resp_write, [addr |-> return_queue[d].addr, wait |-> Padding])
                              ELSE resp_write
             /\ phase' = "return"
  <1> DEFINE d == Done
             t == return_queue[d]
             I == {j \in 1 .. Len(req_list) :
                     req_list[j].addr = t.addr /\ req_list[j].is_write = t.is_write}
             i == SelectInSeq(req_list, LAMBDA r : r.addr = t.addr /\ r.is_write = t.is_write)
  <1>1. /\ req_list \in Seq(Request) /\ return_queue \in Seq(Transaction)
    BY Sequences
  <1>2. d \in 1 .. Len(return_queue) /\ return_queue' = RemoveAt(return_queue, d) /\ Callback(t)
    BY <1>1, DoneTyped DEF ReturnDoneTrans
  <1>3. i = IF I # {} THEN Min(I) ELSE 0
    BY DEF SelectInSeq
  <1>4. \/ i = 0
        \/ /\ i # 0
           /\ req_list' = RemoveAt(req_list, i)
           /\ resp_read' = IF t.is_write THEN resp_read
                           ELSE Append(resp_read, [addr |-> t.addr, wait |-> Padding])
           /\ resp_write' = IF t.is_write
                            THEN Append(resp_write, [addr |-> t.addr, wait |-> Padding])
                            ELSE resp_write
           /\ phase' = "return"
    BY <1>2 DEF Callback
  <1> HIDE DEF d, i
  <1>5. t \in Transaction /\ t.addr \in Addr /\ t.is_write \in BOOLEAN
    <2>1. t \in Transaction
      BY <1>1, <1>2
    <2>2. QED
      BY <2>1 DEF Transaction
  <1>6. \E j \in 1 .. Len(req_list) : req_list[j] \in Entry(t.addr, t.is_write)
    <2> DEFINE a == t.addr
               w == t.is_write
    <2>1. t \in Returns(a, w)
      BY <1>5 DEF Returns
    <2> HIDE DEF a, w
    <2>2. Returning(a, w) > 0
      BY <1>1, <1>2, <2>1, CountNat DEF Returning
    <2>3. a \in Addr /\ w \in BOOLEAN
      BY <1>5 DEF a, w
    <2>4. /\ Unanswered(a, w) = NotIssued(a, w) + Returning(a, w)
          /\ NotIssued(a, w) \in Nat /\ Returning(a, w) \in Nat
      BY <2>3, CountTypes DEF RequestInv
    <2>5. CountIn(req_list, Entry(a, w)) > 0
      BY <2>2, <2>4 DEF Unanswered
    <2>6. \E j \in 1 .. Len(req_list) : req_list[j] \in Entry(a, w)
      BY <1>1, <2>5, CountNat
    <2>7. QED
      BY <2>6 DEF a, w
  <1>7. I # {} /\ I \in SUBSET Nat
    <2>1. PICK j \in 1 .. Len(req_list) : req_list[j] \in Entry(t.addr, t.is_write)
      BY <1>6
    <2>2. req_list[j].addr = t.addr /\ req_list[j].is_write = t.is_write
      BY <2>1 DEF Entry
    <2>3. QED
      BY <2>2
  <1>8. i \in I
    BY <1>3, <1>7, MinInSet
  <1>9. i \in 1 .. Len(req_list) /\ i # 0
    BY <1>8
  <1>10. QED
    BY <1>2, <1>4, <1>8, <1>9

LEMMA ReturnRequests ==
    ASSUME TypeOK, RequestInv, ReturnDoneTrans
    PROVE  RequestInv'
  <1>1. PICK d \in 1 .. Len(return_queue), i \in 1 .. Len(req_list) :
             /\ req_list[i].addr = return_queue[d].addr
             /\ req_list[i].is_write = return_queue[d].is_write
             /\ return_queue' = RemoveAt(return_queue, d)
             /\ req_list' = RemoveAt(req_list, i)
    BY Returned
  <1>2. req_list \in Seq(Request) /\ return_queue \in Seq(Transaction)
    BY Sequences
  <1> SUFFICES ASSUME NEW b \in Addr, NEW v \in BOOLEAN
               PROVE  (Unanswered(b, v) = NotIssued(b, v) + Returning(b, v))'
    BY DEF RequestInv
  <1>3. /\ Unanswered(b, v) \in Nat /\ NotIssued(b, v) \in Nat /\ Returning(b, v) \in Nat
        /\ Unanswered(b, v) = NotIssued(b, v) + Returning(b, v)
    BY CountTypes DEF RequestInv
  <1>4. req_list[i] \in Entry(b, v) <=> return_queue[d] \in Returns(b, v)
    <2>1. req_list[i] \in Request /\ return_queue[d] \in Transaction
      BY <1>2
    <2>2. QED
      BY <1>1, <2>1, EntryOf, ReturnsOf
  <1>5. Unanswered(b, v)' = Unanswered(b, v) - IF req_list[i] \in Entry(b, v) THEN 1 ELSE 0
    BY <1>1, <1>2, CountRemove DEF Unanswered
  <1>6. Returning(b, v)' = Returning(b, v) - IF return_queue[d] \in Returns(b, v) THEN 1 ELSE 0
    BY <1>1, <1>2, CountRemove DEF Returning
  <1>7. NotIssued(b, v)' = NotIssued(b, v)
    BY DEF ReturnDoneTrans, NotIssued
  <1>8. QED
    BY <1>3, <1>4, <1>5, <1>6, <1>7

----------------------------------------------------------------------------
(* Commands that leave a queue.                                            *)

\* IssueQueued issues a legal command. A column command belongs to a pending
\* transaction, which it removes from its queue; any other removes nothing.
LEMMA QueuedLegal ==
    ASSUME TypeOK, PendingInv, HomeInv, IssueQueued
    PROVE  \E b \in Banks : \E i \in 1 .. Len(queues[b]) :
             \/ /\ UNCHANGED <<queues, pending_rd, pending_wr, return_queue>>
                /\ phase' = "schedule"
             \/ LET e == queues[b][i]
                IN  /\ e \in Request /\ BankOf(e.addr) = b
                    /\ IsPending(e.addr, e.is_write)
                    /\ queues' = [queues EXCEPT ![b] = RemoveAt(queues[b], i)]
                    /\ phase' = "schedule"
                    /\ pending_wr' = IF e.is_write THEN pending_wr \ {e.addr} ELSE pending_wr
                    /\ pending_rd' = IF e.is_write THEN pending_rd
                                     ELSE [pending_rd EXCEPT ![e.addr] = 0]
                    /\ return_queue' =
                         IF e.is_write THEN return_queue
                         ELSE return_queue \o
                                [n \in 1 .. pending_rd[e.addr] |->
                                   [addr |-> e.addr, is_write |-> FALSE, wait |-> read_delay]]
  <1>1. PICK b \in Banks : \E i, j \in 1 .. Len(queues[b]) : \E t \in CmdTypes :
             /\ t = Needed(b, ColumnCmd(queues[b][i].is_write), RowOf(queues[b][i].addr))
             /\ queues[b][j] = queues[b][i]
             /\ IssueCommand(t, b, queues[b][i].addr, RowOf(queues[b][i].addr))
             /\ queues' = IF t \in ColumnCmds
                          THEN [queues EXCEPT ![b] = RemoveAt(queues[b], j)]
                          ELSE queues
    BY QueuedCommand
  <1>2. PICK i \in 1 .. Len(queues[b]), j \in 1 .. Len(queues[b]), t \in CmdTypes :
             /\ t = Needed(b, ColumnCmd(queues[b][i].is_write), RowOf(queues[b][i].addr))
             /\ queues[b][j] = queues[b][i]
             /\ IssueCommand(t, b, queues[b][i].addr, RowOf(queues[b][i].addr))
             /\ queues' = IF t \in ColumnCmds
                          THEN [queues EXCEPT ![b] = RemoveAt(queues[b], j)]
                          ELSE queues
    BY <1>1
  <1> DEFINE e == queues[b][j]
             c == ColumnCmd(e.is_write)
  <1>3. e \in Request /\ e.addr \in Addr /\ e.is_write \in BOOLEAN /\ BankOf(e.addr) = b
    <2>1. queues[b] \in Seq(Request)
      BY Sequences
    <2>2. e \in Request
      BY <2>1
    <2>3. QED
      BY <2>2 DEF Request, HomeInv
  <1>4. /\ t = RequiredType(bank[b], c, RowOf(e.addr))
        /\ IssueCommand(t, b, e.addr, RowOf(e.addr))
        /\ queues' = IF t \in ColumnCmds THEN [queues EXCEPT ![b] = RemoveAt(queues[b], j)]
                     ELSE queues
    BY <1>2 DEF Needed
  <1>5. c \in IF e.is_write THEN WriteCmds ELSE ReadCmds
    BY DEF ColumnCmd, ReadCmds, WriteCmds
  <1> HIDE DEF c
  <1>6. c \in ColumnCmds
    BY <1>5 DEF ColumnCmds
  <1>7. t \in {c, "ACTIVATE", "PRECHARGE"} /\ Legal(bank[b], t)
    BY <1>4, <1>6, RequiredLegal
  <1>8. LegalNow(t, b)
    <2>1. t # "REFRESH"
      BY <1>6, <1>7 DEF ColumnCmds, ReadCmds, WriteCmds
    <2>2. QED
      BY <1>7, <2>1 DEF LegalNow
  <1>9. IsPending(e.addr, e.is_write)
    <2>1. e \in Entry(e.addr, e.is_write)
      BY <1>3, EntryOf
    <2>2. InCmdQueue(e.addr, e.is_write) > 0
      <3>1. queues[b] \in Seq(Request)
        BY Sequences
      <3>2. CountIn(queues[b], Entry(e.addr, e.is_write)) > 0
        BY <2>1, <3>1, CountNat
      <3>3. QED
        BY <1>3, <3>2 DEF InCmdQueue
    <2>3. /\ InTransQueue(e.addr, e.is_write) \in Nat /\ InCmdQueue(e.addr, e.is_write) \in Nat
          /\ InTransQueue(e.addr, e.is_write) + InCmdQueue(e.addr, e.is_write)
               = IF IsPending(e.addr, e.is_write) THEN 1 ELSE 0
      BY <1>3, CountTypes DEF PendingInv
    <2>4. QED
      BY <2>2, <2>3
  <1>10. CASE t = c
    <2>1. t \in ColumnCmds /\ queues' = [queues EXCEPT ![b] = RemoveAt(queues[b], j)]
      BY <1>4, <1>6, <1>10
    <2>2. CASE e.is_write
      <3>1. t \in WriteCmds /\ t \notin ReadCmds
        BY <1>5, <1>10, <2>2 DEF ReadCmds, WriteCmds
      <3>2. e.addr \in pending_wr
        BY <1>9, <2>2 DEF IsPending
      <3>3. /\ pending_wr' = pending_wr \ {e.addr} /\ UNCHANGED <<pending_rd, return_queue>>
            /\ phase' = "schedule"
        BY <1>4, <1>8, <2>1, <3>1, <3>2 DEF IssueCommand
      <3>4. QED
        BY <1>3, <1>9, <2>1, <2>2, <3>3
    <2>3. CASE ~e.is_write
      <3>1. t \in ReadCmds /\ t \notin WriteCmds
        BY <1>5, <1>10, <2>3 DEF ReadCmds, WriteCmds
      <3>2. pending_rd[e.addr] > 0
        BY <1>9, <2>3 DEF IsPending
      <3>3. /\ pending_wr' = pending_wr /\ pending_rd' = [pending_rd EXCEPT ![e.addr] = 0]
            /\ return_queue' = return_queue \o
                   [n \in 1 .. pending_rd[e.addr] |->
                      [addr |-> e.addr, is_write |-> FALSE, wait |-> read_delay]]
            /\ phase' = "schedule"
        BY <1>4, <1>8, <2>1, <3>1, <3>2 DEF IssueCommand
      <3>4. QED
        BY <1>3, <1>9, <2>1, <2>3, <3>3
    <2>4. QED
      BY <2>2, <2>3
  <1>11. CASE t # c
    <2>1. t \notin ColumnCmds /\ t \notin ReadCmds /\ t \notin WriteCmds
      BY <1>7, <1>11 DEF ColumnCmds, ReadCmds, WriteCmds
    <2>2. UNCHANGED pendVars /\ phase' = "schedule" /\ queues' = queues
      BY <1>4, <1>8, <2>1 DEF IssueCommand
    <2>3. QED
      BY <2>2 DEF pendVars
  <1>12. QED
    BY <1>10, <1>11

\* The queue of a bank loses a transaction.
LEMMA QueueLoses ==
    ASSUME TypeOK, NEW c \in Banks, NEW i \in 1 .. Len(queues[c]), NEW e, e = queues[c][i],
           BankOf(e.addr) = c, queues' = [queues EXCEPT ![c] = RemoveAt(queues[c], i)],
           NEW a \in Addr, NEW w \in BOOLEAN
    PROVE  InCmdQueue(a, w)' = InCmdQueue(a, w) - IF e.addr = a /\ e.is_write = w THEN 1 ELSE 0
  <1>1. /\ queues[c] \in Seq(Request) /\ e \in Request /\ BankOf(a) \in Banks
        /\ InCmdQueue(a, w) \in Nat /\ DOMAIN queues = Banks
    BY Mapped, Sequences, CountTypes
  <1>2. CASE BankOf(a) = c
    <2>1. queues'[BankOf(a)] = RemoveAt(queues[c], i)
      BY <1>1, <1>2
    <2>2. CountIn(RemoveAt(queues[c], i), Entry(a, w))
            = CountIn(queues[c], Entry(a, w)) - IF e \in Entry(a, w) THEN 1 ELSE 0
      BY <1>1, CountRemove
    <2>3. QED
      BY <1>1, <1>2, <2>1, <2>2, EntryOf DEF InCmdQueue
  <1>3. CASE BankOf(a) # c
    <2>1. queues'[BankOf(a)] = queues[BankOf(a)]
      BY <1>1, <1>3
    <2>2. InCmdQueue(a, w)' = InCmdQueue(a, w)
      BY <2>1 DEF InCmdQueue
    <2>3. e.addr # a
      BY <1>3
    <2>4. QED
      BY <1>1, <2>2, <2>3
  <1>4. QED
    BY <1>2, <1>3

\* No transaction of another bank enters a queue.
LEMMA LosesHome ==
    ASSUME TypeOK, HomeInv, NEW c \in Banks, NEW i \in 1 .. Len(queues[c]),
           queues' = [queues EXCEPT ![c] = RemoveAt(queues[c], i)]
    PROVE  HomeInv'
  <1>1. queues[c] \in Seq(Request) /\ DOMAIN queues = Banks
    BY Sequences
  <1> SUFFICES ASSUME NEW b \in Banks, NEW j \in 1 .. Len(queues'[b])
               PROVE  BankOf(queues'[b][j].addr) = b
    BY DEF HomeInv, BankOf
  <1>2. CASE b = c
    <2>1. queues'[b] = RemoveAt(queues[c], i)
      BY <1>1, <1>2
    <2>2. /\ j \in 1 .. (Len(queues[c]) - 1)
          /\ queues'[b][j] = IF j < i THEN queues[c][j] ELSE queues[c][j + 1]
      <3>1. /\ Len(RemoveAt(queues[c], i)) = Len(queues[c]) - 1
            /\ \A k \in 1 .. (Len(queues[c]) - 1) :
                 RemoveAt(queues[c], i)[k] = IF k < i THEN queues[c][k] ELSE queues[c][k + 1]
        BY <1>1, RemoveAtParts
      <3>2. QED
        BY <2>1, <3>1
    <2>3. PICK k \in 1 .. Len(queues[c]) : queues'[b][j] = queues[c][k]
      <3>1. Len(queues[c]) \in Nat /\ j \in Nat
        BY <1>1, <2>2
      <3>2. j \in 1 .. Len(queues[c]) /\ j + 1 \in 1 .. Len(queues[c])
        BY <2>2, <3>1
      <3>3. QED
        BY <2>2, <3>2
    <2>4. QED
      BY <1>2, <2>3 DEF HomeInv
  <1>3. CASE b # c
    BY <1>1, <1>3 DEF HomeInv
  <1>4. QED
    BY <1>2, <1>3

LEMMA IssueQueuedInv ==
    ASSUME TypeOK, PendingInv, HomeInv, RequestInv, IssueQueued
    PROVE  NoAbort' /\ PendingInv' /\ HomeInv' /\ RequestInv'
  <1>1. PICK c \in Banks : \E i \in 1 .. Len(queues[c]) :
             \/ /\ UNCHANGED <<queues, pending_rd, pending_wr, return_queue>>
                /\ phase' = "schedule"
             \/ LET e == queues[c][i]
                IN  /\ e \in Request /\ BankOf(e.addr) = c
                    /\ IsPending(e.addr, e.is_write)
                    /\ queues' = [queues EXCEPT ![c] = RemoveAt(queues[c], i)]
                    /\ phase' = "schedule"
                    /\ pending_wr' = IF e.is_write THEN pending_wr \ {e.addr} ELSE pending_wr
                    /\ pending_rd' = IF e.is_write THEN pending_rd
                                     ELSE [pending_rd EXCEPT ![e.addr] = 0]
                    /\ return_queue' =
                         IF e.is_write THEN return_queue
                         ELSE return_queue \o
                                [n \in 1 .. pending_rd[e.addr] |->
                                   [addr |-> e.addr, is_write |-> FALSE, wait |-> read_delay]]
    BY QueuedLegal
  <1>2. UNCHANGED <<req_list, read_queue, write_buffer>>
    BY DEF IssueQueued, cosimVars, transVars
  <1>3. NoAbort'
    BY <1>1 DEF NoAbort
  <1>4. CASE UNCHANGED <<queues, pending_rd, pending_wr, return_queue>>
    <2>1. PendingInv'
      BY <1>2, <1>4 DEF PendingInv, InTransQueue, InCmdQueue, IsPending
    <2>2. HomeInv'
      BY <1>4 DEF HomeInv, BankOf
    <2>3. RequestInv'
      BY <1>2, <1>4 DEF RequestInv, Unanswered, Returning, NotIssued
    <2>4. QED
      BY <1>3, <2>1, <2>2, <2>3
  <1>5. ASSUME NEW i \in 1 .. Len(queues[c]), NEW e, e = queues[c][i],
               e \in Request, BankOf(e.addr) = c, IsPending(e.addr, e.is_write),
               queues' = [queues EXCEPT ![c] = RemoveAt(queues[c], i)],
               pending_wr' = IF e.is_write THEN pending_wr \ {e.addr} ELSE pending_wr,
               pending_rd' = IF e.is_write THEN pending_rd ELSE [pending_rd EXCEPT ![e.addr] = 0],
               return_queue' =
                 IF e.is_write THEN return_queue
                 ELSE return_queue \o
                        [n \in 1 .. pending_rd[e.addr] |->
                           [addr |-> e.addr, is_write |-> FALSE, wait |-> read_delay]]
        PROVE  PendingInv' /\ HomeInv' /\ RequestInv'
    <2>1. e.addr \in Addr /\ e.is_write \in BOOLEAN
      BY <1>5 DEF Request
    <2>2. HomeInv'
      BY <1>5, LosesHome
    <2>3. ASSUME NEW a \in Addr, NEW w \in BOOLEAN
          PROVE  (InTransQueue(a, w) + InCmdQueue(a, w) = IF IsPending(a, w) THEN 1 ELSE 0)'
      <3>1. InCmdQueue(a, w)' =
              InCmdQueue(a, w) - IF e.addr = a /\ e.is_write = w THEN 1 ELSE 0
        BY <1>5, QueueLoses, ZenonT(40)
      <3>2. InTransQueue(a, w)' = InTransQueue(a, w)
        BY <1>2 DEF InTransQueue
      <3>3. /\ InTransQueue(a, w) \in Nat /\ InCmdQueue(a, w) \in Nat
            /\ InTransQueue(a, w) + InCmdQueue(a, w) = IF IsPending(a, w) THEN 1 ELSE 0
        BY CountTypes DEF PendingInv
      <3>4. pending_rd \in [Addr -> Nat]
        BY Sequences
      <3>5. CASE e.addr = a /\ e.is_write = w
        <4>1. IsPending(a, w) /\ ~IsPending(a, w)'
          BY <1>5, <2>1, <3>4, <3>5 DEF IsPending
        <4>2. QED
          BY <3>1, <3>2, <3>3, <3>5, <4>1
      <3>6. CASE ~(e.addr = a /\ e.is_write = w)
        <4>1. IsPending(a, w)' = IsPending(a, w)
          BY <1>5, <2>1, <3>4, <3>6 DEF IsPending
        <4>2. QED
          BY <3>1, <3>2, <3>3, <3>6, <4>1
      <3>7. QED
        BY <3>5, <3>6
    <2>4. ASSUME NEW a \in Addr, NEW w \in BOOLEAN
          PROVE  (Unanswered(a, w) = NotIssued(a, w) + Returning(a, w))'
      <3>1. /\ Unanswered(a, w) \in Nat /\ NotIssued(a, w) \in Nat /\ Returning(a, w) \in Nat
            /\ Unanswered(a, w) = NotIssued(a, w) + Returning(a, w)
        BY CountTypes DEF RequestInv
      <3>2. Unanswered(a, w)' = Unanswered(a, w)
        BY <1>2 DEF Unanswered
      <3>3. CASE e.is_write
        <4>1. NotIssued(a, w)' = NotIssued(a, w) /\ Returning(a, w)' = Returning(a, w)
          BY <1>5, <3>3 DEF NotIssued, Returning
        <4>2. QED
          BY <3>1, <3>2, <4>1
      <3>4. CASE ~e.is_write
        <4> DEFINE k == pending_rd[e.addr]
                   t == [addr |-> e.addr, is_write |-> FALSE, wait |-> read_delay]
                   new == [n \in 1 .. k |-> t]
        <4>1. return_queue \in Seq(Transaction) /\ pending_rd \in [Addr -> Nat] /\ k \in Nat
          BY <2>1, Sequences
        <4>2. t \in Transaction /\ (t \in Returns(a, w) <=> e.addr = a /\ w = FALSE)
          BY <2>1, ReadDelayTyped DEF Transaction, Returns
        <4>3. return_queue' = return_queue \o new /\ pending_rd' = [pending_rd EXCEPT ![e.addr] = 0]
          BY <1>5, <3>4
        <4> HIDE DEF k, t
        <4>4. new \in [1 .. k -> Transaction]
          BY <4>2
        <4>5. new \in Seq(Transaction) /\ Len(new) = k /\ DOMAIN new = 1 .. k
          BY <4>1, <4>4
        <4>6. \A n \in DOMAIN new : new[n] = t
          OBVIOUS
        <4> HIDE DEF new
        <4>7. CASE e.addr = a /\ w = FALSE
          <5>1. CountIn(return_queue \o new, Returns(a, w)) = CountIn(return_queue, Returns(a, w)) + k
            <6>1. \A n \in DOMAIN new : new[n] \in Returns(a, w)
              BY <4>2, <4>6, <4>7
            <6>2. QED
              BY <4>1, <4>5, <6>1, CountConcat
          <5>2. Returning(a, w)' = Returning(a, w) + k
            BY <4>3, <5>1 DEF Returning
          <5>3. NotIssued(a, w) = k /\ NotIssued(a, w)' = 0
            BY <2>1, <4>1, <4>3, <4>7 DEF NotIssued, k
          <5>4. QED
            BY <3>1, <3>2, <5>2, <5>3
        <4>8. CASE ~(e.addr = a /\ w = FALSE)
          <5>1. CountIn(return_queue \o new, Returns(a, w)) = CountIn(return_queue, Returns(a, w))
            BY <4>1, <4>2, <4>5, <4>6, <4>8, CountConcat
          <5>2. Returning(a, w)' = Returning(a, w)
            BY <4>3, <5>1 DEF Returning
          <5>3. NotIssued(a, w)' = NotIssued(a, w)
            BY <2>1, <4>1, <4>3, <4>8 DEF NotIssued
          <5>4. QED
            BY <3>1, <3>2, <5>2, <5>3
        <4>9. QED
          BY <4>7, <4>8
      <3>5. QED
        BY <3>3, <3>4
    <2>5. QED
      BY <2>2, <2>3, <2>4 DEF PendingInv, RequestInv
  <1>6. QED
    BY <1>1, <1>3, <1>4, <1>5

----------------------------------------------------------------------------
(* Transactions that get a command, and the clock.                         *)

\* A transaction moves from s to the queue of its bank.
LEMMA QueueGains ==
    ASSUME TypeOK, NEW x \in Addr, NEW v \in BOOLEAN, AddCommand(x, v),
           NEW a \in Addr, NEW w \in BOOLEAN
    PROVE  InCmdQueue(a, w)' = InCmdQueue(a, w) + IF x = a /\ v = w THEN 1 ELSE 0
  <1> DEFINE e == [addr |-> x, is_write |-> v]
  <1>1. /\ BankOf(a) \in Banks /\ BankOf(x) \in Banks /\ DOMAIN queues = Banks
        /\ queues[BankOf(a)] \in Seq(Request) /\ InCmdQueue(a, w) \in Nat
    BY Mapped, Sequences, CountTypes
  <1>2. e \in Request /\ (e \in Entry(a, w) <=> x = a /\ v = w)
    BY DEF Request, Entry
  <1>3. queues' = [queues EXCEPT ![BankOf(x)] = Append(queues[BankOf(x)], e)]
    BY <1>1 DEF AddCommand
  <1> HIDE DEF e
  <1>4. CASE BankOf(a) = BankOf(x)
    <2>1. queues'[BankOf(a)] = Append(queues[BankOf(a)], e)
      BY <1>1, <1>3, <1>4
    <2>2. CountIn(Append(queues[BankOf(a)], e), Entry(a, w))
            = CountIn(queues[BankOf(a)], Entry(a, w)) + IF e \in Entry(a, w) THEN 1 ELSE 0
      BY <1>1, <1>2, CountAppend
    <2>3. QED
      BY <1>1, <1>2, <2>1, <2>2 DEF InCmdQueue
  <1>5. CASE BankOf(a) # BankOf(x)
    <2>1. queues'[BankOf(a)] = queues[BankOf(a)]
      BY <1>1, <1>3, <1>5
    <2>2. InCmdQueue(a, w)' = InCmdQueue(a, w)
      BY <2>1 DEF InCmdQueue
    <2>3. x # a
      BY <1>5
    <2>4. QED
      BY <1>1, <2>2, <2>3
  <1>6. QED
    BY <1>4, <1>5

LEMMA GainsHome ==
    ASSUME TypeOK, HomeInv, NEW x \in Addr, NEW v \in BOOLEAN, AddCommand(x, v)
    PROVE  HomeInv'
  <1> DEFINE e == [addr |-> x, is_write |-> v]
             q == queues[BankOf(x)]
  <1>1. /\ BankOf(x) \in Banks /\ DOMAIN queues = Banks /\ q \in Seq(Request) /\ e \in Request
    BY Mapped, Sequences DEF Request
  <1>2. queues' = [queues EXCEPT ![BankOf(x)] = Append(q, e)]
    BY <1>1 DEF AddCommand
  <1> SUFFICES ASSUME NEW b \in Banks, NEW j \in 1 .. Len(queues'[b])
               PROVE  BankOf(queues'[b][j].addr) = b
    BY DEF HomeInv, BankOf
  <1>3. CASE b = BankOf(x)
    <2>1. queues'[b] = Append(q, e)
      BY <1>1, <1>2, <1>3
    <2>2. /\ Len(Append(q, e)) = Len(q) + 1 /\ Len(q) \in Nat
          /\ \A k \in 1 .. Len(q) : Append(q, e)[k] = q[k]
          /\ Append(q, e)[Len(q) + 1] = e
      BY <1>1, AppendProperties
    <2>3. CASE j = Len(q) + 1
      <3>1. queues'[b][j] = e
        BY <2>1, <2>2, <2>3
      <3>2. QED
        BY <1>3, <3>1
    <2>4. CASE j # Len(q) + 1
      <3>1. j \in 1 .. Len(q) /\ queues'[b][j] = q[j]
        BY <2>1, <2>2, <2>4
      <3>2. QED
        BY <1>3, <3>1 DEF HomeInv
    <2>5. QED
      BY <2>3, <2>4
  <1>4. CASE b # BankOf(x)
    BY <1>1, <1>2, <1>4 DEF HomeInv
  <1>5. QED
    BY <1>3, <1>4

\* A transaction that is scheduled is pending before and after.
LEMMA Scheduled ==
    ASSUME TypeOK, PendingInv, NEW v \in BOOLEAN,
           NEW s \in Seq(Addr), s = (IF v THEN write_buffer ELSE read_queue),
           NEW i \in 1 .. Len(s), AddCommand(s[i], v),
           UNCHANGED <<pending_rd, pending_wr>>,
           (IF v THEN write_buffer ELSE read_queue)' = RemoveAt(s, i),
           (IF v THEN read_queue ELSE write_buffer)' = IF v THEN read_queue ELSE write_buffer
    PROVE  PendingInv'
  <1> SUFFICES ASSUME NEW a \in Addr, NEW w \in BOOLEAN
               PROVE  (InTransQueue(a, w) + InCmdQueue(a, w) = IF IsPending(a, w) THEN 1 ELSE 0)'
    BY DEF PendingInv
  <1>1. /\ InTransQueue(a, w) \in Nat /\ InCmdQueue(a, w) \in Nat
        /\ InTransQueue(a, w) + InCmdQueue(a, w) = IF IsPending(a, w) THEN 1 ELSE 0
    BY CountTypes DEF PendingInv
  <1>2. IsPending(a, w)' = IsPending(a, w)
    BY DEF IsPending
  <1>3. s[i] \in Addr
    OBVIOUS
  <1>4. InCmdQueue(a, w)' = InCmdQueue(a, w) + IF s[i] = a /\ v = w THEN 1 ELSE 0
    BY <1>3, QueueGains
  <1>5. InTransQueue(a, w)' = InTransQueue(a, w) - IF s[i] = a /\ v = w THEN 1 ELSE 0
    <2>1. CASE v = w
      <3>1. CountIn(RemoveAt(s, i), {a}) = CountIn(s, {a}) - IF s[i] \in {a} THEN 1 ELSE 0
        BY CountRemove
      <3>2. InTransQueue(a, w)' = CountIn(RemoveAt(s, i), {a}) /\ InTransQueue(a, w) = CountIn(s, {a})
        BY <2>1 DEF InTransQueue
      <3>3. QED
        BY <2>1, <3>1, <3>2
    <2>2. CASE v # w
      <3>1. InTransQueue(a, w)' = InTransQueue(a, w)
        BY <2>2 DEF InTransQueue
      <3>2. QED
        BY <1>1, <2>2, <3>1
    <2>3. QED
      BY <2>1, <2>2
  <1>6. QED
    BY <1>1, <1>2, <1>4, <1>5

LEMMA ScheduleInv ==
    ASSUME TypeOK, PendingInv, HomeInv, RequestInv, ScheduleTransaction
    PROVE  NoAbort' /\ PendingInv' /\ HomeInv' /\ RequestInv'
  <1>1. /\ phase' = "idle" /\ UNCHANGED <<pending_rd, pending_wr, req_list>> /\ AdvanceClock
    BY DEF ScheduleTransaction
  <1>2. NoAbort'
    BY <1>1 DEF NoAbort
  <1>3. /\ read_queue \in Seq(Addr) /\ write_buffer \in Seq(Addr)
    BY Sequences
  <1>4. PendingInv' /\ HomeInv'
    <2>1. CASE UNCHANGED <<read_queue, write_buffer, queues>>
      <3>1. PendingInv'
        BY <1>1, <2>1 DEF PendingInv, InTransQueue, InCmdQueue, IsPending
      <3>2. HomeInv'
        BY <2>1 DEF HomeInv, BankOf
      <3>3. QED
        BY <3>1, <3>2
    <2>2. ASSUME NEW i \in 1 .. Len(write_buffer), AddCommand(write_buffer[i], TRUE),
                 write_buffer' = RemoveAt(write_buffer, i), read_queue' = read_queue
          PROVE  PendingInv' /\ HomeInv'
      <3>1. write_buffer[i] \in Addr
        BY <1>3
      <3>2. HomeInv'
        BY <2>2, <3>1, GainsHome
      <3>3. PendingInv'
        BY <1>1, <1>3, <2>2, Scheduled
      <3>4. QED
        BY <3>2, <3>3
    <2>3. ASSUME NEW i \in 1 .. Len(read_queue), AddCommand(read_queue[i], FALSE),
                 read_queue' = RemoveAt(read_queue, i), write_buffer' = write_buffer
          PROVE  PendingInv' /\ HomeInv'
      <3>1. read_queue[i] \in Addr
        BY <1>3
      <3>2. HomeInv'
        BY <2>3, <3>1, GainsHome
      <3>3. PendingInv'
        BY <1>1, <1>3, <2>3, Scheduled
      <3>4. QED
        BY <3>2, <3>3
    <2>4. \/ UNCHANGED <<read_queue, write_buffer, queues>>
          \/ \E i \in 1 .. Len(write_buffer) :
                /\ AddCommand(write_buffer[i], TRUE)
                /\ write_buffer' = RemoveAt(write_buffer, i) /\ read_queue' = read_queue
          \/ \E i \in 1 .. Len(read_queue) :
                /\ AddCommand(read_queue[i], FALSE)
                /\ read_queue' = RemoveAt(read_queue, i) /\ write_buffer' = write_buffer
      BY ScheduleMoves
    <2>5. QED
      BY <2>1, <2>2, <2>3, <2>4
  <1>5. RequestInv'
    <2> SUFFICES ASSUME NEW a \in Addr, NEW w \in BOOLEAN
                 PROVE  (Unanswered(a, w) = NotIssued(a, w) + Returning(a, w))'
      BY DEF RequestInv
    <2>1. Unanswered(a, w)' = Unanswered(a, w) /\ NotIssued(a, w)' = NotIssued(a, w)
      BY <1>1 DEF Unanswered, NotIssued
    <2>2. /\ return_queue \in Seq(Transaction) /\ return_queue' \in Seq(Transaction)
          /\ DOMAIN return_queue' = DOMAIN return_queue
          /\ \A i \in DOMAIN return_queue : return_queue'[i].addr = return_queue[i].addr
                                         /\ return_queue'[i].is_write = return_queue[i].is_write
      BY <1>1, Sequences, AdvanceTyped
    <2>3. \A i \in DOMAIN return_queue : return_queue[i] \in Transaction /\ return_queue'[i] \in Transaction
      BY <2>2
    <2>4. \A i \in DOMAIN return_queue :
             return_queue[i] \in Returns(a, w) <=> return_queue'[i] \in Returns(a, w)
      BY <2>2, <2>3, ReturnsOf
    <2>5. CountIn(return_queue, Returns(a, w)) = CountIn(return_queue', Returns(a, w))
      BY <2>2, <2>4, CountSame
    <2>6. Returning(a, w)' = Returning(a, w)
      BY <2>5 DEF Returning
    <2>7. Unanswered(a, w) = NotIssued(a, w) + Returning(a, w)
      BY DEF RequestInv
    <2>8. QED
      BY <2>1, <2>6, <2>7
  <1>6. QED
    BY <1>2, <1>4, <1>5

----------------------------------------------------------------------------
(* The invariant.                                                          *)

\* What the queues and the records of them depend on.
LEMMA QueuesSame ==
    ASSUME PendingInv, HomeInv,
           UNCHANGED <<read_queue, write_buffer, queues, pending_rd, pending_wr>>
    PROVE  PendingInv' /\ HomeInv'
  <1>1. PendingInv'
    BY DEF PendingInv, InTransQueue, InCmdQueue, IsPending
  <1>2. HomeInv'
    BY DEF HomeInv, BankOf
  <1>3. QED
    BY <1>1, <1>2

LEMMA RequestsSame ==
    ASSUME RequestInv, UNCHANGED <<req_list, return_queue, pending_rd>>
    PROVE  RequestInv'
  BY DEF RequestInv, Unanswered, Returning, NotIssued

LEMMA InitInv == Init => DramInv
  <1> SUFFICES ASSUME Init PROVE DramInv
    OBVIOUS
  <1>1. TypeOK /\ NoAbort
    BY InitTyped DEF Init, NoAbort
  <1>2. ASSUME NEW a \in Addr, NEW w \in BOOLEAN
        PROVE  /\ InTransQueue(a, w) = 0 /\ InCmdQueue(a, w) = 0 /\ Unanswered(a, w) = 0
               /\ Returning(a, w) = 0 /\ NotIssued(a, w) = 0 /\ ~IsPending(a, w)
    <2>1. BankOf(a) \in Banks
      BY Mapped
    <2>2. /\ (IF w THEN write_buffer ELSE read_queue) = <<>> /\ queues[BankOf(a)] = <<>>
          /\ req_list = <<>> /\ return_queue = <<>> /\ pending_rd[a] = 0 /\ pending_wr = {}
      BY <2>1 DEF Init
    <2>3. /\ InTransQueue(a, w) = 0 /\ InCmdQueue(a, w) = 0 /\ Unanswered(a, w) = 0
          /\ Returning(a, w) = 0
      BY <2>2, CountEmpty DEF InTransQueue, InCmdQueue, Unanswered, Returning
    <2>4. NotIssued(a, w) = 0 /\ ~IsPending(a, w)
      BY <2>2 DEF NotIssued, IsPending
    <2>5. QED
      BY <2>3, <2>4
  <1>3. PendingInv
    BY <1>2 DEF PendingInv
  <1>4. RequestInv
    BY <1>2 DEF RequestInv
  <1>5. HomeInv
    BY DEF Init, HomeInv
  <1>6. QED
    BY <1>1, <1>3, <1>4, <1>5 DEF DramInv

LEMMA StepInv ==
    ASSUME DramInv, [Next]_vars
    PROVE  NoAbort' /\ PendingInv' /\ HomeInv' /\ RequestInv'
  <1>1. TypeOK /\ NoAbort /\ PendingInv /\ HomeInv /\ RequestInv
    BY DEF DramInv
  <1>2. CASE \E a \in config.addrs : AddRead(a) \/ AddWrite(a)
    <2>1. PICK a \in config.addrs : AddRead(a) \/ AddWrite(a)
      BY <1>2
    <2>2. NoAbort' /\ queues' = queues
      BY <1>1, <2>1 DEF AddRead, AddWrite, NoAbort, cmdVars
    <2>3. HomeInv'
      BY <1>1, <2>2 DEF HomeInv, BankOf
    <2>4. QED
      BY <1>1, <2>1, <2>2, <2>3, AddPending, AddRequests
  <1>3. CASE TakeRead \/ TakeWrite
    <2>1. UNCHANGED <<phase, req_list, read_queue, write_buffer, pending_rd, pending_wr,
                      return_queue, queues>>
      BY <1>3 DEF TakeRead, TakeWrite, transVars, pendVars, cmdVars
    <2>2. NoAbort'
      BY <1>1, <2>1 DEF NoAbort
    <2>3. QED
      BY <1>1, <2>1, <2>2, QueuesSame, RequestsSame
  <1>4. CASE ReturnDoneTrans
    <2>1. UNCHANGED <<read_queue, write_buffer, queues, pending_rd, pending_wr>>
      BY <1>4 DEF ReturnDoneTrans, transVars, cmdVars
    <2>2. phase' = "return"
      BY <1>1, <1>4, Returned
    <2>3. NoAbort'
      BY <2>2 DEF NoAbort
    <2>4. QED
      BY <1>1, <1>4, <2>1, <2>3, QueuesSame, ReturnRequests
  <1>5. CASE RefreshClockTick \/ IssueNothing
    <2>1. /\ UNCHANGED <<req_list, read_queue, write_buffer, pending_rd, pending_wr, return_queue,
                         queues>>
          /\ phase' \in {"issue", "schedule"}
      BY <1>5 DEF RefreshClockTick, IssueNothing, cosimVars, transVars, pendVars, cmdVars
    <2>2. NoAbort'
      BY <2>1 DEF NoAbort
    <2>3. QED
      BY <1>1, <2>1, <2>2, QueuesSame, RequestsSame
  <1>6. CASE IssueForRefresh
    <2>1. PICK t \in RefreshCmds \cup {"PRECHARGE"}, b \in Banks :
             IssueCommand(t, b, NoRow, NoRow) /\ LegalNow(t, b)
      BY <1>1, <1>6, RefreshCommand
    <2>2. t \notin ColumnCmds /\ t \notin ReadCmds /\ t \notin WriteCmds
      BY DEF ColumnCmds, ReadCmds, WriteCmds, RefreshCmds
    <2>3. UNCHANGED pendVars /\ phase' = "schedule"
      BY <2>1, <2>2 DEF IssueCommand
    <2>4. UNCHANGED <<req_list, read_queue, write_buffer, queues>>
      BY <1>6 DEF IssueForRefresh, cosimVars, transVars, cmdVars
    <2>5. NoAbort'
      BY <2>3 DEF NoAbort
    <2>6. UNCHANGED <<pending_rd, pending_wr, return_queue>>
      BY <2>3 DEF pendVars
    <2>7. QED
      BY <1>1, <2>4, <2>5, <2>6, QueuesSame, RequestsSame
  <1>7. CASE IssueQueued
    BY <1>1, <1>7, IssueQueuedInv
  <1>8. CASE ScheduleTransaction
    BY <1>1, <1>8, ScheduleInv
  <1>9. CASE UNCHANGED vars
    <2>1. UNCHANGED <<phase, req_list, read_queue, write_buffer, pending_rd, pending_wr,
                      return_queue, queues>>
      BY <1>9 DEF vars, cosimVars, transVars, pendVars, cmdVars
    <2>2. NoAbort'
      BY <1>1, <2>1 DEF NoAbort
    <2>3. QED
      BY <1>1, <2>1, <2>2, QueuesSame, RequestsSame
  <1>10. QED
    BY <1>2, <1>3, <1>4, <1>5, <1>6, <1>7, <1>8, <1>9 DEF Next, Clock

LEMMA AlwaysInv == Spec => []DramInv
  <1>1. Init => DramInv
    BY InitInv
  <1>2. DramInv /\ TypeOK' /\ [Next]_vars => DramInv'
    BY StepInv DEF DramInv
  <1>3. QED
    BY <1>1, <1>2, TypeCorrect, PTL DEF Spec

\* No command is issued to a bank that has no case for it, no read or write is
\* issued that is not pending, and no answer comes without a request: the
\* abort() and exit(1) calls of the model are out of reach.
THEOREM NeverAborts == Spec => []NoAbort
  <1>1. DramInv => NoAbort
    BY DEF DramInv
  <1>2. QED
    BY <1>1, AlwaysInv, PTL

\* Merging requests neither loses nor doubles a transaction.
THEOREM PendingAlwaysMatchesQueues == Spec => []PendingMatchesQueues
  <1>1. DramInv => PendingMatchesQueues
    <2> SUFFICES ASSUME DramInv, NEW a \in Addr
                 PROVE  /\ Places(a, FALSE) = IF pending_rd[a] > 0 THEN 1 ELSE 0
                        /\ Places(a, TRUE)  = IF a \in pending_wr THEN 1 ELSE 0
      BY DEF PendingMatchesQueues
    <2>1. ASSUME NEW w \in BOOLEAN
          PROVE  Places(a, w) = InTransQueue(a, w) + InCmdQueue(a, w)
      <3> DEFINE s == IF w THEN write_buffer ELSE read_queue
                 q == queues[BankOf(a)]
      <3>1. {i \in DOMAIN s : s[i] = a} = Indices(s, {a})
        BY DEF Indices
      <3>2. {i \in DOMAIN q : q[i] = [addr |-> a, is_write |-> w]} = Indices(q, Entry(a, w))
        BY DEF Indices, Entry
      <3>3. Places(a, w) = Cardinality({i \in DOMAIN s : s[i] = a})
                + Cardinality({i \in DOMAIN q : q[i] = [addr |-> a, is_write |-> w]})
        BY DEF Places
      <3>4. InTransQueue(a, w) = Cardinality(Indices(s, {a}))
        BY DEF InTransQueue, CountIn
      <3>5. InCmdQueue(a, w) = Cardinality(Indices(q, Entry(a, w)))
        BY DEF InCmdQueue, CountIn
      <3>6. QED
        BY <3>1, <3>2, <3>3, <3>4, <3>5, Zenon
    <2>2. \A w \in BOOLEAN :
             InTransQueue(a, w) + InCmdQueue(a, w) = IF IsPending(a, w) THEN 1 ELSE 0
      BY DEF DramInv, PendingInv
    <2>3. (IsPending(a, FALSE) <=> pending_rd[a] > 0) /\ (IsPending(a, TRUE) <=> a \in pending_wr)
      BY DEF IsPending
    <2>4. QED
      BY <2>1, <2>2, <2>3
  <1>2. QED
    BY <1>1, AlwaysInv, PTL

----------------------------------------------------------------------------
(* The refinement: Dram implements DramPort.                               *)

ResponsesTo(a) == {r \in Response : r.addr = a}

\* The requests for an address that the AXI side has no answer to yet.
Answered(a, w) == CountIn(IF w THEN resp_write ELSE resp_read, ResponsesTo(a))
Open(a, w)     == Unanswered(a, w) + Answered(a, w)

LEMMA CountTail ==
    ASSUME NEW E, NEW s \in Seq(E), s # <<>>, NEW S
    PROVE  /\ Head(s) \in E
           /\ CountIn(Tail(s), S) = CountIn(s, S) - IF Head(s) \in S THEN 1 ELSE 0
  <1>1. /\ Head(s) \in E /\ Head(s) = s[1] /\ Tail(s) \in Seq(E) /\ Len(s) \in Nat \ {0}
        /\ Len(Tail(s)) = Len(s) - 1 /\ \A i \in 1 .. Len(Tail(s)) : Tail(s)[i] = s[i + 1]
    BY HeadTailProperties
  <1>2. 1 \in 1 .. Len(s)
    BY <1>1
  <1>3. /\ RemoveAt(s, 1) \in Seq(E) /\ Len(RemoveAt(s, 1)) = Len(s) - 1
        /\ \A j \in 1 .. (Len(s) - 1) : RemoveAt(s, 1)[j] = IF j < 1 THEN s[j] ELSE s[j + 1]
    BY <1>2, RemoveAtParts
  <1>4. Tail(s) = RemoveAt(s, 1)
    <2> DEFINE t == Tail(s)
               r == RemoveAt(s, 1)
    <2>1. t \in Seq(E) /\ r \in Seq(E) /\ Len(t) = Len(r) /\ \A i \in 1 .. Len(t) : t[i] = r[i]
      BY <1>1, <1>3
    <2> HIDE DEF t, r
    <2>2. t = r
      BY <2>1, SeqEqual
    <2>3. QED
      BY <2>2 DEF t, r
  <1>5. CountIn(RemoveAt(s, 1), S) = CountIn(s, S) - IF s[1] \in S THEN 1 ELSE 0
    BY <1>2, CountRemove
  <1>6. QED
    BY <1>1, <1>4, <1>5

LEMMA CountRequests ==
    ASSUME NEW s \in Seq(Request), NEW a
    PROVE  /\ Count(s, LAMBDA r : r.addr = a /\ ~r.is_write) = CountIn(s, Entry(a, FALSE))
           /\ Count(s, LAMBDA r : r.addr = a /\ r.is_write) = CountIn(s, Entry(a, TRUE))
  <1>1. \A i \in DOMAIN s : s[i] \in Request /\ s[i].is_write \in BOOLEAN
    <2>1. \A i \in DOMAIN s : s[i] \in Request
      OBVIOUS
    <2>2. \A e \in Request : e.is_write \in BOOLEAN
      BY DEF Request
    <2>3. QED
      BY <2>1, <2>2
  <1>2. {i \in DOMAIN s : s[i].addr = a /\ ~s[i].is_write} = Indices(s, Entry(a, FALSE))
    BY <1>1, EntryOf DEF Indices
  <1>3. {i \in DOMAIN s : s[i].addr = a /\ s[i].is_write} = Indices(s, Entry(a, TRUE))
    BY <1>1, EntryOf DEF Indices
  <1>4. QED
    BY <1>2, <1>3, Zenon DEF Count, CountIn

LEMMA CountResponses ==
    ASSUME NEW s \in Seq(Response), NEW a
    PROVE  Count(s, LAMBDA r : r.addr = a) = CountIn(s, ResponsesTo(a))
  <1>1. \A i \in DOMAIN s : s[i] \in Response
    OBVIOUS
  <1>2. {i \in DOMAIN s : s[i].addr = a} = Indices(s, ResponsesTo(a))
    BY <1>1 DEF Indices, ResponsesTo
  <1>3. QED
    BY <1>2, Zenon DEF Count, CountIn

LEMMA OpenTypes ==
    ASSUME TypeOK, NEW a \in Addr, NEW w \in BOOLEAN
    PROVE  Unanswered(a, w) \in Nat /\ Answered(a, w) \in Nat /\ Open(a, w) \in Nat
  <1>1. resp_read \in Seq(Response) /\ resp_write \in Seq(Response)
    BY DEF TypeOK
  <1>2. Answered(a, w) \in Nat
    BY <1>1, CountNat DEF Answered
  <1>3. QED
    BY <1>2, CountTypes DEF Open

\* No address has more open requests than are outstanding.
LEMMA OpenBound ==
    ASSUME TypeOK, NEW a \in Addr, NEW w \in BOOLEAN
    PROVE  Outstanding(w) \in Nat /\ Open(a, w) <= Outstanding(w)
  <1> DEFINE I == {i \in 1 .. Len(req_list) : req_list[i].is_write = w}
             s == IF w THEN resp_write ELSE resp_read
  <1>1. req_list \in Seq(Request) /\ s \in Seq(Response) /\ Len(req_list) \in Nat
    BY DEF TypeOK
  <1>2. IsFiniteSet(1 .. Len(req_list))
    <2>1. Len(req_list) \in Nat
      BY <1>1
    <2>2. QED
      BY <2>1, FS_Interval
  <1>3. IsFiniteSet(I)
    <2>1. I \in SUBSET (1 .. Len(req_list))
      OBVIOUS
    <2>2. QED
      BY <1>2, <2>1, FS_Subset
  <1>4. Indices(req_list, Entry(a, w)) \in SUBSET I
    BY <1>1, EntryOf DEF Indices
  <1>5. Unanswered(a, w) <= Cardinality(I) /\ Cardinality(I) \in Nat
    <2> HIDE DEF I
    <2>1. Cardinality(I) \in Nat
      BY <1>3, FS_CardinalityType
    <2>2. Cardinality(Indices(req_list, Entry(a, w))) <= Cardinality(I)
      BY <1>3, <1>4, FS_Subset
    <2>3. QED
      BY <2>1, <2>2 DEF Unanswered, CountIn
  <1>6. Answered(a, w) <= Len(s) /\ Len(s) \in Nat
    BY <1>1, CountNat DEF Answered
  <1>7. Outstanding(w) = Cardinality(I) + Len(s)
    BY DEF Outstanding
  <1> HIDE DEF I, s
  <1>8. QED
    BY <1>5, <1>6, <1>7, OpenTypes DEF Open

LEMMA AddOpens ==
    ASSUME TypeOK, NEW a \in config.addrs, NEW v \in BOOLEAN,
           IF v THEN AddWrite(a) ELSE AddRead(a),
           NEW b \in Addr, NEW w \in BOOLEAN
    PROVE  /\ a \in Addr
           /\ Open(b, w)' = Open(b, w) + IF a = b /\ v = w THEN 1 ELSE 0
           /\ v = w => Open(b, w)' <= IF v THEN MaxWrites ELSE MaxReads
  <1> DEFINE e == [addr |-> a, is_write |-> v]
  <1>1. a \in Addr /\ req_list \in Seq(Request)
    BY Sequences
  <1>2. req_list' = Append(req_list, e) /\ UNCHANGED <<resp_read, resp_write>>
    BY DEF AddRead, AddWrite, AddRequest
  <1>3. e \in Request /\ (e \in Entry(b, w) <=> a = b /\ v = w)
    BY <1>1 DEF Request, Entry
  <1> HIDE DEF e
  <1>4. CountIn(Append(req_list, e), Entry(b, w))
          = CountIn(req_list, Entry(b, w)) + IF e \in Entry(b, w) THEN 1 ELSE 0
    BY <1>1, <1>3, CountAppend
  <1>5. Unanswered(b, w)' = Unanswered(b, w) + IF a = b /\ v = w THEN 1 ELSE 0
    BY <1>2, <1>3, <1>4 DEF Unanswered
  <1>6. Answered(b, w)' = Answered(b, w)
    BY <1>2 DEF Answered
  <1>7. Unanswered(b, w) \in Nat /\ Answered(b, w) \in Nat
    BY OpenTypes
  <1>8. Open(b, w)' = Open(b, w) + IF a = b /\ v = w THEN 1 ELSE 0
    BY <1>5, <1>6, <1>7 DEF Open
  <1>9. Outstanding(v) < IF v THEN MaxWrites ELSE MaxReads
    BY DEF AddRead, AddWrite
  <1>10. v = w => Outstanding(v) \in Nat /\ Open(b, w) <= Outstanding(v) /\ Open(b, w) \in Nat
    BY OpenBound, OpenTypes
  <1>11. MaxReads \in Nat /\ MaxWrites \in Nat
    BY DramAssumption
  <1>12. QED
    BY <1>1, <1>8, <1>9, <1>10, <1>11

LEMMA TakeCloses ==
    ASSUME TypeOK, NEW v \in BOOLEAN, IF v THEN TakeWrite ELSE TakeRead
    PROVE  \E a \in Addr :
             /\ Open(a, v) > 0
             /\ \A b \in Addr, w \in BOOLEAN :
                  Open(b, w)' = Open(b, w) - IF a = b /\ v = w THEN 1 ELSE 0
  <1> DEFINE s == IF v THEN resp_write ELSE resp_read
             a == Head(s).addr
  <1>1. /\ s \in Seq(Response) /\ s # <<>>
        /\ (IF v THEN resp_write ELSE resp_read)' = Tail(s)
        /\ (IF v THEN resp_read ELSE resp_write)' = IF v THEN resp_read ELSE resp_write
        /\ req_list' = req_list
    BY DEF TypeOK, TakeRead, TakeWrite
  <1>2. Head(s) \in Response /\ Head(s) = s[1] /\ 1 \in 1 .. Len(s)
    <2>1. Head(s) \in Response
      BY <1>1, CountTail
    <2> HIDE DEF s
    <2>2. QED
      BY <1>1, <2>1
  <1>3. a \in Addr /\ \A b : Head(s) \in ResponsesTo(b) <=> a = b
    <2> DEFINE h == Head(s)
    <2>1. h \in Response
      BY <1>2
    <2> HIDE DEF s, h
    <2>2. h.addr \in Addr /\ \A b : h \in ResponsesTo(b) <=> h.addr = b
      BY <2>1 DEF ResponsesTo, Response
    <2>3. QED
      BY <2>2 DEF h
  <1>4. \A b : CountIn(Tail(s), ResponsesTo(b))
                 = CountIn(s, ResponsesTo(b)) - IF Head(s) \in ResponsesTo(b) THEN 1 ELSE 0
    BY <1>1, CountTail
  <1>5. ASSUME NEW b \in Addr, NEW w \in BOOLEAN
        PROVE  Open(b, w)' = Open(b, w) - IF a = b /\ v = w THEN 1 ELSE 0
    <2>1. Unanswered(b, w)' = Unanswered(b, w)
      BY <1>1 DEF Unanswered
    <2>2. Unanswered(b, w) \in Nat /\ Answered(b, w) \in Nat
      BY OpenTypes
    <2>3. CASE v = w
      <3>1. Answered(b, w)' = CountIn(Tail(s), ResponsesTo(b)) /\ Answered(b, w) = CountIn(s, ResponsesTo(b))
        BY <1>1, <2>3 DEF Answered
      <3>2. Answered(b, w)' = Answered(b, w) - IF a = b THEN 1 ELSE 0
        BY <1>3, <1>4, <3>1
      <3> HIDE DEF a, s
      <3>3. QED
        BY <2>1, <2>2, <2>3, <3>2 DEF Open
    <2>4. CASE v # w
      <3>1. Answered(b, w)' = Answered(b, w)
        BY <1>1, <2>4 DEF Answered
      <3>2. QED
        BY <2>1, <2>2, <2>4, <3>1 DEF Open
    <2>5. QED
      BY <2>3, <2>4
  <1>6. Open(a, v) > 0
    <2>1. s[1] \in ResponsesTo(a)
      BY <1>2, <1>3
    <2>2. CountIn(s, ResponsesTo(a)) > 0
      BY <1>1, <1>2, <2>1, CountNat
    <2>3. Answered(a, v) > 0
      BY <2>2 DEF Answered
    <2> HIDE DEF a
    <2>4. Unanswered(a, v) \in Nat /\ Answered(a, v) \in Nat
      BY <1>3, OpenTypes
    <2>5. QED
      BY <2>3, <2>4 DEF Open
  <1>7. QED
    BY <1>3, <1>5, <1>6

\* A request that gets its answer stays open until the answer is taken.
LEMMA ReturnKeeps ==
    ASSUME TypeOK, RequestInv, ReturnDoneTrans, NEW b \in Addr, NEW w \in BOOLEAN
    PROVE  Open(b, w)' = Open(b, w)
  <1>1. PICK d \in 1 .. Len(return_queue), i \in 1 .. Len(req_list) :
             /\ req_list[i].addr = return_queue[d].addr
             /\ req_list[i].is_write = return_queue[d].is_write
             /\ req_list' = RemoveAt(req_list, i)
             /\ resp_read' = IF return_queue[d].is_write THEN resp_read
                             ELSE Append(resp_read, [addr |-> return_queue[d].addr, wait |-> Padding])
             /\ resp_write' = IF return_queue[d].is_write
                              THEN Append(resp_write, [addr |-> return_queue[d].addr, wait |-> Padding])
                              ELSE resp_write
    BY Returned
  <1> DEFINE a == req_list[i].addr
             v == req_list[i].is_write
             e == [addr |-> a, wait |-> Padding]
             s == IF v THEN resp_write ELSE resp_read
  <1>2. /\ req_list \in Seq(Request) /\ resp_read \in Seq(Response) /\ resp_write \in Seq(Response)
    BY DEF TypeOK
  <1>3. req_list[i] \in Request /\ a \in Addr /\ v \in BOOLEAN
    <2>1. req_list[i] \in Request
      BY <1>2
    <2>2. QED
      BY <2>1 DEF Request
  <1>4. e \in Response /\ (e \in ResponsesTo(b) <=> a = b)
    <2>1. Padding \in Nat
      BY DramAssumption
    <2>2. QED
      BY <1>3, <2>1 DEF Response, ResponsesTo
  <1>5. /\ v => resp_write' = Append(s, e) /\ resp_read' = resp_read
        /\ ~v => resp_read' = Append(s, e) /\ resp_write' = resp_write
    BY <1>1
  <1>6. Unanswered(b, w)' = Unanswered(b, w) - IF a = b /\ v = w THEN 1 ELSE 0
    <2>1. CountIn(RemoveAt(req_list, i), Entry(b, w))
            = CountIn(req_list, Entry(b, w)) - IF req_list[i] \in Entry(b, w) THEN 1 ELSE 0
      BY <1>2, CountRemove
    <2>2. req_list[i] \in Entry(b, w) <=> a = b /\ v = w
      BY <1>3, EntryOf
    <2>3. QED
      BY <1>1, <2>1, <2>2 DEF Unanswered
  <1>7. Answered(b, w)' = Answered(b, w) + IF a = b /\ v = w THEN 1 ELSE 0
    <2>1. s \in Seq(Response)
      BY <1>2
    <2> HIDE DEF a, v, e
    <2>2. CASE v = w
      <3>1. Answered(b, w)' = CountIn(Append(s, e), ResponsesTo(b))
            /\ Answered(b, w) = CountIn(s, ResponsesTo(b))
        BY <1>5, <2>2 DEF Answered
      <3> HIDE DEF s
      <3>2. CountIn(Append(s, e), ResponsesTo(b))
              = CountIn(s, ResponsesTo(b)) + IF e \in ResponsesTo(b) THEN 1 ELSE 0
        BY <1>4, <2>1, CountAppend
      <3>3. QED
        BY <1>4, <2>2, <3>1, <3>2
    <2>3. CASE v # w
      <3>1. Answered(b, w)' = Answered(b, w)
        BY <1>3, <1>5, <2>3 DEF Answered
      <3>2. Answered(b, w) \in Nat
        BY OpenTypes
      <3>3. QED
        BY <2>3, <3>1, <3>2
    <2>4. QED
      BY <2>2, <2>3
  <1>8. Unanswered(b, w) \in Nat /\ Answered(b, w) \in Nat
    BY OpenTypes
  <1> HIDE DEF a, v
  <1>9. QED
    BY <1>6, <1>7, <1>8 DEF Open

\* Every other step of the clock leaves the requests open.
LEMMA ClockKeeps ==
    ASSUME TypeOK,
           \/ RefreshClockTick \/ IssueForRefresh \/ IssueQueued \/ IssueNothing
           \/ ScheduleTransaction \/ UNCHANGED vars,
           NEW b \in Addr, NEW w \in BOOLEAN
    PROVE  Open(b, w)' = Open(b, w)
  <1>1. CASE UNCHANGED cosimVars
    BY <1>1 DEF cosimVars, Open, Unanswered, Answered
  <1>2. CASE ScheduleTransaction
    <2>1. AdvanceClock /\ req_list' = req_list
      BY <1>2 DEF ScheduleTransaction
    <2>2. /\ resp_read' \in Seq(Response) /\ DOMAIN resp_read' = DOMAIN resp_read
          /\ resp_write' \in Seq(Response) /\ DOMAIN resp_write' = DOMAIN resp_write
          /\ \A i \in DOMAIN resp_read : resp_read'[i].addr = resp_read[i].addr
          /\ \A i \in DOMAIN resp_write : resp_write'[i].addr = resp_write[i].addr
          /\ resp_read \in Seq(Response) /\ resp_write \in Seq(Response)
      BY <2>1, AdvanceTyped DEF TypeOK
    <2>3. ASSUME NEW s \in Seq(Response), NEW t \in Seq(Response), DOMAIN t = DOMAIN s,
                 \A i \in DOMAIN s : t[i].addr = s[i].addr
          PROVE  CountIn(t, ResponsesTo(b)) = CountIn(s, ResponsesTo(b))
      <3>1. \A i \in DOMAIN s : s[i] \in ResponsesTo(b) <=> t[i] \in ResponsesTo(b)
        BY <2>3 DEF ResponsesTo
      <3>2. QED
        BY <2>3, <3>1, CountSame
    <2>4. /\ CountIn(resp_read', ResponsesTo(b)) = CountIn(resp_read, ResponsesTo(b))
          /\ CountIn(resp_write', ResponsesTo(b)) = CountIn(resp_write, ResponsesTo(b))
      BY <2>2, <2>3
    <2>5. Answered(b, w)' = Answered(b, w)
      BY <2>4 DEF Answered
    <2>6. QED
      BY <2>1, <2>5 DEF Open, Unanswered
  <1>3. QED
    BY <1>1, <1>2 DEF RefreshClockTick, IssueForRefresh, IssueQueued, IssueNothing, vars, cosimVars

\* The port's variables, as Port gives them.
PortReads  == [a \in Addr |-> Count(req_list, LAMBDA r : r.addr = a /\ ~r.is_write)
                                + Count(resp_read, LAMBDA r : r.addr = a)]
PortWrites == [a \in Addr |-> Count(req_list, LAMBDA r : r.addr = a /\ r.is_write)
                                + Count(resp_write, LAMBDA r : r.addr = a)]

LEMMA PortCounts ==
    ASSUME NEW q \in Seq(Request), NEW s \in Seq(Response), NEW a
    PROVE  /\ Count(q, LAMBDA r : r.addr = a /\ ~r.is_write) + Count(s, LAMBDA r : r.addr = a)
                = CountIn(q, Entry(a, FALSE)) + CountIn(s, ResponsesTo(a))
           /\ Count(q, LAMBDA r : r.addr = a /\ r.is_write) + Count(s, LAMBDA r : r.addr = a)
                = CountIn(q, Entry(a, TRUE)) + CountIn(s, ResponsesTo(a))
  BY CountRequests, CountResponses

LEMMA PortValues ==
    ASSUME TypeOK, TypeOK'
    PROVE  /\ PortReads = [a \in Addr |-> PortReads[a]]
           /\ PortReads' = [a \in Addr |-> PortReads'[a]]
           /\ PortWrites = [a \in Addr |-> PortWrites[a]]
           /\ PortWrites' = [a \in Addr |-> PortWrites'[a]]
           /\ \A a \in Addr : /\ PortReads[a] = Open(a, FALSE) /\ PortReads'[a] = Open(a, FALSE)'
                             /\ PortWrites[a] = Open(a, TRUE) /\ PortWrites'[a] = Open(a, TRUE)'
  <1>1. /\ req_list \in Seq(Request) /\ resp_read \in Seq(Response) /\ resp_write \in Seq(Response)
        /\ req_list' \in Seq(Request) /\ resp_read' \in Seq(Response)
        /\ resp_write' \in Seq(Response)
    BY DEF TypeOK
  <1>2. ASSUME NEW a \in Addr
        PROVE  /\ PortReads[a] = Open(a, FALSE) /\ PortReads'[a] = Open(a, FALSE)'
               /\ PortWrites[a] = Open(a, TRUE) /\ PortWrites'[a] = Open(a, TRUE)'
    <2>1. /\ Open(a, FALSE) = CountIn(req_list, Entry(a, FALSE)) + CountIn(resp_read, ResponsesTo(a))
          /\ Open(a, TRUE) = CountIn(req_list, Entry(a, TRUE)) + CountIn(resp_write, ResponsesTo(a))
      BY DEF Open, Unanswered, Answered
    <2>2. /\ Open(a, FALSE)' = CountIn(req_list', Entry(a, FALSE)) + CountIn(resp_read', ResponsesTo(a))
          /\ Open(a, TRUE)' = CountIn(req_list', Entry(a, TRUE)) + CountIn(resp_write', ResponsesTo(a))
      BY DEF Open, Unanswered, Answered
    <2>3. /\ PortReads[a] = Count(req_list, LAMBDA r : r.addr = a /\ ~r.is_write)
                               + Count(resp_read, LAMBDA r : r.addr = a)
          /\ PortWrites[a] = Count(req_list, LAMBDA r : r.addr = a /\ r.is_write)
                               + Count(resp_write, LAMBDA r : r.addr = a)
      BY DEF PortReads, PortWrites
    <2>4. /\ PortReads'[a] = Count(req_list', LAMBDA r : r.addr = a /\ ~r.is_write)
                               + Count(resp_read', LAMBDA r : r.addr = a)
          /\ PortWrites'[a] = Count(req_list', LAMBDA r : r.addr = a /\ r.is_write)
                               + Count(resp_write', LAMBDA r : r.addr = a)
      BY DEF PortReads, PortWrites, Count
    <2>5. PortReads[a] = Open(a, FALSE)
      BY <1>1, <2>1, <2>3, PortCounts
    <2>6. PortWrites[a] = Open(a, TRUE)
      BY <1>1, <2>1, <2>3, PortCounts
    <2>7. PortReads'[a] = Open(a, FALSE)'
      BY <1>1, <2>2, <2>4, PortCounts
    <2>8. PortWrites'[a] = Open(a, TRUE)'
      BY <1>1, <2>2, <2>4, PortCounts
    <2>9. QED
      BY <2>5, <2>6, <2>7, <2>8
  <1>3. /\ PortReads = [a \in Addr |-> PortReads[a]]
        /\ PortReads' = [a \in Addr |-> PortReads'[a]]
        /\ PortWrites = [a \in Addr |-> PortWrites[a]]
        /\ PortWrites' = [a \in Addr |-> PortWrites'[a]]
    BY DEF PortReads, PortWrites
  <1>4. QED
    BY <1>2, <1>3

LEMMA PlusZero == \A n \in Nat : n + 0 = n /\ n - 0 = n
  OBVIOUS

LEMMA FunctionStep ==
    ASSUME NEW f, NEW g, f = [b \in Addr |-> f[b]], g = [b \in Addr |-> g[b]], NEW a \in Addr, NEW k
    PROVE  /\ (\A b \in Addr : g[b] = f[b]) => g = f
           /\ (\A b \in Addr : g[b] = IF a = b THEN k ELSE f[b]) => g = [f EXCEPT ![a] = k]
  OBVIOUS

LEMMA PortInit == Init => Port!Init
  <1> SUFFICES ASSUME Init PROVE Port!Init
    OBVIOUS
  <1>1. req_list = <<>> /\ resp_read = <<>> /\ resp_write = <<>>
    BY DEF Init
  <1>2. <<>> \in Seq(Request) /\ <<>> \in Seq(Response)
    OBVIOUS
  <1>3. ASSUME NEW a \in Addr
        PROVE  /\ Count(req_list, LAMBDA r : r.addr = a /\ ~r.is_write)
                    + Count(resp_read, LAMBDA r : r.addr = a) = 0
               /\ Count(req_list, LAMBDA r : r.addr = a /\ r.is_write)
                    + Count(resp_write, LAMBDA r : r.addr = a) = 0
    <2>1. \A P, Q : CountIn(<<>>, P) + CountIn(<<>>, Q) = 0
      BY CountEmpty
    <2>2. /\ Count(req_list, LAMBDA r : r.addr = a /\ ~r.is_write)
               + Count(resp_read, LAMBDA r : r.addr = a)
               = CountIn(req_list, Entry(a, FALSE)) + CountIn(resp_read, ResponsesTo(a))
          /\ Count(req_list, LAMBDA r : r.addr = a /\ r.is_write)
               + Count(resp_write, LAMBDA r : r.addr = a)
               = CountIn(req_list, Entry(a, TRUE)) + CountIn(resp_write, ResponsesTo(a))
      BY <1>1, <1>2, PortCounts
    <2>3. QED
      BY <1>1, <2>1, <2>2
  <1>4. QED
    BY <1>3 DEF Port!Init, Port!NoRequests

LEMMA PortStep ==
    ASSUME TypeOK, TypeOK', RequestInv, [Next]_vars
    PROVE  [Port!Next]_(Port!vars)
  <1>1. /\ PortReads = [a \in Addr |-> PortReads[a]]
        /\ PortReads' = [a \in Addr |-> PortReads'[a]]
        /\ PortWrites = [a \in Addr |-> PortWrites[a]]
        /\ PortWrites' = [a \in Addr |-> PortWrites'[a]]
        /\ \A a \in Addr : /\ PortReads[a] = Open(a, FALSE) /\ PortReads'[a] = Open(a, FALSE)'
                          /\ PortWrites[a] = Open(a, TRUE) /\ PortWrites'[a] = Open(a, TRUE)'
    BY PortValues
  <1>2. \A a \in Addr, w \in BOOLEAN : Open(a, w) \in Nat
    BY OpenTypes
  <1>3. ASSUME \A a \in Addr, w \in BOOLEAN : Open(a, w)' = Open(a, w)
        PROVE  UNCHANGED Port!vars
    <2>1. \A a \in Addr : PortReads'[a] = PortReads[a] /\ PortWrites'[a] = PortWrites[a]
      <3> TAKE a \in Addr
      <3>1. /\ PortReads[a] = Open(a, FALSE) /\ PortReads'[a] = Open(a, FALSE)'
            /\ PortWrites[a] = Open(a, TRUE) /\ PortWrites'[a] = Open(a, TRUE)'
        BY <1>1
      <3>2. Open(a, FALSE)' = Open(a, FALSE) /\ Open(a, TRUE)' = Open(a, TRUE)
        BY <1>3
      <3>3. QED
        BY <3>1, <3>2
    <2>2. PortReads' = PortReads /\ PortWrites' = PortWrites
      BY <1>1, <2>1, FunctionStep
    <2>3. QED
      BY <2>2 DEF Port!vars, PortReads, PortWrites
  <1>4. ASSUME NEW a \in config.addrs, AddRead(a)
        PROVE  Port!Next
    <2>1. /\ a \in Addr
          /\ \A b \in Addr, w \in BOOLEAN :
               /\ Open(b, w)' = Open(b, w) + IF a = b /\ FALSE = w THEN 1 ELSE 0
               /\ FALSE = w => Open(b, w)' <= MaxReads
      <3>1. IF FALSE THEN AddWrite(a) ELSE AddRead(a)
        BY <1>4
      <3>2. a \in Addr
        BY Sequences
      <3>3. \A b \in Addr, w \in BOOLEAN :
               /\ Open(b, w)' = Open(b, w) + IF a = b /\ FALSE = w THEN 1 ELSE 0
               /\ FALSE = w => Open(b, w)' <= IF FALSE THEN MaxWrites ELSE MaxReads
        BY <3>1, AddOpens
      <3>4. QED
        BY <3>2, <3>3
    <2>2. PortReads' = [PortReads EXCEPT ![a] = @ + 1]
      <3>1. \A b \in Addr : PortReads'[b] = IF a = b THEN PortReads[a] + 1 ELSE PortReads[b]
        <4> TAKE b \in Addr
        <4>1. /\ PortReads[b] = Open(b, FALSE) /\ PortReads'[b] = Open(b, FALSE)'
              /\ PortReads[a] = Open(a, FALSE) /\ Open(b, FALSE) \in Nat
          BY <1>1, <1>2, <2>1
        <4>2. Open(b, FALSE)' = Open(b, FALSE) + IF a = b THEN 1 ELSE 0
          BY <2>1
        <4>3. Open(b, FALSE) + 0 = Open(b, FALSE) /\ Open(b, FALSE) - 0 = Open(b, FALSE)
          BY <4>1, PlusZero
        <4>4. CASE a = b
          BY <4>1, <4>2, <4>4
        <4>5. CASE a # b
          <5>1. Open(b, FALSE)' = Open(b, FALSE) + 0
            BY <4>2, <4>5
          <5>2. QED
            BY <4>1, <4>3, <4>5, <5>1
        <4>6. QED
          BY <4>4, <4>5
      <3>2. PortReads' = [PortReads EXCEPT ![a] = PortReads[a] + 1]
        BY <1>1, <2>1, <3>1, FunctionStep
      <3>3. QED
        BY <3>2
    <2>3. \A b \in Addr : PortReads'[b] <= MaxReads
      BY <1>1, <2>1
    <2>4. PortWrites' = PortWrites
      <3>1. \A b \in Addr : PortWrites'[b] = PortWrites[b]
        <4> TAKE b \in Addr
        <4>1. /\ PortWrites[b] = Open(b, TRUE) /\ PortWrites'[b] = Open(b, TRUE)'
              /\ PortWrites[a] = Open(a, TRUE) /\ Open(b, TRUE) \in Nat
          BY <1>1, <1>2, <2>1
        <4>2. Open(b, TRUE)' = Open(b, TRUE) + 0
          BY <2>1
        <4>3. Open(b, TRUE) + 0 = Open(b, TRUE) /\ Open(b, TRUE) - 0 = Open(b, TRUE)
          BY <4>1, PlusZero
        <4>4. QED
          BY <4>1, <4>2, <4>3
      <3>2. QED
        BY <1>1, <2>1, <3>1, FunctionStep
    <2>5. Port!AcceptRead(a)
      BY <2>2, <2>3, <2>4 DEF Port!AcceptRead, PortReads, PortWrites
    <2>6. QED
      BY <2>1, <2>5 DEF Port!Next
  <1>5. ASSUME NEW a \in config.addrs, AddWrite(a)
        PROVE  Port!Next
    <2>1. /\ a \in Addr
          /\ \A b \in Addr, w \in BOOLEAN :
               /\ Open(b, w)' = Open(b, w) + IF a = b /\ TRUE = w THEN 1 ELSE 0
               /\ TRUE = w => Open(b, w)' <= MaxWrites
      <3>1. IF TRUE THEN AddWrite(a) ELSE AddRead(a)
        BY <1>5
      <3>2. a \in Addr
        BY Sequences
      <3>3. \A b \in Addr, w \in BOOLEAN :
               /\ Open(b, w)' = Open(b, w) + IF a = b /\ TRUE = w THEN 1 ELSE 0
               /\ TRUE = w => Open(b, w)' <= IF TRUE THEN MaxWrites ELSE MaxReads
        BY <3>1, AddOpens
      <3>4. QED
        BY <3>2, <3>3
    <2>2. PortWrites' = [PortWrites EXCEPT ![a] = @ + 1]
      <3>1. \A b \in Addr : PortWrites'[b] = IF a = b THEN PortWrites[a] + 1 ELSE PortWrites[b]
        <4> TAKE b \in Addr
        <4>1. /\ PortWrites[b] = Open(b, TRUE) /\ PortWrites'[b] = Open(b, TRUE)'
              /\ PortWrites[a] = Open(a, TRUE) /\ Open(b, TRUE) \in Nat
          BY <1>1, <1>2, <2>1
        <4>2. Open(b, TRUE)' = Open(b, TRUE) + IF a = b THEN 1 ELSE 0
          BY <2>1
        <4>3. Open(b, TRUE) + 0 = Open(b, TRUE) /\ Open(b, TRUE) - 0 = Open(b, TRUE)
          BY <4>1, PlusZero
        <4>4. CASE a = b
          BY <4>1, <4>2, <4>4
        <4>5. CASE a # b
          <5>1. Open(b, TRUE)' = Open(b, TRUE) + 0
            BY <4>2, <4>5
          <5>2. QED
            BY <4>1, <4>3, <4>5, <5>1
        <4>6. QED
          BY <4>4, <4>5
      <3>2. PortWrites' = [PortWrites EXCEPT ![a] = PortWrites[a] + 1]
        BY <1>1, <2>1, <3>1, FunctionStep
      <3>3. QED
        BY <3>2
    <2>3. \A b \in Addr : PortWrites'[b] <= MaxWrites
      BY <1>1, <2>1
    <2>4. PortReads' = PortReads
      <3>1. \A b \in Addr : PortReads'[b] = PortReads[b]
        <4> TAKE b \in Addr
        <4>1. /\ PortReads[b] = Open(b, FALSE) /\ PortReads'[b] = Open(b, FALSE)'
              /\ PortReads[a] = Open(a, FALSE) /\ Open(b, FALSE) \in Nat
          BY <1>1, <1>2, <2>1
        <4>2. Open(b, FALSE)' = Open(b, FALSE) + 0
          BY <2>1
        <4>3. Open(b, FALSE) + 0 = Open(b, FALSE) /\ Open(b, FALSE) - 0 = Open(b, FALSE)
          BY <4>1, PlusZero
        <4>4. QED
          BY <4>1, <4>2, <4>3
      <3>2. QED
        BY <1>1, <2>1, <3>1, FunctionStep
    <2>5. Port!AcceptWrite(a)
      BY <2>2, <2>3, <2>4 DEF Port!AcceptWrite, PortReads, PortWrites
    <2>6. QED
      BY <2>1, <2>5 DEF Port!Next
  <1>6. CASE TakeRead
    <2>1. IF FALSE THEN TakeWrite ELSE TakeRead
      BY <1>6
    <2>2. PICK a \in Addr :
             /\ Open(a, FALSE) > 0
             /\ \A b \in Addr, w \in BOOLEAN :
                  Open(b, w)' = Open(b, w) - IF a = b /\ FALSE = w THEN 1 ELSE 0
      BY <2>1, TakeCloses
    <2>3. PortReads[a] > 0 /\ PortReads' = [PortReads EXCEPT ![a] = @ - 1]
      <3>1. \A b \in Addr : PortReads'[b] = IF a = b THEN PortReads[a] - 1 ELSE PortReads[b]
        <4> TAKE b \in Addr
        <4>1. /\ PortReads[b] = Open(b, FALSE) /\ PortReads'[b] = Open(b, FALSE)'
              /\ PortReads[a] = Open(a, FALSE) /\ Open(b, FALSE) \in Nat
          BY <1>1, <1>2, <2>2
        <4>2. Open(b, FALSE)' = Open(b, FALSE) - IF a = b THEN 1 ELSE 0
          BY <2>2
        <4>3. Open(b, FALSE) + 0 = Open(b, FALSE) /\ Open(b, FALSE) - 0 = Open(b, FALSE)
          BY <4>1, PlusZero
        <4>4. CASE a = b
          BY <4>1, <4>2, <4>4
        <4>5. CASE a # b
          <5>1. Open(b, FALSE)' = Open(b, FALSE) - 0
            BY <4>2, <4>5
          <5>2. QED
            BY <4>1, <4>3, <4>5, <5>1
        <4>6. QED
          BY <4>4, <4>5
      <3>2. PortReads' = [PortReads EXCEPT ![a] = PortReads[a] - 1]
        BY <1>1, <2>2, <3>1, FunctionStep
      <3>3. QED
        BY <1>1, <2>2, <3>2
    <2>4. PortWrites' = PortWrites
      <3>1. \A b \in Addr : PortWrites'[b] = PortWrites[b]
        <4> TAKE b \in Addr
        <4>1. /\ PortWrites[b] = Open(b, TRUE) /\ PortWrites'[b] = Open(b, TRUE)'
              /\ PortWrites[a] = Open(a, TRUE) /\ Open(b, TRUE) \in Nat
          BY <1>1, <1>2, <2>2
        <4>2. Open(b, TRUE)' = Open(b, TRUE) - 0
          BY <2>2
        <4>3. Open(b, TRUE) + 0 = Open(b, TRUE) /\ Open(b, TRUE) - 0 = Open(b, TRUE)
          BY <4>1, PlusZero
        <4>4. QED
          BY <4>1, <4>2, <4>3
      <3>2. QED
        BY <1>1, <2>2, <3>1, FunctionStep
    <2>5. Port!AnswerRead(a)
      BY <2>3, <2>4 DEF Port!AnswerRead, PortReads, PortWrites
    <2>6. QED
      BY <2>5 DEF Port!Next
  <1>7. CASE TakeWrite
    <2>1. IF TRUE THEN TakeWrite ELSE TakeRead
      BY <1>7
    <2>2. PICK a \in Addr :
             /\ Open(a, TRUE) > 0
             /\ \A b \in Addr, w \in BOOLEAN :
                  Open(b, w)' = Open(b, w) - IF a = b /\ TRUE = w THEN 1 ELSE 0
      BY <2>1, TakeCloses
    <2>3. PortWrites[a] > 0 /\ PortWrites' = [PortWrites EXCEPT ![a] = @ - 1]
      <3>1. \A b \in Addr : PortWrites'[b] = IF a = b THEN PortWrites[a] - 1 ELSE PortWrites[b]
        <4> TAKE b \in Addr
        <4>1. /\ PortWrites[b] = Open(b, TRUE) /\ PortWrites'[b] = Open(b, TRUE)'
              /\ PortWrites[a] = Open(a, TRUE) /\ Open(b, TRUE) \in Nat
          BY <1>1, <1>2, <2>2
        <4>2. Open(b, TRUE)' = Open(b, TRUE) - IF a = b THEN 1 ELSE 0
          BY <2>2
        <4>3. Open(b, TRUE) + 0 = Open(b, TRUE) /\ Open(b, TRUE) - 0 = Open(b, TRUE)
          BY <4>1, PlusZero
        <4>4. CASE a = b
          BY <4>1, <4>2, <4>4
        <4>5. CASE a # b
          <5>1. Open(b, TRUE)' = Open(b, TRUE) - 0
            BY <4>2, <4>5
          <5>2. QED
            BY <4>1, <4>3, <4>5, <5>1
        <4>6. QED
          BY <4>4, <4>5
      <3>2. PortWrites' = [PortWrites EXCEPT ![a] = PortWrites[a] - 1]
        BY <1>1, <2>2, <3>1, FunctionStep
      <3>3. QED
        BY <1>1, <2>2, <3>2
    <2>4. PortReads' = PortReads
      <3>1. \A b \in Addr : PortReads'[b] = PortReads[b]
        <4> TAKE b \in Addr
        <4>1. /\ PortReads[b] = Open(b, FALSE) /\ PortReads'[b] = Open(b, FALSE)'
              /\ PortReads[a] = Open(a, FALSE) /\ Open(b, FALSE) \in Nat
          BY <1>1, <1>2, <2>2
        <4>2. Open(b, FALSE)' = Open(b, FALSE) - 0
          BY <2>2
        <4>3. Open(b, FALSE) + 0 = Open(b, FALSE) /\ Open(b, FALSE) - 0 = Open(b, FALSE)
          BY <4>1, PlusZero
        <4>4. QED
          BY <4>1, <4>2, <4>3
      <3>2. QED
        BY <1>1, <2>2, <3>1, FunctionStep
    <2>5. Port!AnswerWrite(a)
      BY <2>3, <2>4 DEF Port!AnswerWrite, PortReads, PortWrites
    <2>6. QED
      BY <2>5 DEF Port!Next
  <1>8. CASE ReturnDoneTrans
    BY <1>3, <1>8, ReturnKeeps
  <1>9. CASE \/ RefreshClockTick \/ IssueForRefresh \/ IssueQueued \/ IssueNothing
             \/ ScheduleTransaction \/ UNCHANGED vars
    BY <1>3, <1>9, ClockKeeps
  <1>10. QED
    BY <1>4, <1>5, <1>6, <1>7, <1>8, <1>9 DEF Next, Clock

\* Every step of the controller is a step of the port or leaves it alone:
\* whatever is merged, reordered or refreshed, the channel answers only what
\* was asked, each request once, and never has more open than it may.
THEOREM Implements == Spec => ImplementsPort
  <1>1. Init => Port!Init
    BY PortInit
  <1>2. DramInv /\ TypeOK' /\ [Next]_vars => [Port!Next]_(Port!vars)
    BY PortStep DEF DramInv
  <1>3. QED
    BY <1>1, <1>2, AlwaysInv, TypeCorrect, PTL DEF Spec, ImplementsPort, Port!Spec

----------------------------------------------------------------------------
(* Staggered refresh is in time: a refresh that waits is issued before the  *)
(* next one falls due.                                                      *)

Interval == T.tREFI \div Ranks

\* What the ini file has to grant: after the last column command or activation
\* of a bank there is time to close every bank of a rank, one in a clock, and a
\* refresh is over before the next one is due.
RefreshFits ==
    /\ \A busy \in {read_to_precharge, write_to_precharge, T.tRAS} :
           busy + T.tRP + BanksPerRank < Interval
    /\ T.tRFC < Interval

\* No bank has long to wait until it may be closed or refreshed.
BusyInv ==
    \A b \in Banks :
        /\ timing[b]["PRECHARGE"] + T.tRP + BanksPerRank < Interval
        /\ timing[b]["REFRESH"] < Interval

OpenBanks(bk, r) == {b \in RankBanks(r) : IsRowOpen(bk[b])}

\* In d clocks the open banks of rank r can be closed one after the other and
\* all of its banks are ready for the refresh.
ClosesWithin(bk, tm, r, d) ==
    \A b \in RankBanks(r) :
        /\ IsRowOpen(bk[b]) =>
               tm[b]["PRECHARGE"] + Cardinality(OpenBanks(bk, r)) + T.tRP <= d
        /\ tm[b]["REFRESH"] <= d

\* The timing of the banks one clock later.
Advanced == [b \in Banks |-> [t \in CmdTypes |-> Less(timing[b][t])]]

\* A waiting refresh of rank r holds back the queues of its rank, and the
\* clocks until the next one falls due are enough for it. The timer has ticked
\* in phases issue and schedule, the times of the banks only after them.
WaitsInTime(r) ==
    /\ is_in_ref => ref_q_indices = RankBanks(r)
    /\ phase = "issue" => ClosesWithin(bank, timing, r, refresh_in)
    /\ phase = "schedule" => ClosesWithin(bank, Advanced, r, refresh_in - 1)
    /\ phase \notin {"issue", "schedule"} => ClosesWithin(bank, timing, r, refresh_in - 1)

DueInv ==
    config.refresh = "RANK_LEVEL_STAGGERED" =>
        \/ refresh_q = <<>> /\ ~is_in_ref
        \/ \E ref \in [type : RefreshCmds, bank : Banks] :
              /\ refresh_q = <<ref>>
              /\ ref.type = "REFRESH"
              /\ WaitsInTime(RankOf(ref.bank))

\* What a command adds to the time until a precharge or a refresh.
LEMMA DelayToClose ==
    ASSUME NEW c \in CmdTypes, NEW rel
    PROVE  /\ Delay(c, "PRECHARGE", rel) \in {0, read_to_precharge, write_to_precharge, T.tRAS}
           /\ rel # "same_bank" => Delay(c, "PRECHARGE", rel) = 0
           /\ c = "PRECHARGE" => Delay(c, "PRECHARGE", rel) = 0
  <1>1. CASE c \in ColumnCmds
    BY <1>1 DEF Delay, AfterColumn, ColumnToRow, ColumnCmds, ReadCmds, WriteCmds, RefreshCmds
  <1>2. CASE c = "ACTIVATE"
    BY <1>2 DEF Delay, AfterActivate, ColumnCmds, ReadCmds, WriteCmds, RefreshCmds
  <1>3. CASE c = "PRECHARGE"
    BY <1>3 DEF Delay, AfterPrecharge, ColumnCmds, ReadCmds, WriteCmds, RefreshCmds
  <1>4. CASE c = "REFRESH_BANK"
    BY <1>4 DEF Delay, AfterRefreshBank, ColumnCmds, ReadCmds, WriteCmds, RefreshCmds
  <1>5. CASE c = "REFRESH"
    BY <1>5 DEF Delay, AfterRefresh, ColumnCmds, ReadCmds, WriteCmds, RefreshCmds
  <1>6. QED
    BY <1>1, <1>2, <1>3, <1>4, <1>5 DEF CmdTypes, RefreshCmds

LEMMA DelayToRefresh ==
    ASSUME NEW c \in CmdTypes, NEW rel
    PROVE  /\ Delay(c, "REFRESH", rel) \in {0, read_to_precharge + T.tRP,
                                            write_to_precharge + T.tRP, T.tRP, T.tRFC}
           /\ c # "REFRESH" /\ rel # "same_bank" => Delay(c, "REFRESH", rel) = 0
           /\ c = "PRECHARGE" => Delay(c, "REFRESH", rel) \in {0, T.tRP}
  <1>1. CASE c \in ColumnCmds
    BY <1>1 DEF Delay, AfterColumn, ColumnToRow, ColumnCmds, ReadCmds, WriteCmds, RefreshCmds
  <1>2. CASE c = "ACTIVATE"
    BY <1>2 DEF Delay, AfterActivate, ColumnCmds, ReadCmds, WriteCmds, RefreshCmds
  <1>3. CASE c = "PRECHARGE"
    BY <1>3 DEF Delay, AfterPrecharge, ColumnCmds, ReadCmds, WriteCmds, RefreshCmds
  <1>4. CASE c = "REFRESH_BANK"
    BY <1>4 DEF Delay, AfterRefreshBank, ColumnCmds, ReadCmds, WriteCmds, RefreshCmds
  <1>5. CASE c = "REFRESH"
    BY <1>5 DEF Delay, AfterRefresh, ColumnCmds, ReadCmds, WriteCmds, RefreshCmds
  <1>6. QED
    BY <1>1, <1>2, <1>3, <1>4, <1>5 DEF CmdTypes, RefreshCmds

LEMMA RefreshTimes ==
    /\ Interval \in Nat \ {0} /\ BanksPerRank \in Nat \ {0} /\ T.tRP \in Nat
    /\ read_to_precharge \in Nat /\ write_to_precharge \in Nat /\ T.tRAS \in Nat
    /\ T.tRFC \in Nat
  <1>1. Interval \in Nat \ {0}
    BY Parameters, ShapeAssumption, TimingAssumption DEF Interval
  <1>2. read_to_precharge \in Nat /\ write_to_precharge \in Nat
    BY Parameters DEF read_to_precharge, write_to_precharge, WL
  <1>3. QED
    BY <1>1, <1>2, Parameters, Shape

\* The time a bank has to wait, in a command and over a clock.
LEMMA TimesTyped ==
    ASSUME BankTypes, NEW b \in Banks
    PROVE  /\ timing[b]["PRECHARGE"] \in Nat /\ timing[b]["REFRESH"] \in Nat
           /\ Advanced[b]["PRECHARGE"] = Less(timing[b]["PRECHARGE"])
           /\ Advanced[b]["REFRESH"] = Less(timing[b]["REFRESH"])
  BY DEF BankTypes, Advanced, CmdTypes, RefreshCmds

LEMMA UpdatedTimes ==
    ASSUME BankTypes, NEW t \in CmdTypes, NEW b \in Banks, NEW row,
           UpdateTimingAndStates(t, b, row), NEW c \in Banks
    PROVE  /\ timing'[c]["PRECHARGE"] =
                Max2(timing[c]["PRECHARGE"], Delay(t, "PRECHARGE", Relation(c, b)))
           /\ timing'[c]["REFRESH"] =
                Max2(timing[c]["REFRESH"], Delay(t, "REFRESH", Relation(c, b)))
  BY DEF UpdateTimingAndStates, CmdTypes, RefreshCmds

LEMMA UpdateBusy ==
    ASSUME RefreshFits, BankTypes, BusyInv, NEW t \in CmdTypes, NEW b \in Banks, NEW row,
           UpdateTimingAndStates(t, b, row)
    PROVE  BusyInv'
  <1> SUFFICES ASSUME NEW c \in Banks
               PROVE  /\ timing'[c]["PRECHARGE"] + T.tRP + BanksPerRank < Interval
                      /\ timing'[c]["REFRESH"] < Interval
    BY DEF BusyInv
  <1> DEFINE p == Delay(t, "PRECHARGE", Relation(c, b))
             f == Delay(t, "REFRESH", Relation(c, b))
  <1>1. /\ p \in {0, read_to_precharge, write_to_precharge, T.tRAS}
        /\ f \in {0, read_to_precharge + T.tRP, write_to_precharge + T.tRP, T.tRP, T.tRFC}
    BY DelayToClose, DelayToRefresh
  <1>2. /\ timing'[c]["PRECHARGE"] = Max2(timing[c]["PRECHARGE"], p)
        /\ timing'[c]["REFRESH"] = Max2(timing[c]["REFRESH"], f)
    BY UpdatedTimes
  <1> HIDE DEF p, f
  <1>3. /\ timing[c]["PRECHARGE"] + T.tRP + BanksPerRank < Interval
        /\ timing[c]["REFRESH"] < Interval
    BY DEF BusyInv
  <1>4. /\ read_to_precharge + T.tRP + BanksPerRank < Interval
        /\ write_to_precharge + T.tRP + BanksPerRank < Interval
        /\ T.tRAS + T.tRP + BanksPerRank < Interval /\ T.tRFC < Interval
    BY DEF RefreshFits
  <1>5. p + T.tRP + BanksPerRank < Interval /\ f < Interval
    BY <1>1, <1>4, RefreshTimes
  <1>6. QED
    BY <1>2, <1>3, <1>5 DEF Max2

LEMMA AdvanceBusy ==
    ASSUME BankTypes, BusyInv, timing' = Advanced
    PROVE  BusyInv'
  <1> SUFFICES ASSUME NEW c \in Banks
               PROVE  /\ timing'[c]["PRECHARGE"] + T.tRP + BanksPerRank < Interval
                      /\ timing'[c]["REFRESH"] < Interval
    BY DEF BusyInv
  <1>1. /\ timing[c]["PRECHARGE"] + T.tRP + BanksPerRank < Interval
        /\ timing[c]["REFRESH"] < Interval
    BY DEF BusyInv
  <1>2. \A n \in Nat : Less(n) \in Nat /\ Less(n) <= n
    BY DEF Less
  <1>3. QED
    BY <1>1, <1>2, TimesTyped, RefreshTimes

LEMMA RankSize ==
    ASSUME NEW r \in Nat
    PROVE  IsFiniteSet(RankBanks(r)) /\ Cardinality(RankBanks(r)) <= BanksPerRank
  <1> DEFINE n == BanksPerRank
  <1>1. n \in Nat \ {0}
    BY Shape
  <1>2. PICK k \in Nat : k = r * n
    BY <1>1
  <1>3. RankBanks(r) \subseteq k .. k + n - 1
    <2> SUFFICES ASSUME NEW b \in Banks, RankOf(b) = r
                 PROVE  b \in k .. k + n - 1
      BY DEF RankBanks
    <2>1. b \in Nat /\ b \div n = r
      BY Shape DEF RankOf, Banks
    <2> HIDE DEF n
    <2>2. b = (b \div n) * n + (b % n) /\ b % n \in 0 .. n - 1
      BY <1>1, <2>1
    <2>3. PICK m \in 0 .. n - 1 : m = b % n
      BY <2>2
    <2>4. b = k + m
      BY <1>2, <2>1, <2>2, <2>3
    <2>5. QED
      BY <1>1, <2>3, <2>4
  <1>4. IsFiniteSet(k .. k + n - 1) /\ Cardinality(k .. k + n - 1) = n
    <2>1. PICK e \in Int : e = k + n - 1
      BY <1>1
    <2>2. IsFiniteSet(k .. e) /\ Cardinality(k .. e) = IF k > e THEN 0 ELSE e - k + 1
      BY FS_Interval
    <2> HIDE DEF n
    <2>3. ~(k > e) /\ e - k + 1 = n
      BY <1>1, <2>1
    <2>4. QED
      BY <2>1, <2>2, <2>3
  <1>5. QED
    BY <1>3, <1>4, FS_Subset

LEMMA OpenTyped ==
    ASSUME NEW r \in Nat, NEW bk
    PROVE  /\ IsFiniteSet(OpenBanks(bk, r)) /\ Cardinality(OpenBanks(bk, r)) \in Nat
           /\ Cardinality(OpenBanks(bk, r)) <= BanksPerRank
           /\ OpenBanks(bk, r) # {} => Cardinality(OpenBanks(bk, r)) > 0
  <1>1. OpenBanks(bk, r) \in SUBSET RankBanks(r)
    BY DEF OpenBanks
  <1>2. /\ IsFiniteSet(RankBanks(r)) /\ Cardinality(RankBanks(r)) \in Nat
        /\ Cardinality(RankBanks(r)) <= BanksPerRank
    BY RankSize, FS_CardinalityType
  <1>3. /\ IsFiniteSet(OpenBanks(bk, r))
        /\ Cardinality(OpenBanks(bk, r)) <= Cardinality(RankBanks(r))
    BY <1>1, <1>2, FS_Subset
  <1>4. /\ Cardinality(OpenBanks(bk, r)) \in Nat
        /\ Cardinality(OpenBanks(bk, r)) = 0 <=> OpenBanks(bk, r) = {}
    BY <1>3, FS_CardinalityType, FS_EmptySet
  <1>5. QED
    BY <1>2, <1>3, <1>4, Shape

\* Only the banks of the rank count.
LEMMA ClosesSame ==
    ASSUME NEW bk1, NEW tm1, NEW bk2, NEW tm2, NEW r, NEW d, ClosesWithin(bk1, tm1, r, d),
           \A b \in RankBanks(r) : /\ bk2[b] = bk1[b]
                                   /\ tm2[b]["PRECHARGE"] = tm1[b]["PRECHARGE"]
                                   /\ tm2[b]["REFRESH"] = tm1[b]["REFRESH"]
    PROVE  ClosesWithin(bk2, tm2, r, d)
  <1>1. OpenBanks(bk2, r) = OpenBanks(bk1, r)
    BY DEF OpenBanks
  <1>2. QED
    BY <1>1 DEF ClosesWithin

\* A refresh that falls due has a whole interval.
LEMMA FallsDue ==
    ASSUME BankTypes, BusyInv, NEW r \in Nat
    PROVE  ClosesWithin(bank, timing, r, Interval - 1)
  <1> SUFFICES ASSUME NEW b \in RankBanks(r)
               PROVE  /\ timing[b]["PRECHARGE"] + Cardinality(OpenBanks(bank, r)) + T.tRP
                           <= Interval - 1
                      /\ timing[b]["REFRESH"] <= Interval - 1
    BY DEF ClosesWithin
  <1>1. b \in Banks
    BY DEF RankBanks
  <1>2. /\ timing[b]["PRECHARGE"] \in Nat /\ timing[b]["REFRESH"] \in Nat
        /\ timing[b]["PRECHARGE"] + T.tRP + BanksPerRank < Interval
        /\ timing[b]["REFRESH"] < Interval
    BY <1>1, TimesTyped DEF BusyInv
  <1>3. Cardinality(OpenBanks(bank, r)) \in Nat /\ Cardinality(OpenBanks(bank, r)) <= BanksPerRank
    BY OpenTyped
  <1>4. QED
    BY <1>2, <1>3, RefreshTimes

\* A rank has banks, so its refresh cannot be overdue.
LEMMA NotOverdue ==
    ASSUME BankTypes, NEW b \in Banks, NEW d \in Int,
           ClosesWithin(bank, timing, RankOf(b), d)
    PROVE  d >= 0
  <1>1. b \in RankBanks(RankOf(b))
    BY DEF RankBanks
  <1>2. timing[b]["REFRESH"] \in Nat /\ timing[b]["REFRESH"] <= d
    BY <1>1, TimesTyped DEF ClosesWithin
  <1>3. QED
    BY <1>2

\* While nothing can be done for the refresh, the clock does it.
LEMMA ClockHelps ==
    ASSUME BankTypes, NEW r \in Nat, NEW d \in Int, ClosesWithin(bank, timing, r, d),
           \A b \in RankBanks(r) : IsRowOpen(bank[b]) => timing[b]["PRECHARGE"] # 0,
           \E b \in RankBanks(r) : IsRowOpen(bank[b]) \/ timing[b]["REFRESH"] # 0
    PROVE  ClosesWithin(bank, Advanced, r, d - 1)
  <1> DEFINE n == Cardinality(OpenBanks(bank, r))
  <1>1. n \in Nat
    BY OpenTyped
  <1> HIDE DEF n
  <1>2. ASSUME NEW b \in RankBanks(r)
        PROVE  /\ b \in Banks
               /\ timing[b]["PRECHARGE"] \in Nat /\ timing[b]["REFRESH"] \in Nat
               /\ Advanced[b]["PRECHARGE"] = Less(timing[b]["PRECHARGE"])
               /\ Advanced[b]["REFRESH"] = Less(timing[b]["REFRESH"])
               /\ IsRowOpen(bank[b]) => timing[b]["PRECHARGE"] + n + T.tRP <= d
               /\ timing[b]["REFRESH"] <= d
    <2>1. b \in Banks
      BY DEF RankBanks
    <2>2. QED
      BY <2>1, TimesTyped DEF ClosesWithin, n
  <1>3. d >= 1
    <2>1. PICK b \in RankBanks(r) : IsRowOpen(bank[b]) \/ timing[b]["REFRESH"] # 0
      OBVIOUS
    <2>2. CASE IsRowOpen(bank[b])
      BY <1>1, <1>2, <2>2, RefreshTimes
    <2>3. CASE timing[b]["REFRESH"] # 0
      BY <1>2, <2>3
    <2>4. QED
      BY <2>1, <2>2, <2>3
  <1>4. ASSUME NEW b \in RankBanks(r)
        PROVE  /\ IsRowOpen(bank[b]) => Advanced[b]["PRECHARGE"] + n + T.tRP <= d - 1
               /\ Advanced[b]["REFRESH"] <= d - 1
    <2>1. IsRowOpen(bank[b]) => timing[b]["PRECHARGE"] # 0
      OBVIOUS
    <2>2. QED
      BY <1>1, <1>2, <1>3, <2>1, RefreshTimes DEF Less
  <1>5. QED
    BY <1>4 DEF ClosesWithin, n

\* A bank of the rank is closed.
LEMMA PrechargeHelps ==
    ASSUME BankTypes, NEW r \in Nat, NEW d \in Int, ClosesWithin(bank, timing, r, d),
           NEW b \in RankBanks(r), IsRowOpen(bank[b]),
           UpdateTimingAndStates("PRECHARGE", b, NoRow)
    PROVE  ClosesWithin(bank', Advanced', r, d - 1)
  <1> DEFINE n == Cardinality(OpenBanks(bank, r))
  <1>1. b \in Banks /\ b \in OpenBanks(bank, r)
    BY DEF RankBanks, OpenBanks
  <1>2. n \in Nat /\ n > 0 /\ IsFiniteSet(OpenBanks(bank, r))
    BY <1>1, OpenTyped
  <1>3. \A c \in Banks : bank'[c] = IF c = b THEN ClosedBank ELSE bank[c]
    BY DEF UpdateTimingAndStates, AfterCommand, RefreshCmds
  <1>4. OpenBanks(bank', r) = OpenBanks(bank, r) \ {b}
    BY <1>3 DEF OpenBanks, RankBanks, IsRowOpen, ClosedBank
  <1>5. Cardinality(OpenBanks(bank', r)) = n - 1
    <2> DEFINE S == OpenBanks(bank, r)
    <2> HIDE DEF S
    <2>1. b \in S /\ IsFiniteSet(S)
      BY <1>1, <1>2 DEF S
    <2>2. Cardinality(S \ {b}) = Cardinality(S) - 1
      BY <2>1, FS_RemoveElement
    <2>3. QED
      BY <1>4, <2>2 DEF S
  <1> HIDE DEF n
  <1>6. "PRECHARGE" \in CmdTypes
    BY DEF CmdTypes
  <1>7. BankTypes'
    <2>1. "PRECHARGE" # "ACTIVATE"
      OBVIOUS
    <2>2. QED
      BY <1>1, <1>6, <2>1, UpdateTyped
  <1>8. n + T.tRP <= d
    <2>1. timing[b]["PRECHARGE"] + n + T.tRP <= d /\ timing[b]["PRECHARGE"] \in Nat
      BY <1>1, TimesTyped DEF ClosesWithin, n
    <2>2. QED
      BY <1>2, <2>1, RefreshTimes
  <1>9. ASSUME NEW c \in RankBanks(r)
        PROVE  /\ IsRowOpen(bank'[c]) => Advanced'[c]["PRECHARGE"] + (n - 1) + T.tRP <= d - 1
               /\ Advanced'[c]["REFRESH"] <= d - 1
    <2> DEFINE p == timing[c]["PRECHARGE"]
               f == timing[c]["REFRESH"]
               q == timing'[c]["PRECHARGE"]
               g == timing'[c]["REFRESH"]
    <2>1. c \in Banks
      BY DEF RankBanks
    <2>2. p \in Nat /\ f \in Nat /\ q \in Nat /\ g \in Nat
      BY <1>7, <2>1 DEF BankTypes, CmdTypes, RefreshCmds
    <2>3. /\ q = Max2(p, Delay("PRECHARGE", "PRECHARGE", Relation(c, b)))
          /\ g = Max2(f, Delay("PRECHARGE", "REFRESH", Relation(c, b)))
      BY <1>1, <1>6, <2>1, UpdatedTimes
    <2>4. /\ Delay("PRECHARGE", "PRECHARGE", Relation(c, b)) = 0
          /\ Delay("PRECHARGE", "REFRESH", Relation(c, b)) \in {0, T.tRP}
      BY <1>6, DelayToClose, DelayToRefresh
    <2>5. q = p /\ g <= Max2(f, T.tRP)
      BY <2>2, <2>3, <2>4, RefreshTimes DEF Max2
    <2>6. Advanced'[c]["PRECHARGE"] = Less(q) /\ Advanced'[c]["REFRESH"] = Less(g)
      BY <2>1 DEF Advanced, CmdTypes, RefreshCmds
    <2>7. IsRowOpen(bank'[c]) => IsRowOpen(bank[c])
      BY <1>3, <2>1 DEF IsRowOpen, ClosedBank
    <2>8. (IsRowOpen(bank[c]) => p + n + T.tRP <= d) /\ f <= d
      BY DEF ClosesWithin, n
    <2> HIDE DEF p, f, q, g
    <2>9. IsRowOpen(bank'[c]) => Less(q) + (n - 1) + T.tRP <= d - 1
      BY <1>2, <2>2, <2>5, <2>7, <2>8, RefreshTimes DEF Less
    <2>10. Less(g) <= d - 1
      BY <1>2, <1>8, <2>2, <2>5, <2>8, RefreshTimes DEF Less, Max2
    <2>11. QED
      BY <2>6, <2>9, <2>10
  <1>10. QED
    BY <1>5, <1>9 DEF ClosesWithin

\* The queues of the rank of a waiting refresh, and of no other rank, are held.
LEMMA HeldRank ==
    ASSUME NEW ref \in [type : RefreshCmds, bank : Banks], refresh_q = <<ref>>,
           ref.type = "REFRESH", is_in_ref => ref_q_indices = RankBanks(RankOf(ref.bank))
    PROVE  /\ RefQueues(ref) = RankBanks(RankOf(ref.bank))
           /\ \A b \in Banks : Held(b) <=> b \in RankBanks(RankOf(ref.bank))
           /\ {b \in Banks : Held(b)} = RankBanks(RankOf(ref.bank))
           /\ refresh_q # <<>> /\ Head(refresh_q) = ref /\ Tail(refresh_q) = <<>>
           /\ RankOf(ref.bank) \in Nat
  <1>1. refresh_q # <<>> /\ Head(refresh_q) = ref /\ Tail(refresh_q) = <<>>
    OBVIOUS
  <1>2. RefQueues(ref) = RankBanks(RankOf(ref.bank))
    BY DEF RefQueues
  <1>3. \A b \in Banks : Held(b) <=> b \in RankBanks(RankOf(ref.bank))
    BY <1>1, <1>2 DEF Held
  <1>4. {b \in Banks : Held(b)} = RankBanks(RankOf(ref.bank))
    BY <1>3 DEF RankBanks
  <1>5. RankOf(ref.bank) \in Nat
    <2>1. ref.bank \in Banks
      OBVIOUS
    <2>2. QED
      BY <2>1, RankTyped
  <1>6. QED
    BY <1>1, <1>2, <1>3, <1>4, <1>5

\* A bank of another rank takes its command without touching the rank.
LEMMA ElsewhereSame ==
    ASSUME BankTypes, BankTypes', NEW t \in CmdTypes, t # "REFRESH", NEW b \in Banks, NEW row,
           UpdateTimingAndStates(t, b, row), NEW r, b \notin RankBanks(r), NEW d,
           ClosesWithin(bank, Advanced, r, d)
    PROVE  ClosesWithin(bank', Advanced', r, d)
  <1>1. ASSUME NEW c \in RankBanks(r)
        PROVE  /\ bank'[c] = bank[c]
               /\ Advanced'[c]["PRECHARGE"] = Advanced[c]["PRECHARGE"]
               /\ Advanced'[c]["REFRESH"] = Advanced[c]["REFRESH"]
    <2>1. c \in Banks /\ c # b
      BY DEF RankBanks
    <2>2. bank'[c] = bank[c]
      BY <2>1 DEF UpdateTimingAndStates
    <2>3. Relation(c, b) # "same_bank"
      BY <2>1 DEF Relation
    <2>4. /\ Delay(t, "PRECHARGE", Relation(c, b)) = 0
          /\ Delay(t, "REFRESH", Relation(c, b)) = 0
      BY <2>3, DelayToClose, DelayToRefresh
    <2>5. /\ timing'[c]["PRECHARGE"] = Max2(timing[c]["PRECHARGE"], 0)
          /\ timing'[c]["REFRESH"] = Max2(timing[c]["REFRESH"], 0)
      BY <2>1, <2>4, UpdatedTimes
    <2>6. /\ timing'[c]["PRECHARGE"] = timing[c]["PRECHARGE"]
          /\ timing'[c]["REFRESH"] = timing[c]["REFRESH"]
      BY <2>1, <2>5, TimesTyped DEF Max2
    <2>7. /\ Advanced'[c]["PRECHARGE"] = Less(timing'[c]["PRECHARGE"])
          /\ Advanced'[c]["REFRESH"] = Less(timing'[c]["REFRESH"])
      BY <2>1 DEF Advanced, CmdTypes, RefreshCmds
    <2>8. QED
      BY <2>1, <2>2, <2>6, <2>7, TimesTyped
  <1>2. QED
    BY <1>1, ClosesSame

\* Nothing can be done for the refresh now, so it waits for the clock.
LEMMA NotNow ==
    ASSUME BankTypes, NEW ref \in [type : RefreshCmds, bank : Banks], refresh_q = <<ref>>,
           ref.type = "REFRESH", WaitsInTime(RankOf(ref.bank)), phase = "issue",
           refresh_in \in Nat, ~NextFor(ref)
    PROVE  ClosesWithin(bank, Advanced, RankOf(ref.bank), refresh_in - 1)
  <1> DEFINE r == RankOf(ref.bank)
  <1>1. /\ RefQueues(ref) = RankBanks(r) /\ r \in Nat
        /\ ClosesWithin(bank, timing, r, refresh_in)
    BY HeldRank DEF WaitsInTime
  <1>2. \A b \in RankBanks(r) : IsRowOpen(bank[b]) => timing[b]["PRECHARGE"] # 0
    BY <1>1 DEF NextFor, RefPrecharges
  <1>3. \E b \in RankBanks(r) : IsRowOpen(bank[b]) \/ timing[b]["REFRESH"] # 0
    BY <1>1 DEF NextFor, RefReady
  <1> HIDE DEF r
  <1>4. ClosesWithin(bank, Advanced, r, refresh_in - 1)
    BY <1>1, <1>2, <1>3, ClockHelps
  <1>5. QED
    BY <1>4 DEF r

\* The timer: the refresh before is over when the next one falls due.
LEMMA TickDue ==
    ASSUME RefreshFits, TypeOK, BusyInv, DueInv, RefreshClockTick
    PROVE  DueInv'
  <1> SUFFICES ASSUME config.refresh = "RANK_LEVEL_STAGGERED"
               PROVE  \/ refresh_q' = <<>> /\ ~is_in_ref'
                      \/ \E ref \in [type : RefreshCmds, bank : Banks] :
                            /\ refresh_q' = <<ref>>
                            /\ ref.type = "REFRESH"
                            /\ WaitsInTime(RankOf(ref.bank))'
    BY DEF DueInv, RefreshClockTick, RankOf
  <1>1. BankTypes /\ next_ref \in Banks /\ refresh_in \in Nat
    BY TypesSplit
  <1>2. /\ phase \notin {"issue", "schedule"} /\ phase' = "issue"
        /\ UNCHANGED <<bank, timing, is_in_ref, ref_q_indices>>
    BY DEF RefreshClockTick, bankVars, inRefVars
  <1>3. ASSUME NEW ref \in [type : RefreshCmds, bank : Banks], refresh_q = <<ref>>,
               ref.type = "REFRESH", WaitsInTime(RankOf(ref.bank))
        PROVE  /\ refresh_in > 0
               /\ ClosesWithin(bank, timing, RankOf(ref.bank), refresh_in - 1)
               /\ is_in_ref => ref_q_indices = RankBanks(RankOf(ref.bank))
    <2>1. /\ ClosesWithin(bank, timing, RankOf(ref.bank), refresh_in - 1)
          /\ is_in_ref => ref_q_indices = RankBanks(RankOf(ref.bank))
      BY <1>2, <1>3 DEF WaitsInTime
    <2>2. ref.bank \in Banks /\ refresh_in - 1 \in Int
      BY <1>1
    <2>3. refresh_in - 1 >= 0
      BY <1>1, <2>1, <2>2, NotOverdue
    <2>4. QED
      BY <1>1, <2>1, <2>3
  <1>4. CASE refresh_in > 0
    <2>1. refresh_in' = refresh_in - 1 /\ refresh_q' = refresh_q
      BY <1>1, <1>4 DEF RefreshClockTick
    <2>2. CASE refresh_q = <<>> /\ ~is_in_ref
      BY <1>2, <2>1, <2>2
    <2>3. ASSUME NEW ref \in [type : RefreshCmds, bank : Banks], refresh_q = <<ref>>,
                 ref.type = "REFRESH", WaitsInTime(RankOf(ref.bank))
          PROVE  WaitsInTime(RankOf(ref.bank))'
      <3>1. /\ ClosesWithin(bank, timing, RankOf(ref.bank), refresh_in - 1)
            /\ is_in_ref => ref_q_indices = RankBanks(RankOf(ref.bank))
        BY <1>3, <2>3
      <3>2. ClosesWithin(bank', timing', RankOf(ref.bank), refresh_in')
        BY <1>2, <2>1, <3>1
      <3>3. QED
        BY <1>2, <3>1, <3>2 DEF WaitsInTime, RankOf
    <2>4. QED
      BY <2>1, <2>2, <2>3 DEF DueInv
  <1>5. CASE refresh_in = 0
    <2> PICK n \in Banks : n = next_ref
      BY <1>1
    <2> DEFINE ref == [type |-> "REFRESH", bank |-> n]
    <2>1. refresh_q = <<>> /\ ~is_in_ref
      <3>1. ASSUME NEW x \in [type : RefreshCmds, bank : Banks], refresh_q = <<x>>,
                   x.type = "REFRESH", WaitsInTime(RankOf(x.bank))
            PROVE  FALSE
        BY <1>3, <1>5, <3>1
      <3>2. QED
        BY <3>1 DEF DueInv
    <2>2. refresh_in' = Interval - 1 /\ InsertRefresh
      BY <1>5 DEF RefreshClockTick, refresh_interval, Interval
    <2>3. refresh_q' = <<ref>>
      <3>1. NeedRefresh("REFRESH", next_ref)
        BY <2>2 DEF InsertRefresh
      <3>2. Len(refresh_q) < MaxRefreshes
        BY <2>1, DramAssumption
      <3>3. QED
        BY <2>1, <3>1, <3>2 DEF NeedRefresh
    <2>4. ref \in [type : RefreshCmds, bank : Banks]
      BY DEF RefreshCmds
    <2>5. RankOf(ref.bank) \in Nat
      BY RankTyped
    <2>6. ClosesWithin(bank', timing', RankOf(ref.bank), refresh_in')
      BY <1>1, <1>2, <2>2, <2>5, FallsDue
    <2>7. WaitsInTime(RankOf(ref.bank))'
      BY <1>2, <2>1, <2>6 DEF WaitsInTime, RankOf
    <2>8. QED
      BY <2>3, <2>4, <2>7
  <1>6. QED
    BY <1>1, <1>4, <1>5

\* A precharge for the refresh brings it closer, the refresh itself ends it.
LEMMA IssueRefreshDue ==
    ASSUME TypeOK, TypeOK', NoAbort', DueInv, IssueForRefresh
    PROVE  DueInv'
  <1> SUFFICES ASSUME config.refresh = "RANK_LEVEL_STAGGERED"
               PROVE  \/ refresh_q' = <<>> /\ ~is_in_ref'
                      \/ \E ref \in [type : RefreshCmds, bank : Banks] :
                            /\ refresh_q' = <<ref>>
                            /\ ref.type = "REFRESH"
                            /\ WaitsInTime(RankOf(ref.bank))'
    BY DEF DueInv, IssueForRefresh, RankOf
  <1>1. BankTypes /\ refresh_in \in Nat
    BY TypesSplit
  <1>2. phase = "issue" /\ refresh_q # <<>> /\ refresh_in' = refresh_in
    BY DEF IssueForRefresh, refVars
  <1>3. PICK ref \in [type : RefreshCmds, bank : Banks] :
              /\ refresh_q = <<ref>>
              /\ ref.type = "REFRESH"
              /\ WaitsInTime(RankOf(ref.bank))
    BY <1>2 DEF DueInv
  <1> DEFINE r == RankOf(ref.bank)
  <1>4. /\ RefQueues(ref) = RankBanks(r) /\ {b \in Banks : Held(b)} = RankBanks(r) /\ r \in Nat
        /\ Head(refresh_q) = ref /\ Tail(refresh_q) = <<>>
        /\ ClosesWithin(bank, timing, r, refresh_in)
    BY <1>2, <1>3, HeldRank DEF WaitsInTime
  <1>5. CASE RefPrecharges(ref) = {}
    BY <1>4, <1>5 DEF IssueForRefresh
  <1>6. CASE RefPrecharges(ref) # {}
    <2>1. PICK b \in RefPrecharges(ref) : IssueCommand("PRECHARGE", b, NoRow, NoRow)
      BY <1>4, <1>6 DEF IssueForRefresh
    <2>2. is_in_ref' = TRUE /\ ref_q_indices' = RankBanks(r) /\ refresh_q' = refresh_q
      BY <1>4, <1>6 DEF IssueForRefresh
    <2>3. b \in RankBanks(r) /\ IsRowOpen(bank[b])
      BY <1>4 DEF RefPrecharges
    <2>4. UpdateTimingAndStates("PRECHARGE", b, NoRow) /\ phase' \in {"schedule", "aborted"}
      BY <2>1 DEF IssueCommand, Abort
    <2>5. phase' = "schedule"
      BY <2>4 DEF NoAbort
    <2> HIDE DEF r
    <2>6. ClosesWithin(bank', Advanced', r, refresh_in - 1)
      BY <1>1, <1>4, <2>3, <2>4, PrechargeHelps
    <2>7. WaitsInTime(r)'
      BY <1>2, <2>2, <2>5, <2>6 DEF WaitsInTime, RankOf, r
    <2>8. QED
      BY <1>3, <2>2, <2>7 DEF r
  <1>7. QED
    BY <1>5, <1>6

\* A command for a transaction goes to another rank.
LEMMA IssueQueuedDue ==
    ASSUME TypeOK, TypeOK', NoAbort', DueInv, IssueQueued
    PROVE  DueInv'
  <1> SUFFICES ASSUME config.refresh = "RANK_LEVEL_STAGGERED"
               PROVE  \/ refresh_q' = <<>> /\ ~is_in_ref'
                      \/ \E ref \in [type : RefreshCmds, bank : Banks] :
                            /\ refresh_q' = <<ref>>
                            /\ ref.type = "REFRESH"
                            /\ WaitsInTime(RankOf(ref.bank))'
    BY DEF DueInv, IssueQueued, RankOf
  <1>1. BankTypes /\ BankTypes' /\ refresh_in \in Nat
    BY TypesSplit DEF TypeOK, BankTypes, BankState
  <1>2. /\ phase = "issue" /\ NoRefreshNow
        /\ is_in_ref' = (refresh_q # <<>>) /\ ref_q_indices' = {b \in Banks : Held(b)}
        /\ refresh_q' = refresh_q /\ refresh_in' = refresh_in
    BY DEF IssueQueued, HoldQueues, refVars
  <1>3. CASE refresh_q = <<>>
    BY <1>2, <1>3
  <1>4. CASE refresh_q # <<>>
    <2>1. PICK ref \in [type : RefreshCmds, bank : Banks] :
                /\ refresh_q = <<ref>>
                /\ ref.type = "REFRESH"
                /\ WaitsInTime(RankOf(ref.bank))
      BY <1>4 DEF DueInv
    <2> DEFINE r == RankOf(ref.bank)
    <2>2. /\ {b \in Banks : Held(b)} = RankBanks(r) /\ Head(refresh_q) = ref
          /\ \A b \in Banks : Held(b) <=> b \in RankBanks(r)
      BY <2>1, HeldRank DEF WaitsInTime
    <2>3. ClosesWithin(bank, Advanced, r, refresh_in - 1)
      <3>1. ~NextFor(ref)
        BY <1>2, <1>4, <2>2 DEF NoRefreshNow
      <3>2. QED
        BY <1>1, <1>2, <2>1, <3>1, NotNow
    <2>4. PICK b \in Banks : \E i, j \in 1 .. Len(queues[b]) : \E t \in CmdTypes :
             /\ ~Held(b)
             /\ t = Needed(b, ColumnCmd(queues[b][i].is_write), RowOf(queues[b][i].addr))
             /\ IssueCommand(t, b, queues[b][i].addr, RowOf(queues[b][i].addr))
      BY QueuedCommand
    <2>5. PICK i \in 1 .. Len(queues[b]), t \in CmdTypes :
             /\ ~Held(b)
             /\ t = Needed(b, ColumnCmd(queues[b][i].is_write), RowOf(queues[b][i].addr))
             /\ IssueCommand(t, b, queues[b][i].addr, RowOf(queues[b][i].addr))
      BY <2>4
    <2>6. t # "REFRESH"
      <3>1. ColumnCmd(queues[b][i].is_write) \in ColumnCmds
        BY DEF ColumnCmd, ColumnCmds, ReadCmds, WriteCmds
      <3>2. t \in ColumnCmds \cup {"ACTIVATE", "PRECHARGE"}
        BY <2>5, <3>1, RequiredLegal DEF Needed
      <3>3. QED
        BY <3>2 DEF ColumnCmds, ReadCmds, WriteCmds
    <2>7. PICK row : UpdateTimingAndStates(t, b, row)
      BY <2>5 DEF IssueCommand
    <2>8. phase' = "schedule"
      BY <2>5 DEF IssueCommand, Abort, NoAbort
    <2>9. b \notin RankBanks(r)
      BY <2>2, <2>5
    <2> HIDE DEF r
    <2>10. ClosesWithin(bank', Advanced', r, refresh_in - 1)
      BY <1>1, <2>3, <2>6, <2>7, <2>9, ElsewhereSame
    <2>11. WaitsInTime(r)'
      BY <1>2, <2>2, <2>8, <2>10 DEF WaitsInTime, RankOf, r
    <2>12. QED
      BY <1>2, <2>1, <2>11 DEF r
  <1>5. QED
    BY <1>3, <1>4

LEMMA IssueNothingDue ==
    ASSUME TypeOK, DueInv, IssueNothing
    PROVE  DueInv'
  <1> SUFFICES ASSUME config.refresh = "RANK_LEVEL_STAGGERED"
               PROVE  \/ refresh_q' = <<>> /\ ~is_in_ref'
                      \/ \E ref \in [type : RefreshCmds, bank : Banks] :
                            /\ refresh_q' = <<ref>>
                            /\ ref.type = "REFRESH"
                            /\ WaitsInTime(RankOf(ref.bank))'
    BY DEF DueInv, IssueNothing, RankOf
  <1>1. BankTypes /\ refresh_in \in Nat
    BY TypesSplit
  <1>2. /\ phase = "issue" /\ NoRefreshNow /\ phase' = "schedule"
        /\ is_in_ref' = (refresh_q # <<>>) /\ ref_q_indices' = {b \in Banks : Held(b)}
        /\ UNCHANGED <<refresh_q, refresh_in, bank, timing>>
    BY DEF IssueNothing, HoldQueues, refVars, bankVars
  <1>3. CASE refresh_q = <<>>
    BY <1>2, <1>3
  <1>4. CASE refresh_q # <<>>
    <2>1. PICK ref \in [type : RefreshCmds, bank : Banks] :
                /\ refresh_q = <<ref>>
                /\ ref.type = "REFRESH"
                /\ WaitsInTime(RankOf(ref.bank))
      BY <1>4 DEF DueInv
    <2> DEFINE r == RankOf(ref.bank)
    <2>2. {b \in Banks : Held(b)} = RankBanks(r) /\ Head(refresh_q) = ref
      BY <2>1, HeldRank DEF WaitsInTime
    <2>3. ClosesWithin(bank, Advanced, r, refresh_in - 1)
      <3>1. ~NextFor(ref)
        BY <1>2, <1>4, <2>2 DEF NoRefreshNow
      <3>2. QED
        BY <1>1, <1>2, <2>1, <3>1, NotNow
    <2> HIDE DEF r
    <2>4. Advanced' = Advanced
      BY <1>2 DEF Advanced
    <2>5. ClosesWithin(bank', Advanced', r, refresh_in' - 1)
      BY <1>2, <2>3, <2>4
    <2>6. WaitsInTime(r)'
      BY <1>2, <2>2, <2>5 DEF WaitsInTime, RankOf, r
    <2>7. QED
      BY <1>2, <2>1, <2>6 DEF r
  <1>5. QED
    BY <1>3, <1>4

\* A clock goes by.
LEMMA ScheduleDue ==
    ASSUME TypeOK, DueInv, ScheduleTransaction
    PROVE  DueInv'
  <1>1. /\ phase = "schedule" /\ phase' = "idle" /\ timing' = Advanced
        /\ UNCHANGED <<config, bank, refresh_q, refresh_in, is_in_ref, ref_q_indices>>
    BY DEF ScheduleTransaction, AdvanceClock, Advanced, refVars, inRefVars
  <1>2. ASSUME NEW r, WaitsInTime(r)
        PROVE  WaitsInTime(r)'
    <2>1. /\ ClosesWithin(bank, Advanced, r, refresh_in - 1)
          /\ is_in_ref => ref_q_indices = RankBanks(r)
      BY <1>1, <1>2 DEF WaitsInTime
    <2>2. ClosesWithin(bank', timing', r, refresh_in' - 1)
      BY <1>1, <2>1
    <2>3. QED
      BY <1>1, <2>1, <2>2 DEF WaitsInTime
  <1>3. QED
    BY <1>1, <1>2 DEF DueInv, RankOf

LEMMA OthersDue ==
    ASSUME DueInv, phase' = phase \/ ({phase, phase'} \cap {"issue", "schedule"} = {}),
           UNCHANGED <<config, bank, timing, refresh_q, refresh_in, is_in_ref, ref_q_indices>>
    PROVE  DueInv'
  <1>1. ASSUME NEW r, WaitsInTime(r)
        PROVE  WaitsInTime(r)'
    <2>1. Advanced' = Advanced
      BY DEF Advanced
    <2>2. phase' = phase \/ (phase \notin {"issue", "schedule"} /\ phase' \notin {"issue", "schedule"})
      OBVIOUS
    <2>3. QED
      BY <1>1, <2>1, <2>2 DEF WaitsInTime
  <1>2. QED
    BY <1>1 DEF DueInv, RankOf

LEMMA InitDue ==
    ASSUME RefreshFits, Init
    PROVE  BusyInv /\ DueInv
  <1>1. BusyInv
    <2> SUFFICES ASSUME NEW b \in Banks
                 PROVE  /\ timing[b]["PRECHARGE"] + T.tRP + BanksPerRank < Interval
                        /\ timing[b]["REFRESH"] < Interval
      BY DEF BusyInv
    <2>1. timing[b]["PRECHARGE"] = 0 /\ timing[b]["REFRESH"] = 0
      BY DEF Init, CmdTypes, RefreshCmds
    <2>2. T.tRAS + T.tRP + BanksPerRank < Interval
      BY DEF RefreshFits
    <2>3. QED
      BY <2>1, <2>2, RefreshTimes
  <1>2. DueInv
    BY DEF Init, DueInv
  <1>3. QED
    BY <1>1, <1>2

LEMMA StepDue ==
    ASSUME RefreshFits, TypeOK, TypeOK', NoAbort', BusyInv, DueInv, [Next]_vars
    PROVE  BusyInv' /\ DueInv'
  <1>1. BankTypes
    BY TypesSplit
  <1>2. ASSUME timing' = timing
        PROVE  BusyInv'
    BY <1>2 DEF BusyInv
  <1>3. CASE \E a \in config.addrs : AddRead(a) \/ AddWrite(a)
    <2>1. /\ phase' = phase
          /\ UNCHANGED <<config, bank, timing, refresh_q, refresh_in, is_in_ref, ref_q_indices>>
      BY <1>3 DEF AddRead, AddWrite, bankVars, inRefVars, refVars
    <2>2. QED
      BY <1>2, <2>1, OthersDue
  <1>4. CASE TakeRead \/ TakeWrite
    <2>1. /\ phase' = phase
          /\ UNCHANGED <<config, bank, timing, refresh_q, refresh_in, is_in_ref, ref_q_indices>>
      BY <1>4 DEF TakeRead, TakeWrite, bankVars, inRefVars, refVars
    <2>2. QED
      BY <1>2, <2>1, OthersDue
  <1>5. CASE ReturnDoneTrans
    <2>1. phase \in {"idle", "return"} /\ phase' \in {"return", "aborted"}
      BY <1>5 DEF ReturnDoneTrans, Callback, Abort
    <2>2. UNCHANGED <<config, bank, timing, refresh_q, refresh_in, is_in_ref, ref_q_indices>>
      BY <1>5 DEF ReturnDoneTrans, bankVars, inRefVars, refVars
    <2>3. {phase, phase'} \cap {"issue", "schedule"} = {}
      BY <2>1
    <2>4. QED
      BY <1>2, <2>2, <2>3, OthersDue
  <1>6. CASE RefreshClockTick
    <2>1. timing' = timing
      BY <1>6 DEF RefreshClockTick, bankVars
    <2>2. QED
      BY <1>2, <1>6, <2>1, TickDue
  <1>7. CASE IssueForRefresh
    <2>1. PICK t \in RefreshCmds \cup {"PRECHARGE"}, b \in Banks :
                IssueCommand(t, b, NoRow, NoRow)
      BY <1>7, RefreshCommand
    <2>2. t \in CmdTypes /\ UpdateTimingAndStates(t, b, NoRow)
      BY <2>1 DEF IssueCommand, CmdTypes
    <2>3. BusyInv'
      BY <1>1, <2>2, UpdateBusy
    <2>4. QED
      BY <1>7, <2>3, IssueRefreshDue
  <1>8. CASE IssueQueued
    <2>1. PICK b \in Banks : \E i, j \in 1 .. Len(queues[b]) : \E t \in CmdTypes :
                IssueCommand(t, b, queues[b][i].addr, RowOf(queues[b][i].addr))
      BY <1>8, QueuedCommand
    <2>2. PICK t \in CmdTypes : \E row : UpdateTimingAndStates(t, b, row)
      BY <2>1 DEF IssueCommand
    <2>3. PICK row : UpdateTimingAndStates(t, b, row)
      BY <2>2
    <2>4. BusyInv'
      BY <1>1, <2>3, UpdateBusy
    <2>5. QED
      BY <1>8, <2>4, IssueQueuedDue
  <1>9. CASE IssueNothing
    <2>1. timing' = timing
      BY <1>9 DEF IssueNothing, bankVars
    <2>2. QED
      BY <1>2, <1>9, <2>1, IssueNothingDue
  <1>10. CASE ScheduleTransaction
    <2>1. timing' = Advanced
      BY <1>10 DEF ScheduleTransaction, AdvanceClock, Advanced
    <2>2. BusyInv'
      BY <1>1, <2>1, AdvanceBusy
    <2>3. QED
      BY <1>10, <2>2, ScheduleDue
  <1>11. CASE UNCHANGED vars
    <2>1. UNCHANGED <<config, phase, bank, timing, refresh_q, refresh_in, is_in_ref,
                      ref_q_indices>>
      BY <1>11 DEF vars, bankVars, inRefVars, refVars
    <2>2. QED
      BY <1>2, <2>1, OthersDue
  <1>12. QED
    BY <1>3, <1>4, <1>5, <1>6, <1>7, <1>8, <1>9, <1>10, <1>11 DEF Next, Clock

\* Where the ini file grants the time (every one of DRAMsim3 does), a staggered
\* refresh is issued before the next one falls due, whatever is queued: the
\* refreshes never pile up.
THEOREM RefreshInTime ==
    ASSUME RefreshFits
    PROVE  Spec => []RefreshOnTime
  <1>1. Init => BusyInv /\ DueInv
    BY InitDue
  <1>2. TypeOK /\ TypeOK' /\ NoAbort' /\ BusyInv /\ DueInv /\ [Next]_vars => BusyInv' /\ DueInv'
    BY StepDue
  <1>3. DueInv => RefreshOnTime
    <2> SUFFICES ASSUME DueInv, config.refresh = "RANK_LEVEL_STAGGERED"
                 PROVE  Len(refresh_q) <= 1
      BY DEF RefreshOnTime
    <2>1. CASE refresh_q = <<>>
      BY <2>1
    <2>2. CASE \E ref \in [type : RefreshCmds, bank : Banks] : refresh_q = <<ref>>
      BY <2>2
    <2>3. QED
      BY <2>1, <2>2 DEF DueInv
  <1>4. DramInv => TypeOK /\ NoAbort
    BY DEF DramInv
  <1>5. QED
    BY <1>1, <1>2, <1>3, <1>4, AlwaysInv, PTL DEF Spec

=============================================================================
