--------------------------- MODULE DramTiming ---------------------------
(* The JEDEC timing of DRAMsim3 (timing.cc) and the state of one bank       *)
(* (bankstate.cc): which command a bank needs next, what a command does to  *)
(* a bank, and how long every bank of the channel has to wait after it.     *)
(* A time is the number of memory clocks still to wait: cmd_timing_ minus   *)
(* clk_, 0 once it has passed.                                              *)
EXTENDS Integers

CONSTANTS
    Ranks, Bankgroups, BanksPerGroup,   \* the shape of a channel
    Rows,                               \* rows of a bank that are addressed
    RowHitLimit,                        \* row hits that may pass a conflict (4)
    T                                   \* the [timing] section of the ini file

BanksPerRank == Bankgroups * BanksPerGroup
NumBanks     == Ranks * BanksPerRank
Banks        == 0 .. NumBanks - 1

ASSUME ShapeAssumption ==
    /\ Ranks \in Nat \ {0}
    /\ Bankgroups \in Nat \ {0}
    /\ BanksPerGroup \in Nat \ {0}
    /\ Rows \subseteq Nat
    /\ RowHitLimit \in Nat

\* Every refresh policy divides the clock by its interval.
ASSUME TimingAssumption ==
    /\ T \in [{"AL", "CL", "CWL", "burst_cycle", "tCCD_L", "tCCD_S", "tRTRS", "tRTP", "tRP",
               "tWTR_L", "tWTR_S", "tWR", "tRAS", "tRCD", "tRRD_L", "tRRD_S", "tRFC",
               "tFAW", "tREFI", "tREFIb"} -> Nat]
    /\ T.tREFI \div Ranks > 0 /\ T.tREFIb > 0

\* A bank is its index in rank, bankgroup, bank order, which is also the
\* index of its command queue (GetQueueIndex, PER_BANK).
RankOf(b)    == b \div BanksPerRank
GroupOf(b)   == b \div BanksPerGroup
RankBanks(r) == {b \in Banks : RankOf(b) = r}

ReadCmds    == {"READ", "READ_PRECHARGE"}
WriteCmds   == {"WRITE", "WRITE_PRECHARGE"}
ColumnCmds  == ReadCmds \cup WriteCmds
RefreshCmds == {"REFRESH", "REFRESH_BANK"}
CmdTypes    == ColumnCmds \cup RefreshCmds \cup {"ACTIVATE", "PRECHARGE"}

Max2(m, n) == IF m >= n THEN m ELSE n

----------------------------------------------------------------------------
(* timing.cc                                                                *)

RL          == T.AL + T.CL
WL          == T.AL + T.CWL
read_delay  == RL + T.burst_cycle
write_delay == WL + T.burst_cycle
tRC         == T.tRAS + T.tRP

\* With a single bankgroup the _S values stand for the _L ones.
tCCD_L == IF Bankgroups = 1 THEN T.tCCD_S ELSE T.tCCD_L
tWTR_L == IF Bankgroups = 1 THEN T.tWTR_S ELSE T.tWTR_L
tRRD_L == IF Bankgroups = 1 THEN T.tRRD_S ELSE T.tRRD_L

read_to_precharge  == T.AL + T.tRTP
write_to_precharge == WL + T.burst_cycle + T.tWR

\* How the bank a stands to the bank b of the last command.
Relation(a, b) ==
    CASE a = b                    -> "same_bank"
      [] a # b /\ GroupOf(a) = GroupOf(b) -> "same_bankgroup"
      [] GroupOf(a) # GroupOf(b) /\ RankOf(a) = RankOf(b) -> "same_rank"
      [] OTHER -> "other_ranks"

SameDirection(rel) ==
    CASE rel \in {"same_bank", "same_bankgroup"} -> Max2(T.burst_cycle, tCCD_L)
      [] rel = "same_rank"                       -> Max2(T.burst_cycle, T.tCCD_S)
      [] OTHER                                   -> T.burst_cycle

\* From a column command to a column command: the turn-around of the data bus.
ColumnToColumn(c, t, rel) ==
    CASE c \in ReadCmds /\ t \in ReadCmds ->
            SameDirection(rel) + (IF rel = "other_ranks" THEN T.tRTRS ELSE 0)
      [] c \in WriteCmds /\ t \in WriteCmds -> SameDirection(rel)
      [] c \in ReadCmds /\ t \in WriteCmds ->
            IF rel = "other_ranks"
            THEN read_delay + T.burst_cycle + T.tRTRS - write_delay
            ELSE RL + T.burst_cycle - WL + T.tRTRS
      [] OTHER ->
            CASE rel \in {"same_bank", "same_bankgroup"} -> write_delay + tWTR_L
              [] rel = "same_rank" -> write_delay + T.tWTR_S
              [] OTHER -> write_delay + T.burst_cycle + T.tRTRS - read_delay

\* From a column command on the same bank to what closes or reopens the bank.
ColumnToRow(c, t) ==
    CASE c = "READ" /\ t = "PRECHARGE"  -> read_to_precharge
      [] c = "WRITE" /\ t = "PRECHARGE" -> write_to_precharge
      [] c = "READ_PRECHARGE" /\ t = "ACTIVATE" -> T.AL + T.burst_cycle + T.tRTP + T.tRP
      [] c = "READ_PRECHARGE" /\ t \in RefreshCmds -> read_to_precharge + T.tRP
      [] c = "WRITE_PRECHARGE" /\ t \in RefreshCmds \cup {"ACTIVATE"} ->
            write_to_precharge + T.tRP
      [] OTHER -> 0

AfterColumn(c, t, rel) ==
    IF t \in ColumnCmds
    THEN IF rel = "same_bank" /\ c \in {"READ_PRECHARGE", "WRITE_PRECHARGE"}
         THEN 0 ELSE ColumnToColumn(c, t, rel)
    ELSE IF rel = "same_bank" THEN ColumnToRow(c, t) ELSE 0

AfterActivate(t, rel) ==
    CASE rel = "same_bank" ->
            (CASE t = "ACTIVATE"       -> tRC
               [] t \in ColumnCmds     -> T.tRCD - T.AL
               [] t = "PRECHARGE"      -> T.tRAS
               [] OTHER                -> 0)
      [] rel \in {"same_bankgroup", "same_rank"} ->
            (CASE t = "ACTIVATE"     -> IF rel = "same_rank" THEN T.tRRD_S ELSE tRRD_L
               [] t = "REFRESH_BANK" -> tRC
               [] OTHER              -> 0)
      [] OTHER -> 0

AfterPrecharge(t, rel) ==
    IF rel = "same_bank" /\ t \in RefreshCmds \cup {"ACTIVATE"} THEN T.tRP ELSE 0

\* The same_rank entries of REFRESH_BANK are never applied: UpdateTiming uses
\* the same_bank table for that command, and it has no entry there.
AfterRefreshBank(t, rel) ==
    CASE rel \in {"same_bankgroup", "same_rank"} /\ t = "ACTIVATE"     -> T.tRFC
      [] rel \in {"same_bankgroup", "same_rank"} /\ t = "REFRESH_BANK" -> T.tREFI
      [] OTHER -> 0

AfterRefresh(t, rel) ==
    IF rel # "other_ranks" /\ t \in {"ACTIVATE", "REFRESH"} THEN T.tRFC ELSE 0

\* The least number of clocks from command c to command t.
Delay(c, t, rel) ==
    CASE c \in ColumnCmds    -> AfterColumn(c, t, rel)
      [] c = "ACTIVATE"      -> AfterActivate(t, rel)
      [] c = "PRECHARGE"     -> AfterPrecharge(t, rel)
      [] c = "REFRESH_BANK"  -> AfterRefreshBank(t, rel)
      [] OTHER               -> AfterRefresh(t, rel)

----------------------------------------------------------------------------
(* bankstate.cc: a bank is closed or has one row open, and counts the       *)
(* column commands on that row.                                             *)

NoRow        == -1
ClosedBank   == [row |-> NoRow, hits |-> 0]
IsRowOpen(s) == s.row # NoRow

\* The command that has to come next for command t on row to be possible.
RequiredType(s, t, row) ==
    CASE ~IsRowOpen(s) /\ t \in ColumnCmds -> "ACTIVATE"
      [] ~IsRowOpen(s) /\ t \in RefreshCmds -> t
      [] IsRowOpen(s) /\ t \in ColumnCmds /\ s.row = row -> t
      [] OTHER -> "PRECHARGE"

\* UpdateState aborts on any other pair of state and command.
Legal(s, t) ==
    IF IsRowOpen(s) THEN t \in ColumnCmds \cup {"PRECHARGE"}
                    ELSE t \in RefreshCmds \cup {"ACTIVATE"}

\* Row hits are compared with RowHitLimit only, so they are not counted past it.
AfterCommand(s, t, row) ==
    CASE t \in {"READ", "WRITE"} -> [s EXCEPT !.hits = IF @ < RowHitLimit THEN @ + 1 ELSE @]
      [] t = "ACTIVATE"          -> [s EXCEPT !.row = row]
      [] t \in RefreshCmds       -> s
      [] OTHER                   -> ClosedBank
=============================================================================
