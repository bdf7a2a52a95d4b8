----------------------------- MODULE MCDram -----------------------------
(* Instances of Dram for TLC: two ranks of two banks, three addresses, two  *)
(* of them in one bank.                                                     *)
EXTENDS Dram

CONSTANTS a0, a1, a2

\* a0 and a1 are two rows of the first bank, a2 is in the other rank.
MCAddressMapping ==
    [a \in Addr |-> [bank |-> IF a = a2 THEN NumBanks \div 2 ELSE 0,
                     row  |-> IF a = a1 THEN 1 ELSE 0,
                     col  |-> 0]]

\* The shortest clocks that keep the order of the parameters of DDR4 parts.
MCTiming ==
    [AL |-> 0, CL |-> 1, CWL |-> 1, burst_cycle |-> 1, tCCD_L |-> 1, tCCD_S |-> 1,
     tRTRS |-> 1, tRTP |-> 1, tRP |-> 1, tWTR_L |-> 1, tWTR_S |-> 1, tWR |-> 1,
     tRAS |-> 2, tRCD |-> 1, tRRD_L |-> 1, tRRD_S |-> 1, tRFC |-> 3, tFAW |-> 3,
     tREFI |-> 8 * Ranks, tREFIb |-> 5]

Ini(page, refresh, addrs) == [page |-> page, refresh |-> refresh, addrs |-> addrs]

StaggeredOpen == {Ini("OPEN_PAGE", "RANK_LEVEL_STAGGERED", {a0, a1})}
Simultaneous  == {Ini("OPEN_PAGE", "RANK_LEVEL_SIMULTANEOUS", {a0, a1})}

\* Every policy, the one of XiangShan.ini with all three addresses.
AllPolicies ==
    {Ini("OPEN_PAGE", "RANK_LEVEL_STAGGERED", {a0, a1, a2}),
     Ini("CLOSE_PAGE", "RANK_LEVEL_STAGGERED", {a0, a2}),
     Ini("OPEN_PAGE", "RANK_LEVEL_SIMULTANEOUS", {a0, a1}),
     Ini("CLOSE_PAGE", "BANK_LEVEL_STAGGERED", {a0, a1})}
=============================================================================
