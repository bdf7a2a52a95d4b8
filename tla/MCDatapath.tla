---------------------------- MODULE MCDatapath ----------------------------
(* Bytes of one bit: registers of eight bits and W instructions on four.    *)
(* The operands are the boundaries, a small number and one whose low half   *)
(* is zero.                                                                 *)
EXTENDS Datapath

MCOperands == {0, 1, 3, 127, 128, 240, 255}
MCAboveMem == [i \in 0 .. 7 |-> IF i \in {0, 2, 3, 6} THEN 1 ELSE 0]
===========================================================================
