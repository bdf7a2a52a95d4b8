------------------------------ MODULE MCAxiSys ------------------------------
(* Small instances of AxiSys for TLC: the words of memory form a ring.     *)
EXTENDS AxiSys

CONSTANTS NWords

MCWords    == 0..(NWords - 1)
MCNextWord == [w \in MCWords |-> (w + 1) % NWords]
=============================================================================
