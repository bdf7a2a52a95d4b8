---------------------------- MODULE DramPort ----------------------------
(* What the simulated memory promises to the AXI side (CoDRAMsim3): it      *)
(* answers nothing that was not asked, and answers everything in the end.   *)
EXTENDS Naturals

CONSTANTS Addr, MaxReads, MaxWrites

VARIABLES reads, writes     \* outstanding requests of each address

vars == <<reads, writes>>

NoRequests == [a \in Addr |-> 0]

Init == reads = NoRequests /\ writes = NoRequests

AcceptRead(a) ==
    /\ reads' = [reads EXCEPT ![a] = @ + 1]
    /\ \A b \in Addr : reads'[b] <= MaxReads
    /\ UNCHANGED writes

AcceptWrite(a) ==
    /\ writes' = [writes EXCEPT ![a] = @ + 1]
    /\ \A b \in Addr : writes'[b] <= MaxWrites
    /\ UNCHANGED reads

AnswerRead(a) ==
    /\ reads[a] > 0
    /\ reads' = [reads EXCEPT ![a] = @ - 1]
    /\ UNCHANGED writes

AnswerWrite(a) ==
    /\ writes[a] > 0
    /\ writes' = [writes EXCEPT ![a] = @ - 1]
    /\ UNCHANGED reads

Next == \E a \in Addr :
            AcceptRead(a) \/ AcceptWrite(a) \/ AnswerRead(a) \/ AnswerWrite(a)

Spec == Init /\ [][Next]_vars

\* With one request of each kind at a time: it is answered in the end.
Answers ==
    \A a \in Addr : /\ reads[a] > 0 ~> reads[a] = 0
                    /\ writes[a] > 0 ~> writes[a] = 0
=============================================================================
