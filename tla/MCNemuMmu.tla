---------------------------- MODULE MCNemuMmu ----------------------------
(* Two pages that share a slot of the host TLB and three frames, the last   *)
(* one a device; each page has its entry, or both are in one superpage.     *)
EXTENDS NemuMmu

MCPages  == 0 .. 1
MCLeafOf == [p \in MCPages |-> p]
MCSuper  == [p \in MCPages |-> 0]
MCSlotOf == [p \in MCPages |-> 0]
MCRunsIn == [ld |-> {"S"}, fw |-> {"M"}]
MCShared == [ld |-> {"S", "M"}]
==========================================================================
