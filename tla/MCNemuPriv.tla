---------------------------- MODULE MCNemuPriv ----------------------------
(* Two program addresses, the two trap handlers; a software interrupt of S  *)
(* mode that can be delegated and the timer of M mode; one faulting address.*)
EXTENDS NemuPriv
============================================================================
