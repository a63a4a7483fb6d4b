----------------------------- MODULE MCMsgQueue -----------------------------
(* Instances of MsgQueue for TLC: the addresses malloc reuses. *)
EXTENDS MsgQueue
CONSTANTS n1, n2, n3
=============================================================================
