---------------------------- MODULE CommandQueue ----------------------------
(***************************************************************************)
(* What the OMX component promises about its command queue: an unbounded   *)
(* FIFO.  A command that SendCommand accepted is delivered to the          *)
(* component thread once and in the order of acceptance, and the receiver  *)
(* is told "nothing" only when nothing is queued.  MsgQueue.tla implements *)
(* it with the linked list of msgque.c.                                    *)
(***************************************************************************)
EXTENDS Sequences

CONSTANTS Data,     \* the commands
          Nothing   \* the answer of a receive on an empty queue

VARIABLES q,        \* the accepted commands that were not received yet
          got       \* the answer of the latest receive

absVars == <<q, got>>

AbsInit == q = <<>> /\ got = Nothing

Accept == \E d \in Data : q' = Append(q, d) /\ UNCHANGED got

Deliver == q # <<>> /\ got' = Head(q) /\ q' = Tail(q)

DeliverNothing == q = <<>> /\ got' = Nothing /\ UNCHANGED q

AbsNext == Accept \/ Deliver \/ DeliverNothing

AbsSpec == AbsInit /\ [][AbsNext]_absVars
=============================================================================
