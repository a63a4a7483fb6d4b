---------------------------- MODULE MCOmxDecoder ----------------------------
(* Instances of OmxDecoder for TLC: the commands the clients may send. *)
EXTENDS OmxDecoder, TLC

StateSets(S)   == [type : {"StateSet"}, arg : S]
PortCmds(T, A) == [type : T, arg : A]

\* Everything a client sends in normal operation, on one port at a time or all.
AllRequests ==
  StateSets({"Loaded", "Idle", "Executing", "Pause"})
  \cup PortCmds({"Flush"}, {"in", "out", "all"})
  \cup PortCmds({"PortDisable", "PortEnable"}, {"out", "all"})

\* With the state changes only errors and resource managers ask for, and the
\* post-processor's mask port.
RareRequests ==
  StateSets(States) \cup PortCmds({"Flush"}, {"out", "pp"}) \cup PortCmds({"PortEnable"}, {"pp"})

\* The output port is disabled and enabled to change its resolution.
ReconfigureRequests ==
  StateSets({"Loaded", "Idle", "Executing"}) \cup PortCmds({"Flush", "PortDisable", "PortEnable"}, {"out"})
=============================================================================
