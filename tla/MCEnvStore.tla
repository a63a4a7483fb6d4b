----------------------------- MODULE MCEnvStore -----------------------------
(* EnvStore with two variables, of which one fits, and images of two pieces. *)
EXTENDS EnvStore, TLC

CONSTANTS serial, var, x, y, unset, none, padding

MCNames == {serial, var}
MCValues == {x, y}
MCWriteOnce == {serial}
MCDefault == [n \in MCNames |-> unset]
MCLong == {[MCDefault EXCEPT ![var] = y]}
=============================================================================
