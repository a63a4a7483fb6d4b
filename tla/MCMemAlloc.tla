----------------------------- MODULE MCMemAlloc -----------------------------
(* Two files on five chunks; a static table whose chunks differ. *)
EXTENDS MemAlloc

CONSTANTS f1, f2

MCFiles == {f1, f2}
MCSizeTable == [c \in 0 .. N - 1 |-> IF c = 1 THEN 2 ELSE IF c = 2 THEN 1 ELSE 0]
=============================================================================
