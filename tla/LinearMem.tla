----------------------------- MODULE LinearMem -----------------------------
(***************************************************************************)
(* What the memalloc driver promises to the instances of the wrapper       *)
(* layer: blocks of physically contiguous chunks that never overlap, and   *)
(* that a file gives back when it is closed.  Two races of the driver are  *)
(* part of the promise: two files may come to share an entry of its table  *)
(* of files ("entry"), and then release each other's blocks, and a release *)
(* that meets an allocation may lose a block ("chunk").                    *)
(***************************************************************************)
EXTENDS Integers

CONSTANTS Files,  \* the open files of the device, one per DWL instance
          N       \* chunks

ASSUME LinearAssumption == N \in Nat

VARIABLES blocks,  \* the blocks granted and not yet freed
          files,   \* where each file is between open and release
          races    \* the races that have hit

linearVars == <<blocks, files, races>>

Chunk == 0 .. N - 1

LinearInit ==
    /\ blocks = {}
    /\ files = [f \in Files |-> "closed"]
    /\ races = {}

Open(f) ==
    /\ files[f] = "closed"
    /\ files' = [files EXCEPT ![f] = "open"]
    /\ races' \in {races, races \cup {"entry"}}
    /\ UNCHANGED blocks

\* GETBUFFER, when it is granted.
Grant(f) ==
    /\ files[f] = "open"
    /\ \E c \in Chunk : \E e \in c .. N - 1 :
          /\ \A b \in blocks : b.chunks \cap (c .. e) = {}
          /\ blocks' = blocks \cup {[file |-> f, chunks |-> c .. e]}
    /\ UNCHANGED <<files, races>>

\* FREEBUFFER.
Free(f) ==
    /\ files[f] = "open"
    /\ \E b \in blocks : b.file = f /\ blocks' = blocks \ {b}
    /\ UNCHANGED <<files, races>>

Close(f) ==
    /\ files[f] = "open"
    /\ files' = [files EXCEPT ![f] = "closing"]
    /\ UNCHANGED <<blocks, races>>

\* release takes the blocks of the file back one by one.
Drop(f) ==
    /\ files[f] = "closing"
    /\ \E b \in blocks : /\ b.file = f \/ "entry" \in races
                         /\ blocks' = blocks \ {b}
    /\ UNCHANGED <<files, races>>

\* release meets an allocation in the chunk it clears.
Lose(f) ==
    /\ files[f] = "closing"
    /\ races' = races \cup {"chunk"}
    /\ UNCHANGED <<blocks, files>>

Closed(f) ==
    /\ files[f] = "closing"
    /\ races = {} => \A b \in blocks : b.file # f
    /\ files' = [files EXCEPT ![f] = "closed"]
    /\ UNCHANGED <<blocks, races>>

LinearNext ==
    \E f \in Files : Open(f) \/ Grant(f) \/ Free(f) \/ Close(f) \/ Drop(f) \/ Lose(f) \/ Closed(f)

LinearSpec == LinearInit /\ [][LinearNext]_linearVars
=============================================================================
