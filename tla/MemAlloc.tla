------------------------------ MODULE MemAlloc ------------------------------
(***************************************************************************)
(* The memalloc kernel driver (linux/memalloc/memalloc.c), which hands out *)
(* physically contiguous memory to the decoder instances: a table of       *)
(* chunks and a table of the open files.                                   *)
(*                                                                         *)
(* GETBUFFER and FREEBUFFER run under the spin lock mem_lock; open and     *)
(* release do not take it.  A GETBUFFER call is therefore a sequence of    *)
(* steps, one per turn of the loop of AllocMemory, between which only the  *)
(* steps of open and release can fall: call is the call that holds the     *)
(* lock.  The calls are those of well-behaved clients (dwl_linux.c), which *)
(* free only what was granted to them; MEMALLOC_IOCHARDRESET, which no     *)
(* code of the repository issues, is left out.                             *)
(*                                                                         *)
(* A size is counted in pages of 4096 bytes, the size of a chunk of the    *)
(* dynamic method (CHUNK_SIZE is 1).  The two methods are those of         *)
(* AllocMemory; the seven static tables differ only in their sizes.        *)
(***************************************************************************)
EXTENDS Integers, FiniteSets

CONSTANTS Files,      \* the open files of the device, one per DWL instance
          N,          \* chunks
          MaxOpen,    \* MAX_OPEN, the entries of id[]
          Wants,      \* the sizes the clients ask for
          SizeTable,  \* size_table of the static method
          Methods,    \* the values of alloc_method: "static", "dynamic"
          Foreign     \* sets of entries of id[] that files outside the model hold

ASSUME ChunksAssumption == N \in Nat \ {0}
ASSUME OpenAssumption == MaxOpen \in 1 .. 255
ASSUME WantsAssumption == Wants \subseteq Nat \ {0}
ASSUME TableAssumption == SizeTable \in [0 .. N - 1 -> Nat]
ASSUME MethodsAssumption == Methods \subseteq {"static", "dynamic"}
ASSUME ForeignAssumption == Foreign \subseteq SUBSET (0 .. MaxOpen - 1)

ID_UNUSED == 255
NoCall == [file |-> "none"]

VARIABLES method,           \* alloc_method, fixed when the module is loaded
          used, file_id, chunks_reserved,   \* hlina_chunks
          id,               \* id[]
          fstate,           \* where each file is in open and release
          pos,              \* the loop variable i of open and release, 0 outside
          private,          \* private_data of an open file: its entry of id[]
          call,             \* the GETBUFFER call that holds mem_lock
          grants,           \* history: the blocks granted and not yet freed
          raced,            \* history: the races of open and release that hit
          kept              \* history: the chunks of freed blocks that stayed in use

memVars == <<method, used, file_id, chunks_reserved, id, fstate, pos, private,
             call, grants, raced, kept>>

Chunk == 0 .. N - 1

Call == [file : Files, want : Wants, at : {"test", "skip"}, i : 0 .. N]

FileState == {"closed", "opening", "claiming", "open", "closing", "clearing"}

Block == [file : Files, first : Chunk, n : 1 .. N, size : Wants]

\* The chunks of a block of n chunks whose first is c.
Run(c, n) == c .. c + n - 1

Reach(g) == Run(g.first, g.n)

\* The chunks a request takes: every static chunk stands alone.
Needed(want) == IF method = "dynamic" THEN want + 1 ELSE 1

MemInit ==
    /\ method \in Methods
    /\ used = [c \in Chunk |-> FALSE]
    /\ file_id = [c \in Chunk |-> ID_UNUSED]
    /\ chunks_reserved = [c \in Chunk |-> 0]
    /\ \E taken \in Foreign :
          id = [k \in 0 .. MaxOpen - 1 |-> IF k \in taken THEN k ELSE ID_UNUSED]
    /\ fstate = [f \in Files |-> "closed"]
    /\ pos = [f \in Files |-> 0]
    /\ private = [f \in Files |-> 0]
    /\ call = NoCall
    /\ grants = {}
    /\ raced = {} /\ kept = {}

(***************************************************************************)
(* open.  The test of an entry of id[] and its claim are two steps, with   *)
(* no lock around them.                                                    *)
(***************************************************************************)
Open(f) ==
    /\ fstate[f] = "closed"
    /\ fstate' = [fstate EXCEPT ![f] = "opening"]
    /\ UNCHANGED <<method, used, file_id, chunks_reserved, id, pos, private, call, grants, raced, kept>>

OpenLook(f) ==
    /\ fstate[f] = "opening" /\ pos[f] < MaxOpen
    /\ \/ /\ id[pos[f]] = ID_UNUSED
          /\ fstate' = [fstate EXCEPT ![f] = "claiming"]
          /\ UNCHANGED pos
       \/ /\ id[pos[f]] # ID_UNUSED
          /\ pos' = [pos EXCEPT ![f] = @ + 1]
          /\ UNCHANGED fstate
    /\ UNCHANGED <<method, used, file_id, chunks_reserved, id, private, call, grants, raced, kept>>

OpenClaim(f) ==
    /\ fstate[f] = "claiming"
    /\ id' = [id EXCEPT ![pos[f]] = pos[f]]
    /\ private' = [private EXCEPT ![f] = pos[f]]
    /\ fstate' = [fstate EXCEPT ![f] = "open"]
    /\ raced' = IF id[pos[f]] = ID_UNUSED THEN raced ELSE raced \cup {"entry"}
    /\ pos' = [pos EXCEPT ![f] = 0]
    /\ UNCHANGED <<method, used, file_id, chunks_reserved, call, grants, kept>>

OpenFull(f) ==
    /\ fstate[f] = "opening" /\ pos[f] = MaxOpen
    /\ fstate' = [fstate EXCEPT ![f] = "closed"]
    /\ pos' = [pos EXCEPT ![f] = 0]
    /\ UNCHANGED <<method, used, file_id, chunks_reserved, id, private, call, grants, raced, kept>>

(***************************************************************************)
(* GETBUFFER.  The loop of AllocMemory looks at chunk i ("test"); when the *)
(* run that starts there meets a used chunk it goes on behind the block of *)
(* that chunk ("skip"), whose length it reads in a later step.  The inner  *)
(* loop over the run is one step: under the lock a chunk can only become   *)
(* free, so what it saw free is free when it ends.                         *)
(***************************************************************************)
GetBuffer(f, want) ==
    /\ fstate[f] = "open" /\ call = NoCall
    /\ call' = [file |-> f, want |-> want, at |-> "test", i |-> 0]
    /\ UNCHANGED <<method, used, file_id, chunks_reserved, id, fstate, pos, private, grants, raced, kept>>

Fits(i, want) ==
    /\ i + Needed(want) <= N
    /\ \A j \in Run(i, Needed(want)) : ~used[j]
    /\ method = "static" => SizeTable[i] >= want

Granted ==
    /\ call # NoCall /\ call.at = "test" /\ call.i < N
    /\ Fits(call.i, call.want)
    /\ LET i == call.i  n == Needed(call.want)
       IN  /\ used' = [used EXCEPT ![i] = TRUE]
           /\ file_id' = [file_id EXCEPT ![i] = id[private[call.file]]]
           /\ chunks_reserved' = IF method = "dynamic" THEN [chunks_reserved EXCEPT ![i] = n]
                                                       ELSE chunks_reserved
           /\ grants' = grants \cup {[file |-> call.file, first |-> i, n |-> n, size |-> call.want]}
    /\ call' = NoCall
    /\ UNCHANGED <<method, id, fstate, pos, private, raced, kept>>

\* The loop has seen all chunks, or what is left is too short.
NotGranted ==
    /\ call # NoCall /\ call.at = "test"
    /\ \/ call.i >= N
       \/ /\ method = "dynamic" /\ call.i < N
          /\ ~used[call.i] /\ call.i + Needed(call.want) > N
    /\ call' = NoCall
    /\ UNCHANGED <<method, used, file_id, chunks_reserved, id, fstate, pos, private, grants, raced, kept>>

\* The first used chunk of the run at call.i: the loop skips its block.
Blocked ==
    /\ call # NoCall /\ call.at = "test" /\ call.i < N /\ method = "dynamic"
    /\ \E j \in Run(call.i, Needed(call.want)) :
          /\ j < N /\ used[j]
          /\ j = call.i \/ call.i + Needed(call.want) <= N
          /\ \A k \in call.i .. j - 1 : ~used[k]
          /\ call' = [call EXCEPT !.at = "skip", !.i = j]
    /\ UNCHANGED <<method, used, file_id, chunks_reserved, id, fstate, pos, private, grants, raced, kept>>

\* Mutant of Skip: the loop goes on behind the first chunk of the block.
SkipOneChunk ==
    /\ call # NoCall /\ call.at = "skip"
    /\ call' = [call EXCEPT !.at = "test", !.i = @ + 1]
    /\ UNCHANGED <<method, used, file_id, chunks_reserved, id, fstate, pos, private, grants, raced, kept>>

\* Mutant of Skip: the increment of the loop is not made up for.
SkipOneMore ==
    /\ call # NoCall /\ call.at = "skip"
    /\ call' = [call EXCEPT !.at = "test", !.i = @ + chunks_reserved[call.i] + 1]
    /\ UNCHANGED <<method, used, file_id, chunks_reserved, id, fstate, pos, private, grants, raced, kept>>

\* "i = j + chunks_reserved - 1" and the increment of the loop.
Skip ==
    /\ call # NoCall /\ call.at = "skip"
    /\ call' = [call EXCEPT !.at = "test", !.i = @ + chunks_reserved[call.i]]
    /\ UNCHANGED <<method, used, file_id, chunks_reserved, id, fstate, pos, private, grants, raced, kept>>

\* A static chunk that is used or too small: the next one.
TryNext ==
    /\ call # NoCall /\ call.at = "test" /\ call.i < N /\ method = "static"
    /\ ~Fits(call.i, call.want)
    /\ call' = [call EXCEPT !.i = @ + 1]
    /\ UNCHANGED <<method, used, file_id, chunks_reserved, id, fstate, pos, private, grants, raced, kept>>

(***************************************************************************)
(* FREEBUFFER looks the chunk up by its address and does not ask whose it  *)
(* is; the static arm leaves chunks_reserved, which it never sets.  A      *)
(* static chunk of size 0 has the address of the next one, and of all the  *)
(* chunks with an address the first is taken: the block's own chunk then   *)
(* stays in use until release.                                             *)
(***************************************************************************)
SameAddress(k, c) ==
    \/ k = c
    \/ /\ method = "static" /\ k < c
       /\ \A j \in Chunk : k <= j /\ j < c => SizeTable[j] = 0

FirstAt(k, c) == SameAddress(k, c) /\ \A j \in Chunk : j < k => ~SameAddress(j, c)

\* Mutant of FreeMemory: the length is cleared, the chunk stays in use.
FreeLengthOnly(f, c) ==
    /\ fstate[f] = "open" /\ call = NoCall
    /\ chunks_reserved' = [chunks_reserved EXCEPT ![c] = 0]
    /\ grants' = {g \in grants : g.first # c}
    /\ UNCHANGED <<method, used, file_id, id, fstate, pos, private, call, raced, kept>>

FreeMemory(f, c) ==
    /\ fstate[f] = "open" /\ call = NoCall
    /\ \E k \in Chunk :
          /\ FirstAt(k, c)
          /\ used' = [used EXCEPT ![k] = FALSE]
          /\ file_id' = [file_id EXCEPT ![k] = ID_UNUSED]
          /\ chunks_reserved' = IF method = "dynamic" THEN [chunks_reserved EXCEPT ![k] = 0]
                                                      ELSE chunks_reserved
          /\ kept' = IF k = c THEN kept ELSE kept \cup {c}
    /\ grants' = {g \in grants : g.first # c}
    /\ UNCHANGED <<method, id, fstate, pos, private, call, raced>>

(***************************************************************************)
(* release runs when the last reference to the file goes, also when its    *)
(* process dies, and takes no lock.  For a chunk of the file it clears     *)
(* used, then the two other fields: a GETBUFFER of another file can take   *)
(* the chunk in between, and the stores then mix with those of the         *)
(* allocation.  A chunk of the file's own entry stays as it was between    *)
(* the comparison of file_id and the store to used; where two opens took   *)
(* one entry, that entry may be cleared, and a chunk that was free when it *)
(* was compared may have been granted since.                               *)
(***************************************************************************)
Matches(f, c) == file_id[c] = id[private[f]] \/ id[private[f]] = ID_UNUSED

Close(f) ==
    /\ fstate[f] = "open" /\ (call # NoCall => call.file # f)
    /\ fstate' = [fstate EXCEPT ![f] = "closing"]
    /\ UNCHANGED <<method, used, file_id, chunks_reserved, id, pos, private, call, grants, raced, kept>>

ReleasePass(f) ==
    /\ fstate[f] = "closing" /\ pos[f] < N
    /\ file_id[pos[f]] # id[private[f]]
    /\ pos' = [pos EXCEPT ![f] = @ + 1]
    /\ UNCHANGED <<method, used, file_id, chunks_reserved, id, fstate, private, call, grants, raced, kept>>

\* Mutant of ReleaseUsed: the owner of the chunk is not compared.
ReleaseAnyUsed(f) ==
    /\ fstate[f] = "closing" /\ pos[f] < N
    /\ used' = [used EXCEPT ![pos[f]] = FALSE]
    /\ grants' = {g \in grants : g.first # pos[f]}
    /\ kept' = kept \ {pos[f]}
    /\ fstate' = [fstate EXCEPT ![f] = "clearing"]
    /\ UNCHANGED <<method, file_id, chunks_reserved, id, pos, private, call, raced>>

ReleaseUsed(f) ==
    /\ fstate[f] = "closing" /\ pos[f] < N
    /\ Matches(f, pos[f])
    /\ used' = [used EXCEPT ![pos[f]] = FALSE]
    /\ grants' = {g \in grants : g.first # pos[f]}
    /\ kept' = kept \ {pos[f]}
    /\ fstate' = [fstate EXCEPT ![f] = "clearing"]
    /\ UNCHANGED <<method, file_id, chunks_reserved, id, pos, private, call, raced>>

ReleaseClear(f) ==
    /\ fstate[f] = "clearing"
    /\ LET c == pos[f]
       IN  /\ \/ /\ file_id' = [file_id EXCEPT ![c] = ID_UNUSED]
                 /\ chunks_reserved' = [chunks_reserved EXCEPT ![c] = 0]
              \/ /\ used[c]
                 /\ \/ /\ file_id' = [file_id EXCEPT ![c] = ID_UNUSED]
                       /\ UNCHANGED chunks_reserved
                    \/ /\ chunks_reserved' = [chunks_reserved EXCEPT ![c] = 0]
                       /\ UNCHANGED file_id
           /\ raced' = IF used[c] THEN raced \cup {"chunk"} ELSE raced
           /\ pos' = [pos EXCEPT ![f] = c + 1]
    /\ fstate' = [fstate EXCEPT ![f] = "closing"]
    /\ UNCHANGED <<method, used, id, private, call, grants, kept>>

ReleaseDone(f) ==
    /\ fstate[f] = "closing" /\ pos[f] = N
    /\ id' = [id EXCEPT ![private[f]] = ID_UNUSED]
    /\ fstate' = [fstate EXCEPT ![f] = "closed"]
    /\ pos' = [pos EXCEPT ![f] = 0]
    /\ private' = [private EXCEPT ![f] = 0]
    /\ UNCHANGED <<method, used, file_id, chunks_reserved, call, grants, raced, kept>>

FileStep(f) ==
    \/ Open(f) \/ OpenLook(f) \/ OpenClaim(f) \/ OpenFull(f)
    \/ \E want \in Wants : GetBuffer(f, want)
    \/ \E g \in grants : g.file = f /\ FreeMemory(f, g.first)
    \/ Close(f) \/ ReleasePass(f) \/ ReleaseUsed(f) \/ ReleaseClear(f) \/ ReleaseDone(f)

CallStep == Granted \/ NotGranted \/ Blocked \/ Skip \/ TryNext

MemNext == CallStep \/ \E f \in Files : FileStep(f)

MemSpec == MemInit /\ [][MemNext]_memVars

-----------------------------------------------------------------------------
\* The range of the loop variable where a file is.
PosOK(at, i) ==
    /\ at \in {"closed", "open"} => i = 0
    /\ at = "opening" => i \in 0 .. MaxOpen
    /\ at = "claiming" => i \in 0 .. MaxOpen - 1
    /\ at = "closing" => i \in 0 .. N
    /\ at = "clearing" => i \in 0 .. N - 1

MemTypeOK ==
    /\ method \in Methods
    /\ used \in [Chunk -> BOOLEAN]
    /\ file_id \in [Chunk -> 0 .. 255]
    /\ chunks_reserved \in [Chunk -> 0 .. N]
    /\ id \in [0 .. MaxOpen - 1 -> 0 .. 255]
    /\ fstate \in [Files -> FileState]
    /\ pos \in [Files -> Nat]
    /\ \A f \in Files : PosOK(fstate[f], pos[f])
    /\ private \in [Files -> 0 .. MaxOpen - 1]
    /\ \/ call = NoCall
       \/ call \in Call
    /\ call # NoCall => /\ fstate[call.file] = "open"
                        /\ call.at = "skip" => call.i \in Chunk
    /\ grants \subseteq Block
    /\ raced \subseteq {"entry", "chunk"} /\ kept \subseteq Chunk

\* Two granted blocks never share a chunk, a block is as large as its request,
\* and no chunk is used for a block that is gone, but one behind a static chunk of
\* size 0, which FREEBUFFER misses (memalloc.c:607-617): AllocMemory steps over a block by the length kept in the first of its
\* chunks only (memalloc.c:520, 548), while release takes blocks away.
GrantsDisjoint ==
    /\ \A g, h \in grants : g # h => Reach(g) \cap Reach(h) = {}
    /\ \A g \in grants : /\ Reach(g) \subseteq Chunk
                         /\ g.size <= (IF method = "dynamic" THEN g.n ELSE SizeTable[g.first])
    /\ \A c \in Chunk : used[c] => (\E g \in grants : g.first = c) \/ c \in kept
    /\ \A c \in kept : method = "static" /\ c >= 1 /\ SizeTable[c - 1] = 0

-----------------------------------------------------------------------------
(***************************************************************************)
(* The driver implements the memory its clients rely on (LinearMem): a     *)
(* granted block overlaps no other, release frees only blocks of its file  *)
(* and leaves none, unless one of the two races happened.                  *)
(***************************************************************************)
LinearBlock(g) == [file |-> g.file, chunks |-> Reach(g)]

LinearBlocks == {LinearBlock(g) : g \in grants}

LinearState(at) == CASE at = "open" -> "open"
                     [] at \in {"closing", "clearing"} -> "closing"
                     [] OTHER -> "closed"

LinearFiles == [f \in Files |-> LinearState(fstate[f])]

Linear == INSTANCE LinearMem
            WITH blocks <- LinearBlocks, files <- LinearFiles, races <- raced

ImplementsLinear == Linear!LinearSpec

\* The loop of AllocMemory under the spin lock ends, although it steps on by a
\* length that release may clear while it looks (memalloc.c:520, 548, 359),
\* unless release met an allocation and left a used chunk of length 0.
CallEnds == call # NoCall ~> call = NoCall \/ "chunk" \in raced

\* A thread that holds a spin lock is not stopped.
FairMemSpec == MemSpec /\ WF_memVars(CallStep)
=============================================================================
