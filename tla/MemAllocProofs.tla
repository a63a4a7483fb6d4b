--------------------------- MODULE MemAllocProofs ---------------------------
(***************************************************************************)
(* Proofs about MemAlloc, for any number of files, chunks and table        *)
(* entries, any sizes and both methods: granted blocks never overlap,      *)
(* whatever open and release do meanwhile, and the driver implements       *)
(* LinearMem.                                                              *)
(***************************************************************************)
EXTENDS MemAlloc, TLAPS

-----------------------------------------------------------------------------
(* The inductive invariant.                                                *)

\* The position i is not inside a block of G.
Clear(G, i) == \A g \in G : ~(g.first < i /\ i < g.first + g.n)

Apart(g, h) == g.first + g.n <= h.first \/ h.first + h.n <= g.first

BlocksInv ==
    /\ \A g \in grants : /\ used[g.first]
                         /\ g.first + g.n <= N
                         /\ g.size <= (IF method = "dynamic" THEN g.n ELSE SizeTable[g.first])
    /\ \A g, h \in grants : g # h => Apart(g, h)
    /\ \A c \in Chunk : used[c] => (\E g \in grants : g.first = c) \/ c \in kept
    /\ \A c \in kept : method = "static" /\ c >= 1 /\ SizeTable[c - 1] = 0
    /\ method = "dynamic" => \A g \in grants : chunks_reserved[g.first] \in {0, g.n}
    /\ method = "static" => \A g \in grants : g.n = 1

\* The loop of AllocMemory looks only where a block may begin.
CallInv ==
    call # NoCall =>
      /\ Clear(grants, call.i)
      /\ call.at = "skip" => /\ Clear(grants, call.i + chunks_reserved[call.i])
                             /\ call.i + chunks_reserved[call.i] <= N

MemInv == MemTypeOK /\ BlocksInv /\ CallInv

-----------------------------------------------------------------------------
(* Sizes and blocks.                                                       *)

LEMMA Sizes == /\ N \in Nat /\ N >= 1 /\ MaxOpen \in Nat /\ MaxOpen >= 1 /\ MaxOpen <= 255
               /\ \A want \in Wants : want \in Nat /\ want >= 1
  BY ChunksAssumption, OpenAssumption, WantsAssumption

LEMMA BlockFields ==
  ASSUME NEW g \in Block
  PROVE  /\ g.file \in Files /\ g.first \in Chunk /\ g.n \in 1 .. N /\ g.size \in Wants
         /\ g.first \in Nat /\ g.n \in Nat /\ g.n >= 1
         /\ Reach(g) = g.first .. g.first + g.n - 1
  BY Sizes DEF Block, Chunk, Reach, Run

\* Blocks that lie apart share no chunk.
LEMMA ApartDisjoint ==
  ASSUME NEW g \in Block, NEW h \in Block
  PROVE  Apart(g, h) <=> Reach(g) \cap Reach(h) = {}
  <1> DEFINE a == g.first   m == g.n   b == h.first   n == h.n
  <1>0. /\ a \in Nat /\ m \in Nat /\ b \in Nat /\ n \in Nat
        /\ Reach(g) = a .. a + m - 1 /\ Reach(h) = b .. b + n - 1
    BY BlockFields
  <1>1. ASSUME Apart(g, h) PROVE Reach(g) \cap Reach(h) = {}
    <2>1. a + m <= b \/ b + n <= a
      BY <1>1 DEF Apart
    <2> HIDE DEF a, m, b, n
    <2> QED
      BY <1>0, <2>1
  <1>2. ASSUME ~Apart(g, h) PROVE Reach(g) \cap Reach(h) # {}
    <2>1. /\ m >= 1 /\ n >= 1
          /\ b < a + m /\ a < b + n
      BY <1>0, <1>2, BlockFields DEF Apart
    <2> HIDE DEF a, m, b, n
    <2>2. CASE a <= b
      <3>1. b \in a .. a + m - 1 /\ b \in b .. b + n - 1
        BY <1>0, <2>1, <2>2
      <3> QED
        BY <1>0, <3>1
    <2>3. CASE b <= a
      <3>1. a \in a .. a + m - 1 /\ a \in b .. b + n - 1
        BY <1>0, <2>1, <2>3
      <3> QED
        BY <1>0, <3>1
    <2> QED
      BY <1>0, <2>2, <2>3
  <1> QED
    BY <1>1, <1>2

\* Two blocks that begin at one chunk are one.
LEMMA FirstIsUnique ==
  ASSUME MemInv, NEW g \in grants, NEW h \in grants, g.first = h.first
  PROVE  g = h
  <1>1. g \in Block /\ h \in Block
    BY DEF MemInv, MemTypeOK
  <1> QED
    BY <1>1, BlockFields DEF MemInv, BlocksInv, Apart

\* Behind the block that begins at a used chunk, a block may begin.
LEMMA BehindBlock ==
  ASSUME MemInv, NEW c \in Chunk, used[c], method = "dynamic"
  PROVE  /\ Clear(grants, c) /\ Clear(grants, c + chunks_reserved[c])
         /\ c + chunks_reserved[c] <= N
  <1>1. PICK g \in grants : g.first = c
    BY DEF MemInv, BlocksInv
  <1>2. g \in Block /\ grants \subseteq Block /\ chunks_reserved[c] \in {0, g.n} /\ g.first + g.n <= N
    BY <1>1 DEF MemInv, MemTypeOK, BlocksInv
  <1>3. ASSUME NEW h \in grants
        PROVE  ~(h.first < c /\ c < h.first + h.n)
               /\ ~(h.first < c + g.n /\ c + g.n < h.first + h.n)
    <2>1. h = g \/ Apart(g, h)
      BY DEF MemInv, BlocksInv
    <2>2. h \in Block
      BY <1>2
    <2> QED
      BY <1>1, <1>2, <2>1, <2>2, BlockFields DEF Apart
  <1>4. c \in Nat /\ c + 0 = c /\ c <= N
    BY Sizes DEF Chunk
  <1> QED
    BY <1>1, <1>2, <1>3, <1>4 DEF Clear

-----------------------------------------------------------------------------
(* Every step keeps the types.                                             *)

LEMMA InitTypeOK == MemInit => MemTypeOK
  <1> SUFFICES ASSUME MemInit PROVE MemTypeOK
    OBVIOUS
  <1>1. id \in [0 .. MaxOpen - 1 -> 0 .. 255]
    BY Sizes DEF MemInit, ID_UNUSED
  <1>2. 0 \in 0 .. N /\ 0 \in 0 .. MaxOpen - 1 /\ 255 \in 0 .. 255 /\ 0 \in 0 .. MaxOpen
    BY Sizes
  <1> QED
    BY <1>1, <1>2 DEF MemInit, MemTypeOK, ID_UNUSED, PosOK, FileState

\* A file moves on: what MemTypeOK says of fstate and pos.
LEMMA FileMoves ==
  ASSUME MemTypeOK, NEW f \in Files, NEW at \in FileState, NEW i \in Nat, PosOK(at, i),
         fstate' = [fstate EXCEPT ![f] = at],
         pos' = [pos EXCEPT ![f] = i] \/ (pos' = pos /\ pos[f] = i)
  PROVE  /\ fstate' \in [Files -> FileState] /\ pos' \in [Files -> Nat]
         /\ \A e \in Files : PosOK(fstate'[e], pos'[e])
  BY DEF MemTypeOK

\* The call in progress keeps its file open unless it is that file that moves.
LEMMA CallKept ==
  ASSUME MemTypeOK, NEW f \in Files, NEW at, call' = call,
         fstate' = [fstate EXCEPT ![f] = at], fstate[f] # "open" \/ at = "open" \/ call = NoCall \/ call.file # f
  PROVE  /\ call' = NoCall \/ call' \in Call
         /\ call' # NoCall => /\ fstate'[call'.file] = "open"
                              /\ call'.at = "skip" => call'.i \in Chunk
  BY DEF MemTypeOK, Call

LEMMA FileStepTypeOK ==
  ASSUME MemTypeOK, NEW f \in Files,
         Open(f) \/ OpenLook(f) \/ OpenClaim(f) \/ OpenFull(f) \/ Close(f) \/ ReleasePass(f)
           \/ ReleaseUsed(f) \/ ReleaseClear(f) \/ ReleaseDone(f)
  PROVE  MemTypeOK'
  <1> USE DEF FileState
  <1>0. fstate[f] \in FileState /\ pos[f] \in Nat /\ PosOK(fstate[f], pos[f])
    BY DEF MemTypeOK
  <1>1. CASE Open(f)
    <2>1. PosOK("opening", 0) /\ pos[f] = 0
      BY <1>1, <1>0, Sizes DEF Open, PosOK
    <2> QED
      BY <1>1, <2>1, FileMoves, CallKept DEF MemTypeOK, Open
  <1>2. CASE OpenLook(f)
    <2>1. CASE fstate' = [fstate EXCEPT ![f] = "claiming"] /\ pos' = pos
      <3>1. PosOK("claiming", pos[f])
        BY <1>2, <1>0, Sizes DEF OpenLook, PosOK
      <3> QED
        BY <1>2, <2>1, <3>1, <1>0, FileMoves, CallKept DEF MemTypeOK, OpenLook
    <2>2. CASE fstate' = fstate /\ pos' = [pos EXCEPT ![f] = @ + 1]
      <3>1. PosOK("opening", pos[f] + 1) /\ pos[f] + 1 \in Nat /\ fstate' = [fstate EXCEPT ![f] = "opening"]
        BY <1>2, <2>2, <1>0, Sizes DEF OpenLook, PosOK, MemTypeOK
      <3> QED
        BY <1>2, <2>2, <3>1, FileMoves, CallKept DEF MemTypeOK, OpenLook
    <2> QED
      BY <1>2, <2>1, <2>2 DEF OpenLook
  <1>3. CASE OpenClaim(f)
    <2>1. PosOK("open", 0) /\ pos[f] \in 0 .. MaxOpen - 1 /\ pos[f] \in 0 .. 255
      BY <1>3, <1>0, Sizes DEF OpenClaim, PosOK
    <2>2. /\ id' \in [0 .. MaxOpen - 1 -> 0 .. 255] /\ private' \in [Files -> 0 .. MaxOpen - 1]
          /\ raced' \subseteq {"entry", "chunk"}
      BY <1>3, <2>1 DEF MemTypeOK, OpenClaim
    <2> QED
      BY <1>3, <2>1, <2>2, FileMoves, CallKept DEF MemTypeOK, OpenClaim
  <1>4. CASE OpenFull(f)
    <2>1. PosOK("closed", 0)
      BY Sizes DEF PosOK
    <2> QED
      BY <1>4, <2>1, FileMoves, CallKept DEF MemTypeOK, OpenFull
  <1>5. CASE Close(f)
    <2>1. PosOK("closing", 0) /\ pos[f] = 0
      BY <1>5, <1>0, Sizes DEF Close, PosOK
    <2> QED
      BY <1>5, <2>1, FileMoves, CallKept DEF MemTypeOK, Close
  <1>6. CASE ReleasePass(f)
    <2>1. PosOK("closing", pos[f] + 1)
      BY <1>6, <1>0, Sizes DEF ReleasePass, PosOK
    <2>2. fstate' = [fstate EXCEPT ![f] = "closing"] /\ "closing" \in FileState /\ pos[f] + 1 \in Nat
      BY <1>6, <1>0 DEF ReleasePass, MemTypeOK
    <2>3. /\ fstate' \in [Files -> FileState] /\ pos' \in [Files -> Nat]
          /\ \A e \in Files : PosOK(fstate'[e], pos'[e])
      BY <1>6, <1>0, <2>1, <2>2, FileMoves DEF ReleasePass
    <2>4. /\ call' = NoCall \/ call' \in Call
          /\ call' # NoCall => /\ fstate'[call'.file] = "open"
                               /\ call'.at = "skip" => call'.i \in Chunk
      BY <1>6, <2>2, CallKept DEF ReleasePass
    <2> QED
      BY <1>6, <2>3, <2>4 DEF MemTypeOK, ReleasePass
  <1>7. CASE ReleaseUsed(f)
    <2>1. PosOK("clearing", pos[f]) /\ pos[f] \in Chunk
      BY <1>7, <1>0, Sizes DEF ReleaseUsed, PosOK, Chunk
    <2>2. used' \in [Chunk -> BOOLEAN] /\ grants' \subseteq Block
      BY <1>7, <2>1 DEF MemTypeOK, ReleaseUsed
    <2>3. fstate' = [fstate EXCEPT ![f] = "clearing"] /\ "clearing" \in FileState /\ pos[f] \in Nat
      BY <1>7, <1>0 DEF ReleaseUsed, MemTypeOK
    <2>4. /\ fstate' \in [Files -> FileState] /\ pos' \in [Files -> Nat]
          /\ \A e \in Files : PosOK(fstate'[e], pos'[e])
      BY <1>7, <1>0, <2>1, <2>3, FileMoves DEF ReleaseUsed
    <2>5. /\ call' = NoCall \/ call' \in Call
          /\ call' # NoCall => /\ fstate'[call'.file] = "open"
                               /\ call'.at = "skip" => call'.i \in Chunk
      BY <1>7, <2>3, CallKept DEF ReleaseUsed
    <2> QED
      BY <1>7, <2>2, <2>4, <2>5 DEF MemTypeOK, ReleaseUsed
  <1>8. CASE ReleaseClear(f)
    <2>1. PosOK("closing", pos[f] + 1) /\ pos[f] \in Chunk /\ 255 \in 0 .. 255 /\ 0 \in 0 .. N
      BY <1>8, <1>0, Sizes DEF ReleaseClear, PosOK, Chunk
    <2>0. /\ file_id' = file_id \/ file_id' = [file_id EXCEPT ![pos[f]] = 255]
          /\ chunks_reserved' = chunks_reserved \/ chunks_reserved' = [chunks_reserved EXCEPT ![pos[f]] = 0]
          /\ raced' = raced \/ raced' = raced \cup {"chunk"}
      BY <1>8 DEF ReleaseClear, ID_UNUSED
    <2>2. /\ file_id' \in [Chunk -> 0 .. 255] /\ chunks_reserved' \in [Chunk -> 0 .. N]
          /\ raced' \subseteq {"entry", "chunk"}
      <3>1. /\ file_id \in [Chunk -> 0 .. 255] /\ chunks_reserved \in [Chunk -> 0 .. N]
            /\ raced \subseteq {"entry", "chunk"}
        BY DEF MemTypeOK
      <3>2. file_id' \in [Chunk -> 0 .. 255]
        BY <2>0, <2>1, <3>1
      <3>3. chunks_reserved' \in [Chunk -> 0 .. N]
        BY <2>0, <2>1, <3>1
      <3>4. raced' \subseteq {"entry", "chunk"}
        BY <2>0, <3>1
      <3> QED
        BY <3>2, <3>3, <3>4
    <2>3. fstate' = [fstate EXCEPT ![f] = "closing"] /\ "closing" \in FileState /\ pos[f] + 1 \in Nat
      BY <1>8, <1>0 DEF ReleaseClear, MemTypeOK
    <2>4. /\ fstate' \in [Files -> FileState] /\ pos' \in [Files -> Nat]
          /\ \A e \in Files : PosOK(fstate'[e], pos'[e])
      BY <1>8, <1>0, <2>1, <2>3, FileMoves DEF ReleaseClear
    <2>5. /\ call' = NoCall \/ call' \in Call
          /\ call' # NoCall => /\ fstate'[call'.file] = "open"
                               /\ call'.at = "skip" => call'.i \in Chunk
      BY <1>8, <2>3, CallKept DEF ReleaseClear
    <2> QED
      BY <1>8, <2>2, <2>4, <2>5 DEF MemTypeOK, ReleaseClear
  <1>9. CASE ReleaseDone(f)
    <2>1. PosOK("closed", 0) /\ 0 \in 0 .. MaxOpen - 1 /\ 255 \in 0 .. 255
      BY Sizes DEF PosOK
    <2>2. id' \in [0 .. MaxOpen - 1 -> 0 .. 255] /\ private' \in [Files -> 0 .. MaxOpen - 1]
      BY <1>9, <2>1 DEF MemTypeOK, ReleaseDone, ID_UNUSED
    <2> QED
      BY <1>9, <2>1, <2>2, FileMoves, CallKept DEF MemTypeOK, ReleaseDone
  <1> QED
    BY <1>1, <1>2, <1>3, <1>4, <1>5, <1>6, <1>7, <1>8, <1>9

\* FREEBUFFER and the calls that it or GETBUFFER make.
LEMMA FreeTypeOK ==
  ASSUME MemTypeOK, NEW f \in Files, NEW c \in Chunk, FreeMemory(f, c)
  PROVE  MemTypeOK'
  <1>1. 255 \in 0 .. 255 /\ 0 \in 0 .. N
    BY Sizes
  <1>2. PICK k \in Chunk :
          /\ used' = [used EXCEPT ![k] = FALSE]
          /\ file_id' = [file_id EXCEPT ![k] = ID_UNUSED]
          /\ chunks_reserved' \in {chunks_reserved, [chunks_reserved EXCEPT ![k] = 0]}
          /\ kept' \in {kept, kept \cup {c}}
    BY DEF FreeMemory
  <1>3. /\ grants' = {g \in grants : g.first # c}
        /\ UNCHANGED <<method, id, fstate, pos, private, call, raced>>
    BY DEF FreeMemory
  <1> QED
    BY <1>1, <1>2, <1>3 DEF MemTypeOK, ID_UNUSED

LEMMA GetTypeOK ==
  ASSUME MemTypeOK, NEW f \in Files, NEW want \in Wants, GetBuffer(f, want)
  PROVE  MemTypeOK'
  <1>1. call' \in Call /\ call'.file = f /\ call'.at # "skip"
    BY Sizes DEF GetBuffer, Call
  <1> QED
    BY <1>1 DEF MemTypeOK, GetBuffer

\* A call that looks is in range.
LEMMA CallFields ==
  ASSUME MemTypeOK, call # NoCall
  PROVE  /\ call \in Call /\ call.file \in Files /\ call.want \in Wants
         /\ call.at \in {"test", "skip"} /\ call.i \in 0 .. N
         /\ call.i < N => call.i \in Chunk
         /\ Needed(call.want) \in Nat /\ Needed(call.want) >= 1
  BY Sizes DEF MemTypeOK, Call, Chunk, Needed

\* The block that a call is granted.
LEMMA GrantedBlock ==
  ASSUME MemTypeOK, Granted
  PROVE  LET n == Needed(call.want)
             g == [file |-> call.file, first |-> call.i, n |-> n, size |-> call.want]
         IN  /\ g \in Block /\ grants' = grants \cup {g}
             /\ call.i + n <= N /\ call.i \in Chunk /\ n \in 1 .. N
             /\ \A j \in Chunk : call.i <= j /\ j < call.i + n => ~used[j]
             /\ used' = [used EXCEPT ![call.i] = TRUE]
             /\ file_id' = [file_id EXCEPT ![call.i] = id[private[call.file]]]
             /\ chunks_reserved' = IF method = "dynamic" THEN [chunks_reserved EXCEPT ![call.i] = n]
                                                         ELSE chunks_reserved
  <1> DEFINE n == Needed(call.want)
  <1>1. /\ call \in Call /\ call.file \in Files /\ call.want \in Wants /\ call.i \in 0 .. N
        /\ call.i \in Chunk /\ n \in Nat /\ n >= 1
    BY CallFields DEF Granted
  <1>2. call.i + n <= N /\ \A j \in Run(call.i, n) : ~used[j]
    BY DEF Granted, Fits
  <1>3. /\ grants' = grants \cup {[file |-> call.file, first |-> call.i, n |-> n, size |-> call.want]}
        /\ used' = [used EXCEPT ![call.i] = TRUE]
        /\ file_id' = [file_id EXCEPT ![call.i] = id[private[call.file]]]
        /\ chunks_reserved' = IF method = "dynamic" THEN [chunks_reserved EXCEPT ![call.i] = n]
                                                    ELSE chunks_reserved
    BY DEF Granted
  <1> HIDE DEF n
  <1>4. n \in 1 .. N
    BY <1>1, <1>2, Sizes
  <1>5. [file |-> call.file, first |-> call.i, n |-> n, size |-> call.want] \in Block
    BY <1>1, <1>4 DEF Block
  <1>6. \A j \in Chunk : call.i <= j /\ j < call.i + n => ~used[j]
    BY <1>1, <1>2, Sizes DEF Run, Chunk
  <1> QED
    BY <1>1, <1>2, <1>3, <1>4, <1>5, <1>6 DEF n

-----------------------------------------------------------------------------
(* The steps of a GETBUFFER call.                                          *)

LEMMA GrantedInv ==
  ASSUME MemInv, Granted
  PROVE  MemInv'
  <1> DEFINE n == Needed(call.want)
             g == [file |-> call.file, first |-> call.i, n |-> n, size |-> call.want]
  <1>1. /\ g \in Block /\ grants' = grants \cup {g} /\ call.i + n <= N /\ call.i \in Chunk /\ n \in 1 .. N
        /\ \A j \in Chunk : call.i <= j /\ j < call.i + n => ~used[j]
        /\ used' = [used EXCEPT ![call.i] = TRUE]
        /\ file_id' = [file_id EXCEPT ![call.i] = id[private[call.file]]]
        /\ chunks_reserved' = IF method = "dynamic" THEN [chunks_reserved EXCEPT ![call.i] = n]
                                                    ELSE chunks_reserved
    BY GrantedBlock DEF MemInv
  <1>2. g.file = call.file /\ g.first = call.i /\ g.n = n /\ g.size = call.want
    OBVIOUS
  <1>3. n = IF method = "dynamic" THEN call.want + 1 ELSE 1
    BY DEF Needed
  <1>4. /\ call # NoCall /\ call.i \in Nat /\ call.want \in Wants /\ call.want \in Nat /\ call.file \in Files
        /\ method = "static" => SizeTable[call.i] >= call.want
    BY CallFields, Sizes DEF Granted, Fits, MemInv
  <1>5. method \in {"static", "dynamic"}
    BY MethodsAssumption DEF MemInv, MemTypeOK
  <1>6. call' = NoCall /\ UNCHANGED <<method, id, fstate, pos, private, raced, kept>>
    BY DEF Granted
  <1> HIDE DEF n, g
  <1>7. MemTypeOK'
    <2>1. id[private[call.file]] \in 0 .. 255
      BY <1>4 DEF MemInv, MemTypeOK
    <2>2. file_id' \in [Chunk -> 0 .. 255] /\ used' \in [Chunk -> BOOLEAN]
      BY <1>1, <2>1 DEF MemInv, MemTypeOK
    <2>3. chunks_reserved' \in [Chunk -> 0 .. N]
      BY <1>1, Sizes DEF MemInv, MemTypeOK
    <2>4. grants' \subseteq Block
      BY <1>1 DEF MemInv, MemTypeOK
    <2> QED
      BY <2>2, <2>3, <2>4, <1>6 DEF MemInv, MemTypeOK
  <1>8. \A h \in grants : Apart(h, g)
    <2>1. TAKE h \in grants
    <2>2. h \in Block /\ used[h.first] /\ ~(h.first < call.i /\ call.i < h.first + h.n)
      BY <1>4 DEF MemInv, MemTypeOK, BlocksInv, CallInv, Clear
    <2>3. h.first \in Chunk /\ h.first \in Nat /\ h.n \in Nat /\ h.n >= 1
      BY <2>2, BlockFields
    <2>4. ~(call.i <= h.first /\ h.first < call.i + n)
      BY <1>1, <2>2, <2>3
    <2> QED
      BY <1>1, <1>2, <1>4, <2>2, <2>3, <2>4 DEF Apart
  <1>9. BlocksInv'
    <2>1. \A h \in grants' : /\ used'[h.first] /\ h.first + h.n <= N
                             /\ h.size <= (IF method = "dynamic" THEN h.n ELSE SizeTable[h.first])
      <3>1. TAKE h \in grants'
      <3>2. CASE h = g
        BY <3>2, <1>1, <1>2, <1>3, <1>4, <1>5 DEF MemInv, MemTypeOK
      <3>3. CASE h \in grants
        BY <3>3, <1>1, BlockFields DEF MemInv, MemTypeOK, BlocksInv
      <3> QED
        BY <1>1, <3>2, <3>3
    <2>2. \A a, b \in grants' : a # b => Apart(a, b)
      BY <1>1, <1>8 DEF MemInv, BlocksInv, Apart
    <2>3. \A c \in Chunk : used'[c] => (\E h \in grants' : h.first = c) \/ c \in kept
      BY <1>1, <1>2 DEF MemInv, MemTypeOK, BlocksInv
    <2>4. method = "dynamic" => \A h \in grants' : chunks_reserved'[h.first] \in {0, h.n}
      <3> SUFFICES ASSUME method = "dynamic", NEW h \in grants'
                   PROVE  chunks_reserved'[h.first] \in {0, h.n}
        OBVIOUS
      <3>2. CASE h = g
        BY <3>2, <1>1, <1>2 DEF MemInv, MemTypeOK
      <3>3. CASE h \in grants
        <4>1. h.first # call.i /\ h.first \in Chunk
          <5>1. h \in Block /\ Apart(h, g)
            BY <3>3, <1>8 DEF MemInv, MemTypeOK
          <5> QED
            BY <5>1, <1>1, <1>2, <1>4, BlockFields DEF Apart
        <4>2. chunks_reserved' = [chunks_reserved EXCEPT ![call.i] = n]
          BY <1>1
        <4>3. chunks_reserved[h.first] \in {0, h.n} /\ chunks_reserved \in [Chunk -> 0 .. N]
          BY <3>3 DEF MemInv, MemTypeOK, BlocksInv
        <4> QED
          BY <4>1, <4>2, <4>3
      <3> QED
        BY <1>1, <3>2, <3>3
    <2>5. method = "static" => \A h \in grants' : h.n = 1
      BY <1>1, <1>2, <1>3 DEF MemInv, BlocksInv
    <2> QED
      BY <2>1, <2>2, <2>3, <2>4, <2>5, <1>6 DEF MemInv, BlocksInv
  <1> QED
    BY <1>6, <1>7, <1>9 DEF MemInv, CallInv

LEMMA LookInv ==
  ASSUME MemInv, NotGranted \/ Blocked \/ Skip \/ TryNext
  PROVE  MemInv'
  <1>1. CASE NotGranted
    BY <1>1 DEF NotGranted, MemInv, MemTypeOK, BlocksInv, CallInv
  <1>2. CASE Blocked
    <2>1. PICK j \in Run(call.i, Needed(call.want)) :
             /\ j < N /\ used[j]
             /\ call' = [call EXCEPT !.at = "skip", !.i = j]
      BY <1>2 DEF Blocked
    <2>2. /\ call # NoCall /\ call \in Call /\ call.i \in 0 .. N /\ Needed(call.want) \in Nat
          /\ method = "dynamic" /\ fstate[call.file] = "open"
          /\ UNCHANGED <<method, used, file_id, chunks_reserved, id, fstate, pos, private, grants, raced, kept>>
      BY <1>2, CallFields DEF Blocked, MemInv, MemTypeOK
    <2>3. j \in Chunk /\ j \in 0 .. N
      BY <2>1, <2>2, Sizes DEF Run, Chunk
    <2>4. call' \in Call /\ call'.file = call.file /\ call'.i = j /\ call'.at = "skip"
      BY <2>1, <2>2, <2>3 DEF Call
    <2>5. Clear(grants, j) /\ Clear(grants, j + chunks_reserved[j]) /\ j + chunks_reserved[j] <= N
      BY <2>1, <2>2, <2>3, BehindBlock
    <2> QED
      BY <2>2, <2>3, <2>4, <2>5 DEF MemInv, MemTypeOK, BlocksInv, CallInv
  <1>3. CASE Skip
    <2>1. /\ call # NoCall /\ call \in Call /\ call.i \in Chunk /\ fstate[call.file] = "open"
          /\ call.i + chunks_reserved[call.i] <= N
          /\ Clear(grants, call.i + chunks_reserved[call.i])
          /\ call' = [call EXCEPT !.at = "test", !.i = @ + chunks_reserved[call.i]]
          /\ UNCHANGED <<method, used, file_id, chunks_reserved, id, fstate, pos, private, grants, raced, kept>>
      BY <1>3 DEF Skip, MemInv, MemTypeOK, CallInv
    <2>2. call.i + chunks_reserved[call.i] \in 0 .. N
      BY <2>1, Sizes DEF MemInv, MemTypeOK, Chunk
    <2>3. /\ call' \in Call /\ call'.file = call.file /\ call'.at = "test"
          /\ call'.i = call.i + chunks_reserved[call.i]
      BY <2>1, <2>2 DEF Call
    <2> QED
      BY <2>1, <2>3 DEF MemInv, MemTypeOK, BlocksInv, CallInv
  <1>4. CASE TryNext
    <2>1. /\ call # NoCall /\ call \in Call /\ call.i \in 0 .. N /\ call.i < N /\ fstate[call.file] = "open"
          /\ method = "static" /\ call.at = "test"
          /\ call' = [call EXCEPT !.i = @ + 1]
          /\ UNCHANGED <<method, used, file_id, chunks_reserved, id, fstate, pos, private, grants, raced, kept>>
      BY <1>4, CallFields DEF TryNext, MemInv, MemTypeOK
    <2>2. call.i + 1 \in 0 .. N
      BY <2>1, Sizes
    <2>3. call' \in Call /\ call'.file = call.file /\ call'.at = "test" /\ call'.i = call.i + 1
      BY <2>1, <2>2 DEF Call
    <2>4. Clear(grants, call.i + 1)
      <3>1. SUFFICES ASSUME NEW g \in grants
                     PROVE  ~(g.first < call.i + 1 /\ call.i + 1 < g.first + g.n)
        BY DEF Clear
      <3>2. g.first \in Nat /\ g.n = 1
        BY <2>1, BlockFields DEF MemInv, MemTypeOK, BlocksInv
      <3> QED
        BY <2>1, <3>2
    <2> QED
      BY <2>1, <2>3, <2>4 DEF MemInv, MemTypeOK, BlocksInv, CallInv
  <1> QED
    BY <1>1, <1>2, <1>3, <1>4

-----------------------------------------------------------------------------
(* The steps that take blocks away.                                        *)

\* Fewer blocks, whose first chunks are still in use, and lengths that are as
\* before or cleared: the blocks stay sound.
LEMMA FewerBlocks ==
  ASSUME MemInv, MemTypeOK', method' = method, call' = call,
         grants' \subseteq grants,
         \A g \in grants' : used'[g.first],
         \A g \in grants : g \in grants' \/ ~used'[g.first] \/ g.first \in kept',
         \A b \in Chunk : used'[b] => used[b] /\ (b \in kept => b \in kept'),
         \A b \in kept' : b \in kept \/ (method = "static" /\ b >= 1 /\ SizeTable[b - 1] = 0),
         \A b \in Chunk : chunks_reserved'[b] \in {0, chunks_reserved[b]}
  PROVE  BlocksInv' /\ CallInv'
  <1>1. grants' \subseteq grants
    OBVIOUS
  <1>2. \A g \in grants : g \in Block /\ g.first \in Chunk
    BY BlockFields DEF MemInv, MemTypeOK
  <1>3. \A g \in grants' : /\ used'[g.first] /\ g.first + g.n <= N
                           /\ g.size <= (IF method = "dynamic" THEN g.n ELSE SizeTable[g.first])
    BY <1>1 DEF MemInv, BlocksInv
  <1>4. \A g, h \in grants' : g # h => Apart(g, h)
    BY <1>1 DEF MemInv, BlocksInv
  <1>5. \A b \in Chunk : used'[b] => (\E g \in grants' : g.first = b) \/ b \in kept'
    <2> SUFFICES ASSUME NEW b \in Chunk, used'[b]
                 PROVE  (\E g \in grants' : g.first = b) \/ b \in kept'
      OBVIOUS
    <2>1. (\E g \in grants : g.first = b) \/ b \in kept
      BY DEF MemInv, BlocksInv
    <2> QED
      BY <2>1
  <1>10. \A b \in kept' : method = "static" /\ b >= 1 /\ SizeTable[b - 1] = 0
    BY DEF MemInv, BlocksInv
  <1>6. method = "dynamic" => \A g \in grants' : chunks_reserved'[g.first] \in {0, g.n}
    BY <1>1, <1>2 DEF MemInv, BlocksInv
  <1>7. BlocksInv'
    BY <1>1, <1>3, <1>4, <1>5, <1>6, <1>10 DEF MemInv, BlocksInv
  <1>8. CallInv'
    <2> SUFFICES ASSUME call # NoCall
                 PROVE  /\ Clear(grants', call.i)
                        /\ call.at = "skip" => /\ Clear(grants', call.i + chunks_reserved'[call.i])
                                               /\ call.i + chunks_reserved'[call.i] <= N
      BY DEF CallInv
    <2>1. Clear(grants', call.i)
      BY <1>1 DEF MemInv, CallInv, Clear
    <2>2. ASSUME call.at = "skip"
          PROVE  /\ Clear(grants', call.i + chunks_reserved'[call.i])
                 /\ call.i + chunks_reserved'[call.i] <= N
      <3>1. call.i \in Chunk /\ chunks_reserved'[call.i] \in {0, chunks_reserved[call.i]}
        BY <2>2 DEF MemInv, MemTypeOK
      <3>2. call.i \in Nat /\ call.i <= N /\ call.i + 0 = call.i
        BY <3>1, Sizes DEF Chunk
      <3>3. Clear(grants', call.i + chunks_reserved[call.i]) /\ call.i + chunks_reserved[call.i] <= N
        BY <1>1, <2>2 DEF MemInv, CallInv, Clear
      <3> QED
        BY <2>1, <3>1, <3>2, <3>3
    <2> QED
      BY <2>1, <2>2
  <1> QED
    BY <1>7, <1>8

\* The chunk that FREEBUFFER clears is the block's own or has size 0, and then
\* no block begins there.
LEMMA FreedChunk ==
  ASSUME MemInv, NEW c \in Chunk, NEW k \in Chunk, FirstAt(k, c), k # c
  PROVE  /\ method = "static" /\ c >= 1 /\ SizeTable[c - 1] = 0
         /\ \A g \in grants : g.first # k
  <1>1. /\ method = "static" /\ k < c
        /\ \A j \in Chunk : k <= j /\ j < c => SizeTable[j] = 0
    BY DEF FirstAt, SameAddress
  <1>2. k \in Nat /\ c \in Nat /\ c - 1 \in Chunk /\ k <= c - 1 /\ c - 1 < c /\ k <= k
    BY <1>1, Sizes DEF Chunk
  <1>3. \A g \in grants : g.size <= SizeTable[g.first] /\ g.size \in Nat /\ g.size >= 1
    BY <1>1, BlockFields, Sizes DEF MemInv, MemTypeOK, BlocksInv
  <1>4. SizeTable[k] = 0 /\ SizeTable[c - 1] = 0
    BY <1>1, <1>2
  <1> QED
    BY <1>1, <1>2, <1>3, <1>4

LEMMA FreeInv ==
  ASSUME MemInv, NEW f \in Files, NEW c \in Chunk, FreeMemory(f, c)
  PROVE  MemInv'
  <1>1. MemTypeOK'
    BY FreeTypeOK DEF MemInv
  <1>2. PICK k \in Chunk :
          /\ FirstAt(k, c)
          /\ used' = [used EXCEPT ![k] = FALSE]
          /\ chunks_reserved' \in {chunks_reserved, [chunks_reserved EXCEPT ![k] = 0]}
          /\ kept' = IF k = c THEN kept ELSE kept \cup {c}
    BY DEF FreeMemory
  <1>3. grants' = {g \in grants : g.first # c} /\ call' = call /\ method' = method
    BY DEF FreeMemory
  <1>4. used'[k] = FALSE /\ \A b \in Chunk : b # k => used'[b] = used[b]
    BY <1>2 DEF MemInv, MemTypeOK
  <1>5. \A b \in Chunk : chunks_reserved'[b] \in {0, chunks_reserved[b]}
    BY <1>2 DEF MemInv, MemTypeOK
  <1>6. \A g \in grants : g.first \in Chunk /\ used[g.first]
    BY BlockFields DEF MemInv, MemTypeOK, BlocksInv
  <1>7. CASE k = c
    BY <1>1, <1>2, <1>3, <1>4, <1>5, <1>6, <1>7, FewerBlocks DEF MemInv
  <1>8. CASE k # c
    <2>1. /\ method = "static" /\ c >= 1 /\ SizeTable[c - 1] = 0
          /\ \A g \in grants : g.first # k
      BY <1>2, <1>8, FreedChunk
    <2>2. kept' = kept \cup {c}
      BY <1>2, <1>8
    <2> QED
      BY <1>1, <1>3, <1>4, <1>5, <1>6, <2>1, <2>2, FewerBlocks DEF MemInv
  <1> QED
    BY <1>7, <1>8

LEMMA ReleaseInv ==
  ASSUME MemInv, NEW f \in Files, ReleaseUsed(f) \/ ReleaseClear(f)
  PROVE  MemInv'
  <1>1. MemTypeOK'
    BY FileStepTypeOK DEF MemInv
  <1>2. pos[f] \in Chunk
    BY Sizes DEF MemInv, MemTypeOK, PosOK, ReleaseUsed, ReleaseClear, Chunk
  <1>3. CASE ReleaseUsed(f)
    <2>1. /\ used' = [used EXCEPT ![pos[f]] = FALSE] /\ grants' = {g \in grants : g.first # pos[f]}
          /\ call' = call /\ method' = method /\ chunks_reserved' = chunks_reserved
          /\ kept' = kept \ {pos[f]}
      BY <1>3 DEF ReleaseUsed
    <2>2. used'[pos[f]] = FALSE /\ \A b \in Chunk : b # pos[f] => used'[b] = used[b]
      BY <1>2, <2>1 DEF MemInv, MemTypeOK
    <2>3. \A g \in grants : g.first \in Chunk /\ used[g.first]
      BY BlockFields DEF MemInv, MemTypeOK, BlocksInv
    <2>4. \A b \in Chunk : chunks_reserved'[b] \in {0, chunks_reserved[b]}
      BY <2>1
    <2> QED
      BY <1>1, <1>2, <2>1, <2>2, <2>3, <2>4, FewerBlocks DEF MemInv
  <1>4. CASE ReleaseClear(f)
    <2>1. /\ used' = used /\ grants' = grants /\ kept' = kept /\ call' = call /\ method' = method
          /\ chunks_reserved' = chunks_reserved \/ chunks_reserved' = [chunks_reserved EXCEPT ![pos[f]] = 0]
      BY <1>4 DEF ReleaseClear
    <2>2. \A b \in Chunk : chunks_reserved'[b] \in {0, chunks_reserved[b]}
      BY <1>2, <2>1 DEF MemInv, MemTypeOK
    <2>3. \A g \in grants : used[g.first] /\ g.first \in Chunk
      BY BlockFields DEF MemInv, MemTypeOK, BlocksInv
    <2> QED
      BY <1>1, <1>2, <2>1, <2>2, <2>3, FewerBlocks DEF MemInv
  <1> QED
    BY <1>3, <1>4

-----------------------------------------------------------------------------
(* The invariant.                                                          *)

LEMMA InitInv == MemInit => MemInv
  BY InitTypeOK DEF MemInit, MemInv, BlocksInv, CallInv

LEMMA FileInv ==
  ASSUME MemInv, NEW f \in Files,
         Open(f) \/ OpenLook(f) \/ OpenClaim(f) \/ OpenFull(f) \/ Close(f) \/ ReleasePass(f)
           \/ ReleaseDone(f)
  PROVE  MemInv'
  <1>1. MemTypeOK'
    BY FileStepTypeOK DEF MemInv
  <1>2. UNCHANGED <<method, used, chunks_reserved, grants, call, kept>>
    BY DEF Open, OpenLook, OpenClaim, OpenFull, Close, ReleasePass, ReleaseDone
  <1> QED
    BY <1>1, <1>2 DEF MemInv, BlocksInv, CallInv

LEMMA GetInv ==
  ASSUME MemInv, NEW f \in Files, NEW want \in Wants, GetBuffer(f, want)
  PROVE  MemInv'
  <1>1. MemTypeOK'
    BY GetTypeOK DEF MemInv
  <1>2. UNCHANGED <<method, used, chunks_reserved, grants, kept>> /\ call'.i = 0 /\ call'.at = "test"
    BY DEF GetBuffer
  <1>3. Clear(grants, 0)
    BY BlockFields DEF MemInv, MemTypeOK, Clear
  <1> QED
    BY <1>1, <1>2, <1>3 DEF MemInv, BlocksInv, CallInv

LEMMA NextInv ==
  ASSUME MemInv, [MemNext]_memVars
  PROVE  MemInv'
  <1>1. CASE CallStep
    BY <1>1, GrantedInv, LookInv DEF CallStep
  <1>2. ASSUME NEW f \in Files, FileStep(f) PROVE MemInv'
    <2>1. ASSUME NEW want \in Wants, GetBuffer(f, want) PROVE MemInv'
      BY <2>1, GetInv
    <2>2. ASSUME NEW g \in grants, FreeMemory(f, g.first) PROVE MemInv'
      <3>1. g.first \in Chunk
        BY BlockFields DEF MemInv, MemTypeOK
      <3> QED
        BY <2>2, <3>1, FreeInv
    <2>3. CASE ReleaseUsed(f) \/ ReleaseClear(f)
      BY <2>3, ReleaseInv
    <2>4. CASE \/ Open(f) \/ OpenLook(f) \/ OpenClaim(f) \/ OpenFull(f)
               \/ Close(f) \/ ReleasePass(f) \/ ReleaseDone(f)
      BY <2>4, FileInv
    <2> QED
      BY <1>2, <2>1, <2>2, <2>3, <2>4 DEF FileStep
  <1>3. CASE UNCHANGED memVars
    BY <1>3 DEF memVars, MemInv, MemTypeOK, BlocksInv, CallInv
  <1> QED
    BY <1>1, <1>2, <1>3 DEF MemNext

\* The tables keep their types and every loop stays in range.
THEOREM TypeCorrect == MemSpec => []MemTypeOK
  <1>1. MemInv => MemTypeOK
    BY DEF MemInv
  <1> QED
    BY <1>1, InitInv, NextInv, PTL DEF MemSpec

\* Granted blocks never share a chunk and are as large as was asked for,
\* whatever races happen: AllocMemory steps over a block by the length in its
\* first chunk (memalloc.c:520, 548) while release clears chunks without the
\* lock (memalloc.c:354-362).
THEOREM BlocksDisjoint == MemSpec => []GrantsDisjoint
  <1>1. ASSUME MemInv PROVE GrantsDisjoint
    <2>1. \A g \in grants : g \in Block
      BY <1>1 DEF MemInv, MemTypeOK
    <2>2. \A g, h \in grants : g # h => Reach(g) \cap Reach(h) = {}
      BY <2>1, ApartDisjoint, <1>1 DEF MemInv, BlocksInv
    <2>3. \A g \in grants : Reach(g) \subseteq Chunk
      <3> SUFFICES ASSUME NEW g \in grants, NEW j \in Reach(g) PROVE j \in Chunk
        OBVIOUS
      <3>1. g \in Block /\ g.first + g.n <= N
        BY <1>1, <2>1 DEF MemInv, BlocksInv
      <3> QED
        BY <3>1, BlockFields, Sizes DEF Chunk
    <2> QED
      BY <1>1, <2>2, <2>3 DEF MemInv, BlocksInv, GrantsDisjoint
  <1> QED
    BY <1>1, InitInv, NextInv, PTL DEF MemSpec

-----------------------------------------------------------------------------
(* Whose the blocks are, as long as no two files share an entry of id[]:   *)
(* the entries are told apart, a used chunk bears its file's entry or was  *)
(* lost, and release leaves no block behind.                               *)

Claimed == {"open", "closing", "clearing"}

EntriesInv ==
    /\ \A f \in Files : fstate[f] \in Claimed => id[private[f]] = private[f]
    /\ \A f, e \in Files :
          f # e /\ fstate[f] \in Claimed /\ fstate[e] \in Claimed => private[f] # private[e]

OwnersInv ==
    /\ \A g \in grants : \/ file_id[g.first] = ID_UNUSED
                         \/ fstate[g.file] \in Claimed /\ file_id[g.first] = private[g.file]
    /\ "chunk" \notin raced => \A g \in grants : file_id[g.first] # ID_UNUSED

PassedInv ==
    /\ \A g \in grants : fstate[g.file] \in {"closing", "clearing"} /\ g.first < pos[g.file]
                            => file_id[g.first] = ID_UNUSED
    /\ \A g \in grants : fstate[g.file] = "clearing" => g.first # pos[g.file]

OwnInv == "entry" \notin raced => EntriesInv /\ OwnersInv /\ PassedInv

LEMMA EntryIsUsed ==
  ASSUME MemTypeOK, NEW f \in Files
  PROVE  private[f] # ID_UNUSED /\ private[f] \in 0 .. MaxOpen - 1
  <1>1. private[f] \in 0 .. MaxOpen - 1
    BY DEF MemTypeOK
  <1> QED
    BY <1>1, Sizes DEF ID_UNUSED

\* The steps of open, and those that change no block and no entry.
LEMMA OpenOwn ==
  ASSUME MemInv, OwnInv, NEW f \in Files,
         Open(f) \/ OpenLook(f) \/ OpenClaim(f) \/ OpenFull(f) \/ Close(f)
  PROVE  OwnInv'
  <1> SUFFICES ASSUME "entry" \notin raced' PROVE (EntriesInv /\ OwnersInv /\ PassedInv)'
    BY DEF OwnInv
  <1>0. /\ fstate \in [Files -> FileState] /\ id \in [0 .. MaxOpen - 1 -> 0 .. 255]
        /\ private \in [Files -> 0 .. MaxOpen - 1] /\ pos \in [Files -> Nat]
        /\ \A e \in Files : private[e] # ID_UNUSED /\ private[e] \in 0 .. MaxOpen - 1
        /\ PosOK(fstate[f], pos[f])
        /\ \A g \in grants : g.file \in Files /\ g.first \in Nat
    BY EntryIsUsed, BlockFields DEF MemInv, MemTypeOK
  <1>1. EntriesInv /\ OwnersInv /\ PassedInv
    BY DEF OwnInv, Open, OpenLook, OpenClaim, OpenFull, Close
  <1>2. CASE OpenClaim(f)
    <2>1. /\ fstate[f] = "claiming" /\ id[pos[f]] = ID_UNUSED /\ raced' = raced
          /\ id' = [id EXCEPT ![pos[f]] = pos[f]] /\ private' = [private EXCEPT ![f] = pos[f]]
          /\ fstate' = [fstate EXCEPT ![f] = "open"] /\ pos' = [pos EXCEPT ![f] = 0]
          /\ UNCHANGED <<file_id, grants>>
      BY <1>2 DEF OpenClaim
    <2>2. pos[f] \in 0 .. MaxOpen - 1
      BY <2>1, <1>0 DEF PosOK
    <2>3. \A e \in Files : fstate[e] \in Claimed => private[e] # pos[f]
      BY <2>1, <1>0, <1>1 DEF EntriesInv
    <2>4. EntriesInv'
      BY <2>1, <2>2, <2>3, <1>0, <1>1 DEF EntriesInv, Claimed
    <2>5. OwnersInv'
      BY <2>1, <1>0, <1>1 DEF OwnersInv, Claimed
    <2>6. PassedInv'
      BY <2>1, <1>0, <1>1 DEF PassedInv
    <2> QED
      BY <2>4, <2>5, <2>6
  <1>3. CASE Close(f)
    <2>1. /\ fstate[f] = "open" /\ fstate' = [fstate EXCEPT ![f] = "closing"] /\ pos[f] = 0
          /\ UNCHANGED <<id, private, pos, file_id, grants, raced>>
      BY <1>3, <1>0 DEF Close, PosOK
    <2>2. EntriesInv' /\ OwnersInv'
      BY <2>1, <1>0, <1>1 DEF EntriesInv, OwnersInv, Claimed
    <2>3. PassedInv'
      BY <2>1, <1>0, <1>1 DEF PassedInv
    <2> QED
      BY <2>2, <2>3
  <1>4. CASE Open(f) \/ OpenLook(f) \/ OpenFull(f)
    <2>1. /\ fstate[f] \in {"closed", "opening"}
          /\ UNCHANGED <<id, private, file_id, grants, raced>>
          /\ \A e \in Files : e # f => fstate'[e] = fstate[e] /\ pos'[e] = pos[e]
          /\ fstate'[f] \in {"closed", "opening", "claiming"}
      BY <1>4, <1>0 DEF Open, OpenLook, OpenFull
    <2>2. EntriesInv' /\ OwnersInv'
      BY <2>1, <1>0, <1>1 DEF EntriesInv, OwnersInv, Claimed
    <2>3. PassedInv'
      BY <2>1, <1>0, <1>1 DEF PassedInv
    <2> QED
      BY <2>2, <2>3
  <1> QED
    BY <1>2, <1>3, <1>4

LEMMA ReleaseOwn ==
  ASSUME MemInv, OwnInv, NEW f \in Files,
         ReleasePass(f) \/ ReleaseUsed(f) \/ ReleaseClear(f) \/ ReleaseDone(f)
  PROVE  OwnInv'
  <1> SUFFICES ASSUME "entry" \notin raced' PROVE (EntriesInv /\ OwnersInv /\ PassedInv)'
    BY DEF OwnInv
  <1>0. /\ fstate \in [Files -> FileState] /\ id \in [0 .. MaxOpen - 1 -> 0 .. 255]
        /\ private \in [Files -> 0 .. MaxOpen - 1] /\ pos \in [Files -> Nat]
        /\ file_id \in [Chunk -> 0 .. 255]
        /\ \A e \in Files : private[e] # ID_UNUSED /\ private[e] \in 0 .. MaxOpen - 1
        /\ \A g \in grants : g.file \in Files /\ g.first \in Nat /\ g.first \in Chunk /\ used[g.first]
    BY EntryIsUsed, BlockFields DEF MemInv, MemTypeOK, BlocksInv
  <1>1. EntriesInv /\ OwnersInv /\ PassedInv
    BY DEF OwnInv, ReleasePass, ReleaseUsed, ReleaseClear, ReleaseDone
  <1>2. CASE ReleasePass(f)
    <2>1. /\ fstate[f] = "closing" /\ pos' = [pos EXCEPT ![f] = @ + 1]
          /\ file_id[pos[f]] # id[private[f]]
          /\ UNCHANGED <<id, fstate, private, file_id, grants, raced>>
      BY <1>2 DEF ReleasePass
    <2>2. EntriesInv' /\ OwnersInv'
      BY <2>1, <1>1 DEF EntriesInv, OwnersInv
    <2>3. \A g \in grants : g.file = f /\ g.first = pos[f] => file_id[g.first] = ID_UNUSED
      BY <2>1, <1>0, <1>1 DEF EntriesInv, OwnersInv, Claimed
    <2>4. PassedInv'
      BY <2>1, <2>3, <1>0, <1>1 DEF PassedInv
    <2> QED
      BY <2>2, <2>4
  <1>3. CASE ReleaseUsed(f)
    <2>1. /\ fstate[f] = "closing" /\ fstate' = [fstate EXCEPT ![f] = "clearing"]
          /\ grants' = {g \in grants : g.first # pos[f]}
          /\ UNCHANGED <<id, pos, private, file_id, raced>>
      BY <1>3 DEF ReleaseUsed
    <2>2. EntriesInv' /\ OwnersInv'
      BY <2>1, <1>0, <1>1 DEF EntriesInv, OwnersInv, Claimed
    <2>3. PassedInv'
      BY <2>1, <1>0, <1>1 DEF PassedInv
    <2> QED
      BY <2>2, <2>3
  <1>4. CASE ReleaseClear(f)
    <2>1. /\ fstate[f] = "clearing" /\ fstate' = [fstate EXCEPT ![f] = "closing"]
          /\ pos' = [pos EXCEPT ![f] = pos[f] + 1]
          /\ file_id' = file_id \/ file_id' = [file_id EXCEPT ![pos[f]] = ID_UNUSED]
          /\ UNCHANGED <<id, private, grants>>
      BY <1>4 DEF ReleaseClear
    <2>2. raced' = (IF used[pos[f]] THEN raced \cup {"chunk"} ELSE raced)
      BY <1>4 DEF ReleaseClear
    <2>3. \A g \in grants : \/ file_id'[g.first] = file_id[g.first]
                            \/ file_id'[g.first] = ID_UNUSED /\ g.first = pos[f]
      BY <2>1, <1>0
    <2>4. EntriesInv'
      BY <2>1, <1>0, <1>1 DEF EntriesInv, Claimed
    <2>5. OwnersInv'
      BY <2>1, <2>2, <2>3, <1>0, <1>1 DEF OwnersInv, Claimed
    <2>6. PassedInv'
      BY <2>1, <2>3, <1>0, <1>1 DEF PassedInv
    <2> QED
      BY <2>4, <2>5, <2>6
  <1>5. CASE ReleaseDone(f)
    <2>1. /\ fstate[f] = "closing" /\ pos[f] = N
          /\ id' = [id EXCEPT ![private[f]] = ID_UNUSED]
          /\ fstate' = [fstate EXCEPT ![f] = "closed"] /\ pos' = [pos EXCEPT ![f] = 0]
          /\ private' = [private EXCEPT ![f] = 0]
          /\ UNCHANGED <<file_id, grants, raced>>
      BY <1>5 DEF ReleaseDone
    <2>2. EntriesInv'
      BY <2>1, <1>0, <1>1 DEF EntriesInv, Claimed
    <2>3. \A g \in grants : g.file = f => file_id[g.first] = ID_UNUSED
      BY <2>1, <1>0, <1>1, Sizes DEF PassedInv, Chunk
    <2>4. OwnersInv'
      BY <2>1, <2>3, <1>0, <1>1 DEF OwnersInv, Claimed
    <2>5. PassedInv'
      BY <2>1, <1>0, <1>1 DEF PassedInv
    <2> QED
      BY <2>2, <2>4, <2>5
  <1> QED
    BY <1>2, <1>3, <1>4, <1>5

LEMMA CallOwn ==
  ASSUME MemInv, OwnInv, Granted
  PROVE  OwnInv'
  <1> DEFINE n == Needed(call.want)
             g == [file |-> call.file, first |-> call.i, n |-> n, size |-> call.want]
  <1>1. /\ grants' = grants \cup {g} /\ call.i \in Chunk
        /\ \A j \in Chunk : call.i <= j /\ j < call.i + n => ~used[j]
        /\ n \in 1 .. N
        /\ file_id' = [file_id EXCEPT ![call.i] = id[private[call.file]]]
    BY GrantedBlock DEF MemInv
  <1>2. g.file = call.file /\ g.first = call.i
    OBVIOUS
  <1>3. /\ UNCHANGED <<id, fstate, pos, private, raced>>
        /\ call.file \in Files /\ fstate[call.file] = "open"
    BY CallFields DEF Granted, MemInv, MemTypeOK
  <1> HIDE DEF n, g
  <1> SUFFICES ASSUME "entry" \notin raced PROVE (EntriesInv /\ OwnersInv /\ PassedInv)'
    BY <1>3 DEF OwnInv
  <1>4. EntriesInv /\ OwnersInv /\ PassedInv
    BY DEF OwnInv
  <1>5. ~used[call.i]
    BY <1>1, Sizes DEF Chunk
  <1>6. \A h \in grants : h.first \in Chunk /\ h.first # call.i
    BY <1>5, BlockFields DEF MemInv, MemTypeOK, BlocksInv
  <1>7. id[private[call.file]] = private[call.file] /\ private[call.file] # ID_UNUSED
    BY <1>3, <1>4, EntryIsUsed DEF EntriesInv, Claimed, MemInv
  <1>8. file_id'[call.i] = private[call.file] /\ \A h \in grants : file_id'[h.first] = file_id[h.first]
    BY <1>1, <1>6, <1>7 DEF MemInv, MemTypeOK
  <1>9. EntriesInv'
    BY <1>3, <1>4 DEF EntriesInv
  <1>10. OwnersInv'
    BY <1>1, <1>2, <1>3, <1>4, <1>7, <1>8 DEF OwnersInv, Claimed
  <1>11. PassedInv'
    BY <1>1, <1>2, <1>3, <1>4, <1>8 DEF PassedInv
  <1> QED
    BY <1>9, <1>10, <1>11

LEMMA FreeOwn ==
  ASSUME MemInv, OwnInv, NEW f \in Files, NEW c \in Chunk, FreeMemory(f, c)
  PROVE  OwnInv'
  <1>0. PICK k \in Chunk : FirstAt(k, c) /\ file_id' = [file_id EXCEPT ![k] = ID_UNUSED]
    BY DEF FreeMemory
  <1>1. /\ grants' = {g \in grants : g.first # c}
        /\ UNCHANGED <<id, fstate, pos, private, raced>>
    BY DEF FreeMemory
  <1>2. \A g \in grants' : g.first # k
    BY <1>0, <1>1, FreedChunk
  <1>3. \A g \in grants' : g \in grants /\ file_id'[g.first] = file_id[g.first]
    BY <1>0, <1>1, <1>2, BlockFields DEF MemInv, MemTypeOK
  <1> QED
    BY <1>1, <1>3 DEF OwnInv, EntriesInv, OwnersInv, PassedInv

LEMMA InitOwn == MemInit => OwnInv
  BY DEF MemInit, OwnInv, EntriesInv, OwnersInv, PassedInv, Claimed

LEMMA NextOwn ==
  ASSUME MemInv, OwnInv, [MemNext]_memVars
  PROVE  OwnInv'
  <1>1. CASE UNCHANGED <<file_id, id, fstate, pos, private, grants, raced>>
    BY <1>1 DEF OwnInv, EntriesInv, OwnersInv, PassedInv
  <1>2. CASE CallStep
    <2>1. CASE Granted
      BY <2>1, CallOwn
    <2>2. CASE NotGranted \/ Blocked \/ Skip \/ TryNext
      BY <2>2, <1>1 DEF NotGranted, Blocked, Skip, TryNext
    <2> QED
      BY <1>2, <2>1, <2>2 DEF CallStep
  <1>3. ASSUME NEW f \in Files, FileStep(f) PROVE OwnInv'
    <2>1. ASSUME NEW want \in Wants, GetBuffer(f, want) PROVE OwnInv'
      BY <2>1, <1>1 DEF GetBuffer
    <2>2. ASSUME NEW g \in grants, FreeMemory(f, g.first) PROVE OwnInv'
      <3>1. g.first \in Chunk
        BY BlockFields DEF MemInv, MemTypeOK
      <3> QED
        BY <2>2, <3>1, FreeOwn
    <2>3. CASE ReleasePass(f) \/ ReleaseUsed(f) \/ ReleaseClear(f) \/ ReleaseDone(f)
      BY <2>3, ReleaseOwn
    <2>4. CASE Open(f) \/ OpenLook(f) \/ OpenClaim(f) \/ OpenFull(f) \/ Close(f)
      BY <2>4, OpenOwn
    <2> QED
      BY <1>3, <2>1, <2>2, <2>3, <2>4 DEF FileStep
  <1>4. CASE UNCHANGED memVars
    BY <1>1, <1>4 DEF memVars
  <1> QED
    BY <1>2, <1>3, <1>4 DEF MemNext

-----------------------------------------------------------------------------
(* The driver implements LinearMem.                                        *)

LEMMA LinearBlockFields ==
  ASSUME NEW g
  PROVE  LinearBlock(g).file = g.file /\ LinearBlock(g).chunks = Reach(g)
  BY DEF LinearBlock

\* Two blocks are not seen as one.
LEMMA LinearBlockUnique ==
  ASSUME MemInv, NEW g \in grants, NEW h \in grants, LinearBlock(g) = LinearBlock(h)
  PROVE  g = h
  <1>1. g \in Block /\ h \in Block /\ Reach(g) = Reach(h)
    BY LinearBlockFields DEF MemInv, MemTypeOK
  <1>2. g.first \in Reach(g)
    BY <1>1, BlockFields
  <1>3. ~Apart(g, h)
    BY <1>1, <1>2, ApartDisjoint
  <1> QED
    BY <1>3 DEF MemInv, BlocksInv

\* The block that begins at c is taken away.
LEMMA BlockGoes ==
  ASSUME MemInv, NEW g \in grants, grants' = {h \in grants : h.first # g.first}
  PROVE  LinearBlocks' = LinearBlocks \ {LinearBlock(g)}
  <1>1. \A h \in grants : h.first # g.first <=> LinearBlock(h) # LinearBlock(g)
    BY LinearBlockUnique, FirstIsUnique
  <1> QED
    BY <1>1 DEF LinearBlocks

\* A file moves on.
LEMMA LinearFileMoves ==
  ASSUME MemTypeOK, NEW f \in Files, NEW at, fstate' = [fstate EXCEPT ![f] = at]
  PROVE  /\ LinearFiles' = [LinearFiles EXCEPT ![f] = LinearState(at)]
         /\ LinearFiles[f] = LinearState(fstate[f])
         /\ LinearState(at) = LinearState(fstate[f]) => LinearFiles' = LinearFiles
  BY DEF LinearFiles, MemTypeOK

LEMMA LinearStates ==
  /\ LinearState("closed") = "closed" /\ LinearState("opening") = "closed"
  /\ LinearState("claiming") = "closed" /\ LinearState("open") = "open"
  /\ LinearState("closing") = "closing" /\ LinearState("clearing") = "closing"
  BY DEF LinearState

LEMMA GrantedImplements ==
  ASSUME MemInv, MemInv', Granted
  PROVE  Linear!Grant(call.file)
  <1> DEFINE n == Needed(call.want)
             g == [file |-> call.file, first |-> call.i, n |-> n, size |-> call.want]
  <1>1. /\ g \in Block /\ grants' = grants \cup {g} /\ call.i + n <= N /\ call.i \in Chunk /\ n \in 1 .. N
        /\ \A j \in Chunk : call.i <= j /\ j < call.i + n => ~used[j]
    BY GrantedBlock DEF MemInv
  <1>2. g.file = call.file /\ g.first = call.i /\ g.n = n
    OBVIOUS
  <1>3. fstate[call.file] = "open" /\ call.file \in Files /\ UNCHANGED <<fstate, raced>>
    BY CallFields DEF Granted, MemInv, MemTypeOK
  <1> HIDE DEF n, g
  <1> DEFINE e == call.i + n - 1
  <1>4. /\ call.i \in 0 .. N - 1 /\ e \in call.i .. N - 1
        /\ Reach(g) = call.i .. e
    BY <1>1, <1>2, BlockFields, Sizes DEF Chunk
  <1>5. LinearBlock(g) = [file |-> call.file, chunks |-> call.i .. e]
    BY <1>2, <1>4 DEF LinearBlock
  <1> HIDE DEF e
  <1>6. LinearBlocks' = LinearBlocks \cup {[file |-> call.file, chunks |-> call.i .. e]}
    BY <1>1, <1>5 DEF LinearBlocks
  <1>7. \A b \in LinearBlocks : b.chunks \cap (call.i .. e) = {}
    <2> SUFFICES ASSUME NEW h \in grants PROVE LinearBlock(h).chunks \cap (call.i .. e) = {}
      BY DEF LinearBlocks
    <2>1. h \in Block /\ used[h.first] /\ h.first \in Chunk
      BY BlockFields DEF MemInv, MemTypeOK, BlocksInv
    <2>2. h # g
      BY <1>1, <1>2, <2>1, Sizes DEF Chunk
    <2>3. Apart(h, g)
      BY <1>1, <2>2 DEF MemInv, BlocksInv
    <2> QED
      BY <1>1, <1>4, <2>1, <2>3, ApartDisjoint, LinearBlockFields
  <1>8. LinearFiles[call.file] = "open" /\ LinearFiles' = LinearFiles
    BY <1>3, LinearStates DEF LinearFiles
  <1> QED
    BY <1>3, <1>4, <1>6, <1>7, <1>8 DEF Linear!Grant, Linear!Chunk

LEMMA FreeImplements ==
  ASSUME MemInv, NEW f \in Files, NEW g \in grants, g.file = f, FreeMemory(f, g.first)
  PROVE  Linear!Free(f)
  <1>1. LinearBlock(g) \in LinearBlocks /\ LinearBlock(g).file = f
    BY LinearBlockFields DEF LinearBlocks
  <1>2. LinearBlocks' = LinearBlocks \ {LinearBlock(g)}
    BY BlockGoes DEF FreeMemory
  <1>3. LinearFiles[f] = "open" /\ LinearFiles' = LinearFiles /\ raced' = raced
    BY LinearStates DEF FreeMemory, LinearFiles
  <1> QED
    BY <1>1, <1>2, <1>3 DEF Linear!Free

LEMMA ReleaseUsedImplements ==
  ASSUME MemInv, OwnInv, NEW f \in Files, ReleaseUsed(f)
  PROVE  Linear!Drop(f) \/ UNCHANGED Linear!linearVars
  <1>1. /\ fstate[f] = "closing" /\ fstate' = [fstate EXCEPT ![f] = "clearing"]
        /\ grants' = {h \in grants : h.first # pos[f]} /\ raced' = raced
        /\ file_id[pos[f]] = id[private[f]] \/ id[private[f]] = ID_UNUSED
    BY DEF ReleaseUsed, Matches
  <1>2. LinearFiles[f] = "closing" /\ LinearFiles' = LinearFiles
    <2>1. \A e \in Files : e # f => fstate'[e] = fstate[e]
      BY <1>1 DEF MemInv, MemTypeOK
    <2>2. fstate'[f] = "clearing"
      BY <1>1 DEF MemInv, MemTypeOK
    <2> QED
      BY <1>1, <2>1, <2>2, LinearStates DEF LinearFiles
  <1>3. CASE \A h \in grants : h.first # pos[f]
    <2>1. grants' = grants
      BY <1>1, <1>3
    <2>2. LinearBlocks' = LinearBlocks
      BY <2>1 DEF LinearBlocks
    <2> QED
      BY <1>1, <1>2, <2>2 DEF Linear!linearVars
  <1>4. ASSUME NEW g \in grants, g.first = pos[f] PROVE Linear!Drop(f)
    <2>1. LinearBlock(g) \in LinearBlocks /\ LinearBlocks' = LinearBlocks \ {LinearBlock(g)}
      BY <1>1, <1>4, BlockGoes DEF LinearBlocks
    <2>2. ASSUME "entry" \notin raced PROVE g.file = f
      <3>1. EntriesInv /\ OwnersInv
        BY <2>2 DEF OwnInv
      <3>2. id[private[f]] = private[f] /\ private[f] # ID_UNUSED
        BY <1>1, <3>1, EntryIsUsed DEF EntriesInv, Claimed, MemInv
      <3>3. fstate[g.file] \in Claimed /\ private[g.file] = private[f]
        BY <1>1, <1>4, <3>1, <3>2 DEF OwnersInv
      <3>4. g.file \in Files
        BY BlockFields DEF MemInv, MemTypeOK
      <3> QED
        BY <1>1, <3>1, <3>3, <3>4 DEF EntriesInv, Claimed
    <2>3. LinearBlock(g).file = f \/ "entry" \in raced
      BY <2>2, LinearBlockFields
    <2> QED
      BY <1>1, <1>2, <2>1, <2>3 DEF Linear!Drop
  <1> QED
    BY <1>3, <1>4

LEMMA ReleaseDoneImplements ==
  ASSUME MemInv, OwnInv, NEW f \in Files, ReleaseDone(f)
  PROVE  Linear!Closed(f)
  <1>1. /\ fstate[f] = "closing" /\ fstate' = [fstate EXCEPT ![f] = "closed"] /\ pos[f] = N
        /\ UNCHANGED <<grants, raced>>
    BY DEF ReleaseDone
  <1>2. ASSUME raced = {}, NEW g \in grants PROVE g.file # f
    <2>1. file_id[g.first] # ID_UNUSED /\ PassedInv
      BY <1>2 DEF OwnInv, OwnersInv
    <2>2. g.first < N
      BY BlockFields, Sizes DEF MemInv, MemTypeOK, Chunk
    <2> QED
      BY <1>1, <2>1, <2>2 DEF PassedInv
  <1>3. raced = {} => \A b \in LinearBlocks : b.file # f
    BY <1>2, LinearBlockFields DEF LinearBlocks
  <1>4. LinearFiles[f] = "closing" /\ LinearFiles' = [LinearFiles EXCEPT ![f] = "closed"]
    BY <1>1, LinearFileMoves, LinearStates DEF MemInv
  <1>5. LinearBlocks' = LinearBlocks
    BY <1>1 DEF LinearBlocks
  <1> QED
    BY <1>1, <1>3, <1>4, <1>5 DEF Linear!Closed

LEMMA FileImplements ==
  ASSUME MemInv, OwnInv, NEW f \in Files, FileStep(f)
  PROVE  [Linear!LinearNext]_Linear!linearVars
  <1>0. fstate \in [Files -> FileState] /\ MemTypeOK
    BY DEF MemInv, MemTypeOK
  <1>1. CASE Open(f) \/ OpenLook(f) \/ OpenFull(f) \/ ReleasePass(f) \/ \E want \in Wants : GetBuffer(f, want)
    <2>1. UNCHANGED <<grants, raced>>
      BY <1>1 DEF Open, OpenLook, OpenFull, ReleasePass, GetBuffer
    <2>2. /\ \A e \in Files : e # f => fstate'[e] = fstate[e]
          /\ LinearState(fstate'[f]) = LinearState(fstate[f])
      BY <1>0, <1>1, LinearStates DEF Open, OpenLook, OpenFull, ReleasePass, GetBuffer
    <2>3. LinearFiles' = LinearFiles
      BY <2>2 DEF LinearFiles
    <2> QED
      BY <2>1, <2>3 DEF LinearBlocks, Linear!linearVars
  <1>2. CASE OpenClaim(f)
    <2>1. /\ fstate[f] = "claiming" /\ fstate' = [fstate EXCEPT ![f] = "open"] /\ grants' = grants
          /\ raced' \in {raced, raced \cup {"entry"}}
      BY <1>2 DEF OpenClaim
    <2>2. LinearFiles[f] = "closed" /\ LinearFiles' = [LinearFiles EXCEPT ![f] = "open"]
      <3>1. /\ \A e \in Files : e # f => fstate'[e] = fstate[e]
            /\ fstate'[f] = "open"
        BY <1>0, <2>1
      <3>2. LinearFiles' = [e \in Files |-> IF e = f THEN "open" ELSE LinearFiles[e]]
        BY <3>1, LinearStates DEF LinearFiles
      <3>3. LinearFiles = [e \in Files |-> LinearFiles[e]] /\ LinearFiles[f] = LinearState(fstate[f])
        BY DEF LinearFiles
      <3> QED
        BY <2>1, <3>2, <3>3, LinearStates
    <2>3. Linear!Open(f)
      BY <2>1, <2>2 DEF LinearBlocks, Linear!Open
    <2> QED
      BY <2>3 DEF Linear!LinearNext
  <1>3. CASE Close(f)
    <2>1. fstate[f] = "open" /\ fstate' = [fstate EXCEPT ![f] = "closing"] /\ UNCHANGED <<grants, raced>>
      BY <1>3 DEF Close
    <2>2. LinearFiles[f] = "open" /\ LinearFiles' = [LinearFiles EXCEPT ![f] = "closing"]
      <3>1. /\ \A e \in Files : e # f => fstate'[e] = fstate[e]
            /\ fstate'[f] = "closing"
        BY <1>0, <2>1
      <3>2. LinearFiles' = [e \in Files |-> IF e = f THEN "closing" ELSE LinearFiles[e]]
        BY <3>1, LinearStates DEF LinearFiles
      <3>3. LinearFiles = [e \in Files |-> LinearFiles[e]] /\ LinearFiles[f] = LinearState(fstate[f])
        BY DEF LinearFiles
      <3> QED
        BY <2>1, <3>2, <3>3, LinearStates
    <2>3. Linear!Close(f)
      BY <2>1, <2>2 DEF LinearBlocks, Linear!Close
    <2> QED
      BY <2>3 DEF Linear!LinearNext
  <1>4. ASSUME NEW g \in grants, g.file = f, FreeMemory(f, g.first)
        PROVE  [Linear!LinearNext]_Linear!linearVars
    BY <1>4, FreeImplements DEF Linear!LinearNext
  <1>5. CASE ReleaseUsed(f)
    BY <1>5, ReleaseUsedImplements DEF Linear!LinearNext
  <1>6. CASE ReleaseClear(f)
    <2>1. /\ fstate[f] = "clearing" /\ fstate' = [fstate EXCEPT ![f] = "closing"] /\ grants' = grants
          /\ raced' = raced \/ raced' = raced \cup {"chunk"}
      BY <1>6 DEF ReleaseClear
    <2>2. LinearFiles[f] = "closing" /\ LinearFiles' = LinearFiles
      <3>1. /\ \A e \in Files : e # f => fstate'[e] = fstate[e]
            /\ fstate'[f] = "closing"
        BY <1>0, <2>1
      <3> QED
        BY <2>1, <3>1, LinearStates DEF LinearFiles
    <2>3. LinearBlocks' = LinearBlocks
      BY <2>1 DEF LinearBlocks
    <2>4. Linear!Lose(f) \/ UNCHANGED Linear!linearVars
      BY <2>1, <2>2, <2>3 DEF Linear!Lose, Linear!linearVars
    <2> QED
      BY <2>4 DEF Linear!LinearNext
  <1>7. CASE ReleaseDone(f)
    BY <1>7, ReleaseDoneImplements DEF Linear!LinearNext
  <1> QED
    BY <1>1, <1>2, <1>3, <1>4, <1>5, <1>6, <1>7 DEF FileStep

LEMMA StepImplements ==
  ASSUME MemInv, MemInv', OwnInv, [MemNext]_memVars
  PROVE  [Linear!LinearNext]_Linear!linearVars
  <1>1. ASSUME UNCHANGED <<fstate, grants, raced>> PROVE UNCHANGED Linear!linearVars
    BY <1>1 DEF LinearBlocks, LinearFiles, Linear!linearVars
  <1>2. CASE CallStep
    <2>1. CASE Granted
      <3>1. call.file \in Files
        BY <2>1, CallFields DEF Granted, MemInv
      <3> QED
        BY <2>1, <3>1, GrantedImplements DEF Linear!LinearNext
    <2>2. CASE NotGranted \/ Blocked \/ Skip \/ TryNext
      BY <2>2, <1>1 DEF NotGranted, Blocked, Skip, TryNext
    <2> QED
      BY <1>2, <2>1, <2>2 DEF CallStep
  <1>3. ASSUME NEW f \in Files, FileStep(f) PROVE [Linear!LinearNext]_Linear!linearVars
    BY <1>3, FileImplements
  <1>4. CASE UNCHANGED memVars
    BY <1>1, <1>4 DEF memVars
  <1> QED
    BY <1>2, <1>3, <1>4 DEF MemNext

\* Every behaviour of the driver is one of LinearMem: what the decoder
\* instances of G1Decoder rely on.
THEOREM DriverImplementsLinear == MemSpec => ImplementsLinear
  <1>1. MemInit => Linear!LinearInit
    <2> SUFFICES ASSUME MemInit PROVE Linear!LinearInit
      OBVIOUS
    <2>1. LinearBlocks = {}
      BY DEF MemInit, LinearBlocks
    <2>2. LinearFiles = [f \in Files |-> "closed"]
      BY LinearStates DEF MemInit, LinearFiles
    <2> QED
      BY <2>1, <2>2 DEF MemInit, Linear!LinearInit
  <1>2. MemInv /\ MemInv' /\ OwnInv /\ [MemNext]_memVars => [Linear!LinearNext]_Linear!linearVars
    BY StepImplements
  <1>3. MemSpec => [](MemInv /\ OwnInv)
    BY InitInv, NextInv, InitOwn, NextOwn, PTL DEF MemSpec
  <1> QED
    BY <1>1, <1>2, <1>3, PTL DEF MemSpec, ImplementsLinear, Linear!LinearSpec
=============================================================================
