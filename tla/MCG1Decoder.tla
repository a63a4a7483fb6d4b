---------------------------- MODULE MCG1Decoder ----------------------------
(* Two decoder instances, in one process or in two. *)
EXTENDS G1Decoder

CONSTANTS d1, d2

MCFiles == {d1, d2}

\* A bound: what follows a slip is explored for instances in processes of their
\* own.  One process only adds the mutex, and dies with both instances.
SlipBound == together => slipped = "none"

\* A bound: a buffer has one chunk; d1 finds chunk 0 free for its pictures and
\* chunk 1 for the others, d2 chunk 2.
ChunkBound ==
    \A b \in blocks :
       IF b.file = d2 THEN b.chunks = {2}
       ELSE pc(d1) # "dead" => b.chunks = {IF b \in inst[d1].pics THEN 0 ELSE 1}
=============================================================================
