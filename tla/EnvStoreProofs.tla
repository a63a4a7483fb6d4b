--------------------------- MODULE EnvStoreProofs ---------------------------
(***************************************************************************)
(* Proofs about EnvStore, for any variables and values, any number of      *)
(* erase blocks, any serial numbers (wrapping ones too) and any faults: a  *)
(* valid copy is in flash at every moment.                                 *)
(***************************************************************************)
EXTENDS EnvStore, FiniteSetTheorems, TLAPS

-----------------------------------------------------------------------------
(* Images, and the validity of a copy. *)

\* The first piece tells whose image it is.
LEMMA ImageType ==
  ASSUME NEW e \in Envs \cup {None}, NEW f \in Flags
  PROVE  /\ Image(e, f) \in [Piece -> PieceState]
         /\ Image(e, f)[1].env = e
         /\ \A j \in Piece : Image(e, f)[j].env = Image(e, 0)[j].env
  BY BoundsAssumption DEF Image, Piece, Flags, PieceState

\* A copy none of whose environments change stays valid.
LEMMA IntactKept ==
  ASSUME NEW old, NEW new, Intact(old), \A j \in Piece : new[j].env = old[j].env
  PROVE  Intact(new)
  BY DEF Intact

\* A copy all of whose pieces are of one image is valid.
LEMMA IntactWritten ==
  ASSUME NEW image, NEW e \in Envs, \A j \in Piece : image[j].env = Image(e, 0)[j].env
  PROVE  Intact(image)
  BY DEF Intact

\* A copy holds an environment, or the defaults are used.
LEMMA ContentType ==
  ASSUME TypeOK, NEW c \in Copies
  PROVE  Content(c) \in Envs
  <1>1. CASE Valid(c)
    <2>1. PICK e \in Envs : \A j \in Piece : flash[c][j].env = Image(e, 0)[j].env
      BY <1>1 DEF Valid, Intact
    <2>2. 1 \in Piece /\ 0 \in Flags
      BY BoundsAssumption DEF Piece, Flags
    <2>3. flash[c][1].env = e
      BY <2>1, <2>2, ImageType
    <2> QED
      BY <1>1, <2>3 DEF Content
  <1>2. CASE ~Valid(c)
    BY <1>2, EnvsAssumption DEF Content
  <1> QED
    BY <1>1, <1>2

\* Whatever the flags say, a valid copy is picked when there is one.
LEMMA PickValid ==
  ASSUME NEW second \in BOOLEAN
  PROVE  /\ Pick(second) \in Copies
         /\ Redundant /\ (Valid(0) \/ Valid(1)) => Valid(Pick(second))
  BY DEF Pick, Copies

\* Both programs pick a valid copy when there is one.
LEMMA Picks ==
  ASSUME TypeOK
  PROVE  /\ ToolPick \in Copies /\ LoaderPick \in Copies
         /\ Redundant /\ (Valid(0) \/ Valid(1)) => Valid(ToolPick) /\ Valid(LoaderPick)
  <1> DEFINE tool   == IF scheme = "boolean" THEN SecondIsActive(Flag(0), Flag(1))
                                             ELSE ToolSecondIsNewer(Flag(0), Flag(1))
             loader == IF scheme = "boolean" THEN SecondIsActive(Flag(0), Flag(1))
                                             ELSE LoaderSecondIsNewer(Flag(0), Flag(1))
  <1>1. tool \in BOOLEAN /\ loader \in BOOLEAN
    BY DEF SecondIsActive, ToolSecondIsNewer, LoaderSecondIsNewer
  <1>2. ToolPick = Pick(tool) /\ LoaderPick = Pick(loader)
    BY DEF ToolPick, LoaderPick
  <1> HIDE DEF tool, loader
  <1> QED
    BY <1>1, <1>2, PickValid

\* A piece has a flag, and keeps its type when the flag changes.
LEMMA FlagType ==
  ASSUME TypeOK, NEW c \in Copies
  PROVE  /\ Flag(c) \in Flags
         /\ \A f \in Flags : [flash EXCEPT ![c][1].flag = f] \in [Copies -> [Piece -> PieceState]]
  <1>1. 1 \in Piece /\ 0 \in Flags
    BY BoundsAssumption DEF Piece, Flags
  <1>2. flash[c][1] \in PieceState
    BY <1>1 DEF TypeOK
  <1>3. Flag(c) \in Flags /\ \A f \in Flags : [flash[c][1] EXCEPT !.flag = f] \in PieceState
    BY <1>1, <1>2 DEF Flag, PieceState
  <1> QED
    BY <1>1, <1>3 DEF TypeOK

\* A save does not touch the copy in use, when there are two.
LEMMA TargetType ==
  ASSUME TypeOK
  PROVE  Target \in Copies /\ (Redundant => Target # cur)
  BY DEF TypeOK, Target, Copies

-----------------------------------------------------------------------------
(* Editing in RAM stays within the environment's size. *)

\* What an environment sets is a finite set.
LEMMA SetNames ==
  ASSUME NEW e, NEW S \in SUBSET Names
  PROVE  /\ IsFiniteSet({m \in S : e[m] # Unset})
         /\ Cardinality({m \in S : e[m] # Unset}) \in Nat
  BY NamesAssumption, FS_Subset, FS_CardinalityType

\* Deleting a variable keeps the environment within its size.
LEMMA UnsetInEnvs ==
  ASSUME NEW e \in Envs, NEW n \in Names
  PROVE  [e EXCEPT ![n] = Unset] \in Envs
  <1> DEFINE d == [e EXCEPT ![n] = Unset]
             D == {m \in Names : d[m] # Unset}
             E == {m \in Names : e[m] # Unset}
  <1>1. d \in [Names -> Values \cup {Unset}]
    BY DEF Envs
  <1>2. D \subseteq E
    BY DEF Envs
  <1>3. Cardinality(D) <= Cardinality(E) /\ Cardinality(D) \in Nat /\ Cardinality(E) \in Nat
    BY <1>2, SetNames, FS_Subset
  <1>4. Cardinality(E) <= Capacity
    BY DEF Envs
  <1>5. Cardinality(D) <= Capacity
    BY <1>3, <1>4, NamesAssumption
  <1> QED
    BY <1>1, <1>5 DEF Envs

\* So does setting one that fits.
LEMMA SetInEnvs ==
  ASSUME NEW e \in Envs, NEW n \in Names, NEW v \in Values,
         Cardinality({m \in Names \ {n} : e[m] # Unset}) < Capacity
  PROVE  [e EXCEPT ![n] = v] \in Envs
  <1> DEFINE d == [e EXCEPT ![n] = v]
             D == {m \in Names : d[m] # Unset}
             E == {m \in Names \ {n} : e[m] # Unset}
  <1>1. d \in [Names -> Values \cup {Unset}]
    BY DEF Envs
  <1>2. D = E \cup {n} /\ n \notin E
    BY NamesAssumption DEF Envs
  <1>3. IsFiniteSet(E) /\ Cardinality(E) \in Nat
    BY SetNames
  <1>4. Cardinality(D) = Cardinality(E) + 1
    BY <1>2, <1>3, FS_AddElement
  <1>5. Cardinality(D) <= Capacity
    BY <1>3, <1>4, NamesAssumption
  <1> QED
    BY <1>1, <1>5 DEF Envs

-----------------------------------------------------------------------------
(* Type correctness. *)

\* The initial states have the right types.
LEMMA InitType == Init => TypeOK
  <1> SUFFICES ASSUME Init PROVE TypeOK
    OBVIOUS
  <1>1. flash \in [Copies -> [Piece -> PieceState]]
    <2>1. [j \in Piece |-> Blank] \in [Piece -> PieceState]
      BY DEF Blank, Flags, PieceState
    <2>2. ASSUME NEW f \in IF scheme = "boolean" THEN {1, 255} ELSE FirstFlags
          PROVE  /\ f \in Flags
                 /\ (IF scheme = "boolean" THEN 0 ELSE (f + 255) % 256) \in Flags
      BY SchemesAssumption DEF Flags
    <2>3. CASE flash = [d \in Copies |-> [j \in Piece |-> Blank]]
      BY <2>1, <2>3
    <2>4. ASSUME NEW c \in Copies, NEW e \in Envs, NEW f \in Flags,
                 NEW other \in [Piece -> PieceState],
                 flash = [d \in Copies |-> IF d = c THEN Image(e, f) ELSE other]
          PROVE  flash \in [Copies -> [Piece -> PieceState]]
      BY <2>4, ImageType
    <2>5. ASSUME NEW f \in IF scheme = "boolean" THEN {1, 255} ELSE FirstFlags
          PROVE  Image(Default, IF scheme = "boolean" THEN 0 ELSE (f + 255) % 256)
                   \in [Piece -> PieceState]
      BY <2>2, EnvsAssumption, ImageType
    <2> QED
      BY <2>1, <2>2, <2>3, <2>4, <2>5 DEF Init, FirstFlash
  <1>2. committed \in Envs \cup {None}
    <2>1. LoaderPick \in Copies
      BY DEF LoaderPick, Pick, Copies
    <2>2. Stored \in Envs
      <3>1. CASE Valid(LoaderPick)
        <4>1. PICK e \in Envs : \A j \in Piece : flash[LoaderPick][j].env = Image(e, 0)[j].env
          BY <3>1 DEF Valid, Intact
        <4>2. 1 \in Piece /\ 0 \in Flags
          BY BoundsAssumption DEF Piece, Flags
        <4>3. flash[LoaderPick][1].env = e
          BY <4>1, <4>2, ImageType
        <4> QED
          BY <3>1, <4>3 DEF Stored, Content
      <3>2. CASE ~Valid(LoaderPick)
        BY <3>2, EnvsAssumption DEF Stored, Content
      <3> QED
        BY <3>1, <3>2
    <2> QED
      BY <2>2 DEF Init
  <1>3. /\ scheme \in Schemes /\ phase = "off" /\ pc = "idle" /\ k \in Piece
        /\ cur \in Copies /\ flag \in Flags /\ saves \in 0..MaxSaves /\ env = None /\ attempted = {}
        /\ aliased = FALSE
    BY BoundsAssumption DEF Init, Piece, Copies, Flags
  <1> QED
    BY <1>1, <1>2, <1>3 DEF TypeOK

\* StartSave keeps the types.
LEMMA StartSaveType ==
  ASSUME TypeOK, NEW e \in Envs, StartSave(e)
  PROVE  TypeOK'
  <1>1. NextFlag \in Flags
    BY DEF TypeOK, NextFlag, Flags
  <1>2. saves + 1 \in 0..MaxSaves
    BY BoundsAssumption DEF TypeOK, StartSave
  <1>3. 1 \in Piece
    BY BoundsAssumption DEF Piece
  <1> QED
    BY <1>1, <1>2, <1>3, EnvsAssumption DEF TypeOK, StartSave

\* EndSave keeps the types.
LEMMA EndSaveType ==
  ASSUME TypeOK, NEW c \in Copies, EndSave(c),
         flash' \in [Copies -> [Piece -> PieceState]],
         committed' \in Envs \cup {None}, attempted' \in SUBSET Envs
  PROVE  TypeOK'
  <1>1. 1 \in Piece /\ 0 \in Copies /\ 0 \in Flags
    BY BoundsAssumption DEF Piece, Copies, Flags
  <1>2. cur' \in Copies /\ flag' \in Flags /\ k' \in Piece
    BY <1>1 DEF TypeOK, EndSave
  <1> QED
    BY <1>2 DEF TypeOK, EndSave

\* ErasePiece keeps the types.
LEMMA ErasePieceType ==
  ASSUME TypeOK, ErasePiece
  PROVE  TypeOK'
  <1>1. Blank \in PieceState
    BY DEF Blank, Flags, PieceState
  <1>2. flash' \in [Copies -> [Piece -> PieceState]]
    BY <1>1, TargetType DEF TypeOK, ErasePiece
  <1>3. k' \in Piece
    BY BoundsAssumption DEF TypeOK, ErasePiece, Piece
  <1>4. pc' \in {"erase", "write"} /\ pc # "idle"
    BY DEF ErasePiece
  <1> QED
    BY <1>2, <1>3, <1>4 DEF TypeOK, ErasePiece

\* WritePiece keeps the types.
LEMMA WritePieceType ==
  ASSUME TypeOK, WritePiece
  PROVE  TypeOK'
  <1>1. env \in Envs
    BY DEF TypeOK, WritePiece
  <1>2. Image(env, flag) \in [Piece -> PieceState]
    BY <1>1, ImageType DEF TypeOK
  <1>3. flash' \in [Copies -> [Piece -> PieceState]]
    BY <1>2, TargetType DEF TypeOK, WritePiece
  <1>4. CASE k < Pieces /\ k' = k + 1 /\ pc' \in {"write", "erase"}
             /\ UNCHANGED <<scheme, phase, cur, env, flag, saves, committed, attempted, aliased>>
    BY <1>1, <1>3, <1>4, EnvsAssumption, BoundsAssumption DEF TypeOK, Piece
  <1>5. CASE pc' = "mark"
             /\ UNCHANGED <<scheme, phase, k, cur, env, flag, saves, committed, attempted, aliased>>
    BY <1>1, <1>3, <1>5, EnvsAssumption DEF TypeOK
  <1>6. CASE committed' = env /\ attempted' = {} /\ EndSave(Target)
    BY <1>1, <1>3, <1>6, EndSaveType, TargetType
  <1> QED
    BY <1>4, <1>5, <1>6 DEF WritePiece

\* FlagObsolete keeps the types.
LEMMA FlagObsoleteType ==
  ASSUME TypeOK, FlagObsolete
  PROVE  TypeOK'
  <1>1. env \in Envs
    BY DEF TypeOK, FlagObsolete
  <1>2. cur \in Copies /\ attempted \in SUBSET Envs /\ committed \in Envs \cup {None} /\ 0 \in Flags
    BY DEF TypeOK, Flags
  <1>3. flash' \in [Copies -> [Piece -> PieceState]]
    BY <1>2, FlagType DEF TypeOK, FlagObsolete
  <1>4. CASE committed' = env /\ attempted' = {} /\ EndSave(Target)
    BY <1>1, <1>3, <1>4, EndSaveType, TargetType
  <1>5. CASE UNCHANGED <<committed, attempted>> /\ EndSave(cur)
    BY <1>2, <1>3, <1>5, EndSaveType
  <1> QED
    BY <1>4, <1>5 DEF FlagObsolete

\* Putting a flag right keeps the types.
LEMMA RepairType ==
  ASSUME TypeOK, Demote \/ Promote
  PROVE  TypeOK'
  <1>1. cur \in Copies /\ 1 - cur \in Copies /\ 0 \in Flags /\ 1 \in Flags
    BY DEF TypeOK, Copies, Flags
  <1>2. flash' \in [Copies -> [Piece -> PieceState]]
    <2>1. flash \in [Copies -> [Piece -> PieceState]]
      BY DEF TypeOK
    <2>2. \/ flash' = flash
          \/ flash' = [flash EXCEPT ![1 - cur][1].flag = 0]
          \/ flash' = [flash EXCEPT ![cur][1].flag = 1]
      BY DEF Demote, Promote, Mark
    <2>3. /\ [flash EXCEPT ![1 - cur][1].flag = 0] \in [Copies -> [Piece -> PieceState]]
          /\ [flash EXCEPT ![cur][1].flag = 1] \in [Copies -> [Piece -> PieceState]]
      BY <1>1, FlagType
    <2> QED
      BY <2>1, <2>2, <2>3
  <1>3. /\ pc' \in {"promote", "idle"}
        /\ UNCHANGED <<scheme, phase, k, cur, env, flag, saves, committed, attempted, aliased>>
    BY DEF Demote, Promote
  <1> QED
    BY <1>2, <1>3 DEF TypeOK

\* ToolEdit keeps the types.
LEMMA ToolEditType ==
  ASSUME TypeOK, NEW n \in Names, NEW v \in Values \cup {Unset}, NEW alias \in BOOLEAN,
         ToolEdit(n, v, alias)
  PROVE  TypeOK'
  <1>1. env \in Envs
    BY DEF TypeOK, ToolEdit
  <1>2. env' \in Envs
    BY <1>1, UnsetInEnvs, SetInEnvs DEF ToolEdit, Fits
  <1>3. pc' \in {"edit", "close"} /\ aliased' \in BOOLEAN
    BY DEF ToolEdit, TypeOK
  <1>4. UNCHANGED <<scheme, flash, phase, k, cur, flag, saves, committed, attempted>>
    BY DEF ToolEdit
  <1> QED
    BY <1>2, <1>3, <1>4, EnvsAssumption DEF TypeOK

\* Every step keeps the types.
LEMMA NextType ==
  ASSUME TypeOK, [Next]_vars
  PROVE  TypeOK'
  <1>1. CASE LoaderStart
    <2>1. Stored \in Envs /\ LoaderPick \in Copies
      BY Picks, ContentType DEF Stored
    <2>2. Flag(LoaderPick) \in Flags /\ 0 \in Flags
      <3>1. 0 \in Flags
        BY DEF Flags
      <3> QED
        BY <2>1, <3>1, FlagType
    <2>3. cur' \in Copies /\ flag' \in Flags /\ committed' \in Envs \cup {None} /\ attempted' = {}
      BY <1>1, <2>1, <2>2 DEF LoaderStart
    <2>4. /\ phase' = "loader" /\ pc' \in {"demote", "idle"} /\ aliased' = FALSE
          /\ UNCHANGED <<scheme, flash, k, env, saves>>
      BY <1>1 DEF LoaderStart
    <2> QED
      BY <2>3, <2>4 DEF TypeOK
  <1>2. CASE LoaderSave
    BY <1>2, StartSaveType DEF LoaderSave
  <1>3. CASE Boot
    BY <1>3 DEF TypeOK, Boot, Copies, Flags
  <1>4. CASE PowerLoss
    BY <1>4, BoundsAssumption DEF TypeOK, PowerLoss, Copies, Flags, Piece
  <1>5. CASE ToolOpen
    <2>1. Content(ToolPick) \in Envs /\ ToolPick \in Copies
      BY Picks, ContentType
    <2>2. Flag(ToolPick) \in Flags /\ 0 \in Flags
      <3>1. 0 \in Flags
        BY DEF Flags
      <3> QED
        BY <2>1, <3>1, FlagType
    <2>3. cur' \in Copies /\ flag' \in Flags /\ env' \in Envs /\ pc' = "edit"
      BY <1>5, <2>1, <2>2 DEF ToolOpen
    <2>4. UNCHANGED <<scheme, flash, phase, k, saves, committed, attempted, aliased>>
      BY <1>5 DEF ToolOpen
    <2> QED
      BY <2>3, <2>4, EnvsAssumption DEF TypeOK
  <1>6. CASE \E n \in Names, v \in Values \cup {Unset}, alias \in BOOLEAN : ToolEdit(n, v, alias)
    BY <1>6, ToolEditType
  <1>7. CASE ToolClose
    <2>1. env \in Envs
      BY <1>7 DEF TypeOK, ToolClose
    <2> QED
      BY <1>7, <2>1, StartSaveType DEF ToolClose
  <1>8. CASE ErasePiece
    BY <1>8, ErasePieceType
  <1>9. CASE WritePiece
    BY <1>9, WritePieceType
  <1>10. CASE FlagObsolete
    BY <1>10, FlagObsoleteType
  <1>11. CASE Fail
    <2>1. /\ flash' \in [Copies -> [Piece -> PieceState]]
          /\ committed' \in Envs \cup {None} /\ attempted' \in SUBSET Envs /\ cur \in Copies
      BY <1>11 DEF TypeOK, Fail
    <2> QED
      BY <1>11, <2>1, EndSaveType DEF Fail
  <1>12. CASE Demote \/ Promote
    BY <1>12, RepairType
  <1>13. CASE UNCHANGED vars
    BY <1>13 DEF TypeOK, vars
  <1> QED
    BY <1>1, <1>2, <1>3, <1>4, <1>5, <1>6, <1>7, <1>8, <1>9, <1>10, <1>11, <1>12, <1>13 DEF Next

\* Whatever is set, saved, interrupted or fails, the variables keep their types:
\* in particular an environment never outgrows its area, and a save's place in
\* the image never leaves it.
THEOREM TypeCorrect == Spec => []TypeOK
  BY InitType, NextType, PTL DEF Spec

-----------------------------------------------------------------------------
(* A valid copy at every moment. *)

\* The initial states satisfy the invariant.
LEMMA InitIInv == Init => IInv
  <1> SUFFICES ASSUME Init PROVE IInv
    OBVIOUS
  <1>1. TypeOK
    BY InitType
  <1>2. SomeCopyValid
    BY DEF Init, SomeCopyValid
  <1>3. pc = "idle" /\ phase = "off"
    BY DEF Init
  <1>4. Backed
    BY <1>3 DEF Backed, Written
  <1> QED
    BY <1>1, <1>2, <1>4 DEF IInv

\* When the save begins no piece is written.
LEMMA StartSaveBacked ==
  ASSUME IInv, NEW e \in Envs, StartSave(e),
         Redundant /\ committed # None => Valid(cur), phase # "off"
  PROVE  SomeCopyValid' /\ Backed'
  <1>1. UNCHANGED <<scheme, flash, phase, cur>> /\ pc' = "erase" /\ k' = 1
    BY DEF StartSave
  <1>2. Redundant' = Redundant
    BY <1>1 DEF Redundant
  <1>3. Redundant /\ committed' # None => Valid(cur)'
    BY <1>1 DEF StartSave, Valid
  <1>4. \A j \in Piece : ~Written(j)'
    BY <1>1 DEF Written, Piece
  <1>5. cur \in {0, 1}
    BY DEF IInv, TypeOK, Copies
  <1>6. SomeCopyValid'
    BY <1>1, <1>2, <1>3, <1>5 DEF SomeCopyValid
  <1>7. Backed'
    BY <1>1, <1>2, <1>3, <1>4 DEF Backed
  <1> QED
    BY <1>6, <1>7

\* When a save ends, what matters is that the copy then in use is valid.
LEMMA EndSaveBacked ==
  ASSUME IInv, NEW c \in Copies, EndSave(c), phase # "off",
         Redundant /\ committed' # None => Intact(flash'[c])
  PROVE  SomeCopyValid' /\ Backed'
  <1>1. UNCHANGED <<scheme, phase>> /\ pc' = "idle"
    BY DEF EndSave
  <1>2. Redundant' = Redundant
    BY <1>1 DEF Redundant
  <1>3. \A j \in Piece : ~Written(j)'
    BY <1>1 DEF Written
  <1>4. SomeCopyValid'
    BY <1>2 DEF SomeCopyValid, Copies, Valid
  <1>5. phase' = "loader" => cur' = c
    BY <1>1 DEF EndSave
  <1>6. Backed'
    <2>1. CASE phase' = "loader"
      BY <1>1, <1>2, <1>3, <1>5, <2>1 DEF Backed, Valid
    <2>2. CASE phase' # "loader"
      BY <1>1, <1>2, <1>3, <2>2 DEF Backed
    <2> QED
      BY <2>1, <2>2
  <1> QED
    BY <1>4, <1>6

\* ErasePiece keeps a valid copy and what Backed says of the save.
LEMMA ErasePieceBacked ==
  ASSUME IInv, ErasePiece
  PROVE  SomeCopyValid' /\ Backed'
  <1>1. /\ UNCHANGED <<scheme, phase, cur, env, committed>> /\ pc = "erase"
        /\ pc' \in {"erase", "write"} /\ phase # "off"
    BY DEF ErasePiece, IInv, Backed
  <1>2. Redundant' = Redundant /\ WholeErase' = WholeErase /\ Target' = Target
    BY <1>1 DEF Redundant, WholeErase, Target
  <1>3. cur \in Copies /\ Target \in Copies /\ (Redundant => Target # cur)
    BY TargetType DEF IInv, TypeOK
  <1>4. \A c \in Copies, j \in Piece : c # Target \/ j # k => flash'[c][j] = flash[c][j]
    BY <1>3 DEF ErasePiece, IInv, TypeOK
  <1>5. Redundant /\ committed # None => Intact(flash'[cur])
    <2> SUFFICES ASSUME Redundant, committed # None PROVE Intact(flash'[cur])
      OBVIOUS
    <2>1. Intact(flash[cur])
      BY <1>1 DEF IInv, Backed, Valid
    <2> QED
      BY <1>3, <1>4, <2>1, IntactKept
  <1>6. ASSUME NEW j \in Piece, Written(j)'
        PROVE  flash'[Target][j].env = Image(env, 0)[j].env
    <2>1. ~WholeErase /\ k' = k /\ j < k
      <3>1. CASE WholeErase
        <4>1. pc' = "write" => k' = 1
          BY <3>1 DEF ErasePiece, IInv, TypeOK, Piece
        <4> QED
          BY <1>1, <1>2, <1>6, <3>1, <4>1 DEF Written, Piece
      <3>2. CASE ~WholeErase
        BY <1>1, <1>6, <3>2 DEF ErasePiece, Written
      <3> QED
        BY <3>1, <3>2
    <2>2. Written(j) /\ j # k
      BY <1>1, <2>1 DEF Written, IInv, TypeOK, Piece
    <2>3. flash[Target][j].env = Image(env, 0)[j].env
      BY <2>2 DEF IInv, Backed
    <2> QED
      BY <1>3, <1>4, <2>2, <2>3
  <1>7. Image(env, 0)' = Image(env, 0)
    BY <1>1 DEF Image, Piece
  <1>8. SomeCopyValid'
    BY <1>1, <1>2, <1>3, <1>5 DEF SomeCopyValid, Copies, Valid
  <1>9. Backed'
    BY <1>1, <1>2, <1>5, <1>6, <1>7 DEF Backed, Piece, Valid
  <1> QED
    BY <1>8, <1>9

\* WritePiece keeps a valid copy and what Backed says of the save.
LEMMA WritePieceBacked ==
  ASSUME IInv, WritePiece
  PROVE  SomeCopyValid' /\ Backed'
  <1>1. UNCHANGED <<scheme, phase>> /\ pc = "write" /\ phase # "off"
    BY DEF WritePiece, EndSave, IInv, Backed
  <1>2. Redundant' = Redundant /\ WholeErase' = WholeErase
    BY <1>1 DEF Redundant, WholeErase
  <1>3. /\ cur \in Copies /\ Target \in Copies /\ (Redundant => Target # cur)
        /\ env \in Envs /\ flag \in Flags /\ k \in Piece
    BY <1>1, TargetType DEF IInv, TypeOK
  <1>4. \A c \in Copies, j \in Piece : c # Target \/ j # k => flash'[c][j] = flash[c][j]
    BY <1>3 DEF WritePiece, IInv, TypeOK
  <1>5. flash'[Target][k].env = Image(env, 0)[k].env
    BY <1>3, ImageType DEF WritePiece, IInv, TypeOK
  <1>6. ASSUME NEW j \in Piece, j <= k
        PROVE  flash'[Target][j].env = Image(env, 0)[j].env
    <2>1. CASE j = k
      BY <1>5, <2>1
    <2>2. CASE j < k
      <3>1. flash[Target][j].env = Image(env, 0)[j].env
        BY <1>1, <2>2 DEF Written, IInv, Backed
      <3> QED
        BY <1>3, <1>4, <2>2, <3>1 DEF Piece
    <2> QED
      BY <1>3, <1>6, <2>1, <2>2 DEF Piece
  <1>7. Redundant /\ committed # None => Intact(flash'[cur])
    <2> SUFFICES ASSUME Redundant, committed # None PROVE Intact(flash'[cur])
      OBVIOUS
    <2>1. Intact(flash[cur])
      BY <1>1 DEF IInv, Backed, Valid
    <2> QED
      BY <1>3, <1>4, <2>1, IntactKept
  <1>8. k = Pieces => \A j \in Piece : flash'[Target][j].env = Image(env, 0)[j].env
    BY <1>6 DEF Piece
  <1>9. CASE /\ k < Pieces /\ k' = k + 1 /\ pc' \in {"write", "erase"}
             /\ UNCHANGED <<scheme, phase, cur, env, flag, saves, committed, attempted>>
    <2>1. Target' = Target /\ Image(env, 0)' = Image(env, 0)
      BY <1>9 DEF Target, Redundant, Image, Piece
    <2>2. \A j \in Piece : Written(j)' => j <= k
      BY <1>3, <1>9 DEF Written, Piece
    <2>3. SomeCopyValid'
      BY <1>2, <1>3, <1>7, <1>9 DEF SomeCopyValid, Copies, Valid
    <2>4. \A j \in Piece : Written(j)' => flash'[Target][j].env = Image(env, 0)[j].env
      BY <1>6, <2>2
    <2>5. Backed'
      BY <1>1, <1>2, <1>7, <1>9, <2>1, <2>4 DEF Backed, Piece, Valid
    <2> QED
      BY <2>3, <2>5
  <1>10. CASE /\ k = Pieces /\ scheme = "boolean" /\ pc' = "mark"
              /\ UNCHANGED <<scheme, phase, k, cur, env, flag, saves, committed, attempted>>
    <2>1. Target' = Target /\ Image(env, 0)' = Image(env, 0)
      BY <1>10 DEF Target, Redundant, Image, Piece
    <2>2. Redundant
      BY <1>10 DEF Redundant
    <2>3. SomeCopyValid'
      BY <1>2, <1>3, <1>7, <1>10 DEF SomeCopyValid, Copies, Valid
    <2>4. Backed'
      BY <1>1, <1>2, <1>7, <1>8, <1>10, <2>1, <2>2 DEF Backed, Piece, Valid
    <2> QED
      BY <2>3, <2>4
  <1>11. CASE k = Pieces /\ committed' = env /\ EndSave(Target)
    <2>1. Intact(flash'[Target])
      BY <1>3, <1>8, <1>11, IntactWritten
    <2> QED
      BY <1>1, <1>3, <1>11, <2>1, EndSaveBacked
  <1> QED
    BY <1>9, <1>10, <1>11 DEF WritePiece

\* FlagObsolete keeps a valid copy and what Backed says of the save.
LEMMA FlagObsoleteBacked ==
  ASSUME IInv, FlagObsolete
  PROVE  SomeCopyValid' /\ Backed'
  <1>1. pc = "mark" /\ phase # "off" /\ env \in Envs /\ Target \in Copies /\ cur \in Copies
    BY TargetType DEF FlagObsolete, IInv, Backed, TypeOK
  <1>2. \A j \in Piece : flash'[Target][j].env = flash[Target][j].env
    <2>1. CASE flash' = flash
      BY <2>1
    <2>2. CASE flash' = [flash EXCEPT ![cur][1].flag = 0]
      <3>1. \A j \in Piece : flash[Target][j] \in PieceState
        BY <1>1 DEF IInv, TypeOK
      <3> QED
        BY <1>1, <2>2, <3>1 DEF IInv, TypeOK, PieceState
    <2> QED
      BY <2>1, <2>2 DEF FlagObsolete
  <1>3. \A j \in Piece : flash[Target][j].env = Image(env, 0)[j].env
    BY <1>1 DEF Written, IInv, Backed
  <1>4. Intact(flash'[Target])
    BY <1>1, <1>2, <1>3, IntactWritten
  <1>5. CASE EndSave(Target)
    BY <1>1, <1>4, <1>5, EndSaveBacked
  <1>6. CASE EndSave(cur) /\ UNCHANGED <<flash, committed>>
    <2>1. Redundant /\ committed' # None => Intact(flash'[cur])
      BY <1>1, <1>6 DEF IInv, Backed, Valid
    <2> QED
      BY <1>1, <1>6, <2>1, EndSaveBacked
  <1> QED
    BY <1>5, <1>6 DEF FlagObsolete

\* Putting a flag right changes no environment.
LEMMA RepairEnv ==
  ASSUME IInv, Demote \/ Promote
  PROVE  \A c \in Copies, j \in Piece : flash'[c][j].env = flash[c][j].env
  <1>1. \A c \in Copies, j \in Piece : flash[c][j] \in PieceState
    BY DEF IInv, TypeOK
  <1>2. cur \in Copies /\ 1 - cur \in Copies
    BY DEF IInv, TypeOK, Copies
  <1>3. ASSUME NEW d \in Copies, NEW f \in {0, 1}, flash' = [flash EXCEPT ![d][1].flag = f]
        PROVE  \A c \in Copies, j \in Piece : flash'[c][j].env = flash[c][j].env
    BY <1>1, <1>3 DEF IInv, TypeOK, PieceState
  <1>4. \/ flash' = flash
        \/ flash' = [flash EXCEPT ![1 - cur][1].flag = 0]
        \/ flash' = [flash EXCEPT ![cur][1].flag = 1]
    BY DEF Demote, Promote, Mark
  <1> QED
    BY <1>2, <1>3, <1>4

\* Putting a flag right keeps the copies valid.
LEMMA RepairBacked ==
  ASSUME IInv, Demote \/ Promote
  PROVE  SomeCopyValid' /\ Backed'
  <1>1. /\ phase = "loader" /\ pc' \in {"promote", "idle"}
        /\ UNCHANGED <<scheme, phase, cur, committed>> /\ cur \in Copies /\ 1 - cur \in Copies
    BY DEF Demote, Promote, IInv, Backed, TypeOK, Copies
  <1>2. \A c \in Copies, j \in Piece : flash'[c][j].env = flash[c][j].env
    BY RepairEnv
  <1>3. \A c \in Copies : Valid(c) => Valid(c)'
    BY <1>2, IntactKept DEF Valid
  <1>4. Redundant' = Redundant /\ \A j \in Piece : ~Written(j)'
    BY <1>1 DEF Redundant, Written
  <1>5. Redundant /\ committed # None => Valid(cur)
    BY <1>1 DEF IInv, Backed
  <1>6. Redundant /\ committed # None => Valid(cur)'
    BY <1>1, <1>3, <1>5 DEF Valid
  <1>7. SomeCopyValid'
    BY <1>1, <1>4, <1>6 DEF SomeCopyValid, Valid, Copies
  <1>8. Backed'
    BY <1>1, <1>4, <1>6 DEF Backed, Valid
  <1> QED
    BY <1>7, <1>8

\* Fail keeps a valid copy and what Backed says of the save.
LEMMA FailBacked ==
  ASSUME IInv, Fail
  PROVE  SomeCopyValid' /\ Backed'
  <1>1. pc \in {"erase", "write"} /\ phase # "off" /\ cur \in Copies /\ UNCHANGED <<flash, committed>>
    BY DEF Fail, IInv, Backed, TypeOK
  <1>2. Redundant /\ committed # None => Valid(cur)
    BY <1>1 DEF IInv, Backed
  <1>3. Redundant /\ committed' # None => Intact(flash'[cur])
    BY <1>1, <1>2 DEF Valid
  <1> QED
    BY <1>1, <1>3, EndSaveBacked DEF Fail

\* Reading the flash picks a valid copy, if there is one.
LEMMA LoaderStartBacked ==
  ASSUME IInv, LoaderStart
  PROVE  SomeCopyValid' /\ Backed'
  <1>1. /\ UNCHANGED <<scheme, flash>> /\ phase = "off" /\ phase' = "loader"
        /\ pc' \in {"demote", "idle"} /\ cur' = LoaderPick /\ committed' = (IF Valid(LoaderPick) THEN Stored ELSE None)
    BY DEF LoaderStart, IInv, Backed
  <1>2. LoaderPick \in {0, 1}
    BY Picks DEF IInv, Copies
  <1>3. committed' # None => Intact(flash'[cur'])
    BY <1>1 DEF Valid
  <1>4. SomeCopyValid'
    BY <1>1, <1>2, <1>3 DEF SomeCopyValid, Valid
  <1>5. Backed'
    BY <1>1, <1>3 DEF Backed, Written, Valid
  <1> QED
    BY <1>4, <1>5

\* ToolOpen keeps a valid copy and what Backed says of the save.
LEMMA ToolOpenBacked ==
  ASSUME IInv, ToolOpen
  PROVE  SomeCopyValid' /\ Backed'
  <1>1. /\ UNCHANGED <<scheme, flash, phase, committed>> /\ phase = "os" /\ pc' = "edit"
        /\ cur' = ToolPick
    BY DEF ToolOpen
  <1>2. Redundant' = Redundant
    BY <1>1 DEF Redundant
  <1>3. Redundant /\ committed # None => Valid(0) \/ Valid(1)
    BY DEF IInv, SomeCopyValid
  <1>4. Redundant /\ committed # None => Intact(flash'[cur'])
    BY <1>1, <1>3, Picks DEF IInv, Valid
  <1>5. SomeCopyValid'
    BY <1>1, <1>2, <1>3 DEF SomeCopyValid, Valid
  <1>6. Backed'
    BY <1>1, <1>2, <1>4 DEF Backed, Written, Valid
  <1> QED
    BY <1>5, <1>6

\* Every step preserves the invariant.
LEMMA NextIInv ==
  ASSUME IInv, [Next]_vars
  PROVE  IInv'
  <1>1. TypeOK'
    BY NextType DEF IInv
  <1>2. CASE LoaderStart
    BY <1>1, <1>2, LoaderStartBacked DEF IInv
  <1>3. CASE LoaderSave
    <2>1. Redundant /\ committed # None => Valid(cur)
      BY <1>3 DEF LoaderSave, IInv, Backed
    <2> QED
      BY <1>1, <1>3, <2>1, StartSaveBacked DEF LoaderSave, IInv
  <1>4. CASE Boot
    <2>1. UNCHANGED <<scheme, flash, pc, committed>> /\ phase' = "os" /\ pc = "idle"
      BY <1>4 DEF Boot
    <2>2. SomeCopyValid'
      BY <2>1 DEF IInv, SomeCopyValid, Redundant, Valid
    <2>3. Backed'
      BY <2>1 DEF Backed, Written
    <2> QED
      BY <1>1, <2>2, <2>3 DEF IInv
  <1>5. CASE PowerLoss
    <2>1. UNCHANGED <<scheme, flash, committed>> /\ phase' = "off" /\ pc' = "idle"
      BY <1>5 DEF PowerLoss
    <2>2. SomeCopyValid'
      BY <2>1 DEF IInv, SomeCopyValid, Redundant, Valid
    <2>3. Backed'
      BY <2>1 DEF Backed, Written
    <2> QED
      BY <1>1, <2>2, <2>3 DEF IInv
  <1>6. CASE ToolOpen
    BY <1>1, <1>6, ToolOpenBacked DEF IInv
  <1>7. CASE \E n \in Names, v \in Values \cup {Unset}, alias \in BOOLEAN : ToolEdit(n, v, alias)
    <2>1. /\ UNCHANGED <<scheme, flash, phase, cur, committed>>
          /\ pc = "edit" /\ pc' \in {"edit", "close"}
      BY <1>7 DEF ToolEdit
    <2>2. SomeCopyValid'
      BY <2>1 DEF IInv, SomeCopyValid, Redundant, Valid
    <2>3. Backed'
      BY <2>1 DEF IInv, Backed, Written, Redundant, Valid
    <2> QED
      BY <1>1, <2>2, <2>3 DEF IInv
  <1>8. CASE ToolClose
    <2>1. env \in Envs /\ phase # "off" /\ (Redundant /\ committed # None => Valid(cur))
      BY <1>8 DEF ToolClose, IInv, TypeOK, Backed
    <2> QED
      BY <1>1, <1>8, <2>1, StartSaveBacked DEF ToolClose, IInv
  <1>9. CASE ErasePiece
    BY <1>1, <1>9, ErasePieceBacked DEF IInv
  <1>10. CASE WritePiece
    BY <1>1, <1>10, WritePieceBacked DEF IInv
  <1>11. CASE FlagObsolete
    BY <1>1, <1>11, FlagObsoleteBacked DEF IInv
  <1>12. CASE Fail
    BY <1>1, <1>12, FailBacked DEF IInv
  <1>13. CASE Demote \/ Promote
    BY <1>1, <1>13, RepairBacked DEF IInv
  <1>14. CASE UNCHANGED vars
    <2>1. SomeCopyValid'
      BY <1>14 DEF vars, IInv, SomeCopyValid, Redundant, Valid
    <2>2. Backed'
      BY <1>14 DEF vars, IInv, Backed, Written, WholeErase, Target, Redundant, Valid, Image, Piece
    <2> QED
      BY <1>1, <2>1, <2>2 DEF IInv
  <1> QED
    BY <1>2, <1>3, <1>4, <1>5, <1>6, <1>7, <1>8, <1>9, <1>10, <1>11, <1>12, <1>13, <1>14 DEF Next

\* The invariant behind the two properties holds in every reachable state.
THEOREM Invariant == Spec => []IInv
  BY InitIInv, NextIInv, PTL DEF Spec

\* With two copies, once one was good, one is at every moment: whatever the
\* serial numbers, the faults and the moments at which power is lost.
THEOREM BackupKept == Spec => []SomeCopyValid
  <1>1. IInv => SomeCopyValid
    BY DEF IInv
  <1> QED
    BY <1>1, Invariant, PTL

=============================================================================
