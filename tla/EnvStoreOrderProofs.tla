------------------------- MODULE EnvStoreOrderProofs -------------------------
(***************************************************************************)
(* Proofs about EnvStore while its serial numbers do not wrap: the tool    *)
(* and the loader read the same copy, and, if a copy can always be marked  *)
(* obsolete, the next boot reads what was saved last and a serial# or      *)
(* ethaddr is never lost.  Any variables and values, any number of erase   *)
(* blocks, any moments of failure.                                         *)
(***************************************************************************)
EXTENDS EnvStoreProofs

\* No save of the run reaches the serial number that is also the erased one.
SerialsLast ==
  /\ MaxSaves < 255
  /\ \A f \in FirstFlags : f >= 1 /\ f + MaxSaves < 255

Saving == pc \in {"erase", "write", "mark"}

\* The saves that are left keep below 255 from here.
HasRoom(f) == f + (MaxSaves - saves) < 255

\* Serial numbers, of copies whose writing began and in RAM, are below 255.
RoomInv == scheme = "incremental" =>
  /\ pc \notin {"mark", "demote", "promote"}
  /\ \A c \in Copies : flash[c][1] = Blank \/ HasRoom(Flag(c))
  /\ phase = "loader" \/ Saving => HasRoom(flag)
  /\ pc \in {"edit", "close"} => flag = 255 \/ HasRoom(flag)

-----------------------------------------------------------------------------
(* Serial numbers do not wrap. *)

\* Numbers that have room are proper ones.
LEMMA RoomBelow ==
  ASSUME TypeOK, NEW f \in Flags, HasRoom(f)
  PROVE  f \in 0..254
  BY BoundsAssumption DEF TypeOK, HasRoom, Flags

\* A valid copy is not blank.
LEMMA IntactNotBlank ==
  ASSUME NEW image, Intact(image)
  PROVE  image[1].env \in Envs /\ image[1] # Blank
  <1>1. PICK e \in Envs : \A j \in Piece : image[j].env = Image(e, 0)[j].env
    BY DEF Intact
  <1>2. 1 \in Piece /\ 0 \in Flags
    BY BoundsAssumption DEF Piece, Flags
  <1>3. image[1].env = e
    BY <1>1, <1>2, ImageType
  <1> QED
    BY <1>3, EnvsAssumption DEF Blank

\* The flash as it is found has room for all the saves.
LEMMA InitRoom ==
  ASSUME SerialsLast, Init
  PROVE  RoomInv
  <1> SUFFICES ASSUME scheme = "incremental"
               PROVE  \A c \in Copies : flash[c][1] = Blank \/ HasRoom(Flag(c))
    BY DEF Init, RoomInv, Saving
  <1>1. 1 \in Piece /\ saves = 0
    BY BoundsAssumption DEF Piece, Init
  <1>2. ASSUME NEW e, NEW f \in Flags, f + MaxSaves < 255, NEW c \in Copies, flash[c] = Image(e, f)
        PROVE  HasRoom(Flag(c))
    BY <1>1, <1>2, BoundsAssumption DEF Image, Flag, HasRoom, Flags
  <1>3. CASE flash = [d \in Copies |-> [j \in Piece |-> Blank]]
    BY <1>1, <1>3
  <1>4. ASSUME NEW c \in Copies, NEW e \in Envs, NEW f \in FirstFlags,
               NEW other \in {[j \in Piece |-> Blank], Image(Default, (f + 255) % 256)},
               flash = [d \in Copies |-> IF d = c THEN Image(e, f) ELSE other]
        PROVE  \A d \in Copies : flash[d][1] = Blank \/ HasRoom(Flag(d))
    <2>1. f \in 1..254 /\ f + MaxSaves < 255
      BY SchemesAssumption, BoundsAssumption DEF SerialsLast, Flags
    <2>2. (f + 255) % 256 = f - 1
      BY <2>1
    <2>3. f \in Flags /\ f - 1 \in Flags /\ (f - 1) + MaxSaves < 255
      BY <2>1, BoundsAssumption DEF Flags
    <2>4. ASSUME NEW d \in Copies
          PROVE  flash[d][1] = Blank \/ HasRoom(Flag(d))
      <3>1. CASE d = c
        BY <1>2, <1>4, <2>1, <2>3, <3>1
      <3>2. CASE d # c /\ other = Image(Default, f - 1)
        BY <1>2, <1>4, <2>3, <3>2
      <3>3. CASE d # c /\ other = [j \in Piece |-> Blank]
        BY <1>1, <1>4, <3>3
      <3> QED
        BY <2>2, <3>1, <3>2, <3>3
    <2> QED
      BY <2>4
  <1> QED
    BY <1>3, <1>4 DEF Init, FirstFlash

\* A save that begins takes a proper number.
LEMMA StartSaveRoom ==
  ASSUME SerialsLast, TypeOK, RoomInv, NEW e, StartSave(e),
         phase = "loader" \/ pc \in {"edit", "close"}
  PROVE  RoomInv'
  <1> SUFFICES ASSUME scheme = "incremental" PROVE RoomInv'
    BY DEF StartSave, RoomInv
  <1>1. /\ saves \in Nat /\ saves' = saves + 1 /\ saves < MaxSaves
        /\ flag' = (flag + 1) % 256 /\ flag \in 0..255 /\ MaxSaves \in 0..254
        /\ pc' = "erase" /\ UNCHANGED <<flash, scheme>>
    BY BoundsAssumption DEF StartSave, NextFlag, TypeOK, Flags, SerialsLast
  <1>2. flag = 255 \/ HasRoom(flag)
    BY DEF RoomInv
  <1>3. HasRoom(flag)'
    <2>1. CASE flag = 255
      <3>1. flag' = 0
        BY <1>1, <2>1
      <3> QED
        BY <1>1, <3>1 DEF HasRoom
    <2>2. CASE HasRoom(flag)
      <3>1. flag < 255
        BY <1>1, <2>2 DEF HasRoom
      <3>2. flag' = flag + 1
        BY <1>1, <3>1
      <3> QED
        BY <1>1, <2>2, <3>2 DEF HasRoom
    <2> QED
      BY <1>2, <2>1, <2>2
  <1>4. ASSUME NEW c \in Copies
        PROVE  flash'[c][1] = Blank \/ HasRoom(Flag(c))'
    <2>1. flash[c][1] = Blank \/ HasRoom(Flag(c))
      BY DEF RoomInv
    <2>2. Flag(c) \in 0..255 /\ Flag(c)' = Flag(c)
      BY <1>1, FlagType DEF Flag, Flags
    <2> QED
      BY <1>1, <2>1, <2>2 DEF HasRoom
  <1> QED
    BY <1>1, <1>3, <1>4 DEF RoomInv, Saving

\* A save that goes on or ends, with what it did to the flash: each copy's
\* number stays, is erased, or becomes the one in RAM.
LEMMA SavingRoom ==
  ASSUME TypeOK, RoomInv, Saving, UNCHANGED <<scheme, phase, saves>>,
         scheme = "incremental" => pc' \notin {"edit", "close", "mark", "demote", "promote"},
         Saving' \/ phase' = "loader" => flag' = flag,
         \A c \in Copies : flash'[c][1] \in {Blank, flash[c][1]} \/ flash'[c][1].flag = flag
  PROVE  RoomInv'
  <1> SUFFICES ASSUME scheme = "incremental" PROVE RoomInv'
    BY DEF RoomInv
  <1>1. HasRoom(flag)
    BY DEF RoomInv
  <1>2. \A c \in Copies : flash[c][1] = Blank \/ HasRoom(Flag(c))
    BY DEF RoomInv
  <1>3. \A c \in Copies : flash'[c][1] = Blank \/ HasRoom(Flag(c))'
    BY <1>1, <1>2 DEF HasRoom, Flag
  <1>4. Saving' \/ phase' = "loader" => HasRoom(flag)'
    BY <1>1 DEF HasRoom
  <1> QED
    BY <1>3, <1>4 DEF RoomInv

\* What a step of a save does to a copy's first piece and to the flag in RAM.
LEMMA SavingSteps ==
  ASSUME TypeOK, RoomInv, scheme = "incremental", ErasePiece \/ WritePiece \/ FlagObsolete \/ Fail
  PROVE  /\ Saving /\ UNCHANGED <<scheme, phase, saves>> /\ pc' \notin {"edit", "close", "mark", "demote", "promote"}
         /\ Saving' \/ phase' = "loader" => flag' = flag
         /\ \A c \in Copies : flash'[c][1] \in {Blank, flash[c][1]} \/ flash'[c][1].flag = flag
  <1>1. Target \in Copies /\ 1 \in Piece /\ flash \in [Copies -> [Piece -> PieceState]] /\ k \in Piece
    BY TargetType, BoundsAssumption DEF TypeOK, Piece
  <1>2. CASE ErasePiece
    BY <1>1, <1>2 DEF ErasePiece, Saving
  <1>3. CASE WritePiece
    <2>1. k = 1 => Image(env, flag)[k].flag = flag
      BY <1>1 DEF Image
    <2>2. \A c \in Copies : flash'[c][1] = flash[c][1] \/ flash'[c][1].flag = flag
      BY <1>1, <1>3, <2>1 DEF WritePiece
    <2> QED
      BY <1>3, <2>2 DEF WritePiece, Saving, EndSave
  <1>4. CASE FlagObsolete
    BY <1>4 DEF FlagObsolete, RoomInv
  <1>5. CASE Fail
    BY <1>5 DEF Fail, Saving, EndSave
  <1> QED
    BY <1>2, <1>3, <1>4, <1>5

\* Every step keeps room for the saves that are left.
LEMMA NextRoom ==
  ASSUME SerialsLast, IInv, RoomInv, [Next]_vars
  PROVE  RoomInv'
  <1> SUFFICES ASSUME scheme = "incremental" PROVE RoomInv'
    <2>1. scheme' = scheme
      BY DEF Next, vars, LoaderStart, Demote, Promote, LoaderSave, StartSave, Boot, PowerLoss, ToolOpen, ToolEdit,
             ToolClose, ErasePiece, WritePiece, FlagObsolete, Fail, EndSave
    <2> QED
      BY <2>1 DEF RoomInv
  <1>1. TypeOK /\ Backed
    BY DEF IInv
  <1>2. 0 \in Flags /\ 0 + (MaxSaves - saves) < 255
    BY <1>1, BoundsAssumption DEF SerialsLast, TypeOK, Flags
  <1>3. CASE LoaderStart
    <2>1. LoaderPick \in Copies /\ pc = "idle"
      BY <1>1, <1>3, Picks DEF LoaderStart, Backed
    <2>2. Valid(LoaderPick) => HasRoom(Flag(LoaderPick))
      BY <2>1, IntactNotBlank DEF RoomInv, Valid
    <2>3. HasRoom(flag')
      BY <1>2, <1>3, <2>2 DEF LoaderStart, HasRoom
    <2>4. pc' = "idle" /\ UNCHANGED <<scheme, flash, saves>>
      BY <1>3, <2>1 DEF LoaderStart
    <2> QED
      BY <2>3, <2>4 DEF RoomInv, HasRoom, Flag, Saving
  <1>4. CASE LoaderSave
    BY <1>1, <1>4, StartSaveRoom DEF LoaderSave
  <1>5. CASE Boot
    BY <1>5 DEF Boot, RoomInv, HasRoom, Flag, Saving
  <1>6. CASE PowerLoss
    BY <1>6 DEF PowerLoss, RoomInv, HasRoom, Flag, Saving
  <1>7. CASE ToolOpen
    <2>1. ToolPick \in Copies
      BY <1>1, Picks
    <2>2. flag' = Flag(ToolPick) /\ phase' = "os" /\ pc' = "edit" /\ UNCHANGED <<scheme, flash, saves>>
      BY <1>7 DEF ToolOpen, Redundant
    <2>3. flash[ToolPick][1] = Blank => Flag(ToolPick) = 255
      BY DEF Blank, Flag
    <2>4. flag' = 255 \/ HasRoom(flag')
      BY <2>1, <2>2, <2>3 DEF RoomInv
    <2> QED
      BY <2>2, <2>4 DEF RoomInv, HasRoom, Flag, Saving
  <1>8. CASE \E n \in Names, v \in Values \cup {Unset}, alias \in BOOLEAN : ToolEdit(n, v, alias)
    <2>1. /\ UNCHANGED <<scheme, flash, phase, flag, saves>>
          /\ pc = "edit" /\ pc' \in {"edit", "close"}
      BY <1>8 DEF ToolEdit
    <2> QED
      BY <2>1 DEF RoomInv, HasRoom, Flag, Saving
  <1>9. CASE ToolClose
    BY <1>1, <1>9, StartSaveRoom DEF ToolClose
  <1>10. CASE ErasePiece \/ WritePiece \/ FlagObsolete \/ Fail
    BY <1>1, <1>10, SavingSteps, SavingRoom
  <1>11. CASE Demote \/ Promote
    BY <1>11 DEF Demote, Promote, RoomInv
  <1>12. CASE UNCHANGED vars
    BY <1>12 DEF vars, RoomInv, HasRoom, Flag, Saving
  <1> QED
    BY <1>3, <1>4, <1>5, <1>6, <1>7, <1>8, <1>9, <1>10, <1>11, <1>12 DEF Next

\* Both programs find the same copy newer, as neither number is 255.
LEMMA RoomAgrees ==
  ASSUME TypeOK, RoomInv
  PROVE  ReadersAgree
  <1>1. CASE ~Redundant \/ ~Valid(0) \/ ~Valid(1)
    BY <1>1 DEF ReadersAgree, ToolPick, LoaderPick, Pick
  <1>2. CASE scheme = "boolean"
    BY <1>2 DEF ReadersAgree, ToolPick, LoaderPick
  <1>3. CASE scheme = "incremental" /\ Valid(0) /\ Valid(1)
    <2>1. \A c \in Copies : Flag(c) \in Flags /\ HasRoom(Flag(c))
      BY <1>3, IntactNotBlank, FlagType DEF RoomInv, Valid, Copies
    <2>2. Flag(0) \in 0..254 /\ Flag(1) \in 0..254
      BY <2>1, RoomBelow DEF Copies
    <2>3. ToolSecondIsNewer(Flag(0), Flag(1)) <=> LoaderSecondIsNewer(Flag(0), Flag(1))
      BY <2>2 DEF ToolSecondIsNewer, LoaderSecondIsNewer
    <2> QED
      BY <1>3, <2>3 DEF ReadersAgree, ToolPick, LoaderPick, Pick
  <1> QED
    BY <1>1, <1>2, <1>3, SchemesAssumption DEF TypeOK, Redundant

\* While no serial number reaches 255, every reachable state keeps room for the
\* numbers of the saves that are left.
THEOREM RoomKept ==
  ASSUME SerialsLast
  PROVE  Spec => [](IInv /\ RoomInv)
  <1>1. Init => IInv /\ RoomInv
    BY InitIInv, InitRoom
  <1>2. (IInv /\ RoomInv) /\ [Next]_vars => (IInv /\ RoomInv)'
    BY NextIInv, NextRoom
  <1> QED
    BY <1>1, <1>2, PTL DEF Spec

\* While no serial number reaches 255, the tool and the loader read the same copy,
\* whatever saves, failures and power losses left in flash.
THEOREM BothReadTheSame ==
  ASSUME SerialsLast
  PROVE  Spec => []ReadersAgree
  <1>1. IInv /\ RoomInv => ReadersAgree
    BY RoomAgrees DEF IInv
  <1> QED
    BY <1>1, RoomKept, PTL

-----------------------------------------------------------------------------
(* The order of the two copies.                                            *)

\* The pieces of the target that are erased and not written yet.
Erased(j) ==
  \/ pc = "erase" /\ WholeErase /\ j < k
  \/ pc = "write" /\ (IF WholeErase THEN j >= k ELSE j = k)

\* How far the save is with its target: what is erased has no environment, and the
\* first piece, once written, has the new flag.
TargetInv ==
  /\ \A j \in Piece : Erased(j) => flash[Target][j].env = None
  /\ Written(1) => flash[Target][1].flag = flag
  /\ pc = "mark" => scheme = "boolean"

\* Serial numbers: valid copies differ, and RAM has one that is newer than the copy
\* in use as soon as the save began.
OrderInv == scheme = "incremental" =>
  /\ Valid(0) /\ Valid(1) => Flag(0) # Flag(1)
  /\ pc \in {"edit", "close"} => flag = Flag(cur)
  /\ phase = "loader" /\ Valid(cur) => flag >= Flag(cur)
  /\ Saving /\ Valid(cur) => flag > Flag(cur)

\* On NOR a save writes an active copy, and the loader puts the flags right of the copy
\* it reads and the other one: once the other is marked, that is obsolete if it is valid.
ActiveInv ==
  /\ scheme = "boolean" /\ Saving => flag = 1
  /\ pc \in {"demote", "promote"} => scheme = "boolean" /\ phase = "loader" /\ Valid(cur)
  /\ pc = "promote" /\ Valid(1 - cur) => Flag(1 - cur) = 0

\* No older than what was saved last: that, or what an interrupted save was to write.
Good(e) == e \in {committed} \cup attempted

\* The copy in use is the one that the next boot would read, until the save makes
\* the other one newer; and it is good as long as the save is under way.
InUseInv ==
  /\ ~Redundant => cur = 0
  /\ \/ pc \in {"edit", "close"}
     \/ phase = "loader" /\ pc \in {"idle", "demote", "promote"}
     \/ pc = "erase" /\ k = 1
     => cur = LoaderPick
  /\ Saving => /\ ~Valid(cur) => cur = 0
               /\ env \in attempted
               /\ Redundant /\ committed # None => Good(Content(cur))
               /\ ~Redundant => committed = None

OrderedInv == TargetInv /\ OrderInv /\ ActiveInv /\ InUseInv /\ CrashSafe

-----------------------------------------------------------------------------
(* Which copy is read, of any flash. *)

\* LoaderPick and Content, of a flash that is given.
Read(s, image) ==
  IF s = "none" \/ ~Intact(image[1]) THEN 0
  ELSE IF \/ ~Intact(image[0])
          \/ IF s = "boolean" THEN SecondIsActive(image[0][1].flag, image[1][1].flag)
                              ELSE LoaderSecondIsNewer(image[0][1].flag, image[1][1].flag)
       THEN 1 ELSE 0
Holds(image) == IF Intact(image) THEN image[1].env ELSE Default

\* They are the same, in a state and in the next one.
LEMMA ReadIsPick ==
  /\ LoaderPick = Read(scheme, flash) /\ LoaderPick' = Read(scheme', flash')
  /\ Stored = Holds(flash[Read(scheme, flash)]) /\ Stored' = Holds(flash'[Read(scheme', flash')])
  BY DEF LoaderPick, Pick, Redundant, Valid, Flag, Read, Stored, Content, Holds

\* The one that is valid is read; copy 0 if none is, or if there is no other.
LEMMA ReadValid ==
  ASSUME NEW s, NEW image
  PROVE  /\ Read(s, image) \in Copies
         /\ s = "none" => Read(s, image) = 0
         /\ ~Intact(image[0]) /\ ~Intact(image[1]) => Read(s, image) = 0
         /\ \A c \in Copies : s # "none" /\ Intact(image[c]) /\ ~Intact(image[1 - c]) => Read(s, image) = c
         /\ s # "none" /\ ~Intact(image[Read(s, image)]) => ~Intact(image[0]) /\ ~Intact(image[1])
  BY DEF Read, Copies

\* Copy 1 is read when it is valid and newer, if neither number is 255.
LEMMA ReadNumbers ==
  ASSUME NEW image,
         Intact(image[0]) => image[0][1].flag \in 0..254,
         Intact(image[1]) => image[1][1].flag \in 0..254
  PROVE  Read("incremental", image) = 1 <=>
           Intact(image[1]) /\ (Intact(image[0]) => image[1][1].flag > image[0][1].flag)
  <1> DEFINE f0 == image[0][1].flag
             f1 == image[1][1].flag
             v0 == Intact(image[0])
             v1 == Intact(image[1])
  <1>1. Read("incremental", image) = 1 <=> v1 /\ (~v0 \/ LoaderSecondIsNewer(f0, f1))
    BY DEF Read
  <1>2. v0 /\ v1 => f0 \in 0..254 /\ f1 \in 0..254
    OBVIOUS
  <1> HIDE DEF f0, f1, v0, v1
  <1>3. v0 /\ v1 => (LoaderSecondIsNewer(f0, f1) <=> f1 > f0)
    BY <1>2 DEF LoaderSecondIsNewer
  <1>4. Read("incremental", image) = 1 <=> v1 /\ (v0 => f1 > f0)
    BY <1>1, <1>3
  <1> QED
    BY <1>4 DEF f0, f1, v0, v1

\* Of two copies with different serial numbers, the greater is read.
LEMMA ReadNewer ==
  ASSUME NEW image, NEW c \in Copies, Intact(image[c]), image[c][1].flag \in 0..254,
         Intact(image[1 - c]) => image[1 - c][1].flag \in 0..254 /\ image[1 - c][1].flag < image[c][1].flag
  PROVE  Read("incremental", image) = c
  <1> DEFINE f0 == image[0][1].flag
             f1 == image[1][1].flag
             v0 == Intact(image[0])
             v1 == Intact(image[1])
  <1>1. CASE c = 0
    <2>1. v0 /\ f0 \in 0..254 /\ (v1 => f1 \in 0..254 /\ f1 < f0)
      <3>1. 1 - c = 1
        BY <1>1
      <3> QED
        BY <1>1, <3>1
    <2>2. Read("incremental", image) = 1 <=> v1 /\ (v0 => f1 > f0)
      BY <2>1, ReadNumbers
    <2>3. Read("incremental", image) \in {0, 1}
      BY DEF Read
    <2> HIDE DEF f0, f1, v0, v1
    <2>4. Read("incremental", image) # 1
      BY <2>1, <2>2
    <2> QED
      BY <1>1, <2>3, <2>4
  <1>2. CASE c = 1
    <2>1. v1 /\ f1 \in 0..254 /\ (v0 => f0 \in 0..254 /\ f0 < f1)
      <3>1. 1 - c = 0
        BY <1>2
      <3> QED
        BY <1>2, <3>1
    <2>2. Read("incremental", image) = 1 <=> v1 /\ (v0 => f1 > f0)
      BY <2>1, ReadNumbers
    <2> HIDE DEF f0, f1, v0, v1
    <2> QED
      BY <1>2, <2>1, <2>2
  <1> QED
    BY <1>1, <1>2 DEF Copies

\* The one that is read is the greater one.
LEMMA ReadIsNewer ==
  ASSUME NEW image, NEW c \in Copies, c = Read("incremental", image), Intact(image[1 - c]),
         Intact(image[0]) => image[0][1].flag \in 0..254,
         Intact(image[1]) => image[1][1].flag \in 0..254,
         Intact(image[0]) /\ Intact(image[1]) => image[0][1].flag # image[1][1].flag
  PROVE  Intact(image[c]) /\ image[1 - c][1].flag < image[c][1].flag
  <1> DEFINE f0 == image[0][1].flag
             f1 == image[1][1].flag
             v0 == Intact(image[0])
             v1 == Intact(image[1])
  <1>1. Read("incremental", image) = 1 <=> v1 /\ (v0 => f1 > f0)
    BY ReadNumbers
  <1>2. (v0 => f0 \in 0..254) /\ (v1 => f1 \in 0..254) /\ (v0 /\ v1 => f0 # f1)
    OBVIOUS
  <1>3. CASE c = 0
    <2>1. 1 - c = 1
      BY <1>3
    <2>2. v1 /\ Read("incremental", image) # 1
      BY <1>3, <2>1
    <2>3. v0 /\ ~(f1 > f0)
      BY <1>1, <2>2
    <2>4. f0 \in 0..254 /\ f1 \in 0..254 /\ f0 # f1
      BY <1>2, <2>2, <2>3
    <2>5. f1 < f0
      <3>1. \A a, b \in 0..254 : a # b /\ ~(b > a) => b < a
        OBVIOUS
      <3> QED
        BY ONLY <2>3, <2>4, <3>1
    <2> QED
      BY <1>3, <2>1, <2>3, <2>5
  <1>4. CASE c = 1
    <2>1. 1 - c = 0
      BY <1>4
    <2>2. v0 /\ Read("incremental", image) = 1
      BY <1>4, <2>1
    <2>3. v1 /\ f0 < f1
      <3> HIDE DEF f0, f1, v0, v1
      <3> QED
        BY <1>1, <1>2, <2>2
    <2> QED
      BY <1>4, <2>1, <2>3
  <1> QED
    BY <1>3, <1>4 DEF Copies

\* Of an active copy and an obsolete one, the active one is read.
LEMMA ReadActive ==
  ASSUME NEW image, NEW c \in Copies, Intact(image[c]), image[c][1].flag = 1,
         Intact(image[1 - c]) => image[1 - c][1].flag = 0
  PROVE  Read("boolean", image) = c
  <1>1. CASE c = 0
    BY <1>1 DEF Read, SecondIsActive
  <1>2. CASE c = 1
    BY <1>2 DEF Read, SecondIsActive
  <1> QED
    BY <1>1, <1>2 DEF Copies

\* A copy with an erased piece is not valid.
LEMMA ErasedNotIntact ==
  ASSUME NEW image, NEW j \in Piece, image[j].env = None
  PROVE  ~Intact(image)
  BY EnvsAssumption DEF Intact, Image

\* A copy that is valid and of which the first piece is an environment's holds that one.
LEMMA HoldsWritten ==
  ASSUME NEW image, NEW e \in Envs, Intact(image), image[1].env = Image(e, 0)[1].env
  PROVE  Holds(image) = e
  <1>1. 1 \in Piece
    BY BoundsAssumption DEF Piece
  <1> QED
    BY <1>1 DEF Holds, Image

\* What is read of a flash that did not change.
LEMMA FlashSame ==
  ASSUME UNCHANGED <<scheme, flash>>
  PROVE  /\ LoaderPick' = LoaderPick /\ Stored' = Stored /\ Redundant' = Redundant
         /\ \A c \in Copies : Valid(c)' = Valid(c) /\ Flag(c)' = Flag(c) /\ Content(c)' = Content(c)
  BY DEF LoaderPick, Pick, Redundant, Valid, Flag, Stored, Content

-----------------------------------------------------------------------------
(* Steps that leave the flash as it is.                                      *)

\* Only a copy that holds an environment has a number that counts.
LEMMA ValidNumbers ==
  ASSUME TypeOK, RoomInv, scheme = "incremental", NEW c \in Copies, Valid(c)
  PROVE  Flag(c) \in 0..254 /\ HasRoom(Flag(c))
  <1>1. HasRoom(Flag(c))
    BY IntactNotBlank DEF RoomInv, Valid
  <1> QED
    BY <1>1, FlagType, RoomBelow

\* The initial states are ordered.
LEMMA InitOrdered ==
  ASSUME SerialsLast, Init
  PROVE  OrderedInv
  <1>1. /\ pc = "idle" /\ phase = "off" /\ cur = 0 /\ attempted = {}
        /\ committed = (IF Valid(0) \/ Valid(1) THEN Stored ELSE None)
    BY DEF Init
  <1>2. TargetInv /\ InUseInv /\ CrashSafe
    BY <1>1 DEF TargetInv, Erased, Written, Saving, InUseInv, CrashSafe
  <1>3. 1 \in Piece /\ 0 \in Flags /\ 1 \in Flags
    BY BoundsAssumption DEF Piece, Flags
  <1>4. CASE flash = [d \in Copies |-> [j \in Piece |-> Blank]]
    <2>1. \A c \in Copies : flash[c][1] = Blank
      BY <1>3, <1>4
    <2>2. \A c \in Copies : ~Valid(c) /\ flash[c][1].env = None
      BY <2>1, IntactNotBlank DEF Valid, Blank
    <2> QED
      BY <1>1, <1>2, <2>2 DEF OrderedInv, OrderInv, ActiveInv, Saving, Copies
  <1>5. ASSUME NEW c \in Copies, NEW e \in Envs,
               NEW f \in IF scheme = "boolean" THEN {1, 255} ELSE FirstFlags,
               NEW other \in {[j \in Piece |-> Blank],
                              Image(Default, IF scheme = "boolean" THEN 0 ELSE (f + 255) % 256)},
               flash = [d \in Copies |-> IF d = c THEN Image(e, f) ELSE other]
        PROVE  OrderedInv
    <2>1. ActiveInv
      BY <1>1 DEF ActiveInv, Saving
    <2>2. OrderInv
      <3> SUFFICES ASSUME scheme = "incremental", Valid(0), Valid(1)
                   PROVE  Flag(0) # Flag(1)
        BY <1>1 DEF OrderInv, Saving
      <3>1. flash[0][1] # Blank /\ flash[1][1] # Blank
        BY IntactNotBlank DEF Valid
      <3>2. f \in 1..254
        BY SchemesAssumption, BoundsAssumption DEF SerialsLast, Flags
      <3>3. (f + 255) % 256 = f - 1
        BY <3>2
      <3>4. flash[c][1].flag = f
        BY <1>3, <1>5 DEF Image
      <3>5. ASSUME NEW d \in Copies, d # c
            PROVE  flash[d][1] = Blank \/ flash[d][1].flag = f - 1
        BY <1>3, <1>5, <3>3, <3>5 DEF Image
      <3>6. CASE c = 0
        BY <3>1, <3>2, <3>4, <3>5, <3>6 DEF Flag, Copies
      <3>7. CASE c = 1
        BY <3>1, <3>2, <3>4, <3>5, <3>7 DEF Flag, Copies
      <3> QED
        BY <3>6, <3>7 DEF Copies
    <2> QED
      BY <1>2, <2>1, <2>2 DEF OrderedInv
  <1>6. FirstFlash
    BY DEF Init
  <1> QED
    BY <1>4, <1>5, <1>6 DEF FirstFlash

\* The copy that is read when no other is valid.
LEMMA PickedCopy ==
  /\ LoaderPick \in Copies /\ (~Redundant => LoaderPick = 0)
  /\ ~Valid(LoaderPick) => LoaderPick = 0
  <1>1. CASE Redundant
    BY <1>1 DEF LoaderPick, Pick, Copies
  <1>2. CASE ~Redundant
    BY <1>2 DEF LoaderPick, Pick, Copies
  <1> QED
    BY <1>1, <1>2

\* A save that begins from the copy in use.
LEMMA StartSaveOrdered ==
  ASSUME SerialsLast, IInv, RoomInv, OrderedInv, NEW e \in Envs, StartSave(e),
         \/ phase = "loader" /\ pc = "idle"
         \/ phase = "os" /\ pc \in {"edit", "close"}
  PROVE  OrderedInv'
  <1>1. /\ UNCHANGED <<scheme, flash, phase, cur>> /\ pc' = "erase" /\ k' = 1 /\ env' = e
        /\ flag' = NextFlag /\ attempted' = attempted \cup {e}
        /\ committed' = (IF Redundant THEN committed ELSE None)
    BY DEF StartSave
  <1>2. cur = LoaderPick /\ cur \in Copies /\ (~Redundant => cur = 0) /\ CrashSafe
    BY PickedCopy DEF OrderedInv, InUseInv
  <1>3. TargetInv'
    BY <1>1 DEF TargetInv, Erased, Written, Saving, Piece
  <1>4. OrderInv'
    <2> SUFFICES ASSUME scheme = "incremental" PROVE OrderInv'
      BY <1>1 DEF OrderInv
    <2>1. Valid(0)' /\ Valid(1)' => Flag(0)' # Flag(1)'
      BY <1>1 DEF OrderedInv, OrderInv, Valid, Flag
    <2>2. ASSUME Valid(cur)
          PROVE  flag' > Flag(cur)
      <3>1. Flag(cur) \in 0..254
        BY <1>2, <2>2, ValidNumbers DEF IInv
      <3>2. flag \in Flags /\ flag >= Flag(cur) /\ flag < 255
        <4>1. CASE phase = "loader"
          <5>1. flag >= Flag(cur) /\ HasRoom(flag) /\ flag \in Flags
            BY <2>2, <4>1 DEF OrderedInv, OrderInv, RoomInv, IInv, TypeOK
          <5> QED
            BY <5>1, RoomBelow DEF IInv
        <4>2. CASE pc \in {"edit", "close"}
          <5>1. flag = Flag(cur)
            BY <4>2 DEF OrderedInv, OrderInv
          <5> QED
            BY <3>1, <5>1 DEF Flags
        <4> QED
          BY <4>1, <4>2
      <3>3. flag' = flag + 1
        BY <1>1, <3>2 DEF NextFlag, Flags
      <3> QED
        BY <3>1, <3>2, <3>3 DEF Flags
    <2>3. Valid(cur)' => flag' > Flag(cur)'
      BY <1>1, <2>2 DEF Valid, Flag
    <2>4. Valid(cur)' => flag' >= Flag(cur)'
      <3>1. Flag(cur)' = Flag(cur) /\ Flag(cur) \in 0..255
        BY <1>1, <1>2, FlagType DEF Flag, IInv, Flags
      <3>2. flag' \in 0..255
        BY <1>1, StartSaveType DEF IInv, TypeOK, Flags
      <3> QED
        BY <2>3, <3>1, <3>2
    <2> QED
      BY <1>1, <2>1, <2>3, <2>4 DEF OrderInv
  <1>5. ActiveInv'
    <2>1. scheme = "boolean" => flag' = 1
      BY <1>1 DEF NextFlag
    <2> QED
      BY <1>1, <2>1 DEF ActiveInv
  <1>6. CrashSafe'
    BY <1>1, <1>2, FlashSame DEF CrashSafe
  <1>7. InUseInv'
    <2>1. cur' = LoaderPick' /\ Redundant' = Redundant
      BY <1>1, <1>2, FlashSame
    <2>2. ~Valid(cur)' => cur' = 0
      BY <1>1, <1>2, PickedCopy DEF Valid
    <2>3. Redundant /\ committed' # None => Content(cur)' \in {committed'} \cup attempted'
      <3>1. Stored = Content(cur) /\ Content(cur)' = Content(cur)
        BY <1>1, <1>2 DEF Stored, Content, Valid
      <3> QED
        BY <1>1, <1>2, <3>1 DEF CrashSafe
    <2> QED
      BY <1>1, <1>2, <2>1, <2>2, <2>3 DEF InUseInv, Good
  <1> QED
    BY <1>3, <1>4, <1>5, <1>6, <1>7 DEF OrderedInv

\* Between saves little is asked of the flash: steps of the loader and the tool, a
\* power loss and a failed save.
LEMMA QuietOrdered ==
  ASSUME OrderedInv, UNCHANGED <<scheme, flash>>, pc' \in {"idle", "demote", "edit", "close"},
         pc' = "demote" => scheme = "boolean" /\ phase' = "loader" /\ Valid(cur'),
         CrashSafe', ~Redundant => cur' = 0,
         (phase' = "loader" /\ pc' \in {"idle", "demote"}) \/ pc' \in {"edit", "close"} => cur' = LoaderPick,
         scheme = "incremental" /\ phase' = "loader" /\ Valid(cur') => flag' >= Flag(cur'),
         scheme = "incremental" /\ pc' \in {"edit", "close"} => flag' = Flag(cur')
  PROVE  OrderedInv'
  <1>1. ~Saving' /\ LoaderPick' = LoaderPick /\ Redundant' = Redundant
    BY FlashSame DEF Saving
  <1>2. TargetInv'
    BY <1>1 DEF TargetInv, Erased, Written, Saving
  <1>3. OrderInv'
    BY <1>1 DEF OrderedInv, OrderInv, Valid, Flag
  <1>4. ActiveInv'
    BY <1>1 DEF ActiveInv, Valid
  <1>5. InUseInv'
    BY <1>1 DEF InUseInv
  <1> QED
    BY <1>2, <1>3, <1>4, <1>5 DEF OrderedInv

\* Fail leaves the copies as they were read.
LEMMA FailOrdered ==
  ASSUME IInv, OrderedInv, Fail
  PROVE  OrderedInv'
  <1>1. /\ UNCHANGED <<scheme, flash, phase, committed, attempted>> /\ pc' = "idle"
        /\ IF phase = "loader" THEN cur' = cur /\ flag' = flag ELSE cur' = 0 /\ flag' = 0
        /\ pc \in {"erase", "write"}
    BY DEF Fail, EndSave
  <1>2. ~Redundant => cur' = 0
    BY <1>1 DEF OrderedInv, InUseInv
  <1>3. CrashSafe'
    BY <1>1, FlashSame DEF OrderedInv, CrashSafe
  <1>4. ASSUME phase' = "loader"
        PROVE  cur' = LoaderPick
    <2>1. WholeErase /\ cur' = cur /\ k \in Piece
      BY <1>1, <1>4 DEF WholeErase, IInv, TypeOK
    <2>2. CASE pc = "erase" /\ k = 1
      BY <2>1, <2>2 DEF OrderedInv, InUseInv
    <2>3. CASE ~Redundant
      BY <1>2, <2>3, PickedCopy
    <2>4. CASE Redundant /\ ~(pc = "erase" /\ k = 1)
      <3>1. PICK j \in Piece : Erased(j)
        <4>1. CASE pc = "erase"
          <5>1. 1 \in Piece /\ 1 < k
            BY <2>1, <2>4, <4>1, BoundsAssumption DEF Piece
          <5> QED
            BY <2>1, <4>1, <5>1 DEF Erased
        <4>2. CASE pc = "write"
          BY <2>1, <4>2 DEF Erased, Piece
        <4> QED
          BY <1>1, <4>1, <4>2
      <3>2. ~Intact(flash[Target])
        BY <3>1, ErasedNotIntact DEF OrderedInv, TargetInv
      <3>3. cur \in {0, 1} /\ Target = 1 - cur
        BY <2>4 DEF Target, IInv, TypeOK, Copies
      <3>4. ~Valid(cur) => cur = 0
        BY <1>1 DEF OrderedInv, InUseInv, Saving
      <3>5. CASE Valid(cur)
        BY <2>1, <2>4, <3>2, <3>3, <3>5, ReadIsPick, ReadValid DEF Valid, Redundant, Copies
      <3>6. CASE ~Valid(cur)
        <4>1. ~Intact(flash[0]) /\ ~Intact(flash[1])
          BY <3>2, <3>3, <3>4, <3>6 DEF Valid
        <4> QED
          BY <2>1, <3>4, <3>6, <4>1, ReadIsPick, ReadValid
      <3> QED
        BY <3>5, <3>6
    <2> QED
      BY <2>2, <2>3, <2>4
  <1>5. scheme = "incremental" /\ phase' = "loader" /\ Valid(cur') => flag' >= Flag(cur')
    BY <1>1 DEF OrderedInv, OrderInv
  <1> QED
    BY <1>1, <1>2, <1>3, <1>4, <1>5, QuietOrdered

-----------------------------------------------------------------------------
(* Steps of a save that change the flash. *)

\* The copy in use is not touched when there are two.
LEMMA ErasePieceOrdered ==
  ASSUME IInv, OrderedInv, ErasePiece
  PROVE  OrderedInv'
  <1>1. /\ UNCHANGED <<scheme, phase, cur, env, flag, saves, committed, attempted>>
        /\ pc = "erase" /\ flash' = [flash EXCEPT ![Target][k] = Blank]
        /\ k' = (IF ~WholeErase THEN k ELSE IF k < Pieces THEN k + 1 ELSE 1)
        /\ pc' = (IF WholeErase /\ k < Pieces THEN "erase" ELSE "write")
    BY DEF ErasePiece
  <1>2. /\ Redundant' = Redundant /\ WholeErase' = WholeErase /\ Target' = Target
        /\ Saving /\ Saving'
    BY <1>1 DEF Redundant, WholeErase, Target, Saving
  <1>3. /\ cur \in Copies /\ Target \in Copies /\ k \in 1..Pieces /\ 1 \in Piece
        /\ flash \in [Copies -> [Piece -> PieceState]]
    BY TargetType, BoundsAssumption DEF IInv, TypeOK, Piece
  <1>4. Redundant => Target = 1 - cur /\ cur \in {0, 1}
    BY <1>3 DEF Target, Copies
  <1>5. /\ \A c \in Copies, j \in Piece : c # Target \/ j # k => flash'[c][j] = flash[c][j]
        /\ \A c \in Copies : c # Target => flash'[c] = flash[c]
        /\ flash'[Target][k].env = None
    BY <1>1, <1>3 DEF Blank, Piece
  <1>6. ~Intact(flash'[Target])
    BY <1>3, <1>5, ErasedNotIntact DEF Piece
  <1>7. Redundant => flash'[cur] = flash[cur]
    BY <1>3, <1>5, TargetType DEF IInv
  <1>8. TargetInv'
    <2>1. ASSUME NEW j \in Piece, Erased(j)'
          PROVE  flash'[Target][j].env = None
      <3>1. j = k \/ Erased(j)
        <4>1. j \in Nat /\ k \in Nat /\ j <= Pieces /\ k <= Pieces /\ Pieces \in Nat
          BY <1>3, BoundsAssumption DEF Piece
        <4>2. CASE WholeErase
          <5>1. j <= k
            BY <1>1, <1>2, <2>1, <4>1, <4>2 DEF Erased
          <5> QED
            BY <1>1, <4>1, <4>2, <5>1 DEF Erased
        <4>3. CASE ~WholeErase
          BY <1>1, <1>2, <2>1, <4>3 DEF Erased
        <4> QED
          BY <4>2, <4>3
      <3> QED
        BY <1>3, <1>5, <3>1 DEF OrderedInv, TargetInv
    <2>2. ASSUME Written(1)'
          PROVE  flash'[Target][1].flag = flag
      <3>1. Written(1) /\ k # 1
        BY <1>1, <1>2, <1>3, <2>2 DEF Written
      <3> QED
        BY <1>3, <1>5, <3>1 DEF OrderedInv, TargetInv
    <2>3. pc' # "mark"
      BY <1>1
    <2> QED
      BY <1>1, <1>2, <2>1, <2>2, <2>3 DEF TargetInv
  <1>9. OrderInv'
    <2> SUFFICES ASSUME scheme = "incremental" PROVE OrderInv'
      BY <1>1 DEF OrderInv
    <2>1. Redundant
      BY DEF Redundant
    <2>2. ~(Intact(flash'[0]) /\ Intact(flash'[1]))
      BY <1>3, <1>6 DEF Copies
    <2>3. Valid(cur)' = Valid(cur) /\ Flag(cur)' = Flag(cur)
      BY <1>1, <1>7, <2>1 DEF Valid, Flag
    <2> QED
      BY <1>1, <1>2, <2>2, <2>3 DEF OrderedInv, OrderInv, Valid
  <1>10. ActiveInv'
    BY <1>1, <1>2 DEF OrderedInv, ActiveInv
  <1>11. Redundant => Valid(cur)' = Valid(cur) /\ Content(cur)' = Content(cur)
    BY <1>1, <1>7 DEF Valid, Content
  <1>12. InUseInv'
    <2>1. ~(pc' = "erase" /\ k' = 1)
      BY <1>1, <1>3
    <2>2. ~Valid(cur)' => cur = 0
      BY <1>2, <1>11 DEF OrderedInv, InUseInv
    <2> QED
      BY <1>1, <1>2, <1>11, <2>1, <2>2 DEF OrderedInv, InUseInv, Good
  <1>13. CrashSafe'
    <2> SUFFICES ASSUME committed # None
                 PROVE  Stored' \in {committed} \cup attempted
      BY <1>1 DEF CrashSafe
    <2>1. Redundant /\ Content(cur) \in {committed} \cup attempted
      BY <1>2 DEF OrderedInv, InUseInv, Good
    <2>2. Valid(cur)
      BY <1>1, <2>1 DEF IInv, Backed
    <2>3. LoaderPick' = cur
      BY <1>1, <1>3, <1>4, <1>6, <1>7, <2>1, <2>2, ReadIsPick, ReadValid DEF Valid, Redundant
    <2>4. Stored' = Content(cur)'
      BY <1>1, <2>3 DEF Stored, Content, Valid
    <2> QED
      BY <1>11, <2>1, <2>4
  <1> QED
    BY <1>8, <1>9, <1>10, <1>12, <1>13 DEF OrderedInv

\* A piece is written: the copy in use stays as it is, and if the target is valid
\* then it holds the new image and the new flag.
LEMMA WrittenPiece ==
  ASSUME IInv, IInv', OrderedInv, WritePiece
  PROVE  /\ Redundant => flash'[cur] = flash[cur] /\ Target = 1 - cur /\ cur \in {0, 1}
         /\ k = 1 => flash'[Target][1].env = env
         /\ flash'[Target][1].flag = flag
         /\ Intact(flash'[Target]) => Holds(flash'[Target]) = env
         /\ \A c \in Copies, j \in Piece : c # Target \/ j # k => flash'[c][j] = flash[c][j]
  <1>1. /\ pc = "write" /\ flash' = [flash EXCEPT ![Target][k] = Image(env, flag)[k]]
    BY DEF WritePiece
  <1>2. /\ cur \in Copies /\ Target \in Copies /\ k \in 1..Pieces /\ 1 \in Piece /\ k \in Piece
        /\ flash \in [Copies -> [Piece -> PieceState]] /\ env \in Envs /\ (Redundant => Target # cur)
    BY <1>1, TargetType, BoundsAssumption DEF IInv, TypeOK, Piece
  <1>3. /\ \A c \in Copies, j \in Piece : c # Target \/ j # k => flash'[c][j] = flash[c][j]
        /\ \A c \in Copies : c # Target => flash'[c] = flash[c]
        /\ flash'[Target][k] = Image(env, flag)[k]
    BY <1>1, <1>2
  <1>4. Redundant => Target = 1 - cur /\ cur \in {0, 1}
    BY <1>2 DEF Target, Copies
  <1>5. CASE k = 1
    <2>1. flash'[Target][1].env = env /\ flash'[Target][1].flag = flag
      BY <1>2, <1>3, <1>5 DEF Image
    <2>2. Image(env, 0)[1].env = env
      BY <1>2 DEF Image
    <2> QED
      BY <1>2, <1>3, <1>4, <2>1, <2>2, HoldsWritten
  <1>6. CASE k # 1
    <2>1. Written(1)
      BY <1>1, <1>2, <1>6 DEF Written
    <2>2. flash[Target][1].flag = flag /\ flash[Target][1].env = Image(env, 0)[1].env
      BY <1>2, <2>1 DEF OrderedInv, TargetInv, IInv, Backed
    <2>3. flash'[Target][1] = flash[Target][1]
      BY <1>2, <1>3, <1>6
    <2> QED
      BY <1>2, <1>3, <1>4, <1>6, <2>2, <2>3, HoldsWritten
  <1> QED
    BY <1>5, <1>6

\* The save goes on: what the next boot reads is the copy in use, or the new one
\* as soon as it is valid.
LEMMA WriteOnOrdered ==
  ASSUME IInv, IInv', OrderedInv, RoomInv, WritePiece,
         \/ k < Pieces /\ k' = k + 1 /\ pc' = (IF WholeErase THEN "write" ELSE "erase")
         \/ k = Pieces /\ k' = k /\ pc' = "mark" /\ scheme = "boolean",
         UNCHANGED <<scheme, phase, cur, env, flag, saves, committed, attempted>>
  PROVE  OrderedInv'
  <1>1. pc = "write" /\ Saving /\ Saving'
    BY DEF WritePiece, Saving
  <1>2. /\ cur \in Copies /\ Target \in Copies /\ k \in 1..Pieces /\ 1 \in Piece /\ env \in Envs
    BY <1>1, TargetType, BoundsAssumption DEF IInv, TypeOK, Piece
  <1>3. Redundant' = Redundant /\ WholeErase' = WholeErase /\ Target' = Target
    BY DEF Redundant, WholeErase, Target
  <1>4. /\ Redundant => flash'[cur] = flash[cur] /\ Target = 1 - cur /\ cur \in {0, 1}
        /\ flash'[Target][1].flag = flag
        /\ Intact(flash'[Target]) => Holds(flash'[Target]) = env
        /\ \A c \in Copies, j \in Piece : c # Target \/ j # k => flash'[c][j] = flash[c][j]
    BY WrittenPiece
  <1>5. Redundant => Valid(cur)' = Valid(cur) /\ Content(cur)' = Content(cur) /\ Flag(cur)' = Flag(cur)
    BY <1>4 DEF Valid, Content, Flag
  <1>6. TargetInv'
    <2>1. ASSUME NEW j \in Piece, Erased(j)'
          PROVE  flash'[Target][j].env = None
      <3>1. WholeErase /\ k < Pieces /\ j >= k + 1
        BY <1>2, <1>3, <2>1 DEF Erased
      <3>2. Erased(j) /\ j # k
        BY <1>1, <1>2, <3>1 DEF Erased, Piece
      <3> QED
        BY <1>2, <1>4, <3>2 DEF OrderedInv, TargetInv
    <2>2. pc' = "mark" => scheme' = "boolean"
      OBVIOUS
    <2> QED
      BY <1>3, <1>4, <2>1, <2>2 DEF TargetInv
  <1>7. OrderInv'
    <2> SUFFICES ASSUME scheme = "incremental" PROVE OrderInv'
      BY DEF OrderInv
    <2>1. Redundant
      BY DEF Redundant
    <2>2. Valid(cur) => flag > Flag(cur) /\ Flag(cur) \in 0..255 /\ flag \in 0..255
      BY <1>1, <1>2, FlagType DEF OrderedInv, OrderInv, IInv, TypeOK, Flags
    <2>3. Flag(Target)' = flag
      BY <1>3, <1>4 DEF Flag
    <2>4. Valid(0)' /\ Valid(1)' => Flag(0)' # Flag(1)'
      <3>1. CASE cur = 0
        <4>1. Target = 1
          BY <1>4, <2>1, <3>1
        <4>2. Flag(1)' = flag /\ Flag(0)' = Flag(cur) /\ Valid(0)' = Valid(cur)
          BY <1>4, <2>1, <3>1, <4>1 DEF Flag, Valid
        <4> QED
          BY <2>2, <4>2
      <3>2. CASE cur = 1
        <4>1. Target = 0
          BY <1>4, <2>1, <3>2
        <4>2. Flag(0)' = flag /\ Flag(1)' = Flag(cur) /\ Valid(1)' = Valid(cur)
          BY <1>4, <2>1, <3>2, <4>1 DEF Flag, Valid
        <4> QED
          BY <2>2, <4>2
      <3> QED
        BY <1>2, <3>1, <3>2 DEF Copies
    <2>5. Valid(cur)' => flag' > Flag(cur)' /\ flag' >= Flag(cur)'
      <3>1. flag' = flag /\ Flag(cur)' = Flag(cur) /\ (Valid(cur)' => Valid(cur))
        BY <1>5, <2>1
      <3>2. Valid(cur) => flag > Flag(cur) /\ flag >= Flag(cur)
        <4>1. \A a, b \in 0..255 : a > b => a >= b
          OBVIOUS
        <4> QED
          BY <2>2, <4>1
      <3> QED
        BY <3>1, <3>2
    <2>6. pc' \notin {"edit", "close"}
      BY <1>1 DEF Saving
    <2> QED
      BY <2>4, <2>5, <2>6 DEF OrderInv
  <1>8. ActiveInv'
    BY <1>1 DEF OrderedInv, ActiveInv, Saving
  <1>9. InUseInv'
    <2>1. pc' \notin {"idle", "demote", "promote", "edit", "close"} /\ ~(pc' = "erase" /\ k' = 1)
      BY <1>2
    <2>2. ~Valid(cur)' => cur = 0
      BY <1>1, <1>5 DEF OrderedInv, InUseInv
    <2> QED
      BY <1>1, <1>3, <1>5, <2>1, <2>2 DEF OrderedInv, InUseInv, Good
  <1>10. CrashSafe'
    <2> SUFFICES ASSUME committed # None
                 PROVE  Stored' \in {committed} \cup attempted
      BY DEF CrashSafe
    <2>1. Redundant /\ Content(cur) \in {committed} \cup attempted /\ env \in attempted
      BY <1>1 DEF OrderedInv, InUseInv, Good
    <2>2. Intact(flash'[cur])
      BY <1>1, <1>4, <2>1 DEF IInv, Backed, Valid
    <2>3. Holds(flash'[cur]) = Content(cur)
      BY <1>4, <2>1 DEF Holds, Content, Valid
    <2>4. LoaderPick' = cur \/ (LoaderPick' = Target /\ Intact(flash'[Target]))
      <3>1. LoaderPick' \in Copies
        BY ReadIsPick, ReadValid
      <3>2. ~Intact(flash'[Target]) => LoaderPick' = cur
        BY <1>2, <1>4, <2>1, <2>2, ReadIsPick, ReadValid DEF Redundant
      <3> QED
        BY <1>4, <2>1, <3>1, <3>2 DEF Copies
    <2>5. Stored' = Holds(flash'[LoaderPick'])
      BY ReadIsPick
    <2> QED
      BY <1>4, <2>1, <2>3, <2>4, <2>5
  <1> QED
    BY <1>6, <1>7, <1>8, <1>9, <1>10 DEF OrderedInv

\* The save ends with the target read from now on, on NAND or without redundancy.
LEMMA WriteLastOrdered ==
  ASSUME IInv, IInv', OrderedInv, RoomInv, WritePiece,
         k = Pieces, scheme # "boolean", committed' = env, attempted' = {}, EndSave(Target)
  PROVE  OrderedInv'
  <1>1. pc = "write" /\ Saving /\ pc' = "idle" /\ UNCHANGED <<scheme, phase, saves>>
    BY DEF WritePiece, Saving, EndSave
  <1>2. IF phase = "loader" THEN cur' = Target /\ flag' = flag ELSE cur' = 0 /\ flag' = 0
    BY DEF EndSave
  <1>3. /\ cur \in Copies /\ Target \in Copies /\ k \in Piece /\ env \in Envs
        /\ flash \in [Copies -> [Piece -> PieceState]] /\ flag \in 0..255
    BY <1>1, TargetType DEF IInv, TypeOK, Flags
  <1>4. /\ Redundant => flash'[cur] = flash[cur] /\ Target = 1 - cur /\ cur \in {0, 1}
        /\ flash'[Target][1].flag = flag
        /\ Intact(flash'[Target]) => Holds(flash'[Target]) = env
    BY WrittenPiece
  <1>5. Intact(flash'[Target])
    <2>1. flash' = [flash EXCEPT ![Target][k] = Image(env, flag)[k]]
      BY DEF WritePiece
    <2>2. ASSUME NEW j \in Piece
          PROVE  flash'[Target][j].env = Image(env, 0)[j].env
      <3>1. CASE j = k
        BY <1>3, <2>1, <3>1 DEF Image
      <3>2. CASE j # k
        <4>1. flash'[Target][j] = flash[Target][j]
          BY <1>3, <2>1, <3>2
        <4>2. Written(j)
          BY <1>1, <3>2, BoundsAssumption DEF Written, Piece
        <4> QED
          BY <4>1, <4>2 DEF IInv, Backed
      <3> QED
        BY <3>1, <3>2
    <2> QED
      BY <1>3, <2>2, IntactWritten
  <1>6. CASE scheme = "none"
    <2>1. ~Redundant /\ cur = 0 /\ Target = 0 /\ cur' = 0
      <3>1. cur = 0
        BY <1>6 DEF Redundant, OrderedInv, InUseInv
      <3> QED
        BY <1>2, <1>6, <3>1 DEF Redundant, Target
    <2>2. LoaderPick' = 0
      BY <1>1, <1>6, ReadIsPick, ReadValid
    <2>3. Stored' = env
      BY <1>4, <1>5, <2>1, <2>2, ReadIsPick
    <2>4. TargetInv'
      BY <1>1 DEF TargetInv, Erased, Written, Saving
    <2>5. OrderInv' /\ ActiveInv'
      BY <1>1, <1>6 DEF OrderInv, ActiveInv
    <2>6. InUseInv'
      BY <1>1, <2>1, <2>2 DEF InUseInv, Saving
    <2> QED
      BY <2>3, <2>4, <2>5, <2>6 DEF OrderedInv, CrashSafe
  <1>7. CASE scheme = "incremental"
    <2>1. Redundant /\ flash'[cur] = flash[cur] /\ Target = 1 - cur /\ cur = 1 - Target /\ cur \in {0, 1}
      BY <1>4, <1>7 DEF Redundant
    <2>2. Valid(cur) => Flag(cur) \in 0..254 /\ flag > Flag(cur)
      BY <1>1, <1>3, <1>7, ValidNumbers DEF OrderedInv, OrderInv, IInv
    <2>3. flag \in 0..254
      <3>1. HasRoom(flag)
        BY <1>1, <1>7 DEF RoomInv
      <3> QED
        BY <3>1, RoomBelow DEF IInv, TypeOK
    <2>4. Intact(flash'[cur]) => flash'[cur][1].flag \in 0..254 /\ flash'[cur][1].flag < flag
      <3>1. \A a, b \in 0..254 : a > b => b < a
        OBVIOUS
      <3>2. Valid(cur) => Flag(cur) < flag
        BY <2>2, <2>3, <3>1
      <3> QED
        BY <2>1, <2>2, <3>2 DEF Valid, Flag
    <2>5. LoaderPick' = Target
      <3>1. Read("incremental", flash') = Target
        BY <1>3, <1>4, <1>5, <2>1, <2>3, <2>4, ReadNewer
      <3> QED
        BY <1>1, <1>7, <3>1, ReadIsPick
    <2>6. Stored' = env
      BY <1>4, <1>5, <2>5, ReadIsPick
    <2>7. TargetInv' /\ ActiveInv'
      BY <1>1, <1>7 DEF TargetInv, Erased, Written, Saving, ActiveInv
    <2>8. InUseInv'
      BY <1>1, <1>2, <1>7, <2>5 DEF InUseInv, Saving, Redundant
    <2>9. OrderInv'
      <3>1. Intact(flash'[cur]) => flash'[cur][1].flag # flash'[Target][1].flag
        BY <1>4, <2>3, <2>4
      <3>2. Valid(0)' /\ Valid(1)' => Flag(0)' # Flag(1)'
        <4>1. CASE cur = 0
          BY <2>1, <3>1, <4>1 DEF Valid, Flag
        <4>2. CASE cur = 1
          BY <2>1, <3>1, <4>2 DEF Valid, Flag
        <4> QED
          BY <2>1, <4>1, <4>2
      <3>3. phase' = "loader" => flag' >= Flag(cur)'
        BY <1>1, <1>2, <1>3, <1>4 DEF Flag
      <3> QED
        BY <1>1, <3>2, <3>3 DEF OrderInv, Saving
    <2> QED
      BY <2>6, <2>7, <2>8, <2>9 DEF OrderedInv, CrashSafe
  <1> QED
    BY <1>6, <1>7, SchemesAssumption DEF IInv, TypeOK

\* The save ends on NOR: the copy that was in use is obsolete.
LEMMA FlagObsoleteOrdered ==
  ASSUME "mark" \notin Faults, IInv, OrderedInv, FlagObsolete
  PROVE  OrderedInv'
  <1>1. /\ pc = "mark" /\ scheme = "boolean" /\ Redundant /\ Saving
        /\ flash' = [flash EXCEPT ![cur][1].flag = 0]
        /\ committed' = env /\ attempted' = {} /\ pc' = "idle"
        /\ phase = "loader" => cur' = Target
        /\ UNCHANGED <<scheme, phase>>
    BY DEF FlagObsolete, EndSave, Redundant, Saving, OrderedInv, TargetInv
  <1>2. /\ cur \in {0, 1} /\ Target = 1 - cur /\ cur = 1 - Target /\ Target # cur /\ Target \in Copies
        /\ 1 \in Piece /\ env \in Envs /\ flash \in [Copies -> [Piece -> PieceState]]
    BY <1>1, BoundsAssumption DEF IInv, TypeOK, Copies, Target, Piece
  <1>3. flash'[Target] = flash[Target]
    BY <1>1, <1>2 DEF Copies
  <1>4. flash'[cur][1] = [flash[cur][1] EXCEPT !.flag = 0]
    BY <1>1, <1>2 DEF Copies
  <1>5. flash'[cur][1].flag = 0
    <2>1. flash[cur][1] \in PieceState
      BY <1>2 DEF Copies
    <2> QED
      BY <1>4, <2>1 DEF PieceState
  <1>6. flash'[Target][1].flag = 1
    <2>1. flag = 1
      BY <1>1 DEF OrderedInv, ActiveInv
    <2>2. Written(1)
      BY <1>1 DEF Written
    <2> QED
      BY <1>3, <2>1, <2>2 DEF OrderedInv, TargetInv
  <1>7. \A j \in Piece : flash[Target][j].env = Image(env, 0)[j].env
    BY <1>1 DEF Written, IInv, Backed
  <1>8. Intact(flash'[Target]) /\ Holds(flash'[Target]) = env
    <2>1. Intact(flash'[Target])
      BY <1>2, <1>3, <1>7, IntactWritten
    <2> QED
      BY <1>2, <1>3, <1>7, <2>1, HoldsWritten
  <1>9. LoaderPick' = Target
    <2>1. Read("boolean", flash') = Target
      BY <1>2, <1>5, <1>6, <1>8, ReadActive
    <2> QED
      BY <1>1, <2>1, ReadIsPick
  <1>10. CrashSafe'
    <2>1. Stored' = env
      BY <1>8, <1>9, ReadIsPick
    <2> QED
      BY <1>1, <2>1 DEF CrashSafe
  <1>11. TargetInv' /\ OrderInv'
    BY <1>1 DEF TargetInv, OrderInv, Erased, Written, Saving
  <1>12. ActiveInv'
    BY <1>1 DEF ActiveInv, Saving
  <1>13. InUseInv'
    BY <1>1, <1>9 DEF InUseInv, Saving, Redundant
  <1> QED
    BY <1>10, <1>11, <1>12, <1>13 DEF OrderedInv

\* Marking the copy that is not read obsolete leaves the other one read.
LEMMA ReadDemoted ==
  ASSUME NEW image, NEW new, NEW c \in Copies, Read("boolean", image) = c,
         Intact(image[0]), Intact(image[1]), Intact(new[0]), Intact(new[1]),
         new[1 - c][1].flag = 0, new[c][1].flag = image[c][1].flag
  PROVE  Read("boolean", new) = c
  <1>1. CASE c = 0
    BY <1>1 DEF Read, SecondIsActive
  <1>2. CASE c = 1
    BY <1>2 DEF Read, SecondIsActive
  <1> QED
    BY <1>1, <1>2 DEF Copies

\* When the loader puts the flags right the copy it reads stays the one that is read.
LEMMA RepairReads ==
  ASSUME "mark" \notin Faults, IInv, OrderedInv, Demote \/ Promote
  PROVE  /\ scheme = "boolean" /\ phase = "loader" /\ cur \in Copies
         /\ pc \in {"demote", "promote"} /\ pc' \in {"promote", "idle"}
         /\ UNCHANGED <<scheme, phase, cur, env, flag, committed, attempted>>
         /\ LoaderPick' = cur /\ Stored' = Stored /\ Valid(cur)'
         /\ pc' = "promote" /\ Valid(1 - cur)' => Flag(1 - cur)' = 0
  <1>1. /\ pc \in {"demote", "promote"} /\ pc' \in {"promote", "idle"}
        /\ UNCHANGED <<scheme, phase, cur, env, flag, committed, attempted>>
        /\ pc' = "promote" => pc = "demote"
    BY DEF Demote, Promote
  <1>2. /\ scheme = "boolean" /\ phase = "loader" /\ cur \in {0, 1} /\ cur = LoaderPick
        /\ Intact(flash[cur]) /\ 1 - cur \in Copies /\ 1 \in Piece /\ cur # 1 - cur
        /\ flash \in [Copies -> [Piece -> PieceState]] /\ 1 - (1 - cur) = cur
    BY <1>1, BoundsAssumption DEF OrderedInv, ActiveInv, InUseInv, IInv, TypeOK, Copies, Valid, Piece
  <1>3. \A c \in Copies, j \in Piece : flash'[c][j].env = flash[c][j].env
    BY RepairEnv
  <1>4. \A c \in Copies : (Intact(flash'[c]) <=> Intact(flash[c])) /\ Holds(flash'[c]) = Holds(flash[c])
    <2>1. \A c \in Copies : Intact(flash'[c]) <=> Intact(flash[c])
      BY <1>3, IntactKept
    <2> QED
      BY <1>2, <1>3, <2>1 DEF Holds
  <1>5. Read("boolean", flash) = cur
    BY <1>2, ReadIsPick
  <1>6. ASSUME NEW c \in Copies, NEW f \in {0, 1}, flash' = [flash EXCEPT ![c][1].flag = f]
        PROVE  flash'[c][1].flag = f /\ flash'[1 - c] = flash[1 - c]
    <2>1. flash[c][1] \in PieceState /\ 1 - c # c
      BY <1>2 DEF Copies
    <2>2. flash'[c][1] = [flash[c][1] EXCEPT !.flag = f] /\ flash'[1 - c] = flash[1 - c]
      BY <1>2, <1>6, <2>1 DEF Copies
    <2> QED
      BY <2>1, <2>2 DEF PieceState
  <1>7. /\ Read("boolean", flash') = cur
        /\ pc' = "promote" /\ Intact(flash'[1 - cur]) => flash'[1 - cur][1].flag = 0
    <2>1. CASE Demote
      <3>1. CASE Valid(1 - cur) /\ Flag(1 - cur) # 0
        <4>1. flash' = [flash EXCEPT ![1 - cur][1].flag = 0]
          BY <2>1, <3>1 DEF Demote, Mark
        <4>2. flash'[1 - cur][1].flag = 0 /\ flash'[cur] = flash[cur]
          BY <1>2, <1>6, <4>1
        <4>3. Intact(flash[0]) /\ Intact(flash[1]) /\ Intact(flash'[0]) /\ Intact(flash'[1])
          BY <1>2, <1>4, <3>1 DEF Valid, Copies
        <4> QED
          BY <1>2, <1>5, <4>2, <4>3, ReadDemoted DEF Copies
      <3>2. CASE ~(Valid(1 - cur) /\ Flag(1 - cur) # 0)
        <4>1. flash' = flash
          BY <2>1, <3>2 DEF Demote
        <4> QED
          BY <1>5, <3>2, <4>1 DEF Valid, Flag
      <3> QED
        BY <3>1, <3>2
    <2>2. CASE Promote
      <3>1. pc = "promote" /\ pc' = "idle"
        BY <2>2 DEF Promote
      <3>2. Intact(flash[1 - cur]) => flash[1 - cur][1].flag = 0
        BY <3>1 DEF OrderedInv, ActiveInv, Valid, Flag
      <3>3. CASE flash' = flash
        BY <1>5, <3>1, <3>3
      <3>4. CASE flash' = [flash EXCEPT ![cur][1].flag = 1]
        <4>1. flash'[cur][1].flag = 1 /\ flash'[1 - cur] = flash[1 - cur]
          BY <1>2, <1>6, <3>4 DEF Copies
        <4> QED
          BY <1>2, <1>4, <3>1, <3>2, <4>1, ReadActive DEF Copies
      <3> QED
        BY <2>2, <3>3, <3>4 DEF Promote, Mark
    <2> QED
      BY <2>1, <2>2
  <1>8. LoaderPick' = cur /\ Stored' = Stored
    BY <1>1, <1>2, <1>4, <1>7, ReadIsPick DEF Copies
  <1> QED
    BY <1>1, <1>2, <1>4, <1>7, <1>8 DEF Valid, Flag, Copies

\* Putting the flags right keeps the order of the copies.
LEMMA RepairOrdered ==
  ASSUME "mark" \notin Faults, IInv, OrderedInv, Demote \/ Promote
  PROVE  OrderedInv'
  <1>1. /\ scheme = "boolean" /\ phase = "loader" /\ cur \in Copies
        /\ pc \in {"demote", "promote"} /\ pc' \in {"promote", "idle"}
        /\ UNCHANGED <<scheme, phase, cur, env, flag, committed, attempted>>
        /\ LoaderPick' = cur /\ Stored' = Stored /\ Valid(cur)'
        /\ pc' = "promote" /\ Valid(1 - cur)' => Flag(1 - cur)' = 0
    BY RepairReads
  <1>2. TargetInv' /\ OrderInv'
    BY <1>1 DEF TargetInv, OrderInv, Erased, Written, Saving
  <1>3. ActiveInv'
    BY <1>1 DEF ActiveInv, Saving, Valid, Flag
  <1>4. InUseInv'
    BY <1>1 DEF InUseInv, Saving, Redundant
  <1>5. CrashSafe'
    BY <1>1 DEF OrderedInv, CrashSafe
  <1> QED
    BY <1>2, <1>3, <1>4, <1>5 DEF OrderedInv

-----------------------------------------------------------------------------
(* The next boot reads what was saved last. *)

\* Every step keeps the order of the copies.
LEMMA NextOrdered ==
  ASSUME SerialsLast, "mark" \notin Faults, IInv, RoomInv, OrderedInv, [Next]_vars
  PROVE  OrderedInv'
  <1>1. IInv' /\ TypeOK /\ Backed
    BY NextIInv DEF IInv
  <1>2. CASE LoaderStart
    <2>1. /\ UNCHANGED <<scheme, flash>> /\ phase' = "loader" /\ cur' = LoaderPick
          /\ pc' = (IF scheme = "boolean" /\ Valid(LoaderPick) THEN "demote" ELSE "idle")
          /\ flag' = (IF Redundant /\ Valid(LoaderPick) THEN Flag(LoaderPick) ELSE 0)
          /\ committed' = (IF Valid(LoaderPick) THEN Stored ELSE None)
      BY <1>1, <1>2 DEF LoaderStart, Backed
    <2>2. CrashSafe'
      BY <2>1, FlashSame DEF CrashSafe
    <2>3. ASSUME scheme = "incremental", Valid(cur')
          PROVE  flag' >= Flag(cur')
      <3>1. flag' = Flag(cur') /\ Flag(cur') \in 0..255
        BY <1>1, <2>1, <2>3, PickedCopy, FlagType DEF Redundant, Flags
      <3> QED
        BY <3>1
    <2>4. pc' \in {"idle", "demote"} /\ (pc' = "demote" => scheme = "boolean" /\ Valid(cur'))
      BY <2>1
    <2> QED
      BY <2>1, <2>2, <2>3, <2>4, PickedCopy, QuietOrdered
  <1>3. CASE LoaderSave
    BY <1>3, StartSaveOrdered DEF LoaderSave
  <1>4. CASE Boot
    <2>1. /\ UNCHANGED <<scheme, flash, committed, attempted>> /\ pc' = "idle" /\ phase' = "os" /\ cur' = 0
      BY <1>4 DEF Boot
    <2>2. CrashSafe'
      BY <2>1, FlashSame DEF OrderedInv, CrashSafe
    <2> QED
      BY <2>1, <2>2, QuietOrdered
  <1>5. CASE PowerLoss
    <2>1. /\ UNCHANGED <<scheme, flash, committed, attempted>> /\ pc' = "idle" /\ phase' = "off" /\ cur' = 0
      BY <1>5 DEF PowerLoss
    <2>2. CrashSafe'
      BY <2>1, FlashSame DEF OrderedInv, CrashSafe
    <2> QED
      BY <2>1, <2>2, QuietOrdered
  <1>6. CASE ToolOpen
    <2>1. /\ UNCHANGED <<scheme, flash, committed, attempted>> /\ pc' = "edit" /\ phase' = "os"
          /\ cur' = ToolPick /\ flag' = (IF Redundant THEN Flag(ToolPick) ELSE 0)
      BY <1>6 DEF ToolOpen
    <2>2. ToolPick = LoaderPick
      BY <1>1, RoomAgrees DEF ReadersAgree
    <2>3. CrashSafe'
      BY <2>1, FlashSame DEF OrderedInv, CrashSafe
    <2>4. scheme = "incremental" => flag' = Flag(cur')
      BY <2>1 DEF Redundant
    <2> QED
      BY <2>1, <2>2, <2>3, <2>4, PickedCopy, QuietOrdered
  <1>7. CASE \E n \in Names, v \in Values \cup {Unset}, alias \in BOOLEAN : ToolEdit(n, v, alias)
    <2>1. /\ UNCHANGED <<scheme, flash, phase, cur, flag, committed, attempted>>
          /\ pc = "edit" /\ pc' \in {"edit", "close"} /\ phase = "os"
      BY <1>1, <1>7 DEF ToolEdit, Backed
    <2>2. CrashSafe'
      BY <2>1, FlashSame DEF OrderedInv, CrashSafe
    <2>3. cur' = LoaderPick /\ (~Redundant => cur' = 0)
      BY <2>1 DEF OrderedInv, InUseInv
    <2>4. scheme = "incremental" => flag' = Flag(cur')
      BY <2>1 DEF OrderedInv, OrderInv
    <2> QED
      BY <2>1, <2>2, <2>3, <2>4, QuietOrdered
  <1>8. CASE ToolClose
    <2>1. env \in Envs /\ phase = "os" /\ pc \in {"edit", "close"} /\ StartSave(env)
      BY <1>1, <1>8 DEF ToolClose, TypeOK, Backed
    <2> QED
      BY <2>1, StartSaveOrdered
  <1>9. CASE ErasePiece
    BY <1>9, ErasePieceOrdered
  <1>10. CASE WritePiece
    BY <1>1, <1>10, WriteOnOrdered, WriteLastOrdered DEF WritePiece
  <1>11. CASE FlagObsolete
    BY <1>11, FlagObsoleteOrdered
  <1>12. CASE Fail
    BY <1>12, FailOrdered
  <1>13. CASE Demote \/ Promote
    BY <1>13, RepairOrdered
  <1>14. CASE UNCHANGED vars
    <2>1. UNCHANGED vars
      BY <1>14
    <2>2. TargetInv' /\ OrderInv' /\ ActiveInv'
      BY <2>1 DEF vars, OrderedInv, TargetInv, OrderInv, ActiveInv, Erased, Written, WholeErase,
                  Target, Redundant, Saving, Valid, Flag
    <2>3. InUseInv' /\ CrashSafe'
      BY <2>1, FlashSame DEF vars, OrderedInv, InUseInv, CrashSafe, Saving, Good, Content, Valid
    <2> QED
      BY <2>2, <2>3 DEF OrderedInv
  <1> QED
    BY <1>2, <1>3, <1>4, <1>5, <1>6, <1>7, <1>8, <1>9, <1>10, <1>11, <1>12, <1>13, <1>14 DEF Next

\* While serial numbers last and a copy can always be marked obsolete, the copies are
\* ordered in every reachable state as the invariant says.
THEOREM OrderKept ==
  ASSUME SerialsLast, "mark" \notin Faults
  PROVE  Spec => []OrderedInv
  <1>1. Init => OrderedInv
    BY InitOrdered
  <1>2. (IInv /\ RoomInv) /\ OrderedInv /\ [Next]_vars => OrderedInv'
    BY NextOrdered
  <1> QED
    BY <1>1, <1>2, RoomKept, PTL DEF Spec

\* While serial numbers last and a copy can always be marked obsolete, what the next
\* boot reads is what was saved last or what an interrupted save was to write, at
\* whatever moments erases and writes fail and power is lost.
THEOREM NothingSavedIsLost ==
  ASSUME SerialsLast, "mark" \notin Faults
  PROVE  Spec => []CrashSafe
  <1>1. OrderedInv => CrashSafe
    BY DEF OrderedInv
  <1> QED
    BY <1>1, OrderKept, PTL

-----------------------------------------------------------------------------
(* What can be set only once is kept. *)

\* What was set once in the environment saved or booted last is so in this one.
Keeps(e) == \A n \in WriteOnce : committed[n] # Unset => e[n] = committed[n]

\* The loader, which may change anything, leaves no half-written image that can be
\* read; and what the tool read, edits, writes or left half-written keeps what was set once.
KeepsInv == Redundant /\ committed # None /\ ~aliased =>
  /\ phase = "loader" => IF Saving THEN Content(cur) = committed ELSE Stored = committed
  /\ phase = "os" => /\ pc \in {"edit", "close"} \/ Saving => Keeps(env)
                     /\ IF Saving THEN Keeps(Content(cur)) ELSE Keeps(Stored)

\* During a save the next boot would read the copy in use or the image being written.
LEMMA SavingReads ==
  ASSUME IInv, OrderedInv, Saving, Redundant, committed # None
  PROVE  Stored \in {Content(cur), env}
  <1>1. /\ cur \in {0, 1} /\ Target = 1 - cur /\ Target \in Copies /\ Valid(cur) /\ env \in Envs
        /\ k \in Piece /\ 1 \in Piece
    BY BoundsAssumption DEF IInv, TypeOK, Backed, Saving, Target, Copies, Piece
  <1>2. CASE pc = "erase" /\ k = 1
    BY <1>2 DEF OrderedInv, InUseInv, Stored
  <1>3. CASE ~(pc = "erase" /\ k = 1)
    <2>1. Valid(Target) => Content(Target) = env
      <3>1. CASE \E j \in Piece : Erased(j)
        BY <3>1, ErasedNotIntact DEF OrderedInv, TargetInv, Valid
      <3>2. CASE ~\E j \in Piece : Erased(j)
        <4>1. Written(1)
          BY <1>1, <1>3, <3>2 DEF Written, Erased, Saving, Piece
        <4>2. flash[Target][1].env = Image(env, 0)[1].env
          BY <1>1, <4>1 DEF IInv, Backed
        <4> QED
          BY <1>1, <4>2, HoldsWritten DEF Valid, Content, Holds
      <3> QED
        BY <3>1, <3>2
    <2>2. LoaderPick = cur \/ (LoaderPick = Target /\ Valid(Target))
      BY <1>1, ReadIsPick, ReadValid DEF Valid, Redundant, Copies
    <2> QED
      BY <2>1, <2>2 DEF Stored
  <1> QED
    BY <1>2, <1>3

\* The initial states keep nothing yet.
LEMMA InitKeeps == Init => KeepsInv
  BY DEF Init, KeepsInv

\* A step of the save in which the copy in use stays as it is.
LEMMA SavingKeeps ==
  ASSUME KeepsInv, Saving, Saving', UNCHANGED <<scheme, phase, cur, env, committed, aliased>>,
         Redundant => flash'[cur] = flash[cur]
  PROVE  KeepsInv'
  <1>1. Redundant' = Redundant /\ (Redundant => Content(cur)' = Content(cur))
    BY DEF Redundant, Content, Valid
  <1> QED
    BY <1>1 DEF KeepsInv, Keeps

\* A save that ended: the next boot reads what it wrote.
LEMMA EndKeeps ==
  ASSUME OrderedInv', ~Saving', attempted' = {}, pc' = "idle"
  PROVE  KeepsInv'
  <1>1. committed' # None => Stored' = committed'
    BY DEF OrderedInv, CrashSafe
  <1> QED
    BY <1>1 DEF KeepsInv, Keeps

\* A save begins with the copy in use being the one that is read.
LEMMA StartSaveKeeps ==
  ASSUME OrderedInv, KeepsInv, NEW e, StartSave(e),
         \/ phase = "loader" /\ pc = "idle"
         \/ phase = "os" /\ pc \in {"edit", "close"} /\ e = env
  PROVE  KeepsInv'
  <1>1. UNCHANGED <<scheme, flash, phase, cur, aliased>> /\ pc' = "erase" /\ env' = e
    BY DEF StartSave
  <1>2. Redundant' = Redundant /\ Stored = Content(cur) /\ Content(cur)' = Content(cur)
    BY <1>1, FlashSame DEF OrderedInv, InUseInv, Stored, Content, Valid
  <1>3. ~Saving /\ Saving'
    BY <1>1 DEF Saving
  <1>4. Redundant => committed' = committed
    BY DEF StartSave
  <1> QED
    BY <1>1, <1>2, <1>3, <1>4 DEF KeepsInv, Keeps

\* The tool does not change what was set once.
LEMMA ToolEditKeeps ==
  ASSUME TypeOK, Keeps(env), NEW n \in Names, NEW v \in Values \cup {Unset},
         NEW alias \in BOOLEAN, ToolEdit(n, v, alias), ~aliased'
  PROVE  Keeps(env')
  <1>1. env \in [Names -> Values \cup {Unset}]
    BY DEF ToolEdit, TypeOK, Envs
  <1>2. CASE env' = env
    BY <1>2
  <1>3. CASE ~Protected(n, alias) /\ \E w \in Values \cup {Unset} : env' = [env EXCEPT ![n] = w]
    <2>1. ~(n \in WriteOnce /\ env[n] # Unset)
      BY <1>3 DEF ToolEdit, Protected, SetOnce
    <2>2. PICK w \in Values \cup {Unset} : env' = [env EXCEPT ![n] = w]
      BY <1>3
    <2>3. ASSUME NEW m \in WriteOnce, committed[m] # Unset
          PROVE  env'[m] = committed[m]
      <3>1. env[m] = committed[m]
        BY <2>3 DEF Keeps
      <3> QED
        BY <1>1, <2>1, <2>2, <2>3, <3>1, NamesAssumption
    <2>4. committed' = committed
      BY DEF ToolEdit
    <2> QED
      BY <2>3, <2>4 DEF Keeps
  <1> QED
    BY <1>2, <1>3 DEF ToolEdit

\* Every step keeps what was set once.
LEMMA NextKeeps ==
  ASSUME SerialsLast, "mark" \notin Faults, IInv, RoomInv, OrderedInv, KeepsInv, [Next]_vars
  PROVE  KeepsInv'
  <1>1. IInv' /\ OrderedInv' /\ TypeOK /\ Backed
    BY NextIInv, NextOrdered DEF IInv
  <1>2. CASE LoaderStart
    <2>1. /\ UNCHANGED <<scheme, flash>> /\ phase' = "loader" /\ pc' \in {"idle", "demote"}
          /\ committed' = (IF Valid(LoaderPick) THEN Stored ELSE None)
      BY <1>2 DEF LoaderStart
    <2> QED
      BY <2>1, FlashSame DEF KeepsInv, Saving
  <1>3. CASE LoaderSave
    BY <1>3, StartSaveKeeps DEF LoaderSave
  <1>4. CASE Boot
    <2>1. /\ UNCHANGED <<scheme, flash, committed, aliased>> /\ pc = "idle" /\ pc' = "idle"
          /\ phase = "loader" /\ phase' = "os"
      BY <1>4 DEF Boot
    <2> QED
      BY <2>1, FlashSame DEF KeepsInv, Saving, Keeps
  <1>5. CASE PowerLoss
    BY <1>5 DEF PowerLoss, KeepsInv
  <1>6. CASE ToolOpen
    <2>1. /\ UNCHANGED <<scheme, flash, committed, phase, aliased>> /\ pc = "idle" /\ pc' = "edit"
          /\ phase = "os" /\ env' = Content(ToolPick)
      BY <1>6 DEF ToolOpen
    <2>2. env' = Stored
      BY <1>1, <2>1, RoomAgrees DEF ReadersAgree, Stored
    <2> QED
      BY <2>1, <2>2, FlashSame DEF KeepsInv, Saving, Keeps
  <1>7. CASE \E n \in Names, v \in Values \cup {Unset}, alias \in BOOLEAN : ToolEdit(n, v, alias)
    <2>1. /\ UNCHANGED <<scheme, flash, phase, committed>>
          /\ pc = "edit" /\ pc' \in {"edit", "close"} /\ phase = "os"
      BY <1>1, <1>7 DEF ToolEdit, Backed
    <2>2. ~aliased' => ~aliased /\ (Keeps(env) => Keeps(env'))
      BY <1>1, <1>7, ToolEditKeeps DEF ToolEdit
    <2> QED
      BY <2>1, <2>2, FlashSame DEF KeepsInv, Saving, Keeps
  <1>8. CASE ToolClose
    <2>1. phase = "os" /\ pc \in {"edit", "close"} /\ StartSave(env)
      BY <1>1, <1>8 DEF ToolClose, Backed
    <2> QED
      BY <2>1, StartSaveKeeps
  <1>9. CASE ErasePiece
    <2>1. /\ UNCHANGED <<scheme, phase, cur, env, committed, aliased>> /\ Saving /\ Saving'
          /\ flash' = [flash EXCEPT ![Target][k] = Blank]
      BY <1>9 DEF ErasePiece, Saving
    <2>2. Redundant => flash'[cur] = flash[cur]
      BY <1>1, <2>1, TargetType DEF TypeOK
    <2> QED
      BY <2>1, <2>2, SavingKeeps
  <1>10. CASE WritePiece
    <2>1. Redundant => flash'[cur] = flash[cur]
      BY <1>1, <1>10, WrittenPiece
    <2>2. CASE pc' = "idle" /\ attempted' = {}
      BY <1>1, <2>2, EndKeeps DEF Saving
    <2>3. CASE pc' # "idle"
      <3>1. UNCHANGED <<scheme, phase, cur, env, committed, aliased>> /\ Saving /\ Saving'
        BY <1>10, <2>3 DEF WritePiece, EndSave, Saving
      <3> QED
        BY <2>1, <3>1, SavingKeeps
    <2> QED
      BY <1>10, <2>2, <2>3 DEF WritePiece
  <1>11. CASE FlagObsolete
    BY <1>1, <1>11, EndKeeps DEF FlagObsolete, EndSave, Saving
  <1>12. CASE Fail
    <2>1. /\ UNCHANGED <<scheme, flash, phase, committed, aliased>> /\ Saving /\ ~Saving' /\ pc' = "idle"
          /\ phase = "loader" => cur' = cur
      BY <1>12 DEF Fail, EndSave, Saving
    <2>2. phase = "loader" => Stored = Content(cur)
      BY <1>1, <2>1, FlashSame DEF OrderedInv, InUseInv, Stored
    <2>3. Redundant /\ committed # None => Stored \in {Content(cur), env}
      BY <2>1, SavingReads
    <2>4. Redundant' = Redundant /\ Stored' = Stored
      BY <2>1, FlashSame
    <2> QED
      BY <2>1, <2>2, <2>3, <2>4 DEF KeepsInv, Keeps
  <1>13. CASE Demote \/ Promote
    <2>1. /\ UNCHANGED <<scheme, phase, committed>> /\ phase = "loader" /\ Stored' = Stored
          /\ ~Saving /\ ~Saving'
      BY <1>1, <1>13, RepairReads DEF Saving
    <2>2. aliased' = aliased
      BY <1>13 DEF Demote, Promote
    <2> QED
      BY <2>1, <2>2 DEF KeepsInv, Redundant
  <1>14. CASE UNCHANGED vars
    BY <1>14, FlashSame DEF vars, KeepsInv, Keeps, Saving, Content, Valid
  <1> QED
    BY <1>2, <1>3, <1>4, <1>5, <1>6, <1>7, <1>8, <1>9, <1>10, <1>11, <1>12, <1>13, <1>14 DEF Next

\* While serial numbers last and a copy can always be marked obsolete, no use of the
\* tool with plain names, complete, failed or interrupted, changes or loses a serial# or ethaddr that
\* was saved or booted before.
THEOREM SetOnceIsKept ==
  ASSUME SerialsLast, "mark" \notin Faults
  PROVE  Spec => WriteOnceKept
  <1> DEFINE Kept == (Redundant /\ phase = "os" /\ phase' = "os" /\ committed # None /\ ~aliased)
                       => \A n \in WriteOnce, e \in ({committed'} \cup attempted') \ attempted :
                             committed[n] # Unset => e[n] = committed[n]
             AllInv == IInv /\ RoomInv /\ OrderedInv /\ KeepsInv
  <1>1. Init => KeepsInv
    BY InitKeeps
  <1>2. AllInv /\ [Next]_vars => KeepsInv'
    BY NextKeeps
  <1>3. AllInv /\ [Next]_vars => [Kept]_vars
    <2> SUFFICES ASSUME AllInv, Next PROVE Kept
      OBVIOUS
    <2> SUFFICES ASSUME Redundant, phase = "os", phase' = "os", committed # None, ~aliased,
                        NEW e \in ({committed'} \cup attempted') \ attempted
                 PROVE  Keeps(e)
      BY DEF Keeps
    <2>1. CASE e = committed
      BY <2>1 DEF Keeps
    <2>2. CASE ToolClose
      <3>1. attempted' = attempted \cup {env} /\ committed' = committed /\ pc \in {"edit", "close"}
        BY <2>2 DEF ToolClose, StartSave
      <3>2. e \in {env, committed} /\ Keeps(env)
        BY <3>1 DEF KeepsInv
      <3> QED
        BY <2>1, <3>2
    <2>3. CASE WritePiece \/ FlagObsolete
      <3>1. env \in attempted
        BY <2>3 DEF WritePiece, FlagObsolete, Saving, OrderedInv, InUseInv
      <3>2. UNCHANGED <<committed, attempted>> \/ (committed' = env /\ attempted' = {})
        BY <2>3 DEF WritePiece, FlagObsolete
      <3> QED
        BY <2>1, <3>1, <3>2
    <2>4. CASE ~ToolClose /\ ~WritePiece /\ ~FlagObsolete
      <3>1. UNCHANGED <<committed, attempted>>
        BY <2>4 DEF Next, LoaderStart, Demote, Promote, LoaderSave, Boot, PowerLoss, ToolOpen, ToolEdit, ErasePiece, Fail
      <3> QED
        BY <2>1, <3>1
    <2> QED
      BY <2>2, <2>3, <2>4
  <1>4. (WriteOnceKept <=> [][Kept]_vars)
    BY DEF WriteOnceKept
  <1> HIDE DEF Kept
  <1> QED
    BY <1>1, <1>2, <1>3, <1>4, RoomKept, OrderKept, PTL DEF Spec

==============================================================================
