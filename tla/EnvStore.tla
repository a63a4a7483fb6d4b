------------------------------ MODULE EnvStore ------------------------------
(***************************************************************************)
(* The boot loader's environment in flash: the tool fw_setenv              *)
(* (fw_printenv/fw_env.c) and the boot loader (u-boot/common/env_nand.c)   *)
(* read it, edit it in RAM and save it.  With two copies a save goes to    *)
(* the copy that is not in use, and flags tell which one is the newer: a   *)
(* serial number on NAND, "active" and "obsolete" on NOR.  Power may fail  *)
(* between any two flash operations.                                       *)
(*                                                                         *)
(* An image is written in pieces: erase blocks on NAND (bad ones are       *)
(* skipped alike by every reader and writer, and left out), parts of its   *)
(* one sector on NOR.  The CRC is taken to be perfect: it matches when all *)
(* pieces are of one environment.  The tool and the loader never run at    *)
(* the same time, and only one tool runs.                                  *)
(***************************************************************************)
EXTENDS Naturals, FiniteSets

CONSTANTS
  Names, Values,  \* the variables, and what they can be set to
  Unset,          \* no value
  WriteOnce,      \* "ethaddr" and "serial#"
  Capacity,       \* the variables that fit ENV_SIZE
  Default,        \* default_environment
  None,           \* no environment
  Long,           \* the environments that reach beyond the first piece
  Padding,        \* what the others have in the later pieces
  Pieces,         \* bound: the pieces an image is written in
  Schemes,        \* which flag schemes: "none", "boolean", "incremental"
  FirstFlags,     \* the serial numbers the newer copy may start with
  Faults,         \* which flash operations may fail: "erase", "write", "mark"
  MaxSaves        \* bound: saves in a run

Envs == {e \in [Names -> Values \cup {Unset}] :
           Cardinality({n \in Names : e[n] # Unset}) <= Capacity}
Copies == {0, 1}
Flags == 0..255

ASSUME NamesAssumption   == /\ Unset \notin Values /\ WriteOnce \subseteq Names
                            /\ IsFiniteSet(Names) /\ Capacity \in Nat
ASSUME EnvsAssumption    == /\ Default \in Envs /\ Long \subseteq Envs
                            /\ None \notin Envs /\ Padding \notin Envs \cup {None}
ASSUME BoundsAssumption  == Pieces \in Nat \ {0} /\ MaxSaves \in Nat
ASSUME SchemesAssumption == /\ Schemes \subseteq {"none", "boolean", "incremental"}
                            /\ FirstFlags \subseteq Flags
                            /\ Faults \subseteq {"erase", "write", "mark"}

VARIABLES
  scheme,     \* environment.flag_scheme
  flash,      \* by copy and piece: the environment it belongs to, and the flag
  phase,      \* "off", or who runs: "loader" or "os"
  pc, k,      \* where the program is in its save, and the piece it is at
  cur,        \* the copy in use: dev_current of the tool, env_valid or flash_addr of the loader
  env, flag,  \* the program's image in RAM, and its flag (env_flags)
  saves,
  committed,  \* history: the environment saved or booted last, None if there is none
  attempted,  \* history: the environments that saves since then were to write
  aliased     \* history: since the boot the write-once check was passed by "name="

vars == <<scheme, flash, phase, pc, k, cur, env, flag, saves, committed, attempted, aliased>>

Redundant == scheme # "none"
Piece == 1..Pieces
Blank == [env |-> None, flag |-> 255]
Image(e, f) ==
  [j \in Piece |-> [env  |-> IF j = 1 \/ e \in Long THEN e ELSE Padding,
                    flag |-> IF j = 1 THEN f ELSE 255]]

\* The CRC matches.  It does not cover the flag.
Intact(image) == \E e \in Envs : \A j \in Piece : image[j].env = Image(e, 0)[j].env
Valid(c) == Intact(flash[c])

Flag(c) == flash[c][1].flag
Content(c) == IF Valid(c) THEN flash[c][1].env ELSE Default

-----------------------------------------------------------------------------
(* Which copy is read, when both are valid: copy 1 if this says so. *)

SecondIsActive(f0, f1) == (f0 = 0 /\ f1 = 1) \/ (f0 # 255 /\ f1 = 255)

\* Mutant: the comparison turned round.
ToolSecondIsOlder(f0, f1) == (f0 = 255 /\ f1 = 0) \/ f0 > f1

ToolSecondIsNewer(f0, f1) == (f0 = 255 /\ f1 = 0) \/ f1 > f0
LoaderSecondIsNewer(f0, f1) == (f0 = 255 /\ f1 = 0) \/ (f1 > f0 /\ ~(f1 = 255 /\ f0 = 0))

Pick(second) ==
  IF ~Redundant \/ ~Valid(1) THEN 0
  ELSE IF ~Valid(0) \/ second THEN 1 ELSE 0

ToolPick ==
  Pick(IF scheme = "boolean" THEN SecondIsActive(Flag(0), Flag(1))
                             ELSE ToolSecondIsNewer(Flag(0), Flag(1)))
LoaderPick ==
  Pick(IF scheme = "boolean" THEN SecondIsActive(Flag(0), Flag(1))
                             ELSE LoaderSecondIsNewer(Flag(0), Flag(1)))

\* What the next boot reads.
Stored == Content(LoaderPick)

-----------------------------------------------------------------------------
\* A flash as it is found: never written, one good copy, or two, the newer one at c
\* (on NOR active, or programmed without a flag).
FirstFlash ==
  LET blank    == [j \in Piece |-> Blank]
      newer    == IF scheme = "boolean" THEN {1, 255} ELSE FirstFlags
      older(f) == IF scheme = "boolean" THEN 0 ELSE (f + 255) % 256
  IN \/ flash = [d \in Copies |-> blank]
     \/ \E c \in Copies, e \in Envs, f \in newer :
        \E other \in {blank, Image(Default, older(f))} :
          /\ Redundant \/ (c = 0 /\ other = blank)
          /\ flash = [d \in Copies |-> IF d = c THEN Image(e, f) ELSE other]

Init ==
  /\ scheme \in Schemes
  /\ FirstFlash
  /\ phase = "off" /\ pc = "idle" /\ k = 1
  /\ cur = 0 /\ env = None /\ flag = 0 /\ saves = 0
  /\ committed = (IF Valid(0) \/ Valid(1) THEN Stored ELSE None)
  /\ attempted = {} /\ aliased = FALSE

-----------------------------------------------------------------------------
(* A save, by the tool or the loader: flash_io, flash_write and              *)
(* flash_write_buf; saveenv and writeenv.                                    *)

\* Mutants: the copy in use is written over; the serial number stays as it is.
InPlace == cur
SameFlag == flag

Target == IF Redundant THEN 1 - cur ELSE cur

NextFlag == IF scheme = "incremental" THEN (flag + 1) % 256
            ELSE IF scheme = "boolean" THEN 1 ELSE flag

\* All is erased before anything is written: by nand_erase_opts, or on NOR.
WholeErase == phase = "loader" \/ scheme = "boolean"

StartSave(e) ==
  /\ saves < MaxSaves
  /\ pc' = "erase" /\ k' = 1
  /\ env' = e /\ flag' = NextFlag
  /\ saves' = saves + 1
  /\ attempted' = attempted \cup {e}
  /\ committed' = (IF Redundant THEN committed ELSE None)
  /\ UNCHANGED <<scheme, flash, phase, cur, aliased>>

\* The save returns: the tool exits, the loader goes on from copy c.
EndSave(c) ==
  /\ pc' = "idle" /\ k' = 1 /\ env' = None
  /\ IF phase = "loader" THEN cur' = c /\ flag' = flag ELSE cur' = 0 /\ flag' = 0
  /\ UNCHANGED <<scheme, phase, saves, aliased>>

\* Mutant of ErasePiece: the write goes on where the erase ended.
ErasePieceKeepingPlace ==
  /\ pc = "erase"
  /\ flash' = [flash EXCEPT ![Target][k] = Blank]
  /\ k' = IF WholeErase THEN k + 1 ELSE k
  /\ pc' = IF WholeErase /\ k < Pieces THEN "erase" ELSE "write"
  /\ UNCHANGED <<scheme, phase, cur, env, flag, saves, committed, attempted, aliased>>

ErasePiece ==
  /\ pc = "erase"
  /\ flash' = [flash EXCEPT ![Target][k] = Blank]
  /\ k' = IF ~WholeErase THEN k ELSE IF k < Pieces THEN k + 1 ELSE 1
  /\ pc' = IF WholeErase /\ k < Pieces THEN "erase" ELSE "write"
  /\ UNCHANGED <<scheme, phase, cur, env, flag, saves, committed, attempted, aliased>>

WritePiece ==
  /\ pc = "write"
  /\ flash' = [flash EXCEPT ![Target][k] = Image(env, flag)[k]]
  /\ \/ /\ k < Pieces
        /\ k' = k + 1
        /\ pc' = IF WholeErase THEN "write" ELSE "erase"
        /\ UNCHANGED <<scheme, phase, cur, env, flag, saves, committed, attempted, aliased>>
     \/ /\ k = Pieces /\ scheme = "boolean"
        /\ pc' = "mark"
        /\ UNCHANGED <<scheme, phase, k, cur, env, flag, saves, committed, attempted, aliased>>
     \/ /\ k = Pieces /\ scheme # "boolean"
        /\ committed' = env /\ attempted' = {}
        /\ EndSave(Target)

\* The copy that was in use is marked obsolete.  That this fails is noticed by the
\* loader, not by the tool.
FlagObsolete ==
  /\ pc = "mark"
  /\ \/ /\ flash' = [flash EXCEPT ![cur][1].flag = 0]
        /\ committed' = env /\ attempted' = {}
        /\ EndSave(Target)
     \/ /\ "mark" \in Faults /\ phase = "os"
        /\ committed' = env /\ attempted' = {}
        /\ EndSave(Target) /\ flash' = flash
     \/ /\ "mark" \in Faults /\ phase = "loader"
        /\ EndSave(cur) /\ UNCHANGED <<flash, committed, attempted>>

\* Erase or write fails, and so does the save.
Fail ==
  /\ pc \in {"erase", "write"} \cap Faults
  /\ EndSave(cur)
  /\ UNCHANGED <<flash, committed, attempted>>

-----------------------------------------------------------------------------
(* The boot loader. *)

\* On NOR it goes on to put the flags right, if it found a valid copy.
LoaderStart ==
  /\ phase = "off"
  /\ phase' = "loader"
  /\ cur' = LoaderPick
  /\ pc' = (IF scheme = "boolean" /\ Valid(LoaderPick) THEN "demote" ELSE "idle")
  /\ flag' = (IF Redundant /\ Valid(LoaderPick) THEN Flag(LoaderPick) ELSE 0)
  /\ committed' = (IF Valid(LoaderPick) THEN Stored ELSE None)
  /\ attempted' = {} /\ aliased' = FALSE
  /\ UNCHANGED <<scheme, flash, k, env, saves>>

\* A flag is written over another one; that this fails is not noticed.
Mark(c, f) ==
  \/ flash' = [flash EXCEPT ![c][1].flag = f]
  \/ "mark" \in Faults /\ flash' = flash

\* First the copy that is not in use is marked obsolete, if it is valid and is not so yet,
\* then the one in use active, if its flag is not (as that of an erased flash).
Demote ==
  /\ pc = "demote" /\ pc' = "promote"
  /\ IF Valid(1 - cur) /\ Flag(1 - cur) # 0 THEN Mark(1 - cur, 0) ELSE flash' = flash
  /\ UNCHANGED <<scheme, phase, k, cur, env, flag, saves, committed, attempted, aliased>>

Promote ==
  /\ pc = "promote" /\ pc' = "idle"
  /\ IF Flag(cur) # 1 /\ Flag(cur) % 2 = 1 THEN Mark(cur, 1) ELSE flash' = flash
  /\ UNCHANGED <<scheme, phase, k, cur, env, flag, saves, committed, attempted, aliased>>

\* setenv in the loader may change anything (CONFIG_ENV_OVERWRITE).
LoaderSave ==
  /\ phase = "loader" /\ pc = "idle"
  /\ \E e \in Envs : StartSave(e)

Boot ==
  /\ phase = "loader" /\ pc = "idle"
  /\ phase' = "os"
  /\ cur' = 0 /\ flag' = 0
  /\ UNCHANGED <<scheme, flash, pc, k, env, saves, committed, attempted, aliased>>

\* At any moment; also a reboot.
PowerLoss ==
  /\ phase # "off"
  /\ phase' = "off" /\ pc' = "idle" /\ k' = 1
  /\ cur' = 0 /\ env' = None /\ flag' = 0
  /\ UNCHANGED <<scheme, flash, saves, committed, attempted, aliased>>

-----------------------------------------------------------------------------
(* The tool: fw_env_open, fw_env_write once or for each line of a script,    *)
(* fw_env_close.  A line that fails ends the script, and what was set is     *)
(* saved all the same.                                                       *)

ToolOpen ==
  /\ phase = "os" /\ pc = "idle" /\ saves < MaxSaves
  /\ pc' = "edit"
  /\ cur' = ToolPick
  /\ env' = Content(ToolPick)
  /\ flag' = (IF Redundant THEN Flag(ToolPick) ELSE 0)
  /\ UNCHANGED <<scheme, flash, phase, k, saves, committed, attempted, aliased>>

\* What can be set only once, and was.
SetOnce(n) == n \in WriteOnce /\ env[n] # Unset

\* Mutant of Protected: nothing is.
Unprotected(n, alias) == FALSE

\* The name is compared with the protected ones as it is given (strcmp).
Protected(n, alias) == ~alias /\ SetOnce(n)

Fits(n) == Cardinality({m \in Names \ {n} : env[m] # Unset}) < Capacity

\* The name is given plain or, as an alias, with a "=" at its end: the variable is found
\* either way (envmatch), and what an alias sets it to begins with a "=" of its own.
ToolEdit(n, v, alias) ==
  /\ pc = "edit"
  /\ \/ /\ Protected(n, alias)
        /\ env' = env /\ pc' = "close"
     \/ /\ ~Protected(n, alias) /\ (v = Unset \/ Fits(n))
        /\ env' = [env EXCEPT ![n] = v] /\ pc' = pc
     \/ /\ ~Protected(n, alias) /\ v # Unset /\ ~Fits(n)
        /\ env' = [env EXCEPT ![n] = Unset] /\ pc' = "close"
  /\ aliased' = (aliased \/ (alias /\ SetOnce(n)))
  /\ UNCHANGED <<scheme, flash, phase, k, cur, flag, saves, committed, attempted>>

ToolClose ==
  /\ pc \in {"edit", "close"}
  /\ StartSave(env)

Next ==
  \/ LoaderStart \/ Demote \/ Promote \/ LoaderSave \/ Boot \/ PowerLoss
  \/ ToolOpen \/ ToolClose
  \/ \E n \in Names, v \in Values \cup {Unset}, alias \in BOOLEAN : ToolEdit(n, v, alias)
  \/ ErasePiece \/ WritePiece \/ FlagObsolete \/ Fail

Spec == Init /\ [][Next]_vars

-----------------------------------------------------------------------------
PieceState == [env : Envs \cup {None, Padding}, flag : Flags]

\* The values of the variables.
TypeOK ==
  /\ scheme \in Schemes
  /\ flash \in [Copies -> [Piece -> PieceState]]
  /\ phase \in {"off", "loader", "os"}
  /\ pc \in {"idle", "demote", "promote", "edit", "close", "erase", "write", "mark"}
  /\ k \in Piece
  /\ cur \in Copies
  /\ env \in Envs \cup {None} /\ (env = None => pc \in {"idle", "demote", "promote"})
  /\ flag \in Flags
  /\ saves \in 0..MaxSaves
  /\ committed \in Envs \cup {None} /\ attempted \subseteq Envs /\ aliased \in BOOLEAN

\* With two copies, once one was good one is, at every moment of every save,
\* whatever fails: "a valid backup copy in case there is a power failure
\* during a saveenv operation" (u-boot/README:2676).
SomeCopyValid == (Redundant /\ committed # None) => Valid(0) \/ Valid(1)

\* The pieces of the target that the save has written already.
Written(j) ==
  \/ pc = "write" /\ j < k
  \/ pc = "erase" /\ ~WholeErase /\ j < k
  \/ pc = "mark"

\* The strengthening of SomeCopyValid that every step preserves: the copy in use
\* stays valid while the loader runs or a save is under way, and the pieces
\* already written are of the image being saved.
Backed ==
  /\ phase = "off" => pc = "idle"
  /\ pc \in {"edit", "close"} => phase = "os"
  /\ pc \in {"demote", "promote"} => phase = "loader"
  /\ Redundant /\ committed # None /\ (phase = "loader" \/ pc # "idle") => Valid(cur)
  /\ \A j \in Piece : Written(j) => flash[Target][j].env = Image(env, 0)[j].env
  /\ pc = "mark" => Redundant

IInv == TypeOK /\ SomeCopyValid /\ Backed

\* What the next boot would read is what was saved last, or what a save
\* after it that did not end was to write: never an older environment, never the defaults.
CrashSafe == committed # None => Stored \in {committed} \cup attempted

\* The tool and the loader read the same copy, from whatever saves,
\* failures and power losses left in flash.
ReadersAgree == ToolPick = LoaderPick

\* No use of the tool with plain names, complete, failed or interrupted, changes or loses
\* a serial# or ethaddr that was saved or booted before.  (fw_setenv "ethaddr=" does.)
WriteOnceKept ==
  [][(Redundant /\ phase = "os" /\ phase' = "os" /\ committed # None /\ ~aliased)
       => \A n \in WriteOnce, e \in ({committed'} \cup attempted') \ attempted :
             committed[n] # Unset => e[n] = committed[n]]_vars

=============================================================================
