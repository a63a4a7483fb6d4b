-------------------------- MODULE G1DecoderProofs --------------------------
(***************************************************************************)
(* Proofs about G1Decoder, for any set of clients, any amount of memory    *)
(* and whatever may go wrong: each semaphore has at most one holder, the   *)
(* instances know when they hold it, and the hardware never works on       *)
(* memory that is given back.                                              *)
(***************************************************************************)
EXTENDS G1Decoder, FiniteSetTheorems, TLAPS

-----------------------------------------------------------------------------
(* The control state of one instance, r, and the semaphores h it holds.    *)

Blocks == [file : Files, chunks : SUBSET Chunk]

Instance == [pc : {"out", "idle", "checked", "free", "freeasic", "alloc", "flush",
                   "reserve", "ppreserve", "ppagain", "enable", "wait", "release", "ppend",
                   "close", "closing", "dead"},
             then : {"idle", "checked", "release", "alloc", "close"},
             attached : BOOLEAN,
             ppStatus : {"IDLE", "RUNNING", "PIC_NOT_FINISHED"},
             mode : {"idle", "alone", "pipeline", "parallel"},
             asicRunning : BOOLEAN, keepHwReserved : BOOLEAN, pics : SUBSET Blocks]

\* On its way to DWLReleaseHw at the end of a picture or of the stream.
Releasing(r) == r.pc = "release" \/ (r.pc = "ppend" /\ r.then = "release")

\* Where the call goes on.
ThenInv(r) ==
    /\ r.pc = "ppend" => r.then \in {"idle", "checked", "release"}
    /\ r.pc = "free" => r.then \in {"alloc", "close"}
    /\ r.pc = "freeasic" => r.then = "alloc"
    /\ r.pc \notin {"ppend", "free", "freeasic"} => r.then = "idle"

\* When the decoder's flags can be set.
FlagsInv(r) ==
    /\ r.asicRunning => \/ r.pc \in {"idle", "flush", "ppreserve", "ppagain", "enable", "wait"}
                        \/ Releasing(r)
                        \/ r.pc = "ppend" /\ r.mode = "alone"
    /\ r.pc \in {"flush", "enable", "wait"} => r.asicRunning
    /\ r.pc = "ppreserve" /\ r.mode # "alone" => r.asicRunning
    /\ r.pc \in {"out", "free", "close", "closing", "reserve"} => ~r.keepHwReserved

\* When the post-processor can be at work.
PpInv(r) ==
    /\ ~r.attached => r.ppStatus = "IDLE"
    /\ r.mode = "alone" => \/ r.pc \in {"ppreserve", "ppagain"}
                           \/ r.pc = "ppend" /\ r.then = "idle"
    /\ r.pc = "ppagain" => r.mode = "alone"
    /\ r.ppStatus = "IDLE" /\ r.mode # "idle" => r.pc = "ppend" \/ r.mode = "alone"
    /\ r.ppStatus = "RUNNING" =>
          \/ r.pc \in {"reserve", "flush", "ppreserve", "ppagain", "enable", "wait"}
          \/ r.pc = "idle" /\ r.asicRunning
          \/ r.pc \in {"idle", "freeasic", "alloc"} /\ r.mode = "idle"
          \/ r.pc = "ppend" /\ r.mode = "alone"
    /\ r.ppStatus = "RUNNING" /\ r.pc \in {"reserve", "flush"} => r.mode # "idle"
    /\ r.pc = "ppreserve" => r.mode # "idle"
    /\ r.ppStatus = "PIC_NOT_FINISHED" =>
          /\ r.keepHwReserved /\ r.mode # "pipeline"
          /\ r.pc \in {"idle", "flush", "wait", "freeasic", "alloc"}

\* The instance will post the semaphore of the decoder ...
Due(r) == r.asicRunning \/ r.keepHwReserved \/ Releasing(r)

\* ... and that of the post-processor.
PpDue(r) ==
    /\ r.mode # "idle" /\ r.pc # "ppreserve"
    /\ ~(r.pc \in {"reserve", "flush"} /\ r.ppStatus = "RUNNING")

InstanceInv(r, h) ==
    r.pc # "dead" => /\ ThenInv(r) /\ FlagsInv(r) /\ PpInv(r)
                     /\ "pp" \in h <=> PpDue(r)
                     /\ "dec" \in h => Due(r)
                     /\ Releasing(r) /\ r.keepHwReserved => "dec" \in h

\* The instance will post the semaphore of the decoder once more than it has
\* waited for it: what the end of the stream in a second field leads to.
Overdue(r, h) ==
    /\ r.pc # "dead"
    /\ \/ Releasing(r) /\ r.keepHwReserved
       \/ Due(r) /\ "dec" \notin h

\* Where an instance is when the hardware works for it.
Drives(l, r) ==
    IF l = "pp" THEN PpDue(r)
                ELSE r.pc = "wait" \/ (r.asicRunning /\ (r.pc = "idle" \/ r.mode = "alone"))

-----------------------------------------------------------------------------
(* The inductive invariant.                                                *)

Holders(l) == {d \in Files : l \in has[d]}

Total(l) == sem[l] + Cardinality(Holders(l))

Runs(l) == hw[l].st \in {"run", "empty"}

TypeInv ==
    /\ blocks \subseteq Blocks
    /\ files \in [Files -> {"closed", "open", "closing"}] /\ races = {}
    /\ together \in BOOLEAN
    /\ inst \in [Files -> Instance]
    /\ sem \in [Locks -> Nat]
    /\ has \in [Files -> SUBSET Locks]
    /\ DOMAIN hw = Locks
    /\ \A l \in Locks : /\ hw[l].st \in {"off", "run", "empty", "done"}
                        /\ hw[l].by \in Files \cup {"none"}
                        /\ hw[l].dma \subseteq Blocks
    /\ slipped \in Slips \cup {"none"}

InstancesInv == \A d \in Files : InstanceInv(inst[d], has[d])

\* A post too many comes from one instance, after the slip.
LocksInv ==
    /\ \A l \in Locks : IsFiniteSet(Holders(l))
    /\ Total("pp") = 1
    /\ \/ /\ Total("dec") = 1
          /\ slipped # "eos" => \A d \in Files : ~Overdue(inst[d], has[d])
          /\ \A d, e \in Files : Overdue(inst[d], has[d]) /\ Overdue(inst[e], has[e]) => d = e
       \/ /\ Total("dec") = 2
          /\ slipped = "eos"
          /\ \A d \in Files : ~Overdue(inst[d], has[d])

\* The pictures of an instance are among its buffers.
PicsInv == \A d \in Files : pc(d) # "dead" => inst[d].pics \subseteq Owned(d)

\* What a piece of hardware may reach of an instance.
Reach(l, d) == IF l = "pp" THEN inst[d].pics ELSE blocks

WorkInv ==
    \A l \in Locks : Runs(l) =>
       /\ hw[l].by \in Files
       /\ \A b \in hw[l].dma : b.file = hw[l].by
       /\ IF pc(hw[l].by) = "dead"
          THEN slipped # "eos" => l \in has[hw[l].by]
          ELSE hw[l].dma \subseteq Reach(l, hw[l].by) /\ Drives(l, inst[hw[l].by])

IInv == TypeInv /\ InstancesInv /\ LocksInv /\ PicsInv /\ WorkInv

-----------------------------------------------------------------------------
(* What a step of a living client does, all that the invariant needs.      *)

Local(d) ==
    /\ inst' = [inst EXCEPT ![d] = inst'[d]] /\ inst'[d] \in Instance
    /\ has' = [has EXCEPT ![d] = has'[d]]
    /\ InstanceInv(inst'[d], has'[d])

LockStep(d) ==
    /\ Overdue(inst'[d], has'[d]) => \/ Overdue(inst[d], has[d])
                                     \/ slipped = "none" /\ slipped' = "eos"
    /\ \/ UNCHANGED <<sem, has>>
       \/ \E l \in Locks : l \notin has[d] /\ Wait(d, l)
       \/ \E l \in Locks : l \in has[d] /\ Post(d, l)
       \/ /\ Post(d, "dec") /\ "dec" \notin has[d]
          /\ Overdue(inst[d], has[d]) /\ ~Overdue(inst'[d], has'[d])

WorkStep(d) ==
    /\ \A b \in blocks \ blocks' : b.file = d
    /\ inst'[d].pics \subseteq {b \in blocks' : b.file = d}
    /\ DOMAIN hw' = Locks
    /\ \A l \in Locks :
          \/ hw'[l] = hw[l] /\ (Runs(l) /\ hw[l].by = d =>
                                   /\ Reach(l, d) \subseteq Reach(l, d)'
                                   /\ Drives(l, inst'[d]))
          \/ hw'[l] = Off
          \/ /\ hw'[l] = Enabled(d, l) /\ Drives(l, inst'[d])
             /\ blocks' = blocks /\ inst'[d].pics = inst[d].pics

RestStep ==
    /\ blocks' \subseteq Blocks
    /\ files' \in [Files -> {"closed", "open", "closing"}] /\ UNCHANGED <<races, together>>
    /\ slipped' \in Slips \cup {"none"} /\ (slipped' = slipped \/ slipped' = "eos")

Step(d) ==
    /\ pc(d) # "dead" /\ inst'[d].pc # "dead"
    /\ Local(d) /\ LockStep(d) /\ WorkStep(d) /\ RestStep

-----------------------------------------------------------------------------
(* Semaphores.                                                             *)

LEMMA WaitTotal ==
  ASSUME TypeInv, LocksInv, NEW d \in Files, NEW l \in Locks, l \notin has[d], Wait(d, l)
  PROVE  /\ sem' \in [Locks -> Nat] /\ has' \in [Files -> SUBSET Locks]
         /\ \A k \in Locks : IsFiniteSet(Holders(k)') /\ Total(k)' = Total(k)
  <1>1. /\ sem' = [sem EXCEPT ![l] = sem[l] - 1] /\ sem[l] \in Nat /\ sem[l] > 0
        /\ has' = [has EXCEPT ![d] = has[d] \cup {l}]
    BY DEF TypeInv, Wait
  <1>2. sem' \in [Locks -> Nat] /\ has' \in [Files -> SUBSET Locks]
    BY <1>1 DEF TypeInv
  <1>3. ASSUME NEW k \in Locks PROVE IsFiniteSet(Holders(k)') /\ Total(k)' = Total(k)
    <2>1. CASE k = l
      <3>1. Holders(k)' = Holders(k) \cup {d} /\ d \notin Holders(k)
        BY <1>1, <2>1 DEF Holders, TypeInv
      <3>2. IsFiniteSet(Holders(k)) /\ Cardinality(Holders(k)) \in Nat
        BY FS_CardinalityType DEF LocksInv
      <3>3. IsFiniteSet(Holders(k)') /\ Cardinality(Holders(k)') = Cardinality(Holders(k)) + 1
        BY <3>1, <3>2, FS_AddElement
      <3>4. sem'[k] = sem[k] - 1
        BY <1>1, <2>1 DEF TypeInv
      <3> QED
        BY <1>1, <2>1, <3>2, <3>3, <3>4 DEF Total
    <2>2. CASE k # l
      <3>1. Holders(k)' = Holders(k) /\ sem'[k] = sem[k]
        BY <1>1, <2>2 DEF Holders, TypeInv
      <3> QED
        BY <3>1 DEF Total, LocksInv
    <2> QED
      BY <2>1, <2>2
  <1> QED
    BY <1>2, <1>3

\* A post raises the total exactly when the semaphore was not held.
LEMMA PostTotal ==
  ASSUME TypeInv, LocksInv, NEW d \in Files, NEW l \in Locks, Post(d, l)
  PROVE  /\ sem' \in [Locks -> Nat] /\ has' \in [Files -> SUBSET Locks]
         /\ \A k \in Locks :
               /\ IsFiniteSet(Holders(k)')
               /\ Total(k)' = IF k = l /\ l \notin has[d] THEN Total(k) + 1 ELSE Total(k)
  <1>1. /\ sem' = [sem EXCEPT ![l] = sem[l] + 1] /\ sem[l] \in Nat
        /\ has' = [has EXCEPT ![d] = has[d] \ {l}]
    BY DEF TypeInv, Post
  <1>2. sem' \in [Locks -> Nat] /\ has' \in [Files -> SUBSET Locks]
    BY <1>1 DEF TypeInv
  <1>3. ASSUME NEW k \in Locks
        PROVE  /\ IsFiniteSet(Holders(k)')
               /\ Total(k)' = IF k = l /\ l \notin has[d] THEN Total(k) + 1 ELSE Total(k)
    <2>0. IsFiniteSet(Holders(k)) /\ Cardinality(Holders(k)) \in Nat
      BY FS_CardinalityType DEF LocksInv
    <2>1. CASE k = l
      <3>1. Holders(k)' = Holders(k) \ {d}
        BY <1>1, <2>1 DEF Holders, TypeInv
      <3>2. d \in Holders(k) <=> l \in has[d]
        BY <2>1 DEF Holders
      <3>3. /\ IsFiniteSet(Holders(k)')
            /\ Cardinality(Holders(k)') = IF l \in has[d] THEN Cardinality(Holders(k)) - 1
                                                          ELSE Cardinality(Holders(k))
        BY <2>0, <3>1, <3>2, FS_RemoveElement
      <3>4. sem'[k] = sem[k] + 1
        BY <1>1, <2>1 DEF TypeInv
      <3> QED
        BY <1>1, <2>0, <2>1, <3>3, <3>4 DEF Total
    <2>2. CASE k # l
      <3>1. Holders(k)' = Holders(k) /\ sem'[k] = sem[k]
        BY <1>1, <2>2 DEF Holders, TypeInv
      <3> QED
        BY <2>0, <2>2, <3>1 DEF Total
    <2> QED
      BY <2>1, <2>2
  <1> QED
    BY <1>2, <1>3

\* The semaphore of the post-processor has one holder, so it is not got twice.
LEMMA HeldIsTaken ==
  ASSUME TypeInv, LocksInv, NEW d \in Files, "pp" \in has[d]
  PROVE  sem["pp"] = 0
  <1>1. "pp" \in Locks /\ d \in Holders("pp")
    BY DEF Locks, Holders
  <1>2. IsFiniteSet(Holders("pp")) /\ Cardinality(Holders("pp")) \in Nat /\ sem["pp"] \in Nat
    BY <1>1, FS_CardinalityType DEF LocksInv, TypeInv
  <1>3. Cardinality(Holders("pp")) # 0
    BY <1>1, <1>2, FS_EmptySet
  <1> QED
    BY <1>2, <1>3 DEF LocksInv, Total
-----------------------------------------------------------------------------
(* A step of a living client preserves the invariant.                      *)

LEMMA LockStepTypes ==
  ASSUME TypeInv, LocksInv, NEW d \in Files, LockStep(d)
  PROVE  /\ sem' \in [Locks -> Nat] /\ has' \in [Files -> SUBSET Locks]
         /\ \A l \in Locks : IsFiniteSet(Holders(l)')
         /\ Total("pp")' = Total("pp")
         /\ \/ Total("dec")' = Total("dec")
            \/ /\ Total("dec")' = Total("dec") + 1
               /\ Overdue(inst[d], has[d]) /\ ~Overdue(inst'[d], has'[d])
  <1>1. CASE UNCHANGED <<sem, has>>
    <2>1. \A l \in Locks : Holders(l)' = Holders(l) /\ Total(l)' = Total(l)
      BY <1>1 DEF Holders, Total
    <2> QED
      BY <1>1, <2>1 DEF TypeInv, LocksInv, Locks
  <1>2. CASE \E l \in Locks : l \notin has[d] /\ Wait(d, l)
    BY <1>2, WaitTotal DEF Locks
  <1>3. CASE \E l \in Locks : l \in has[d] /\ Post(d, l)
    <2> PICK l \in Locks : l \in has[d] /\ Post(d, l)
      BY <1>3
    <2>1. \A k \in Locks : IsFiniteSet(Holders(k)') /\ Total(k)' = Total(k)
      BY PostTotal
    <2>2. sem' \in [Locks -> Nat] /\ has' \in [Files -> SUBSET Locks]
      BY PostTotal
    <2> QED
      BY <2>1, <2>2 DEF Locks
  <1>4. CASE /\ Post(d, "dec") /\ "dec" \notin has[d]
             /\ Overdue(inst[d], has[d]) /\ ~Overdue(inst'[d], has'[d])
    <2>1. "dec" \in Locks /\ "pp" \in Locks
      BY DEF Locks
    <2>2. /\ sem' \in [Locks -> Nat] /\ has' \in [Files -> SUBSET Locks]
          /\ \A l \in Locks : IsFiniteSet(Holders(l)')
          /\ Total("pp")' = Total("pp")
          /\ Total("dec")' = Total("dec") + 1
      BY <1>4, <2>1, PostTotal
    <2> QED
      BY <1>4, <2>2
  <1> QED
    BY <1>1, <1>2, <1>3, <1>4 DEF LockStep

LEMMA LocksStep ==
  ASSUME TypeInv, LocksInv, NEW d \in Files, Local(d), LockStep(d), RestStep
  PROVE  LocksInv'
  <1> DEFINE o(e) == Overdue(inst[e], has[e])
             p(e) == Overdue(inst'[e], has'[e])
             t == Total("dec")
             u == Total("dec")'
  <1>1. \A e \in Files : e # d => (p(e) <=> o(e))
    BY DEF Local, TypeInv
  <1>2. p(d) => o(d) \/ (slipped = "none" /\ slipped' = "eos")
    BY DEF LockStep
  <1>3. slipped' = slipped \/ slipped' = "eos"
    BY DEF RestStep
  <1>4. /\ \A l \in Locks : IsFiniteSet(Holders(l)')
        /\ Total("pp")' = 1
        /\ u = t \/ (u = t + 1 /\ o(d) /\ ~p(d))
    BY LockStepTypes DEF LocksInv
  <1>5. \/ /\ t = 1
           /\ slipped # "eos" => \A e \in Files : ~o(e)
           /\ \A e, f \in Files : o(e) /\ o(f) => e = f
        \/ /\ t = 2 /\ slipped = "eos" /\ \A e \in Files : ~o(e)
    BY DEF LocksInv
  <1> HIDE DEF o, p, t, u
  <1>6. \/ /\ u = 1
           /\ slipped' # "eos" => \A e \in Files : ~p(e)
           /\ \A e, f \in Files : p(e) /\ p(f) => e = f
        \/ /\ u = 2 /\ slipped' = "eos" /\ \A e \in Files : ~p(e)
    <2>1. CASE u = t /\ (slipped # "eos" => slipped' # "eos")
      BY <1>1, <1>2, <1>3, <1>5, <2>1
    <2>2. CASE u = t /\ slipped # "eos" /\ slipped' = "eos"
      BY <1>1, <1>2, <1>3, <1>5, <2>2
    <2>3. CASE u = t + 1 /\ o(d) /\ ~p(d)
      <3>1. t = 1 /\ slipped = "eos" /\ \A e \in Files : o(e) => e = d
        BY <1>5, <2>3
      <3> QED
        BY <1>1, <1>3, <2>3, <3>1
    <2> QED
      BY <1>4, <2>1, <2>2, <2>3
  <1> QED
    BY <1>4, <1>6 DEF LocksInv, p, u

LEMMA WorkKept ==
  ASSUME IInv, NEW d \in Files, Step(d)
  PROVE  PicsInv' /\ WorkInv' /\ DOMAIN hw' = Locks
         /\ \A l \in Locks : /\ hw'[l].st \in {"off", "run", "empty", "done"}
                             /\ hw'[l].by \in Files \cup {"none"}
                             /\ hw'[l].dma \subseteq Blocks
  <1>0. /\ \A e \in Files : e # d => inst'[e] = inst[e] /\ has'[e] = has[e]
        /\ pc(d) # "dead" /\ inst'[d].pc # "dead"
        /\ slipped # "eos" \/ slipped' = "eos"
    BY DEF Step, Local, IInv, TypeInv, RestStep
  <1>1. ASSUME NEW l \in Locks
        PROVE  /\ hw'[l].st \in {"off", "run", "empty", "done"}
               /\ hw'[l].by \in Files \cup {"none"}
               /\ hw'[l].dma \subseteq Blocks
               /\ Runs(l)' =>
                     /\ hw'[l].by \in Files
                     /\ \A b \in hw'[l].dma : b.file = hw'[l].by
                     /\ IF pc(hw[l].by)' = "dead"
                        THEN slipped' # "eos" => l \in has'[hw'[l].by]
                        ELSE hw'[l].dma \subseteq Reach(l, hw[l].by)' /\ Drives(l, inst'[hw'[l].by])
    <2>1. CASE hw'[l] = Off
      BY <2>1 DEF Off, Runs
    <2>2. CASE /\ hw'[l] = Enabled(d, l) /\ Drives(l, inst'[d])
               /\ blocks' = blocks /\ inst'[d].pics = inst[d].pics
      <3>1. /\ hw'[l].st = "run" /\ hw'[l].by = d
            /\ hw'[l].dma = IF l = "pp" THEN inst[d].pics ELSE Owned(d)
        BY <2>2 DEF Enabled
      <3>2. /\ hw'[l].dma \subseteq Owned(d)
            /\ l = "pp" => hw'[l].dma \subseteq inst'[d].pics
        BY <1>0, <2>2, <3>1 DEF IInv, PicsInv
      <3> QED
        BY <1>0, <2>2, <3>1, <3>2 DEF Owned, Reach, IInv, TypeInv, pc
    <2>3. CASE hw'[l] = hw[l] /\ (Runs(l) /\ hw[l].by = d =>
                                     /\ Reach(l, d) \subseteq Reach(l, d)'
                                     /\ Drives(l, inst'[d]))
      <3>1. /\ hw'[l].st \in {"off", "run", "empty", "done"}
            /\ hw'[l].by \in Files \cup {"none"} /\ hw'[l].dma \subseteq Blocks
            /\ Runs(l)' = Runs(l)
        BY <2>3 DEF IInv, TypeInv, Runs
      <3>2. ASSUME Runs(l)
            PROVE  /\ hw'[l].by \in Files
                   /\ \A b \in hw'[l].dma : b.file = hw'[l].by
                   /\ IF pc(hw[l].by)' = "dead"
                      THEN slipped' # "eos" => l \in has'[hw'[l].by]
                      ELSE hw'[l].dma \subseteq Reach(l, hw[l].by)' /\ Drives(l, inst'[hw'[l].by])
        <4> PICK e \in Files : e = hw[l].by
          BY <3>2 DEF IInv, WorkInv
        <4>1. /\ \A b \in hw[l].dma : b.file = e
              /\ IF inst[e].pc = "dead" THEN slipped # "eos" => l \in has[e]
                 ELSE hw[l].dma \subseteq Reach(l, e) /\ Drives(l, inst[e])
          BY <3>2 DEF IInv, WorkInv, pc
        <4>2. CASE e = d
          BY <1>0, <2>3, <3>2, <4>1, <4>2 DEF pc
        <4>3. CASE e # d
          <5>1. \A b \in blocks \ blocks' : b.file = d
            BY DEF Step, WorkStep
          <5>2. hw[l].dma \subseteq Reach(l, e) => hw[l].dma \subseteq Reach(l, e)'
            BY <1>0, <4>1, <4>3, <5>1 DEF Reach
          <5> QED
            BY <1>0, <2>3, <4>1, <4>3, <5>2 DEF pc
        <4> QED
          BY <4>2, <4>3
      <3> QED
        BY <3>1, <3>2
    <2> QED
      BY <2>1, <2>2, <2>3 DEF Step, WorkStep
  <1>2. DOMAIN hw' = Locks
    BY DEF Step, WorkStep
  <1>3. PicsInv'
    <2> SUFFICES ASSUME NEW e \in Files, inst'[e].pc # "dead"
                 PROVE  inst'[e].pics \subseteq Owned(e)'
      BY DEF PicsInv, pc
    <2>1. CASE e = d
      BY <2>1 DEF Step, WorkStep, Owned
    <2>2. CASE e # d
      <3>1. inst[e].pics \subseteq Owned(e) /\ inst'[e] = inst[e]
        BY <1>0, <2>2 DEF IInv, PicsInv, pc
      <3>2. \A b \in blocks \ blocks' : b.file = d
        BY DEF Step, WorkStep
      <3> QED
        BY <2>2, <3>1, <3>2 DEF Owned
    <2> QED
      BY <2>1, <2>2
  <1> QED
    BY <1>1, <1>2, <1>3 DEF WorkInv, pc

LEMMA StepPreserves ==
  ASSUME IInv, NEW d \in Files, Step(d)
  PROVE  IInv'
  <1>1. LocksInv'
    BY LocksStep DEF IInv, Step
  <1>2. /\ sem' \in [Locks -> Nat] /\ has' \in [Files -> SUBSET Locks]
    BY LockStepTypes DEF IInv, Step
  <1>3. InstancesInv'
    BY DEF IInv, TypeInv, InstancesInv, Step, Local
  <1>4. inst' \in [Files -> Instance]
    BY DEF IInv, TypeInv, Step, Local
  <1>5. TypeInv'
    BY <1>2, <1>4, WorkKept DEF IInv, TypeInv, Step, RestStep
  <1> QED
    BY <1>1, <1>3, <1>5, WorkKept DEF IInv

-----------------------------------------------------------------------------
(* Every action of a living client is such a step.                         *)

LEMMA InstanceFacts ==
  ASSUME IInv, NEW d \in Files
  PROVE  /\ inst[d] \in Instance /\ has[d] \in SUBSET Locks
         /\ inst \in [Files -> Instance] /\ has \in [Files -> SUBSET Locks]
         /\ InstanceInv(inst[d], has[d])
  BY DEF IInv, TypeInv, InstancesInv

\* Memory stays; each piece of hardware is stopped, started, or left alone.
LEMMA WorkKeepsMemory ==
  ASSUME IInv, NEW d \in Files, blocks' = blocks, inst'[d].pics = inst[d].pics, DOMAIN hw' = Locks,
         \A l \in Locks :
            \/ hw'[l] = Off
            \/ hw'[l] = Enabled(d, l) /\ Drives(l, inst'[d])
            \/ hw'[l] = hw[l] /\ (Runs(l) /\ Drives(l, inst[d]) => Drives(l, inst'[d])),
         pc(d) # "dead"
  PROVE  WorkStep(d)
  <1>1. inst'[d].pics \subseteq {b \in blocks' : b.file = d}
    BY DEF IInv, PicsInv, Owned
  <1>2. \A l \in Locks : Reach(l, d) \subseteq Reach(l, d)'
    BY DEF Reach
  <1>3. \A l \in Locks : Runs(l) /\ hw[l].by = d => Drives(l, inst[d])
    BY DEF IInv, WorkInv
  <1> QED
    BY <1>1, <1>2, <1>3 DEF WorkStep

LEMMA WorkHwSame ==
  ASSUME IInv, NEW d \in Files, blocks' = blocks, inst'[d].pics = inst[d].pics, hw' = hw,
         pc(d) # "dead",
         Runs("dec") /\ Drives("dec", inst[d]) => Drives("dec", inst'[d]),
         Runs("pp") /\ Drives("pp", inst[d]) => Drives("pp", inst'[d])
  PROVE  WorkStep(d)
  <1>1. DOMAIN hw' = Locks
    BY DEF IInv, TypeInv
  <1>2. \A l \in Locks : Runs(l) /\ Drives(l, inst[d]) => Drives(l, inst'[d])
    BY DEF Locks
  <1> QED
    BY <1>1, <1>2, WorkKeepsMemory

LEMMA WorkHwChanged ==
  ASSUME IInv, NEW d \in Files, blocks' = blocks, inst'[d].pics = inst[d].pics, pc(d) # "dead",
         NEW l \in Locks, NEW k \in Locks, l # k,
         \/ hw' = [hw EXCEPT ![l] = Off]
         \/ hw' = [hw EXCEPT ![l] = Enabled(d, l)] /\ Drives(l, inst'[d]),
         Runs(k) /\ Drives(k, inst[d]) => Drives(k, inst'[d])
  PROVE  WorkStep(d)
  <1>1. DOMAIN hw = Locks /\ Locks = {l, k}
    BY DEF IInv, TypeInv, Locks
  <1>2. DOMAIN hw' = Locks /\ hw'[k] = hw[k]
        /\ (hw'[l] = Off \/ (hw'[l] = Enabled(d, l) /\ Drives(l, inst'[d])))
    BY <1>1
  <1> QED
    BY <1>1, <1>2, WorkKeepsMemory

\* Memory comes and goes only when the decoder does nothing for the instance, and
\* the post-processor nothing or only with pictures that stay.
LEMMA WorkMemory ==
  ASSUME IInv, NEW d \in Files, hw' = hw, pc(d) # "dead",
         \A b \in blocks \ blocks' : b.file = d,
         inst'[d].pics \subseteq {b \in blocks' : b.file = d},
         ~Drives("dec", inst[d]),
         Drives("pp", inst[d]) => Drives("pp", inst'[d]) /\ inst[d].pics \subseteq inst'[d].pics
  PROVE  WorkStep(d)
  <1>1. Runs("dec") => hw["dec"].by # d
    BY DEF IInv, WorkInv, Locks
  <1>2. Runs("pp") /\ hw["pp"].by = d => /\ Reach("pp", d) \subseteq Reach("pp", d)'
                                         /\ Drives("pp", inst'[d])
    BY DEF IInv, WorkInv, Locks, Reach
  <1>3. DOMAIN hw' = Locks
    BY DEF IInv, TypeInv
  <1> QED
    BY <1>1, <1>2, <1>3 DEF WorkStep, Locks

LEMMA DWLInitStep ==
  ASSUME IInv, NEW d \in Files, DWLInit(d)
  PROVE  Step(d)
  <1>0. /\ inst[d] \in Instance /\ has[d] \in SUBSET Locks
        /\ inst \in [Files -> Instance] /\ has \in [Files -> SUBSET Locks]
        /\ InstanceInv(inst[d], has[d])
    BY InstanceFacts
  <1>1. pc(d) # "dead" /\ inst'[d].pc # "dead" /\ Local(d)
    BY <1>0 DEF DWLInit, Open, Local, pc, Instance, Locks, hwVars, InstanceInv, ThenInv,
       FlagsInv, PpInv, Due, PpDue, Releasing
  <1>2. LockStep(d)
    BY <1>0 DEF DWLInit, Open, Wait, Post, LockStep, Overdue, pc, Instance, Locks, hwVars,
       InstanceInv, ThenInv, FlagsInv, PpInv, Due, PpDue, Releasing
  <1>3. WorkStep(d)
    <2>1. Runs("dec") /\ Drives("dec", inst[d]) => Drives("dec", inst'[d])
      BY <1>0 DEF DWLInit, Open, Drives, Runs, pc, Instance, Locks, hwVars, linearVars,
         InstanceInv, ThenInv, FlagsInv, PpInv, Due, PpDue, Releasing
    <2>2. Runs("pp") /\ Drives("pp", inst[d]) => Drives("pp", inst'[d])
      BY <1>0 DEF DWLInit, Open, Drives, Runs, pc, Instance, Locks, hwVars, linearVars,
         InstanceInv, ThenInv, FlagsInv, PpInv, Due, PpDue, Releasing
    <2>3. blocks' = blocks /\ hw' = hw
      BY DEF DWLInit, Open, linearVars, hwVars
    <2>4. inst'[d].pics = inst[d].pics
      BY <1>0 DEF DWLInit, Instance
    <2> QED
      BY <1>1, <2>1, <2>2, <2>3, <2>4, WorkHwSame
  <1>4. RestStep
    BY <1>0, LinearAssumption DEF DWLInit, Open, RestStep, IInv, TypeInv, linearVars, hwVars,
       Blocks, Chunk
  <1> QED
    BY <1>1, <1>2, <1>3, <1>4 DEF Step

LEMMA CheckReleasePpAndHwStep ==
  ASSUME IInv, NEW d \in Files, CheckReleasePpAndHw(d)
  PROVE  Step(d)
  <1>0. /\ inst[d] \in Instance /\ has[d] \in SUBSET Locks
        /\ inst \in [Files -> Instance] /\ has \in [Files -> SUBSET Locks]
        /\ InstanceInv(inst[d], has[d])
    BY InstanceFacts
  <1>1. pc(d) # "dead" /\ inst'[d].pc # "dead" /\ Local(d)
    BY <1>0, ZenonT(30) DEF CheckReleasePpAndHw, PpActive, Local, pc, Instance, Locks, hwVars, InstanceInv,
       ThenInv, FlagsInv, PpInv, Due, PpDue, Releasing
  <1>2. LockStep(d)
    BY <1>0 DEF CheckReleasePpAndHw, PpActive, Wait, Post, LockStep, Overdue, pc, Instance,
       Locks, hwVars, InstanceInv, ThenInv, FlagsInv, PpInv, Due, PpDue, Releasing
  <1>3. WorkStep(d)
    <2>1. Runs("dec") /\ Drives("dec", inst[d]) => Drives("dec", inst'[d])
      BY <1>0 DEF CheckReleasePpAndHw, PpActive, Drives, Runs, pc, Instance, Locks, hwVars,
         linearVars, InstanceInv, ThenInv, FlagsInv, PpInv, Due, PpDue, Releasing
    <2>2. Runs("pp") /\ Drives("pp", inst[d]) => Drives("pp", inst'[d])
      BY <1>0 DEF CheckReleasePpAndHw, PpActive, Drives, Runs, pc, Instance, Locks, hwVars,
         linearVars, InstanceInv, ThenInv, FlagsInv, PpInv, Due, PpDue, Releasing
    <2>3. blocks' = blocks /\ hw' = hw
      BY DEF CheckReleasePpAndHw, PpActive, linearVars, hwVars
    <2>4. inst'[d].pics = inst[d].pics
      BY <1>0 DEF CheckReleasePpAndHw, PpActive, Instance
    <2> QED
      BY <1>1, <2>1, <2>2, <2>3, <2>4, WorkHwSame
  <1>4. RestStep
    BY <1>0, LinearAssumption DEF CheckReleasePpAndHw, PpActive, RestStep, IInv, TypeInv,
       linearVars, hwVars, Blocks, Chunk
  <1> QED
    BY <1>1, <1>2, <1>3, <1>4 DEF Step

LEMMA CheckedStep ==
  ASSUME IInv, NEW d \in Files, Checked(d)
  PROVE  Step(d)
  <1>0. /\ inst[d] \in Instance /\ has[d] \in SUBSET Locks
        /\ inst \in [Files -> Instance] /\ has \in [Files -> SUBSET Locks]
        /\ InstanceInv(inst[d], has[d])
    BY InstanceFacts
  <1>a. PICK next \in {"free", "freeasic", "idle"} :
          inst' = [inst EXCEPT ![d] = [@ EXCEPT !.keepHwReserved = FALSE, !.pc = next,
                                                !.then = IF next = "idle" THEN "idle" ELSE "alloc"]]
    BY <1>0 DEF Checked, Reallocate, Instance
  <1>b. has' = [has EXCEPT ![d] = IF inst[d].keepHwReserved THEN has[d] \ {"dec"} ELSE has[d]]
    BY <1>0 DEF Checked, Post
  <1>1. pc(d) # "dead" /\ inst'[d].pc # "dead" /\ Local(d)
    BY <1>0, <1>a, <1>b, ZenonT(30) DEF Checked, Post, Local, pc, Instance, Locks, hwVars,
       InstanceInv, ThenInv, FlagsInv, PpInv, Due, PpDue, Releasing
  <1>2. LockStep(d)
    BY <1>0, <1>a, <1>b DEF Checked, Post, Wait, LockStep, Overdue, pc, Instance, Locks, hwVars,
       InstanceInv, ThenInv, FlagsInv, PpInv, Due, PpDue, Releasing
  <1>3. WorkStep(d)
    <2>1. Runs("dec") /\ Drives("dec", inst[d]) => Drives("dec", inst'[d])
      BY <1>0 DEF Checked, Post, Drives, Runs, pc, Instance, Locks, hwVars, linearVars,
         InstanceInv, ThenInv, FlagsInv, PpInv, Due, PpDue, Releasing
    <2>2. Runs("pp") /\ Drives("pp", inst[d]) => Drives("pp", inst'[d])
      BY <1>0 DEF Checked, Post, Drives, Runs, pc, Instance, Locks, hwVars, linearVars,
         InstanceInv, ThenInv, FlagsInv, PpInv, Due, PpDue, Releasing
    <2>3. blocks' = blocks /\ hw' = hw
      BY DEF Checked, Post, linearVars, hwVars
    <2>4. inst'[d].pics = inst[d].pics
      BY <1>0, <1>a DEF Instance
    <2> QED
      BY <1>1, <2>1, <2>2, <2>3, <2>4, WorkHwSame
  <1>4. RestStep
    BY <1>0, LinearAssumption DEF Checked, Post, RestStep, IInv, TypeInv, linearVars, hwVars,
       Blocks, Chunk
  <1> QED
    BY <1>1, <1>2, <1>3, <1>4 DEF Step

LEMMA RunAsicStep ==
  ASSUME IInv, NEW d \in Files, RunAsic(d)
  PROVE  Step(d)
  <1>0. /\ inst[d] \in Instance /\ has[d] \in SUBSET Locks
        /\ inst \in [Files -> Instance] /\ has \in [Files -> SUBSET Locks]
        /\ InstanceInv(inst[d], has[d])
    BY InstanceFacts
  <1>a. PICK r \in PreparePpRun(d) :
          inst' = [inst EXCEPT ![d] =
                     IF r.keepHwReserved THEN [r EXCEPT !.asicRunning = TRUE, !.pc = "flush"]
                                         ELSE [r EXCEPT !.pc = "reserve"]]
    BY DEF RunAsic
  <1>b. /\ r \in Instance /\ r.pc = inst[d].pc /\ r.then = inst[d].then
        /\ r.attached = inst[d].attached /\ r.asicRunning = inst[d].asicRunning
        /\ r.keepHwReserved = inst[d].keepHwReserved /\ r.pics = inst[d].pics
        /\ \/ r = inst[d] /\ inst[d].ppStatus # "RUNNING"
           \/ /\ r.ppStatus = "RUNNING" /\ r.mode \in {"pipeline", "parallel"}
              /\ r.attached /\ inst[d].ppStatus # "PIC_NOT_FINISHED"
    <2>1. CASE r = inst[d] /\ inst[d].ppStatus # "RUNNING"
      BY <1>0, <2>1
    <2>2. CASE \E m \in {"pipeline", "parallel"} :
                  /\ r = [inst[d] EXCEPT !.ppStatus = "RUNNING", !.mode = m]
                  /\ inst[d].attached /\ inst[d].ppStatus # "PIC_NOT_FINISHED"
      BY <1>0, <2>2, ZenonT(30) DEF Instance
    <2>3. ~inst[d].attached => inst[d].ppStatus = "IDLE"
      BY <1>0 DEF RunAsic, pc, InstanceInv, PpInv
    <2>4. CASE inst[d].attached /\ inst[d].ppStatus # "PIC_NOT_FINISHED"
      <3>1. \/ r \in {[inst[d] EXCEPT !.ppStatus = "RUNNING", !.mode = m] : m \in {"pipeline", "parallel"}}
            \/ r = inst[d] /\ r.ppStatus = "IDLE"
        BY <2>4 DEF PreparePpRun
      <3> QED
        BY <2>1, <2>2, <2>4, <3>1
    <2>5. CASE ~(inst[d].attached /\ inst[d].ppStatus # "PIC_NOT_FINISHED")
      <3>1. r = inst[d]
        BY <2>5 DEF PreparePpRun
      <3> QED
        BY <2>1, <2>3, <2>5, <3>1
    <2> QED
      BY <2>4, <2>5
  <1>c. DEFINE q == inst'[d]
  <1>d. /\ q = IF r.keepHwReserved THEN [r EXCEPT !.asicRunning = TRUE, !.pc = "flush"]
                                  ELSE [r EXCEPT !.pc = "reserve"]
        /\ inst' = [inst EXCEPT ![d] = q] /\ UNCHANGED <<sem, has>> /\ inst[d].pc = "idle"
        /\ ~inst[d].asicRunning
    BY <1>0, <1>a DEF RunAsic, hwVars, pc
  <1>e. /\ q \in Instance
        /\ q.pc = IF r.keepHwReserved THEN "flush" ELSE "reserve"
        /\ q.asicRunning = r.keepHwReserved /\ q.keepHwReserved = r.keepHwReserved
        /\ q.then = r.then /\ q.attached = r.attached /\ q.ppStatus = r.ppStatus
        /\ q.mode = r.mode /\ q.pics = r.pics
    BY <1>b, <1>d, ZenonT(30) DEF Instance
  <1> HIDE DEF q
  <1>f. InstanceInv(q, has[d])
    <2> DEFINE p == inst[d]
    <2>1. /\ p.pc = "idle" /\ p.then = "idle" /\ ~p.asicRunning /\ p.mode # "alone"
          /\ p.ppStatus # "PIC_NOT_FINISHED" => p.mode = "idle"
          /\ p.ppStatus = "PIC_NOT_FINISHED" => p.keepHwReserved /\ p.mode # "pipeline"
          /\ ~p.attached => p.ppStatus = "IDLE"
          /\ "pp" \in has[d] <=> p.mode # "idle"
          /\ "dec" \in has[d] => p.keepHwReserved
          /\ p \in Instance
      BY <1>0, <1>d DEF Instance, InstanceInv, ThenInv, FlagsInv, PpInv, Due, PpDue, Releasing
    <2> HIDE DEF p
    <2>2. CASE r = p /\ p.ppStatus # "RUNNING"
      BY <1>e, <2>1, <2>2 DEF Instance, InstanceInv, ThenInv, FlagsInv, PpInv, Due, PpDue,
         Releasing
    <2>3. CASE /\ r.ppStatus = "RUNNING" /\ r.mode \in {"pipeline", "parallel"}
               /\ r.attached /\ p.ppStatus # "PIC_NOT_FINISHED"
      <3>1. p.mode = "idle" /\ r.keepHwReserved = p.keepHwReserved /\ r.then = "idle"
        BY <1>b, <2>1, <2>3 DEF Instance, p
      <3> QED
        BY <1>e, <2>1, <2>3, <3>1 DEF Instance, InstanceInv, ThenInv, FlagsInv, PpInv, Due,
           PpDue, Releasing
    <2> QED
      BY <1>b, <2>2, <2>3 DEF p
  <1>1. pc(d) # "dead" /\ inst'[d].pc # "dead" /\ Local(d)
    BY <1>0, <1>d, <1>e, <1>f DEF Local, pc, q
  <1>g. Overdue(q, has[d]) => Overdue(inst[d], has[d])
    BY <1>0, <1>b, <1>d, <1>e DEF Overdue, Due, Releasing
  <1>2. LockStep(d)
    BY <1>d, <1>g DEF LockStep, q
  <1>3. WorkStep(d)
    <2>1. Runs("dec") /\ Drives("dec", inst[d]) => Drives("dec", inst'[d])
      BY <1>0 DEF RunAsic, PreparePpRun, Drives, Runs, pc, Instance, Locks, hwVars, linearVars,
         InstanceInv, ThenInv, FlagsInv, PpInv, Due, PpDue, Releasing
    <2>2. Runs("pp") /\ Drives("pp", inst[d]) => Drives("pp", inst'[d])
      BY <1>0 DEF RunAsic, PreparePpRun, Drives, Runs, pc, Instance, Locks, hwVars, linearVars,
         InstanceInv, ThenInv, FlagsInv, PpInv, Due, PpDue, Releasing
    <2>3. blocks' = blocks /\ hw' = hw
      BY DEF RunAsic, PreparePpRun, linearVars, hwVars
    <2>4. inst'[d].pics = inst[d].pics
      BY <1>b, <1>d, <1>e DEF q
    <2> QED
      BY <1>1, <2>1, <2>2, <2>3, <2>4, WorkHwSame
  <1>4. RestStep
    BY <1>0, LinearAssumption DEF RunAsic, PreparePpRun, RestStep, IInv, TypeInv, linearVars,
       hwVars, Blocks, Chunk
  <1> QED
    BY <1>1, <1>2, <1>3, <1>4 DEF Step

LEMMA ReserveHwStep ==
  ASSUME IInv, NEW d \in Files, ReserveHw(d)
  PROVE  Step(d)
  <1>0. /\ inst[d] \in Instance /\ has[d] \in SUBSET Locks
        /\ inst \in [Files -> Instance] /\ has \in [Files -> SUBSET Locks]
        /\ InstanceInv(inst[d], has[d])
    BY InstanceFacts
  <1>1. pc(d) # "dead" /\ inst'[d].pc # "dead" /\ Local(d)
    BY <1>0 DEF ReserveHw, Wait, Local, pc, Instance, Locks, hwVars, InstanceInv, ThenInv,
       FlagsInv, PpInv, Due, PpDue, Releasing
  <1>2. LockStep(d)
    BY <1>0 DEF ReserveHw, Wait, Post, LockStep, Overdue, pc, Instance, Locks, hwVars,
       InstanceInv, ThenInv, FlagsInv, PpInv, Due, PpDue, Releasing
  <1>3. WorkStep(d)
    <2>1. Runs("dec") /\ Drives("dec", inst[d]) => Drives("dec", inst'[d])
      BY <1>0 DEF ReserveHw, Wait, Drives, Runs, pc, Instance, Locks, hwVars, linearVars,
         InstanceInv, ThenInv, FlagsInv, PpInv, Due, PpDue, Releasing
    <2>2. Runs("pp") /\ Drives("pp", inst[d]) => Drives("pp", inst'[d])
      BY <1>0 DEF ReserveHw, Wait, Drives, Runs, pc, Instance, Locks, hwVars, linearVars,
         InstanceInv, ThenInv, FlagsInv, PpInv, Due, PpDue, Releasing
    <2>3. blocks' = blocks /\ hw' = hw
      BY DEF ReserveHw, Wait, linearVars, hwVars
    <2>4. inst'[d].pics = inst[d].pics
      BY <1>0 DEF ReserveHw, Instance
    <2> QED
      BY <1>1, <2>1, <2>2, <2>3, <2>4, WorkHwSame
  <1>4. RestStep
    BY <1>0, LinearAssumption DEF ReserveHw, Wait, RestStep, IInv, TypeInv, linearVars, hwVars,
       Blocks, Chunk
  <1> QED
    BY <1>1, <1>2, <1>3, <1>4 DEF Step

LEMMA DecStartPpStep ==
  ASSUME IInv, NEW d \in Files, DecStartPp(d)
  PROVE  Step(d)
  <1>0. /\ inst[d] \in Instance /\ has[d] \in SUBSET Locks
        /\ inst \in [Files -> Instance] /\ has \in [Files -> SUBSET Locks]
        /\ InstanceInv(inst[d], has[d])
    BY InstanceFacts
  <1>1. pc(d) # "dead" /\ inst'[d].pc # "dead" /\ Local(d)
    BY <1>0 DEF DecStartPp, Local, pc, Instance, Locks, hwVars, InstanceInv, ThenInv, FlagsInv,
       PpInv, Due, PpDue, Releasing
  <1>2. LockStep(d)
    BY <1>0 DEF DecStartPp, Wait, Post, LockStep, Overdue, pc, Instance, Locks, hwVars,
       InstanceInv, ThenInv, FlagsInv, PpInv, Due, PpDue, Releasing
  <1>3. WorkStep(d)
    <2>1. Runs("dec") /\ Drives("dec", inst[d]) => Drives("dec", inst'[d])
      BY <1>0 DEF DecStartPp, Drives, Runs, pc, Instance, Locks, hwVars, linearVars,
         InstanceInv, ThenInv, FlagsInv, PpInv, Due, PpDue, Releasing
    <2>2. Runs("pp") /\ Drives("pp", inst[d]) => Drives("pp", inst'[d])
      BY <1>0 DEF DecStartPp, Drives, Runs, pc, Instance, Locks, hwVars, linearVars,
         InstanceInv, ThenInv, FlagsInv, PpInv, Due, PpDue, Releasing
    <2>3. blocks' = blocks /\ hw' = hw
      BY DEF DecStartPp, linearVars, hwVars
    <2>4. inst'[d].pics = inst[d].pics
      BY <1>0 DEF DecStartPp, Instance
    <2> QED
      BY <1>1, <2>1, <2>2, <2>3, <2>4, WorkHwSame
  <1>4. RestStep
    BY <1>0, LinearAssumption DEF DecStartPp, RestStep, IInv, TypeInv, linearVars, hwVars,
       Blocks, Chunk
  <1> QED
    BY <1>1, <1>2, <1>3, <1>4 DEF Step

LEMMA PPRunStep ==
  ASSUME IInv, NEW d \in Files, PPRun(d)
  PROVE  Step(d)
  <1>0. /\ inst[d] \in Instance /\ has[d] \in SUBSET Locks
        /\ inst \in [Files -> Instance] /\ has \in [Files -> SUBSET Locks]
        /\ InstanceInv(inst[d], has[d])
    BY InstanceFacts
  <1>a. "pp" \notin has[d]
    BY HeldIsTaken DEF PPRun, Wait, Locks, IInv, TypeInv
  <1>1. pc(d) # "dead" /\ inst'[d].pc # "dead" /\ Local(d)
    BY <1>0, <1>a DEF PPRun, Wait, Local, pc, Instance, Locks, hwVars, InstanceInv, ThenInv, FlagsInv,
       PpInv, Due, PpDue, Releasing
  <1>2. LockStep(d)
    BY <1>0, <1>a DEF PPRun, Wait, Post, LockStep, Overdue, pc, Instance, Locks, hwVars, InstanceInv,
       ThenInv, FlagsInv, PpInv, Due, PpDue, Releasing
  <1>3. WorkStep(d)
    <2>1. hw' = [hw EXCEPT !["pp"] = Enabled(d, "pp")] /\ Drives("pp", inst'[d])
      BY <1>0, <1>a DEF PPRun, Wait, Drives, Runs, pc, Instance, Locks, hwVars, linearVars,
         InstanceInv, ThenInv, FlagsInv, PpInv, Due, PpDue, Releasing
    <2>2. Runs("dec") /\ Drives("dec", inst[d]) => Drives("dec", inst'[d])
      BY <1>0, <1>a DEF PPRun, Wait, Drives, Runs, pc, Instance, Locks, hwVars, linearVars,
         InstanceInv, ThenInv, FlagsInv, PpInv, Due, PpDue, Releasing
    <2>3. blocks' = blocks
      BY DEF PPRun, Wait, linearVars
    <2>4. inst'[d].pics = inst[d].pics
      BY <1>0, <1>a DEF PPRun, Instance
    <2> QED
      BY <1>1, <2>1, <2>2, <2>3, <2>4, WorkHwChanged DEF Locks
  <1>4. RestStep
    BY <1>0, LinearAssumption DEF PPRun, Wait, RestStep, IInv, TypeInv, linearVars, hwVars,
       Blocks, Chunk
  <1> QED
    BY <1>1, <1>2, <1>3, <1>4 DEF Step

LEMMA EnableHWStep ==
  ASSUME IInv, NEW d \in Files, EnableHW(d)
  PROVE  Step(d)
  <1>0. /\ inst[d] \in Instance /\ has[d] \in SUBSET Locks
        /\ inst \in [Files -> Instance] /\ has \in [Files -> SUBSET Locks]
        /\ InstanceInv(inst[d], has[d])
    BY InstanceFacts
  <1>1. pc(d) # "dead" /\ inst'[d].pc # "dead" /\ Local(d)
    BY <1>0 DEF EnableHW, Local, pc, Instance, Locks, hwVars, InstanceInv, ThenInv, FlagsInv,
       PpInv, Due, PpDue, Releasing
  <1>2. LockStep(d)
    BY <1>0 DEF EnableHW, Wait, Post, LockStep, Overdue, pc, Instance, Locks, hwVars,
       InstanceInv, ThenInv, FlagsInv, PpInv, Due, PpDue, Releasing
  <1>3. WorkStep(d)
    <2>1. hw' = [hw EXCEPT !["dec"] = Enabled(d, "dec")] /\ Drives("dec", inst'[d])
      BY <1>0 DEF EnableHW, Drives, Runs, pc, Instance, Locks, hwVars, linearVars, InstanceInv,
         ThenInv, FlagsInv, PpInv, Due, PpDue, Releasing
    <2>2. Runs("pp") /\ Drives("pp", inst[d]) => Drives("pp", inst'[d])
      BY <1>0 DEF EnableHW, Drives, Runs, pc, Instance, Locks, hwVars, linearVars, InstanceInv,
         ThenInv, FlagsInv, PpInv, Due, PpDue, Releasing
    <2>3. blocks' = blocks
      BY DEF EnableHW, linearVars
    <2>4. inst'[d].pics = inst[d].pics
      BY <1>0 DEF EnableHW, Instance
    <2> QED
      BY <1>1, <2>1, <2>2, <2>3, <2>4, WorkHwChanged DEF Locks
  <1>4. RestStep
    BY <1>0, LinearAssumption DEF EnableHW, RestStep, IInv, TypeInv, linearVars, hwVars, Blocks,
       Chunk
  <1> QED
    BY <1>1, <1>2, <1>3, <1>4 DEF Step

LEMMA RestartStep ==
  ASSUME IInv, NEW d \in Files, Restart(d)
  PROVE  Step(d)
  <1>0. /\ inst[d] \in Instance /\ has[d] \in SUBSET Locks
        /\ inst \in [Files -> Instance] /\ has \in [Files -> SUBSET Locks]
        /\ InstanceInv(inst[d], has[d])
    BY InstanceFacts
  <1>1. pc(d) # "dead" /\ inst'[d].pc # "dead" /\ Local(d)
    BY <1>0 DEF Restart, Local, pc, Instance, Locks, hwVars, InstanceInv, ThenInv, FlagsInv,
       PpInv, Due, PpDue, Releasing
  <1>2. LockStep(d)
    BY <1>0 DEF Restart, Wait, Post, LockStep, Overdue, pc, Instance, Locks, hwVars,
       InstanceInv, ThenInv, FlagsInv, PpInv, Due, PpDue, Releasing
  <1>3. WorkStep(d)
    <2>1. hw' = [hw EXCEPT !["dec"] = Enabled(d, "dec")] /\ Drives("dec", inst'[d])
      BY <1>0 DEF Restart, Drives, Runs, pc, Instance, Locks, hwVars, linearVars, InstanceInv,
         ThenInv, FlagsInv, PpInv, Due, PpDue, Releasing
    <2>2. Runs("pp") /\ Drives("pp", inst[d]) => Drives("pp", inst'[d])
      BY <1>0 DEF Restart, Drives, Runs, pc, Instance, Locks, hwVars, linearVars, InstanceInv,
         ThenInv, FlagsInv, PpInv, Due, PpDue, Releasing
    <2>3. blocks' = blocks
      BY DEF Restart, linearVars
    <2>4. inst'[d].pics = inst[d].pics
      BY <1>0 DEF Restart, Instance
    <2> QED
      BY <1>1, <2>1, <2>2, <2>3, <2>4, WorkHwChanged DEF Locks
  <1>4. RestStep
    BY <1>0, LinearAssumption DEF Restart, RestStep, IInv, TypeInv, linearVars, hwVars, Blocks,
       Chunk
  <1> QED
    BY <1>1, <1>2, <1>3, <1>4 DEF Step

LEMMA BufferEmptyStep ==
  ASSUME IInv, NEW d \in Files, BufferEmpty(d)
  PROVE  Step(d)
  <1>0. /\ inst[d] \in Instance /\ has[d] \in SUBSET Locks
        /\ inst \in [Files -> Instance] /\ has \in [Files -> SUBSET Locks]
        /\ InstanceInv(inst[d], has[d])
    BY InstanceFacts
  <1>1. pc(d) # "dead" /\ inst'[d].pc # "dead" /\ Local(d)
    BY <1>0 DEF BufferEmpty, Local, pc, Instance, Locks, hwVars, InstanceInv, ThenInv, FlagsInv,
       PpInv, Due, PpDue, Releasing
  <1>2. LockStep(d)
    BY <1>0 DEF BufferEmpty, Wait, Post, LockStep, Overdue, pc, Instance, Locks, hwVars,
       InstanceInv, ThenInv, FlagsInv, PpInv, Due, PpDue, Releasing
  <1>3. WorkStep(d)
    <2>1. Runs("dec") /\ Drives("dec", inst[d]) => Drives("dec", inst'[d])
      BY <1>0 DEF BufferEmpty, Drives, Runs, pc, Instance, Locks, hwVars, linearVars,
         InstanceInv, ThenInv, FlagsInv, PpInv, Due, PpDue, Releasing
    <2>2. Runs("pp") /\ Drives("pp", inst[d]) => Drives("pp", inst'[d])
      BY <1>0 DEF BufferEmpty, Drives, Runs, pc, Instance, Locks, hwVars, linearVars,
         InstanceInv, ThenInv, FlagsInv, PpInv, Due, PpDue, Releasing
    <2>3. blocks' = blocks /\ hw' = hw
      BY DEF BufferEmpty, linearVars, hwVars
    <2>4. inst'[d].pics = inst[d].pics
      BY <1>0 DEF BufferEmpty, Instance
    <2> QED
      BY <1>1, <2>1, <2>2, <2>3, <2>4, WorkHwSame
  <1>4. RestStep
    BY <1>0, LinearAssumption DEF BufferEmpty, RestStep, IInv, TypeInv, linearVars, hwVars,
       Blocks, Chunk
  <1> QED
    BY <1>1, <1>2, <1>3, <1>4 DEF Step

LEMMA PictureDoneStep ==
  ASSUME IInv, NEW d \in Files, PictureDone(d)
  PROVE  Step(d)
  <1>0. /\ inst[d] \in Instance /\ has[d] \in SUBSET Locks
        /\ inst \in [Files -> Instance] /\ has \in [Files -> SUBSET Locks]
        /\ InstanceInv(inst[d], has[d])
    BY InstanceFacts
  <1>1. pc(d) # "dead" /\ inst'[d].pc # "dead" /\ Local(d)
    BY <1>0, ZenonT(30) DEF PictureDone, PpActive, Local, pc, Instance, Locks, hwVars,
       InstanceInv, ThenInv, FlagsInv, PpInv, Due, PpDue, Releasing
  <1>2. LockStep(d)
    BY <1>0 DEF PictureDone, PpActive, Wait, Post, LockStep, Overdue, pc, Instance, Locks,
       hwVars, InstanceInv, ThenInv, FlagsInv, PpInv, Due, PpDue, Releasing
  <1>3. WorkStep(d)
    <2>1. Runs("dec") /\ Drives("dec", inst[d]) => Drives("dec", inst'[d])
      BY <1>0 DEF PictureDone, PpActive, Drives, Runs, pc, Instance, Locks, hwVars, linearVars,
         InstanceInv, ThenInv, FlagsInv, PpInv, Due, PpDue, Releasing
    <2>2. Runs("pp") /\ Drives("pp", inst[d]) => Drives("pp", inst'[d])
      BY <1>0 DEF PictureDone, PpActive, Drives, Runs, pc, Instance, Locks, hwVars, linearVars,
         InstanceInv, ThenInv, FlagsInv, PpInv, Due, PpDue, Releasing
    <2>3. blocks' = blocks /\ hw' = hw
      BY DEF PictureDone, PpActive, linearVars, hwVars
    <2>4. inst'[d].pics = inst[d].pics
      BY <1>0 DEF PictureDone, PpActive, Instance
    <2> QED
      BY <1>1, <2>1, <2>2, <2>3, <2>4, WorkHwSame
  <1>4. RestStep
    BY <1>0, LinearAssumption DEF PictureDone, PpActive, RestStep, IInv, TypeInv, linearVars,
       hwVars, Blocks, Chunk
  <1> QED
    BY <1>1, <1>2, <1>3, <1>4 DEF Step

LEMMA FirstFieldStep ==
  ASSUME IInv, NEW d \in Files, FirstField(d)
  PROVE  Step(d)
  <1>0. /\ inst[d] \in Instance /\ has[d] \in SUBSET Locks
        /\ inst \in [Files -> Instance] /\ has \in [Files -> SUBSET Locks]
        /\ InstanceInv(inst[d], has[d])
    BY InstanceFacts
  <1>1. pc(d) # "dead" /\ inst'[d].pc # "dead" /\ Local(d)
    BY <1>0 DEF FirstField, Local, pc, Instance, Locks, hwVars, InstanceInv, ThenInv, FlagsInv,
       PpInv, Due, PpDue, Releasing
  <1>2. LockStep(d)
    BY <1>0 DEF FirstField, Wait, Post, LockStep, Overdue, pc, Instance, Locks, hwVars,
       InstanceInv, ThenInv, FlagsInv, PpInv, Due, PpDue, Releasing
  <1>3. WorkStep(d)
    <2>1. Runs("dec") /\ Drives("dec", inst[d]) => Drives("dec", inst'[d])
      BY <1>0 DEF FirstField, Drives, Runs, pc, Instance, Locks, hwVars, linearVars,
         InstanceInv, ThenInv, FlagsInv, PpInv, Due, PpDue, Releasing
    <2>2. Runs("pp") /\ Drives("pp", inst[d]) => Drives("pp", inst'[d])
      BY <1>0 DEF FirstField, Drives, Runs, pc, Instance, Locks, hwVars, linearVars,
         InstanceInv, ThenInv, FlagsInv, PpInv, Due, PpDue, Releasing
    <2>3. blocks' = blocks /\ hw' = hw
      BY DEF FirstField, linearVars, hwVars
    <2>4. inst'[d].pics = inst[d].pics
      BY <1>0 DEF FirstField, Instance
    <2> QED
      BY <1>1, <2>1, <2>2, <2>3, <2>4, WorkHwSame
  <1>4. RestStep
    BY <1>0, LinearAssumption DEF FirstField, RestStep, IInv, TypeInv, linearVars, hwVars,
       Blocks, Chunk
  <1> QED
    BY <1>1, <1>2, <1>3, <1>4 DEF Step

LEMMA ReleaseHwStep ==
  ASSUME IInv, NEW d \in Files, ReleaseHw(d)
  PROVE  Step(d)
  <1>0. /\ inst[d] \in Instance /\ has[d] \in SUBSET Locks
        /\ inst \in [Files -> Instance] /\ has \in [Files -> SUBSET Locks]
        /\ InstanceInv(inst[d], has[d])
    BY InstanceFacts
  <1>1. pc(d) # "dead" /\ inst'[d].pc # "dead" /\ Local(d)
    BY <1>0 DEF ReleaseHw, Post, Local, pc, Instance, Locks, hwVars, InstanceInv, ThenInv,
       FlagsInv, PpInv, Due, PpDue, Releasing
  <1>2. LockStep(d)
    BY <1>0 DEF ReleaseHw, Post, Wait, LockStep, Overdue, pc, Instance, Locks, hwVars,
       InstanceInv, ThenInv, FlagsInv, PpInv, Due, PpDue, Releasing
  <1>3. WorkStep(d)
    <2>1. Runs("dec") /\ Drives("dec", inst[d]) => Drives("dec", inst'[d])
      BY <1>0 DEF ReleaseHw, Post, Drives, Runs, pc, Instance, Locks, hwVars, linearVars,
         InstanceInv, ThenInv, FlagsInv, PpInv, Due, PpDue, Releasing
    <2>2. Runs("pp") /\ Drives("pp", inst[d]) => Drives("pp", inst'[d])
      BY <1>0 DEF ReleaseHw, Post, Drives, Runs, pc, Instance, Locks, hwVars, linearVars,
         InstanceInv, ThenInv, FlagsInv, PpInv, Due, PpDue, Releasing
    <2>3. blocks' = blocks /\ hw' = hw
      BY DEF ReleaseHw, Post, linearVars, hwVars
    <2>4. inst'[d].pics = inst[d].pics
      BY <1>0 DEF ReleaseHw, Instance
    <2> QED
      BY <1>1, <2>1, <2>2, <2>3, <2>4, WorkHwSame
  <1>4. RestStep
    BY <1>0, LinearAssumption DEF ReleaseHw, Post, RestStep, IInv, TypeInv, linearVars, hwVars,
       Blocks, Chunk
  <1> QED
    BY <1>1, <1>2, <1>3, <1>4 DEF Step

LEMMA DecEndPpStep ==
  ASSUME IInv, NEW d \in Files, DecEndPp(d)
  PROVE  Step(d)
  <1>0. /\ inst[d] \in Instance /\ has[d] \in SUBSET Locks
        /\ inst \in [Files -> Instance] /\ has \in [Files -> SUBSET Locks]
        /\ InstanceInv(inst[d], has[d])
    BY InstanceFacts
  <1>a. inst' = [inst EXCEPT ![d].pc = inst[d].then, ![d].then = "idle", ![d].mode = "idle"]
    BY DEF DecEndPp
  <1>b. has' = [has EXCEPT ![d] = has[d] \ {"pp"}]
    <2>1. CASE inst[d].mode = "idle" /\ UNCHANGED hwVars
      BY <1>0, <2>1 DEF hwVars, DecEndPp, pc, InstanceInv, PpDue
    <2>2. CASE inst[d].mode # "idle" /\ Post(d, "pp")
      BY <2>2 DEF Post
    <2> QED
      BY <2>1, <2>2 DEF DecEndPp
  <1>c. DEFINE q == inst'[d]
               t == inst[d].then
  <1>c1. inst[d].pc = "ppend" /\ t \in {"idle", "checked", "release"}
    BY <1>0 DEF DecEndPp, pc, InstanceInv, ThenInv
  <1>c2. /\ q = [inst[d] EXCEPT !.pc = t, !.then = "idle", !.mode = "idle"]
         /\ inst' = [inst EXCEPT ![d] = q]
    BY <1>0, <1>a
  <1> HIDE DEF t
  <1>d. /\ q \in Instance /\ q.pc = t /\ q.then = "idle" /\ q.mode = "idle"
        /\ q.asicRunning = inst[d].asicRunning /\ q.keepHwReserved = inst[d].keepHwReserved
        /\ q.attached = inst[d].attached /\ q.ppStatus = inst[d].ppStatus
    BY <1>0, <1>c1, <1>c2 DEF Instance
  <1> HIDE DEF q
  <1>e. InstanceInv(q, has[d] \ {"pp"})
    BY <1>0, <1>c1, <1>d DEF Instance, t, InstanceInv, ThenInv, FlagsInv, PpInv, Due, PpDue,
       Releasing
  <1>1. pc(d) # "dead" /\ inst'[d].pc # "dead" /\ Local(d)
    BY <1>0, <1>b, <1>c1, <1>c2, <1>d, <1>e DEF Local, pc, q, t
  <1>2. LockStep(d)
    BY <1>0, <1>a, <1>b DEF DecEndPp, Post, Wait, LockStep, Overdue, pc, Instance, Locks,
       hwVars, InstanceInv, ThenInv, FlagsInv, PpInv, Due, PpDue, Releasing
  <1>3. WorkStep(d)
    <2>1. \/ hw' = [hw EXCEPT !["pp"] = Off]
          \/ hw' = hw /\ (Runs("pp") /\ Drives("pp", inst[d]) => Drives("pp", inst'[d]))
      BY <1>0 DEF DecEndPp, Post, Drives, Runs, pc, Instance, Locks, hwVars, linearVars,
         InstanceInv, ThenInv, FlagsInv, PpInv, Due, PpDue, Releasing
    <2>2. Runs("dec") /\ Drives("dec", inst[d]) => Drives("dec", inst'[d])
      BY <1>0 DEF DecEndPp, Post, Drives, Runs, pc, Instance, Locks, hwVars, linearVars,
         InstanceInv, ThenInv, FlagsInv, PpInv, Due, PpDue, Releasing
    <2>3. blocks' = blocks
      BY DEF DecEndPp, Post, linearVars
    <2>4. inst'[d].pics = inst[d].pics
      BY <1>0 DEF DecEndPp, Instance
    <2> QED
      BY <1>1, <2>1, <2>2, <2>3, <2>4, WorkHwChanged, WorkHwSame DEF Locks
  <1>4. RestStep
    BY <1>0, LinearAssumption DEF DecEndPp, Post, RestStep, IInv, TypeInv, linearVars, hwVars,
       Blocks, Chunk
  <1> QED
    BY <1>1, <1>2, <1>3, <1>4 DEF Step

LEMMA GetResultStep ==
  ASSUME IInv, NEW d \in Files, GetResult(d)
  PROVE  Step(d)
  <1>0. /\ inst[d] \in Instance /\ has[d] \in SUBSET Locks
        /\ inst \in [Files -> Instance] /\ has \in [Files -> SUBSET Locks]
        /\ InstanceInv(inst[d], has[d])
    BY InstanceFacts
  <1>1. pc(d) # "dead" /\ inst'[d].pc # "dead" /\ Local(d)
    BY <1>0 DEF GetResult, Local, pc, Instance, Locks, hwVars, InstanceInv, ThenInv, FlagsInv,
       PpInv, Due, PpDue, Releasing
  <1>2. LockStep(d)
    BY <1>0 DEF GetResult, Wait, Post, LockStep, Overdue, pc, Instance, Locks, hwVars,
       InstanceInv, ThenInv, FlagsInv, PpInv, Due, PpDue, Releasing
  <1>3. WorkStep(d)
    <2>1. Runs("dec") /\ Drives("dec", inst[d]) => Drives("dec", inst'[d])
      BY <1>0 DEF GetResult, Drives, Runs, pc, Instance, Locks, hwVars, linearVars, InstanceInv,
         ThenInv, FlagsInv, PpInv, Due, PpDue, Releasing
    <2>2. Runs("pp") /\ Drives("pp", inst[d]) => Drives("pp", inst'[d])
      BY <1>0 DEF GetResult, Drives, Runs, pc, Instance, Locks, hwVars, linearVars, InstanceInv,
         ThenInv, FlagsInv, PpInv, Due, PpDue, Releasing
    <2>3. blocks' = blocks /\ hw' = hw
      BY DEF GetResult, linearVars, hwVars
    <2>4. inst'[d].pics = inst[d].pics
      BY <1>0 DEF GetResult, Instance
    <2> QED
      BY <1>1, <2>1, <2>2, <2>3, <2>4, WorkHwSame
  <1>4. RestStep
    BY <1>0, LinearAssumption DEF GetResult, RestStep, IInv, TypeInv, linearVars, hwVars,
       Blocks, Chunk
  <1> QED
    BY <1>1, <1>2, <1>3, <1>4 DEF Step

LEMMA NextPictureStep ==
  ASSUME IInv, NEW d \in Files, NextPicture(d)
  PROVE  Step(d)
  <1>0. /\ inst[d] \in Instance /\ has[d] \in SUBSET Locks
        /\ inst \in [Files -> Instance] /\ has \in [Files -> SUBSET Locks]
        /\ InstanceInv(inst[d], has[d])
    BY InstanceFacts
  <1>1. pc(d) # "dead" /\ inst'[d].pc # "dead" /\ Local(d)
    BY <1>0 DEF NextPicture, Local, pc, Instance, Locks, hwVars, InstanceInv, ThenInv, FlagsInv,
       PpInv, Due, PpDue, Releasing
  <1>2. LockStep(d)
    BY <1>0 DEF NextPicture, Wait, Post, LockStep, Overdue, pc, Instance, Locks, hwVars,
       InstanceInv, ThenInv, FlagsInv, PpInv, Due, PpDue, Releasing
  <1>3. WorkStep(d)
    <2>1. Runs("dec") /\ Drives("dec", inst[d]) => Drives("dec", inst'[d])
      BY <1>0 DEF NextPicture, Drives, Runs, pc, Instance, Locks, hwVars, linearVars, InstanceInv,
         ThenInv, FlagsInv, PpInv, Due, PpDue, Releasing
    <2>2. Runs("pp") /\ Drives("pp", inst[d]) => Drives("pp", inst'[d])
      BY <1>0 DEF NextPicture, Drives, Runs, pc, Instance, Locks, hwVars, linearVars, InstanceInv,
         ThenInv, FlagsInv, PpInv, Due, PpDue, Releasing
    <2>3. blocks' = blocks /\ hw' = hw
      BY DEF NextPicture, linearVars, hwVars
    <2>4. inst'[d].pics = inst[d].pics
      BY <1>0 DEF NextPicture, Instance
    <2> QED
      BY <1>1, <2>1, <2>2, <2>3, <2>4, WorkHwSame
  <1>4. RestStep
    BY <1>0, LinearAssumption DEF NextPicture, RestStep, IInv, TypeInv, linearVars, hwVars,
       Blocks, Chunk
  <1> QED
    BY <1>1, <1>2, <1>3, <1>4 DEF Step

LEMMA SwitchToRlcStep ==
  ASSUME IInv, NEW d \in Files, SwitchToRlc(d)
  PROVE  Step(d)
  <1>0. /\ inst[d] \in Instance /\ has[d] \in SUBSET Locks
        /\ inst \in [Files -> Instance] /\ has \in [Files -> SUBSET Locks]
        /\ InstanceInv(inst[d], has[d])
    BY InstanceFacts
  <1>1. pc(d) # "dead" /\ inst'[d].pc # "dead" /\ Local(d)
    BY <1>0 DEF SwitchToRlc, Reallocate, Local, pc, Instance, Locks, hwVars, InstanceInv, ThenInv, FlagsInv,
       PpInv, Due, PpDue, Releasing
  <1>2. LockStep(d)
    BY <1>0 DEF SwitchToRlc, Reallocate, Wait, Post, LockStep, Overdue, pc, Instance, Locks, hwVars,
       InstanceInv, ThenInv, FlagsInv, PpInv, Due, PpDue, Releasing
  <1>3. WorkStep(d)
    <2>1. Runs("dec") /\ Drives("dec", inst[d]) => Drives("dec", inst'[d])
      BY <1>0 DEF SwitchToRlc, Reallocate, Drives, Runs, pc, Instance, Locks, hwVars, linearVars, InstanceInv,
         ThenInv, FlagsInv, PpInv, Due, PpDue, Releasing
    <2>2. Runs("pp") /\ Drives("pp", inst[d]) => Drives("pp", inst'[d])
      BY <1>0 DEF SwitchToRlc, Reallocate, Drives, Runs, pc, Instance, Locks, hwVars, linearVars, InstanceInv,
         ThenInv, FlagsInv, PpInv, Due, PpDue, Releasing
    <2>3. blocks' = blocks /\ hw' = hw
      BY DEF SwitchToRlc, Reallocate, linearVars, hwVars
    <2>4. inst'[d].pics = inst[d].pics
      BY <1>0 DEF SwitchToRlc, Reallocate, Instance
    <2> QED
      BY <1>1, <2>1, <2>2, <2>3, <2>4, WorkHwSame
  <1>4. RestStep
    BY <1>0, LinearAssumption DEF SwitchToRlc, Reallocate, RestStep, IInv, TypeInv, linearVars, hwVars,
       Blocks, Chunk
  <1> QED
    BY <1>1, <1>2, <1>3, <1>4 DEF Step

LEMMA PictureRefusedStep ==
  ASSUME IInv, NEW d \in Files, PictureRefused(d)
  PROVE  Step(d)
  <1>0. /\ inst[d] \in Instance /\ has[d] \in SUBSET Locks
        /\ inst \in [Files -> Instance] /\ has \in [Files -> SUBSET Locks]
        /\ InstanceInv(inst[d], has[d])
    BY InstanceFacts
  <1>1. pc(d) # "dead" /\ inst'[d].pc # "dead" /\ Local(d)
    BY <1>0 DEF PictureRefused, Local, pc, Instance, Locks, hwVars, InstanceInv, ThenInv, FlagsInv,
       PpInv, Due, PpDue, Releasing
  <1>2. LockStep(d)
    BY <1>0 DEF PictureRefused, Wait, Post, LockStep, Overdue, pc, Instance, Locks, hwVars,
       InstanceInv, ThenInv, FlagsInv, PpInv, Due, PpDue, Releasing
  <1>3. WorkStep(d)
    <2>1. Runs("dec") /\ Drives("dec", inst[d]) => Drives("dec", inst'[d])
      BY <1>0 DEF PictureRefused, Drives, Runs, pc, Instance, Locks, hwVars, linearVars, InstanceInv,
         ThenInv, FlagsInv, PpInv, Due, PpDue, Releasing
    <2>2. Runs("pp") /\ Drives("pp", inst[d]) => Drives("pp", inst'[d])
      BY <1>0 DEF PictureRefused, Drives, Runs, pc, Instance, Locks, hwVars, linearVars, InstanceInv,
         ThenInv, FlagsInv, PpInv, Due, PpDue, Releasing
    <2>3. blocks' = blocks /\ hw' = hw
      BY DEF PictureRefused, linearVars, hwVars
    <2>4. inst'[d].pics = inst[d].pics
      BY <1>0 DEF PictureRefused, Instance
    <2> QED
      BY <1>1, <2>1, <2>2, <2>3, <2>4, WorkHwSame
  <1>4. RestStep
    BY <1>0, LinearAssumption DEF PictureRefused, RestStep, IInv, TypeInv, linearVars, hwVars,
       Blocks, Chunk
  <1> QED
    BY <1>1, <1>2, <1>3, <1>4 DEF Step

LEMMA EndOfStreamStep ==
  ASSUME IInv, NEW d \in Files, EndOfStream(d)
  PROVE  Step(d)
  <1>0. /\ inst[d] \in Instance /\ has[d] \in SUBSET Locks
        /\ inst \in [Files -> Instance] /\ has \in [Files -> SUBSET Locks]
        /\ InstanceInv(inst[d], has[d])
    BY InstanceFacts
  <1>a. inst[d].keepHwReserved => slipped = "none" /\ ~Overdue(inst[d], has[d])
    BY DEF EndOfStream, IInv, LocksInv
  <1>1. pc(d) # "dead" /\ inst'[d].pc # "dead" /\ Local(d)
    BY <1>0, <1>a, ZenonT(30) DEF EndOfStream, PpActive, Local, Overdue, pc, Instance, Locks,
       hwVars, InstanceInv, ThenInv, FlagsInv, PpInv, Due, PpDue, Releasing
  <1>2. LockStep(d)
    BY <1>0, <1>a DEF EndOfStream, PpActive, Wait, Post, LockStep, Overdue, pc, Instance, Locks,
       hwVars, InstanceInv, ThenInv, FlagsInv, PpInv, Due, PpDue, Releasing
  <1>3. WorkStep(d)
    <2>1. hw' = [hw EXCEPT !["dec"] = Off]
      BY <1>0 DEF EndOfStream, PpActive, Drives, Runs, pc, Instance, Locks, hwVars, linearVars,
         InstanceInv, ThenInv, FlagsInv, PpInv, Due, PpDue, Releasing
    <2>2. Runs("pp") /\ Drives("pp", inst[d]) => Drives("pp", inst'[d])
      BY <1>0 DEF EndOfStream, PpActive, Drives, Runs, pc, Instance, Locks, hwVars, linearVars,
         InstanceInv, ThenInv, FlagsInv, PpInv, Due, PpDue, Releasing
    <2>3. blocks' = blocks
      BY DEF EndOfStream, PpActive, linearVars
    <2>4. inst'[d].pics = inst[d].pics
      BY <1>0 DEF EndOfStream, PpActive, Instance
    <2> QED
      BY <1>1, <2>1, <2>2, <2>3, <2>4, WorkHwChanged DEF Locks
  <1>4. RestStep
    BY <1>0, LinearAssumption DEF EndOfStream, PpActive, RestStep, IInv, TypeInv, linearVars,
       hwVars, Blocks, Chunk
  <1> QED
    BY <1>1, <1>2, <1>3, <1>4 DEF Step

LEMMA EndOfStreamKeptStep ==
  ASSUME IInv, NEW d \in Files, EndOfStreamKept(d)
  PROVE  Step(d)
  <1>0. /\ inst[d] \in Instance /\ has[d] \in SUBSET Locks
        /\ inst \in [Files -> Instance] /\ has \in [Files -> SUBSET Locks]
        /\ InstanceInv(inst[d], has[d])
    BY InstanceFacts
  <1>1. pc(d) # "dead" /\ inst'[d].pc # "dead" /\ Local(d)
    BY <1>0, ZenonT(30) DEF EndOfStreamKept, Post, Local, pc, Instance, Locks, hwVars,
       InstanceInv, ThenInv, FlagsInv, PpInv, Due, PpDue, Releasing
  <1>2. LockStep(d)
    BY <1>0 DEF EndOfStreamKept, Post, Wait, LockStep, Overdue, pc, Instance, Locks, hwVars,
       InstanceInv, ThenInv, FlagsInv, PpInv, Due, PpDue, Releasing
  <1>3. WorkStep(d)
    <2>1. Runs("dec") /\ Drives("dec", inst[d]) => Drives("dec", inst'[d])
      BY <1>0 DEF EndOfStreamKept, Post, Drives, Runs, pc, Instance, Locks, hwVars, linearVars,
         InstanceInv, ThenInv, FlagsInv, PpInv, Due, PpDue, Releasing
    <2>2. Runs("pp") /\ Drives("pp", inst[d]) => Drives("pp", inst'[d])
      BY <1>0 DEF EndOfStreamKept, Post, Drives, Runs, pc, Instance, Locks, hwVars, linearVars,
         InstanceInv, ThenInv, FlagsInv, PpInv, Due, PpDue, Releasing
    <2>3. blocks' = blocks /\ hw' = hw
      BY DEF EndOfStreamKept, Post, linearVars, hwVars
    <2>4. inst'[d].pics = inst[d].pics
      BY <1>0 DEF EndOfStreamKept, Instance
    <2> QED
      BY <1>1, <2>1, <2>2, <2>3, <2>4, WorkHwSame
  <1>4. RestStep
    BY <1>0, LinearAssumption DEF EndOfStreamKept, Post, RestStep, IInv, TypeInv, linearVars,
       hwVars, Blocks, Chunk
  <1> QED
    BY <1>1, <1>2, <1>3, <1>4 DEF Step

LEMMA CombinedModeStep ==
  ASSUME IInv, NEW d \in Files, CombinedMode(d)
  PROVE  Step(d)
  <1>0. /\ inst[d] \in Instance /\ has[d] \in SUBSET Locks
        /\ inst \in [Files -> Instance] /\ has \in [Files -> SUBSET Locks]
        /\ InstanceInv(inst[d], has[d])
    BY InstanceFacts
  <1>1. pc(d) # "dead" /\ inst'[d].pc # "dead" /\ Local(d)
    BY <1>0 DEF CombinedMode, Local, pc, Instance, Locks, hwVars, InstanceInv, ThenInv,
       FlagsInv, PpInv, Due, PpDue, Releasing
  <1>2. LockStep(d)
    BY <1>0 DEF CombinedMode, Wait, Post, LockStep, Overdue, pc, Instance, Locks, hwVars,
       InstanceInv, ThenInv, FlagsInv, PpInv, Due, PpDue, Releasing
  <1>3. WorkStep(d)
    <2>1. Runs("dec") /\ Drives("dec", inst[d]) => Drives("dec", inst'[d])
      BY <1>0 DEF CombinedMode, Drives, Runs, pc, Instance, Locks, hwVars, linearVars,
         InstanceInv, ThenInv, FlagsInv, PpInv, Due, PpDue, Releasing
    <2>2. Runs("pp") /\ Drives("pp", inst[d]) => Drives("pp", inst'[d])
      BY <1>0 DEF CombinedMode, Drives, Runs, pc, Instance, Locks, hwVars, linearVars,
         InstanceInv, ThenInv, FlagsInv, PpInv, Due, PpDue, Releasing
    <2>3. blocks' = blocks /\ hw' = hw
      BY DEF CombinedMode, linearVars, hwVars
    <2>4. inst'[d].pics = inst[d].pics
      BY <1>0 DEF CombinedMode, Instance
    <2> QED
      BY <1>1, <2>1, <2>2, <2>3, <2>4, WorkHwSame
  <1>4. RestStep
    BY <1>0, LinearAssumption DEF CombinedMode, RestStep, IInv, TypeInv, linearVars, hwVars,
       Blocks, Chunk
  <1> QED
    BY <1>1, <1>2, <1>3, <1>4 DEF Step

LEMMA H264DecReleaseStep ==
  ASSUME IInv, NEW d \in Files, H264DecRelease(d)
  PROVE  Step(d)
  <1>0. /\ inst[d] \in Instance /\ has[d] \in SUBSET Locks
        /\ inst \in [Files -> Instance] /\ has \in [Files -> SUBSET Locks]
        /\ InstanceInv(inst[d], has[d])
    BY InstanceFacts
  <1>1. pc(d) # "dead" /\ inst'[d].pc # "dead" /\ Local(d)
    BY <1>0 DEF H264DecRelease, Post, Local, pc, Instance, Locks, hwVars, InstanceInv, ThenInv,
       FlagsInv, PpInv, Due, PpDue, Releasing
  <1>2. LockStep(d)
    BY <1>0 DEF H264DecRelease, Post, Wait, LockStep, Overdue, pc, Instance, Locks, hwVars,
       InstanceInv, ThenInv, FlagsInv, PpInv, Due, PpDue, Releasing
  <1>3. WorkStep(d)
    <2>1. \/ hw' = [hw EXCEPT !["dec"] = Off]
          \/ hw' = hw /\ (Runs("dec") /\ Drives("dec", inst[d]) => Drives("dec", inst'[d]))
      BY <1>0 DEF H264DecRelease, Post, Drives, Runs, pc, Instance, Locks, hwVars, linearVars,
         InstanceInv, ThenInv, FlagsInv, PpInv, Due, PpDue, Releasing
    <2>2. Runs("pp") /\ Drives("pp", inst[d]) => Drives("pp", inst'[d])
      BY <1>0 DEF H264DecRelease, Post, Drives, Runs, pc, Instance, Locks, hwVars, linearVars,
         InstanceInv, ThenInv, FlagsInv, PpInv, Due, PpDue, Releasing
    <2>3. blocks' = blocks
      BY DEF H264DecRelease, Post, linearVars
    <2>4. inst'[d].pics = inst[d].pics
      BY <1>0 DEF H264DecRelease, Instance
    <2> QED
      BY <1>1, <2>1, <2>2, <2>3, <2>4, WorkHwChanged, WorkHwSame DEF Locks
  <1>4. RestStep
    BY <1>0, LinearAssumption DEF H264DecRelease, Post, RestStep, IInv, TypeInv, linearVars,
       hwVars, Blocks, Chunk
  <1> QED
    BY <1>1, <1>2, <1>3, <1>4 DEF Step

LEMMA DWLReleaseStep ==
  ASSUME IInv, NEW d \in Files, DWLRelease(d)
  PROVE  Step(d)
  <1>0. /\ inst[d] \in Instance /\ has[d] \in SUBSET Locks
        /\ inst \in [Files -> Instance] /\ has \in [Files -> SUBSET Locks]
        /\ InstanceInv(inst[d], has[d])
    BY InstanceFacts
  <1>1. pc(d) # "dead" /\ inst'[d].pc # "dead" /\ Local(d)
    BY <1>0 DEF DWLRelease, Close, Local, pc, Instance, Locks, hwVars, InstanceInv, ThenInv,
       FlagsInv, PpInv, Due, PpDue, Releasing
  <1>2. LockStep(d)
    BY <1>0 DEF DWLRelease, Close, Wait, Post, LockStep, Overdue, pc, Instance, Locks, hwVars,
       InstanceInv, ThenInv, FlagsInv, PpInv, Due, PpDue, Releasing
  <1>3. WorkStep(d)
    <2>1. Runs("dec") /\ Drives("dec", inst[d]) => Drives("dec", inst'[d])
      BY <1>0 DEF DWLRelease, Close, Drives, Runs, pc, Instance, Locks, hwVars, linearVars,
         InstanceInv, ThenInv, FlagsInv, PpInv, Due, PpDue, Releasing
    <2>2. Runs("pp") /\ Drives("pp", inst[d]) => Drives("pp", inst'[d])
      BY <1>0 DEF DWLRelease, Close, Drives, Runs, pc, Instance, Locks, hwVars, linearVars,
         InstanceInv, ThenInv, FlagsInv, PpInv, Due, PpDue, Releasing
    <2>3. blocks' = blocks /\ hw' = hw
      BY DEF DWLRelease, Close, linearVars, hwVars
    <2>4. inst'[d].pics = inst[d].pics
      BY <1>0 DEF DWLRelease, Instance
    <2> QED
      BY <1>1, <2>1, <2>2, <2>3, <2>4, WorkHwSame
  <1>4. RestStep
    BY <1>0, LinearAssumption DEF DWLRelease, Close, RestStep, IInv, TypeInv, linearVars,
       hwVars, Blocks, Chunk
  <1> QED
    BY <1>1, <1>2, <1>3, <1>4 DEF Step

LEMMA FreeLinearStep ==
  ASSUME IInv, NEW d \in Files, FreeLinear(d)
  PROVE  Step(d)
  <1>0. /\ inst[d] \in Instance /\ has[d] \in SUBSET Locks
        /\ inst \in [Files -> Instance] /\ has \in [Files -> SUBSET Locks]
        /\ InstanceInv(inst[d], has[d])
    BY InstanceFacts
  <1>a. /\ inst[d].pc \in {"free", "freeasic"}
        /\ UNCHANGED <<together, sem, has, hw, slipped, files, races>>
        /\ inst[d].pics \subseteq Owned(d)
    BY DEF FreeLinear, Free, pc, hwVars, linearVars, IInv, PicsInv
  <1>b. /\ ~Drives("dec", inst[d])
        /\ inst[d].pc = "free" => ~Drives("pp", inst[d])
    BY <1>0, <1>a DEF Drives, Instance, InstanceInv, ThenInv, FlagsInv, PpInv, PpDue, Releasing
  <1>2. CASE /\ Free(d) /\ blocks \ blocks' \subseteq ToFree(d)
             /\ inst' = [inst EXCEPT ![d].pics = @ \cap blocks']
    <2> DEFINE q == inst'[d]
    <2>1. q = [inst[d] EXCEPT !.pics = inst[d].pics \cap blocks']
      BY <1>0, <1>2
    <2>2. /\ q \in Instance /\ q.pics = inst[d].pics \cap blocks'
          /\ q.pc = inst[d].pc /\ q.then = inst[d].then /\ q.attached = inst[d].attached
          /\ q.ppStatus = inst[d].ppStatus /\ q.mode = inst[d].mode
          /\ q.asicRunning = inst[d].asicRunning /\ q.keepHwReserved = inst[d].keepHwReserved
      BY <1>0, <2>1 DEF Instance
    <2>3. inst' = [inst EXCEPT ![d] = q]
      BY <1>0, <1>2
    <2> HIDE DEF q
    <2>4. InstanceInv(q, has[d]) /\ (Overdue(q, has[d]) => Overdue(inst[d], has[d]))
      BY <1>0, <2>2 DEF Overdue, InstanceInv, ThenInv, FlagsInv, PpInv, Due, PpDue, Releasing
    <2>5. q = inst'[d]
      BY DEF q
    <2>6. pc(d) # "dead" /\ inst'[d].pc # "dead" /\ Local(d)
      BY <1>0, <1>a, <2>2, <2>3, <2>4, <2>5 DEF Local, pc
    <2>7. LockStep(d)
      BY <1>a, <2>4, <2>5 DEF LockStep
    <2>8. WorkStep(d)
      <3>1. blocks' \subseteq blocks /\ \A b \in blocks \ blocks' : b.file = d
        BY <1>2 DEF Free
      <3>2. inst'[d].pics \subseteq {b \in blocks' : b.file = d}
        BY <1>a, <2>2, <2>5 DEF Owned
      <3>3. Drives("pp", inst[d]) => Drives("pp", inst'[d]) /\ inst[d].pics \subseteq inst'[d].pics
        <4> SUFFICES ASSUME Drives("pp", inst[d])
                     PROVE  Drives("pp", inst'[d]) /\ inst[d].pics \subseteq inst'[d].pics
          OBVIOUS
        <4>1. inst[d].pc = "freeasic"
          BY <1>a, <1>b
        <4>2. inst[d].pics \cap (blocks \ blocks') = {}
          BY <1>2, <4>1 DEF ToFree, pc
        <4>3. inst[d].pics \subseteq blocks'
          BY <1>a, <4>2 DEF Owned
        <4> QED
          BY <2>2, <2>5, <4>3 DEF Drives, PpDue
      <3> QED
        BY <1>a, <1>b, <2>6, <3>1, <3>2, <3>3, WorkMemory
    <2>9. RestStep
      BY <1>2, <1>a DEF Free, RestStep, IInv, TypeInv
    <2> QED
      BY <2>6, <2>7, <2>8, <2>9 DEF Step
  <1>3. CASE /\ inst' = [inst EXCEPT ![d].pc = inst[d].then, ![d].then = "idle"]
             /\ UNCHANGED linearVars
    <2>1. pc(d) # "dead" /\ inst'[d].pc # "dead" /\ Local(d)
      BY <1>0, <1>3, <1>a DEF Local, pc, Instance, InstanceInv, ThenInv,
         FlagsInv, PpInv, Due, PpDue, Releasing
    <2>2. LockStep(d)
      BY <1>0, <1>3, <1>a DEF LockStep, Overdue, pc, Instance, InstanceInv, ThenInv, FlagsInv,
         PpInv, Due, PpDue, Releasing
    <2>3. inst'[d].pics = inst[d].pics /\ blocks' = blocks
      BY <1>0, <1>3 DEF Instance, linearVars
    <2>4. Drives("pp", inst[d]) => Drives("pp", inst'[d])
      BY <1>0, <1>3, <1>a, <1>b DEF Drives, PpDue, Instance, InstanceInv, ThenInv
    <2>5. WorkStep(d)
      BY <1>a, <1>b, <2>1, <2>3, <2>4, WorkMemory DEF Owned
    <2>6. RestStep
      BY <1>3, <1>a DEF RestStep, IInv, TypeInv, linearVars
    <2> QED
      BY <2>1, <2>2, <2>5, <2>6 DEF Step
  <1> QED
    BY <1>2, <1>3 DEF FreeLinear

LEMMA MallocLinearStep ==
  ASSUME IInv, NEW d \in Files, MallocLinear(d)
  PROVE  Step(d)
  <1>0. /\ inst[d] \in Instance /\ has[d] \in SUBSET Locks
        /\ inst \in [Files -> Instance] /\ has \in [Files -> SUBSET Locks]
        /\ InstanceInv(inst[d], has[d])
    BY InstanceFacts
  <1>a. /\ inst[d].pc = "alloc"
        /\ UNCHANGED <<together, sem, has, hw, slipped, files, races>>
        /\ inst[d].pics \subseteq Owned(d)
    BY DEF MallocLinear, Grant, pc, hwVars, linearVars, IInv, PicsInv
  <1>b. ~Drives("dec", inst[d])
    BY <1>0, <1>a DEF Drives, Instance, InstanceInv, ThenInv, FlagsInv, PpInv, PpDue, Releasing
  <1>2. CASE Grant(d) /\ inst' \in {inst, [inst EXCEPT ![d].pics = @ \cup (blocks' \ blocks)]}
    <2>1. /\ blocks \subseteq blocks' /\ blocks' \subseteq Blocks
          /\ \A b \in blocks' \ blocks : b.file = d
      BY <1>2, LinearAssumption DEF Grant, IInv, TypeInv, Blocks, Chunk
    <2> DEFINE q == inst'[d]
    <2>2. PICK p \in SUBSET (blocks' \ blocks) :
             inst' = [inst EXCEPT ![d].pics = @ \cup p]
      <3>1. CASE inst' = inst
        <4>1. inst = [inst EXCEPT ![d].pics = @ \cup {}]
          BY <1>0 DEF Instance
        <4> QED
          BY <3>1, <4>1
      <3>2. CASE inst' = [inst EXCEPT ![d].pics = @ \cup (blocks' \ blocks)]
        BY <3>2
      <3> QED
        BY <1>2, <3>1, <3>2
    <2>3. q = [inst[d] EXCEPT !.pics = inst[d].pics \cup p] /\ inst' = [inst EXCEPT ![d] = q]
      BY <1>0, <2>2
    <2>4. /\ q \in Instance /\ q.pics = inst[d].pics \cup p
          /\ q.pc = inst[d].pc /\ q.then = inst[d].then /\ q.attached = inst[d].attached
          /\ q.ppStatus = inst[d].ppStatus /\ q.mode = inst[d].mode
          /\ q.asicRunning = inst[d].asicRunning /\ q.keepHwReserved = inst[d].keepHwReserved
      BY <1>0, <2>1, <2>3 DEF Instance
    <2> HIDE DEF q
    <2>5. InstanceInv(q, has[d]) /\ (Overdue(q, has[d]) => Overdue(inst[d], has[d]))
      BY <1>0, <2>4 DEF Overdue, InstanceInv, ThenInv, FlagsInv, PpInv, Due, PpDue, Releasing
    <2>6. q = inst'[d]
      BY DEF q
    <2>7. pc(d) # "dead" /\ inst'[d].pc # "dead" /\ Local(d)
      BY <1>0, <1>a, <2>3, <2>4, <2>5, <2>6 DEF Local, pc
    <2>8. LockStep(d)
      BY <1>a, <2>5, <2>6 DEF LockStep
    <2>9. WorkStep(d)
      <3>1. inst'[d].pics \subseteq {b \in blocks' : b.file = d}
        BY <1>a, <2>1, <2>4, <2>6 DEF Owned
      <3>2. Drives("pp", inst[d]) => Drives("pp", inst'[d]) /\ inst[d].pics \subseteq inst'[d].pics
        BY <2>4, <2>6 DEF Drives, PpDue
      <3> QED
        BY <1>a, <1>b, <2>1, <2>7, <3>1, <3>2, WorkMemory
    <2>10. RestStep
      BY <1>a, <2>1 DEF RestStep, IInv, TypeInv
    <2> QED
      BY <2>7, <2>8, <2>9, <2>10 DEF Step
  <1>3. CASE inst' = [inst EXCEPT ![d].pc = "idle"] /\ UNCHANGED linearVars
    <2>1. pc(d) # "dead" /\ inst'[d].pc # "dead" /\ Local(d)
      BY <1>0, <1>3, <1>a DEF Local, pc, Instance, InstanceInv, ThenInv,
         FlagsInv, PpInv, Due, PpDue, Releasing
    <2>2. LockStep(d)
      BY <1>0, <1>3, <1>a DEF LockStep, Overdue, pc, Instance, InstanceInv, ThenInv, FlagsInv,
         PpInv, Due, PpDue, Releasing
    <2>3. inst'[d].pics = inst[d].pics /\ blocks' = blocks
      BY <1>0, <1>3 DEF Instance, linearVars
    <2>4. Drives("pp", inst[d]) => Drives("pp", inst'[d])
      BY <1>0, <1>3, <1>a DEF Drives, PpDue, Instance
    <2>5. WorkStep(d)
      BY <1>a, <1>b, <2>1, <2>3, <2>4, WorkMemory DEF Owned
    <2>6. RestStep
      BY <1>3, <1>a DEF RestStep, IInv, TypeInv, linearVars
    <2> QED
      BY <2>1, <2>2, <2>5, <2>6 DEF Step
  <1> QED
    BY <1>2, <1>3 DEF MallocLinear

LEMMA DWLClosingStep ==
  ASSUME IInv, NEW d \in Files, DWLClosing(d), pc(d) # "dead"
  PROVE  Step(d)
  <1>0. /\ inst[d] \in Instance /\ has[d] \in SUBSET Locks
        /\ inst \in [Files -> Instance] /\ has \in [Files -> SUBSET Locks]
        /\ InstanceInv(inst[d], has[d])
    BY InstanceFacts
  <1>1. /\ inst[d].pc = "closing" /\ Closed(d)
        /\ inst' = [inst EXCEPT ![d] = Fresh] /\ UNCHANGED <<together, hwVars, slipped>>
    BY DEF DWLClosing, pc
  <1>2. has[d] = {}
    BY <1>0, <1>1 DEF Instance, Locks, InstanceInv, ThenInv, FlagsInv, PpInv, Due, PpDue,
       Releasing
  <1>3. pc(d) # "dead" /\ inst'[d].pc # "dead" /\ Local(d)
    BY <1>0, <1>1, <1>2 DEF Local, Fresh, pc, Instance, hwVars, InstanceInv, ThenInv, FlagsInv,
       PpInv, Due, PpDue, Releasing
  <1>4. LockStep(d)
    BY <1>0, <1>1, <1>2 DEF LockStep, Overdue, Fresh, hwVars, Due, Releasing
  <1>5. WorkStep(d)
    <2>1. ~Drives("dec", inst[d]) /\ ~Drives("pp", inst[d])
      BY <1>0, <1>1 DEF Drives, Instance, InstanceInv, ThenInv, FlagsInv, PpInv, Due, PpDue,
         Releasing
    <2>2. hw' = hw /\ blocks' = blocks
      BY <1>1 DEF Closed, hwVars
    <2> QED
      BY <1>0, <1>1, <1>3, <2>1, <2>2, WorkMemory DEF Fresh
  <1>6. RestStep
    BY <1>1 DEF Closed, RestStep, IInv, TypeInv
  <1> QED
    BY <1>3, <1>4, <1>5, <1>6 DEF Step

-----------------------------------------------------------------------------
(* The other steps: of a dead client's files, of the hardware, and death.  *)

LEMMA SameLocks ==
  ASSUME LocksInv, UNCHANGED <<sem, has, slipped>>,
         \A d \in Files : Overdue(inst'[d], has[d]) => Overdue(inst[d], has[d])
  PROVE  LocksInv'
  <1>1. \A l \in Locks : Holders(l)' = Holders(l) /\ Total(l)' = Total(l)
    BY DEF Holders, Total
  <1>2. "pp" \in Locks /\ "dec" \in Locks
    BY DEF Locks
  <1> QED
    BY <1>1, <1>2 DEF LocksInv

\* The files of a dead client give its memory back.
LEMMA DeadFilesStep ==
  ASSUME IInv, NEW d \in Files, pc(d) = "dead", DWLClosing(d) \/ ExitFiles(d)
  PROVE  IInv'
  <1>1. /\ UNCHANGED <<together, inst, sem, has, hw, slipped, races>>
        /\ blocks' \subseteq blocks /\ \A b \in blocks \ blocks' : b.file = d
        /\ files' \in [Files -> {"closed", "open", "closing"}]
    BY DEF DWLClosing, ExitFiles, Drop, Closed, Close, g1Vars, hwVars, pc, IInv, TypeInv
  <1>2. TypeInv'
    BY <1>1 DEF IInv, TypeInv
  <1>3. InstancesInv' /\ LocksInv'
    BY <1>1, SameLocks DEF IInv, InstancesInv
  <1>4. WorkInv'
    <2> SUFFICES ASSUME NEW l \in Locks, Runs(l), pc(hw[l].by) # "dead"
                 PROVE  hw[l].dma \subseteq Reach(l, hw[l].by)'
      BY <1>1 DEF IInv, WorkInv, Runs, pc
    <2>1. /\ hw[l].by # d /\ \A b \in hw[l].dma : b.file = hw[l].by
          /\ hw[l].dma \subseteq Reach(l, hw[l].by)
      BY DEF IInv, WorkInv
    <2> QED
      BY <1>1, <2>1 DEF Reach
  <1>5. PicsInv'
    <2> SUFFICES ASSUME NEW e \in Files, pc(e) # "dead" PROVE inst[e].pics \subseteq Owned(e)'
      BY <1>1 DEF PicsInv, pc
    <2>1. inst[e].pics \subseteq Owned(e) /\ e # d
      BY DEF IInv, PicsInv
    <2> QED
      BY <1>1, <2>1 DEF Owned
  <1> QED
    BY <1>2, <1>3, <1>4, <1>5 DEF IInv

LEMMA HardwareStep ==
  ASSUME IInv, (\E l \in Locks : HwDone(l)) \/ HwEmpty
  PROVE  IInv'
  <1>1. UNCHANGED <<linearVars, together, inst, sem, has, slipped>>
    BY DEF HwDone, HwEmpty
  <1>2. /\ DOMAIN hw' = Locks
        /\ \A l \in Locks : /\ hw'[l].st \in {"off", "run", "empty", "done"}
                            /\ hw'[l].by \in Files \cup {"none"}
                            /\ hw'[l].dma \subseteq Blocks
                            /\ Runs(l)' => /\ Runs(l)
                                           /\ hw'[l].by = hw[l].by /\ hw'[l].dma = hw[l].dma
    <2>1. CASE \E l \in Locks : HwDone(l)
      BY <2>1 DEF HwDone, Off, IInv, TypeInv, Runs
    <2>2. CASE HwEmpty
      BY <2>2 DEF HwEmpty, IInv, TypeInv, Runs, Locks
    <2> QED
      BY <2>1, <2>2
  <1>3. TypeInv'
    BY <1>1, <1>2 DEF IInv, TypeInv, linearVars
  <1>4. InstancesInv' /\ LocksInv'
    BY <1>1, SameLocks DEF IInv, InstancesInv
  <1>5. WorkInv'
    <2> SUFFICES ASSUME NEW l \in Locks, Runs(l)'
                 PROVE  /\ hw'[l].by \in Files
                        /\ \A b \in hw'[l].dma : b.file = hw'[l].by
                        /\ IF inst'[hw'[l].by].pc = "dead"
                           THEN slipped' # "eos" => l \in has'[hw'[l].by]
                           ELSE /\ hw'[l].dma \subseteq Reach(l, hw[l].by)'
                                /\ Drives(l, inst'[hw'[l].by])
      BY DEF WorkInv, pc
    <2>1. Runs(l) /\ hw'[l].by = hw[l].by /\ hw'[l].dma = hw[l].dma
      BY <1>2
    <2> QED
      BY <1>1, <2>1 DEF IInv, WorkInv, Reach, linearVars, pc
  <1>6. PicsInv'
    BY <1>1 DEF IInv, PicsInv, Owned, linearVars, pc
  <1> QED
    BY <1>3, <1>4, <1>5, <1>6 DEF IInv

\* A client that dies under its hardware holds the semaphore: nothing has slipped.
LEMMA DieStep ==
  ASSUME IInv, NEW d \in Files, Die(d)
  PROVE  IInv'
  <1> DEFINE Dies(e) == e = d \/ together
  <1>1. /\ "died" \in Slips /\ slipped = "none" /\ slipped' = "died"
        /\ UNCHANGED <<blocks, files, races, together, sem, has, hw>>
        /\ inst' = [e \in Files |-> IF Dies(e) THEN [Fresh EXCEPT !.pc = "dead"] ELSE inst[e]]
    BY DEF Die, linearVars, hwVars
  <1>2. \A e \in Files : /\ inst'[e] \in Instance
                         /\ Dies(e) => inst'[e].pc = "dead"
                         /\ ~Dies(e) => inst'[e] = inst[e]
    <2> TAKE e \in Files
    <2>1. inst[e] \in Instance
      BY DEF IInv, TypeInv
    <2>2. [Fresh EXCEPT !.pc = "dead"] \in Instance /\ [Fresh EXCEPT !.pc = "dead"].pc = "dead"
      BY DEF Fresh, Instance
    <2>3. inst'[e] = IF Dies(e) THEN [Fresh EXCEPT !.pc = "dead"] ELSE inst[e]
      BY <1>1
    <2> HIDE DEF Dies
    <2> QED
      BY <2>1, <2>2, <2>3
  <1> HIDE DEF Dies
  <1>3. TypeInv'
    <2>1. inst' \in [Files -> Instance]
      BY <1>1, <1>2
    <2> QED
      BY <1>1, <2>1 DEF IInv, TypeInv
  <1>4. InstancesInv'
    BY <1>1, <1>2 DEF IInv, InstancesInv, InstanceInv
  <1>5. LocksInv'
    <2>1. \A l \in Locks : Holders(l)' = Holders(l) /\ Total(l)' = Total(l)
      BY <1>1 DEF Holders, Total
    <2>2. \A e \in Files : ~Overdue(inst'[e], has'[e])
      BY <1>1, <1>2 DEF IInv, LocksInv, Overdue
    <2> QED
      BY <1>1, <2>1, <2>2 DEF IInv, LocksInv, Locks
  <1>6. WorkInv'
    <2> SUFFICES ASSUME NEW l \in Locks, Runs(l)
                 PROVE  /\ hw[l].by \in Files
                        /\ \A b \in hw[l].dma : b.file = hw[l].by
                        /\ IF inst'[hw[l].by].pc = "dead" THEN l \in has[hw[l].by]
                           ELSE hw[l].dma \subseteq Reach(l, hw[l].by)' /\ Drives(l, inst'[hw[l].by])
      BY <1>1 DEF WorkInv, Runs, pc
    <2> PICK e \in Files : e = hw[l].by
      BY DEF IInv, WorkInv
    <2>1. \A b \in hw[l].dma : b.file = e
      BY DEF IInv, WorkInv
    <2>2. CASE inst[e].pc = "dead"
      <3>1. l \in has[e]
        BY <1>1, <2>2 DEF IInv, WorkInv, pc
      <3>2. inst'[e].pc = "dead"
        BY <1>2, <2>2
      <3> QED
        BY <2>1, <3>1, <3>2
    <2>3. CASE inst[e].pc # "dead"
      <3>1. hw[l].dma \subseteq Reach(l, e) /\ Drives(l, inst[e])
        BY <2>3 DEF IInv, WorkInv, pc
      <3>2. l \in has[e]
        BY <1>1, <2>3, <3>1 DEF IInv, LocksInv, Overdue, Drives, InstancesInv, InstanceInv,
           ThenInv, FlagsInv, PpInv, Due, PpDue, Releasing, Locks
      <3> QED
        BY <1>1, <1>2, <2>1, <3>1, <3>2 DEF Reach
    <2> QED
      BY <2>2, <2>3
  <1>7. PicsInv'
    BY <1>1, <1>2 DEF IInv, PicsInv, Owned, pc
  <1> QED
    BY <1>3, <1>4, <1>5, <1>6, <1>7 DEF IInv

-----------------------------------------------------------------------------
(* The invariant holds.                                                    *)

LEMMA InitInv == Init => IInv
  <1> SUFFICES ASSUME Init PROVE IInv
    OBVIOUS
  <1>1. TypeInv
    BY DEF Init, LinearInit, TypeInv, Fresh, Instance, Off, Locks
  <1>2. InstancesInv
    BY DEF Init, Fresh, InstancesInv, InstanceInv, ThenInv, FlagsInv, PpInv, Due, PpDue,
       Releasing
  <1>3. LocksInv
    <2>1. \A l \in Locks : Holders(l) = {} /\ sem[l] = 1
      BY DEF Init, Holders
    <2>2. \A d \in Files : ~Overdue(inst[d], has[d])
      BY DEF Init, Fresh, Overdue, Due, Releasing
    <2>3. \A l \in Locks : IsFiniteSet(Holders(l)) /\ Total(l) = 1
      BY <2>1, FS_EmptySet DEF Total
    <2> QED
      BY <2>2, <2>3 DEF LocksInv, Locks
  <1>4. WorkInv
    BY DEF Init, Off, WorkInv, Runs
  <1>5. PicsInv
    BY DEF Init, Fresh, PicsInv
  <1> QED
    BY <1>1, <1>2, <1>3, <1>4, <1>5 DEF IInv

LEMMA NextInv == IInv /\ [Next]_vars => IInv'
  <1> SUFFICES ASSUME IInv, [Next]_vars PROVE IInv'
    OBVIOUS
  <1>1. ASSUME NEW d \in Files, ClientStep(d) PROVE IInv'
    <2>1. Step(d)
      BY <1>1, DWLInitStep, CheckReleasePpAndHwStep, RunAsicStep, RestartStep, GetResultStep,
         SwitchToRlcStep, PictureRefusedStep, NextPictureStep, EndOfStreamStep, EndOfStreamKeptStep,
         CombinedModeStep, H264DecReleaseStep DEF ClientStep
    <2> QED
      BY <2>1, StepPreserves
  <1>2. ASSUME NEW d \in Files, CallReturns(d) PROVE IInv'
    <2>1. CASE ExitFiles(d) \/ (DWLClosing(d) /\ pc(d) = "dead")
      BY <2>1, DeadFilesStep DEF ExitFiles
    <2>2. CASE ~(ExitFiles(d) \/ (DWLClosing(d) /\ pc(d) = "dead"))
      <3>1. Step(d)
        BY <1>2, <2>2, DWLReleaseStep, DWLClosingStep, FreeLinearStep, MallocLinearStep,
           CheckedStep, ReserveHwStep, DecStartPpStep, PPRunStep, EnableHWStep, BufferEmptyStep,
           PictureDoneStep, FirstFieldStep, ReleaseHwStep, DecEndPpStep DEF CallReturns
      <3> QED
        BY <3>1, StepPreserves
    <2> QED
      BY <2>1, <2>2
  <1>3. CASE UNCHANGED vars
    <2>1. UNCHANGED <<blocks, files, races, together, inst, sem, has, hw, slipped>>
      BY <1>3 DEF vars, linearVars, g1Vars
    <2>2. TypeInv' /\ InstancesInv'
      BY <2>1 DEF IInv, TypeInv, InstancesInv
    <2>3. LocksInv'
      BY <2>1, SameLocks DEF IInv
    <2>4. PicsInv' /\ WorkInv'
      BY <2>1 DEF IInv, PicsInv, Owned, WorkInv, Reach, Runs, pc
    <2> QED
      BY <2>2, <2>3, <2>4 DEF IInv
  <1> QED
    BY <1>1, <1>2, <1>3, DieStep, HardwareStep DEF Next

LEMMA InvHolds == Spec => []IInv
  BY InitInv, NextInv, PTL DEF Spec

\* Every variable keeps its type; in particular the blocks lie in the memory and
\* a semaphore never exceeds two, one more than it may be.
THEOREM TypeCorrect == Spec => []TypeOK
  <1>1. IInv => TypeOK
    <2> SUFFICES ASSUME IInv PROVE TypeOK
      OBVIOUS
    <2>1. sem \in [Locks -> 0 .. 2]
      <3> SUFFICES ASSUME NEW l \in Locks PROVE sem[l] <= 2
        BY DEF IInv, TypeInv
      <3>1. Total(l) \in {1, 2}
        BY DEF IInv, LocksInv, Locks
      <3>2. Cardinality(Holders(l)) \in Nat /\ sem[l] \in Nat
        BY FS_CardinalityType DEF IInv, LocksInv, TypeInv
      <3> QED
        BY <3>1, <3>2 DEF Total
    <2> QED
      BY <2>1 DEF IInv, TypeInv, TypeOK, Instance, Blocks
  <1> QED
    BY <1>1, InvHolds, PTL

\* Unless the stream ended in a second field (DWLReleaseHw posts without
\* DWLReserveHw, h264decapi.c:1633), each piece of hardware has at most one
\* client, works for the client that holds its semaphore, and between calls an
\* instance holds a semaphore exactly when its flags say so.
THEOREM HwIsLocked == Spec => []HwLocked
  <1>1. IInv => HwLocked
    <2> SUFFICES ASSUME IInv, slipped # "eos" PROVE HwLocked
      BY DEF HwLocked
    <2>0. /\ \A d \in Files : ~Overdue(inst[d], has[d]) /\ InstanceInv(inst[d], has[d])
          /\ Total("dec") = 1 /\ Total("pp") = 1
      BY DEF IInv, LocksInv, InstancesInv
    <2>1. \A l \in Locks : sem[l] + Cardinality({d \in Files : l \in has[d]}) = 1
      BY <2>0 DEF Locks, Total, Holders
    <2>2. ASSUME NEW l \in Locks, Runs(l) PROVE l \in has[hw[l].by]
      <3> PICK e \in Files : e = hw[l].by
        BY <2>2 DEF IInv, WorkInv
      <3>1. CASE inst[e].pc = "dead"
        BY <2>2, <3>1 DEF IInv, WorkInv, pc
      <3>2. CASE inst[e].pc # "dead"
        <4>1. Drives(l, inst[e])
          BY <2>2, <3>2 DEF IInv, WorkInv, pc
        <4>2. CASE l = "pp"
          BY <2>0, <3>2, <4>1, <4>2 DEF Drives, InstanceInv
        <4>3. CASE l = "dec"
          BY <2>0, <3>2, <4>1, <4>3 DEF Drives, InstanceInv, FlagsInv, Overdue, Due
        <4> QED
          BY <4>2, <4>3 DEF Locks
      <3> QED
        BY <3>1, <3>2
    <2>3. ASSUME NEW d \in Files, NEW l \in Locks, pc(d) \in {"out", "idle"}
          PROVE  l \in has[d] <=> Holds(d, l)
      <3>1. CASE l = "dec"
        BY <2>0, <2>3, <3>1 DEF Overdue, pc, Holds, InstanceInv, Due, Releasing
      <3>2. CASE l = "pp"
        BY <2>0, <2>3, <3>2 DEF pc, Holds, InstanceInv, PpDue
      <3> QED
        BY <3>1, <3>2 DEF Locks
    <2> QED
      BY <2>1, <2>2, <2>3 DEF HwLocked, Runs
  <1> QED
    BY <1>1, InvHolds, PTL

\* The hardware works only on memory that is still granted, unless the process of
\* its client died (hx170dec.c:254 does not stop it).
THEOREM DmaIsSafe == Spec => []DmaSafe
  <1>1. IInv => DmaSafe
    BY DEF IInv, PicsInv, Owned, WorkInv, Reach, DmaSafe, Runs
  <1> QED
    BY <1>1, InvHolds, PTL

-----------------------------------------------------------------------------
(* The use of LinearMem.                                                   *)

\* Every step that concerns memory is one of LinearMem: buffers are taken and
\* freed only while the instance's memalloc file is open.
LEMMA LinearStep == [Next]_vars => [LinearNext]_linearVars
  <1> USE DEF LinearNext
  <1>1. ASSUME NEW d \in Files, ClientStep(d) PROVE [LinearNext]_linearVars
    <2>1. CASE DWLInit(d)
      BY <2>1 DEF DWLInit
    <2>2. CASE \/ CheckReleasePpAndHw(d) \/ RunAsic(d) \/ Restart(d) \/ GetResult(d)
               \/ SwitchToRlc(d) \/ PictureRefused(d) \/ NextPicture(d)
      <3>1. UNCHANGED linearVars
        <4>1. CheckReleasePpAndHw(d) \/ RunAsic(d) => UNCHANGED linearVars
          BY Zenon DEF CheckReleasePpAndHw, RunAsic
        <4>2. Restart(d) \/ GetResult(d) => UNCHANGED linearVars
          BY Zenon DEF Restart, GetResult
        <4>3. SwitchToRlc(d) \/ PictureRefused(d) \/ NextPicture(d) => UNCHANGED linearVars
          BY Zenon DEF SwitchToRlc, PictureRefused, NextPicture
        <4> QED
          BY <2>2, <4>1, <4>2, <4>3
      <3> QED
        BY <3>1
    <2>3. CASE EndOfStream(d) \/ EndOfStreamKept(d) \/ CombinedMode(d) \/ H264DecRelease(d)
      <3>1. UNCHANGED linearVars
        BY <2>3 DEF EndOfStream, EndOfStreamKept, CombinedMode, H264DecRelease
      <3> QED
        BY <3>1
    <2> QED
      BY <1>1, <2>1, <2>2, <2>3 DEF ClientStep
  <1>2. ASSUME NEW d \in Files, CallReturns(d) PROVE [LinearNext]_linearVars
    <2>1. CASE DWLRelease(d) \/ DWLClosing(d) \/ ExitFiles(d)
      BY <2>1 DEF DWLRelease, DWLClosing, ExitFiles, linearVars
    <2>2. CASE FreeLinear(d) \/ MallocLinear(d)
      BY <2>2 DEF FreeLinear, MallocLinear, linearVars
    <2>3. CASE Checked(d) \/ ReserveHw(d) \/ DecStartPp(d) \/ PPRun(d) \/ EnableHW(d)
      BY <2>3 DEF Checked, ReserveHw, DecStartPp, PPRun, EnableHW, linearVars
    <2>4. CASE BufferEmpty(d) \/ PictureDone(d) \/ FirstField(d) \/ ReleaseHw(d) \/ DecEndPp(d)
      BY <2>4 DEF BufferEmpty, PictureDone, FirstField, ReleaseHw, DecEndPp, linearVars
    <2> QED
      BY <1>2, <2>1, <2>2, <2>3, <2>4 DEF CallReturns
  <1>3. ASSUME NEW d \in Files, Die(d) PROVE [LinearNext]_linearVars
    BY <1>3 DEF Die, linearVars
  <1>4. ASSUME NEW l \in Locks, HwDone(l) PROVE [LinearNext]_linearVars
    BY <1>4 DEF HwDone, linearVars
  <1>5. CASE HwEmpty \/ UNCHANGED vars
    BY <1>5 DEF HwEmpty, vars, linearVars
  <1> QED
    BY <1>1, <1>2, <1>3, <1>4, <1>5 DEF Next

\* The decoders and their deaths ask nothing of the driver that LinearMem does not
\* offer, and DriverImplementsLinear in MemAllocProofs says that the driver offers it.
THEOREM UsesLinearMem == Spec => LinearSpec
  <1>1. Init => LinearInit
    BY DEF Init
  <1> QED
    BY <1>1, LinearStep, PTL DEF Spec, LinearSpec

BlocksApart == \A a, b \in blocks : a # b => a.chunks \cap b.chunks = {}

\* What the hardware works on is its client's, and nobody else's.
DmaIsOwn ==
    \A l \in Locks : Runs(l) /\ pc(hw[l].by) # "dead" =>
       \A b \in hw[l].dma : /\ b.file = hw[l].by
                            /\ \A o \in blocks : o.chunks \cap b.chunks # {} => o = b

\* No picture, of either piece of hardware, is decoded into memory that another
\* instance has, or gets while it runs: DmaSafe and the disjointness of the blocks.
THEOREM DmaStaysOwn == Spec => []DmaIsOwn
  <1>1. LinearInit => BlocksApart
    BY DEF LinearInit, BlocksApart
  <1>2. BlocksApart /\ [LinearNext]_linearVars => BlocksApart'
    <2> SUFFICES ASSUME BlocksApart, [LinearNext]_linearVars PROVE BlocksApart'
      OBVIOUS
    <2>1. ASSUME blocks' \subseteq blocks PROVE BlocksApart'
      BY <2>1 DEF BlocksApart
    <2>2. ASSUME NEW f \in Files, Grant(f) PROVE BlocksApart'
      <3>1. PICK c \in Chunk : \E e \in c .. N - 1 :
                  /\ \A b \in blocks : b.chunks \cap (c .. e) = {}
                  /\ blocks' = blocks \cup {[file |-> f, chunks |-> c .. e]}
        BY <2>2 DEF Grant
      <3>2. PICK e \in c .. N - 1 :
                  /\ \A b \in blocks : b.chunks \cap (c .. e) = {}
                  /\ blocks' = blocks \cup {[file |-> f, chunks |-> c .. e]}
        BY <3>1
      <3>3. ASSUME NEW a \in blocks', NEW b \in blocks', a # b PROVE a.chunks \cap b.chunks = {}
        <4>1. a \in blocks \/ a = [file |-> f, chunks |-> c .. e]
          BY <3>2
        <4>2. b \in blocks \/ b = [file |-> f, chunks |-> c .. e]
          BY <3>2
        <4>3. a \in blocks /\ b \in blocks => a.chunks \cap b.chunks = {}
          BY <3>3 DEF BlocksApart
        <4>4. ASSUME a = [file |-> f, chunks |-> c .. e] PROVE a.chunks = c .. e
          BY <4>4
        <4>5. ASSUME b = [file |-> f, chunks |-> c .. e] PROVE b.chunks = c .. e
          BY <4>5
        <4>6. ASSUME a \in blocks PROVE a.chunks \cap (c .. e) = {}
          BY <3>2, <4>6
        <4>7. ASSUME b \in blocks PROVE b.chunks \cap (c .. e) = {}
          BY <3>2, <4>7
        <4> QED
          BY <3>3, <4>1, <4>2, <4>3, <4>4, <4>5, <4>6, <4>7
      <3> QED
        BY <3>3 DEF BlocksApart
    <2> QED
      BY <2>1, <2>2 DEF LinearNext, Open, Free, Close, Drop, Lose, Closed, linearVars
  <1>3. IInv /\ BlocksApart => DmaIsOwn
    BY DEF IInv, PicsInv, Owned, WorkInv, Reach, BlocksApart, DmaIsOwn
  <1> QED
    BY <1>1, <1>2, <1>3, InvHolds, UsesLinearMem, PTL DEF LinearSpec

=============================================================================
