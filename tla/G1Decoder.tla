----------------------------- MODULE G1Decoder -----------------------------
(***************************************************************************)
(* Several clients of the G1 decoder hardware: each is a thread with one   *)
(* H.264 decoder instance (h264decapi.c, h264hwd_asic.c), its wrapper      *)
(* layer (linux/dwl) and one post-processor instance (source/pp), on top   *)
(* of the linear memory that module LinearMem promises and MemAlloc        *)
(* provides; the two races of the memalloc driver are not met here.        *)
(*                                                                         *)
(* The decoder and the post-processor hardware are each guarded by a       *)
(* binary semaphore.  A decoder takes the first for a picture and keeps it *)
(* across calls while the hardware waits for more stream (asicRunning) or  *)
(* for the second field (keepHwReserved); a combined post-processor takes  *)
(* the second inside the first.  The kernel side of the semaphores and the *)
(* interrupts is not in the repository: they are modelled by the comments  *)
(* of dwl_linux_lock_ioctl.c and by how the wrapper uses them.             *)
(*                                                                         *)
(* Every instance allocates before it decodes and releases when its client *)
(* says so.  A client disconnects its post-processor while its decoder is  *)
(* not running, before it releases the decoder (h264decapi.c:475).         *)
(***************************************************************************)
EXTENDS LinearMem, FiniteSets

CONSTANTS MaxGrants,  \* bound on the buffers one instance allocates
          Combiners,  \* the clients that combine their post-processor with the decoder
          Slips       \* what may go wrong, at most once: "died", "eos"

ASSUME GrantsAssumption == MaxGrants \in Nat \ {0}
ASSUME CombinersAssumption == Combiners \subseteq Files
ASSUME SlipsAssumption == Slips \subseteq {"died", "eos"}

VARIABLES together,  \* the instances live in one process and share x170_init_mutex
          inst,      \* the control state of each client and its instance
          sem,       \* the values of the two semaphores
          has,       \* history: the semaphores each client waited for and not posted
          hw,        \* the two pieces of hardware
          slipped    \* history: the slip that has happened

hwVars == <<sem, has, hw>>
g1Vars == <<together, inst, sem, has, hw, slipped>>
vars == <<linearVars, g1Vars>>

Locks == {"dec", "pp"}

Off == [st |-> "off", by |-> "none", dma |-> {}]

Fresh == [pc |-> "out", then |-> "idle", attached |-> FALSE, ppStatus |-> "IDLE",
          mode |-> "idle", asicRunning |-> FALSE, keepHwReserved |-> FALSE, pics |-> {}]

Init ==
    /\ LinearInit
    /\ together \in BOOLEAN
    /\ inst = [d \in Files |-> Fresh]
    /\ sem = [l \in Locks |-> 1]
    /\ has = [d \in Files |-> {}]
    /\ hw = [l \in Locks |-> Off]
    /\ slipped = "none"

-----------------------------------------------------------------------------
pc(d) == inst[d].pc

Owned(d) == {b \in blocks : b.file = d}

\* The post-processor works for this decoder's picture, or waits for its second
\* field (decPpIf.ppStatus; IDLE stands for DECPP_PIC_READY too).
PpActive(d) == inst[d].attached /\ inst[d].ppStatus \in {"RUNNING", "PIC_NOT_FINISHED"}

\* DWLReserveHw and DWLReleaseHw.
Wait(d, l) == /\ sem[l] > 0
              /\ sem' = [sem EXCEPT ![l] = @ - 1]
              /\ has' = [has EXCEPT ![d] = @ \cup {l}]

Post(d, l) == /\ sem' = [sem EXCEPT ![l] = @ + 1]
              /\ has' = [has EXCEPT ![d] = @ \ {l}]

\* DWLEnableHW: the decoder works on all buffers of the instance, the
\* post-processor on its pictures.
Enabled(d, l) == [st |-> "run", by |-> d, dma |-> IF l = "pp" THEN inst[d].pics ELSE Owned(d)]

(***************************************************************************)
(* DWLInit and DWLRelease open and close the memalloc file under           *)
(* x170_init_mutex, a mutex of the process.                                *)
(***************************************************************************)
InitMutexFree == together => \A e \in Files : files[e] # "closing"

DWLInit(d) ==
    /\ pc(d) = "out" /\ InitMutexFree
    /\ Open(d) /\ races' = races
    /\ inst' = [inst EXCEPT ![d].pc = "idle"]
    /\ UNCHANGED <<together, hwVars, slipped>>

DWLRelease(d) ==
    /\ pc(d) = "close" /\ InitMutexFree
    /\ Close(d)
    /\ inst' = [inst EXCEPT ![d].pc = "closing"]
    /\ UNCHANGED <<together, hwVars, slipped>>

\* The release of the memalloc file, in DWLRelease or after the process died.
DWLClosing(d) ==
    /\ \/ pc(d) = "dead" /\ Drop(d) /\ UNCHANGED inst
       \/ pc(d) = "dead" /\ Closed(d) /\ UNCHANGED inst
       \/ pc(d) = "closing" /\ Closed(d) /\ inst' = [inst EXCEPT ![d] = Fresh]
    /\ UNCHANGED <<together, hwVars, slipped>>

(***************************************************************************)
(* New headers free the buffers of the instance and allocate others, those *)
(* of the hardware (h264AllocateResources) and, unless their number and    *)
(* size stay, the pictures (pics).  A buffer that is not granted fails the *)
(* call (H264DEC_MEMFAIL) and leaves the others allocated.                 *)
(***************************************************************************)
ToFree(d) == IF pc(d) = "free" THEN Owned(d) ELSE Owned(d) \ inst[d].pics

FreeLinear(d) ==
    /\ pc(d) \in {"free", "freeasic"}
    /\ \/ /\ Free(d) /\ blocks \ blocks' \subseteq ToFree(d)
          /\ inst' = [inst EXCEPT ![d].pics = @ \cap blocks']
       \/ /\ ToFree(d) = {}
          /\ inst' = [inst EXCEPT ![d].pc = inst[d].then, ![d].then = "idle"]
          /\ UNCHANGED linearVars
    /\ UNCHANGED <<together, hwVars, slipped>>

MallocLinear(d) ==
    /\ pc(d) = "alloc"
    /\ \/ /\ Cardinality(Owned(d)) < MaxGrants
          /\ Grant(d)
          /\ inst' \in {inst, [inst EXCEPT ![d].pics = @ \cup (blocks' \ blocks)]}
       \/ inst' = [inst EXCEPT ![d].pc = "idle"] /\ UNCHANGED linearVars
    /\ UNCHANGED <<together, hwVars, slipped>>

(***************************************************************************)
(* h264CheckReleasePpAndHw, called for new headers, a new access unit and  *)
(* an unpaired field; after new headers the resources are reallocated.     *)
(* A call that waits for more stream (H264DEC_BUFFER_EMPTY) goes straight  *)
(* on to the hardware.                                                     *)
(***************************************************************************)
CheckReleasePpAndHw(d) ==
    /\ pc(d) = "idle" /\ ~inst[d].asicRunning
    /\ inst' = [inst EXCEPT ![d] =
                  IF PpActive(d)
                  THEN [@ EXCEPT !.ppStatus = "IDLE", !.pc = "ppend", !.then = "checked"]
                  ELSE [@ EXCEPT !.pc = "checked"]]
    /\ UNCHANGED <<linearVars, together, hwVars, slipped>>

Reallocate(r, next) ==
    [r EXCEPT !.pc = next, !.then = IF next = "idle" THEN "idle" ELSE "alloc"]

\* Mutant of Checked: the hardware is released and still noted as kept.
CheckedStillKept(d) ==
    /\ pc(d) = "checked"
    /\ \E next \in {"free", "freeasic", "idle"} : inst' = [inst EXCEPT ![d] = Reallocate(@, next)]
    /\ IF inst[d].keepHwReserved THEN Post(d, "dec") ELSE UNCHANGED <<sem, has>>
    /\ UNCHANGED <<linearVars, together, hw, slipped>>

Checked(d) ==
    /\ pc(d) = "checked"
    /\ \E next \in {"free", "freeasic", "idle"} :
          inst' = [inst EXCEPT ![d] = Reallocate([@ EXCEPT !.keepHwReserved = FALSE], next)]
    /\ IF inst[d].keepHwReserved THEN Post(d, "dec") ELSE UNCHANGED <<sem, has>>
    /\ UNCHANGED <<linearVars, together, hw, slipped>>

\* Mutant of SwitchToRlc: the pictures go too.
SwitchFreesPictures(d) ==
    /\ pc(d) = "idle" /\ ~inst[d].asicRunning
    /\ inst' = [inst EXCEPT ![d] = Reallocate(@, "free")]
    /\ UNCHANGED <<linearVars, together, hwVars, slipped>>

\* The switch to decoding the entropy in software: the buffers of the hardware
\* are reallocated at once, also when the hardware is kept for a second field
\* and the post-processor still runs.
SwitchToRlc(d) ==
    /\ pc(d) = "idle" /\ ~inst[d].asicRunning
    /\ inst' = [inst EXCEPT ![d] = Reallocate(@, "freeasic")]
    /\ UNCHANGED <<linearVars, together, hwVars, slipped>>

(***************************************************************************)
(* H264RunAsic, after h264PreparePpRun has decided whether the             *)
(* post-processor runs with this picture, in the pipeline or in parallel   *)
(* (it may be noted as running from a picture that was refused).           *)
(***************************************************************************)
PreparePpRun(d) ==
    IF inst[d].attached /\ inst[d].ppStatus # "PIC_NOT_FINISHED"
    THEN {[inst[d] EXCEPT !.ppStatus = "RUNNING", !.mode = m] : m \in {"pipeline", "parallel"}}
         \cup {r \in {inst[d]} : r.ppStatus = "IDLE"}
    ELSE {inst[d]}

\* Tiled pictures that the mode of the DPB does not allow (H264DEC_STRM_ERROR):
\* the post-processor is noted as running and never started.
PictureRefused(d) ==
    /\ pc(d) = "idle" /\ ~inst[d].asicRunning /\ Owned(d) # {}
    /\ inst[d].attached /\ inst[d].ppStatus = "IDLE"
    /\ inst' = [inst EXCEPT ![d].ppStatus = "RUNNING"]
    /\ UNCHANGED <<linearVars, together, hwVars, slipped>>

RunAsic(d) ==
    /\ pc(d) = "idle" /\ ~inst[d].asicRunning /\ Owned(d) # {}
    /\ \E r \in PreparePpRun(d) :
          inst' = [inst EXCEPT ![d] =
                     IF r.keepHwReserved THEN [r EXCEPT !.asicRunning = TRUE, !.pc = "flush"]
                                         ELSE [r EXCEPT !.pc = "reserve"]]
    /\ UNCHANGED <<linearVars, together, hwVars, slipped>>

ReserveHw(d) ==
    /\ pc(d) = "reserve"
    /\ Wait(d, "dec")
    /\ inst' = [inst EXCEPT ![d].asicRunning = TRUE, ![d].pc = "flush"]
    /\ UNCHANGED <<linearVars, together, hw, slipped>>

\* PPDecStart, which may refuse the picture (PPCombinedRet).
DecStartPp(d) ==
    /\ pc(d) = "flush" /\ inst[d].attached /\ inst[d].ppStatus = "RUNNING"
    /\ inst' \in {[inst EXCEPT ![d].pc = "ppreserve"],
                  [inst EXCEPT ![d].pc = "enable", ![d].mode = "idle"]}
    /\ UNCHANGED <<linearVars, together, hwVars, slipped>>

\* PPRun: with the decoder, and alone.  An instance in "ppagain" holds the
\* semaphore that it waits for.
PPRun(d) ==
    /\ pc(d) \in {"ppreserve", "ppagain"}
    /\ Wait(d, "pp")
    /\ hw' = [hw EXCEPT !["pp"] = Enabled(d, "pp")]
    /\ inst' = [inst EXCEPT ![d].pc = IF inst[d].mode = "alone" THEN "ppend" ELSE "enable"]
    /\ UNCHANGED <<linearVars, together, slipped>>

EnableHW(d) ==
    /\ \/ pc(d) = "enable"
       \/ pc(d) = "flush" /\ ~(inst[d].attached /\ inst[d].ppStatus = "RUNNING")
    /\ hw' = [hw EXCEPT !["dec"] = Enabled(d, "dec")]
    /\ inst' = [inst EXCEPT ![d].pc = "wait"]
    /\ UNCHANGED <<linearVars, together, sem, has, slipped>>

\* The hardware had run out of stream and is restarted.
Restart(d) ==
    /\ pc(d) = "idle" /\ inst[d].asicRunning
    /\ hw' = [hw EXCEPT !["dec"] = Enabled(d, "dec")]
    /\ inst' = [inst EXCEPT ![d].pc = "wait"]
    /\ UNCHANGED <<linearVars, together, sem, has, slipped>>

\* DWLWaitDecHwReady polls the status bits; it has no time-out.
BufferEmpty(d) ==
    /\ pc(d) = "wait" /\ hw["dec"].st = "empty"
    /\ inst' = [inst EXCEPT ![d].pc = "idle"]
    /\ UNCHANGED <<linearVars, together, hwVars, slipped>>

PictureDone(d) ==
    /\ pc(d) = "wait" /\ hw["dec"].st = "done"
    /\ inst' = [inst EXCEPT ![d] =
                 IF PpActive(d)
                 THEN [@ EXCEPT !.asicRunning = FALSE, !.keepHwReserved = FALSE,
                                !.ppStatus = "IDLE", !.pc = "ppend", !.then = "release"]
                 ELSE [@ EXCEPT !.asicRunning = FALSE, !.keepHwReserved = FALSE, !.pc = "release"]]
    /\ UNCHANGED <<linearVars, together, hwVars, slipped>>

\* Mutant of FirstField: the hardware is not noted as kept.
FirstFieldNotKept(d) ==
    /\ pc(d) = "wait" /\ hw["dec"].st = "done"
    /\ PpActive(d) /\ inst[d].mode # "pipeline"
    /\ inst' = [inst EXCEPT ![d].asicRunning = FALSE, ![d].keepHwReserved = FALSE,
                            ![d].ppStatus = "PIC_NOT_FINISHED", ![d].pc = "idle"]
    /\ UNCHANGED <<linearVars, together, hwVars, slipped>>

\* A field that another one follows before the post-processor is waited for: the
\* first of a frame, with two views each one of the base view.  Fields do not run
\* in the pipeline (h264_pp_pipeline.c:276-287).
FirstField(d) ==
    /\ pc(d) = "wait" /\ hw["dec"].st = "done"
    /\ PpActive(d) /\ inst[d].mode # "pipeline"
    /\ inst' = [inst EXCEPT ![d].asicRunning = FALSE, ![d].keepHwReserved = TRUE,
                            ![d].ppStatus = "PIC_NOT_FINISHED", ![d].pc = "idle"]
    /\ UNCHANGED <<linearVars, together, hwVars, slipped>>

ReleaseHw(d) ==
    /\ pc(d) = "release"
    /\ Post(d, "dec")
    /\ inst' = [inst EXCEPT ![d].pc = "idle", ![d].asicRunning = FALSE]
    /\ UNCHANGED <<linearVars, together, hw, slipped>>

(***************************************************************************)
(* PPDecEndCallback: nothing to do if the post-processor was not started,  *)
(* no wait in the pipeline, else WaitForPp.                                *)
(***************************************************************************)
DecEndPp(d) ==
    /\ pc(d) = "ppend"
    /\ \/ /\ inst[d].mode = "idle"
          /\ UNCHANGED hwVars
       \/ /\ inst[d].mode = "pipeline" \/ (inst[d].mode # "idle" /\ hw["pp"].st = "done")
          /\ hw' = [hw EXCEPT !["pp"] = Off]
          /\ Post(d, "pp")
    /\ inst' = [inst EXCEPT ![d].pc = inst[d].then, ![d].then = "idle", ![d].mode = "idle"]
    /\ UNCHANGED <<linearVars, together, slipped>>

\* PPGetResult of a post-processor that is not combined with a decoder.
GetResult(d) ==
    /\ pc(d) = "idle" /\ ~inst[d].attached /\ Owned(d) # {}
    /\ inst' = [inst EXCEPT ![d].pc = "ppreserve", ![d].mode = "alone"]
    /\ UNCHANGED <<linearVars, together, hwVars, slipped>>

\* H264DecNextPicture runs a combined post-processor for a picture that it has
\* not processed (a run that PPDecStart refuses changes nothing).  It does not
\* ask whether the post-processor works for the picture that waits for stream,
\* and then waits for the semaphore of its own instance.
NextPicture(d) ==
    /\ pc(d) = "idle" /\ inst[d].attached /\ Owned(d) # {}
    /\ inst[d].ppStatus # "PIC_NOT_FINISHED"
    /\ inst' = [inst EXCEPT ![d].pc = IF inst[d].mode = "idle" THEN "ppreserve" ELSE "ppagain",
                            ![d].mode = "alone"]
    /\ UNCHANGED <<linearVars, together, hwVars, slipped>>

(***************************************************************************)
(* H264DecNextPicture at the end of the stream.  The arm that stops the    *)
(* hardware leaves keepHwReserved as it is: of a second field it is set,   *)
(* and the next picture runs, and the release of the instance posts,       *)
(* without the semaphore ("eos").                                          *)
(***************************************************************************)
EndOfStream(d) ==
    /\ pc(d) = "idle"
    /\ inst[d].asicRunning
    /\ IF inst[d].keepHwReserved
       THEN "eos" \in Slips /\ slipped = "none" /\ slipped' = "eos"
       ELSE UNCHANGED slipped
    /\ hw' = [hw EXCEPT !["dec"] = Off]
    /\ inst' = [inst EXCEPT ![d] =
                 IF PpActive(d)
                 THEN [@ EXCEPT !.ppStatus = "IDLE", !.pc = "ppend", !.then = "release"]
                 ELSE [@ EXCEPT !.pc = "release"]]
    /\ UNCHANGED <<linearVars, together, sem, has>>

EndOfStreamKept(d) ==
    /\ pc(d) = "idle"
    /\ ~inst[d].asicRunning /\ inst[d].keepHwReserved
    /\ Post(d, "dec")
    /\ inst' = [inst EXCEPT ![d] =
                 IF inst[d].attached /\ inst[d].ppStatus = "PIC_NOT_FINISHED"
                 THEN [@ EXCEPT !.keepHwReserved = FALSE, !.ppStatus = "IDLE",
                                !.pc = "ppend", !.then = "idle"]
                 ELSE [@ EXCEPT !.keepHwReserved = FALSE]]
    /\ UNCHANGED <<linearVars, together, hw, slipped>>

\* PPDecCombinedModeEnable and PPDecCombinedModeDisable.
CombinedMode(d) ==
    /\ d \in Combiners
    /\ pc(d) = "idle" /\ ~inst[d].asicRunning /\ inst[d].mode = "idle"
    /\ inst' = [inst EXCEPT ![d].attached = ~@, ![d].ppStatus = "IDLE"]
    /\ UNCHANGED <<linearVars, together, hwVars, slipped>>

\* Mutant of H264DecRelease: hardware kept for a second field is not released.
ReleaseForgetsKept(d) ==
    /\ pc(d) = "idle" /\ ~inst[d].attached
    /\ hw' = IF inst[d].asicRunning THEN [hw EXCEPT !["dec"] = Off] ELSE hw
    /\ IF inst[d].asicRunning THEN Post(d, "dec") ELSE UNCHANGED <<sem, has>>
    /\ inst' = [inst EXCEPT ![d].asicRunning = FALSE, ![d].keepHwReserved = FALSE,
                            ![d].pc = "free", ![d].then = "close"]
    /\ UNCHANGED <<linearVars, together, slipped>>

\* H264DecRelease: the hardware is stopped before the memory goes.
H264DecRelease(d) ==
    /\ pc(d) = "idle" /\ ~inst[d].attached
    /\ hw' = IF inst[d].asicRunning THEN [hw EXCEPT !["dec"] = Off] ELSE hw
    /\ IF inst[d].asicRunning \/ inst[d].keepHwReserved THEN Post(d, "dec")
                                                        ELSE UNCHANGED <<sem, has>>
    /\ inst' = [inst EXCEPT ![d].asicRunning = FALSE, ![d].keepHwReserved = FALSE,
                            ![d].pc = "free", ![d].then = "close"]
    /\ UNCHANGED <<linearVars, together, slipped>>

-----------------------------------------------------------------------------
\* The hardware: a decoder reports a picture (or an error), or an empty buffer.
HwDone(l) ==
    /\ hw[l].st = "run"
    /\ hw' = [hw EXCEPT ![l] = [Off EXCEPT !.st = "done"]]
    /\ UNCHANGED <<linearVars, together, inst, sem, has, slipped>>

HwEmpty ==
    /\ hw["dec"].st = "run"
    /\ hw' = [hw EXCEPT !["dec"].st = "empty"]
    /\ UNCHANGED <<linearVars, together, inst, sem, has, slipped>>

(***************************************************************************)
(* A process dies.  The kernel releases the memalloc files of its          *)
(* instances; hx170dec_release does not stop the hardware, and nothing in  *)
(* the repository gives its semaphores back.                               *)
(***************************************************************************)
Die(d) ==
    /\ "died" \in Slips /\ slipped = "none"
    /\ pc(d) \notin {"out", "dead"}
    /\ slipped' = "died"
    /\ inst' = [e \in Files |-> IF e = d \/ together THEN [Fresh EXCEPT !.pc = "dead"] ELSE inst[e]]
    /\ UNCHANGED <<linearVars, together, hwVars>>

ExitFiles(d) ==
    /\ pc(d) = "dead" /\ InitMutexFree
    /\ Close(d)
    /\ UNCHANGED g1Vars

\* What a client does on its own account.
ClientStep(d) ==
    \/ DWLInit(d) \/ CheckReleasePpAndHw(d) \/ RunAsic(d) \/ Restart(d) \/ GetResult(d)
    \/ SwitchToRlc(d) \/ PictureRefused(d) \/ NextPicture(d)
    \/ EndOfStream(d) \/ EndOfStreamKept(d) \/ CombinedMode(d) \/ H264DecRelease(d)

\* What the code then does until the call returns, and the kernel for a dead process.
CallReturns(d) ==
    \/ DWLRelease(d) \/ DWLClosing(d) \/ FreeLinear(d) \/ MallocLinear(d)
    \/ Checked(d) \/ ReserveHw(d) \/ DecStartPp(d) \/ PPRun(d) \/ EnableHW(d) \/ BufferEmpty(d)
    \/ PictureDone(d) \/ FirstField(d) \/ ReleaseHw(d) \/ DecEndPp(d) \/ ExitFiles(d)

Next ==
    \/ \E d \in Files : ClientStep(d) \/ CallReturns(d) \/ Die(d)
    \/ \E l \in Locks : HwDone(l)
    \/ HwEmpty

Spec == Init /\ [][Next]_vars

\* A client that stopped in the middle of a picture goes on with it, and a
\* stream ends.
Feed(d) == \/ inst[d].asicRunning /\ (Restart(d) \/ EndOfStream(d))
           \/ inst[d].keepHwReserved /\ (RunAsic(d) \/ EndOfStreamKept(d))

Holds(d, l) == IF l = "dec" THEN inst[d].asicRunning \/ inst[d].keepHwReserved
                            ELSE inst[d].mode # "idle"

-----------------------------------------------------------------------------
(***************************************************************************)
(* Fairness.  A call that can go on does; a semaphore or a mutex that is   *)
(* free again and again is got in the end (the waiters sleep in a queue).  *)
(* The hardware finishes a picture that it is given stream for again and   *)
(* again: a picture has an end, and a frame has a last field.  A client    *)
(* that has begun a picture feeds it, or ends its stream.                  *)
(***************************************************************************)
Fairness ==
    /\ \A d \in Files : SF_vars(CallReturns(d))
    /\ SF_vars(\E d \in Files : Feed(d))
    /\ SF_vars(\E d \in Files : PictureDone(d))
    /\ \A l \in Locks : SF_vars(HwDone(l))

FairSpec == Spec /\ Fairness

-----------------------------------------------------------------------------
TypeOK ==
    /\ blocks \subseteq [file : Files, chunks : SUBSET Chunk]
    /\ files \in [Files -> {"closed", "open", "closing"}] /\ races = {}
    /\ together \in BOOLEAN
    /\ inst \in [Files -> [pc : {"out", "idle", "checked", "free", "freeasic", "alloc", "flush",
                                 "reserve", "ppreserve", "ppagain", "enable", "wait", "release", "ppend",
                                 "close", "closing", "dead"},
                           then : {"idle", "checked", "release", "alloc", "close"},
                           attached : BOOLEAN,
                           ppStatus : {"IDLE", "RUNNING", "PIC_NOT_FINISHED"},
                           mode : {"idle", "alone", "pipeline", "parallel"},
                           asicRunning : BOOLEAN, keepHwReserved : BOOLEAN,
                           pics : SUBSET [file : Files, chunks : SUBSET Chunk]]]
    /\ sem \in [Locks -> 0 .. 2]
    /\ has \in [Files -> SUBSET Locks]
    /\ \A l \in Locks : /\ hw[l].st \in {"off", "run", "empty", "done"}
                        /\ hw[l].by \in Files \cup {"none"}
                        /\ hw[l].dma \subseteq [file : Files, chunks : SUBSET Chunk]
    /\ slipped \in Slips \cup {"none"}

\* Each piece of hardware has at most one client, and what works, works for the
\* client that took its semaphore; between calls an instance still holds a
\* semaphore exactly when its flags say so, as H264DecRelease and the end of the
\* stream rely on (h264decapi.c:477-487, 1633-1665).
HwLocked ==
    slipped # "eos" =>
      /\ \A l \in Locks :
            /\ sem[l] + Cardinality({d \in Files : l \in has[d]}) = 1
            /\ hw[l].st \in {"run", "empty"} => l \in has[hw[l].by]
      /\ \A d \in Files, l \in Locks :
            pc(d) \in {"out", "idle"} => (l \in has[d] <=> Holds(d, l))

\* The hardware reads and writes only memory that is still granted: unless its
\* process dies (hx170dec.c:254 does not stop it), no buffer is freed under a
\* picture that runs, or that waits for more stream.
DmaSafe ==
    \A l \in Locks : hw[l].st \in {"run", "empty"} /\ pc(hw[l].by) # "dead" => hw[l].dma \subseteq blocks

\* Every call of the decoder returns, although none of its waits has a
\* time-out (dwl_x170_linux_irq.c:386-452) and a picture holds the hardware
\* across calls; also when another process dies that holds no semaphore.  But
\* H264DecNextPicture, called while a picture waits for stream whose
\* post-processor works, waits for itself (h264decapi.c:1877, ppinternal.c:1319).
CallsReturn ==
    \A d \in Files :
       pc(d) \notin {"out", "idle"} ~>
          \/ pc(d) \in {"out", "idle", "dead"}
          \/ slipped = "eos"
          \/ \E e \in Files : pc(e) = "ppagain" \/ (pc(e) = "dead" /\ has[e] # {})
=============================================================================
