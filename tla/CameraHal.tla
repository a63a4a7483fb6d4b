------------------------------ MODULE CameraHal ------------------------------
(***************************************************************************)
(* The camera HAL of camera/CameraHardware.cpp on V4L2Camera.cpp: the      *)
(* client's calls (start and stop preview, record, take a picture, release *)
(* the camera), the preview thread, the picture thread, and the return of  *)
(* recorded frames, which comes on a thread of its own.                    *)
(*                                                                         *)
(* Neither thread nor the driver is told whose stream it is: one flag,     *)
(* isStreaming, and the order of the calls keep them apart.  A slip is a   *)
(* step that leaves that order; the history variable slipped remembers that *)
(* there was one, and the safety properties speak of behaviours without.   *)
(***************************************************************************)
EXTENDS Naturals, FiniteSets

CONSTANTS
  Buffers,     \* the NB_BUFFER frame buffers of the driver
  None,        \* no buffer, no frame, no holder of a lock
  Snaps,       \* frames dropped before a picture (30 in the code)
  MaxStreams,  \* bound on the number of times streaming is set up
  Slips        \* the slips that may happen, see AllSlips

(***************************************************************************)
(* impatient: the client starts the preview, or releases the camera, while *)
(*   a capture is in progress.                                             *)
(* early: a picture is taken before the preview thread has come to its wait *)
(*   for the first time: it may have seen that no capture is in progress    *)
(*   and be about to stop the stream; or the camera is released then, and   *)
(*   the only signal comes before the wait.                                *)
(* late: the application keeps a frame longer than the 500 ms allowed.     *)
(* preempted: a thread is held up between two statements that belong       *)
(*   together, so that another one comes between.                          *)
(* raw: a picture is taken with CAMERA_MSG_COMPRESSED_IMAGE disabled.      *)
(* device: the driver refuses to stop streaming.                           *)
(***************************************************************************)
AllSlips == {"impatient", "early", "late", "preempted", "raw", "device"}

ASSUME CameraAssumption ==
  /\ IsFiniteSet(Buffers) /\ Buffers # {} /\ Snaps \in Nat \ {0} /\ MaxStreams \in Nat
  /\ None \notin Buffers \cup [buffer : Buffers, stream : 1..MaxStreams]
  /\ None \notin {"client", "preview"}
  /\ Slips \subseteq AllSlips

VARIABLES
  isStreaming,   \* videoIn->isStreaming
  mapped,        \* the buffers are mapped (mPreviewHeap exists)
  stream,        \* how often they have been mapped
  queued,        \* the buffers the driver may write to
  running,       \* mPreviewRunning
  exit,          \* mExitPreviewThread
  recording,     \* mRecordRunning, and CAMERA_MSG_VIDEO_FRAME is enabled
  capture,       \* mCaptureInProgress
  buffersOut,    \* mBuffersOut: 1 for a buffer the application holds
  previewLock, stateLock,  \* mPreviewLock, mStateLock: who holds them
  pc,            \* where each thread is
  after,         \* what the client does when the preview has stopped
  snaps,         \* frames still to be dropped
  held,          \* the frame a thread of the HAL works on
  appHeld,       \* the frames the application holds
  returning,     \* the buffer releaseRecordingFrame is working on
  slipped        \* history: there has been a slip

device == <<isStreaming, mapped, stream, queued>>
flags  == <<running, exit, recording, capture>>
locks  == <<previewLock, stateLock>>
app    == <<appHeld, returning, buffersOut>>
vars   == <<device, flags, locks, app, pc, after, snaps, held, slipped>>

Threads == {"client", "preview", "picture"}
Grabbers == {"preview", "picture"}
Frame(b, s) == [buffer |-> b, stream |-> s]

TypeOK ==
  /\ isStreaming \in BOOLEAN /\ mapped \in BOOLEAN
  /\ stream \in 0..MaxStreams /\ queued \subseteq Buffers
  /\ {running, exit, recording, capture} \subseteq BOOLEAN
  /\ buffersOut \in [Buffers -> {0, 1}]
  /\ previewLock \in {None, "client", "preview"} /\ stateLock \in {None, "client"}
  /\ pc["client"] \in {"idle", "startLock", "start", "started", "begun", "refused",
                       "stopWait", "woken", "take", "cancel", "signalExit", "join", "gone"}
  /\ pc["preview"] \in {"lock", "check", "grab", "record", "post", "drain", "stop",
                        "stopped", "signal", "wait", "wake", "done"}
  /\ pc["picture"] \in {"idle", "start", "started", "snap", "snapped", "grab", "shoot",
                        "stop", "stopped", "leave", "ending"}
  /\ after \in {"idle", "take"} /\ snaps \in 0..Snaps
  /\ held \in [Grabbers -> [buffer : Buffers, stream : 1..MaxStreams] \cup {None}]
  /\ appHeld \subseteq [buffer : Buffers, stream : 1..MaxStreams]
  /\ returning \in Buffers \cup {None} /\ slipped \in BOOLEAN

Init ==
  /\ isStreaming = FALSE /\ mapped = FALSE /\ stream = 0 /\ queued = {}
  /\ running = FALSE /\ exit = FALSE /\ recording = FALSE /\ capture = FALSE
  /\ buffersOut = [b \in Buffers |-> 0]
  /\ previewLock = None /\ stateLock = None
  /\ pc = [t \in Threads |-> IF t = "preview" THEN "lock" ELSE "idle"]
  /\ after = "idle" /\ snaps = 0
  /\ held = [t \in Grabbers |-> None] /\ appHeld = {} /\ returning = None
  /\ slipped = FALSE

Goto(t, l) == pc' = [pc EXCEPT ![t] = l]
At(t, l) == pc[t] = l
(* One slip is enough to lose the order; the application may be late at any *)
(* time.                                                                   *)
Slip(k) == k \in Slips /\ (slipped => k = "late") /\ slipped' = TRUE

(* VIDIOC_QBUF of buffers; an index that cannot be queued is refused, and   *)
(* the error only logged.                                                  *)
Requeued(bs) == IF mapped THEN queued \cup bs ELSE queued

-----------------------------------------------------------------------------
(* V4L2Camera::StartPreview and StopPreview, called by three threads.       *)

Streaming(t) == IF t = "client" THEN "begun" ELSE "snap"
Already(t)   == IF t = "client" THEN "refused" ELSE "snap"
\* Mutant of Failed: the picture thread returns where it failed.
FailedReturns(t) == IF t = "client" THEN "refused" ELSE "ending"

Failed(t)    == IF t = "client" THEN "refused" ELSE "leave"
AfterStop(t) == IF t = "picture" THEN "leave"
                ELSE IF previewLock = "preview" THEN "signal" ELSE "done"

StartAlready(t) ==
  /\ At(t, "start") /\ isStreaming
  /\ Goto(t, Already(t))
  /\ UNCHANGED <<device, flags, locks, app, after, snaps, held, slipped>>

StartMap(t) ==
  /\ At(t, "start") /\ ~isStreaming /\ stream < MaxStreams
  /\ mapped' = TRUE /\ stream' = stream + 1 /\ queued' = Buffers
  /\ Goto(t, "started")
  /\ UNCHANGED <<isStreaming, flags, locks, app, after, snaps, held, slipped>>

(* A refused format or frame rate before the mapping, or STREAMON after it. *)
StartFails(t) ==
  /\ \/ At(t, "start") /\ ~isStreaming
     \/ At(t, "started")
  /\ Goto(t, Failed(t))
  /\ UNCHANGED <<device, flags, locks, app, after, snaps, held, slipped>>

Started(t) ==
  /\ At(t, "started")
  /\ isStreaming' = TRUE
  /\ Goto(t, Streaming(t))
  /\ UNCHANGED <<mapped, stream, queued, flags, locks, app, after, snaps, held, slipped>>

(* STREAMOFF takes the buffers from the driver, Uninit unmaps them. *)
StopUnmap(t) ==
  /\ At(t, "stop") /\ isStreaming
  /\ mapped' = FALSE /\ queued' = {}
  /\ Goto(t, "stopped")
  /\ UNCHANGED <<isStreaming, stream, flags, locks, app, after, snaps, held, slipped>>

StopNothing(t) ==
  /\ At(t, "stop") /\ ~isStreaming
  /\ Goto(t, AfterStop(t))
  /\ UNCHANGED <<device, flags, locks, app, after, snaps, held, slipped>>

StopFails(t) ==
  /\ At(t, "stop") /\ isStreaming /\ Slip("device")
  /\ Goto(t, AfterStop(t))
  /\ UNCHANGED <<device, flags, locks, app, after, snaps, held>>

Stopped(t) ==
  /\ At(t, "stopped")
  /\ isStreaming' = FALSE
  /\ Goto(t, AfterStop(t))
  /\ UNCHANGED <<mapped, stream, queued, flags, locks, app, after, snaps, held, slipped>>

Stream(t) == \/ StartAlready(t) \/ StartMap(t) \/ StartFails(t) \/ Started(t)
             \/ StopUnmap(t) \/ StopNothing(t) \/ StopFails(t) \/ Stopped(t)

(* GrabPreviewFrame: VIDIOC_DQBUF of a filled buffer, *)
Grab(t, l, next) ==
  /\ At(t, l) /\ isStreaming
  /\ \E b \in queued :
       /\ held' = [held EXCEPT ![t] = Frame(b, stream)]
       /\ queued' = queued \ {b}
  /\ Goto(t, next)
  /\ UNCHANGED <<isStreaming, mapped, stream, flags, locks, app, after, slipped>>

(* or an error, or nothing within 200 ms. *)
GrabFails(t, l, next) ==
  /\ At(t, l)
  /\ Goto(t, next)
  /\ UNCHANGED <<device, flags, locks, app, after, held, slipped>>

-----------------------------------------------------------------------------
(* The preview thread: previewThreadWrapper and previewThread.             *)

(* mPreviewLock is obtained, at the top or after the condition's wait, and  *)
(* mPreviewRunning tested.                                                 *)
TestRunning ==
  /\ At("preview", "lock") \/ At("preview", "wake")
  /\ previewLock = None
  /\ IF running THEN Goto("preview", "check") /\ UNCHANGED previewLock
                ELSE Goto("preview", "drain") /\ previewLock' = "preview"
  /\ UNCHANGED <<device, flags, stateLock, app, after, snaps, held, slipped>>

CheckExit ==
  /\ At("preview", "check")
  /\ Goto("preview", IF exit THEN "stop" ELSE "grab")
  /\ UNCHANGED <<device, flags, locks, app, after, snaps, held, slipped>>

GrabPreview ==
  /\ \/ Grab("preview", "grab", "record")
     \/ GrabFails("preview", "grab", "lock")
  /\ UNCHANGED snaps

\* Mutant of Record: the frame goes to the application and back to the driver.
RecordAndRelease ==
  LET f == held["preview"] IN
  /\ At("preview", "record")
  /\ queued' = Requeued({f.buffer})
  /\ held' = [held EXCEPT !["preview"] = None]
  /\ Goto("preview", "lock")
  /\ appHeld' = IF recording THEN appHeld \cup {f} ELSE appHeld
  /\ buffersOut' = IF recording THEN [buffersOut EXCEPT ![f.buffer] = 1] ELSE buffersOut
  /\ UNCHANGED <<isStreaming, mapped, stream, flags, locks, returning, after, snaps, slipped>>

\* Mutant of Record: the mark is left for later.
RecordUnmarked ==
  LET f == held["preview"] IN
  /\ At("preview", "record")
  /\ IF recording
     THEN /\ appHeld' = appHeld \cup {f} /\ Goto("preview", "post") /\ UNCHANGED <<queued, held>>
     ELSE /\ queued' = Requeued({f.buffer}) /\ held' = [held EXCEPT !["preview"] = None]
          /\ Goto("preview", "lock") /\ UNCHANGED appHeld
  /\ UNCHANGED <<isStreaming, mapped, stream, flags, locks, returning, buffersOut, after, snaps, slipped>>

(* Under mRecordLock, which is free again at the end of the step: the frame *)
(* goes to the application, or back to the driver.                         *)
Record ==
  LET f == held["preview"] IN
  /\ At("preview", "record")
  /\ IF recording
     THEN /\ buffersOut' = [buffersOut EXCEPT ![f.buffer] = 1]
          /\ appHeld' = appHeld \cup {f}
          /\ IF returning = f.buffer THEN Slip("preempted") ELSE UNCHANGED slipped
          /\ Goto("preview", "post")
          /\ UNCHANGED <<queued, held>>
     ELSE /\ queued' = Requeued({f.buffer})
          /\ held' = [held EXCEPT !["preview"] = None]
          /\ Goto("preview", "lock")
          /\ UNCHANGED <<appHeld, buffersOut, slipped>>
  /\ UNCHANGED <<isStreaming, mapped, stream, flags, locks, returning, after, snaps>>

(* While recording, the frame goes to the overlay after the callback. *)
OverlayPostFrame ==
  /\ At("preview", "post")
  /\ held' = [held EXCEPT !["preview"] = None]
  /\ Goto("preview", "lock")
  /\ UNCHANGED <<device, flags, locks, app, after, snaps, slipped>>

AfterDrain == IF capture THEN "signal" ELSE "stop"

\* Mutant of areThereBuffersOut: it is done when one buffer is back.
allBuffersOut == \A b \in Buffers : buffersOut[b] = 1

areThereBuffersOut == \E b \in Buffers : buffersOut[b] = 1

(* waitForBuffersRelease, with mPreviewLock held. *)
BuffersReleased ==
  /\ At("preview", "drain") /\ ~areThereBuffersOut
  /\ Goto("preview", AfterDrain)
  /\ UNCHANGED <<device, flags, locks, app, after, snaps, held, slipped>>

\* Mutant of ForceRelease: the timeout starts again.
WaitAgain == At("preview", "drain") /\ areThereBuffersOut /\ Slip("late")
             /\ UNCHANGED <<device, flags, locks, app, pc, after, snaps, held>>

ForceRelease ==
  /\ At("preview", "drain") /\ areThereBuffersOut /\ Slip("late")
  /\ queued' = Requeued({b \in Buffers : buffersOut[b] = 1})
  /\ buffersOut' = [b \in Buffers |-> 0]
  /\ Goto("preview", AfterDrain)
  /\ UNCHANGED <<isStreaming, mapped, stream, flags, locks, appHeld, returning, after, snaps, held>>

(* mPreviewStoppedCondition is signalled; mPreviewCondition's wait releases *)
(* the lock.                                                               *)
SignalStopped ==
  /\ At("preview", "signal")
  /\ pc' = [pc EXCEPT !["preview"] = "wait",
                      !["client"] = IF @ = "stopWait" THEN "woken" ELSE @]
  /\ previewLock' = None
  /\ UNCHANGED <<device, flags, stateLock, app, after, snaps, held, slipped>>

PreviewStep == TestRunning \/ CheckExit \/ GrabPreview \/ Record \/ OverlayPostFrame
               \/ BuffersReleased \/ ForceRelease \/ SignalStopped \/ Stream("preview")

-----------------------------------------------------------------------------
(* The picture thread: pictureThread and getSnapshotImage.                 *)

\* Mutant of SnapNext: one frame more.
SnapNextOffByOne == IF snaps = 0 THEN "grab" ELSE "snap"

SnapNext == IF snaps = 1 THEN "grab" ELSE "snap"

Snap ==
  \/ Grab("picture", "snap", "snapped") /\ UNCHANGED snaps
  \/ GrabFails("picture", "snap", SnapNext) /\ snaps' = snaps - 1

SnapRelease ==
  /\ At("picture", "snapped")
  /\ queued' = Requeued({held["picture"].buffer})
  /\ held' = [held EXCEPT !["picture"] = None]
  /\ snaps' = snaps - 1 /\ Goto("picture", SnapNext)
  /\ UNCHANGED <<isStreaming, mapped, stream, flags, locks, app, after, slipped>>

\* Mutant of GrabPicture: no StopPreview when the grab fails.
GrabPictureLeaves ==
  /\ \/ Grab("picture", "grab", "shoot")
     \/ GrabFails("picture", "grab", "leave")
  /\ UNCHANGED snaps

GrabPicture ==
  /\ \/ Grab("picture", "grab", "shoot")
     \/ GrabFails("picture", "grab", "stop")
  /\ UNCHANGED snaps

(* The JPEG is made from the frame before it goes back to the driver. *)
Shoot ==
  /\ At("picture", "shoot")
  /\ queued' = Requeued({held["picture"].buffer})
  /\ held' = [held EXCEPT !["picture"] = None]
  /\ Goto("picture", "stop")
  /\ UNCHANGED <<isStreaming, mapped, stream, flags, locks, app, after, snaps, slipped>>

(* Without the compressed image there is no release and no StopPreview. *)
ShootRaw ==
  /\ At("picture", "shoot") /\ Slip("raw")
  /\ held' = [held EXCEPT !["picture"] = None]
  /\ Goto("picture", "leave")
  /\ UNCHANGED <<device, flags, locks, app, after, snaps>>

(* F_EXIT; the thread has still to end before it can run again. *)
Leave ==
  /\ At("picture", "leave") /\ stateLock = None
  /\ capture' = FALSE
  /\ Goto("picture", "ending")
  /\ UNCHANGED <<device, running, exit, recording, locks, app, after, snaps, held, slipped>>

Ended ==
  /\ At("picture", "ending")
  /\ Goto("picture", "idle")
  /\ UNCHANGED <<device, flags, locks, app, after, snaps, held, slipped>>

PictureStep == Snap \/ SnapRelease \/ GrabPicture \/ Shoot \/ ShootRaw \/ Leave
               \/ Ended \/ Stream("picture")

-----------------------------------------------------------------------------
(* The client, one call at a time (the camera service's lock).             *)

(* mPreviewCondition.signal() wakes the preview thread if it waits. *)
WakePreview(l) ==
  pc' = [pc EXCEPT !["client"] = l, !["preview"] = IF @ = "wait" THEN "wake" ELSE @]

StartPreview ==
  /\ At("client", "idle") /\ stateLock = None
  /\ IF capture THEN Slip("impatient") ELSE UNCHANGED slipped
  /\ stateLock' = "client" /\ Goto("client", "startLock")
  /\ UNCHANGED <<device, flags, previewLock, app, after, snaps, held>>

StartLock ==
  /\ At("client", "startLock") /\ previewLock = None
  /\ previewLock' = "client"
  /\ Goto("client", IF running THEN "refused" ELSE "start")
  /\ UNCHANGED <<device, flags, stateLock, app, after, snaps, held, slipped>>

Begun ==
  /\ At("client", "begun")
  /\ running' = TRUE /\ WakePreview("idle")
  /\ previewLock' = None /\ stateLock' = None
  /\ UNCHANGED <<device, exit, recording, capture, app, after, snaps, held, slipped>>

Refused ==
  /\ At("client", "refused")
  /\ previewLock' = None /\ stateLock' = None
  /\ Goto("client", "idle")
  /\ UNCHANGED <<device, flags, app, after, snaps, held, slipped>>

(* stopPreview, on its own or as the beginning of takePicture; *)
StopPreview(next) ==
  /\ At("client", "idle") /\ previewLock = None
  /\ IF running
     THEN running' = FALSE /\ after' = next /\ WakePreview("stopWait")
     ELSE Goto("client", next) /\ UNCHANGED <<running, after>>
  /\ UNCHANGED <<device, exit, recording, capture, locks, app, snaps, held, slipped>>

(* the wait for mPreviewStoppedCondition has ended. *)
StoppedReturn ==
  /\ At("client", "woken") /\ previewLock = None
  /\ Goto("client", after) /\ after' = "idle"
  /\ UNCHANGED <<device, flags, locks, app, snaps, held, slipped>>

(* The rest of takePicture. The thread cannot be run while it is ending. *)
TakePicture ==
  /\ At("client", "take") /\ stateLock = None
  /\ capture' = TRUE
  /\ IF capture
     THEN Goto("client", "idle") /\ UNCHANGED <<snaps, slipped>>
     ELSE IF At("picture", "ending")
     THEN Goto("client", "idle") /\ Slip("preempted") /\ UNCHANGED snaps
     ELSE /\ pc' = [pc EXCEPT !["client"] = "idle", !["picture"] = "start"]
          /\ snaps' = Snaps
          /\ IF At("preview", "wait") THEN UNCHANGED slipped ELSE Slip("early")
  /\ UNCHANGED <<device, running, exit, recording, locks, app, after, held>>

(* cancelPicture: requestExitAndWait. *)
CancelPicture ==
  /\ At("client", "idle")
  /\ Goto("client", "cancel")
  /\ UNCHANGED <<device, flags, locks, app, after, snaps, held, slipped>>

Cancelled ==
  /\ At("client", "cancel") /\ At("picture", "idle")
  /\ Goto("client", "idle")
  /\ UNCHANGED <<device, flags, locks, app, after, snaps, held, slipped>>

(* startRecording and stopRecording; enableMsgType and disableMsgType. *)
SetRecording ==
  /\ At("client", "idle")
  /\ recording' = ~recording
  /\ UNCHANGED <<device, running, exit, capture, locks, app, pc, after, snaps, held, slipped>>

(* The preview thread has seen that the preview is off, and not come to its *)
(* wait; only at its start can a call of the client's find it there.       *)
Settling == {"drain", "stop", "stopped", "signal"}

\* Mutant of Release: the thread is told to exit, but not to run.
ReleaseAsleep ==
  /\ At("client", "idle")
  /\ IF ~At("picture", "idle") THEN Slip("impatient")
     ELSE IF pc["preview"] \in Settling THEN Slip("early") ELSE UNCHANGED slipped
  /\ exit' = TRUE
  /\ Goto("client", "signalExit")
  /\ UNCHANGED <<device, running, recording, capture, locks, app, after, snaps, held>>

(* release sets the flags without a lock, *)
Release ==
  /\ At("client", "idle")
  /\ IF ~At("picture", "idle") THEN Slip("impatient")
     ELSE IF pc["preview"] \in Settling THEN Slip("early") ELSE UNCHANGED slipped
  /\ exit' = TRUE /\ running' = TRUE
  /\ Goto("client", "signalExit")
  /\ UNCHANGED <<device, recording, capture, locks, app, after, snaps, held>>

SignalExit ==
  /\ At("client", "signalExit")
  /\ WakePreview("join")
  /\ UNCHANGED <<device, flags, locks, app, after, snaps, held, slipped>>

(* waits for both threads, and closes the device. *)
Joined ==
  /\ At("client", "join") /\ At("preview", "done") /\ At("picture", "idle")
  /\ Goto("client", "gone")
  /\ mapped' = FALSE /\ queued' = {}
  /\ UNCHANGED <<isStreaming, stream, flags, locks, app, after, snaps, held, slipped>>

InCall == StartLock \/ Begun \/ Refused \/ StoppedReturn \/ TakePicture \/ Cancelled
          \/ SignalExit \/ Joined \/ Stream("client")

Call == StartPreview \/ StopPreview("idle") \/ StopPreview("take") \/ CancelPicture
        \/ SetRecording \/ Release

-----------------------------------------------------------------------------
(* releaseRecordingFrame, two statements without a lock, on a thread of the *)
(* application's.                                                          *)

ReturnFrame(f) ==
  /\ returning = None /\ returning' = f.buffer
  /\ appHeld' = appHeld \ {f}
  /\ queued' = Requeued({f.buffer})
  /\ UNCHANGED <<isStreaming, mapped, stream, buffersOut, flags, locks, pc, after, snaps, held, slipped>>

ReturnMark ==
  /\ returning # None /\ returning' = None
  /\ buffersOut' = [buffersOut EXCEPT ![returning] = 0]
  /\ UNCHANGED <<device, appHeld, flags, locks, pc, after, snaps, held, slipped>>

Return == ReturnMark \/ \E f \in appHeld : ReturnFrame(f)

Next == InCall \/ Call \/ PreviewStep \/ PictureStep \/ Return

Spec == Init /\ [][Next]_vars

(* The threads run, and a call that has been made goes on; nobody has to    *)
(* make one, or to return a frame.                                         *)
FairSpec == Spec /\ WF_vars(PreviewStep) /\ WF_vars(PictureStep) /\ WF_vars(InCall)
                 /\ WF_vars(ReturnMark)

-----------------------------------------------------------------------------
(* As long as nothing has slipped, a frame that is being worked on, here or *)
(* by the application, lies in memory that is still mapped, of the stream   *)
(* it was taken from: the preview thread alone unmaps a preview's buffers,  *)
(* and only after it has seen all of them come back (waitForBuffersRelease  *)
(* before V4L2Camera::StopPreview). Until release(), which does not wait.   *)
FramesMapped ==
  ~slipped =>
    \A f \in ({held[t] : t \in Grabbers} \ {None}) \cup (IF exit THEN {} ELSE appHeld) :
       mapped /\ f.stream = stream

(* Without a slip the driver has never been given a buffer that the          *)
(* application, the picture thread or the preview thread is still to read:   *)
(* no two of them hold the same one (QBUF and DQBUF in V4L2Camera.cpp, the   *)
(* exclusion of preview and capture in takePicture).                        *)
Readers ==
  {<<"app", f>> : f \in appHeld}
    \cup {<<t, held[t]>> : t \in {t \in Grabbers : held[t] # None /\ ~At(t, "post")}}

NotOverwritten ==
  ~slipped =>
    /\ \A r \in Readers : r[2].stream = stream => r[2].buffer \notin queued
    /\ \A r, q \in Readers : r[2].buffer = q[2].buffer /\ r[2].stream = q[2].stream => r = q

(* Without a slip, a client that has stopped the preview, and has no picture *)
(* being taken, finds the camera off, so that the next startPreview is not   *)
(* refused with ALREADY_EXISTS (the threads stop the stream, not the client).*)
StoppedMeansOff ==
  (~slipped /\ At("client", "idle") /\ At("picture", "idle") /\ ~running) =>
    ~isStreaming

(* The mark is not missing from a buffer the application holds, or          *)
(* waitForBuffersRelease would not wait for it: CameraHardware.h says of     *)
(* mBuffersOut "1 - application holds the buffer". It can be when a frame    *)
(* is delivered again between the two statements of releaseRecordingFrame,   *)
(* which is a slip.                                                        *)
HeldIsMarked == ~slipped => \A f \in appHeld : buffersOut[f.buffer] = 1

(* stopPreview returns, whatever has slipped: the preview thread comes to    *)
(* the signal, even when the application never returns a frame.             *)
StopReturns == At("client", "stopWait") ~> ~At("client", "stopWait")

(* Without a slip, a capture ends: a picture thread that was started clears  *)
(* mCaptureInProgress, on all its ways out.                                 *)
CaptureEnds == (capture /\ ~slipped) ~> (~capture \/ slipped)

(* release() returns: its comment says of the preview thread "signal it so   *)
(* it wakes up and can exit". The flags are set and the signal given without *)
(* mPreviewLock, so it can be lost on a thread that has not come to its wait *)
(* yet, which is a slip.                                                   *)
ReleaseReturns ==
  (At("client", "join") /\ ~slipped) ~> (At("client", "gone") \/ slipped)

=============================================================================
