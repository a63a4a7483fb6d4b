--------------------------- MODULE CameraHalProofs ---------------------------
(***************************************************************************)
(* Proofs about CameraHal, for any number of buffers, dropped frames and   *)
(* set-ups of the stream, and whatever slips: the variables keep their     *)
(* types, and as long as nothing has slipped the order of the calls keeps  *)
(* the threads apart, so that no frame is read from memory that is gone or *)
(* being written.                                                          *)
(***************************************************************************)
EXTENDS CameraHal, TLAPS

-----------------------------------------------------------------------------
(* What always holds.                                                      *)

Frames == [buffer : Buffers, stream : 1..MaxStreams]

Labels == {"idle", "startLock", "start", "started", "begun", "refused", "stopWait", "woken",
           "take", "cancel", "signalExit", "join", "gone", "lock", "check", "grab", "record",
           "post", "drain", "stop", "stopped", "signal", "wait", "wake", "done", "snap",
           "snapped", "shoot", "leave", "ending"}

PcInv ==
  /\ pc \in [Threads -> Labels]
  /\ pc["client"] \in {"idle", "startLock", "start", "started", "begun", "refused",
                       "stopWait", "woken", "take", "cancel", "signalExit", "join", "gone"}
  /\ pc["preview"] \in {"lock", "check", "grab", "record", "post", "drain", "stop",
                        "stopped", "signal", "wait", "wake", "done"}
  /\ pc["picture"] \in {"idle", "start", "started", "snap", "snapped", "grab", "shoot",
                        "stop", "stopped", "leave", "ending"}
  /\ after \in {"idle", "take"}

FlagsInv ==
  /\ isStreaming \in BOOLEAN /\ mapped \in BOOLEAN
  /\ running \in BOOLEAN /\ exit \in BOOLEAN /\ recording \in BOOLEAN /\ capture \in BOOLEAN
  /\ previewLock \in {None, "client", "preview"} /\ stateLock \in {None, "client"}
  /\ slipped \in BOOLEAN

\* A picture counts down the frames it drops, and has announced its capture.
SnapsInv ==
  /\ pc["picture"] \in {"idle", "ending"} \/ capture
  /\ snaps \in 0..Snaps
  /\ pc["picture"] \in {"start", "started", "snap", "snapped"} => snaps >= 1

\* The driver has buffers only while they are mapped, and a thread has a frame
\* exactly between a grab and its end.
BuffersInv ==
  /\ stream \in 0..MaxStreams /\ queued \subseteq Buffers
  /\ queued # {} => mapped
  /\ mapped => stream >= 1
  /\ buffersOut \in [Buffers -> {0, 1}]
  /\ held \in [Grabbers -> Frames \cup {None}]
  /\ held["preview"] # None <=> pc["preview"] \in {"record", "post"}
  /\ held["picture"] # None <=> pc["picture"] \in {"snapped", "shoot"}
  /\ appHeld \subseteq Frames
  /\ returning \in Buffers \cup {None}

TypeInv == PcInv /\ FlagsInv /\ SnapsInv /\ BuffersInv

-----------------------------------------------------------------------------
(* What holds while nothing has slipped.                                   *)

Starting == {"start", "started", "begun"}

\* Who holds the two locks.
LocksInv ==
  /\ stateLock = "client" <=> pc["client"] \in Starting \cup {"startLock", "refused"}
  /\ previewLock = "client" <=> pc["client"] \in Starting \cup {"refused"}
  /\ previewLock = "preview" <=>
        pc["preview"] \in {"drain", "signal"} \/ (pc["preview"] \in {"stop", "stopped"} /\ ~exit)

\* The preview thread loops while the preview runs, and then until it has
\* signalled; only then does the client go on.
LoopInv ==
  /\ running /\ ~exit => pc["preview"] \in {"lock", "wake", "check", "grab", "record", "post"}
  /\ ~running /\ pc["client"] # "stopWait" =>
        pc["preview"] \in {"lock", "drain", "stop", "stopped", "signal", "wait"}
  /\ pc["client"] = "stopWait" => ~running /\ pc["preview"] # "wait"
  /\ pc["client"] \in Starting \cup {"woken", "take"} => ~running
  /\ pc["client"] = "woken" => pc["preview"] = "wait"

ExitInv ==
  /\ exit <=> pc["client"] \in {"signalExit", "join", "gone"}
  /\ exit => running /\ pc["picture"] = "idle" /\ pc["preview"] \notin {"drain", "signal"}
  /\ pc["preview"] = "done" => exit

\* A capture excludes the preview, and a change of it.
CaptureInv ==
  /\ capture <=> pc["picture"] \notin {"idle", "ending"}
  /\ capture => ~running /\ pc["preview"] = "wait" /\ pc["client"] \in {"idle", "take", "cancel"}

OrderInv == LocksInv /\ LoopInv /\ ExitInv /\ CaptureInv

\* Somebody is there to stop a stream that is on.
StreamInv ==
  /\ isStreaming => \/ pc["client"] \in {"begun", "stopWait"} \/ running
                    \/ pc["picture"] \in {"snap", "snapped", "grab", "shoot", "stop", "stopped"}
  /\ isStreaming => pc["preview"] # "signal"

\* The application's frames are from the preview that runs, or that the preview
\* thread has yet to stop.
AppInv ==
  appHeld # {} =>
     \/ running
     \/ pc["client"] = "stopWait" /\ pc["preview"] \notin {"stop", "stopped", "signal"}

FrameInv ==
  /\ \A t \in Grabbers : held[t] # None =>
        /\ mapped /\ held[t].stream = stream
        /\ pc[t] # "post" => /\ held[t].buffer \notin queued
                             /\ \A f \in appHeld : f.buffer # held[t].buffer
  /\ \A f \in appHeld :
        /\ exit \/ mapped
        /\ f.stream = stream /\ f.buffer \notin queued
        /\ buffersOut[f.buffer] = 1 /\ returning # f.buffer

CalmInv == OrderInv /\ StreamInv /\ AppInv /\ FrameInv

IInv == TypeInv /\ (~slipped => CalmInv)

-----------------------------------------------------------------------------
(* Every step preserves the invariant.                                     *)

LEMMA Constants ==
  /\ None \notin Buffers /\ None \notin Frames /\ None # "client" /\ None # "preview"
  /\ Snaps \in Nat /\ Snaps >= 1 /\ MaxStreams \in Nat
  BY CameraAssumption DEF Frames

USE DEF device, flags, locks, app, At, Goto, Threads, Grabbers, Starting, Labels


LEMMA StartAlreadyClientStep ==
  ASSUME IInv, StartAlready("client")
  PROVE  IInv'
  <1>1. PcInv' /\ FlagsInv'
    BY DEF IInv, TypeInv, PcInv, FlagsInv, StartAlready, Already
  <1>2. SnapsInv'
    BY Constants DEF IInv, TypeInv, PcInv, SnapsInv, StartAlready, Already
  <1>3. BuffersInv'
    BY Constants DEF IInv, TypeInv, PcInv, FlagsInv, BuffersInv, Frames, StartAlready, Already
  <1>4. ASSUME ~slipped' PROVE CalmInv'
    <2>1. ~slipped /\ CalmInv
      BY <1>4 DEF IInv, TypeInv, FlagsInv, StartAlready, Already
    <2>2. OrderInv'
      BY <1>4, <2>1, Constants DEF IInv, TypeInv, PcInv, FlagsInv, CalmInv, OrderInv, LocksInv,
         LoopInv, ExitInv, CaptureInv, StartAlready, Already
    <2>3. StreamInv' /\ AppInv'
      BY <1>4, <2>1, Constants DEF IInv, TypeInv, PcInv, FlagsInv, BuffersInv, CalmInv,
         OrderInv, LocksInv, LoopInv, ExitInv, CaptureInv, StreamInv, AppInv, FrameInv,
         StartAlready, Already
    <2>4. FrameInv'
      BY <1>4, <2>1, Constants DEF IInv, TypeInv, PcInv, FlagsInv, BuffersInv, Frames, CalmInv,
         OrderInv, LocksInv, LoopInv, ExitInv, CaptureInv, StreamInv, AppInv, FrameInv,
         StartAlready, Already
    <2> QED
      BY <2>2, <2>3, <2>4 DEF CalmInv
  <1> QED
    BY <1>1, <1>2, <1>3, <1>4 DEF IInv, TypeInv

LEMMA StartMapClientStep ==
  ASSUME IInv, StartMap("client")
  PROVE  IInv'
  <1>1. PcInv' /\ FlagsInv'
    BY DEF IInv, TypeInv, PcInv, FlagsInv, StartMap
  <1>2. SnapsInv'
    BY Constants DEF IInv, TypeInv, PcInv, SnapsInv, StartMap
  <1>3. BuffersInv'
    BY Constants DEF IInv, TypeInv, PcInv, FlagsInv, BuffersInv, Frames, StartMap
  <1>4. ASSUME ~slipped' PROVE CalmInv'
    <2>1. ~slipped /\ CalmInv
      BY <1>4 DEF IInv, TypeInv, FlagsInv, StartMap
    <2>2. OrderInv'
      BY <1>4, <2>1, Constants DEF IInv, TypeInv, PcInv, FlagsInv, CalmInv, OrderInv, LocksInv,
         LoopInv, ExitInv, CaptureInv, StartMap
    <2>3. StreamInv' /\ AppInv'
      BY <1>4, <2>1, Constants DEF IInv, TypeInv, PcInv, FlagsInv, BuffersInv, CalmInv,
         OrderInv, LocksInv, LoopInv, ExitInv, CaptureInv, StreamInv, AppInv, FrameInv, StartMap
    <2>4. FrameInv'
      BY <1>4, <2>1, Constants DEF IInv, TypeInv, PcInv, FlagsInv, BuffersInv, Frames, CalmInv,
         OrderInv, LocksInv, LoopInv, ExitInv, CaptureInv, StreamInv, AppInv, FrameInv, StartMap
    <2> QED
      BY <2>2, <2>3, <2>4 DEF CalmInv
  <1> QED
    BY <1>1, <1>2, <1>3, <1>4 DEF IInv, TypeInv

LEMMA StartFailsClientStep ==
  ASSUME IInv, StartFails("client")
  PROVE  IInv'
  <1>1. PcInv' /\ FlagsInv'
    BY DEF IInv, TypeInv, PcInv, FlagsInv, StartFails, Failed
  <1>2. SnapsInv'
    BY Constants DEF IInv, TypeInv, PcInv, SnapsInv, StartFails, Failed
  <1>3. BuffersInv'
    BY Constants DEF IInv, TypeInv, PcInv, FlagsInv, BuffersInv, Frames, StartFails, Failed
  <1>4. ASSUME ~slipped' PROVE CalmInv'
    <2>1. ~slipped /\ CalmInv
      BY <1>4 DEF IInv, TypeInv, FlagsInv, StartFails, Failed
    <2>2. OrderInv'
      BY <1>4, <2>1, Constants DEF IInv, TypeInv, PcInv, FlagsInv, CalmInv, OrderInv, LocksInv,
         LoopInv, ExitInv, CaptureInv, StartFails, Failed
    <2>3. StreamInv' /\ AppInv'
      BY <1>4, <2>1, Constants DEF IInv, TypeInv, PcInv, FlagsInv, BuffersInv, CalmInv,
         OrderInv, LocksInv, LoopInv, ExitInv, CaptureInv, StreamInv, AppInv, FrameInv,
         StartFails, Failed
    <2>4. FrameInv'
      BY <1>4, <2>1, Constants DEF IInv, TypeInv, PcInv, FlagsInv, BuffersInv, Frames, CalmInv,
         OrderInv, LocksInv, LoopInv, ExitInv, CaptureInv, StreamInv, AppInv, FrameInv,
         StartFails, Failed
    <2> QED
      BY <2>2, <2>3, <2>4 DEF CalmInv
  <1> QED
    BY <1>1, <1>2, <1>3, <1>4 DEF IInv, TypeInv

LEMMA StartedClientStep ==
  ASSUME IInv, Started("client")
  PROVE  IInv'
  <1>1. PcInv' /\ FlagsInv'
    BY DEF IInv, TypeInv, PcInv, FlagsInv, Started, Streaming
  <1>2. SnapsInv'
    BY Constants DEF IInv, TypeInv, PcInv, SnapsInv, Started, Streaming
  <1>3. BuffersInv'
    BY Constants DEF IInv, TypeInv, PcInv, FlagsInv, BuffersInv, Frames, Started, Streaming
  <1>4. ASSUME ~slipped' PROVE CalmInv'
    <2>1. ~slipped /\ CalmInv
      BY <1>4 DEF IInv, TypeInv, FlagsInv, Started, Streaming
    <2>2. OrderInv'
      BY <1>4, <2>1, Constants DEF IInv, TypeInv, PcInv, FlagsInv, CalmInv, OrderInv, LocksInv,
         LoopInv, ExitInv, CaptureInv, Started, Streaming
    <2>3. StreamInv' /\ AppInv'
      BY <1>4, <2>1, Constants DEF IInv, TypeInv, PcInv, FlagsInv, BuffersInv, CalmInv,
         OrderInv, LocksInv, LoopInv, ExitInv, CaptureInv, StreamInv, AppInv, FrameInv, Started,
         Streaming
    <2>4. FrameInv'
      BY <1>4, <2>1, Constants DEF IInv, TypeInv, PcInv, FlagsInv, BuffersInv, Frames, CalmInv,
         OrderInv, LocksInv, LoopInv, ExitInv, CaptureInv, StreamInv, AppInv, FrameInv, Started,
         Streaming
    <2> QED
      BY <2>2, <2>3, <2>4 DEF CalmInv
  <1> QED
    BY <1>1, <1>2, <1>3, <1>4 DEF IInv, TypeInv

LEMMA StartAlreadyPictureStep ==
  ASSUME IInv, StartAlready("picture")
  PROVE  IInv'
  <1>1. PcInv' /\ FlagsInv'
    BY DEF IInv, TypeInv, PcInv, FlagsInv, StartAlready, Already
  <1>2. SnapsInv'
    BY Constants DEF IInv, TypeInv, PcInv, SnapsInv, StartAlready, Already
  <1>3. BuffersInv'
    BY Constants DEF IInv, TypeInv, PcInv, FlagsInv, BuffersInv, Frames, StartAlready, Already
  <1>4. ASSUME ~slipped' PROVE CalmInv'
    <2>1. ~slipped /\ CalmInv
      BY <1>4 DEF IInv, TypeInv, FlagsInv, StartAlready, Already
    <2>2. OrderInv'
      BY <1>4, <2>1, Constants DEF IInv, TypeInv, PcInv, FlagsInv, CalmInv, OrderInv, LocksInv,
         LoopInv, ExitInv, CaptureInv, StartAlready, Already
    <2>3. StreamInv' /\ AppInv'
      BY <1>4, <2>1, Constants DEF IInv, TypeInv, PcInv, FlagsInv, BuffersInv, CalmInv,
         OrderInv, LocksInv, LoopInv, ExitInv, CaptureInv, StreamInv, AppInv, FrameInv,
         StartAlready, Already
    <2>4. FrameInv'
      BY <1>4, <2>1, Constants DEF IInv, TypeInv, PcInv, FlagsInv, BuffersInv, Frames, CalmInv,
         OrderInv, LocksInv, LoopInv, ExitInv, CaptureInv, StreamInv, AppInv, FrameInv,
         StartAlready, Already
    <2> QED
      BY <2>2, <2>3, <2>4 DEF CalmInv
  <1> QED
    BY <1>1, <1>2, <1>3, <1>4 DEF IInv, TypeInv

LEMMA StartMapPictureStep ==
  ASSUME IInv, StartMap("picture")
  PROVE  IInv'
  <1>1. PcInv' /\ FlagsInv'
    BY DEF IInv, TypeInv, PcInv, FlagsInv, StartMap
  <1>2. SnapsInv'
    BY Constants DEF IInv, TypeInv, PcInv, SnapsInv, StartMap
  <1>3. BuffersInv'
    BY Constants DEF IInv, TypeInv, PcInv, FlagsInv, BuffersInv, Frames, StartMap
  <1>4. ASSUME ~slipped' PROVE CalmInv'
    <2>1. ~slipped /\ CalmInv
      BY <1>4 DEF IInv, TypeInv, FlagsInv, StartMap
    <2>2. OrderInv'
      BY <1>4, <2>1, Constants DEF IInv, TypeInv, PcInv, FlagsInv, CalmInv, OrderInv, LocksInv,
         LoopInv, ExitInv, CaptureInv, StartMap
    <2>3. StreamInv' /\ AppInv'
      BY <1>4, <2>1, Constants DEF IInv, TypeInv, PcInv, FlagsInv, BuffersInv, CalmInv,
         OrderInv, LocksInv, LoopInv, ExitInv, CaptureInv, StreamInv, AppInv, FrameInv, StartMap
    <2>4. FrameInv'
      BY <1>4, <2>1, Constants DEF IInv, TypeInv, PcInv, FlagsInv, BuffersInv, Frames, CalmInv,
         OrderInv, LocksInv, LoopInv, ExitInv, CaptureInv, StreamInv, AppInv, FrameInv, StartMap
    <2> QED
      BY <2>2, <2>3, <2>4 DEF CalmInv
  <1> QED
    BY <1>1, <1>2, <1>3, <1>4 DEF IInv, TypeInv

LEMMA StartFailsPictureStep ==
  ASSUME IInv, StartFails("picture")
  PROVE  IInv'
  <1>1. PcInv' /\ FlagsInv'
    BY DEF IInv, TypeInv, PcInv, FlagsInv, StartFails, Failed
  <1>2. SnapsInv'
    BY Constants DEF IInv, TypeInv, PcInv, SnapsInv, StartFails, Failed
  <1>3. BuffersInv'
    BY Constants DEF IInv, TypeInv, PcInv, FlagsInv, BuffersInv, Frames, StartFails, Failed
  <1>4. ASSUME ~slipped' PROVE CalmInv'
    <2>1. ~slipped /\ CalmInv
      BY <1>4 DEF IInv, TypeInv, FlagsInv, StartFails, Failed
    <2>2. OrderInv'
      BY <1>4, <2>1, Constants DEF IInv, TypeInv, PcInv, FlagsInv, CalmInv, OrderInv, LocksInv,
         LoopInv, ExitInv, CaptureInv, StartFails, Failed
    <2>3. StreamInv' /\ AppInv'
      BY <1>4, <2>1, Constants DEF IInv, TypeInv, PcInv, FlagsInv, BuffersInv, CalmInv,
         OrderInv, LocksInv, LoopInv, ExitInv, CaptureInv, StreamInv, AppInv, FrameInv,
         StartFails, Failed
    <2>4. FrameInv'
      BY <1>4, <2>1, Constants DEF IInv, TypeInv, PcInv, FlagsInv, BuffersInv, Frames, CalmInv,
         OrderInv, LocksInv, LoopInv, ExitInv, CaptureInv, StreamInv, AppInv, FrameInv,
         StartFails, Failed
    <2> QED
      BY <2>2, <2>3, <2>4 DEF CalmInv
  <1> QED
    BY <1>1, <1>2, <1>3, <1>4 DEF IInv, TypeInv

LEMMA StartedPictureStep ==
  ASSUME IInv, Started("picture")
  PROVE  IInv'
  <1>1. PcInv' /\ FlagsInv'
    BY DEF IInv, TypeInv, PcInv, FlagsInv, Started, Streaming
  <1>2. SnapsInv'
    BY Constants DEF IInv, TypeInv, PcInv, SnapsInv, Started, Streaming
  <1>3. BuffersInv'
    BY Constants DEF IInv, TypeInv, PcInv, FlagsInv, BuffersInv, Frames, Started, Streaming
  <1>4. ASSUME ~slipped' PROVE CalmInv'
    <2>1. ~slipped /\ CalmInv
      BY <1>4 DEF IInv, TypeInv, FlagsInv, Started, Streaming
    <2>2. OrderInv'
      BY <1>4, <2>1, Constants DEF IInv, TypeInv, PcInv, FlagsInv, CalmInv, OrderInv, LocksInv,
         LoopInv, ExitInv, CaptureInv, Started, Streaming
    <2>3. StreamInv' /\ AppInv'
      BY <1>4, <2>1, Constants DEF IInv, TypeInv, PcInv, FlagsInv, BuffersInv, CalmInv,
         OrderInv, LocksInv, LoopInv, ExitInv, CaptureInv, StreamInv, AppInv, FrameInv, Started,
         Streaming
    <2>4. FrameInv'
      BY <1>4, <2>1, Constants DEF IInv, TypeInv, PcInv, FlagsInv, BuffersInv, Frames, CalmInv,
         OrderInv, LocksInv, LoopInv, ExitInv, CaptureInv, StreamInv, AppInv, FrameInv, Started,
         Streaming
    <2> QED
      BY <2>2, <2>3, <2>4 DEF CalmInv
  <1> QED
    BY <1>1, <1>2, <1>3, <1>4 DEF IInv, TypeInv

LEMMA StopUnmapPreviewStep ==
  ASSUME IInv, StopUnmap("preview")
  PROVE  IInv'
  <1>1. PcInv' /\ FlagsInv'
    BY DEF IInv, TypeInv, PcInv, FlagsInv, StopUnmap
  <1>2. SnapsInv'
    BY Constants DEF IInv, TypeInv, PcInv, SnapsInv, StopUnmap
  <1>3. BuffersInv'
    BY Constants DEF IInv, TypeInv, PcInv, FlagsInv, BuffersInv, Frames, StopUnmap
  <1>4. ASSUME ~slipped' PROVE CalmInv'
    <2>1. ~slipped /\ CalmInv
      BY <1>4 DEF IInv, TypeInv, FlagsInv, StopUnmap
    <2>2. OrderInv'
      BY <1>4, <2>1, Constants DEF IInv, TypeInv, PcInv, FlagsInv, CalmInv, OrderInv, LocksInv,
         LoopInv, ExitInv, CaptureInv, StopUnmap
    <2>3. StreamInv' /\ AppInv'
      BY <1>4, <2>1, Constants DEF IInv, TypeInv, PcInv, FlagsInv, BuffersInv, CalmInv,
         OrderInv, LocksInv, LoopInv, ExitInv, CaptureInv, StreamInv, AppInv, FrameInv,
         StopUnmap
    <2>4. FrameInv'
      BY <1>4, <2>1, Constants DEF IInv, TypeInv, PcInv, FlagsInv, BuffersInv, Frames, CalmInv,
         OrderInv, LocksInv, LoopInv, ExitInv, CaptureInv, StreamInv, AppInv, FrameInv,
         StopUnmap
    <2> QED
      BY <2>2, <2>3, <2>4 DEF CalmInv
  <1> QED
    BY <1>1, <1>2, <1>3, <1>4 DEF IInv, TypeInv

LEMMA StopNothingPreviewStep ==
  ASSUME IInv, StopNothing("preview")
  PROVE  IInv'
  <1>1. PcInv' /\ FlagsInv'
    BY DEF IInv, TypeInv, PcInv, FlagsInv, StopNothing, AfterStop
  <1>2. SnapsInv'
    BY Constants DEF IInv, TypeInv, PcInv, SnapsInv, StopNothing, AfterStop
  <1>3. BuffersInv'
    BY Constants DEF IInv, TypeInv, PcInv, FlagsInv, BuffersInv, Frames, StopNothing, AfterStop
  <1>4. ASSUME ~slipped' PROVE CalmInv'
    <2>1. ~slipped /\ CalmInv
      BY <1>4 DEF IInv, TypeInv, FlagsInv, StopNothing, AfterStop
    <2>2. OrderInv'
      BY <1>4, <2>1, Constants DEF IInv, TypeInv, PcInv, FlagsInv, CalmInv, OrderInv, LocksInv,
         LoopInv, ExitInv, CaptureInv, StopNothing, AfterStop
    <2>3. StreamInv' /\ AppInv'
      BY <1>4, <2>1, Constants DEF IInv, TypeInv, PcInv, FlagsInv, BuffersInv, CalmInv,
         OrderInv, LocksInv, LoopInv, ExitInv, CaptureInv, StreamInv, AppInv, FrameInv,
         StopNothing, AfterStop
    <2>4. FrameInv'
      BY <1>4, <2>1, Constants DEF IInv, TypeInv, PcInv, FlagsInv, BuffersInv, Frames, CalmInv,
         OrderInv, LocksInv, LoopInv, ExitInv, CaptureInv, StreamInv, AppInv, FrameInv,
         StopNothing, AfterStop
    <2> QED
      BY <2>2, <2>3, <2>4 DEF CalmInv
  <1> QED
    BY <1>1, <1>2, <1>3, <1>4 DEF IInv, TypeInv

LEMMA StopFailsPreviewStep ==
  ASSUME IInv, StopFails("preview")
  PROVE  IInv'
  <1>1. PcInv' /\ FlagsInv'
    BY DEF IInv, TypeInv, PcInv, FlagsInv, StopFails, AfterStop, Slip
  <1>2. SnapsInv'
    BY Constants DEF IInv, TypeInv, PcInv, SnapsInv, StopFails, AfterStop, Slip
  <1>3. BuffersInv'
    BY Constants DEF IInv, TypeInv, PcInv, FlagsInv, BuffersInv, Frames, StopFails, AfterStop,
       Slip
  <1>4. ASSUME ~slipped' PROVE CalmInv'
    <2>1. ~slipped /\ CalmInv
      BY <1>4 DEF IInv, TypeInv, FlagsInv, StopFails, AfterStop, Slip
    <2>2. OrderInv'
      BY <1>4, <2>1, Constants DEF IInv, TypeInv, PcInv, FlagsInv, CalmInv, OrderInv, LocksInv,
         LoopInv, ExitInv, CaptureInv, StopFails, AfterStop, Slip
    <2>3. StreamInv' /\ AppInv'
      BY <1>4, <2>1, Constants DEF IInv, TypeInv, PcInv, FlagsInv, BuffersInv, CalmInv,
         OrderInv, LocksInv, LoopInv, ExitInv, CaptureInv, StreamInv, AppInv, FrameInv,
         StopFails, AfterStop, Slip
    <2>4. FrameInv'
      BY <1>4, <2>1, Constants DEF IInv, TypeInv, PcInv, FlagsInv, BuffersInv, Frames, CalmInv,
         OrderInv, LocksInv, LoopInv, ExitInv, CaptureInv, StreamInv, AppInv, FrameInv,
         StopFails, AfterStop, Slip
    <2> QED
      BY <2>2, <2>3, <2>4 DEF CalmInv
  <1> QED
    BY <1>1, <1>2, <1>3, <1>4 DEF IInv, TypeInv

LEMMA StoppedPreviewStep ==
  ASSUME IInv, Stopped("preview")
  PROVE  IInv'
  <1>1. PcInv' /\ FlagsInv'
    <2>1. PcInv'
      BY DEF IInv, TypeInv, PcInv, Stopped, AfterStop
    <2>2. FlagsInv'
      BY DEF IInv, TypeInv, FlagsInv, Stopped, AfterStop
    <2> QED
      BY <2>1, <2>2
  <1>2. SnapsInv'
    BY Constants DEF IInv, TypeInv, PcInv, SnapsInv, Stopped, AfterStop
  <1>3. BuffersInv'
    BY Constants DEF IInv, TypeInv, PcInv, FlagsInv, BuffersInv, Frames, Stopped, AfterStop
  <1>4. ASSUME ~slipped' PROVE CalmInv'
    <2>1. ~slipped /\ CalmInv
      BY <1>4 DEF IInv, TypeInv, FlagsInv, Stopped, AfterStop
    <2>2. OrderInv'
      BY <1>4, <2>1, Constants DEF IInv, TypeInv, PcInv, FlagsInv, CalmInv, OrderInv, LocksInv,
         LoopInv, ExitInv, CaptureInv, Stopped, AfterStop
    <2>3. StreamInv' /\ AppInv'
      BY <1>4, <2>1, Constants DEF IInv, TypeInv, PcInv, FlagsInv, BuffersInv, CalmInv,
         OrderInv, LocksInv, LoopInv, ExitInv, CaptureInv, StreamInv, AppInv, FrameInv, Stopped,
         AfterStop
    <2>4. FrameInv'
      BY <1>4, <2>1, Constants DEF IInv, TypeInv, PcInv, FlagsInv, BuffersInv, Frames, CalmInv,
         OrderInv, LocksInv, LoopInv, ExitInv, CaptureInv, StreamInv, AppInv, FrameInv, Stopped,
         AfterStop
    <2> QED
      BY <2>2, <2>3, <2>4 DEF CalmInv
  <1> QED
    BY <1>1, <1>2, <1>3, <1>4 DEF IInv, TypeInv

LEMMA StopUnmapPictureStep ==
  ASSUME IInv, StopUnmap("picture")
  PROVE  IInv'
  <1>1. PcInv' /\ FlagsInv'
    BY DEF IInv, TypeInv, PcInv, FlagsInv, StopUnmap
  <1>2. SnapsInv'
    BY Constants DEF IInv, TypeInv, PcInv, SnapsInv, StopUnmap
  <1>3. BuffersInv'
    BY Constants DEF IInv, TypeInv, PcInv, FlagsInv, BuffersInv, Frames, StopUnmap
  <1>4. ASSUME ~slipped' PROVE CalmInv'
    <2>1. ~slipped /\ CalmInv
      BY <1>4 DEF IInv, TypeInv, FlagsInv, StopUnmap
    <2>2. OrderInv'
      BY <1>4, <2>1, Constants DEF IInv, TypeInv, PcInv, FlagsInv, CalmInv, OrderInv, LocksInv,
         LoopInv, ExitInv, CaptureInv, StopUnmap
    <2>3. StreamInv' /\ AppInv'
      BY <1>4, <2>1, Constants DEF IInv, TypeInv, PcInv, FlagsInv, BuffersInv, CalmInv,
         OrderInv, LocksInv, LoopInv, ExitInv, CaptureInv, StreamInv, AppInv, FrameInv,
         StopUnmap
    <2>4. FrameInv'
      BY <1>4, <2>1, Constants DEF IInv, TypeInv, PcInv, FlagsInv, BuffersInv, Frames, CalmInv,
         OrderInv, LocksInv, LoopInv, ExitInv, CaptureInv, StreamInv, AppInv, FrameInv,
         StopUnmap
    <2> QED
      BY <2>2, <2>3, <2>4 DEF CalmInv
  <1> QED
    BY <1>1, <1>2, <1>3, <1>4 DEF IInv, TypeInv

LEMMA StopNothingPictureStep ==
  ASSUME IInv, StopNothing("picture")
  PROVE  IInv'
  <1>1. PcInv' /\ FlagsInv'
    BY DEF IInv, TypeInv, PcInv, FlagsInv, StopNothing, AfterStop
  <1>2. SnapsInv'
    BY Constants DEF IInv, TypeInv, PcInv, SnapsInv, StopNothing, AfterStop
  <1>3. BuffersInv'
    BY Constants DEF IInv, TypeInv, PcInv, FlagsInv, BuffersInv, Frames, StopNothing, AfterStop
  <1>4. ASSUME ~slipped' PROVE CalmInv'
    <2>1. ~slipped /\ CalmInv
      BY <1>4 DEF IInv, TypeInv, FlagsInv, StopNothing, AfterStop
    <2>2. OrderInv'
      BY <1>4, <2>1, Constants DEF IInv, TypeInv, PcInv, FlagsInv, CalmInv, OrderInv, LocksInv,
         LoopInv, ExitInv, CaptureInv, StopNothing, AfterStop
    <2>3. StreamInv' /\ AppInv'
      BY <1>4, <2>1, Constants DEF IInv, TypeInv, PcInv, FlagsInv, BuffersInv, CalmInv,
         OrderInv, LocksInv, LoopInv, ExitInv, CaptureInv, StreamInv, AppInv, FrameInv,
         StopNothing, AfterStop
    <2>4. FrameInv'
      BY <1>4, <2>1, Constants DEF IInv, TypeInv, PcInv, FlagsInv, BuffersInv, Frames, CalmInv,
         OrderInv, LocksInv, LoopInv, ExitInv, CaptureInv, StreamInv, AppInv, FrameInv,
         StopNothing, AfterStop
    <2> QED
      BY <2>2, <2>3, <2>4 DEF CalmInv
  <1> QED
    BY <1>1, <1>2, <1>3, <1>4 DEF IInv, TypeInv

LEMMA StopFailsPictureStep ==
  ASSUME IInv, StopFails("picture")
  PROVE  IInv'
  <1>1. PcInv' /\ FlagsInv'
    BY DEF IInv, TypeInv, PcInv, FlagsInv, StopFails, AfterStop, Slip
  <1>2. SnapsInv'
    BY Constants DEF IInv, TypeInv, PcInv, SnapsInv, StopFails, AfterStop, Slip
  <1>3. BuffersInv'
    BY Constants DEF IInv, TypeInv, PcInv, FlagsInv, BuffersInv, Frames, StopFails, AfterStop,
       Slip
  <1>4. ASSUME ~slipped' PROVE CalmInv'
    <2>1. ~slipped /\ CalmInv
      BY <1>4 DEF IInv, TypeInv, FlagsInv, StopFails, AfterStop, Slip
    <2>2. OrderInv'
      BY <1>4, <2>1, Constants DEF IInv, TypeInv, PcInv, FlagsInv, CalmInv, OrderInv, LocksInv,
         LoopInv, ExitInv, CaptureInv, StopFails, AfterStop, Slip
    <2>3. StreamInv' /\ AppInv'
      BY <1>4, <2>1, Constants DEF IInv, TypeInv, PcInv, FlagsInv, BuffersInv, CalmInv,
         OrderInv, LocksInv, LoopInv, ExitInv, CaptureInv, StreamInv, AppInv, FrameInv,
         StopFails, AfterStop, Slip
    <2>4. FrameInv'
      BY <1>4, <2>1, Constants DEF IInv, TypeInv, PcInv, FlagsInv, BuffersInv, Frames, CalmInv,
         OrderInv, LocksInv, LoopInv, ExitInv, CaptureInv, StreamInv, AppInv, FrameInv,
         StopFails, AfterStop, Slip
    <2> QED
      BY <2>2, <2>3, <2>4 DEF CalmInv
  <1> QED
    BY <1>1, <1>2, <1>3, <1>4 DEF IInv, TypeInv

LEMMA StoppedPictureStep ==
  ASSUME IInv, Stopped("picture")
  PROVE  IInv'
  <1>1. PcInv' /\ FlagsInv'
    <2>1. PcInv'
      BY DEF IInv, TypeInv, PcInv, Stopped, AfterStop
    <2>2. FlagsInv'
      BY DEF IInv, TypeInv, FlagsInv, Stopped, AfterStop
    <2> QED
      BY <2>1, <2>2
  <1>2. SnapsInv'
    BY Constants DEF IInv, TypeInv, PcInv, SnapsInv, Stopped, AfterStop
  <1>3. BuffersInv'
    BY Constants DEF IInv, TypeInv, PcInv, FlagsInv, BuffersInv, Frames, Stopped, AfterStop
  <1>4. ASSUME ~slipped' PROVE CalmInv'
    <2>1. ~slipped /\ CalmInv
      BY <1>4 DEF IInv, TypeInv, FlagsInv, Stopped, AfterStop
    <2>2. OrderInv'
      BY <1>4, <2>1, Constants DEF IInv, TypeInv, PcInv, FlagsInv, CalmInv, OrderInv, LocksInv,
         LoopInv, ExitInv, CaptureInv, Stopped, AfterStop
    <2>3. StreamInv' /\ AppInv'
      BY <1>4, <2>1, Constants DEF IInv, TypeInv, PcInv, FlagsInv, BuffersInv, CalmInv,
         OrderInv, LocksInv, LoopInv, ExitInv, CaptureInv, StreamInv, AppInv, FrameInv, Stopped,
         AfterStop
    <2>4. FrameInv'
      BY <1>4, <2>1, Constants DEF IInv, TypeInv, PcInv, FlagsInv, BuffersInv, Frames, CalmInv,
         OrderInv, LocksInv, LoopInv, ExitInv, CaptureInv, StreamInv, AppInv, FrameInv, Stopped,
         AfterStop
    <2> QED
      BY <2>2, <2>3, <2>4 DEF CalmInv
  <1> QED
    BY <1>1, <1>2, <1>3, <1>4 DEF IInv, TypeInv

LEMMA TestRunningStep ==
  ASSUME IInv, TestRunning
  PROVE  IInv'
  <1>1. PcInv' /\ FlagsInv'
    BY DEF IInv, TypeInv, PcInv, FlagsInv, TestRunning
  <1>2. SnapsInv'
    BY Constants DEF IInv, TypeInv, PcInv, SnapsInv, TestRunning
  <1>3. BuffersInv'
    BY Constants DEF IInv, TypeInv, PcInv, FlagsInv, BuffersInv, Frames, TestRunning
  <1>4. ASSUME ~slipped' PROVE CalmInv'
    <2>1. ~slipped /\ CalmInv
      BY <1>4 DEF IInv, TypeInv, FlagsInv, TestRunning
    <2>2. OrderInv'
      BY <1>4, <2>1, Constants DEF IInv, TypeInv, PcInv, FlagsInv, CalmInv, OrderInv, LocksInv,
         LoopInv, ExitInv, CaptureInv, TestRunning
    <2>3. StreamInv' /\ AppInv'
      BY <1>4, <2>1, Constants DEF IInv, TypeInv, PcInv, FlagsInv, BuffersInv, CalmInv,
         OrderInv, LocksInv, LoopInv, ExitInv, CaptureInv, StreamInv, AppInv, FrameInv,
         TestRunning
    <2>4. FrameInv'
      BY <1>4, <2>1, Constants DEF IInv, TypeInv, PcInv, FlagsInv, BuffersInv, Frames, CalmInv,
         OrderInv, LocksInv, LoopInv, ExitInv, CaptureInv, StreamInv, AppInv, FrameInv,
         TestRunning
    <2> QED
      BY <2>2, <2>3, <2>4 DEF CalmInv
  <1> QED
    BY <1>1, <1>2, <1>3, <1>4 DEF IInv, TypeInv

LEMMA CheckExitStep ==
  ASSUME IInv, CheckExit
  PROVE  IInv'
  <1>1. PcInv' /\ FlagsInv'
    BY DEF IInv, TypeInv, PcInv, FlagsInv, CheckExit
  <1>2. SnapsInv'
    BY Constants DEF IInv, TypeInv, PcInv, SnapsInv, CheckExit
  <1>3. BuffersInv'
    BY Constants DEF IInv, TypeInv, PcInv, FlagsInv, BuffersInv, Frames, CheckExit
  <1>4. ASSUME ~slipped' PROVE CalmInv'
    <2>1. ~slipped /\ CalmInv
      BY <1>4 DEF IInv, TypeInv, FlagsInv, CheckExit
    <2>2. OrderInv'
      BY <1>4, <2>1, Constants DEF IInv, TypeInv, PcInv, FlagsInv, CalmInv, OrderInv, LocksInv,
         LoopInv, ExitInv, CaptureInv, CheckExit
    <2>3. StreamInv' /\ AppInv'
      BY <1>4, <2>1, Constants DEF IInv, TypeInv, PcInv, FlagsInv, BuffersInv, CalmInv,
         OrderInv, LocksInv, LoopInv, ExitInv, CaptureInv, StreamInv, AppInv, FrameInv,
         CheckExit
    <2>4. FrameInv'
      BY <1>4, <2>1, Constants DEF IInv, TypeInv, PcInv, FlagsInv, BuffersInv, Frames, CalmInv,
         OrderInv, LocksInv, LoopInv, ExitInv, CaptureInv, StreamInv, AppInv, FrameInv,
         CheckExit
    <2> QED
      BY <2>2, <2>3, <2>4 DEF CalmInv
  <1> QED
    BY <1>1, <1>2, <1>3, <1>4 DEF IInv, TypeInv

LEMMA GrabPreviewStep ==
  ASSUME IInv, GrabPreview
  PROVE  IInv'
  <1>1. PcInv' /\ FlagsInv'
    BY DEF IInv, TypeInv, PcInv, FlagsInv, GrabPreview, Grab, GrabFails, Frame
  <1>2. SnapsInv'
    BY Constants DEF IInv, TypeInv, PcInv, SnapsInv, GrabPreview, Grab, GrabFails, Frame
  <1>3. BuffersInv'
    BY Constants DEF IInv, TypeInv, PcInv, FlagsInv, BuffersInv, Frames, GrabPreview, Grab,
       GrabFails, Frame
  <1>4. ASSUME ~slipped' PROVE CalmInv'
    <2>1. ~slipped /\ CalmInv
      BY <1>4 DEF IInv, TypeInv, FlagsInv, GrabPreview, Grab, GrabFails, Frame
    <2>2. OrderInv'
      BY <1>4, <2>1, Constants DEF IInv, TypeInv, PcInv, FlagsInv, CalmInv, OrderInv, LocksInv,
         LoopInv, ExitInv, CaptureInv, GrabPreview, Grab, GrabFails, Frame
    <2>3. StreamInv' /\ AppInv'
      BY <1>4, <2>1, Constants DEF IInv, TypeInv, PcInv, FlagsInv, BuffersInv, CalmInv,
         OrderInv, LocksInv, LoopInv, ExitInv, CaptureInv, StreamInv, AppInv, FrameInv,
         GrabPreview, Grab, GrabFails, Frame
    <2>4. FrameInv'
      BY <1>4, <2>1, Constants DEF IInv, TypeInv, PcInv, FlagsInv, BuffersInv, Frames, CalmInv,
         OrderInv, LocksInv, LoopInv, ExitInv, CaptureInv, StreamInv, AppInv, FrameInv,
         GrabPreview, Grab, GrabFails, Frame
    <2> QED
      BY <2>2, <2>3, <2>4 DEF CalmInv
  <1> QED
    BY <1>1, <1>2, <1>3, <1>4 DEF IInv, TypeInv

LEMMA RecordStep ==
  ASSUME IInv, Record
  PROVE  IInv'
  <1>1. PcInv' /\ FlagsInv'
    <2>1. PcInv'
      BY DEF IInv, TypeInv, PcInv, Record, Requeued, Slip
    <2>2. FlagsInv'
      BY DEF IInv, TypeInv, FlagsInv, Record, Requeued, Slip
    <2> QED
      BY <2>1, <2>2
  <1>2. SnapsInv'
    BY Constants DEF IInv, TypeInv, PcInv, SnapsInv, Record, Requeued, Slip
  <1>3. BuffersInv'
    BY Constants DEF IInv, TypeInv, PcInv, FlagsInv, BuffersInv, Frames, Record, Requeued, Slip
  <1>4. ASSUME ~slipped' PROVE CalmInv'
    <2>1. ~slipped /\ CalmInv
      BY <1>4 DEF IInv, TypeInv, FlagsInv, Record, Requeued, Slip
    <2>2. OrderInv'
      BY <1>4, <2>1, Constants DEF IInv, TypeInv, PcInv, FlagsInv, CalmInv, OrderInv, LocksInv,
         LoopInv, ExitInv, CaptureInv, Record, Requeued, Slip
    <2>3. StreamInv' /\ AppInv'
      BY <1>4, <2>1, Constants DEF IInv, TypeInv, PcInv, FlagsInv, BuffersInv, CalmInv,
         OrderInv, LocksInv, LoopInv, ExitInv, CaptureInv, StreamInv, AppInv, FrameInv, Record,
         Requeued, Slip
    <2>4. FrameInv'
      BY <1>4, <2>1, Constants DEF IInv, TypeInv, PcInv, FlagsInv, BuffersInv, Frames, CalmInv,
         OrderInv, LocksInv, LoopInv, ExitInv, CaptureInv, StreamInv, AppInv, FrameInv, Record,
         Requeued, Slip
    <2> QED
      BY <2>2, <2>3, <2>4 DEF CalmInv
  <1> QED
    BY <1>1, <1>2, <1>3, <1>4 DEF IInv, TypeInv

LEMMA OverlayPostFrameStep ==
  ASSUME IInv, OverlayPostFrame
  PROVE  IInv'
  <1>1. PcInv' /\ FlagsInv'
    BY DEF IInv, TypeInv, PcInv, FlagsInv, OverlayPostFrame
  <1>2. SnapsInv'
    BY Constants DEF IInv, TypeInv, PcInv, SnapsInv, OverlayPostFrame
  <1>3. BuffersInv'
    BY Constants DEF IInv, TypeInv, PcInv, FlagsInv, BuffersInv, Frames, OverlayPostFrame
  <1>4. ASSUME ~slipped' PROVE CalmInv'
    <2>1. ~slipped /\ CalmInv
      BY <1>4 DEF IInv, TypeInv, FlagsInv, OverlayPostFrame
    <2>2. OrderInv'
      BY <1>4, <2>1, Constants DEF IInv, TypeInv, PcInv, FlagsInv, CalmInv, OrderInv, LocksInv,
         LoopInv, ExitInv, CaptureInv, OverlayPostFrame
    <2>3. StreamInv' /\ AppInv'
      BY <1>4, <2>1, Constants DEF IInv, TypeInv, PcInv, FlagsInv, BuffersInv, CalmInv,
         OrderInv, LocksInv, LoopInv, ExitInv, CaptureInv, StreamInv, AppInv, FrameInv,
         OverlayPostFrame
    <2>4. FrameInv'
      BY <1>4, <2>1, Constants DEF IInv, TypeInv, PcInv, FlagsInv, BuffersInv, Frames, CalmInv,
         OrderInv, LocksInv, LoopInv, ExitInv, CaptureInv, StreamInv, AppInv, FrameInv,
         OverlayPostFrame
    <2> QED
      BY <2>2, <2>3, <2>4 DEF CalmInv
  <1> QED
    BY <1>1, <1>2, <1>3, <1>4 DEF IInv, TypeInv

LEMMA BuffersReleasedStep ==
  ASSUME IInv, BuffersReleased
  PROVE  IInv'
  <1>1. PcInv' /\ FlagsInv'
    BY DEF IInv, TypeInv, PcInv, FlagsInv, BuffersReleased, areThereBuffersOut, AfterDrain
  <1>2. SnapsInv'
    BY Constants DEF IInv, TypeInv, PcInv, SnapsInv, BuffersReleased, areThereBuffersOut,
       AfterDrain
  <1>3. BuffersInv'
    BY Constants DEF IInv, TypeInv, PcInv, FlagsInv, BuffersInv, Frames, BuffersReleased,
       areThereBuffersOut, AfterDrain
  <1>4. ASSUME ~slipped' PROVE CalmInv'
    <2>1. ~slipped /\ CalmInv
      BY <1>4 DEF IInv, TypeInv, FlagsInv, BuffersReleased, areThereBuffersOut, AfterDrain
    <2>2. OrderInv'
      BY <1>4, <2>1, Constants DEF IInv, TypeInv, PcInv, FlagsInv, CalmInv, OrderInv, LocksInv,
         LoopInv, ExitInv, CaptureInv, BuffersReleased, areThereBuffersOut, AfterDrain
    <2>3. StreamInv' /\ AppInv'
      BY <1>4, <2>1, Constants DEF IInv, TypeInv, PcInv, FlagsInv, BuffersInv, CalmInv,
         OrderInv, LocksInv, LoopInv, ExitInv, CaptureInv, StreamInv, AppInv, FrameInv, Frames,
         BuffersReleased, areThereBuffersOut, AfterDrain
    <2>4. FrameInv'
      BY <1>4, <2>1, Constants DEF IInv, TypeInv, PcInv, FlagsInv, BuffersInv, Frames, CalmInv,
         OrderInv, LocksInv, LoopInv, ExitInv, CaptureInv, StreamInv, AppInv, FrameInv,
         BuffersReleased, areThereBuffersOut, AfterDrain
    <2> QED
      BY <2>2, <2>3, <2>4 DEF CalmInv
  <1> QED
    BY <1>1, <1>2, <1>3, <1>4 DEF IInv, TypeInv

LEMMA ForceReleaseStep ==
  ASSUME IInv, ForceRelease
  PROVE  IInv'
  <1>1. PcInv' /\ FlagsInv'
    BY DEF IInv, TypeInv, PcInv, FlagsInv, ForceRelease, Requeued, AfterDrain, Slip
  <1>2. SnapsInv'
    BY Constants DEF IInv, TypeInv, PcInv, SnapsInv, ForceRelease, Requeued, AfterDrain, Slip
  <1>3. BuffersInv'
    BY Constants DEF IInv, TypeInv, PcInv, FlagsInv, BuffersInv, Frames, ForceRelease, Requeued,
       AfterDrain, Slip
  <1>4. ASSUME ~slipped' PROVE CalmInv'
    <2>1. ~slipped /\ CalmInv
      BY <1>4 DEF IInv, TypeInv, FlagsInv, ForceRelease, Requeued, AfterDrain, Slip
    <2>2. OrderInv'
      BY <1>4, <2>1, Constants DEF IInv, TypeInv, PcInv, FlagsInv, CalmInv, OrderInv, LocksInv,
         LoopInv, ExitInv, CaptureInv, ForceRelease, Requeued, AfterDrain, Slip
    <2>3. StreamInv' /\ AppInv'
      BY <1>4, <2>1, Constants DEF IInv, TypeInv, PcInv, FlagsInv, BuffersInv, CalmInv,
         OrderInv, LocksInv, LoopInv, ExitInv, CaptureInv, StreamInv, AppInv, FrameInv,
         ForceRelease, Requeued, AfterDrain, Slip
    <2>4. FrameInv'
      BY <1>4, <2>1, Constants DEF IInv, TypeInv, PcInv, FlagsInv, BuffersInv, Frames, CalmInv,
         OrderInv, LocksInv, LoopInv, ExitInv, CaptureInv, StreamInv, AppInv, FrameInv,
         ForceRelease, Requeued, AfterDrain, Slip
    <2> QED
      BY <2>2, <2>3, <2>4 DEF CalmInv
  <1> QED
    BY <1>1, <1>2, <1>3, <1>4 DEF IInv, TypeInv

LEMMA SignalStoppedStep ==
  ASSUME IInv, SignalStopped
  PROVE  IInv'
  <1>1. PcInv' /\ FlagsInv'
    BY DEF IInv, TypeInv, PcInv, FlagsInv, SignalStopped
  <1>2. SnapsInv'
    BY Constants DEF IInv, TypeInv, PcInv, SnapsInv, SignalStopped
  <1>3. BuffersInv'
    BY Constants DEF IInv, TypeInv, PcInv, FlagsInv, BuffersInv, Frames, SignalStopped
  <1>4. ASSUME ~slipped' PROVE CalmInv'
    <2>1. ~slipped /\ CalmInv
      BY <1>4 DEF IInv, TypeInv, FlagsInv, SignalStopped
    <2>2. OrderInv'
      BY <1>4, <2>1, Constants DEF IInv, TypeInv, PcInv, FlagsInv, CalmInv, OrderInv, LocksInv,
         LoopInv, ExitInv, CaptureInv, SignalStopped
    <2>3. StreamInv' /\ AppInv'
      BY <1>4, <2>1, Constants DEF IInv, TypeInv, PcInv, FlagsInv, BuffersInv, CalmInv,
         OrderInv, LocksInv, LoopInv, ExitInv, CaptureInv, StreamInv, AppInv, FrameInv,
         SignalStopped
    <2>4. FrameInv'
      BY <1>4, <2>1, Constants DEF IInv, TypeInv, PcInv, FlagsInv, BuffersInv, Frames, CalmInv,
         OrderInv, LocksInv, LoopInv, ExitInv, CaptureInv, StreamInv, AppInv, FrameInv,
         SignalStopped
    <2> QED
      BY <2>2, <2>3, <2>4 DEF CalmInv
  <1> QED
    BY <1>1, <1>2, <1>3, <1>4 DEF IInv, TypeInv

LEMMA SnapStep ==
  ASSUME IInv, Snap
  PROVE  IInv'
  <1>1. PcInv' /\ FlagsInv'
    BY DEF IInv, TypeInv, PcInv, FlagsInv, Snap, Grab, GrabFails, SnapNext, Frame
  <1>2. SnapsInv'
    BY Constants DEF IInv, TypeInv, PcInv, SnapsInv, Snap, Grab, GrabFails, SnapNext, Frame
  <1>3. BuffersInv'
    BY Constants DEF IInv, TypeInv, PcInv, FlagsInv, BuffersInv, Frames, Snap, Grab, GrabFails,
       SnapNext, Frame
  <1>4. ASSUME ~slipped' PROVE CalmInv'
    <2>1. ~slipped /\ CalmInv
      BY <1>4 DEF IInv, TypeInv, FlagsInv, Snap, Grab, GrabFails, SnapNext, Frame
    <2>2. OrderInv'
      BY <1>4, <2>1, Constants DEF IInv, TypeInv, PcInv, FlagsInv, CalmInv, OrderInv, LocksInv,
         LoopInv, ExitInv, CaptureInv, Snap, Grab, GrabFails, SnapNext, Frame
    <2>3. StreamInv' /\ AppInv'
      BY <1>4, <2>1, Constants DEF IInv, TypeInv, PcInv, FlagsInv, BuffersInv, CalmInv,
         OrderInv, LocksInv, LoopInv, ExitInv, CaptureInv, StreamInv, AppInv, FrameInv, Snap,
         Grab, GrabFails, SnapNext, Frame
    <2>4. FrameInv'
      BY <1>4, <2>1, Constants DEF IInv, TypeInv, PcInv, FlagsInv, BuffersInv, Frames, CalmInv,
         OrderInv, LocksInv, LoopInv, ExitInv, CaptureInv, StreamInv, AppInv, FrameInv, Snap,
         Grab, GrabFails, SnapNext, Frame
    <2> QED
      BY <2>2, <2>3, <2>4 DEF CalmInv
  <1> QED
    BY <1>1, <1>2, <1>3, <1>4 DEF IInv, TypeInv

LEMMA SnapReleaseStep ==
  ASSUME IInv, SnapRelease
  PROVE  IInv'
  <1>1. PcInv' /\ FlagsInv'
    BY DEF IInv, TypeInv, PcInv, FlagsInv, SnapRelease, Requeued, SnapNext
  <1>2. SnapsInv'
    BY Constants DEF IInv, TypeInv, PcInv, SnapsInv, SnapRelease, Requeued, SnapNext
  <1>3. BuffersInv'
    BY Constants DEF IInv, TypeInv, PcInv, FlagsInv, BuffersInv, Frames, SnapRelease, Requeued,
       SnapNext
  <1>4. ASSUME ~slipped' PROVE CalmInv'
    <2>1. ~slipped /\ CalmInv
      BY <1>4 DEF IInv, TypeInv, FlagsInv, SnapRelease, Requeued, SnapNext
    <2>2. OrderInv'
      BY <1>4, <2>1, Constants DEF IInv, TypeInv, PcInv, FlagsInv, CalmInv, OrderInv, LocksInv,
         LoopInv, ExitInv, CaptureInv, SnapRelease, Requeued, SnapNext
    <2>3. StreamInv' /\ AppInv'
      BY <1>4, <2>1, Constants DEF IInv, TypeInv, PcInv, FlagsInv, BuffersInv, CalmInv,
         OrderInv, LocksInv, LoopInv, ExitInv, CaptureInv, StreamInv, AppInv, FrameInv,
         SnapRelease, Requeued, SnapNext
    <2>4. FrameInv'
      BY <1>4, <2>1, Constants DEF IInv, TypeInv, PcInv, FlagsInv, BuffersInv, Frames, CalmInv,
         OrderInv, LocksInv, LoopInv, ExitInv, CaptureInv, StreamInv, AppInv, FrameInv,
         SnapRelease, Requeued, SnapNext
    <2> QED
      BY <2>2, <2>3, <2>4 DEF CalmInv
  <1> QED
    BY <1>1, <1>2, <1>3, <1>4 DEF IInv, TypeInv

LEMMA GrabPictureStep ==
  ASSUME IInv, GrabPicture
  PROVE  IInv'
  <1>1. PcInv' /\ FlagsInv'
    BY DEF IInv, TypeInv, PcInv, FlagsInv, GrabPicture, Grab, GrabFails, Frame
  <1>2. SnapsInv'
    BY Constants DEF IInv, TypeInv, PcInv, SnapsInv, GrabPicture, Grab, GrabFails, Frame
  <1>3. BuffersInv'
    BY Constants DEF IInv, TypeInv, PcInv, FlagsInv, BuffersInv, Frames, GrabPicture, Grab,
       GrabFails, Frame
  <1>4. ASSUME ~slipped' PROVE CalmInv'
    <2>1. ~slipped /\ CalmInv
      BY <1>4 DEF IInv, TypeInv, FlagsInv, GrabPicture, Grab, GrabFails, Frame
    <2>2. OrderInv'
      BY <1>4, <2>1, Constants DEF IInv, TypeInv, PcInv, FlagsInv, CalmInv, OrderInv, LocksInv,
         LoopInv, ExitInv, CaptureInv, GrabPicture, Grab, GrabFails, Frame
    <2>3. StreamInv' /\ AppInv'
      BY <1>4, <2>1, Constants DEF IInv, TypeInv, PcInv, FlagsInv, BuffersInv, CalmInv,
         OrderInv, LocksInv, LoopInv, ExitInv, CaptureInv, StreamInv, AppInv, FrameInv,
         GrabPicture, Grab, GrabFails, Frame
    <2>4. FrameInv'
      BY <1>4, <2>1, Constants DEF IInv, TypeInv, PcInv, FlagsInv, BuffersInv, Frames, CalmInv,
         OrderInv, LocksInv, LoopInv, ExitInv, CaptureInv, StreamInv, AppInv, FrameInv,
         GrabPicture, Grab, GrabFails, Frame
    <2> QED
      BY <2>2, <2>3, <2>4 DEF CalmInv
  <1> QED
    BY <1>1, <1>2, <1>3, <1>4 DEF IInv, TypeInv

LEMMA ShootStep ==
  ASSUME IInv, Shoot
  PROVE  IInv'
  <1>1. PcInv' /\ FlagsInv'
    BY DEF IInv, TypeInv, PcInv, FlagsInv, Shoot, Requeued
  <1>2. SnapsInv'
    BY Constants DEF IInv, TypeInv, PcInv, SnapsInv, Shoot, Requeued
  <1>3. BuffersInv'
    BY Constants DEF IInv, TypeInv, PcInv, FlagsInv, BuffersInv, Frames, Shoot, Requeued
  <1>4. ASSUME ~slipped' PROVE CalmInv'
    <2>1. ~slipped /\ CalmInv
      BY <1>4 DEF IInv, TypeInv, FlagsInv, Shoot, Requeued
    <2>2. OrderInv'
      BY <1>4, <2>1, Constants DEF IInv, TypeInv, PcInv, FlagsInv, CalmInv, OrderInv, LocksInv,
         LoopInv, ExitInv, CaptureInv, Shoot, Requeued
    <2>3. StreamInv' /\ AppInv'
      BY <1>4, <2>1, Constants DEF IInv, TypeInv, PcInv, FlagsInv, BuffersInv, CalmInv,
         OrderInv, LocksInv, LoopInv, ExitInv, CaptureInv, StreamInv, AppInv, FrameInv, Shoot,
         Requeued
    <2>4. FrameInv'
      BY <1>4, <2>1, Constants DEF IInv, TypeInv, PcInv, FlagsInv, BuffersInv, Frames, CalmInv,
         OrderInv, LocksInv, LoopInv, ExitInv, CaptureInv, StreamInv, AppInv, FrameInv, Shoot,
         Requeued
    <2> QED
      BY <2>2, <2>3, <2>4 DEF CalmInv
  <1> QED
    BY <1>1, <1>2, <1>3, <1>4 DEF IInv, TypeInv

LEMMA ShootRawStep ==
  ASSUME IInv, ShootRaw
  PROVE  IInv'
  <1>1. PcInv' /\ FlagsInv'
    BY DEF IInv, TypeInv, PcInv, FlagsInv, ShootRaw, Slip
  <1>2. SnapsInv'
    BY Constants DEF IInv, TypeInv, PcInv, SnapsInv, ShootRaw, Slip
  <1>3. BuffersInv'
    BY Constants DEF IInv, TypeInv, PcInv, FlagsInv, BuffersInv, Frames, ShootRaw, Slip
  <1>4. ASSUME ~slipped' PROVE CalmInv'
    <2>1. ~slipped /\ CalmInv
      BY <1>4 DEF IInv, TypeInv, FlagsInv, ShootRaw, Slip
    <2>2. OrderInv'
      BY <1>4, <2>1, Constants DEF IInv, TypeInv, PcInv, FlagsInv, CalmInv, OrderInv, LocksInv,
         LoopInv, ExitInv, CaptureInv, ShootRaw, Slip
    <2>3. StreamInv' /\ AppInv'
      BY <1>4, <2>1, Constants DEF IInv, TypeInv, PcInv, FlagsInv, BuffersInv, CalmInv,
         OrderInv, LocksInv, LoopInv, ExitInv, CaptureInv, StreamInv, AppInv, FrameInv,
         ShootRaw, Slip
    <2>4. FrameInv'
      BY <1>4, <2>1, Constants DEF IInv, TypeInv, PcInv, FlagsInv, BuffersInv, Frames, CalmInv,
         OrderInv, LocksInv, LoopInv, ExitInv, CaptureInv, StreamInv, AppInv, FrameInv,
         ShootRaw, Slip
    <2> QED
      BY <2>2, <2>3, <2>4 DEF CalmInv
  <1> QED
    BY <1>1, <1>2, <1>3, <1>4 DEF IInv, TypeInv

LEMMA LeaveStep ==
  ASSUME IInv, Leave
  PROVE  IInv'
  <1>1. PcInv' /\ FlagsInv'
    BY DEF IInv, TypeInv, PcInv, FlagsInv, Leave
  <1>2. SnapsInv'
    BY Constants DEF IInv, TypeInv, PcInv, SnapsInv, Leave
  <1>3. BuffersInv'
    BY Constants DEF IInv, TypeInv, PcInv, FlagsInv, BuffersInv, Frames, Leave
  <1>4. ASSUME ~slipped' PROVE CalmInv'
    <2>1. ~slipped /\ CalmInv
      BY <1>4 DEF IInv, TypeInv, FlagsInv, Leave
    <2>2. OrderInv'
      BY <1>4, <2>1, Constants DEF IInv, TypeInv, PcInv, FlagsInv, CalmInv, OrderInv, LocksInv,
         LoopInv, ExitInv, CaptureInv, Leave
    <2>3. StreamInv' /\ AppInv'
      BY <1>4, <2>1, Constants DEF IInv, TypeInv, PcInv, FlagsInv, BuffersInv, CalmInv,
         OrderInv, LocksInv, LoopInv, ExitInv, CaptureInv, StreamInv, AppInv, FrameInv, Leave
    <2>4. FrameInv'
      BY <1>4, <2>1, Constants DEF IInv, TypeInv, PcInv, FlagsInv, BuffersInv, Frames, CalmInv,
         OrderInv, LocksInv, LoopInv, ExitInv, CaptureInv, StreamInv, AppInv, FrameInv, Leave
    <2> QED
      BY <2>2, <2>3, <2>4 DEF CalmInv
  <1> QED
    BY <1>1, <1>2, <1>3, <1>4 DEF IInv, TypeInv

LEMMA EndedStep ==
  ASSUME IInv, Ended
  PROVE  IInv'
  <1>1. PcInv' /\ FlagsInv'
    BY DEF IInv, TypeInv, PcInv, FlagsInv, Ended
  <1>2. SnapsInv'
    BY Constants DEF IInv, TypeInv, PcInv, SnapsInv, Ended
  <1>3. BuffersInv'
    BY Constants DEF IInv, TypeInv, PcInv, FlagsInv, BuffersInv, Frames, Ended
  <1>4. ASSUME ~slipped' PROVE CalmInv'
    <2>1. ~slipped /\ CalmInv
      BY <1>4 DEF IInv, TypeInv, FlagsInv, Ended
    <2>2. OrderInv'
      BY <1>4, <2>1, Constants DEF IInv, TypeInv, PcInv, FlagsInv, CalmInv, OrderInv, LocksInv,
         LoopInv, ExitInv, CaptureInv, Ended
    <2>3. StreamInv' /\ AppInv'
      BY <1>4, <2>1, Constants DEF IInv, TypeInv, PcInv, FlagsInv, BuffersInv, CalmInv,
         OrderInv, LocksInv, LoopInv, ExitInv, CaptureInv, StreamInv, AppInv, FrameInv, Ended
    <2>4. FrameInv'
      BY <1>4, <2>1, Constants DEF IInv, TypeInv, PcInv, FlagsInv, BuffersInv, Frames, CalmInv,
         OrderInv, LocksInv, LoopInv, ExitInv, CaptureInv, StreamInv, AppInv, FrameInv, Ended
    <2> QED
      BY <2>2, <2>3, <2>4 DEF CalmInv
  <1> QED
    BY <1>1, <1>2, <1>3, <1>4 DEF IInv, TypeInv

LEMMA StartPreviewStep ==
  ASSUME IInv, StartPreview
  PROVE  IInv'
  <1>1. PcInv' /\ FlagsInv'
    <2>1. PcInv'
      BY DEF IInv, TypeInv, PcInv, StartPreview, Slip
    <2>2. FlagsInv'
      BY DEF IInv, TypeInv, FlagsInv, StartPreview, Slip
    <2> QED
      BY <2>1, <2>2
  <1>2. SnapsInv'
    BY Constants DEF IInv, TypeInv, PcInv, SnapsInv, StartPreview, Slip
  <1>3. BuffersInv'
    BY Constants DEF IInv, TypeInv, PcInv, FlagsInv, BuffersInv, Frames, StartPreview, Slip
  <1>4. ASSUME ~slipped' PROVE CalmInv'
    <2>1. ~slipped /\ CalmInv
      BY <1>4 DEF IInv, TypeInv, FlagsInv, StartPreview, Slip
    <2>2. OrderInv'
      BY <1>4, <2>1, Constants DEF IInv, TypeInv, PcInv, FlagsInv, CalmInv, OrderInv, LocksInv,
         LoopInv, ExitInv, CaptureInv, StartPreview, Slip
    <2>3. StreamInv' /\ AppInv'
      BY <1>4, <2>1, Constants DEF IInv, TypeInv, PcInv, FlagsInv, BuffersInv, CalmInv,
         OrderInv, LocksInv, LoopInv, ExitInv, CaptureInv, StreamInv, AppInv, FrameInv,
         StartPreview, Slip
    <2>4. FrameInv'
      BY <1>4, <2>1, Constants DEF IInv, TypeInv, PcInv, FlagsInv, BuffersInv, Frames, CalmInv,
         OrderInv, LocksInv, LoopInv, ExitInv, CaptureInv, StreamInv, AppInv, FrameInv,
         StartPreview, Slip
    <2> QED
      BY <2>2, <2>3, <2>4 DEF CalmInv
  <1> QED
    BY <1>1, <1>2, <1>3, <1>4 DEF IInv, TypeInv

LEMMA StartLockStep ==
  ASSUME IInv, StartLock
  PROVE  IInv'
  <1>1. PcInv' /\ FlagsInv'
    BY DEF IInv, TypeInv, PcInv, FlagsInv, StartLock
  <1>2. SnapsInv'
    BY Constants DEF IInv, TypeInv, PcInv, SnapsInv, StartLock
  <1>3. BuffersInv'
    BY Constants DEF IInv, TypeInv, PcInv, FlagsInv, BuffersInv, Frames, StartLock
  <1>4. ASSUME ~slipped' PROVE CalmInv'
    <2>1. ~slipped /\ CalmInv
      BY <1>4 DEF IInv, TypeInv, FlagsInv, StartLock
    <2>2. OrderInv'
      BY <1>4, <2>1, Constants DEF IInv, TypeInv, PcInv, FlagsInv, CalmInv, OrderInv, LocksInv,
         LoopInv, ExitInv, CaptureInv, StartLock
    <2>3. StreamInv' /\ AppInv'
      BY <1>4, <2>1, Constants DEF IInv, TypeInv, PcInv, FlagsInv, BuffersInv, CalmInv,
         OrderInv, LocksInv, LoopInv, ExitInv, CaptureInv, StreamInv, AppInv, FrameInv,
         StartLock
    <2>4. FrameInv'
      BY <1>4, <2>1, Constants DEF IInv, TypeInv, PcInv, FlagsInv, BuffersInv, Frames, CalmInv,
         OrderInv, LocksInv, LoopInv, ExitInv, CaptureInv, StreamInv, AppInv, FrameInv,
         StartLock
    <2> QED
      BY <2>2, <2>3, <2>4 DEF CalmInv
  <1> QED
    BY <1>1, <1>2, <1>3, <1>4 DEF IInv, TypeInv

LEMMA BegunStep ==
  ASSUME IInv, Begun
  PROVE  IInv'
  <1>1. PcInv' /\ FlagsInv'
    BY DEF IInv, TypeInv, PcInv, FlagsInv, Begun, WakePreview
  <1>2. SnapsInv'
    BY Constants DEF IInv, TypeInv, PcInv, SnapsInv, Begun, WakePreview
  <1>3. BuffersInv'
    BY Constants DEF IInv, TypeInv, PcInv, FlagsInv, BuffersInv, Frames, Begun, WakePreview
  <1>4. ASSUME ~slipped' PROVE CalmInv'
    <2>1. ~slipped /\ CalmInv
      BY <1>4 DEF IInv, TypeInv, FlagsInv, Begun, WakePreview
    <2>2. OrderInv'
      BY <1>4, <2>1, Constants DEF IInv, TypeInv, PcInv, FlagsInv, CalmInv, OrderInv, LocksInv,
         LoopInv, ExitInv, CaptureInv, Begun, WakePreview
    <2>3. StreamInv' /\ AppInv'
      BY <1>4, <2>1, Constants DEF IInv, TypeInv, PcInv, FlagsInv, BuffersInv, CalmInv,
         OrderInv, LocksInv, LoopInv, ExitInv, CaptureInv, StreamInv, AppInv, FrameInv, Begun,
         WakePreview
    <2>4. FrameInv'
      BY <1>4, <2>1, Constants DEF IInv, TypeInv, PcInv, FlagsInv, BuffersInv, Frames, CalmInv,
         OrderInv, LocksInv, LoopInv, ExitInv, CaptureInv, StreamInv, AppInv, FrameInv, Begun,
         WakePreview
    <2> QED
      BY <2>2, <2>3, <2>4 DEF CalmInv
  <1> QED
    BY <1>1, <1>2, <1>3, <1>4 DEF IInv, TypeInv

LEMMA RefusedStep ==
  ASSUME IInv, Refused
  PROVE  IInv'
  <1>1. PcInv' /\ FlagsInv'
    BY DEF IInv, TypeInv, PcInv, FlagsInv, Refused
  <1>2. SnapsInv'
    BY Constants DEF IInv, TypeInv, PcInv, SnapsInv, Refused
  <1>3. BuffersInv'
    BY Constants DEF IInv, TypeInv, PcInv, FlagsInv, BuffersInv, Frames, Refused
  <1>4. ASSUME ~slipped' PROVE CalmInv'
    <2>1. ~slipped /\ CalmInv
      BY <1>4 DEF IInv, TypeInv, FlagsInv, Refused
    <2>2. OrderInv'
      BY <1>4, <2>1, Constants DEF IInv, TypeInv, PcInv, FlagsInv, CalmInv, OrderInv, LocksInv,
         LoopInv, ExitInv, CaptureInv, Refused
    <2>3. StreamInv' /\ AppInv'
      BY <1>4, <2>1, Constants DEF IInv, TypeInv, PcInv, FlagsInv, BuffersInv, CalmInv,
         OrderInv, LocksInv, LoopInv, ExitInv, CaptureInv, StreamInv, AppInv, FrameInv, Refused
    <2>4. FrameInv'
      BY <1>4, <2>1, Constants DEF IInv, TypeInv, PcInv, FlagsInv, BuffersInv, Frames, CalmInv,
         OrderInv, LocksInv, LoopInv, ExitInv, CaptureInv, StreamInv, AppInv, FrameInv, Refused
    <2> QED
      BY <2>2, <2>3, <2>4 DEF CalmInv
  <1> QED
    BY <1>1, <1>2, <1>3, <1>4 DEF IInv, TypeInv

LEMMA StopPreviewStep ==
  ASSUME IInv, NEW next \in {"idle", "take"}, StopPreview(next)
  PROVE  IInv'
  <1>1. PcInv' /\ FlagsInv'
    <2>1. PcInv'
      BY DEF IInv, TypeInv, PcInv, StopPreview, WakePreview
    <2>2. FlagsInv'
      BY DEF IInv, TypeInv, FlagsInv, StopPreview, WakePreview
    <2> QED
      BY <2>1, <2>2
  <1>2. SnapsInv'
    BY Constants DEF IInv, TypeInv, PcInv, SnapsInv, StopPreview, WakePreview
  <1>3. BuffersInv'
    BY Constants DEF IInv, TypeInv, PcInv, FlagsInv, BuffersInv, Frames, StopPreview,
       WakePreview
  <1>4. ASSUME ~slipped' PROVE CalmInv'
    <2>1. ~slipped /\ CalmInv
      BY <1>4 DEF IInv, TypeInv, FlagsInv, StopPreview, WakePreview
    <2>2. OrderInv'
      BY <1>4, <2>1, Constants DEF IInv, TypeInv, PcInv, FlagsInv, CalmInv, OrderInv, LocksInv,
         LoopInv, ExitInv, CaptureInv, StopPreview, WakePreview
    <2>3. StreamInv' /\ AppInv'
      BY <1>4, <2>1, Constants DEF IInv, TypeInv, PcInv, FlagsInv, BuffersInv, CalmInv,
         OrderInv, LocksInv, LoopInv, ExitInv, CaptureInv, StreamInv, AppInv, FrameInv,
         StopPreview, WakePreview
    <2>4. FrameInv'
      BY <1>4, <2>1, Constants DEF IInv, TypeInv, PcInv, FlagsInv, BuffersInv, Frames, CalmInv,
         OrderInv, LocksInv, LoopInv, ExitInv, CaptureInv, StreamInv, AppInv, FrameInv,
         StopPreview, WakePreview
    <2> QED
      BY <2>2, <2>3, <2>4 DEF CalmInv
  <1> QED
    BY <1>1, <1>2, <1>3, <1>4 DEF IInv, TypeInv

LEMMA StoppedReturnStep ==
  ASSUME IInv, StoppedReturn
  PROVE  IInv'
  <1>1. PcInv' /\ FlagsInv'
    BY DEF IInv, TypeInv, PcInv, FlagsInv, StoppedReturn
  <1>2. SnapsInv'
    BY Constants DEF IInv, TypeInv, PcInv, SnapsInv, StoppedReturn
  <1>3. BuffersInv'
    BY Constants DEF IInv, TypeInv, PcInv, FlagsInv, BuffersInv, Frames, StoppedReturn
  <1>4. ASSUME ~slipped' PROVE CalmInv'
    <2>1. ~slipped /\ CalmInv
      BY <1>4 DEF IInv, TypeInv, FlagsInv, StoppedReturn
    <2>2. OrderInv'
      BY <1>4, <2>1, Constants DEF IInv, TypeInv, PcInv, FlagsInv, CalmInv, OrderInv, LocksInv,
         LoopInv, ExitInv, CaptureInv, StoppedReturn
    <2>3. StreamInv' /\ AppInv'
      BY <1>4, <2>1, Constants DEF IInv, TypeInv, PcInv, FlagsInv, BuffersInv, CalmInv,
         OrderInv, LocksInv, LoopInv, ExitInv, CaptureInv, StreamInv, AppInv, FrameInv,
         StoppedReturn
    <2>4. FrameInv'
      BY <1>4, <2>1, Constants DEF IInv, TypeInv, PcInv, FlagsInv, BuffersInv, Frames, CalmInv,
         OrderInv, LocksInv, LoopInv, ExitInv, CaptureInv, StreamInv, AppInv, FrameInv,
         StoppedReturn
    <2> QED
      BY <2>2, <2>3, <2>4 DEF CalmInv
  <1> QED
    BY <1>1, <1>2, <1>3, <1>4 DEF IInv, TypeInv

LEMMA TakePictureStep ==
  ASSUME IInv, TakePicture
  PROVE  IInv'
  <1>1. PcInv' /\ FlagsInv'
    <2>1. PcInv'
      BY DEF IInv, TypeInv, PcInv, TakePicture, Slip
    <2>2. FlagsInv'
      BY DEF IInv, TypeInv, FlagsInv, TakePicture, Slip
    <2> QED
      BY <2>1, <2>2
  <1>2. SnapsInv'
    BY Constants DEF IInv, TypeInv, PcInv, SnapsInv, TakePicture, Slip
  <1>3. BuffersInv'
    BY Constants DEF IInv, TypeInv, PcInv, FlagsInv, BuffersInv, Frames, SnapsInv, TakePicture,
       Slip
  <1>4. ASSUME ~slipped' PROVE CalmInv'
    <2>1. ~slipped /\ CalmInv
      BY <1>4 DEF IInv, TypeInv, FlagsInv, TakePicture, Slip
    <2>2. OrderInv'
      BY <1>4, <2>1, Constants DEF IInv, TypeInv, PcInv, FlagsInv, CalmInv, OrderInv, LocksInv,
         LoopInv, ExitInv, CaptureInv, TakePicture, Slip
    <2>3. StreamInv' /\ AppInv'
      BY <1>4, <2>1, Constants DEF IInv, TypeInv, PcInv, FlagsInv, BuffersInv, CalmInv,
         OrderInv, LocksInv, LoopInv, ExitInv, CaptureInv, StreamInv, AppInv, FrameInv,
         TakePicture, Slip
    <2>4. FrameInv'
      BY <1>4, <2>1, Constants DEF IInv, TypeInv, PcInv, FlagsInv, BuffersInv, Frames, CalmInv,
         OrderInv, LocksInv, LoopInv, ExitInv, CaptureInv, StreamInv, AppInv, FrameInv,
         TakePicture, Slip
    <2> QED
      BY <2>2, <2>3, <2>4 DEF CalmInv
  <1> QED
    BY <1>1, <1>2, <1>3, <1>4 DEF IInv, TypeInv

LEMMA CancelPictureStep ==
  ASSUME IInv, CancelPicture
  PROVE  IInv'
  <1>1. PcInv' /\ FlagsInv'
    BY DEF IInv, TypeInv, PcInv, FlagsInv, CancelPicture
  <1>2. SnapsInv'
    BY Constants DEF IInv, TypeInv, PcInv, SnapsInv, CancelPicture
  <1>3. BuffersInv'
    BY Constants DEF IInv, TypeInv, PcInv, FlagsInv, BuffersInv, Frames, CancelPicture
  <1>4. ASSUME ~slipped' PROVE CalmInv'
    <2>1. ~slipped /\ CalmInv
      BY <1>4 DEF IInv, TypeInv, FlagsInv, CancelPicture
    <2>2. OrderInv'
      BY <1>4, <2>1, Constants DEF IInv, TypeInv, PcInv, FlagsInv, CalmInv, OrderInv, LocksInv,
         LoopInv, ExitInv, CaptureInv, CancelPicture
    <2>3. StreamInv' /\ AppInv'
      BY <1>4, <2>1, Constants DEF IInv, TypeInv, PcInv, FlagsInv, BuffersInv, CalmInv,
         OrderInv, LocksInv, LoopInv, ExitInv, CaptureInv, StreamInv, AppInv, FrameInv,
         CancelPicture
    <2>4. FrameInv'
      BY <1>4, <2>1, Constants DEF IInv, TypeInv, PcInv, FlagsInv, BuffersInv, Frames, CalmInv,
         OrderInv, LocksInv, LoopInv, ExitInv, CaptureInv, StreamInv, AppInv, FrameInv,
         CancelPicture
    <2> QED
      BY <2>2, <2>3, <2>4 DEF CalmInv
  <1> QED
    BY <1>1, <1>2, <1>3, <1>4 DEF IInv, TypeInv

LEMMA CancelledStep ==
  ASSUME IInv, Cancelled
  PROVE  IInv'
  <1>1. PcInv' /\ FlagsInv'
    BY DEF IInv, TypeInv, PcInv, FlagsInv, Cancelled
  <1>2. SnapsInv'
    BY Constants DEF IInv, TypeInv, PcInv, SnapsInv, Cancelled
  <1>3. BuffersInv'
    BY Constants DEF IInv, TypeInv, PcInv, FlagsInv, BuffersInv, Frames, Cancelled
  <1>4. ASSUME ~slipped' PROVE CalmInv'
    <2>1. ~slipped /\ CalmInv
      BY <1>4 DEF IInv, TypeInv, FlagsInv, Cancelled
    <2>2. OrderInv'
      BY <1>4, <2>1, Constants DEF IInv, TypeInv, PcInv, FlagsInv, CalmInv, OrderInv, LocksInv,
         LoopInv, ExitInv, CaptureInv, Cancelled
    <2>3. StreamInv' /\ AppInv'
      BY <1>4, <2>1, Constants DEF IInv, TypeInv, PcInv, FlagsInv, BuffersInv, CalmInv,
         OrderInv, LocksInv, LoopInv, ExitInv, CaptureInv, StreamInv, AppInv, FrameInv,
         Cancelled
    <2>4. FrameInv'
      BY <1>4, <2>1, Constants DEF IInv, TypeInv, PcInv, FlagsInv, BuffersInv, Frames, CalmInv,
         OrderInv, LocksInv, LoopInv, ExitInv, CaptureInv, StreamInv, AppInv, FrameInv,
         Cancelled
    <2> QED
      BY <2>2, <2>3, <2>4 DEF CalmInv
  <1> QED
    BY <1>1, <1>2, <1>3, <1>4 DEF IInv, TypeInv

LEMMA SetRecordingStep ==
  ASSUME IInv, SetRecording
  PROVE  IInv'
  <1>1. PcInv' /\ FlagsInv'
    BY DEF IInv, TypeInv, PcInv, FlagsInv, SetRecording
  <1>2. SnapsInv'
    BY Constants DEF IInv, TypeInv, PcInv, SnapsInv, SetRecording
  <1>3. BuffersInv'
    BY Constants DEF IInv, TypeInv, PcInv, FlagsInv, BuffersInv, Frames, SetRecording
  <1>4. ASSUME ~slipped' PROVE CalmInv'
    <2>1. ~slipped /\ CalmInv
      BY <1>4 DEF IInv, TypeInv, FlagsInv, SetRecording
    <2>2. OrderInv'
      BY <1>4, <2>1, Constants DEF IInv, TypeInv, PcInv, FlagsInv, CalmInv, OrderInv, LocksInv,
         LoopInv, ExitInv, CaptureInv, SetRecording
    <2>3. StreamInv' /\ AppInv'
      BY <1>4, <2>1, Constants DEF IInv, TypeInv, PcInv, FlagsInv, BuffersInv, CalmInv,
         OrderInv, LocksInv, LoopInv, ExitInv, CaptureInv, StreamInv, AppInv, FrameInv,
         SetRecording
    <2>4. FrameInv'
      BY <1>4, <2>1, Constants DEF IInv, TypeInv, PcInv, FlagsInv, BuffersInv, Frames, CalmInv,
         OrderInv, LocksInv, LoopInv, ExitInv, CaptureInv, StreamInv, AppInv, FrameInv,
         SetRecording
    <2> QED
      BY <2>2, <2>3, <2>4 DEF CalmInv
  <1> QED
    BY <1>1, <1>2, <1>3, <1>4 DEF IInv, TypeInv

LEMMA ReleaseStep ==
  ASSUME IInv, Release
  PROVE  IInv'
  <1>1. PcInv' /\ FlagsInv'
    <2>1. PcInv'
      BY DEF IInv, TypeInv, PcInv, Release, Settling, Slip
    <2>2. FlagsInv'
      BY DEF IInv, TypeInv, FlagsInv, Release, Settling, Slip
    <2> QED
      BY <2>1, <2>2
  <1>2. SnapsInv'
    BY Constants DEF IInv, TypeInv, PcInv, SnapsInv, Release, Settling, Slip
  <1>3. BuffersInv'
    BY Constants DEF IInv, TypeInv, PcInv, FlagsInv, BuffersInv, Frames, Release, Settling, Slip
  <1>4. ASSUME ~slipped' PROVE CalmInv'
    <2>1. ~slipped /\ CalmInv
      BY <1>4 DEF IInv, TypeInv, FlagsInv, Release, Settling, Slip
    <2>2. OrderInv'
      BY <1>4, <2>1, Constants DEF IInv, TypeInv, PcInv, FlagsInv, CalmInv, OrderInv, LocksInv,
         LoopInv, ExitInv, CaptureInv, Release, Settling, Slip
    <2>3. StreamInv' /\ AppInv'
      BY <1>4, <2>1, Constants DEF IInv, TypeInv, PcInv, FlagsInv, BuffersInv, CalmInv,
         OrderInv, LocksInv, LoopInv, ExitInv, CaptureInv, StreamInv, AppInv, FrameInv, Release,
         Settling, Slip
    <2>4. FrameInv'
      BY <1>4, <2>1, Constants DEF IInv, TypeInv, PcInv, FlagsInv, BuffersInv, Frames, CalmInv,
         OrderInv, LocksInv, LoopInv, ExitInv, CaptureInv, StreamInv, AppInv, FrameInv, Release,
         Settling, Slip
    <2> QED
      BY <2>2, <2>3, <2>4 DEF CalmInv
  <1> QED
    BY <1>1, <1>2, <1>3, <1>4 DEF IInv, TypeInv

LEMMA SignalExitStep ==
  ASSUME IInv, SignalExit
  PROVE  IInv'
  <1>1. PcInv' /\ FlagsInv'
    BY DEF IInv, TypeInv, PcInv, FlagsInv, SignalExit, WakePreview
  <1>2. SnapsInv'
    BY Constants DEF IInv, TypeInv, PcInv, SnapsInv, SignalExit, WakePreview
  <1>3. BuffersInv'
    BY Constants DEF IInv, TypeInv, PcInv, FlagsInv, BuffersInv, Frames, SignalExit, WakePreview
  <1>4. ASSUME ~slipped' PROVE CalmInv'
    <2>1. ~slipped /\ CalmInv
      BY <1>4 DEF IInv, TypeInv, FlagsInv, SignalExit, WakePreview
    <2>2. OrderInv'
      BY <1>4, <2>1, Constants DEF IInv, TypeInv, PcInv, FlagsInv, CalmInv, OrderInv, LocksInv,
         LoopInv, ExitInv, CaptureInv, SignalExit, WakePreview
    <2>3. StreamInv' /\ AppInv'
      BY <1>4, <2>1, Constants DEF IInv, TypeInv, PcInv, FlagsInv, BuffersInv, CalmInv,
         OrderInv, LocksInv, LoopInv, ExitInv, CaptureInv, StreamInv, AppInv, FrameInv,
         SignalExit, WakePreview
    <2>4. FrameInv'
      BY <1>4, <2>1, Constants DEF IInv, TypeInv, PcInv, FlagsInv, BuffersInv, Frames, CalmInv,
         OrderInv, LocksInv, LoopInv, ExitInv, CaptureInv, StreamInv, AppInv, FrameInv,
         SignalExit, WakePreview
    <2> QED
      BY <2>2, <2>3, <2>4 DEF CalmInv
  <1> QED
    BY <1>1, <1>2, <1>3, <1>4 DEF IInv, TypeInv

LEMMA JoinedStep ==
  ASSUME IInv, Joined
  PROVE  IInv'
  <1>1. PcInv' /\ FlagsInv'
    <2>1. PcInv'
      BY DEF IInv, TypeInv, PcInv, Joined
    <2>2. FlagsInv'
      BY DEF IInv, TypeInv, FlagsInv, Joined
    <2> QED
      BY <2>1, <2>2
  <1>2. SnapsInv'
    BY Constants DEF IInv, TypeInv, PcInv, SnapsInv, Joined
  <1>3. BuffersInv'
    BY Constants DEF IInv, TypeInv, PcInv, FlagsInv, BuffersInv, Frames, Joined
  <1>4. ASSUME ~slipped' PROVE CalmInv'
    <2>1. ~slipped /\ CalmInv
      BY <1>4 DEF IInv, TypeInv, FlagsInv, Joined
    <2>2. OrderInv'
      BY <1>4, <2>1, Constants DEF IInv, TypeInv, PcInv, FlagsInv, CalmInv, OrderInv, LocksInv,
         LoopInv, ExitInv, CaptureInv, Joined
    <2>3. StreamInv' /\ AppInv'
      BY <1>4, <2>1, Constants DEF IInv, TypeInv, PcInv, FlagsInv, BuffersInv, CalmInv,
         OrderInv, LocksInv, LoopInv, ExitInv, CaptureInv, StreamInv, AppInv, FrameInv, Joined
    <2>4. FrameInv'
      BY <1>4, <2>1, Constants DEF IInv, TypeInv, PcInv, FlagsInv, BuffersInv, Frames, CalmInv,
         OrderInv, LocksInv, LoopInv, ExitInv, CaptureInv, StreamInv, AppInv, FrameInv, Joined
    <2> QED
      BY <2>2, <2>3, <2>4 DEF CalmInv
  <1> QED
    BY <1>1, <1>2, <1>3, <1>4 DEF IInv, TypeInv

LEMMA ReturnFrameStep ==
  ASSUME IInv, NEW f \in appHeld, ReturnFrame(f)
  PROVE  IInv'
  <1>1. PcInv' /\ FlagsInv'
    BY DEF IInv, TypeInv, PcInv, FlagsInv, ReturnFrame, Requeued
  <1>2. SnapsInv'
    BY Constants DEF IInv, TypeInv, PcInv, SnapsInv, ReturnFrame, Requeued
  <1>3. BuffersInv'
    BY Constants DEF IInv, TypeInv, PcInv, FlagsInv, BuffersInv, Frames, ReturnFrame, Requeued
  <1>4. ASSUME ~slipped' PROVE CalmInv'
    <2>1. ~slipped /\ CalmInv
      BY <1>4 DEF IInv, TypeInv, FlagsInv, ReturnFrame, Requeued
    <2>2. OrderInv'
      BY <1>4, <2>1, Constants DEF IInv, TypeInv, PcInv, FlagsInv, CalmInv, OrderInv, LocksInv,
         LoopInv, ExitInv, CaptureInv, ReturnFrame, Requeued
    <2>3. StreamInv' /\ AppInv'
      BY <1>4, <2>1, Constants DEF IInv, TypeInv, PcInv, FlagsInv, BuffersInv, CalmInv,
         OrderInv, LocksInv, LoopInv, ExitInv, CaptureInv, StreamInv, AppInv, FrameInv,
         ReturnFrame, Requeued
    <2>4. FrameInv'
      BY <1>4, <2>1, Constants DEF IInv, TypeInv, PcInv, FlagsInv, BuffersInv, Frames, CalmInv,
         OrderInv, LocksInv, LoopInv, ExitInv, CaptureInv, StreamInv, AppInv, FrameInv,
         ReturnFrame, Requeued
    <2> QED
      BY <2>2, <2>3, <2>4 DEF CalmInv
  <1> QED
    BY <1>1, <1>2, <1>3, <1>4 DEF IInv, TypeInv

LEMMA ReturnMarkStep ==
  ASSUME IInv, ReturnMark
  PROVE  IInv'
  <1>1. PcInv' /\ FlagsInv'
    BY DEF IInv, TypeInv, PcInv, FlagsInv, ReturnMark
  <1>2. SnapsInv'
    BY Constants DEF IInv, TypeInv, PcInv, SnapsInv, ReturnMark
  <1>3. BuffersInv'
    BY Constants DEF IInv, TypeInv, PcInv, FlagsInv, BuffersInv, Frames, ReturnMark
  <1>4. ASSUME ~slipped' PROVE CalmInv'
    <2>1. ~slipped /\ CalmInv
      BY <1>4 DEF IInv, TypeInv, FlagsInv, ReturnMark
    <2>2. OrderInv'
      BY <1>4, <2>1, Constants DEF IInv, TypeInv, PcInv, FlagsInv, CalmInv, OrderInv, LocksInv,
         LoopInv, ExitInv, CaptureInv, ReturnMark
    <2>3. StreamInv' /\ AppInv'
      BY <1>4, <2>1, Constants DEF IInv, TypeInv, PcInv, FlagsInv, BuffersInv, CalmInv,
         OrderInv, LocksInv, LoopInv, ExitInv, CaptureInv, StreamInv, AppInv, FrameInv,
         ReturnMark
    <2>4. FrameInv'
      BY <1>4, <2>1, Constants DEF IInv, TypeInv, PcInv, FlagsInv, BuffersInv, Frames, CalmInv,
         OrderInv, LocksInv, LoopInv, ExitInv, CaptureInv, StreamInv, AppInv, FrameInv,
         ReturnMark
    <2> QED
      BY <2>2, <2>3, <2>4 DEF CalmInv
  <1> QED
    BY <1>1, <1>2, <1>3, <1>4 DEF IInv, TypeInv

-----------------------------------------------------------------------------
(* The invariant holds.                                                    *)

LEMMA InitInv == Init => IInv
  <1> SUFFICES ASSUME Init PROVE IInv
    OBVIOUS
  <1>1. TypeInv
    <2>1. PcInv
      BY DEF Init, PcInv
    <2>2. FlagsInv
      BY DEF Init, FlagsInv
    <2>3. SnapsInv
      BY Constants DEF Init, SnapsInv
    <2>4. BuffersInv
      BY Constants DEF Init, BuffersInv
    <2> QED
      BY <2>1, <2>2, <2>3, <2>4 DEF TypeInv
  <1>2. OrderInv
    BY Constants DEF Init, OrderInv, LocksInv, LoopInv, ExitInv, CaptureInv
  <1>3. StreamInv /\ AppInv /\ FrameInv
    BY DEF Init, StreamInv, AppInv, FrameInv
  <1> QED
    BY <1>1, <1>2, <1>3 DEF IInv, CalmInv

\* The client starts a stream and never stops one, ...
LEMMA ClientStreamStep ==
  ASSUME IInv, Stream("client")
  PROVE  IInv'
  <1>1. pc["client"] \notin {"stop", "stopped"}
    BY DEF IInv, TypeInv, PcInv
  <1>2. StartAlready("client") \/ StartMap("client") \/ StartFails("client") \/ Started("client")
    BY <1>1 DEF Stream, StopUnmap, StopNothing, StopFails, Stopped
  <1> QED
    BY <1>2, StartAlreadyClientStep, StartMapClientStep, StartFailsClientStep, StartedClientStep

\* ... the preview thread stops one and never starts it.
LEMMA PreviewStreamStep ==
  ASSUME IInv, Stream("preview")
  PROVE  IInv'
  <1>1. pc["preview"] \notin {"start", "started"}
    BY DEF IInv, TypeInv, PcInv
  <1>2. StopUnmap("preview") \/ StopNothing("preview") \/ StopFails("preview") \/ Stopped("preview")
    BY <1>1 DEF Stream, StartAlready, StartMap, StartFails, Started
  <1> QED
    BY <1>2, StopUnmapPreviewStep, StopNothingPreviewStep, StopFailsPreviewStep,
       StoppedPreviewStep

LEMMA PictureStreamStep ==
  ASSUME IInv, Stream("picture")
  PROVE  IInv'
  BY StartAlreadyPictureStep, StartMapPictureStep, StartFailsPictureStep, StartedPictureStep,
     StopUnmapPictureStep, StopNothingPictureStep, StopFailsPictureStep, StoppedPictureStep
     DEF Stream

LEMMA UnchangedStep ==
  ASSUME IInv, UNCHANGED vars
  PROVE  IInv'
  <1>1. TypeInv'
    BY DEF IInv, vars, TypeInv, PcInv, FlagsInv, SnapsInv, BuffersInv
  <1>2. ASSUME CalmInv PROVE CalmInv'
    BY <1>2 DEF vars, CalmInv, OrderInv, LocksInv, LoopInv, ExitInv,
       CaptureInv, StreamInv, AppInv, FrameInv
  <1> QED
    BY <1>1, <1>2 DEF IInv, vars

LEMMA NextInv == IInv /\ [Next]_vars => IInv'
  <1> SUFFICES ASSUME IInv, [Next]_vars PROVE IInv'
    OBVIOUS
  <1>1. CASE InCall
    BY <1>1, StartLockStep, BegunStep, RefusedStep, StoppedReturnStep, TakePictureStep,
       CancelledStep, SignalExitStep, JoinedStep, ClientStreamStep DEF InCall
  <1>2. CASE Call
    BY <1>2, StartPreviewStep, StopPreviewStep, CancelPictureStep, SetRecordingStep,
       ReleaseStep DEF Call
  <1>3. CASE PreviewStep
    BY <1>3, TestRunningStep, CheckExitStep, GrabPreviewStep, RecordStep, OverlayPostFrameStep,
       BuffersReleasedStep, ForceReleaseStep, SignalStoppedStep, PreviewStreamStep
       DEF PreviewStep
  <1>4. CASE PictureStep
    BY <1>4, SnapStep, SnapReleaseStep, GrabPictureStep, ShootStep, ShootRawStep, LeaveStep,
       EndedStep, PictureStreamStep DEF PictureStep
  <1>5. CASE Return
    BY <1>5, ReturnMarkStep, ReturnFrameStep DEF Return
  <1>6. CASE UNCHANGED vars
    BY <1>6, UnchangedStep
  <1> QED
    BY <1>1, <1>2, <1>3, <1>4, <1>5, <1>6 DEF Next

LEMMA InvHolds == Spec => []IInv
  BY InitInv, NextInv, PTL DEF Spec

\* Every variable keeps its type: each thread of CameraHardware.cpp stays in its
\* own part of the code, whatever slips.
THEOREM TypeCorrect == Spec => []TypeOK
  <1>1. IInv => TypeOK
    BY DEF IInv, TypeInv, PcInv, FlagsInv, SnapsInv, BuffersInv, TypeOK, Frames
  <1> QED
    BY <1>1, InvHolds, PTL

\* Without a slip, a frame that is worked on lies in memory that is mapped, of the
\* stream it was taken from (waitForBuffersRelease before StopPreview).
THEOREM FramesAreMapped == Spec => []FramesMapped
  <1>1. IInv => FramesMapped
    BY DEF IInv, CalmInv, FrameInv, FramesMapped
  <1> QED
    BY <1>1, InvHolds, PTL

\* Without a slip, the driver is never given a buffer that somebody still reads,
\* and no buffer has two readers (QBUF and DQBUF in V4L2Camera.cpp).
THEOREM NothingOverwritten == Spec => []NotOverwritten
  <1>1. ASSUME IInv, ~slipped PROVE NotOverwritten
    <2>1. ASSUME NEW r \in Readers
          PROVE  \/ \E f \in appHeld : r = <<"app", f>>
                 \/ \E t \in Grabbers : r = <<t, held[t]>> /\ held[t] # None /\ ~At(t, "post")
      BY DEF Readers
    <2>2. \A r \in Readers : r[2].buffer \notin queued
      BY <1>1, <2>1 DEF IInv, CalmInv, FrameInv
    <2>3. \A f, g \in appHeld : f.buffer = g.buffer /\ f.stream = g.stream => f = g
      BY <1>1 DEF IInv, TypeInv, BuffersInv, Frames
    <2>4. ~(held["preview"] # None /\ held["picture"] # None)
      BY <1>1 DEF IInv, TypeInv, BuffersInv, CalmInv, OrderInv, CaptureInv
    <2>5. ASSUME NEW r \in Readers, NEW q \in Readers, r[2].buffer = q[2].buffer,
                 r[2].stream = q[2].stream
          PROVE  r = q
      <3>1. CASE \E f, g \in appHeld : r = <<"app", f>> /\ q = <<"app", g>>
        BY <2>3, <2>5, <3>1
      <3>2. CASE \E t, u \in Grabbers : /\ r = <<t, held[t]>> /\ held[t] # None
                                        /\ q = <<u, held[u]>> /\ held[u] # None
        BY <2>4, <3>2
      <3>3. \A f \in appHeld, t \in Grabbers :
               held[t] # None /\ ~At(t, "post") => f.buffer # held[t].buffer
        BY <1>1 DEF IInv, CalmInv, FrameInv
      <3> QED
        BY <2>1, <2>5, <3>1, <3>2, <3>3
    <2> QED
      BY <2>2, <2>5 DEF NotOverwritten
  <1>2. IInv => NotOverwritten
    BY <1>1 DEF NotOverwritten
  <1> QED
    BY <1>2, InvHolds, PTL

\* Without a slip, the camera is off when the preview has stopped and no picture
\* is taken, so that startPreview is not refused with ALREADY_EXISTS.
THEOREM StopMeansOff == Spec => []StoppedMeansOff
  <1>1. IInv => StoppedMeansOff
    BY DEF IInv, CalmInv, StreamInv, StoppedMeansOff
  <1> QED
    BY <1>1, InvHolds, PTL

\* Without a slip, mBuffersOut has the mark of every buffer the application holds.
THEOREM HeldMarked == Spec => []HeldIsMarked
  <1>1. IInv => HeldIsMarked
    BY DEF IInv, CalmInv, FrameInv, HeldIsMarked
  <1> QED
    BY <1>1, InvHolds, PTL

=============================================================================
