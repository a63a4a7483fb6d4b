-------------------------- MODULE OmxDecoderProofs --------------------------
(***************************************************************************)
(* Proofs about OmxDecoder, for any buffers, commands, habits of the       *)
(* client, bounds and faults.  Three inductive invariants, each on top of  *)
(* the one before: ThreadInv, the bookkeeping of the component thread and  *)
(* of what has failed (FaultInv); OwnerInv, who owns a buffer of a port no *)
(* pop of which has failed; and EmptyInv, that a Loaded component has      *)
(* none, which needs OrderInv, the order in which changes of state were    *)
(* asked, and StuckInv, that a failed pop keeps the component from Idle.   *)
(***************************************************************************)
EXTENDS OmxDecoder, SequenceTheorems, FiniteSetTheorems, TLAPS

-----------------------------------------------------------------------------
(* Commands.                                                               *)

\* The labels at which a handler executes cmd.
Handlers == {"dispatch", "waitReady", "waitFree", "held", "lock", "return", "returned", "enable"}

\* The labels of the loop and of the buffer processing, after a command's.
Processing == {"buffers", "popMask", "input", "scan", "getBuffer", "decode", "frames", "getFrame",
               "dispatchFrame", "popFrame", "lastFrame", "inputDone", "popInput"}

CommandInv ==
  /\ cmdQ \in Seq(Requests \cup {ExitLoop})
  /\ calling \in Requests \cup {None}
  /\ cmd \in Requests \cup {None}
  /\ cmd # None <=> pc \in Handlers
  /\ pc = "waitReady" => cmd.type = "StateSet"
  /\ pc = "enable" => cmd.type = "PortEnable"
  /\ pc = "waitFree" => cmd.type \in {"StateSet", "PortDisable"}
  /\ pc \in {"held", "lock", "return", "returned"} => cmd.type \in {"StateSet", "Flush", "PortDisable"}
  /\ after \in {"scan", "decode", "getFrame", "frames"}

LEMMA RequestFacts ==
  ASSUME NEW c \in Requests
  PROVE  /\ c # None /\ c # ExitLoop
         /\ c.type \in {"StateSet", "Flush", "PortDisable", "PortEnable"}
         /\ c.type = "StateSet" => c.arg \in States
         /\ c.type # "StateSet" => c.arg \in PortArgs
  BY RequestsAssumption, NoneAssumption DEF Commands, ExitLoop

\* What the steps of the buffer processing do not touch.
LEMMA BufferFrame ==
  ASSUME BufferStep, CommandInv
  PROVE  /\ UNCHANGED <<cmdQ, calling, cmd, todo, count, i, statetrans, signals>>
         /\ UNCHANGED <<submitting, sent, deinit>>
         /\ pc \in Processing /\ pc' \in Processing \cup {"top"}
         /\ after' \in {"scan", "decode", "getFrame", "frames"}
  <1> USE DEF CommandInv, Processing, Calm, NoCall, handler, Goto, Leave, decoding, FramesEnd
  <1>1. CASE SetMask \/ PopMask \/ NoMask \/ StartDecode \/ NoInput
    BY <1>1 DEF SetMask, PopMask, NoMask, StartDecode, NoInput
  <1>2. CASE ScanMore \/ ScanDone \/ TakeOutput \/ DoWithout
    BY <1>2 DEF ScanMore, ScanDone, TakeOutput, DoWithout
  <1>3. CASE Overflow \/ DecodeData \/ DecodeInfo \/ DecodeErrorStream \/ CodecFails
    BY <1>3 DEF Overflow, DecodeData, DecodeInfo, DecodeErrorStream, CodecFails
  <1>4. CASE NextFrame \/ DrainFrames \/ GetFrame \/ NoMoreFrames
    BY <1>4 DEF NextFrame, DrainFrames, GetFrame, NoMoreFrames
  <1>5. CASE DispatchFrame \/ PopFrame \/ LastFrame \/ InputDone \/ PopInput
    BY <1>5 DEF DispatchFrame, PopFrame, LastFrame, InputDone, PopInput
  <1> QED
    BY <1>1, <1>2, <1>3, <1>4, <1>5 DEF BufferStep

LEMMA InitCommand == Init => CommandInv
  BY NoneAssumption DEF Init, CommandInv, Handlers

\* The steps of the client that are not a command's leave commands alone.
LEMMA ClientFrame ==
  ASSUME \/ \E p \in Ports : \E b \in Buffers[p] : HandleBuffer(p, b)
         \/ QueueBuffer \/ SetRealTime \/ Destroy
  PROVE  UNCHANGED <<cmdQ, calling, cmd, pc, after, state, statetrans, outputPortFlushPending>>
  <1> USE DEF handler, decoding, client, flags, ports
  <1>1. ASSUME NEW p \in Ports, NEW b \in Buffers[p], HandleBuffer(p, b)
        PROVE  UNCHANGED <<cmdQ, calling, cmd, pc, after, state, statetrans, outputPortFlushPending>>
    BY <1>1 DEF HandleBuffer, Submit, AllocateBuffer, FreeBuffer
  <1>2. CASE QueueBuffer \/ SetRealTime \/ Destroy
    BY <1>2 DEF QueueBuffer, SetRealTime, Destroy
  <1> QED
    BY <1>1, <1>2

\* The steps that abort the loop, and the calls that fail, in the groups the proofs take them.
Aborts    == ExitOnError \/ WaitFails
PostFault == PostFails \/ DeinitPostFails
PopFault  == PopMaskFails \/ PopFrameFails \/ PopInputFails

LEMMA FaultIs ==
  Fault => PushFails \/ PostFault \/ Aborts \/ ReceiveFails \/ ClearFails \/ PopFault
  BY DEF Fault, Aborts, PostFault, PopFault

\* What they do to the component: its state and label, and its variables.
LEMMA AbortsFrame ==
  ASSUME Aborts
  PROVE  /\ state' = "Invalid" /\ pc \in {"top", "wait"} /\ pc' = "exited"
         /\ UNCHANGED <<statetrans, run, held, portReconfigPending, outputPortFlushPending,
                        dispatchOutputImmediately, bEnabled, bPopulated, buffers, bufferqueue, cmdQ, signals>>
         /\ UNCHANGED <<cmd, todo, count, i, inbuf, eos, units, frames, slot, after, caller, codecHasFrame>>
         /\ UNCHANGED <<own, submitting, calling, sent, deinit, broken, err, unposted, unpopped>>
  BY DEF Aborts, ExitOnError, WaitFails, Goto, NoCall, flags, ports, handler, decoding, faulted

LEMMA PushFrame ==
  ASSUME PushFails
  PROVE  /\ submitting # None /\ submitting' = None
         /\ submitting.buffer \in buffers[submitting.port]
         /\ own' = [own EXCEPT ![submitting.port] = @ \cup {submitting.buffer}]
         /\ broken' = broken \cup {submitting.port}
         /\ UNCHANGED <<state, statetrans, run, held, portReconfigPending, outputPortFlushPending,
                        dispatchOutputImmediately, bEnabled, bPopulated, buffers, bufferqueue, cmdQ, signals>>
         /\ UNCHANGED <<pc, cmd, todo, count, i, inbuf, eos, units, frames, slot, after, caller, codecHasFrame>>
         /\ UNCHANGED <<calling, sent, deinit, err, unposted, unpopped>>
  BY DEF PushFails, flags, ports, handler, decoding

LEMMA PostFrame ==
  ASSUME PostFault
  PROVE  /\ \/ /\ calling # None /\ calling' = None /\ unposted' = unposted \cup {calling}
               /\ UNCHANGED <<deinit, run>>
            \/ /\ Deinits /\ submitting = None /\ deinit' = "joining" /\ run' = FALSE
               /\ UNCHANGED calling /\ unposted' = unposted \cup {ExitLoop}
         /\ broken' \in {broken, broken \cup {"cmd"}}
         /\ UNCHANGED <<state, statetrans, held, portReconfigPending, outputPortFlushPending,
                        dispatchOutputImmediately, bEnabled, bPopulated, buffers, bufferqueue, cmdQ, signals>>
         /\ UNCHANGED <<pc, cmd, todo, count, i, inbuf, eos, units, frames, slot, after, caller, codecHasFrame>>
         /\ UNCHANGED <<own, submitting, sent, err, unpopped>>
  BY DEF PostFault, PostFails, DeinitPostFails, PostFailed, flags, ports, handler, decoding

LEMMA ReceiveFrame ==
  ASSUME ReceiveFails
  PROVE  /\ pc = "receive" /\ pc' = "buffers" /\ run' = FALSE /\ err' = TRUE
         /\ broken' = broken \cup {"cmd"}
         /\ UNCHANGED <<state, statetrans, held, portReconfigPending, outputPortFlushPending,
                        dispatchOutputImmediately, bEnabled, bPopulated, buffers, bufferqueue, cmdQ, signals>>
         /\ UNCHANGED <<cmd, todo, count, i, inbuf, eos, units, frames, slot, after, caller, codecHasFrame>>
         /\ UNCHANGED <<own, submitting, calling, sent, deinit, unposted, unpopped>>
  BY DEF ReceiveFails, Goto, flags, ports, handler, decoding, client

LEMMA ClearFrame ==
  ASSUME ClearFails
  PROVE  /\ pc = "return" /\ i = count /\ todo' = Tail(todo) /\ count' = 0 /\ i' = 0
         /\ IF Tail(todo) = <<>> THEN pc' = "returned" ELSE pc' = "held"
         /\ bufferqueue' = [bufferqueue EXCEPT ![Head(todo)] = <<>>]
         /\ Head(todo) \notin broken /\ broken' = broken \cup {Head(todo)}
         /\ UNCHANGED <<state, statetrans, run, held, portReconfigPending, outputPortFlushPending,
                        dispatchOutputImmediately, bEnabled, bPopulated, buffers, cmdQ, signals>>
         /\ UNCHANGED <<cmd, inbuf, eos, units, frames, slot, after, caller, codecHasFrame>>
         /\ UNCHANGED <<own, submitting, calling, sent, deinit, err, unposted, unpopped>>
  BY DEF ClearFails, Goto, flags, decoding, client

\* A pop that fails moves on as the pop does, and leaves the queue as it is.
LEMMA PopFrameIs ==
  ASSUME PopFault
  PROVE  /\ \E p \in Ports : /\ Len(bufferqueue[p]) = 1 /\ broken' = broken \cup {p}
                             /\ unpopped' = unpopped \cup {p}
                             /\ \/ pc = "popMask" /\ p = "pp"
                                \/ pc = "popFrame" /\ p = "out"
                                \/ pc = "popInput" /\ p = "in"
         /\ \/ pc = "popMask" /\ pc' = "input" /\ UNCHANGED <<inbuf, eos, units, slot, after, caller>>
            \/ pc = "popFrame" /\ pc' = after /\ slot' = None /\ UNCHANGED <<inbuf, eos, units, after, caller>>
            \/ /\ pc = "popInput" /\ pc' = "top" /\ inbuf' = None /\ slot' = None /\ eos' = FALSE
               /\ units' = 0 /\ after' = "scan" /\ caller' = "decode"
         /\ UNCHANGED <<state, statetrans, run, held, portReconfigPending, outputPortFlushPending,
                        dispatchOutputImmediately, bEnabled, bPopulated, buffers, bufferqueue, cmdQ, signals>>
         /\ UNCHANGED <<cmd, todo, count, i, frames, codecHasFrame>>
         /\ UNCHANGED <<own, submitting, calling, sent, deinit, err, unposted>>
  BY DEF PopFault, PopMaskFails, PopFrameFails, PopInputFails, PopFails, Leave, Goto, Ports,
         flags, ports, handler, decoding, client

\* What a SendCommand does, up to the push.
SendCommand ==
  \/ \E s \in States : CallStateSet(s)
  \/ \E a \in PortArgs : CallFlush(a) \/ CallPortDisable(a) \/ CallPortEnable(a)

LEMMA CallFrame ==
  ASSUME SendCommand
  PROVE  /\ calling = None /\ calling' \in Requests
         /\ UNCHANGED <<cmdQ, cmd, pc, after, state>>
  BY DEF SendCommand, CallStateSet, CallFlush, CallPortDisable, CallPortEnable, Call, Ready, handler, decoding

LEMMA CommandStepInv ==
  ASSUME CommandInv, CommandStep
  PROVE  CommandInv'
  <1>1. UNCHANGED <<cmdQ, calling, after>>
    BY DEF CommandStep, SameState, BeginTransition, CompleteStateSet, IllegalStateSet, FinishIdle,
           FailStateSet, FinishLoaded, BeginReturn, FinishFlush, ClearFlush, AwaitDealloc, PortDealloc,
           BeginEnable, PortEnabled, ReturnHeld, LockPort, ReturnNext, ClearQueue, Quiet, NoCall, decoding
  <1>2. ASSUME cmd' = None, pc' \notin Handlers PROVE CommandInv'
    BY <1>1, <1>2 DEF CommandInv, Handlers
  <1>3. CASE SameState \/ CompleteStateSet \/ IllegalStateSet \/ FinishIdle \/ FailStateSet \/ FinishLoaded
    BY <1>2, <1>3 DEF SameState, CompleteStateSet, IllegalStateSet, FinishIdle, FailStateSet, FinishLoaded,
                      Answer, Goto, Handlers
  <1>4. CASE FinishFlush \/ ClearFlush
    BY <1>2, <1>4 DEF FinishFlush, ClearFlush, Goto, Handlers, CommandInv, handler
  <1>5. CASE BeginTransition \/ BeginReturn \/ BeginEnable
    BY <1>1, <1>5 DEF BeginTransition, BeginReturn, BeginEnable, Handling, Goto, Handlers, CommandInv
  <1>6. CASE AwaitDealloc
    BY <1>1, <1>6 DEF AwaitDealloc, Goto, Handlers, CommandInv
  <1>7. CASE PortDealloc \/ PortEnabled
    BY <1>1, <1>2, <1>7 DEF PortDealloc, PortEnabled, Answer, Goto, Handlers, CommandInv
  <1>8. CASE ReturnHeld \/ LockPort \/ ReturnNext \/ ClearQueue
    BY <1>1, <1>8 DEF ReturnHeld, LockPort, ReturnNext, ClearQueue, Goto, Handlers, CommandInv, handler
  <1> QED
    BY <1>3, <1>4, <1>5, <1>6, <1>7, <1>8 DEF CommandStep

LEMMA NextCommand ==
  ASSUME CommandInv, [Next]_vars
  PROVE  CommandInv'
  <1>1. ASSUME UNCHANGED <<cmdQ, calling, cmd, pc, after>> PROVE CommandInv'
    BY <1>1 DEF CommandInv
  <1>2. CASE \/ \E p \in Ports : \E b \in Buffers[p] : HandleBuffer(p, b)
             \/ QueueBuffer \/ SetRealTime \/ Destroy
    BY <1>1, <1>2, ClientFrame
  <1>3. CASE SendCommand
    BY <1>3, CallFrame DEF CommandInv
  <1>4. CASE PostCommand
    BY <1>4 DEF PostCommand, CommandInv, handler, decoding
  <1>5. CASE Deinit
    BY <1>5 DEF Deinit, CommandInv, handler, decoding
  <1>11. CASE ReceiveFails \/ Aborts \/ PushFails
    BY <1>11, AbortsFrame, PushFrame, ReceiveFrame DEF CommandInv, Handlers
  <1>12. CASE PostFault
    BY <1>12, PostFrame DEF CommandInv
  <1>13. CASE ClearFails
    BY <1>13, ClearFrame DEF CommandInv, Handlers
  <1>14. CASE PopFault
    BY <1>14, PopFrameIs DEF CommandInv, Handlers
  <1>6. CASE CheckRun \/ Wait \/ NoMoreCommands
    BY <1>6 DEF CheckRun, Wait, NoMoreCommands, Goto, NoCall, CommandInv, Handlers, handler, decoding
  <1>7. CASE Receive
    <2>1. /\ Head(cmdQ) \in Requests \cup {ExitLoop} /\ cmdQ' \in Seq(Requests \cup {ExitLoop})
      BY <1>7 DEF Receive, CommandInv
    <2> QED
      BY <1>7, <2>1, RequestFacts DEF Receive, Goto, NoCall, CommandInv, Handlers, decoding
  <1>8. CASE CommandStep
    BY <1>8, CommandStepInv
  <1>9. CASE BufferStep
    BY <1>9, BufferFrame DEF CommandInv, Handlers, Processing
  <1>10. CASE UNCHANGED vars
    BY <1>1, <1>10 DEF vars, handler, decoding, client
  <1> QED
    BY <1>2, <1>3, <1>4, <1>5, <1>6, <1>7, <1>8, <1>9, <1>10, <1>11, <1>12, <1>13,
       <1>14, FaultIs
    DEF Next, Client, ThreadStep, SendCommand, Aborts

-----------------------------------------------------------------------------
(* Pending commands.                                                       *)

LEMMA PendingIs ==
  ASSUME NEW c
  PROVE  c \in Pending <=> \/ \E k \in 1..Len(cmdQ) : cmdQ[k] = c
                           \/ c # None /\ (c = cmd \/ c = calling)
  BY DEF Pending

LEMMA PendingFacts ==
  ASSUME CommandInv, NEW c \in Pending
  PROVE  c \in Requests \cup {ExitLoop} /\ c # None
  <1>1. c \in Requests \cup {ExitLoop}
    BY PendingIs DEF CommandInv
  <1> QED
    BY <1>1, RequestFacts, NoneAssumption

\* A step forgets a command only when it answers it, leaves the loop, or fails to post it.
LEMMA PendingStep ==
  ASSUME CommandInv, [Next]_vars, NEW c \in Pending, c # ExitLoop, c # cmd \/ cmd' = cmd
  PROVE  c \in Pending' \cup unposted'
  <1>0. c \in Pending' <=> \/ \E k \in 1..Len(cmdQ') : cmdQ'[k] = c
                           \/ c # None /\ (c = cmd' \/ c = calling')
    BY DEF Pending
  <1>1. ASSUME cmdQ' = cmdQ, calling \in {None, calling'}, cmd' = cmd \/ c # cmd PROVE c \in Pending'
    BY <1>0, <1>1, PendingIs
  <1>2. CASE \/ \E p \in Ports : \E b \in Buffers[p] : HandleBuffer(p, b)
             \/ QueueBuffer \/ SetRealTime \/ Destroy
    BY <1>1, <1>2, ClientFrame
  <1>3. CASE SendCommand
    BY <1>1, <1>3, CallFrame
  <1>4. CASE PostCommand
    <2>1. /\ cmdQ' = Append(cmdQ, calling) /\ cmd' = cmd /\ calling # None
          /\ Len(cmdQ') = Len(cmdQ) + 1 /\ cmdQ'[Len(cmdQ) + 1] = calling
          /\ \A k \in 1..Len(cmdQ) : cmdQ'[k] = cmdQ[k]
          /\ Len(cmdQ) \in Nat
      BY <1>4 DEF PostCommand, CommandInv, handler
    <2> QED
      BY <1>0, <2>1, PendingIs
  <1>5. CASE Deinit
    <2>1. /\ cmdQ' = Append(cmdQ, ExitLoop) /\ cmd' = cmd /\ calling' = calling
          /\ Len(cmdQ') = Len(cmdQ) + 1
          /\ \A k \in 1..Len(cmdQ) : cmdQ'[k] = cmdQ[k]
          /\ Len(cmdQ) \in Nat
      BY <1>5, ExitLoop \in Requests \cup {ExitLoop} DEF Deinit, CommandInv, handler
    <2> QED
      BY <1>0, <2>1, PendingIs
  <1>11. CASE PostFails
    <2>1. calling' = None /\ unposted' = unposted \cup {calling} /\ cmdQ' = cmdQ /\ cmd' = cmd
      BY <1>11 DEF PostFails, PostFailed, handler
    <2> QED
      BY <1>0, <2>1, PendingIs
  <1>12. CASE DeinitPostFails \/ PushFails \/ Aborts
    BY <1>1, <1>12, AbortsFrame, PushFrame DEF DeinitPostFails, handler
  <1>13. CASE ReceiveFails \/ ClearFails \/ PopFault
    BY <1>1, <1>13, ReceiveFrame, ClearFrame, PopFrameIs
  <1>6. CASE CheckRun \/ Wait \/ NoMoreCommands
    BY <1>1, <1>6 DEF CheckRun, Wait, NoMoreCommands, NoCall, handler
  <1>7. CASE Receive
    <2>1. cmd = None
      BY <1>7 DEF Receive, CommandInv, Handlers
    <2>2. /\ cmdQ # <<>> /\ cmdQ' = Tail(cmdQ) /\ calling' = calling
          /\ Head(cmdQ) = ExitLoop \/ cmd' = Head(cmdQ)
      BY <1>7 DEF Receive, NoCall
    <2>3. /\ Len(cmdQ) \in Nat \ {0} /\ Len(cmdQ') = Len(cmdQ) - 1 /\ Head(cmdQ) = cmdQ[1]
          /\ \A k \in 1..Len(cmdQ') : cmdQ'[k] = cmdQ[k + 1]
      BY <2>2 DEF CommandInv
    <2>4. CASE \E k \in 1..Len(cmdQ) : cmdQ[k] = c
      <3>1. PICK k \in 1..Len(cmdQ) : cmdQ[k] = c
        BY <2>4
      <3>2. CASE k = 1
        <4>1. c = cmd' /\ c \in Requests
          BY <2>2, <2>3, <3>1, <3>2 DEF CommandInv
        <4> QED
          BY <1>0, <4>1, RequestFacts
      <3>3. CASE k # 1
        <4>1. k - 1 \in 1..Len(cmdQ') /\ cmdQ'[k - 1] = c
          BY <2>3, <3>1, <3>3
        <4> QED
          BY <1>0, <4>1
      <3> QED
        BY <3>2, <3>3
    <2> QED
      BY <1>0, <2>1, <2>2, <2>4, PendingIs
  <1>8. CASE CommandStep
    <2>1. UNCHANGED <<cmdQ, calling>>
      BY <1>8 DEF CommandStep, SameState, BeginTransition, CompleteStateSet, IllegalStateSet, FinishIdle,
           FailStateSet, FinishLoaded, BeginReturn, FinishFlush, ClearFlush, AwaitDealloc, PortDealloc,
           BeginEnable, PortEnabled, ReturnHeld, LockPort, ReturnNext, ClearQueue, Quiet, NoCall
    <2> QED
      BY <1>1, <2>1
  <1>9. CASE BufferStep
    BY <1>1, <1>9, BufferFrame
  <1>10. CASE UNCHANGED vars
    BY <1>1, <1>10 DEF vars, handler, client
  <1> QED
    BY <1>2, <1>3, <1>4, <1>5, <1>6, <1>7, <1>8, <1>9, <1>10, <1>11, <1>12, <1>13, FaultIs
    DEF Next, Client, ThreadStep, SendCommand, Aborts, PostFault

\* The other steps leave the events, and the history of what failed, alone.
LEMMA FaultedFrame ==
  ASSUME [Next]_vars
  PROVE  Fault \/ UNCHANGED <<broken, err, unposted, unpopped>>
  <1> USE DEF faulted
  <1>1. CASE \/ \E p \in Ports : \E b \in Buffers[p] : HandleBuffer(p, b)
             \/ QueueBuffer \/ SetRealTime \/ Destroy \/ PostCommand \/ Deinit
    BY <1>1 DEF HandleBuffer, Submit, AllocateBuffer, FreeBuffer, QueueBuffer, SetRealTime, Destroy,
                PostCommand, Deinit
  <1>2. CASE SendCommand
    BY <1>2 DEF SendCommand, CallStateSet, CallFlush, CallPortDisable, CallPortEnable, Call
  <1>3. CASE CommandStep
    BY <1>3 DEF CommandStep, SameState, BeginTransition, CompleteStateSet, IllegalStateSet, FinishIdle,
                FailStateSet, FinishLoaded, BeginReturn, FinishFlush, ClearFlush, AwaitDealloc, PortDealloc,
                BeginEnable, PortEnabled, ReturnHeld, LockPort, ReturnNext, ClearQueue, Quiet, NoCall
  <1>4. CASE BufferStep
    BY <1>4 DEF BufferStep, SetMask, PopMask, NoMask, StartDecode, NoInput, ScanMore, ScanDone, TakeOutput,
                DoWithout, Overflow, DecodeData, DecodeInfo, DecodeErrorStream, CodecFails, NextFrame,
                DrainFrames, GetFrame, NoMoreFrames, DispatchFrame, PopFrame, LastFrame, InputDone, PopInput,
                Calm, NoCall
  <1>5. CASE CheckRun \/ ExitOnError \/ Wait \/ Receive \/ NoMoreCommands
    BY <1>5 DEF CheckRun, ExitOnError, Wait, Receive, NoMoreCommands, NoCall
  <1>6. CASE UNCHANGED vars
    BY <1>6 DEF vars
  <1> QED
    BY <1>1, <1>2, <1>3, <1>4, <1>5, <1>6 DEF Next, Client, ThreadStep, SendCommand

\* What failed stays failed.
LEMMA HistoryGrows ==
  ASSUME [Next]_vars
  PROVE  unposted \subseteq unposted' /\ unpopped \subseteq unpopped'
  BY FaultedFrame, FaultIs, PushFrame, PostFrame, AbortsFrame, ReceiveFrame, ClearFrame, PopFrameIs

-----------------------------------------------------------------------------
(* A change of state, and a flush, are under way while the flags say so.   *)

LEMMA NextTransition ==
  ASSUME CommandInv, TransitionTracked, [Next]_vars
  PROVE  TransitionTracked'
  <1>1. ASSUME UNCHANGED <<state, statetrans>>, cmd \in {None, cmd'} \/ cmd.type # "StateSet" \/ cmd.arg = state
        PROVE  TransitionTracked'
    <2> SUFFICES ASSUME statetrans # state, state # "Invalid"
                 PROVE  \E c \in Pending' \cup unposted' : c.type = "StateSet" /\ c.arg = statetrans
      BY <1>1 DEF TransitionTracked
    <2>1. PICK c \in Pending \cup unposted : c.type = "StateSet" /\ c.arg = statetrans
      BY DEF TransitionTracked
    <2>2. c \in Pending => c # ExitLoop /\ c # None
      BY <2>1, PendingFacts DEF ExitLoop
    <2> QED
      BY <1>1, <2>1, <2>2, PendingStep, HistoryGrows
  <1>2. ASSUME statetrans' = state' \/ state' = "Invalid" PROVE TransitionTracked'
    BY <1>2 DEF TransitionTracked
  <1>3. CASE \/ \E p \in Ports : \E b \in Buffers[p] : HandleBuffer(p, b)
             \/ QueueBuffer \/ SetRealTime \/ Destroy
    BY <1>1, <1>3, ClientFrame
  <1>4. ASSUME NEW s \in States, CallStateSet(s) PROVE TransitionTracked'
    <2>1. statetrans' = s /\ calling' = [type |-> "StateSet", arg |-> s] /\ calling' \in Requests
      BY <1>4 DEF CallStateSet, Call
    <2>2. calling' \in Pending'
      BY <2>1, RequestFacts DEF Pending
    <2> QED
      BY <2>1, <2>2 DEF TransitionTracked
  <1>5. CASE \E a \in PortArgs : CallFlush(a) \/ CallPortDisable(a) \/ CallPortEnable(a)
    BY <1>1, <1>5 DEF CallFlush, CallPortDisable, CallPortEnable, Call, handler
  <1>6. CASE PostCommand \/ Deinit
    BY <1>1, <1>6 DEF PostCommand, Deinit, handler
  <1>7. CASE CheckRun \/ Wait \/ NoMoreCommands
    BY <1>1, <1>7 DEF CheckRun, Wait, NoMoreCommands, handler
  <1>8. CASE Receive
    <2>1. cmd = None
      BY <1>8 DEF Receive, CommandInv, Handlers
    <2>2. UNCHANGED <<state, statetrans>>
      BY <1>8 DEF Receive
    <2> QED
      BY <1>1, <2>1, <2>2
  <1>9. CASE CommandStep
    <2>1. CASE SameState
      BY <1>1, <2>1 DEF SameState
    <2>2. CASE CompleteStateSet \/ IllegalStateSet \/ FinishIdle \/ FailStateSet \/ FinishLoaded
      BY <1>2, <2>2 DEF CompleteStateSet, IllegalStateSet, FinishIdle, FailStateSet, FinishLoaded
    <2>3. CASE BeginTransition \/ BeginReturn \/ AwaitDealloc \/ BeginEnable
      BY <1>1, <2>3 DEF BeginTransition, BeginReturn, AwaitDealloc, BeginEnable
    <2>4. CASE FinishFlush \/ ClearFlush
      BY <1>1, <2>4 DEF FinishFlush, ClearFlush, handler
    <2>5. CASE PortDealloc \/ PortEnabled
      BY <1>1, <2>5 DEF PortDealloc, PortEnabled, CommandInv
    <2>6. CASE ReturnHeld \/ LockPort \/ ReturnNext \/ ClearQueue
      BY <1>1, <2>6 DEF ReturnHeld, LockPort, ReturnNext, ClearQueue, handler
    <2> QED
      BY <1>9, <2>1, <2>2, <2>3, <2>4, <2>5, <2>6 DEF CommandStep
  <1>10. CASE BufferStep
    <2>1. cmd' = cmd /\ statetrans' = statetrans
      BY <1>10, BufferFrame
    <2>2. state' = state \/ state' = "Invalid"
      BY <1>10 DEF BufferStep, SetMask, PopMask, NoMask, StartDecode, NoInput, ScanMore, ScanDone,
         TakeOutput, DoWithout, Overflow, DecodeData, DecodeInfo, DecodeErrorStream, CodecFails, NextFrame,
         DrainFrames, GetFrame, NoMoreFrames, DispatchFrame, PopFrame, LastFrame, InputDone, PopInput
    <2> QED
      BY <1>1, <1>2, <2>1, <2>2
  <1>12. CASE PostFault \/ PushFails \/ ReceiveFails \/ ClearFails \/ PopFault
    BY <1>1, <1>12, PostFrame, PushFrame, ReceiveFrame, ClearFrame, PopFrameIs
  <1>13. CASE Aborts
    BY <1>2, <1>13, AbortsFrame
  <1>11. CASE UNCHANGED vars
    BY <1>1, <1>11 DEF vars, handler
  <1> QED
    BY <1>3, <1>4, <1>5, <1>6, <1>7, <1>8, <1>9, <1>10, <1>11, <1>12, <1>13, FaultIs
    DEF Next, Client, ThreadStep, Aborts

LEMMA NextFlush ==
  ASSUME CommandInv, FlushTracked, [Next]_vars
  PROVE  FlushTracked'
  <1>1. ASSUME outputPortFlushPending' => outputPortFlushPending,
               pc # "clearFlush",
               cmd \in {None, cmd'} \/ cmd.type # "Flush" \/ ~Concerns(cmd.arg, "out") \/ pc' = "clearFlush"
        PROVE  FlushTracked'
    <2> SUFFICES ASSUME outputPortFlushPending, pc' # "clearFlush"
                 PROVE  \E c \in Pending' \cup unposted' : c.type = "Flush" /\ Concerns(c.arg, "out")
      BY <1>1 DEF FlushTracked
    <2>1. PICK c \in Pending \cup unposted : c.type = "Flush" /\ Concerns(c.arg, "out")
      BY <1>1 DEF FlushTracked
    <2>2. c \in Pending => c # ExitLoop /\ c # None
      BY <2>1, PendingFacts DEF ExitLoop
    <2>3. c \in Pending => c # cmd \/ cmd' = cmd
      BY <1>1, <2>1, <2>2 DEF Concerns
    <2>4. c \in Pending' \cup unposted'
      BY <2>1, <2>2, <2>3, PendingStep, HistoryGrows
    <2> QED
      BY <2>1, <2>4 DEF Concerns
  <1>2. ASSUME outputPortFlushPending' => outputPortFlushPending, UNCHANGED <<pc, cmd>>
        PROVE  FlushTracked'
    BY <1>1, <1>2 DEF FlushTracked
  <1>3. CASE \/ \E p \in Ports : \E b \in Buffers[p] : HandleBuffer(p, b)
             \/ QueueBuffer \/ SetRealTime \/ Destroy
    BY <1>2, <1>3, ClientFrame
  <1>4. CASE \/ \E s \in States : CallStateSet(s)
             \/ \E a \in PortArgs : CallPortDisable(a) \/ CallPortEnable(a)
    BY <1>2, <1>4 DEF CallStateSet, CallPortDisable, CallPortEnable, Call, handler
  <1>5. ASSUME NEW a \in PortArgs, CallFlush(a) PROVE FlushTracked'
    <2>1. CASE a \in {"out", "all"}
      <3>1. calling' = [type |-> "Flush", arg |-> a] /\ calling' \in Requests
        BY <1>5 DEF CallFlush, Call
      <3>2. calling' \in Pending'
        BY <3>1, RequestFacts DEF Pending
      <3> QED
        BY <2>1, <3>1, <3>2 DEF FlushTracked, Concerns
    <2>2. CASE a \notin {"out", "all"}
      BY <1>2, <1>5, <2>2 DEF CallFlush, Call, handler
    <2> QED
      BY <2>1, <2>2
  <1>6. CASE PostCommand \/ Deinit
    BY <1>2, <1>6 DEF PostCommand, Deinit, handler, flags
  <1>7. CASE CheckRun \/ Wait \/ NoMoreCommands
    BY <1>1, <1>7 DEF CheckRun, Wait, NoMoreCommands, handler, flags
  <1>8. CASE Receive
    <2>1. cmd = None
      BY <1>8 DEF Receive, CommandInv, Handlers
    <2>2. outputPortFlushPending' = outputPortFlushPending /\ pc # "clearFlush"
      BY <1>8 DEF Receive, flags
    <2> QED
      BY <1>1, <2>1, <2>2
  <1>9. CASE CommandStep
    <2>1. CASE SameState \/ BeginTransition \/ CompleteStateSet \/ IllegalStateSet
      BY <1>1, <2>1 DEF SameState, BeginTransition, CompleteStateSet, IllegalStateSet, Handling, flags
    <2>2. CASE FinishIdle \/ FailStateSet \/ FinishLoaded
      BY <1>1, <2>2 DEF FinishIdle, FailStateSet, FinishLoaded, Handling, CommandInv, flags
    <2>3. CASE BeginReturn \/ AwaitDealloc \/ BeginEnable
      BY <1>1, <2>3 DEF BeginReturn, AwaitDealloc, BeginEnable, Handling, flags
    <2>4. CASE FinishFlush
      BY <1>1, <2>4 DEF FinishFlush, Goto, flags
    <2>5. CASE ClearFlush
      BY <2>5 DEF ClearFlush, FlushTracked
    <2>6. CASE PortDealloc \/ PortEnabled
      BY <1>1, <2>6 DEF PortDealloc, PortEnabled, CommandInv, flags
    <2>7. CASE ReturnHeld \/ LockPort \/ ReturnNext \/ ClearQueue
      BY <1>1, <2>7 DEF ReturnHeld, LockPort, ReturnNext, ClearQueue, handler, flags
    <2> QED
      BY <1>9, <2>1, <2>2, <2>3, <2>4, <2>5, <2>6, <2>7 DEF CommandStep
  <1>10. CASE BufferStep
    <2>1. cmd' = cmd /\ pc # "clearFlush"
      BY <1>10, BufferFrame DEF Processing
    <2>2. outputPortFlushPending' = outputPortFlushPending
      BY <1>10 DEF BufferStep, SetMask, PopMask, NoMask, StartDecode, NoInput, ScanMore, ScanDone,
         TakeOutput, DoWithout, Overflow, DecodeData, DecodeInfo, DecodeErrorStream, CodecFails, NextFrame,
         DrainFrames, GetFrame, NoMoreFrames, DispatchFrame, PopFrame, LastFrame, InputDone, PopInput, flags
    <2> QED
      BY <1>1, <2>1, <2>2
  <1>12. CASE PostFault \/ PushFails
    BY <1>2, <1>12, PostFrame, PushFrame
  <1>13. CASE ReceiveFails \/ Aborts \/ ClearFails \/ PopFault
    BY <1>1, <1>13, AbortsFrame, ReceiveFrame, ClearFrame, PopFrameIs
  <1>11. CASE UNCHANGED vars
    BY <1>2, <1>11 DEF vars, handler, flags
  <1> QED
    BY <1>3, <1>4, <1>5, <1>6, <1>7, <1>8, <1>9, <1>10, <1>11, <1>12, <1>13, FaultIs
    DEF Next, Client, ThreadStep, Aborts

-----------------------------------------------------------------------------
(* The component's state and flags.                                        *)

StateInv ==
  /\ state \in States /\ statetrans \in States /\ run \in BOOLEAN
  /\ sent \in 0..MaxCommands /\ deinit \in {"no", "joining", "done"}

FlagsInv ==
  /\ portReconfigPending \in BOOLEAN /\ outputPortFlushPending \in BOOLEAN
  /\ dispatchOutputImmediately \in BOOLEAN
  /\ eos \in BOOLEAN /\ codecHasFrame \in BOOLEAN /\ caller \in {"decode", "resume", "eos"}

LabelsInv == pc \in Labels /\ signals \subseteq {"cmd", "in", "pp"}

LEMMA InitState == Init => StateInv /\ FlagsInv /\ LabelsInv
  <1> SUFFICES ASSUME Init PROVE StateInv /\ FlagsInv /\ LabelsInv
    OBVIOUS
  <1> USE DEF Init
  <1>1. StateInv
    BY BoundsAssumption DEF StateInv, States
  <1>2. FlagsInv
    BY DEF FlagsInv
  <1>3. LabelsInv
    BY DEF LabelsInv, Labels
  <1> QED
    BY <1>1, <1>2, <1>3

LEMMA NextState ==
  ASSUME StateInv, FlagsInv, LabelsInv, CommandInv, [Next]_vars
  PROVE  StateInv'
  <1> USE BoundsAssumption DEF StateInv, Quiet, NoCall, Calm, client
  <1>1. ASSUME NEW p \in Ports, NEW b \in Buffers[p], Submit(p, b) \/ AllocateBuffer(p, b) \/ FreeBuffer(p, b)
        PROVE  StateInv'
    BY <1>1 DEF Submit, AllocateBuffer, FreeBuffer
  <1>2. CASE QueueBuffer \/ PostCommand \/ SetRealTime \/ Deinit \/ Destroy
    BY <1>2 DEF QueueBuffer, PostCommand, SetRealTime, Deinit, Destroy
  <1>3. ASSUME NEW s \in States, CallStateSet(s)
        PROVE  StateInv'
    BY <1>3 DEF CallStateSet, Call
  <1>4. ASSUME NEW a \in PortArgs, CallFlush(a) \/ CallPortDisable(a) \/ CallPortEnable(a)
        PROVE  StateInv'
    BY <1>4 DEF CallFlush, CallPortDisable, CallPortEnable, Call
  <1>5. CASE CheckRun \/ Wait \/ Receive \/ NoMoreCommands
    BY <1>5 DEF CheckRun, Wait, Receive, NoMoreCommands
  <1>6. CASE SameState \/ BeginTransition \/ IllegalStateSet
    BY <1>6 DEF SameState, BeginTransition, IllegalStateSet
  <1>7. CASE FinishIdle \/ FailStateSet \/ FinishLoaded
    BY <1>7 DEF FinishIdle, FailStateSet, FinishLoaded, States
  <1>8. CASE BeginReturn \/ AwaitDealloc \/ BeginEnable
    BY <1>8 DEF BeginReturn, AwaitDealloc, BeginEnable
  <1>9. CASE FinishFlush \/ ClearFlush \/ PortDealloc \/ PortEnabled
    BY <1>9 DEF FinishFlush, ClearFlush, PortDealloc, PortEnabled
  <1>10. CASE ReturnHeld \/ LockPort \/ ReturnNext \/ ClearQueue
    BY <1>10 DEF ReturnHeld, LockPort, ReturnNext, ClearQueue
  <1>11. CASE CompleteStateSet
    <2>1. cmd # None /\ cmd.type = "StateSet"
      BY <1>11 DEF CompleteStateSet, Handling, CommandInv, Handlers
    <2>2. cmd.arg \in States
      BY <2>1, RequestFacts DEF CommandInv
    <2> QED
      BY <1>11, <2>2 DEF CompleteStateSet
  <1>12. CASE SetMask \/ PopMask \/ NoMask \/ StartDecode \/ NoInput
    BY <1>12 DEF SetMask, PopMask, NoMask, StartDecode, NoInput
  <1>13. CASE ScanMore \/ ScanDone \/ TakeOutput \/ DoWithout
    BY <1>13 DEF ScanMore, ScanDone, TakeOutput, DoWithout
  <1>14. CASE Overflow \/ DecodeData \/ DecodeInfo \/ DecodeErrorStream
    BY <1>14 DEF Overflow, DecodeData, DecodeInfo, DecodeErrorStream
  <1>15. CASE CodecFails
    BY <1>15 DEF CodecFails, States
  <1>16. CASE NextFrame \/ DrainFrames \/ GetFrame \/ NoMoreFrames
    BY <1>16 DEF NextFrame, DrainFrames, GetFrame, NoMoreFrames
  <1>17. CASE DispatchFrame \/ PopFrame \/ LastFrame \/ InputDone \/ PopInput
    BY <1>17 DEF DispatchFrame, PopFrame, LastFrame, InputDone, PopInput
  <1>19. CASE Aborts \/ ReceiveFails \/ PushFails
    BY <1>19, AbortsFrame, ReceiveFrame, PushFrame DEF States
  <1>20. CASE PostFault \/ ClearFails
    BY <1>20, PostFrame, ClearFrame
  <1>21. CASE PopFault
    BY <1>21, PopFrameIs DEF CommandInv
  <1>18. CASE UNCHANGED vars
    BY <1>18 DEF vars
  <1> QED
    BY <1>1, <1>2, <1>3, <1>4, <1>5, <1>6, <1>7, <1>8, <1>9, <1>10,
       <1>11, <1>12, <1>13, <1>14, <1>15, <1>16, <1>17, <1>18, <1>19, <1>20,
       <1>21, FaultIs
    DEF Next, Client, HandleBuffer, ThreadStep, CommandStep, BufferStep, Aborts

LEMMA NextFlags ==
  ASSUME StateInv, FlagsInv, LabelsInv, CommandInv, [Next]_vars
  PROVE  FlagsInv'
  <1> USE BoundsAssumption DEF FlagsInv, Quiet, Calm, Leave, flags, decoding
  <1>1. ASSUME NEW p \in Ports, NEW b \in Buffers[p], Submit(p, b) \/ AllocateBuffer(p, b) \/ FreeBuffer(p, b)
        PROVE  FlagsInv'
    BY <1>1 DEF Submit, AllocateBuffer, FreeBuffer
  <1>2. CASE QueueBuffer \/ PostCommand \/ SetRealTime \/ Deinit \/ Destroy
    BY <1>2 DEF QueueBuffer, PostCommand, SetRealTime, Deinit, Destroy
  <1>3. ASSUME NEW s \in States, CallStateSet(s)
        PROVE  FlagsInv'
    BY <1>3 DEF CallStateSet, Call
  <1>4. ASSUME NEW a \in PortArgs, CallFlush(a) \/ CallPortDisable(a) \/ CallPortEnable(a)
        PROVE  FlagsInv'
    BY <1>4 DEF CallFlush, CallPortDisable, CallPortEnable, Call
  <1>5. CASE CheckRun \/ Wait \/ Receive \/ NoMoreCommands
    BY <1>5 DEF CheckRun, Wait, Receive, NoMoreCommands
  <1>6. CASE SameState \/ BeginTransition \/ IllegalStateSet
    BY <1>6 DEF SameState, BeginTransition, IllegalStateSet
  <1>7. CASE FinishIdle \/ FailStateSet \/ FinishLoaded
    BY <1>7 DEF FinishIdle, FailStateSet, FinishLoaded
  <1>8. CASE BeginReturn \/ AwaitDealloc \/ BeginEnable
    BY <1>8 DEF BeginReturn, AwaitDealloc, BeginEnable
  <1>9. CASE FinishFlush \/ ClearFlush \/ PortDealloc \/ PortEnabled
    BY <1>9 DEF FinishFlush, ClearFlush, PortDealloc, PortEnabled
  <1>10. CASE ReturnHeld \/ LockPort \/ ReturnNext \/ ClearQueue
    BY <1>10 DEF ReturnHeld, LockPort, ReturnNext, ClearQueue
  <1>11. CASE CompleteStateSet
    <2>1. cmd # None /\ cmd.type = "StateSet"
      BY <1>11 DEF CompleteStateSet, Handling, CommandInv, Handlers
    <2>2. cmd.arg \in States
      BY <2>1, RequestFacts DEF CommandInv
    <2> QED
      BY <1>11, <2>2 DEF CompleteStateSet
  <1>12. CASE SetMask \/ PopMask \/ NoMask \/ StartDecode \/ NoInput
    BY <1>12 DEF SetMask, PopMask, NoMask, StartDecode, NoInput
  <1>13. CASE ScanMore \/ ScanDone \/ TakeOutput \/ DoWithout
    BY <1>13 DEF ScanMore, ScanDone, TakeOutput, DoWithout
  <1>14. CASE Overflow \/ DecodeData \/ DecodeInfo \/ DecodeErrorStream
    BY <1>14 DEF Overflow, DecodeData, DecodeInfo, DecodeErrorStream
  <1>15. CASE CodecFails
    BY <1>15 DEF CodecFails
  <1>16. CASE NextFrame \/ DrainFrames \/ GetFrame \/ NoMoreFrames
    BY <1>16 DEF NextFrame, DrainFrames, GetFrame, NoMoreFrames
  <1>17. CASE DispatchFrame \/ PopFrame \/ LastFrame \/ InputDone \/ PopInput
    BY <1>17 DEF DispatchFrame, PopFrame, LastFrame, InputDone, PopInput
  <1>19. CASE Aborts \/ ReceiveFails \/ PushFails
    BY <1>19, AbortsFrame, ReceiveFrame, PushFrame DEF States
  <1>20. CASE PostFault \/ ClearFails
    BY <1>20, PostFrame, ClearFrame
  <1>21. CASE PopFault
    BY <1>21, PopFrameIs DEF CommandInv
  <1>18. CASE UNCHANGED vars
    BY <1>18 DEF vars
  <1> QED
    BY <1>1, <1>2, <1>3, <1>4, <1>5, <1>6, <1>7, <1>8, <1>9, <1>10,
       <1>11, <1>12, <1>13, <1>14, <1>15, <1>16, <1>17, <1>18, <1>19, <1>20,
       <1>21, FaultIs
    DEF Next, Client, HandleBuffer, ThreadStep, CommandStep, BufferStep, Aborts

LEMMA NextLabels ==
  ASSUME StateInv, FlagsInv, LabelsInv, CommandInv, [Next]_vars
  PROVE  LabelsInv'
  <1> USE BoundsAssumption DEF LabelsInv, Quiet, Calm, Goto, Answer, Leave, FramesEnd, Labels
  <1>1. ASSUME NEW p \in Ports, NEW b \in Buffers[p], Submit(p, b) \/ AllocateBuffer(p, b) \/ FreeBuffer(p, b)
        PROVE  LabelsInv'
    BY <1>1 DEF Submit, AllocateBuffer, FreeBuffer
  <1>2. CASE QueueBuffer \/ PostCommand \/ SetRealTime \/ Deinit \/ Destroy
    BY <1>2 DEF QueueBuffer, PostCommand, SetRealTime, Deinit, Destroy
  <1>3. ASSUME NEW s \in States, CallStateSet(s)
        PROVE  LabelsInv'
    BY <1>3 DEF CallStateSet, Call
  <1>4. ASSUME NEW a \in PortArgs, CallFlush(a) \/ CallPortDisable(a) \/ CallPortEnable(a)
        PROVE  LabelsInv'
    BY <1>4 DEF CallFlush, CallPortDisable, CallPortEnable, Call
  <1>5. CASE CheckRun \/ Wait \/ Receive \/ NoMoreCommands
    BY <1>5 DEF CheckRun, Wait, Receive, NoMoreCommands
  <1>6. CASE SameState \/ BeginTransition \/ IllegalStateSet
    BY <1>6 DEF SameState, BeginTransition, IllegalStateSet
  <1>7. CASE FinishIdle \/ FailStateSet \/ FinishLoaded
    BY <1>7 DEF FinishIdle, FailStateSet, FinishLoaded
  <1>8. CASE BeginReturn \/ AwaitDealloc \/ BeginEnable
    BY <1>8 DEF BeginReturn, AwaitDealloc, BeginEnable
  <1>9. CASE FinishFlush \/ ClearFlush \/ PortDealloc \/ PortEnabled
    BY <1>9 DEF FinishFlush, ClearFlush, PortDealloc, PortEnabled
  <1>10. CASE ReturnHeld \/ LockPort \/ ReturnNext \/ ClearQueue
    BY <1>10 DEF ReturnHeld, LockPort, ReturnNext, ClearQueue
  <1>11. CASE CompleteStateSet
    <2>1. cmd # None /\ cmd.type = "StateSet"
      BY <1>11 DEF CompleteStateSet, Handling, CommandInv, Handlers
    <2>2. cmd.arg \in States
      BY <2>1, RequestFacts DEF CommandInv
    <2> QED
      BY <1>11, <2>2 DEF CompleteStateSet
  <1>12. CASE SetMask \/ PopMask \/ NoMask \/ StartDecode \/ NoInput
    BY <1>12 DEF SetMask, PopMask, NoMask, StartDecode, NoInput
  <1>13. CASE ScanMore \/ ScanDone \/ TakeOutput \/ DoWithout
    BY <1>13 DEF ScanMore, ScanDone, TakeOutput, DoWithout, CommandInv
  <1>14. CASE Overflow \/ DecodeData \/ DecodeInfo \/ DecodeErrorStream
    BY <1>14 DEF Overflow, DecodeData, DecodeInfo, DecodeErrorStream
  <1>15. CASE CodecFails
    BY <1>15 DEF CodecFails
  <1>16. CASE NextFrame \/ DrainFrames \/ GetFrame \/ NoMoreFrames
    BY <1>16 DEF NextFrame, DrainFrames, GetFrame, NoMoreFrames
  <1>17. CASE DispatchFrame \/ PopFrame \/ LastFrame \/ InputDone \/ PopInput
    BY <1>17 DEF DispatchFrame, PopFrame, LastFrame, InputDone, PopInput, CommandInv
  <1>19. CASE Aborts \/ ReceiveFails \/ PushFails
    BY <1>19, AbortsFrame, ReceiveFrame, PushFrame DEF States
  <1>20. CASE PostFault \/ ClearFails
    BY <1>20, PostFrame, ClearFrame
  <1>21. CASE PopFault
    BY <1>21, PopFrameIs DEF CommandInv
  <1>18. CASE UNCHANGED vars
    BY <1>18 DEF vars
  <1> QED
    BY <1>1, <1>2, <1>3, <1>4, <1>5, <1>6, <1>7, <1>8, <1>9, <1>10,
       <1>11, <1>12, <1>13, <1>14, <1>15, <1>16, <1>17, <1>18, <1>19, <1>20,
       <1>21, FaultIs
    DEF Next, Client, HandleBuffer, ThreadStep, CommandStep, BufferStep, Aborts

-----------------------------------------------------------------------------
(* The ports, and what the handlers and the decoding know of their queues. *)

LEMMA BuffersFacts ==
  /\ Buffers["in"] = InBuffers /\ Buffers["out"] = OutBuffers /\ Buffers["pp"] = PpBuffers
  /\ \A p \in Ports : Buffers[p] \subseteq AllBuffers /\ None \notin Buffers[p]
  <1>1. Buffers["in"] = InBuffers /\ Buffers["out"] = OutBuffers /\ Buffers["pp"] = PpBuffers
    BY Zenon DEF Buffers, Ports
  <1> QED
    BY <1>1, NoneAssumption DEF AllBuffers, Ports

LEMMA PortsOfFacts ==
  ASSUME NEW a \in PortArgs
  PROVE  PortsOf(a) \in Seq(Ports) /\ PortsOf(a) # <<>>
  <1>1. CASE a = "all"
    <2>1. PortsOf(a) = <<"in", "out", "pp">>
      BY <1>1 DEF PortsOf
    <2> QED
      BY <2>1 DEF Ports
  <1>2. CASE a # "all"
    <2>1. PortsOf(a) = <<a>> /\ a \in Ports
      BY <1>2 DEF PortsOf, PortArgs
    <2> QED
      BY <2>1
  <1> QED
    BY <1>1, <1>2

EnabledInv == bEnabled \in [Ports -> BOOLEAN] /\ bPopulated \in [Ports -> BOOLEAN]

PortsInv ==
  /\ buffers \in [Ports -> SUBSET AllBuffers] /\ own \in [Ports -> SUBSET AllBuffers]
  /\ bufferqueue \in [Ports -> Seq(AllBuffers)]
  /\ \A p \in Ports : /\ buffers[p] \subseteq Buffers[p] /\ own[p] \subseteq Buffers[p]
                      /\ bufferqueue[p] \in Seq(Buffers[p])
  /\ submitting # None => /\ submitting \in [port : Ports, buffer : AllBuffers]
                          /\ submitting.buffer \in Buffers[submitting.port]
  /\ held \in OutBuffers \cup {None}

\* The ports a handler still has to visit, and the buffers it returns.
TodoInv ==
  /\ todo \in Seq(Ports) /\ count \in Nat /\ i \in 0..count
  /\ pc \in {"held", "lock", "return", "enable"} => todo # <<>>
  /\ pc = "waitFree" /\ cmd.type = "PortDisable" => todo # <<>>
  /\ pc = "return" => count <= Len(bufferqueue[Head(todo)])

\* The labels at which an input buffer is being decoded.
Decoding == {"scan", "getBuffer", "decode", "frames", "getFrame", "dispatchFrame", "popFrame",
             "lastFrame", "inputDone", "popInput"}

\* The buffers the thread works on head their queues until it pops them.
DecodeInv ==
  /\ inbuf \in InBuffers \cup {None} /\ slot \in OutBuffers \cup {None}
  /\ inbuf # None <=> pc \in Decoding
  /\ inbuf # None => bufferqueue["in"] # <<>> /\ Head(bufferqueue["in"]) = inbuf
  /\ slot # None => /\ pc \in {"decode", "getFrame", "dispatchFrame", "popFrame"}
                    /\ bufferqueue["out"] # <<>> /\ Head(bufferqueue["out"]) = slot
  /\ pc \in {"dispatchFrame", "popFrame"} => slot # None /\ after \in {"scan", "frames"}
  /\ pc = "getBuffer" => after \in {"decode", "getFrame"}
  /\ pc = "popMask" => bufferqueue["pp"] # <<>>

UnitsInv ==
  /\ units \in 0..MaxUnits /\ frames \in 0..MaxFrames
  /\ pc = "decode" \/ (pc = "getBuffer" /\ after = "decode") => units > 0

\* A callback gives b to the client, who keeps it or queues it again.
LEMMA CallbackFacts ==
  ASSUME PortsInv, NEW p \in Ports, NEW b \in Buffers[p], Callback(p, b)
  PROVE  \/ /\ bufferqueue' = bufferqueue
            /\ own' = [own EXCEPT ![p] = @ \cup {b}]
            /\ own' \in [Ports -> SUBSET AllBuffers]
            /\ own'[p] = own[p] \cup {b} /\ \A o \in Ports : o # p => own'[o] = own[o]
         \/ /\ Reentrant /\ own' = own /\ b \in buffers[p] /\ p \notin broken
            /\ bufferqueue' \in [Ports -> Seq(AllBuffers)]
            /\ bufferqueue'[p] = Append(bufferqueue[p], b)
            /\ \A o \in Ports : o # p => bufferqueue'[o] = bufferqueue[o]
  <1>1. b \in AllBuffers /\ bufferqueue \in [Ports -> Seq(AllBuffers)] /\ own \in [Ports -> SUBSET AllBuffers]
    BY BuffersFacts DEF PortsInv
  <1>2. CASE own' = [own EXCEPT ![p] = @ \cup {b}] /\ UNCHANGED bufferqueue
    BY <1>1, <1>2
  <1>3. CASE /\ Reentrant /\ b \in buffers[p] /\ p \notin broken
             /\ bufferqueue' = [bufferqueue EXCEPT ![p] = Append(@, b)] /\ UNCHANGED own
    <2>1. Append(bufferqueue[p], b) \in Seq(AllBuffers)
      BY <1>1
    <2> QED
      BY <1>1, <1>3, <2>1
  <1> QED
    BY <1>2, <1>3 DEF Callback

LEMMA InitPorts == Init => EnabledInv /\ PortsInv /\ TodoInv /\ DecodeInv /\ UnitsInv
  <1> SUFFICES ASSUME Init PROVE EnabledInv /\ PortsInv /\ TodoInv /\ DecodeInv /\ UnitsInv
    OBVIOUS
  <1> USE DEF Init
  <1>1. EnabledInv
    BY DEF EnabledInv
  <1>2. PortsInv
    BY DEF PortsInv
  <1>3. TodoInv
    BY DEF TodoInv
  <1>4. DecodeInv
    BY DEF DecodeInv, Decoding
  <1>5. UnitsInv
    BY BoundsAssumption DEF UnitsInv
  <1> QED
    BY <1>1, <1>2, <1>3, <1>4, <1>5

LEMMA NextEnabled ==
  ASSUME EnabledInv, [Next]_vars
  PROVE  EnabledInv'
  <1> USE DEF EnabledInv
  <1>1. ASSUME bEnabled' = bEnabled, bPopulated' = bPopulated PROVE EnabledInv'
    BY <1>1
  <1>2. ASSUME NEW p \in Ports, NEW b \in Buffers[p], HandleBuffer(p, b) PROVE EnabledInv'
    <2>1. /\ bEnabled' = bEnabled
          /\ \/ bPopulated' = bPopulated
             \/ \E v \in BOOLEAN : bPopulated' = [bPopulated EXCEPT ![p] = v]
      BY <1>2 DEF HandleBuffer, Submit, AllocateBuffer, FreeBuffer, ports
    <2> QED
      BY <2>1
  <1>3. CASE QueueBuffer \/ PostCommand \/ SetRealTime \/ Deinit \/ Destroy
    BY <1>1, <1>3 DEF QueueBuffer, PostCommand, SetRealTime, Deinit, Destroy, ports
  <1>4. CASE (\E s \in States : CallStateSet(s)) \/ \E a \in PortArgs : CallFlush(a)
    BY <1>1, <1>4 DEF CallStateSet, CallFlush, Call
  <1>5. ASSUME NEW a \in PortArgs, CallPortDisable(a) \/ CallPortEnable(a) PROVE EnabledInv'
    <2>1. /\ bPopulated' = bPopulated
          /\ \/ bEnabled' = [p \in Ports |-> bEnabled[p] /\ ~Concerns(a, p)]
             \/ bEnabled' = [p \in Ports |-> bEnabled[p] \/ Concerns(a, p)]
      BY <1>5 DEF CallPortDisable, CallPortEnable, Call
    <2> QED
      BY <2>1
  <1>6. CASE CheckRun \/ Wait \/ Receive \/ NoMoreCommands
    BY <1>1, <1>6 DEF CheckRun, Wait, Receive, NoMoreCommands, ports
  <1>7. CASE CommandStep
    BY <1>1, <1>7 DEF CommandStep, SameState, BeginTransition, CompleteStateSet, IllegalStateSet, FinishIdle,
      FailStateSet, FinishLoaded, BeginReturn, FinishFlush, ClearFlush, AwaitDealloc, PortDealloc,
      BeginEnable, PortEnabled, ReturnHeld, LockPort, ReturnNext, ClearQueue, ports
  <1>8. CASE BufferStep
    BY <1>1, <1>8 DEF BufferStep, SetMask, PopMask, NoMask, StartDecode, NoInput, ScanMore, ScanDone,
      TakeOutput, DoWithout, Overflow, DecodeData, DecodeInfo, DecodeErrorStream, CodecFails, NextFrame,
      DrainFrames, GetFrame, NoMoreFrames, DispatchFrame, PopFrame, LastFrame, InputDone, PopInput, ports
  <1>10. CASE Fault \/ ExitOnError
    BY <1>1, <1>10, FaultIs, AbortsFrame, ReceiveFrame, PushFrame, PostFrame, ClearFrame, PopFrameIs DEF Aborts
  <1>9. CASE UNCHANGED vars
    BY <1>1, <1>9 DEF vars, ports
  <1> QED
    BY <1>2, <1>3, <1>4, <1>5, <1>6, <1>7, <1>8, <1>9, <1>10 DEF Next, Client, ThreadStep

\* The entries that leave a queue: one that is popped, or all.
Popped(p) == (PopMask /\ p = "pp") \/ (PopFrame /\ p = "out") \/ (PopInput /\ p = "in")
Cleared(p) == ((ClearQueue \/ ClearFails) /\ p = Head(todo)) \/ pc = "exited"

QueueStep(p) ==
  \/ bufferqueue'[p] = bufferqueue[p]
  \/ p \notin broken /\ \E b \in Buffers[p] : bufferqueue'[p] = Append(bufferqueue[p], b)
  \/ /\ Popped(p) /\ (Len(bufferqueue[p]) = 1 => p \notin broken)
     /\ bufferqueue'[p] = Tail(bufferqueue[p])
  \/ /\ Cleared(p) /\ (bufferqueue[p] # <<>> => p \notin broken)
     /\ bufferqueue'[p] = <<>>

\* The steps that change a queue, and how.
LEMMA QueueSteps ==
  ASSUME PortsInv, TodoInv, DecodeInv, [Next]_vars
  PROVE  bufferqueue' \in [Ports -> Seq(AllBuffers)] /\ \A p \in Ports : QueueStep(p)
  <1>0. bufferqueue \in [Ports -> Seq(AllBuffers)]
    BY DEF PortsInv
  <1>1. ASSUME bufferqueue' = bufferqueue
        PROVE  bufferqueue' \in [Ports -> Seq(AllBuffers)] /\ \A p \in Ports : QueueStep(p)
    BY <1>0, <1>1 DEF QueueStep
  <1>2. ASSUME NEW p \in Ports, NEW b \in Buffers[p],
               Callback(p, b) \/ (p \notin broken /\ bufferqueue' = [bufferqueue EXCEPT ![p] = Append(@, b)])
        PROVE  bufferqueue' \in [Ports -> Seq(AllBuffers)] /\ \A o \in Ports : QueueStep(o)
    <2>1. CASE Callback(p, b)
      BY <1>0, <2>1, CallbackFacts DEF QueueStep
    <2>2. CASE p \notin broken /\ bufferqueue' = [bufferqueue EXCEPT ![p] = Append(@, b)]
      <3>1. Append(bufferqueue[p], b) \in Seq(AllBuffers)
        BY <1>0, BuffersFacts
      <3> QED
        BY <1>0, <2>2, <3>1 DEF QueueStep
    <2> QED
      BY <1>2, <2>1, <2>2
  <1>3. ASSUME NEW p \in Ports, Popped(p), Pop(p), bufferqueue[p] # <<>>
        PROVE  bufferqueue' \in [Ports -> Seq(AllBuffers)] /\ \A o \in Ports : QueueStep(o)
    <2>1. /\ Tail(bufferqueue[p]) \in Seq(AllBuffers) /\ bufferqueue' = [bufferqueue EXCEPT ![p] = Tail(@)]
          /\ Len(bufferqueue[p]) = 1 => p \notin broken
      BY <1>0, <1>3 DEF Pop
    <2> QED
      BY <1>0, <1>3, <2>1 DEF QueueStep
  <1>4. CASE Client
    <2>1. ASSUME NEW p \in Ports, NEW b \in Buffers[p], HandleBuffer(p, b) PROVE bufferqueue' = bufferqueue
      BY <2>1 DEF HandleBuffer, Submit, AllocateBuffer, FreeBuffer, ports
    <2>2. CASE SendCommand
      BY <1>1, <2>2 DEF SendCommand, CallStateSet, CallFlush, CallPortDisable, CallPortEnable, Call
    <2>3. CASE QueueBuffer
      <3>1. submitting.port \in Ports /\ submitting.buffer \in Buffers[submitting.port]
        BY <2>3 DEF QueueBuffer, PortsInv
      <3>2. \/ bufferqueue' = bufferqueue
            \/ /\ submitting.port \notin broken
               /\ bufferqueue' = [bufferqueue EXCEPT ![submitting.port] = Append(@, submitting.buffer)]
        BY <2>3 DEF QueueBuffer
      <3> QED
        BY <1>1, <1>2, <3>1, <3>2
    <2>4. CASE PostCommand \/ SetRealTime \/ Deinit
      BY <1>1, <2>4 DEF PostCommand, SetRealTime, Deinit, ports
    <2>5. CASE Destroy
      <3>1. bufferqueue' = [p \in Ports |-> <<>>] /\ pc = "exited" /\ broken = {}
        BY <2>5 DEF Destroy
      <3> QED
        BY <3>1 DEF QueueStep, Cleared
    <2> QED
      BY <1>1, <1>4, <2>1, <2>2, <2>3, <2>4, <2>5 DEF Client, SendCommand
  <1>5. CASE CheckRun \/ Wait \/ Receive \/ NoMoreCommands
    BY <1>1, <1>5 DEF CheckRun, Wait, Receive, NoMoreCommands, ports
  <1>6. CASE CommandStep
    <2>1. CASE ReturnHeld
      <3>1. CASE Head(todo) = "out" /\ held # None
        BY <1>2, <2>1, <3>1, BuffersFacts DEF ReturnHeld, PortsInv, Ports
      <3>2. CASE ~(Head(todo) = "out" /\ held # None)
        BY <1>1, <2>1, <3>2 DEF ReturnHeld
      <3> QED
        BY <3>1, <3>2
    <2>2. CASE ReturnNext
      <3>1. /\ Head(todo) \in Ports /\ i + 1 \in 1..Len(bufferqueue[Head(todo)])
            /\ bufferqueue[Head(todo)] \in Seq(Buffers[Head(todo)])
        BY <2>2 DEF ReturnNext, TodoInv, PortsInv
      <3>2. bufferqueue[Head(todo)][i + 1] \in Buffers[Head(todo)]
        BY <3>1
      <3> QED
        BY <1>2, <2>2, <3>1, <3>2 DEF ReturnNext
    <2>3. CASE ClearQueue
      <3>1. /\ Head(todo) \in Ports /\ bufferqueue' = [bufferqueue EXCEPT ![Head(todo)] = <<>>]
            /\ bufferqueue[Head(todo)] # <<>> => Head(todo) \notin broken
        BY <2>3 DEF ClearQueue, TodoInv
      <3> QED
        BY <1>0, <2>3, <3>1 DEF QueueStep, Cleared
    <2>4. CASE SameState \/ BeginTransition \/ CompleteStateSet \/ IllegalStateSet \/ FinishIdle \/ FailStateSet
      BY <1>1, <2>4 DEF SameState, BeginTransition, CompleteStateSet, IllegalStateSet, FinishIdle,
        FailStateSet, ports
    <2>5. CASE FinishLoaded \/ BeginReturn \/ FinishFlush \/ ClearFlush \/ AwaitDealloc \/ PortDealloc
               \/ BeginEnable \/ PortEnabled \/ LockPort
      BY <1>1, <2>5 DEF FinishLoaded, BeginReturn, FinishFlush, ClearFlush, AwaitDealloc, PortDealloc,
        BeginEnable, PortEnabled, LockPort, ports
    <2> QED
      BY <1>6, <2>1, <2>2, <2>3, <2>4, <2>5 DEF CommandStep
  <1>7. CASE BufferStep
    <2>1. CASE SetMask
      <3>1. "pp" \in Ports /\ Head(bufferqueue["pp"]) \in Buffers["pp"]
        BY <2>1 DEF SetMask, HasMask, PortsInv, Ports
      <3> QED
        BY <1>2, <2>1, <3>1 DEF SetMask
    <2>2. CASE DispatchFrame
      <3>1. "out" \in Ports /\ slot \in Buffers["out"]
        BY <2>2, BuffersFacts DEF DispatchFrame, DecodeInv, Ports
      <3>2. held # None => held \in Buffers["out"]
        BY BuffersFacts DEF PortsInv
      <3> QED
        BY <1>1, <1>2, <2>2, <3>1, <3>2 DEF DispatchFrame
    <2>3. CASE LastFrame
      <3>1. "out" \in Ports /\ (held # None => held \in Buffers["out"])
        BY BuffersFacts DEF PortsInv, Ports
      <3> QED
        BY <1>1, <1>2, <2>3, <3>1 DEF LastFrame
    <2>4. CASE InputDone
      <3>1. "in" \in Ports /\ inbuf \in Buffers["in"]
        BY <2>4, BuffersFacts DEF InputDone, DecodeInv, Decoding, Ports
      <3> QED
        BY <1>2, <2>4, <3>1 DEF InputDone
    <2>5. CASE PopMask
      BY <1>3, <2>5 DEF PopMask, Popped, DecodeInv, Ports
    <2>6. CASE PopFrame
      BY <1>3, <2>6 DEF PopFrame, Popped, DecodeInv, Ports
    <2>7. CASE PopInput
      BY <1>3, <2>7 DEF PopInput, Popped, DecodeInv, Decoding, Ports
    <2>8. CASE NoMask \/ StartDecode \/ NoInput \/ ScanMore \/ ScanDone \/ TakeOutput \/ DoWithout
      BY <1>1, <2>8 DEF NoMask, StartDecode, NoInput, ScanMore, ScanDone, TakeOutput, DoWithout, ports
    <2>9. CASE Overflow \/ DecodeData \/ DecodeInfo \/ DecodeErrorStream \/ CodecFails \/ NextFrame
               \/ DrainFrames \/ GetFrame \/ NoMoreFrames
      BY <1>1, <2>9 DEF Overflow, DecodeData, DecodeInfo, DecodeErrorStream, CodecFails, NextFrame,
        DrainFrames, GetFrame, NoMoreFrames, ports
    <2> QED
      BY <1>7, <2>1, <2>2, <2>3, <2>4, <2>5, <2>6, <2>7, <2>8, <2>9 DEF BufferStep
  <1>9. CASE ClearFails
    <2>1. /\ Head(todo) \in Ports /\ bufferqueue' = [bufferqueue EXCEPT ![Head(todo)] = <<>>]
          /\ Head(todo) \notin broken
      BY <1>9, ClearFrame DEF TodoInv
    <2> QED
      BY <1>0, <1>9, <2>1 DEF QueueStep, Cleared
  <1>10. CASE PushFails \/ PostFault \/ Aborts \/ ReceiveFails \/ PopFault
    BY <1>1, <1>10, AbortsFrame, ReceiveFrame, PushFrame, PostFrame, PopFrameIs
  <1>8. CASE UNCHANGED vars
    BY <1>1, <1>8 DEF vars, ports
  <1> QED
    BY <1>4, <1>5, <1>6, <1>7, <1>8, <1>9, <1>10, FaultIs DEF Next, ThreadStep, Aborts

LEMMA AppendFacts ==
  ASSUME NEW S, NEW q \in Seq(S), NEW b \in S
  PROVE  /\ Append(q, b) \in Seq(S) /\ Len(q) \in Nat /\ Len(Append(q, b)) = Len(q) + 1
         /\ Append(q, b)[Len(q) + 1] = b /\ \A k \in 1..Len(q) : Append(q, b)[k] = q[k]
         /\ Append(q, b) # <<>> /\ (q # <<>> => Head(Append(q, b)) = Head(q))
  BY AppendProperties, HeadTailAppend, LenProperties

\* A queue's elements stay buffers of its port.
LEMMA QueueTypes ==
  ASSUME PortsInv, NEW p \in Ports, QueueStep(p), Popped(p) => bufferqueue[p] # <<>>
  PROVE  bufferqueue'[p] \in Seq(Buffers[p])
  <1>1. bufferqueue[p] \in Seq(Buffers[p])
    BY DEF PortsInv
  <1>2. bufferqueue[p] # <<>> => Tail(bufferqueue[p]) \in Seq(Buffers[p])
    BY <1>1, HeadTailProperties
  <1>3. \A b \in Buffers[p] : Append(bufferqueue[p], b) \in Seq(Buffers[p])
    BY <1>1, AppendFacts
  <1>4. <<>> \in Seq(Buffers[p])
    OBVIOUS
  <1> QED
    BY <1>1, <1>2, <1>3, <1>4 DEF QueueStep

LEMMA NextPorts ==
  ASSUME PortsInv, TodoInv, DecodeInv, [Next]_vars
  PROVE  PortsInv'
  <1>1. bufferqueue' \in [Ports -> Seq(AllBuffers)] /\ \A p \in Ports : bufferqueue'[p] \in Seq(Buffers[p])
    <2>1. \A p \in Ports : Popped(p) => bufferqueue[p] # <<>>
      BY DEF Popped, PopMask, PopFrame, PopInput, DecodeInv, Decoding
    <2> QED
      BY <2>1, QueueSteps, QueueTypes
  <1>2. ASSUME buffers' = buffers, own' = own, submitting' = submitting, held' \in {held, None} PROVE PortsInv'
    BY <1>1, <1>2 DEF PortsInv
  <1>3. ASSUME NEW p \in Ports, NEW b \in Buffers[p], Callback(p, b), buffers' = buffers,
               submitting' = submitting, held' \in OutBuffers \cup {None}
        PROVE  PortsInv'
    <2>1. /\ own' \in [Ports -> SUBSET AllBuffers] /\ \A o \in Ports : own'[o] \subseteq Buffers[o]
      BY <1>3, CallbackFacts DEF PortsInv
    <2> QED
      BY <1>1, <1>3, <2>1 DEF PortsInv
  <1>4. CASE Client
    <2>1. ASSUME NEW p \in Ports, NEW b \in Buffers[p], Submit(p, b) PROVE PortsInv'
      <3>1. /\ buffers' = buffers /\ held' = held /\ b \in AllBuffers
            /\ submitting' = [port |-> p, buffer |-> b]
            /\ own' = [own EXCEPT ![p] = @ \ {b}]
        BY <2>1, BuffersFacts DEF Submit, ports
      <3>2. own' \in [Ports -> SUBSET AllBuffers] /\ \A o \in Ports : own'[o] \subseteq Buffers[o]
        BY <3>1 DEF PortsInv
      <3> QED
        BY <1>1, <3>1, <3>2 DEF PortsInv
    <2>2. ASSUME NEW p \in Ports, NEW b \in Buffers[p], AllocateBuffer(p, b) PROVE PortsInv'
      <3>1. /\ held' = held /\ submitting' = submitting /\ b \in AllBuffers
            /\ buffers' = [buffers EXCEPT ![p] = @ \cup {b}]
            /\ own' = [own EXCEPT ![p] = @ \cup {b}]
        BY <2>2, BuffersFacts DEF AllocateBuffer
      <3>2. own' \in [Ports -> SUBSET AllBuffers] /\ \A o \in Ports : own'[o] \subseteq Buffers[o]
        BY <3>1 DEF PortsInv
      <3>3. buffers' \in [Ports -> SUBSET AllBuffers] /\ \A o \in Ports : buffers'[o] \subseteq Buffers[o]
        BY <3>1 DEF PortsInv
      <3> QED
        BY <1>1, <3>1, <3>2, <3>3 DEF PortsInv
    <2>3. ASSUME NEW p \in Ports, NEW b \in Buffers[p], FreeBuffer(p, b) PROVE PortsInv'
      <3>1. /\ held' = held /\ submitting' = submitting /\ b \in AllBuffers
            /\ buffers' = [buffers EXCEPT ![p] = @ \ {b}]
            /\ own' = [own EXCEPT ![p] = @ \ {b}]
        BY <2>3, BuffersFacts DEF FreeBuffer
      <3>2. own' \in [Ports -> SUBSET AllBuffers] /\ \A o \in Ports : own'[o] \subseteq Buffers[o]
        BY <3>1 DEF PortsInv
      <3>3. buffers' \in [Ports -> SUBSET AllBuffers] /\ \A o \in Ports : buffers'[o] \subseteq Buffers[o]
        BY <3>1 DEF PortsInv
      <3> QED
        BY <1>1, <3>1, <3>2, <3>3 DEF PortsInv
    <2>4. CASE SendCommand
      BY <1>2, <2>4 DEF SendCommand, CallStateSet, CallFlush, CallPortDisable, CallPortEnable, Call
    <2>5. CASE QueueBuffer
      <3> DEFINE p == submitting.port  b == submitting.buffer
      <3>1. p \in Ports /\ b \in Buffers[p] /\ b \in AllBuffers
        BY <2>5, BuffersFacts DEF QueueBuffer, PortsInv
      <3>2. buffers' = buffers /\ held' = held /\ submitting' = None
        BY <2>5 DEF QueueBuffer
      <3>3. own' = own \/ own' = [own EXCEPT ![p] = @ \cup {b}]
        BY <2>5 DEF QueueBuffer
      <3> HIDE DEF p, b
      <3>4. own' \in [Ports -> SUBSET AllBuffers] /\ \A o \in Ports : own'[o] \subseteq Buffers[o]
        <4>1. CASE own' = own
          BY <4>1 DEF PortsInv
        <4>2. CASE own' = [own EXCEPT ![p] = @ \cup {b}]
          BY <3>1, <4>2 DEF PortsInv
        <4> QED
          BY <3>3, <4>1, <4>2
      <3> QED
        BY <1>1, <3>2, <3>4 DEF PortsInv
    <2>6. CASE PostCommand \/ SetRealTime \/ Deinit
      BY <1>2, <2>6 DEF PostCommand, SetRealTime, Deinit, ports, client
    <2>7. CASE Destroy
      <3>1. /\ buffers' = [p \in Ports |-> IF state = "Loaded" THEN buffers[p] ELSE {}]
            /\ own' = [p \in Ports |-> {}] /\ held' = None /\ submitting' = submitting
        BY <2>7 DEF Destroy
      <3>2. buffers' \in [Ports -> SUBSET AllBuffers] /\ \A o \in Ports : buffers'[o] \subseteq Buffers[o]
        BY <3>1 DEF PortsInv
      <3> QED
        BY <1>1, <3>1, <3>2 DEF PortsInv
    <2> QED
      BY <1>4, <2>1, <2>2, <2>3, <2>4, <2>5, <2>6, <2>7 DEF Client, HandleBuffer, SendCommand
  <1>5. CASE CheckRun \/ Wait \/ Receive \/ NoMoreCommands
    BY <1>2, <1>5 DEF CheckRun, Wait, Receive, NoMoreCommands, ports, NoCall
  <1>6. CASE CommandStep
    <2>1. CASE ReturnHeld
      <3>1. CASE Head(todo) = "out" /\ held # None
        BY <1>3, <2>1, <3>1, BuffersFacts DEF ReturnHeld, PortsInv, Ports, Quiet, NoCall
      <3>2. CASE ~(Head(todo) = "out" /\ held # None)
        BY <1>2, <2>1, <3>2 DEF ReturnHeld, Quiet, NoCall
      <3> QED
        BY <3>1, <3>2
    <2>2. CASE ReturnNext
      <3>1. /\ Head(todo) \in Ports /\ i + 1 \in 1..Len(bufferqueue[Head(todo)])
            /\ bufferqueue[Head(todo)] \in Seq(Buffers[Head(todo)])
        BY <2>2 DEF ReturnNext, TodoInv, PortsInv
      <3>2. bufferqueue[Head(todo)][i + 1] \in Buffers[Head(todo)]
        BY <3>1
      <3> QED
        BY <1>3, <2>2, <3>1, <3>2 DEF ReturnNext, Quiet, NoCall, PortsInv
    <2>3. CASE SameState \/ BeginTransition \/ CompleteStateSet \/ IllegalStateSet \/ FinishIdle \/ FailStateSet
      BY <1>2, <2>3 DEF SameState, BeginTransition, CompleteStateSet, IllegalStateSet, FinishIdle,
        FailStateSet, ports, Quiet, NoCall
    <2>4. CASE FinishLoaded \/ BeginReturn \/ FinishFlush \/ ClearFlush \/ AwaitDealloc \/ PortDealloc
               \/ BeginEnable \/ PortEnabled \/ LockPort \/ ClearQueue
      BY <1>2, <2>4 DEF FinishLoaded, BeginReturn, FinishFlush, ClearFlush, AwaitDealloc, PortDealloc,
        BeginEnable, PortEnabled, LockPort, ClearQueue, ports, Quiet, NoCall
    <2> QED
      BY <1>6, <2>1, <2>2, <2>3, <2>4 DEF CommandStep
  <1>7. CASE BufferStep
    <2>1. CASE SetMask
      <3>1. "pp" \in Ports /\ Head(bufferqueue["pp"]) \in Buffers["pp"]
        BY <2>1 DEF SetMask, HasMask, PortsInv, Ports
      <3> QED
        BY <1>3, <2>1, <3>1 DEF SetMask, Calm, NoCall, PortsInv
    <2>2. CASE DispatchFrame
      <3>1. "out" \in Ports /\ slot \in Buffers["out"] /\ slot \in OutBuffers
        BY <2>2, BuffersFacts DEF DispatchFrame, DecodeInv, Ports
      <3>2. held # None => held \in Buffers["out"]
        BY BuffersFacts DEF PortsInv
      <3>3. buffers' = buffers /\ submitting' = submitting
        BY <2>2 DEF DispatchFrame, Calm, NoCall
      <3>4. \/ own' = own /\ held' \in {held, slot}
            \/ Callback("out", slot) /\ held' = held
            \/ Callback("out", held) /\ held' = slot /\ held # None
        BY <2>2 DEF DispatchFrame
      <3>5. CASE own' = own /\ held' \in {held, slot}
        BY <1>1, <3>1, <3>3, <3>5 DEF PortsInv
      <3>6. CASE Callback("out", slot) /\ held' = held
        BY <1>3, <3>1, <3>3, <3>6 DEF PortsInv
      <3>7. CASE Callback("out", held) /\ held' = slot /\ held # None
        BY <1>3, <3>1, <3>2, <3>3, <3>7
      <3> QED
        BY <3>4, <3>5, <3>6, <3>7
    <2>3. CASE LastFrame
      <3>1. "out" \in Ports /\ (held # None => held \in Buffers["out"])
        BY BuffersFacts DEF PortsInv, Ports
      <3> QED
        BY <1>2, <1>3, <2>3, <3>1 DEF LastFrame, Calm, NoCall
    <2>4. CASE InputDone
      <3>1. "in" \in Ports /\ inbuf \in Buffers["in"]
        BY <2>4, BuffersFacts DEF InputDone, DecodeInv, Decoding, Ports
      <3> QED
        BY <1>3, <2>4, <3>1 DEF InputDone, Calm, NoCall, PortsInv
    <2>5. CASE PopMask \/ PopFrame \/ PopInput
      BY <1>2, <2>5 DEF PopMask, PopFrame, PopInput, Calm, NoCall
    <2>6. CASE NoMask \/ StartDecode \/ NoInput \/ ScanMore \/ ScanDone \/ TakeOutput \/ DoWithout
      BY <1>2, <2>6 DEF NoMask, StartDecode, NoInput, ScanMore, ScanDone, TakeOutput, DoWithout, ports,
        Calm, NoCall
    <2>7. CASE Overflow \/ DecodeData \/ DecodeInfo \/ DecodeErrorStream \/ CodecFails \/ NextFrame
               \/ DrainFrames \/ GetFrame \/ NoMoreFrames
      BY <1>2, <2>7 DEF Overflow, DecodeData, DecodeInfo, DecodeErrorStream, CodecFails, NextFrame,
        DrainFrames, GetFrame, NoMoreFrames, ports, Calm, NoCall
    <2> QED
      BY <1>7, <2>1, <2>2, <2>3, <2>4, <2>5, <2>6, <2>7 DEF BufferStep
  <1>9. CASE PushFails
    <2>1. /\ submitting.port \in Ports /\ submitting.buffer \in Buffers[submitting.port]
          /\ submitting.buffer \in AllBuffers
      BY <1>9, PushFrame, BuffersFacts DEF PortsInv
    <2>2. PICK p \in Ports : \E b \in Buffers[p] : own' = [own EXCEPT ![p] = @ \cup {b}]
      BY <1>9, <2>1, PushFrame
    <2>3. own' \in [Ports -> SUBSET AllBuffers] /\ \A o \in Ports : own'[o] \subseteq Buffers[o]
      BY <2>2, BuffersFacts DEF PortsInv
    <2>4. buffers' = buffers /\ held' = held /\ submitting' = None
      BY <1>9, PushFrame
    <2> QED
      BY <1>1, <2>3, <2>4 DEF PortsInv
  <1>10. CASE PostFault \/ Aborts \/ ReceiveFails \/ ClearFails \/ PopFault
    BY <1>2, <1>10, AbortsFrame, ReceiveFrame, PostFrame, ClearFrame, PopFrameIs
  <1>8. CASE UNCHANGED vars
    BY <1>2, <1>8 DEF vars, ports, client
  <1> QED
    BY <1>4, <1>5, <1>6, <1>7, <1>8, <1>9, <1>10, FaultIs DEF Next, ThreadStep, Aborts

\* A queue that is neither popped nor cleared keeps its head and grows.
LEMMA QueueKept ==
  ASSUME PortsInv, NEW p \in Ports, QueueStep(p), ~Popped(p), ~Cleared(p)
  PROVE  /\ Len(bufferqueue'[p]) \in Nat /\ Len(bufferqueue'[p]) >= Len(bufferqueue[p])
         /\ bufferqueue[p] # <<>> => /\ bufferqueue'[p] # <<>>
                                     /\ Head(bufferqueue'[p]) = Head(bufferqueue[p])
  <1>1. bufferqueue[p] \in Seq(Buffers[p])
    BY DEF PortsInv
  <1>2. CASE bufferqueue'[p] = bufferqueue[p]
    BY <1>1, <1>2
  <1>3. ASSUME NEW b \in Buffers[p], bufferqueue'[p] = Append(bufferqueue[p], b)
        PROVE  /\ Len(bufferqueue'[p]) \in Nat /\ Len(bufferqueue'[p]) >= Len(bufferqueue[p])
               /\ bufferqueue[p] # <<>> => /\ bufferqueue'[p] # <<>>
                                           /\ Head(bufferqueue'[p]) = Head(bufferqueue[p])
    BY <1>1, <1>3, AppendFacts
  <1> QED
    BY <1>2, <1>3 DEF QueueStep

LEMMA NextTodo ==
  ASSUME CommandInv, PortsInv, TodoInv, DecodeInv, [Next]_vars
  PROVE  TodoInv'
  <1>1. ASSUME UNCHANGED <<todo, count, i>>, pc' \notin {"held", "lock", "return", "enable", "waitFree"}
        PROVE  TodoInv'
    BY <1>1 DEF TodoInv
  <1>2. ASSUME UNCHANGED <<todo, count, i, pc, cmd>> PROVE TodoInv'
    <2>1. ASSUME pc = "return" PROVE count <= Len(bufferqueue'[Head(todo)])
      <3>1. Head(todo) \in Ports /\ count <= Len(bufferqueue[Head(todo)]) /\ count \in Nat
        BY <2>1 DEF TodoInv
      <3>2. ~Popped(Head(todo))
        BY <2>1 DEF Popped, PopMask, PopFrame, PopInput
      <3>3. ~Cleared(Head(todo))
        BY <1>2, <2>1, ClearFrame DEF Cleared, ClearQueue, Goto
      <3>4. Len(bufferqueue[Head(todo)]) \in Nat
        BY <3>1, LenProperties DEF PortsInv
      <3> QED
        BY <3>1, <3>2, <3>3, <3>4, QueueSteps, QueueKept
    <2> QED
      BY <1>2, <2>1 DEF TodoInv
  <1>3. ASSUME NEW a \in PortArgs, todo' = PortsOf(a), UNCHANGED <<count, i>>, pc' # "return" PROVE TodoInv'
    BY <1>3, PortsOfFacts DEF TodoInv
  <1>4. CASE Client
    <2>1. UNCHANGED <<todo, count, i, pc, cmd>>
      BY <1>4 DEF Client, HandleBuffer, Submit, AllocateBuffer, FreeBuffer, CallStateSet, CallFlush,
        CallPortDisable, CallPortEnable, Call, QueueBuffer, PostCommand, SetRealTime, Deinit, Destroy, handler
    <2> QED
      BY <1>2, <2>1
  <1>5. CASE CheckRun \/ Wait \/ Receive \/ NoMoreCommands
    BY <1>1, <1>5 DEF CheckRun, Wait, Receive, NoMoreCommands, Goto, handler
  <1>6. CASE CommandStep
    <2>1. CASE SameState \/ CompleteStateSet \/ IllegalStateSet \/ FinishIdle \/ FailStateSet \/ FinishLoaded
      BY <1>1, <2>1 DEF SameState, CompleteStateSet, IllegalStateSet, FinishIdle, FailStateSet, FinishLoaded,
        Answer, Goto
    <2>2. CASE FinishFlush \/ ClearFlush
      BY <1>1, <2>2 DEF FinishFlush, ClearFlush, Goto, handler
    <2>3. CASE BeginTransition
      <3>1. "all" \in PortArgs /\ todo' = PortsOf("all") /\ UNCHANGED <<count, i>>
        BY <2>3 DEF BeginTransition, PortArgs
      <3>2. pc' # "return"
        BY <2>3, Zenon DEF BeginTransition, Goto
      <3> QED
        BY <1>3, <3>1, <3>2
    <2>4. CASE BeginReturn \/ BeginEnable \/ AwaitDealloc
      <3>1. cmd # None /\ cmd.type # "StateSet"
        BY <2>4 DEF BeginReturn, BeginEnable, AwaitDealloc, Handling, CommandInv, Handlers
      <3>2. cmd.arg \in PortArgs
        BY <3>1, RequestFacts DEF CommandInv
      <3> QED
        BY <1>3, <2>4, <3>2 DEF BeginReturn, BeginEnable, AwaitDealloc, Goto
    <2>5. CASE PortDealloc \/ PortEnabled
      <3>1. todo \in Seq(Ports) /\ todo # <<>>
        BY <2>5 DEF PortDealloc, PortEnabled, TodoInv
      <3>2. Tail(todo) \in Seq(Ports)
        BY <3>1, HeadTailProperties
      <3>3. todo' = Tail(todo) /\ UNCHANGED <<count, i>>
        BY <2>5 DEF PortDealloc, PortEnabled
      <3>4. IF Tail(todo) = <<>> THEN pc' = "receive" ELSE pc' = pc /\ pc \in {"waitFree", "enable"}
        BY <2>5 DEF PortDealloc, PortEnabled, Answer, Goto
      <3> QED
        BY <3>2, <3>3, <3>4 DEF TodoInv
    <2>6. CASE ReturnHeld
      BY <2>6 DEF ReturnHeld, Goto, handler, TodoInv
    <2>7. CASE LockPort
      <3>1. Head(todo) \in Ports
        BY <2>7 DEF LockPort, TodoInv
      <3>2. Len(bufferqueue[Head(todo)]) \in Nat
        BY <3>1, LenProperties DEF PortsInv
      <3> QED
        BY <2>7, <3>2 DEF LockPort, Goto, TodoInv, ports
    <2>8. CASE ReturnNext
      <3>1. /\ Head(todo) \in Ports /\ count <= Len(bufferqueue[Head(todo)]) /\ count \in Nat
            /\ pc = "return" /\ pc' = pc /\ todo' = todo /\ count' = count /\ i' = i + 1 /\ i < count
        BY <2>8 DEF ReturnNext, TodoInv
      <3>2. ~Popped(Head(todo)) /\ ~Cleared(Head(todo))
        BY <3>1, ClearFrame DEF Popped, PopMask, PopFrame, PopInput, Cleared, ClearQueue, Goto
      <3>3. Len(bufferqueue[Head(todo)]) \in Nat
        BY <3>1, LenProperties DEF PortsInv
      <3>4. count <= Len(bufferqueue'[Head(todo)])
        BY <3>1, <3>2, <3>3, QueueSteps, QueueKept
      <3> QED
        BY <3>1, <3>4 DEF TodoInv
    <2>9. CASE ClearQueue
      <3>1. todo \in Seq(Ports) /\ todo # <<>>
        BY <2>9 DEF ClearQueue, TodoInv
      <3>2. Tail(todo) \in Seq(Ports)
        BY <3>1, HeadTailProperties
      <3> QED
        BY <2>9, <3>2 DEF ClearQueue, Goto, TodoInv
    <2> QED
      BY <1>6, <2>1, <2>2, <2>3, <2>4, <2>5, <2>6, <2>7, <2>8, <2>9 DEF CommandStep
  <1>7. CASE BufferStep
    BY <1>1, <1>7, BufferFrame DEF Processing
  <1>9. CASE PushFails \/ PostFault
    BY <1>2, <1>9, PushFrame, PostFrame
  <1>10. CASE Aborts \/ ReceiveFails \/ PopFault
    BY <1>1, <1>10, AbortsFrame, ReceiveFrame, PopFrameIs DEF DecodeInv
  <1>11. CASE ClearFails
    <2>1. todo \in Seq(Ports) /\ todo # <<>>
      BY <1>11, ClearFrame DEF TodoInv
    <2>2. Tail(todo) \in Seq(Ports)
      BY <2>1, HeadTailProperties
    <2>3. /\ todo' = Tail(todo) /\ count' = 0 /\ i' = 0
          /\ pc' = "returned" \/ (pc' = "held" /\ Tail(todo) # <<>>)
      BY <1>11, ClearFrame
    <2> QED
      BY <2>2, <2>3 DEF TodoInv
  <1>8. CASE UNCHANGED vars
    BY <1>2, <1>8 DEF vars, handler
  <1> QED
    BY <1>4, <1>5, <1>6, <1>7, <1>8, <1>9, <1>10, <1>11, FaultIs DEF Next, ThreadStep, Aborts

\* Away from the decoding, the buffers it works on are none.
LEMMA DecodeIdle ==
  ASSUME DecodeInv, UNCHANGED <<inbuf, slot>>, pc \notin Decoding, pc' \notin Decoding, pc' # "popMask"
  PROVE  DecodeInv'
  <1>1. inbuf = None /\ slot = None
    BY DEF DecodeInv, Decoding
  <1> QED
    BY <1>1 DEF DecodeInv, Decoding

LEMMA NextDecode ==
  ASSUME CommandInv, LabelsInv, PortsInv, TodoInv, DecodeInv, [Next]_vars
  PROVE  DecodeInv'
  <1>0. "in" \in Ports /\ "out" \in Ports /\ "pp" \in Ports
    BY DEF Ports
  <1>1. \A p \in Ports :
           ~Popped(p) /\ pc \notin {"return", "exited"} /\ bufferqueue[p] # <<>> =>
             bufferqueue'[p] # <<>> /\ Head(bufferqueue'[p]) = Head(bufferqueue[p])
    BY QueueSteps, QueueKept, ClearFrame DEF Cleared, ClearQueue
  <1>2. /\ inbuf # None /\ ~PopInput =>
             bufferqueue'["in"] # <<>> /\ Head(bufferqueue'["in"]) = inbuf
        /\ slot # None /\ ~PopFrame =>
             bufferqueue'["out"] # <<>> /\ Head(bufferqueue'["out"]) = slot
    <2>1. inbuf # None \/ slot # None => pc \notin {"return", "exited"}
      BY DEF DecodeInv, Decoding
    <2> QED
      BY <1>0, <1>1, <2>1 DEF DecodeInv, Popped, PopFrame, PopInput
  <1>3. ASSUME UNCHANGED <<inbuf, slot, pc, after>> PROVE DecodeInv'
    <2>1. ~PopMask /\ ~PopFrame /\ ~PopInput
      BY <1>3 DEF PopMask, PopFrame, PopInput, Goto, Leave, DecodeInv
    <2>2. pc = "popMask" => bufferqueue'["pp"] # <<>>
      BY <1>0, <1>1, <2>1 DEF Popped, DecodeInv
    <2> QED
      BY <1>2, <1>3, <2>1, <2>2 DEF DecodeInv
  <1>4. CASE Client
    <2>1. UNCHANGED <<inbuf, slot, pc, after>>
      BY <1>4 DEF Client, HandleBuffer, Submit, AllocateBuffer, FreeBuffer, CallStateSet, CallFlush,
        CallPortDisable, CallPortEnable, Call, QueueBuffer, PostCommand, SetRealTime, Deinit, Destroy, decoding
    <2> QED
      BY <1>3, <2>1
  <1>5. CASE CheckRun \/ Wait \/ Receive \/ NoMoreCommands
    <2>1. UNCHANGED <<inbuf, slot>> /\ pc \notin Decoding /\ pc' \notin Decoding /\ pc' # "popMask"
      BY <1>5 DEF CheckRun, Wait, Receive, NoMoreCommands, Goto, decoding, Decoding
    <2> QED
      BY <2>1, DecodeIdle
  <1>6. CASE CommandStep
    <2>1. CASE BeginTransition
      <3>1. pc' \in {"waitReady", "waitFree", "held"}
        BY <2>1, Zenon DEF BeginTransition, Goto
      <3>2. UNCHANGED <<inbuf, slot>> /\ pc = "dispatch"
        BY <2>1 DEF BeginTransition, Handling, Quiet, decoding
      <3> QED
        BY <3>1, <3>2, DecodeIdle DEF Decoding
    <2>2. CASE SameState \/ CompleteStateSet \/ IllegalStateSet \/ FinishIdle \/ FailStateSet \/ FinishLoaded
      <3>1. UNCHANGED <<inbuf, slot>> /\ pc \notin Decoding /\ pc' \notin Decoding /\ pc' # "popMask"
        BY <2>2 DEF SameState, CompleteStateSet, IllegalStateSet, FinishIdle, FailStateSet, FinishLoaded,
          Handling, Answer, Goto, Quiet, decoding, Decoding
      <3> QED
        BY <3>1, DecodeIdle
    <2>3. CASE BeginReturn \/ FinishFlush \/ ClearFlush \/ AwaitDealloc \/ PortDealloc \/ BeginEnable
               \/ PortEnabled
      <3>1. UNCHANGED <<inbuf, slot>> /\ pc \notin Decoding /\ pc' \notin Decoding /\ pc' # "popMask"
        BY <2>3 DEF BeginReturn, FinishFlush, ClearFlush, AwaitDealloc, PortDealloc, BeginEnable, PortEnabled,
          Handling, Answer, Goto, Quiet, decoding, Decoding
      <3> QED
        BY <3>1, DecodeIdle
    <2>4. CASE ReturnHeld \/ LockPort \/ ReturnNext \/ ClearQueue
      <3>1. UNCHANGED <<inbuf, slot>> /\ pc \notin Decoding /\ pc' \notin Decoding /\ pc' # "popMask"
        BY <2>4 DEF ReturnHeld, LockPort, ReturnNext, ClearQueue, Goto, Quiet, decoding, Decoding
      <3> QED
        BY <3>1, DecodeIdle
    <2> QED
      BY <1>6, <2>1, <2>2, <2>3, <2>4 DEF CommandStep
  <1>7. CASE BufferStep
    <2>0. inbuf \in InBuffers \cup {None} /\ slot \in OutBuffers \cup {None} /\ None \notin InBuffers
      BY NoneAssumption DEF DecodeInv, AllBuffers
    <2>1. CASE SetMask
      <3>1. UNCHANGED <<inbuf, slot, after>> /\ pc = "buffers" /\ pc' = "popMask" /\ bufferqueue["pp"] # <<>>
        BY <2>1 DEF SetMask, HasMask, Goto, decoding
      <3>2. bufferqueue'["pp"] # <<>>
        BY <1>0, <1>1, <3>1 DEF Popped, PopMask, PopFrame, PopInput
      <3> QED
        BY <3>1, <3>2 DEF DecodeInv, Decoding
    <2>2. CASE PopMask \/ NoMask \/ NoInput
      <3>1. UNCHANGED <<inbuf, slot>> /\ pc \notin Decoding /\ pc' \notin Decoding /\ pc' # "popMask"
        BY <2>2 DEF PopMask, NoMask, NoInput, Goto, decoding, Decoding
      <3> QED
        BY <3>1, DecodeIdle
    <2>3. CASE StartDecode
      <3>1. /\ bufferqueue["in"] # <<>> /\ inbuf' = Head(bufferqueue["in"]) /\ bufferqueue' = bufferqueue
            /\ slot' = slot /\ pc = "input" /\ pc' \in {"scan", "frames"}
        BY <2>3 DEF StartDecode, HasInput, Goto, ports
      <3>2. inbuf' \in InBuffers
        BY <1>0, <3>1, BuffersFacts, HeadTailProperties DEF PortsInv
      <3>3. slot = None
        BY <3>1 DEF DecodeInv
      <3> QED
        BY <2>0, <3>1, <3>2, <3>3 DEF DecodeInv, Decoding
    <2>4. CASE TakeOutput
      <3>1. /\ bufferqueue["out"] # <<>> /\ slot' = Head(bufferqueue["out"]) /\ bufferqueue' = bufferqueue
            /\ inbuf' = inbuf /\ pc = "getBuffer" /\ pc' = after /\ after' = after
        BY <2>4 DEF TakeOutput, Goto, ports
      <3>2. slot' \in OutBuffers
        BY <1>0, <3>1, BuffersFacts, HeadTailProperties DEF PortsInv
      <3> QED
        BY <2>0, <3>1, <3>2 DEF DecodeInv, Decoding
    <2>5. CASE ScanMore \/ ScanDone \/ DoWithout \/ NextFrame
      <3>1. ~PopInput /\ ~PopFrame
        BY <2>5 DEF ScanMore, ScanDone, DoWithout, NextFrame, PopInput, PopFrame
      <3> QED
        BY <1>2, <2>0, <2>5, <3>1 DEF ScanMore, ScanDone, DoWithout, NextFrame, Goto, DecodeInv, Decoding
    <2>6. CASE Overflow \/ DecodeData \/ DecodeInfo \/ DecodeErrorStream \/ CodecFails
      <3>1. ~PopInput /\ ~PopFrame
        BY <2>6 DEF Overflow, DecodeData, DecodeInfo, DecodeErrorStream, CodecFails, PopInput, PopFrame
      <3> QED
        BY <1>2, <2>0, <2>6, <3>1 DEF Overflow, DecodeData, DecodeInfo, DecodeErrorStream, CodecFails,
          Goto, Leave, DecodeInv, Decoding
    <2>7. CASE DrainFrames \/ GetFrame \/ NoMoreFrames
      <3>1. ~PopInput /\ ~PopFrame
        BY <2>7 DEF DrainFrames, GetFrame, NoMoreFrames, PopInput, PopFrame
      <3> QED
        BY <1>2, <2>0, <2>7, <3>1 DEF DrainFrames, GetFrame, NoMoreFrames, FramesEnd, Goto, DecodeInv, Decoding
    <2>8. CASE DispatchFrame \/ LastFrame \/ InputDone
      <3>1. ~PopInput /\ ~PopFrame
        BY <2>8 DEF DispatchFrame, LastFrame, InputDone, PopInput, PopFrame
      <3> QED
        BY <1>2, <2>0, <2>8, <3>1 DEF DispatchFrame, LastFrame, InputDone, Goto, decoding, DecodeInv, Decoding
    <2>9. CASE PopFrame
      <3>1. ~PopInput
        BY <2>9 DEF PopFrame, PopInput
      <3> QED
        BY <1>2, <2>0, <2>9, <3>1 DEF PopFrame, Goto, DecodeInv, Decoding
    <2>10. CASE PopInput
      BY <2>0, <2>10 DEF PopInput, Leave, Goto, DecodeInv, Decoding
    <2> QED
      BY <1>7, <2>1, <2>2, <2>3, <2>4, <2>5, <2>6, <2>7, <2>8, <2>9, <2>10 DEF BufferStep
  <1>9. CASE PushFails \/ PostFault
    BY <1>3, <1>9, PushFrame, PostFrame
  <1>10. CASE Aborts \/ ReceiveFails \/ ClearFails
    <2>1. UNCHANGED <<inbuf, slot>> /\ pc \notin Decoding /\ pc' \notin Decoding /\ pc' # "popMask"
      BY <1>10, AbortsFrame, ReceiveFrame, ClearFrame DEF Decoding
    <2> QED
      BY <2>1, DecodeIdle
  <1>11. CASE PopFault
    BY <1>11, PopFrameIs, NoneAssumption DEF DecodeInv, Decoding
  <1>8. CASE UNCHANGED vars
    BY <1>3, <1>8 DEF vars, decoding
  <1> QED
    BY <1>4, <1>5, <1>6, <1>7, <1>8, <1>9, <1>10, <1>11, FaultIs DEF Next, ThreadStep, Aborts

LEMMA NextUnits ==
  ASSUME CommandInv, LabelsInv, DecodeInv, UnitsInv, [Next]_vars
  PROVE  UnitsInv'
  <1>1. ASSUME UNCHANGED <<units, after>>, frames' \in 0..MaxFrames,
               pc' = pc \/ pc' \notin {"getBuffer", "decode"}
        PROVE  UnitsInv'
    BY <1>1 DEF UnitsInv
  <1>2. CASE Client
    <2>1. UNCHANGED <<units, frames, pc, after>>
      BY <1>2 DEF Client, HandleBuffer, Submit, AllocateBuffer, FreeBuffer, CallStateSet, CallFlush,
        CallPortDisable, CallPortEnable, Call, QueueBuffer, PostCommand, SetRealTime, Deinit, Destroy, decoding
    <2> QED
      BY <1>1, <2>1 DEF UnitsInv
  <1>3. CASE CheckRun \/ Wait \/ Receive \/ NoMoreCommands
    BY <1>1, <1>3 DEF CheckRun, Wait, Receive, NoMoreCommands, Goto, decoding, UnitsInv
  <1>4. CASE CommandStep
    <2>1. pc' \notin {"getBuffer", "decode"}
      <3>1. CASE BeginTransition
        BY <3>1, Zenon DEF BeginTransition, Goto
      <3>2. CASE SameState \/ CompleteStateSet \/ IllegalStateSet \/ FinishIdle \/ FailStateSet \/ FinishLoaded
                 \/ BeginReturn \/ FinishFlush \/ ClearFlush
        BY <3>2 DEF SameState, CompleteStateSet, IllegalStateSet, FinishIdle, FailStateSet, FinishLoaded,
          BeginReturn, FinishFlush, ClearFlush, Answer, Goto
      <3>3. CASE AwaitDealloc \/ PortDealloc \/ BeginEnable \/ PortEnabled \/ ReturnHeld \/ LockPort \/ ReturnNext
                 \/ ClearQueue
        BY <3>3 DEF AwaitDealloc, PortDealloc, BeginEnable, PortEnabled, ReturnHeld, LockPort, ReturnNext,
          ClearQueue, Answer, Goto
      <3> QED
        BY <1>4, <3>1, <3>2, <3>3 DEF CommandStep
    <2>2. UNCHANGED <<units, after>> /\ frames' \in {frames, 0}
      BY <1>4 DEF CommandStep, SameState, BeginTransition, CompleteStateSet, IllegalStateSet, FinishIdle,
        FailStateSet, FinishLoaded, BeginReturn, FinishFlush, ClearFlush, AwaitDealloc, PortDealloc,
        BeginEnable, PortEnabled, ReturnHeld, LockPort, ReturnNext, ClearQueue, Quiet, decoding
    <2> QED
      BY <1>1, <2>1, <2>2, BoundsAssumption DEF UnitsInv
  <1>5. CASE BufferStep
    <2> USE BoundsAssumption DEF UnitsInv, Goto, decoding
    <2>1. CASE SetMask \/ PopMask \/ NoMask \/ StartDecode \/ NoInput
      BY <2>1 DEF SetMask, PopMask, NoMask, StartDecode, NoInput
    <2>2. CASE ScanMore \/ ScanDone \/ TakeOutput \/ DoWithout
      BY <2>2 DEF ScanMore, ScanDone, TakeOutput, DoWithout
    <2>3. CASE Overflow \/ DecodeInfo \/ CodecFails
      BY <2>3 DEF Overflow, DecodeInfo, CodecFails, Leave
    <2>6. CASE DecodeData
      <3>1. units > 0 /\ units' = units - 1 /\ frames' \in frames..MaxFrames \cup {frames}
            /\ pc' \in {"scan", "frames"}
        BY <2>6 DEF DecodeData
      <3> QED
        BY <3>1
    <2>7. CASE DecodeErrorStream
      BY <2>7 DEF DecodeErrorStream
    <2>4. CASE NextFrame \/ DrainFrames \/ GetFrame \/ NoMoreFrames
      BY <2>4 DEF NextFrame, DrainFrames, GetFrame, NoMoreFrames, FramesEnd
    <2>5. CASE DispatchFrame \/ PopFrame \/ LastFrame \/ InputDone \/ PopInput
      BY <2>5 DEF DispatchFrame, PopFrame, LastFrame, InputDone, PopInput, Leave, DecodeInv
    <2> QED
      BY <1>5, <2>1, <2>2, <2>3, <2>4, <2>5, <2>6, <2>7 DEF BufferStep
  <1>7. CASE PushFails \/ PostFault \/ Aborts \/ ReceiveFails
    <2>1. UNCHANGED <<units, frames, after>> /\ (pc' = pc \/ pc' \in {"exited", "buffers"})
      BY <1>7, AbortsFrame, ReceiveFrame, PushFrame, PostFrame
    <2> QED
      BY <1>1, <2>1 DEF UnitsInv
  <1>9. CASE ClearFails
    BY <1>1, <1>9, ClearFrame DEF UnitsInv
  <1>8. CASE PopFault
    <2>1. /\ UNCHANGED frames /\ (UNCHANGED <<units, after>> \/ (units' = 0 /\ after' = "scan"))
          /\ pc' \in {"input", "top", after}
      BY <1>8, PopFrameIs
    <2>2. pc' = after => pc = "popFrame" \/ pc' \in {"input", "top"}
      BY <1>8, PopFrameIs
    <2>3. pc = "popFrame" => after \in {"scan", "frames"}
      BY DEF DecodeInv
    <2> QED
      BY <1>1, <2>1, <2>2, <2>3, BoundsAssumption DEF UnitsInv
  <1>6. CASE UNCHANGED vars
    BY <1>1, <1>6 DEF vars, decoding, UnitsInv
  <1> QED
    BY <1>2, <1>3, <1>4, <1>5, <1>6, <1>7, <1>8, <1>9, FaultIs DEF Next, ThreadStep, Aborts

-----------------------------------------------------------------------------
(* The events that are broken, and what has failed.                        *)

\* A queue whose pop failed keeps its one entry for ever: its event is broken, and
\* whoever would set or reset it waits.
FaultInv ==
  /\ broken \subseteq Ports \cup {"cmd"} /\ err \in BOOLEAN
  /\ unposted \subseteq Requests \cup {ExitLoop} /\ unpopped \subseteq Ports
  /\ \A p \in unpopped : p \in broken /\ Len(bufferqueue[p]) = 1

LEMMA InitFault == Init => FaultInv
  BY DEF Init, FaultInv

LEMMA StuckQueue ==
  ASSUME PortsInv, FaultInv, NEW p \in unpopped, QueueStep(p)
  PROVE  bufferqueue'[p] = bufferqueue[p]
  <1>1. p \in broken /\ Len(bufferqueue[p]) = 1 /\ bufferqueue[p] # <<>>
    BY DEF FaultInv
  <1> QED
    BY <1>1 DEF QueueStep

LEMMA NextFault ==
  ASSUME FaultInv, CommandInv, PortsInv, TodoInv, DecodeInv, [Next]_vars
  PROVE  FaultInv'
  <1>1. \A p \in unpopped : bufferqueue'[p] = bufferqueue[p]
    BY QueueSteps, StuckQueue DEF FaultInv
  <1>2. CASE UNCHANGED <<broken, err, unposted, unpopped>>
    BY <1>1, <1>2 DEF FaultInv
  <1>3. CASE PushFails
    BY <1>3, PushFrame DEF FaultInv, PortsInv
  <1>4. CASE PostFault
    BY <1>4, PostFrame DEF FaultInv, CommandInv
  <1>5. CASE Aborts \/ ReceiveFails
    BY <1>5, AbortsFrame, ReceiveFrame DEF FaultInv
  <1>6. CASE ClearFails
    <2>1. Head(todo) \in Ports
      BY <1>6, ClearFrame DEF TodoInv
    <2> QED
      BY <1>1, <1>6, <2>1, ClearFrame DEF FaultInv
  <1>7. CASE PopFault
    BY <1>7, PopFrameIs DEF FaultInv
  <1> QED
    BY <1>2, <1>3, <1>4, <1>5, <1>6, <1>7, FaultedFrame, FaultIs

-----------------------------------------------------------------------------
(* The types, and the changes and flushes under way.                       *)

ThreadInv == CommandInv /\ StateInv /\ FlagsInv /\ LabelsInv /\ EnabledInv
             /\ PortsInv /\ TodoInv /\ DecodeInv /\ UnitsInv /\ FaultInv

LEMMA InitThread == Init => ThreadInv
  BY InitCommand, InitState, InitPorts, InitFault DEF ThreadInv

LEMMA NextThread == ThreadInv /\ [Next]_vars => ThreadInv'
  BY NextCommand, NextState, NextFlags, NextLabels, NextEnabled, NextPorts, NextTodo, NextDecode, NextUnits,
     NextFault
  DEF ThreadInv

\* The bookkeeping of decoder_thread_main and its handlers: a command is handled at
\* the labels of its handler only, the buffers the thread works on head their
\* queues until it pops them, and it returns no more of them than are queued.
THEOREM ThreadInvariant == Spec => []ThreadInv
  BY InitThread, NextThread, PTL DEF Spec

LEMMA ThreadTypes == ThreadInv => TypeOK
  <1> SUFFICES ASSUME ThreadInv PROVE TypeOK
    OBVIOUS
  <1> USE DEF ThreadInv
  <1>1. state \in States /\ statetrans \in States /\ run \in BOOLEAN
    BY DEF StateInv
  <1>2. {portReconfigPending, outputPortFlushPending, dispatchOutputImmediately} \subseteq BOOLEAN
    BY DEF FlagsInv
  <1>3. bEnabled \in [Ports -> BOOLEAN] /\ bPopulated \in [Ports -> BOOLEAN]
    BY DEF EnabledInv
  <1>4. /\ held \in OutBuffers \cup {None}
        /\ \A p \in Ports : buffers[p] \subseteq Buffers[p] /\ own[p] \subseteq Buffers[p]
        /\ \A p \in Ports : bufferqueue[p] \in Seq(Buffers[p])
        /\ submitting \in [port : Ports, buffer : AllBuffers] \cup {None}
    BY DEF PortsInv
  <1>5. cmdQ \in Seq(Requests \cup {ExitLoop}) /\ cmd \in Requests \cup {None} /\ calling \in Requests \cup {None}
    BY DEF CommandInv
  <1>6. pc \in Labels /\ signals \subseteq {"cmd", "in", "pp"}
    BY DEF LabelsInv
  <1>7. todo \in Seq(Ports) /\ count \in Nat /\ i \in 0..count
    BY DEF TodoInv
  <1>8. inbuf \in InBuffers \cup {None} /\ slot \in OutBuffers \cup {None}
    BY DEF DecodeInv
  <1>9. eos \in BOOLEAN /\ codecHasFrame \in BOOLEAN /\ caller \in {"decode", "resume", "eos"}
    BY DEF FlagsInv
  <1>10. units \in 0..MaxUnits /\ frames \in 0..MaxFrames /\ after \in {"scan", "decode", "getFrame", "frames"}
    BY DEF UnitsInv, CommandInv
  <1>11. sent \in 0..MaxCommands /\ deinit \in {"no", "joining", "done"}
    BY DEF StateInv
  <1>12. /\ broken \subseteq Ports \cup {"cmd"} /\ err \in BOOLEAN
         /\ unposted \subseteq Requests \cup {ExitLoop} /\ unpopped \subseteq Ports
    BY DEF FaultInv
  <1> HIDE DEF ThreadInv
  <1> QED
    BY <1>1, <1>2, <1>3, <1>4, <1>5, <1>6, <1>7, <1>8, <1>9, <1>10, <1>11, <1>12, Zenon DEF TypeOK

\* Every variable keeps its type, whatever the client does (decoder.c).
THEOREM TypeCorrect == Spec => []TypeOK
  BY ThreadInvariant, ThreadTypes, PTL

\* statetrans differs from state only while the command that set it is pending, or
\* after that command could not be posted: SendCommand(StateSet) never refuses a
\* change otherwise (decoder.c:584-593).
THEOREM TransitionIsTracked == Spec => []TransitionTracked
  <1>1. Init => TransitionTracked
    BY DEF Init, TransitionTracked
  <1>2. ThreadInv /\ TransitionTracked /\ [Next]_vars => TransitionTracked'
    BY NextTransition DEF ThreadInv
  <1> QED
    BY <1>1, <1>2, ThreadInvariant, PTL DEF Spec

\* outputPortFlushPending is set only while a flush of the output port is pending,
\* or about to be cleared after its answer, or when one could not be posted (set at
\* decoder.c:607, cleared at decoder.c:4652 and 4680).
THEOREM FlushIsTracked == Spec => []FlushTracked
  <1>1. Init => FlushTracked
    BY DEF Init, FlushTracked
  <1>2. ThreadInv /\ FlushTracked /\ [Next]_vars => FlushTracked'
    BY NextFlush DEF ThreadInv
  <1> QED
    BY <1>1, <1>2, ThreadInvariant, PTL DEF Spec

-----------------------------------------------------------------------------
(* Queues whose first r entries are returned: what is left in them.        *)

LeftIn(q, r, b) == \E k \in r + 1 .. Len(q) : q[k] = b
Distinct(q, r)  == \A j, k \in r + 1 .. Len(q) : q[j] = q[k] => j = k

\* A buffer that was not left in a queue joins what is left at its end.
LEMMA LeftAppend ==
  ASSUME NEW S, NEW q \in Seq(S), NEW r \in 0..Len(q), NEW x \in S
  PROVE  /\ \A b : LeftIn(Append(q, x), r, b) <=> LeftIn(q, r, b) \/ b = x
         /\ Distinct(q, r) /\ ~LeftIn(q, r, x) => Distinct(Append(q, x), r)
         /\ r \in 0..Len(Append(q, x))
  <1> DEFINE n == Len(q)  t == Append(q, x)
  <1>1. n \in Nat /\ r \in 0..n /\ Len(t) = n + 1 /\ t[n + 1] = x /\ \A k \in 1..n : t[k] = q[k]
    BY AppendFacts
  <1>2. \A b : LeftIn(q, r, b) <=> \E k \in r + 1 .. n : q[k] = b
    BY DEF LeftIn
  <1>3. \A b : LeftIn(t, r, b) <=> \E k \in r + 1 .. n + 1 : t[k] = b
    BY <1>1 DEF LeftIn
  <1>4. Distinct(q, r) <=> \A j, k \in r + 1 .. n : q[j] = q[k] => j = k
    BY DEF Distinct
  <1>5. Distinct(t, r) <=> \A j, k \in r + 1 .. n + 1 : t[j] = t[k] => j = k
    BY <1>1 DEF Distinct
  <1> HIDE DEF n, t
  <1>6. \A b : LeftIn(t, r, b) <=> LeftIn(q, r, b) \/ b = x
    BY <1>1, <1>2, <1>3
  <1>7. Distinct(q, r) /\ ~LeftIn(q, r, x) => Distinct(t, r)
    BY <1>1, <1>2, <1>4, <1>5
  <1> QED
    BY <1>1, <1>6, <1>7 DEF n, t

\* The first entry that is left is returned.
LEMMA LeftAdvance ==
  ASSUME NEW S, NEW q \in Seq(S), NEW r \in 0..Len(q), r < Len(q), Distinct(q, r)
  PROVE  /\ \A b : LeftIn(q, r + 1, b) <=> LeftIn(q, r, b) /\ b # q[r + 1]
         /\ LeftIn(q, r, q[r + 1]) /\ Distinct(q, r + 1) /\ r + 1 \in 0..Len(q)
  <1>1. Len(q) \in Nat
    BY LenProperties
  <1> QED
    BY <1>1 DEF LeftIn, Distinct

\* The returned entry at the head is popped.
LEMMA LeftTail ==
  ASSUME NEW S, NEW q \in Seq(S), q # <<>>
  PROVE  /\ \A b : LeftIn(Tail(q), 0, b) <=> LeftIn(q, 1, b)
         /\ Distinct(q, 1) => Distinct(Tail(q), 0)
         /\ 0 \in 0..Len(Tail(q))
  <1> DEFINE n == Len(q)  t == Tail(q)
  <1>1. n \in Nat /\ n >= 1 /\ Len(t) = n - 1 /\ \A k \in 1..n - 1 : t[k] = q[k + 1]
    BY HeadTailProperties, LenProperties, EmptySeq
  <1>2. \A b : LeftIn(q, 1, b) <=> \E k \in 2..n : q[k] = b
    BY DEF LeftIn
  <1>3. \A b : LeftIn(t, 0, b) <=> \E k \in 1..n - 1 : t[k] = b
    BY <1>1 DEF LeftIn
  <1>4. Distinct(q, 1) <=> \A j, k \in 2..n : q[j] = q[k] => j = k
    BY DEF Distinct
  <1>5. Distinct(t, 0) <=> \A j, k \in 1..n - 1 : t[j] = t[k] => j = k
    BY <1>1 DEF Distinct
  <1> HIDE DEF n, t
  <1>6. \A k \in 2..n : k - 1 \in 1..n - 1 /\ t[k - 1] = q[k]
    BY <1>1
  <1>7. \A k \in 1..n - 1 : k + 1 \in 2..n /\ t[k] = q[k + 1]
    BY <1>1
  <1>8. \A b : LeftIn(t, 0, b) <=> LeftIn(q, 1, b)
    BY <1>2, <1>3, <1>6, <1>7
  <1>9. Distinct(q, 1) => Distinct(t, 0)
    BY <1>1, <1>4, <1>5, <1>7
  <1> QED
    BY <1>1, <1>8, <1>9 DEF n, t

LEMMA LeftNothing ==
  ASSUME NEW S, NEW q \in Seq(S)
  PROVE  \A b : ~LeftIn(q, Len(q), b)
  <1>1. Len(q) \in Nat
    BY LenProperties
  <1> QED
    BY <1>1 DEF LeftIn

LEMMA LeftEmpty == /\ \A b : ~LeftIn(<<>>, 0, b)
                   /\ Distinct(<<>>, 0) /\ 0 \in 0..Len(<<>>)
  BY DEF LeftIn, Distinct

-----------------------------------------------------------------------------
(* Owners of buffers.                                                      *)

\* A client that never resubmits from a callback, nor calls DeInit.
Strict == ~Reentrant /\ ~Deinits

Called(p, b) == submitting = [port |-> p, buffer |-> b]
Queued(p, b) == LeftIn(bufferqueue[p], Returned(p), b)
Kept(p, b)   == p = "out" /\ held = b

\* At most one of the client, a call, the queue and held owns a buffer, which is
\* allocated then; and one does, if the client is strict.
Sole(c, s, q, h, a) ==
  /\ c \/ s \/ q \/ h => a
  /\ ~(c /\ s) /\ ~(c /\ q) /\ ~(c /\ h) /\ ~(s /\ q) /\ ~(s /\ h) /\ ~(q /\ h)
  /\ Strict /\ a => c \/ s \/ q \/ h

OwnerInv ==
  /\ \A p \in Ports : Returned(p) \in 0..Len(bufferqueue[p]) /\ Distinct(bufferqueue[p], Returned(p))
  /\ \A p \in Ports \ unpopped : \A b \in Buffers[p] :
        Sole(b \in own[p], Called(p, b), Queued(p, b), Kept(p, b), b \in buffers[p])

\* What the deferred steps rely on: nothing joins a locked queue, unless from a
\* callback, and DeInit finds no call in progress.
LockInv ==
  /\ ~Reentrant /\ pc = "return" => count = Len(bufferqueue[Head(todo)])
  /\ deinit # "no" => Deinits /\ submitting = None

ReturnLabels == {"return", "popFrame", "popInput", "popMask"}

LEMMA ReturnedIs ==
  ASSUME NEW p \in Ports
  PROVE  /\ pc \notin ReturnLabels => Returned(p) = 0
         /\ pc = "return" => Returned(p) = IF p = Head(todo) THEN i ELSE 0
         /\ pc = "popFrame" => Returned(p) = IF p = "out" THEN 1 ELSE 0
         /\ pc = "popInput" => Returned(p) = IF p = "in" THEN 1 ELSE 0
         /\ pc = "popMask" => Returned(p) = IF p = "pp" THEN 1 ELSE 0
  BY Zenon DEF Returned, ReturnLabels

LEMMA ReturnedNext ==
  ASSUME NEW p \in Ports
  PROVE  /\ pc' \notin ReturnLabels => Returned(p)' = 0
         /\ pc' = "return" => Returned(p)' = IF p = Head(todo') THEN i' ELSE 0
         /\ pc' = "popFrame" => Returned(p)' = IF p = "out" THEN 1 ELSE 0
         /\ pc' = "popInput" => Returned(p)' = IF p = "in" THEN 1 ELSE 0
         /\ pc' = "popMask" => Returned(p)' = IF p = "pp" THEN 1 ELSE 0
         /\ UNCHANGED <<pc, todo, i>> => Returned(p)' = Returned(p)
  <1>1. UNCHANGED <<pc, todo, i>> => Returned(p)' = Returned(p)
    BY DEF Returned
  <1> QED
    BY <1>1, Zenon DEF Returned, ReturnLabels

LEMMA OwnerFacts ==
  ASSUME OwnerInv, PortsInv, NEW p \in Ports
  PROVE  /\ bufferqueue[p] \in Seq(Buffers[p]) /\ Len(bufferqueue[p]) \in Nat
         /\ Returned(p) \in 0..Len(bufferqueue[p]) /\ Distinct(bufferqueue[p], Returned(p))
         /\ p \notin unpopped => \A b \in Buffers[p] :
              Sole(b \in own[p], Called(p, b), Queued(p, b), Kept(p, b), b \in buffers[p])
  <1>1. bufferqueue[p] \in Seq(Buffers[p])
    BY DEF PortsInv
  <1> QED
    BY <1>1, LenProperties DEF OwnerInv

\* A port that a step leaves alone keeps its owners.
LEMMA SamePort ==
  ASSUME OwnerInv, NEW p \in Ports, bufferqueue'[p] = bufferqueue[p], Returned(p)' = Returned(p),
         own'[p] = own[p], buffers'[p] = buffers[p], submitting' = submitting,
         p = "out" => held' = held
  PROVE  /\ Returned(p)' \in 0..Len(bufferqueue'[p]) /\ Distinct(bufferqueue'[p], Returned(p)')
         /\ p \notin unpopped => \A b \in Buffers[p] :
              Sole(b \in own'[p], Called(p, b)', Queued(p, b)', Kept(p, b)', b \in buffers'[p])
  <1>1. Returned(p)' \in 0..Len(bufferqueue'[p]) /\ Distinct(bufferqueue'[p], Returned(p)')
    BY DEF OwnerInv
  <1>2. ASSUME p \notin unpopped, NEW b \in Buffers[p]
        PROVE  Sole(b \in own'[p], Called(p, b)', Queued(p, b)', Kept(p, b)', b \in buffers'[p])
    <2>1. (Called(p, b)' <=> Called(p, b)) /\ (Queued(p, b)' <=> Queued(p, b)) /\ (Kept(p, b)' <=> Kept(p, b))
      BY DEF Called, Queued, Kept
    <2>2. Sole(b \in own[p], Called(p, b), Queued(p, b), Kept(p, b), b \in buffers[p])
      BY <1>2 DEF OwnerInv
    <2> QED
      BY <2>1, <2>2 DEF Sole
  <1> QED
    BY <1>1, <1>2

\* The primed invariant, port by port.
LEMMA OwnerNext ==
  ASSUME unpopped \subseteq unpopped', \A p \in Ports :
           /\ Returned(p)' \in 0..Len(bufferqueue'[p]) /\ Distinct(bufferqueue'[p], Returned(p)')
           /\ p \notin unpopped => \A b \in Buffers[p] :
                Sole(b \in own'[p], Called(p, b)', Queued(p, b)', Kept(p, b)', b \in buffers'[p])
  PROVE  OwnerInv'
  BY DEF OwnerInv

LEMMA OwnerSame ==
  ASSUME unpopped \subseteq unpopped', OwnerInv, UNCHANGED <<buffers, own, bufferqueue, submitting, held>>,
         \A p \in Ports : Returned(p)' = Returned(p)
  PROVE  OwnerInv'
  BY SamePort, OwnerNext

\* A callback for a buffer that was held, or is the next of its queue: the
\* client gets it, or queues it again.
LEMMA Handover ==
  ASSUME unpopped \subseteq unpopped', FaultInv, OwnerInv, PortsInv, NEW p \in Ports, NEW x \in Buffers[p], Callback(p, x),
         UNCHANGED <<buffers, submitting>>,
         \A o \in Ports : o # p => Returned(o)' = Returned(o),
         \/ p = "out" /\ held = x /\ held' = None /\ Returned(p)' = Returned(p)
         \/ /\ held' = held /\ Returned(p) < Len(bufferqueue[p])
            /\ x = bufferqueue[p][Returned(p) + 1] /\ Returned(p)' = Returned(p) + 1
  PROVE  OwnerInv'
  <1> DEFINE q == bufferqueue[p]  r == Returned(p)
  <1>1. \/ own'[p] = own[p] \cup {x} /\ bufferqueue'[p] = q
        \/ own'[p] = own[p] /\ Reentrant /\ bufferqueue'[p] = Append(q, x) /\ p \notin unpopped
    BY CallbackFacts DEF FaultInv
  <1>2. \A o \in Ports : o # p => own'[o] = own[o] /\ bufferqueue'[o] = bufferqueue[o]
    BY CallbackFacts
  <1>3. q \in Seq(Buffers[p]) /\ Len(q) \in Nat /\ r \in 0..Len(q) /\ Distinct(q, r)
    BY OwnerFacts
  <1>4. ASSUME NEW o \in Ports, o # p
        PROVE  /\ Returned(o)' \in 0..Len(bufferqueue'[o]) /\ Distinct(bufferqueue'[o], Returned(o)')
               /\ o \notin unpopped => \A b \in Buffers[o] :
                    Sole(b \in own'[o], Called(o, b)', Queued(o, b)', Kept(o, b)', b \in buffers'[o])
    BY <1>2, <1>4, SamePort
  <1>5. x # None /\ \A b \in Buffers[p] : b # None
    BY BuffersFacts
  <1>6. /\ \A b \in Buffers[p] : Called(p, b)' <=> Called(p, b)
        /\ p \notin unpopped => \A b \in Buffers[p] :
              Sole(b \in own[p], Called(p, b), Queued(p, b), Kept(p, b), b \in buffers[p])
    BY OwnerFacts DEF Called
  <1>7. CASE p = "out" /\ held = x /\ held' = None /\ Returned(p)' = Returned(p)
    <2>1. \A b \in Buffers[p] : (Kept(p, b) <=> b = x) /\ ~Kept(p, b)'
      BY <1>5, <1>7 DEF Kept
    <2>2. p \notin unpopped => ~LeftIn(q, r, x)
      BY <1>6, <2>1 DEF Sole, Queued
    <2>3. CASE own'[p] = own[p] \cup {x} /\ bufferqueue'[p] = q
      <3>1. \A b \in Buffers[p] : (Queued(p, b)' <=> Queued(p, b)) /\ (b \in own'[p] <=> b \in own[p] \/ b = x)
        BY <1>7, <2>3 DEF Queued
      <3>2. p \notin unpopped => \A b \in Buffers[p] :
              Sole(b \in own'[p], Called(p, b)', Queued(p, b)', Kept(p, b)', b \in buffers'[p])
        BY <1>6, <2>1, <3>1 DEF Sole
      <3>3. Returned(p)' \in 0..Len(bufferqueue'[p]) /\ Distinct(bufferqueue'[p], Returned(p)')
        BY <1>3, <1>7, <2>3
      <3> QED
        BY <1>4, <3>2, <3>3, OwnerNext
    <2>4. CASE own'[p] = own[p] /\ Reentrant /\ bufferqueue'[p] = Append(q, x) /\ p \notin unpopped
      <3>1. \A b \in Buffers[p] : (Queued(p, b)' <=> Queued(p, b) \/ b = x) /\ (b \in own'[p] <=> b \in own[p])
        BY <1>3, <1>7, <2>4, LeftAppend DEF Queued
      <3>2. p \notin unpopped => \A b \in Buffers[p] :
              Sole(b \in own'[p], Called(p, b)', Queued(p, b)', Kept(p, b)', b \in buffers'[p])
        BY <1>6, <2>1, <3>1 DEF Sole
      <3>3. Returned(p)' \in 0..Len(bufferqueue'[p]) /\ Distinct(bufferqueue'[p], Returned(p)')
        BY <1>3, <1>7, <2>2, <2>4, LeftAppend
      <3> QED
        BY <1>4, <3>2, <3>3, OwnerNext
    <2> QED
      BY <1>1, <2>3, <2>4
  <1>8. CASE held' = held /\ r < Len(q) /\ x = q[r + 1] /\ Returned(p)' = r + 1
    <2>1. \A b \in Buffers[p] : Kept(p, b)' <=> Kept(p, b)
      BY <1>8 DEF Kept
    <2>2. /\ \A b \in Buffers[p] : LeftIn(q, r + 1, b) <=> LeftIn(q, r, b) /\ b # x
          /\ LeftIn(q, r, x) /\ Distinct(q, r + 1) /\ r + 1 \in 0..Len(q)
      BY <1>3, <1>8, LeftAdvance
    <2>3. CASE own'[p] = own[p] \cup {x} /\ bufferqueue'[p] = q
      <3>1. \A b \in Buffers[p] : /\ Queued(p, b)' <=> Queued(p, b) /\ b # x
                                  /\ b \in own'[p] <=> b \in own[p] \/ b = x
        BY <1>8, <2>2, <2>3 DEF Queued
      <3>2. Queued(p, x)
        BY <2>2 DEF Queued
      <3>3. p \notin unpopped => \A b \in Buffers[p] :
              Sole(b \in own'[p], Called(p, b)', Queued(p, b)', Kept(p, b)', b \in buffers'[p])
        BY <1>6, <2>1, <3>1, <3>2 DEF Sole
      <3>4. Returned(p)' \in 0..Len(bufferqueue'[p]) /\ Distinct(bufferqueue'[p], Returned(p)')
        BY <1>8, <2>2, <2>3
      <3> QED
        BY <1>4, <3>3, <3>4, OwnerNext
    <2>4. CASE own'[p] = own[p] /\ Reentrant /\ bufferqueue'[p] = Append(q, x) /\ p \notin unpopped
      <3>1. ~LeftIn(q, r + 1, x)
        BY <2>2
      <3>2. /\ \A b : LeftIn(Append(q, x), r + 1, b) <=> LeftIn(q, r + 1, b) \/ b = x
            /\ Distinct(Append(q, x), r + 1) /\ r + 1 \in 0..Len(Append(q, x))
        BY <1>3, <2>2, <3>1, LeftAppend
      <3>3. \A b \in Buffers[p] : (Queued(p, b)' <=> Queued(p, b)) /\ (b \in own'[p] <=> b \in own[p])
        BY <1>8, <2>2, <2>4, <3>2 DEF Queued
      <3>4. p \notin unpopped => \A b \in Buffers[p] :
              Sole(b \in own'[p], Called(p, b)', Queued(p, b)', Kept(p, b)', b \in buffers'[p])
        BY <1>6, <2>1, <3>3 DEF Sole
      <3>5. Returned(p)' \in 0..Len(bufferqueue'[p]) /\ Distinct(bufferqueue'[p], Returned(p)')
        BY <1>8, <2>4, <3>2
      <3> QED
        BY <1>4, <3>4, <3>5, OwnerNext
    <2> QED
      BY <1>1, <2>3, <2>4
  <1> QED
    BY <1>7, <1>8

LEMMA CalledFacts ==
  ASSUME NEW p \in Ports, NEW b \in Buffers[p], Called(p, b)
  PROVE  submitting # None
  BY NoneAssumption, BuffersFacts DEF Called

\* The client's calls move a buffer between its hands, a call and the queue.
LEMMA SubmitOwner ==
  ASSUME unpopped \subseteq unpopped', OwnerInv, PortsInv, NEW p \in Ports, NEW x \in Buffers[p], Submit(p, x)
  PROVE  OwnerInv'
  <1>1. /\ UNCHANGED <<buffers, bufferqueue, held>> /\ \A o \in Ports : Returned(o)' = Returned(o)
        /\ submitting = None /\ submitting' = [port |-> p, buffer |-> x] /\ x \in own[p]
        /\ own' = [own EXCEPT ![p] = @ \ {x}]
    BY ReturnedNext DEF Submit, ports, handler
  <1>2. own'[p] = own[p] \ {x} /\ \A o \in Ports : o # p => own'[o] = own[o]
    BY <1>1 DEF PortsInv
  <1>3. \A o \in Ports : \A b \in Buffers[o] : ~Called(o, b)
    BY <1>1, CalledFacts
  <1>4. ASSUME NEW o \in Ports, o \notin unpopped, NEW b \in Buffers[o]
        PROVE  Sole(b \in own'[o], Called(o, b)', Queued(o, b)', Kept(o, b)', b \in buffers'[o])
    <2>1. Sole(b \in own[o], Called(o, b), Queued(o, b), Kept(o, b), b \in buffers[o])
      BY <1>4, OwnerFacts
    <2>2. (Queued(o, b)' <=> Queued(o, b)) /\ (Kept(o, b)' <=> Kept(o, b))
      BY <1>1 DEF Queued, Kept
    <2>3. Called(o, b)' <=> o = p /\ b = x
      BY <1>1 DEF Called
    <2>4. b \in own'[o] <=> b \in own[o] /\ ~(o = p /\ b = x)
      BY <1>2
    <2>5. o = p /\ b = x => b \in own[o]
      BY <1>1
    <2> QED
      BY <1>1, <1>3, <2>1, <2>2, <2>3, <2>4, <2>5 DEF Sole
  <1>5. \A o \in Ports : Returned(o)' \in 0..Len(bufferqueue'[o]) /\ Distinct(bufferqueue'[o], Returned(o)')
    BY <1>1 DEF OwnerInv
  <1> QED
    BY <1>4, <1>5, OwnerNext

\* A call that fails gives its buffer back to the client.
LEMMA GiveBackOwner ==
  ASSUME unpopped \subseteq unpopped', OwnerInv, PortsInv, submitting # None, submitting' = None,
         own' = [own EXCEPT ![submitting.port] = @ \cup {submitting.buffer}],
         UNCHANGED <<buffers, bufferqueue, held, pc, todo, i>>
  PROVE  OwnerInv'
  <1> DEFINE p == submitting.port  x == submitting.buffer
  <1>1. p \in Ports /\ x \in Buffers[p] /\ submitting = [port |-> p, buffer |-> x]
    BY DEF PortsInv
  <1>2. \A o \in Ports : own'[o] = IF o = p THEN own[o] \cup {x} ELSE own[o]
    BY <1>1 DEF PortsInv
  <1> HIDE DEF p, x
  <1>3. \A o \in Ports : Returned(o)' = Returned(o)
    BY ReturnedNext
  <1>4. \A o \in Ports : \A b \in Buffers[o] : Called(o, b) <=> o = p /\ b = x
    BY <1>1 DEF Called
  <1>5. \A o \in Ports : \A b \in Buffers[o] : ~Called(o, b)'
    BY NoneAssumption, BuffersFacts DEF Called
  <1>6. ASSUME NEW o \in Ports, o \notin unpopped, NEW b \in Buffers[o]
        PROVE  Sole(b \in own'[o], Called(o, b)', Queued(o, b)', Kept(o, b)', b \in buffers'[o])
    <2>1. Sole(b \in own[o], Called(o, b), Queued(o, b), Kept(o, b), b \in buffers[o])
      BY <1>6, OwnerFacts
    <2>2. (Kept(o, b)' <=> Kept(o, b)) /\ (Queued(o, b)' <=> Queued(o, b))
      BY <1>3 DEF Kept, Queued
    <2>3. b \in own'[o] <=> b \in own[o] \/ Called(o, b)
      <3>1. o = p \/ o # p
        OBVIOUS
      <3>2. o = p => own'[o] = own[o] \cup {x}
        BY <1>2
      <3>3. o # p => own'[o] = own[o]
        BY <1>2
      <3>4. Called(o, b) <=> o = p /\ b = x
        BY <1>4, <1>6
      <3> QED
        BY <3>1, <3>2, <3>3, <3>4
    <2> QED
      BY <1>5, <2>1, <2>2, <2>3 DEF Sole
  <1>7. \A o \in Ports : Returned(o)' \in 0..Len(bufferqueue'[o]) /\ Distinct(bufferqueue'[o], Returned(o)')
    BY <1>3 DEF OwnerInv
  <1> QED
    BY <1>6, <1>7, OwnerNext

LEMMA QueueBufferOwner ==
  ASSUME unpopped \subseteq unpopped', FaultInv, OwnerInv, PortsInv, QueueBuffer
  PROVE  OwnerInv'
  <1> DEFINE p == submitting.port  x == submitting.buffer
  <1>0. SUFFICES ASSUME x \in buffers[p] PROVE OwnerInv'
    <2>1. ASSUME x \notin buffers[p] PROVE OwnerInv'
      BY <2>1, GiveBackOwner DEF QueueBuffer, handler
    <2> QED
      BY <2>1
  <1>1. /\ p \in Ports /\ x \in Buffers[p] /\ submitting = [port |-> p, buffer |-> x] /\ submitting' = None
    BY DEF QueueBuffer, PortsInv
  <1>2. /\ UNCHANGED <<buffers, held>> /\ \A o \in Ports : Returned(o)' = Returned(o)
    BY ReturnedNext DEF QueueBuffer, handler
  <1>3. /\ x \in buffers[p] /\ UNCHANGED own /\ p \notin unpopped
        /\ bufferqueue' = [bufferqueue EXCEPT ![p] = Append(@, x)]
    BY <1>0 DEF QueueBuffer, FaultInv
  <1> HIDE DEF p, x
  <1>4. \A o \in Ports : \A b \in Buffers[o] : (Called(o, b) <=> o = p /\ b = x) /\ ~Called(o, b)'
    <2>1. \A o \in Ports : \A b \in Buffers[o] : Called(o, b) <=> o = p /\ b = x
      BY <1>1 DEF Called
    <2>2. \A o \in Ports : \A b \in Buffers[o] : ~Called(o, b)'
      BY <1>1, NoneAssumption, BuffersFacts DEF Called
    <2> QED
      BY <2>1, <2>2
  <1>5. ~LeftIn(bufferqueue[p], Returned(p), x)
    <2>1. Sole(x \in own[p], Called(p, x), Queued(p, x), Kept(p, x), x \in buffers[p])
      BY <1>1, <1>3, OwnerFacts
    <2> QED
      BY <1>1, <1>4, <2>1 DEF Sole, Queued
  <1>6. /\ bufferqueue'[p] = Append(bufferqueue[p], x)
        /\ \A o \in Ports : o # p => bufferqueue'[o] = bufferqueue[o]
    BY <1>1, <1>3 DEF PortsInv
  <1>7. /\ \A b : LeftIn(bufferqueue'[p], Returned(p), b) <=> LeftIn(bufferqueue[p], Returned(p), b) \/ b = x
        /\ Distinct(bufferqueue'[p], Returned(p)) /\ Returned(p) \in 0..Len(bufferqueue'[p])
    BY <1>1, <1>5, <1>6, OwnerFacts, LeftAppend
  <1>8. \A o \in Ports : Returned(o)' \in 0..Len(bufferqueue'[o]) /\ Distinct(bufferqueue'[o], Returned(o)')
    BY <1>2, <1>6, <1>7 DEF OwnerInv
  <1>9. ASSUME NEW o \in Ports, o \notin unpopped, NEW b \in Buffers[o]
        PROVE  Sole(b \in own'[o], Called(o, b)', Queued(o, b)', Kept(o, b)', b \in buffers'[o])
    <2>1. Sole(b \in own[o], Called(o, b), Queued(o, b), Kept(o, b), b \in buffers[o])
      BY <1>9, OwnerFacts
    <2>2. (Kept(o, b)' <=> Kept(o, b)) /\ (b \in own'[o] <=> b \in own[o]) /\ (b \in buffers'[o] <=> b \in buffers[o])
      BY <1>2, <1>3 DEF Kept
    <2>3. Queued(o, b)' <=> Queued(o, b) \/ (o = p /\ b = x)
      BY <1>2, <1>6, <1>7 DEF Queued
    <2> QED
      BY <1>3, <1>4, <2>1, <2>2, <2>3 DEF Sole
  <1> QED
    BY <1>8, <1>9, OwnerNext

LEMMA AllocateOwner ==
  ASSUME unpopped \subseteq unpopped', OwnerInv, PortsInv, NEW p \in Ports, NEW x \in Buffers[p],
         AllocateBuffer(p, x) \/ FreeBuffer(p, x)
  PROVE  OwnerInv'
  <1>1. UNCHANGED <<submitting, bufferqueue, held>> /\ \A o \in Ports : Returned(o)' = Returned(o)
    BY ReturnedNext DEF AllocateBuffer, FreeBuffer, handler
  <1>2. \/ /\ x \notin buffers[p]
           /\ \A o \in Ports : \A b \in Buffers[o] :
                 /\ b \in own'[o] <=> b \in own[o] \/ (o = p /\ b = x)
                 /\ b \in buffers'[o] <=> b \in buffers[o] \/ (o = p /\ b = x)
        \/ /\ x \in own[p]
           /\ \A o \in Ports : \A b \in Buffers[o] :
                 /\ b \in own'[o] <=> b \in own[o] /\ ~(o = p /\ b = x)
                 /\ b \in buffers'[o] <=> b \in buffers[o] /\ ~(o = p /\ b = x)
    <2>1. CASE AllocateBuffer(p, x)
      <3>1. /\ x \notin buffers[p] /\ buffers' = [buffers EXCEPT ![p] = @ \cup {x}]
            /\ own' = [own EXCEPT ![p] = @ \cup {x}]
        BY <2>1 DEF AllocateBuffer
      <3>2. \A o \in Ports : /\ own'[o] = IF o = p THEN own[o] \cup {x} ELSE own[o]
                             /\ buffers'[o] = IF o = p THEN buffers[o] \cup {x} ELSE buffers[o]
        BY <3>1 DEF PortsInv
      <3> QED
        BY <3>1, <3>2
    <2>2. CASE FreeBuffer(p, x)
      <3>1. /\ x \in own[p] /\ buffers' = [buffers EXCEPT ![p] = @ \ {x}]
            /\ own' = [own EXCEPT ![p] = @ \ {x}]
        BY <2>2 DEF FreeBuffer
      <3>2. \A o \in Ports : /\ own'[o] = IF o = p THEN own[o] \ {x} ELSE own[o]
                             /\ buffers'[o] = IF o = p THEN buffers[o] \ {x} ELSE buffers[o]
        BY <3>1 DEF PortsInv
      <3> QED
        BY <3>1, <3>2
    <2> QED
      BY <2>1, <2>2
  <1>3. ASSUME NEW o \in Ports, o \notin unpopped, NEW b \in Buffers[o]
        PROVE  Sole(b \in own'[o], Called(o, b)', Queued(o, b)', Kept(o, b)', b \in buffers'[o])
    <2>1. Sole(b \in own[o], Called(o, b), Queued(o, b), Kept(o, b), b \in buffers[o])
      BY <1>3, OwnerFacts
    <2>2. (Kept(o, b)' <=> Kept(o, b)) /\ (Queued(o, b)' <=> Queued(o, b)) /\ (Called(o, b)' <=> Called(o, b))
      BY <1>1 DEF Kept, Queued, Called
    <2> QED
      BY <1>2, <2>1, <2>2 DEF Sole
  <1>4. \A o \in Ports : Returned(o)' \in 0..Len(bufferqueue'[o]) /\ Distinct(bufferqueue'[o], Returned(o)')
    BY <1>1 DEF OwnerInv
  <1> QED
    BY <1>3, <1>4, OwnerNext

\* Queues are emptied with the component ...
LEMMA DestroyOwner ==
  ASSUME unpopped \subseteq unpopped', LockInv, PortsInv, Destroy
  PROVE  OwnerInv'
  <1>1. /\ bufferqueue' = [p \in Ports |-> <<>>] /\ own' = [p \in Ports |-> {}] /\ held' = None
        /\ submitting' = None /\ pc' = "exited" /\ ~Strict
    BY DEF Destroy, LockInv, Strict
  <1>2. \A p \in Ports : Returned(p)' = 0 /\ bufferqueue'[p] = <<>> /\ own'[p] = {}
    BY <1>1, ReturnedNext DEF ReturnLabels
  <1>3. \A p \in Ports : \A b \in Buffers[p] : ~Called(p, b)' /\ ~Queued(p, b)' /\ ~Kept(p, b)'
    <2>1. \A p \in Ports : \A b \in Buffers[p] : ~Called(p, b)'
      BY <1>1, NoneAssumption, BuffersFacts DEF Called
    <2>2. \A p \in Ports : \A b \in Buffers[p] : ~Queued(p, b)'
      BY <1>2, LeftEmpty DEF Queued
    <2>3. \A p \in Ports : \A b \in Buffers[p] : ~Kept(p, b)'
      BY <1>1, BuffersFacts DEF Kept
    <2> QED
      BY <2>1, <2>2, <2>3
  <1>4. \A p \in Ports : Returned(p)' \in 0..Len(bufferqueue'[p]) /\ Distinct(bufferqueue'[p], Returned(p)')
    BY <1>2, LeftEmpty
  <1> QED
    BY <1>1, <1>2, <1>3, <1>4, OwnerNext DEF Sole

\* ... or when all their buffers are returned.
LEMMA ClearOwner ==
  ASSUME unpopped \subseteq unpopped', OwnerInv, LockInv, PortsInv, TodoInv, ClearQueue \/ ClearFails
  PROVE  OwnerInv'
  <1>0. PICK p \in Ports : p = Head(todo)
    BY ClearFrame DEF ClearQueue, TodoInv
  <1>1. /\ pc = "return" /\ i = count /\ pc' \in {"returned", "held"}
        /\ UNCHANGED <<own, buffers, submitting, held>>
        /\ bufferqueue' = [bufferqueue EXCEPT ![p] = <<>>]
    BY <1>0, ClearFrame DEF ClearQueue, Goto, Quiet, NoCall
  <1>2. \A o \in Ports : Returned(o) = (IF o = p THEN i ELSE 0) /\ Returned(o)' = 0
    BY <1>0, <1>1, ReturnedIs, ReturnedNext DEF ReturnLabels
  <1>3. ~Reentrant => i = Len(bufferqueue[p])
    BY <1>0, <1>1 DEF LockInv
  <1>4. bufferqueue'[p] = <<>> /\ \A o \in Ports : o # p => bufferqueue'[o] = bufferqueue[o]
    BY <1>1 DEF PortsInv
  <1>5. \A o \in Ports : o # p =>
          /\ Returned(o)' \in 0..Len(bufferqueue'[o]) /\ Distinct(bufferqueue'[o], Returned(o)')
          /\ o \notin unpopped => \A b \in Buffers[o] :
               Sole(b \in own'[o], Called(o, b)', Queued(o, b)', Kept(o, b)', b \in buffers'[o])
    BY <1>1, <1>2, <1>4, SamePort
  <1>6. ASSUME p \notin unpopped, NEW b \in Buffers[p]
        PROVE  Sole(b \in own'[p], Called(p, b)', Queued(p, b)', Kept(p, b)', b \in buffers'[p])
    <2>1. Sole(b \in own[p], Called(p, b), Queued(p, b), Kept(p, b), b \in buffers[p])
      BY <1>6, <1>1, OwnerFacts
    <2>2. ~Queued(p, b)' /\ (Called(p, b)' <=> Called(p, b)) /\ (Kept(p, b)' <=> Kept(p, b))
      BY <1>1, <1>2, <1>4, LeftEmpty DEF Queued, Called, Kept
    <2>3. Strict => ~Queued(p, b)
      BY <1>1, <1>2, <1>3, LeftNothing DEF Queued, PortsInv, Strict
    <2> QED
      BY <1>1, <2>1, <2>2, <2>3 DEF Sole
  <1>7. Returned(p)' \in 0..Len(bufferqueue'[p]) /\ Distinct(bufferqueue'[p], Returned(p)')
    BY <1>1, <1>2, <1>4, LeftEmpty
  <1>8. \A o \in Ports : o = p =>
          /\ Returned(o)' \in 0..Len(bufferqueue'[o]) /\ Distinct(bufferqueue'[o], Returned(o)')
          /\ o \notin unpopped => \A b \in Buffers[o] :
               Sole(b \in own'[o], Called(o, b)', Queued(o, b)', Kept(o, b)', b \in buffers'[o])
    BY <1>6, <1>7
  <1> QED
    BY <1>5, <1>8, OwnerNext

\* The held buffer is returned, if there is one.
LEMMA HeldOwner ==
  ASSUME unpopped \subseteq unpopped', FaultInv, OwnerInv, PortsInv, TodoInv, ReturnHeld \/ LastFrame
  PROVE  OwnerInv'
  <1>1. /\ pc \notin ReturnLabels /\ pc' \notin ReturnLabels /\ UNCHANGED <<buffers, submitting>>
        /\ \/ UNCHANGED <<own, bufferqueue, held>>
           \/ held # None /\ held' = None /\ Callback("out", held)
    BY DEF ReturnHeld, LastFrame, Goto, Quiet, Calm, NoCall, ReturnLabels
  <1>2. \A p \in Ports : Returned(p)' = Returned(p)
    BY <1>1, ReturnedIs, ReturnedNext
  <1>3. CASE UNCHANGED <<own, bufferqueue, held>>
    BY <1>1, <1>2, <1>3, OwnerSame
  <1>4. CASE held # None /\ held' = None /\ Callback("out", held)
    <2>1. "out" \in Ports /\ held \in Buffers["out"]
      BY <1>4, BuffersFacts DEF PortsInv, Ports
    <2> QED
      BY <1>1, <1>2, <1>4, <2>1, Handover
  <1> QED
    BY <1>1, <1>3, <1>4

\* The next buffer of a locked queue is returned.
LEMMA ReturnOwner ==
  ASSUME unpopped \subseteq unpopped', FaultInv, OwnerInv, PortsInv, TodoInv, ReturnNext
  PROVE  OwnerInv'
  <1>0. PICK p \in Ports : p = Head(todo)
    BY DEF ReturnNext, TodoInv
  <1>1. /\ pc = "return" /\ UNCHANGED <<pc, todo, buffers, submitting, held>>
        /\ i < count /\ count <= Len(bufferqueue[p]) /\ i \in Nat /\ count \in Nat /\ i' = i + 1
        /\ Callback(p, bufferqueue[p][i + 1])
    BY <1>0 DEF ReturnNext, TodoInv, Quiet, NoCall
  <1>2. \A o \in Ports : /\ Returned(o) = IF o = p THEN i ELSE 0
                         /\ Returned(o)' = IF o = p THEN i + 1 ELSE 0
    BY <1>0, <1>1, ReturnedIs, ReturnedNext
  <1>3. bufferqueue[p][i + 1] \in Buffers[p] /\ i < Len(bufferqueue[p])
    <2>1. bufferqueue[p] \in Seq(Buffers[p]) /\ Len(bufferqueue[p]) \in Nat
      BY OwnerFacts
    <2>2. i + 1 \in 1..Len(bufferqueue[p])
      BY <1>1, <2>1
    <2> QED
      BY <2>1, <2>2, <1>1
  <1> QED
    BY <1>1, <1>2, <1>3, Handover

\* The buffer at the head of a queue.
LEMMA HeadFacts ==
  ASSUME PortsInv, NEW p \in Ports, bufferqueue[p] # <<>>
  PROVE  /\ Head(bufferqueue[p]) = bufferqueue[p][1] /\ Head(bufferqueue[p]) \in Buffers[p]
         /\ 0 < Len(bufferqueue[p]) /\ Len(bufferqueue[p]) \in Nat
  <1>1. bufferqueue[p] \in Seq(Buffers[p])
    BY DEF PortsInv
  <1> QED
    BY <1>1, HeadTailProperties, LenProperties, EmptySeq

\* It is returned before it is popped.
LEMMA HeadOwner ==
  ASSUME unpopped \subseteq unpopped', FaultInv, OwnerInv, PortsInv, DecodeInv, NEW p \in Ports, bufferqueue[p] # <<>>,
         Callback(p, Head(bufferqueue[p])), UNCHANGED <<buffers, submitting, held>>,
         pc \notin ReturnLabels,
         \/ p = "pp" /\ pc' = "popMask"
         \/ p = "in" /\ pc' = "popInput"
         \/ p = "out" /\ pc' = "popFrame"
  PROVE  OwnerInv'
  <1>1. \A o \in Ports : Returned(o) = 0 /\ Returned(o)' = IF o = p THEN 1 ELSE 0
    BY ReturnedIs, ReturnedNext
  <1>2. Head(bufferqueue[p]) = bufferqueue[p][1] /\ Head(bufferqueue[p]) \in Buffers[p] /\ 0 < Len(bufferqueue[p])
    BY HeadFacts
  <1> QED
    BY <1>1, <1>2, Handover

LEMMA HeadReturns ==
  ASSUME unpopped \subseteq unpopped', FaultInv, OwnerInv, PortsInv, DecodeInv,
         SetMask \/ InputDone \/ (DispatchFrame /\ dispatchOutputImmediately)
  PROVE  OwnerInv'
  <1> USE DEF Goto, Calm, NoCall, ReturnLabels
  <1>0. "in" \in Ports /\ "out" \in Ports /\ "pp" \in Ports
    BY DEF Ports
  <1>1. CASE SetMask
    <2>1. /\ bufferqueue["pp"] # <<>> /\ Callback("pp", Head(bufferqueue["pp"]))
          /\ UNCHANGED <<buffers, submitting, held>> /\ pc \notin ReturnLabels /\ pc' = "popMask"
      BY <1>1 DEF SetMask, HasMask
    <2> QED
      BY <1>0, <2>1, HeadOwner
  <1>2. CASE InputDone
    <2>1. inbuf # None
      BY <1>2 DEF InputDone, DecodeInv, Decoding
    <2>2. /\ bufferqueue["in"] # <<>> /\ Callback("in", Head(bufferqueue["in"]))
          /\ UNCHANGED <<buffers, submitting, held>> /\ pc \notin ReturnLabels /\ pc' = "popInput"
      BY <1>2, <2>1 DEF InputDone, DecodeInv
    <2> QED
      BY <1>0, <2>2, HeadOwner
  <1>3. CASE DispatchFrame /\ dispatchOutputImmediately
    <2>1. slot # None
      BY <1>3 DEF DispatchFrame, DecodeInv
    <2>2. /\ bufferqueue["out"] # <<>> /\ Callback("out", Head(bufferqueue["out"]))
          /\ UNCHANGED <<buffers, submitting, held>> /\ pc \notin ReturnLabels /\ pc' = "popFrame"
      BY <1>3, <2>1 DEF DispatchFrame, DecodeInv
    <2> QED
      BY <1>0, <2>2, HeadOwner
  <1> QED
    BY <1>1, <1>2, <1>3

\* What was returned at the head of a queue is popped.
LEMMA PopOwner ==
  ASSUME unpopped \subseteq unpopped', OwnerInv, PortsInv, DecodeInv, PopMask \/ PopFrame \/ PopInput
  PROVE  OwnerInv'
  <1> USE DEF Goto, Calm, NoCall
  <1>1. PICK p \in Ports : /\ bufferqueue[p] # <<>>
                           /\ bufferqueue' = [bufferqueue EXCEPT ![p] = Tail(@)]
                           /\ \A o \in Ports : Returned(o) = IF o = p THEN 1 ELSE 0
    <2>0. "in" \in Ports /\ "out" \in Ports /\ "pp" \in Ports
      BY DEF Ports
    <2>1. CASE PopMask
      BY <2>0, <2>1, ReturnedIs DEF PopMask, Pop, DecodeInv
    <2>2. CASE PopFrame
      BY <2>0, <2>2, ReturnedIs DEF PopFrame, Pop, DecodeInv
    <2>3. CASE PopInput
      BY <2>0, <2>3, ReturnedIs DEF PopInput, Pop, DecodeInv, Decoding
    <2> QED
      BY <2>1, <2>2, <2>3
  <1>2. UNCHANGED <<own, buffers, submitting, held>> /\ pc' \notin ReturnLabels
    BY DEF PopMask, PopFrame, PopInput, Leave, DecodeInv, ReturnLabels
  <1>3. \A o \in Ports : Returned(o)' = 0
    BY <1>2, ReturnedNext
  <1>4. bufferqueue'[p] = Tail(bufferqueue[p]) /\ \A o \in Ports : o # p => bufferqueue'[o] = bufferqueue[o]
    BY <1>1 DEF PortsInv
  <1>5. \A o \in Ports : o # p =>
          /\ Returned(o)' \in 0..Len(bufferqueue'[o]) /\ Distinct(bufferqueue'[o], Returned(o)')
          /\ o \notin unpopped => \A b \in Buffers[o] :
               Sole(b \in own'[o], Called(o, b)', Queued(o, b)', Kept(o, b)', b \in buffers'[o])
    BY <1>1, <1>2, <1>3, <1>4, SamePort
  <1>6. /\ \A b : LeftIn(bufferqueue'[p], 0, b) <=> LeftIn(bufferqueue[p], 1, b)
        /\ Distinct(bufferqueue'[p], 0) /\ 0 \in 0..Len(bufferqueue'[p])
    BY <1>1, <1>4, OwnerFacts, LeftTail
  <1>7. ASSUME p \notin unpopped, NEW b \in Buffers[p]
        PROVE  Sole(b \in own'[p], Called(p, b)', Queued(p, b)', Kept(p, b)', b \in buffers'[p])
    <2>1. Sole(b \in own[p], Called(p, b), Queued(p, b), Kept(p, b), b \in buffers[p])
      BY <1>7, OwnerFacts
    <2>2. (Queued(p, b)' <=> Queued(p, b)) /\ (Called(p, b)' <=> Called(p, b)) /\ (Kept(p, b)' <=> Kept(p, b))
      BY <1>1, <1>2, <1>3, <1>6 DEF Queued, Called, Kept
    <2> QED
      BY <1>2, <2>1, <2>2 DEF Sole
  <1>8. \A o \in Ports : o = p =>
          /\ Returned(o)' \in 0..Len(bufferqueue'[o]) /\ Distinct(bufferqueue'[o], Returned(o)')
          /\ o \notin unpopped => \A b \in Buffers[o] :
               Sole(b \in own'[o], Called(o, b)', Queued(o, b)', Kept(o, b)', b \in buffers'[o])
    BY <1>3, <1>6, <1>7
  <1> QED
    BY <1>5, <1>8, OwnerNext

\* A frame is held back, and the buffer held before it returned.
LEMMA DelayOwner ==
  ASSUME unpopped \subseteq unpopped', FaultInv, OwnerInv, PortsInv, DecodeInv, DispatchFrame, ~dispatchOutputImmediately
  PROVE  OwnerInv'
  <1> DEFINE q == bufferqueue["out"]
  <1>0. "out" \in Ports
    BY DEF Ports
  <1>1. PICK x \in Buffers["out"] : x = slot /\ q # <<>> /\ x = q[1]
    <2>1. slot # None /\ slot = Head(q) /\ q # <<>>
      BY DEF DispatchFrame, DecodeInv
    <2> QED
      BY <1>0, <2>1, HeadFacts
  <1>2. /\ held' = x /\ UNCHANGED <<buffers, submitting>> /\ pc \notin ReturnLabels /\ pc' = "popFrame"
        /\ \/ held = None /\ UNCHANGED <<own, bufferqueue>>
           \/ held # None /\ Callback("out", held)
    BY <1>1 DEF DispatchFrame, Calm, NoCall, Goto, ReturnLabels
  <1>3. \A o \in Ports : Returned(o) = 0 /\ Returned(o)' = IF o = "out" THEN 1 ELSE 0
    BY <1>2, ReturnedIs, ReturnedNext
  <1>4. q \in Seq(Buffers["out"]) /\ 0 < Len(q) /\ Len(q) \in Nat /\ Distinct(q, 0)
    BY <1>0, <1>1, <1>3, HeadFacts, OwnerFacts
  <1>5. /\ \A b : LeftIn(q, 1, b) <=> LeftIn(q, 0, b) /\ b # x
        /\ LeftIn(q, 0, x) /\ Distinct(q, 1) /\ 1 \in 0..Len(q)
    BY <1>1, <1>4, LeftAdvance
  <1>6. \A b \in Buffers["out"] :
          /\ "out" \notin unpopped =>
                Sole(b \in own["out"], Called("out", b), LeftIn(q, 0, b), held = b, b \in buffers["out"])
          /\ Called("out", b)' <=> Called("out", b)
          /\ Kept("out", b)' <=> b = x
    BY <1>0, <1>2, <1>3, OwnerFacts DEF Queued, Kept, Called
  <1>7. ASSUME NEW o \in Ports, o # "out", own'[o] = own[o], bufferqueue'[o] = bufferqueue[o]
        PROVE  /\ Returned(o)' \in 0..Len(bufferqueue'[o]) /\ Distinct(bufferqueue'[o], Returned(o)')
               /\ o \notin unpopped => \A b \in Buffers[o] :
                    Sole(b \in own'[o], Called(o, b)', Queued(o, b)', Kept(o, b)', b \in buffers'[o])
    BY <1>2, <1>3, <1>7, SamePort
  <1> HIDE DEF q
  <1>8. CASE held = None /\ UNCHANGED <<own, bufferqueue>>
    <2>1. \A b \in Buffers["out"] : /\ Queued("out", b)' <=> LeftIn(q, 0, b) /\ b # x
                                    /\ b \in own'["out"] <=> b \in own["out"]
      BY <1>0, <1>3, <1>5, <1>8 DEF Queued, q
    <2>2. \A b \in Buffers["out"] : held # b
      BY <1>0, <1>8, BuffersFacts
    <2>3. "out" \notin unpopped => \A b \in Buffers["out"] :
            Sole(b \in own'["out"], Called("out", b)', Queued("out", b)', Kept("out", b)', b \in buffers'["out"])
      BY <1>2, <1>5, <1>6, <2>1, <2>2 DEF Sole
    <2>4. Returned("out")' \in 0..Len(bufferqueue'["out"]) /\ Distinct(bufferqueue'["out"], Returned("out")')
      BY <1>0, <1>3, <1>5, <1>8 DEF q
    <2> QED
      BY <1>7, <1>8, <2>3, <2>4, OwnerNext
  <1>9. CASE held # None /\ Callback("out", held)
    <2>1. held \in Buffers["out"]
      BY <1>9, BuffersFacts DEF PortsInv
    <2>2. "out" \notin unpopped => held # x /\ ~LeftIn(q, 0, held)
      BY <1>5, <1>6, <2>1 DEF Sole
    <2>3. \A o \in Ports : o # "out" => own'[o] = own[o] /\ bufferqueue'[o] = bufferqueue[o]
      BY <1>0, <1>9, <2>1, CallbackFacts
    <2>4. CASE own'["out"] = own["out"] \cup {held} /\ bufferqueue'["out"] = q
      <3>1. \A b \in Buffers["out"] : /\ Queued("out", b)' <=> LeftIn(q, 0, b) /\ b # x
                                      /\ b \in own'["out"] <=> b \in own["out"] \/ held = b
        BY <1>0, <1>3, <1>5, <2>4 DEF Queued
      <3>2. "out" \notin unpopped => \A b \in Buffers["out"] :
              Sole(b \in own'["out"], Called("out", b)', Queued("out", b)', Kept("out", b)', b \in buffers'["out"])
        BY <1>2, <1>5, <1>6, <2>2, <3>1 DEF Sole
      <3>3. Returned("out")' \in 0..Len(bufferqueue'["out"]) /\ Distinct(bufferqueue'["out"], Returned("out")')
        BY <1>0, <1>3, <1>5, <2>4
      <3> QED
        BY <1>7, <2>3, <3>2, <3>3, OwnerNext
    <2>5. CASE /\ own'["out"] = own["out"] /\ Reentrant /\ bufferqueue'["out"] = Append(q, held)
               /\ "out" \notin unpopped
      <3>1. /\ \A b : LeftIn(Append(q, held), 1, b) <=> LeftIn(q, 1, b) \/ b = held
            /\ Distinct(Append(q, held), 1) /\ 1 \in 0..Len(Append(q, held))
        BY <1>4, <1>5, <2>1, <2>2, <2>5, LeftAppend
      <3>2. \A b \in Buffers["out"] : /\ Queued("out", b)' <=> (LeftIn(q, 0, b) /\ b # x) \/ held = b
                                      /\ b \in own'["out"] <=> b \in own["out"]
        BY <1>0, <1>3, <1>5, <2>5, <3>1 DEF Queued
      <3>3. "out" \notin unpopped => \A b \in Buffers["out"] :
              Sole(b \in own'["out"], Called("out", b)', Queued("out", b)', Kept("out", b)', b \in buffers'["out"])
        BY <1>2, <1>5, <1>6, <2>2, <3>2 DEF Sole
      <3>4. Returned("out")' \in 0..Len(bufferqueue'["out"]) /\ Distinct(bufferqueue'["out"], Returned("out")')
        BY <1>0, <1>3, <2>5, <3>1
      <3> QED
        BY <1>7, <2>3, <3>3, <3>4, OwnerNext
    <2> QED
      BY <1>0, <1>9, <2>1, <2>4, <2>5, CallbackFacts DEF q, FaultInv
  <1> QED
    BY <1>2, <1>8, <1>9

\* The other steps move no buffer.
LEMMA StillOwner ==
  ASSUME unpopped \subseteq unpopped', OwnerInv, UNCHANGED <<buffers, own, bufferqueue, submitting, held>>,
         pc \notin ReturnLabels, pc' \notin ReturnLabels
  PROVE  OwnerInv'
  <1>1. \A p \in Ports : Returned(p)' = Returned(p)
    BY ReturnedIs, ReturnedNext
  <1> QED
    BY <1>1, OwnerSame

\* A pop that fails gives up the port; the others keep their owners.
LEMMA PopFaultOwner ==
  ASSUME OwnerInv, PortsInv, DecodeInv, PopFault
  PROVE  OwnerInv'
  <1>1. PICK p \in Ports : /\ Len(bufferqueue[p]) = 1 /\ unpopped' = unpopped \cup {p}
                           /\ \/ pc = "popMask" /\ p = "pp"
                              \/ pc = "popFrame" /\ p = "out"
                              \/ pc = "popInput" /\ p = "in"
    BY PopFrameIs
  <1>2. UNCHANGED <<own, buffers, bufferqueue, submitting, held>> /\ pc' \notin ReturnLabels
    BY PopFrameIs DEF DecodeInv, ReturnLabels
  <1>3. \A o \in Ports : Returned(o) = (IF o = p THEN 1 ELSE 0) /\ Returned(o)' = 0
    BY <1>1, <1>2, ReturnedIs, ReturnedNext
  <1>4. \A o \in Ports : o # p =>
          /\ Returned(o)' \in 0..Len(bufferqueue'[o]) /\ Distinct(bufferqueue'[o], Returned(o)')
          /\ o \notin unpopped => \A b \in Buffers[o] :
               Sole(b \in own'[o], Called(o, b)', Queued(o, b)', Kept(o, b)', b \in buffers'[o])
    BY <1>2, <1>3, SamePort
  <1>5. Returned(p)' \in 0..Len(bufferqueue'[p]) /\ Distinct(bufferqueue'[p], Returned(p)')
    BY <1>1, <1>2, <1>3 DEF Distinct
  <1> QED
    BY <1>1, <1>4, <1>5 DEF OwnerInv

LEMMA FaultOwner ==
  ASSUME unpopped \subseteq unpopped', OwnerInv, LockInv, PortsInv, TodoInv, DecodeInv, Fault \/ ExitOnError
  PROVE  OwnerInv'
  <1>1. CASE PushFails
    BY <1>1, PushFrame, GiveBackOwner
  <1>2. CASE PostFault
    <2>1. UNCHANGED <<buffers, own, bufferqueue, submitting, held, pc, todo, i>>
      BY <1>2, PostFrame
    <2> QED
      BY <2>1, ReturnedNext, OwnerSame
  <1>3. CASE Aborts \/ ReceiveFails
    <2>1. /\ UNCHANGED <<buffers, own, bufferqueue, submitting, held>>
          /\ pc \notin ReturnLabels /\ pc' \notin ReturnLabels
      BY <1>3, AbortsFrame, ReceiveFrame DEF ReturnLabels
    <2> QED
      BY <2>1, StillOwner
  <1> QED
    BY <1>1, <1>2, <1>3, ClearOwner, PopFaultOwner, FaultIs DEF Aborts

LEMMA CommandOwner ==
  ASSUME unpopped \subseteq unpopped', FaultInv, OwnerInv, LockInv, PortsInv, TodoInv, CommandStep
  PROVE  OwnerInv'
  <1>1. CASE SameState \/ BeginTransition \/ CompleteStateSet \/ IllegalStateSet
    <2>1. /\ UNCHANGED <<buffers, own, bufferqueue, submitting, held>>
          /\ pc \notin ReturnLabels /\ pc' \notin ReturnLabels
      BY <1>1 DEF SameState, BeginTransition, CompleteStateSet, IllegalStateSet, Handling, Answer, Goto,
                  Quiet, NoCall, ports, ReturnLabels
    <2> QED
      BY <2>1, StillOwner
  <1>2. CASE FinishIdle \/ FailStateSet \/ FinishLoaded \/ BeginReturn \/ FinishFlush \/ ClearFlush
    <2>1. /\ UNCHANGED <<buffers, own, bufferqueue, submitting, held>>
          /\ pc \notin ReturnLabels /\ pc' \notin ReturnLabels
      BY <1>2 DEF FinishIdle, FailStateSet, FinishLoaded, BeginReturn, FinishFlush, ClearFlush, Handling,
                  Answer, Goto, Quiet, NoCall, ports, ReturnLabels
    <2> QED
      BY <2>1, StillOwner
  <1>3. CASE AwaitDealloc \/ PortDealloc \/ BeginEnable \/ PortEnabled
    <2>1. /\ UNCHANGED <<buffers, own, bufferqueue, submitting, held>>
          /\ pc \notin ReturnLabels /\ pc' \notin ReturnLabels
      BY <1>3 DEF AwaitDealloc, PortDealloc, BeginEnable, PortEnabled, Handling, Answer, Goto, Quiet,
                  NoCall, ports, ReturnLabels
    <2> QED
      BY <2>1, StillOwner
  <1>4. CASE LockPort
    <2>1. /\ UNCHANGED <<buffers, own, bufferqueue, submitting, held>>
          /\ pc = "lock" /\ pc' = "return" /\ i' = 0
      BY <1>4 DEF LockPort, Goto, Quiet, NoCall, ports
    <2>2. \A p \in Ports : Returned(p)' = Returned(p)
      BY <2>1, ReturnedIs, ReturnedNext DEF ReturnLabels
    <2> QED
      BY <2>1, <2>2, OwnerSame
  <1> QED
    BY <1>1, <1>2, <1>3, <1>4, HeldOwner, ReturnOwner, ClearOwner DEF CommandStep

LEMMA BufferOwner ==
  ASSUME unpopped \subseteq unpopped', FaultInv, OwnerInv, PortsInv, TodoInv, DecodeInv, BufferStep
  PROVE  OwnerInv'
  <1>1. CASE NoMask \/ StartDecode \/ NoInput \/ ScanMore \/ ScanDone
    <2>1. /\ UNCHANGED <<buffers, own, bufferqueue, submitting, held>>
          /\ pc \notin ReturnLabels /\ pc' \notin ReturnLabels
      BY <1>1 DEF NoMask, StartDecode, NoInput, ScanMore, ScanDone, Goto, Calm, NoCall, ports, ReturnLabels
    <2> QED
      BY <2>1, StillOwner
  <1>2. CASE TakeOutput \/ DoWithout \/ Overflow
    <2>1. /\ UNCHANGED <<buffers, own, bufferqueue, submitting, held>>
          /\ pc \notin ReturnLabels /\ pc' \notin ReturnLabels
      BY <1>2 DEF TakeOutput, DoWithout, Overflow, DecodeInv, Goto, Leave, Calm, NoCall, ports, ReturnLabels
    <2> QED
      BY <2>1, StillOwner
  <1>3. CASE DecodeData \/ DecodeInfo \/ DecodeErrorStream \/ CodecFails
    <2>1. /\ UNCHANGED <<buffers, own, bufferqueue, submitting, held>>
          /\ pc \notin ReturnLabels /\ pc' \notin ReturnLabels
      BY <1>3 DEF DecodeData, DecodeInfo, DecodeErrorStream, CodecFails, Goto, Leave, Calm, NoCall, ports,
                  ReturnLabels
    <2> QED
      BY <2>1, StillOwner
  <1>4. CASE NextFrame \/ DrainFrames \/ GetFrame \/ NoMoreFrames
    <2>1. /\ UNCHANGED <<buffers, own, bufferqueue, submitting, held>>
          /\ pc \notin ReturnLabels /\ pc' \notin ReturnLabels
      BY <1>4 DEF NextFrame, DrainFrames, GetFrame, NoMoreFrames, FramesEnd, Goto, Calm, NoCall, ports,
                  ReturnLabels
    <2> QED
      BY <2>1, StillOwner
  <1>5. CASE DispatchFrame
    BY <1>5, HeadReturns, DelayOwner
  <1> QED
    BY <1>1, <1>2, <1>3, <1>4, <1>5, HeldOwner, HeadReturns, PopOwner DEF BufferStep

LEMMA ClientOwner ==
  ASSUME unpopped \subseteq unpopped', FaultInv, OwnerInv, LockInv, PortsInv, Client
  PROVE  OwnerInv'
  <1>1. ASSUME NEW p \in Ports, NEW b \in Buffers[p], HandleBuffer(p, b)
        PROVE  OwnerInv'
    BY <1>1, SubmitOwner, AllocateOwner DEF HandleBuffer
  <1>2. ASSUME UNCHANGED <<buffers, own, bufferqueue, submitting, held, pc, todo, i>>
        PROVE  OwnerInv'
    BY <1>2, ReturnedNext, OwnerSame
  <1>3. CASE SendCommand \/ PostCommand \/ SetRealTime \/ Deinit
    BY <1>2, <1>3 DEF SendCommand, CallStateSet, CallFlush, CallPortDisable, CallPortEnable, Call,
                      PostCommand, SetRealTime, Deinit, ports, handler, client
  <1> QED
    BY <1>1, <1>3, QueueBufferOwner, DestroyOwner DEF Client, SendCommand

LEMMA NextOwner ==
  ASSUME OwnerInv, LockInv, PortsInv, TodoInv, DecodeInv, FaultInv, [Next]_vars
  PROVE  OwnerInv'
  <1>0. unpopped \subseteq unpopped'
    BY HistoryGrows
  <1>1. CASE UNCHANGED vars
    BY <1>0, <1>1, ReturnedNext, OwnerSame DEF vars, ports, handler, client
  <1>2. CASE CheckRun \/ Wait \/ Receive \/ NoMoreCommands
    <2>1. /\ UNCHANGED <<buffers, own, bufferqueue, submitting, held>>
          /\ pc \notin ReturnLabels /\ pc' \notin ReturnLabels
      BY <1>2 DEF CheckRun, Wait, Receive, NoMoreCommands, Goto, NoCall, ports, ReturnLabels
    <2> QED
      BY <1>0, <2>1, StillOwner
  <1> QED
    BY <1>0, <1>1, <1>2, ClientOwner, CommandOwner, BufferOwner, FaultOwner DEF Next, ThreadStep

LEMMA NextDeinit ==
  ASSUME deinit # "no" => Deinits /\ submitting = None, [Next]_vars
  PROVE  deinit' # "no" => Deinits /\ submitting' = None
  <1>1. CASE Client
    <2>1. ASSUME NEW p \in Ports, NEW b \in Buffers[p], HandleBuffer(p, b)
          PROVE  deinit' # "no" => Deinits /\ submitting' = None
      BY <2>1 DEF HandleBuffer, Submit, AllocateBuffer, FreeBuffer
    <2>2. CASE SendCommand \/ PostCommand \/ SetRealTime
      BY <2>2 DEF SendCommand, CallStateSet, CallFlush, CallPortDisable, CallPortEnable, Call, PostCommand,
                  SetRealTime, client
    <2>3. CASE QueueBuffer \/ Deinit \/ Destroy
      BY <2>3 DEF QueueBuffer, Deinit, Destroy
    <2> QED
      BY <1>1, <2>1, <2>2, <2>3 DEF Client, SendCommand
  <1>2. CASE CommandStep
    BY <1>2 DEF CommandStep, SameState, BeginTransition, CompleteStateSet, IllegalStateSet, FinishIdle,
                FailStateSet, FinishLoaded, BeginReturn, FinishFlush, ClearFlush, AwaitDealloc, PortDealloc,
                BeginEnable, PortEnabled, ReturnHeld, LockPort, ReturnNext, ClearQueue, Quiet, NoCall
  <1>3. CASE BufferStep
    BY <1>3 DEF BufferStep, SetMask, PopMask, NoMask, StartDecode, NoInput, ScanMore, ScanDone, TakeOutput,
                DoWithout, Overflow, DecodeData, DecodeInfo, DecodeErrorStream, CodecFails, NextFrame,
                DrainFrames, GetFrame, NoMoreFrames, DispatchFrame, PopFrame, LastFrame, InputDone, PopInput,
                Calm, NoCall
  <1>4. CASE CheckRun \/ Wait \/ Receive \/ NoMoreCommands
    BY <1>4 DEF CheckRun, Wait, Receive, NoMoreCommands, NoCall
  <1>6. CASE Fault \/ ExitOnError
    BY <1>6, FaultIs, AbortsFrame, PushFrame, PostFrame, ReceiveFrame, ClearFrame, PopFrameIs DEF Aborts
  <1>5. CASE UNCHANGED vars
    BY <1>5 DEF vars, client
  <1> QED
    BY <1>1, <1>2, <1>3, <1>4, <1>5, <1>6 DEF Next, ThreadStep

\* A locked queue grows by callbacks only.
LEMMA NextLocked ==
  ASSUME LockInv, CommandInv, PortsInv, TodoInv, DecodeInv, [Next]_vars, ~Reentrant, pc' = "return"
  PROVE  count' = Len(bufferqueue'[Head(todo')])
  <1>1. ASSUME UNCHANGED <<pc, todo, count, bufferqueue>>
        PROVE  count' = Len(bufferqueue'[Head(todo')])
    BY <1>1 DEF LockInv
  <1>2. CASE Client
    <2>1. ASSUME NEW p \in Ports, NEW b \in Buffers[p], HandleBuffer(p, b)
          PROVE  UNCHANGED <<pc, todo, count, bufferqueue>>
      BY <2>1 DEF HandleBuffer, Submit, AllocateBuffer, FreeBuffer, ports, handler
    <2>2. CASE SendCommand \/ PostCommand \/ SetRealTime \/ Deinit
      BY <1>1, <2>2 DEF SendCommand, CallStateSet, CallFlush, CallPortDisable, CallPortEnable, Call, PostCommand,
                  SetRealTime, Deinit, handler, ports
    <2>3. CASE QueueBuffer
      <3>1. submitting.port # Head(todo) /\ submitting.port \in Ports /\ Head(todo) \in Ports
        BY <2>3 DEF QueueBuffer, Locked, handler, PortsInv, TodoInv
      <3>2. bufferqueue'[Head(todo)] = bufferqueue[Head(todo)]
        BY <2>3, <3>1 DEF QueueBuffer, PortsInv
      <3> QED
        BY <2>3, <3>2 DEF QueueBuffer, handler, LockInv
    <2>4. ~Destroy
      BY DEF Destroy
    <2> QED
      BY <1>1, <1>2, <2>1, <2>2, <2>3, <2>4 DEF Client, SendCommand
  <1>3. CASE CommandStep
    <2>1. CASE LockPort
      BY <2>1 DEF LockPort, Quiet, ports
    <2>2. CASE ReturnNext
      BY <1>1, <2>2 DEF ReturnNext, Callback
    <2>3. ~ReturnHeld /\ ~ClearQueue
      BY DEF ReturnHeld, ClearQueue, Goto
    <2>4. ~(SameState \/ BeginTransition \/ CompleteStateSet \/ IllegalStateSet \/ FinishIdle \/ FailStateSet)
      BY DEF SameState, BeginTransition, CompleteStateSet, IllegalStateSet, FinishIdle, FailStateSet, Answer, Goto
    <2>5. ~(FinishLoaded \/ BeginReturn \/ FinishFlush \/ ClearFlush \/ AwaitDealloc \/ BeginEnable)
      BY DEF FinishLoaded, BeginReturn, FinishFlush, ClearFlush, AwaitDealloc, BeginEnable, Answer, Goto
    <2>6. ~PortDealloc /\ ~PortEnabled
      BY DEF PortDealloc, PortEnabled, Answer, Goto
    <2> QED
      BY <1>3, <2>1, <2>2, <2>3, <2>4, <2>5, <2>6 DEF CommandStep
  <1>4. ~BufferStep
    BY BufferFrame DEF Processing
  <1>5. ~(CheckRun \/ Wait \/ Receive \/ NoMoreCommands)
    BY DEF CheckRun, Wait, Receive, NoMoreCommands, Goto
  <1>7. CASE PushFails \/ PostFault
    BY <1>1, <1>7, PushFrame, PostFrame
  <1>8. ~(Aborts \/ ReceiveFails \/ ClearFails \/ PopFault)
    BY AbortsFrame, ReceiveFrame, ClearFrame, PopFrameIs DEF DecodeInv
  <1>6. CASE UNCHANGED vars
    BY <1>1, <1>6 DEF vars, handler, ports
  <1> QED
    BY <1>2, <1>3, <1>4, <1>5, <1>6, <1>7, <1>8, FaultIs DEF Next, ThreadStep, Aborts

LEMMA NextLock ==
  ASSUME LockInv, CommandInv, PortsInv, TodoInv, DecodeInv, [Next]_vars
  PROVE  LockInv'
  <1>1. deinit' # "no" => Deinits /\ submitting' = None
    BY NextDeinit DEF LockInv
  <1>2. ~Reentrant /\ pc' = "return" => count' = Len(bufferqueue'[Head(todo')])
    BY NextLocked
  <1> QED
    BY <1>1, <1>2 DEF LockInv

LEMMA InitOwner == Init => OwnerInv /\ LockInv
  <1> SUFFICES ASSUME Init PROVE OwnerInv /\ LockInv
    OBVIOUS
  <1>1. LockInv
    BY DEF Init, LockInv
  <1>2. /\ submitting = None /\ held = None /\ pc = "top"
        /\ \A p \in Ports : own[p] = {} /\ buffers[p] = {} /\ bufferqueue[p] = <<>>
    BY DEF Init
  <1>3. \A p \in Ports : Returned(p) = 0
    BY <1>2, ReturnedIs DEF ReturnLabels
  <1>4. \A p \in Ports : \A b \in Buffers[p] : ~Called(p, b) /\ ~Queued(p, b) /\ ~Kept(p, b)
    BY <1>2, <1>3, CalledFacts, LeftEmpty, BuffersFacts DEF Queued, Kept
  <1> QED
    BY <1>1, <1>2, <1>3, <1>4, LeftEmpty DEF OwnerInv, Sole

\* No buffer has two owners, and one that is owned is allocated, whatever the client
\* does between a callback and the pop that follows it, or while a queue is returned
\* (async_decoder_return_buffers, decoder.c:4012-4069), and whichever pushes, posts,
\* waits and clears fail; of a port until one of its pops fails (port.c:397).
THEOREM OwnerInvariant == Spec => [](ThreadInv /\ OwnerInv /\ LockInv)
  <1>1. Init => OwnerInv /\ LockInv
    BY InitOwner
  <1>2. ThreadInv /\ OwnerInv /\ LockInv /\ [Next]_vars => OwnerInv' /\ LockInv'
    BY NextOwner, NextLock DEF ThreadInv
  <1> QED
    BY <1>1, <1>2, ThreadInvariant, PTL DEF Spec

-----------------------------------------------------------------------------
(* What the invariant says of the properties.                              *)

LEMMA OwnerInUse == ThreadInv /\ OwnerInv => BuffersInUse
  <1> SUFFICES ASSUME ThreadInv, OwnerInv PROVE BuffersInUse
    OBVIOUS
  <1> USE DEF ThreadInv
  <1>0. "in" \in Ports /\ "out" \in Ports
    BY DEF Ports
  <1>1. ASSUME NEW p \in Ports, p \notin unpopped, NEW k \in Returned(p) + 1 .. Len(bufferqueue[p])
        PROVE  bufferqueue[p][k] \in buffers[p]
    <2>1. bufferqueue[p] \in Seq(Buffers[p]) /\ k \in 1..Len(bufferqueue[p])
      BY <1>1, OwnerFacts
    <2>2. bufferqueue[p][k] \in Buffers[p] /\ Queued(p, bufferqueue[p][k])
      BY <1>1, <2>1 DEF Queued, LeftIn
    <2> QED
      BY <1>1, <2>2, OwnerFacts DEF Sole
  <1>2. ASSUME NEW p \in Ports, p \notin unpopped, Returned(p) = 0, bufferqueue[p] # <<>>
        PROVE  Head(bufferqueue[p]) \in buffers[p]
    <2>1. Head(bufferqueue[p]) = bufferqueue[p][1] /\ 1 \in Returned(p) + 1 .. Len(bufferqueue[p])
      BY <1>2, HeadFacts
    <2> QED
      BY <1>1, <1>2, <2>1
  <1>3. inbuf # None => bufferqueue["in"] # <<>> /\ Head(bufferqueue["in"]) = inbuf
    BY DEF DecodeInv
  <1>4. slot # None => bufferqueue["out"] # <<>> /\ Head(bufferqueue["out"]) = slot
    BY DEF DecodeInv
  <1>5. inbuf # None /\ "in" \notin unpopped => inbuf \in buffers["in"] \/ pc = "popInput"
    <2>1. ASSUME inbuf # None, pc # "popInput" PROVE Returned("in") = 0
      BY <1>0, <2>1, ReturnedIs DEF DecodeInv, Decoding, ReturnLabels
    <2> QED
      BY <1>0, <1>2, <1>3, <2>1
  <1>6. slot # None /\ "out" \notin unpopped => slot \in buffers["out"] \/ pc = "popFrame"
    <2>1. ASSUME slot # None, pc # "popFrame" PROVE Returned("out") = 0
      BY <1>0, <2>1, ReturnedIs DEF DecodeInv, ReturnLabels
    <2> QED
      BY <1>0, <1>2, <1>4, <2>1
  <1>7. held # None /\ "out" \notin unpopped => held \in buffers["out"]
    BY <1>0, BuffersFacts, OwnerFacts DEF PortsInv, Kept, Sole
  <1>8. ASSUME pc = "return", Head(todo) \notin unpopped, NEW k \in i + 1 .. count
        PROVE  k <= Len(bufferqueue[Head(todo)]) /\ bufferqueue[Head(todo)][k] \in buffers[Head(todo)]
    <2>1. Head(todo) \in Ports /\ count <= Len(bufferqueue[Head(todo)]) /\ i \in Nat /\ count \in Nat
      BY <1>8 DEF TodoInv
    <2>2. Returned(Head(todo)) = i /\ Len(bufferqueue[Head(todo)]) \in Nat
      BY <1>8, <2>1, ReturnedIs, OwnerFacts
    <2> QED
      BY <1>1, <1>8, <2>1, <2>2
  <1> QED
    BY <1>3, <1>4, <1>5, <1>6, <1>7, <1>8 DEF BuffersInUse

\* The buffers the thread dereferences after it dropped the port's lock still head
\* their queue, also when a pop has failed; and they are allocated, although
\* FreeBuffer takes no lock, until a pop of their port fails.
THEOREM BuffersAreInUse == Spec => []BuffersInUse
  BY OwnerInvariant, OwnerInUse, PTL

\* The number of holders, owner by owner.
LEMMA HoldersAre ==
  ASSUME PortsInv, OwnerInv, NEW p \in Ports, NEW b \in Buffers[p]
  PROVE  Holders(p, b) = (IF Queued(p, b) THEN 1 ELSE 0) + (IF b \in own[p] THEN 1 ELSE 0)
                         + (IF Called(p, b) THEN 1 ELSE 0) + (IF Kept(p, b) THEN 1 ELSE 0)
  <1> DEFINE K == {k \in Returned(p) + 1 .. Len(bufferqueue[p]) : bufferqueue[p][k] = b}
  <1>1. CASE Queued(p, b)
    <2>1. PICK k \in Returned(p) + 1 .. Len(bufferqueue[p]) : bufferqueue[p][k] = b
      BY <1>1 DEF Queued, LeftIn
    <2>2. \A j \in K : j = k
      BY <2>1, OwnerFacts DEF Distinct
    <2>3. K = {k}
      BY <2>1, <2>2
    <2> QED
      BY <1>1, <2>3, FS_Singleton DEF Holders, Called, Kept
  <1>2. CASE ~Queued(p, b)
    <2>1. K = {}
      BY <1>2 DEF Queued, LeftIn
    <2> QED
      BY <1>2, <2>1, FS_EmptySet DEF Holders, Called, Kept
  <1> QED
    BY <1>1, <1>2

LEMMA OwnerIsOne ==
  ASSUME PortsInv, OwnerInv, Strict
  PROVE  OneOwner
  <1>1. ASSUME NEW p \in Ports \ unpopped, NEW b \in Buffers[p]
        PROVE  Holders(p, b) = IF b \in buffers[p] THEN 1 ELSE 0
    <2>1. Sole(b \in own[p], Called(p, b), Queued(p, b), Kept(p, b), b \in buffers[p])
      BY OwnerFacts
    <2> HIDE DEF Strict
    <2> QED
      BY <2>1, HoldersAre DEF Sole
  <1> QED
    BY <1>1 DEF OneOwner

\* With a client that neither resubmits from a callback nor calls DeInit, no buffer
\* is lost either: each allocated one has exactly one owner, until a pop of its port
\* fails.
THEOREM OneOwnerOfEach ==
  ASSUME Strict
  PROVE  Spec => []OneOwner
  <1>1. ThreadInv /\ OwnerInv => OneOwner
    BY OwnerIsOne DEF ThreadInv
  <1> QED
    BY <1>1, OwnerInvariant, PTL

-----------------------------------------------------------------------------
(* Changes of state, in the order they were asked for.                     *)

Asks(c) == c # None /\ c.type = "StateSet"

\* The handler of a StateSet: the state it left, and the state it goes to.
UnderWay ==
  Asks(cmd) =>
    \/ pc = "dispatch"
    \/ pc = "waitReady" /\ state = "Loaded" /\ cmd.arg = "Idle"
    \/ pc = "waitFree" /\ state = "Idle" /\ cmd.arg = "Loaded"
    \/ /\ pc \in {"held", "lock", "return", "returned"}
       /\ state \in {"Executing", "Pause"} /\ cmd.arg = "Idle"

\* A pending StateSet that really asks for a change is the last one, and the one
\* statetrans stands for: SendCommand refuses the next until it is answered.
OrderInv ==
  /\ Asks(calling) /\ calling.arg # state => calling.arg = statetrans
  /\ \A k \in 1..Len(cmdQ) : Asks(cmdQ[k]) /\ cmdQ[k].arg # state =>
        /\ cmdQ[k].arg = statetrans /\ ~Asks(calling)
        /\ \A j \in k + 1 .. Len(cmdQ) : ~Asks(cmdQ[j])
  /\ Asks(cmd) /\ cmd.arg # state =>
        cmd.arg = statetrans /\ ~Asks(calling) /\ \A k \in 1..Len(cmdQ) : ~Asks(cmdQ[k])

ChangeInv == UnderWay /\ (state # "Invalid" => OrderInv)

LEMMA HandledIs ==
  ASSUME CommandInv, NEW t, Handling(t)
  PROVE  cmd # None /\ cmd \in Requests /\ cmd.type = t
  BY DEF CommandInv, Handling, Handlers

LEMMA BufferState ==
  ASSUME BufferStep
  PROVE  state' = state \/ state' = "Invalid"
  BY DEF BufferStep, SetMask, PopMask, NoMask, StartDecode, NoInput, ScanMore, ScanDone,
         TakeOutput, DoWithout, Overflow, DecodeData, DecodeInfo, DecodeErrorStream, CodecFails, NextFrame,
         DrainFrames, GetFrame, NoMoreFrames, DispatchFrame, PopFrame, LastFrame, InputDone, PopInput

LEMMA NextUnderWay ==
  ASSUME CommandInv, UnderWay, [Next]_vars
  PROVE  UnderWay'
  <1>1. ASSUME UNCHANGED <<cmd, pc, state>> PROVE UnderWay'
    BY <1>1 DEF UnderWay, Asks
  <1>2. ASSUME cmd' = None PROVE UnderWay'
    BY <1>2 DEF UnderWay, Asks
  <1>3. CASE \/ \E p \in Ports : \E b \in Buffers[p] : HandleBuffer(p, b)
             \/ QueueBuffer \/ SetRealTime \/ Destroy
    BY <1>1, <1>3, ClientFrame
  <1>4. CASE SendCommand
    BY <1>1, <1>4, CallFrame
  <1>5. CASE PostCommand \/ Deinit
    BY <1>1, <1>5 DEF PostCommand, Deinit, handler
  <1>6. CASE CheckRun \/ Wait \/ NoMoreCommands
    BY <1>2, <1>6 DEF CheckRun, Wait, NoMoreCommands, handler, CommandInv, Handlers
  <1>7. CASE Receive
    BY <1>2, <1>7 DEF Receive, Goto, UnderWay, CommandInv, Handlers
  <1>8. CASE CommandStep
    <2>1. CASE \/ SameState \/ CompleteStateSet \/ IllegalStateSet \/ FinishIdle \/ FailStateSet
               \/ FinishLoaded \/ FinishFlush
      BY <1>2, <2>1 DEF SameState, CompleteStateSet, IllegalStateSet, FinishIdle, FailStateSet, FinishLoaded,
                        FinishFlush, Answer
    <2>2. CASE BeginTransition
      <3>1. /\ <<state, cmd.arg>> \in Gradual /\ cmd' = cmd /\ state' = state
            /\ state = "Loaded" => pc' = "waitReady"
            /\ state = "Idle" => pc' = "waitFree"
            /\ state \notin {"Loaded", "Idle"} => pc' = "held"
        BY <2>2, Zenon DEF BeginTransition, Goto
      <3> QED
        BY <3>1 DEF UnderWay, Gradual
    <2>3. CASE BeginReturn \/ BeginEnable \/ AwaitDealloc
      <3>1. cmd' = cmd /\ cmd.type # "StateSet"
        BY <2>3 DEF BeginReturn, BeginEnable, AwaitDealloc, Handling
      <3> QED
        BY <3>1 DEF UnderWay, Asks
    <2>4. CASE PortDealloc \/ PortEnabled
      <3>1. cmd' = None \/ (cmd' = cmd /\ cmd.type # "StateSet")
        BY <2>4 DEF PortDealloc, PortEnabled, Answer, CommandInv
      <3> QED
        BY <1>2, <3>1 DEF UnderWay, Asks
    <2>5. CASE ClearFlush
      BY <1>2, <2>5 DEF ClearFlush, handler, CommandInv, Handlers
    <2>6. CASE ReturnHeld \/ LockPort \/ ReturnNext \/ ClearQueue
      <3>1. /\ UNCHANGED <<cmd, state>>
            /\ pc \in {"held", "lock", "return"} /\ pc' \in {"held", "lock", "return", "returned"}
        BY <2>6 DEF ReturnHeld, LockPort, ReturnNext, ClearQueue, Goto, handler
      <3> QED
        BY <3>1 DEF UnderWay, Asks
    <2> QED
      BY <1>8, <2>1, <2>2, <2>3, <2>4, <2>5, <2>6 DEF CommandStep
  <1>9. CASE BufferStep
    BY <1>2, <1>9, BufferFrame DEF CommandInv, Handlers, Processing
  <1>11. CASE Aborts \/ ReceiveFails \/ PopFault
    BY <1>2, <1>11, AbortsFrame, ReceiveFrame, PopFrameIs DEF CommandInv, Handlers
  <1>12. CASE PushFails \/ PostFault
    BY <1>1, <1>12, PushFrame, PostFrame
  <1>13. CASE ClearFails
    BY <1>13, ClearFrame DEF UnderWay, Asks
  <1>10. CASE UNCHANGED vars
    BY <1>1, <1>10 DEF vars, handler
  <1> QED
    BY <1>3, <1>4, <1>5, <1>6, <1>7, <1>8, <1>9, <1>10, <1>11, <1>12, <1>13, FaultIs
    DEF Next, Client, ThreadStep, SendCommand, Aborts

\* The command in the handler that asked for a change was the last: its end
\* leaves none.
LEMMA LastAnswered ==
  ASSUME OrderInv, Asks(cmd), cmd.arg # state, cmd' = None, UNCHANGED <<cmdQ, calling>>
  PROVE  OrderInv'
  BY DEF OrderInv, Asks

LEMMA SameOrder ==
  ASSUME OrderInv, UNCHANGED <<state, statetrans, cmdQ, calling>>, cmd' \in {cmd, None}
  PROVE  OrderInv'
  BY DEF OrderInv, Asks

\* A command that was not posted, or a call of DeInit, leaves the others in order.
LEMMA UnpostedOrder ==
  ASSUME OrderInv, UNCHANGED <<state, statetrans, cmdQ, cmd>>, calling' \in {calling, None}
  PROVE  OrderInv'
  BY DEF OrderInv, Asks

LEMMA PostOrder ==
  ASSUME OrderInv, CommandInv, UNCHANGED <<state, statetrans, cmd>>,
         \/ calling # None /\ cmdQ' = Append(cmdQ, calling) /\ calling' = None
         \/ cmdQ' = Append(cmdQ, ExitLoop) /\ calling' = calling
  PROVE  OrderInv'
  <1>1. PICK c : /\ c \in Requests \cup {ExitLoop} /\ cmdQ' = Append(cmdQ, c)
                 /\ Asks(c) => c = calling /\ calling' = None
                 /\ ~Asks(c) => calling' \in {calling, None}
    <2>1. CASE calling # None /\ cmdQ' = Append(cmdQ, calling) /\ calling' = None
      <3> WITNESS calling
      <3> QED
        BY <2>1 DEF CommandInv
    <2>2. CASE cmdQ' = Append(cmdQ, ExitLoop) /\ calling' = calling
      <3> WITNESS ExitLoop
      <3> QED
        BY <2>2 DEF Asks, ExitLoop
    <2> QED
      BY <2>1, <2>2
  <1>2. /\ Len(cmdQ) \in Nat /\ Len(cmdQ') = Len(cmdQ) + 1 /\ cmdQ'[Len(cmdQ) + 1] = c
        /\ \A k \in 1..Len(cmdQ) : cmdQ'[k] = cmdQ[k]
    BY <1>1, AppendFacts DEF CommandInv
  <1>3. ~Asks(None)
    BY DEF Asks
  <1>4. Asks(c) => c = calling /\ calling' = None
    BY <1>1
  <1>5. Asks(calling') => calling' = calling
    BY <1>1, <1>3
  <1>6. ASSUME NEW k \in 1..Len(cmdQ'), Asks(cmdQ'[k]), cmdQ'[k].arg # state
        PROVE  /\ cmdQ'[k].arg = statetrans /\ ~Asks(calling')
               /\ \A j \in k + 1 .. Len(cmdQ') : ~Asks(cmdQ'[j])
    <2>1. CASE k = Len(cmdQ) + 1
      BY <1>2, <1>3, <1>4, <1>6, <2>1 DEF OrderInv
    <2>2. CASE k \in 1..Len(cmdQ)
      <3>1. /\ cmdQ[k].arg = statetrans /\ ~Asks(calling)
            /\ \A j \in k + 1 .. Len(cmdQ) : ~Asks(cmdQ[j])
        BY <1>2, <1>6, <2>2 DEF OrderInv
      <3> QED
        BY <1>2, <1>4, <1>5, <2>2, <3>1
    <2> QED
      BY <1>2, <2>1, <2>2
  <1>7. ASSUME Asks(cmd), cmd.arg # state
        PROVE  cmd.arg = statetrans /\ ~Asks(calling') /\ \A k \in 1..Len(cmdQ') : ~Asks(cmdQ'[k])
    <2>1. cmd.arg = statetrans /\ ~Asks(calling) /\ \A k \in 1..Len(cmdQ) : ~Asks(cmdQ[k])
      BY <1>7 DEF OrderInv
    <2> QED
      BY <1>2, <1>4, <1>5, <2>1
  <1>8. Asks(calling') /\ calling'.arg # state => calling'.arg = statetrans
    BY <1>5 DEF OrderInv
  <1> HIDE DEF Asks
  <1> QED
    BY <1>6, <1>7, <1>8 DEF OrderInv

LEMMA ReceiveOrder ==
  ASSUME OrderInv, CommandInv, Receive
  PROVE  OrderInv'
  <1>1. /\ UNCHANGED <<state, statetrans, calling>>
        /\ cmdQ # <<>> /\ cmdQ' = Tail(cmdQ)
        /\ cmd = None /\ cmd' \in {cmd, Head(cmdQ)}
    BY DEF Receive, NoCall, CommandInv, Handlers
  <1>2. /\ Len(cmdQ) \in Nat \ {0} /\ Len(cmdQ') = Len(cmdQ) - 1 /\ Head(cmdQ) = cmdQ[1]
        /\ \A k \in 1..Len(cmdQ') : cmdQ'[k] = cmdQ[k + 1]
    BY <1>1 DEF CommandInv
  <1>3. ASSUME NEW k \in 1..Len(cmdQ'), Asks(cmdQ'[k]), cmdQ'[k].arg # state
        PROVE  /\ cmdQ'[k].arg = statetrans /\ ~Asks(calling)
               /\ \A j \in k + 1 .. Len(cmdQ') : ~Asks(cmdQ'[j])
    <2>1. k + 1 \in 1..Len(cmdQ) /\ cmdQ'[k] = cmdQ[k + 1]
      BY <1>2
    <2>2. /\ cmdQ[k + 1].arg = statetrans /\ ~Asks(calling)
          /\ \A j \in (k + 1) + 1 .. Len(cmdQ) : ~Asks(cmdQ[j])
      BY <1>3, <2>1 DEF OrderInv
    <2>3. \A j \in k + 1 .. Len(cmdQ') : cmdQ'[j] = cmdQ[j + 1] /\ j + 1 \in (k + 1) + 1 .. Len(cmdQ)
      BY <1>2, <2>1
    <2> QED
      BY <2>1, <2>2, <2>3
  <1>4. ASSUME Asks(cmd'), cmd'.arg # state
        PROVE  cmd'.arg = statetrans /\ ~Asks(calling) /\ \A k \in 1..Len(cmdQ') : ~Asks(cmdQ'[k])
    <2>1. cmd' = cmdQ[1] /\ 1 \in 1..Len(cmdQ)
      BY <1>1, <1>2, <1>4 DEF Asks
    <2>2. /\ cmdQ[1].arg = statetrans /\ ~Asks(calling)
          /\ \A j \in 1 + 1 .. Len(cmdQ) : ~Asks(cmdQ[j])
      BY <1>4, <2>1 DEF OrderInv
    <2>3. \A k \in 1..Len(cmdQ') : cmdQ'[k] = cmdQ[k + 1] /\ k + 1 \in 1 + 1 .. Len(cmdQ)
      BY <1>2
    <2> QED
      BY <2>1, <2>2, <2>3
  <1>5. Asks(calling) /\ calling.arg # state => calling.arg = statetrans
    BY DEF OrderInv
  <1> HIDE DEF Asks
  <1> QED
    BY <1>1, <1>3, <1>4, <1>5 DEF OrderInv

LEMMA NextOrder ==
  ASSUME CommandInv, ChangeInv, [Next]_vars, state' # "Invalid"
  PROVE  state # "Invalid" /\ OrderInv'
  <1>0. state # "Invalid" => OrderInv
    BY DEF ChangeInv
  <1>1. ASSUME UNCHANGED <<state, statetrans, cmdQ, calling>>, cmd' \in {cmd, None}
        PROVE  state # "Invalid" /\ OrderInv'
    BY <1>0, <1>1, SameOrder
  <1>2. ASSUME state # "Invalid", Asks(cmd), cmd.arg # state, cmd' = None, UNCHANGED <<cmdQ, calling>>
        PROVE  state # "Invalid" /\ OrderInv'
    BY <1>0, <1>2, LastAnswered
  <1>3. CASE \/ \E p \in Ports : \E b \in Buffers[p] : HandleBuffer(p, b)
             \/ QueueBuffer \/ SetRealTime \/ Destroy
    BY <1>1, <1>3, ClientFrame
  <1>4. ASSUME NEW s \in States, CallStateSet(s)
        PROVE  state # "Invalid" /\ OrderInv'
    <2>1. /\ state # "Invalid" /\ statetrans = state /\ statetrans' = s /\ UNCHANGED <<state, cmd, cmdQ>>
          /\ calling' = [type |-> "StateSet", arg |-> s]
      BY <1>4 DEF CallStateSet, Call, handler
    <2>2. /\ \A k \in 1..Len(cmdQ) : Asks(cmdQ[k]) => cmdQ[k].arg = state
          /\ Asks(cmd) => cmd.arg = state
      BY <1>0, <2>1 DEF OrderInv
    <2>3. Asks(calling') => calling'.arg = statetrans'
      BY <2>1
    <2> HIDE DEF Asks
    <2>4. OrderInv'
      BY <2>1, <2>2, <2>3 DEF OrderInv
    <2> QED
      BY <2>1, <2>4
  <1>5. ASSUME NEW a \in PortArgs, CallFlush(a) \/ CallPortDisable(a) \/ CallPortEnable(a)
        PROVE  state # "Invalid" /\ OrderInv'
    <2>1. /\ state # "Invalid" /\ calling = None /\ UNCHANGED <<state, statetrans, cmd, cmdQ>>
          /\ calling'.type # "StateSet"
      BY <1>5 DEF CallFlush, CallPortDisable, CallPortEnable, Call, Ready, handler
    <2>2. ~Asks(calling')
      BY <2>1 DEF Asks
    <2> HIDE DEF Asks
    <2>3. OrderInv'
      BY <1>0, <2>1, <2>2 DEF OrderInv
    <2> QED
      BY <2>1, <2>3
  <1>6. CASE PostCommand \/ Deinit
    <2>1. /\ UNCHANGED <<state, statetrans, cmd>>
          /\ \/ calling # None /\ cmdQ' = Append(cmdQ, calling) /\ calling' = None
             \/ cmdQ' = Append(cmdQ, ExitLoop) /\ calling' = calling
      BY <1>6 DEF PostCommand, Deinit, handler
    <2> QED
      BY <1>0, <2>1, PostOrder
  <1>7. CASE CheckRun \/ Wait \/ NoMoreCommands
    BY <1>1, <1>7 DEF CheckRun, Wait, NoMoreCommands, NoCall, handler
  <1>8. CASE Receive
    <2>1. state' = state
      BY <1>8 DEF Receive
    <2> QED
      BY <1>0, <1>8, <2>1, ReceiveOrder
  <1>9. CASE CommandStep
    <2>0. UNCHANGED <<cmdQ, calling>>
      BY <1>9 DEF CommandStep, SameState, BeginTransition, CompleteStateSet, IllegalStateSet, FinishIdle,
           FailStateSet, FinishLoaded, BeginReturn, FinishFlush, ClearFlush, AwaitDealloc, PortDealloc,
           BeginEnable, PortEnabled, ReturnHeld, LockPort, ReturnNext, ClearQueue, Quiet, NoCall
    <2>1. CASE SameState \/ BeginTransition \/ BeginReturn \/ FinishFlush \/ AwaitDealloc \/ BeginEnable
      BY <1>1, <2>0, <2>1 DEF SameState, BeginTransition, BeginReturn, FinishFlush, AwaitDealloc, BeginEnable,
                              Answer
    <2>2. CASE PortDealloc \/ PortEnabled \/ ClearFlush
      BY <1>1, <2>0, <2>2 DEF PortDealloc, PortEnabled, ClearFlush, Answer, handler
    <2>3. CASE ReturnHeld \/ LockPort \/ ReturnNext \/ ClearQueue
      BY <1>1, <2>0, <2>3 DEF ReturnHeld, LockPort, ReturnNext, ClearQueue, handler
    <2>4. CASE CompleteStateSet
      <3>1. Asks(cmd) /\ cmd' = None
        BY <2>4, HandledIs DEF CompleteStateSet, Answer, Asks, CommandInv, Handlers
      <3>2. state # "Invalid" /\ cmd.arg # state
        BY <2>4, <3>1 DEF CompleteStateSet, Handling, Immediate, ChangeInv, UnderWay
      <3> QED
        BY <1>2, <2>0, <3>1, <3>2
    <2>5. CASE IllegalStateSet
      <3>1. Asks(cmd) /\ cmd' = None /\ cmd.arg # state /\ state' = state
        BY <2>5, HandledIs DEF IllegalStateSet, Answer, Asks
      <3> QED
        BY <1>2, <2>0, <3>1
    <2>6. CASE FinishIdle \/ FinishLoaded
      <3>1. Asks(cmd) /\ cmd' = None
        BY <2>6 DEF FinishIdle, FinishLoaded, Answer, Asks, CommandInv, Handlers
      <3>2. state # "Invalid" /\ cmd.arg # state
        BY <2>6, <3>1 DEF FinishIdle, FinishLoaded, ChangeInv, UnderWay
      <3> QED
        BY <1>2, <2>0, <3>1, <3>2
    <2>7. ~FailStateSet
      BY DEF FailStateSet
    <2> QED
      BY <1>9, <2>1, <2>2, <2>3, <2>4, <2>5, <2>6, <2>7 DEF CommandStep
  <1>10. CASE BufferStep
    BY <1>1, <1>10, BufferFrame, BufferState
  <1>12. ~Aborts
    BY AbortsFrame
  <1>13. CASE ReceiveFails \/ PopFault \/ PushFails \/ ClearFails
    BY <1>1, <1>13, ReceiveFrame, PopFrameIs, PushFrame, ClearFrame
  <1>14. CASE PostFault
    BY <1>0, <1>14, PostFrame, UnpostedOrder
  <1>11. CASE UNCHANGED vars
    BY <1>1, <1>11 DEF vars, handler, client
  <1> QED
    BY <1>3, <1>4, <1>5, <1>6, <1>7, <1>8, <1>9, <1>10, <1>11, <1>12, <1>13, <1>14, FaultIs
    DEF Next, Client, ThreadStep, Aborts

LEMMA NextChange ==
  ASSUME CommandInv, ChangeInv, [Next]_vars
  PROVE  ChangeInv'
  <1>1. UnderWay'
    BY NextUnderWay DEF ChangeInv
  <1>2. state' # "Invalid" => OrderInv'
    BY NextOrder
  <1> QED
    BY <1>1, <1>2 DEF ChangeInv

-----------------------------------------------------------------------------
(* A port whose pop failed.                                                *)

\* A pop fails only while the component executes, and the queue it leaves cannot be
\* emptied any more: a change to Idle waits at that port for ever.
StuckInv ==
  /\ unpopped # {} => state \in {"Executing", "Pause", "Invalid"}
  /\ Asks(cmd) /\ pc \in {"held", "lock", "return"} => unpopped \subseteq {todo[k] : k \in 1..Len(todo)}
  /\ Asks(cmd) /\ pc = "returned" => unpopped = {}
  /\ pc \in Decoding \cup {"popMask"} => state = "Executing"

LEMMA SameStuck ==
  ASSUME StuckInv, UNCHANGED <<state, unpopped, cmd, pc, todo>>
  PROVE  StuckInv'
  BY DEF StuckInv

\* The thread goes on to other labels, or aborts.
LEMMA AwayStuck ==
  ASSUME StuckInv, UNCHANGED unpopped, state' = state \/ state' = "Invalid",
         ~Asks(cmd') \/ pc' \notin {"held", "lock", "return", "returned"},
         pc' \notin Decoding \cup {"popMask"}
  PROVE  StuckInv'
  BY DEF StuckInv

\* The port that is cleared is not one whose pop failed.
LEMMA ClearStuck ==
  ASSUME StuckInv, FaultInv, TodoInv, PortsInv, ClearQueue \/ ClearFails
  PROVE  StuckInv'
  <1>1. /\ UNCHANGED <<state, unpopped, cmd>> /\ todo' = Tail(todo) /\ pc = "return"
        /\ \/ Tail(todo) = <<>> /\ pc' = "returned"
           \/ Tail(todo) # <<>> /\ pc' = "held"
    BY ClearFrame DEF ClearQueue, Goto, Quiet, NoCall, faulted
  <1>2. Head(todo) \notin unpopped
    <2>1. \A p \in unpopped : p \in broken /\ bufferqueue[p] # <<>>
      BY DEF FaultInv
    <2> QED
      BY <2>1, ClearFrame DEF ClearQueue
  <1>3. /\ todo \in Seq(Ports) /\ todo # <<>>
    BY <1>1 DEF TodoInv
  <1>4. /\ Len(todo) \in Nat \ {0} /\ Len(todo') = Len(todo) - 1 /\ Head(todo) = todo[1]
        /\ \A k \in 1..Len(todo') : todo'[k] = todo[k + 1]
    BY <1>1, <1>3
  <1>5. ASSUME Asks(cmd), NEW p \in unpopped PROVE \E k \in 1..Len(todo') : todo'[k] = p
    <2>1. PICK k \in 1..Len(todo) : todo[k] = p
      BY <1>1, <1>5 DEF StuckInv
    <2>2. k # 1
      BY <1>2, <1>4, <2>1
    <2>3. k - 1 \in 1..Len(todo') /\ todo'[k - 1] = todo[k]
      BY <1>4, <2>2
    <2> QED
      BY <2>1, <2>3
  <1>6. Tail(todo) = <<>> => Len(todo') = 0
    BY <1>1
  <1>7. Asks(cmd) => unpopped \subseteq {todo'[k] : k \in 1..Len(todo')}
    BY <1>5
  <1>8. Asks(cmd) /\ Tail(todo) = <<>> => unpopped = {}
    BY <1>5, <1>6
  <1> HIDE DEF Asks
  <1> QED
    BY <1>1, <1>7, <1>8 DEF StuckInv, Decoding

LEMMA CommandStuck ==
  ASSUME StuckInv, ThreadInv, FaultInv, ChangeInv, CommandStep
  PROVE  StuckInv'
  <1> USE DEF ThreadInv
  <1>0. UNCHANGED unpopped
    BY DEF CommandStep, SameState, BeginTransition, CompleteStateSet, IllegalStateSet, FinishIdle,
           FailStateSet, FinishLoaded, BeginReturn, FinishFlush, ClearFlush, AwaitDealloc, PortDealloc,
           BeginEnable, PortEnabled, ReturnHeld, LockPort, ReturnNext, ClearQueue, Quiet, NoCall, faulted
  <1>1. CASE SameState \/ IllegalStateSet \/ FailStateSet \/ FinishFlush \/ ClearFlush
    <2>1. /\ state' \in {state, "Invalid"}
          /\ cmd' = None /\ pc' \in {"receive", "clearFlush"}
      BY <1>1 DEF SameState, IllegalStateSet, FailStateSet, FinishFlush, ClearFlush, Answer, Goto,
                  CommandInv, Handlers, handler
    <2> QED
      BY <1>0, <2>1, AwayStuck DEF Asks, Decoding
  <1>2. CASE CompleteStateSet
    <2>1. /\ Asks(cmd) /\ state' = cmd.arg /\ cmd' = None /\ pc' = "receive"
      BY <1>2, HandledIs DEF CompleteStateSet, Answer, Goto, Asks, CommandInv, Handlers
    <2>2. unpopped # {} => cmd.arg \in {"Executing", "Pause", "Invalid"}
      BY <1>2, <2>1 DEF CompleteStateSet, StuckInv, Immediate
    <2> QED
      BY <1>0, <2>1, <2>2 DEF StuckInv, Asks, Decoding
  <1>3. CASE FinishIdle \/ FinishLoaded
    <2>1. /\ Asks(cmd) /\ cmd' = None /\ pc' = "receive" /\ pc \in {"waitReady", "waitFree"}
      BY <1>3 DEF FinishIdle, FinishLoaded, Answer, Goto, Asks, CommandInv, Handlers
    <2>2. unpopped = {}
      BY <2>1 DEF ChangeInv, UnderWay, StuckInv
    <2> QED
      BY <1>0, <2>1, <2>2 DEF StuckInv, Asks, Decoding
  <1>4. CASE BeginTransition
    <2>1. /\ UNCHANGED <<state, cmd>> /\ todo' = PortsOf("all") /\ pc' \in {"waitReady", "waitFree", "held"}
      BY <1>4, Zenon DEF BeginTransition, Goto
    <2>2. unpopped \subseteq {todo'[k] : k \in 1..Len(todo')}
      <3>1. todo' = <<"in", "out", "pp">>
        BY <2>1 DEF PortsOf
      <3>2. Len(todo') = 3 /\ todo'[1] = "in" /\ todo'[2] = "out" /\ todo'[3] = "pp"
        BY <3>1
      <3>3. \A p \in Ports : \E k \in 1..Len(todo') : todo'[k] = p
        BY <3>2 DEF Ports
      <3> QED
        BY <3>3 DEF FaultInv
    <2> HIDE DEF Asks
    <2> QED
      BY <1>0, <2>1, <2>2 DEF StuckInv, Decoding
  <1>5. CASE BeginReturn \/ AwaitDealloc \/ BeginEnable
    <2>1. /\ UNCHANGED <<state, cmd>> /\ ~Asks(cmd) /\ pc' \in {"held", "waitFree", "enable"}
      BY <1>5 DEF BeginReturn, AwaitDealloc, BeginEnable, Handling, Goto, Asks
    <2> QED
      BY <1>0, <2>1, AwayStuck DEF Decoding
  <1>6. CASE PortDealloc \/ PortEnabled
    <2>1. /\ UNCHANGED state /\ ~Asks(cmd') /\ pc' \in {"waitFree", "enable", "receive"}
      BY <1>6 DEF PortDealloc, PortEnabled, Answer, Goto, CommandInv, Asks
    <2> QED
      BY <1>0, <2>1, AwayStuck DEF Decoding
  <1>7. CASE ReturnHeld \/ LockPort \/ ReturnNext
    <2>1. /\ UNCHANGED <<state, cmd, todo>> /\ pc \in {"held", "lock", "return"} /\ pc' \in {"held", "lock", "return"}
      BY <1>7 DEF ReturnHeld, LockPort, ReturnNext, Goto, handler
    <2> HIDE DEF Asks
    <2> QED
      BY <1>0, <2>1 DEF StuckInv, Decoding
  <1>8. CASE ClearQueue
    BY <1>8, ClearStuck
  <1> QED
    BY <1>1, <1>2, <1>3, <1>4, <1>5, <1>6, <1>7, <1>8 DEF CommandStep

LEMMA BufferStuck ==
  ASSUME StuckInv, CommandInv, BufferStep
  PROVE  StuckInv'
  <1>1. cmd' = None /\ UNCHANGED unpopped
    <2>1. UNCHANGED unpopped
      BY DEF BufferStep, SetMask, PopMask, NoMask, StartDecode, NoInput, ScanMore, ScanDone, TakeOutput,
             DoWithout, Overflow, DecodeData, DecodeInfo, DecodeErrorStream, CodecFails, NextFrame,
             DrainFrames, GetFrame, NoMoreFrames, DispatchFrame, PopFrame, LastFrame, InputDone, PopInput,
             Calm, NoCall, faulted
    <2> QED
      BY <2>1, BufferFrame DEF CommandInv, Handlers, Processing
  <1>2. /\ state' \in {state, "Invalid"}
        /\ pc' \in Decoding \cup {"popMask"} => state' = "Executing"
    <2> USE DEF StuckInv, Decoding, Goto, Leave, FramesEnd
    <2>1. CASE SetMask \/ PopMask \/ NoMask \/ StartDecode \/ NoInput
      BY <2>1 DEF SetMask, HasMask, PopMask, NoMask, StartDecode, HasInput, NoInput
    <2>2. CASE ScanMore \/ ScanDone \/ TakeOutput \/ DoWithout
      BY <2>2 DEF ScanMore, ScanDone, TakeOutput, DoWithout
    <2>3. CASE Overflow \/ DecodeData \/ DecodeInfo \/ DecodeErrorStream \/ CodecFails
      BY <2>3 DEF Overflow, DecodeData, DecodeInfo, DecodeErrorStream, CodecFails
    <2>4. CASE NextFrame \/ DrainFrames \/ GetFrame \/ NoMoreFrames
      BY <2>4 DEF NextFrame, DrainFrames, GetFrame, NoMoreFrames
    <2>5. CASE DispatchFrame \/ PopFrame \/ LastFrame \/ InputDone \/ PopInput
      BY <2>5 DEF DispatchFrame, PopFrame, LastFrame, InputDone, PopInput
    <2> QED
      BY <2>1, <2>2, <2>3, <2>4, <2>5 DEF BufferStep
  <1> QED
    BY <1>1, <1>2 DEF StuckInv, Asks

LEMMA NextStuck ==
  ASSUME StuckInv, ThreadInv, FaultInv, ChangeInv, [Next]_vars
  PROVE  StuckInv'
  <1> USE DEF ThreadInv
  <1>1. CASE \/ \E p \in Ports : \E b \in Buffers[p] : HandleBuffer(p, b)
             \/ QueueBuffer \/ SetRealTime \/ Destroy
    <2>1. UNCHANGED <<cmd, pc, state, unpopped>>
      BY <1>1, ClientFrame DEF HandleBuffer, Submit, AllocateBuffer, FreeBuffer, QueueBuffer, SetRealTime,
                               Destroy, faulted
    <2>2. UNCHANGED todo
      BY <1>1 DEF HandleBuffer, Submit, AllocateBuffer, FreeBuffer, QueueBuffer, SetRealTime,
                  Destroy, handler
    <2> QED
      BY <2>1, <2>2, SameStuck
  <1>2. CASE SendCommand \/ PostCommand \/ Deinit
    BY <1>2, SameStuck DEF SendCommand, CallStateSet, CallFlush, CallPortDisable, CallPortEnable, Call,
                           PostCommand, Deinit, handler, faulted
  <1>3. CASE CheckRun \/ Wait \/ NoMoreCommands \/ Receive
    <2>1. /\ UNCHANGED <<state, unpopped>>
          /\ pc' \notin Decoding \cup {"popMask", "held", "lock", "return", "returned"}
      BY <1>3 DEF CheckRun, Wait, NoMoreCommands, Receive, Goto, NoCall, faulted, Decoding
    <2> QED
      BY <2>1, AwayStuck
  <1>4. CASE CommandStep
    BY <1>4, CommandStuck
  <1>5. CASE BufferStep
    BY <1>5, BufferStuck
  <1>6. CASE Aborts \/ ReceiveFails
    <2>1. /\ UNCHANGED unpopped /\ state' \in {state, "Invalid"}
          /\ pc' \in {"exited", "buffers"}
      BY <1>6, AbortsFrame, ReceiveFrame
    <2> QED
      BY <2>1, AwayStuck DEF Decoding
  <1>7. CASE PushFails \/ PostFault
    BY <1>7, SameStuck, PushFrame, PostFrame
  <1>8. CASE ClearFails
    BY <1>8, ClearStuck
  <1>9. CASE PopFault
    <2>1. /\ pc \in {"popMask", "popFrame", "popInput"} /\ UNCHANGED <<state, cmd>>
          /\ pc' \notin {"held", "lock", "return", "returned"}
      BY <1>9, PopFrameIs DEF CommandInv
    <2>2. state = "Executing"
      BY <2>1 DEF StuckInv, Decoding
    <2> QED
      BY <2>1, <2>2 DEF StuckInv
  <1>10. CASE UNCHANGED vars
    BY <1>10, SameStuck DEF vars, handler, faulted
  <1> QED
    BY <1>1, <1>2, <1>3, <1>4, <1>5, <1>6, <1>7, <1>8, <1>9, <1>10, FaultIs
    DEF Next, Client, ThreadStep, SendCommand, Aborts

-----------------------------------------------------------------------------
(* Loaded means released.                                                  *)

\* Without buffers of its own the component is Loaded, unless it goes to Idle, or
\* waits for resources; and nothing is queued or held while it is.
EmptyInv ==
  /\ state \in {"Loaded", "WaitForResources"} =>
        submitting = None /\ held = None /\ \A p \in Ports : bufferqueue[p] = <<>>
  /\ (state = "Loaded" /\ statetrans # "Idle") \/ state = "WaitForResources" =>
        \A p \in Ports : buffers[p] = {}

LEMMA StillEmpty ==
  ASSUME EmptyInv, UNCHANGED <<state, statetrans, submitting, held, bufferqueue>>,
         \A p \in Ports : buffers'[p] \subseteq buffers[p]
  PROVE  EmptyInv'
  BY DEF EmptyInv

\* Ports without buffers have nothing queued, if no pop failed.
LEMMA NothingQueued ==
  ASSUME OwnerInv, PortsInv, unpopped = {}, \A p \in Ports : buffers[p] = {}, pc \notin ReturnLabels
  PROVE  /\ submitting = None /\ held = None
         /\ \A p \in Ports : bufferqueue[p] = <<>> /\ own[p] = {}
  <1>1. \A p \in Ports : \A b \in Buffers[p] : b \notin own[p] /\ ~Called(p, b) /\ ~Queued(p, b) /\ ~Kept(p, b)
    BY OwnerFacts DEF Sole
  <1>2. held = None
    BY <1>1, BuffersFacts DEF Kept, PortsInv, Ports
  <1>3. submitting = None
    BY <1>1 DEF Called, PortsInv
  <1>4. ASSUME NEW p \in Ports PROVE bufferqueue[p] = <<>> /\ own[p] = {}
    <2>1. own[p] = {}
      BY <1>1 DEF PortsInv
    <2>2. ASSUME bufferqueue[p] # <<>> PROVE FALSE
      <3>1. /\ Head(bufferqueue[p]) = bufferqueue[p][1] /\ Head(bufferqueue[p]) \in Buffers[p]
            /\ 0 < Len(bufferqueue[p]) /\ Len(bufferqueue[p]) \in Nat
        BY <2>2, HeadFacts
      <3>2. Queued(p, bufferqueue[p][1])
        BY <3>1, ReturnedIs DEF Queued, LeftIn
      <3> QED
        BY <1>1, <3>1, <3>2
    <2> QED
      BY <2>1, <2>2
  <1> QED
    BY <1>2, <1>3, <1>4

\* A client's call allocates only on the way to Idle, or beyond it.
LEMMA ClientEmpty ==
  ASSUME EmptyInv, ThreadInv, Client
  PROVE  EmptyInv'
  <1> USE DEF ThreadInv
  <1>1. ASSUME NEW p \in Ports, NEW b \in Buffers[p], Submit(p, b) PROVE EmptyInv'
    <2>1. state \notin {"Loaded", "WaitForResources"} /\ state' = state
      BY <1>1 DEF Submit, Accepts
    <2> QED
      BY <2>1 DEF EmptyInv
  <1>2. ASSUME NEW p \in Ports, NEW b \in Buffers[p], AllocateBuffer(p, b) PROVE EmptyInv'
    <2>1. /\ UNCHANGED <<state, statetrans, submitting, held, bufferqueue>>
          /\ (state = "Loaded" /\ statetrans = "Idle") \/ state \in {"Idle", "Executing", "Pause"}
      BY <1>2 DEF AllocateBuffer, MayAllocate
    <2> QED
      BY <2>1 DEF EmptyInv
  <1>3. ASSUME NEW p \in Ports, NEW b \in Buffers[p], FreeBuffer(p, b) PROVE EmptyInv'
    <2>1. /\ UNCHANGED <<state, statetrans, submitting, held, bufferqueue>>
          /\ buffers' = [buffers EXCEPT ![p] = @ \ {b}]
      BY <1>3 DEF FreeBuffer
    <2>2. \A o \in Ports : buffers'[o] \subseteq buffers[o]
      BY <2>1 DEF PortsInv
    <2> QED
      BY <2>1, <2>2, StillEmpty
  <1>4. ASSUME NEW s \in States, CallStateSet(s) PROVE EmptyInv'
    <2>1. statetrans = state /\ UNCHANGED <<state, submitting, held, bufferqueue, buffers>>
      BY <1>4 DEF CallStateSet, Call
    <2> QED
      BY <2>1 DEF EmptyInv
  <1>5. ASSUME NEW a \in PortArgs, CallFlush(a) \/ CallPortDisable(a) \/ CallPortEnable(a) PROVE EmptyInv'
    BY <1>5, StillEmpty DEF CallFlush, CallPortDisable, CallPortEnable, Call
  <1>6. CASE PostCommand \/ SetRealTime \/ Deinit
    BY <1>6, StillEmpty DEF PostCommand, SetRealTime, Deinit, ports, client
  <1>7. CASE QueueBuffer
    <2>1. submitting # None /\ state' = state
      BY <1>7 DEF QueueBuffer
    <2> QED
      BY <2>1 DEF EmptyInv
  <1>8. CASE Destroy
    BY <1>8 DEF Destroy, EmptyInv
  <1> QED
    BY <1>1, <1>2, <1>3, <1>4, <1>5, <1>6, <1>7, <1>8 DEF Client, HandleBuffer

\* A change of state to Loaded finds no buffers.
LEMMA ChangeEmpty ==
  ASSUME EmptyInv, OwnerInv, ThreadInv, ChangeInv, StuckInv,
         CompleteStateSet \/ IllegalStateSet \/ FinishIdle \/ FailStateSet \/ FinishLoaded
  PROVE  EmptyInv'
  <1> USE DEF ThreadInv
  <1>0. UNCHANGED <<submitting, held, bufferqueue, buffers>>
    BY DEF CompleteStateSet, IllegalStateSet, FinishIdle, FailStateSet, FinishLoaded, Quiet, NoCall, ports
  <1>1. CASE CompleteStateSet
    <2>1. Asks(cmd) /\ state' = cmd.arg /\ statetrans' = cmd.arg
      BY <1>1, HandledIs DEF CompleteStateSet, Asks, CommandInv, Handlers
    <2>2. CASE pc = "returned"
      <3>1. cmd.arg = "Idle"
        BY <2>1, <2>2 DEF ChangeInv, UnderWay
      <3> QED
        BY <2>1, <3>1 DEF EmptyInv
    <2>3. CASE <<state, cmd.arg>> \in Immediate
      <3>1. state # "Invalid" /\ cmd.arg # state
        BY <2>3 DEF Immediate
      <3>2. statetrans = cmd.arg
        BY <2>1, <3>1 DEF ChangeInv, OrderInv
      <3>3. cmd.arg \in {"Loaded", "WaitForResources"} => state \in {"Loaded", "WaitForResources"}
        BY <2>3 DEF Immediate
      <3> QED
        BY <1>0, <2>1, <3>1, <3>2, <3>3 DEF EmptyInv
    <2> QED
      BY <1>1, <2>2, <2>3 DEF CompleteStateSet
  <1>2. CASE IllegalStateSet
    <2>1. /\ Asks(cmd) /\ cmd.arg # state /\ <<state, cmd.arg>> \notin Gradual
          /\ state' = state /\ statetrans' = state
      BY <1>2, HandledIs DEF IllegalStateSet, Asks
    <2>2. state # "Invalid" => statetrans = cmd.arg
      BY <2>1 DEF ChangeInv, OrderInv
    <2>3. state = "Loaded" => statetrans # "Idle"
      BY <2>1, <2>2 DEF Gradual
    <2> QED
      BY <1>0, <2>1, <2>3 DEF EmptyInv
  <1>3. CASE FinishIdle \/ FailStateSet
    BY <1>3 DEF FinishIdle, FailStateSet, EmptyInv
  <1>4. CASE FinishLoaded
    <2>1. /\ \A p \in Ports : buffers[p] = {}
          /\ pc = "waitFree" /\ Asks(cmd)
      BY <1>4 DEF FinishLoaded, Asks, CommandInv, Handlers
    <2>2. pc \notin ReturnLabels
      BY <2>1 DEF ReturnLabels
    <2>3. unpopped = {}
      BY <2>1 DEF StuckInv, ChangeInv, UnderWay
    <2> QED
      BY <1>0, <2>1, <2>2, <2>3, NothingQueued DEF EmptyInv
  <1> QED
    BY <1>1, <1>2, <1>3, <1>4

\* With nothing queued or held there is nothing the thread's steps could return.
LEMMA ThreadDry ==
  ASSUME ThreadInv, ThreadStep, held = None, \A p \in Ports : bufferqueue[p] = <<>>
  PROVE  UNCHANGED <<submitting, held, bufferqueue, buffers>>
  <1> USE DEF ThreadInv
  <1>1. CASE CommandStep
    <2>1. CASE SameState \/ BeginTransition \/ CompleteStateSet \/ IllegalStateSet \/ FinishIdle \/ FailStateSet
      BY <2>1 DEF SameState, BeginTransition, CompleteStateSet, IllegalStateSet, FinishIdle, FailStateSet,
                  Quiet, NoCall, ports
    <2>2. CASE FinishLoaded \/ BeginReturn \/ FinishFlush \/ ClearFlush \/ AwaitDealloc \/ PortDealloc
      BY <2>2 DEF FinishLoaded, BeginReturn, FinishFlush, ClearFlush, AwaitDealloc, PortDealloc,
                  Quiet, NoCall, ports
    <2>3. CASE BeginEnable \/ PortEnabled \/ LockPort
      BY <2>3 DEF BeginEnable, PortEnabled, LockPort, Quiet, NoCall, ports
    <2>4. CASE ReturnHeld
      BY <2>4 DEF ReturnHeld, Quiet, NoCall
    <2>5. CASE ReturnNext
      <3>1. Head(todo) \in Ports /\ i < count /\ count <= Len(bufferqueue[Head(todo)]) /\ i \in Nat /\ count \in Nat
        BY <2>5 DEF ReturnNext, TodoInv
      <3> QED
        BY <3>1
    <2>6. CASE ClearQueue
      <3>1. /\ UNCHANGED <<submitting, held, buffers>> /\ Head(todo) \in Ports
            /\ bufferqueue' = [bufferqueue EXCEPT ![Head(todo)] = <<>>]
        BY <2>6 DEF ClearQueue, Quiet, NoCall, TodoInv
      <3>2. bufferqueue' = bufferqueue
        BY <3>1 DEF PortsInv
      <3> QED
        BY <3>1, <3>2
    <2> QED
      BY <1>1, <2>1, <2>2, <2>3, <2>4, <2>5, <2>6 DEF CommandStep
  <1>2. CASE BufferStep
    <2>1. pc \notin Decoding /\ pc # "popMask"
      BY DEF DecodeInv, Ports
    <2>2. CASE NoMask \/ NoInput
      BY <2>2 DEF NoMask, NoInput, Calm, NoCall, ports
    <2>3. ~SetMask /\ ~StartDecode
      BY DEF SetMask, HasMask, StartDecode, HasInput, Ports
    <2>4. ~(PopMask \/ ScanMore \/ ScanDone \/ TakeOutput \/ DoWithout \/ Overflow \/ DecodeData \/ DecodeInfo)
      BY <2>1 DEF PopMask, ScanMore, ScanDone, TakeOutput, DoWithout, Overflow, DecodeData, DecodeInfo, Decoding
    <2>5. ~(DecodeErrorStream \/ CodecFails \/ NextFrame \/ DrainFrames \/ GetFrame \/ NoMoreFrames)
      BY <2>1 DEF DecodeErrorStream, CodecFails, NextFrame, DrainFrames, GetFrame, NoMoreFrames, Decoding
    <2>6. ~(DispatchFrame \/ PopFrame \/ LastFrame \/ InputDone \/ PopInput)
      BY <2>1 DEF DispatchFrame, PopFrame, LastFrame, InputDone, PopInput, Decoding
    <2> QED
      BY <1>2, <2>2, <2>3, <2>4, <2>5, <2>6 DEF BufferStep
  <1>3. CASE CheckRun \/ ExitOnError \/ Wait \/ Receive \/ NoMoreCommands
    BY <1>3 DEF CheckRun, ExitOnError, Wait, Receive, NoMoreCommands, NoCall, ports
  <1> QED
    BY <1>1, <1>2, <1>3 DEF ThreadStep

LEMMA ThreadEmpty ==
  ASSUME EmptyInv, ThreadInv, ThreadStep, UNCHANGED <<state, statetrans>>
  PROVE  EmptyInv'
  <1>1. CASE state \notin {"Loaded", "WaitForResources"}
    BY <1>1 DEF EmptyInv
  <1>2. CASE state \in {"Loaded", "WaitForResources"}
    <2>1. held = None /\ \A p \in Ports : bufferqueue[p] = <<>>
      BY <1>2 DEF EmptyInv
    <2>2. UNCHANGED <<submitting, held, bufferqueue, buffers>>
      BY <2>1, ThreadDry
    <2> QED
      BY <2>2, StillEmpty
  <1> QED
    BY <1>1, <1>2

LEMMA FaultEmpty ==
  ASSUME EmptyInv, ThreadInv, Fault \/ ExitOnError
  PROVE  EmptyInv'
  <1> USE DEF ThreadInv
  <1>1. CASE Aborts
    BY <1>1, AbortsFrame DEF EmptyInv
  <1>2. CASE PostFault \/ ReceiveFails
    BY <1>2, PostFrame, ReceiveFrame, StillEmpty
  <1>3. CASE PushFails
    <2>1. submitting # None /\ state' = state
      BY <1>3, PushFrame
    <2> QED
      BY <2>1 DEF EmptyInv
  <1>4. CASE PopFault
    BY <1>4, PopFrameIs, StillEmpty
  <1>5. CASE ClearFails
    <2>1. /\ UNCHANGED <<state, statetrans, submitting, held, buffers>> /\ Head(todo) \in Ports
          /\ bufferqueue' = [bufferqueue EXCEPT ![Head(todo)] = <<>>]
      BY <1>5, ClearFrame DEF TodoInv
    <2>2. \A p \in Ports : bufferqueue[p] = <<>> => bufferqueue'[p] = <<>>
      BY <2>1 DEF PortsInv
    <2> QED
      BY <2>1, <2>2 DEF EmptyInv
  <1> QED
    BY <1>1, <1>2, <1>3, <1>4, <1>5, FaultIs DEF Aborts

LEMMA NextEmpty ==
  ASSUME EmptyInv, OwnerInv, ThreadInv, ChangeInv, StuckInv, [Next]_vars
  PROVE  EmptyInv'
  <1>1. ASSUME ThreadStep, state' # state \/ statetrans' # statetrans PROVE EmptyInv'
    <2>1. CASE BufferStep
      <3>1. state' = "Invalid"
        BY <1>1, <2>1, BufferState, BufferFrame DEF ThreadInv
      <3> QED
        BY <3>1 DEF EmptyInv
    <2>2. CASE CompleteStateSet \/ IllegalStateSet \/ FinishIdle \/ FailStateSet \/ FinishLoaded
      BY <2>2, ChangeEmpty
    <2>3. ~(SameState \/ BeginTransition \/ BeginReturn \/ FinishFlush \/ ClearFlush \/ AwaitDealloc)
      BY <1>1 DEF SameState, BeginTransition, BeginReturn, FinishFlush, ClearFlush, AwaitDealloc
    <2>4. ~(PortDealloc \/ BeginEnable \/ PortEnabled \/ ReturnHeld \/ LockPort \/ ReturnNext \/ ClearQueue)
      BY <1>1 DEF PortDealloc, BeginEnable, PortEnabled, ReturnHeld, LockPort, ReturnNext, ClearQueue
    <2>5. ~(CheckRun \/ Wait \/ Receive \/ NoMoreCommands)
      BY <1>1 DEF CheckRun, Wait, Receive, NoMoreCommands
    <2> QED
      BY <1>1, <2>1, <2>2, <2>3, <2>4, <2>5, FaultEmpty DEF ThreadStep, CommandStep
  <1>2. CASE UNCHANGED vars
    BY <1>2, StillEmpty DEF vars, ports, client
  <1> QED
    BY <1>1, <1>2, ClientEmpty, ThreadEmpty, FaultEmpty DEF Next

\* A component that is Loaded, or waits for resources, has no buffer, unless it is on
\* its way to Idle: changes of state happen one at a time, in the order they were
\* asked for, and the one to Loaded waits until every buffer is freed.  A failed pop
\* does not get in the way: its port never empties, so Idle is not reached.
THEOREM EmptyInvariant == Spec => [](ChangeInv /\ StuckInv /\ EmptyInv)
  <1>1. Init => ChangeInv /\ StuckInv /\ EmptyInv
    BY DEF Init, ChangeInv, UnderWay, OrderInv, Asks, StuckInv, Decoding, EmptyInv
  <1>2. /\ ThreadInv /\ OwnerInv /\ ChangeInv /\ StuckInv /\ EmptyInv /\ [Next]_vars
        => ChangeInv' /\ StuckInv' /\ EmptyInv'
    BY NextChange, NextStuck, NextEmpty DEF ThreadInv
  <1> QED
    BY <1>1, <1>2, OwnerInvariant, PTL DEF Spec

\* What decoder_deinit asserts of a Loaded component (decoder.c:515-526): it has no
\* buffer left, in a queue or allocated.
THEOREM LoadedIsReleased == Spec => []LoadedMeansReleased
  <1>1. ThreadInv /\ OwnerInv /\ StuckInv /\ EmptyInv => LoadedMeansReleased
    <2> SUFFICES ASSUME ThreadInv, OwnerInv, StuckInv, EmptyInv, state = "Loaded", statetrans = "Loaded"
                 PROVE  \A p \in Ports : buffers[p] = {} /\ bufferqueue[p] = <<>> /\ own[p] = {}
      BY DEF LoadedMeansReleased
    <2>1. \A p \in Ports : buffers[p] = {} /\ bufferqueue[p] = <<>>
      BY DEF EmptyInv
    <2>2. \A p \in Ports : own[p] = {}
      <3>1. unpopped = {}
        BY DEF StuckInv
      <3> QED
        BY <2>1, <3>1, OwnerFacts DEF Sole, ThreadInv, PortsInv
    <2> QED
      BY <2>1, <2>2
  <1> QED
    BY <1>1, OwnerInvariant, EmptyInvariant, PTL

=============================================================================
