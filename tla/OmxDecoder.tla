----------------------------- MODULE OmxDecoder -----------------------------
(***************************************************************************)
(* The OMX video decoder component (omxil_decoder/source/81x0_decoder/     *)
(* decoder.c with port.c and basecomp.c): the API calls a client makes     *)
(* from its own threads, and the component thread that executes the        *)
(* commands, moves the buffers and drives the codec.  The command queue is *)
(* the FIFO that CommandQueue specifies and MsgQueue implements; here a    *)
(* push or a receive is one step.                                          *)
(*                                                                         *)
(* The client has a control thread (SendCommand, AllocateBuffer,           *)
(* FreeBuffer, DeInit) and, unless it is Careful, a second thread that     *)
(* submits buffers while commands are executed.  A port's buffer event is  *)
(* signalled when its queue is not empty (port.c changes both under the    *)
(* port's mutex).  The ports are not tunnelled (OMX_DECODER_TUNNELING_-    *)
(* SUPPORT is off); assertions are compiled out, as in the release build.  *)
(*                                                                         *)
(* The pipe of an event (OSAL.c) may fail, and malloc.  A failed EventSet  *)
(* or EventReset leaves the event's own mutex locked: the event is broken, *)
(* and the next to set or reset it waits for ever.                         *)
(***************************************************************************)
EXTENDS Naturals, Sequences, FiniteSets

CONSTANTS
  InBuffers, OutBuffers, PpBuffers,  \* the buffers the client gives each port
  None,          \* the null pointer, and "no command"
  Requests,      \* the commands the client may send
  MaxCommands,   \* bound: commands sent in a run
  MaxUnits,      \* bound: decoding units in one input buffer
  MaxFrames,     \* bound: frames the codec holds back
  SubmitStates,  \* the states in which the client submits buffers
  Orderly,       \* the client awaits the answer to a command before the next,
                 \* sends none after one that failed, asks for legal state changes
                 \* only, and commands the ports only while the component executes
  Careful,       \* it submits no buffer to a port a pending command concerns,
                 \* and calls DeInit only when no command is pending
  Reentrant,     \* it may resubmit a buffer from within the callback
  Deinits,       \* it may call DeInit at any time
  Faults         \* what may fail: "select", "read" or "write" on the events, "malloc"

Ports == {"in", "out", "pp"}
Buffers == [p \in Ports |-> CASE p = "in" -> InBuffers [] p = "out" -> OutBuffers
                              [] p = "pp" -> PpBuffers]
AllBuffers == InBuffers \cup OutBuffers \cup PpBuffers

States   == {"Loaded", "Idle", "Executing", "Pause", "WaitForResources", "Invalid"}
PortArgs == Ports \cup {"all"}
Commands == [type : {"StateSet"}, arg : States]
            \cup [type : {"Flush", "PortDisable", "PortEnable"}, arg : PortArgs]
ExitLoop == [type |-> "Exit", arg |-> "all"]

\* The ports a port command concerns, in the order the handlers visit them.
PortsOf(arg) == IF arg = "all" THEN <<"in", "out", "pp">> ELSE <<arg>>
Concerns(arg, p) == arg \in {p, "all"}

\* The legal changes of state: at once, or when buffers have come or gone.
Immediate == { <<"Pause", "Executing">>, <<"Idle", "Executing">>, <<"Idle", "Pause">>,
               <<"Executing", "Pause">>, <<"Loaded", "WaitForResources">>,
               <<"WaitForResources", "Loaded">> }
Gradual   == { <<"Loaded", "Idle">>, <<"Executing", "Idle">>, <<"Pause", "Idle">>,
               <<"Idle", "Loaded">> }

ASSUME RequestsAssumption == Requests \subseteq Commands
ASSUME StatesAssumption   == SubmitStates \subseteq States
ASSUME BoundsAssumption   == MaxCommands \in Nat /\ MaxUnits \in Nat /\ MaxFrames \in Nat
ASSUME HabitsAssumption   == {Orderly, Careful, Reentrant, Deinits} \subseteq BOOLEAN
ASSUME FaultsAssumption   == Faults \subseteq {"select", "read", "write", "malloc"}
ASSUME NoneAssumption     == None \notin AllBuffers \cup Commands \cup {ExitLoop}
                                         \cup [port : Ports, buffer : AllBuffers]
ASSUME BuffersAssumption  == IsFiniteSet(AllBuffers)

VARIABLES
  \* OMX_DECODER
  state, statetrans, run,
  held,               \* buffer: the output buffer whose return is deferred
  portReconfigPending, outputPortFlushPending, dispatchOutputImmediately,
  codecHasFrame,      \* codecstate = CODEC_HAS_FRAME
  \* PORT, by port
  bEnabled, bPopulated, buffers, bufferqueue,
  \* the command queue
  cmdQ,
  \* the component thread
  pc, signals, cmd,
  todo,               \* the ports the current handler still has to visit
  count, i,           \* return_buffers: buffers to return, and returned so far
  inbuf, eos, units,  \* the input buffer being decoded, its EOS flag and units left
  frames,             \* frames the codec can still output
  slot,               \* the output buffer get_frame_buffer found
  after,              \* where the component continues after it, or after a dispatch
  caller,             \* who called get_frames: "decode", "resume" or "eos"
  \* the client
  own,                \* the buffers it holds, by port
  submitting,         \* the Fill/EmptyThisBuffer call that passed its checks
  calling,            \* the SendCommand whose flags are set, before the push
  sent,               \* commands sent
  deinit,             \* "no", "joining" or "done"
  \* the faults
  broken,             \* the events whose own mutex a failed call left locked
  err,                \* the component thread's: a receive failed
  unposted, unpopped  \* history: commands whose post failed, ports whose pop failed

flags    == <<portReconfigPending, outputPortFlushPending, dispatchOutputImmediately>>
ports    == <<bEnabled, bPopulated, buffers, bufferqueue>>
handler  == <<cmd, todo, count, i>>
decoding == <<inbuf, eos, units, frames, slot, after, caller, codecHasFrame>>
client   == <<own, submitting, calling, sent, deinit>>
faulted  == <<broken, err, unposted, unpopped>>
vars == <<state, statetrans, run, held, flags, ports, cmdQ, pc, signals, handler, decoding, client,
          faulted>>

Init ==
  /\ state = "Loaded" /\ statetrans = "Loaded" /\ run = TRUE
  /\ held = None
  /\ portReconfigPending = FALSE /\ outputPortFlushPending = FALSE
  /\ dispatchOutputImmediately = FALSE
  /\ bEnabled = [p \in Ports |-> p # "pp"]
  /\ bPopulated = [p \in Ports |-> FALSE]
  /\ buffers = [p \in Ports |-> {}]
  /\ bufferqueue = [p \in Ports |-> <<>>]
  /\ cmdQ = <<>>
  /\ pc = "top" /\ signals = {}
  /\ cmd = None /\ todo = <<>> /\ count = 0 /\ i = 0
  /\ inbuf = None /\ eos = FALSE /\ units = 0 /\ frames = 0
  /\ slot = None /\ after = "scan" /\ caller = "decode" /\ codecHasFrame = FALSE
  /\ own = [p \in Ports |-> {}]
  /\ submitting = None /\ calling = None /\ sent = 0 /\ deinit = "no"
  /\ broken = {} /\ err = FALSE /\ unposted = {} /\ unpopped = {}

-----------------------------------------------------------------------------
(* The client's side. *)

\* The commands that were accepted and not answered yet.
Pending == {cmdQ[k] : k \in 1..Len(cmdQ)} \cup ({cmd, calling} \ {None})

PendingOn(p) == \E c \in Pending : c.type = "StateSet" \/ Concerns(c.arg, p)

Ready == deinit = "no" /\ calling = None

\* The checks of decoder_push_buffer, made before the port is locked.
Accepts(p) == state \in {"Executing", "Pause", "Idle"} /\ bEnabled[p]

\* FillThisBuffer (port out) or EmptyThisBuffer, up to the lock.
Submit(p, b) ==
  /\ deinit = "no" /\ submitting = None
  /\ b \in own[p] /\ state \in SubmitStates
  /\ Careful => ~PendingOn(p)
  /\ Accepts(p)
  /\ submitting' = [port |-> p, buffer |-> b]
  /\ own' = [own EXCEPT ![p] = @ \ {b}]
  /\ UNCHANGED <<state, statetrans, run, held, flags, ports, cmdQ, pc, signals, handler,
                 decoding, calling, sent, deinit, faulted>>

\* The component thread holds the port's mutex while it returns its buffers.
Locked(p) == pc = "return" /\ Head(todo) = p

\* The rest of decoder_push_buffer, with the port locked.
QueueBuffer ==
  /\ submitting # None /\ ~Locked(submitting.port)
  /\ submitting.buffer \in buffers[submitting.port] => submitting.port \notin broken
  /\ LET p == submitting.port IN
       IF submitting.buffer \in buffers[p]
         THEN /\ bufferqueue' = [bufferqueue EXCEPT ![p] = Append(@, submitting.buffer)]
              /\ UNCHANGED own
         ELSE /\ own' = [own EXCEPT ![p] = @ \cup {submitting.buffer}]
              /\ UNCHANGED bufferqueue
  /\ submitting' = None
  /\ UNCHANGED <<state, statetrans, run, held, flags, bEnabled, bPopulated, buffers, cmdQ, pc,
                 signals, handler, decoding, calling, sent, deinit, faulted>>

\* The event cannot be set, and the buffer stays with the client.  EventSet writes
\* to the pipe only if the event is not set; the queue need not grow.
PushFails ==
  /\ submitting # None /\ ~Locked(submitting.port)
  /\ LET p == submitting.port IN
       /\ submitting.buffer \in buffers[p]
       /\ "write" \in Faults /\ bufferqueue[p] = <<>> /\ p \notin broken
       /\ broken' = broken \cup {p}
       /\ own' = [own EXCEPT ![p] = @ \cup {submitting.buffer}]
  /\ submitting' = None
  /\ UNCHANGED <<state, statetrans, run, held, flags, ports, cmdQ, pc, signals, handler, decoding,
                 calling, sent, deinit, err, unposted, unpopped>>

\* What every SendCommand has in common; the command is pushed by PostCommand.
Call(c) ==
  /\ Ready /\ state # "Invalid"
  /\ c \in Requests /\ sent < MaxCommands
  /\ Orderly => /\ Pending = {} /\ unposted = {}
                /\ IF c.type = "StateSet" THEN <<state, c.arg>> \in Immediate \cup Gradual
                                          ELSE state = "Executing"
  /\ Careful => submitting = None
  /\ calling' = c /\ sent' = sent + 1
  /\ UNCHANGED <<state, run, held, portReconfigPending, dispatchOutputImmediately, bPopulated,
                 buffers, bufferqueue, cmdQ, pc, signals, handler, decoding, own, submitting, deinit,
                 faulted>>

CallStateSet(s) ==
  /\ statetrans = state
  /\ statetrans' = s
  /\ Call([type |-> "StateSet", arg |-> s])
  /\ UNCHANGED <<bEnabled, outputPortFlushPending>>

CallFlush(a) ==
  /\ outputPortFlushPending' = (outputPortFlushPending \/ a = "out")
  /\ Call([type |-> "Flush", arg |-> a])
  /\ UNCHANGED <<statetrans, bEnabled>>

CallPortDisable(a) ==
  /\ bEnabled' = [p \in Ports |-> bEnabled[p] /\ ~Concerns(a, p)]
  /\ Call([type |-> "PortDisable", arg |-> a])
  /\ UNCHANGED <<statetrans, outputPortFlushPending>>

CallPortEnable(a) ==
  /\ bEnabled' = [p \in Ports |-> bEnabled[p] \/ Concerns(a, p)]
  /\ Call([type |-> "PortEnable", arg |-> a])
  /\ UNCHANGED <<statetrans, outputPortFlushPending>>

\* A push on the empty command queue sets the event first.
CanPost == cmdQ = <<>> => "cmd" \notin broken

PostCommand ==
  /\ calling # None /\ CanPost
  /\ cmdQ' = Append(cmdQ, calling)
  /\ calling' = None
  /\ UNCHANGED <<state, statetrans, run, held, flags, ports, pc, signals, handler, decoding,
                 own, submitting, sent, deinit, faulted>>

\* HantroOmx_basecomp_send_command fails and nothing is queued.
PostFailed(c) ==
  /\ \/ "malloc" \in Faults /\ UNCHANGED broken
     \/ "write" \in Faults /\ cmdQ = <<>> /\ "cmd" \notin broken
        /\ broken' = broken \cup {"cmd"}
  /\ unposted' = unposted \cup {c}

\* SendCommand returns the error; what it set before the post stays set.
PostFails ==
  /\ calling # None /\ PostFailed(calling)
  /\ calling' = None
  /\ UNCHANGED <<state, statetrans, run, held, flags, ports, cmdQ, pc, signals, handler, decoding,
                 own, submitting, sent, deinit, err, unpopped>>

\* SetParameter(OMX_IndexExtDSPGRealTimeOptimizations), before the buffers are set up.
SetRealTime ==
  /\ Ready /\ state = "Loaded" /\ ~dispatchOutputImmediately
  /\ dispatchOutputImmediately' = TRUE
  /\ UNCHANGED <<state, statetrans, run, held, portReconfigPending, outputPortFlushPending, ports,
                 cmdQ, pc, signals, handler, decoding, client, faulted>>

\* decoder_verify_buffer_allocation.
MayAllocate(p) ==
  /\ ~bPopulated[p]
  /\ \/ state = "Loaded" /\ statetrans = "Idle"
     \/ state \in {"Idle", "Executing"}
     \/ state = "Pause" /\ ~bEnabled[p]

\* The client allocates when it was asked to: on the way to Idle, when it
\* enables a port, or ahead of that on a disabled port.
WantsBuffers(p) ==
  \/ state = "Loaded" /\ statetrans = "Idle"
  \/ \E c \in Pending : c.type = "PortEnable" /\ Concerns(c.arg, p)
  \/ ~bEnabled[p] /\ state \notin {"Loaded", "Invalid"} /\ ~PendingOn(p)

\* UseBuffer or AllocateBuffer; CHECK_STATE_INVALID comes first.
AllocateBuffer(p, b) ==
  /\ Ready /\ state # "Invalid" /\ WantsBuffers(p)
  /\ MayAllocate(p) /\ b \in Buffers[p] \ buffers[p]
  /\ buffers' = [buffers EXCEPT ![p] = @ \cup {b}]
  /\ bPopulated' = [bPopulated EXCEPT ![p] = Cardinality(buffers[p]) + 1 = Cardinality(Buffers[p])]
  /\ own' = [own EXCEPT ![p] = @ \cup {b}]
  /\ UNCHANGED <<state, statetrans, run, held, flags, bEnabled, bufferqueue, cmdQ, pc, signals,
                 handler, decoding, submitting, calling, sent, deinit, faulted>>

\* The client frees a buffer it holds, on the way to Loaded or on a disabled
\* port.  FreeBuffer takes no lock.
FreeBuffer(p, b) ==
  /\ Ready /\ b \in own[p]
  /\ (state = "Idle" /\ statetrans = "Loaded") \/ ~bEnabled[p]
  /\ buffers' = [buffers EXCEPT ![p] = @ \ {b}]
  /\ bPopulated' = [bPopulated EXCEPT ![p] = FALSE]
  /\ own' = [own EXCEPT ![p] = @ \ {b}]
  /\ UNCHANGED <<state, statetrans, run, held, flags, bEnabled, bufferqueue, cmdQ, pc, signals,
                 handler, decoding, submitting, calling, sent, deinit, faulted>>

\* decoder_deinit: clear run and post CMD_EXIT_LOOP, then join the thread.
Deinit ==
  /\ Deinits /\ Ready /\ submitting = None /\ CanPost
  /\ Careful => Pending = {}
  /\ run' = FALSE
  /\ cmdQ' = Append(cmdQ, ExitLoop)
  /\ deinit' = "joining"
  /\ UNCHANGED <<state, statetrans, held, flags, ports, pc, signals, handler, decoding, own,
                 submitting, calling, sent, faulted>>

\* The post of CMD_EXIT_LOOP fails, which decoder_deinit ignores, or waits for ever.
DeinitPostFails ==
  /\ Deinits /\ Ready /\ submitting = None
  /\ Careful => Pending = {}
  /\ run' = FALSE
  /\ PostFailed(ExitLoop) \/ (~CanPost /\ unposted' = unposted \cup {ExitLoop} /\ UNCHANGED broken)
  /\ deinit' = "joining"
  /\ UNCHANGED <<state, statetrans, held, flags, ports, cmdQ, pc, signals, handler, decoding, own,
                 submitting, calling, sent, err, unpopped>>

\* The thread is joined; unless the component is Loaded, the ports' buffers are
\* released.  The headers the client holds are dead either way.  EventDestroy
\* locks the mutex of each event.
Destroy ==
  /\ deinit = "joining" /\ pc = "exited" /\ broken = {}
  /\ deinit' = "done"
  /\ buffers' = [p \in Ports |-> IF state = "Loaded" THEN buffers[p] ELSE {}]
  /\ bufferqueue' = [p \in Ports |-> <<>>]
  /\ own' = [p \in Ports |-> {}]
  /\ held' = None
  /\ UNCHANGED <<state, statetrans, run, flags, bEnabled, bPopulated, cmdQ, pc, signals, handler,
                 decoding, submitting, calling, sent, faulted>>

-----------------------------------------------------------------------------
(* The component thread: the loop of decoder_thread_main. *)

Goto(label) == pc' = label

\* The component thread's steps leave the calls in progress alone.
NoCall == UNCHANGED <<submitting, calling, sent, deinit, faulted>>

CheckRun ==
  /\ pc = "top" /\ ~err
  /\ signals' = {}
  /\ Goto(IF run THEN "wait" ELSE "exited")
  /\ NoCall /\ UNCHANGED <<state, statetrans, run, held, flags, ports, cmdQ, handler, decoding, own>>

\* The loop ends with an error.
ExitOnError ==
  /\ pc = "top" /\ err
  /\ state' = "Invalid"
  /\ Goto("exited")
  /\ NoCall /\ UNCHANGED <<statetrans, run, held, flags, ports, cmdQ, signals, handler, decoding, own>>

\* EventWaitMultiple samples the events once; the samples may go stale.  A queue
\* that was cleared though its event could not be reset still signals.
Wait ==
  /\ pc = "wait"
  /\ \E stale \in SUBSET (broken \cap {"in", "pp"}) :
       signals' = stale \cup {s \in {"cmd", "in", "pp"} :
                                IF s = "cmd" THEN cmdQ # <<>> ELSE bufferqueue[s] # <<>>}
  /\ signals' # {}
  /\ Goto(IF "cmd" \in signals' THEN "receive" ELSE "buffers")
  /\ NoCall /\ UNCHANGED <<state, statetrans, run, held, flags, ports, cmdQ, handler, decoding, own>>

\* select fails: the thread ends although run is TRUE.
WaitFails ==
  /\ pc = "wait" /\ "select" \in Faults
  /\ state' = "Invalid"
  /\ Goto("exited")
  /\ NoCall /\ UNCHANGED <<statetrans, run, held, flags, ports, cmdQ, signals, handler, decoding, own>>

\* Commands are received until there is none, whatever they did to run.
Receive ==
  /\ pc = "receive" /\ cmdQ # <<>>
  /\ cmdQ' = Tail(cmdQ)
  /\ IF Head(cmdQ) = ExitLoop
       THEN run' = FALSE /\ Goto("buffers") /\ UNCHANGED cmd
       ELSE cmd' = Head(cmdQ) /\ Goto("dispatch") /\ UNCHANGED run
  /\ NoCall /\ UNCHANGED <<state, statetrans, held, flags, ports, signals, todo, count, i, decoding, own>>

\* The event of the last command cannot be reset: the command stays queued, and
\* the loop ends after the buffers.
ReceiveFails ==
  /\ pc = "receive" /\ Len(cmdQ) = 1
  /\ "read" \in Faults /\ "cmd" \notin broken
  /\ broken' = broken \cup {"cmd"} /\ err' = TRUE
  /\ run' = FALSE
  /\ Goto("buffers")
  /\ UNCHANGED <<state, statetrans, held, flags, ports, cmdQ, signals, handler, decoding, client,
                 unposted, unpopped>>

NoMoreCommands ==
  /\ pc = "receive" /\ cmdQ = <<>>
  /\ Goto("buffers")
  /\ NoCall /\ UNCHANGED <<state, statetrans, run, held, flags, ports, cmdQ, signals, handler,
                           decoding, own>>

-----------------------------------------------------------------------------
(* The command handlers. *)

Handling(type) == pc = "dispatch" /\ cmd.type = type

\* The answer event, and back to the next command.
Answer == cmd' = None /\ Goto("receive")

Quiet == NoCall /\ UNCHANGED <<cmdQ, signals, decoding>>

\* async_decoder_set_state.
SameState ==
  /\ Handling("StateSet") /\ cmd.arg = state
  /\ Answer
  /\ Quiet /\ UNCHANGED <<state, statetrans, run, held, flags, ports, todo, count, i, own>>

\* Mutant of BeginTransition: the queued buffers stay in the component.
BeginTransitionKeepsBuffers ==
  /\ Handling("StateSet") /\ <<state, cmd.arg>> \in Gradual
  /\ Goto(CASE state = "Loaded" -> "waitReady" [] state = "Idle" -> "waitFree" [] OTHER -> "returned")
  /\ todo' = PortsOf("all")
  /\ Quiet /\ UNCHANGED <<state, statetrans, run, held, flags, ports, cmd, count, i, own>>

\* transition_to_idle_from_loaded waits for buffers, to_loaded_from_idle for
\* their release, the others to Idle return the queued buffers.
BeginTransition ==
  /\ Handling("StateSet") /\ <<state, cmd.arg>> \in Gradual
  /\ Goto(CASE state = "Loaded" -> "waitReady" [] state = "Idle" -> "waitFree" [] OTHER -> "held")
  /\ todo' = PortsOf("all")
  /\ Quiet /\ UNCHANGED <<state, statetrans, run, held, flags, ports, cmd, count, i, own>>

CompleteStateSet ==
  /\ \/ Handling("StateSet") /\ <<state, cmd.arg>> \in Immediate
     \/ pc = "returned" /\ cmd.type = "StateSet"
  /\ statetrans' = cmd.arg /\ state' = cmd.arg
  /\ Answer
  /\ Quiet /\ UNCHANGED <<run, held, flags, ports, todo, count, i, own>>

\* Mutant of IllegalStateSet: statetrans is not reset.
IllegalStateSetStuck ==
  /\ Handling("StateSet")
  /\ cmd.arg \notin {state, "Invalid"} /\ <<state, cmd.arg>> \notin Immediate \cup Gradual
  /\ Answer
  /\ Quiet /\ UNCHANGED <<state, statetrans, run, held, flags, ports, todo, count, i, own>>

IllegalStateSet ==
  /\ Handling("StateSet")
  /\ cmd.arg \notin {state, "Invalid"} /\ <<state, cmd.arg>> \notin Immediate \cup Gradual
  /\ statetrans' = state
  /\ Answer
  /\ Quiet /\ UNCHANGED <<state, run, held, flags, ports, todo, count, i, own>>

\* HantroOmx_port_is_ready.
IsReady(p) == bEnabled[p] => bPopulated[p]

\* All buffers are there: acquire the codec and the frame buffers, or fail.
FinishIdle ==
  /\ pc = "waitReady" /\ IsReady("in") /\ IsReady("out")
  /\ statetrans' = "Idle" /\ state' = "Idle"
  /\ codecHasFrame' = FALSE
  /\ Answer
  /\ NoCall /\ UNCHANGED <<run, held, flags, ports, cmdQ, signals, todo, count, i, inbuf, eos, units,
                           frames, slot, after, caller, own>>

\* The state is Invalid from here on: on request, or without resources.
FailStateSet ==
  /\ \/ Handling("StateSet") /\ cmd.arg = "Invalid" /\ state # "Invalid"
     \/ pc = "waitReady" /\ IsReady("in") /\ IsReady("out")
  /\ state' = "Invalid" /\ run' = FALSE
  /\ Answer
  /\ Quiet /\ UNCHANGED <<statetrans, held, flags, ports, todo, count, i, own>>

\* Mutant of FinishLoaded: it waits for the input port only.
FinishLoadedEarly ==
  /\ pc = "waitFree" /\ cmd.type = "StateSet" /\ buffers["in"] = {}
  /\ statetrans' = "Loaded" /\ state' = "Loaded"
  /\ frames' = 0
  /\ Answer
  /\ NoCall /\ UNCHANGED <<run, held, flags, ports, cmdQ, signals, todo, count, i, inbuf, eos, units,
                           slot, after, caller, codecHasFrame, own>>

\* The codec is destroyed, with the frames it held back.
FinishLoaded ==
  /\ pc = "waitFree" /\ cmd.type = "StateSet" /\ \A p \in Ports : buffers[p] = {}
  /\ statetrans' = "Loaded" /\ state' = "Loaded"
  /\ frames' = 0
  /\ Answer
  /\ NoCall /\ UNCHANGED <<run, held, flags, ports, cmdQ, signals, todo, count, i, inbuf, eos, units,
                           slot, after, caller, codecHasFrame, own>>

\* async_decoder_flush_port and async_decoder_disable_port return buffers first.
BeginReturn ==
  /\ Handling("Flush") \/ Handling("PortDisable")
  /\ todo' = PortsOf(cmd.arg)
  /\ Goto("held")
  /\ Quiet /\ UNCHANGED <<state, statetrans, run, held, flags, ports, cmd, count, i, own>>

\* Mutant of FinishFlush: a flush of the output port alone leaves the flag set.
FinishFlushOfAll ==
  /\ pc = "returned" /\ cmd.type = "Flush"
  /\ cmd' = None
  /\ Goto(IF cmd.arg = "all" THEN "clearFlush" ELSE "receive")
  /\ Quiet /\ UNCHANGED <<state, statetrans, run, held, flags, ports, todo, count, i, own>>

\* The flush events are sent before outputPortFlushPending is cleared.
FinishFlush ==
  /\ pc = "returned" /\ cmd.type = "Flush"
  /\ cmd' = None
  /\ Goto(IF Concerns(cmd.arg, "out") THEN "clearFlush" ELSE "receive")
  /\ Quiet /\ UNCHANGED <<state, statetrans, run, held, flags, ports, todo, count, i, own>>

ClearFlush ==
  /\ pc = "clearFlush"
  /\ outputPortFlushPending' = FALSE
  /\ Goto("receive")
  /\ Quiet /\ UNCHANGED <<state, statetrans, run, held, portReconfigPending,
                          dispatchOutputImmediately, ports, handler, own>>

\* The buffers are returned; wait until the client has freed them.
AwaitDealloc ==
  /\ pc = "returned" /\ cmd.type = "PortDisable"
  /\ todo' = PortsOf(cmd.arg)
  /\ Goto("waitFree")
  /\ Quiet /\ UNCHANGED <<state, statetrans, run, held, flags, ports, cmd, count, i, own>>

\* Mutant of PortDealloc: it does not wait until the client has freed the buffers.
PortDeallocAtOnce ==
  /\ pc = "waitFree" /\ cmd.type = "PortDisable"
  /\ todo' = Tail(todo)
  /\ IF Tail(todo) = <<>> THEN Answer ELSE UNCHANGED <<cmd, pc>>
  /\ Quiet /\ UNCHANGED <<state, statetrans, run, held, flags, ports, count, i, own>>

\* async_decoder_wait_port_buffer_dealloc, port by port.
PortDealloc ==
  /\ pc = "waitFree" /\ cmd.type = "PortDisable"
  /\ buffers[Head(todo)] = {}
  /\ todo' = Tail(todo)
  /\ IF Tail(todo) = <<>> THEN Answer ELSE UNCHANGED <<cmd, pc>>
  /\ Quiet /\ UNCHANGED <<state, statetrans, run, held, flags, ports, count, i, own>>

\* async_decoder_enable_port.
BeginEnable ==
  /\ Handling("PortEnable")
  /\ todo' = PortsOf(cmd.arg)
  /\ Goto("enable")
  /\ Quiet /\ UNCHANGED <<state, statetrans, run, held, flags, ports, cmd, count, i, own>>

PortEnabled ==
  /\ pc = "enable"
  /\ state = "Loaded" \/ IsReady(Head(todo))
  /\ portReconfigPending' = (portReconfigPending /\ Head(todo) # "out")
  /\ todo' = Tail(todo)
  /\ IF Tail(todo) = <<>> THEN Answer ELSE UNCHANGED <<cmd, pc>>
  /\ Quiet /\ UNCHANGED <<state, statetrans, run, held, outputPortFlushPending,
                          dispatchOutputImmediately, ports, count, i, own>>

-----------------------------------------------------------------------------
(* Buffers go back to the client through its callbacks. *)

\* Fill/EmptyBufferDone of b on port p.  A Reentrant client may push b again
\* before it returns: the port's mutex is recursive.
Callback(p, b) ==
  \/ own' = [own EXCEPT ![p] = @ \cup {b}] /\ UNCHANGED bufferqueue
  \/ /\ Reentrant /\ deinit = "no" /\ state \in SubmitStates /\ Accepts(p) /\ b \in buffers[p]
     /\ p \notin broken
     /\ bufferqueue' = [bufferqueue EXCEPT ![p] = Append(@, b)] /\ UNCHANGED own

\* Mutant of ReturnHeld: held is not reset.
ReturnHeldTwice ==
  /\ pc = "held"
  /\ IF Head(todo) = "out" /\ held # None
       THEN Callback("out", held) /\ UNCHANGED held
       ELSE UNCHANGED <<own, bufferqueue, held>>
  /\ Goto("lock")
  /\ Quiet /\ UNCHANGED <<state, statetrans, run, flags, bEnabled, bPopulated, buffers, handler>>

\* Mutant of ReturnHeld: the held buffer is forgotten.
ReturnHeldNever ==
  /\ pc = "held"
  /\ UNCHANGED <<own, bufferqueue, held>>
  /\ Goto("lock")
  /\ Quiet /\ UNCHANGED <<state, statetrans, run, flags, bEnabled, bPopulated, buffers, handler>>

\* async_decoder_return_buffers: the held buffer goes first, without the lock.
ReturnHeld ==
  /\ pc = "held"
  /\ IF Head(todo) = "out" /\ held # None
       THEN Callback("out", held) /\ held' = None
       ELSE UNCHANGED <<own, bufferqueue, held>>
  /\ Goto("lock")
  /\ Quiet /\ UNCHANGED <<state, statetrans, run, flags, bEnabled, bPopulated, buffers, handler>>

\* Mutant of LockPort: one buffer more is returned than is queued.
LockPortOffByOne ==
  /\ pc = "lock"
  /\ count' = Len(bufferqueue[Head(todo)]) + 1 /\ i' = 0
  /\ Goto("return")
  /\ Quiet /\ UNCHANGED <<state, statetrans, run, held, flags, ports, cmd, todo, own>>

LockPort ==
  /\ pc = "lock"
  /\ count' = Len(bufferqueue[Head(todo)]) /\ i' = 0
  /\ Goto("return")
  /\ Quiet /\ UNCHANGED <<state, statetrans, run, held, flags, ports, cmd, todo, own>>

ReturnNext ==
  /\ pc = "return" /\ i < count
  /\ Callback(Head(todo), bufferqueue[Head(todo)][i + 1])
  /\ i' = i + 1
  /\ Quiet /\ UNCHANGED <<state, statetrans, run, held, flags, bEnabled, bPopulated, buffers, pc,
                          cmd, todo, count>>

\* Mutant of ClearQueue: the buffers are returned and stay queued.
ClearQueueNot ==
  /\ pc = "return" /\ i = count
  /\ todo' = Tail(todo) /\ count' = 0 /\ i' = 0
  /\ Goto(IF Tail(todo) = <<>> THEN "returned" ELSE "held")
  /\ Quiet /\ UNCHANGED <<state, statetrans, run, held, flags, bEnabled, bPopulated, buffers, bufferqueue, cmd, own>>

ClearQueue ==
  /\ pc = "return" /\ i = count
  /\ bufferqueue[Head(todo)] # <<>> => Head(todo) \notin broken
  /\ bufferqueue' = [bufferqueue EXCEPT ![Head(todo)] = <<>>]
  /\ todo' = Tail(todo) /\ count' = 0 /\ i' = 0
  /\ Goto(IF Tail(todo) = <<>> THEN "returned" ELSE "held")
  /\ Quiet /\ UNCHANGED <<state, statetrans, run, held, flags, bEnabled, bPopulated, buffers, cmd, own>>

\* HantroOmx_port_buffer_queue_clear ignores that the event is not reset.
ClearFails ==
  /\ pc = "return" /\ i = count
  /\ "read" \in Faults /\ bufferqueue[Head(todo)] # <<>> /\ Head(todo) \notin broken
  /\ broken' = broken \cup {Head(todo)}
  /\ bufferqueue' = [bufferqueue EXCEPT ![Head(todo)] = <<>>]
  /\ todo' = Tail(todo) /\ count' = 0 /\ i' = 0
  /\ Goto(IF Tail(todo) = <<>> THEN "returned" ELSE "held")
  /\ UNCHANGED <<state, statetrans, run, held, flags, bEnabled, bPopulated, buffers, cmdQ, signals, cmd,
                 decoding, client, err, unposted, unpopped>>

-----------------------------------------------------------------------------
(* Buffer processing: async_decoder_set_mask and async_decoder_decode. *)

Calm == NoCall /\ UNCHANGED <<cmdQ, signals, handler, statetrans>>

\* async_decoder_decode returns: its locals are gone.
Leave ==
  /\ inbuf' = None /\ slot' = None /\ eos' = FALSE /\ units' = 0
  /\ after' = "scan" /\ caller' = "decode"
  /\ Goto("top")

\* HantroOmx_port_pop_buffer; the event is reset with the last buffer.
Pop(p) ==
  /\ Len(bufferqueue[p]) = 1 => p \notin broken
  /\ bufferqueue' = [bufferqueue EXCEPT ![p] = Tail(@)]

\* It cannot be reset: the buffer, which was returned already, stays queued.
\* No caller looks at what the pop returns.
PopFails(p) ==
  /\ "read" \in Faults /\ Len(bufferqueue[p]) = 1 /\ p \notin broken
  /\ broken' = broken \cup {p} /\ unpopped' = unpopped \cup {p}
  /\ UNCHANGED <<state, statetrans, run, held, flags, ports, cmdQ, signals, handler, client,
                 err, unposted>>

HasMask == "pp" \in signals /\ state = "Executing" /\ bufferqueue["pp"] # <<>>

SetMask ==
  /\ pc = "buffers" /\ HasMask
  /\ Callback("pp", Head(bufferqueue["pp"]))
  /\ Goto("popMask")
  /\ Calm /\ UNCHANGED <<state, run, held, flags, bEnabled, bPopulated, buffers, decoding>>

PopMask ==
  /\ pc = "popMask"
  /\ Pop("pp")
  /\ Goto("input")
  /\ Calm /\ UNCHANGED <<state, run, held, flags, bEnabled, bPopulated, buffers, decoding, own>>

PopMaskFails == pc = "popMask" /\ PopFails("pp") /\ Goto("input") /\ UNCHANGED decoding

NoMask ==
  /\ pc = "buffers" /\ ~HasMask
  /\ Goto("input")
  /\ Calm /\ UNCHANGED <<state, run, held, flags, ports, decoding, own>>

\* The signal may be stale, but the state and the queue are read afresh.
HasInput ==
  /\ "in" \in signals /\ state = "Executing" /\ ~portReconfigPending
  /\ bufferqueue["in"] # <<>>

\* Frames left over from an overflow are fetched before new data is decoded.
StartDecode ==
  /\ pc = "input" /\ HasInput
  /\ inbuf' = Head(bufferqueue["in"])
  /\ eos' \in BOOLEAN /\ units' \in 0..MaxUnits
  /\ caller' = "resume"
  /\ Goto(IF codecHasFrame THEN "frames" ELSE "scan")
  /\ Calm /\ UNCHANGED <<state, run, held, flags, ports, frames, slot, after, codecHasFrame, own>>

NoInput ==
  /\ pc = "input" /\ ~HasInput
  /\ Goto("top")
  /\ Calm /\ UNCHANGED <<state, run, held, flags, ports, decoding, own>>

\* Mutant of ScanMore: there is no check for the end of the data.
ScanMoreOffByOne ==
  /\ pc = "scan" /\ units >= 0 /\ ~outputPortFlushPending
  /\ after' = "decode"
  /\ Goto("getBuffer")
  /\ Calm /\ UNCHANGED <<state, run, held, flags, ports, inbuf, eos, units, frames, slot, caller,
                         codecHasFrame, own>>

\* async_decode_data: another decoding unit is in the data.
ScanMore ==
  /\ pc = "scan" /\ units > 0 /\ ~outputPortFlushPending
  /\ after' = "decode"
  /\ Goto("getBuffer")
  /\ Calm /\ UNCHANGED <<state, run, held, flags, ports, inbuf, eos, units, frames, slot, caller,
                         codecHasFrame, own>>

\* The data is used up, or a flush cuts the loop short.
ScanDone ==
  /\ pc = "scan" /\ (units = 0 \/ outputPortFlushPending)
  /\ IF eos THEN caller' = "eos" /\ Goto("frames") ELSE Goto("inputDone") /\ UNCHANGED caller
  /\ Calm /\ UNCHANGED <<state, run, held, flags, ports, inbuf, eos, units, frames, slot, after,
                         codecHasFrame, own>>

\* async_get_frame_buffer polls for an output buffer ...
TakeOutput ==
  /\ pc = "getBuffer" /\ bufferqueue["out"] # <<>>
  /\ slot' = Head(bufferqueue["out"])
  /\ Goto(after)
  /\ Calm /\ UNCHANGED <<state, run, held, flags, ports, inbuf, eos, units, frames, after, caller,
                         codecHasFrame, own>>

\* ... unless the component is about to stop, when it does without one ...
Waived == state = "Pause" \/ statetrans \in {"Pause", "Idle"} \/ outputPortFlushPending

DoWithout ==
  /\ pc = "getBuffer" /\ bufferqueue["out"] = <<>> /\ Waived
  /\ slot' = None
  /\ Goto(after)
  /\ Calm /\ UNCHANGED <<state, run, held, flags, ports, inbuf, eos, units, frames, after, caller,
                         codecHasFrame, own>>

\* Mutant of Overflow: it polls for an output buffer until there is one.
OverflowNoRetryLimit ==
  /\ pc = "getBuffer"
  /\ bufferqueue["out"] # <<>> /\ portReconfigPending
  /\ \/ after = "decode" /\ Goto("inputDone")
        /\ UNCHANGED <<inbuf, eos, units, slot, after, caller, codecHasFrame>>
     \/ after = "getFrame" /\ caller = "decode" /\ Goto("scan")
        /\ codecHasFrame' = TRUE /\ units' = 0
        /\ UNCHANGED <<inbuf, eos, slot, after, caller>>
     \/ after = "getFrame" /\ caller = "resume" /\ Leave
        /\ UNCHANGED codecHasFrame
     \/ after = "getFrame" /\ caller = "eos" /\ Goto("lastFrame")
        /\ UNCHANGED <<inbuf, eos, units, slot, after, caller, codecHasFrame>>
  /\ Calm /\ UNCHANGED <<state, run, held, flags, ports, frames, own>>

\* ... and gives up after MAX_RETRIES, or if the frames have outgrown the buffer.
Overflow ==
  /\ pc = "getBuffer"
  /\ IF bufferqueue["out"] = <<>> THEN ~Waived ELSE portReconfigPending
  /\ \/ after = "decode" /\ Goto("inputDone")
        /\ UNCHANGED <<inbuf, eos, units, slot, after, caller, codecHasFrame>>
     \/ after = "getFrame" /\ caller = "decode" /\ Goto("scan")
        /\ codecHasFrame' = TRUE /\ units' = 0
        /\ UNCHANGED <<inbuf, eos, slot, after, caller>>
     \/ after = "getFrame" /\ caller = "resume" /\ Leave
        /\ UNCHANGED codecHasFrame
     \/ after = "getFrame" /\ caller = "eos" /\ Goto("lastFrame")
        /\ UNCHANGED <<inbuf, eos, units, slot, after, caller, codecHasFrame>>
  /\ Calm /\ UNCHANGED <<state, run, held, flags, ports, frames, own>>

\* codec->decode needs more data, or has frames to output.
DecodeData ==
  /\ pc = "decode"
  /\ units' = units - 1
  /\ \/ Goto("scan") /\ UNCHANGED <<frames, caller>>
     \/ Goto("frames") /\ caller' = "decode" /\ frames' \in frames..MaxFrames
  /\ slot' = None
  /\ Calm /\ UNCHANGED <<state, run, held, flags, ports, inbuf, eos, after, codecHasFrame, own>>

\* async_get_info: the resolution changed; the client must reconfigure the port.
DecodeInfo ==
  /\ pc = "decode" /\ ~portReconfigPending
  /\ portReconfigPending' = TRUE
  /\ slot' = None
  /\ Goto("scan")
  /\ Calm /\ UNCHANGED <<state, run, held, outputPortFlushPending, dispatchOutputImmediately, ports,
                         inbuf, eos, units, frames, after, caller, codecHasFrame, own>>

\* CODEC_ERROR_STREAM forces the output of a frame.
DecodeErrorStream ==
  /\ pc = "decode"
  /\ units' = units - 1
  /\ after' = "scan"
  /\ Goto(IF slot # None THEN "dispatchFrame" ELSE "scan")
  /\ Calm /\ UNCHANGED <<state, run, held, flags, ports, inbuf, eos, frames, slot, caller,
                         codecHasFrame, own>>

\* Any other error of the codec: the component goes Invalid.
CodecFails ==
  /\ pc = "decode" \/ (pc = "getFrame" /\ caller # "eos")
  /\ state' = "Invalid" /\ run' = FALSE
  /\ Leave
  /\ Calm /\ UNCHANGED <<held, flags, ports, frames, codecHasFrame, own>>

-----------------------------------------------------------------------------
(* async_get_frames and the dispatch of output buffers. *)

FramesEnd == Goto(IF caller = "eos" THEN "lastFrame" ELSE "scan")

NextFrame ==
  /\ pc = "frames" /\ ~outputPortFlushPending
  /\ after' = "getFrame"
  /\ Goto("getBuffer")
  /\ Calm /\ UNCHANGED <<state, run, held, flags, ports, inbuf, eos, units, frames, slot, caller,
                         codecHasFrame, own>>

\* While a flush is pending the codec's frames are drained and dropped, until
\* a frame does not fit an output buffer.
DrainFrames ==
  /\ pc = "frames" /\ outputPortFlushPending
  /\ frames' \in IF portReconfigPending THEN 0..frames ELSE {0}
  /\ codecHasFrame' = (codecHasFrame /\ caller # "resume")
  /\ FramesEnd
  /\ Calm /\ UNCHANGED <<state, run, held, flags, ports, inbuf, eos, units, slot, after, caller, own>>

\* codec->getframe; the frame is lost if there is no buffer to put it in.
GetFrame ==
  /\ pc = "getFrame" /\ ~outputPortFlushPending /\ frames > 0
  /\ frames' = frames - 1
  /\ after' = "frames"
  /\ Goto(IF slot # None THEN "dispatchFrame" ELSE "frames")
  /\ Calm /\ UNCHANGED <<state, run, held, flags, ports, inbuf, eos, units, slot, caller,
                         codecHasFrame, own>>

\* At the end of the stream an error of the codec ends the loop like that.
NoMoreFrames ==
  /\ pc = "getFrame" /\ (outputPortFlushPending \/ frames = 0 \/ caller = "eos")
  /\ slot' = None
  /\ codecHasFrame' = (codecHasFrame /\ caller # "resume")
  /\ FramesEnd
  /\ Calm /\ UNCHANGED <<state, run, held, flags, ports, inbuf, eos, units, frames, after, caller, own>>

\* Mutant of DispatchFrame: the buffer held before is not returned.
DispatchFrameForgets ==
  /\ pc = "dispatchFrame"
  /\ IF dispatchOutputImmediately THEN Callback("out", slot) /\ UNCHANGED held
     ELSE /\ held' = slot
          /\ UNCHANGED <<own, bufferqueue>>
  /\ Goto("popFrame")
  /\ Calm /\ UNCHANGED <<state, run, flags, bEnabled, bPopulated, buffers, decoding>>

\* async_dispatch_frame_buffer: to the client at once, or held back until the
\* next frame, so that the last one can carry the EOS flag.
DispatchFrame ==
  /\ pc = "dispatchFrame"
  /\ IF dispatchOutputImmediately THEN Callback("out", slot) /\ UNCHANGED held
     ELSE /\ held' = slot
          /\ IF held # None THEN Callback("out", held) ELSE UNCHANGED <<own, bufferqueue>>
  /\ Goto("popFrame")
  /\ Calm /\ UNCHANGED <<state, run, flags, bEnabled, bPopulated, buffers, decoding>>

PopFrame ==
  /\ pc = "popFrame"
  /\ Pop("out") /\ slot' = None
  /\ Goto(after)
  /\ Calm /\ UNCHANGED <<state, run, held, flags, bEnabled, bPopulated, buffers, inbuf, eos, units,
                         frames, after, caller, codecHasFrame, own>>

PopFrameFails ==
  /\ pc = "popFrame"
  /\ PopFails("out") /\ slot' = None
  /\ Goto(after)
  /\ UNCHANGED <<inbuf, eos, units, frames, after, caller, codecHasFrame>>

\* async_dispatch_last_frame.
LastFrame ==
  /\ pc = "lastFrame"
  /\ IF held # None THEN Callback("out", held) ELSE UNCHANGED <<own, bufferqueue>>
  /\ held' = None
  /\ Goto("inputDone")
  /\ Calm /\ UNCHANGED <<state, run, flags, bEnabled, bPopulated, buffers, decoding>>

InputDone ==
  /\ pc = "inputDone"
  /\ Callback("in", inbuf)
  /\ Goto("popInput")
  /\ Calm /\ UNCHANGED <<state, run, held, flags, bEnabled, bPopulated, buffers, decoding>>

PopInput ==
  /\ pc = "popInput"
  /\ Pop("in")
  /\ Leave
  /\ Calm /\ UNCHANGED <<state, run, held, flags, bEnabled, bPopulated, buffers, frames,
                         codecHasFrame, own>>

PopInputFails == pc = "popInput" /\ PopFails("in") /\ Leave /\ UNCHANGED <<frames, codecHasFrame>>

-----------------------------------------------------------------------------
HandleBuffer(p, b) == Submit(p, b) \/ AllocateBuffer(p, b) \/ FreeBuffer(p, b)

Client ==
  \/ \E p \in Ports : \E b \in Buffers[p] : HandleBuffer(p, b)
  \/ \E s \in States : CallStateSet(s)
  \/ \E a \in PortArgs : CallFlush(a) \/ CallPortDisable(a) \/ CallPortEnable(a)
  \/ QueueBuffer \/ PostCommand \/ SetRealTime \/ Deinit \/ Destroy

CommandStep ==
  \/ SameState \/ BeginTransition \/ CompleteStateSet \/ IllegalStateSet \/ FinishIdle
  \/ FailStateSet \/ FinishLoaded \/ BeginReturn \/ FinishFlush \/ ClearFlush \/ AwaitDealloc
  \/ PortDealloc \/ BeginEnable \/ PortEnabled
  \/ ReturnHeld \/ LockPort \/ ReturnNext \/ ClearQueue

BufferStep ==
  \/ SetMask \/ PopMask \/ NoMask \/ StartDecode \/ NoInput \/ ScanMore \/ ScanDone
  \/ TakeOutput \/ DoWithout \/ Overflow \/ DecodeData \/ DecodeInfo \/ DecodeErrorStream
  \/ CodecFails \/ NextFrame \/ DrainFrames \/ GetFrame \/ NoMoreFrames \/ DispatchFrame
  \/ PopFrame \/ LastFrame \/ InputDone \/ PopInput

ThreadStep ==
  CheckRun \/ ExitOnError \/ Wait \/ Receive \/ NoMoreCommands \/ CommandStep \/ BufferStep

\* The arms of the client's calls and of the thread's steps in which a call fails.
Fault ==
  \/ PushFails \/ PostFails \/ DeinitPostFails
  \/ WaitFails \/ ReceiveFails \/ ClearFails \/ PopMaskFails \/ PopFrameFails \/ PopInputFails

Next == Client \/ ThreadStep \/ Fault

Spec == Init /\ [][Next]_vars

(* The component thread runs whenever it can; the client carries on with a *)
(* call it started, and with each buffer it can allocate, free or submit.  *)
(* It need not send commands.                                              *)
Fairness ==
  /\ WF_vars(ThreadStep) /\ WF_vars(QueueBuffer) /\ WF_vars(PostCommand) /\ WF_vars(Destroy)
  /\ \A p \in Ports : \A b \in Buffers[p] : WF_vars(HandleBuffer(p, b))

FairSpec == Spec /\ Fairness

-----------------------------------------------------------------------------
(* Properties. *)

Labels == {"top", "wait", "exited", "receive", "dispatch", "waitReady", "waitFree", "held", "lock",
           "return", "returned", "clearFlush", "enable", "buffers", "popMask", "input", "scan",
           "getBuffer", "decode", "frames", "getFrame", "dispatchFrame", "popFrame", "lastFrame",
           "inputDone", "popInput"}

TypeOK ==
  /\ state \in States /\ statetrans \in States /\ run \in BOOLEAN
  /\ held \in OutBuffers \cup {None}
  /\ {portReconfigPending, outputPortFlushPending, dispatchOutputImmediately} \subseteq BOOLEAN
  /\ bEnabled \in [Ports -> BOOLEAN] /\ bPopulated \in [Ports -> BOOLEAN]
  /\ \A p \in Ports : buffers[p] \subseteq Buffers[p] /\ own[p] \subseteq Buffers[p]
  /\ \A p \in Ports : bufferqueue[p] \in Seq(Buffers[p])
  /\ cmdQ \in Seq(Requests \cup {ExitLoop})
  /\ pc \in Labels /\ signals \subseteq {"cmd", "in", "pp"}
  /\ cmd \in Requests \cup {None} /\ calling \in Requests \cup {None}
  /\ todo \in Seq(Ports) /\ count \in Nat /\ i \in 0..count
  /\ inbuf \in InBuffers \cup {None} /\ slot \in OutBuffers \cup {None}
  /\ eos \in BOOLEAN /\ codecHasFrame \in BOOLEAN /\ units \in 0..MaxUnits /\ frames \in 0..MaxFrames
  /\ after \in {"scan", "decode", "getFrame", "frames"} /\ caller \in {"decode", "resume", "eos"}
  /\ submitting \in [port : Ports, buffer : AllBuffers] \cup {None}
  /\ sent \in 0..MaxCommands /\ deinit \in {"no", "joining", "done"}
  /\ broken \subseteq Ports \cup {"cmd"} /\ err \in BOOLEAN
  /\ unposted \subseteq Requests \cup {ExitLoop} /\ unpopped \subseteq Ports

\* The entries at the front of a queue whose buffer went to the client, or to
\* held, but that are not popped yet.
Returned(p) ==
  CASE pc = "return" /\ Head(todo) = p -> i
    [] pc = "popFrame" /\ p = "out" -> 1
    [] pc = "popInput" /\ p = "in" -> 1
    [] pc = "popMask" /\ p = "pp" -> 1
    [] OTHER -> 0

\* How many hold buffer b of port p: the client, a call, the queue, held.
Holders(p, b) ==
  Cardinality({k \in Returned(p) + 1 .. Len(bufferqueue[p]) : bufferqueue[p][k] = b})
  + (IF b \in own[p] THEN 1 ELSE 0)
  + (IF submitting = [port |-> p, buffer |-> b] THEN 1 ELSE 0)
  + (IF p = "out" /\ held = b THEN 1 ELSE 0)

(* Every allocated buffer has exactly one owner and a freed one has none:  *)
(* none is returned twice, lost between a callback and the pop that        *)
(* follows it, or left behind in a queue after FreeBuffer (which takes no  *)
(* lock).  It holds of a port until one of its pops fails: the pop is the  *)
(* thread's last step with a buffer it has returned, and no caller looks   *)
(* at its result.                                                          *)
OneOwner ==
  \A p \in Ports \ unpopped : \A b \in Buffers[p] : Holders(p, b) = IF b \in buffers[p] THEN 1 ELSE 0

(* What the component thread dereferences is allocated: the input buffer   *)
(* and the output buffer it works on (and they still head their queues,    *)
(* though the lock was dropped in between), the held buffer, and the       *)
(* buffers it is about to return.  It holds of a port until a pop fails.   *)
BuffersInUse ==
  /\ inbuf # None /\ "in" \notin unpopped => inbuf \in buffers["in"] \/ pc = "popInput"
  /\ inbuf # None => bufferqueue["in"] # <<>> /\ Head(bufferqueue["in"]) = inbuf
  /\ slot # None /\ "out" \notin unpopped => slot \in buffers["out"] \/ pc = "popFrame"
  /\ slot # None => bufferqueue["out"] # <<>> /\ Head(bufferqueue["out"]) = slot
  /\ held # None /\ "out" \notin unpopped => held \in buffers["out"]
  /\ pc = "return" /\ Head(todo) \notin unpopped => \A k \in i + 1 .. count :
        k <= Len(bufferqueue[Head(todo)]) /\ bufferqueue[Head(todo)][k] \in buffers[Head(todo)]

(* A state change is refused only while another one is really under way,   *)
(* or for ever after one that could not be posted: SendCommand has set     *)
(* statetrans by then and does not take it back.                           *)
TransitionTracked ==
  statetrans # state /\ state # "Invalid" =>
    \E c \in Pending \cup unposted : c.type = "StateSet" /\ c.arg = statetrans

(* outputPortFlushPending, set by the client's thread, is always taken     *)
(* back: frames are dropped only while a flush is really under way, or     *)
(* after one that could not be posted.                                     *)
FlushTracked ==
  outputPortFlushPending =>
    pc = "clearFlush" \/ \E c \in Pending \cup unposted : c.type = "Flush" /\ Concerns(c.arg, "out")

(* A component that is Loaded and stays there has no buffer left: what     *)
(* decoder_deinit asserts before it destroys the ports (decoder.c:515).    *)
LoadedMeansReleased ==
  state = "Loaded" /\ statetrans = "Loaded" =>
    \A p \in Ports : buffers[p] = {} /\ bufferqueue[p] = <<>> /\ own[p] = {}

Drained(p) == bufferqueue[p] = <<>> /\ (p = "out" => held = None)

(* The answer to a flush or a port disable, and the completed change to    *)
(* Idle, mean what they say: all buffers of the ports are back, and freed  *)
(* when the port was disabled.                                             *)
AnswerMeansReturned ==
  [][ /\ cmd # None /\ cmd' = None =>
         /\ cmd.type = "Flush" => \A p \in Ports : Concerns(cmd.arg, p) => Drained(p)
         /\ cmd.type = "PortDisable" =>
              \A p \in Ports : Concerns(cmd.arg, p) => Drained(p) /\ buffers[p] = {}
      /\ state' = "Idle" /\ state # "Idle" => \A p \in Ports : Drained(p) ]_vars

(* The assertions of transition_to_loaded_from_idle (decoder.c:4165).      *)
QueuesEmptyOnUnload ==
  Handling("StateSet") /\ cmd.arg = "Loaded" /\ state = "Idle" =>
    \A p \in Ports : bufferqueue[p] = <<>>

(* Every command that could be posted is answered, unless the component    *)
(* goes Invalid, is deinitialised, or waits for a broken event.            *)
CommandsAreAnswered ==
  (Pending # {}) ~> (Pending = {} \/ state = "Invalid" \/ deinit # "no" \/ broken # {})

(* A submitted input buffer comes back, although the component may give up *)
(* on it again and again for want of an output buffer; unless it stops     *)
(* executing, its output port is disabled or awaits a reconfiguration, or  *)
(* an event is broken.                                                     *)
InputIsReturned ==
  \A b \in InBuffers :
    (bufferqueue["in"] # <<>> /\ b = Head(bufferqueue["in"])) ~>
      (b \in own["in"] \/ state # "Executing" \/ deinit # "no"
        \/ portReconfigPending \/ ~bEnabled["out"] \/ broken # {})

(* "return the queued buffers to the suppliers" (decoder.c:4012): no       *)
(* buffer is left without an owner.                                        *)
NoBufferIsLost == \A p \in Ports : \A b \in buffers[p] : Holders(p, b) # 0

(* "bring down the component thread, and join it" (decoder.c:469): DeInit  *)
(* returns, unless its own command could not be posted, or it waits for a  *)
(* broken event.                                                           *)
DeinitReturns ==
  (deinit = "joining") ~> (deinit = "done" \/ ExitLoop \in unposted \/ broken # {})
=============================================================================
