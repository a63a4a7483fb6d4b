--------------------------- MODULE OmxReturnProofs ---------------------------
(***************************************************************************)
(* More proofs about OmxDecoder: for a Careful client, which submits       *)
(* nothing to a port that a pending command concerns, an answer means that *)
(* the buffers are back, and a component in Idle has none queued, whatever *)
(* has failed.                                                             *)
(***************************************************************************)
EXTENDS OmxDecoderProofs

-----------------------------------------------------------------------------
(* The ports of a command, and those its handler still has to visit.       *)

Concerned(c, p) == c.type = "StateSet" \/ Concerns(c.arg, p)

Ahead == {todo[k] : k \in 1..Len(todo)}

LEMMA AheadOfAll ==
  ASSUME NEW a \in PortArgs, NEW p \in Ports, Concerns(a, p), todo' = PortsOf(a)
  PROVE  p \in Ahead'
  <1>1. CASE a = "all"
    <2>1. todo' = <<"in", "out", "pp">>
      BY <1>1 DEF PortsOf
    <2>2. Len(todo') = 3 /\ todo'[1] = "in" /\ todo'[2] = "out" /\ todo'[3] = "pp"
      BY <2>1
    <2> QED
      BY <2>2 DEF Ahead, Ports
  <1>2. CASE a # "all"
    <2>1. todo' = <<p>>
      BY <1>2 DEF PortsOf, Concerns
    <2> QED
      BY <2>1 DEF Ahead
  <1> QED
    BY <1>1, <1>2

LEMMA AheadOfTail ==
  ASSUME TodoInv, todo # <<>>, todo' = Tail(todo), NEW p, p \notin Ahead'
  PROVE  p = Head(todo) \/ p \notin Ahead
  <1>1. /\ Len(todo) \in Nat \ {0} /\ Len(todo') = Len(todo) - 1 /\ Head(todo) = todo[1]
        /\ \A k \in 1..Len(todo') : todo'[k] = todo[k + 1]
    BY DEF TodoInv
  <1>2. ASSUME NEW k \in 1..Len(todo), todo[k] = p, k # 1 PROVE FALSE
    <2>1. k - 1 \in 1..Len(todo') /\ todo'[k - 1] = p
      BY <1>1, <1>2
    <2> QED
      BY <2>1 DEF Ahead
  <1> QED
    BY <1>1, <1>2 DEF Ahead

LEMMA AheadOfHead ==
  ASSUME TodoInv, todo # <<>>
  PROVE  Head(todo) \in Ahead /\ Head(todo) \in Ports
  <1>1. Len(todo) \in Nat \ {0} /\ Head(todo) = todo[1]
    BY DEF TodoInv
  <1> QED
    BY <1>1 DEF Ahead, TodoInv

-----------------------------------------------------------------------------
(* A step adds a command only by a call.                                   *)

LEMMA PendingKept ==
  ASSUME CommandInv, [Next]_vars, ~SendCommand, ~Deinit
  PROVE  Pending' \subseteq Pending
  <1> SUFFICES ASSUME NEW c \in Pending' PROVE c \in Pending
    OBVIOUS
  <1>0. \/ \E k \in 1..Len(cmdQ') : cmdQ'[k] = c
        \/ c # None /\ (c = cmd' \/ c = calling')
    BY DEF Pending
  <1>1. ASSUME cmdQ' = cmdQ, calling' \in {None, calling}, cmd' \in {None, cmd} PROVE c \in Pending
    BY <1>0, <1>1, PendingIs
  <1>2. CASE \/ \E p \in Ports : \E b \in Buffers[p] : HandleBuffer(p, b)
             \/ QueueBuffer \/ SetRealTime \/ Destroy
    BY <1>1, <1>2, ClientFrame
  <1>3. CASE PostCommand
    <2>1. /\ cmdQ' = Append(cmdQ, calling) /\ cmd' = cmd /\ calling' = None /\ calling # None
          /\ Len(cmdQ') = Len(cmdQ) + 1 /\ cmdQ'[Len(cmdQ) + 1] = calling
          /\ \A k \in 1..Len(cmdQ) : cmdQ'[k] = cmdQ[k]
          /\ Len(cmdQ) \in Nat
      BY <1>3 DEF PostCommand, CommandInv, handler
    <2> QED
      BY <1>0, <2>1, PendingIs
  <1>4. CASE CheckRun \/ Wait \/ NoMoreCommands
    BY <1>1, <1>4 DEF CheckRun, Wait, NoMoreCommands, NoCall, handler
  <1>5. CASE Receive
    <2>1. /\ cmdQ # <<>> /\ cmdQ' = Tail(cmdQ) /\ calling' = calling
          /\ cmd' \in {cmd, Head(cmdQ)}
      BY <1>5 DEF Receive, NoCall
    <2>2. /\ Len(cmdQ) \in Nat \ {0} /\ Len(cmdQ') = Len(cmdQ) - 1 /\ Head(cmdQ) = cmdQ[1]
          /\ \A k \in 1..Len(cmdQ') : cmdQ'[k] = cmdQ[k + 1]
      BY <2>1 DEF CommandInv
    <2> QED
      BY <1>0, <2>1, <2>2, PendingIs
  <1>6. CASE CommandStep
    <2>1. UNCHANGED <<cmdQ, calling>> /\ cmd' \in {None, cmd}
      BY <1>6 DEF CommandStep, SameState, BeginTransition, CompleteStateSet, IllegalStateSet,
         FinishIdle,
           FailStateSet, FinishLoaded, BeginReturn, FinishFlush, ClearFlush, AwaitDealloc, PortDealloc,
           BeginEnable, PortEnabled, ReturnHeld, LockPort, ReturnNext, ClearQueue, Answer, Quiet, NoCall,
           handler
    <2> QED
      BY <1>1, <2>1
  <1>7. CASE BufferStep
    BY <1>1, <1>7, BufferFrame
  <1>9. CASE PostFault \/ PushFails \/ Aborts
    BY <1>1, <1>9, PostFrame, PushFrame, AbortsFrame
  <1>10. CASE ReceiveFails \/ ClearFails \/ PopFault
    BY <1>1, <1>10, ReceiveFrame, ClearFrame, PopFrameIs
  <1>8. CASE UNCHANGED vars
    BY <1>1, <1>8 DEF vars, handler, client
  <1> QED
    BY <1>2, <1>3, <1>4, <1>5, <1>6, <1>7, <1>8, <1>9, <1>10, FaultIs
    DEF Next, Client, ThreadStep, SendCommand, Aborts

LEMMA SendFrame ==
  ASSUME SendCommand
  PROVE  /\ UNCHANGED <<cmdQ, cmd, pc, state, todo, held, bufferqueue, buffers, submitting>>
         /\ calling' # None => Pending' = Pending \cup {calling'}
         /\ Careful => submitting = None
         /\ Orderly => Pending = {}
  <1>1. /\ UNCHANGED <<cmdQ, cmd, pc, state, todo, held, bufferqueue, buffers, submitting>>
        /\ calling = None
        /\ Careful => submitting = None
        /\ Orderly => Pending = {}
    BY DEF SendCommand, CallStateSet, CallFlush, CallPortDisable, CallPortEnable, Call, Ready,
       handler
  <1> QED
    BY <1>1 DEF Pending

-----------------------------------------------------------------------------
(* No call submits a buffer to a port that a pending command concerns.     *)

SubmitInv == submitting # None => ~PendingOn(submitting.port)

LEMMA SubmittingStep ==
  ASSUME CommandInv, [Next]_vars
  PROVE  \/ submitting' \in {None, submitting}
         \/ \E p \in Ports : \E b \in Buffers[p] : Submit(p, b)
  <1>1. ASSUME NEW p \in Ports, NEW b \in Buffers[p], AllocateBuffer(p, b) \/ FreeBuffer(p, b)
        PROVE  submitting' = submitting
    BY <1>1 DEF AllocateBuffer, FreeBuffer
  <1>2. CASE SendCommand
    BY <1>2, SendFrame
  <1>3. CASE QueueBuffer \/ PostCommand \/ SetRealTime \/ Deinit \/ Destroy
    BY <1>3 DEF QueueBuffer, PostCommand, SetRealTime, Deinit, Destroy, client
  <1>4. CASE CheckRun \/ Wait \/ Receive \/ NoMoreCommands
    BY <1>4 DEF CheckRun, Wait, Receive, NoMoreCommands, NoCall
  <1>5. CASE CommandStep
    BY <1>5 DEF CommandStep, SameState, BeginTransition, CompleteStateSet, IllegalStateSet,
       FinishIdle,
         FailStateSet, FinishLoaded, BeginReturn, FinishFlush, ClearFlush, AwaitDealloc, PortDealloc,
         BeginEnable, PortEnabled, ReturnHeld, LockPort, ReturnNext, ClearQueue, Quiet, NoCall
  <1>6. CASE BufferStep
    BY <1>6, BufferFrame
  <1>8. CASE PostFault \/ PushFails \/ Aborts
    BY <1>8, PostFrame, PushFrame, AbortsFrame
  <1>9. CASE ReceiveFails \/ ClearFails \/ PopFault
    BY <1>9, ReceiveFrame, ClearFrame, PopFrameIs
  <1>7. CASE UNCHANGED vars
    BY <1>7 DEF vars, client
  <1> QED
    BY <1>1, <1>2, <1>3, <1>4, <1>5, <1>6, <1>7, <1>8, <1>9, FaultIs
    DEF Next, Client, HandleBuffer, ThreadStep, SendCommand, Aborts

LEMMA NextSubmit ==
  ASSUME Careful, CommandInv, SubmitInv, [Next]_vars
  PROVE  SubmitInv'
  <1>1. ASSUME NEW p \in Ports, NEW b \in Buffers[p], Submit(p, b) PROVE SubmitInv'
    <2>1. ~PendingOn(p) /\ submitting' = [port |-> p, buffer |-> b] /\ UNCHANGED <<cmdQ, cmd, calling>>
      BY <1>1 DEF Submit, handler
    <2>2. Pending' = Pending /\ submitting'.port = p
      BY <2>1 DEF Pending
    <2> QED
      BY <2>1, <2>2 DEF SubmitInv, PendingOn
  <1>2. ASSUME submitting' = None PROVE SubmitInv'
    BY <1>2 DEF SubmitInv
  <1>3. CASE SendCommand
    BY <1>2, <1>3, SendFrame
  <1>4. CASE Deinit
    BY <1>2, <1>4 DEF Deinit
  <1>5. ASSUME submitting' = submitting, ~SendCommand, ~Deinit PROVE SubmitInv'
    BY <1>5, PendingKept DEF SubmitInv, PendingOn
  <1> QED
    BY <1>1, <1>2, <1>3, <1>4, <1>5, SubmittingStep

-----------------------------------------------------------------------------
(* The ports a handler has visited have their buffers back.                *)

Returning == {"held", "lock", "return", "returned"}

VisitInv ==
  /\ pc \in Returning =>
       \A p \in Ports : Concerned(cmd, p) /\ p \notin Ahead => Drained(p)
  /\ pc \in {"lock", "return"} /\ Head(todo) = "out" => held = None
  /\ pc = "returned" => todo = <<>>
  /\ pc = "waitFree" /\ cmd.type = "PortDisable" =>
       \A p \in Ports : Concerned(cmd, p) => Drained(p)

LEMMA SameVisit ==
  ASSUME VisitInv, UNCHANGED <<pc, cmd, todo, held, bufferqueue>>
  PROVE  VisitInv'
  BY DEF VisitInv, Drained, Ahead, Concerned

LEMMA NoVisit ==
  ASSUME pc' \notin Returning \cup {"waitFree"}
  PROVE  VisitInv'
  BY DEF VisitInv, Returning

\* The port of a call in progress is not one that the handler visits.
LEMMA ElsewhereQueued ==
  ASSUME CommandInv, PortsInv, SubmitInv, cmd # None, QueueBuffer,
         NEW p \in Ports, Concerned(cmd, p)
  PROVE  bufferqueue'[p] = bufferqueue[p]
  <1>1. cmd \in Pending
    BY DEF Pending
  <1>2. submitting # None /\ submitting.port \in Ports
    BY DEF QueueBuffer, PortsInv
  <1>3. submitting.port # p
    BY <1>1, <1>2 DEF SubmitInv, PendingOn, Concerned
  <1>4. \/ bufferqueue' = bufferqueue
        \/ bufferqueue' = [bufferqueue EXCEPT ![submitting.port] = Append(@, submitting.buffer)]
    BY DEF QueueBuffer
  <1> QED
    BY <1>3, <1>4 DEF PortsInv

LEMMA ClientVisit ==
  ASSUME ThreadInv, SubmitInv, VisitInv, Client
  PROVE  VisitInv'
  <1>1. ASSUME NEW p \in Ports, NEW b \in Buffers[p], HandleBuffer(p, b) PROVE VisitInv'
    BY <1>1, SameVisit DEF HandleBuffer, Submit, AllocateBuffer, FreeBuffer, handler, ports
  <1>2. CASE SendCommand
    BY <1>2, SendFrame, SameVisit
  <1>3. CASE PostCommand \/ SetRealTime \/ Deinit
    BY <1>3, SameVisit DEF PostCommand, SetRealTime, Deinit, handler, ports
  <1>4. CASE Destroy
    BY <1>4, NoVisit DEF Destroy, Returning
  <1>5. CASE QueueBuffer
    <2>1. UNCHANGED <<pc, cmd, todo, held>>
      BY <1>5 DEF QueueBuffer, handler
    <2>2. CASE pc \in Handlers
      <3>1. \A p \in Ports : Concerned(cmd, p) => bufferqueue'[p] = bufferqueue[p]
        BY <1>5, <2>2, ElsewhereQueued DEF ThreadInv, CommandInv
      <3>2. \A p \in Ports : Concerned(cmd, p) /\ Drained(p) => Drained(p)'
        BY <2>1, <3>1 DEF Drained
      <3> QED
        BY <2>1, <3>2 DEF VisitInv, Ahead, Concerned
    <2>3. CASE pc \notin Handlers
      BY <2>1, <2>3, NoVisit DEF Handlers, Returning
    <2> QED
      BY <2>2, <2>3
  <1> QED
    BY <1>1, <1>2, <1>3, <1>4, <1>5 DEF Client, SendCommand

\* A handler begins with all its ports ahead of it.
LEMMA BeginVisit ==
  ASSUME ThreadInv, VisitInv, BeginTransition \/ BeginReturn \/ AwaitDealloc
  PROVE  VisitInv'
  <1> USE DEF ThreadInv
  <1>1. CASE BeginTransition
    <2>1. /\ todo' = PortsOf("all") /\ UNCHANGED <<cmd, held, bufferqueue>>
          /\ cmd.type = "StateSet"
      BY <1>1 DEF BeginTransition, Handling, ports
    <2>2. pc' \in {"waitReady", "waitFree", "held"}
      BY <1>1, Zenon DEF BeginTransition, Goto
    <2>3. \A p \in Ports : p \in Ahead'
      BY <2>1, AheadOfAll DEF Concerns, PortArgs
    <2> QED
      BY <2>1, <2>2, <2>3 DEF VisitInv, Returning
  <1>2. CASE BeginReturn
    <2>1. /\ todo' = PortsOf(cmd.arg) /\ UNCHANGED <<cmd, held, bufferqueue>>
          /\ cmd.type # "StateSet" /\ pc' = "held" /\ cmd # None
      BY <1>2, HandledIs DEF BeginReturn, Handling, ports, Goto
    <2>2. cmd.arg \in PortArgs
      BY <2>1, RequestFacts DEF CommandInv
    <2>3. \A p \in Ports : Concerned(cmd', p) => p \in Ahead'
      BY <2>1, <2>2, AheadOfAll DEF Concerned
    <2> QED
      BY <2>1, <2>3 DEF VisitInv, Returning
  <1>3. CASE AwaitDealloc
    <2>1. /\ UNCHANGED <<cmd, held, bufferqueue>> /\ pc = "returned" /\ pc' = "waitFree"
      BY <1>3 DEF AwaitDealloc, ports, Goto
    <2>2. \A p \in Ports : Concerned(cmd, p) => Drained(p)
      BY <2>1 DEF VisitInv, Returning, Ahead
    <2> QED
      BY <2>1, <2>2 DEF VisitInv, Returning, Drained, Concerned
  <1> QED
    BY <1>1, <1>2, <1>3

\* A port is visited: the held buffer, then the queue.
LEMMA VisitPort ==
  ASSUME ThreadInv, VisitInv, ReturnHeld \/ LockPort \/ ReturnNext \/ ClearQueue
  PROVE  VisitInv'
  <1> USE DEF ThreadInv
  <1>0. pc \in {"held", "lock", "return"} /\ cmd' = cmd /\ todo # <<>> /\ Head(todo) \in Ahead /\ Head(todo) \in Ports
    BY AheadOfHead DEF ReturnHeld, LockPort, ReturnNext, ClearQueue, handler, TodoInv
  <1>1. CASE ReturnHeld
    <2>1. /\ todo' = todo /\ pc' = "lock"
          /\ held' = IF Head(todo) = "out" THEN None ELSE held
      BY <1>1 DEF ReturnHeld, handler, Goto
    <2>2. \A p \in Ports : p # Head(todo) => bufferqueue'[p] = bufferqueue[p]
      <3>1. CASE Head(todo) = "out" /\ held # None
        <4>1. Callback("out", held) /\ held \in Buffers["out"] /\ "out" \in Ports
          BY <1>1, <3>1, BuffersFacts DEF ReturnHeld, PortsInv, Ports
        <4> QED
          BY <3>1, <4>1, CallbackFacts
      <3>2. CASE ~(Head(todo) = "out" /\ held # None)
        BY <1>1, <3>2 DEF ReturnHeld
      <3> QED
        BY <3>1, <3>2
    <2>3. \A p \in Ports : p \notin Ahead /\ Drained(p) => Drained(p)'
      BY <1>0, <2>1, <2>2 DEF Drained
    <2> QED
      BY <1>0, <2>1, <2>3 DEF VisitInv, Returning, Ahead, Concerned
  <1>2. CASE LockPort
    BY <1>0, <1>2 DEF LockPort, Goto, VisitInv, Returning, Ahead, Concerned, Drained, ports
  <1>3. CASE ReturnNext
    <2>1. UNCHANGED <<pc, todo, held>> /\ Callback(Head(todo), bufferqueue[Head(todo)][i + 1])
      BY <1>3 DEF ReturnNext
    <2>2. /\ i + 1 \in 1..Len(bufferqueue[Head(todo)])
          /\ bufferqueue[Head(todo)] \in Seq(Buffers[Head(todo)])
      BY <1>3 DEF ReturnNext, TodoInv, PortsInv
    <2>3. bufferqueue[Head(todo)][i + 1] \in Buffers[Head(todo)]
      BY <2>2
    <2>4. \A p \in Ports : p # Head(todo) => bufferqueue'[p] = bufferqueue[p]
      BY <1>0, <2>1, <2>3, CallbackFacts
    <2>5. \A p \in Ports : p \notin Ahead /\ Drained(p) => Drained(p)'
      BY <1>0, <2>1, <2>4 DEF Drained
    <2> QED
      BY <1>0, <2>1, <2>5 DEF VisitInv, Returning, Ahead, Concerned
  <1>4. CASE ClearQueue
    <2>1. /\ bufferqueue' = [bufferqueue EXCEPT ![Head(todo)] = <<>>]
          /\ todo' = Tail(todo) /\ held' = held /\ pc = "return"
          /\ pc' = IF Tail(todo) = <<>> THEN "returned" ELSE "held"
      BY <1>4 DEF ClearQueue, Goto
    <2>2. \A p \in Ports : Drained(p) \/ p = Head(todo) => Drained(p)'
      BY <1>0, <2>1 DEF Drained, VisitInv, PortsInv
    <2>3. \A p \in Ports : p \notin Ahead' => p = Head(todo) \/ p \notin Ahead
      BY <1>0, <2>1, AheadOfTail
    <2> QED
      BY <1>0, <2>1, <2>2, <2>3 DEF VisitInv, Returning, Concerned
  <1> QED
    BY <1>1, <1>2, <1>3, <1>4

\* A clear that fails empties the port as the clear does.
LEMMA ClearVisit ==
  ASSUME ThreadInv, VisitInv, ClearFails
  PROVE  VisitInv'
  <1> USE DEF ThreadInv
  <1>0. cmd' = cmd /\ todo # <<>> /\ Head(todo) \in Ahead /\ Head(todo) \in Ports
    BY ClearFrame, AheadOfHead DEF TodoInv
  <1>1. /\ bufferqueue' = [bufferqueue EXCEPT ![Head(todo)] = <<>>]
        /\ todo' = Tail(todo) /\ held' = held /\ pc = "return"
        /\ IF Tail(todo) = <<>> THEN pc' = "returned" ELSE pc' = "held"
    BY ClearFrame
  <1>2. \A p \in Ports : Drained(p) \/ p = Head(todo) => Drained(p)'
    BY <1>0, <1>1 DEF Drained, VisitInv, PortsInv
  <1>3. \A p \in Ports : p \notin Ahead' => p = Head(todo) \/ p \notin Ahead
    BY <1>0, <1>1, AheadOfTail
  <1> QED
    BY <1>0, <1>1, <1>2, <1>3 DEF VisitInv, Returning, Concerned

LEMMA NextVisit ==
  ASSUME ThreadInv, SubmitInv, VisitInv, [Next]_vars
  PROVE  VisitInv'
  <1> USE DEF ThreadInv
  <1>1. CASE CheckRun \/ Wait \/ Receive \/ NoMoreCommands
    BY <1>1, NoVisit DEF CheckRun, Wait, Receive, NoMoreCommands, Goto, Returning
  <1>2. CASE BufferStep
    BY <1>2, BufferFrame, NoVisit DEF Processing, Returning
  <1>3. CASE CommandStep
    <2>1. CASE SameState \/ CompleteStateSet \/ IllegalStateSet \/ FinishIdle \/ FailStateSet \/ FinishLoaded
      BY <2>1, NoVisit DEF SameState, CompleteStateSet, IllegalStateSet, FinishIdle,
         FailStateSet,
         FinishLoaded, Answer, Goto, Returning
    <2>2. CASE FinishFlush \/ ClearFlush \/ BeginEnable
      BY <2>2, NoVisit DEF FinishFlush, ClearFlush, BeginEnable, Goto, Returning
    <2>3. CASE PortEnabled
      BY <2>3, NoVisit DEF PortEnabled, Answer, Goto, Returning
    <2>4. CASE PortDealloc
      <3>1. UNCHANGED <<held, bufferqueue>> /\ pc = "waitFree" /\ cmd.type = "PortDisable"
        BY <2>4 DEF PortDealloc, ports
      <3>2. pc' = "receive" \/ (pc' = pc /\ cmd' = cmd)
        BY <2>4 DEF PortDealloc, Answer, Goto
      <3> QED
        BY <3>1, <3>2, NoVisit DEF VisitInv, Returning, Drained, Concerned
    <2> QED
      BY <1>3, <2>1, <2>2, <2>3, <2>4, BeginVisit, VisitPort DEF CommandStep
  <1>5. CASE Aborts \/ ReceiveFails \/ PopFault
    BY <1>5, AbortsFrame, ReceiveFrame, PopFrameIs, NoVisit DEF Returning, DecodeInv
  <1>6. CASE PostFault \/ PushFails
    BY <1>6, PostFrame, PushFrame, SameVisit
  <1>4. CASE UNCHANGED vars
    BY <1>4, SameVisit DEF vars, handler, ports
  <1> QED
    BY <1>1, <1>2, <1>3, <1>4, <1>5, <1>6, ClientVisit, ClearVisit, FaultIs DEF Next, ThreadStep, Aborts

-----------------------------------------------------------------------------
(* A client that awaits answers has one command pending, so that nobody    *)
(* allocates buffers while a port disable waits until they are freed.      *)

SingleInv ==
  /\ \A c, d \in Pending : c = d
  /\ calling # None => cmdQ = <<>> /\ cmd = None
  /\ (\E c \in Pending : c # ExitLoop) => unposted \subseteq {ExitLoop}

FreedInv ==
  pc = "waitFree" /\ cmd.type = "PortDisable" =>
    \A p \in Ports : Concerned(cmd, p) /\ p \notin Ahead => buffers[p] = {}

\* A step that sends no command and leaves one that is being sent does not touch
\* the others; nor does one that fails to post it.
LEMMA CallKept ==
  ASSUME CommandInv, SingleInv, [Next]_vars, ~SendCommand, ~Deinit
  PROVE  /\ \/ calling' = None
            \/ calling' = calling /\ (calling # None => cmdQ' = cmdQ /\ cmd' = None)
         /\ \/ unposted' \subseteq unposted \cup {ExitLoop}
            \/ Pending' = {}
  <1>1. CASE \/ \E p \in Ports : \E b \in Buffers[p] : HandleBuffer(p, b)
             \/ QueueBuffer \/ SetRealTime \/ Destroy
    <2>2. UNCHANGED unposted
      BY <1>1 DEF HandleBuffer, Submit, AllocateBuffer, FreeBuffer, QueueBuffer, SetRealTime, Destroy, faulted
    <2> QED
      BY <1>1, <2>2, ClientFrame DEF SingleInv
  <1>2. CASE PostCommand
    BY <1>2 DEF PostCommand, faulted
  <1>3. CASE PostFault
    <2>1. CASE /\ calling # None /\ calling' = None /\ UNCHANGED <<cmdQ, cmd>>
      <3>1. cmdQ' = <<>> /\ cmd' = None /\ calling' = None
        BY <2>1 DEF SingleInv
      <3> QED
        BY <3>1 DEF Pending
    <2>2. CASE UNCHANGED <<calling, cmdQ, cmd>> /\ unposted' = unposted \cup {ExitLoop}
      BY <2>2 DEF SingleInv
    <2> QED
      BY <1>3, <2>1, <2>2, PostFrame
  <1>4. CASE CheckRun \/ ExitOnError \/ Wait \/ NoMoreCommands
    BY <1>4 DEF CheckRun, ExitOnError, Wait, NoMoreCommands, NoCall, handler, faulted, SingleInv
  <1>5. CASE Receive
    BY <1>5 DEF Receive, NoCall, faulted, SingleInv
  <1>6. CASE CommandStep
    <2>1. UNCHANGED <<cmdQ, calling, unposted>> /\ cmd' \in {None, cmd}
      BY <1>6 DEF CommandStep, SameState, BeginTransition, CompleteStateSet, IllegalStateSet, FinishIdle,
           FailStateSet, FinishLoaded, BeginReturn, FinishFlush, ClearFlush, AwaitDealloc, PortDealloc,
           BeginEnable, PortEnabled, ReturnHeld, LockPort, ReturnNext, ClearQueue, Answer, Quiet, NoCall,
           handler, faulted
    <2> QED
      BY <2>1 DEF SingleInv
  <1>7. CASE BufferStep
    <2>1. UNCHANGED unposted
      BY <1>7 DEF BufferStep, SetMask, PopMask, NoMask, StartDecode, NoInput, ScanMore, ScanDone, TakeOutput,
             DoWithout, Overflow, DecodeData, DecodeInfo, DecodeErrorStream, CodecFails, NextFrame,
             DrainFrames, GetFrame, NoMoreFrames, DispatchFrame, PopFrame, LastFrame, InputDone, PopInput,
             Calm, NoCall, faulted
    <2> QED
      BY <1>7, <2>1, BufferFrame DEF SingleInv
  <1>8. CASE PushFails \/ Aborts \/ ReceiveFails
    BY <1>8, PushFrame, AbortsFrame, ReceiveFrame DEF SingleInv
  <1>9. CASE ClearFails \/ PopFault
    BY <1>9, ClearFrame, PopFrameIs DEF SingleInv
  <1>10. CASE UNCHANGED vars
    BY <1>10 DEF vars, handler, client, faulted, SingleInv
  <1> QED
    BY <1>1, <1>2, <1>3, <1>4, <1>5, <1>6, <1>7, <1>8, <1>9, <1>10, FaultIs
    DEF Next, Client, ThreadStep, SendCommand, Aborts

LEMMA NothingPending ==
  ASSUME CommandInv, Pending = {}
  PROVE  cmdQ = <<>> /\ cmd = None /\ calling = None
  <1>1. cmdQ \in Seq(Requests \cup {ExitLoop}) /\ Len(cmdQ) \in Nat
    BY DEF CommandInv
  <1>2. \A k \in 1..Len(cmdQ) : cmdQ[k] \in Pending
    BY DEF Pending
  <1>3. Len(cmdQ) = 0
    BY <1>1, <1>2
  <1> QED
    BY <1>1, <1>3 DEF Pending

LEMMA NextSingle ==
  ASSUME Careful, Orderly, CommandInv, SingleInv, [Next]_vars
  PROVE  SingleInv'
  <1>1. CASE SendCommand
    <2>1. Pending' = {calling'} /\ cmdQ' = <<>> /\ cmd' = None
      <3>1. Pending = {} /\ UNCHANGED <<cmdQ, cmd>> /\ Pending' = Pending \cup {calling'}
        BY <1>1, SendFrame, CallFrame, RequestFacts
      <3> QED
        BY <3>1, NothingPending
    <2>2. unposted' = {}
      BY <1>1 DEF SendCommand, CallStateSet, CallFlush, CallPortDisable, CallPortEnable, Call, faulted
    <2> QED
      BY <2>1, <2>2 DEF SingleInv
  <1>2. CASE Deinit
    <2>1. Pending = {} /\ cmdQ' = Append(cmdQ, ExitLoop) /\ UNCHANGED <<cmd, calling, unposted>>
      BY <1>2 DEF Deinit, handler, faulted
    <2>2. cmdQ = <<>> /\ cmd = None /\ calling = None
      BY <2>1, NothingPending
    <2>3. Len(cmdQ') = 1 /\ cmdQ'[1] = ExitLoop
      BY <2>1, <2>2
    <2>4. Pending' = {ExitLoop}
      BY <2>1, <2>2, <2>3 DEF Pending
    <2> QED
      BY <2>1, <2>2, <2>4 DEF SingleInv
  <1>3. ASSUME ~SendCommand, ~Deinit PROVE SingleInv'
    <2>1. Pending' \subseteq Pending
      BY <1>3, PendingKept
    <2> QED
      BY <1>3, <2>1, CallKept DEF SingleInv
  <1> QED
    BY <1>1, <1>2, <1>3

LEMMA SameFreed ==
  ASSUME FreedInv, UNCHANGED <<pc, cmd, todo>>,
         \A p \in Ports : Concerned(cmd, p) => buffers'[p] \subseteq buffers[p]
  PROVE  FreedInv'
  BY DEF FreedInv, Concerned, Ahead

\* While a disable of its port is pending, the client has no reason to allocate.
LEMMA NothingWanted ==
  ASSUME CommandInv, TransitionTracked, SingleInv, cmd # None, cmd.type = "PortDisable",
         NEW p \in Ports, Concerned(cmd, p)
  PROVE  ~WantsBuffers(p)
  <1>1. cmd \in Pending /\ \A c \in Pending : c = cmd
    BY DEF SingleInv, Pending
  <1>2. ~(state = "Loaded" /\ statetrans = "Idle")
    <2>1. unposted \subseteq {ExitLoop}
      BY <1>1 DEF SingleInv, ExitLoop
    <2>2. \A c \in Pending \cup unposted : c.type # "StateSet"
      BY <1>1, <2>1 DEF ExitLoop
    <2> QED
      BY <2>2 DEF TransitionTracked
  <1>3. PendingOn(p)
    BY <1>1 DEF PendingOn, Concerned
  <1> QED
    BY <1>1, <1>2, <1>3 DEF WantsBuffers

LEMMA ClientFreed ==
  ASSUME ThreadInv, TransitionTracked, SingleInv, FreedInv, Client
  PROVE  FreedInv'
  <1> USE DEF ThreadInv
  <1>1. ASSUME NEW p \in Ports, NEW b \in Buffers[p], Submit(p, b) PROVE FreedInv'
    BY <1>1, SameFreed DEF Submit, handler, ports
  <1>2. ASSUME NEW p \in Ports, NEW b \in Buffers[p], AllocateBuffer(p, b) PROVE FreedInv'
    <2>1. /\ UNCHANGED <<pc, cmd, todo>> /\ WantsBuffers(p)
          /\ buffers' = [buffers EXCEPT ![p] = @ \cup {b}]
      BY <1>2 DEF AllocateBuffer, handler
    <2>2. \A o \in Ports : o # p => buffers'[o] = buffers[o]
      BY <2>1 DEF PortsInv
    <2>3. CASE pc = "waitFree" /\ cmd.type = "PortDisable"
      <3>1. ~Concerned(cmd, p)
        BY <2>1, <2>3, NothingWanted DEF CommandInv, Handlers
      <3>2. \A o \in Ports : Concerned(cmd, o) => buffers'[o] = buffers[o]
        BY <2>2, <3>1
      <3> QED
        BY <2>1, <3>2, SameFreed
    <2>4. CASE ~(pc = "waitFree" /\ cmd.type = "PortDisable")
      BY <2>1, <2>4 DEF FreedInv
    <2> QED
      BY <2>3, <2>4
  <1>3. ASSUME NEW p \in Ports, NEW b \in Buffers[p], FreeBuffer(p, b) PROVE FreedInv'
    <2>1. UNCHANGED <<pc, cmd, todo>> /\ buffers' = [buffers EXCEPT ![p] = @ \ {b}]
      BY <1>3 DEF FreeBuffer, handler
    <2>2. \A o \in Ports : buffers'[o] \subseteq buffers[o]
      BY <2>1 DEF PortsInv
    <2> QED
      BY <2>1, <2>2, SameFreed
  <1>4. CASE SendCommand
    BY <1>4, SendFrame, SameFreed
  <1>5. CASE QueueBuffer \/ PostCommand \/ SetRealTime \/ Deinit
    BY <1>5, SameFreed DEF QueueBuffer, PostCommand, SetRealTime, Deinit, handler, ports
  <1>6. CASE Destroy
    BY <1>6 DEF Destroy, FreedInv
  <1> QED
    BY <1>1, <1>2, <1>3, <1>4, <1>5, <1>6 DEF Client, SendCommand, HandleBuffer

LEMMA NextFreed ==
  ASSUME ThreadInv, TransitionTracked, SingleInv, FreedInv, [Next]_vars
  PROVE  FreedInv'
  <1> USE DEF ThreadInv
  <1>1. ASSUME pc' # "waitFree" PROVE FreedInv'
    BY <1>1 DEF FreedInv
  <1>2. CASE CheckRun \/ Wait \/ Receive \/ NoMoreCommands
    BY <1>1, <1>2 DEF CheckRun, Wait, Receive, NoMoreCommands, Goto
  <1>3. CASE BufferStep
    BY <1>1, <1>3, BufferFrame DEF Processing
  <1>4. CASE CommandStep
    <2>1. CASE SameState \/ CompleteStateSet \/ IllegalStateSet \/ FinishIdle \/ FailStateSet \/ FinishLoaded
      BY <1>1, <2>1 DEF SameState, CompleteStateSet, IllegalStateSet, FinishIdle, FailStateSet,
         FinishLoaded, Answer, Goto
    <2>2. CASE FinishFlush \/ ClearFlush \/ BeginEnable \/ BeginReturn
      BY <1>1, <2>2 DEF FinishFlush, ClearFlush, BeginEnable, BeginReturn, Goto
    <2>3. CASE ReturnHeld \/ LockPort \/ ReturnNext \/ ClearQueue
      BY <1>1, <2>3 DEF ReturnHeld, LockPort, ReturnNext, ClearQueue, Goto
    <2>4. CASE PortEnabled
      BY <1>1, <2>4 DEF PortEnabled, Answer, Goto
    <2>5. CASE BeginTransition
      BY <2>5 DEF BeginTransition, Handling, FreedInv
    <2>6. CASE AwaitDealloc
      <3>1. /\ todo' = PortsOf(cmd.arg) /\ cmd' = cmd /\ cmd # None /\ cmd.type = "PortDisable"
        BY <2>6 DEF AwaitDealloc, CommandInv, Handlers
      <3>2. cmd.arg \in PortArgs
        BY <3>1, RequestFacts DEF CommandInv
      <3>3. \A p \in Ports : Concerned(cmd', p) => p \in Ahead'
        BY <3>1, <3>2, AheadOfAll DEF Concerned
      <3> QED
        BY <3>3 DEF FreedInv
    <2>7. CASE PortDealloc
      <3>1. /\ buffers' = buffers /\ pc = "waitFree" /\ cmd.type = "PortDisable"
            /\ buffers[Head(todo)] = {} /\ todo' = Tail(todo) /\ todo # <<>>
            /\ pc' = "receive" \/ cmd' = cmd
        BY <2>7 DEF PortDealloc, ports, TodoInv, Answer, Goto
      <3>2. \A p \in Ports : p \notin Ahead' => p = Head(todo) \/ p \notin Ahead
        BY <3>1, AheadOfTail
      <3> QED
        BY <1>1, <3>1, <3>2 DEF FreedInv, Concerned
    <2> QED
      BY <1>4, <2>1, <2>2, <2>3, <2>4, <2>5, <2>6, <2>7 DEF CommandStep
  <1>6. CASE Aborts \/ ReceiveFails \/ PopFault
    BY <1>1, <1>6, AbortsFrame, ReceiveFrame, PopFrameIs DEF DecodeInv
  <1>7. CASE ClearFails
    BY <1>1, <1>7, ClearFrame
  <1>8. CASE PostFault \/ PushFails
    BY <1>8, SameFreed, PostFrame, PushFrame
  <1>5. CASE UNCHANGED vars
    BY <1>5, SameFreed DEF vars, handler, ports
  <1> QED
    BY <1>2, <1>3, <1>4, <1>5, <1>6, <1>7, <1>8, ClientFreed, FaultIs DEF Next, ThreadStep, Aborts

-----------------------------------------------------------------------------
(* A component in Idle has nothing queued, if the client queues nothing    *)
(* there.                                                                  *)

IdleInv ==
  state = "Idle" => submitting = None /\ \A p \in Ports : Drained(p)

LEMMA IdleIs ==
  IdleInv <=> (state = "Idle" => /\ submitting = None /\ held = None
                                 /\ \A p \in Ports : bufferqueue[p] = <<>>)
  BY DEF IdleInv, Drained, Ports

\* The steps that lead to Idle.
LEMMA EnterIdle ==
  ASSUME ThreadInv, ChangeInv, EmptyInv, SubmitInv, VisitInv, [Next]_vars,
         state # "Idle", state' = "Idle"
  PROVE  /\ submitting = None /\ \A p \in Ports : Drained(p)
         /\ UNCHANGED <<submitting, held, bufferqueue>>
  <1> USE DEF ThreadInv
  <1>1. ~BufferStep
    BY BufferState
  <1>2. ~UNCHANGED vars
    BY DEF vars
  <1>3. ~Client
    <2>1. ASSUME NEW p \in Ports, NEW b \in Buffers[p] PROVE ~HandleBuffer(p, b)
      BY DEF HandleBuffer, Submit, AllocateBuffer, FreeBuffer
    <2>2. ~SendCommand
      BY SendFrame
    <2>3. ~(QueueBuffer \/ PostCommand \/ SetRealTime \/ Deinit \/ Destroy)
      BY DEF QueueBuffer, PostCommand, SetRealTime, Deinit, Destroy
    <2> QED
      BY <2>1, <2>2, <2>3 DEF Client, SendCommand
  <1>4. CompleteStateSet \/ FinishIdle
    <2>1. ~(CheckRun \/ Wait \/ Receive \/ NoMoreCommands)
      BY DEF CheckRun, Wait, Receive, NoMoreCommands
    <2>2. ~(SameState \/ BeginTransition \/ IllegalStateSet \/ FailStateSet \/ FinishLoaded \/ BeginReturn)
      BY DEF SameState, BeginTransition, IllegalStateSet, FailStateSet, FinishLoaded,
         BeginReturn
    <2>3. ~(FinishFlush \/ ClearFlush \/ AwaitDealloc \/ PortDealloc \/ BeginEnable \/ PortEnabled)
      BY DEF FinishFlush, ClearFlush, AwaitDealloc, PortDealloc, BeginEnable, PortEnabled
    <2>4. ~(ReturnHeld \/ LockPort \/ ReturnNext \/ ClearQueue)
      BY DEF ReturnHeld, LockPort, ReturnNext, ClearQueue
    <2>5. ~Fault /\ ~ExitOnError
      BY FaultIs, AbortsFrame, PushFrame, PostFrame, ReceiveFrame, ClearFrame, PopFrameIs DEF Aborts
    <2> QED
      BY <1>1, <1>2, <1>3, <2>1, <2>2, <2>3, <2>4, <2>5 DEF Next, ThreadStep, CommandStep
  <1>5. UNCHANGED <<submitting, held, bufferqueue>>
    BY <1>4 DEF CompleteStateSet, FinishIdle, Quiet, NoCall, ports
  <1>6. CASE CompleteStateSet
    <2>1. cmd' # cmd /\ cmd # None /\ cmd.type = "StateSet" /\ cmd.arg = "Idle" /\ state' = cmd.arg
      BY <1>6, HandledIs DEF CompleteStateSet, Answer, CommandInv, Handlers
    <2>2. <<state, cmd.arg>> \notin Immediate
      BY <2>1 DEF Immediate
    <2>3. pc = "returned"
      BY <1>6, <2>2 DEF CompleteStateSet
    <2>4. \A p \in Ports : Drained(p)
      BY <2>1, <2>3 DEF VisitInv, Returning, Ahead, Concerned
    <2>5. submitting = None
      BY <2>1 DEF SubmitInv, PendingOn, Pending
    <2> QED
      BY <1>5, <2>4, <2>5
  <1>7. CASE FinishIdle
    <2>1. Asks(cmd) /\ pc = "waitReady"
      BY <1>7 DEF FinishIdle, CommandInv, Handlers, Asks
    <2>2. state = "Loaded"
      BY <2>1 DEF ChangeInv, UnderWay
    <2> QED
      BY <1>5, <2>2 DEF EmptyInv, Drained
  <1> QED
    BY <1>4, <1>6, <1>7

LEMMA NextIdle ==
  ASSUME "Idle" \notin SubmitStates, ThreadInv, ChangeInv, EmptyInv, SubmitInv, VisitInv, IdleInv, [Next]_vars
  PROVE  IdleInv'
  <1>1. ASSUME UNCHANGED <<submitting, held, bufferqueue>>, state = "Idle" PROVE IdleInv'
    BY <1>1 DEF IdleInv, Drained
  <1>2. CASE state' # "Idle"
    BY <1>2 DEF IdleInv
  <1>3. CASE state # "Idle" /\ state' = "Idle"
    <2>1. /\ submitting = None /\ \A p \in Ports : Drained(p)
          /\ UNCHANGED <<submitting, held, bufferqueue>>
      BY <1>3, EnterIdle
    <2> QED
      BY <2>1 DEF IdleInv, Drained
  <1>4. CASE state = "Idle" /\ ThreadStep
    BY <1>1, <1>4, ThreadDry, IdleIs
  <1>5. CASE state = "Idle" /\ Client
    <2>1. submitting = None
      BY <1>5 DEF IdleInv
    <2>2. ASSUME NEW p \in Ports, NEW b \in Buffers[p], HandleBuffer(p, b) PROVE IdleInv'
      BY <1>1, <1>5, <2>2 DEF HandleBuffer, Submit, AllocateBuffer, FreeBuffer
    <2>3. CASE SendCommand
      BY <1>1, <1>5, <2>3, SendFrame
    <2>4. CASE PostCommand \/ SetRealTime \/ Deinit
      BY <1>1, <1>5, <2>4 DEF PostCommand, SetRealTime, Deinit, ports, client
    <2>5. CASE Destroy
      BY <1>5, <2>1, <2>5 DEF Destroy, IdleInv, Drained
    <2>6. ~QueueBuffer
      BY <2>1 DEF QueueBuffer
    <2> QED
      BY <1>5, <2>2, <2>3, <2>4, <2>5, <2>6 DEF Client, SendCommand
  <1>7. CASE state = "Idle" /\ Fault
    <2>1. submitting = None /\ held = None /\ \A p \in Ports : bufferqueue[p] = <<>>
      BY <1>7, IdleIs
    <2>2. ~PushFails
      BY <2>1, PushFrame
    <2>3. CASE Aborts
      BY <1>2, <2>3, AbortsFrame
    <2>4. CASE PostFault \/ ReceiveFails \/ PopFault
      BY <1>1, <1>7, <2>4, PostFrame, ReceiveFrame, PopFrameIs
    <2>5. CASE ClearFails
      <3>1. /\ UNCHANGED <<submitting, held>> /\ Head(todo) \in Ports
            /\ bufferqueue' = [bufferqueue EXCEPT ![Head(todo)] = <<>>]
        BY <2>5, ClearFrame DEF ThreadInv, TodoInv
      <3>2. \A p \in Ports : bufferqueue'[p] = <<>>
        BY <2>1, <3>1 DEF ThreadInv, PortsInv
      <3> QED
        BY <2>1, <3>1, <3>2 DEF IdleInv, Drained
    <2> QED
      BY <1>7, <2>2, <2>3, <2>4, <2>5, FaultIs
  <1>6. CASE state = "Idle" /\ UNCHANGED vars
    BY <1>1, <1>6 DEF vars, ports, client
  <1> QED
    BY <1>2, <1>3, <1>4, <1>5, <1>6, <1>7 DEF Next

\* The steps that answer a flush or a port disable.
LEMMA AnswerStep ==
  ASSUME CommandInv, [Next]_vars, cmd # None, cmd' = None, cmd.type \in {"Flush", "PortDisable"}
  PROVE  FinishFlush \/ (PortDealloc /\ Tail(todo) = <<>>)
  <1>1. ~Client
    <2>1. ASSUME NEW p \in Ports, NEW b \in Buffers[p] PROVE ~HandleBuffer(p, b)
      BY DEF HandleBuffer, Submit, AllocateBuffer, FreeBuffer, handler
    <2>2. ~SendCommand
      BY SendFrame
    <2>3. ~(QueueBuffer \/ PostCommand \/ SetRealTime \/ Deinit \/ Destroy)
      BY DEF QueueBuffer, PostCommand, SetRealTime, Deinit, Destroy, handler
    <2> QED
      BY <2>1, <2>2, <2>3 DEF Client, SendCommand
  <1>2. ~BufferStep /\ ~UNCHANGED vars
    BY BufferFrame DEF vars, handler
  <1>3. ~(CheckRun \/ Wait \/ Receive \/ NoMoreCommands)
    BY DEF CheckRun, Wait, Receive, NoMoreCommands, handler, CommandInv, Handlers
  <1>4. ~(SameState \/ CompleteStateSet \/ IllegalStateSet \/ FinishIdle \/ FailStateSet \/ FinishLoaded)
    BY DEF SameState, CompleteStateSet, IllegalStateSet, FinishIdle, FailStateSet, FinishLoaded,
       Handling, CommandInv
  <1>5. ~(BeginTransition \/ BeginReturn \/ ClearFlush \/ AwaitDealloc \/ BeginEnable \/ PortEnabled)
    BY DEF BeginTransition, BeginReturn, ClearFlush, AwaitDealloc, BeginEnable, PortEnabled,
       handler, CommandInv
  <1>6. ~(ReturnHeld \/ LockPort \/ ReturnNext \/ ClearQueue)
    BY DEF ReturnHeld, LockPort, ReturnNext, ClearQueue, handler
  <1>7. PortDealloc => Tail(todo) = <<>>
    BY DEF PortDealloc
  <1>8. ~Fault /\ ~ExitOnError
    BY FaultIs, AbortsFrame, PushFrame, PostFrame, ReceiveFrame, ClearFrame, PopFrameIs DEF Aborts
  <1> QED
    BY <1>1, <1>2, <1>3, <1>4, <1>5, <1>6, <1>7, <1>8 DEF Next, ThreadStep, CommandStep

-----------------------------------------------------------------------------
(* The theorems.                                                           *)

\* With a careful client, no call is on its way to a port under command, and a
\* port that async_decoder_return_buffers has visited has nothing queued or held.
THEOREM ReturnInvariant == ASSUME Careful PROVE Spec => [](SubmitInv /\ VisitInv)
  <1>1. Init => SubmitInv /\ VisitInv
    BY DEF Init, SubmitInv, VisitInv, Returning
  <1>2. ThreadInv /\ SubmitInv /\ VisitInv /\ [Next]_vars => SubmitInv' /\ VisitInv'
    BY NextSubmit, NextVisit DEF ThreadInv
  <1> QED
    BY <1>1, <1>2, ThreadInvariant, PTL DEF Spec

\* The assertions of transition_to_loaded_from_idle (decoder.c:4165) hold for every
\* careful client that submits no buffers in Idle, also one that does not await
\* answers, or resubmits from within callbacks.
THEOREM QueuesAreEmpty ==
  ASSUME Careful, "Idle" \notin SubmitStates
  PROVE  Spec => []QueuesEmptyOnUnload
  <1>1. Init => IdleInv
    BY DEF Init, IdleInv
  <1>2. (ThreadInv /\ ChangeInv /\ EmptyInv /\ SubmitInv /\ VisitInv) /\ IdleInv /\ [Next]_vars => IdleInv'
    BY NextIdle
  <1>3. IdleInv => QueuesEmptyOnUnload
    BY DEF IdleInv, QueuesEmptyOnUnload, Drained
  <1>4. Spec => []IdleInv
    BY <1>1, <1>2, ThreadInvariant, EmptyInvariant, ReturnInvariant, PTL DEF Spec
  <1> QED
    BY <1>3, <1>4, PTL

\* With a careful client that awaits each answer, the answer to a flush or a port
\* disable, and the change to Idle, mean that the buffers are back, and freed
\* where the port was disabled (decoder.c:4446, 4615).
THEOREM AnswersMeanReturned ==
  ASSUME Careful, Orderly
  PROVE  Spec => AnswerMeansReturned
  <1> DEFINE
    AllInv == /\ ThreadInv /\ TransitionTracked /\ ChangeInv /\ EmptyInv
              /\ SubmitInv /\ VisitInv /\ SingleInv /\ FreedInv
    Answered ==
      /\ cmd # None /\ cmd' = None =>
           /\ cmd.type = "Flush" => \A p \in Ports : Concerns(cmd.arg, p) => Drained(p)
           /\ cmd.type = "PortDisable" =>
                \A p \in Ports : Concerns(cmd.arg, p) => Drained(p) /\ buffers[p] = {}
      /\ state' = "Idle" /\ state # "Idle" => \A p \in Ports : Drained(p)
  <1>1. Init => SingleInv /\ FreedInv
    BY DEF Init, SingleInv, FreedInv, Pending
  <1>2. ThreadInv /\ TransitionTracked /\ SingleInv /\ FreedInv /\ [Next]_vars => SingleInv' /\ FreedInv'
    BY NextSingle, NextFreed DEF ThreadInv
  <1>3. Spec => [](SingleInv /\ FreedInv)
    BY <1>1, <1>2, ThreadInvariant, TransitionIsTracked, PTL DEF Spec
  <1>4. AllInv /\ [Next]_vars => [Answered]_vars
    <2> SUFFICES ASSUME AllInv, [Next]_vars PROVE Answered
      OBVIOUS
    <2>1. state' = "Idle" /\ state # "Idle" => \A p \in Ports : Drained(p)
      BY EnterIdle
    <2>2. ASSUME cmd # None, cmd' = None, cmd.type \in {"Flush", "PortDisable"}
          PROVE  FinishFlush \/ (PortDealloc /\ Tail(todo) = <<>>)
      BY <2>2, AnswerStep DEF ThreadInv
    <2>3. ASSUME FinishFlush, NEW p \in Ports, Concerns(cmd.arg, p) PROVE Drained(p)
      BY <2>3 DEF FinishFlush, VisitInv, Returning, Ahead, Concerned
    <2>4. ASSUME PortDealloc, Tail(todo) = <<>>, NEW p \in Ports, Concerns(cmd.arg, p)
          PROVE  Drained(p) /\ buffers[p] = {}
      <3>1. /\ pc = "waitFree" /\ cmd.type = "PortDisable" /\ buffers[Head(todo)] = {}
            /\ todo # <<>> /\ todo' = Tail(todo)
        BY <2>4 DEF PortDealloc, ThreadInv, TodoInv
      <3>2. p \notin Ahead'
        <4>1. todo' = <<>> /\ Len(todo') = 0
          BY <2>4, <3>1
        <4> QED
          BY <4>1 DEF Ahead
      <3>3. p = Head(todo) \/ p \notin Ahead
        BY <3>1, <3>2, AheadOfTail DEF ThreadInv
      <3> QED
        BY <2>4, <3>1, <3>3 DEF VisitInv, FreedInv, Concerned
    <2>5. FinishFlush => cmd.type = "Flush"
      BY DEF FinishFlush
    <2>6. PortDealloc => cmd.type = "PortDisable"
      BY DEF PortDealloc
    <2> QED
      BY <2>1, <2>2, <2>3, <2>4, <2>5, <2>6
  <1>5. AnswerMeansReturned <=> [][Answered]_vars
    BY DEF AnswerMeansReturned
  <1> HIDE DEF Answered
  <1> QED
    BY <1>3, <1>4, <1>5, ThreadInvariant, TransitionIsTracked, EmptyInvariant, ReturnInvariant,
       PTL DEF Spec

=============================================================================
