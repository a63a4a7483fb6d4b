------------------------------ MODULE MsgQueue ------------------------------
(***************************************************************************)
(* The command queue of an OMX component (omxil_decoder/source/msgque.c)   *)
(* with the OSAL event that signals it, the threads that post commands     *)
(* (basecomp_send_command), the command loop of the component thread       *)
(* (decoder_thread_main) and the teardown of decoder_deinit                *)
(* (basecomp_destroy, msgque_destroy).  The steps are those of the code:   *)
(* push_back reads q->tail before it takes the mutex, the event is set or  *)
(* reset before the list is changed, all inside the critical section.      *)
(*                                                                         *)
(* Assertions are compiled out here, as they are in the release build;     *)
(* HeadNextIsNull states the one of get_front.                             *)
(***************************************************************************)
EXTENDS Naturals, Sequences

CONSTANTS
  Producers,   \* threads that call OMX SendCommand
  Owner,       \* the producer that also calls DeInit
  Consumer,    \* the component thread
  Nodes,       \* addresses malloc can return for a msg_node
  Null,        \* the null pointer
  Exit,        \* the CMD_EXIT_LOOP command
  MaxSend,     \* bound: commands each producer sends
  FaultyPipe   \* whether write, read or select on the event's pipe may fail

Cmds    == Producers \X (1..MaxSend)
Data    == Cmds \cup {Exit}
Threads == Producers \cup {Consumer}

ASSUME ThreadsAssumption == Owner \in Producers /\ Consumer \notin Producers
ASSUME NullAssumption    == Null \notin Nodes \cup Threads \cup Data
ASSUME ExitAssumption    == Exit \notin Cmds
ASSUME BoundAssumption   == MaxSend \in Nat /\ FaultyPipe \in BOOLEAN

VARIABLES
  head, tail, size,   \* struct msgque
  mutex,              \* the thread that holds q->mutex, or Null
  signaled,           \* the event: one byte is in its pipe
  eventLocked,        \* the event's own mutex, left locked by a pipe failure
  next, prev, data,   \* struct msg_node, by address
  alive,              \* the addresses malloc has given out
  run,                \* OMX_DECODER.run
  pc, node, sent,     \* per thread: position, local node, commands sent
  got,                \* what the latest get_front returned to the component
  chain               \* history: the linked nodes, oldest first

queue == <<head, tail, size, signaled, eventLocked, chain>>
heap  == <<next, prev, data, alive>>
vars  == <<head, tail, size, mutex, signaled, eventLocked, next, prev, data, alive,
           run, pc, node, sent, got, chain>>

Goto(t, label) == pc' = [pc EXCEPT ![t] = label]

Init ==
  /\ head = Null /\ tail = Null /\ size = 0
  /\ mutex = Null /\ signaled = FALSE /\ eventLocked = FALSE
  /\ next = [n \in Nodes |-> Null]
  /\ prev = [n \in Nodes |-> Null]
  /\ data = [n \in Nodes |-> Exit]
  /\ alive = {}
  /\ run = TRUE
  /\ pc = [t \in Threads |-> IF t = Consumer THEN "loop" ELSE "idle"]
  /\ node = [p \in Producers |-> Null]
  /\ sent = [p \in Producers |-> 0]
  /\ got = Null
  /\ chain = <<>>

-----------------------------------------------------------------------------
(* push_back, called by basecomp_send_command.                             *)

\* malloc and the initialisation of the node; q->tail is read without the mutex.
Allocate(p, n, d) ==
  /\ alive' = alive \cup {n}
  /\ next' = [next EXCEPT ![n] = tail]
  /\ prev' = [prev EXCEPT ![n] = Null]
  /\ data' = [data EXCEPT ![n] = d]
  /\ node' = [node EXCEPT ![p] = n]

Send(p) ==
  /\ pc[p] = "idle" /\ sent[p] < MaxSend
  /\ \E n \in Nodes \ alive : Allocate(p, n, <<p, sent[p] + 1>>)
  /\ sent' = [sent EXCEPT ![p] = @ + 1]
  /\ Goto(p, "lock")
  /\ UNCHANGED <<queue, mutex, run, got>>

\* decoder_deinit: stop the loop, post CMD_EXIT_LOOP.
Deinit ==
  /\ pc[Owner] = "idle"
  /\ run' = FALSE
  /\ \E n \in Nodes \ alive : Allocate(Owner, n, Exit)
  /\ Goto(Owner, "lock")
  /\ UNCHANGED <<queue, mutex, sent, got>>

\* Mutant of LockPush: the mutex is taken without waiting for it.
LockPushNoWait(p) ==
  /\ pc[p] = "lock"
  /\ mutex' = p
  /\ Goto(p, "signal")
  /\ UNCHANGED <<queue, heap, run, node, sent, got>>

LockPush(p) ==
  /\ pc[p] = "lock" /\ mutex = Null
  /\ mutex' = p
  /\ Goto(p, "signal")
  /\ UNCHANGED <<queue, heap, run, node, sent, got>>

\* Mutant of Signal: the event is set when the first command is there already.
SignalLate(p) ==
  /\ pc[p] = "signal" /\ (size = 0 => ~eventLocked)
  /\ signaled' = (signaled \/ size = 1)
  /\ Goto(p, "link")
  /\ UNCHANGED <<head, tail, size, eventLocked, chain, mutex, heap, run, node, sent, got>>

\* OSAL_EventSet, before the list is changed; it waits for the event's mutex.
Signal(p) ==
  /\ pc[p] = "signal" /\ (size = 0 => ~eventLocked)
  /\ signaled' = (signaled \/ size = 0)
  /\ Goto(p, "link")
  /\ UNCHANGED <<head, tail, size, eventLocked, chain, mutex, heap, run, node, sent, got>>

AfterSend(p) == IF data[node[p]] = Exit THEN "join" ELSE "idle"

\* write() on the pipe failed: unlock and return the error.  The node is not
\* freed, and OSAL_EventSet returned without unlocking the event's mutex.
SignalFails(p) ==
  /\ FaultyPipe
  /\ pc[p] = "signal" /\ size = 0 /\ ~signaled /\ ~eventLocked
  /\ eventLocked' = TRUE
  /\ mutex' = Null
  /\ Goto(p, AfterSend(p))
  /\ node' = [node EXCEPT ![p] = Null]
  /\ UNCHANGED <<head, tail, size, signaled, chain, heap, run, sent, got>>

Link(p) ==
  /\ pc[p] = "link"
  /\ size' = size + 1
  /\ prev' = IF tail # Null THEN [prev EXCEPT ![tail] = node[p]] ELSE prev
  /\ tail' = node[p]
  /\ head' = IF head = Null THEN node[p] ELSE head
  /\ chain' = Append(chain, node[p])
  /\ mutex' = Null
  /\ Goto(p, AfterSend(p))
  /\ node' = [node EXCEPT ![p] = Null]
  /\ UNCHANGED <<signaled, eventLocked, next, data, alive, run, sent, got>>

-----------------------------------------------------------------------------
(* The component thread: decoder_thread_main and get_front.                *)


CheckRun ==
  /\ pc[Consumer] = "loop"
  /\ Goto(Consumer, IF run THEN "wait" ELSE "exited")
  /\ UNCHANGED <<queue, mutex, heap, run, node, sent, got>>

\* EventWaitMultiple returns with the command queue's event signalled.
WakeUp ==
  /\ pc[Consumer] = "wait" /\ signaled
  /\ Goto(Consumer, "lock")
  /\ UNCHANGED <<queue, mutex, heap, run, node, sent, got>>

\* It returns for a buffer event only; a port's buffer is processed.
WakeUpForBuffer ==
  /\ pc[Consumer] = "wait" /\ ~signaled
  /\ Goto(Consumer, "loop")
  /\ UNCHANGED <<queue, mutex, heap, run, node, sent, got>>

\* select fails: the thread leaves its loop, although run is TRUE.
WaitFails ==
  /\ FaultyPipe
  /\ pc[Consumer] = "wait"
  /\ Goto(Consumer, "exited")
  /\ UNCHANGED <<queue, mutex, heap, run, node, sent, got>>

LockPop ==
  /\ pc[Consumer] = "lock" /\ mutex = Null
  /\ mutex' = Consumer
  /\ Goto(Consumer, "reset")
  /\ UNCHANGED <<queue, heap, run, node, sent, got>>

\* Mutant of Reset: the event is reset by every get_front.
ResetAlways ==
  /\ pc[Consumer] = "reset" /\ (size = 1 => ~eventLocked)
  /\ signaled' = FALSE
  /\ Goto(Consumer, "pop")
  /\ UNCHANGED <<head, tail, size, eventLocked, chain, mutex, heap, run, node, sent, got>>

Reset ==
  /\ pc[Consumer] = "reset" /\ (size = 1 => ~eventLocked)
  /\ signaled' = (signaled /\ size # 1)
  /\ Goto(Consumer, "pop")
  /\ UNCHANGED <<head, tail, size, eventLocked, chain, mutex, heap, run, node, sent, got>>

\* read() on the pipe failed: try_recv_command fails and the loop is left, with
\* the event's mutex locked.
ResetFails ==
  /\ FaultyPipe
  /\ pc[Consumer] = "reset" /\ size = 1 /\ signaled /\ ~eventLocked
  /\ eventLocked' = TRUE
  /\ mutex' = Null
  /\ run' = FALSE
  /\ Goto(Consumer, "exited")
  /\ UNCHANGED <<head, tail, size, signaled, chain, heap, node, sent, got>>

\* Mutants of PopEmpty: size is decremented here too; one command counts as none.
PopEmptyDecrements ==
  /\ pc[Consumer] = "pop" /\ size = 0
  /\ got' = Null
  /\ size' = size - 1
  /\ mutex' = Null
  /\ Goto(Consumer, "loop")
  /\ UNCHANGED <<head, tail, signaled, eventLocked, chain, heap, run, node, sent>>

PopEmptyOffByOne ==
  /\ pc[Consumer] = "pop" /\ size <= 1
  /\ got' = Null
  /\ mutex' = Null
  /\ Goto(Consumer, "loop")
  /\ UNCHANGED <<queue, heap, run, node, sent>>

PopEmpty ==
  /\ pc[Consumer] = "pop" /\ size = 0
  /\ got' = Null
  /\ mutex' = Null
  /\ Goto(Consumer, "loop")
  /\ UNCHANGED <<queue, heap, run, node, sent>>

\* Mutant of Pop: the tail still points to the node when the list is empty.
PopKeepsTail ==
  /\ pc[Consumer] = "pop" /\ size # 0
  /\ got' = data[head]
  /\ head' = prev[head]
  /\ size' = size - 1
  /\ next' = IF prev[head] # Null THEN [next EXCEPT ![prev[head]] = Null] ELSE next
  /\ alive' = alive \ {head}
  /\ chain' = Tail(chain)
  /\ mutex' = Null
  /\ Goto(Consumer, "dispatch")
  /\ UNCHANGED <<tail, signaled, eventLocked, prev, data, run, node, sent>>

Pop ==
  /\ pc[Consumer] = "pop" /\ size # 0
  /\ got' = data[head]
  /\ head' = prev[head]
  /\ size' = size - 1
  /\ next' = IF prev[head] # Null THEN [next EXCEPT ![prev[head]] = Null] ELSE next
  /\ tail' = IF prev[head] # Null THEN tail ELSE Null
  /\ alive' = alive \ {head}
  /\ chain' = Tail(chain)
  /\ mutex' = Null
  /\ Goto(Consumer, "dispatch")
  /\ UNCHANGED <<signaled, eventLocked, prev, data, run, node, sent>>

\* The handler returns; it may have driven the component to Invalid (run = FALSE).
Dispatch ==
  /\ pc[Consumer] = "dispatch"
  /\ IF got = Exit
       THEN run' = FALSE /\ Goto(Consumer, "loop")
       ELSE run' \in {run, FALSE} /\ Goto(Consumer, "lock")
  /\ UNCHANGED <<queue, mutex, heap, node, sent, got>>

-----------------------------------------------------------------------------
(* basecomp_destroy: the thread is joined, then msgque_destroy frees the   *)
(* list by walking next from the tail.  The other threads no longer call   *)
(* into the component.                                                     *)

Join ==
  /\ pc[Owner] = "join" /\ pc[Consumer] = "exited"
  /\ \A p \in Producers \ {Owner} : pc[p] = "idle"
  /\ pc' = [t \in Threads |-> IF t = Owner THEN "free"
                              ELSE IF t = Consumer THEN "exited" ELSE "gone"]
  /\ UNCHANGED <<queue, mutex, heap, run, node, sent, got>>

FreeTail ==
  /\ pc[Owner] = "free" /\ tail \in alive
  /\ alive' = alive \ {tail}
  /\ tail' = next[tail]
  /\ UNCHANGED <<head, size, signaled, eventLocked, chain, mutex, next, prev, data, run, pc, node, sent, got>>

\* q->tail->next is read from a node that was freed: anything may follow.
UseAfterFree ==
  /\ pc[Owner] = "free" /\ tail \notin alive \cup {Null}
  /\ Goto(Owner, "crashed")
  /\ UNCHANGED <<queue, mutex, heap, run, node, sent, got>>

\* OSAL_EventDestroy locks the event's mutex too.
Destroyed ==
  /\ pc[Owner] = "free" /\ tail = Null /\ ~eventLocked
  /\ Goto(Owner, "gone")
  /\ UNCHANGED <<queue, mutex, heap, run, node, sent, got>>

-----------------------------------------------------------------------------
Push(p)  == Send(p) \/ LockPush(p) \/ Signal(p) \/ SignalFails(p) \/ Link(p)
Loop     == \/ CheckRun \/ WakeUp \/ WakeUpForBuffer \/ WaitFails \/ LockPop \/ Reset
            \/ ResetFails \/ PopEmpty \/ Pop \/ Dispatch
Teardown == Deinit \/ Join \/ FreeTail \/ UseAfterFree \/ Destroyed

Next == (\E p \in Producers : Push(p)) \/ Loop \/ Teardown

Spec == Init /\ [][Next]_vars

(* The scheduler runs every thread that can run; a thread that waits for a *)
(* free mutex gets it.  Nobody is obliged to send, to deinitialise or to   *)
(* deliver buffer events.                                                  *)
Fairness ==
  /\ \A p \in Producers : WF_vars(LockPush(p) \/ Signal(p) \/ Link(p))
  /\ WF_vars(CheckRun \/ WakeUp \/ LockPop \/ Reset \/ PopEmpty \/ Pop \/ Dispatch)
  /\ WF_vars(Join \/ FreeTail \/ Destroyed)

FairSpec == Spec /\ Fairness

-----------------------------------------------------------------------------
(* Properties.                                                             *)

Labels == {"idle", "lock", "signal", "link", "join", "free", "gone", "crashed",
           "loop", "wait", "reset", "pop", "dispatch", "exited"}

InCriticalSection(t) == pc[t] \in {"signal", "link", "reset", "pop"}
HasNode(p)           == pc[p] \in {"lock", "signal", "link"}
TornDown             == pc[Owner] \in {"free", "gone", "crashed"}

TypeOK ==
  /\ head \in Nodes \cup {Null} /\ tail \in Nodes \cup {Null} /\ size \in Nat
  /\ mutex \in Threads \cup {Null} /\ {signaled, eventLocked} \subseteq BOOLEAN
  /\ next \in [Nodes -> Nodes \cup {Null}] /\ prev \in [Nodes -> Nodes \cup {Null}]
  /\ data \in [Nodes -> Data] /\ alive \in SUBSET Nodes
  /\ run \in BOOLEAN /\ pc \in [Threads -> Labels]
  /\ node \in [Producers -> Nodes \cup {Null}] /\ sent \in [Producers -> 0..MaxSend]
  /\ got \in Data \cup {Null} /\ chain \in Seq(Nodes)

(* At most one thread is between lock and unlock of q->mutex, and it is    *)
(* the one recorded as its holder.                                         *)
MutexInv == \A t \in Threads : mutex = t <=> InCriticalSection(t)

(* Nobody else can reach the node a producer is about to link.             *)
NodeInv ==
  /\ \A p \in Producers : HasNode(p) =>
       /\ node[p] \in alive /\ prev[node[p]] = Null
       /\ \A i \in 1..Len(chain) : chain[i] # node[p]
  /\ \A p, r \in Producers : HasNode(p) /\ HasNode(r) /\ node[p] = node[r] => p = r

(* The list that get_front walks from head through prev holds exactly the  *)
(* linked nodes, oldest first, each still allocated, and size counts them, *)
(* whatever the stale next pointers say.                                   *)
ListInv ==
  ~TornDown =>
    /\ size = Len(chain)
    /\ \A i \in 1..Len(chain) : chain[i] \in alive
    /\ \A i, j \in 1..Len(chain) : chain[i] = chain[j] => i = j
    /\ \A i \in 1..Len(chain) :
         prev[chain[i]] = IF i = Len(chain) THEN Null ELSE chain[i + 1]
    /\ head = IF chain = <<>> THEN Null ELSE chain[1]
    /\ tail = IF chain = <<>> THEN Null ELSE chain[Len(chain)]

(* No wake-up is lost and none is spurious: whenever the mutex is free the *)
(* event is signalled if and only if a command is queued, even when a pipe *)
(* operation failed ("commit/rollback semantics", msgque.h).               *)
EventTellsSize == mutex = Null => (signaled <=> size > 0)

(* The same fact at each point of the critical sections.                   *)
EventInv ==
  /\ \A t \in Threads : pc[t] \in {"signal", "reset"} => (signaled <=> size > 0)
  /\ \A t \in Threads : pc[t] = "link" => signaled
  /\ \A t \in Threads : pc[t] = "pop" => (signaled <=> size > 1)

(* Teardown starts when no other thread is inside the component.           *)
TeardownInv ==
  TornDown => \A t \in Threads \ {Owner} : pc[t] \in {"exited", "gone"}

IInv == TypeOK /\ MutexInv /\ NodeInv /\ ListInv /\ EventTellsSize /\ EventInv /\ TeardownInv

(* The linked list implements the FIFO of CommandQueue: what SendCommand   *)
(* accepted is received once, in order, and "nothing" only when empty.     *)
Abstract == INSTANCE CommandQueue WITH
  Data <- Data, Nothing <- Null, got <- got,
  q <- [i \in 1..Len(chain) |-> data[chain[i]]]
ImplementsFifo == Abstract!AbsSpec

Queued(c) == \E i \in 1..Len(chain) : data[chain[i]] = c

(* A command that was accepted while the loop runs is received, unless the *)
(* component went Invalid or was deinitialised in between; or select       *)
(* failed, after which the thread is gone; or a failed pipe operation left *)
(* the event's mutex locked (OSAL.c:657, 682), after which every push and  *)
(* pop that changes the event hangs.                                       *)
AcceptedIsReceived ==
  \A c \in Cmds : Queued(c) /\ run ~> got = c \/ ~run \/ eventLocked \/ pc[Consumer] = "exited"


(* The assertion of get_front (msgque.c:140): the oldest node has no next. *)
HeadNextIsNull == pc[Consumer] = "pop" /\ size # 0 => next[head] = Null
=============================================================================
