--------------------------- MODULE MsgQueueProofs ---------------------------
(***************************************************************************)
(* Proofs about MsgQueue: the inductive invariant IInv holds for any set   *)
(* of producers, any heap and any number of commands, with or without      *)
(* failing pipe operations.                                                *)
(***************************************************************************)
EXTENDS MsgQueue, TLAPS

\* The initial state satisfies the invariant.
LEMMA InitIInv == Init => IInv
  <1> SUFFICES ASSUME Init PROVE IInv
    OBVIOUS
  <1> USE DEF Init
  <1>1. TypeOK
    <2>1. signaled \in BOOLEAN /\ run \in BOOLEAN
      OBVIOUS
    <2>2. data \in [Nodes -> Data] /\ got \in Data \cup {Null}
      BY DEF Data
    <2>3. pc \in [Threads -> Labels]
      BY DEF Labels
    <2>4. chain \in Seq(Nodes) /\ sent \in [Producers -> 0..MaxSend] /\ size \in Nat
      BY BoundAssumption
    <2> QED
      BY <2>1, <2>2, <2>3, <2>4 DEF TypeOK
  <1>2. MutexInv
    BY NullAssumption, ThreadsAssumption DEF MutexInv, InCriticalSection, Threads
  <1>3. NodeInv
    BY ThreadsAssumption DEF NodeInv, HasNode, Threads
  <1>4. ListInv
    BY DEF ListInv
  <1>5. EventTellsSize /\ EventInv
    <2>1. ~(size > 0) /\ ~signaled
      OBVIOUS
    <2>2. \A t \in Threads : pc[t] \notin {"signal", "reset"} /\ pc[t] # "link" /\ pc[t] # "pop"
      OBVIOUS
    <2> HIDE DEF Init
    <2> QED
      BY <2>1, <2>2 DEF EventTellsSize, EventInv
  <1>6. TeardownInv
    BY ThreadsAssumption DEF TeardownInv, TornDown, Threads
  <1> QED
    BY <1>1, <1>2, <1>3, <1>4, <1>5, <1>6 DEF IInv

-----------------------------------------------------------------------------
(* Producer steps. *)

\* Setting up a node outside the list preserves the invariant, for Send and Deinit.
LEMMA AllocateInv ==
  ASSUME IInv, NEW p \in Producers, NEW n \in Nodes \ alive, NEW d \in Data,
         pc[p] = "idle", Allocate(p, n, d), Goto(p, "lock"),
         run' \in BOOLEAN, sent' \in [Producers -> 0..MaxSend],
         UNCHANGED <<queue, mutex, got>>
  PROVE  IInv'
  <1> USE DEF IInv, Allocate, Goto, queue
  <1>1. TypeOK'
    BY DEF TypeOK, Threads, Labels
  <1>2. MutexInv'
    BY DEF TypeOK, MutexInv, InCriticalSection, Threads
  <1>3. ~TornDown
    BY DEF TeardownInv, TornDown, Threads, TypeOK
  <1>4. ~TornDown'
    BY <1>3, ThreadsAssumption DEF TornDown, Threads, TypeOK
  <1>5. \A i \in 1..Len(chain) : chain[i] \in Nodes /\ chain[i] # n
    BY <1>3 DEF ListInv, TypeOK
  <1>6. ListInv'
    BY <1>3, <1>5 DEF ListInv, TypeOK
  <1>7. NodeInv'
    BY <1>5, NullAssumption DEF NodeInv, HasNode, TypeOK, Threads
  <1>8. EventTellsSize' /\ EventInv'
    BY DEF EventTellsSize, EventInv, TypeOK
  <1>9. TeardownInv'
    BY <1>4 DEF TeardownInv
  <1> QED
    BY <1>1, <1>2, <1>6, <1>7, <1>8, <1>9

\* Send preserves the invariant.
LEMMA SendInv ==
  ASSUME IInv, NEW p \in Producers, Send(p)
  PROVE  IInv'
  <1>1. PICK n \in Nodes \ alive : Allocate(p, n, <<p, sent[p] + 1>>)
    BY DEF Send
  <1>2. sent[p] + 1 \in 1..MaxSend /\ sent' \in [Producers -> 0..MaxSend]
    BY BoundAssumption DEF Send, IInv, TypeOK
  <1>3. <<p, sent[p] + 1>> \in Data
    BY <1>2 DEF Data, Cmds
  <1>4. run' \in BOOLEAN
    BY DEF Send, IInv, TypeOK
  <1> QED
    BY <1>1, <1>2, <1>3, <1>4, AllocateInv DEF Send

\* Deinit preserves the invariant.
LEMMA DeinitInv ==
  ASSUME IInv, Deinit
  PROVE  IInv'
  <1>1. PICK n \in Nodes \ alive : Allocate(Owner, n, Exit)
    BY DEF Deinit
  <1>2. Exit \in Data /\ Owner \in Producers
    BY ThreadsAssumption DEF Data
  <1>3. run' \in BOOLEAN /\ sent' \in [Producers -> 0..MaxSend]
    BY DEF Deinit, IInv, TypeOK
  <1> QED
    BY <1>1, <1>2, <1>3, AllocateInv DEF Deinit

\* LockPush preserves the invariant.
LEMMA LockPushInv ==
  ASSUME IInv, NEW p \in Producers, LockPush(p)
  PROVE  IInv'
  <1> USE DEF IInv, LockPush, Goto, queue, heap
  <1>1. TypeOK'
    BY DEF TypeOK, Threads, Labels
  <1>2. MutexInv'
    BY NullAssumption DEF TypeOK, MutexInv, InCriticalSection, Threads
  <1>3. ~TornDown /\ ~TornDown'
    BY ThreadsAssumption DEF TeardownInv, TornDown, Threads, TypeOK
  <1>4. ListInv'
    BY <1>3 DEF ListInv
  <1>5. NodeInv'
    BY DEF NodeInv, HasNode, TypeOK, Threads
  <1>6. EventTellsSize' /\ EventInv'
    BY NullAssumption DEF EventTellsSize, EventInv, TypeOK, Threads
  <1>7. TeardownInv'
    BY <1>3 DEF TeardownInv
  <1> QED
    BY <1>1, <1>2, <1>4, <1>5, <1>6, <1>7

\* Signal preserves the invariant.
LEMMA SignalInv ==
  ASSUME IInv, NEW p \in Producers, Signal(p)
  PROVE  IInv'
  <1> USE DEF IInv, Signal, Goto, queue, heap
  <1>1. TypeOK'
    BY DEF TypeOK, Threads, Labels
  <1>2. MutexInv'
    BY DEF TypeOK, MutexInv, InCriticalSection, Threads
  <1>3. ~TornDown /\ ~TornDown'
    BY ThreadsAssumption DEF TeardownInv, TornDown, Threads, TypeOK
  <1>4. ListInv'
    BY <1>3 DEF ListInv
  <1>5. NodeInv'
    BY DEF NodeInv, HasNode, TypeOK, Threads
  <1>6. mutex = p /\ mutex' = p /\ p # Null
    BY NullAssumption DEF MutexInv, InCriticalSection, Threads
  <1>7. EventTellsSize'
    BY <1>6 DEF EventTellsSize
  <1>8. signaled' /\ \A t \in Threads : t # p => ~InCriticalSection(t)'
    <2>1. signaled <=> size > 0
      BY DEF EventInv, Threads
    <2>2. size > 0 \/ size = 0
      BY DEF TypeOK
    <2>3. signaled' = (signaled \/ size = 0)
      OBVIOUS
    <2>4. \A t \in Threads : t # p => ~InCriticalSection(t)'
      BY <1>6, <1>2 DEF MutexInv
    <2> HIDE DEF Signal
    <2> QED
      BY <2>1, <2>2, <2>3, <2>4
  <1>9. EventInv'
    BY <1>8 DEF EventInv, InCriticalSection, TypeOK, Threads
  <1>10. TeardownInv'
    BY <1>3 DEF TeardownInv
  <1> QED
    BY <1>1, <1>2, <1>4, <1>5, <1>7, <1>9, <1>10

\* SignalFails preserves the invariant.
LEMMA SignalFailsInv ==
  ASSUME IInv, NEW p \in Producers, SignalFails(p)
  PROVE  IInv'
  <1> USE DEF IInv, SignalFails, Goto, queue, heap, AfterSend
  <1>1. TypeOK'
    BY DEF TypeOK, Threads, Labels
  <1>2. MutexInv'
    BY NullAssumption DEF TypeOK, MutexInv, InCriticalSection, Threads
  <1>3. ~TornDown /\ ~TornDown'
    BY ThreadsAssumption DEF TeardownInv, TornDown, Threads, TypeOK
  <1>4. ListInv'
    BY <1>3 DEF ListInv
  <1>5. NodeInv'
    BY DEF NodeInv, HasNode, TypeOK, Threads
  <1>6. EventTellsSize'
    <2>1. ~signaled' /\ ~(size' > 0)
      OBVIOUS
    <2> HIDE DEF SignalFails
    <2> QED
      BY <2>1 DEF EventTellsSize
  <1>7. EventInv'
    BY DEF EventInv, TypeOK, Threads
  <1>8. TeardownInv'
    BY <1>3 DEF TeardownInv
  <1> QED
    BY <1>1, <1>2, <1>4, <1>5, <1>6, <1>7, <1>8

\* Link preserves the invariant.
LEMMA LinkInv ==
  ASSUME IInv, NEW p \in Producers, Link(p)
  PROVE  IInv'
  <1> USE DEF IInv, Link, Goto, AfterSend
  <1> DEFINE n == node[p]
  <1>1. n \in Nodes /\ n \in alive /\ prev[n] = Null /\ n # Null
        /\ \A i \in 1..Len(chain) : chain[i] # n
    BY NullAssumption DEF NodeInv, HasNode, TypeOK
  <1>2. TypeOK'
    BY <1>1 DEF TypeOK, Threads, Labels
  <1>3. MutexInv'
    BY NullAssumption DEF TypeOK, MutexInv, InCriticalSection, Threads
  <1>4. ~TornDown /\ ~TornDown'
    BY ThreadsAssumption DEF TeardownInv, TornDown, Threads, TypeOK
  <1>5. chain' = Append(chain, n) /\ Len(chain') = Len(chain) + 1 /\ chain'[Len(chain) + 1] = n
        /\ \A i \in 1..Len(chain) : chain'[i] = chain[i]
    BY <1>1 DEF TypeOK
  <1>6. ListInv'
    <2>1. size' = Len(chain')
      BY <1>4, <1>5 DEF ListInv
    <2>2. \A i \in 1..Len(chain') : chain'[i] \in alive'
      BY <1>1, <1>4, <1>5 DEF ListInv, TypeOK
    <2>3. \A i, j \in 1..Len(chain') : chain'[i] = chain'[j] => i = j
      BY <1>1, <1>4, <1>5 DEF ListInv, TypeOK
    <2>4. ASSUME NEW i \in 1..Len(chain')
          PROVE  prev'[chain'[i]] = IF i = Len(chain') THEN Null ELSE chain'[i + 1]
      <3>1. CASE chain = <<>>
        BY <3>1, <1>1, <1>4, <1>5 DEF ListInv, TypeOK
      <3>2. CASE chain # <<>> /\ i = Len(chain')
        BY <3>2, <1>1, <1>4, <1>5 DEF ListInv, TypeOK
      <3>3. CASE chain # <<>> /\ i = Len(chain)
        BY <3>3, <1>1, <1>4, <1>5, NullAssumption DEF ListInv, TypeOK
      <3>4. CASE chain # <<>> /\ i < Len(chain)
        BY <3>4, <1>1, <1>4, <1>5 DEF ListInv, TypeOK
      <3> QED
        BY <3>1, <3>2, <3>3, <3>4, <1>5 DEF TypeOK
    <2>5. head' = IF chain' = <<>> THEN Null ELSE chain'[1]
      BY <1>1, <1>4, <1>5, NullAssumption DEF ListInv, TypeOK
    <2>6. tail' = IF chain' = <<>> THEN Null ELSE chain'[Len(chain')]
      BY <1>1, <1>4, <1>5 DEF ListInv, TypeOK
    <2> QED
      BY <2>1, <2>2, <2>3, <2>4, <2>5, <2>6 DEF ListInv
  <1>7. NodeInv'
    <2>1. \A r \in Producers : HasNode(r)' => HasNode(r) /\ r # p /\ node'[r] = node[r] /\ node[r] # n
      BY DEF NodeInv, HasNode, TypeOK, Threads
    <2>2. tail = Null \/ \A r \in Producers : HasNode(r) => node[r] # tail
      BY <1>4 DEF ListInv, NodeInv, TypeOK
    <2>3. \A r \in Producers : HasNode(r)' => prev'[node[r]] = Null
      BY <2>1, <2>2, <1>1 DEF NodeInv, TypeOK
    <2>4. \A r \in Producers : HasNode(r)' =>
            node'[r] \in alive' /\ \A i \in 1..Len(chain') : chain'[i] # node'[r]
      BY <2>1, <1>5 DEF NodeInv, TypeOK
    <2> QED
      BY <2>1, <2>3, <2>4 DEF NodeInv
  <1>8. signaled /\ signaled' /\ size' > 0
    BY DEF EventInv, TypeOK, Threads
  <1>9. EventTellsSize'
    BY <1>8 DEF EventTellsSize
  <1>10. \A t \in Threads : ~InCriticalSection(t)'
    BY NullAssumption, <1>3 DEF MutexInv, Threads
  <1>11. EventInv'
    BY <1>10 DEF EventInv, InCriticalSection
  <1>12. TeardownInv'
    BY <1>4 DEF TeardownInv
  <1> QED
    BY <1>2, <1>3, <1>6, <1>7, <1>9, <1>11, <1>12

-----------------------------------------------------------------------------
(* Steps of the component thread. *)

\* A step of the thread loop that touches neither list nor mutex preserves the invariant.
LEMMA QuietStepInv ==
  ASSUME IInv, pc[Consumer] \in {"loop", "wait", "dispatch"},
         NEW label \in {"loop", "wait", "lock", "exited"}, Goto(Consumer, label),
         run' \in BOOLEAN, UNCHANGED <<queue, mutex, heap, node, sent, got>>
  PROVE  IInv'
  <1> USE DEF IInv, Goto, queue, heap
  <1>1. TypeOK'
    BY DEF TypeOK, Threads, Labels
  <1>2. MutexInv'
    BY DEF TypeOK, MutexInv, InCriticalSection, Threads
  <1>3. ~TornDown /\ ~TornDown'
    BY ThreadsAssumption DEF TeardownInv, TornDown, Threads, TypeOK
  <1>4. ListInv'
    BY <1>3 DEF ListInv
  <1>5. NodeInv'
    BY ThreadsAssumption DEF NodeInv, HasNode, TypeOK, Threads
  <1>6. EventTellsSize' /\ EventInv'
    BY DEF EventTellsSize, EventInv, TypeOK, Threads
  <1>7. TeardownInv'
    BY <1>3 DEF TeardownInv
  <1> QED
    BY <1>1, <1>2, <1>4, <1>5, <1>6, <1>7

\* LockPop preserves the invariant.
LEMMA LockPopInv ==
  ASSUME IInv, LockPop
  PROVE  IInv'
  <1> USE DEF IInv, LockPop, Goto, queue, heap
  <1>1. TypeOK'
    BY DEF TypeOK, Threads, Labels
  <1>2. MutexInv'
    BY NullAssumption DEF TypeOK, MutexInv, InCriticalSection, Threads
  <1>3. ~TornDown /\ ~TornDown'
    BY ThreadsAssumption DEF TeardownInv, TornDown, Threads, TypeOK
  <1>4. ListInv'
    BY <1>3 DEF ListInv
  <1>5. NodeInv'
    BY ThreadsAssumption DEF NodeInv, HasNode, TypeOK, Threads
  <1>6. EventTellsSize' /\ EventInv'
    BY NullAssumption DEF EventTellsSize, EventInv, TypeOK, Threads
  <1>7. TeardownInv'
    BY <1>3 DEF TeardownInv
  <1> QED
    BY <1>1, <1>2, <1>4, <1>5, <1>6, <1>7

\* Reset preserves the invariant.
LEMMA ResetInv ==
  ASSUME IInv, Reset
  PROVE  IInv'
  <1> USE DEF IInv, Reset, Goto, queue, heap
  <1>1. TypeOK'
    BY DEF TypeOK, Threads, Labels
  <1>2. MutexInv'
    BY DEF TypeOK, MutexInv, InCriticalSection, Threads
  <1>3. ~TornDown /\ ~TornDown'
    BY ThreadsAssumption DEF TeardownInv, TornDown, Threads, TypeOK
  <1>4. ListInv'
    BY <1>3 DEF ListInv
  <1>5. NodeInv'
    BY ThreadsAssumption DEF NodeInv, HasNode, TypeOK, Threads
  <1>6. mutex = Consumer /\ mutex' = Consumer /\ Consumer # Null
    BY NullAssumption DEF MutexInv, InCriticalSection, Threads
  <1>7. EventTellsSize'
    BY <1>6 DEF EventTellsSize
  <1>8. \A t \in Threads : t # Consumer => ~InCriticalSection(t)'
    BY <1>6, <1>2 DEF MutexInv
  <1>9. size \in Nat /\ (size > 1 <=> size > 0 /\ size # 1)
    BY DEF TypeOK
  <1>10. signaled <=> size > 0
    BY DEF EventInv, Threads
  <1>11. signaled' <=> size' > 1
    <2>1. size' = size /\ signaled' = (signaled /\ size # 1)
      OBVIOUS
    <2> HIDE DEF Reset
    <2> QED
      BY <2>1, <1>9, <1>10
  <1>12. \A t \in Threads : pc'[t] \notin {"signal", "reset", "link"}
    BY <1>8 DEF InCriticalSection, TypeOK, Threads
  <1>13. EventInv'
    BY <1>11, <1>12 DEF EventInv
  <1>14. TeardownInv'
    BY <1>3 DEF TeardownInv
  <1> QED
    BY <1>1, <1>2, <1>4, <1>5, <1>7, <1>13, <1>14

\* ResetFails preserves the invariant.
LEMMA ResetFailsInv ==
  ASSUME IInv, ResetFails
  PROVE  IInv'
  <1> USE DEF IInv, ResetFails, Goto, queue, heap
  <1>1. TypeOK'
    BY DEF TypeOK, Threads, Labels
  <1>2. MutexInv'
    BY NullAssumption DEF TypeOK, MutexInv, InCriticalSection, Threads
  <1>3. ~TornDown /\ ~TornDown'
    BY ThreadsAssumption DEF TeardownInv, TornDown, Threads, TypeOK
  <1>4. ListInv'
    BY <1>3 DEF ListInv
  <1>5. NodeInv'
    BY ThreadsAssumption DEF NodeInv, HasNode, TypeOK, Threads
  <1>6. EventTellsSize'
    <2>1. signaled' /\ size' > 0
      OBVIOUS
    <2> HIDE DEF ResetFails
    <2> QED
      BY <2>1 DEF EventTellsSize
  <1>7. EventInv'
    BY DEF EventInv, TypeOK, Threads
  <1>8. TeardownInv'
    BY <1>3 DEF TeardownInv
  <1> QED
    BY <1>1, <1>2, <1>4, <1>5, <1>6, <1>7, <1>8

\* PopEmpty preserves the invariant.
LEMMA PopEmptyInv ==
  ASSUME IInv, PopEmpty
  PROVE  IInv'
  <1> USE DEF IInv, PopEmpty, Goto, queue, heap
  <1>1. TypeOK'
    BY DEF TypeOK, Threads, Labels
  <1>2. MutexInv'
    BY NullAssumption DEF TypeOK, MutexInv, InCriticalSection, Threads
  <1>3. ~TornDown /\ ~TornDown'
    BY ThreadsAssumption DEF TeardownInv, TornDown, Threads, TypeOK
  <1>4. ListInv'
    BY <1>3 DEF ListInv
  <1>5. NodeInv'
    BY ThreadsAssumption DEF NodeInv, HasNode, TypeOK, Threads
  <1>6. ~(size > 1) /\ ~(size' > 0) /\ signaled' = signaled
    OBVIOUS
  <1>7. signaled <=> size > 1
    BY DEF EventInv, Threads
  <1>8. EventTellsSize'
    BY <1>6, <1>7 DEF EventTellsSize
  <1>9. \A t \in Threads : ~InCriticalSection(t)'
    BY NullAssumption, <1>2 DEF MutexInv, Threads
  <1>10. EventInv'
    BY <1>9 DEF EventInv, InCriticalSection
  <1>11. TeardownInv'
    BY <1>3 DEF TeardownInv
  <1> QED
    BY <1>1, <1>2, <1>4, <1>5, <1>8, <1>10, <1>11

\* Pop preserves the invariant.
LEMMA PopInv ==
  ASSUME IInv, Pop
  PROVE  IInv'
  <1> USE DEF IInv, Pop, Goto
  <1>1. /\ ~TornDown /\ ~TornDown'
        /\ \A t \in Threads : pc[t] # "pop" => pc'[t] = pc[t]
        /\ \A t \in Threads : pc'[t] \in Labels
    BY ThreadsAssumption DEF TeardownInv, TornDown, Threads, TypeOK, Labels
  <1>2. chain # <<>> /\ Len(chain) \in Nat \ {0} /\ head = chain[1] /\ head \in Nodes
    BY <1>1 DEF ListInv, TypeOK
  <1>3. /\ chain' \in Seq(Nodes) /\ Len(chain') = Len(chain) - 1
        /\ \A i \in 1..Len(chain') : i + 1 \in 1..Len(chain) /\ chain'[i] = chain[i + 1]
    BY <1>2 DEF TypeOK
  <1>4. prev[head] = IF Len(chain) = 1 THEN Null ELSE chain[2]
    BY <1>1, <1>2 DEF ListInv, TypeOK
  <1>5. Len(chain) # 1 => chain[2] # Null
    <2>1. chain \in Seq(Nodes) /\ Null \notin Nodes
      BY NullAssumption DEF TypeOK
    <2>2. Len(chain) \in Nat \ {0}
      BY <1>2
    <2> HIDE DEF Pop, IInv
    <2>3. Len(chain) # 1 => 2 \in 1..Len(chain)
      BY <2>2
    <2> QED
      BY <2>1, <2>2, <2>3
  <1>6. TypeOK'
    <2>1. size' \in Nat /\ head' \in Nodes \cup {Null} /\ tail' \in Nodes \cup {Null}
      BY <1>1, <1>2 DEF TypeOK, ListInv
    <2>2. next' \in [Nodes -> Nodes \cup {Null}] /\ alive' \in SUBSET Nodes
          /\ got' \in Data \cup {Null} /\ mutex' \in Threads \cup {Null}
      BY <1>2 DEF TypeOK
    <2>3. pc' \in [Threads -> Labels]
      BY DEF TypeOK, Threads, Labels
    <2> QED
      BY <2>1, <2>2, <2>3, <1>3 DEF TypeOK
  <1>7. MutexInv'
    BY NullAssumption DEF TypeOK, MutexInv, InCriticalSection, Threads
  <1>8. ListInv'
    <2>1. size' = Len(chain')
      BY <1>1, <1>3 DEF ListInv
    <2>2. \A i \in 1..Len(chain') : chain'[i] \in alive'
      BY <1>1, <1>2, <1>3 DEF ListInv, TypeOK
    <2>3. \A i, j \in 1..Len(chain') : chain'[i] = chain'[j] => i = j
      BY <1>1, <1>2, <1>3 DEF ListInv, TypeOK
    <2>4. \A i \in 1..Len(chain') :
            prev'[chain'[i]] = IF i = Len(chain') THEN Null ELSE chain'[i + 1]
      BY <1>1, <1>2, <1>3 DEF ListInv, TypeOK
    <2>5. head' = IF chain' = <<>> THEN Null ELSE chain'[1]
      <3>1. head' = prev[head]
        OBVIOUS
      <3> HIDE DEF Pop, IInv
      <3>2. chain' = <<>> <=> Len(chain) = 1
        BY <1>2, <1>3
      <3>3. Len(chain) # 1 => chain'[1] = chain[2]
        BY <1>2, <1>3
      <3> QED
        BY <3>1, <3>2, <3>3, <1>4
    <2>6. tail' = IF chain' = <<>> THEN Null ELSE chain'[Len(chain')]
      BY <1>1, <1>2, <1>3, <1>4, <1>5 DEF ListInv, TypeOK
    <2> QED
      BY <2>1, <2>2, <2>3, <2>4, <2>5, <2>6 DEF ListInv
  <1>9. NodeInv'
    <2>1. \A p \in Producers : HasNode(p)' => HasNode(p)
      BY ThreadsAssumption DEF HasNode, TypeOK, Threads
    <2>2. \A p \in Producers : HasNode(p) => node[p] # head
      BY <1>2 DEF NodeInv
    <2> QED
      BY <2>1, <2>2, <1>3 DEF NodeInv
  <1>10. size \in Nat /\ size' = size - 1 /\ signaled' = signaled
    BY DEF TypeOK
  <1>11. size > 1 <=> size' > 0
    BY <1>10
  <1>12. signaled <=> size > 1
    BY DEF EventInv, Threads
  <1>13. EventTellsSize'
    BY <1>10, <1>11, <1>12 DEF EventTellsSize
  <1>14. \A t \in Threads : ~InCriticalSection(t)'
    BY NullAssumption, <1>7 DEF MutexInv, Threads
  <1>15. EventInv'
    BY <1>14 DEF EventInv, InCriticalSection
  <1>16. TeardownInv'
    BY <1>1 DEF TeardownInv
  <1> QED
    BY <1>6, <1>7, <1>8, <1>9, <1>13, <1>15, <1>16

-----------------------------------------------------------------------------
(* Teardown steps. *)

\* Join preserves the invariant.
LEMMA JoinInv ==
  ASSUME IInv, Join
  PROVE  IInv'
  <1> USE DEF IInv, Join, queue, heap
  <1>1. \A t \in Threads : pc'[t] \in {"free", "exited", "gone"}
    BY DEF Threads
  <1>2. TypeOK'
    BY <1>1 DEF TypeOK, Labels
  <1>3. \A t \in Threads : mutex # t
    BY ThreadsAssumption DEF MutexInv, InCriticalSection, Threads
  <1>4. MutexInv'
    BY <1>1, <1>3 DEF MutexInv, InCriticalSection
  <1>5. NodeInv'
    BY <1>1 DEF NodeInv, HasNode, Threads
  <1>6. TornDown'
    BY ThreadsAssumption DEF TornDown, Threads
  <1>7. ListInv'
    BY <1>6 DEF ListInv
  <1>8. EventTellsSize'
    BY DEF EventTellsSize
  <1>9. EventInv'
    BY <1>1 DEF EventInv
  <1>10. TeardownInv'
    BY ThreadsAssumption DEF TeardownInv, Threads
  <1> QED
    BY <1>2, <1>4, <1>5, <1>7, <1>8, <1>9, <1>10

\* msgque_destroy runs alone: only alive, tail and the owner's position change.
LEMMA DestroyStepInv ==
  ASSUME IInv, pc[Owner] = "free",
         tail' \in Nodes \cup {Null}, alive' \in SUBSET Nodes,
         NEW label \in {"free", "gone", "crashed"}, Goto(Owner, label),
         UNCHANGED <<head, size, signaled, eventLocked, chain, mutex, next, prev, data, run, node, sent, got>>
  PROVE  IInv'
  <1> USE DEF IInv, Goto
  <1>1. TornDown /\ TornDown'
    BY ThreadsAssumption DEF TornDown, TypeOK, Threads
  <1>2. \A t \in Threads : pc'[t] \in {"free", "gone", "crashed", "exited"}
    BY <1>1 DEF TeardownInv, TypeOK, Threads
  <1>3. TypeOK'
    BY <1>2 DEF TypeOK, Labels
  <1>4. \A t \in Threads : mutex # t
    BY <1>1 DEF TeardownInv, MutexInv, InCriticalSection, Threads
  <1>5. MutexInv'
    BY <1>2, <1>4 DEF MutexInv, InCriticalSection
  <1>6. NodeInv'
    BY <1>2 DEF NodeInv, HasNode, Threads
  <1>7. ListInv'
    BY <1>1 DEF ListInv
  <1>8. EventTellsSize'
    BY DEF EventTellsSize
  <1>9. EventInv'
    BY <1>2 DEF EventInv
  <1>10. TeardownInv'
    BY <1>1 DEF TeardownInv, TypeOK, Threads
  <1> QED
    BY <1>3, <1>5, <1>6, <1>7, <1>8, <1>9, <1>10

\* The walk of msgque_destroy, with nobody left in the queue, preserves the invariant.
LEMMA TeardownStepInv ==
  ASSUME IInv, Teardown
  PROVE  IInv'
  <1>1. CASE Deinit
    BY <1>1, DeinitInv
  <1>2. CASE Join
    BY <1>2, JoinInv
  <1>3. CASE FreeTail
    <2>1. tail' \in Nodes \cup {Null} /\ alive' \in SUBSET Nodes /\ Goto(Owner, "free")
      BY <1>3, ThreadsAssumption DEF FreeTail, Goto, IInv, TypeOK, Threads
    <2> QED
      BY <2>1, <1>3, DestroyStepInv DEF FreeTail
  <1>4. CASE UseAfterFree
    BY <1>4, DestroyStepInv DEF UseAfterFree, IInv, TypeOK, queue, heap
  <1>5. CASE Destroyed
    BY <1>5, DestroyStepInv DEF Destroyed, IInv, TypeOK, queue, heap
  <1> QED
    BY <1>1, <1>2, <1>3, <1>4, <1>5 DEF Teardown

\* The component thread's loop preserves the invariant.
LEMMA LoopInv ==
  ASSUME IInv, Loop
  PROVE  IInv'
  <1>1. CASE CheckRun
    BY <1>1, QuietStepInv DEF CheckRun, IInv, TypeOK
  <1>2. CASE WakeUp
    BY <1>2, QuietStepInv DEF WakeUp, IInv, TypeOK
  <1>3. CASE WakeUpForBuffer
    BY <1>3, QuietStepInv DEF WakeUpForBuffer, IInv, TypeOK
  <1>4. CASE WaitFails
    BY <1>4, QuietStepInv DEF WaitFails, IInv, TypeOK
  <1>5. CASE Dispatch
    BY <1>5, QuietStepInv DEF Dispatch, IInv, TypeOK
  <1> QED
    BY <1>1, <1>2, <1>3, <1>4, <1>5, LockPopInv, ResetInv, ResetFailsInv, PopEmptyInv, PopInv DEF Loop

\* So does a step that changes nothing.
LEMMA StutterInv ==
  ASSUME IInv, UNCHANGED vars
  PROVE  IInv'
  <1> USE DEF vars
  <1>1. TypeOK' /\ MutexInv' /\ NodeInv'
    BY DEF IInv, TypeOK, MutexInv, InCriticalSection, NodeInv, HasNode
  <1>2. ListInv' /\ TeardownInv'
    BY DEF IInv, ListInv, TeardownInv, TornDown
  <1>3. EventTellsSize' /\ EventInv'
    BY DEF IInv, EventTellsSize, EventInv
  <1> QED
    BY <1>1, <1>2, <1>3 DEF IInv

\* Every step preserves the invariant.
LEMMA NextInv ==
  ASSUME IInv, [Next]_vars
  PROVE  IInv'
  BY SendInv, LockPushInv, SignalInv, SignalFailsInv, LinkInv, LoopInv, TeardownStepInv, StutterInv
  DEF Next, Push

(* The inductive invariant holds in every reachable state.                 *)
THEOREM Invariance == Spec => []IInv
  <1>1. Init => IInv
    BY InitIInv
  <1>2. IInv /\ [Next]_vars => IInv'
    BY NextInv
  <1> QED
    BY <1>1, <1>2, PTL DEF Spec

(* Every variable of the queue keeps its type.                             *)
THEOREM TypeCorrect == Spec => []TypeOK
  BY Invariance, PTL DEF IInv

(* push_back and get_front exclude each other.                             *)
THEOREM MutualExclusion == Spec => []MutexInv
  BY Invariance, PTL DEF IInv

(* The list from head through prev is the queue, for any number of         *)
(* producers and whatever addresses malloc reuses.                         *)
THEOREM ListIsSound == Spec => []ListInv
  BY Invariance, PTL DEF IInv

(* The component thread neither sleeps on a queued command nor wakes for   *)
(* none, whatever pipe operation failed before.                            *)
THEOREM NoLostWakeup == Spec => []EventTellsSize
  BY Invariance, PTL DEF IInv

-----------------------------------------------------------------------------
(* The linked list implements the FIFO. *)

\* The abstract queue: the commands of the linked nodes, oldest first.
Fifo == [i \in 1..Len(chain) |-> data[chain[i]]]

\* The mapped variables have the types of the abstract queue.
LEMMA FifoType ==
  ASSUME TypeOK
  PROVE  Fifo \in Seq(Data) /\ Len(Fifo) = Len(chain) /\ DOMAIN Fifo = 1..Len(chain)
  BY DEF Fifo, TypeOK

\* They keep these types in every step.
LEMMA FifoTypeNext ==
  ASSUME TypeOK'
  PROVE  Fifo' \in Seq(Data) /\ Len(Fifo') = Len(chain')
  BY DEF Fifo, TypeOK

\* A step that links and unlinks nothing and keeps the commands of the linked
\* nodes is invisible.
LEMMA StutterStep ==
  ASSUME TypeOK, chain' = chain, got' = got,
         \A i \in 1..Len(chain) : data'[chain[i]] = data[chain[i]]
  PROVE  UNCHANGED Abstract!absVars
  BY DEF Abstract!absVars

\* Link accepts the command of its node.
LEMMA LinkAccepts ==
  ASSUME IInv, IInv', NEW p \in Producers, Link(p)
  PROVE  Abstract!Accept
  <1> DEFINE n == node[p]
  <1>1. n \in Nodes /\ chain \in Seq(Nodes) /\ data \in [Nodes -> Data]
    BY DEF IInv, NodeInv, HasNode, TypeOK, Link
  <1>2. Fifo \in Seq(Data) /\ Len(Fifo) = Len(chain) /\ Fifo' \in Seq(Data) /\ Len(Fifo') = Len(chain')
    BY FifoType, FifoTypeNext DEF IInv
  <1>3. chain' = Append(chain, n) /\ data' = data /\ got' = got
    BY DEF Link
  <1>4. Fifo' = Append(Fifo, data[n])
    <2>1. Len(Fifo') = Len(Fifo) + 1
      BY <1>1, <1>2, <1>3
    <2>2. \A i \in 1..Len(Fifo) : Fifo'[i] = Fifo[i]
      BY <1>1, <1>2, <1>3 DEF Fifo
    <2>3. Fifo'[Len(Fifo) + 1] = data[n]
      BY <1>1, <1>2, <1>3 DEF Fifo
    <2> QED
      BY <1>1, <1>2, <2>1, <2>2, <2>3
  <1> QED
    BY <1>1, <1>3, <1>4 DEF Abstract!Accept, Fifo

\* Pop delivers the oldest command.
LEMMA PopDelivers ==
  ASSUME IInv, IInv', Pop
  PROVE  Abstract!Deliver
  <1>1. chain \in Seq(Nodes) /\ data \in [Nodes -> Data] /\ chain' = Tail(chain) /\ data' = data
        /\ got' = data[head]
    BY DEF IInv, TypeOK, Pop
  <1>2. Fifo \in Seq(Data) /\ Len(Fifo) = Len(chain) /\ Fifo' \in Seq(Data) /\ Len(Fifo') = Len(chain')
    BY FifoType, FifoTypeNext DEF IInv
  <1>3. ~TornDown
    BY ThreadsAssumption DEF IInv, TeardownInv, TornDown, Threads, TypeOK, Pop
  <1>4. chain # <<>> /\ head = chain[1]
    BY <1>3 DEF IInv, ListInv, TypeOK, Pop
  <1>5. Fifo # <<>> /\ got' = Head(Fifo)
    BY <1>1, <1>2, <1>4 DEF Fifo
  <1>6. Fifo' = Tail(Fifo)
    <2>1. Len(Fifo') = Len(Fifo) - 1
      BY <1>1, <1>2, <1>4
    <2>2. \A i \in 1..Len(Fifo') : Fifo'[i] = Fifo[i + 1]
      BY <1>1, <1>2, <1>4 DEF Fifo
    <2> QED
      BY <1>2, <1>5, <2>1, <2>2
  <1> QED
    BY <1>5, <1>6 DEF Abstract!Deliver, Fifo

\* PopEmpty answers "nothing" only when nothing is queued.
LEMMA PopEmptyDelivers ==
  ASSUME IInv, PopEmpty
  PROVE  Abstract!DeliverNothing
  <1>1. ~TornDown
    BY ThreadsAssumption DEF IInv, TeardownInv, TornDown, Threads, TypeOK, PopEmpty
  <1>2. Len(chain) = 0 /\ chain' = chain /\ data' = data /\ got' = Null
    BY <1>1 DEF IInv, ListInv, PopEmpty, queue, heap
  <1>3. Fifo = <<>>
    BY <1>2, FifoType DEF IInv
  <1> QED
    BY <1>2, <1>3 DEF Abstract!DeliverNothing, Fifo

\* malloc returns an address that is not in the list.
LEMMA AllocateStutters ==
  ASSUME IInv, NEW p \in Producers, pc[p] = "idle",
         NEW n \in Nodes \ alive, NEW d \in Data, Allocate(p, n, d), UNCHANGED <<chain, got>>
  PROVE  UNCHANGED Abstract!absVars
  <1>1. ~TornDown
    BY DEF IInv, TeardownInv, TornDown, Threads, TypeOK
  <1>2. \A i \in 1..Len(chain) : data'[chain[i]] = data[chain[i]]
    BY <1>1 DEF IInv, ListInv, TypeOK, Allocate
  <1> QED
    BY <1>2, StutterStep DEF IInv

\* A push maps to an abstract send, when it links, or to a stutter.
LEMMA PushImplements ==
  ASSUME IInv, IInv', NEW p \in Producers, Push(p)
  PROVE  [Abstract!AbsNext]_Abstract!absVars
  <1>1. CASE Send(p)
    <2>1. PICK n \in Nodes \ alive : Allocate(p, n, <<p, sent[p] + 1>>)
      BY <1>1 DEF Send
    <2>2. <<p, sent[p] + 1>> \in Data
      BY <1>1, BoundAssumption DEF Send, IInv, TypeOK, Data, Cmds
    <2> QED
      BY <1>1, <2>1, <2>2, AllocateStutters DEF Send, queue
  <1>2. CASE LockPush(p) \/ Signal(p) \/ SignalFails(p)
    <2>1. chain' = chain /\ got' = got /\ data' = data
      BY <1>2 DEF LockPush, Signal, SignalFails, queue, heap
    <2> QED
      BY <2>1, StutterStep DEF IInv
  <1>3. CASE Link(p)
    BY <1>3, LinkAccepts DEF Abstract!AbsNext
  <1> QED
    BY <1>1, <1>2, <1>3 DEF Push

\* A pop maps to an abstract receive, the rest of the loop to a stutter.
LEMMA LoopImplements ==
  ASSUME IInv, IInv', Loop
  PROVE  [Abstract!AbsNext]_Abstract!absVars
  <1>1. CASE Pop
    BY <1>1, PopDelivers DEF Abstract!AbsNext
  <1>2. CASE PopEmpty
    BY <1>2, PopEmptyDelivers DEF Abstract!AbsNext
  <1>3. CASE CheckRun \/ WakeUp \/ WakeUpForBuffer \/ WaitFails \/ LockPop \/ Reset \/ ResetFails
             \/ Dispatch
    <2>1. chain' = chain /\ got' = got /\ data' = data
      BY <1>3 DEF CheckRun, WakeUp, WakeUpForBuffer, WaitFails, LockPop, Reset, ResetFails, Dispatch,
                  queue, heap
    <2> QED
      BY <2>1, StutterStep DEF IInv
  <1> QED
    BY <1>1, <1>2, <1>3 DEF Loop

\* The teardown maps to stutters.
LEMMA TeardownImplements ==
  ASSUME IInv, Teardown
  PROVE  [Abstract!AbsNext]_Abstract!absVars
  <1>1. CASE Deinit
    <2>1. PICK n \in Nodes \ alive : Allocate(Owner, n, Exit)
      BY <1>1 DEF Deinit
    <2> QED
      BY <1>1, <2>1, AllocateStutters, ThreadsAssumption DEF Deinit, queue, Data
  <1>2. CASE Join \/ FreeTail \/ UseAfterFree \/ Destroyed
    <2>1. chain' = chain /\ got' = got /\ data' = data
      BY <1>2 DEF Join, FreeTail, UseAfterFree, Destroyed, queue, heap
    <2>2. UNCHANGED Abstract!absVars
      BY <2>1, StutterStep DEF IInv
    <2> QED
      BY <2>2
  <1> QED
    BY <1>1, <1>2 DEF Teardown

(* msgque.c implements the FIFO of CommandQueue: every accepted command is *)
(* delivered once, in the order of acceptance, and a receive answers       *)
(* "nothing" only when the queue is empty.                                 *)
THEOREM Refinement == Spec => ImplementsFifo
  <1>1. Init => Abstract!AbsInit
    <2>1. Init => IInv /\ Len(chain) = 0 /\ got = Null
      BY InitIInv DEF Init
    <2>2. Init => Fifo = <<>>
      BY <2>1, FifoType DEF IInv
    <2> QED
      BY <2>1, <2>2 DEF Fifo, Abstract!AbsInit
  <1>2. IInv /\ IInv' /\ [Next]_vars => [Abstract!AbsNext]_Abstract!absVars
    <2>1. ASSUME IInv, IInv', UNCHANGED vars PROVE UNCHANGED Abstract!absVars
      BY <2>1, StutterStep DEF IInv, vars
    <2> QED
      BY <2>1, PushImplements, LoopImplements, TeardownImplements DEF Next
  <1> QED
    BY <1>1, <1>2, Invariance, PTL DEF Spec, ImplementsFifo, Abstract!AbsSpec
=============================================================================
