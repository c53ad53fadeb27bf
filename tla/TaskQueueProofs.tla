--------------------------- MODULE TaskQueueProofs ---------------------------
(***************************************************************************)
(* Theorems about TaskQueue, for any sets of queues, tasks and threads.    *)
(***************************************************************************)
EXTENDS TaskQueue, FiniteSetTheorems, FunctionTheorems, SequenceTheorems, TLAPS

-----------------------------------------------------------------------------
(***************************************************************************)
(* What the helpers do to the types.                                       *)
(***************************************************************************)

\* An arrangement of k objects of S is a sequence of k of them.
LEMMA ArrangementIsSeq ==
    ASSUME NEW S, NEW k \in Nat, NEW s \in Arrangements(S, k)
    PROVE  s \in Seq(S) /\ Len(s) = k /\ DOMAIN s = 1..k /\ Injective(s)
BY DEF Arrangements

\* Linking a non-empty sequence of nodes keeps the types of the list.
LEMMA EnqueueType ==
    ASSUME TypeOK, NEW q \in Queue, NEW s \in Seq(Node), s # <<>>, Enqueue(q, s)
    PROVE  /\ first' \in [Queue -> Node \cup {Null}]
           /\ last' \in [Queue -> Node \cup {Null}]
           /\ next' \in [Node -> Node \cup {Null}]
           /\ fifo' \in [Queue -> Seq(Node)]
<1>1. s[1] \in Node /\ s[Len(s)] \in Node
  OBVIOUS
<1>2. first' \in [Queue -> Node \cup {Null}] /\ last' \in [Queue -> Node \cup {Null}]
  BY <1>1 DEF TypeOK, Enqueue, Empty
<1>3. next' \in [Node -> Node \cup {Null}]
  <2>1. \A i \in DOMAIN s : i # Len(s) => s[i + 1] \in Node
    OBVIOUS
  <2> DEFINE at(n) == CHOOSE i \in DOMAIN s : s[i] = n
  <2>2. \A n : (\E i \in DOMAIN s : s[i] = n) => at(n) \in DOMAIN s
    OBVIOUS
  <2> QED BY <1>1, <2>1, <2>2 DEF TypeOK, Enqueue, Empty
<1>4. fifo' \in [Queue -> Seq(Node)]
  BY DEF TypeOK, Enqueue, Empty
<1> QED BY <1>2, <1>3, <1>4

\* Taking the first node keeps the types of the list.
LEMMA DequeueType ==
    ASSUME TypeOK, NEW q \in Queue, first[q] # Null, fifo[q] # <<>>, Dequeue(q, first[q])
    PROVE  /\ first' \in [Queue -> Node \cup {Null}]
           /\ last' \in [Queue -> Node \cup {Null}]
           /\ next' \in [Node -> Node \cup {Null}]
           /\ fifo' \in [Queue -> Seq(Node)]
<1>1. Tail(fifo[q]) \in Seq(Node)
  BY DEF TypeOK
<1> QED BY <1>1 DEF TypeOK, Dequeue

-----------------------------------------------------------------------------
(***************************************************************************)
(* TypeOK is preserved.                                                    *)
(***************************************************************************)

\* setThreads_LK keeps the types, whether it starts or ends threads.
LEMMA SetThreadsType ==
    ASSUME TypeOK, NEW q \in Queue, NEW n \in Nat, SetThreads(q, n)
    PROVE  /\ want' \in [Queue -> Nat] /\ cur' \in [Queue -> Int]
           /\ numThreads' \in Int
           /\ first' \in [Queue -> Node \cup {Null}]
           /\ last' \in [Queue -> Node \cup {Null}]
           /\ next' \in [Node -> Node \cup {Null}]
           /\ fifo' \in [Queue -> Seq(Node)]
           /\ pc' \in [Thread -> {"none", "ready", "wait", "run", "notify"}]
           /\ home' \in [Thread -> Queue]
           /\ task' \in [Thread -> Node \cup {Null}]
<1>1. want' \in [Queue -> Nat]
  BY DEF TypeOK, SetThreads
<1>2. CASE n > want[q] /\ GrowThreads(q, n - want[q])
  BY <1>1, <1>2 DEF TypeOK, GrowThreads
<1>3. CASE n < want[q] /\ ShrinkThreads(q, want[q] - n)
  <2>1. PICK s \in Arrangements(EndTask \ InUse, want[q] - n) : Enqueue(q, s)
    BY <1>3 DEF ShrinkThreads
  <2>2. want[q] - n \in Nat \ {0}
    BY <1>3 DEF TypeOK
  <2>3. s \in Seq(Node) /\ s # <<>>
    BY <2>2, ArrangementIsSeq DEF Node
  <2> QED BY <1>1, <1>3, <2>1, <2>3, EnqueueType DEF TypeOK, ShrinkThreads, WakeAll
<1>4. CASE n = want[q] /\ UNCHANGED <<cur, numThreads, listVars, workerVars>>
  BY <1>1, <1>4 DEF TypeOK, listVars, workerVars
<1> QED BY <1>2, <1>3, <1>4 DEF SetThreads

\* What is left of a caller's calls, and the first of them, have their types.
LEMMA CallType ==
    ASSUME TypeOK, NEW c \in Caller, call[c] # <<>>
    PROVE  /\ Head(call[c]) \in Ops
           /\ Head(call[c]) = call[c][1] /\ 1 \in DOMAIN call[c]
           /\ Tail(call[c]) \in Seq(Ops)
<1>1. call[c] \in Seq(Ops)
  BY DEF TypeOK
<1> QED BY <1>1

LEMMA OpsType ==
    ASSUME NEW o \in Ops
    PROVE  o.q \in Queue /\ o.n \in Nat /\ o.tasks \in Seq(Task)
BY DEF Ops

\* Beginning calls changes nothing but call.
LEMMA BeginType ==
    ASSUME TypeOK, NEW c \in Caller, Client(c)
    PROVE  /\ call' \in [Caller -> Seq(Ops)]
           /\ UNCHANGED <<qstate, countVars, listVars, workerVars, mpc>>
<1>1. CASE BeginPush(c)
  <2>0. PICK q \in Queue, k \in 1..MaxBatch :
            \E s \in Arrangements(Task \ InUse, k) : Begin(c, <<PushOp(q, s)>>)
    BY <1>1 DEF BeginPush
  <2>1. PICK s \in Arrangements(Task \ InUse, k) : Begin(c, <<PushOp(q, s)>>)
    BY <2>0
  <2>2. s \in Seq(Task)
    BY ArrangementIsSeq, QueueAssumption
  <2>3. PushOp(q, s) \in Ops
    BY <2>2 DEF PushOp, Op, Ops
  <2> QED BY <2>1, <2>3 DEF TypeOK, Begin
<1>2. CASE BeginCreate(c)
  <2>1. PICK q \in Queue, n \in 1..MaxThreads : Begin(c, <<CreateOp(q, n)>>)
    BY <1>2 DEF BeginCreate
  <2>2. CreateOp(q, n) \in Ops
    BY DEF CreateOp, Op, Ops
  <2> QED BY <2>1, <2>2 DEF TypeOK, Begin
<1>3. CASE BeginSet(c)
  <2>1. PICK q \in Queue, n \in 0..MaxThreads : Begin(c, <<SetOp(q, n)>>)
    BY <1>3 DEF BeginSet
  <2>2. SetOp(q, n) \in Ops
    BY DEF SetOp, Op, Ops
  <2> QED BY <2>1, <2>2 DEF TypeOK, Begin
<1>4. CASE BeginOnce(c)
  <2>1. PICK q \in Queue, x \in Task \ InUse : Begin(c, OnceOps(q, x))
    BY <1>4 DEF BeginOnce
  <2>2. CreateOp(q, 1) \in Ops /\ PushOp(q, <<x>>) \in Ops /\ SetOp(q, 0) \in Ops
    BY DEF CreateOp, PushOp, SetOp, Op, Ops
  <2> QED BY <2>1, <2>2 DEF TypeOK, Begin, OnceOps
<1> QED BY <1>1, <1>2, <1>3, <1>4 DEF Client

LEMMA TypeStep ==
    ASSUME IInv, [Next]_vars
    PROVE  TypeOK'
<1> USE DEF IInv
<1>1. ASSUME NEW c \in Caller, Client(c) PROVE TypeOK'
  BY <1>1, BeginType DEF TypeOK, countVars, listVars, workerVars
<1>2. ASSUME NEW c \in Caller, DoCreate(c) PROVE TypeOK'
  <2>1. SetThreads(call[c][1].q, call[c][1].n) /\ call[c] # <<>>
    BY <1>2, CallType DEF DoCreate
  <2> QED BY <1>2, <2>1, CallType, OpsType, SetThreadsType DEF TypeOK, DoCreate, Done
<1>3. ASSUME NEW c \in Caller, DoSet(c) PROVE TypeOK'
  <2>1. SetThreads(call[c][1].q, call[c][1].n) /\ call[c] # <<>>
    BY <1>3, CallType DEF DoSet
  <2> QED BY <1>3, <2>1, CallType, OpsType, SetThreadsType DEF TypeOK, DoSet, Done
<1>4. ASSUME NEW c \in Caller, DoPush(c) PROVE TypeOK'
  <2> DEFINE op == call[c][1]
  <2>1. /\ call[c] # <<>> /\ op \in Ops /\ op.tasks # <<>>
        /\ Enqueue(op.q, op.tasks) /\ Wake(op.q, Len(op.tasks))
    BY <1>4, CallType DEF DoPush, CallsOK
  <2>2. op.q \in Queue /\ op.tasks \in Seq(Node)
    BY <2>1, OpsType DEF Node
  <2>3. pc' \in [Thread -> {"none", "ready", "wait", "run", "notify"}]
    BY <2>1 DEF TypeOK, Wake, WakeAll, WakeOne
  <2> HIDE DEF op
  <2> QED BY <1>4, <2>1, <2>2, <2>3, CallType, EnqueueType
          DEF TypeOK, DoPush, Done, countVars
<1>5. ASSUME NEW t \in Thread, Take(t) PROVE TypeOK'
  <2>1. home[t] \in Queue
    BY DEF TypeOK
  <2>2. fifo[home[t]] # <<>>
    BY <1>5, <2>1 DEF Take, ListMatchesFifo
  <2>3. first[home[t]] \in Node
    BY <1>5, <2>1 DEF Take, TypeOK
  <2> QED BY <1>5, <2>1, <2>2, <2>3, DequeueType DEF TypeOK, Take, countVars
<1>6. ASSUME NEW t \in Thread, EndThread(t) PROVE TypeOK'
  BY <1>6 DEF TypeOK, EndThread, Uncount, NoThreadsLeft, listVars
<1>7. ASSUME NEW t \in Thread, Wait(t) \/ NotifyDestroyed(t) \/ Finish(t) \/ SpuriousWake(t)
      PROVE  TypeOK'
  BY <1>7 DEF TypeOK, Wait, NotifyDestroyed, Finish, SpuriousWake, listVars, countVars
<1>8. ASSUME NEW q \in Queue, DestroyEnd(q) PROVE TypeOK'
  BY <1>8, SetThreadsType DEF TypeOK, DestroyEnd
<1>9. CASE DestroyBegin \/ DestroyLock \/ DestroyWait \/ DestroyWoken \/ SpuriousDestroyed
  BY <1>9 DEF TypeOK, DestroyBegin, DestroyLock, DestroyWait, DestroyWoken,
              DeleteOrWait, DeleteQueues, SpuriousDestroyed, listVars, countVars, workerVars
<1>10. CASE UNCHANGED vars
  BY <1>10 DEF TypeOK, vars
<1> QED BY <1>1, <1>2, <1>3, <1>4, <1>5, <1>6, <1>7, <1>8, <1>9, <1>10
        DEF Next, Exec, Worker, Destroy

-----------------------------------------------------------------------------
(***************************************************************************)
(* Who may call.                                                           *)
(***************************************************************************)

\* setThreads_LK leaves running threads running, and the others not.
LEMMA SetThreadsRun ==
    ASSUME TypeOK, NEW q \in Queue, NEW n \in Nat, SetThreads(q, n)
    PROVE  task' = task /\ \A t \in Thread : pc'[t] = "run" <=> pc[t] = "run"
<1>1. CASE n > want[q] /\ GrowThreads(q, n - want[q])
  BY <1>1 DEF TypeOK, GrowThreads
<1>2. CASE n < want[q] /\ ShrinkThreads(q, want[q] - n)
  BY <1>2 DEF TypeOK, ShrinkThreads, WakeAll, Waiting
<1>3. CASE n = want[q] /\ UNCHANGED <<cur, numThreads, listVars, workerVars>>
  BY <1>3 DEF workerVars
<1> QED BY <1>1, <1>2, <1>3 DEF SetThreads

\* Waking threads leaves running threads running, and the others not.
LEMMA WakeRun ==
    ASSUME TypeOK, NEW q \in Queue, NEW n \in Nat, Wake(q, n)
    PROVE  /\ \A t \in Thread : pc'[t] = "run" <=> pc[t] = "run"
           /\ \A t \in Thread : pc'[t] \in {"ready", "wait", "run"}
                                  <=> pc[t] \in {"ready", "wait", "run"}
BY DEF TypeOK, Wake, WakeAll, WakeOne, Waiting

\* After a call is made the caller's later calls move up by one, and the calls
\* of the others stay.
LEMMA CallsMoveUp ==
    ASSUME TypeOK, NEW c \in Caller, call[c] # <<>>, Done(c)
    PROVE  /\ \A i \in DOMAIN call'[c] :
                i \in Nat \ {0} /\ i + 1 \in DOMAIN call[c] /\ call'[c][i] = call[c][i + 1]
           /\ \A d \in Caller : d # c => call'[d] = call[d]
<1>1. call[c] \in Seq(Ops) /\ call'[c] = Tail(call[c])
  BY DEF TypeOK, Done
<1> QED BY <1>1 DEF TypeOK, Done

LEMMA CallersAliveStep ==
    ASSUME IInv, [Next]_vars
    PROVE  CallersAlive'
<1> USE DEF IInv, CallersAlive
<1>0. Main \in Caller /\ Main \notin Thread /\ \A t \in Thread : t \in Caller
  BY QueueAssumption DEF Caller
<1>1. ASSUME NEW c \in Caller, Client(c) PROVE CallersAlive'
  <2>1. MayCall(c) /\ \A d \in Caller : d # c => call'[d] = call[d]
    BY <1>1 DEF Client, BeginPush, BeginCreate, BeginSet, BeginOnce, Begin, TypeOK
  <2> QED BY <1>0, <1>1, <2>1, BeginType DEF MayCall, s_running, workerVars
<1>2. ASSUME NEW c \in Caller, Exec(c) PROVE CallersAlive'
  <2>1. call[c] # <<>> /\ Done(c) /\ mpc' = mpc
    BY <1>2 DEF Exec, DoCreate, DoSet, DoPush
  <2>2. \A d \in Caller : call'[d] # <<>> => call[d] # <<>>
    BY <2>1, CallsMoveUp
  <2>3. task' = task /\ \A t \in Thread : pc'[t] = "run" <=> pc[t] = "run"
    BY <1>2, CallType, OpsType, SetThreadsRun, WakeRun DEF Exec, DoCreate, DoSet, DoPush
  <2> QED BY <1>0, <2>1, <2>2, <2>3
<1>3. ASSUME NEW t \in Thread, Worker(t) \/ Finish(t) \/ SpuriousWake(t)
      PROVE  CallersAlive'
  <2>1. task[t] \in EndTask => call[t] = <<>>
    BY <1>0, QueueAssumption
  <2> QED BY <1>0, <1>3, <2>1
          DEF TypeOK, Worker, Take, Wait, EndThread, NotifyDestroyed, Finish, SpuriousWake
<1>4. ASSUME NEW q \in Queue, DestroyEnd(q) PROVE CallersAlive'
  BY <1>0, <1>4, SetThreadsRun DEF DestroyEnd
<1>5. CASE DestroyBegin \/ DestroyLock \/ DestroyWait \/ DestroyWoken \/ SpuriousDestroyed
  BY <1>0, <1>5 DEF DestroyBegin, DestroyLock, DestroyWait, DestroyWoken,
              DeleteOrWait, DeleteQueues, SpuriousDestroyed, workerVars
<1>6. CASE UNCHANGED vars
  BY <1>6 DEF vars
<1> QED BY <1>1, <1>2, <1>3, <1>4, <1>5, <1>6 DEF Next, Destroy

-----------------------------------------------------------------------------
(***************************************************************************)
(* The queues calls are for.                                               *)
(***************************************************************************)

LEMMA ActiveFinite == IsFiniteSet(Active)
BY FS_Subset, QueueAssumption DEF Active

\* Once s_numThreads is 0 no thread is in its loop and no call is outstanding.
LEMMA NothingLeft ==
    ASSUME IInv, numThreads = 0, mpc # "run"
    PROVE  Active = {} /\ \A c \in Caller : call[c] = <<>>
<1>1. Active = {}
  BY ActiveFinite, FS_EmptySet DEF IInv
<1>2. call[Main] = <<>>
  BY DEF IInv, CallersAlive
<1>3. \A t \in Thread : call[t] = <<>>
  BY <1>1 DEF IInv, CallersAlive, Active
<1> QED BY <1>1, <1>2, <1>3 DEF Caller

\* Calls that are outstanding stay in order while no queue goes away.
LEMMA CallsOKKept ==
    ASSUME TypeOK, CallsOK, UNCHANGED <<call, qstate>>
    PROVE  CallsOK'
BY DEF CallsOK, QueueWillExist, EventCallOnlyAtStart

\* A caller that begins calls begins only ones that can be made.
LEMMA BeginOK ==
    ASSUME IInv, NEW c \in Caller, Client(c)
    PROVE  CallsOK'
<1> USE DEF IInv
<1>0. Main \in Caller
  BY DEF Caller
<1>1. UNCHANGED qstate /\ \A d \in Caller : d # c => call'[d] = call[d]
  BY DEF Client, BeginPush, BeginCreate, BeginSet, BeginOnce, Begin, TypeOK
<1>2. \A n \in Nat : MayResize(n) => qstate[EventQ] # "none"
  <2> SUFFICES ASSUME NEW n \in Nat, MayResize(n), qstate[EventQ] = "none" PROVE FALSE
    OBVIOUS
  <2>1. call[Main] \in Seq(Ops) /\ call[Main] # <<>> /\ call[Main][1].kind = "create"
    BY <1>0 DEF TypeOK, EventQueueNotYet, CreateOp, Op
  <2> QED BY <1>0, <2>1 DEF MayResize
<1> SUFFICES ASSUME NEW i \in DOMAIN call'[c]
             PROVE  /\ call'[c][i].kind = "push" => call'[c][i].tasks # <<>>
                    /\ QueueWillExist(c, i)' /\ EventCallOnlyAtStart(c, i)'
  BY <1>1 DEF CallsOK, QueueWillExist, EventCallOnlyAtStart
<1>3. CASE BeginPush(c)
  <2>0. PICK q \in Queue, k \in 1..MaxBatch :
            /\ qstate[q] = "live"
            /\ \E s \in Arrangements(Task \ InUse, k) : Begin(c, <<PushOp(q, s)>>)
    BY <1>3 DEF BeginPush
  <2>1. PICK s \in Arrangements(Task \ InUse, k) : Begin(c, <<PushOp(q, s)>>)
    BY <2>0
  <2>2. s # <<>>
    BY ArrangementIsSeq, QueueAssumption
  <2>3. i = 1 /\ call'[c][i] = PushOp(q, s)
    BY <2>1 DEF Begin, TypeOK
  <2> QED BY <1>1, <2>0, <2>2, <2>3 DEF PushOp, Op, QueueWillExist, EventCallOnlyAtStart
<1>4. CASE BeginCreate(c)
  <2>1. PICK q \in Queue, n \in 1..MaxThreads :
            qstate[q] = "none" /\ MayResize(n) /\ Begin(c, <<CreateOp(q, n)>>)
    BY <1>4 DEF BeginCreate
  <2>2. q # EventQ
    BY <1>2, <2>1, QueueAssumption
  <2>3. i = 1 /\ call'[c][i] = CreateOp(q, n)
    BY <2>1 DEF Begin, TypeOK
  <2> QED BY <2>2, <2>3 DEF CreateOp, Op, QueueWillExist, EventCallOnlyAtStart
<1>5. CASE BeginSet(c)
  <2>1. PICK q \in Queue \ {EventQ}, n \in 0..MaxThreads :
            qstate[q] = "live" /\ Begin(c, <<SetOp(q, n)>>)
    BY <1>5 DEF BeginSet
  <2>3. i = 1 /\ call'[c][i] = SetOp(q, n)
    BY <2>1 DEF Begin, TypeOK
  <2> QED BY <1>1, <2>1, <2>3 DEF SetOp, Op, QueueWillExist, EventCallOnlyAtStart
<1>6. CASE BeginOnce(c)
  <2>1. PICK q \in Queue, x \in Task \ InUse :
            qstate[q] = "none" /\ MayResize(1) /\ Begin(c, OnceOps(q, x))
    BY <1>6 DEF BeginOnce
  <2>2. q # EventQ
    BY <1>2, <2>1
  <2>3. /\ call'[c] = OnceOps(q, x) /\ i \in {1, 2, 3}
        /\ call'[c][1] = CreateOp(q, 1)
        /\ call'[c][2] = PushOp(q, <<x>>) /\ call'[c][3] = SetOp(q, 0)
    BY <2>1 DEF Begin, TypeOK, OnceOps
  <2>4. \A j \in {1, 2, 3} : call'[c][j].q = q /\ (call'[c][j].kind = "push" => j = 2)
    BY <2>3 DEF CreateOp, PushOp, SetOp, Op
  <2>5. call'[c][1].kind = "create" /\ call'[c][2].tasks # <<>>
    BY <2>3 DEF CreateOp, PushOp, Op
  <2>6. QueueWillExist(c, i)'
    BY <2>3, <2>4, <2>5 DEF QueueWillExist
  <2> QED BY <2>2, <2>3, <2>4, <2>5, <2>6 DEF EventCallOnlyAtStart
<1> QED BY <1>3, <1>4, <1>5, <1>6 DEF Client

\* Making the first of a caller's calls leaves the later ones in order.
LEMMA ExecOK ==
    ASSUME IInv, NEW c \in Caller, Exec(c)
    PROVE  CallsOK'
<1> USE DEF IInv
<1>1. /\ call[c] # <<>> /\ Done(c) /\ 1 \in DOMAIN call[c]
      /\ IF call[c][1].kind = "create"
         THEN qstate' = [qstate EXCEPT ![call[c][1].q] = "live"]
         ELSE qstate' = qstate
  BY CallType DEF Exec, DoCreate, DoSet, DoPush
<1>2. call[c][1].q \in Queue
  BY <1>1, CallType, OpsType
<1>3. \A q \in Queue : qstate[q] = "live" => qstate'[q] = "live"
  BY <1>1, <1>2 DEF TypeOK
<1>4. \A d \in Caller : \A i \in DOMAIN call[d] : call[d][i].q \in Queue
  <2>1. \A d \in Caller : \A i \in DOMAIN call[d] : call[d][i] \in Ops
    BY DEF TypeOK
  <2> QED BY <2>1, OpsType
<1>5. qstate[EventQ] = "none" /\ qstate'[EventQ] # "none" => call[c][1].q = EventQ /\ call[c][1].kind = "create"
  BY <1>1, <1>2, QueueAssumption DEF TypeOK
<1>6. \A d \in Caller : \A i \in DOMAIN call[d] :
        call[d][i].q = EventQ /\ call[d][i].kind # "push" =>
          /\ d = Main /\ i = 1 /\ call[d][i].kind = "create" /\ call[d][i].n = 1
          /\ qstate[EventQ] = "none"
  BY DEF CallsOK, EventCallOnlyAtStart
<1>7. ASSUME NEW i \in DOMAIN call'[c]
      PROVE  /\ call'[c][i].kind = "push" => call'[c][i].tasks # <<>>
             /\ QueueWillExist(c, i)' /\ EventCallOnlyAtStart(c, i)'
  <2>1. i \in Nat \ {0} /\ i + 1 \in DOMAIN call[c] /\ call'[c][i] = call[c][i + 1]
    BY <1>1, CallsMoveUp
  <2>2. QueueWillExist(c, i + 1) /\ (call[c][i + 1].kind = "push" => call[c][i + 1].tasks # <<>>)
    BY <2>1 DEF CallsOK
  <2>3. QueueWillExist(c, i)'
    <3>1. CASE \E j \in 1..i : call[c][j].kind = "create" /\ call[c][j].q = call[c][i + 1].q
      <4>1. PICK j \in 1..i : call[c][j].kind = "create" /\ call[c][j].q = call[c][i + 1].q
        BY <3>1
      <4>2. CASE j = 1
        BY <1>1, <1>2, <2>1, <4>1, <4>2 DEF QueueWillExist, TypeOK
      <4>3. CASE j # 1
        <5>1. j - 1 \in 1..(i - 1) /\ j - 1 \in DOMAIN call'[c]
          BY <1>1, <2>1, <4>3 DEF TypeOK, Done
        <5>2. call'[c][j - 1] = call[c][j]
          BY <1>1, <5>1, CallsMoveUp
        <5> QED BY <2>1, <4>1, <5>1, <5>2 DEF QueueWillExist
      <4> QED BY <4>2, <4>3
    <3>2. CASE call[c][i + 1].kind = "create" \/ qstate[call[c][i + 1].q] = "live"
      BY <1>3, <1>4, <2>1, <3>2 DEF QueueWillExist
    <3> QED BY <2>1, <2>2, <3>1, <3>2 DEF QueueWillExist
  <2> QED BY <1>6, <2>1, <2>2, <2>3 DEF EventCallOnlyAtStart
<1>8. ASSUME NEW d \in Caller, d # c, NEW i \in DOMAIN call'[d]
      PROVE  /\ call'[d][i].kind = "push" => call'[d][i].tasks # <<>>
             /\ QueueWillExist(d, i)' /\ EventCallOnlyAtStart(d, i)'
  <2>1. call'[d] = call[d]
    BY <1>1, <1>8, CallsMoveUp
  <2>2. QueueWillExist(d, i)'
    BY <1>3, <1>4, <1>8, <2>1 DEF CallsOK, QueueWillExist
  <2>3. EventCallOnlyAtStart(d, i)'
    BY <1>1, <1>5, <1>6, <1>8, <2>1, QueueAssumption DEF EventCallOnlyAtStart, TypeOK
  <2> QED BY <1>8, <2>1, <2>2, <2>3 DEF CallsOK
<1> QED BY <1>7, <1>8 DEF CallsOK

LEMMA CallsOKStep ==
    ASSUME IInv, [Next]_vars
    PROVE  CallsOK'
<1> USE DEF IInv
<1>1. ASSUME NEW c \in Caller, Client(c) \/ Exec(c) PROVE CallsOK'
  BY <1>1, BeginOK, ExecOK
<1>2. ASSUME NEW t \in Thread, Worker(t) \/ Finish(t) \/ SpuriousWake(t) PROVE CallsOK'
  BY <1>2, CallsOKKept DEF Worker, Take, Wait, EndThread, NotifyDestroyed, Finish, SpuriousWake
<1>3. ASSUME NEW q \in Queue, DestroyEnd(q) PROVE CallsOK'
  BY <1>3, CallsOKKept DEF DestroyEnd
<1>4. CASE DestroyWait \/ DestroyWoken
  <2>1. CASE numThreads = 0
    <3>1. \A c \in Caller : call[c] = <<>> /\ call' = call
      BY <1>4, <2>1, NothingLeft DEF DestroyWait, DestroyWoken
    <3> QED BY <3>1 DEF CallsOK
  <2>2. CASE numThreads # 0
    BY <1>4, <2>2, CallsOKKept DEF DestroyWait, DestroyWoken, DeleteOrWait
  <2> QED BY <2>1, <2>2
<1>5. CASE DestroyBegin \/ DestroyLock \/ SpuriousDestroyed
  BY <1>5, CallsOKKept DEF DestroyBegin, DestroyLock, SpuriousDestroyed
<1>6. CASE UNCHANGED vars
  BY <1>6, CallsOKKept DEF vars
<1> QED BY <1>1, <1>2, <1>3, <1>4, <1>5, <1>6 DEF Next, Destroy

-----------------------------------------------------------------------------
(***************************************************************************)
(* The threads there are.                                                  *)
(***************************************************************************)

\* setThreads_LK only ever adds threads, to its queue, as many as it counts.
LEMMA SetThreadsActive ==
    ASSUME TypeOK, NEW q \in Queue, NEW n \in Nat, SetThreads(q, n),
           numThreads = Cardinality(Active)
    PROVE  /\ \A t \in Active : t \in Active' /\ home'[t] = home[t]
           /\ \A t \in Active' \ Active : home'[t] = q /\ want[q] < n
           /\ n <= 1 => \A t, u \in Active' \ Active : t = u
           /\ numThreads' = Cardinality(Active')
<1>1. CASE n > want[q] /\ GrowThreads(q, n - want[q])
  <2>1. PICK S \in SUBSET {t \in Thread : pc[t] = "none"} :
            /\ Cardinality(S) = n - want[q]
            /\ pc' = [t \in Thread |-> IF t \in S THEN "ready" ELSE pc[t]]
            /\ home' = [t \in Thread |-> IF t \in S THEN q ELSE home[t]]
    BY <1>1 DEF GrowThreads
  <2>2. Active' = Active \cup S /\ Active \cap S = {} /\ IsFiniteSet(S)
    BY <2>1, FS_Subset, QueueAssumption DEF Active
  <2>3. Cardinality(Active') = Cardinality(Active) + Cardinality(S)
    <3>1. Cardinality(Active \cup S)
            = Cardinality(Active) + Cardinality(S) - Cardinality(Active \cap S)
      BY <2>2, ActiveFinite, FS_Union
    <3>2. Cardinality(Active \cap S) = 0
      BY <2>2, FS_EmptySet
    <3>3. Cardinality(Active) \in Nat /\ Cardinality(S) \in Nat
      BY <2>2, ActiveFinite, FS_CardinalityType
    <3> QED BY <2>2, <3>1, <3>2, <3>3
  <2>4. numThreads' = numThreads + Cardinality(S)
    BY <1>1, <2>1 DEF GrowThreads
  <2>5. n <= 1 => \A t, u \in S : t = u
    <3>1. want[q] \in Nat
      BY DEF TypeOK
    <3>2. n <= 1 => Cardinality(S) = 1
      BY <1>1, <2>1, <3>1
    <3> QED BY <2>2, <3>2, FS_Singleton
  <2> QED BY <1>1, <2>1, <2>2, <2>3, <2>4, <2>5 DEF Active
<1>2. CASE n < want[q] /\ ShrinkThreads(q, want[q] - n)
  <2>1. Active' = Active
    BY <1>2 DEF TypeOK, ShrinkThreads, WakeAll, Waiting, Active
  <2> QED BY <1>2, <2>1 DEF ShrinkThreads
<1>3. CASE n = want[q] /\ UNCHANGED <<cur, numThreads, listVars, workerVars>>
  BY <1>3 DEF workerVars, Active
<1> QED BY <1>1, <1>2, <1>3 DEF SetThreads

\* A step that is no call that is made, and no step of iTaskDestroy's loop,
\* starts no thread.
LEMMA OthersActive ==
    ASSUME IInv,
           \/ \E c \in Caller : Client(c) \/ DoPush(c)
           \/ \E t \in Thread : Worker(t) \/ Finish(t) \/ SpuriousWake(t)
           \/ DestroyBegin \/ DestroyLock \/ DestroyWait \/ DestroyWoken \/ SpuriousDestroyed
           \/ UNCHANGED vars
    PROVE  /\ Active' \subseteq Active
           /\ \A t \in Active : home'[t] = home[t]
           /\ numThreads' = Cardinality(Active')
<1> USE DEF IInv
<1>1. ASSUME NEW c \in Caller, DoPush(c)
      PROVE  Active' = Active /\ home' = home /\ numThreads' = numThreads
  <2>1. Wake(call[c][1].q, Len(call[c][1].tasks)) /\ Len(call[c][1].tasks) \in Nat
    BY <1>1, CallType, OpsType DEF DoPush
  <2>2. call[c][1].q \in Queue
    BY <1>1, CallType, OpsType DEF DoPush
  <2>3. Active' = Active
    BY <2>1, <2>2, WakeRun DEF Active
  <2> QED BY <1>1, <2>3 DEF DoPush, countVars
<1>2. ASSUME NEW t \in Thread, EndThread(t)
      PROVE  Active' = Active \ {t} /\ home' = home /\ numThreads' = Cardinality(Active')
  <2>1. Active' = Active \ {t} /\ t \in Active
    BY <1>2 DEF EndThread, TypeOK, Active
  <2>2. Cardinality(Active \ {t}) = Cardinality(Active) - 1
    BY <2>1, ActiveFinite, FS_RemoveElement
  <2> QED BY <1>2, <2>1, <2>2 DEF EndThread, Uncount
<1>3. ASSUME NEW t \in Thread,
             Take(t) \/ Wait(t) \/ NotifyDestroyed(t) \/ Finish(t) \/ SpuriousWake(t)
      PROVE  Active' = Active /\ home' = home /\ numThreads' = numThreads
  BY <1>3 DEF TypeOK, Take, Wait, NotifyDestroyed, Finish, SpuriousWake, Active, countVars
<1>4. ASSUME NEW c \in Caller, Client(c)
      PROVE  Active' = Active /\ home' = home /\ numThreads' = numThreads
  BY <1>4, BeginType DEF Active, workerVars, countVars
<1>5. ASSUME DestroyBegin \/ DestroyLock \/ DestroyWait \/ DestroyWoken
               \/ SpuriousDestroyed \/ UNCHANGED vars
      PROVE  Active' = Active /\ home' = home /\ numThreads' = numThreads
  BY <1>5 DEF DestroyBegin, DestroyLock, DestroyWait, DestroyWoken, SpuriousDestroyed,
              vars, Active, workerVars, countVars
<1> QED BY <1>1, <1>2, <1>3, <1>4, <1>5 DEF Worker

LEMMA EventQueueNotYetStep ==
    ASSUME IInv, [Next]_vars
    PROVE  EventQueueNotYet'
<1> USE DEF IInv
<1>0. Main \in Caller /\ EventQ \in Queue
  BY QueueAssumption DEF Caller
<1> SUFFICES ASSUME qstate'[EventQ] = "none"
             PROVE  /\ call'[Main] # <<>> /\ call'[Main][1] = CreateOp(EventQ, EventThreads)
                    /\ \A t \in Active' : home'[t] # EventQ
  BY DEF EventQueueNotYet
<1>1. qstate[EventQ] = "none"
  BY <1>0 DEF Next, Client, BeginPush, BeginCreate, BeginSet, BeginOnce, Begin,
     Exec, DoCreate, DoSet, DoPush, Worker, Take, Wait, EndThread, NotifyDestroyed,
     Finish, SpuriousWake, DestroyBegin, Destroy, DestroyLock, DestroyEnd, DestroyWait,
     DestroyWoken, DeleteOrWait, DeleteQueues, SpuriousDestroyed, vars, TypeOK
<1>2. /\ call[Main] # <<>> /\ call[Main][1] = CreateOp(EventQ, EventThreads)
      /\ mpc = "run" /\ \A t \in Active : home[t] # EventQ
  BY <1>1 DEF EventQueueNotYet, CallersAlive
<1>3. ASSUME NEW c \in Caller, DoCreate(c) \/ DoSet(c)
      PROVE  /\ c # Main /\ call'[Main] = call[Main]
             /\ \A t \in Active' : home'[t] # EventQ
  <2>1. /\ call[c] # <<>> /\ Head(call[c]) = call[c][1] /\ 1 \in DOMAIN call[c]
        /\ call[c][1].q \in Queue /\ call[c][1].n \in Nat /\ Done(c)
        /\ SetThreads(call[c][1].q, call[c][1].n)
    BY <1>3, CallType, OpsType DEF DoCreate, DoSet
  <2>2. call[c][1].q # EventQ
    <3>1. CASE DoCreate(c)
      BY <1>0, <2>1, <3>1 DEF DoCreate, TypeOK
    <3>2. CASE DoSet(c)
      BY <2>1, <3>2 DEF DoSet, CallsOK, EventCallOnlyAtStart
    <3> QED BY <1>3, <3>1, <3>2
  <2>3. c # Main
    BY <1>2, <2>2 DEF CreateOp, Op
  <2>4. \A t \in Active' : home'[t] # EventQ
    BY <1>2, <2>1, <2>2, SetThreadsActive
  <2> QED BY <1>0, <2>1, <2>3, <2>4, CallsMoveUp
<1>4. ASSUME NEW c \in Caller, DoPush(c) PROVE call'[Main] = call[Main]
  <2>1. c # Main /\ Done(c) /\ call[c] # <<>>
    BY <1>2, <1>4, CallType DEF DoPush, CreateOp, Op
  <2> QED BY <1>0, <2>1, CallsMoveUp
<1>5. ASSUME NEW c \in Caller, Client(c) PROVE call'[Main] = call[Main]
  <2>1. c # Main /\ \A d \in Caller : d # c => call'[d] = call[d]
    BY <1>2, <1>5 DEF Client, BeginPush, BeginCreate, BeginSet, BeginOnce, MayCall, Begin, TypeOK
  <2> QED BY <1>0, <2>1
<1>6. ASSUME NEW q \in Queue, DestroyEnd(q) PROVE FALSE
  BY <1>2, <1>6 DEF DestroyEnd
<1>7. ASSUME \/ \E t \in Thread : Worker(t) \/ Finish(t) \/ SpuriousWake(t)
             \/ DestroyBegin \/ DestroyLock \/ DestroyWait \/ DestroyWoken \/ SpuriousDestroyed
             \/ UNCHANGED vars
      PROVE  call' = call
  BY <1>7 DEF Worker, Take, Wait, EndThread, NotifyDestroyed, Finish, SpuriousWake,
     DestroyBegin, DestroyLock, DestroyWait, DestroyWoken, SpuriousDestroyed, vars
<1> QED BY <1>2, <1>3, <1>4, <1>5, <1>6, <1>7, OthersActive DEF Next, Exec, Destroy

LEMMA OneEventThreadStep ==
    ASSUME IInv, [Next]_vars
    PROVE  OneEventThread'
<1> USE DEF IInv
<1>1. ASSUME NEW c \in Caller, DoCreate(c) \/ DoSet(c) PROVE OneEventThread'
  <2>1. /\ call[c] # <<>> /\ Head(call[c]) = call[c][1] /\ 1 \in DOMAIN call[c]
        /\ call[c][1].q \in Queue /\ call[c][1].n \in Nat
        /\ SetThreads(call[c][1].q, call[c][1].n) /\ call[c][1].kind # "push"
    BY <1>1, CallType, OpsType DEF DoCreate, DoSet
  <2>2. call[c][1].q = EventQ => call[c][1].n = 1 /\ \A t \in Active : home[t] # EventQ
    BY <2>1 DEF CallsOK, EventCallOnlyAtStart, EventQueueNotYet
  <2>3. CASE call[c][1].q = EventQ
    BY <2>1, <2>2, <2>3, SetThreadsActive DEF OneEventThread
  <2>4. CASE call[c][1].q # EventQ
    BY <2>1, <2>4, SetThreadsActive DEF OneEventThread
  <2> QED BY <2>3, <2>4
<1>2. ASSUME NEW q \in Queue, DestroyEnd(q) PROVE OneEventThread'
  <2>1. SetThreads(q, 0) /\ ~(want[q] < 0)
    BY <1>2 DEF DestroyEnd, TypeOK
  <2> QED BY <2>1, SetThreadsActive DEF OneEventThread
<1>3. ASSUME \/ \E c \in Caller : Client(c) \/ DoPush(c)
             \/ \E t \in Thread : Worker(t) \/ Finish(t) \/ SpuriousWake(t)
             \/ DestroyBegin \/ DestroyLock \/ DestroyWait \/ DestroyWoken \/ SpuriousDestroyed
             \/ UNCHANGED vars
      PROVE  OneEventThread'
  BY <1>3, OthersActive DEF OneEventThread
<1> QED BY <1>1, <1>2, <1>3 DEF Next, Exec, Destroy

LEMMA CountStep ==
    ASSUME IInv, [Next]_vars
    PROVE  (numThreads = Cardinality(Active))'
<1> USE DEF IInv
<1>1. ASSUME NEW c \in Caller, DoCreate(c) \/ DoSet(c)
      PROVE  numThreads' = Cardinality(Active')
  BY <1>1, CallType, OpsType, SetThreadsActive DEF DoCreate, DoSet
<1>2. ASSUME NEW q \in Queue, DestroyEnd(q) PROVE numThreads' = Cardinality(Active')
  BY <1>2, SetThreadsActive DEF DestroyEnd
<1> QED BY <1>1, <1>2, OthersActive DEF Next, Exec, Destroy

LEMMA NoUseAfterDeleteStep ==
    ASSUME IInv, [Next]_vars
    PROVE  NoUseAfterDelete'
<1> USE DEF IInv
<1>1. \A c \in Caller : call'[c] # <<>> => 1 \in DOMAIN call'[c] /\ Head(call'[c]) = call'[c][1]
  BY TypeStep, CallType DEF TypeOK
<1>2. \A c \in Caller :
        call'[c] # <<>> /\ Head(call'[c]).kind # "create"
          => qstate'[Head(call'[c]).q] = "live"
  BY <1>1, CallsOKStep DEF CallsOK, QueueWillExist
<1> SUFFICES ASSUME NEW t \in Active' PROVE qstate'[home'[t]] = "live"
  BY <1>2 DEF NoUseAfterDelete
<1>3. ASSUME NEW c \in Caller, DoCreate(c) \/ DoSet(c) PROVE qstate'[home'[t]] = "live"
  <2>1. /\ call[c] # <<>> /\ Head(call[c]) = call[c][1]
        /\ call[c][1].q \in Queue /\ call[c][1].n \in Nat
        /\ SetThreads(call[c][1].q, call[c][1].n)
    BY <1>3, CallType, OpsType DEF DoCreate, DoSet
  <2>2. qstate'[call[c][1].q] = "live" /\ \A q \in Queue : qstate[q] = "live" => qstate'[q] = "live"
    BY <1>3, <2>1 DEF DoCreate, DoSet, TypeOK, NoUseAfterDelete
  <2>3. home'[t] \in Queue
    BY TypeStep DEF TypeOK, Active
  <2> QED BY <2>1, <2>2, <2>3, SetThreadsActive DEF NoUseAfterDelete
<1>4. ASSUME NEW q \in Queue, DestroyEnd(q) PROVE qstate'[home'[t]] = "live"
  BY <1>4, SetThreadsActive DEF DestroyEnd, NoUseAfterDelete
<1>5. CASE DestroyWait \/ DestroyWoken
  <2>1. t \in Active /\ home'[t] = home[t]
    BY <1>5, OthersActive
  <2>2. numThreads # 0
    BY <1>5, <2>1, NothingLeft DEF DestroyWait, DestroyWoken
  <2> QED BY <1>5, <2>1, <2>2 DEF DestroyWait, DestroyWoken, DeleteOrWait, DeleteQueues, NoUseAfterDelete
<1>6. ASSUME \/ \E c \in Caller : Client(c) \/ DoPush(c)
             \/ \E u \in Thread : Worker(u) \/ Finish(u) \/ SpuriousWake(u)
             \/ DestroyBegin \/ DestroyLock \/ SpuriousDestroyed
             \/ UNCHANGED vars
      PROVE  qstate'[home'[t]] = "live"
  <2>1. t \in Active /\ home'[t] = home[t]
    BY <1>6, OthersActive
  <2>2. qstate' = qstate
    BY <1>6, BeginType DEF DoPush, Worker, Take, Wait, EndThread, NotifyDestroyed, Finish,
       SpuriousWake, DestroyBegin, DestroyLock, SpuriousDestroyed, vars
  <2> QED BY <2>1, <2>2 DEF NoUseAfterDelete
<1> QED BY <1>3, <1>4, <1>5, <1>6 DEF Next, Exec, Destroy

-----------------------------------------------------------------------------
(***************************************************************************)
(* The intrusive lists.                                                    *)
(***************************************************************************)

\* The nodes of the lists are apart from each other.
QueuesApart ==
    /\ \A q \in Queue : Injective(fifo[q])
    /\ \A q, r \in Queue : q # r => Elems(fifo[q]) \cap Elems(fifo[r]) = {}

\* Linking nodes that are in no list adds them, and only them, to its list.
LEMMA EnqueueNodes ==
    ASSUME TypeOK, QueuesApart, NEW q \in Queue, NEW s \in Seq(Node), s # <<>>,
           Injective(s), Elems(s) \cap Queued = {}, Enqueue(q, s)
    PROVE  QueuesApart' /\ Queued' = Queued \cup Elems(s)
<1>1. fifo[q] \in Seq(Node) /\ fifo'[q] = fifo[q] \o s
  BY DEF TypeOK, Enqueue, Empty
<1>2. \A r \in Queue : r # q => fifo'[r] = fifo[r]
  BY DEF TypeOK, Enqueue, Empty
<1>3. Elems(fifo[q]) \subseteq Queued
  BY DEF Queued
<1>4. \A i \in DOMAIN fifo'[q] :
        \/ i \in DOMAIN fifo[q] /\ fifo'[q][i] = fifo[q][i]
        \/ i - Len(fifo[q]) \in DOMAIN s /\ fifo'[q][i] = s[i - Len(fifo[q])]
  BY <1>1
<1>5. Elems(fifo'[q]) = Elems(fifo[q]) \cup Elems(s)
  <2>1. Elems(fifo'[q]) \subseteq Elems(fifo[q]) \cup Elems(s)
    BY <1>4 DEF Elems
  <2>2. \A i \in DOMAIN fifo[q] : i \in DOMAIN fifo'[q] /\ fifo'[q][i] = fifo[q][i]
    BY <1>1
  <2>3. \A i \in DOMAIN s :
          i + Len(fifo[q]) \in DOMAIN fifo'[q] /\ fifo'[q][i + Len(fifo[q])] = s[i]
    BY <1>1
  <2>4. Elems(fifo[q]) \subseteq Elems(fifo'[q])
    BY <2>2 DEF Elems
  <2>5. Elems(s) \subseteq Elems(fifo'[q])
    BY <2>3 DEF Elems
  <2> QED BY <2>1, <2>4, <2>5
<1>6. Injective(fifo'[q])
  <2> SUFFICES ASSUME NEW i \in DOMAIN fifo'[q], NEW j \in DOMAIN fifo'[q],
                      fifo'[q][i] = fifo'[q][j]
               PROVE  i = j
    BY DEF Injective
  <2>1. \A k \in DOMAIN fifo[q], l \in DOMAIN s : fifo[q][k] # s[l]
    BY <1>3 DEF Elems
  <2>2. i \in Nat /\ j \in Nat /\ Len(fifo[q]) \in Nat
    BY <1>1
  <2>3. CASE i \in DOMAIN fifo[q] /\ j \in DOMAIN fifo[q]
    BY <1>1, <2>3 DEF Injective, QueuesApart
  <2>4. CASE i \notin DOMAIN fifo[q] /\ j \notin DOMAIN fifo[q]
    BY <1>4, <2>2, <2>4 DEF Injective
  <2> QED BY <1>4, <2>1, <2>3, <2>4
<1>7. QueuesApart'
  <2>1. \A r \in Queue : r # q => Elems(fifo'[q]) \cap Elems(fifo'[r]) = {}
    BY <1>2, <1>5 DEF QueuesApart, Queued
  <2> QED BY <1>2, <1>6, <2>1 DEF QueuesApart
<1>8. Queued' = Queued \cup Elems(s)
  BY <1>2, <1>5 DEF Queued
<1> QED BY <1>7, <1>8

\* ... and the links still spell out the list.
LEMMA EnqueueLinks ==
    ASSUME TypeOK, QueuesApart, ListMatchesFifo,
           NEW q \in Queue, NEW s \in Seq(Node), s # <<>>, QueueAssumption,
           Injective(s), Elems(s) \cap Queued = {}, Enqueue(q, s)
    PROVE  ListMatchesFifo'
<1>1. fifo[q] \in Seq(Node) /\ fifo'[q] = fifo[q] \o s
  BY DEF TypeOK, Enqueue, Empty
<1>2. \A r \in Queue : r # q => /\ fifo'[r] = fifo[r] /\ first'[r] = first[r]
                                /\ last'[r] = last[r]
  BY DEF TypeOK, Enqueue, Empty
<1>3. Len(s) \in Nat \ {0} /\ Len(fifo'[q]) = Len(fifo[q]) + Len(s) /\ Len(fifo[q]) \in Nat
  BY <1>1
<1>4. \A n \in Node : n \in Elems(s) \/ (first[q] # Null /\ n = last[q]) \/ next'[n] = next[n]
  BY DEF Enqueue, Empty, Elems
<1>5. \A i \in 1..Len(s) : next'[s[i]] = IF i = Len(s) THEN Null ELSE s[i + 1]
  <2> SUFFICES ASSUME NEW i \in 1..Len(s)
               PROVE  next'[s[i]] = IF i = Len(s) THEN Null ELSE s[i + 1]
    OBVIOUS
  <2>1. i \in DOMAIN s /\ s[i] \in Node
    OBVIOUS
  <2>2. (CHOOSE j \in DOMAIN s : s[j] = s[i]) = i
    BY <2>1 DEF Injective
  <2> QED BY <2>1, <2>2 DEF Enqueue, Empty
<1>6. first[q] # Null <=> fifo[q] # <<>>
  <2>1. fifo[q] # <<>> => fifo[q][1] \in Node
    BY <1>1
  <2> QED BY <2>1 DEF ListMatchesFifo, QueueAssumption, Node
<1>7. fifo[q] # <<>> => last[q] = fifo[q][Len(fifo[q])] /\ last[q] \in Elems(fifo[q])
  BY <1>1 DEF ListMatchesFifo, Elems
<1>8. Elems(fifo[q]) \subseteq Queued
  BY DEF Queued
<1>9. fifo[q] # <<>> => next'[last[q]] = s[1]
  <2> SUFFICES ASSUME fifo[q] # <<>> PROVE next'[last[q]] = s[1]
    OBVIOUS
  <2>1. last[q] \in Node
    BY <1>1, <1>7
  <2>2. last[q] \notin Elems(s)
    BY <1>7, <1>8
  <2>3. ~\E i \in DOMAIN s : s[i] = last[q]
    BY <2>2 DEF Elems
  <2> QED BY <1>6, <2>1, <2>3 DEF Enqueue, Empty
<1>10. \A i \in 1..Len(fifo[q]) : i # Len(fifo[q]) => next'[fifo[q][i]] = fifo[q][i + 1]
  <2> SUFFICES ASSUME NEW i \in 1..Len(fifo[q]), i # Len(fifo[q])
               PROVE  next'[fifo[q][i]] = fifo[q][i + 1]
    OBVIOUS
  <2>1. fifo[q][i] \in Node /\ fifo[q][i] \in Elems(fifo[q]) /\ fifo[q][i] # last[q]
    BY <1>1, <1>7 DEF Elems, QueuesApart, Injective
  <2> QED BY <1>4, <1>8, <2>1 DEF ListMatchesFifo
<1>11. \A i \in 1..Len(fifo'[q]) :
         next'[fifo'[q][i]] = IF i = Len(fifo'[q]) THEN Null ELSE fifo'[q][i + 1]
  <2> SUFFICES ASSUME NEW i \in 1..Len(fifo'[q])
               PROVE  next'[fifo'[q][i]] = IF i = Len(fifo'[q]) THEN Null ELSE fifo'[q][i + 1]
    OBVIOUS
  <2>1. CASE i < Len(fifo[q])
    <3>1. \A m \in 1..Len(fifo[q]) : fifo'[q][m] = fifo[q][m]
      BY <1>1
    <3>2. /\ i \in 1..Len(fifo[q]) /\ i + 1 \in 1..Len(fifo[q])
          /\ i # Len(fifo'[q]) /\ i # Len(fifo[q])
      BY <1>3, <2>1
    <3>3. fifo'[q][i] = fifo[q][i] /\ fifo'[q][i + 1] = fifo[q][i + 1]
      BY <3>1, <3>2
    <3> QED BY <1>10, <3>2, <3>3
  <2>2. CASE i = Len(fifo[q])
    <3>1. fifo[q] # <<>> /\ fifo'[q][i] = fifo[q][i] /\ fifo'[q][i + 1] = s[1]
      BY <1>1, <1>3, <2>2
    <3> QED BY <1>3, <1>7, <1>9, <2>2, <3>1
  <2>3. CASE i > Len(fifo[q])
    <3> DEFINE k == i - Len(fifo[q])
    <3>1. k \in 1..Len(s) /\ fifo'[q][i] = s[k] /\ (i = Len(fifo'[q]) <=> k = Len(s))
      BY <1>1, <1>3, <2>3
    <3>2. k # Len(s) => fifo'[q][i + 1] = s[k + 1]
      <4>1. \A m \in 1..Len(s) : fifo'[q][Len(fifo[q]) + m] = s[m]
        BY <1>1, <1>3
      <4>2. k # Len(s) => k + 1 \in 1..Len(s) /\ i + 1 = Len(fifo[q]) + (k + 1)
        BY <1>3, <2>3, <3>1
      <4> HIDE DEF k
      <4>3. k # Len(s) => fifo'[q][Len(fifo[q]) + (k + 1)] = s[k + 1]
        BY <4>1, <4>2
      <4> QED BY <4>2, <4>3
    <3> QED BY <1>5, <3>1, <3>2
  <2> QED BY <1>3, <2>1, <2>2, <2>3
<1>12. /\ first'[q] = fifo'[q][1] /\ fifo'[q] # <<>>
       /\ last'[q] = fifo'[q][Len(fifo'[q])]
  <2>1. last'[q] = s[Len(s)] /\ first'[q] = IF first[q] = Null THEN s[1] ELSE first[q]
    BY DEF Enqueue, Empty, TypeOK
  <2> QED BY <1>1, <1>3, <1>6, <2>1 DEF ListMatchesFifo
<1>13. ASSUME NEW r \in Queue, r # q, NEW i \in 1..Len(fifo[r])
       PROVE  next'[fifo[r][i]] = next[fifo[r][i]]
  <2>1. fifo[r] \in Seq(Node)
    BY DEF TypeOK
  <2>2. fifo[r][i] \in Node /\ fifo[r][i] \in Elems(fifo[r]) /\ Elems(fifo[r]) \subseteq Queued
    BY <2>1 DEF Elems, Queued
  <2>3. fifo[r][i] \notin Elems(fifo[q])
    BY <1>13, <2>2 DEF QueuesApart
  <2> QED BY <1>4, <1>6, <1>7, <2>2, <2>3
<1> SUFFICES ASSUME NEW r \in Queue
             PROVE  /\ first'[r] = IF fifo'[r] = <<>> THEN Null ELSE fifo'[r][1]
                    /\ fifo'[r] # <<>> => last'[r] = fifo'[r][Len(fifo'[r])]
                    /\ \A i \in 1..Len(fifo'[r]) :
                          next'[fifo'[r][i]] = IF i = Len(fifo'[r]) THEN Null ELSE fifo'[r][i + 1]
  BY DEF ListMatchesFifo
<1>14. CASE r = q
  BY <1>11, <1>12, <1>14
<1>15. CASE r # q
  <2>1. fifo'[r] = fifo[r] /\ first'[r] = first[r] /\ last'[r] = last[r]
    BY <1>2, <1>15
  <2>2. \A i \in 1..Len(fifo[r]) : next'[fifo[r][i]] = next[fifo[r][i]]
    BY <1>13, <1>15
  <2> QED BY <2>1, <2>2 DEF ListMatchesFifo
<1> QED BY <1>14, <1>15

\* Taking the first node removes it, and only it, from its list.
LEMMA DequeueNodes ==
    ASSUME TypeOK, QueuesApart, ListMatchesFifo, QueueAssumption,
           NEW q \in Queue, first[q] # Null, Dequeue(q, first[q])
    PROVE  /\ fifo[q] # <<>> /\ first[q] = fifo[q][1] /\ first[q] \in Elems(fifo[q])
           /\ first[q] \in Node
           /\ QueuesApart' /\ Queued' = Queued \ {first[q]}
<1>1. fifo[q] \in Seq(Node) /\ fifo[q] # <<>> /\ first[q] = fifo[q][1]
  BY DEF ListMatchesFifo, TypeOK
<1>2. fifo'[q] = Tail(fifo[q]) /\ \A r \in Queue : r # q => fifo'[r] = fifo[r]
  BY DEF Dequeue, TypeOK
<1>3. first[q] \in Node /\ first[q] \in Elems(fifo[q])
  BY <1>1 DEF Elems
<1>4. \A i \in DOMAIN fifo'[q] : i \in Nat \ {0} /\ i + 1 \in DOMAIN fifo[q] /\ fifo'[q][i] = fifo[q][i + 1]
  BY <1>1, <1>2
<1>5. \A i \in DOMAIN fifo[q] : i # 1 => i \in Nat /\ i - 1 \in DOMAIN fifo'[q] /\ fifo'[q][i - 1] = fifo[q][i]
  BY <1>1, <1>2
<1>6. Elems(fifo'[q]) = Elems(fifo[q]) \ {first[q]}
  <2>1. ASSUME NEW i \in DOMAIN fifo'[q] PROVE fifo'[q][i] \in Elems(fifo[q]) \ {first[q]}
    <3>1. i + 1 \in DOMAIN fifo[q] /\ i + 1 # 1 /\ 1 \in DOMAIN fifo[q] /\ fifo'[q][i] = fifo[q][i + 1]
      BY <1>1, <1>4, <2>1
    <3>2. fifo[q][i + 1] # fifo[q][1]
      BY <3>1 DEF QueuesApart, Injective
    <3> QED BY <1>1, <3>1, <3>2 DEF Elems
  <2>2. ASSUME NEW i \in DOMAIN fifo[q], fifo[q][i] # first[q] PROVE fifo[q][i] \in Elems(fifo'[q])
    BY <1>1, <1>5, <2>2 DEF Elems
  <2> QED BY <2>1, <2>2 DEF Elems
<1>7. Injective(fifo'[q])
  BY <1>4 DEF QueuesApart, Injective
<1>8. QueuesApart'
  <2>1. \A r \in Queue : r # q => Elems(fifo'[q]) \cap Elems(fifo'[r]) = {}
    BY <1>2, <1>6 DEF QueuesApart
  <2> QED BY <1>2, <1>7, <2>1 DEF QueuesApart
<1>9. Queued' = Queued \ {first[q]}
  <2>1. \A r \in Queue : r # q => first[q] \notin Elems(fifo[r])
    BY <1>3 DEF QueuesApart
  <2> QED BY <1>2, <1>6, <2>1 DEF Queued
<1> QED BY <1>1, <1>3, <1>8, <1>9

\* ... and the links still spell out the list.
LEMMA DequeueLinks ==
    ASSUME TypeOK, QueuesApart, ListMatchesFifo, QueueAssumption,
           NEW q \in Queue, first[q] # Null, Dequeue(q, first[q])
    PROVE  ListMatchesFifo'
<1>1. /\ fifo[q] \in Seq(Node) /\ fifo[q] # <<>> /\ first[q] = fifo[q][1]
      /\ 1 \in DOMAIN fifo[q] /\ first[q] \in Node
  BY DEF ListMatchesFifo, TypeOK
<1>2. fifo'[q] = Tail(fifo[q]) /\ \A r \in Queue : r # q => fifo'[r] = fifo[r] /\ first'[r] = first[r]
  BY DEF Dequeue, TypeOK
<1>3. last' = last /\ first'[q] = next[first[q]]
  BY DEF Dequeue, TypeOK
<1>4. \A n \in Node : n # first[q] => next'[n] = next[n]
  BY DEF Dequeue, TypeOK
<1>5. Len(fifo'[q]) = Len(fifo[q]) - 1 /\ Len(fifo[q]) \in Nat \ {0}
  BY <1>1, <1>2
<1>6. \A i \in 1..Len(fifo'[q]) : i + 1 \in DOMAIN fifo[q] /\ fifo'[q][i] = fifo[q][i + 1]
  BY <1>1, <1>2
<1>7. ASSUME NEW i \in 1..Len(fifo'[q])
      PROVE  next'[fifo'[q][i]] = IF i = Len(fifo'[q]) THEN Null ELSE fifo'[q][i + 1]
  <2>1. fifo'[q][i] = fifo[q][i + 1] /\ i + 1 \in 1..Len(fifo[q]) /\ i + 1 # 1
    BY <1>1, <1>6
  <2>2. fifo[q][i + 1] # first[q] /\ fifo[q][i + 1] \in Node
    BY <1>1, <2>1 DEF QueuesApart, Injective
  <2>3. next'[fifo'[q][i]] = IF i + 1 = Len(fifo[q]) THEN Null ELSE fifo[q][(i + 1) + 1]
    BY <1>4, <2>1, <2>2 DEF ListMatchesFifo
  <2>4. i # Len(fifo'[q]) => i + 1 \in 1..Len(fifo'[q])
    BY <1>5
  <2>5. i # Len(fifo'[q]) => fifo'[q][i + 1] = fifo[q][(i + 1) + 1]
    BY <1>6, <2>4
  <2> QED BY <1>5, <2>3, <2>5
<1>8. /\ first'[q] = IF fifo'[q] = <<>> THEN Null ELSE fifo'[q][1]
      /\ fifo'[q] # <<>> => last'[q] = fifo'[q][Len(fifo'[q])]
  <2>1. next[fifo[q][1]] = IF Len(fifo[q]) = 1 THEN Null ELSE fifo[q][2]
    <3>1. \A i \in 1..Len(fifo[q]) : i = Len(fifo[q]) => next[fifo[q][i]] = Null
      BY DEF ListMatchesFifo
    <3>2. \A i \in 1..Len(fifo[q]) : i # Len(fifo[q]) =>
            \A j \in Nat : j = i + 1 => next[fifo[q][i]] = fifo[q][j]
      BY DEF ListMatchesFifo
    <3>3. 1 \in 1..Len(fifo[q]) /\ 2 = 1 + 1
      BY <1>5
    <3>4. CASE Len(fifo[q]) = 1
      BY <3>1, <3>3, <3>4
    <3>5. CASE Len(fifo[q]) # 1
      BY <3>2, <3>3, <3>5
    <3> QED BY <3>4, <3>5
  <2>2. fifo'[q] = <<>> <=> Len(fifo[q]) = 1
    <3>1. fifo'[q] \in Seq(Node)
      BY <1>1, <1>2
    <3>2. fifo'[q] = <<>> <=> Len(fifo'[q]) = 0
      BY <3>1, EmptySeq
    <3> QED BY <1>5, <3>2
  <2>3. fifo'[q] # <<>> => /\ fifo'[q][1] = fifo[q][2]
                           /\ fifo'[q][Len(fifo'[q])] = fifo[q][Len(fifo[q])]
    BY <1>1, <1>2
  <2>4. last[q] = fifo[q][Len(fifo[q])]
    BY <1>1 DEF ListMatchesFifo
  <2> QED BY <1>1, <1>3, <2>1, <2>2, <2>3, <2>4
<1>9. ASSUME NEW r \in Queue, r # q, NEW i \in 1..Len(fifo[r])
      PROVE  next'[fifo[r][i]] = next[fifo[r][i]]
  <2>1. fifo[r] \in Seq(Node)
    BY DEF TypeOK
  <2>2. fifo[r][i] \in Node /\ fifo[r][i] \in Elems(fifo[r])
    BY <2>1 DEF Elems
  <2>3. fifo[r][i] # first[q]
    BY <1>1, <1>9, <2>2 DEF QueuesApart, Elems
  <2> QED BY <1>4, <2>2, <2>3
<1>10. ASSUME NEW r \in Queue, r # q
       PROVE  /\ first'[r] = IF fifo'[r] = <<>> THEN Null ELSE fifo'[r][1]
              /\ fifo'[r] # <<>> => last'[r] = fifo'[r][Len(fifo'[r])]
              /\ \A i \in 1..Len(fifo'[r]) :
                   next'[fifo'[r][i]] = IF i = Len(fifo'[r]) THEN Null ELSE fifo'[r][i + 1]
  <2>1. fifo'[r] = fifo[r] /\ first'[r] = first[r] /\ last'[r] = last[r]
    BY <1>2, <1>3, <1>10
  <2> QED BY <1>9, <1>10, <2>1 DEF ListMatchesFifo
<1> QED BY <1>7, <1>8, <1>10 DEF ListMatchesFifo

-----------------------------------------------------------------------------
(***************************************************************************)
(* A task is in one place at a time.                                       *)
(***************************************************************************)

\* s is linked into q: nodes that were in no list and in no thread.
Links(q, s) ==
    /\ s \in Seq(Node) /\ s # <<>> /\ Injective(s)
    /\ Elems(s) \cap Queued = {}
    /\ \A t \in Thread : task[t] \notin Elems(s)
    /\ Enqueue(q, s)

LEMMA InvQueuesApart == ASSUME IInv PROVE QueuesApart
BY DEF IInv, NodesApart, QueuesApart

\* setThreads_LK links nothing, or fresh EndThreadTasks.
LEMMA SetThreadsLinks ==
    ASSUME IInv, NEW q \in Queue, NEW n \in Nat, SetThreads(q, n)
    PROVE  \/ UNCHANGED listVars
           \/ \E s : Links(q, s) /\ Elems(s) \cap InUse = {}
<1>1. CASE n > want[q] /\ GrowThreads(q, n - want[q])
  BY <1>1 DEF GrowThreads, listVars
<1>2. CASE n < want[q] /\ ShrinkThreads(q, want[q] - n)
  <2>1. PICK s \in Arrangements(EndTask \ InUse, want[q] - n) : Enqueue(q, s)
    BY <1>2 DEF ShrinkThreads
  <2>2. want[q] - n \in Nat \ {0}
    BY <1>2 DEF IInv, TypeOK
  <2>3. s \in Seq(Node) /\ s # <<>> /\ Injective(s)
    BY <2>2, ArrangementIsSeq DEF Node
  <2>4. Elems(s) \cap InUse = {}
    BY <2>1, <2>2 DEF Elems, Arrangements
  <2>5. Queued \subseteq InUse /\ \A t \in Thread : task[t] \in InUse
    BY DEF InUse
  <2> QED BY <2>1, <2>3, <2>4, <2>5 DEF Links
<1>3. CASE n = want[q] /\ UNCHANGED <<cur, numThreads, listVars, workerVars>>
  BY <1>3
<1> QED BY <1>1, <1>2, <1>3 DEF SetThreads

\* taskPush links the tasks of the call.
LEMMA PushLinks ==
    ASSUME IInv, NEW c \in Caller, DoPush(c)
    PROVE  /\ call[c] # <<>> /\ 1 \in DOMAIN call[c]
           /\ call[c][1].q \in Queue /\ Links(call[c][1].q, call[c][1].tasks)
           /\ Done(c) /\ UNCHANGED <<home, task>>
           /\ \A t \in Thread : pc'[t] = "run" <=> pc[t] = "run"
<1> DEFINE op == call[c][1]
<1>1. /\ call[c] # <<>> /\ 1 \in DOMAIN call[c] /\ op \in Ops /\ op.tasks # <<>>
      /\ Enqueue(op.q, op.tasks) /\ Wake(op.q, Len(op.tasks))
      /\ Done(c) /\ UNCHANGED <<home, task>>
  BY CallType DEF IInv, DoPush, CallsOK
<1>2. op.q \in Queue /\ op.tasks \in Seq(Node) /\ Len(op.tasks) \in Nat
  BY <1>1, OpsType DEF Node
<1>3. /\ Injective(op.tasks) /\ Elems(op.tasks) \cap Queued = {}
      /\ \A t \in Thread : task[t] \notin Elems(op.tasks)
  BY <1>1 DEF IInv, CallTasksApart
<1>4. \A t \in Thread : pc'[t] = "run" <=> pc[t] = "run"
  BY <1>1, <1>2, WakeRun DEF IInv
<1> QED BY <1>1, <1>2, <1>3, <1>4 DEF Links

\* Steps that touch neither a list nor a thread's task.
QuietStep ==
    \/ \E c \in Caller : Client(c)
    \/ \E t \in Thread : Wait(t) \/ NotifyDestroyed(t) \/ SpuriousWake(t)
    \/ DestroyBegin \/ DestroyLock \/ DestroyWait \/ DestroyWoken \/ SpuriousDestroyed
    \/ UNCHANGED vars

LEMMA QuietUnchanged ==
    ASSUME IInv, QuietStep
    PROVE  /\ UNCHANGED listVars /\ UNCHANGED task
           /\ \A t \in Thread : pc'[t] = "run" <=> pc[t] = "run"
<1>1. ASSUME NEW c \in Caller, Client(c)
      PROVE  /\ UNCHANGED listVars /\ UNCHANGED task
             /\ \A t \in Thread : pc'[t] = "run" <=> pc[t] = "run"
  BY <1>1, BeginType DEF IInv, workerVars
<1>2. ASSUME NEW t \in Thread, Wait(t) \/ NotifyDestroyed(t) \/ SpuriousWake(t)
      PROVE  /\ UNCHANGED listVars /\ UNCHANGED task
             /\ \A u \in Thread : pc'[u] = "run" <=> pc[u] = "run"
  BY <1>2 DEF IInv, TypeOK, Wait, NotifyDestroyed, SpuriousWake
<1>3. CASE DestroyBegin \/ DestroyLock \/ DestroyWait \/ DestroyWoken
             \/ SpuriousDestroyed \/ UNCHANGED vars
  BY <1>3 DEF DestroyBegin, DestroyLock, DestroyWait, DestroyWoken, SpuriousDestroyed,
              vars, workerVars, listVars
<1> QED BY <1>1, <1>2, <1>3 DEF QuietStep

LEMMA NodesApartStep ==
    ASSUME IInv, [Next]_vars
    PROVE  NodesApart'
<1> USE DEF IInv
<1>0. QueuesApart /\ QueueAssumption
  BY InvQueuesApart, QueueAssumption
<1>1. ASSUME NEW q \in Queue, NEW s, Links(q, s) \/ UNCHANGED listVars, UNCHANGED task,
             \A t \in Thread : pc'[t] = "run" <=> pc[t] = "run"
      PROVE  NodesApart'
  <2>1. CASE Links(q, s)
    <3>1. QueuesApart' /\ Queued' = Queued \cup Elems(s)
      BY <1>0, <2>1, EnqueueNodes DEF Links
    <3>2. \A t \in Thread : task'[t] = task[t] /\ task[t] \notin Queued /\ task[t] \notin Elems(s)
      BY <1>1, <2>1 DEF NodesApart, Links
    <3>3. \A t \in Thread : task'[t] \notin Queued'
      BY <3>1, <3>2
    <3>4. /\ \A t, u \in Thread : t # u /\ task'[t] = task'[u] => task'[t] = Null
          /\ \A t \in Thread : task'[t] # Null <=> pc'[t] = "run"
      BY <1>1 DEF NodesApart
    <3> QED BY <3>1, <3>3, <3>4 DEF NodesApart, QueuesApart
  <2>2. CASE UNCHANGED listVars
    BY <1>1, <2>2 DEF NodesApart, listVars, Queued
  <2> QED BY <1>1, <2>1, <2>2
<1>2. ASSUME NEW c \in Caller, DoCreate(c) \/ DoSet(c) PROVE NodesApart'
  <2>1. /\ call[c][1].q \in Queue /\ call[c][1].n \in Nat
        /\ SetThreads(call[c][1].q, call[c][1].n)
    BY <1>2, CallType, OpsType DEF DoCreate, DoSet
  <2> QED BY <1>1, <2>1, SetThreadsLinks, SetThreadsRun
<1>3. ASSUME NEW q \in Queue, DestroyEnd(q) PROVE NodesApart'
  BY <1>1, <1>3, SetThreadsLinks, SetThreadsRun DEF DestroyEnd
<1>4. ASSUME NEW c \in Caller, DoPush(c) PROVE NodesApart'
  BY <1>1, <1>4, PushLinks
<1>5. ASSUME NEW t \in Thread, Take(t) PROVE NodesApart'
  <2> DEFINE x == first[home[t]]
  <2>1. home[t] \in Queue /\ first[home[t]] # Null /\ Dequeue(home[t], first[home[t]])
    BY <1>5 DEF Take, TypeOK
  <2>2. /\ QueuesApart' /\ Queued' = Queued \ {x} /\ x \in Node
        /\ x \in Elems(fifo[home[t]])
    BY <1>0, <2>1, DequeueNodes
  <2>3. x \in Queued
    BY <2>1, <2>2 DEF Queued
  <2>4. task' = [task EXCEPT ![t] = x] /\ pc' = [pc EXCEPT ![t] = "run"]
    BY <1>5 DEF Take
  <2>5. x # Null
    BY <2>1
  <2> HIDE DEF x
  <2>6. \A u \in Thread : /\ task'[u] = IF u = t THEN x ELSE task[u]
                          /\ pc'[u] = IF u = t THEN "run" ELSE pc[u]
    BY <2>4 DEF TypeOK
  <2>7. \A u \in Thread : task[u] \notin Queued
    BY DEF NodesApart
  <2>8. \A u \in Thread : task'[u] \notin Queued'
    BY <2>2, <2>6, <2>7
  <2>9. \A u, v \in Thread : u # v /\ task'[u] = task'[v] => task'[u] = Null
    BY <2>3, <2>6, <2>7 DEF NodesApart
  <2>10. \A u \in Thread : task'[u] # Null <=> pc'[u] = "run"
    BY <2>5, <2>6 DEF NodesApart
  <2> QED BY <2>2, <2>8, <2>9, <2>10 DEF NodesApart, QueuesApart
<1>6. ASSUME NEW t \in Thread, Finish(t) \/ EndThread(t) PROVE NodesApart'
  <2>1. UNCHANGED fifo /\ Queued' = Queued
    BY <1>6 DEF Finish, EndThread, listVars, Queued
  <2>2. task' = [task EXCEPT ![t] = Null] /\ \A u \in Thread : pc'[u] = "run" <=> pc[u] = "run" /\ u # t
    BY <1>6 DEF Finish, EndThread, TypeOK
  <2>3. Null \notin Queued
    <3>1. \A q \in Queue : \A i \in DOMAIN fifo[q] : fifo[q][i] \in Node
      BY DEF TypeOK
    <3> QED BY <1>0, <3>1 DEF Queued, Elems, QueueAssumption, Node
  <2> QED BY <2>1, <2>2, <2>3 DEF NodesApart, TypeOK
<1>7. CASE QuietStep
  BY <1>0, <1>1, <1>7, QuietUnchanged DEF QueueAssumption
<1> QED BY <1>2, <1>3, <1>4, <1>5, <1>6, <1>7 DEF Next, Exec, Worker, Destroy, QuietStep

LEMMA ListStep ==
    ASSUME IInv, [Next]_vars
    PROVE  ListMatchesFifo'
<1> USE DEF IInv
<1>0. QueuesApart /\ QueueAssumption
  BY InvQueuesApart, QueueAssumption
<1>1. ASSUME NEW q \in Queue, NEW s, Links(q, s) \/ UNCHANGED listVars
      PROVE  ListMatchesFifo'
  <2>1. CASE Links(q, s)
    BY <1>0, <2>1, EnqueueLinks DEF Links
  <2>2. CASE UNCHANGED listVars
    BY <2>2 DEF ListMatchesFifo, listVars
  <2> QED BY <1>1, <2>1, <2>2
<1>2. ASSUME NEW c \in Caller, DoCreate(c) \/ DoSet(c) PROVE ListMatchesFifo'
  <2>1. /\ call[c][1].q \in Queue /\ call[c][1].n \in Nat
        /\ SetThreads(call[c][1].q, call[c][1].n)
    BY <1>2, CallType, OpsType DEF DoCreate, DoSet
  <2> QED BY <1>1, <2>1, SetThreadsLinks
<1>3. ASSUME NEW q \in Queue, DestroyEnd(q) PROVE ListMatchesFifo'
  BY <1>1, <1>3, SetThreadsLinks DEF DestroyEnd
<1>4. ASSUME NEW c \in Caller, DoPush(c) PROVE ListMatchesFifo'
  BY <1>1, <1>4, PushLinks
<1>5. ASSUME NEW t \in Thread, Take(t) PROVE ListMatchesFifo'
  <2>1. home[t] \in Queue /\ first[home[t]] # Null /\ Dequeue(home[t], first[home[t]])
    BY <1>5 DEF Take, TypeOK
  <2> QED BY <1>0, <2>1, DequeueLinks
<1>6. ASSUME NEW t \in Thread, Finish(t) \/ EndThread(t) PROVE ListMatchesFifo'
  BY <1>0, <1>1, <1>6 DEF Finish, EndThread, QueueAssumption
<1>7. CASE QuietStep
  BY <1>0, <1>1, <1>7, QuietUnchanged DEF QueueAssumption
<1> QED BY <1>2, <1>3, <1>4, <1>5, <1>6, <1>7 DEF Next, Exec, Worker, Destroy, QuietStep

-----------------------------------------------------------------------------
(***************************************************************************)
(* The tasks of outstanding calls.                                         *)
(***************************************************************************)

LEMMA EmptyElems == Elems(<<>>) = {} /\ Injective(<<>>)
BY DEF Elems, Injective

LEMMA CallTasksInUse ==
    \A c \in Caller : \A i \in DOMAIN call[c] : Elems(call[c][i].tasks) \subseteq InUse
BY DEF InUse, Pending

\* The tasks of the calls that are begun are in no other place.
LEMMA BeginTasks ==
    ASSUME IInv, NEW c \in Caller, Client(c)
    PROVE  /\ \A d \in Caller : d # c => call'[d] = call[d]
           /\ \A i \in DOMAIN call'[c] :
                /\ Injective(call'[c][i].tasks)
                /\ Elems(call'[c][i].tasks) \cap InUse = {}
                /\ \A j \in DOMAIN call'[c] :
                     Elems(call'[c][i].tasks) \cap Elems(call'[c][j].tasks) # {} => i = j
<1> USE DEF IInv
<1>1. \A d \in Caller : d # c => call'[d] = call[d]
  BY DEF Client, BeginPush, BeginCreate, BeginSet, BeginOnce, Begin, TypeOK
<1>2. CASE BeginPush(c)
  <2>0. PICK q \in Queue, k \in 1..MaxBatch :
            \E s \in Arrangements(Task \ InUse, k) : Begin(c, <<PushOp(q, s)>>)
    BY <1>2 DEF BeginPush
  <2>1. PICK s \in Arrangements(Task \ InUse, k) : Begin(c, <<PushOp(q, s)>>)
    BY <2>0
  <2>2. Injective(s) /\ Elems(s) \cap InUse = {}
    BY QueueAssumption DEF Arrangements, Elems
  <2>3. \A i \in DOMAIN call'[c] : i = 1 /\ call'[c][i].tasks = s
    BY <2>1 DEF Begin, TypeOK, PushOp, Op
  <2> QED BY <1>1, <2>2, <2>3
<1>3. CASE BeginCreate(c) \/ BeginSet(c)
  <2>1. PICK q \in Queue, n \in Nat :
            Begin(c, <<CreateOp(q, n)>>) \/ Begin(c, <<SetOp(q, n)>>)
    BY <1>3 DEF BeginCreate, BeginSet
  <2>2. \A i \in DOMAIN call'[c] : i = 1 /\ call'[c][i].tasks = <<>>
    BY <2>1 DEF Begin, TypeOK, CreateOp, SetOp, Op
  <2> QED BY <1>1, <2>2, EmptyElems
<1>4. CASE BeginOnce(c)
  <2>1. PICK q \in Queue, x \in Task \ InUse : Begin(c, OnceOps(q, x))
    BY <1>4 DEF BeginOnce
  <2>2. /\ call'[c] = OnceOps(q, x) /\ \A i \in DOMAIN call'[c] : i \in {1, 2, 3}
        /\ call'[c][1] = CreateOp(q, 1)
        /\ call'[c][2] = PushOp(q, <<x>>) /\ call'[c][3] = SetOp(q, 0)
    BY <2>1 DEF Begin, TypeOK, OnceOps
  <2>3. \A i \in DOMAIN call'[c] : call'[c][i].tasks = IF i = 2 THEN <<x>> ELSE <<>>
    BY <2>2 DEF CreateOp, PushOp, SetOp, Op
  <2>4. Elems(<<x>>) = {x} /\ Injective(<<x>>)
    BY DEF Elems, Injective
  <2> QED BY <1>1, <2>3, <2>4, EmptyElems
<1> QED BY <1>2, <1>3, <1>4 DEF Client

\* Outstanding calls keep apart while their tasks are neither linked nor run.
LEMMA ApartKept ==
    ASSUME CallTasksApart, NEW k \in [Caller -> Nat],
           \A c \in Caller : \A i \in DOMAIN call'[c] :
             /\ i \in Nat /\ i + k[c] \in DOMAIN call[c] /\ call'[c][i] = call[c][i + k[c]]
             /\ Elems(call'[c][i].tasks) \cap Queued' = {}
             /\ \A t \in Thread : task'[t] \notin Elems(call'[c][i].tasks)
    PROVE  CallTasksApart'
<1> SUFFICES ASSUME NEW c \in Caller, NEW i \in DOMAIN call'[c]
             PROVE  /\ Injective(call'[c][i].tasks)
                    /\ \A d \in Caller : \A j \in DOMAIN call'[d] :
                         Elems(call'[c][i].tasks) \cap Elems(call'[d][j].tasks) # {}
                           => c = d /\ i = j
  BY DEF CallTasksApart
<1>1. /\ i \in Nat /\ i + k[c] \in DOMAIN call[c] /\ call'[c][i] = call[c][i + k[c]]
      /\ k[c] \in Nat
  OBVIOUS
<1>2. Injective(call'[c][i].tasks)
  BY <1>1 DEF CallTasksApart
<1>3. ASSUME NEW d \in Caller, NEW j \in DOMAIN call'[d],
             Elems(call'[c][i].tasks) \cap Elems(call'[d][j].tasks) # {}
      PROVE  c = d /\ i = j
  <2>1. j \in Nat /\ j + k[d] \in DOMAIN call[d] /\ call'[d][j] = call[d][j + k[d]]
    OBVIOUS
  <2>2. c = d /\ i + k[c] = j + k[d]
    BY <1>1, <1>3, <2>1 DEF CallTasksApart
  <2> QED BY <1>1, <2>1, <2>2
<1> QED BY <1>2, <1>3

\* The same for the two ways call changes: not at all, or by a call being made.
LEMMA ApartSame ==
    ASSUME IInv, call' = call,
           \A c \in Caller : \A i \in DOMAIN call[c] :
             /\ Elems(call[c][i].tasks) \cap Queued' = {}
             /\ \A t \in Thread : task'[t] \notin Elems(call[c][i].tasks)
    PROVE  CallTasksApart'
<1> DEFINE k == [c \in Caller |-> 0]
<1>1. k \in [Caller -> Nat] /\ \A c \in Caller : k[c] = 0
  OBVIOUS
<1>2. \A c \in Caller : \A i \in DOMAIN call[c] : i \in Nat
  BY DEF IInv, TypeOK
<1> HIDE DEF k
<1> QED BY <1>1, <1>2, ApartKept DEF IInv

LEMMA ApartMade ==
    ASSUME IInv, NEW c \in Caller, call[c] # <<>>, Done(c), UNCHANGED task,
           \A d \in Caller : \A i \in DOMAIN call[d] :
             d # c \/ i # 1 => Elems(call[d][i].tasks) \cap Queued' = {}
    PROVE  CallTasksApart'
<1> DEFINE k == [d \in Caller |-> IF d = c THEN 1 ELSE 0]
<1>1. k \in [Caller -> Nat] /\ \A d \in Caller : k[d] = IF d = c THEN 1 ELSE 0
  OBVIOUS
<1> HIDE DEF k
<1>2. ASSUME NEW d \in Caller, NEW i \in DOMAIN call'[d]
      PROVE  /\ i \in Nat /\ i + k[d] \in DOMAIN call[d] /\ call'[d][i] = call[d][i + k[d]]
             /\ d # c \/ i + k[d] # 1
  <2>1. CASE d = c
    BY <1>1, <2>1, CallsMoveUp DEF IInv
  <2>2. CASE d # c
    <3>1. call'[d] = call[d] /\ call[d] \in Seq(Ops) /\ k[d] = 0
      BY <1>1, <2>2, CallsMoveUp DEF IInv, TypeOK
    <3> QED BY <2>2, <3>1
  <2> QED BY <2>1, <2>2
<1>3. ASSUME NEW d \in Caller, NEW i \in DOMAIN call'[d]
      PROVE  /\ Elems(call'[d][i].tasks) \cap Queued' = {}
             /\ \A t \in Thread : task'[t] \notin Elems(call'[d][i].tasks)
  BY <1>2 DEF IInv, CallTasksApart
<1> QED BY <1>1, <1>2, <1>3, ApartKept DEF IInv

\* What setThreads_LK links is none of the tasks of outstanding calls.
LEMMA SetThreadsCallTasks ==
    ASSUME IInv, NEW q \in Queue, NEW n \in Nat, SetThreads(q, n)
    PROVE  \A c \in Caller : \A i \in DOMAIN call[c] :
             Elems(call[c][i].tasks) \cap Queued' = {}
<1>1. CASE UNCHANGED listVars
  BY <1>1 DEF IInv, CallTasksApart, listVars, Queued
<1>2. ASSUME NEW s, Links(q, s), Elems(s) \cap InUse = {}
      PROVE  \A c \in Caller : \A i \in DOMAIN call[c] :
               Elems(call[c][i].tasks) \cap Queued' = {}
  <2>1. Queued' = Queued \cup Elems(s)
    BY <1>2, InvQueuesApart, EnqueueNodes DEF Links, IInv
  <2> QED BY <1>2, <2>1, CallTasksInUse DEF IInv, CallTasksApart
<1> QED BY <1>1, <1>2, SetThreadsLinks

LEMMA CallTasksApartStep ==
    ASSUME IInv, [Next]_vars
    PROVE  CallTasksApart'
<1> USE DEF IInv
<1>0. QueuesApart /\ QueueAssumption
  BY InvQueuesApart, QueueAssumption
<1>1. ASSUME NEW c \in Caller, Client(c) PROVE CallTasksApart'
  <2>1. Queued' = Queued /\ task' = task
    BY <1>1, BeginType DEF listVars, workerVars, Queued
  <2>2. Queued \subseteq InUse /\ \A t \in Thread : task[t] \in InUse
    BY DEF InUse
  <2>3. \A d \in Caller : d # c => \A i \in DOMAIN call'[d] :
          i \in DOMAIN call[d] /\ call'[d][i] = call[d][i] /\ Elems(call'[d][i].tasks) \subseteq InUse
    BY <1>1, BeginTasks, CallTasksInUse
  <2>4. ASSUME NEW d \in Caller, NEW i \in DOMAIN call'[d]
        PROVE  /\ Injective(call'[d][i].tasks)
               /\ Elems(call'[d][i].tasks) \cap Queued' = {}
               /\ \A t \in Thread : task'[t] \notin Elems(call'[d][i].tasks)
    <3>1. CASE d = c
      BY <1>1, <2>1, <2>2, <3>1, BeginTasks
    <3>2. CASE d # c
      BY <2>1, <2>3, <3>2 DEF CallTasksApart
    <3> QED BY <3>1, <3>2
  <2>5. ASSUME NEW d \in Caller, NEW i \in DOMAIN call'[d],
               NEW e \in Caller, NEW j \in DOMAIN call'[e],
               Elems(call'[d][i].tasks) \cap Elems(call'[e][j].tasks) # {}
        PROVE  d = e /\ i = j
    <3>1. CASE d = c /\ e = c
      BY <1>1, <2>5, <3>1, BeginTasks
    <3>2. CASE d # c /\ e # c
      BY <2>3, <2>5, <3>2 DEF CallTasksApart
    <3>3. CASE d = c /\ e # c
      <4>1. Elems(call'[d][i].tasks) \cap InUse = {} /\ Elems(call'[e][j].tasks) \subseteq InUse
        BY <1>1, <2>3, <3>3, BeginTasks
      <4> QED BY <2>5, <4>1
    <3>4. CASE d # c /\ e = c
      <4>1. Elems(call'[e][j].tasks) \cap InUse = {} /\ Elems(call'[d][i].tasks) \subseteq InUse
        BY <1>1, <2>3, <3>4, BeginTasks
      <4> QED BY <2>5, <4>1
    <3> QED BY <3>1, <3>2, <3>3, <3>4
  <2> QED BY <2>4, <2>5 DEF CallTasksApart
<1>2. ASSUME NEW c \in Caller, DoCreate(c) \/ DoSet(c) PROVE CallTasksApart'
  <2>1. /\ call[c] # <<>> /\ Done(c) /\ call[c][1].q \in Queue /\ call[c][1].n \in Nat
        /\ SetThreads(call[c][1].q, call[c][1].n)
    BY <1>2, CallType, OpsType DEF DoCreate, DoSet
  <2> QED BY <2>1, SetThreadsCallTasks, SetThreadsRun, ApartMade
<1>3. ASSUME NEW q \in Queue, DestroyEnd(q) PROVE CallTasksApart'
  <2>1. SetThreads(q, 0) /\ call' = call
    BY <1>3 DEF DestroyEnd
  <2>2. \A c \in Caller : \A i \in DOMAIN call[c] :
          \A t \in Thread : task'[t] \notin Elems(call[c][i].tasks)
    BY <2>1, SetThreadsRun DEF CallTasksApart
  <2> QED BY <2>1, <2>2, SetThreadsCallTasks, ApartSame
<1>4. ASSUME NEW c \in Caller, DoPush(c) PROVE CallTasksApart'
  <2>1. /\ call[c] # <<>> /\ 1 \in DOMAIN call[c] /\ call[c][1].q \in Queue
        /\ Links(call[c][1].q, call[c][1].tasks) /\ Done(c) /\ UNCHANGED task
    BY <1>4, PushLinks
  <2>2. Queued' = Queued \cup Elems(call[c][1].tasks)
    BY <1>0, <2>1, EnqueueNodes DEF Links
  <2>3. \A d \in Caller : \A i \in DOMAIN call[d] :
          d # c \/ i # 1 => Elems(call[d][i].tasks) \cap Queued' = {}
    <3> SUFFICES ASSUME NEW d \in Caller, NEW i \in DOMAIN call[d], d # c \/ i # 1
                 PROVE  Elems(call[d][i].tasks) \cap Queued' = {}
      OBVIOUS
    <3>1. Elems(call[d][i].tasks) \cap Queued = {}
      BY DEF CallTasksApart
    <3>2. Elems(call[d][i].tasks) \cap Elems(call[c][1].tasks) = {}
      <4>1. \A j \in DOMAIN call[c] :
              Elems(call[d][i].tasks) \cap Elems(call[c][j].tasks) # {} => d = c /\ i = j
        BY DEF CallTasksApart
      <4>2. 1 \in DOMAIN call[c] /\ ~(d = c /\ i = 1)
        BY <2>1
      <4> HIDE DEF IInv
      <4> QED BY <4>1, <4>2
    <3> QED BY <2>2, <3>1, <3>2
  <2> QED BY <2>1, <2>3, ApartMade
<1>5. ASSUME NEW t \in Thread, Take(t) PROVE CallTasksApart'
  <2>1. home[t] \in Queue /\ first[home[t]] # Null /\ Dequeue(home[t], first[home[t]])
    BY <1>5 DEF Take, TypeOK
  <2>2. Queued' \subseteq Queued /\ first[home[t]] \in Queued
    BY <1>0, <2>1, DequeueNodes DEF Queued
  <2>3. call' = call /\ \A u \in Thread : task'[u] = IF u = t THEN first[home[t]] ELSE task[u]
    BY <1>5 DEF Take, TypeOK
  <2>4. ASSUME NEW c \in Caller, NEW i \in DOMAIN call[c]
        PROVE  /\ Elems(call[c][i].tasks) \cap Queued' = {}
               /\ \A u \in Thread : task'[u] \notin Elems(call[c][i].tasks)
    <3>1. /\ Elems(call[c][i].tasks) \cap Queued = {}
          /\ \A u \in Thread : task[u] \notin Elems(call[c][i].tasks)
      BY DEF CallTasksApart
    <3> QED BY <2>2, <2>3, <3>1
  <2> QED BY <2>3, <2>4, ApartSame
<1>6. ASSUME NEW t \in Thread, Finish(t) \/ EndThread(t) PROVE CallTasksApart'
  <2>1. Queued' = Queued /\ call' = call
    BY <1>6 DEF Finish, EndThread, listVars, Queued
  <2>2. \A u \in Thread : task'[u] = IF u = t THEN Null ELSE task[u]
    BY <1>6 DEF Finish, EndThread, TypeOK
  <2>3. \A c \in Caller : \A i \in DOMAIN call[c] : Null \notin Elems(call[c][i].tasks)
    <3>1. \A c \in Caller : \A i \in DOMAIN call[c] : call[c][i] \in Ops
      BY DEF TypeOK
    <3>2. \A c \in Caller : \A i \in DOMAIN call[c] : call[c][i].tasks \in Seq(Task)
      BY <3>1, OpsType
    <3> QED BY <1>0, <3>2 DEF Elems, QueueAssumption
  <2>4. ASSUME NEW c \in Caller, NEW i \in DOMAIN call[c]
        PROVE  /\ Elems(call[c][i].tasks) \cap Queued' = {}
               /\ \A u \in Thread : task'[u] \notin Elems(call[c][i].tasks)
    <3>1. /\ Elems(call[c][i].tasks) \cap Queued = {}
          /\ \A u \in Thread : task[u] \notin Elems(call[c][i].tasks)
      BY DEF CallTasksApart
    <3> QED BY <2>1, <2>2, <2>3, <3>1
  <2> QED BY <2>1, <2>4, ApartSame
<1>7. CASE QuietStep /\ ~(\E c \in Caller : Client(c))
  <2>1. call' = call
    BY <1>7 DEF QuietStep, Wait, NotifyDestroyed, SpuriousWake, DestroyBegin, DestroyLock,
       DestroyWait, DestroyWoken, SpuriousDestroyed, vars
  <2>2. Queued' = Queued /\ task' = task
    BY <1>7, QuietUnchanged DEF listVars, Queued
  <2> QED BY <2>1, <2>2, ApartSame DEF CallTasksApart
<1> QED BY <1>1, <1>2, <1>3, <1>4, <1>5, <1>6, <1>7 DEF Next, Exec, Worker, Destroy, QuietStep

-----------------------------------------------------------------------------
(***************************************************************************)
(* The theorems.                                                           *)
(***************************************************************************)

\* As iTaskInitialize begins, there is nothing but its three calls.
LEMMA InitIInv == Init => IInv
<1> SUFFICES ASSUME Init PROVE IInv
  OBVIOUS
<1>0. QueueAssumption /\ Main \in Caller
  BY QueueAssumption DEF Caller
<1>1. PICK x \in Task :
        call = [c \in Caller |-> IF c = Main
                  THEN <<CreateOp(EventQ, EventThreads), PushOp(EventQ, <<x>>),
                         CreateOp(ComputeQ, ComputeThreads)>>
                  ELSE <<>>]
  BY DEF Init
<1>2. /\ call[Main][1] = CreateOp(EventQ, EventThreads) /\ call[Main][2] = PushOp(EventQ, <<x>>)
      /\ call[Main][3] = CreateOp(ComputeQ, ComputeThreads)
      /\ call[Main] # <<>> /\ DOMAIN call[Main] = {1, 2, 3}
      /\ \A c \in Caller : c # Main => call[c] = <<>>
  BY <1>0, <1>1
<1>3. Active = {} /\ Queued = {}
  BY <1>0 DEF Init, Active, Queued, Elems
<1>4. TypeOK
  <2>1. CreateOp(EventQ, EventThreads) \in Ops /\ PushOp(EventQ, <<x>>) \in Ops
        /\ CreateOp(ComputeQ, ComputeThreads) \in Ops
    BY <1>0 DEF CreateOp, EventThreads, PushOp, Op, Ops, QueueAssumption
  <2>2. call \in [Caller -> Seq(Ops)]
    BY <1>1, <2>1
  <2> QED BY <1>0, <2>2 DEF Init, TypeOK, QueueAssumption
<1>5. CallersAlive
  BY <1>0, <1>2 DEF Init, CallersAlive, QueueAssumption, Caller
<1>6. CallsOK
  <2>1. /\ call[Main][1].kind = "create" /\ call[Main][1].q = EventQ /\ call[Main][1].n = 1
        /\ call[Main][2].kind = "push" /\ call[Main][2].q = EventQ /\ call[Main][2].tasks = <<x>>
        /\ call[Main][3].kind = "create" /\ call[Main][3].q = ComputeQ
    BY <1>2 DEF CreateOp, PushOp, Op, EventThreads
  <2>2. QueueWillExist(Main, 2)
    BY <2>1 DEF QueueWillExist
  <2>3. qstate[EventQ] = "none"
    BY <1>0 DEF Init, QueueAssumption
  <2>4. QueueWillExist(Main, 1) /\ QueueWillExist(Main, 3)
    BY <2>1 DEF QueueWillExist
  <2>5. \A i \in {1, 2, 3} : EventCallOnlyAtStart(Main, i)
    BY <1>0, <2>1, <2>3 DEF EventCallOnlyAtStart, QueueAssumption
  <2>6. \A i \in {1, 2, 3} : call[Main][i].kind = "push" => call[Main][i].tasks # <<>>
    BY <2>1
  <2>7. \A c \in Caller : c # Main => DOMAIN call[c] = {}
    BY <1>2
  <2> QED BY <1>2, <2>2, <2>4, <2>5, <2>6, <2>7 DEF CallsOK
<1>7. EventQueueNotYet /\ OneEventThread
  BY <1>2, <1>3 DEF EventQueueNotYet, OneEventThread
<1>8. numThreads = Cardinality(Active)
  BY <1>3, FS_EmptySet DEF Init
<1>9. NoUseAfterDelete
  BY <1>0, <1>2, <1>3 DEF NoUseAfterDelete, CreateOp, Op
<1>10. NodesApart
  BY <1>0, <1>3 DEF Init, NodesApart, Elems, Injective, QueueAssumption
<1>11. CallTasksApart
  <2>1. call[Main][1].tasks = <<>> /\ call[Main][2].tasks = <<x>> /\ call[Main][3].tasks = <<>>
    BY <1>2 DEF CreateOp, PushOp, Op
  <2>2. Elems(<<x>>) = {x} /\ Injective(<<x>>) /\ x # Null
    BY <1>0 DEF Elems, Injective, QueueAssumption
  <2>3. \A t \in Thread : task[t] = Null
    BY DEF Init
  <2>4. \A c \in Caller : \A i \in DOMAIN call[c] :
          c = Main /\ call[c][i].tasks = IF i = 2 THEN <<x>> ELSE <<>>
    BY <1>2, <2>1
  <2> QED BY <1>3, <2>2, <2>3, <2>4, EmptyElems DEF CallTasksApart
<1>12. ListMatchesFifo
  BY DEF Init, ListMatchesFifo
<1> QED BY <1>4, <1>5, <1>6, <1>7, <1>8, <1>9, <1>10, <1>11, <1>12 DEF IInv

LEMMA StepIInv == IInv /\ [Next]_vars => IInv'
BY TypeStep, CallersAliveStep, CallsOKStep, EventQueueNotYetStep, OneEventThreadStep,
   CountStep, NoUseAfterDeleteStep, NodesApartStep, CallTasksApartStep, ListStep DEF IInv

\* The inductive invariant holds in every state the queues can reach.
THEOREM Invariance == Spec => []IInv
BY InitIInv, StepIInv, PTL DEF Spec

\* Every variable keeps its type.
THEOREM TypeCorrect == Spec => []TypeOK
<1>1. IInv => TypeOK
  BY DEF IInv
<1> QED BY <1>1, Invariance, PTL

\* The links of push and pop always spell out the tasks pushed and not popped.
THEOREM ListsCorrect == Spec => []ListMatchesFifo
<1>1. IInv => ListMatchesFifo
  BY DEF IInv
<1> QED BY <1>1, Invariance, PTL

\* No thread and no call outlives the queue it uses.
THEOREM NoDanglingQueue == Spec => []NoUseAfterDelete
<1>1. IInv => NoUseAfterDelete
  BY DEF IInv
<1> QED BY <1>1, Invariance, PTL

\* Tasks of the event queue never overlap.
THEOREM EventsSerialized == Spec => []EventTasksSerialized
<1>1. IInv => EventTasksSerialized
  BY DEF IInv, OneEventThread, EventTasksSerialized, Running, Active
<1> QED BY <1>1, Invariance, PTL

-----------------------------------------------------------------------------
(***************************************************************************)
(* The refinement of TaskFifo.                                             *)
(***************************************************************************)

\* Steps after which the same threads run the same tasks of the same queues.
LEMMA RunningSame ==
    ASSUME UNCHANGED task, \A t \in Thread : pc'[t] = "run" <=> pc[t] = "run",
           \A t \in Thread : pc[t] = "run" => home'[t] = home[t]
    PROVE  UNCHANGED runningTasks
<1>1. \A q \in Queue : Running(q)' = Running(q)
  BY DEF Running
<1> QED BY <1>1 DEF runningTasks

\* setThreads_LK does not move a running thread to another queue.
LEMMA SetThreadsHome ==
    ASSUME TypeOK, NEW q \in Queue, NEW n \in Nat, SetThreads(q, n)
    PROVE  \A t \in Thread : pc[t] = "run" => home'[t] = home[t]
BY DEF TypeOK, SetThreads, GrowThreads, ShrinkThreads, workerVars

\* Linking tasks is an Add of the abstract queue.
LEMMA LinksAdd ==
    ASSUME IInv, NEW q \in Queue, NEW s, Links(q, s), UNCHANGED runningTasks
    PROVE  Abstract!Add(q)
<1> USE DEF IInv
<1> DEFINE old == fifo[q] new == fifo'[q]
<1>1. /\ old \in Seq(Node) /\ s \in Seq(Node) /\ new = old \o s
      /\ \A r \in Queue \ {q} : fifo'[r] = fifo[r]
  BY DEF TypeOK, Links, Enqueue
<1>2. Len(old) <= Len(new) /\ \A i \in 1..Len(old) : new[i] = old[i]
  BY <1>1
<1>3. \A i \in (Len(old) + 1)..Len(new) :
        i - Len(old) \in DOMAIN s /\ new[i] = s[i - Len(old)] /\ i \in Nat
  BY <1>1
<1>4. ASSUME NEW i \in (Len(old) + 1)..Len(new), NEW r \in Queue
      PROVE  new[i] \in Node /\ ~Abstract!Holds(r, new[i])
  <2>1. new[i] \in Elems(s) /\ new[i] \in Node
    BY <1>1, <1>3 DEF Elems
  <2>2. ~\E j \in DOMAIN fifo[r] : fifo[r][j] = new[i]
    BY <2>1 DEF Links, Queued, Elems
  <2>3. new[i] \notin runningTasks[r]
    BY <2>1 DEF Links, runningTasks, Running
  <2> QED BY <2>1, <2>2, <2>3 DEF Abstract!Holds
<1>5. ASSUME NEW i \in (Len(old) + 1)..Len(new), NEW j \in (Len(old) + 1)..Len(new),
             new[i] = new[j]
      PROVE  i = j
  <2>1. Injective(s) /\ Len(old) \in Nat
    BY <1>1 DEF Links
  <2>2. i - Len(old) = j - Len(old)
    BY <1>3, <1>5, <2>1 DEF Injective
  <2> QED BY <1>3, <2>1, <2>2
<1> QED BY <1>1, <1>2, <1>4, <1>5 DEF Abstract!Add

\* A thread that takes a task starts it.
LEMMA TakeStarts ==
    ASSUME IInv, NEW t \in Thread, Take(t)
    PROVE  Abstract!Start(home[t])
<1> USE DEF IInv
<1> DEFINE q == home[t] x == first[home[t]]
<1>1. q \in Queue /\ x # Null /\ Dequeue(q, x)
  BY DEF Take, TypeOK
<1>2. fifo[q] # <<>> /\ x = Head(fifo[q]) /\ fifo' = [fifo EXCEPT ![q] = Tail(@)]
  <2>1. fifo[q] \in Seq(Node) /\ fifo[q] # <<>> /\ x = fifo[q][1]
    BY <1>1, InvQueuesApart, QueueAssumption, DequeueNodes DEF TypeOK
  <2> QED BY <1>1, <2>1 DEF Dequeue
<1>3. /\ pc[t] = "ready" /\ home' = home
      /\ \A u \in Thread : /\ task'[u] = IF u = t THEN x ELSE task[u]
                           /\ pc'[u] = IF u = t THEN "run" ELSE pc[u]
  BY DEF Take, TypeOK
<1> HIDE DEF x
<1>4. q = EventQ => runningTasks[q] = {}
  <2>1. q = EventQ => \A u \in Running(q) : FALSE
    BY <1>3 DEF OneEventThread, Active, Running
  <2> QED BY <1>1, <2>1 DEF runningTasks
<1>5. runningTasks' = [runningTasks EXCEPT ![q] = @ \cup {x}]
  <2>1. ASSUME NEW r \in Queue
        PROVE  runningTasks'[r] = IF r = q THEN runningTasks[r] \cup {x} ELSE runningTasks[r]
    <3>1. Running(r)' = IF r = q THEN Running(r) \cup {t} ELSE Running(r)
      BY <1>3 DEF Running
    <3>2. \A u \in Running(r) : task'[u] = task[u] /\ u # t
      BY <1>3 DEF Running
    <3>3. {task'[u] : u \in Running(r)} = {task[u] : u \in Running(r)}
      BY <3>2
    <3>4. task'[t] = x
      BY <1>3
    <3>5. {task'[u] : u \in Running(r)'} = IF r = q THEN {task[u] : u \in Running(r)} \cup {x}
                                           ELSE {task[u] : u \in Running(r)}
      BY <3>1, <3>3, <3>4
    <3> QED BY <3>5 DEF runningTasks
  <2> QED BY <2>1 DEF runningTasks
<1> QED BY <1>2, <1>4, <1>5 DEF Abstract!Start

\* A thread whose task returns finishes it.
LEMMA ReturnFinishes ==
    ASSUME IInv, NEW t \in Thread, Finish(t) \/ EndThread(t)
    PROVE  Abstract!Finish(home[t], task[t])
<1> USE DEF IInv
<1> DEFINE q == home[t] x == task[t]
<1>1. pc[t] = "run" /\ UNCHANGED fifo /\ home' = home /\ q \in Queue /\ x # Null
  BY DEF Finish, EndThread, listVars, TypeOK, NodesApart
<1>2. \A u \in Thread : /\ pc'[u] = "run" <=> pc[u] = "run" /\ u # t
                        /\ u # t => task'[u] = task[u]
  BY DEF Finish, EndThread, TypeOK
<1>3. \A u \in Thread : u # t => task[u] # x
  BY <1>1 DEF NodesApart
<1>4. x \in runningTasks[q]
  BY <1>1 DEF runningTasks, Running
<1> HIDE DEF x
<1>5. runningTasks' = [runningTasks EXCEPT ![q] = @ \ {x}]
  <2>1. ASSUME NEW r \in Queue
        PROVE  runningTasks'[r] = IF r = q THEN runningTasks[r] \ {x} ELSE runningTasks[r]
    <3>1. Running(r)' = Running(r) \ {t} /\ (r # q => t \notin Running(r))
      BY <1>1, <1>2 DEF Running
    <3>2. \A u \in Running(r) \ {t} : task'[u] = task[u] /\ task[u] # x
      BY <1>2, <1>3 DEF Running
    <3>3. {task'[u] : u \in Running(r) \ {t}} = {task[u] : u \in Running(r) \ {t}}
      BY <3>2
    <3>4. {task[u] : u \in Running(r) \ {t}} = {task[u] : u \in Running(r)} \ {x}
      BY <3>1, <3>2 DEF x
    <3>5. r # q => Running(r) \ {t} = Running(r)
      BY <3>1
    <3> QED BY <3>1, <3>3, <3>4, <3>5 DEF runningTasks
  <2> QED BY <2>1 DEF runningTasks
<1> QED BY <1>1, <1>4, <1>5 DEF Abstract!Finish, x

LEMMA InitAbstract == Init => Abstract!Init
<1> SUFFICES ASSUME Init PROVE Abstract!Init
  OBVIOUS
<1>1. \A q \in Queue : Running(q) = {}
  BY DEF Init, Running
<1>2. runningTasks = [q \in Queue |-> {}]
  BY <1>1 DEF runningTasks
<1> QED BY <1>2 DEF Init, Abstract!Init

LEMMA StepAbstract ==
    ASSUME IInv, [Next]_vars
    PROVE  [Abstract!Next]_(Abstract!vars)
<1> USE DEF IInv
<1>0. Null \notin Node
  BY QueueAssumption DEF Node
<1> SUFFICES Abstract!Next \/ UNCHANGED <<fifo, runningTasks>>
  BY DEF Abstract!vars
<1>1. ASSUME NEW q \in Queue, NEW n \in Nat, SetThreads(q, n)
      PROVE  Abstract!Next \/ UNCHANGED <<fifo, runningTasks>>
  <2>1. UNCHANGED runningTasks
    BY <1>1, SetThreadsRun, SetThreadsHome, RunningSame
  <2>2. CASE UNCHANGED listVars
    BY <2>1, <2>2 DEF listVars
  <2>3. ASSUME NEW s, Links(q, s) PROVE Abstract!Next
    BY <2>1, <2>3, LinksAdd DEF Abstract!Next
  <2> QED BY <1>1, <2>2, <2>3, SetThreadsLinks
<1>2. ASSUME NEW c \in Caller, DoCreate(c) \/ DoSet(c)
      PROVE  Abstract!Next \/ UNCHANGED <<fifo, runningTasks>>
  <2>1. /\ call[c][1].q \in Queue /\ call[c][1].n \in Nat
        /\ SetThreads(call[c][1].q, call[c][1].n)
    BY <1>2, CallType, OpsType DEF DoCreate, DoSet
  <2> QED BY <1>1, <2>1
<1>3. ASSUME NEW q \in Queue, DestroyEnd(q)
      PROVE  Abstract!Next \/ UNCHANGED <<fifo, runningTasks>>
  BY <1>1, <1>3 DEF DestroyEnd
<1>4. ASSUME NEW c \in Caller, DoPush(c) PROVE Abstract!Next
  <2>1. UNCHANGED runningTasks
    BY <1>4, PushLinks, RunningSame
  <2> QED BY <1>4, <2>1, PushLinks, LinksAdd DEF Abstract!Next
<1>5. ASSUME NEW t \in Thread, Take(t) PROVE Abstract!Next
  BY <1>5, TakeStarts DEF Abstract!Next, TypeOK
<1>6. ASSUME NEW t \in Thread, Finish(t) \/ EndThread(t) PROVE Abstract!Next
  <2>1. home[t] \in Queue /\ task[t] \in Node
    BY <1>0, <1>6 DEF Finish, EndThread, TypeOK, NodesApart
  <2> QED BY <1>6, <2>1, ReturnFinishes DEF Abstract!Next
<1>7. CASE QuietStep
  <2>1. UNCHANGED home
    BY <1>7, BeginType DEF QuietStep, Wait, NotifyDestroyed, SpuriousWake, DestroyBegin,
       DestroyLock, DestroyWait, DestroyWoken, SpuriousDestroyed, vars, workerVars
  <2> QED BY <1>7, <2>1, QuietUnchanged, RunningSame DEF listVars
<1> QED BY <1>2, <1>3, <1>4, <1>5, <1>6, <1>7 DEF Next, Exec, Worker, Destroy, QuietStep

\* The queues implement TaskFifo: every task pushed is started once, in the
\* order of the pushes, and tasks of the event queue one after the other.
THEOREM Refinement == Spec => ImplementsFifo
<1>1. IInv /\ [Next]_vars => [Abstract!Next]_(Abstract!vars)
  BY StepAbstract
<1> QED BY InitAbstract, <1>1, Invariance, PTL DEF Spec, Abstract!Spec, ImplementsFifo

-----------------------------------------------------------------------------
(***************************************************************************)
(* The counters, and the wake-ups that are counted by them.                *)
(***************************************************************************)
At(q) == {t \in Active : home[t] = q}
Ends(s) == {i \in DOMAIN s : s[i] \in EndTask}

\* curThreads counts the threads of the queue, and is ahead of wantThreads by
\* the EndThreadTasks that have still to run.
Counted(q) ==
    /\ cur[q] = Cardinality(At(q))
    /\ cur[q] = want[q] + Cardinality(Ends(fifo[q])) + Cardinality(EndsRunning(q))

\* While a thread sleeps, there is an awake one for every task.
Attended(q) == Waiting(q) # {} => Len(fifo[q]) <= Cardinality(Ready(q))

CountIInv == IInv /\ \A q \in Queue : Counted(q) /\ Attended(q)

LEMMA EndsFinite ==
    ASSUME NEW s \in Seq(Node)
    PROVE  IsFiniteSet(Ends(s)) /\ Cardinality(Ends(s)) \in Nat
<1>1. IsFiniteSet(1 .. Len(s)) /\ Ends(s) \subseteq 1 .. Len(s)
  BY FS_Interval DEF Ends
<1>2. IsFiniteSet(Ends(s))
  BY <1>1, FS_Subset
<1> QED BY <1>2, FS_CardinalityType

\* setThreads_LK links EndThreadTasks ...
LEMMA EndsAppended ==
    ASSUME NEW s \in Seq(Node), NEW u \in Seq(Node), \A i \in DOMAIN u : u[i] \in EndTask
    PROVE  Cardinality(Ends(s \o u)) = Cardinality(Ends(s)) + Len(u)
<1>1. PICK m \in Nat : m = Len(s) /\ DOMAIN s = 1 .. m
  OBVIOUS
<1>2. PICK n \in Nat : n = Len(u) /\ DOMAIN u = 1 .. n
  OBVIOUS
<1> DEFINE New == (m + 1) .. (m + n)
<1>3. DOMAIN (s \o u) = 1 .. (m + n)
  BY <1>1, <1>2
<1>4. \A i \in 1 .. m : (s \o u)[i] = s[i]
  BY <1>1, <1>2
<1>5. \A i \in New : (s \o u)[i] \in EndTask
  <2> TAKE i \in New
  <2>1. i - m \in 1 .. n
    BY <1>1, <1>2
  <2>2. (s \o u)[i] = u[i - m]
    BY <1>1, <1>2
  <2> QED BY <1>2, <2>1, <2>2
<1>6. Ends(s \o u) \subseteq Ends(s) \cup New
  <2>1. \A i \in 1 .. (m + n) : i \in 1 .. m \/ i \in New
    BY <1>1, <1>2
  <2> HIDE DEF New
  <2> QED BY <1>1, <1>3, <1>4, <2>1 DEF Ends
<1>7. Ends(s) \cup New \subseteq Ends(s \o u)
  <2>1. 1 .. m \subseteq 1 .. (m + n) /\ New \subseteq 1 .. (m + n)
    BY <1>1, <1>2
  <2> HIDE DEF New
  <2> QED BY <1>1, <1>3, <1>4, <1>5, <2>1 DEF Ends
<1>8. Ends(s) \cap New = {}
  BY <1>1, <1>2 DEF Ends
<1>9. IsFiniteSet(New) /\ Cardinality(New) = n
  <2>1. m + 1 \in Int /\ m + n \in Int
    BY <1>1, <1>2
  <2>2. /\ IsFiniteSet(New)
        /\ Cardinality(New) = (IF m + 1 > m + n THEN 0 ELSE (m + n) - (m + 1) + 1)
    BY <2>1, FS_Interval
  <2> HIDE DEF New
  <2> QED BY <1>1, <1>2, <2>2
<1> HIDE DEF New
<1>10. Ends(s \o u) = Ends(s) \cup New
  BY <1>6, <1>7
<1>11. Cardinality(Ends(s) \cup New)
         = Cardinality(Ends(s)) + Cardinality(New) - Cardinality(Ends(s) \cap New)
  BY <1>9, EndsFinite, FS_Union
<1>12. Cardinality(Ends(s) \cap New) = 0
  BY <1>8, FS_EmptySet
<1>13. Cardinality(Ends(s)) \in Nat
  BY EndsFinite
<1> QED BY <1>2, <1>9, <1>10, <1>11, <1>12, <1>13

\* ... taskPush does not ...
LEMMA EndsPushed ==
    ASSUME NEW s \in Seq(Node), NEW u \in Seq(Node), \A i \in DOMAIN u : u[i] \notin EndTask
    PROVE  Ends(s \o u) = Ends(s)
<1>1. PICK m \in Nat : m = Len(s) /\ DOMAIN s = 1 .. m
  OBVIOUS
<1>2. PICK n \in Nat : n = Len(u) /\ DOMAIN u = 1 .. n
  OBVIOUS
<1>3. DOMAIN (s \o u) = 1 .. (m + n)
  BY <1>1, <1>2
<1>4. \A i \in 1 .. m : i \in 1 .. (m + n) /\ (s \o u)[i] = s[i]
  BY <1>1, <1>2
<1>5. \A i \in 1 .. (m + n) : i \in 1 .. m \/ (s \o u)[i] \notin EndTask
  <2> TAKE i \in 1 .. (m + n)
  <2>1. i \in 1 .. m \/ (i - m \in 1 .. n /\ (s \o u)[i] = u[i - m])
    BY <1>1, <1>2
  <2> QED BY <1>2, <2>1
<1> QED BY <1>1, <1>3, <1>4, <1>5 DEF Ends

\* ... and pop takes the first node.
LEMMA EndsTail ==
    ASSUME NEW s \in Seq(Node), s # <<>>
    PROVE  Cardinality(Ends(s))
             = Cardinality(Ends(Tail(s))) + (IF s[1] \in EndTask THEN 1 ELSE 0)
<1>1. PICK n \in Nat : n = Len(s) /\ DOMAIN s = 1 .. n /\ n > 0
  OBVIOUS
<1> DEFINE t == Tail(s)
           B == Ends(t)
           C == {j \in 2 .. n : s[j] \in EndTask}
           f == [i \in B |-> i + 1]
<1>2. t \in Seq(Node) /\ DOMAIN t = 1 .. n - 1 /\ \A i \in 1 .. n - 1 : t[i] = s[i + 1]
  BY <1>1
<1> HIDE DEF t
<1>3. \A i \in B : i \in 1 .. n - 1 /\ i + 1 \in C
  BY <1>1, <1>2 DEF Ends
<1>4. \A j \in C : j - 1 \in B /\ (j - 1) + 1 = j
  <2> TAKE j \in C
  <2>1. j - 1 \in 1 .. n - 1 /\ (j - 1) + 1 = j
    BY <1>1
  <2> QED BY <1>2, <2>1 DEF Ends
<1>5. f \in Bijection(B, C)
  <2>1. f \in [B -> C]
    BY <1>3
  <2>2. \A i, j \in B : f[i] = f[j] => i = j
    BY <1>1, <1>3
  <2>3. \A j \in C : \E i \in B : f[i] = j
    BY <1>4
  <2> HIDE DEF f, B, C
  <2> QED BY <2>1, <2>2, <2>3, Fun_IsBij
<1>6. IsFiniteSet(B) /\ Cardinality(B) \in Nat
  BY <1>2, EndsFinite
<1>7. IsFiniteSet(C) /\ Cardinality(C) = Cardinality(B)
  <2> HIDE DEF B, C, f
  <2> QED BY <1>5, <1>6, FS_Bijection DEF ExistsBijection
<1>8. 1 \notin C
  OBVIOUS
<1>9. Ends(s) = IF s[1] \in EndTask THEN C \cup {1} ELSE C
  <2>1. \A i \in 1 .. n : i = 1 \/ i \in 2 .. n
    BY <1>1
  <2>2. 1 \in 1 .. n /\ 2 .. n \subseteq 1 .. n
    BY <1>1
  <2>3. \A i : i \in Ends(s) <=> i \in 1 .. n /\ s[i] \in EndTask
    BY <1>1 DEF Ends
  <2>4. \A i : i \in C <=> i \in 2 .. n /\ s[i] \in EndTask
    OBVIOUS
  <2> HIDE DEF C
  <2>5. \A i : i \in Ends(s) => i \in C \/ (i = 1 /\ s[1] \in EndTask)
    BY <2>1, <2>3, <2>4
  <2>6. \A i : i \in C \/ (i = 1 /\ s[1] \in EndTask) => i \in Ends(s)
    BY <2>2, <2>3, <2>4
  <2> QED BY <2>5, <2>6
<1>10. Cardinality(C \cup {1}) = Cardinality(C) + 1
  <2> HIDE DEF C
  <2> QED BY <1>7, <1>8, FS_AddElement
<1> HIDE DEF B, C
<1> QED BY <1>6, <1>7, <1>9, <1>10 DEF B, t

LEMMA ThreadsFinite ==
    ASSUME NEW S \in SUBSET Thread
    PROVE  IsFiniteSet(S) /\ Cardinality(S) \in Nat
BY QueueAssumption, FS_Subset, FS_CardinalityType

LEMMA ThreadSets ==
    ASSUME NEW q
    PROVE  /\ At(q) \in SUBSET Thread /\ Ready(q) \in SUBSET Thread
           /\ Waiting(q) \in SUBSET Thread /\ EndsRunning(q) \in SUBSET Thread
BY DEF At, Active, Ready, Waiting, EndsRunning, Running

\* What Counted and Attended are about has not changed for q.
SameCounts(q) ==
    /\ cur'[q] = cur[q] /\ want'[q] = want[q] /\ fifo'[q] = fifo[q]
    /\ At(q)' = At(q) /\ EndsRunning(q)' = EndsRunning(q)

SameSleepers(q) ==
    fifo'[q] = fifo[q] /\ Waiting(q)' = Waiting(q) /\ Ready(q) \subseteq Ready(q)'

LEMMA SameIsCounted ==
    ASSUME NEW q \in Queue, SameCounts(q), Counted(q)
    PROVE  Counted(q)'
BY DEF SameCounts, Counted

LEMMA SameIsAttended ==
    ASSUME TypeOK, NEW q \in Queue, SameSleepers(q), Ready(q)' \in SUBSET Thread, Attended(q)
    PROVE  Attended(q)'
<1>1. /\ Cardinality(Ready(q)) \in Nat /\ Cardinality(Ready(q)') \in Nat
      /\ Cardinality(Ready(q)) <= Cardinality(Ready(q)')
  BY ThreadSets, ThreadsFinite, FS_Subset DEF SameSleepers
<1>2. Len(fifo[q]) \in Nat /\ fifo'[q] = fifo[q] /\ Waiting(q)' = Waiting(q)
  BY DEF TypeOK, SameSleepers
<1> QED BY <1>1, <1>2 DEF Attended

\* setThreads_LK counts what it starts and what it tells to end, and leaves no
\* thread of the queue asleep.
LEMMA SetThreadsCounts ==
    ASSUME CountIInv, NEW q \in Queue, NEW n \in Nat, SetThreads(q, n)
    PROVE  \A r \in Queue : Counted(r)' /\ Attended(r)'
<1> USE DEF CountIInv
<1>0. TypeOK /\ \A r \in Queue : Ready(r)' \in SUBSET Thread
  BY DEF IInv, Ready
<1>1. /\ want[q] \in Nat /\ want' = [want EXCEPT ![q] = n] /\ want'[q] = n
      /\ \A r \in Queue : cur[r] \in Int /\ want[r] \in Nat
  BY <1>0 DEF TypeOK, SetThreads
<1>2. CASE n > want[q] /\ GrowThreads(q, n - want[q])
  <2>1. PICK S \in SUBSET {t \in Thread : pc[t] = "none"} :
            /\ Cardinality(S) = n - want[q]
            /\ pc' = [t \in Thread |-> IF t \in S THEN "ready" ELSE pc[t]]
            /\ home' = [t \in Thread |-> IF t \in S THEN q ELSE home[t]]
    BY <1>2 DEF GrowThreads
  <2>2. cur' = [cur EXCEPT ![q] = @ + (n - want[q])] /\ fifo' = fifo /\ task' = task
    BY <1>2 DEF GrowThreads
  <2>3. \A t \in Thread : t \in S => pc[t] = "none" /\ pc'[t] = "ready" /\ home'[t] = q
    BY <2>1
  <2>4. \A t \in Thread : t \notin S => pc'[t] = pc[t] /\ home'[t] = home[t]
    BY <2>1
  <2>5. ASSUME NEW r \in Queue
        PROVE  /\ EndsRunning(r)' = EndsRunning(r) /\ Waiting(r)' = Waiting(r)
               /\ Ready(r) \subseteq Ready(r)'
               /\ At(r)' = IF r = q THEN At(r) \cup S ELSE At(r)
    <3>1. EndsRunning(r)' = EndsRunning(r)
      BY <2>2, <2>3, <2>4 DEF EndsRunning, Running
    <3>2. Waiting(r)' = Waiting(r)
      BY <2>3, <2>4 DEF Waiting
    <3>3. Ready(r) \subseteq Ready(r)'
      BY <2>3, <2>4 DEF Ready
    <3>4. At(r)' = IF r = q THEN At(r) \cup S ELSE At(r)
      BY <2>1, <2>3, <2>4 DEF At, Active
    <3> QED BY <3>1, <3>2, <3>3, <3>4
  <2>6. ASSUME NEW r \in Queue, r # q
        PROVE  Counted(r)'
    <3>1. SameCounts(r)
      BY <1>0, <1>1, <2>2, <2>5, <2>6 DEF SameCounts, TypeOK
    <3> QED BY <3>1, SameIsCounted
  <2>7. Counted(q)'
    <3>1. S \in SUBSET Thread /\ At(q) \cap S = {}
      BY <2>1, <2>3 DEF At, Active
    <3>2. Cardinality(At(q) \cup S) = Cardinality(At(q)) + Cardinality(S) - Cardinality(At(q) \cap S)
      BY <3>1, ThreadSets, ThreadsFinite, FS_Union
    <3>3. Cardinality(At(q) \cap S) = 0
      BY <3>1, FS_EmptySet
    <3>4. cur'[q] = cur[q] + (n - want[q])
      BY <1>0, <2>2 DEF TypeOK
    <3>5. Cardinality(At(q)) \in Nat /\ Cardinality(EndsRunning(q)) \in Nat
      BY ThreadSets, ThreadsFinite
    <3>6. Cardinality(Ends(fifo[q])) \in Nat
      BY <1>0, EndsFinite DEF TypeOK
    <3>7. /\ cur[q] = Cardinality(At(q))
          /\ cur[q] = want[q] + Cardinality(Ends(fifo[q])) + Cardinality(EndsRunning(q))
      BY DEF Counted
    <3>8. At(q)' = At(q) \cup S /\ EndsRunning(q)' = EndsRunning(q) /\ fifo' = fifo
      BY <2>2, <2>5
    <3>9. cur'[q] = Cardinality(At(q)')
      BY <1>1, <2>1, <3>2, <3>3, <3>4, <3>5, <3>7, <3>8
    <3>10. cur'[q] = want'[q] + Cardinality(Ends(fifo'[q])) + Cardinality(EndsRunning(q)')
      BY <1>1, <3>4, <3>5, <3>6, <3>7, <3>8
    <3> QED BY <3>9, <3>10 DEF Counted
  <2>8. ASSUME NEW r \in Queue
        PROVE  Attended(r)'
    <3>1. SameSleepers(r)
      BY <2>2, <2>5 DEF SameSleepers
    <3> QED BY <1>0, <3>1, SameIsAttended
  <2> QED BY <2>6, <2>7, <2>8
<1>3. CASE n < want[q] /\ ShrinkThreads(q, want[q] - n)
  <2>1. PICK s \in Arrangements(EndTask \ InUse, want[q] - n) : Enqueue(q, s)
    BY <1>3 DEF ShrinkThreads
  <2>2. cur' = cur /\ home' = home /\ task' = task /\ WakeAll(q)
    BY <1>3 DEF ShrinkThreads
  <2>3. want[q] - n \in Nat
    BY <1>1, <1>3
  <2>4. s \in Seq(Node) /\ Len(s) = want[q] - n /\ \A i \in DOMAIN s : s[i] \in EndTask
    <3>1. s \in Seq(EndTask \ InUse) /\ Len(s) = want[q] - n
      BY <2>3, ArrangementIsSeq
    <3> QED BY <3>1 DEF Node
  <2>5. fifo' = [fifo EXCEPT ![q] = @ \o s]
    BY <2>1 DEF Enqueue
  <2>6. \A t \in Thread : pc'[t] = IF pc[t] = "wait" /\ home[t] = q THEN "ready" ELSE pc[t]
    BY <2>2 DEF WakeAll, Waiting
  <2>7. ASSUME NEW r \in Queue
        PROVE  At(r)' = At(r) /\ EndsRunning(r)' = EndsRunning(r)
    <3>1. At(r)' = At(r)
      BY <2>2, <2>6 DEF At, Active
    <3>2. EndsRunning(r)' = EndsRunning(r)
      BY <2>2, <2>6 DEF EndsRunning, Running
    <3> QED BY <3>1, <3>2
  <2>8. Counted(q)'
    <3>1. /\ cur[q] = Cardinality(At(q))
          /\ cur[q] = want[q] + Cardinality(Ends(fifo[q])) + Cardinality(EndsRunning(q))
      BY DEF Counted
    <3>2. fifo[q] \in Seq(Node) /\ fifo'[q] = fifo[q] \o s
      BY <1>0, <2>5 DEF TypeOK
    <3>3. Cardinality(Ends(fifo[q] \o s)) = Cardinality(Ends(fifo[q])) + (want[q] - n)
      BY <2>4, <3>2, EndsAppended
    <3>4. Cardinality(EndsRunning(q)) \in Nat /\ Cardinality(Ends(fifo[q])) \in Nat
      BY <3>2, ThreadSets, ThreadsFinite, EndsFinite
    <3>5. cur'[q] = want'[q] + Cardinality(Ends(fifo'[q])) + Cardinality(EndsRunning(q)')
      BY <1>1, <2>2, <2>7, <3>1, <3>2, <3>3, <3>4
    <3> QED BY <2>2, <2>7, <3>1, <3>5 DEF Counted
  <2>9. ASSUME NEW r \in Queue, r # q
        PROVE  Counted(r)' /\ Attended(r)'
    <3>1. SameCounts(r)
      BY <1>0, <1>1, <2>2, <2>5, <2>7, <2>9 DEF SameCounts, TypeOK
    <3>2. SameSleepers(r)
      BY <1>0, <2>2, <2>5, <2>6, <2>9 DEF SameSleepers, TypeOK, Waiting, Ready
    <3> QED BY <1>0, <3>1, <3>2, SameIsCounted, SameIsAttended
  <2>10. Attended(q)'
    <3>1. Waiting(q)' = {}
      BY <2>2, <2>6 DEF Waiting
    <3> QED BY <3>1 DEF Attended
  <2> QED BY <2>8, <2>9, <2>10
<1>4. CASE n = want[q] /\ UNCHANGED <<cur, numThreads, listVars, workerVars>>
  <2>1. ASSUME NEW r \in Queue
        PROVE  SameCounts(r) /\ SameSleepers(r)
    <3>1. cur' = cur /\ fifo' = fifo /\ pc' = pc /\ home' = home /\ task' = task
      BY <1>4 DEF listVars, workerVars
    <3>2. want'[r] = want[r]
      BY <1>0, <1>1, <1>4 DEF TypeOK
    <3> QED BY <3>1, <3>2
            DEF SameCounts, SameSleepers, At, Active, EndsRunning, Running, Waiting, Ready
  <2> QED BY <1>0, <2>1, SameIsCounted, SameIsAttended
<1> QED BY <1>2, <1>3, <1>4 DEF SetThreads

\* taskPush wakes as many threads as it links tasks, or all that sleep.
LEMMA PushCounts ==
    ASSUME CountIInv, NEW c \in Caller, DoPush(c)
    PROVE  \A r \in Queue : Counted(r)' /\ Attended(r)'
<1> USE DEF CountIInv
<1>0. TypeOK /\ \A r \in Queue : Ready(r)' \in SUBSET Thread
  BY DEF IInv, Ready
<1>1. PICK q \in Queue, s \in Seq(Task) :
        /\ s # <<>> /\ Enqueue(q, s) /\ Wake(q, Len(s))
        /\ cur' = cur /\ want' = want /\ home' = home /\ task' = task
  <2>1. /\ call[c] # <<>> /\ Head(call[c]) = call[c][1] /\ Head(call[c]) \in Ops
        /\ call[c][1].kind = "push" /\ 1 \in DOMAIN call[c]
        /\ Enqueue(call[c][1].q, call[c][1].tasks)
        /\ Wake(call[c][1].q, Len(call[c][1].tasks))
        /\ cur' = cur /\ want' = want /\ home' = home /\ task' = task
    BY <1>0, CallType DEF DoPush, countVars
  <2>2. call[c][1].q \in Queue /\ call[c][1].tasks \in Seq(Task)
    BY <2>1, OpsType
  <2>3. call[c][1].tasks # <<>>
    BY <2>1 DEF IInv, CallsOK
  <2> QED BY <2>1, <2>2, <2>3
<1>2. q \in Queue /\ s \in Seq(Task)
  BY <1>1
<1>3. s # <<>>
  BY <1>1
<1>4. s \in Seq(Node) /\ Len(s) \in Nat \ {0} /\ \A i \in DOMAIN s : s[i] \notin EndTask
  <2>1. Len(s) \in Nat \ {0} /\ \A i \in DOMAIN s : s[i] \in Task
    BY <1>2, <1>3
  <2> QED BY <1>2, <2>1, QueueAssumption DEF Node
<1>5. fifo' = [fifo EXCEPT ![q] = @ \o s] /\ fifo[q] \in Seq(Node)
  BY <1>0, <1>1, <1>2 DEF Enqueue, TypeOK
<1>6. Ends(fifo[q] \o s) = Ends(fifo[q])
  BY <1>4, <1>5, EndsPushed
<1>7. PICK W \in SUBSET Waiting(q) :
        /\ \A t \in Thread : pc'[t] = IF t \in W THEN "ready" ELSE pc[t]
        /\ \/ W = Waiting(q)
           \/ (\E t \in W : W = {t}) /\ ~(Len(s) > 1 /\ cur[q] > 1)
  <2>1. CASE Len(s) > 1 /\ cur[q] > 1
    <3>1. \A t \in Thread : pc'[t] = IF t \in Waiting(q) THEN "ready" ELSE pc[t]
      BY <1>1, <2>1 DEF Wake, WakeAll
    <3> QED BY <3>1
  <2>2. CASE ~(Len(s) > 1 /\ cur[q] > 1)
    <3>1. WakeOne(q)
      BY <1>1, <2>2 DEF Wake
    <3>2. CASE Waiting(q) = {} /\ pc' = pc
      BY <3>2
    <3>3. CASE \E t \in Waiting(q) : pc' = [pc EXCEPT ![t] = "ready"]
      <4>1. PICK t \in Waiting(q) : pc' = [pc EXCEPT ![t] = "ready"]
        BY <3>3
      <4>2. \A u \in Thread : pc'[u] = IF u \in {t} THEN "ready" ELSE pc[u]
        BY <1>0, <4>1 DEF TypeOK
      <4>3. {t} \in SUBSET Waiting(q) /\ \E u \in {t} : {t} = {u}
        BY <4>1
      <4> QED BY <2>2, <4>2, <4>3
    <3> QED BY <3>1, <3>2, <3>3 DEF WakeOne
  <2> QED BY <2>1, <2>2
<1>8. \A t \in W : t \in Thread /\ pc[t] = "wait" /\ home[t] = q
  BY <1>7 DEF Waiting
<1>9. ASSUME NEW r \in Queue
      PROVE  At(r)' = At(r) /\ EndsRunning(r)' = EndsRunning(r)
  <2>1. At(r)' = At(r)
    BY <1>1, <1>7, <1>8 DEF At, Active
  <2>2. EndsRunning(r)' = EndsRunning(r)
    BY <1>1, <1>7, <1>8 DEF EndsRunning, Running
  <2> QED BY <2>1, <2>2
<1>10. Counted(q)'
  <2>1. fifo'[q] = fifo[q] \o s
    BY <1>0, <1>2, <1>5 DEF TypeOK
  <2>2. Ends(fifo'[q]) = Ends(fifo[q]) /\ cur'[q] = cur[q] /\ want'[q] = want[q]
    BY <1>1, <1>6, <2>1
  <2>3. At(q)' = At(q) /\ EndsRunning(q)' = EndsRunning(q)
    BY <1>2, <1>9
  <2> QED BY <1>2, <2>2, <2>3 DEF Counted
<1>11. ASSUME NEW r \in Queue, r # q
       PROVE  Counted(r)' /\ Attended(r)'
  <2>1. SameCounts(r)
    BY <1>0, <1>1, <1>2, <1>5, <1>9, <1>11 DEF SameCounts, TypeOK
  <2>2. SameSleepers(r)
    BY <1>0, <1>1, <1>5, <1>7, <1>8, <1>11 DEF SameSleepers, TypeOK, Waiting, Ready
  <2> QED BY <1>0, <2>1, <2>2, SameIsCounted, SameIsAttended
<1>12. Attended(q)'
  <2>1. Waiting(q)' = Waiting(q) \ W /\ Ready(q)' = Ready(q) \cup W
    <3>1. Waiting(q)' = Waiting(q) \ W
      BY <1>1, <1>7, <1>8 DEF Waiting
    <3>2. Ready(q)' = Ready(q) \cup W
      BY <1>1, <1>7, <1>8 DEF Ready
    <3> QED BY <3>1, <3>2
  <2>2. CASE W = Waiting(q)
    BY <2>1, <2>2 DEF Attended
  <2>3. ASSUME NEW t \in W, W = {t}, W # Waiting(q), ~(Len(s) > 1 /\ cur[q] > 1)
        PROVE  Attended(q)'
    <3>1. PICK u \in Waiting(q) : u # t
      BY <1>7, <2>3
    <3>2. {t, u} \subseteq At(q)
      BY <1>8, <3>1 DEF At, Active, Waiting
    <3>3. Cardinality({t, u}) <= Cardinality(At(q)) /\ Cardinality(At(q)) \in Nat
      BY <3>2, ThreadSets, ThreadsFinite, FS_Subset
    <3>4. Cardinality({t, u}) = 2
      <4>1. IsFiniteSet({t}) /\ Cardinality({t}) = 1
        BY FS_Singleton
      <4>2. Cardinality({t} \cup {u}) = Cardinality({t}) + 1
        BY <3>1, <4>1, FS_AddElement
      <4>3. {t, u} = {t} \cup {u}
        OBVIOUS
      <4> QED BY <4>1, <4>2, <4>3
    <3>5. cur[q] > 1
      BY <1>2, <3>3, <3>4 DEF Counted
    <3>6. Len(s) = 1
      <4>1. PICK n \in Nat \ {0} : n = Len(s)
        BY <1>4
      <4>2. ~(n > 1)
        BY <2>3, <3>5, <4>1
      <4> QED BY <4>1, <4>2
    <3>7. Len(fifo'[q]) = Len(fifo[q]) + 1 /\ Len(fifo[q]) \in Nat
      <4>1. fifo'[q] = fifo[q] \o s
        BY <1>0, <1>2, <1>5 DEF TypeOK
      <4>2. Len(fifo[q] \o s) = Len(fifo[q]) + Len(s) /\ Len(fifo[q]) \in Nat
        BY <1>4, <1>5
      <4> QED BY <3>6, <4>1, <4>2
    <3>8. t \notin Ready(q) /\ Ready(q)' = Ready(q) \cup {t}
      BY <1>8, <2>1, <2>3 DEF Ready
    <3>9. Cardinality(Ready(q) \cup {t}) = Cardinality(Ready(q)) + 1 /\ Cardinality(Ready(q)) \in Nat
      BY <3>8, ThreadSets, ThreadsFinite, FS_AddElement
    <3>10. Len(fifo[q]) <= Cardinality(Ready(q))
      BY <1>2, <3>1 DEF Attended
    <3> QED BY <3>7, <3>8, <3>9, <3>10 DEF Attended
  <2> QED BY <1>7, <2>2, <2>3
<1> QED BY <1>10, <1>11, <1>12

\* A thread takes a task only when it was awake for it, and what it takes, an
\* EndThreadTask perhaps, goes from the list to the thread.
LEMMA TakeCounts ==
    ASSUME CountIInv, NEW t \in Thread, Take(t)
    PROVE  \A r \in Queue : Counted(r)' /\ Attended(r)'
<1> USE DEF CountIInv
<1>0. TypeOK /\ \A r \in Queue : Ready(r)' \in SUBSET Thread
  BY DEF IInv, Ready
<1>1. PICK q \in Queue, x \in Node :
        /\ q = home[t] /\ x = first[q] /\ x = fifo[q][1] /\ fifo[q] # <<>> /\ Dequeue(q, x)
  <2>1. home[t] \in Queue /\ first[home[t]] # Null /\ Dequeue(home[t], first[home[t]])
    BY <1>0 DEF TypeOK, Take
  <2> QED BY <1>0, <2>1, InvQueuesApart, DequeueNodes, QueueAssumption DEF IInv
<1>2. /\ pc[t] = "ready" /\ home' = home /\ cur' = cur /\ want' = want
      /\ \A u \in Thread : u # t => pc'[u] = pc[u] /\ task'[u] = task[u]
      /\ pc'[t] = "run" /\ task'[t] = x
  BY <1>0, <1>1 DEF TypeOK, Take, countVars
<1>3. fifo' = [fifo EXCEPT ![q] = Tail(@)] /\ fifo[q] \in Seq(Node)
  BY <1>0, <1>1 DEF Dequeue, TypeOK
<1>4. fifo'[q] = Tail(fifo[q]) /\ Len(fifo[q]) \in Nat /\ Len(Tail(fifo[q])) = Len(fifo[q]) - 1
  BY <1>0, <1>1, <1>3 DEF TypeOK
<1>5. ASSUME NEW r \in Queue
      PROVE  /\ At(r)' = At(r) /\ Waiting(r)' = Waiting(r)
             /\ r # q => EndsRunning(r)' = EndsRunning(r) /\ Ready(r)' = Ready(r)
  <2>1. At(r)' = At(r)
    BY <1>2 DEF At, Active
  <2>2. Waiting(r)' = Waiting(r)
    BY <1>2 DEF Waiting
  <2>3. r # q => EndsRunning(r)' = EndsRunning(r) /\ Ready(r)' = Ready(r)
    BY <1>1, <1>2 DEF EndsRunning, Running, Ready
  <2> QED BY <2>1, <2>2, <2>3
<1>6. ASSUME NEW r \in Queue, r # q
      PROVE  Counted(r)' /\ Attended(r)'
  <2>1. SameCounts(r) /\ SameSleepers(r)
    BY <1>0, <1>2, <1>3, <1>5, <1>6 DEF SameCounts, SameSleepers, TypeOK
  <2> QED BY <1>0, <2>1, SameIsCounted, SameIsAttended
<1>7. Counted(q)'
  <2>1. EndsRunning(q)' = IF x \in EndTask THEN EndsRunning(q) \cup {t} ELSE EndsRunning(q)
    BY <1>1, <1>2 DEF EndsRunning, Running
  <2>2. t \notin EndsRunning(q)
    BY <1>2 DEF EndsRunning, Running
  <2>3. /\ Cardinality(EndsRunning(q) \cup {t}) = Cardinality(EndsRunning(q)) + 1
        /\ Cardinality(EndsRunning(q)) \in Nat
    BY <2>2, ThreadSets, ThreadsFinite, FS_AddElement
  <2>4. /\ Cardinality(Ends(fifo[q]))
             = Cardinality(Ends(fifo'[q])) + (IF x \in EndTask THEN 1 ELSE 0)
        /\ Cardinality(Ends(fifo'[q])) \in Nat
    <3>1. Tail(fifo[q]) \in Seq(Node)
      BY <1>1, <1>3
    <3> QED BY <1>1, <1>3, <1>4, <3>1, EndsTail, EndsFinite
  <2>5. want[q] \in Nat
    BY <1>0 DEF TypeOK
  <2>6. Cardinality(Ends(fifo[q])) + Cardinality(EndsRunning(q))
          = Cardinality(Ends(fifo'[q])) + Cardinality(EndsRunning(q)')
    BY <2>1, <2>3, <2>4
  <2>7. /\ cur[q] = Cardinality(At(q))
        /\ cur[q] = want[q] + Cardinality(Ends(fifo[q])) + Cardinality(EndsRunning(q))
    BY DEF Counted
  <2>8. /\ Cardinality(EndsRunning(q)') \in Nat /\ Cardinality(Ends(fifo[q])) \in Nat
    BY <2>1, <2>3, <2>4
  <2>9. cur[q] = want[q] + Cardinality(Ends(fifo'[q])) + Cardinality(EndsRunning(q)')
    BY <2>3, <2>4, <2>5, <2>6, <2>7, <2>8
  <2> QED BY <1>2, <1>5, <2>7, <2>9 DEF Counted
<1>8. Attended(q)'
  <2>1. Ready(q)' = Ready(q) \ {t} /\ t \in Ready(q)
    BY <1>1, <1>2 DEF Ready
  <2>2. /\ Cardinality(Ready(q) \ {t}) = Cardinality(Ready(q)) - 1
        /\ Cardinality(Ready(q)) \in Nat
    BY <2>1, ThreadSets, ThreadsFinite, FS_RemoveElement
  <2> QED BY <1>4, <1>5, <2>1, <2>2 DEF Attended
<1> QED BY <1>6, <1>7, <1>8

\* An EndThreadTask takes its thread with it.
LEMMA EndThreadCounts ==
    ASSUME CountIInv, NEW t \in Thread, EndThread(t)
    PROVE  \A r \in Queue : Counted(r)' /\ Attended(r)'
<1> USE DEF CountIInv
<1>0. TypeOK /\ \A r \in Queue : Ready(r)' \in SUBSET Thread
  BY DEF IInv, Ready
<1>1. PICK q \in Queue : q = home[t]
  BY <1>0 DEF TypeOK
<1>2. /\ pc[t] = "run" /\ task[t] \in EndTask /\ home' = home /\ want' = want /\ fifo' = fifo
      /\ \A u \in Thread : u # t => pc'[u] = pc[u] /\ task'[u] = task[u]
      /\ pc'[t] \in {"none", "notify"}
      /\ cur' = [cur EXCEPT ![q] = @ - 1]
  BY <1>0, <1>1 DEF TypeOK, EndThread, Uncount, listVars
<1>3. ASSUME NEW r \in Queue
      PROVE  /\ Waiting(r)' = Waiting(r) /\ Ready(r)' = Ready(r)
             /\ At(r)' = IF r = q THEN At(r) \ {t} ELSE At(r)
             /\ EndsRunning(r)' = IF r = q THEN EndsRunning(r) \ {t} ELSE EndsRunning(r)
  <2>1. Waiting(r)' = Waiting(r) /\ Ready(r)' = Ready(r)
    BY <1>2 DEF Waiting, Ready
  <2>2. At(r)' = IF r = q THEN At(r) \ {t} ELSE At(r)
    BY <1>1, <1>2 DEF At, Active
  <2>3. EndsRunning(r)' = IF r = q THEN EndsRunning(r) \ {t} ELSE EndsRunning(r)
    BY <1>1, <1>2 DEF EndsRunning, Running
  <2> QED BY <2>1, <2>2, <2>3
<1>4. ASSUME NEW r \in Queue
      PROVE  Attended(r)'
  <2>1. SameSleepers(r)
    BY <1>2, <1>3 DEF SameSleepers
  <2> QED BY <1>0, <2>1, SameIsAttended
<1>5. ASSUME NEW r \in Queue, r # q
      PROVE  Counted(r)'
  <2>1. SameCounts(r)
    BY <1>0, <1>2, <1>3, <1>5 DEF SameCounts, TypeOK
  <2> QED BY <2>1, SameIsCounted
<1>6. Counted(q)'
  <2>1. t \in At(q) /\ t \in EndsRunning(q)
    BY <1>1, <1>2 DEF At, Active, EndsRunning, Running
  <2>2. /\ Cardinality(At(q) \ {t}) = Cardinality(At(q)) - 1
        /\ Cardinality(EndsRunning(q) \ {t}) = Cardinality(EndsRunning(q)) - 1
        /\ Cardinality(At(q)) \in Nat /\ Cardinality(EndsRunning(q)) \in Nat
    BY <2>1, ThreadSets, ThreadsFinite, FS_RemoveElement
  <2>3. want[q] \in Nat /\ Cardinality(Ends(fifo[q])) \in Nat
    BY <1>0, EndsFinite DEF TypeOK
  <2>4. cur'[q] = cur[q] - 1
    BY <1>0, <1>2 DEF TypeOK
  <2>5. At(q)' = At(q) \ {t} /\ EndsRunning(q)' = EndsRunning(q) \ {t}
    BY <1>3
  <2>6. /\ cur[q] = Cardinality(At(q))
        /\ cur[q] = want[q] + Cardinality(Ends(fifo[q])) + Cardinality(EndsRunning(q))
    BY DEF Counted
  <2>7. cur'[q] = Cardinality(At(q)')
    BY <2>2, <2>4, <2>5, <2>6
  <2>8. cur'[q] = want[q] + Cardinality(Ends(fifo[q])) + Cardinality(EndsRunning(q)')
    BY <2>2, <2>3, <2>4, <2>5, <2>6
  <2> QED BY <1>2, <2>7, <2>8 DEF Counted
<1> QED BY <1>4, <1>5, <1>6

\* A thread goes to sleep only at an empty list; one that wakes for no reason,
\* or whose task returns, is one more that is awake.
LEMMA SleepCounts ==
    ASSUME CountIInv, NEW t \in Thread, Wait(t) \/ SpuriousWake(t) \/ Finish(t)
    PROVE  \A r \in Queue : Counted(r)' /\ Attended(r)'
<1> USE DEF CountIInv
<1>0. TypeOK /\ \A r \in Queue : Ready(r)' \in SUBSET Thread
  BY DEF IInv, Ready
<1>1. /\ home' = home /\ want' = want /\ fifo' = fifo /\ cur' = cur
      /\ \A u \in Thread : u # t => pc'[u] = pc[u] /\ task'[u] = task[u]
      /\ pc[t] \in {"ready", "wait", "run"} /\ pc'[t] \in {"ready", "wait"}
      /\ pc[t] = "run" => task[t] \notin EndTask
  BY <1>0, QueueAssumption DEF TypeOK, Wait, SpuriousWake, Finish, listVars, countVars
<1>2. ASSUME NEW r \in Queue
      PROVE  Counted(r)'
  <2>1. At(r)' = At(r)
    BY <1>1 DEF At, Active
  <2>2. EndsRunning(r)' = EndsRunning(r)
    BY <1>1 DEF EndsRunning, Running
  <2>3. SameCounts(r)
    BY <1>1, <2>1, <2>2 DEF SameCounts
  <2> QED BY <2>3, SameIsCounted
<1>3. ASSUME NEW r \in Queue, Wait(t)
      PROVE  Attended(r)'
  <2>1. CASE r = home[t]
    <3>1. fifo[r] = <<>>
      <4>1. first[r] = Null /\ fifo[r] \in Seq(Node)
        BY <1>0, <1>3, <2>1 DEF Wait, TypeOK
      <4>2. first[r] = IF fifo[r] = <<>> THEN Null ELSE fifo[r][1]
        BY DEF IInv, ListMatchesFifo
      <4>3. fifo[r] # <<>> => fifo[r][1] \in Node
        BY <4>1
      <4>4. Null \notin Node
        BY QueueAssumption DEF Node
      <4> QED BY <4>1, <4>2, <4>3, <4>4
    <3>2. Len(fifo'[r]) = 0 /\ Cardinality(Ready(r)') \in Nat
      BY <1>0, <1>1, <3>1, ThreadsFinite
    <3> QED BY <3>2 DEF Attended
  <2>2. CASE r # home[t]
    <3>1. SameSleepers(r)
      BY <1>1, <2>2 DEF SameSleepers, Waiting, Ready
    <3> QED BY <1>0, <3>1, SameIsAttended
  <2> QED BY <2>1, <2>2
<1>4. ASSUME NEW r \in Queue, SpuriousWake(t) \/ Finish(t)
      PROVE  Attended(r)'
  <2>1. pc[t] # "ready" /\ pc'[t] = "ready"
    BY <1>0, <1>4 DEF SpuriousWake, Finish, TypeOK
  <2>2. Waiting(r)' \subseteq Waiting(r) /\ Ready(r) \subseteq Ready(r)'
    BY <1>1, <2>1 DEF Waiting, Ready
  <2>3. /\ Cardinality(Ready(r)) \in Nat /\ Cardinality(Ready(r)') \in Nat
        /\ Cardinality(Ready(r)) <= Cardinality(Ready(r)')
    BY <1>0, <2>2, ThreadsFinite, FS_Subset, ThreadSets
  <2>4. Len(fifo[r]) \in Nat
    BY <1>0 DEF TypeOK
  <2> QED BY <1>1, <2>2, <2>3, <2>4 DEF Attended
<1> QED BY <1>2, <1>3, <1>4

\* The other steps concern neither threads in their loop nor lists.
LEMMA OtherCounts ==
    ASSUME CountIInv,
           \/ \E c \in Caller : Client(c)
           \/ \E t \in Thread : NotifyDestroyed(t)
           \/ DestroyBegin \/ DestroyLock \/ DestroyWait \/ DestroyWoken \/ SpuriousDestroyed
           \/ UNCHANGED vars
    PROVE  \A r \in Queue : Counted(r)' /\ Attended(r)'
<1> USE DEF CountIInv
<1>0. TypeOK /\ \A r \in Queue : Ready(r)' \in SUBSET Thread
  BY DEF IInv, Ready
<1>1. ASSUME NEW r \in Queue, UNCHANGED <<want, cur, fifo, home, task>>,
             \A u \in Thread : pc'[u] = pc[u] \/ {pc[u], pc'[u]} \subseteq {"none", "notify"}
      PROVE  Counted(r)' /\ Attended(r)'
  <2>1. At(r)' = At(r) /\ EndsRunning(r)' = EndsRunning(r)
    BY <1>1 DEF At, Active, EndsRunning, Running
  <2>2. Waiting(r)' = Waiting(r) /\ Ready(r)' = Ready(r)
    BY <1>1 DEF Waiting, Ready
  <2>3. SameCounts(r) /\ SameSleepers(r)
    BY <1>1, <2>1, <2>2 DEF SameCounts, SameSleepers
  <2> QED BY <1>0, <2>3, SameIsCounted, SameIsAttended
<1>2. ASSUME NEW c \in Caller, Client(c)
      PROVE  UNCHANGED <<want, cur, fifo, home, task>> /\ pc' = pc
  BY <1>0, <1>2, BeginType DEF countVars, listVars, workerVars
<1>3. ASSUME NEW t \in Thread, NotifyDestroyed(t)
      PROVE  /\ UNCHANGED <<want, cur, fifo, home, task>>
             /\ \A u \in Thread : pc'[u] = pc[u] \/ {pc[u], pc'[u]} \subseteq {"none", "notify"}
  BY <1>0, <1>3 DEF NotifyDestroyed, countVars, listVars, TypeOK
<1>4. CASE DestroyBegin \/ DestroyLock \/ DestroyWait \/ DestroyWoken \/ SpuriousDestroyed
             \/ UNCHANGED vars
  <2>1. UNCHANGED <<want, cur, fifo, home, task>> /\ pc' = pc
    BY <1>4 DEF DestroyBegin, DestroyLock, DestroyWait, DestroyWoken, SpuriousDestroyed,
                vars, countVars, listVars, workerVars
  <2> QED BY <1>1, <2>1
<1> QED BY <1>1, <1>2, <1>3, <1>4

LEMMA StepCountIInv == CountIInv /\ [Next]_vars => CountIInv'
<1> SUFFICES ASSUME CountIInv, [Next]_vars
             PROVE  CountIInv'
  OBVIOUS
<1>1. IInv'
  BY StepIInv DEF CountIInv
<1>2. ASSUME NEW c \in Caller, DoCreate(c) \/ DoSet(c)
      PROVE  \A r \in Queue : Counted(r)' /\ Attended(r)'
  <2>1. PICK q \in Queue, n \in Nat : SetThreads(q, n)
    BY <1>2, CallType, OpsType DEF DoCreate, DoSet, CountIInv, IInv
  <2> QED BY <2>1, SetThreadsCounts
<1>3. ASSUME NEW q \in Queue, DestroyEnd(q)
      PROVE  \A r \in Queue : Counted(r)' /\ Attended(r)'
  BY <1>3, SetThreadsCounts DEF DestroyEnd
<1>4. \A r \in Queue : Counted(r)' /\ Attended(r)'
  BY <1>2, <1>3, PushCounts, TakeCounts, EndThreadCounts, SleepCounts, OtherCounts
     DEF Next, Exec, Worker, Destroy
<1> QED BY <1>1, <1>4 DEF CountIInv

LEMMA InitCountIInv == Init => CountIInv
<1> SUFFICES ASSUME Init
             PROVE  CountIInv
  OBVIOUS
<1>1. ASSUME NEW q \in Queue
      PROVE  Counted(q) /\ Attended(q)
  <2>1. At(q) = {} /\ EndsRunning(q) = {} /\ Waiting(q) = {}
    BY DEF Init, At, Active, EndsRunning, Running, Waiting
  <2>2. fifo[q] = <<>> /\ cur[q] = 0 /\ want[q] = 0
    BY DEF Init
  <2>3. Ends(fifo[q]) = {}
    BY <2>2 DEF Ends
  <2>4. Cardinality({}) = 0
    BY FS_EmptySet
  <2>5. Cardinality(At(q)) = 0
    BY <2>1, <2>4
  <2>6. Cardinality(Ends(fifo[q])) = 0
    BY <2>3, <2>4
  <2>7. Cardinality(EndsRunning(q)) = 0
    BY <2>1, <2>4
  <2> HIDE DEF At, Ends, EndsRunning
  <2>8. Counted(q)
    BY <2>2, <2>5, <2>6, <2>7 DEF Counted
  <2> QED BY <2>1, <2>8 DEF Attended
<1> QED BY <1>1, InitIInv DEF CountIInv

LEMMA CountInvariance == Spec => []CountIInv
BY InitCountIInv, StepCountIInv, PTL DEF Spec

\* s_numThreads, curThreads and wantThreads agree with the threads there are and
\* the EndThreadTasks on their way, whatever is resized when.
THEOREM CountsCorrect == Spec => []ThreadCounts
<1>1. CountIInv => ThreadCounts
  BY DEF CountIInv, Counted, ThreadCounts, At, Ends, EndsRunning, IInv
<1> QED BY <1>1, CountInvariance, PTL

\* No wake-up is lost: whatever the sizes of the batches, of the queue and of
\* its resizes, a sleeping thread means that every task has an awake one.
THEOREM NoWakeupLost == Spec => []NoSleeperWhileBacklog
<1>1. CountIInv => NoSleeperWhileBacklog
  BY DEF CountIInv, Attended, NoSleeperWhileBacklog
<1> QED BY <1>1, CountInvariance, PTL
=============================================================================
