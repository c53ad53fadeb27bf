------------------------------ MODULE TaskQueue ------------------------------
(***************************************************************************)
(* The task queues of libs/core/task.cpp: every TaskQueue is an intrusive  *)
(* singly linked list of ITaskNotify objects, served by its own worker     *)
(* threads, all of them under the one mutex s_mut.  An action is one       *)
(* critical section of s_mut, or one step taken outside of it.             *)
(*                                                                         *)
(* The variable fifo is a history variable: the order in which the nodes   *)
(* now in a list were pushed.  No guard but "this object is not in use"    *)
(* reads it; the code only has first, last and m_taskNext.                 *)
(***************************************************************************)
EXTENDS Integers, Sequences, FiniteSets

CONSTANTS
    Queue,          \* the TaskQueue objects that may be created
    EventQ,         \* s_eventQ
    ComputeQ,       \* s_computeQ
    ComputeThreads, \* threads of the compute queue, 5 in iTaskInitialize
    Task,           \* the clients' ITaskNotify objects
    EndTask,        \* the EndThreadTask objects setThreads_LK allocates
    Thread,         \* worker threads
    Main,           \* the thread in appRun
    Null,           \* nullptr
    MaxThreads,     \* bound: threads a client asks for on a queue
    MaxBatch        \* bound: tasks handed to one taskPush

ASSUME QueueAssumption ==
    /\ EventQ \in Queue /\ ComputeQ \in Queue /\ EventQ # ComputeQ
    /\ IsFiniteSet(Thread) /\ IsFiniteSet(EndTask)
    /\ Main \notin Thread
    /\ Task \cap EndTask = {}
    /\ Null \notin Task \cup EndTask
    /\ ComputeThreads \in Nat \ {0}
    /\ MaxThreads \in Nat \ {0}
    /\ MaxBatch \in Nat \ {0}

Node == Task \cup EndTask
Caller == Thread \cup {Main}

VARIABLES
    qstate,     \* is the queue in s_queues?  "none", "live" or "deleted"
    want,       \* TaskQueue::wantThreads
    cur,        \* TaskQueue::curThreads
    numThreads, \* s_numThreads
    first,      \* TaskQueue::first
    last,       \* TaskQueue::last, stale when the list is empty
    next,       \* ITaskNotify::m_taskNext
    fifo,       \* history: the nodes of the list in push order
    pc,         \* where a worker is in taskQueueThread
    home,       \* the queue a worker serves
    task,       \* the task a worker has popped and is running
    call,       \* the API calls a caller has begun and not made yet
    mpc         \* where the main thread is in iTaskDestroy

vars == <<qstate, want, cur, numThreads, first, last, next, fifo, pc, home,
          task, call, mpc>>
listVars == <<first, last, next, fifo>>
countVars == <<want, cur, numThreads>>
workerVars == <<pc, home, task>>

(***************************************************************************)
(* API calls.  taskPushOnce is three of them, one after the other.         *)
(***************************************************************************)
Op(kind, q, n, s) == [kind |-> kind, q |-> q, n |-> n, tasks |-> s]
CreateOp(q, n) == Op("create", q, n, <<>>)
SetOp(q, n) == Op("set", q, n, <<>>)
PushOp(q, s) == Op("push", q, 0, s)
OnceOps(q, x) == <<CreateOp(q, 1), PushOp(q, <<x>>), SetOp(q, 0)>>

Ops == [kind : {"create", "set", "push"}, q : Queue, n : Nat, tasks : Seq(Task)]

Elems(s) == {s[i] : i \in DOMAIN s}
Injective(s) == \A i, j \in DOMAIN s : s[i] = s[j] => i = j
\* The sequences of k distinct members of S: k objects in some order.
Arrangements(S, k) == {s \in [1..k -> S] : Injective(s)}

Queued == UNION {Elems(fifo[q]) : q \in Queue}
Pending(c) == UNION {Elems(call[c][i].tasks) : i \in DOMAIN call[c]}
InUse == Queued \cup {task[t] : t \in Thread} \cup UNION {Pending(c) : c \in Caller}

\* Threads that exist and may still touch their queue.
Active == {t \in Thread : pc[t] \in {"ready", "wait", "run"}}
Ready(q) == {t \in Thread : pc[t] = "ready" /\ home[t] = q}
Waiting(q) == {t \in Thread : pc[t] = "wait" /\ home[t] = q}
Running(q) == {t \in Thread : pc[t] = "run" /\ home[t] = q}

\* s_running: cleared as iTaskDestroy starts.
s_running == mpc = "run"
\* s_mut is held across several steps only by iTaskDestroy's loop.
Unlocked == mpc # "ending"

\* Variant for mutation: two threads for the event queue.
TwoEventThreads == 2
\* Threads iTaskInitialize gives the event queue.
EventThreads == 1

Init ==
    /\ qstate = [q \in Queue |-> "none"]
    /\ want = [q \in Queue |-> 0]
    /\ cur = [q \in Queue |-> 0]
    /\ numThreads = 0
    /\ first = [q \in Queue |-> Null]
    /\ last = [q \in Queue |-> Null]
    /\ next = [n \in Node |-> Null]
    /\ fifo = [q \in Queue |-> <<>>]
    /\ pc = [t \in Thread |-> "none"]
    /\ home = [t \in Thread |-> EventQ]
    /\ task = [t \in Thread |-> Null]
    \* iTaskInitialize
    /\ \E x \in Task :
         call = [c \in Caller |-> IF c = Main
                   THEN <<CreateOp(EventQ, EventThreads), PushOp(EventQ, <<x>>),
                          CreateOp(ComputeQ, ComputeThreads)>>
                   ELSE <<>>]
    /\ mpc = "run"

-----------------------------------------------------------------------------
\* What push takes for an empty list.
Empty(q) == first[q] = Null

(***************************************************************************)
(* TaskQueue::push, once for every member of s.                            *)
(***************************************************************************)
Enqueue(q, s) ==
    /\ next' = [n \in Node |->
                  IF \E i \in DOMAIN s : s[i] = n
                  THEN LET i == CHOOSE i \in DOMAIN s : s[i] = n
                       IN  IF i = Len(s) THEN Null ELSE s[i + 1]
                  ELSE IF ~Empty(q) /\ n = last[q] THEN s[1]
                  ELSE next[n]]
    /\ first' = IF Empty(q) THEN [first EXCEPT ![q] = s[1]] ELSE first
    /\ last' = [last EXCEPT ![q] = s[Len(s)]]
    /\ fifo' = [fifo EXCEPT ![q] = @ \o s]

\* Variant for mutation: the task taken stays in the list.
DequeueNothing(q, x) == x = first[q] /\ UNCHANGED listVars

(***************************************************************************)
(* TaskQueue::pop, and the pointer read before it.                         *)
(***************************************************************************)
Dequeue(q, x) ==
    /\ x = first[q]
    /\ first' = [first EXCEPT ![q] = next[x]]
    /\ next' = [next EXCEPT ![x] = Null]
    /\ fifo' = [fifo EXCEPT ![q] = Tail(@)]
    /\ UNCHANGED last

WakeAll(q) ==
    pc' = [t \in Thread |-> IF t \in Waiting(q) THEN "ready" ELSE pc[t]]

\* Variant for mutation: one condition variable for all the queues.
WakeOneOfAny(q) ==
    \/ (\A t \in Thread : pc[t] # "wait") /\ pc' = pc
    \/ \E t \in Thread : pc[t] = "wait" /\ pc' = [pc EXCEPT ![t] = "ready"]

WakeOne(q) ==
    \/ Waiting(q) = {} /\ pc' = pc
    \/ \E t \in Waiting(q) : pc' = [pc EXCEPT ![t] = "ready"]

\* Variant for mutation: one thread is woken whatever the size of the batch.
WakeOneOnly(q, n) == WakeOne(q)

\* The wake-up taskPush sends after linking n tasks.
Wake(q, n) ==
    IF n > 1 /\ cur[q] > 1 THEN WakeAll(q) ELSE WakeOne(q)

(***************************************************************************)
(* setThreads_LK: start threads, or queue EndThreadTasks.                  *)
(***************************************************************************)
GrowThreads(q, num) ==
    /\ \E S \in SUBSET {t \in Thread : pc[t] = "none"} :
         /\ Cardinality(S) = num
         /\ pc' = [t \in Thread |-> IF t \in S THEN "ready" ELSE pc[t]]
         /\ home' = [t \in Thread |-> IF t \in S THEN q ELSE home[t]]
    /\ cur' = [cur EXCEPT ![q] = @ + num]
    /\ numThreads' = numThreads + num
    /\ UNCHANGED <<first, last, next, fifo, task>>

ShrinkThreads(q, num) ==
    /\ \E s \in Arrangements(EndTask \ InUse, num) : Enqueue(q, s)
    /\ WakeAll(q)
    /\ UNCHANGED <<cur, numThreads, home, task>>

SetThreads(q, n) ==
    /\ want' = [want EXCEPT ![q] = n]
    /\ \/ n > want[q] /\ GrowThreads(q, n - want[q])
       \/ n < want[q] /\ ShrinkThreads(q, want[q] - n)
       \/ n = want[q] /\ UNCHANGED <<cur, numThreads, listVars, workerVars>>

-----------------------------------------------------------------------------
(***************************************************************************)
(* Calls.  A caller tests s_running first (the asserts), without s_mut,    *)
(* and takes s_mut afterwards: what it begins may be made after            *)
(* iTaskDestroy has cleared s_running.                                     *)
(***************************************************************************)
MayCall(c) ==
    /\ s_running
    /\ call[c] = <<>>
    /\ IF c = Main THEN TRUE ELSE pc[c] = "run" /\ task[c] \in Task

Begin(c, ops) ==
    /\ call' = [call EXCEPT ![c] = ops]
    /\ UNCHANGED <<qstate, countVars, listVars, workerVars, mpc>>

BeginPush(c) ==
    /\ MayCall(c)
    /\ \E q \in Queue, k \in 1..MaxBatch :
         /\ qstate[q] = "live"
         /\ \E s \in Arrangements(Task \ InUse, k) : Begin(c, <<PushOp(q, s)>>)

\* Bound: one call that changes threads is outstanding at a time, and it
\* asks for no more threads than the model has.
MayResize(n) ==
    /\ \A c \in Caller, i \in 1..3 :
         i \in DOMAIN call[c] => call[c][i].kind = "push"
    /\ n <= Cardinality({t \in Thread : pc[t] = "none"})

BeginCreate(c) ==
    /\ MayCall(c)
    /\ \E q \in Queue, n \in 1..MaxThreads :
         /\ qstate[q] = "none"
         /\ MayResize(n)
         /\ Begin(c, <<CreateOp(q, n)>>)

\* No caller resizes the event queue: the framework relies on its one thread.
BeginSet(c) ==
    /\ MayCall(c)
    /\ \E q \in Queue \ {EventQ}, n \in 0..MaxThreads :
         /\ qstate[q] = "live"
         /\ MayResize(n)
         /\ Begin(c, <<SetOp(q, n)>>)

BeginOnce(c) ==
    /\ MayCall(c)
    /\ \E q \in Queue, x \in Task \ InUse :
         /\ qstate[q] = "none"
         /\ MayResize(1)
         /\ Begin(c, OnceOps(q, x))

-----------------------------------------------------------------------------
Done(c) == call' = [call EXCEPT ![c] = Tail(@)]

DoCreate(c) ==
    /\ Unlocked
    /\ call[c] # <<>>
    /\ LET op == Head(call[c]) IN
         /\ op.kind = "create"
         /\ qstate' = [qstate EXCEPT ![op.q] = "live"]
         /\ SetThreads(op.q, op.n)
    /\ Done(c)
    /\ UNCHANGED mpc

DoSet(c) ==
    /\ Unlocked
    /\ call[c] # <<>>
    /\ LET op == Head(call[c]) IN
         /\ op.kind = "set"
         /\ SetThreads(op.q, op.n)
    /\ Done(c)
    /\ UNCHANGED <<qstate, mpc>>

DoPush(c) ==
    /\ Unlocked
    /\ call[c] # <<>>
    /\ LET op == Head(call[c]) IN
         /\ op.kind = "push"
         /\ Enqueue(op.q, op.tasks)
         /\ Wake(op.q, Len(op.tasks))
    /\ Done(c)
    /\ UNCHANGED <<qstate, countVars, home, task, mpc>>

-----------------------------------------------------------------------------
(***************************************************************************)
(* taskQueueThread.                                                        *)
(***************************************************************************)
Take(t) ==
    /\ Unlocked
    /\ pc[t] = "ready"
    /\ first[home[t]] # Null
    /\ Dequeue(home[t], first[home[t]])
    /\ task' = [task EXCEPT ![t] = first[home[t]]]
    /\ pc' = [pc EXCEPT ![t] = "run"]
    /\ UNCHANGED <<qstate, countVars, home, call, mpc>>

Wait(t) ==
    /\ Unlocked
    /\ pc[t] = "ready"
    /\ first[home[t]] = Null
    /\ pc' = [pc EXCEPT ![t] = "wait"]
    /\ UNCHANGED <<qstate, countVars, listVars, home, task, call, mpc>>

SpuriousWake(t) ==
    /\ pc[t] = "wait"
    /\ pc' = [pc EXCEPT ![t] = "ready"]
    /\ UNCHANGED <<qstate, countVars, listVars, home, task, call, mpc>>

\* onTask returns: the object is its owner's again (or deleted).
Finish(t) ==
    /\ pc[t] = "run"
    /\ task[t] \in Task
    /\ call[t] = <<>>
    /\ pc' = [pc EXCEPT ![t] = "ready"]
    /\ task' = [task EXCEPT ![t] = Null]
    /\ UNCHANGED <<qstate, countVars, listVars, home, call, mpc>>

\* Variant for mutation: curThreads is not brought down.
UncountOnlyTotal(q) == numThreads' = numThreads - 1 /\ UNCHANGED cur
Uncount(q) ==
    /\ cur' = [cur EXCEPT ![q] = @ - 1]
    /\ numThreads' = numThreads - 1

\* Variant for mutation: s_numThreads is tested before it is brought down.
NoThreadsBefore == numThreads = 0
NoThreadsLeft == numThreads' = 0

\* The EndThreadTask has run; the last thread of all goes on to notify.
EndThread(t) ==
    /\ Unlocked
    /\ pc[t] = "run"
    /\ task[t] \in EndTask
    /\ Uncount(home[t])
    /\ pc' = [pc EXCEPT ![t] = IF NoThreadsLeft THEN "notify" ELSE "none"]
    /\ task' = [task EXCEPT ![t] = Null]
    /\ UNCHANGED <<qstate, want, listVars, home, call, mpc>>

NotifyDestroyed(t) ==
    /\ pc[t] = "notify"
    /\ pc' = [pc EXCEPT ![t] = "none"]
    /\ mpc' = IF mpc = "waiting" THEN "woken" ELSE mpc
    /\ UNCHANGED <<qstate, countVars, listVars, home, task, call>>

-----------------------------------------------------------------------------
(***************************************************************************)
(* iTaskDestroy.                                                           *)
(***************************************************************************)
DestroyBegin ==
    /\ mpc = "run"
    /\ call[Main] = <<>>
    /\ mpc' = "stopping"
    /\ UNCHANGED <<qstate, countVars, listVars, workerVars, call>>

DestroyLock ==
    /\ mpc = "stopping"
    /\ mpc' = "ending"
    /\ UNCHANGED <<qstate, countVars, listVars, workerVars, call>>

DestroyEnd(q) ==
    /\ mpc = "ending"
    /\ qstate[q] = "live"
    /\ want[q] # 0
    /\ SetThreads(q, 0)
    /\ UNCHANGED <<qstate, call, mpc>>

DeleteQueues ==
    /\ mpc' = "done"
    /\ qstate' = [q \in Queue |->
                    IF qstate[q] = "live" THEN "deleted" ELSE qstate[q]]

\* while (s_numThreads) s_destroyed.wait(lk); then delete every queue
DeleteOrWait ==
    IF numThreads = 0 THEN DeleteQueues ELSE mpc' = "waiting" /\ UNCHANGED qstate

DestroyWait ==
    /\ mpc = "ending"
    /\ \A q \in Queue : qstate[q] = "live" => want[q] = 0
    /\ DeleteOrWait
    /\ UNCHANGED <<countVars, listVars, workerVars, call>>

\* Variant for mutation: "if (s_numThreads) wait" in place of "while".
DestroyWokenOnce ==
    /\ mpc = "woken"
    /\ DeleteQueues
    /\ UNCHANGED <<countVars, listVars, workerVars, call>>

DestroyWoken ==
    /\ mpc = "woken"
    /\ DeleteOrWait
    /\ UNCHANGED <<countVars, listVars, workerVars, call>>

SpuriousDestroyed ==
    /\ mpc = "waiting"
    /\ mpc' = "woken"
    /\ UNCHANGED <<qstate, countVars, listVars, workerVars, call>>

-----------------------------------------------------------------------------
Client(c) == BeginPush(c) \/ BeginCreate(c) \/ BeginSet(c) \/ BeginOnce(c)
Exec(c) == DoCreate(c) \/ DoSet(c) \/ DoPush(c)
Worker(t) == Take(t) \/ Wait(t) \/ EndThread(t) \/ NotifyDestroyed(t)
Destroy ==
    DestroyLock \/ (\E q \in Queue : DestroyEnd(q)) \/ DestroyWait \/ DestroyWoken

Next ==
    \/ \E c \in Caller : Client(c) \/ Exec(c)
    \/ \E t \in Thread : Worker(t) \/ Finish(t) \/ SpuriousWake(t)
    \/ DestroyBegin \/ Destroy \/ SpuriousDestroyed

Spec == Init /\ [][Next]_vars

(***************************************************************************)
(* Fairness: the scheduler runs every thread that can run, and every task  *)
(* returns.  Nobody has to call anything, nor to shut down.                *)
(***************************************************************************)
Fairness ==
    /\ \A c \in Caller : WF_vars(Exec(c))
    /\ \A t \in Thread : WF_vars(Worker(t)) /\ SF_vars(Finish(t))
    /\ WF_vars(Destroy)

FairSpec == Spec /\ Fairness

-----------------------------------------------------------------------------
(***************************************************************************)
(* Properties.                                                             *)
(***************************************************************************)

\* Every variable has its type.
TypeOK ==
    /\ qstate \in [Queue -> {"none", "live", "deleted"}]
    /\ want \in [Queue -> Nat]
    /\ cur \in [Queue -> Int]
    /\ numThreads \in Int
    /\ first \in [Queue -> Node \cup {Null}]
    /\ last \in [Queue -> Node \cup {Null}]
    /\ next \in [Node -> Node \cup {Null}]
    /\ fifo \in [Queue -> Seq(Node)]
    /\ pc \in [Thread -> {"none", "ready", "wait", "run", "notify"}]
    /\ home \in [Thread -> Queue]
    /\ task \in [Thread -> Node \cup {Null}]
    /\ call \in [Caller -> Seq(Ops)]
    /\ mpc \in {"run", "stopping", "ending", "waiting", "woken", "done"}

\* The links of TaskQueue::push and pop always spell out exactly the tasks
\* that were pushed and not yet popped, in that order: no batch splices over
\* another queue's tail, and a stale last of an emptied list is never used.
ListMatchesFifo ==
    \A q \in Queue :
        LET s == fifo[q] IN
          /\ first[q] = IF s = <<>> THEN Null ELSE s[1]
          /\ s # <<>> => last[q] = s[Len(s)]
          /\ \A i \in 1..Len(s) :
               next[s[i]] = IF i = Len(s) THEN Null ELSE s[i + 1]

\* The three counters agree with the threads there are: curThreads is the
\* number of threads of the queue, and exceeds wantThreads by exactly the
\* EndThreadTasks still to be run; s_numThreads is the number of all of them.
ThreadCounts ==
    /\ numThreads = Cardinality(Active)
    /\ \A q \in Queue :
         /\ cur[q] = Cardinality({t \in Active : home[t] = q})
         /\ cur[q] = want[q]
              + Cardinality({i \in DOMAIN fifo[q] : fifo[q][i] \in EndTask})
              + Cardinality({t \in Running(q) : task[t] \in EndTask})

\* No wake-up is lost: while a thread of a queue sleeps on its condition
\* variable, every task in the list has an awake thread about to take it.  The
\* choice between notify_one and notify_all in taskPush is what this is about.
NoSleeperWhileBacklog ==
    \A q \in Queue :
        Waiting(q) # {} => Len(fifo[q]) <= Cardinality(Ready(q))

\* A thread that still runs taskQueueThread's loop never outlives its queue,
\* and a push or a resize always finds the queue it is for: iTaskDestroy erases
\* the queues only after the last thread has left its loop, however late that
\* thread's last call was begun.
NoUseAfterDelete ==
    /\ \A t \in Active : qstate[home[t]] = "live"
    /\ \A c \in Caller :
         call[c] # <<>> /\ Head(call[c]).kind # "create"
           => qstate[Head(call[c]).q] = "live"

\* Tasks of the event queue never overlap, whatever is pushed or resized: the
\* framework's event handlers rely on it instead of on locks.
EventTasksSerialized ==
    \A t, u \in Running(EventQ) : t = u

runningTasks == [q \in Queue |-> {task[t] : t \in Running(q)}]
Abstract == INSTANCE TaskFifo WITH pending <- fifo, running <- runningTasks

\* The queues implement TaskFifo: each task pushed is started once, in the
\* order of the pushes, and the event queue's tasks one after the other.
ImplementsFifo == Abstract!Spec

(***************************************************************************)
(* The inductive invariant behind the safety properties: who may call,     *)
(* which queue a call can count on, where the event queue's only thread    *)
(* comes from, and that an object is in one place at a time.               *)
(***************************************************************************)
CallersAlive ==
    /\ call[Main] # <<>> => mpc = "run"
    /\ \A t \in Thread : call[t] # <<>> => pc[t] = "run" /\ task[t] \in Task

\* The queue of call i of c exists, or an earlier call of c creates it.
QueueWillExist(c, i) ==
    \/ call[c][i].kind = "create"
    \/ qstate[call[c][i].q] = "live"
    \/ \E j \in 1..(i - 1) :
         call[c][j].kind = "create" /\ call[c][j].q = call[c][i].q

\* Only iTaskInitialize's call gives the event queue threads, and one of them.
EventCallOnlyAtStart(c, i) ==
    call[c][i].q = EventQ /\ call[c][i].kind # "push" =>
        /\ c = Main /\ i = 1
        /\ call[c][i].kind = "create"
        /\ call[c][i].n = 1
        /\ qstate[EventQ] = "none"

CallsOK ==
    \A c \in Caller : \A i \in DOMAIN call[c] :
        /\ call[c][i].kind = "push" => call[c][i].tasks # <<>>
        /\ QueueWillExist(c, i)
        /\ EventCallOnlyAtStart(c, i)

EventQueueNotYet ==
    qstate[EventQ] = "none" =>
        /\ call[Main] # <<>>
        /\ call[Main][1] = CreateOp(EventQ, EventThreads)
        /\ \A t \in Active : home[t] # EventQ

OneEventThread ==
    \A t, u \in Active : home[t] = EventQ /\ home[u] = EventQ => t = u

NodesApart ==
    /\ \A q \in Queue : Injective(fifo[q])
    /\ \A q, r \in Queue : q # r => Elems(fifo[q]) \cap Elems(fifo[r]) = {}
    /\ \A t \in Thread : task[t] \notin Queued
    /\ \A t, u \in Thread : t # u /\ task[t] = task[u] => task[t] = Null
    /\ \A t \in Thread : task[t] # Null <=> pc[t] = "run"

CallTasksApart ==
    \A c \in Caller : \A i \in DOMAIN call[c] :
        /\ Injective(call[c][i].tasks)
        /\ Elems(call[c][i].tasks) \cap Queued = {}
        /\ \A t \in Thread : task[t] \notin Elems(call[c][i].tasks)
        /\ \A d \in Caller : \A j \in DOMAIN call[d] :
             Elems(call[c][i].tasks) \cap Elems(call[d][j].tasks) # {}
               => c = d /\ i = j

\* The conjunction of the invariants above and of what they need to be
\* inductive: nodes are never in two places, and calls and threads never refer
\* to a queue that is gone.
IInv ==
    /\ TypeOK
    /\ CallersAlive
    /\ CallsOK
    /\ EventQueueNotYet
    /\ OneEventThread
    /\ numThreads = Cardinality(Active)
    /\ NoUseAfterDelete
    /\ NodesApart
    /\ CallTasksApart
    /\ ListMatchesFifo

EndsBefore(q, i) == {j \in 1..(i - 1) : fifo[q][j] \in EndTask}
EndsRunning(q) == {t \in Running(q) : task[t] \in EndTask}

\* Task x is in the list of q, and the EndThreadTasks that come before it leave
\* a thread to run it.
Reachable(q, x) ==
    \E i \in DOMAIN fifo[q] :
        /\ fifo[q][i] = x
        /\ Cardinality(EndsBefore(q, i)) + Cardinality(EndsRunning(q)) < cur[q]

\* A pushed task is run in the end, unless all of the queue's threads are told
\* to end before it: no interleaving of waits, pushes, resizes and iTaskDestroy
\* leaves it in the list with the threads asleep.
TaskEventuallyStarts ==
    \A q \in Queue, x \in Task :
        Reachable(q, x) ~> \E t \in Thread : task[t] = x

\* A call begun before iTaskDestroy that will start threads after it has told
\* all the threads there were to end: the asserts on s_running do not exclude it.
LateGrowth ==
    \E c \in Caller : \E i \in DOMAIN call[c] :
        call[c][i].kind \in {"create", "set"} /\ call[c][i].n > 0

\* iTaskDestroy returns: the last thread to end is seen, its notify_one is not
\* lost.  Not promised to a program in which another thread is about to create
\* or grow a queue as the destruction begins.
DestroyReturns ==
    [](mpc = "stopping" /\ ~LateGrowth => <>(mpc = "done"))
=============================================================================
