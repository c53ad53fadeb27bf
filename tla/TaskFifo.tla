------------------------------- MODULE TaskFifo -------------------------------
(***************************************************************************)
(* What the task queues of libs/core/task.cpp promise their clients, with  *)
(* no list, lock or thread in sight: a task pushed to a queue is started   *)
(* once, after everything pushed to that queue before it, and the event    *)
(* queue runs one task at a time.                                          *)
(***************************************************************************)
EXTENDS Sequences, Naturals

CONSTANTS
    Queue,  \* queues
    EventQ, \* the queue whose tasks never overlap
    Node    \* tasks

VARIABLES
    pending, \* per queue, the tasks not started yet, oldest first
    running  \* per queue, the tasks started and not finished

vars == <<pending, running>>

Holds(q, x) == (\E i \in DOMAIN pending[q] : pending[q][i] = x) \/ x \in running[q]

Init ==
    /\ pending = [q \in Queue |-> <<>>]
    /\ running = [q \in Queue |-> {}]

\* A batch of distinct tasks nobody holds joins the end of a queue.
Add(q) ==
    LET old == pending[q]
        new == pending'[q]
        added == (Len(old) + 1)..Len(new)
    IN  /\ Len(old) <= Len(new)
        /\ \A i \in 1..Len(old) : new[i] = old[i]
        /\ \A i \in added, r \in Queue : new[i] \in Node /\ ~Holds(r, new[i])
        /\ \A i, j \in added : new[i] = new[j] => i = j
        /\ \A r \in Queue \ {q} : pending'[r] = pending[r]
        /\ UNCHANGED running

Start(q) ==
    /\ pending[q] # <<>>
    /\ q = EventQ => running[q] = {}
    /\ pending' = [pending EXCEPT ![q] = Tail(@)]
    /\ running' = [running EXCEPT ![q] = @ \cup {Head(pending[q])}]

Finish(q, x) ==
    /\ x \in running[q]
    /\ running' = [running EXCEPT ![q] = @ \ {x}]
    /\ UNCHANGED pending

Next == \E q \in Queue :
    \/ Add(q)
    \/ Start(q)
    \/ \E x \in Node : Finish(q, x)

Spec == Init /\ [][Next]_vars
=============================================================================
