------------------------------- MODULE Socket -------------------------------
(***************************************************************************)
(* SocketBase of libs/win/winsock.cpp: one connected socket, from the call *)
(* of onSocketConnect or onSocketAccept to the deletion of the object.     *)
(* Reads and writes are requests of registered I/O: the kernel completes   *)
(* them into a completion queue, onTask takes results from it in the event *)
(* thread and calls the handlers of the application, which may write,      *)
(* disconnect or hold back the next read from inside of them.  The object  *)
(* deletes itself in the middle of that, when its last request is done.    *)
(*                                                                         *)
(* The socket is a record, and the member functions are operators from     *)
(* socket to socket.  Data is counted in requests.                         *)
(***************************************************************************)
EXTENDS Naturals, Sequences, FiniteSets

CONSTANTS
    MaxReads,   \* kReadQueueSize
    MaxWrites,  \* kWriteQueueSize
    MaxResults, \* kMaxResults of onTask
    MaxWaiting, \* bound: requests waiting when an application writes
    Habits      \* what the application also does, see below

(***************************************************************************)
(* Habits of applications:                                                 *)
(*   "refuse"  onSocketAccept returns false, or onSocketConnect disconnects*)
(*   "again"   it disconnects a socket after its onSocketDisconnect        *)
(*   "resume"  onSocketBufferChanged reads on, after a read was held back  *)
(***************************************************************************)
ASSUME SocketAssumption ==
    /\ {MaxReads, MaxWrites, MaxResults} \subseteq Nat \ {0}
    /\ MaxWaiting \in Nat
    /\ Habits \subseteq {"refuse", "again", "resume"}

VARIABLES
    sock,  \* the SocketBase object
    queue, \* results in the completion queue, oldest first
    batch, \* results onTask has taken and not yet looked at
    pc,    \* the event thread: "connect", "idle" or in "task"
    ready, \* RIONotify was called, and has not pushed onTask yet
    peer   \* the other side has not closed the connection

vars == <<sock, queue, batch, pc, ready, peer>>

Result == {"data", "none", "write"} \* a read with and without bytes, a write

\* m_socket of the notify is this socket as long as it is alive.
NewSocket ==
    [mode |-> "active", \* m_mode
     open |-> TRUE,     \* m_handle
     alive |-> TRUE,    \* not deleted
     prereads |-> MaxReads, reads |-> 0, \* sizes of m_prereads and m_reads,
     prewrites |-> 0, writes |-> 0,      \* m_prewrites and m_writes
     kreads |-> 0, kwrites |-> 0, \* of those, with the kernel
     told |-> FALSE,    \* the application knows that data is waiting
     disconnects |-> 0, \* calls of onSocketDisconnect
     late |-> FALSE,    \* onSocketRead was called after it
     touched |-> FALSE] \* the object was used after it was deleted

Init ==
    /\ sock = NewSocket
    /\ queue = <<>> /\ batch = <<>> /\ pc = "connect" /\ ready = FALSE
    /\ peer = TRUE

-----------------------------------------------------------------------------
(***************************************************************************)
(* Member functions.                                                       *)
(***************************************************************************)

HardClose(s) ==
    IF s.open THEN [s EXCEPT !.mode = "closing", !.open = FALSE, !.prewrites = 0]
    ELSE s

Delete(s) == [HardClose(s) EXCEPT !.alive = FALSE, !.prereads = 0]

\* Who uses the object now finds out whether it is still there.
Touch(s) == [s EXCEPT !.touched = @ \/ ~s.alive]

QueueWrites(s) ==
    LET room == MaxWrites - s.writes
        n == IF s.prewrites < room THEN s.prewrites ELSE room
    IN [s EXCEPT !.prewrites = @ - n, !.writes = @ + n, !.kwrites = @ + n]

\* queuePrewrite: what does not fit into the last waiting request makes a new
\* one; the connection is closed when the oldest has waited too long.
Prewrite(s, fits, stale) ==
    IF s.mode \in {"closing", "closed"} THEN s
    ELSE LET waited == s.prewrites > 0
             q == QueueWrites(
                    [s EXCEPT !.prewrites = IF waited /\ fits THEN @ ELSE @ + 1])
         IN CASE q.prewrites > 0 /\ waited /\ ~fits /\ stale -> HardClose(q)
              [] q.prewrites > 0 /\ ~waited -> [q EXCEPT !.told = TRUE]
              [] OTHER -> q

\* A mutant of ReadEnds: every read of a closed socket reports it.
ReadEndsTwice(s, again) ==
    IF s.reads > 0 THEN s
    ELSE LET c == [s EXCEPT !.mode = "closed", !.disconnects = @ + 1]
         IN IF c.writes = 0 THEN Delete(c) ELSE c

\* The end of onRead: with the last read the connection is closed, and without
\* pending writes the socket deleted.
ReadEnds(s, again) ==
    IF s.reads > 0 THEN s
    ELSE LET c == IF s.mode = "closed" THEN s
                  ELSE [s EXCEPT !.mode = "closed", !.disconnects = @ + 1]
             d == IF again THEN HardClose(c) ELSE c
         IN IF d.writes = 0 THEN Delete(d) ELSE d

\* requeueRead: socketRead of the application, and enableEvents.
RequeueRead(s, again) ==
    IF s.mode = "active"
    THEN [s EXCEPT !.prereads = @ - 1, !.reads = @ + 1, !.kreads = @ + 1]
    ELSE ReadEnds([s EXCEPT !.prereads = @ - 1], again)

\* What a handler may do to the socket it is called for.
Calls(s) ==
    {"nothing"}
        \cup (IF s.prewrites < MaxWaiting THEN {"write"} ELSE {})
        \cup (IF s.disconnects = 0 \/ "again" \in Habits THEN {"disconnect"} ELSE {})
Called(s, call) ==
    CASE call = "write" /\ s.alive -> Prewrite(s, FALSE, FALSE)
      [] call = "disconnect" /\ s.alive -> HardClose(s)
      [] call = "read" /\ s.alive -> RequeueRead(s, FALSE)
      [] OTHER -> s

\* onRead of a read with bytes: call is what onSocketRead does, more what it
\* returns.
OnData(s, call, more, again) ==
    LET r == Called([s EXCEPT !.late = @ \/ s.disconnects > 0], call)
    IN CASE ~more -> [r EXCEPT !.reads = @ - 1, !.prereads = @ + 1]
         [] more /\ r.mode = "active" -> [r EXCEPT !.kreads = @ + 1]
         [] OTHER -> ReadEnds([r EXCEPT !.reads = @ - 1], again)

OnNoData(s, again) == ReadEnds([s EXCEPT !.reads = @ - 1], again)

\* A mutant of OnWrite: a closed socket is left to its reads.
OnWriteKeeps(s, call) ==
    LET q == QueueWrites([s EXCEPT !.writes = @ - 1])
    IN IF (s.prewrites > 0 /\ q.prewrites = 0) \/ q.writes = 0
       THEN Called([q EXCEPT !.told = FALSE], call)
       ELSE q
\* A mutant of OnWrite: only an empty send queue is reported.
OnWriteSilent(s, call) ==
    LET w == [s EXCEPT !.writes = @ - 1]
        q == QueueWrites(w)
    IN IF w.mode = "closed" /\ w.reads = 0 /\ w.writes = 0 THEN Delete(w)
       ELSE IF q.writes = 0 THEN Called([q EXCEPT !.told = FALSE], call)
       ELSE q

\* onWrite: call is what onSocketBufferChanged does.
OnWrite(s, call) ==
    LET w == [s EXCEPT !.writes = @ - 1]
        q == QueueWrites(w)
    IN IF w.mode = "closed" /\ w.reads = 0 /\ w.writes = 0 THEN Delete(w)
       ELSE IF (s.prewrites > 0 /\ q.prewrites = 0) \/ q.writes = 0
            THEN Called([q EXCEPT !.told = FALSE], call)
       ELSE q

-----------------------------------------------------------------------------
(***************************************************************************)
(* The event thread.                                                       *)
(***************************************************************************)

\* onSocketConnect or onSocketAccept, then enableEvents.
Requeued(s) ==
    IF s.mode = "active"
    THEN [s EXCEPT !.prereads = 0, !.reads = MaxReads, !.kreads = MaxReads]
    ELSE Touch(RequeueRead([s EXCEPT !.prereads = 1], FALSE))

Connected ==
    /\ pc = "connect"
    /\ \E call \in Calls(sock) :
        /\ call = "disconnect" => "refuse" \in Habits
        /\ sock' = Requeued(Called(sock, call))
    /\ pc' = "idle"
    /\ ready' = TRUE
    /\ UNCHANGED <<queue, batch, peer>>

\* onTask takes what it has room for ...
TaskBegin ==
    /\ pc = "idle" /\ ready /\ queue # <<>>
    /\ LET n == IF Len(queue) < MaxResults THEN Len(queue) ELSE MaxResults IN
        /\ batch' = SubSeq(queue, 1, n)
        /\ queue' = SubSeq(queue, n + 1, Len(queue))
    /\ pc' = "task"
    /\ ready' = FALSE
    /\ UNCHANGED <<sock, peer>>

Disconnects(again) == again => "again" \in Habits
WriteCalls(s) ==
    IF "resume" \in Habits /\ s.prereads > 0 THEN Calls(s) \cup {"read"} ELSE Calls(s)

\* A mutant of HandleResult: onTask does not look at what onRead returns.
HandleResultBlind(s) ==
    /\ sock' = Touch(s)
    /\ batch' = Tail(batch)
    /\ UNCHANGED <<queue, pc, ready, peer>>

HandleResult(s) ==
    /\ sock' = s
    /\ batch' = IF s.alive \/ s.touched THEN Tail(batch) ELSE <<>>
    /\ pc' = IF s.alive \/ s.touched THEN "task" ELSE "idle"
    /\ UNCHANGED <<queue, ready, peer>>

\* ... looks at one result after the other ...
TaskRead ==
    /\ pc = "task" /\ batch # <<>>
    /\ \E again \in BOOLEAN :
        /\ Disconnects(again)
        /\ \/ /\ Head(batch) = "data"
              /\ \E call \in Calls(sock), more \in BOOLEAN :
                    HandleResult(OnData(sock, call, more, again))
           \/ /\ Head(batch) = "none"
              /\ HandleResult(OnNoData(sock, again))

\* onWrite says so when it has deleted the socket, but not when the handler
\* it called has.
TaskWrite ==
    /\ pc = "task" /\ batch # <<>> /\ Head(batch) = "write"
    /\ \E call \in WriteCalls(sock) :
        LET s == OnWrite(sock, call)
        IN HandleResult(IF call = "read" THEN Touch(s) ELSE s)

\* ... and asks for the next notification.
TaskEnd ==
    /\ pc = "task" /\ batch = <<>>
    /\ sock' = Touch(sock)
    /\ ready' = TRUE
    /\ pc' = "idle"
    /\ UNCHANGED <<queue, batch, peer>>

-----------------------------------------------------------------------------
(***************************************************************************)
(* The application, between tasks, and the kernel.                         *)
(***************************************************************************)
AppIdle == pc = "idle" /\ sock.alive

AppWrite ==
    /\ AppIdle /\ sock.prewrites < MaxWaiting
    /\ \E fits, stale \in BOOLEAN : sock' = Prewrite(sock, fits, stale)
    /\ UNCHANGED <<queue, batch, pc, ready, peer>>

AppDisconnect ==
    /\ AppIdle
    /\ sock.disconnects > 0 => "again" \in Habits
    /\ sock' = HardClose(sock)
    /\ UNCHANGED <<queue, batch, pc, ready, peer>>

\* socketRead, once for every read that was held back.
AppRead ==
    /\ AppIdle /\ sock.prereads > 0
    /\ \E again \in BOOLEAN : Disconnects(again) /\ sock' = RequeueRead(sock, again)
    /\ UNCHANGED <<queue, batch, pc, ready, peer>>

Completes(result, s) ==
    /\ queue' = Append(queue, result)
    /\ sock' = s
    /\ UNCHANGED <<batch, pc, ready, peer>>

ReadCompletes ==
    /\ sock.kreads > 0
    /\ \E result \in {"data", "none"} :
        /\ result = "data" => sock.open /\ peer
        /\ result = "none" => ~(sock.open /\ peer)
        /\ Completes(result, [sock EXCEPT !.kreads = @ - 1])

WriteCompletes ==
    /\ sock.kwrites > 0
    /\ Completes("write", [sock EXCEPT !.kwrites = @ - 1])

PeerCloses ==
    /\ peer
    /\ peer' = FALSE
    /\ UNCHANGED <<sock, queue, batch, pc, ready>>

Task == TaskBegin \/ TaskRead \/ TaskWrite \/ TaskEnd
Kernel == ReadCompletes \/ WriteCompletes
App == AppWrite \/ AppDisconnect \/ AppRead

Next == Connected \/ Task \/ App \/ Kernel \/ PeerCloses

Spec == Init /\ [][Next]_vars

\* The event thread and the kernel go on; the application reads again after it
\* held a read back, as socket.h demands.
LiveSpec ==
    /\ Spec
    /\ WF_vars(Connected) /\ WF_vars(Task)
    /\ WF_vars(ReadCompletes) /\ WF_vars(WriteCompletes)
    /\ SF_vars(AppRead)

-----------------------------------------------------------------------------
(***************************************************************************)
(* Properties.                                                             *)
(***************************************************************************)
CountOf(results, kinds) == Cardinality({i \in DOMAIN results : results[i] \in kinds})
InQueues(kinds) == CountOf(queue, kinds) + CountOf(batch, kinds)

\* Every variable has its type, and a request is with the kernel or among the
\* results as long as it is in a list.
TypeOK ==
    /\ sock.mode \in {"active", "closing", "closed"}
    /\ sock.prereads + sock.reads <= MaxReads
    /\ sock.reads = sock.kreads + InQueues({"data", "none"})
    /\ sock.writes = sock.kwrites + InQueues({"write"})
    /\ sock.writes <= MaxWrites /\ sock.prewrites \in Nat
    /\ queue \in Seq(Result) /\ batch \in Seq(Result)
    /\ pc \in {"connect", "idle", "task"}
    /\ {ready, peer, sock.open, sock.told} \subseteq BOOLEAN

\* A socket is deleted when its last request is done, and not used after that
\* by the member functions below which it was deleted (comment in onTask).
DeletedIsDone ==
    ~sock.alive =>
        /\ sock.reads = 0 /\ sock.writes = 0 /\ queue = <<>> /\ batch = <<>>
        /\ ~sock.touched

\* The requests are counted right up to the last, which deletes the socket.
SocketConsistent == TypeOK /\ DeletedIsDone

\* Every call of onSocketConnect or onSocketAccept has exactly one call of
\* onSocketDisconnect, before the object is deleted, and no data is delivered
\* after it (net/socket.h).
DisconnectedOnce ==
    /\ sock.disconnects <= 1 /\ ~sock.late
    /\ ~sock.alive => sock.disconnects = 1

\* onSocketBufferChanged tells an active application the truth about whether
\* data is waiting: it is how it knows when to stop and to go on writing.
WaitingIsTold ==
    sock.alive /\ sock.mode = "active" => sock.told = (sock.prewrites > 0)

\* A socket that one side has closed is deleted in the end.
ClosedIsDeleted == (~sock.open \/ ~peer) ~> ~sock.alive
=============================================================================
