# A TLA+ model of dimapp

dimapp is a C++ application framework for servers: an event thread with task
queues and timers, orderly shutdown, configuration and log files, sockets over
Windows registered I/O, an HTTP/2 server on top of them, and parsers and tools
around it.  This directory models the parts of it whose correctness depends on
the order of events, checks them with TLC on small instances, and proves what
matters most for all instances with TLAPS.

| module | models | status |
|---|---|---|
| `TaskFifo` | what a task queue promises (abstract specification) | implemented by `TaskQueue`, checked and proved |
| `TaskQueue` | `core/task.cpp` | checked; safety proved in `TaskQueueProofs` |
| `MCTaskQueue` | the instance TLC checks | |
| `TaskQueueProofs` | theorems about `TaskQueue` | every step checked by tlapm |
| `TimerAlarm` | what `core/timer.h` promises (abstract specification) | implemented by `Timer`, checked and proved |
| `Timer` | `core/timer.cpp` | checked; safety proved in `TimerProofs` |
| `MCTimer` | the instances TLC checks | |
| `Shutdown` | `core/shutdown.cpp`, for any handlers | implemented by `AppShutdown`; safety proved in `ShutdownProofs` |
| `AppShutdown` | `app/app.cpp`, the shutdown handlers of all libraries and the resources they wait for | checked, safety proved in `ShutdownProofs` |
| `Socket` | `SocketBase` of `win/winsock.cpp`, one socket | checked, safety proved in `SocketProofs` |
| `ConnMgr` | `ConnectManager` of `net/sockmgrconn.cpp` over connecting sockets | checked, safety proved in `SockMgrProofs` |
| `AcceptMgr` | `AcceptManager` of `net/sockmgracc.cpp`, `net/appsocket.cpp` and `win/winsockacc.cpp` | checked, safety proved in `SockMgrProofs` |
| `ConfigFile` | `app/config.cpp` and `win/winfilemon.cpp`, one file | checked, safety proved in `ConfigFileProofs` |
| `LogFile` | `app/logfile.cpp` and the writes of `win/winfile.cpp` | checked, safety proved in `LogFileProofs` |
| `HttpConn` | `net/httpconn.cpp`, and the way `HttpSocket` in `net/httproute.cpp` uses it | checked, safety proved in `HttpConnProofs` |
| `TimerProofs`, `ShutdownProofs`, `SocketProofs`, `SockMgrProofs`, `ConfigFileProofs`, `LogFileProofs`, `HttpConnProofs` | theorems about the modules of these names, in `ShutdownProofs` also about `AppShutdown`, in `SockMgrProofs` about `ConnMgr` and `AcceptMgr` | every step checked by tlapm |

To check a run: `tlc -config TaskQueue.cfg MCTaskQueue`; the root module of each
run is in section 3.  To check the proofs: `tlapm TaskQueueProofs.tla`, and so on.
`PROJECT.json` lists runs, properties, the source lines of every definition, the
hazards of the code, and for each property a mutation of the code that breaks it.

## 1. The system and its components

Paths are relative to `src/libs`.

**Task queues** (`core/task.cpp`).  State: a set of queues, each an intrusive
singly linked list with wanted and current numbers of threads; one mutex, a
condition variable per queue.  Operations: create a queue, push one or several
tasks, set the number of threads, push once, initialise, destroy.  All else runs
on it: timers, completions, sockets and handlers are tasks of the event queue,
which has one thread, so that the rest of the framework can do without locks.
Hard: choice between `notify_one` and `notify_all`, threads that end by running
a task of their own, resizing while threads come and go, destruction while
threads are leaving.  Correct: lists hold what was pushed, in order; no wake-up
is lost; counters are right; event tasks never overlap; nothing is used after
it was deleted; destruction ends.

**Timers** (`core/timer.cpp`).  State: a priority queue of expirations, the run
mode, the notify in progress; per notify a shared `Timer` with expiration and
instance number.  Operations: `timerUpdate`, `timerCloseWait`, the destructor of
`ITimerNotify`, from any thread; the dispatch thread pushes `RunTimers` to the
event queue.  Hard: handlers run without the mutex and may update or close their
own timer; closers wait for a handler in progress; queue entries are never
removed but outdated.  Correct: each set timer has exactly one entry that counts,
the dispatch thread never oversleeps, a closed timer is quiet, a due timer fires.

**Shutdown** (`core/shutdown.cpp`).  State: the list of handlers, newest first,
which of them have completed the phase, the phase, the time the shutdown began.
A timer calls the handlers of the client, server and console phases, first all
of them, then the incomplete ones, a pass ending at the first that still is.
Hard: retries, handlers registered at different times, the limit of two minutes.
Correct: the order of `shutdown.h`; no handler is called after it has completed
a phase; no phase ends before everybody is complete.

**Application lifecycle** (`app/app.cpp`).  Initialises the parts in a fixed
order, runs the event queue, turns `appSignalShutdown` into the shutdown, in
which each library has a handler that closes what it has, or waits.  Hard: the
handlers depend on each other only through the order of their registration and
their retries, and the stop may come in the middle of the start.  Correct: what
is torn down is not needed any more, nothing is left over, the shutdown ends.

**Sockets** (`win/winsock*.cpp`).  State: connection mode, the lists of pending
and parked reads and of unsent and sending writes, the completion queues of
registered I/O.  Operations: connect, accept, read, write, disconnect, all in the
event thread, completed by the dispatch of an I/O completion port.  Hard: a
socket deletes itself when its last request completes, under callers further up
the stack; failures that complete at once and those that complete later; handlers
that disconnect or read from inside a callback.

**Socket managers** (`net/sockmgr*.cpp`).  State: a list of listening addresses,
or of connections by address with a mode, a reconnect timer and an inactivity
timer.  Operations: set addresses, connect, disconnect, reconnect, shutdown.
Hard: addresses removed and added again while a socket is still stopping,
shutdown in the middle of a connect.  Correct: shutdown completes, every socket
is closed once and destroyed before the manager, one connection per address.

**Application sockets** (`net/appsocket.cpp`).  Collects the first bytes of a
connection until one protocol matches, then replays them to that protocol's
notify; closes connections that say nothing.

**HTTP/2 connections** (`net/httpconn.cpp`).  State: streams with a state for
each side, send windows of the connection and of each stream, data held back,
a pending settings acknowledgement, streams to be forgotten after a reset.
Operations: ten kinds of frames from the peer; request, reply, data and reset
from the application.  Hard: flow control across both windows, the end of a
stream while data is held back, resets crossing with answers, windows changed by
SETTINGS.  Correct: no window is exceeded, nothing is sent after the end, nothing
accepted is forgotten, held back data is sent as soon as there is room.

**HTTP routing** (`net/httproute.cpp`).  Request ids, the requests of each
socket, replies from other threads as tasks.  The part that `HttpConn` needs,
when a request is known and forgotten, is modelled there.

**Configuration files and file monitor** (`app/config.cpp`,
`win/winfilemon.cpp`).  Notifier lists per file, a change timer, in each of the
two a mutex that is released for a callback and the thread that is in one;
`closeWait` from other threads.  Hard: notifiers added and removed while a list
is walked; a thread that waits in one file while it is in a callback of the
other; a write during the read.  Correct: a closed notifier is quiet, everybody
ends up with the last version, every call returns.

**Log files** (`app/logfile.cpp`).  State: the open file, one buffer that is being
written and one that takes what comes meanwhile.  Any thread logs; a write is
started by a thread of the queue "File IO" and completed on the event thread; a
fatal message is written at once, under the lock, before the process is aborted.
Hard: buffers that are swapped under those who log, writes that fail and whose
failure is logged itself, a log that is closed while it is written.  Correct:
each message is in the file once and in order, or was dropped; a buffer is left
alone while the system reads it; closing ends; the fatal message is in the file.

**I/O dispatch, pipes and child processes, platform services** are modelled as
far as the shutdown waits for them (`AppShutdown`).  **HTTP messages
and routing, files, TLS, containers, parsers, tools** are listed with their
reasons in `PROJECT.json`.

How they interact: completions (`winiocp.cpp`) and timers push tasks; the event
thread runs handlers, which call sockets, timers and managers directly; other
threads only push tasks, update or close timers, and close configuration
monitors.  So concurrency in the sense of interleaved threads is confined to
`core/task.cpp`, `core/timer.cpp`, `app/config.cpp` and `win/winfilemon.cpp`;
above them the difficulty is reentrancy and the order of events.

## 2. How the models correspond to the code

### TaskQueue

An action is one critical section of `s_mut`, or one step outside of it.  `first`,
`last` and `next` are the pointers of the code, `want`, `cur` and `numThreads` its
counters, `qstate` whether the queue is in `s_queues`.  A worker (`pc`, `home`,
`task`) is `taskQueueThread`: `Take` pops, `Wait` goes to sleep, `Finish` returns
from the task, `EndThread` runs an `EndThreadTask` and leaves the loop,
`NotifyDestroyed` is the `notify_one` after the unlock.  A call of the API is
begun (`BeginPush`, `BeginCreate`, ...: the arguments are made and `s_running` is
tested, without the lock) and carried out (`DoPush`, ...: under the lock) in two
steps, because that is where the code can be interleaved with `iTaskDestroy`.
`taskPushOnce` is three calls.  `iTaskDestroy` is `DestroyBegin` to `DestroyWoken`.
`fifo` is a history variable, the order of the pushes; the model does not decide
anything by it except that a task object in use is not pushed again, which the
callers of the code must observe too.  Threads and task objects are finite pools.

### Timer

Time is relative to the present: `Tick` lets it pass, waits are `0 .. MaxWait` or
infinite.  `timers` is `s_timers` in order; a node says whether its instance number
is still that of its `Timer` and whether that `Timer` is still the notify's, which
is all that the numbers and shared pointers are used for.  `RunStart` .. `RunNotify`
are `RunTimers::onTask`, which keeps the mutex from one callback to the next
(`Unlocked`) and drops it for the callback; `Update` and `UpdateNotify` are
`timerUpdate` with the notify after the unlock; `CloseBegin`, `CloseLocked`,
`CloseWoken` are `timerCloseWait`, whose first test is made without the mutex;
`Dispatch...` are the dispatch thread, `Destroy...` `iTimerDestroy`.  Spurious
wake-ups of all three condition variables are actions.  A notify is used by one
thread (`Owner`), which is how the repository uses them; a handler that updates
or closes its own timer is an input (`SelfCalls`).

`TimerAlarm` has none of this: per notify the time that is left, the handler that
is running, and who waits for one.  The time left is `expiration`, which the code
keeps in the `Timer`; that the handler is called by it and not by the nodes of the
queue, of which any number are outdated, is what the refinement says: not too
early, once for each time set, and not between a close and the return of the
thread that waits.  Once the timers have been stopped it promises nothing.

### HttpConn

Everything happens in the event thread, so a frame or a call is one step.  A
connection is a record of the state that sending works on (`Conn`), and `AddData`,
`WriteMsg`, `WriteUnsent`, `ResetStream` are functions on it named for the code's
methods; `Become` stores the result.  The handlers take the frames a peer can
send, well formed or not; `OnBadFrame` stands for all the checks of lengths,
padding, stream 0 and frame mode that only end in GOAWAY, for promises and for
continuations, which the code never accepts.  A header block is one of four
kinds by what decoding makes of it.  `wire` is an observer: the send windows as the
peer counts them, which streams the code has another window for, from the start
or since a SETTINGS (`misjudged`), whether a stream has been ended or reset on the
wire, and the rules of RFC 7540 that a frame has broken.  `requests` is `s_requests` of
`httproute.cpp`.  `status` says how the connection has ended: `failed` is a false
return of `recv`, after which answers are still accepted until the socket is
closed; `aborted` is `logMsgFatal`; `crashed` the undefined behaviours (a null
stream, a walk of `m_streams` that goes on from an erased node).  The walk on a
window update of the connection takes the streams in any order.

### Shutdown and AppShutdown

`cleaners` is `s_cleaners`, newest first.  A pass of `MainTimer::onTimer` is
`StopBegin`, one step for each handler (`HandlerCompletes`, `HandlerIncomplete`,
`SkipStopped` for the ones that are complete) and `StopEnd`, because other
threads run meanwhile; `pass` is the place in the list, 0 between two passes.
`HandlerTooLate` is the abort after two minutes; time is only whether they have
passed (`expired`).  `roll`, `tried` and `completed` are history: who was there
when the phase began, who was called, who answered complete.

`AppShutdown` is the same shutdown with the handlers that `appRun` and `initApp`
register, in their order (`Startup`).  What a handler does is in `UseAfter` (the
resources it closes), `ClosesPort`, `ClosesJobPort`, `FreesBuffers`,
`StopsWinsock` and `StatusAfter`, whether it answers incomplete in `Incomplete`.
A resource (a listener, sockets, a pipe, a child process, a watched directory, a
request, a window, the log) is in one of a few states between "none" and
"closing"; what brings it on is the peer, the program (`Owner`) or a completion,
which the dispatch thread has to deliver.  Abstractions: a handler does not
register others (`emplace` would move the vector under the loop); once the
console phase has begun, only the handler of the log writes to it; sockets are
healthy, see the modules below for those that are not.

### Socket

One `SocketBase` as a record, with its member functions as operators from socket
to socket.  `reads`, `prereads`, `writes`, `prewrites` are the lengths of the
lists, `kreads` and `kwrites` the part that the kernel has not completed; `queue`
is the completion queue, `batch` what `onTask` has taken and not yet looked at.
A handler of the application may write, disconnect or hold back the read
(`Calls`); so may the program between two tasks.  `touched` records a use of the
object after it was deleted by one of its own functions.

### ConnMgr and AcceptMgr

Everything happens in the event thread, a handler is one step.  `ConnMgr` has a
`ConnMgrSocket` for each address: its mode, `m_stopping`, whether it is in the
list of recent attempts, and what there is below it, the connecting
(`win/winsockconn.cpp`) and then connected socket.  An attempt may fail at once,
in `Connect`: what becomes of the manager's socket is what `onSocketDestroy` makes
of it from within `connect`, in a build without assertions, and `dangling` says
that a `ConnectFailedTask` is left for a `RawSocket` that is gone.  What that task
does is undefined; it does nothing, or the process is "broken" (`FailedTask`).
`AcceptMgr` has managers that
share addresses (`factories`), the `ListenSocket`s of an address, of which an old
one may still wait for its accept to end, and connections, which are unmatched,
listed by a manager, or neither.  `socketListen` may fail, without telling anybody
(`Opening`): then there is no listener, or one that is closed already.  Both have the shutdown of the manager and, in
`AcceptMgr`, the phases it belongs to.

### ConfigFile

A step is a critical section of one of the two mutexes, or what is done between
two.  `list` is the list of notifiers with the marker of the walk in it, which is
the code's own device (`Walk`, `Passed`).  `Monitor`, `CloseWait`, `ConfigChange`
are the functions of `config.h`, called by any thread; `OnTask` and `OnTimer` are
the completion and the timer of the file monitor, in the event thread, which ends
up in the same list through `ReadFile` and `ParseContent`.  A document is the
version of the file it was read from.  A handler may close other notifiers, its
own only with the habit "closeSelf", and makes no other call.

### LogFile

A step is a critical section of `m_mut`; a message is its number in the order in
which that was taken.  `WriteLog` is `writeLog` for whoever logs: any thread
(`Log`), a File IO thread (`IoLogs`), or the event thread with the failure of the
last write (`LogFailure`).  With `wait` it is `LogFatal` to `FatalResumes`, with the
mutex kept in between (`Locked`), and then `Abort`.  `async` and `sync` are the two
`FileWriter`s that can be under way, from the queue of the File IO threads
(`AsyncStarts`, `SyncStarts`) over the system (`AsyncWritten`, `AsyncFails`,
`SyncDone`) to their completion, which is `OnFileWrite` on the event thread for the
one and `SyncEnds` on a File IO thread for the other.  `disk`, `handed`, `lost` and
`urgent` are history: what is in the file, what the system was given, what was
dropped, which message was fatal.

### What a program may do

`Socket`, `ConnMgr`, `AcceptMgr`, `ConfigFile` and `LogFile` have a constant
`Habits` (`ConnHabits` in `ConnMgr`), legal or at least not forbidden calls, and failures, that the code does
not survive.  The runs have none of them, and section 4 says what each leads to.

## 3. Runs

| run | root module | instance | shows |
|---|---|---|---|
| `TaskQueue` | `MCTaskQueue` | 3 queues, 3 threads, 2 tasks, batches of 2, resizing to at most 2 | all interleavings of pushes, resizes, thread ends and destruction keep counters (`ThreadCounts`), wake-ups (`NoSleeperWhileBacklog`) and lifetimes (`NoUseAfterDelete`) right, and implement `TaskFifo` (`ImplementsFifo`), which has the event queue run one task at a time; `IInv`, the invariant of the proofs, holds, types and lists (`TypeOK`, `ListMatchesFifo`) among it |
| `TaskQueueLive` | `MCTaskQueue` | 2 queues, fair | a pushed task that has a thread left to run it starts; `iTaskDestroy` returns |
| `Timer` | `MCTimer` | a notify of the event thread, one of another thread, waits 0, 1 and infinite | one entry that counts for each set timer and the static task in one place (`QueueConsistent`), no oversleeping (`DispatchNotLate`), closed timers quiet (`ClosedIsQuiet`), all of it an implementation of `TimerAlarm` (`ImplementsAlarm`) |
| `TimerLive` | `MCTimer` | one notify of another thread, waits to 2, fair | due timers fire (`DueFires`), `timerCloseWait` and `iTimerDestroy` return (`WaitersReturn`) |
| `HttpConn` | `HttpConn` | a server with two streams or a client with one, windows up to 3, frames of 2, SETTINGS that raise the initial window or exceed the limit | windows respected, open streams kept and messages there where data is appended (`StreamsConsistent`), data held back only for want of window on streams whose window the code has right (`HeldBackForWindow`), reset streams closed until deleted (`ResetStaysClosed`), an answer fatal only to a request whose own stream was reset or its id reused (`FatalOnlyOnOwnReset`) |
| `AppShutdown` | `AppShutdown` | all 16 handlers, up to three resources in use and a request, a stop at any moment | the passes keep their order (`ShutdownIInv`), no phase ends too early (`PhaseEndsComplete`), layers outlive their users (`LayersOutliveUse`), nothing is left over (`StoppedIsClean`), the shutdown ends (`ShutdownEnds`) |
| `Socket` | `Socket` | 3 reads, 3 writes, results in batches of 2, 3 waiting writes | requests are counted up to the last, which deletes the socket (`SocketConsistent`), one `onSocketDisconnect` (`DisconnectedOnce`), the truth about waiting data (`WaitingIsTold`), the end (`ClosedIsDeleted`) |
| `ConnMgr` | `ConnMgr` | 3 addresses, attempts that fail at once or later | every address is served (`AddressesServed`), attempts only when they should be made (`AttemptsAllowed`), the manager ends (`ManagerStops`); `ConnIInv` is the invariant of the proofs |
| `AcceptMgr` | `AcceptMgr` | 2 managers that share 2 addresses, 2 connections, addresses that cannot be opened | addresses open as long as wanted, or not to be opened (`AddressesOpen`), no connection out of sight (`LinksConsistent`), the shutdown ends (`ShutdownEnds`) |
| `ConfigFile` | `ConfigFile` | 3 notifiers, 2 threads, 2 versions of the file, one call of `configChange` | closed notifiers quiet (`WalkConsistent`), the last version for everybody (`ToldTheLatest`), every call returns (`CallsReturn`) |
| `LogFile` | `LogFile` | 2 File IO threads, 7 messages, one of them fatal, 2 in a buffer | a buffer is left alone while it is written and has a write to come (`LogIInv`); messages in the file once and in order, or dropped, the fatal one before the abort (`LogKept`); the log is closed, or the process aborted (`LogSettles`) |
| `HttpSettings` | `HttpConn` | one stream, SETTINGS that lower the window | violation of `WindowRespected` |

Deadlock checking is off everywhere: a program that has shut its queues and timers
down, or a connection that is closed, really stops.

### Bounds, and why they are enough

*Task queues.*  Three threads let a queue have two while another has one, the
least at which `notify_one` can wake the wrong number and a queue can outlive
another's thread.  Two tasks and batches of two give lists of up to five nodes
with the end tasks, so a list is emptied and refilled, and `last` goes stale.
Three end tasks allow shrinking twice before a thread has ended.  Tasks, end
tasks and threads are symmetric in the safety run.  The proofs need no bound.

*Timers.*  Two notifies are the least at which one expires while the other is
handled.  A wait of 1 tells "due" from "later"; the liveness run has 2, so a timer
can be moved to both sides of the one slept for.  `MaxNodes` bounds the stale nodes
only where `timerUpdate` adds one; two leave a stale and a live node side by side.

*HTTP/2.*  With windows to 3, frames of 2 and bodies of 0 or 3, a body fits wholly,
partly or not at all, and what remains is less than a frame.  Two streams compete
for the window of the connection.  `MaxOpened` bounds the streams opened, two, so
an id can be opened twice; `MaxResets` the entries waiting for the reset timer, two,
so one stream can be reset twice.  The only graceful GOAWAY id is above all
streams; the frame mode, acknowledgements and refusals are complete.

*Shutdown.*  The handlers are the real ones, all of them.  The directory of the
configuration is always watched; with it are any two of the other resources, one
that is waited for and one that is closed at once or below it, and a request,
which only keeps the socket company that it came in by.

*Socket.*  Queues of three are longer than a batch, so results of both kinds are
split between two tasks; the fourth write waits, and is sent by a completion.

*Managers.*  An address of a connect manager does not depend on the others but
through the shutdown and the change of addresses, for which three are more than
two sides.  Two accept managers, two addresses: an address may be shared, or
change hands; of two connections one may be unmatched while the other is listed.

*Configuration files.*  Three notifiers are the least at which one is called, one
passed and one ahead of the marker; two versions let a write meet every step of
the read of the one before; one call of `configChange` meets every walk.

*Log files.*  Two File IO threads, one of which can be held up by `m_mut` while the
other has the write of the fatal message.  Seven messages fill the buffer behind
a write, overflow it, fail and are followed by more; the bound also limits how
often a write fails, since every failure is a message.

### Fairness

`TaskQueueLive`: weak fairness for begun calls, worker threads and `iTaskDestroy`
(the operating system runs threads that can run), strong fairness for the return
of a task (handlers do not block: `shutdown.h` and the event thread demand it).
Nobody has to call anything.  `TimerLive`: in the same way, and strong fairness for
`RunStart`, since `RunTimers` is a task in the event queue and
`TaskEventuallyStarts` is what the task queue promises; for steps that need the
mutex, which others can take again and again, fairness is strong because a
mutex that starves one thread for good is not what the system gives; time passes.
`HttpConn` states no liveness.

`AppShutdown`: the main thread, the timer, the handlers and the threads of the
libraries run (weak); what shares the event thread with the passes of the shutdown
(`Settle`, `LogWritten`) is fair in the strong sense, because the event queue is
first in, first out (`Refinement`), although the retries disable it again and
again; and those who own a connection, a pipe or a child process let go of it in
the end, which is what the two minutes are for: a shutdown that they hold up is
aborted.  `Socket`: the kernel completes the requests of a closed handle, and
the event thread runs; nobody has to close anything.  `ConnMgr`: an attempt to
connect ends (`kConnectTimeout`), a closed socket is deleted (`ClosedIsDeleted`),
timers fire (`DueFires`), the shutdown retries; peers need not close anything.
`AcceptMgr`: likewise, and a closed handle ends the accept.  `ConfigFile`: threads
go on, completions and timers of the event thread run; nobody has to write the
file or call anything.  Its waits need weak fairness only, because the calls and
the writes are bounded and nobody is overtaken for ever.  `LogFile`: threads run,
a write is done or fails, the shutdown retries; nobody has to log anything.

## 4. Known divergences

One of them is a run:

* **`HttpSettings`** (`httpconn.cpp:1050`).  The initial window is stored before the
  difference is computed from it: the difference is always 0 and the windows of
  open streams are not moved.  After a SETTINGS that lowers the window the next
  answer exceeds it.  After one that raises it data is held back that the peer
  would take (`AllHeldBackForWindow`, see below).

The others were found in the same way; each can be seen again by the change to a
configuration that is named:

* `winiocp.cpp:116` (`AppShutdown.cfg`, `Use = {"pipe"}`, `MaxRuns = 2`,
  `SPECIFICATION TwiceSpec`, `ShutdownEnds` only).  `app.h:24` says that `appRun` can
  be called over again.  `m_closing`, which tells the handler that it has closed
  the completion port, is still set in the second run: that port is never closed,
  the handler never completes, and after two minutes the process is aborted.
* `timer.cpp:279` (`TimerLive.cfg`, `SelfCalls <- SelfUpdate`: `WaitersReturn`).
  `timer.h:75` says that `timerCloseWait` waits until the handler returns and then
  closes the timer.  If the handler arms its timer again and it is due at once,
  the closer is notified, finds the same handler in progress again and goes back
  to sleep; the next notify is skipped, since the timer is now set.  It sleeps for
  good.
* `timer.cpp:263` (`TimerLive.cfg`, `SelfCalls <- SelfClose`, invariant
  `ClosedIsQuiet`).  After a handler has closed its own timer a `timerCloseWait`
  of another thread returns while the handler is running.
* `httpconn.cpp:1464` (`HttpSettings.cfg`, `InitialWindows = {3}`, `NothingAfterEnd`).
  `http.h:384` says when a stream ends.  `writeUnsent` sends an empty END_STREAM for
  a stream that has already been ended, at every window update until the other
  side ends too.  The property is also broken by an empty last part sent while
  data is held back (`httpconn.cpp:1404`): the end goes out first.
* `httpconn.cpp:1239` (likewise, `CompletedIsNotIdle`).  The comment at 1247 says
  that updates on completed streams are ignored; on a client they count as frames
  on idle streams, and the connection is given up.
* `httpconn.cpp:1491` (`HttpConn.cfg`, `AllHeldBackForWindow`).  `request` leaves the
  window of its new stream at 0 (`httpint.h:36`), where a stream of the peer gets the
  initial window.  RFC 7540, which `http.h:6` claims to implement, has both start
  with the initial window: a body waits for an update that the peer need not send.
  That is why `HeldBackForWindow` is about the streams whose window the code has
  right; those that a client opens are not, nor are those that were open when a
  SETTINGS changed the initial window.
* `httpconn.cpp:1428` (likewise, `ClosedIsNotFatal`).  `http.h:374` and `385` promise that
  `httpReply` and `httpData` return false for a stream that has been closed.  They do
  if it is not in `m_streams` any more; if it was reset and waits for the reset
  timer, `addData` sends the data and ends the process with `logMsgFatal`.
* `winsvc.cpp:181` (`AppShutdown.cfg`, property `ServiceStoppedLast`).
  `app.h:201` says that SERVICE_STOPPED comes only after all shutdown handlers have
  completed; it is reported in the first pass of the console phase.
* `winsock.cpp:172` (`Socket.cfg`, `Habits = {"again"}`: `DisconnectedOnce`).
  `hardClose` sets the mode to closing whatever it was: a socket that is
  disconnected once more, in or after `onSocketDisconnect`, with a read held back,
  reports the disconnect a second time (`socket.h:77` says exactly one).
* `winsock.cpp:487`, `236` (`Habits = {"resume"}`, `{"refuse"}`: `SocketConsistent`).
  An application that reads on from within `onSocketBufferChanged`, or refuses the
  connection from within `onSocketAccept`, deletes the socket under `onTask` or
  `enableEvents`, which go on with it.
* `winsockconn.cpp:156`, `158`, `182` (`ConnMgr.cfg`, `FailedThenDestroyed`).  `socket.h:130`
  says that a failed connection gets `onSocketConnectFailed` and then
  `onSocketDestroy`.  If it fails at once the second comes first, from within
  `connect`, while the manager's socket is still connecting (the assertion
  `sockmgrconn.cpp:203` fails in a debug build), and the first is a task that is run
  on the `RawSocket` after it was deleted.
* `sockmgrconn.cpp:134` (`ConnMgr.cfg`, property `NoLateConnection`).  `sockmgr.h:103`
  says that after `sockMgrShutdown` no new connections will be allowed.  A socket
  that is connecting cannot be disconnected yet, its connection is made and
  accepted later, and nobody closes it.
* `sockmgrconn.cpp:246` (`ConnHabits = {"readd"}`: `AddressesServed`).  An address that is
  given back before its old socket is gone gets that socket, which goes on being
  stopped; the assertion on its mode fails in debug builds.
* `sockmgracc.cpp:184` (`AcceptMgr.cfg`, `Habits = {"late"}`, `{"relisten"}`:
  `AddressesOpen`; `{"refuse"}`: `LinksConsistent`).  Addresses that change after the
  shutdown of the manager are listened on again; an address wanted again while
  its old listener is going has two of them, and the wrong one is closed later; a
  connection whose `onSocketAccept` returns false has an owner that does not list it.
* `config.cpp:257` (`ConfigFile.cfg`, `Habits = {"closeSelf"}`: `ClosedStaysClosed`,
  `WalkConsistent`).  The comment at 242 says that the list stays valid if monitors
  are removed while the change events run.  A handler may close its own notifier
  (144), which is deleted (149) and then linked into the list again, before the
  marker.
* `config.cpp:199` (`ConfigFile.cfg`, `Habits = {"busy"}`: `ToldTheLatest`).  The file
  cannot be opened while its writer has it open: the notifiers get an empty
  document, and the time of the file has been noted already, so that it is not
  read again before it is written once more.
* `config.cpp:151` (`Habits = {"reopen"}`: `ToldTheLatest`).  A file whose last notifier
  was closed stays registered with the file monitor, since the key of `s_files` is
  not the full path; a notifier that registers anew is not called.
* `logfile.cpp:99` (`LogFile.cfg`, `Habits = {"openFails"}`: all three properties).  A
  message whose file can't be opened stays in `m_writing` with no write to come:
  all later ones are queued behind it, the error message is dropped as a recursion
  (`log.cpp:79`), `closeLog` never returns true although `logfile.cpp:36` says that it
  will, and a fatal message is appended to a file that is not there.
* `logfile.cpp:126` (`Habits = {"syncFails"}` or `{"errors"}`: `LogSettles`).  If the write
  of a fatal message fails, the File IO thread logs that before it wakes the thread
  that waits, which has `m_mut` locked: the process hangs and is not aborted.  So
  it does when all File IO threads have errors to log.
* `app.cpp:313` (`Habits = {"late"}`: `LogIInv`).  No file may be open after the shutdown,
  says the comment there; a message logged after `closeLog` has returned true opens
  the log again, and nobody closes it.
* `winfile.cpp:258`.  A write that fails is logged, to the same log, and that
  message is the next write: while writes fail the log is never closed.  The bound
  on messages hides this from `LogSettles`.

## 5. Proofs

All theorems are about the specifications that TLC checks, for any values of
their constants that satisfy the assumption named in the module.  Where a theorem
leaves out some of the `Habits`, the statement is false with them (section 4),
but for the one that is named below.
Each proof has the same form: an inductive invariant, a lemma for each part
of it by actions, and a temporal step at the end.

**`TaskQueueProofs`**, for any sets of queues, threads, tasks and any bounds
that satisfy `QueueAssumption` (two different queues for events and for computing,
finite pools of threads and end tasks, task objects that are not end tasks):

* `TypeCorrect`, `ListsCorrect`, `NoDanglingQueue`, `EventsSerialized`: the invariants
  `TypeOK`, `ListMatchesFifo`, `NoUseAfterDelete` and `EventTasksSerialized`, of which
  the run `TaskQueue` checks the third, the others as parts of `IInv`;
* `CountsCorrect`, `NoWakeupLost`: `ThreadCounts` and `NoSleeperWhileBacklog`;
* `Refinement`: the specification implements `TaskFifo`;
* `Invariance`: `IInv` is an invariant, from which the others follow.

None of them is inductive.  That links spell out the list needs every node
to be in one place: in one list once, running in one thread, or an argument of
one call (`NodesApart`, `CallTasksApart`).  That a queue is not deleted under a
thread needs the total count to be that of the threads there are, and calls to
refer to queues that exist or that an earlier call of the same caller creates
(`CallsOK`), and callers to be alive (`CallersAlive`).  That the event queue has one
thread needs that only the first call of `iTaskInitialize` gives it one
(`EventCallOnlyAtStart`, `EventQueueNotYet`, `OneEventThread`).  `IInv` is their
conjunction.  The proof has a lemma for each conjunct, by actions, on lemmas
about `Enqueue`, `Dequeue` and `SetThreads`; the refinement maps `fifo` to the pending
tasks and the tasks of running workers to the running ones: `DoPush` and a
shrinking resize are `Add`, `Take` is `Start`, `Finish` and `EndThread` are `Finish`,
everything else stutters.

The two about counters need more, `CountIInv`.  How far `curThreads` is ahead of
`wantThreads` is not in any variable: it is the number of end tasks that are in
the list of the queue or running in one of its threads (`Counted`), whose change is
followed through lists that are appended to, popped and handed to threads.  And
the choice between `notify_one` and `notify_all` is right only because, while a
thread sleeps, there are no more tasks than threads awake and about to look at
the list (`Attended`), the one that has been notified being one of those.

**`TimerProofs`**, for any notifies, threads and longest wait:

* `TimerQueueConsistent`, `TimerDispatchNotLate`: `QueueConsistent` and `DispatchNotLate`,
  whatever handlers call on their own timer.  `TimerIInv` says that the queue is
  sorted and each set timer has one entry that counts, at the time it is set to
  (`QueueOK`), until the dispatch thread throws the queue away on its way out;
  that the static `RunTimers` is in one place; and where the threads are when.
* `TimerClosedIsQuiet`: `ClosedIsQuiet`, if handlers do not update or close their own
  timer (`SelfCalls = {}`).  `QuietIInv` adds that a call in progress is one that its
  caller may make (`CallsOK`), that no node is left of a `Timer` that is gone
  (`NoOrphans`), and that a handler which runs on a closed timer has its closer
  waiting for it (`HandlerWaitedFor`).
* `TimerImplementsAlarm`: the timers implement `TimerAlarm`, on the same condition,
  from `QuietIInv`.  `Update` is `Set`; `CloseBegin`, on a timer that is closed
  already, and `CloseLocked` are `Close`; `CloseWoken` is `CloseEnds`; `RunCallback`
  is `Fire`, because the node it takes is live and then has the time of its timer,
  which is set and so not being closed; `RunReturn` is `Finish`; all else stutters.

**`ShutdownProofs`**, for any set of handlers (`Shutdown`) and any set of
resources in use and any bounds (`AppShutdown`):

* `ShutdownInvariance`, `AppInvariance`: `ShutdownIInv`, which contains that a retry
  begins behind completed handlers only (`RetryInOrder`) and that nobody is called
  again who has completed (`CompletedNotRecalled`).  By themselves these are not
  inductive: the marks in `s_cleaners` have to mean what the history says
  (`MarksTrue`), from the moment a phase has begun and not before (`HistoryFresh`);
  the first pass calls everyone (`FirstPassCallsAll`); and `stop()` answers true
  only for what it has seen (`StoppedSoFar`).
* `PhasesComplete`, `AppPhasesComplete`: the action property `PhaseEndsComplete`, from
  the invariant at `StopEnd`.
* `AppImplementsShutdown`: every step of the application is a step of the shutdown
  protocol or leaves it alone; the second of each of these pairs follows from it.
* `AppLayersOutliveUse`, `AppStoppedIsClean`: what a resource needs is there as long as
  it does, and nothing is left when the main thread returns.  `AppIInv` ties the
  handlers to the resources: `s_cleaners` is a beginning of `Startup`, reversed
  (`RegisteredInOrder`, so that what was started later is called earlier); nothing
  is in use before its library has been initialized (`NothingTooEarly`);
  what the client and server phases wait for is gone when they are over
  (`PhasesSettle`), what the handlers of the console phase wait for when the pass has
  gone by them (`ConsoleSettles`); and each layer stands while one above it is
  in use (`LayerStands`).

**`SocketProofs`**, for any lengths of the queues, batches and waiting writes:

* `SocketWaitingIsTold`: `WaitingIsTold`, with any `Habits`.
* `SocketStaysConsistent`: `SocketConsistent`, without "refuse" and "resume".
* `SocketDisconnectedOnce`: `DisconnectedOnce`, without "again".

`SocketIInv` says that the requests of the socket are those of the kernel and the
results in the completion queue and in the batch (`Counted`), as cardinalities of
sets of places in the two sequences; that the object is gone only when there are
none (`Gone`); and that data waits only while the send queue is full, and the
application knows it if it does (`Waits`).  It holds with every habit.  What the
habits break is `Untouched`, that the object is there as long as `onTask` runs, and
`Once`, that the mode is closed if and only if the disconnect was reported.

**`SockMgrProofs`**, about both managers.  `ConnMgr`, for any set of addresses,
without "readd", with attempts that fail at once: `ConnInvariance`, with `SocketsSettled` as the strengthening: a socket of a lost
connection is gone, connecting again or in `m_recent`; from it `Served`
(`AddressesServed`) and `Attempts` (`AttemptsAllowed`).  `AcceptMgr`, for any
managers, addresses and connections:

* `AcceptLinksConsistent`: `LinksConsistent`, without "late" and "refuse".  A
  connection that nobody has matched has an address and no owner, a matched one
  is in the list of its owner, who is not gone (`LinksOK`).
* `AcceptAddressesOpen`: `AddressesOpen`, without "late" and "relisten".  The managers
  registered for an address are the running ones that want it (`FactoriesOK`), and
  it has at most one listener, unless it could not be opened, which is dead, waits for connections because the
  address is wanted, or is on its way out because it is not (`ListenersOK`).

**`ConfigFileProofs`**, for any threads, notifiers, versions and calls:

* `ConfigWalkConsistent`: `WalkConsistent`, without "closeSelf".  The list holds nobody
  twice, and the marker exactly while a thread is in a handler (`Ring`); the
  notifier that is called is then the one behind the marker, whatever has been
  added and closed meanwhile (`AtMark`).
* `ConfigToldTheLatest`: `ToldTheLatest`, with no `Habits`; "closeSelf" is left out
  because the proof needs `WalkConsistent`, TLC finds no violation with it.  The property is
  about a state of rest, so that the invariant has to say on whom the last
  version depends until then: the report of the directory, the change timer, the
  thread that reads or the one that parses (`OnItsWay`); and for each notifier that
  has not been told of what was parsed, that a thread is going to read the file,
  or to walk the list, or is in the walk and has not passed it (`Expects`).
  A first attempt also showed that the models' `MaxDisk` may not be 0:
  the file is there when it is first monitored.

**`LogFileProofs`**, for any File IO threads (two at least), any size of the
buffers and any number of messages, with neither "openFails" nor "late"
(`Healthy`): `LogInvariance`, which is inductive as it stands, because it says for
each state of the two writes which buffer they have; and `LogKeptAlways`,
inductive relative to the first.  That messages are in order needs that they are
where they should be (`Accounted`, `Apart`) and that the last write is in the file
before its buffer is given up (`FatalOnDisk`).

**`HttpConnProofs`**, for any finite sets of stream ids, any windows, frames and
sizes, for servers and clients:

* `HttpStreamsConsistent`, `HttpHeldBack`, `HttpResetStaysClosed`: the invariants
  `StreamsConsistent`, `HeldBackForWindow`, `ResetStaysClosed`.  `HttpIInv` says of
  each stream that it agrees with what the peer has seen, its window included
  unless it is in `misjudged`, and has an entry in `s_resetStreams` exactly if this
  side has reset it (`Kept`), that its data waits for want of window (`Held`), and that the first stream of an id is ready for what
  the application still answers (`Answerable`); and that no such entry is of a
  stream yet to come (`Dated`), or an old one would count for the next stream of
  its id.
* `HttpFatalOnlyOnOwnReset`: the action property, from `Answerable` at each answer.
* `HttpWindowRespected`: `WindowRespected`, if the peer never lowers its initial
  window.  The run `HttpSettings` shows that it is false otherwise.  `CreditInv`
  says that the windows kept are at most the peer's (`Covered`) and that no DATA has
  exceeded those (`Paid`); it is not in `HttpIInv` because a lowered window breaks it
  and nothing else.  That the window of the connection is exactly the peer's is part
  of the type of a connection (`Conns`).

What a method does to the value `Conn` is a lemma of its own (`AddDataIs`,
`WriteMsgIs`, `ResetIs`, ...): what becomes of the stream that it is about
(`Does`), and that it leaves the others alone (`Spares`).  A handler follows from
these without being unfolded (`Safe`).  A window update of the connection goes over
all streams, in any order, and each turn spends from the window that the others
have: what it has done after any number of turns is proved by induction
(`WalkKeeps`).  The walk is a recursive function over the places in the order;
that the function exists, and has its values, and what holds of them follows from
`NatMin`, that a set of numbers has a least element, which is the library's
well-founded induction for the one relation `<`.  The ids are finite because
`m_streams` is, and a walk of it ends.

Model-checked only, because fairness and `ENABLED` are out of the prover's reach, is
all liveness: `TaskEventuallyStarts`, `DestroyReturns`, `DueFires`, `WaitersReturn`,
`ShutdownEnds` of `AppShutdown` and of `AcceptMgr`, `ClosedIsDeleted`, `ManagerStops`,
`CallsReturn` and `LogSettles`.  Every invariant and action property of the passing
runs has a theorem, some with the restriction that is named there.

## 6. Not modelled

In `HttpConn`: the splitting of the input into frames, the encoding of frames and
headers, error texts, priorities (the code ignores them), flow control of what is
received (the code has none).  In `Timer` and `TaskQueue`: performance counters,
names.  Two closers of one timer are not in the passing runs.  In `AppShutdown`: the
command line, what `initVars` sets up, registration from within a handler.  In
`Socket`: byte counts and statistics.  In the managers: pings, changes of the
inactivity timeout, the preference among families, filters and TLS.  In
`LogFile`: formats, the log level, the list of loggers, offsets in the file.  In
`ConfigFile`: several files, nested registrations, the closing of the directory, the
data race of a handler that reads a document while it is parsed anew
(`config.cpp:182`).  The components without a module, with the reason for each, are
in `PROJECT.json`: string processing, generated parsers (most of the lines of the
repository), thin wrappers of the operating system, and build tools.

## 7. Plan

1. `HttpRoute`: request ids and the ids each socket remembers, over `HttpConn`.
2. Algorithms: `IntegerSet` and the HPACK dynamic table, against reference
   definitions.
