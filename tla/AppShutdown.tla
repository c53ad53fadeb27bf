---------------------------- MODULE AppShutdown -----------------------------
(***************************************************************************)
(* An application that starts, runs and stops: appRun of app/app.cpp, the  *)
(* handlers the libraries register, in the order of their registration,    *)
(* and the resources the handlers wait for or tear down: a listener, a     *)
(* socket it accepted, a socket the program connected, a pipe, a child     *)
(* process, a watched directory, a request, the window of the gui and the  *)
(* log file.                                                               *)
(* Every asynchronous I/O is completed by the dispatch thread of           *)
(* win/winiocp.cpp, which ends when its completion port is closed, so the  *)
(* port may go only when nothing waits for it any more.                    *)
(*                                                                         *)
(* The shutdown itself is module Shutdown.  The event thread runs initApp, *)
(* the passes of the shutdown and the callbacks of the sockets one at a    *)
(* time.  The listener and the sockets are healthy: what their own code    *)
(* does when accept or connect fails is in modules AcceptMgr and ConnMgr.  *)
(***************************************************************************)
EXTENDS Shutdown, FiniteSets

CONSTANTS
    Use,      \* the resources the program may use
    MaxInUse, \* bound: resources in use when one is added; requests excepted
    MaxRuns   \* bound: calls of appRun

Resource == {"listener", "inbound", "outbound", "pipe", "child", "dir",
             "request", "window", "log"}

ASSUME AppAssumption == Use \subseteq Resource /\ MaxInUse \in Nat /\ MaxRuns \in Nat

\* Registered by the main thread in appRun, and by the event thread in initApp.
Platform == <<"crash", "iocp", "exec", "service", "gui", "filemon">>
Library == <<"config", "logfile", "pipe", "sockbuf", "socket", "accept", "connect",
             "appsocket", "sockmgr", "httproute">>
Startup == Platform \o Library
AppHandler == {Startup[i] : i \in DOMAIN Startup}

ASSUME HandlerAssumption == AppHandler \subseteq Handler

VARIABLES
    runMode,   \* s_runMode of app.cpp
    start,     \* place in Startup of the next to be initialized
    runs,      \* calls of appRun
    use,       \* what each resource is doing, "none" when it is not there
    iocp,      \* s_iocp of winiocp.cpp: "none", "open", "closed" (but its
               \* thread is still there) or "ended" (0 again)
    onceClosed,\* ShutdownNotify::m_closing of winiocp.cpp, a static object
    port,      \* s_iocp of winexec.cpp, likewise
    service,   \* s_mode of winsvc.cpp
    status,    \* what the Service Control Manager was told last
    winsock,   \* t_socketRunning
    buffers    \* s_buffers of winsockbuf.cpp is not empty

platformVars == <<iocp, onceClosed, port, service, status, winsock, buffers>>
appVars == <<runMode, start, runs, use, platformVars>>
vars == <<shutdownVars, appVars>>

Idle == [r \in Resource |-> "none"]

Init ==
    /\ ShutdownInit
    /\ runMode = "starting" /\ start = 1 /\ runs = 1
    /\ use = Idle
    /\ iocp = "none" /\ onceClosed = FALSE /\ port = "none"
    /\ service = "stopped" /\ status = "none"
    /\ winsock = FALSE /\ buffers = FALSE

Started == start > Len(Startup)
\* The event thread is not in initApp and not in a pass.
EventIdle == ~aborted /\ pass = 0 /\ (Started \/ start <= Len(Platform))

-----------------------------------------------------------------------------
(***************************************************************************)
(* appRun: start, run, stop, and once more.                                *)
(***************************************************************************)

\* The initialize function of the next library.
Initialize ==
    /\ ~Started
    /\ Register(Startup[start])
    /\ start' = start + 1
    /\ LET h == Startup[start] IN
        /\ iocp' = IF h = "iocp" THEN "open" ELSE iocp
        /\ IF h = "service"
             THEN \/ service' = "running" /\ status' = "running"
                  \/ service' = "stopped" /\ status' = "none"
             ELSE UNCHANGED <<service, status>>
        /\ use' = IF h = "config" /\ "dir" \in Use
                  THEN [use EXCEPT !["dir"] = "open"] ELSE use
        /\ winsock' = (h = "socket" \/ winsock)
        /\ runMode' = IF start' > Len(Startup) /\ runMode = "starting"
                      THEN "running" ELSE runMode
    /\ UNCHANGED <<runs, onceClosed, port, buffers>>

\* The command line is wrong: initApp is not run.
ParseFails ==
    /\ ~aborted /\ main = "running" /\ start = Len(Platform) + 1
    /\ runMode' = "stopping"
    /\ start' = Len(Startup) + 1
    /\ UNCHANGED <<shutdownVars, runs, use, platformVars>>

\* appSignalShutdown: the program, a signal or the service control handler.
SignalShutdown ==
    /\ ~aborted /\ runMode \in {"starting", "running"}
    /\ runMode' = "stopping"
    /\ UNCHANGED <<shutdownVars, start, runs, use, platformVars>>

MainDestroys ==
    /\ runMode = "stopping" /\ start > Len(Platform)
    /\ DestroyBegin
    /\ UNCHANGED appVars

MainReturns ==
    /\ DestroyEnd
    /\ runMode' = "stopped"
    /\ UNCHANGED <<start, runs, use, platformVars>>

\* Once more: only in the specification TwiceSpec.
RunAgain ==
    /\ runs < MaxRuns
    /\ Restart
    /\ runMode' = "starting" /\ start' = 1 /\ runs' = runs + 1
    /\ UNCHANGED <<use, platformVars>>

-----------------------------------------------------------------------------
(***************************************************************************)
(* The resources while the program runs and as it stops.                   *)
(***************************************************************************)
InUse == {r \in Resource : use[r] # "none"}
Become(r, state) == use' = [use EXCEPT ![r] = state]

\* What the program opens, in the state it is opened in.
OpensAs ==
    [listener |-> "open", outbound |-> "connecting", pipe |-> "open",
     child |-> "open", window |-> "open"]

Open(r) ==
    /\ EventIdle /\ runMode = "running"
    /\ use[r] = "none" /\ Cardinality(InUse) < MaxInUse
    /\ Become(r, OpensAs[r])
    /\ port' = IF r = "child" /\ port # "open" THEN "open" ELSE port
    /\ UNCHANGED <<shutdownVars, runMode, start, runs, iocp, onceClosed, service,
                   status, winsock, buffers>>

\* A socket is accepted, and matched to a protocol at once or later: it is
\* its manager's from then on.
Accept ==
    /\ EventIdle /\ iocp = "open" /\ "inbound" \in Use
    /\ use["listener"] = "open" /\ use["inbound"] = "none"
    /\ Cardinality(InUse) < MaxInUse
    /\ \E state \in {"open", "unmatched"} : Become("inbound", state)
    /\ buffers' = TRUE
    /\ UNCHANGED <<shutdownVars, runMode, start, runs, iocp, onceClosed, port,
                   service, status, winsock>>

\* A match needs the manager's factory, gone when the manager has stopped.
Match ==
    /\ EventIdle /\ use["inbound"] = "unmatched"
    /\ Become("inbound", IF use["listener"] = "open" THEN "open" ELSE "dropping")
    /\ UNCHANGED <<shutdownVars, runMode, start, runs, platformVars>>

\* A request comes in by a socket, and keeps nothing else open.
Request ==
    /\ EventIdle /\ "request" \in Use
    /\ use["inbound"] = "open" /\ use["request"] = "none"
    /\ Become("request", "open")
    /\ UNCHANGED <<shutdownVars, runMode, start, runs, platformVars>>

ConnectEnds ==
    /\ EventIdle /\ iocp = "open"
    /\ \/ /\ use["outbound"] = "connecting"
          /\ \/ Become("outbound", "open") /\ buffers' = TRUE
             \/ Become("outbound", "none") /\ UNCHANGED buffers
       \/ /\ use["outbound"] = "aborting"
          /\ Become("outbound", "none") /\ UNCHANGED buffers
    /\ UNCHANGED <<shutdownVars, runMode, start, runs, iocp, onceClosed, port,
                   service, status, winsock>>

\* The other side goes away, or the program closes what is its own to close.
Closing == [open |-> "closing", unmatched |-> "dropping"]
OwnerCloses(r) ==
    /\ EventIdle
    /\ r \in {"inbound", "outbound", "pipe"} /\ use[r] \in DOMAIN Closing
    /\ Become(r, Closing[use[r]])
    /\ UNCHANGED <<shutdownVars, runMode, start, runs, platformVars>>

\* The last completion of something that was closed.
IoEnds(r) ==
    /\ EventIdle /\ iocp = "open"
    /\ r \in {"listener", "inbound", "outbound", "pipe", "dir"}
    /\ use[r] \in {"closing", "dropping"}
    /\ Become(r, "none")
    /\ UNCHANGED <<shutdownVars, runMode, start, runs, platformVars>>

\* A child exits, a request is answered, the window is destroyed.
Ends(r) ==
    /\ ~aborted
    /\ \/ r = "child" /\ use[r] = "open" /\ port = "open"
       \/ r = "request" /\ use[r] = "open" /\ EventIdle
       \/ r = "window" /\ use[r] = "closing"
    /\ Become(r, "none")
    /\ UNCHANGED <<shutdownVars, runMode, start, runs, platformVars>>

\* LogFile::writeLog: a message opens the file if it has to and is written, or
\* waits behind the write that is under way, which changes nothing here.
Logged == IF use["log"] \in {"none", "open"} THEN "writing" ELSE use["log"]
Log ==
    /\ ~aborted /\ "log" \in Use /\ "logfile" \in Registered
    /\ mode \notin {"console", "finalize", "done"}
    /\ use["log"] # Logged
    /\ Become("log", Logged)
    /\ UNCHANGED <<shutdownVars, runMode, start, runs, platformVars>>

\* LogFile::onFileWrite with nothing pending.
LogWritten ==
    /\ EventIdle /\ use["log"] \in {"writing", "closing"}
    /\ Become("log", IF use["log"] = "closing" THEN "none" ELSE "open")
    /\ UNCHANGED <<shutdownVars, runMode, start, runs, platformVars>>

\* iocpDispatchThread and jobObjectIocpThread find their port closed.
DispatchThreadEnds ==
    /\ ~aborted /\ iocp = "closed"
    /\ iocp' = "ended"
    /\ UNCHANGED <<shutdownVars, runMode, start, runs, use, onceClosed, port,
                   service, status, winsock, buffers>>

JobThreadEnds ==
    /\ ~aborted /\ port = "closed"
    /\ port' = "none"
    /\ UNCHANGED <<shutdownVars, runMode, start, runs, use, iocp, onceClosed,
                   service, status, winsock, buffers>>

\* StartServiceCtrlDispatcher returns once the service is reported stopped.
ServiceThreadEnds ==
    /\ ~aborted /\ service = "running" /\ status = "stopped"
    /\ service' = "stopped"
    /\ UNCHANGED <<shutdownVars, runMode, start, runs, use, iocp, onceClosed,
                   port, status, winsock, buffers>>

-----------------------------------------------------------------------------
(***************************************************************************)
(* The handlers.  First what a call does ...                               *)
(***************************************************************************)
Shut(r) == IF use[r] = "open" THEN "closing" ELSE use[r]

\* A mutant of LogShut: an idle file stays open.
LogShutKeepsFile ==
    CASE firstTry -> IF "log" \in Use THEN Logged ELSE "none"
      [] ~firstTry /\ use["log"] = "writing" -> "closing"
      [] OTHER -> use["log"]

\* Performance counters are logged at first; then LogFile::closeLog closes an
\* idle file and leaves a busy one to onFileWrite.
LogShut ==
    CASE firstTry -> IF "log" \in Use THEN Logged ELSE "none"
      [] ~firstTry /\ use["log"] = "open" -> "none"
      [] ~firstTry /\ use["log"] = "writing" -> "closing"
      [] OTHER -> use["log"]

UseAfterClient(h) ==
    IF h = "sockmgr" /\ firstTry
    THEN [use EXCEPT !["listener"] = Shut("listener"), !["inbound"] = Shut("inbound")]
    ELSE use

UseAfterConsole(h) ==
    CASE h = "appsocket" /\ firstTry /\ use["inbound"] = "unmatched" ->
            [use EXCEPT !["inbound"] = "dropping"]
      [] h = "connect" /\ firstTry /\ use["outbound"] = "connecting" ->
            [use EXCEPT !["outbound"] = "aborting"]
      [] h = "config" -> [use EXCEPT !["dir"] = Shut("dir")]
      [] h = "logfile" -> [use EXCEPT !["log"] = LogShut]
      [] h = "gui" /\ ~firstTry -> [use EXCEPT !["window"] = Shut("window")]
      [] OTHER -> use

UseAfter(h) ==
    CASE mode = "client" -> UseAfterClient(h)
      [] mode = "console" -> UseAfterConsole(h)
      [] OTHER -> use

\* A mutant of ClosesPort: on the first call.
ClosesPortAtOnce(h) == mode = "console" /\ h = "iocp" /\ ~onceClosed

\* The completion port is closed on the first retry, once.
ClosesPort(h) == mode = "console" /\ h = "iocp" /\ ~firstTry /\ ~onceClosed
ClosesJobPort(h) == mode = "console" /\ h = "exec" /\ firstTry /\ port = "open"
FreesBuffers(h) == mode = "console" /\ h = "sockbuf" /\ ~firstTry

NumSockets(u) ==
    Cardinality({r \in {"listener", "inbound", "outbound"} : u[r] # "none"})

StopsWinsock(h) == mode = "console" /\ h = "socket" /\ NumSockets(use) = 0

\* A mutant of StatusAfter: the end of the service is not reported.
StatusAfterPending(h) ==
    IF service = "running" /\ h = "service" /\ mode = "client"
    THEN "pending" ELSE status

StatusAfter(h) ==
    CASE service = "running" /\ h = "service" /\ mode = "client" -> "pending"
      [] service = "running" /\ h = "service" /\ mode = "console" /\ firstTry ->
            "stopped"
      [] OTHER -> status

\* ... and then whether it calls shutdownIncomplete.
ClientIncomplete(h) == h = "sockmgr" /\ use'["inbound"] \in {"open", "closing"}
ServerIncomplete(h) == h = "exec" /\ use["child"] # "none"
ConsoleIncomplete(h) ==
    CASE h = "iocp" -> firstTry \/ iocp' # "ended"
      [] h = "exec" -> port' # "none"
      [] h = "service" -> service # "stopped"
      [] h = "gui" -> firstTry \/ use'["window"] # "none"
      [] h = "filemon" -> use["dir"] # "none"
      [] h = "logfile" -> firstTry \/ use["log"] \in {"writing", "closing"}
      [] h = "pipe" -> use["pipe"] # "none"
      [] h = "sockbuf" -> firstTry
      [] h = "socket" -> NumSockets(use) # 0
      [] h = "accept" -> use["listener"] # "none"
      [] h = "connect" -> use'["outbound"] \in {"connecting", "aborting"}
      [] h = "appsocket" -> use'["inbound"] \in {"unmatched", "dropping"}
      [] h = "httproute" -> use["request"] # "none"
      [] OTHER -> FALSE
Incomplete(h) ==
    CASE mode = "client" -> ClientIncomplete(h)
      [] mode = "server" -> ServerIncomplete(h)
      [] OTHER -> ConsoleIncomplete(h)

CallHandler(h) ==
    /\ Calls(h)
    /\ use' = UseAfter(h)
    /\ iocp' = IF ClosesPort(h) THEN "closed" ELSE iocp
    /\ onceClosed' = (ClosesPort(h) \/ onceClosed)
    /\ port' = IF ClosesJobPort(h) THEN "closed" ELSE port
    /\ status' = StatusAfter(h)
    /\ winsock' = (winsock /\ ~StopsWinsock(h))
    /\ buffers' = (buffers /\ ~FreesBuffers(h))
    /\ \/ Incomplete(h) /\ (HandlerIncomplete(h) \/ HandlerTooLate(h))
       \/ ~Incomplete(h) /\ HandlerCompletes(h)
    /\ UNCHANGED <<runMode, start, runs, service>>

-----------------------------------------------------------------------------
\* The timer of the shutdown runs when initApp is done.
ShutdownTimer == (pass > 0 \/ Started) /\ TimerStep /\ UNCHANGED appVars
HandlerCalled == \E h \in AppHandler : CallHandler(h)

TimeLimit == (TimeLimitPasses \/ Delay) /\ UNCHANGED appVars
\* app.xml is read by initApp.
DisableByConfig ==
    /\ Started /\ "config" \in Registered /\ mode = "main" /\ ~noLimit
    /\ DisableTimeout(TRUE)
    /\ UNCHANGED appVars

Program == \E r \in Use \cap DOMAIN OpensAs : Open(r)
Peer == Accept \/ Match \/ Request \/ Log
Io == ConnectEnds \/ \E r \in Use : IoEnds(r) \/ Ends(r)
Owner == \E r \in Use : OwnerCloses(r)
Threads == DispatchThreadEnds \/ JobThreadEnds \/ ServiceThreadEnds
Main == Initialize \/ MainDestroys \/ MainReturns

Next ==
    \/ Main \/ ParseFails \/ SignalShutdown
    \/ ShutdownTimer \/ HandlerCalled \/ TimeLimit \/ DisableByConfig
    \/ Program \/ Peer \/ Io \/ LogWritten \/ Owner \/ Threads

Spec == Init /\ [][Next]_vars

\* Threads run and timers fire; the event queue is first in, first out, so what
\* waits for a turn between two passes gets one; and those who own a connection
\* or a child process let go of it in the end.
Settle == Match \/ Io \/ Owner
Fairness ==
    /\ WF_vars(Main) /\ WF_vars(ShutdownTimer) /\ WF_vars(HandlerCalled)
    /\ WF_vars(Threads) /\ SF_vars(Settle)
    /\ SF_vars(LogWritten)

LiveSpec == Spec /\ Fairness

\* "After the framework has stopped you can call appRun over again."
TwiceSpec == Init /\ [][Next \/ RunAgain]_vars /\ Fairness

-----------------------------------------------------------------------------
(***************************************************************************)
(* Properties.                                                             *)
(***************************************************************************)

\* The dispatch thread outlives every I/O it has to complete: the handler of
\* the completion port is the second oldest, and waits for a retry.
DispatchOutlivesIo ==
    iocp \in {"closed", "ended"} =>
        \A r \in {"listener", "inbound", "outbound", "pipe", "dir"} :
            use[r] = "none"

\* Winsock and the registered buffers are there as long as a socket is.
SocketsHaveTheirLayer ==
    /\ NumSockets(use) # 0 => winsock
    /\ use["inbound"] # "none" \/ use["outbound"] \in {"open", "closing"}
        => buffers

\* What the handlers tear down outlives what uses it.
LayersOutliveUse == DispatchOutlivesIo /\ SocketsHaveTheirLayer

\* "Any sockets, pipes, files, or other shared resources MUST already be
\* closed" when iShutdownDestroy returns (app.cpp:313).
StoppedIsClean ==
    main = "stopped" =>
        /\ use = Idle /\ cleaners = <<>>
        /\ iocp \in {"none", "ended"} /\ port = "none" /\ ~buffers /\ ~winsock
        /\ service = "stopped"

\* A shutdown that was signalled ends, or is aborted by the time limit.
ShutdownEnds == runMode = "stopping" ~> (runMode = "stopped" \/ aborted)

\* "a change to SERVICE_STOPPED coming only after all application shutdown
\* handlers (see shutdownMonitor) have completed" (app/app.h:201).
ServiceStoppedLast ==
    [][(status' = "stopped" /\ status # "stopped")
       => \A i \in DOMAIN cleaners :
              cleaners[i].notify # "service" => cleaners[i].stopped]_vars
=============================================================================
