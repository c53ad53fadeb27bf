------------------------------ MODULE ConnMgr ------------------------------
(***************************************************************************)
(* ConnectManager of net/sockmgrconn.cpp: it keeps one connection open to  *)
(* every address it has been given.  Below a ConnMgrSocket is a RawSocket  *)
(* (net/appsocket.cpp), which only passes calls on, and below that a       *)
(* ConnSocket (win/winsockconn.cpp) that first connects and then behaves   *)
(* as module Socket says.  A socket that is lost is connected again, but   *)
(* an address is not tried twice within kReconnectInterval: as long as it  *)
(* is in the list m_recent, its timer makes the next attempt.              *)
(*                                                                         *)
(* An attempt can fail at once, in ConnSocket::connect itself: then the    *)
(* ConnSocket is deleted, and the RawSocket with it, and a                 *)
(* ConnectFailedTask for the RawSocket is left in the event queue.         *)
(*                                                                         *)
(* Everything runs in the event thread; an action is one handler.          *)
(***************************************************************************)
EXTENDS Naturals, FiniteSets

CONSTANTS
    Target,     \* addresses
    ConnHabits  \* what the application also does: "readd" gives the manager an
            \* address again whose old socket is not gone yet

ASSUME ConnMgrAssumption == ConnHabits \subseteq {"readd"}

VARIABLES
    mgrMode,  \* m_mode of the manager; "gone": erased from s_mgrs; "broken": the
              \* behaviour of the process is undefined from here on
    targets,  \* m_addrs
    sock,     \* m_sockets: the ConnMgrSocket of each address
    dangling  \* a ConnectFailedTask is queued for a RawSocket that was deleted

connVars == <<mgrMode, targets, sock, dangling>>

Mode == {"absent", "unconnected", "connecting", "connected", "closing"}

\* The ConnSocket: it tries to connect, is open, has lost its handle or its
\* peer, has been reported as disconnected.
Conn == {"none", "connecting", "active", "closing", "closed"}

\* recent: linked in m_recent
Sock == [mode : Mode, stopping : BOOLEAN, recent : BOOLEAN, conn : Conn]

Absent == [mode |-> "absent", stopping |-> FALSE, recent |-> FALSE,
           conn |-> "none"]

ConnInit ==
    /\ mgrMode = "running" /\ targets = {}
    /\ sock = [a \in Target |-> Absent]
    /\ dangling = FALSE

-----------------------------------------------------------------------------
(***************************************************************************)
(* Member functions, from socket to socket.                                *)
(***************************************************************************)

\* connect: the attempt begins, or fails at once.  ~SocketBase then calls
\* onSocketDestroy while m_mode is still kConnecting: a debug build stops at the
\* assertion there, any other goes on as here.
Connect(s, fails) ==
    CASE ~fails -> [s EXCEPT !.mode = "connecting", !.recent = TRUE,
                             !.conn = "connecting"]
      [] fails /\ s.stopping -> Absent
      [] OTHER -> [s EXCEPT !.mode = "unconnected", !.recent = TRUE,
                            !.conn = "none"]

\* Whether a call of connect fails, if there is one.
Outcomes(connects) == IF connects THEN BOOLEAN ELSE {FALSE}

\* Mutants of SockDestroyed: the socket is connected again whatever happened, it
\* is left to a timer, or kept although it is being stopped.
DestroyedReconnects(s, fails) ==
    IF s.recent THEN [s EXCEPT !.mode = "unconnected"] ELSE Connect(s, fails)
DestroyedWaits(s, fails) ==
    IF s.stopping THEN Absent ELSE [s EXCEPT !.mode = "unconnected"]
DestroyedKeeps(s, fails) ==
    IF s.stopping \/ s.recent THEN [s EXCEPT !.mode = "unconnected"]
    ELSE Connect(s, fails)

\* onSocketDestroy and ConnectManager::destroy
SockDestroyed(s, fails) ==
    CASE s.stopping -> Absent
      [] ~s.stopping /\ s.recent -> [s EXCEPT !.mode = "unconnected"]
      [] OTHER -> Connect(s, fails)

\* A mutant of SockDisconnect: it has already closed a socket that is connecting.
DisconnectAtOnce(s) ==
    IF s.mode \in {"connecting", "connected"} THEN [s EXCEPT !.conn = "closing"]
    ELSE s

\* disconnect: the RawSocket knows no SocketBase before it is connected, and
\* closing a handle twice does nothing.
SockDisconnect(s) ==
    IF s.mode \in {"connecting", "connected"} /\ s.conn = "active"
    THEN [s EXCEPT !.conn = "closing"]
    ELSE s

ShutDown(s) ==
    LET t == [s EXCEPT !.stopping = TRUE]
    IN CASE s.mode = "absent" -> s
         [] s.mode = "unconnected" -> SockDestroyed(t, FALSE)
         [] OTHER -> SockDisconnect(t)

-----------------------------------------------------------------------------
(***************************************************************************)
(* The manager.                                                            *)
(***************************************************************************)

\* setAddresses: connect() asserts that a socket it finds is unconnected, and
\* no socket that is on its way out is.
SetTargets(A) ==
    /\ mgrMode = "running" /\ A # targets
    /\ "readd" \notin ConnHabits => \A a \in A \ targets : sock[a].mode = "absent"
    /\ targets' = A
    /\ \E F \in SUBSET (A \ targets) :
        /\ sock' = [a \in Target |->
                CASE a \in A \ targets -> Connect(sock[a], a \in F)
                  [] a \in targets \ A -> ShutDown(sock[a])
                  [] OTHER -> sock[a]]
        /\ dangling' = (dangling \/ F # {})
    /\ UNCHANGED mgrMode

AllAbsent(s) == \A a \in Target : s[a].mode = "absent"

\* ISockMgrBase::shutdown and ConnectManager::onShutdown
Shutdown ==
    /\ sock' = IF mgrMode = "running" THEN [a \in Target |-> ShutDown(sock[a])]
               ELSE sock
    /\ mgrMode' = IF AllAbsent(sock') THEN "stopped" ELSE "stopping"
    /\ UNCHANGED <<targets, dangling>>

\* sockMgrShutdown of the application, and the handler of the client phase,
\* which calls it until it succeeds.
ClientPhase == mgrMode \in {"running", "stopping"} /\ Shutdown

\* sockMgrDestroy, or the erase that follows in the handler.
Erase ==
    /\ mgrMode = "stopped"
    /\ mgrMode' = "gone"
    /\ UNCHANGED <<targets, sock, dangling>>

-----------------------------------------------------------------------------
(***************************************************************************)
(* Handlers of one socket.                                                 *)
(***************************************************************************)
Running == mgrMode # "broken"

SockBecomes(a, s) ==
    /\ Running
    /\ sock' = [sock EXCEPT ![a] = s]
    /\ UNCHANGED <<mgrMode, targets, dangling>>

\* A handler that connects the socket, at which it may fail.
SockConnects(a, s, fails) ==
    /\ Running
    /\ sock' = [sock EXCEPT ![a] = s]
    /\ dangling' = (dangling \/ fails)
    /\ UNCHANGED <<mgrMode, targets>>

\* The ConnSocket is deleted: onSocketDestroy
ConnDeleted(a) ==
    LET s == [sock[a] EXCEPT !.mode = "unconnected", !.conn = "none"] IN
    \E fails \in Outcomes(~s.stopping /\ ~s.recent) :
        SockConnects(a, SockDestroyed(s, fails), fails)

\* ConnectEx has succeeded: onSocketConnect, in which the application may
\* disconnect.
OnConnect(a) ==
    /\ sock[a].conn = "connecting"
    /\ LET s == [sock[a] EXCEPT !.mode = "connected", !.conn = "active"]
       IN SockBecomes(a, s) \/ SockBecomes(a, SockDisconnect(s))

\* It has failed: onSocketConnectFailed, then onSocketDestroy.
OnConnectFailed(a) == sock[a].conn = "connecting" /\ ConnDeleted(a)

\* A ConnectFailedTask whose RawSocket was deleted when connect failed calls
\* onSocketConnectFailed of it: nothing happens, or anything.  Others may be
\* left.
FailedTask ==
    /\ dangling /\ Running
    /\ dangling' \in BOOLEAN
    /\ mgrMode' \in {mgrMode, "broken"}
    /\ UNCHANGED <<targets, sock>>

AppDisconnect(a) ==
    /\ sock[a].conn = "active"
    /\ SockBecomes(a, SockDisconnect(sock[a]))

TargetCloses(a) ==
    /\ sock[a].conn = "active"
    /\ SockBecomes(a, [sock[a] EXCEPT !.conn = "closing"])

OnDisconnect(a) ==
    /\ sock[a].conn = "closing"
    /\ SockBecomes(a, [sock[a] EXCEPT !.mode = "closing", !.conn = "closed"])

OnDestroy(a) == sock[a].conn = "closed" /\ ConnDeleted(a)

\* onTimer of the list m_recent
RecentTimer(a) ==
    /\ sock[a].recent
    /\ \E fails \in Outcomes(sock[a].mode = "unconnected") :
        SockConnects(a, IF sock[a].mode = "unconnected"
                        THEN Connect(sock[a], fails)
                        ELSE [sock[a] EXCEPT !.recent = FALSE], fails)

ConnectEnds(a) == OnConnect(a) \/ OnConnectFailed(a)

Handlers(a) ==
    ConnectEnds(a) \/ AppDisconnect(a) \/ TargetCloses(a) \/ OnDisconnect(a)
    \/ OnDestroy(a) \/ RecentTimer(a)

ConnNext ==
    \/ \E A \in SUBSET Target : SetTargets(A)
    \/ ClientPhase \/ Erase \/ FailedTask
    \/ \E a \in Target : Handlers(a)

ConnSpec == ConnInit /\ [][ConnNext]_connVars

\* ConnectEx gives an answer in time (kConnectTimeout), a socket that has been
\* closed is deleted (module Socket), and the shutdown retries (Shutdown).
\* Nothing says that a peer closes its connection.
ConnLiveSpec ==
    /\ ConnSpec
    /\ \A a \in Target :
        /\ WF_connVars(ConnectEnds(a)) /\ WF_connVars(OnDisconnect(a))
        /\ WF_connVars(OnDestroy(a)) /\ WF_connVars(RecentTimer(a))
    /\ WF_connVars(mgrMode = "stopping" /\ ClientPhase)

-----------------------------------------------------------------------------
(***************************************************************************)
(* Properties.                                                             *)
(***************************************************************************)

\* Every variable has its type, and between two handlers the mode of a socket
\* says what there is below it.  The assertions of the handlers follow from
\* that, except where connect fails at once (see Connect).
ConnTypeOK ==
    /\ mgrMode \in {"running", "stopping", "stopped", "gone", "broken"}
    /\ dangling \in BOOLEAN
    /\ targets \subseteq Target
    /\ sock \in [Target -> Sock]
    /\ \A a \in Target :
        /\ sock[a].mode \in {"absent", "unconnected"} <=> sock[a].conn = "none"
        /\ sock[a].mode = "connecting" <=> sock[a].conn = "connecting"
        /\ sock[a].mode = "connected" <=> sock[a].conn \in {"active", "closing"}

\* While the manager runs, an address has a socket that is not being stopped,
\* and if that is not connected the timer will connect it; every other socket
\* is being stopped.
AddressesServed ==
    mgrMode = "running" =>
        \A a \in Target :
            IF a \in targets
            THEN /\ sock[a].mode # "absent" /\ ~sock[a].stopping
                 /\ sock[a].mode = "unconnected" => sock[a].recent
            ELSE sock[a].mode # "absent" => sock[a].stopping

\* What makes these two inductive: a socket that is gone leaves nothing behind,
\* one that lost its connection is either gone, connecting again or in m_recent,
\* and after the shutdown every socket is being stopped.
SocketsSettled ==
    \A a \in Target :
        /\ sock[a].mode = "absent" => sock[a] = Absent
        /\ sock[a].mode = "unconnected" => sock[a].recent /\ ~sock[a].stopping
        /\ mgrMode \in {"stopping", "stopped", "gone"} =>
            sock[a].mode = "absent" \/ sock[a].stopping
ConnIInv == ConnTypeOK /\ AddressesServed /\ SocketsSettled

\* A socket that is being stopped is not connected again, and neither is any
\* other after the manager has begun to shut down.  A lost connection whose
\* last attempt is recent waits for the timer.
AttemptAllowed(a) ==
    sock[a].conn # "connecting" /\ sock'[a].conn = "connecting" =>
        /\ mgrMode = "running" /\ ~sock'[a].stopping
        /\ sock[a].recent => sock[a].mode = "unconnected"
AttemptsAllowed == [][\A a \in Target : AttemptAllowed(a)]_connVars

\* Once it is shut down the manager ends, unless a socket became connected that
\* was already being stopped: nobody closes that one; or a ConnectFailedTask
\* has broken the process.
ManagerStops ==
    mgrMode = "stopping" ~>
        \/ mgrMode \in {"stopped", "gone", "broken"}
        \/ \E a \in Target : sock[a].stopping /\ sock[a].conn = "active"

\* sockMgrShutdown "starts closing, no new connections will be allowed"
\* (net/sockmgr.h).
NoLateConnection ==
    [][\A a \in Target :
        sock[a].conn = "connecting" /\ mgrMode # "running"
            => sock'[a].conn # "active"]_connVars

\* "If the connection fails: 1. onSocketConnectFailed 2. onSocketDestroy"
\* (net/socket.h): no notifier is told of a failure after it was destroyed.
FailedThenDestroyed == ~dangling
=============================================================================
