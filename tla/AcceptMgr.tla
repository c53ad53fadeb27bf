----------------------------- MODULE AcceptMgr -----------------------------
(***************************************************************************)
(* The listening side: AcceptManagers (net/sockmgracc.cpp) that share the  *)
(* addresses they listen on (socketListen and socketCloseWait of           *)
(* net/appsocket.cpp), the ListenSocket of an address                      *)
(* (win/winsockacc.cpp), and the connections it accepts.  A connection     *)
(* belongs to nobody until its first data tells the protocol: meanwhile it *)
(* is in the list s_unmatched, and after that in the list m_inactivity of  *)
(* the manager that has the protocol.  The shutdown finds the connections  *)
(* in these two lists only.                                                *)
(*                                                                         *)
(* Everything runs in the event thread; an action is one handler.          *)
(***************************************************************************)
EXTENDS Naturals, Sequences, FiniteSets

CONSTANTS
    Mgr,    \* AcceptManagers, each of a family of its own
    Addr,   \* addresses
    Link,   \* accepted connections
    None,
    Habits

(***************************************************************************)
(* What may also happen:                                                   *)
(*   "relisten"  an address is listened on again before its old            *)
(*               ListenSocket is gone                                      *)
(*   "late"      addresses change after the manager was shut down          *)
(*   "refuse"    onSocketAccept of a matched connection returns false      *)
(***************************************************************************)
ASSUME AcceptMgrAssumption ==
    /\ None \notin Mgr
    /\ Habits \subseteq {"relisten", "late", "refuse"}

VARIABLES
    phase,     \* of the process: "run", "client", "console", "done"
    mgr,       \* m_mode of each manager; "gone": erased from s_mgrs
    addrs,     \* m_addrs of each manager
    factories, \* s_sockAddrs: the managers that listen on each address
    listeners, \* s_listeners: the ListenSockets of each address, oldest first
    unopened,  \* addresses that are listened on although socketListen failed
    link       \* the accepted RawSockets

vars == <<phase, mgr, addrs, factories, listeners, unopened, link>>

\* open: has its handle, stop: stopRequested and stopDone, accepting: AcceptEx
\* has not been completed
Listener == [open : BOOLEAN, stop : BOOLEAN, accepting : BOOLEAN]
NewListener == [open |-> TRUE, stop |-> FALSE, accepting |-> TRUE]
DeadListener == [open |-> FALSE, stop |-> FALSE, accepting |-> FALSE]

\* What becomes of socketListen: the address is open; the first accept fails at
\* once, which closes the handle; or there is no handle to listen with.  It
\* returns nothing, and its callers cannot tell these apart.
Opening == {"open", "dead", "failed"}

(***************************************************************************)
(* A connection is "active", "closing" as soon as one side has closed it,  *)
(* "closed" when that was reported; open says that the handle is.  It is   *)
(* "stuck" when it can never be deleted: hardClose of a closed socket      *)
(* makes it closing again, and onWrite deletes a closed one only (see      *)
(* module Socket).                                                         *)
(***************************************************************************)
LinkState == [state : {"free", "active", "closing", "closed", "stuck"},
              open : BOOLEAN,
              at : Addr \cup {None},
              unmatched : BOOLEAN,       \* m_pos: in s_unmatched
              owner : Mgr \cup {None},   \* the manager of its AccMgrSocket
              listed : BOOLEAN]          \* in m_inactivity of the owner
Free == [state |-> "free", open |-> FALSE, at |-> None, unmatched |-> FALSE,
         owner |-> None, listed |-> FALSE]

Init ==
    /\ phase = "run"
    /\ mgr = [m \in Mgr |-> "running"]
    /\ addrs = [m \in Mgr |-> {}]
    /\ factories = [e \in Addr |-> {}]
    /\ listeners = [e \in Addr |-> <<>>]
    /\ unopened = {}
    /\ link = [c \in Link |-> Free]

-----------------------------------------------------------------------------
(***************************************************************************)
(* Addresses.                                                              *)
(***************************************************************************)

\* closeListen of the first one in the list
CloseListen(s) ==
    IF s = <<>> THEN s ELSE [s EXCEPT ![1].open = FALSE, ![1].stop = TRUE]

Listen(s, how) ==
    CASE how = "open" -> Append(s, NewListener)
      [] how = "dead" -> Append(s, DeadListener)
      [] OTHER -> s

\* A mutant of Listeners: whoever leaves closes the address.
ListenersAtOnce(e, fs, how) ==
    CASE factories[e] = {} /\ fs # {} -> Listen(listeners[e], how)
      [] factories[e] # fs /\ factories[e] # {} -> CloseListen(listeners[e])
      [] OTHER -> listeners[e]

\* socketListen and socketCloseWait: the first manager opens the address, the
\* last one closes it.
Listeners(e, fs, how) ==
    CASE factories[e] = {} /\ fs # {} -> Listen(listeners[e], how)
      [] factories[e] # {} /\ fs = {} -> CloseListen(listeners[e])
      [] OTHER -> listeners[e]

SetFactories(fs) ==
    LET opened == {e \in Addr : factories[e] = {} /\ fs[e] # {}} IN
    \E how \in [opened -> Opening] :
        /\ factories' = fs
        /\ listeners' = [e \in Addr |-> Listeners(e, fs[e], how[e])]
        /\ unopened' = {e \in unopened : fs[e] # {}}
                       \cup {e \in opened : how[e] = "failed"}

\* setAddresses, of the application and of onConfigChange
SetAddresses(m, A) ==
    /\ mgr[m] = "running" \/ "late" \in Habits
    /\ A # addrs[m]
    /\ "relisten" \notin Habits =>
        \A e \in A \ addrs[m] : factories[e] = {} => listeners[e] = <<>>
    /\ addrs' = [addrs EXCEPT ![m] = A]
    /\ SetFactories([e \in Addr |->
            CASE e \in A \ addrs[m] -> factories[e] \cup {m}
              [] e \in addrs[m] \ A -> factories[e] \ {m}
              [] OTHER -> factories[e]])
    /\ UNCHANGED <<phase, mgr, link>>

-----------------------------------------------------------------------------
(***************************************************************************)
(* Connections.                                                            *)
(***************************************************************************)

\* hardClose
Disconnect(l) ==
    IF l.open
    THEN [l EXCEPT !.open = FALSE,
                   !.state = IF @ = "closed" THEN "stuck" ELSE "closing"]
    ELSE l

Becomes(c, l) ==
    /\ link' = [link EXCEPT ![c] = l]
    /\ UNCHANGED <<phase, mgr, addrs, factories, listeners, unopened>>

\* ListenSocket::onTask: the connection is accepted, and the next one waited
\* for; if AcceptEx fails the handle is closed, and the address dead.
AcceptDone(e, c) ==
    /\ \E i \in DOMAIN listeners[e] :
        /\ listeners[e][i].open /\ listeners[e][i].accepting
        /\ \/ UNCHANGED listeners
           \/ listeners' = [listeners EXCEPT ![e][i].open = FALSE,
                                            ![e][i].accepting = FALSE]
    /\ link[c] = Free
    /\ link' = [link EXCEPT ![c] = [Free EXCEPT !.state = "active",
                    !.open = TRUE, !.at = e, !.unmatched = TRUE]]
    /\ UNCHANGED <<phase, mgr, addrs, factories, unopened>>

\* ListenSocket::onTask after the handle was closed: accept fails, and the
\* ListenSocket is deleted.
AcceptEnds(e) ==
    \E i \in DOMAIN listeners[e] :
        /\ listeners[e][i].accepting /\ ~listeners[e][i].open
        /\ listeners' = [listeners EXCEPT ![e] =
                SubSeq(@, 1, i - 1) \o SubSeq(@, i + 1, Len(@))]
        /\ UNCHANGED <<phase, mgr, addrs, factories, unopened, link>>

\* What data makes of a connection: one of the managers of the address has the
\* protocol and gets it (notifyRead), or it is touched (onSocketRead of the
\* AccMgrSocket).
AfterData(l) ==
    IF l.unmatched
    THEN {[l EXCEPT !.unmatched = FALSE, !.owner = r.m, !.listed = r.accepted] :
            r \in [m : factories[l.at],
                   accepted : IF "refuse" \in Habits THEN BOOLEAN ELSE {TRUE}]}
    ELSE {[l EXCEPT !.listed = TRUE]}

\* What was received before the connection was closed arrives as well.
Read(c) ==
    /\ link[c].state \in {"active", "closing"}
    /\ link[c].unmatched \/ link[c].owner # None
    /\ \E l \in AfterData(link[c]) : Becomes(c, l)

\* It is of no known protocol, or no manager listens there any more; or it
\* has been silent for too long (checkTimeout).
Rejected(c) ==
    /\ link[c].unmatched
    /\ Becomes(c, Disconnect([link[c] EXCEPT !.unmatched = FALSE]))

\* AccMgrSocket::onTimer, or the application disconnects an active one.
Inactive(c) ==
    /\ link[c].listed
    /\ Becomes(c, Disconnect(link[c]))

PeerCloses(c) ==
    /\ link[c].state = "active"
    /\ Becomes(c, [link[c] EXCEPT !.state = "closing"])

\* onSocketDisconnect and onSocketDestroy, in this order
Disconnected(c) ==
    /\ link[c].state = "closing"
    /\ Becomes(c, [link[c] EXCEPT !.state = "closed", !.unmatched = FALSE])

Destroyed(c) ==
    /\ link[c].state = "closed"
    /\ Becomes(c, Free)

-----------------------------------------------------------------------------
(***************************************************************************)
(* Shutdown.                                                               *)
(***************************************************************************)
BeginShutdown ==
    /\ phase = "run"
    /\ phase' = "client"
    /\ UNCHANGED <<mgr, addrs, factories, listeners, unopened, link>>

\* A mutant of StopManager: it does not wait for its connections.
StopManagerHurries(m) ==
    /\ mgr[m] # "gone"
    /\ SetFactories([e \in Addr |-> factories[e] \ {m}])
    /\ link' = [c \in Link |->
            IF link[c].listed /\ link[c].owner = m THEN Disconnect(link[c])
            ELSE link[c]]
    /\ mgr' = [mgr EXCEPT ![m] = "gone"]
    /\ UNCHANGED <<phase, addrs>>

\* ISockMgrBase::shutdown and AcceptManager::onShutdown, by sockMgrShutdown or
\* in the client phase; a manager that is done is erased.
StopManager(m) ==
    /\ mgr[m] # "gone"
    /\ IF mgr[m] = "running"
       THEN /\ SetFactories([e \in Addr |-> factories[e] \ {m}])
            /\ link' = [c \in Link |->
                    IF link[c].listed /\ link[c].owner = m
                    THEN Disconnect(link[c]) ELSE link[c]]
       ELSE UNCHANGED <<factories, listeners, unopened, link>>
    /\ mgr' = [mgr EXCEPT ![m] =
            IF \E c \in Link : link[c].listed /\ link[c].owner = m
            THEN "stopping" ELSE "gone"]
    /\ UNCHANGED <<phase, addrs>>

\* A mutant of EnterConsole: it only waits for them.
EnterConsoleLeaves ==
    /\ phase = "client" /\ \A m \in Mgr : mgr[m] = "gone"
    /\ phase' = "console"
    /\ UNCHANGED <<mgr, addrs, factories, listeners, unopened, link>>

\* The first pass of the console phase disconnects what was never matched.
EnterConsole ==
    /\ phase = "client" /\ \A m \in Mgr : mgr[m] = "gone"
    /\ phase' = "console"
    /\ link' = [c \in Link |->
            IF link[c].unmatched THEN Disconnect(link[c]) ELSE link[c]]
    /\ UNCHANGED <<mgr, addrs, factories, listeners, unopened>>

\* It ends without unmatched connections, listeners and sockets.
ConsoleEnds ==
    /\ phase = "console"
    /\ \A c \in Link : link[c] = Free
    /\ \A e \in Addr : listeners[e] = <<>>
    /\ phase' = "done"
    /\ UNCHANGED <<mgr, addrs, factories, listeners, unopened, link>>

-----------------------------------------------------------------------------
Socket(c) ==
    Read(c) \/ Rejected(c) \/ Inactive(c) \/ PeerCloses(c)
    \/ Disconnected(c) \/ Destroyed(c)

Next ==
    \/ \E m \in Mgr, A \in SUBSET Addr : SetAddresses(m, A)
    \/ \E e \in Addr : AcceptEnds(e) \/ \E c \in Link : AcceptDone(e, c)
    \/ \E c \in Link : Socket(c)
    \/ BeginShutdown \/ (\E m \in Mgr : StopManager(m))
    \/ EnterConsole \/ ConsoleEnds

Spec == Init /\ [][Next]_vars

\* Closing a handle aborts AcceptEx, a closed socket is deleted (Socket), and
\* the handlers are called until they are done (Shutdown).
LiveSpec ==
    /\ Spec
    /\ \A e \in Addr : WF_vars(AcceptEnds(e))
    /\ \A c \in Link : WF_vars(Disconnected(c)) /\ WF_vars(Destroyed(c))
    /\ \A m \in Mgr : WF_vars(phase = "client" /\ StopManager(m))
    /\ WF_vars(EnterConsole) /\ WF_vars(ConsoleEnds)

-----------------------------------------------------------------------------
(***************************************************************************)
(* Properties.                                                             *)
(***************************************************************************)

\* Every variable has its type.
TypeOK ==
    /\ phase \in {"run", "client", "console", "done"}
    /\ mgr \in [Mgr -> {"running", "stopping", "gone"}]
    /\ addrs \in [Mgr -> SUBSET Addr]
    /\ factories \in [Addr -> SUBSET Mgr]
    /\ \A e \in Addr : listeners[e] \in Seq(Listener)
    /\ unopened \subseteq Addr
    /\ link \in [Link -> LinkState]

\* What is left of a listener when AcceptEx has failed: there is no completion
\* to come that would delete it, and closeListen does not either.
Dead(e) == \E i \in DOMAIN listeners[e] :
                ~listeners[e][i].open /\ ~listeners[e][i].accepting

\* An address is open exactly as long as a running manager wants it, with one
\* listener, unless it could not be opened or that one is dead; every other
\* listener of it is on its way out: closed, stopped, and with a completion that
\* will delete it.
AddressesOpen ==
    \A e \in Addr :
        LET opened == {i \in DOMAIN listeners[e] : listeners[e][i].open}
            wanted == \E m \in Mgr : mgr[m] = "running" /\ e \in addrs[m] IN
        /\ Cardinality(opened) = IF wanted /\ e \notin unopened /\ ~Dead(e)
                               THEN 1 ELSE 0
        /\ ~Dead(e) => \A i \in DOMAIN listeners[e] :
            listeners[e][i].accepting /\ (i \in opened \/ listeners[e][i].stop)

\* A connection that nobody has closed is in one of the lists in which the
\* timers and the shutdown find it, in the right one; and its manager exists
\* as long as it does.
LinksWatched ==
    \A c \in Link :
        /\ link[c].state = "active" => link[c].unmatched # link[c].listed
        /\ link[c].owner # None => link[c].listed /\ mgr[link[c].owner] # "gone"

\* Every connection is a well formed one that somebody watches.
LinksConsistent == TypeOK /\ LinksWatched

\* The shutdown ends, unless a listener is dead, or a closed connection was
\* disconnected once more before it was deleted.
ShutdownEnds ==
    phase = "client" ~>
        \/ phase = "done"
        \/ \E c \in Link : link[c].state = "stuck"
        \/ \E e \in Addr : Dead(e)
=============================================================================
