-------------------------------- MODULE Timer --------------------------------
(***************************************************************************)
(* The timers of libs/core/timer.cpp: a priority queue of expirations, a   *)
(* dispatch thread that pushes RunTimers to the event queue when the first *)
(* of them is due, RunTimers, which calls the handlers in the event        *)
(* thread, and timerUpdate and timerCloseWait, called by any thread.       *)
(*                                                                         *)
(* Times are relative to the present and never less than 0: Tick lets time *)
(* pass.  A Timer object is known by the notify it belongs to, and a node  *)
(* of the priority queue by what its instance number says of it:           *)
(*   "live"    the number is its Timer's, and the Timer is the notify's    *)
(*   "stale"   the Timer has moved on to another number                    *)
(*   "orphan"  the number is its Timer's, which the notify let go of       *)
(* The event queue is the FIFO of module TaskFifo: RunTimers gets its turn *)
(* and nothing else runs in the event thread meanwhile.                    *)
(***************************************************************************)
EXTENDS Integers, Sequences, FiniteSets

CONSTANTS
    Notify,    \* ITimerNotify objects
    Client,    \* threads other than the event thread that use timers
    Event,     \* the event thread
    Owner,     \* Notify -> thread that updates, closes and destroys it
    SelfCalls, \* <<n, call>>: n's handler may call "update" or "close" on n too
    None,      \* no notify
    MaxWait,   \* bound: the longest finite wait
    MaxNodes   \* bound: nodes in the priority queue when timerUpdate adds one

ASSUME TimerAssumption ==
    /\ Event \notin Client
    /\ Owner \in [Notify -> Client \cup {Event}]
    /\ SelfCalls \subseteq Notify \X {"update", "close"}
    /\ None \notin Notify
    /\ MaxWait \in Nat /\ MaxNodes \in Nat \ {0}

Thread == Client \cup {Event}
Inf == MaxWait + 1 \* kTimerInfinite, TimePoint::max()
Wait == 0..Inf

VARIABLES
    mode,       \* s_mode
    timers,     \* s_timers, soonest first
    processing, \* s_processing
    handling,   \* s_processingNotify
    connected,  \* the Timer being handled is its notify's m_timer
    armed,      \* ITimerNotify::m_timer is set
    expiration, \* Timer::expiration of m_timer, Inf if there is none
    alive,      \* the ITimerNotify has not been destroyed
    queued,     \* times s_runTimers is in the event queue
    epc,        \* where the event thread is in RunTimers::onTask
    dpc,        \* where the dispatch thread is
    sleep,      \* what is left of the dispatch thread's wait_for
    call,       \* where each thread is in timerUpdate or timerCloseWait
    mpc         \* where the main thread is in iTimerDestroy

vars == <<mode, timers, processing, handling, connected, armed, expiration,
          alive, queued, epc, dpc, sleep, call, mpc>>

Idle == [pc |-> "idle", n |-> None, destroy |-> FALSE]
At(pc, n, destroy) == [pc |-> pc, n |-> n, destroy |-> destroy]

\* RunTimers keeps s_mut from one callback to the next.
Unlocked == epc # "loop"
\* s_processingThread is the event thread.
Processing == epc \in {"loop", "callback"}

Init ==
    /\ mode = "running"
    /\ timers = <<>>
    /\ processing = FALSE
    /\ handling = None
    /\ connected = FALSE
    /\ armed = [n \in Notify |-> FALSE]
    /\ expiration = [n \in Notify |-> Inf]
    /\ alive = [n \in Notify |-> TRUE]
    /\ queued = 0
    /\ epc = "idle"
    /\ dpc = "check"
    /\ sleep = Inf
    /\ call = [c \in Thread |-> Idle]
    /\ mpc = "run"

-----------------------------------------------------------------------------
(***************************************************************************)
(* The priority queue.                                                     *)
(***************************************************************************)
Top == Head(timers)
Due == timers # <<>> /\ Top.left = 0

Mark(n, from, to) ==
    [i \in DOMAIN timers |->
        IF timers[i].n = n /\ timers[i].state = from
        THEN [timers[i] EXCEPT !.state = to] ELSE timers[i]]

\* Variant for mutation: the instance number is left alone.
SameInstance(n) == timers
\* ++instance: the nodes of n's Timer are of no use any more.
Outdated(n) == Mark(n, "live", "stale")

\* Where a node with w left may go: the heap breaks ties either way, but what is
\* due already has waited longer than what is due from now on.
Places(s, w) ==
    {p \in 1..(Len(s) + 1) :
        /\ \A i \in 1..(p - 1) : s[i].left <= w
        /\ \A i \in p..Len(s) : s[i].left >= w /\ s[i].left > 0}

Insert(s, p, x) == SubSeq(s, 1, p - 1) \o <<x>> \o SubSeq(s, p, Len(s))

\* expiration, instance and node of n's Timer, together; p is the node's place.
Arm(n, w, p) ==
    /\ expiration' = [expiration EXCEPT ![n] = w]
    /\ p \in Places(timers, w)
    /\ timers' = IF w = Inf THEN Outdated(n)
                 ELSE Insert(Outdated(n), p, [n |-> n, left |-> w, state |-> "live"])

-----------------------------------------------------------------------------
(***************************************************************************)
(* s_queueCv: only the dispatch thread waits on it.                        *)
(***************************************************************************)
\* Variant for mutation: only a wait_for is interrupted.
WakeIfTimed == dpc' = IF dpc = "timed" THEN "check" ELSE dpc
WakeDispatch == dpc' = IF dpc \in {"wait", "timed"} THEN "check" ELSE dpc

(***************************************************************************)
(* Who may call what: a notify's owner may do anything with it; so may its *)
(* handler where the owner is the event thread, or if SelfCalls has it.    *)
(* Nobody destroys a notify inside its own handler.                        *)
(***************************************************************************)
MayCall(c, n, what) ==
    /\ alive[n]
    /\ call[c] = Idle
    /\ c = Event => epc \in {"idle", "callback"}
    /\ Owner[n] = c \/ (c = Event /\ handling = n /\ <<n, what>> \in SelfCalls)

MayDestroy(c, n) == Owner[n] = c /\ ~(c = Event /\ handling = n)

\* Variant for mutation: only a wait that is cut short is worth a notify.
NotifyIfEarlier(w, p) == p = 1 /\ timers # <<>>
\* Does timerUpdate notify the dispatch thread of the node it put in place p?
Notifies(w, p) == w = Inf \/ p = 1

(***************************************************************************)
(* Timer::update.                                                          *)
(***************************************************************************)
Update(c, n, w, onlyIfSooner) ==
    /\ MayCall(c, n, "update")
    /\ Unlocked
    /\ armed' = [armed EXCEPT ![n] = TRUE]
    /\ LET now == IF armed[n] THEN expiration[n] ELSE Inf IN
         IF onlyIfSooner /\ ~(w < now)
         THEN UNCHANGED <<timers, expiration, call>>
         ELSE /\ w # Inf => Len(timers) < MaxNodes
              /\ \E p \in 1..(Len(timers) + 1) :
                   /\ Arm(n, w, p)
                   /\ call' = IF Notifies(w, p)
                              THEN [call EXCEPT ![c] = At("notify", n, FALSE)]
                              ELSE call
    /\ UNCHANGED <<mode, processing, handling, connected, alive, queued, epc, dpc,
                   sleep, mpc>>

UpdateNotify(c) ==
    /\ call[c].pc = "notify"
    /\ call' = [call EXCEPT ![c] = Idle]
    /\ WakeDispatch
    /\ UNCHANGED <<mode, timers, processing, handling, connected, armed, expiration,
                   alive, queued, epc, sleep, mpc>>

(***************************************************************************)
(* Timer::closeWait, and ~ITimerNotify around it.                          *)
(***************************************************************************)
Return(c, n, destroy) ==
    /\ call' = [call EXCEPT ![c] = Idle]
    /\ alive' = [alive EXCEPT ![n] = @ /\ ~destroy]

\* The tests made before s_mut is locked.
CloseBegin(c, n, destroy) ==
    /\ MayCall(c, n, "close")
    /\ destroy => MayDestroy(c, n)
    /\ \/ /\ ~armed[n]
          /\ Return(c, n, destroy)
          /\ UNCHANGED <<timers, armed, expiration>>
       \/ /\ armed[n] /\ mode = "stopped"
          /\ armed' = [armed EXCEPT ![n] = FALSE]
          /\ expiration' = [expiration EXCEPT ![n] = Inf]
          /\ timers' = Mark(n, "live", "orphan")
          /\ Return(c, n, destroy)
       \/ /\ armed[n] /\ mode # "stopped"
          /\ call' = [call EXCEPT ![c] = At("closing", n, destroy)]
          /\ UNCHANGED <<timers, armed, expiration, alive>>
    /\ connected' = (connected /\ ~(handling = n /\ armed[n] /\ mode = "stopped"))
    /\ UNCHANGED <<mode, processing, handling, queued, epc, dpc, sleep, mpc>>

\* Variant for mutation: any thread is taken for the one that runs handlers.
InProgressUnlessProcessing(c, n) == handling = n /\ ~Processing
\* Does closeWait have to wait for the handler?
InProgress(c, n) == handling = n /\ ~(c = Event /\ Processing)

CloseLocked(c) ==
    LET n == call[c].n IN
    /\ call[c].pc = "closing"
    /\ Unlocked
    /\ armed[n]
    /\ armed' = [armed EXCEPT ![n] = FALSE]
    /\ expiration' = [expiration EXCEPT ![n] = Inf]
    /\ timers' = Outdated(n)
    /\ connected' = (connected /\ handling # n)
    /\ IF InProgress(c, n)
       THEN /\ call' = [call EXCEPT ![c].pc = "waiting"]
            /\ UNCHANGED alive
       ELSE Return(c, n, call[c].destroy)
    /\ UNCHANGED <<mode, processing, handling, queued, epc, dpc, sleep, mpc>>

\* The thread is awake and has s_mut: while (notify == s_processingNotify)
CloseWoken(c) ==
    LET n == call[c].n IN
    /\ call[c].pc = "woken"
    /\ Unlocked
    /\ IF handling = n
       THEN /\ call' = [call EXCEPT ![c].pc = "waiting"]
            /\ UNCHANGED alive
       ELSE Return(c, n, call[c].destroy)
    /\ UNCHANGED <<mode, timers, processing, handling, connected, armed, expiration,
                   queued, epc, dpc, sleep, mpc>>

SpuriousCloser(c) ==
    /\ call[c].pc = "waiting"
    /\ call' = [call EXCEPT ![c].pc = "woken"]
    /\ UNCHANGED <<mode, timers, processing, handling, connected, armed, expiration,
                   alive, queued, epc, dpc, sleep, mpc>>

-----------------------------------------------------------------------------
(***************************************************************************)
(* RunTimers::onTask.                                                      *)
(***************************************************************************)
RunStart ==
    /\ epc = "idle" /\ queued > 0
    /\ call[Event] = Idle
    /\ queued' = queued - 1
    /\ epc' = "loop"
    /\ UNCHANGED <<mode, timers, processing, handling, connected, armed, expiration,
                   alive, dpc, sleep, call, mpc>>

\* if (node.instance != node.timer->instance) continue;
RunSkip ==
    /\ epc = "loop" /\ Due /\ Top.state = "stale"
    /\ timers' = Tail(timers)
    /\ UNCHANGED <<mode, processing, handling, connected, armed, expiration, alive,
                   queued, epc, dpc, sleep, call, mpc>>

RunCallback ==
    /\ epc = "loop" /\ Due /\ Top.state # "stale"
    /\ timers' = Tail(timers)
    /\ expiration' = IF Top.state = "live" THEN [expiration EXCEPT ![Top.n] = Inf]
                     ELSE expiration
    /\ handling' = Top.n
    /\ connected' = (Top.state = "live")
    /\ epc' = "callback"
    /\ UNCHANGED <<mode, processing, armed, alive, queued, dpc, sleep, call, mpc>>

\* Variant for mutation: notify_all is left out.
WakeNoCloser == UNCHANGED call
WakeClosers ==
    call' = [c \in Thread |->
               IF call[c].pc = "waiting" THEN [call[c] EXCEPT !.pc = "woken"] ELSE call[c]]

\* Variant for mutation: it is not asked whether the timer was closed.
RearmsClosed(n, w) == w < expiration[n]
\* Does the wait the handler returned apply?
Rearms(n, w) == connected /\ w < expiration[n]

\* The handler has returned w.
RunReturn(w) ==
    /\ epc = "callback"
    /\ call[Event] = Idle
    /\ IF Rearms(handling, w)
       THEN \E p \in 1..(Len(timers) + 1) : Arm(handling, w, p)
       ELSE UNCHANGED <<timers, expiration>>
    /\ IF connected THEN UNCHANGED call ELSE WakeClosers
    /\ handling' = None
    /\ connected' = FALSE
    /\ epc' = "loop"
    /\ UNCHANGED <<mode, processing, armed, alive, queued, dpc, sleep, mpc>>

RunEnd ==
    /\ epc = "loop" /\ ~Due
    /\ processing' = FALSE
    /\ epc' = IF timers = <<>> THEN "idle" ELSE "notify"
    /\ UNCHANGED <<mode, timers, handling, connected, armed, expiration, alive, queued,
                   dpc, sleep, call, mpc>>

RunNotify ==
    /\ epc = "notify"
    /\ epc' = "idle"
    /\ WakeDispatch
    /\ UNCHANGED <<mode, timers, processing, handling, connected, armed, expiration,
                   alive, queued, sleep, call, mpc>>

-----------------------------------------------------------------------------
(***************************************************************************)
(* timerDispatchThread.                                                    *)
(***************************************************************************)
WakeDestroyer == mpc' = IF mpc = "waiting" THEN "check" ELSE mpc

DispatchStop ==
    /\ dpc = "check" /\ Unlocked /\ mode = "stopping"
    /\ timers' = <<>>
    /\ mode' = "stopped"
    /\ WakeDestroyer
    /\ dpc' = "done"
    /\ UNCHANGED <<processing, handling, connected, armed, expiration, alive, queued,
                   epc, sleep, call>>

\* From here until RunTimers ends the task must not be pushed again.
ClaimRun == processing' = TRUE

\* What the dispatch thread waits for, or that it pushes RunTimers.
DispatchCheck ==
    /\ dpc = "check" /\ Unlocked /\ mode # "stopping"
    /\ \/ /\ processing \/ timers = <<>>
          /\ dpc' = "wait"
          /\ UNCHANGED <<processing, sleep>>
       \/ /\ ~processing /\ Due
          /\ ClaimRun
          /\ dpc' = "push"
          /\ UNCHANGED sleep
       \/ /\ ~processing /\ timers # <<>> /\ ~Due
          /\ sleep' = Top.left
          /\ dpc' = "timed"
          /\ UNCHANGED processing
    /\ UNCHANGED <<mode, timers, handling, connected, armed, expiration, alive, queued,
                   epc, call, mpc>>

DispatchPush ==
    /\ dpc = "push"
    /\ queued' = queued + 1
    /\ dpc' = "check"
    /\ UNCHANGED <<mode, timers, processing, handling, connected, armed, expiration,
                   alive, epc, sleep, call, mpc>>

DispatchTimeout ==
    /\ dpc = "timed" /\ sleep = 0
    /\ dpc' = "check"
    /\ UNCHANGED <<mode, timers, processing, handling, connected, armed, expiration,
                   alive, queued, epc, sleep, call, mpc>>

SpuriousDispatch ==
    /\ dpc \in {"wait", "timed"}
    /\ dpc' = "check"
    /\ UNCHANGED <<mode, timers, processing, handling, connected, armed, expiration,
                   alive, queued, epc, sleep, call, mpc>>

-----------------------------------------------------------------------------
(***************************************************************************)
(* iTimerDestroy.                                                          *)
(***************************************************************************)
DestroyBegin ==
    /\ mpc = "run" /\ Unlocked
    /\ mode' = "stopping"
    /\ mpc' = "notify"
    /\ UNCHANGED <<timers, processing, handling, connected, armed, expiration, alive,
                   queued, epc, dpc, sleep, call>>

DestroyNotify ==
    /\ mpc = "notify"
    /\ mpc' = "check"
    /\ WakeDispatch
    /\ UNCHANGED <<mode, timers, processing, handling, connected, armed, expiration,
                   alive, queued, epc, sleep, call>>

DestroyCheck ==
    /\ mpc = "check" /\ Unlocked
    /\ mpc' = IF mode = "stopped" THEN "done" ELSE "waiting"
    /\ UNCHANGED <<mode, timers, processing, handling, connected, armed, expiration,
                   alive, queued, epc, dpc, sleep, call>>

SpuriousDestroy ==
    /\ mpc = "waiting"
    /\ mpc' = "check"
    /\ UNCHANGED <<mode, timers, processing, handling, connected, armed, expiration,
                   alive, queued, epc, dpc, sleep, call>>

(***************************************************************************)
(* Time passes, but not while RunTimers holds s_mut and works with the     *)
(* "now" it has read.                                                      *)
(***************************************************************************)
Later(w) == IF w \in {0, Inf} THEN w ELSE w - 1

Tick ==
    /\ Unlocked
    /\ timers' = [i \in DOMAIN timers |-> [timers[i] EXCEPT !.left = Later(@)]]
    /\ expiration' = [n \in Notify |-> Later(expiration[n])]
    /\ sleep' = Later(sleep)
    /\ UNCHANGED <<mode, processing, handling, connected, armed, alive, queued, epc, dpc,
                   call, mpc>>

-----------------------------------------------------------------------------
ClientStep(c) ==
    \E n \in Notify :
        \/ \E w \in Wait, sooner \in BOOLEAN : Update(c, n, w, sooner)
        \/ \E destroy \in BOOLEAN : CloseBegin(c, n, destroy)
CallStep(c) == UpdateNotify(c) \/ CloseLocked(c) \/ CloseWoken(c)
RunStep == RunSkip \/ RunCallback \/ RunEnd \/ RunNotify
DispatchStep == DispatchStop \/ DispatchCheck \/ DispatchPush \/ DispatchTimeout
DestroyStep == DestroyNotify \/ DestroyCheck

Next ==
    \/ \E c \in Thread : ClientStep(c) \/ CallStep(c) \/ SpuriousCloser(c)
    \/ RunStart \/ RunStep \/ \E w \in Wait : RunReturn(w)
    \/ DispatchStep \/ SpuriousDispatch
    \/ DestroyBegin \/ DestroyStep \/ SpuriousDestroy
    \/ Tick

Spec == Init /\ [][Next]_vars

(***************************************************************************)
(* Fairness: every thread that can run does; time passes; handlers return; *)
(* and RunTimers gets its turn in the event queue (TaskEventuallyStarts of *)
(* module TaskQueue), whatever else the event thread does.                 *)
(***************************************************************************)
Fairness ==
    /\ \A c \in Thread : SF_vars(CallStep(c))
    /\ SF_vars(RunStart) /\ WF_vars(RunStep)
    /\ SF_vars(\E w \in Wait : RunReturn(w))
    /\ SF_vars(DispatchStep) /\ SF_vars(DestroyStep)
    /\ WF_vars(Tick)

FairSpec == Spec /\ Fairness

-----------------------------------------------------------------------------
(***************************************************************************)
(* Properties.                                                             *)
(***************************************************************************)

\* Every variable has its type.
TypeOK ==
    /\ mode \in {"running", "stopping", "stopped"}
    /\ \A i \in DOMAIN timers : timers[i] \in
         [n : Notify, left : 0..MaxWait, state : {"live", "stale", "orphan"}]
    /\ processing \in BOOLEAN /\ connected \in BOOLEAN
    /\ handling \in Notify \cup {None}
    /\ armed \in [Notify -> BOOLEAN] /\ alive \in [Notify -> BOOLEAN]
    /\ expiration \in [Notify -> Wait]
    /\ queued \in 0..1
    /\ epc \in {"idle", "loop", "callback", "notify"}
    /\ dpc \in {"check", "wait", "timed", "push", "done"}
    /\ sleep \in Wait
    /\ call \in [Thread -> [pc : {"idle", "notify", "closing", "waiting", "woken"},
                            n : Notify \cup {None}, destroy : BOOLEAN]]
    /\ mpc \in {"run", "notify", "check", "waiting", "done"}

LiveNodes(n) == {i \in DOMAIN timers : timers[i].n = n /\ timers[i].state = "live"}

\* However updates, callbacks and closes interleave, the queue of a running
\* timer system holds exactly one node that counts for a notify whose timer is
\* set, at the time it is set to, none for any other, and the soonest first.
NodeMatchesTimer ==
    /\ \A i, j \in DOMAIN timers : i < j => timers[i].left <= timers[j].left
    /\ mode # "stopped" => \A n \in Notify :
         IF expiration[n] = Inf THEN LiveNodes(n) = {}
         ELSE armed[n] /\ \E i \in DOMAIN timers :
                LiveNodes(n) = {i} /\ timers[i].left = expiration[n]

\* A notify_one for the dispatch thread is on its way.
NotifyPending ==
    epc = "notify" \/ mpc = "notify" \/ \E c \in Thread : call[c].pc = "notify"

\* The dispatch thread never oversleeps: when it waits and no notify is on its
\* way, it wakes no later than the first node is due, or RunTimers is under way
\* and will see to the queue, or there is nothing to wait for; and it does not
\* sleep through a shutdown.
DispatchNotLate ==
    dpc \in {"wait", "timed"} /\ ~NotifyPending =>
        /\ mode = "running"
        /\ dpc = "wait" => processing \/ timers = <<>>
        /\ dpc = "timed" /\ timers # <<>> => sleep <= Top.left

\* s_runTimers is one intrusive task: s_processing says truly that it has been
\* claimed, is in the event queue or is running, and it is never in two of
\* these states at once, which would corrupt the event queue's list.
RunTimersOnce ==
    queued + (IF dpc = "push" THEN 1 ELSE 0) + (IF Processing THEN 1 ELSE 0)
        = IF processing THEN 1 ELSE 0

\* The queue, the timers and the task that serves them agree.
QueueConsistent == TypeOK /\ NodeMatchesTimer /\ RunTimersOnce

\* The notify has been destroyed, or its owner's last call has closed it.
Closed(n) ==
    \/ ~alive[n]
    \/ Owner[n] # Event /\ ~armed[n] /\ \A c \in Thread : call[c].n # n

\* Once timerCloseWait has returned to a thread other than the event thread, or
\* a notify is gone, its handler is not running and will not be run.  (Timers
\* stopped by iTimerDestroy are excluded: closeWait does not wait then.)
ClosedIsQuiet ==
    mode # "stopped" =>
        \A n \in Notify : Closed(n) => handling # n /\ LiveNodes(n) = {}

\* The thread is in a timerCloseWait that waits for a handler.
waitsFor ==
    [c \in Thread |->
        IF call[c].pc \in {"waiting", "woken"} THEN call[c].n ELSE None]
Alarm == INSTANCE TimerAlarm WITH
    left <- expiration, handled <- handling, closing <- waitsFor,
    stopped <- mode = "stopped"

\* The timers implement TimerAlarm: a handler is called when its time has come,
\* once for each time that was set, whichever nodes of the queue are outdated by
\* then, and never between a close and the return of the thread that waits.
ImplementsAlarm == Alarm!Spec

\* A timer that is due is handled, set to another time or closed, if the timers
\* are not stopped before: no wake-up of the dispatch thread is lost on the way.
DueFires ==
    \A n \in Notify :
        (armed[n] /\ expiration[n] = 0) ~> (expiration[n] # 0 \/ mode # "running")

\* timerCloseWait returns once the handler it waits for has.
CloseReturns ==
    \A c \in Client : call[c].pc \in {"closing", "waiting"} ~> call[c] = Idle

\* iTimerDestroy returns: the dispatch thread sees the change of run mode, and
\* the main thread sees it stop.
DestroyReturns == mpc = "notify" ~> mpc = "done"

\* Whoever waits for the timers, to close one or to stop them all, is woken.
WaitersReturn == CloseReturns /\ DestroyReturns
=============================================================================
