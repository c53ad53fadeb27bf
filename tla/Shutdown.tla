------------------------------ MODULE Shutdown ------------------------------
(***************************************************************************)
(* libs/core/shutdown.cpp: the handlers registered with shutdownMonitor    *)
(* are taken through the client, the server and the console phase by the   *)
(* timer s_mainTimer, in the event thread, while the main thread waits in  *)
(* iShutdownDestroy.  In the first pass of a phase every handler is        *)
(* called; the ones that answered with shutdownIncomplete() are retried,   *)
(* newest first, and a pass ends at the first that is still incomplete.    *)
(* An incomplete handler more than two minutes after the start aborts.     *)
(*                                                                         *)
(* A pass is one onTimer in the event thread, yet other threads run while  *)
(* it does: each call of a handler is a step, and between passes (pass = 0)*)
(* the event thread does other work.  Whether two minutes have gone by is  *)
(* the variable expired; 0ms and 10ms until the next pass are the same.    *)
(***************************************************************************)
EXTENDS Naturals, Sequences

CONSTANT Handler \* IShutdownNotify objects

VARIABLES
    mode,      \* MainTimer::m_mode
    cleaners,  \* s_cleaners, newest first
    firstTry,  \* MainTimer::m_firstTry
    pass,      \* place of the loop of stop() in cleaners, 0 outside of it
    stopped,   \* the local of that name in stop()
    armed,     \* s_mainTimer is set
    expired,   \* s_shutdownTimeout has passed since m_shutdownStart
    noLimit,   \* s_disableTimeout
    main,      \* the main thread: "running", "waiting" in iShutdownDestroy
               \* or "stopped", when that has returned
    flag,      \* s_stopFlag
    aborted,   \* abort() was called
    roll,      \* history: the handlers there were when the phase began
    tried,     \* history: those called with firstTry in this phase
    completed  \* history: those that have completed this phase

passVars == <<pass, stopped, firstTry>>
limitVars == <<expired, noLimit>>
mainVars == <<main, flag>>
history == <<roll, tried, completed>>
shutdownVars ==
    <<mode, cleaners, armed, aborted, passVars, limitVars, mainVars, history>>

Phase == {"client", "server", "console"}
Mode == {"main", "finalize", "done"} \cup Phase

After(m) ==
    CASE m = "main" -> "client"
      [] m = "client" -> "server"
      [] m = "server" -> "console"
      [] OTHER -> "finalize"

Cleaner == [notify : Handler, stopped : BOOLEAN]
Registered == {cleaners[i].notify : i \in DOMAIN cleaners}

ShutdownInit ==
    /\ mode = "main" /\ cleaners = <<>> /\ firstTry = TRUE
    /\ pass = 0 /\ stopped = FALSE /\ armed = FALSE
    /\ expired = FALSE /\ noLimit = FALSE
    /\ main = "running" /\ flag = FALSE /\ aborted = FALSE
    /\ roll = {} /\ tried = {} /\ completed = {}

-----------------------------------------------------------------------------
(***************************************************************************)
(* Registration, and the main thread.                                      *)
(***************************************************************************)

\* shutdownMonitor: not from within a handler, where emplace would move the
\* vector that stop() walks.
Register(h) ==
    /\ ~aborted /\ pass = 0 /\ h \notin Registered
    /\ cleaners' = <<[notify |-> h, stopped |-> FALSE]>> \o cleaners
    /\ UNCHANGED <<mode, armed, aborted, passVars, limitVars, mainVars, history>>

\* iShutdownDestroy, up to the wait for the flag.
DestroyBegin ==
    /\ ~aborted /\ main = "running"
    /\ mode' = "main" /\ firstTry' = TRUE /\ expired' = FALSE
    /\ armed' = TRUE
    /\ main' = "waiting"
    /\ UNCHANGED <<cleaners, aborted, pass, stopped, noLimit, flag, history>>

DestroyEnd ==
    /\ ~aborted /\ main = "waiting" /\ flag
    /\ flag' = FALSE
    /\ main' = "stopped"
    /\ UNCHANGED <<mode, cleaners, armed, aborted, passVars, limitVars, history>>

\* The framework may be run again once it has stopped.
Restart ==
    /\ ~aborted /\ main = "stopped"
    /\ main' = "running"
    /\ UNCHANGED <<mode, cleaners, armed, aborted, flag, passVars, limitVars,
                   history>>

-----------------------------------------------------------------------------
(***************************************************************************)
(* MainTimer::onTimer.                                                     *)
(***************************************************************************)
TimerTurn == ~aborted /\ armed /\ pass = 0

EnterNextMode ==
    /\ mode' = After(mode)
    /\ firstTry' = TRUE
    /\ roll' = {} /\ tried' = {} /\ completed' = {}

OnTimerMain ==
    /\ TimerTurn /\ mode = "main"
    /\ expired' = FALSE
    /\ EnterNextMode
    /\ UNCHANGED <<cleaners, armed, aborted, pass, stopped, noLimit, mainVars>>

AllUnstopped == [i \in DOMAIN cleaners |-> [cleaners[i] EXCEPT !.stopped = FALSE]]

\* stop(), up to its second loop.
StopBegin ==
    /\ TimerTurn /\ mode \in Phase
    /\ pass' = 1
    /\ stopped' = TRUE
    /\ \/ /\ firstTry
          /\ cleaners' = AllUnstopped
          /\ roll' = Registered
       \/ /\ ~firstTry
          /\ UNCHANGED <<cleaners, roll>>
    /\ UNCHANGED <<mode, armed, aborted, firstTry, limitVars, mainVars, tried,
                   completed>>

InLoop == ~aborted /\ pass \in DOMAIN cleaners

SkipStopped ==
    /\ InLoop /\ cleaners[pass].stopped
    /\ pass' = pass + 1
    /\ UNCHANGED <<mode, cleaners, armed, aborted, stopped, firstTry, limitVars,
                   mainVars, history>>

Calls(h) == InLoop /\ ~cleaners[pass].stopped /\ cleaners[pass].notify = h

HandlerCompletes(h) ==
    /\ Calls(h)
    /\ cleaners' = [cleaners EXCEPT ![pass].stopped = TRUE]
    /\ pass' = pass + 1
    /\ tried' = IF firstTry THEN tried \cup {h} ELSE tried
    /\ completed' = completed \cup {h}
    /\ UNCHANGED <<mode, armed, aborted, stopped, firstTry, limitVars, mainVars,
                   roll>>

\* Mutants of LeavePass: a retry goes on after an incomplete handler, and the
\* first pass forgets it.
LeavePassGoesOn ==
    /\ stopped' = FALSE
    /\ pass' = pass + 1
    /\ UNCHANGED firstTry
LeavePassForgets ==
    /\ pass' = IF firstTry THEN pass + 1 ELSE 0
    /\ UNCHANGED <<stopped, firstTry>>

\* A retry goes no further than the first handler that is still incomplete.
LeavePass ==
    \/ /\ firstTry
       /\ stopped' = FALSE
       /\ pass' = pass + 1
       /\ UNCHANGED firstTry
    \/ /\ ~firstTry
       /\ pass' = 0
       /\ UNCHANGED <<stopped, firstTry>>

\* shutdownIncomplete() within the time limit ...
HandlerIncomplete(h) ==
    /\ Calls(h)
    /\ ~expired \/ noLimit
    /\ LeavePass
    /\ tried' = IF firstTry THEN tried \cup {h} ELSE tried
    /\ UNCHANGED <<mode, cleaners, armed, aborted, limitVars, mainVars, roll,
                   completed>>

\* ... and after it.
HandlerTooLate(h) ==
    /\ Calls(h)
    /\ expired /\ ~noLimit
    /\ aborted' = TRUE
    /\ UNCHANGED <<mode, cleaners, armed, passVars, limitVars, mainVars, history>>

\* stop() returns at its end, and onTimer goes on to the next mode or retries.
StopEnd ==
    /\ ~aborted /\ pass = Len(cleaners) + 1
    /\ pass' = 0
    /\ \/ /\ stopped
          /\ EnterNextMode
       \/ /\ ~stopped
          /\ firstTry' = FALSE
          /\ UNCHANGED <<mode, history>>
    /\ UNCHANGED <<cleaners, armed, aborted, stopped, limitVars, mainVars>>

Finalize ==
    /\ TimerTurn /\ mode = "finalize"
    /\ cleaners' = <<>>
    /\ mode' = "done"
    /\ flag' = TRUE
    /\ armed' = FALSE
    /\ UNCHANGED <<aborted, passVars, limitVars, main, history>>

-----------------------------------------------------------------------------
(***************************************************************************)
(* The time limit.                                                         *)
(***************************************************************************)
TimeLimitPasses ==
    /\ ~aborted /\ mode \in Phase /\ ~expired
    /\ expired' = TRUE
    /\ UNCHANGED <<mode, cleaners, armed, aborted, passVars, noLimit, mainVars,
                   history>>

\* shutdownDelay
Delay ==
    /\ ~aborted /\ expired
    /\ expired' = FALSE
    /\ UNCHANGED <<mode, cleaners, armed, aborted, passVars, noLimit, mainVars,
                   history>>

\* shutdownDisableTimeout, when app.xml changes.
DisableTimeout(disable) ==
    /\ ~aborted /\ pass = 0
    /\ noLimit' = disable
    /\ UNCHANGED <<mode, cleaners, armed, aborted, passVars, expired, mainVars,
                   history>>

TimerStep == OnTimerMain \/ StopBegin \/ SkipStopped \/ StopEnd \/ Finalize
CallStep ==
    \E h \in Handler :
        HandlerCompletes(h) \/ HandlerIncomplete(h) \/ HandlerTooLate(h)
LimitStep ==
    TimeLimitPasses \/ Delay \/ \E disable \in BOOLEAN : DisableTimeout(disable)
MainStep ==
    DestroyBegin \/ DestroyEnd \/ Restart \/ \E h \in Handler : Register(h)

ShutdownNext == TimerStep \/ CallStep \/ LimitStep \/ MainStep

ShutdownSpec == ShutdownInit /\ [][ShutdownNext]_shutdownVars

-----------------------------------------------------------------------------
(***************************************************************************)
(* Properties.                                                             *)
(***************************************************************************)

\* Every variable has its type, a handler is registered once, and a pass is only
\* made in one of the phases.
ShutdownTypeOK ==
    /\ mode \in Mode
    /\ cleaners \in Seq(Cleaner)
    /\ pass \in 0..Len(cleaners) + 1
    /\ stopped \in BOOLEAN /\ firstTry \in BOOLEAN /\ armed \in BOOLEAN
    /\ expired \in BOOLEAN /\ noLimit \in BOOLEAN
    /\ flag \in BOOLEAN /\ aborted \in BOOLEAN
    /\ main \in {"running", "waiting", "stopped"}
    /\ \A i, j \in DOMAIN cleaners :
          cleaners[i].notify = cleaners[j].notify => i = j
    /\ pass > 0 => mode \in Phase
    /\ roll \subseteq Handler /\ tried \subseteq Handler /\ completed \subseteq Handler

\* A phase ends only after every handler that was there when it began has been
\* called with firstTry and has completed, whatever the passes did: "The phase
\* ends after all handlers have completed" (core/shutdown.h).
PhaseEndsComplete ==
    [][(mode \in Phase /\ mode' # mode)
        => roll \subseteq tried /\ roll \subseteq completed]_shutdownVars

\* While a phase is retried nothing is called before all newer handlers have
\* completed it: what an older handler tears down is not needed any more.
RetryInOrder ==
    ~firstTry /\ pass > 0 =>
        \A j \in DOMAIN cleaners :
            j < pass => cleaners[j].stopped /\ cleaners[j].notify \in completed

\* A handler that has completed a phase is not called again in that phase.
CompletedNotRecalled == \A h \in completed : ~Calls(h)

\* What the bookkeeping of stop() stands for, whichever pass it is in. The
\* history starts anew with each phase ...
HistoryFresh ==
    mode \notin Phase \/ (firstTry /\ pass = 0)
        => roll = {} /\ tried = {} /\ completed = {}
HistoryKnown == roll \cup tried \cup completed \subseteq Registered

\* ... the mark in CleanupInfo means that the handler has completed, once the
\* marks of the phase before are gone ...
MarksTrue ==
    mode \in Phase /\ (pass > 0 \/ ~firstTry) =>
        \A i \in DOMAIN cleaners :
            cleaners[i].stopped <=> cleaners[i].notify \in completed

\* ... the first pass calls everyone, so a retry finds them all tried ...
FirstPassCallsAll ==
    /\ firstTry /\ pass > 0 =>
          \A i \in DOMAIN cleaners :
              /\ i < pass => cleaners[i].notify \in tried
              /\ i >= pass => ~cleaners[i].stopped
    /\ mode \in Phase /\ ~firstTry => roll \subseteq tried

\* ... and stop() answers TRUE only for what it has seen to be stopped.
StoppedSoFar ==
    pass > 0 /\ stopped =>
        \A i \in DOMAIN cleaners : i < pass => cleaners[i].stopped

\* The main thread waits from the first timer to the flag.
MainWaits ==
    /\ mode \in Phase \cup {"finalize"} \/ armed \/ flag => main = "waiting"
    /\ flag => mode = "done" /\ ~armed

\* The inductive invariant: the passes are made in order, whatever is
\* registered, delayed, disabled or incomplete meanwhile.
ShutdownIInv ==
    /\ ShutdownTypeOK /\ HistoryFresh /\ HistoryKnown /\ MarksTrue
    /\ FirstPassCallsAll /\ StoppedSoFar /\ MainWaits
    /\ RetryInOrder /\ CompletedNotRecalled
=============================================================================
