----------------------------- MODULE TimerAlarm -----------------------------
(***************************************************************************)
(* What the timers of libs/core/timer.h promise those who use them, with   *)
(* no queue, lock or dispatch thread in sight: the handler of a notify is  *)
(* called when its time has come and not before, once for each time that   *)
(* is set, one handler at a time, and not at all from the moment another   *)
(* thread has closed it; timerCloseWait returns when the handler is not    *)
(* running.  Nothing is promised once the timers have been stopped.        *)
(***************************************************************************)
EXTENDS Integers

CONSTANTS
    Notify, \* ITimerNotify objects
    Thread, \* threads that use timers
    Event,  \* the one that calls the handlers
    None,   \* no notify
    Inf     \* kTimerInfinite, more than any other time

VARIABLES
    left,    \* per notify, the time until its handler is called
    handled, \* the notify whose handler is running
    alive,   \* per notify, it has not been destroyed
    closing, \* per thread, the notify whose handler it waits for
    stopped  \* iTimerDestroy has got its way

vars == <<left, handled, alive, closing, stopped>>

Init ==
    /\ left = [n \in Notify |-> Inf]
    /\ handled = None
    /\ alive = [n \in Notify |-> TRUE]
    /\ closing = [c \in Thread |-> None]
    /\ stopped = FALSE

\* n is there, and nobody is closing it.
Free(n) == alive[n] /\ \A c \in Thread : closing[c] # n

\* timerUpdate.
Set(n, w) ==
    /\ Free(n)
    /\ left' = [left EXCEPT ![n] = w]
    /\ UNCHANGED <<handled, alive, closing, stopped>>

\* onTimer is called ...
Fire(n) ==
    /\ handled = None
    /\ Free(n) /\ left[n] = 0
    /\ handled' = n
    /\ left' = [left EXCEPT ![n] = Inf]
    /\ UNCHANGED <<alive, closing, stopped>>

\* ... and returns, with a wait or without one.  An earlier time that has been
\* set meanwhile stands, and who is being closed is not called again.
Finish ==
    /\ handled # None
    /\ handled' = None
    /\ \/ UNCHANGED left
       \/ /\ Free(handled)
          /\ \E w \in 0..(Inf - 1) :
                w < left[handled] /\ left' = [left EXCEPT ![handled] = w]
    /\ UNCHANGED <<alive, closing, stopped>>

\* The close was that of the destructor, or not; a handler does not destroy the
\* notify it is called for.
Closed(n) ==
    \/ UNCHANGED alive
    \/ handled # n /\ alive' = [alive EXCEPT ![n] = FALSE]

\* timerCloseWait waits for a handler that is running, if it is not called by it.
Close(c, n) ==
    /\ Free(n) /\ closing[c] = None
    /\ left' = [left EXCEPT ![n] = Inf]
    /\ \/ /\ handled = n
          /\ closing' = [closing EXCEPT ![c] = n]
          /\ UNCHANGED alive
       \/ /\ handled = n => c = Event
          /\ Closed(n)
          /\ UNCHANGED closing
    /\ UNCHANGED <<handled, stopped>>

CloseEnds(c) ==
    /\ closing[c] # None /\ handled # closing[c]
    /\ closing' = [closing EXCEPT ![c] = None]
    /\ Closed(closing[c])
    /\ UNCHANGED <<left, handled, stopped>>

Later(w) == IF w \in {0, Inf} THEN w ELSE w - 1
TimePasses ==
    /\ left' = [n \in Notify |-> Later(left[n])]
    /\ UNCHANGED <<handled, alive, closing, stopped>>

Stop ==
    /\ stopped' = TRUE
    /\ UNCHANGED <<left, handled, alive, closing>>
StaysStopped == stopped /\ stopped'

Next ==
    \/ \E n \in Notify :
         \/ \E w \in 0..Inf : Set(n, w)
         \/ Fire(n)
         \/ \E c \in Thread : Close(c, n)
    \/ Finish
    \/ \E c \in Thread : CloseEnds(c)
    \/ TimePasses
    \/ Stop \/ StaysStopped

Spec == Init /\ [][Next]_vars
=============================================================================
