--------------------------- MODULE ShutdownProofs ---------------------------
(***************************************************************************)
(* Proofs about the shutdown: ShutdownIInv is an invariant for any set of  *)
(* handlers, a phase ends only when all are complete, and the application  *)
(* of module AppShutdown, with its handlers and resources, takes no step   *)
(* that module Shutdown does not allow, so that it inherits both.  What    *)
(* the resources need is there as long as they do, for any set of them,    *)
(* by the inductive invariant AppIInv.                                     *)
(***************************************************************************)
EXTENDS AppShutdown, FiniteSetTheorems, SequenceTheorems, TLAPS

\* The part of ShutdownIInv from which the rest follows.
Core ==
    /\ ShutdownTypeOK /\ HistoryFresh /\ HistoryKnown /\ MarksTrue
    /\ FirstPassCallsAll /\ StoppedSoFar /\ MainWaits /\ RetryInOrder

\* A handler that has completed is marked, and a marked one is not called.
LEMMA CoreSuffices == Core => ShutdownIInv
<1>1. SUFFICES ASSUME Core, NEW h \in completed, Calls(h)
               PROVE  FALSE
  BY DEF ShutdownIInv, Core, CompletedNotRecalled
<1>2. pass \in DOMAIN cleaners /\ ~cleaners[pass].stopped
      /\ cleaners[pass].notify = h
  BY <1>1 DEF Calls, InLoop
<1>3. cleaners \in Seq(Cleaner)
  BY <1>1 DEF Core, ShutdownTypeOK
<1>4. pass > 0 /\ mode \in Phase
  BY <1>1, <1>2, <1>3 DEF Core, ShutdownTypeOK
<1>5. cleaners[pass].stopped
  BY <1>1, <1>2, <1>4 DEF Core, MarksTrue
<1> QED
  BY <1>2, <1>5

\* Nothing is registered and nobody waits at first.
LEMMA CoreInit == ShutdownInit => Core
<1> SUFFICES ASSUME ShutdownInit PROVE Core
  OBVIOUS
<1>1. cleaners = <<>> /\ cleaners \in Seq(Cleaner) /\ Len(cleaners) = 0
      /\ DOMAIN cleaners = {}
  BY DEF ShutdownInit
<1>2. mode = "main" /\ mode \notin Phase /\ mode \in Mode
  BY DEF ShutdownInit, Mode, Phase
<1>3. ShutdownTypeOK
  <2>1. /\ stopped \in BOOLEAN /\ firstTry \in BOOLEAN /\ armed \in BOOLEAN
        /\ expired \in BOOLEAN /\ noLimit \in BOOLEAN
        /\ flag \in BOOLEAN /\ aborted \in BOOLEAN
    BY DEF ShutdownInit
  <2>2. pass \in 0 .. Len(cleaners) + 1 /\ (pass > 0 => mode \in Phase)
    BY <1>1 DEF ShutdownInit
  <2>3. main \in {"running", "waiting", "stopped"} /\ roll = {} /\ tried = {}
        /\ completed = {}
    BY DEF ShutdownInit
  <2> QED
    BY <1>1, <1>2, <2>1, <2>2, <2>3 DEF ShutdownTypeOK
<1>4. HistoryFresh /\ HistoryKnown /\ MarksTrue /\ MainWaits
  BY <1>2 DEF ShutdownInit, HistoryFresh, HistoryKnown, MarksTrue, MainWaits
<1>5. FirstPassCallsAll /\ StoppedSoFar /\ RetryInOrder
  BY <1>1, <1>2 DEF ShutdownInit, FirstPassCallsAll, StoppedSoFar, RetryInOrder
<1> QED
  BY <1>3, <1>4, <1>5 DEF Core

-----------------------------------------------------------------------------
(* The steps.                                                              *)

\* A new handler comes first: the others move up one place.
LEMMA Prepended ==
    ASSUME cleaners \in Seq(Cleaner), NEW h \in Handler, Register(h)
    PROVE  /\ cleaners' \in Seq(Cleaner)
           /\ Len(cleaners') = Len(cleaners) + 1
           /\ cleaners'[1].notify = h
           /\ \A i \in DOMAIN cleaners' \ {1} :
                 i - 1 \in DOMAIN cleaners /\ cleaners'[i] = cleaners[i - 1]
  BY DEF Register, Cleaner

\* They do so between passes.
LEMMA RegisterCore ==
    ASSUME Core, NEW h \in Handler, Register(h) PROVE Core'
<1> DEFINE c == [notify |-> h, stopped |-> FALSE]
<1>1. cleaners \in Seq(Cleaner) /\ c \in Cleaner
  BY DEF Core, ShutdownTypeOK, Cleaner
<1>2. /\ cleaners' \in Seq(Cleaner)
      /\ Len(cleaners') = Len(cleaners) + 1
      /\ cleaners'[1] = c
      /\ \A i \in DOMAIN cleaners' \ {1} :
            i - 1 \in DOMAIN cleaners /\ cleaners'[i] = cleaners[i - 1]
      /\ \A i \in DOMAIN cleaners : i + 1 \in DOMAIN cleaners'
            /\ cleaners'[i + 1] = cleaners[i]
  BY <1>1 DEF Register
<1>3. UNCHANGED <<mode, armed, aborted, pass, stopped, firstTry, expired,
                  noLimit, main, flag, roll, tried, completed>>
      /\ pass = 0 /\ h \notin Registered
  BY DEF Register, passVars, limitVars, mainVars, history
<1> HIDE DEF c
<1>4. c.notify = h /\ c.stopped = FALSE
  BY DEF c
<1>5. Registered' = Registered \cup {h}
  <2>1. \A x \in Registered' : x \in Registered \cup {h}
    BY <1>1, <1>2, <1>4 DEF Registered
  <2>2. h \in Registered'
    <3>1. 1 \in DOMAIN cleaners'
      BY <1>1, <1>2
    <3> QED
      BY <3>1, <1>2, <1>4 DEF Registered
  <2>3. \A x \in Registered : x \in Registered'
    BY <1>1, <1>2 DEF Registered
  <2> QED
    BY <2>1, <2>2, <2>3
<1>6. ShutdownTypeOK'
  <2>1. \A i, j \in DOMAIN cleaners' :
          cleaners'[i].notify = cleaners'[j].notify => i = j
    <3>1. \A i \in DOMAIN cleaners' \ {1} : cleaners'[i].notify \in Registered
      BY <1>2 DEF Registered
    <3>2. \A i, j \in DOMAIN cleaners' \ {1} :
            cleaners'[i].notify = cleaners'[j].notify => i = j
      BY <1>1, <1>2 DEF Core, ShutdownTypeOK
    <3> QED
      BY <1>2, <1>3, <1>4, <3>1, <3>2
  <2>2. pass' \in 0 .. Len(cleaners') + 1
    BY <1>1, <1>2, <1>3
  <2> QED
    BY <1>2, <1>3, <2>1, <2>2 DEF Core, ShutdownTypeOK
<1>7. MarksTrue'
  <2>1. completed \subseteq Registered
    BY DEF Core, HistoryKnown
  <2> QED
    BY <1>1, <1>2, <1>3, <1>4, <2>1 DEF Core, MarksTrue
<1>8. HistoryFresh' /\ HistoryKnown' /\ FirstPassCallsAll' /\ StoppedSoFar'
      /\ RetryInOrder' /\ MainWaits'
  BY <1>3, <1>5 DEF Core, HistoryFresh, HistoryKnown, FirstPassCallsAll,
     StoppedSoFar, RetryInOrder, MainWaits
<1> QED
  BY <1>6, <1>7, <1>8 DEF Core

\* The main thread, and what leaves the handlers alone.
LEMMA QuietCore ==
    ASSUME Core,
           \/ DestroyBegin \/ DestroyEnd \/ Restart
           \/ TimeLimitPasses \/ Delay
           \/ \E disable \in BOOLEAN : DisableTimeout(disable)
           \/ UNCHANGED shutdownVars
    PROVE  Core'
<1> USE DEF Core, ShutdownTypeOK, HistoryFresh, HistoryKnown, MarksTrue,
        FirstPassCallsAll, StoppedSoFar, RetryInOrder, MainWaits, passVars,
        limitVars, mainVars, history, shutdownVars, Registered, Mode, Phase
<1>1. CASE DestroyBegin
  BY <1>1 DEF DestroyBegin
<1>2. CASE DestroyEnd
  BY <1>2 DEF DestroyEnd
<1>3. CASE Restart
  BY <1>3 DEF Restart
<1>4. CASE TimeLimitPasses
  BY <1>4 DEF TimeLimitPasses
<1>5. CASE Delay
  BY <1>5 DEF Delay
<1>6. CASE \E disable \in BOOLEAN : DisableTimeout(disable)
  BY <1>6 DEF DisableTimeout
<1>7. CASE UNCHANGED shutdownVars
  BY <1>7
<1> QED
  BY <1>1, <1>2, <1>3, <1>4, <1>5, <1>6, <1>7

-----------------------------------------------------------------------------
(* The passes.                                                             *)

LEMMA TimerCore ==
    ASSUME Core, OnTimerMain \/ Finalize PROVE Core'
<1> USE DEF Core, ShutdownTypeOK, HistoryFresh, HistoryKnown, MarksTrue,
        FirstPassCallsAll, StoppedSoFar, RetryInOrder, MainWaits, passVars,
        limitVars, mainVars, history, Registered, Mode, Phase, TimerTurn
<1>1. CASE OnTimerMain
  BY <1>1 DEF OnTimerMain, EnterNextMode, After
<1>2. CASE Finalize
  <2>1. cleaners' = <<>> /\ cleaners' \in Seq(Cleaner) /\ Len(cleaners') = 0
        /\ DOMAIN cleaners' = {}
    BY <1>2 DEF Finalize
  <2>2. /\ mode = "finalize" /\ mode' = "done" /\ armed /\ armed' = FALSE /\ flag' = TRUE
        /\ UNCHANGED <<aborted, passVars, limitVars, main, history>>
    BY <1>2 DEF Finalize
  <2>3. roll = {} /\ tried = {} /\ completed = {} /\ main = "waiting"
    BY <2>2
  <2>4. ShutdownTypeOK'
    <3>1. pass = 0 /\ UNCHANGED <<pass, stopped, firstTry, expired, noLimit>>
      BY <1>2, <2>2
    <3>2. (/\ stopped \in BOOLEAN /\ firstTry \in BOOLEAN /\ armed \in BOOLEAN
           /\ expired \in BOOLEAN /\ noLimit \in BOOLEAN
           /\ flag \in BOOLEAN /\ aborted \in BOOLEAN)'
      BY <2>2, <3>1
    <3>3. pass' \in 0 .. Len(cleaners') + 1 /\ ~(pass' > 0)
      BY <2>1, <3>1
    <3> HIDE DEF Core, HistoryFresh, HistoryKnown, MarksTrue,
             FirstPassCallsAll, StoppedSoFar, RetryInOrder, MainWaits
    <3> QED
      BY <2>1, <2>2, <2>3, <3>2, <3>3
  <2>5. HistoryFresh' /\ HistoryKnown' /\ MarksTrue' /\ MainWaits'
    BY <2>2, <2>3
  <2>6. FirstPassCallsAll' /\ StoppedSoFar' /\ RetryInOrder'
    BY <2>1, <2>2
  <2> QED
    BY <2>4, <2>5, <2>6
<1> QED
  BY <1>1, <1>2

\* What a change of marks leaves as it is.
LEMMA Remarked ==
    ASSUME NEW s \in Seq(Cleaner), NEW t,
           t = [i \in DOMAIN s |-> t[i]],
           \A i \in DOMAIN s : t[i] \in Cleaner
    PROVE  /\ t \in Seq(Cleaner) /\ Len(t) = Len(s) /\ DOMAIN t = DOMAIN s
<1>1. DOMAIN s = 1 .. Len(s) /\ Len(s) \in Nat
  OBVIOUS
<1>2. t \in [1 .. Len(s) -> Cleaner]
  BY <1>1
<1> QED
  BY <1>1, <1>2

\* Nobody has come or gone.
LEMMA SameRegistered ==
    ASSUME DOMAIN cleaners' = DOMAIN cleaners,
           \A i \in DOMAIN cleaners : cleaners'[i].notify = cleaners[i].notify
    PROVE  Registered' = Registered
<1>1. \A x \in Registered' : x \in Registered
  BY DEF Registered
<1>2. \A x \in Registered : x \in Registered'
  BY DEF Registered
<1> QED
  BY <1>1, <1>2

\* The marks are cleared as a phase begins; a retry takes them as they are.
LEMMA StopBeginCore ==
    ASSUME Core, StopBegin PROVE Core'
<1>1. /\ ~aborted /\ armed /\ pass = 0 /\ mode \in Phase
      /\ pass' = 1 /\ stopped' = TRUE
      /\ UNCHANGED <<mode, armed, aborted, firstTry, limitVars, mainVars, tried,
                     completed>>
  BY DEF StopBegin, TimerTurn
<1>2. cleaners \in Seq(Cleaner)
  BY DEF Core, ShutdownTypeOK
<1>3. CASE firstTry
  <2>1. cleaners' = AllUnstopped /\ roll' = Registered
    BY <1>3 DEF StopBegin
  <2>2. /\ cleaners' \in Seq(Cleaner) /\ Len(cleaners') = Len(cleaners)
        /\ DOMAIN cleaners' = DOMAIN cleaners
        /\ \A i \in DOMAIN cleaners : cleaners'[i].notify = cleaners[i].notify
              /\ cleaners'[i].stopped = FALSE
    <3>1. \A i \in DOMAIN cleaners : cleaners[i] \in [notify : Handler, stopped : BOOLEAN]
      <4>1. \A i \in DOMAIN cleaners : cleaners[i] \in Cleaner
        BY <1>2
      <4> QED
        BY <4>1 DEF Cleaner
    <3>2. \A i \in DOMAIN cleaners : cleaners'[i].notify = cleaners[i].notify
            /\ cleaners'[i].stopped = FALSE
            /\ cleaners'[i] \in [notify : Handler, stopped : BOOLEAN]
      BY <2>1, <3>1 DEF AllUnstopped
    <3>3. cleaners' = [i \in DOMAIN cleaners |-> cleaners'[i]]
      BY <2>1 DEF AllUnstopped
    <3> QED
      BY <1>2, <3>2, <3>3, Remarked DEF Cleaner
  <2>3. Registered' = Registered /\ Registered \subseteq Handler
    <3>1. Registered' = Registered
      BY <2>2, SameRegistered
    <3>2. \A i \in DOMAIN cleaners : cleaners[i].notify \in Handler
      <4>1. \A i \in DOMAIN cleaners : cleaners[i] \in Cleaner
        BY <1>2
      <4> QED
        BY <4>1 DEF Cleaner
    <3> QED
      BY <3>1, <3>2 DEF Registered
  <2>4. tried = {} /\ completed = {}
    BY <1>1, <1>3 DEF Core, HistoryFresh
  <2>5. ShutdownTypeOK'
    BY <1>1, <2>1, <2>2, <2>3, <2>4 DEF Core, ShutdownTypeOK, limitVars, mainVars
  <2> QED
    BY <1>1, <1>3, <2>1, <2>2, <2>3, <2>4, <2>5 DEF Core, HistoryFresh,
       HistoryKnown, MarksTrue, FirstPassCallsAll, StoppedSoFar, RetryInOrder,
       MainWaits, limitVars, mainVars
<1>4. CASE ~firstTry
  <2>1. UNCHANGED <<cleaners, roll>>
    BY <1>4 DEF StopBegin
  <2> QED
    BY <1>1, <1>2, <1>4, <2>1 DEF Core, ShutdownTypeOK, HistoryFresh,
       HistoryKnown, MarksTrue, FirstPassCallsAll, StoppedSoFar, RetryInOrder,
       MainWaits, limitVars, mainVars, Registered
<1> QED
  BY <1>3, <1>4

\* A marked handler is passed over; in the first pass there is none.
LEMMA SkipStoppedCore ==
    ASSUME Core, SkipStopped PROVE Core'
<1>1. /\ pass \in DOMAIN cleaners /\ cleaners[pass].stopped /\ pass' = pass + 1
      /\ UNCHANGED <<mode, cleaners, armed, aborted, stopped, firstTry,
                     limitVars, mainVars, history>>
  BY DEF SkipStopped, InLoop
<1>2. pass \in 1 .. Len(cleaners) /\ mode \in Phase /\ ~firstTry
  BY <1>1 DEF Core, ShutdownTypeOK, FirstPassCallsAll
<1> QED
  BY <1>1, <1>2 DEF Core, ShutdownTypeOK, HistoryFresh, HistoryKnown, MarksTrue,
     FirstPassCallsAll, StoppedSoFar, RetryInOrder, MainWaits, limitVars,
     mainVars, history, Registered

\* A handler completes: its mark and its place in completed go together, for
\* it is registered only once.
LEMMA CompletesCore ==
    ASSUME Core, NEW h \in Handler, HandlerCompletes(h) PROVE Core'
<1>1. /\ pass \in DOMAIN cleaners /\ ~cleaners[pass].stopped
      /\ cleaners[pass].notify = h
      /\ cleaners' = [cleaners EXCEPT ![pass].stopped = TRUE]
      /\ pass' = pass + 1
      /\ tried' = (IF firstTry THEN tried \cup {h} ELSE tried)
      /\ completed' = completed \cup {h}
      /\ UNCHANGED <<mode, armed, aborted, stopped, firstTry, limitVars,
                     mainVars, roll>>
  BY DEF HandlerCompletes, Calls, InLoop
<1>2. cleaners \in Seq(Cleaner) /\ pass \in 1 .. Len(cleaners) /\ mode \in Phase
  BY <1>1 DEF Core, ShutdownTypeOK
<1>3. /\ cleaners' \in Seq(Cleaner) /\ Len(cleaners') = Len(cleaners)
      /\ DOMAIN cleaners' = DOMAIN cleaners
      /\ \A i \in DOMAIN cleaners : cleaners'[i].notify = cleaners[i].notify
      /\ cleaners'[pass].stopped = TRUE
      /\ \A i \in DOMAIN cleaners \ {pass} : cleaners'[i] = cleaners[i]
  <2>1. \A i \in DOMAIN cleaners : cleaners[i] \in [notify : Handler, stopped : BOOLEAN]
    <3>1. \A i \in DOMAIN cleaners : cleaners[i] \in Cleaner
      BY <1>2
    <3> QED
      BY <3>1 DEF Cleaner
  <2>2. /\ \A i \in DOMAIN cleaners : cleaners'[i].notify = cleaners[i].notify
             /\ cleaners'[i] \in [notify : Handler, stopped : BOOLEAN]
        /\ cleaners'[pass].stopped = TRUE
        /\ \A i \in DOMAIN cleaners \ {pass} : cleaners'[i] = cleaners[i]
    BY <1>1, <2>1
  <2>3. cleaners' = [i \in DOMAIN cleaners |-> cleaners'[i]]
    BY <1>1
  <2> QED
    BY <1>2, <2>2, <2>3, Remarked DEF Cleaner
<1>4. Registered' = Registered /\ h \in Registered
  BY <1>1, <1>3, SameRegistered DEF Registered
<1>5. ShutdownTypeOK'
  BY <1>1, <1>2, <1>3 DEF Core, ShutdownTypeOK, limitVars, mainVars
<1>6. MarksTrue'
  <2>1. \A i \in DOMAIN cleaners : cleaners[i].notify = h => i = pass
    BY <1>1 DEF Core, ShutdownTypeOK
  <2>2. \A i \in DOMAIN cleaners :
          cleaners[i].stopped <=> cleaners[i].notify \in completed
    BY <1>2 DEF Core, MarksTrue
  <2> QED
    BY <1>1, <1>3, <2>1, <2>2 DEF MarksTrue
<1>7. HistoryFresh' /\ HistoryKnown' /\ MainWaits'
  BY <1>1, <1>2, <1>4 DEF Core, HistoryFresh, HistoryKnown, MainWaits, mainVars
<1>8. FirstPassCallsAll' /\ StoppedSoFar' /\ RetryInOrder'
  BY <1>1, <1>2, <1>3 DEF Core, FirstPassCallsAll, StoppedSoFar, RetryInOrder,
     MarksTrue
<1> QED
  BY <1>5, <1>6, <1>7, <1>8 DEF Core

\* A handler is not done: the first pass goes on, a retry is over.
LEMMA IncompleteCore ==
    ASSUME Core, NEW h \in Handler, HandlerIncomplete(h) \/ HandlerTooLate(h)
    PROVE  Core'
<1>1. /\ pass \in DOMAIN cleaners /\ ~cleaners[pass].stopped
      /\ cleaners[pass].notify = h
  BY DEF HandlerIncomplete, HandlerTooLate, Calls, InLoop
<1>2. cleaners \in Seq(Cleaner) /\ pass \in 1 .. Len(cleaners) /\ mode \in Phase
  BY <1>1 DEF Core, ShutdownTypeOK
<1>3. CASE HandlerIncomplete(h)
  <2>1. /\ UNCHANGED <<mode, cleaners, armed, aborted, limitVars, mainVars, roll,
                       completed, firstTry>>
        /\ tried' = (IF firstTry THEN tried \cup {h} ELSE tried)
        /\ \/ firstTry /\ stopped' = FALSE /\ pass' = pass + 1
           \/ ~firstTry /\ pass' = 0 /\ UNCHANGED stopped
    BY <1>3 DEF HandlerIncomplete, LeavePass
  <2>2. h \in Registered
    BY <1>1 DEF Registered
  <2>3. ShutdownTypeOK'
    <3>1. pass' \in 0 .. Len(cleaners) + 1 /\ (pass' > 0 => mode \in Phase)
      BY <1>2, <2>1
    <3>2. tried' \subseteq Handler
      BY <2>1 DEF Core, ShutdownTypeOK
    <3>3. stopped' \in BOOLEAN /\ firstTry' \in BOOLEAN
      BY <2>1 DEF Core, ShutdownTypeOK
    <3> QED
      BY <2>1, <3>1, <3>2, <3>3 DEF Core, ShutdownTypeOK, limitVars, mainVars
  <2> QED
    BY <1>1, <1>2, <2>1, <2>2, <2>3 DEF Core, HistoryFresh, HistoryKnown,
       MarksTrue, FirstPassCallsAll, StoppedSoFar, RetryInOrder, MainWaits,
       mainVars, Registered
<1>4. CASE HandlerTooLate(h)
  BY <1>2, <1>4 DEF HandlerTooLate, Core, ShutdownTypeOK, HistoryFresh,
     HistoryKnown, MarksTrue, FirstPassCallsAll, StoppedSoFar, RetryInOrder,
     MainWaits, passVars, limitVars, mainVars, history, Registered
<1> QED
  BY <1>3, <1>4

\* What stop() knows when it answers.
LEMMA PassOver ==
    ASSUME Core, pass = Len(cleaners) + 1
    PROVE  /\ mode \in Phase
           /\ roll \subseteq tried
           /\ stopped => roll \subseteq completed
<1>1. cleaners \in Seq(Cleaner) /\ Len(cleaners) \in Nat
      /\ \A i \in DOMAIN cleaners : i < pass
  BY DEF Core, ShutdownTypeOK
<1>2. mode \in Phase /\ pass > 0
  BY <1>1 DEF Core, ShutdownTypeOK
<1>3. roll \subseteq Registered
  BY DEF Core, HistoryKnown
<1>4. roll \subseteq tried
  BY <1>1, <1>2, <1>3 DEF Core, FirstPassCallsAll, Registered
<1>5. stopped => Registered \subseteq completed
  BY <1>1, <1>2 DEF Core, StoppedSoFar, MarksTrue, Registered
<1> QED
  BY <1>2, <1>3, <1>4, <1>5

LEMMA StopEndCore ==
    ASSUME Core, StopEnd PROVE Core'
<1>1. /\ pass = Len(cleaners) + 1 /\ pass' = 0
      /\ UNCHANGED <<cleaners, armed, aborted, stopped, limitVars, mainVars>>
  BY DEF StopEnd
<1>2. mode \in Phase /\ roll \subseteq tried /\ cleaners \in Seq(Cleaner)
      /\ pass > 0 /\ Len(cleaners) \in Nat
  BY <1>1, PassOver DEF Core, ShutdownTypeOK
<1>3. CASE stopped /\ EnterNextMode
  <2>1. /\ mode' \in {"server", "console", "finalize"} /\ firstTry'
        /\ roll' = {} /\ tried' = {} /\ completed' = {}
    BY <1>2, <1>3 DEF EnterNextMode, After, Phase
  <2>2. ShutdownTypeOK'
    BY <1>1, <1>2, <1>3, <2>1 DEF EnterNextMode, Core, ShutdownTypeOK,
       limitVars, mainVars, Mode, Phase
  <2>3. MainWaits'
    BY <1>1, <1>2, <2>1 DEF Core, MainWaits, mainVars, Phase
  <2> QED
    BY <1>1, <1>2, <2>1, <2>2, <2>3 DEF Core, HistoryFresh, HistoryKnown,
       MarksTrue, FirstPassCallsAll, StoppedSoFar, RetryInOrder
<1>4. CASE ~stopped /\ firstTry' = FALSE /\ UNCHANGED <<mode, history>>
  <2>1. Registered' = Registered
    BY <1>1 DEF Registered
  <2>2. ShutdownTypeOK'
    <3>1. pass' \in 0 .. Len(cleaners) + 1 /\ ~(pass' > 0)
      BY <1>1, <1>2
    <3>2. UNCHANGED <<mode, cleaners, armed, aborted, stopped, expired, noLimit,
                      main, flag, roll, tried, completed>>
          /\ firstTry' \in BOOLEAN
      BY <1>1, <1>4 DEF limitVars, mainVars, history
    <3> QED
      BY <3>1, <3>2 DEF Core, ShutdownTypeOK
  <2>3. HistoryFresh' /\ HistoryKnown' /\ MarksTrue' /\ MainWaits'
    BY <1>1, <1>2, <1>4, <2>1 DEF Core, HistoryFresh, HistoryKnown, MarksTrue,
       MainWaits, mainVars, history
  <2>4. FirstPassCallsAll' /\ StoppedSoFar' /\ RetryInOrder'
    BY <1>1, <1>2, <1>4 DEF FirstPassCallsAll, StoppedSoFar, RetryInOrder,
       history
  <2> QED
    BY <2>2, <2>3, <2>4 DEF Core
<1> QED
  BY <1>3, <1>4 DEF StopEnd

LEMMA CoreStep == Core /\ [ShutdownNext]_shutdownVars => Core'
<1>1. CASE TimerStep
  BY <1>1, TimerCore, StopBeginCore, SkipStoppedCore, StopEndCore DEF TimerStep
<1>2. CASE CallStep
  BY <1>2, CompletesCore, IncompleteCore DEF CallStep
<1>3. CASE LimitStep
  BY <1>3, QuietCore DEF LimitStep
<1>4. CASE MainStep
  BY <1>4, QuietCore, RegisterCore DEF MainStep
<1> QED
  BY <1>1, <1>2, <1>3, <1>4, QuietCore DEF ShutdownNext

-----------------------------------------------------------------------------
(* The theorems.                                                           *)

\* For any set of handlers: retries go in order, and nobody who has completed
\* is called again (ShutdownIInv has RetryInOrder and CompletedNotRecalled).
THEOREM ShutdownInvariance == ShutdownSpec => []ShutdownIInv
<1>1. ShutdownSpec => []Core
  BY CoreInit, CoreStep, PTL DEF ShutdownSpec
<1> QED
  BY <1>1, CoreSuffices, PTL

\* Only the end of a pass in which everything was found stopped ends a phase.
LEMMA PhaseStep ==
    ASSUME Core, [ShutdownNext]_shutdownVars, mode \in Phase, mode' # mode
    PROVE  roll \subseteq tried /\ roll \subseteq completed
<1>1. CASE StopEnd
  BY <1>1, PassOver DEF StopEnd, history
<1>2. ~DestroyBegin /\ ~OnTimerMain /\ ~Finalize
  BY DEF DestroyBegin, OnTimerMain, Finalize, Phase, Core, MainWaits
<1>3. CASE ~StopEnd
  <2>1. mode' = mode
    BY <1>2, <1>3 DEF ShutdownNext, TimerStep, CallStep, LimitStep, MainStep,
       StopBegin, SkipStopped, HandlerCompletes, HandlerIncomplete,
       HandlerTooLate, TimeLimitPasses, Delay, DisableTimeout, DestroyEnd,
       Restart, Register, shutdownVars
  <2> QED
    BY <2>1
<1> QED
  BY <1>1, <1>3

\* A phase ends only when all that were there at its start are complete.
THEOREM PhasesComplete == ShutdownSpec => PhaseEndsComplete
<1>1. ShutdownSpec => []Core
  BY CoreInit, CoreStep, PTL DEF ShutdownSpec
<1>2. Core /\ [ShutdownNext]_shutdownVars =>
        [(mode \in Phase /\ mode' # mode)
          => roll \subseteq tried /\ roll \subseteq completed]_shutdownVars
  BY PhaseStep
<1> QED
  BY <1>1, <1>2, PTL DEF ShutdownSpec, PhaseEndsComplete

-----------------------------------------------------------------------------
(* The application.                                                        *)

\* Its handlers are handlers.
LEMMA StartupHandlers == ~Started /\ start \in Nat \ {0} => Startup[start] \in Handler
  BY HandlerAssumption DEF Started, AppHandler


\* It registers one handler after the other.
StartOK == start \in Nat \ {0}

LEMMA StartStep == StartOK /\ [Next \/ RunAgain]_vars => StartOK'
<1> SUFFICES ASSUME StartOK, [Next \/ RunAgain]_vars PROVE StartOK'
  OBVIOUS
<1> USE DEF StartOK
<1>1. CASE Initialize
  BY <1>1 DEF Initialize
<1>2. CASE ParseFails
  BY <1>2 DEF ParseFails, Startup, Platform, Library
<1>3. CASE RunAgain
  BY <1>3 DEF RunAgain
<1>4. CASE UNCHANGED start
  BY <1>4
<1>5. CASE MainDestroys \/ MainReturns \/ ShutdownTimer \/ HandlerCalled
           \/ TimeLimit \/ DisableByConfig
  BY <1>5, <1>4 DEF MainDestroys, MainReturns, ShutdownTimer, HandlerCalled,
     CallHandler, TimeLimit, DisableByConfig, appVars
<1>6. CASE SignalShutdown \/ Program \/ Peer \/ Io
  BY <1>6, <1>4 DEF SignalShutdown, Program, Open, Peer, Accept, Match, Request,
     Log, Io, ConnectEnds, IoEnds, Ends
<1>7. CASE LogWritten \/ Owner \/ Threads
  BY <1>7, <1>4 DEF LogWritten, Owner, OwnerCloses, Threads, DispatchThreadEnds,
     JobThreadEnds, ServiceThreadEnds
<1>8. UNCHANGED vars => UNCHANGED start
  BY DEF vars, appVars
<1> QED
  BY <1>1, <1>2, <1>3, <1>4, <1>5, <1>6, <1>7, <1>8 DEF Next, Main

\* Every step of the application is one of the shutdown or leaves it alone.
LEMMA AppStep ==
    StartOK /\ [Next \/ RunAgain]_vars => [ShutdownNext]_shutdownVars
<1> SUFFICES ASSUME StartOK, [Next \/ RunAgain]_vars
             PROVE  [ShutdownNext]_shutdownVars
  OBVIOUS
<1>1. CASE Initialize
  <2>1. Startup[start] \in Handler
    BY <1>1, StartupHandlers DEF Initialize, StartOK
  <2> QED
    BY <1>1, <2>1 DEF Initialize, ShutdownNext, MainStep
<1>2. CASE MainDestroys \/ MainReturns \/ RunAgain
  BY <1>2 DEF MainDestroys, MainReturns, RunAgain, ShutdownNext, MainStep
<1>3. CASE ShutdownTimer \/ TimeLimit \/ DisableByConfig
  BY <1>3 DEF ShutdownTimer, TimeLimit, DisableByConfig, ShutdownNext, LimitStep
<1>4. CASE HandlerCalled
  <2>1. PICK h \in AppHandler : CallHandler(h)
    BY <1>4 DEF HandlerCalled
  <2>2. h \in Handler
    BY HandlerAssumption
  <2> QED
    BY <2>1, <2>2 DEF CallHandler, ShutdownNext, CallStep
<1>5. CASE UNCHANGED shutdownVars
  BY <1>5
<1>6. CASE ParseFails \/ SignalShutdown \/ Program \/ Peer \/ Io
  BY <1>6, <1>5 DEF ParseFails, SignalShutdown, Program, Open, Peer, Accept,
     Match, Request, Log, Io, ConnectEnds, IoEnds, Ends
<1>7. CASE LogWritten \/ Owner \/ Threads
  BY <1>7, <1>5 DEF LogWritten, Owner, OwnerCloses, Threads, DispatchThreadEnds,
     JobThreadEnds, ServiceThreadEnds
<1>8. UNCHANGED vars => UNCHANGED shutdownVars
  BY DEF vars
<1> QED
  BY <1>1, <1>2, <1>3, <1>4, <1>5, <1>6, <1>7, <1>8 DEF Next, Main

\* The application, its handlers and all that they wait for, shut down as
\* module Shutdown says.
THEOREM AppImplementsShutdown == Spec => ShutdownSpec
<1>1. Init => ShutdownInit /\ StartOK
  BY DEF Init, StartOK
<1>2. Spec => []StartOK
  BY <1>1, StartStep, PTL DEF Spec
<1> QED
  BY <1>1, <1>2, AppStep, PTL DEF Spec, ShutdownSpec

\* So its passes are in order as well, and its phases complete.
THEOREM AppInvariance == Spec => []ShutdownIInv
  BY AppImplementsShutdown, ShutdownInvariance

THEOREM AppPhasesComplete == Spec => PhaseEndsComplete
  BY AppImplementsShutdown, PhasesComplete

-----------------------------------------------------------------------------
(* The resources outlive their use.                                        *)

\* Every resource is in a state of its own, and the rest has its type.
States ==
    [listener |-> {"none", "open", "closing"},
     inbound |-> {"none", "open", "closing", "unmatched", "dropping"},
     outbound |-> {"none", "connecting", "aborting", "open", "closing"},
     pipe |-> {"none", "open", "closing"}, child |-> {"none", "open"},
     dir |-> {"none", "open", "closing"}, request |-> {"none", "open"},
     window |-> {"none", "open", "closing"},
     log |-> {"none", "open", "writing", "closing"}]
AppTypeOK ==
    /\ DOMAIN use = Resource /\ use = [r \in Resource |-> use[r]]
    /\ \A r \in Resource : use[r] \in States[r]
    /\ runMode \in {"starting", "running", "stopping", "stopped"}
    /\ start \in 1 .. Len(Startup) + 1
    /\ iocp \in {"none", "open", "closed", "ended"}
    /\ port \in {"none", "open", "closed"} /\ service \in {"stopped", "running"}
    /\ winsock \in BOOLEAN /\ buffers \in BOOLEAN /\ onceClosed \in BOOLEAN

\* The handlers are registered in the order of Startup, all of them or, if the
\* command line is wrong, those of the platform.
RegisteredInOrder ==
    /\ Len(cleaners) <= Len(Startup)
    /\ \A i \in DOMAIN cleaners :
          cleaners[i].notify = Startup[Len(cleaners) + 1 - i]
    /\ mode = "done" => cleaners = <<>>
    /\ mode # "done" =>
          \/ Len(cleaners) = start - 1
          \/ Started /\ Len(cleaners) = Len(Platform) /\ runMode # "starting"
    /\ mode \in Phase /\ (pass > 0 \/ ~firstTry) => roll = Registered

\* The shutdown begins when the program has been told to stop, and has ended
\* when iShutdownDestroy returns.
StagesInOrder ==
    /\ mode # "main" => Started /\ main # "running"
    /\ main # "running" => runMode \in {"stopping", "stopped"} /\ start > Len(Platform)
    /\ main = "stopped" => mode = "done"
    /\ runMode = "running" => Len(cleaners) = Len(Startup)
    /\ mode = "main" /\ ~(Len(cleaners) < 11) => winsock

\* Nothing is in use before its library has been initialized.
NothingTooEarly ==
    /\ Len(cleaners) < 16 =>
          /\ use["listener"] = "none" /\ use["inbound"] = "none"
          /\ use["outbound"] = "none" /\ use["pipe"] = "none"
          /\ use["child"] = "none" /\ use["request"] = "none"
          /\ use["window"] = "none"
          /\ ~buffers /\ port = "none"
    /\ Len(cleaners) < 11 => ~winsock
    /\ Len(cleaners) < 8 => use["log"] = "none"
    /\ Len(cleaners) < 7 => use["dir"] = "none"
    /\ Len(cleaners) < 4 => service = "stopped"

\* The client and the server phase end the listener, the matched sockets and
\* the child.
ClientDone == /\ use["listener"] \in {"none", "closing"}
              /\ use["inbound"] \in {"none", "unmatched", "dropping"}
PhasesSettle ==
    /\ mode = "client" /\ "sockmgr" \in tried => use["listener"] # "open"
    /\ (mode = "client" /\ "sockmgr" \in completed)
          \/ mode \in {"server", "console", "finalize", "done"} => ClientDone
    /\ (mode = "server" /\ "exec" \in completed)
          \/ mode \in {"console", "finalize", "done"} => use["child"] = "none"

NoSockets ==
    use["listener"] = "none" /\ use["inbound"] = "none" /\ use["outbound"] = "none"

\* What a handler that has completed the console phase leaves behind.
Settled(h) ==
    /\ h = "httproute" => use["request"] = "none"
    /\ h = "appsocket" => use["inbound"] = "none"
    /\ h = "connect" => use["outbound"] \notin {"connecting", "aborting"}
    /\ h = "accept" => use["listener"] = "none"
    /\ h = "socket" => NoSockets /\ ~winsock
    /\ h = "sockbuf" => NoSockets /\ ~buffers
    /\ h = "pipe" => use["pipe"] = "none"
    /\ h = "logfile" => use["log"] = "none"
    /\ h = "filemon" => use["dir"] = "none"
    /\ h = "gui" => use["window"] = "none"
    /\ h = "service" => service = "stopped"
    /\ h = "exec" => port = "none"
    /\ h = "iocp" => iocp = "ended"

Clean ==
    /\ NoSockets /\ use["pipe"] = "none" /\ use["child"] = "none"
    /\ use["dir"] = "none" /\ use["request"] = "none" /\ use["window"] = "none"
    /\ use["log"] = "none"
    /\ iocp = "ended" /\ port = "none" /\ ~buffers /\ ~winsock
    /\ service = "stopped"

\* The console phase ends the rest; the completion port goes in it at last.
ConsoleSettles ==
    /\ mode = "console" => \A h \in completed : Settled(h)
    /\ mode \in {"finalize", "done"} => Clean
    /\ iocp \in {"closed", "ended"} =>
          /\ mode \in {"console", "finalize", "done"}
          /\ NoSockets /\ use["pipe"] = "none" /\ use["dir"] = "none"

\* What stands on the socket layer.
LayerStands ==
    /\ ~NoSockets => winsock
    /\ use["inbound"] # "none" \/ use["outbound"] \in {"open", "closing"}
        => buffers

AppIInv ==
    /\ AppTypeOK /\ RegisteredInOrder /\ StagesInOrder /\ NothingTooEarly
    /\ PhasesSettle /\ ConsoleSettles /\ LayerStands


-----------------------------------------------------------------------------
(* Operators.                                                              *)

LEMMA StartupIs ==
    /\ Len(Platform) = 6 /\ Len(Startup) = 16 /\ DOMAIN Startup = 1 .. 16
    /\ Startup[1] = "crash" /\ Startup[2] = "iocp" /\ Startup[3] = "exec"
    /\ Startup[4] = "service" /\ Startup[5] = "gui" /\ Startup[6] = "filemon"
    /\ Startup[7] = "config" /\ Startup[8] = "logfile" /\ Startup[9] = "pipe"
    /\ Startup[10] = "sockbuf" /\ Startup[11] = "socket" /\ Startup[12] = "accept"
    /\ Startup[13] = "connect" /\ Startup[14] = "appsocket"
    /\ Startup[15] = "sockmgr" /\ Startup[16] = "httproute"
<1> DEFINE P == {Platform[i] : i \in 1 .. 6}
           L == {Library[i] : i \in 1 .. 10}
<1>1. /\ Platform \in Seq(P) /\ Len(Platform) = 6
      /\ Platform[1] = "crash" /\ Platform[2] = "iocp" /\ Platform[3] = "exec"
      /\ Platform[4] = "service" /\ Platform[5] = "gui" /\ Platform[6] = "filemon"
  <2>1. Platform \in Seq(P)
    BY DEF Platform
  <2>2. Len(Platform) = 6
    BY DEF Platform
  <2>3. Platform[1] = "crash" /\ Platform[2] = "iocp" /\ Platform[3] = "exec"
    BY DEF Platform
  <2>4. Platform[4] = "service" /\ Platform[5] = "gui" /\ Platform[6] = "filemon"
    BY DEF Platform
  <2> QED
    BY <2>1, <2>2, <2>3, <2>4
<1>2. /\ Library \in Seq(L) /\ Len(Library) = 10
      /\ Library[1] = "config" /\ Library[2] = "logfile" /\ Library[3] = "pipe"
      /\ Library[4] = "sockbuf" /\ Library[5] = "socket" /\ Library[6] = "accept"
      /\ Library[7] = "connect" /\ Library[8] = "appsocket"
      /\ Library[9] = "sockmgr" /\ Library[10] = "httproute"
  <2>1. Library \in Seq(L)
    BY DEF Library
  <2>2. Len(Library) = 10
    BY DEF Library
  <2> QED
    BY <2>1, <2>2 DEF Library
<1>3. /\ Len(Startup) = 16 /\ DOMAIN Startup = 1 .. 16
      /\ \A i \in 1 .. 6 : Startup[i] = Platform[i]
      /\ \A i \in 7 .. 16 : Startup[i] = Library[i - 6]
  <2>1. Platform \in Seq(P \cup L) /\ Library \in Seq(P \cup L)
    BY <1>1, <1>2, SeqMonotonic
  <2> HIDE DEF P, L
  <2>2. Startup = Platform \o Library
    BY DEF Startup
  <2>3. /\ Startup \in Seq(P \cup L)
        /\ Len(Startup) = Len(Platform) + Len(Library)
        /\ \A i \in 1 .. Len(Platform) + Len(Library) :
              Startup[i] = IF i <= Len(Platform) THEN Platform[i]
                           ELSE Library[i - Len(Platform)]
    BY <2>1, <2>2, ConcatProperties
  <2> HIDE <2>1, <2>2
  <2>4. Len(Startup) = 16 /\ DOMAIN Startup = 1 .. 16
    BY <1>1, <1>2, <2>3
  <2>5. \A i \in 1 .. 6 : Startup[i] = Platform[i]
    BY <1>1, <1>2, <2>3
  <2>6. \A i \in 7 .. 16 : Startup[i] = Library[i - 6]
    BY <1>1, <1>2, <2>3
  <2> QED
    BY <2>4, <2>5, <2>6
<1> QED
  BY <1>1, <1>2, <1>3

\* A handler has one place in Startup.
LEMMA StartupInjective ==
    \A i, k \in 1 .. 16 : Startup[i] = Startup[k] => i = k
<1> HIDE DEF Startup
<1> QED
  BY StartupIs

LEMMA StatesAre ==
    /\ States["listener"] = {"none", "open", "closing"}
    /\ States["inbound"] = {"none", "open", "closing", "unmatched", "dropping"}
    /\ States["outbound"] = {"none", "connecting", "aborting", "open", "closing"}
    /\ States["pipe"] = {"none", "open", "closing"}
    /\ States["child"] = {"none", "open"}
    /\ States["dir"] = {"none", "open", "closing"}
    /\ States["request"] = {"none", "open"}
    /\ States["window"] = {"none", "open", "closing"}
    /\ States["log"] = {"none", "open", "writing", "closing"}
  BY DEF States

\* There are no sockets when they number none.
LEMMA NoSocketsCounted == NumSockets(use) = 0 <=> NoSockets
<1> DEFINE S == {r \in {"listener", "inbound", "outbound"} : use[r] # "none"}
           T == {"listener", "inbound", "outbound"}
<1>1. IsFiniteSet(S)
  <2>1. IsFiniteSet({})
    BY FS_EmptySet
  <2>2. IsFiniteSet({"listener"})
    BY <2>1, FS_AddElement
  <2>3. IsFiniteSet({"listener", "inbound"})
    <3>1. {"listener", "inbound"} = {"listener"} \cup {"inbound"}
      OBVIOUS
    <3> QED
      BY <2>2, <3>1, FS_AddElement
  <2>4. IsFiniteSet(T)
    <3>1. T = {"listener", "inbound"} \cup {"outbound"}
      OBVIOUS
    <3> QED
      BY <2>3, <3>1, FS_AddElement
  <2>5. S \subseteq T
    OBVIOUS
  <2> QED
    BY <2>4, <2>5, FS_Subset
<1>2. Cardinality(S) = 0 <=> S = {}
  BY <1>1, FS_EmptySet
<1>3. S = {} <=> NoSockets
  BY DEF NoSockets
<1> QED
  BY <1>2, <1>3 DEF NumSockets

\* The properties of the run follow.
LEMMA AppIInvSuffices == AppIInv => LayersOutliveUse /\ StoppedIsClean
<1> SUFFICES ASSUME AppIInv PROVE LayersOutliveUse /\ StoppedIsClean
  OBVIOUS
<1>1. DispatchOutlivesIo
  BY DEF AppIInv, ConsoleSettles, DispatchOutlivesIo, NoSockets
<1>2. SocketsHaveTheirLayer
  BY NoSocketsCounted DEF AppIInv, LayerStands, SocketsHaveTheirLayer
<1>3. StoppedIsClean
  <2>1. SUFFICES ASSUME main = "stopped" PROVE StoppedIsClean
    BY DEF StoppedIsClean
  <2>2. mode = "done"
    BY <2>1 DEF AppIInv, StagesInOrder
  <2>3. Clean /\ cleaners = <<>>
    BY <2>2 DEF AppIInv, ConsoleSettles, RegisteredInOrder
  <2>4. use = Idle
    <3>1. \A r \in Resource : use[r] = "none"
      BY <2>3 DEF Clean, NoSockets, Resource
    <3>2. use = [r \in Resource |-> use[r]]
      BY DEF AppIInv, AppTypeOK
    <3> QED
      BY <3>1, <3>2 DEF Idle
  <2> QED
    BY <2>3, <2>4 DEF StoppedIsClean, Clean
<1> QED
  BY <1>1, <1>2, <1>3 DEF LayersOutliveUse

LEMMA AppIInvInit == Init => AppIInv
<1> SUFFICES ASSUME Init PROVE AppIInv
  OBVIOUS
<1>1. cleaners = <<>> /\ Len(cleaners) = 0 /\ DOMAIN cleaners = {}
      /\ mode = "main" /\ main = "running" /\ tried = {} /\ completed = {}
      /\ runMode = "starting" /\ start = 1
  BY DEF Init, ShutdownInit
<1>2. use = Idle /\ \A r \in Resource : use[r] = "none"
  BY DEF Init, Idle
<1>3. AppTypeOK
  <2>1. \A r \in Resource : "none" \in States[r]
    BY StatesAre DEF Resource
  <2>2. use = [r \in Resource |-> use[r]] /\ DOMAIN use = Resource
    BY <1>2 DEF Idle
  <2>3. start \in 1 .. Len(Startup) + 1
    BY <1>1, StartupIs
  <2> QED
    BY <1>1, <1>2, <2>1, <2>2, <2>3 DEF AppTypeOK, Init
<1>4. RegisteredInOrder /\ StagesInOrder
  BY <1>1, StartupIs DEF RegisteredInOrder, StagesInOrder, Phase
<1>5. NothingTooEarly /\ PhasesSettle /\ ConsoleSettles /\ LayerStands
  BY <1>1, <1>2 DEF Init, NothingTooEarly, PhasesSettle, ConsoleSettles, LayerStands,
     NoSockets, Resource
<1> QED
  BY <1>3, <1>4, <1>5 DEF AppIInv

-----------------------------------------------------------------------------
(* The handlers that are registered.                                       *)

LEMMA Knows ==
    ASSUME Core, RegisteredInOrder, mode # "done"
    PROVE  /\ Len(cleaners) <= 16 /\ cleaners \in Seq(Cleaner)
           /\ \A k \in 1 .. Len(cleaners) : Startup[k] \in Registered
           /\ \A h \in Registered : \E k \in 1 .. Len(cleaners) : h = Startup[k]
<1>1. cleaners \in Seq(Cleaner) /\ Len(cleaners) \in Nat
      /\ DOMAIN cleaners = 1 .. Len(cleaners)
  BY DEF Core, ShutdownTypeOK
<1>2. Len(cleaners) <= 16
  <2>1. Len(Startup) = 16 /\ Len(cleaners) \in Nat
    BY <1>1, StartupIs
  <2>2. Len(cleaners) <= 16
    BY <2>1 DEF RegisteredInOrder
  <2> QED
    BY <2>2
<1>3. ASSUME NEW k \in 1 .. Len(cleaners) PROVE Startup[k] \in Registered
  <2>1. Len(cleaners) + 1 - k \in DOMAIN cleaners
        /\ Len(cleaners) + 1 - (Len(cleaners) + 1 - k) = k
    BY <1>1
  <2> QED
    BY <2>1 DEF RegisteredInOrder, Registered
<1>4. ASSUME NEW h \in Registered
      PROVE  \E k \in 1 .. Len(cleaners) : h = Startup[k]
  <2>1. PICK i \in DOMAIN cleaners : h = cleaners[i].notify
    BY DEF Registered
  <2>2. Len(cleaners) + 1 - i \in 1 .. Len(cleaners)
    BY <1>1
  <2> QED
    BY <2>1, <2>2 DEF RegisteredInOrder
<1> QED
  BY <1>1, <1>2, <1>3, <1>4

\* In the shutdown they are all there, or those of the platform.
LEMMA ShutdownKnows ==
    ASSUME Core, RegisteredInOrder, StagesInOrder, start \in 1 .. Len(Startup) + 1,
           mode \notin {"main", "done"}
    PROVE  /\ Len(cleaners) \in {6, 16}
           /\ Started /\ main # "running" /\ runMode # "running"
<1>1. Started /\ main # "running" /\ runMode # "running"
  BY DEF StagesInOrder
<1>2. start = 17
  BY <1>1, StartupIs DEF Started
<1> QED
  BY <1>1, <1>2, StartupIs DEF RegisteredInOrder

\* The place of a handler that is called, and the newer ones on a retry.
LEMMA CallPlace ==
    ASSUME Core, RegisteredInOrder, NEW h, Calls(h)
    PROVE  /\ mode \in Phase
           /\ \E i \in 1 .. Len(cleaners) :
                 /\ h = Startup[i]
                 /\ ~firstTry => \A k \in i + 1 .. Len(cleaners) : Startup[k] \in completed
<1>1. pass \in DOMAIN cleaners /\ cleaners[pass].notify = h
  BY DEF Calls, InLoop
<1>2. cleaners \in Seq(Cleaner) /\ Len(cleaners) \in Nat /\ pass \in 1 .. Len(cleaners)
      /\ mode \in Phase
  BY <1>1 DEF Core, ShutdownTypeOK
<1> DEFINE i == Len(cleaners) + 1 - pass
<1>3. i \in 1 .. Len(cleaners) /\ h = Startup[i]
  BY <1>1, <1>2 DEF RegisteredInOrder
<1>4. ASSUME ~firstTry, NEW k \in i + 1 .. Len(cleaners)
      PROVE  Startup[k] \in completed
  <2> DEFINE j == Len(cleaners) + 1 - k
  <2>1. j \in DOMAIN cleaners /\ j < pass /\ Len(cleaners) + 1 - j = k
    BY <1>2
  <2>2. cleaners[j].notify \in completed
    BY <1>2, <1>4, <2>1 DEF Core, RetryInOrder
  <2>3. cleaners[j].notify = Startup[k]
    BY <2>1 DEF RegisteredInOrder
  <2> QED
    BY <2>2, <2>3
<1> QED
  BY <1>2, <1>3, <1>4

-----------------------------------------------------------------------------
(* Steps of the resources.                                                 *)

LEMMA Becomes ==
    ASSUME AppTypeOK, NEW r \in Resource, NEW s, Become(r, s)
    PROVE  /\ DOMAIN use' = Resource /\ use' = [q \in Resource |-> use'[q]]
           /\ use'[r] = s
           /\ \A q \in Resource : q # r => use'[q] = use[q]
           /\ s \in States[r] => \A q \in Resource : use'[q] \in States[q]
  BY DEF AppTypeOK, Become

\* What the shutdown knows of itself they leave alone.
LEMMA FrameStages ==
    ASSUME AppIInv, UNCHANGED <<shutdownVars, runMode, start, winsock>>
    PROVE  RegisteredInOrder' /\ StagesInOrder'
  BY DEF AppIInv, RegisteredInOrder, StagesInOrder, shutdownVars, passVars, mainVars,
     history, Registered, Started



LEMMA OpenKeeps ==
    ASSUME AppIInv, Core, NEW r \in Use \cap DOMAIN OpensAs, Open(r) PROVE AppIInv'
<1>1. UNCHANGED <<shutdownVars, runMode, start, iocp, onceClosed, service, winsock, buffers>>
      /\ runMode = "running" /\ use[r] = "none"
      /\ port' = (IF r = "child" /\ port # "open" THEN "open" ELSE port)
  BY DEF Open
<1>2. /\ r \in {"listener", "outbound", "pipe", "child", "window"} /\ r \in Resource
      /\ OpensAs["outbound"] = "connecting" /\ (r # "outbound" => OpensAs[r] = "open")
      /\ OpensAs[r] \in States[r]
  BY StatesAre DEF OpensAs, Resource
<1>3. Become(r, OpensAs[r])
  BY DEF Open
<1>4. /\ DOMAIN use' = Resource /\ use' = [q \in Resource |-> use'[q]]
      /\ use'[r] = OpensAs[r]
      /\ \A q \in Resource : q # r => use'[q] = use[q]
      /\ \A q \in Resource : use'[q] \in States[q]
  BY <1>2, <1>3, Becomes DEF AppIInv
<1>5. RegisteredInOrder' /\ StagesInOrder'
  BY <1>1, FrameStages
<1>6. Len(cleaners) = 16 /\ winsock /\ mode = "main" /\ UNCHANGED <<mode, cleaners>>
  <2>1. mode = "main" /\ Len(cleaners) = 16
    BY <1>1, StartupIs DEF AppIInv, StagesInOrder
  <2> QED
    BY <1>1, <2>1 DEF AppIInv, StagesInOrder, shutdownVars
<1>7. AppTypeOK'
  BY <1>1, <1>4 DEF AppIInv, AppTypeOK
<1>8. NothingTooEarly' /\ PhasesSettle' /\ ConsoleSettles'
  <2>1. NothingTooEarly'
    <3>1. Len(cleaners') = 16
      BY <1>6
    <3> QED
      BY <3>1 DEF NothingTooEarly
  <2>2. PhasesSettle'
    BY <1>6 DEF PhasesSettle
  <2>3. ConsoleSettles'
    BY <1>1, <1>6 DEF AppIInv, ConsoleSettles
  <2> QED
    BY <2>1, <2>2, <2>3
<1>9. LayerStands'
  BY <1>1, <1>2, <1>4, <1>6 DEF AppIInv, LayerStands, Resource
<1> QED
  BY <1>5, <1>7, <1>8, <1>9 DEF AppIInv

LEMMA AcceptKeeps ==
    ASSUME AppIInv, Core, Accept PROVE AppIInv'
<1>1. UNCHANGED <<shutdownVars, runMode, start, iocp, onceClosed, port, service, winsock>>
      /\ use["listener"] = "open" /\ iocp = "open" /\ buffers' = TRUE
  BY DEF Accept
<1>2. PICK s \in {"open", "unmatched"} : Become("inbound", s)
  BY DEF Accept
<1>3. "inbound" \in Resource /\ s \in States["inbound"]
  BY StatesAre DEF Resource
<1>4. /\ DOMAIN use' = Resource /\ use' = [q \in Resource |-> use'[q]]
      /\ \A q \in Resource : q # "inbound" => use'[q] = use[q]
      /\ \A q \in Resource : use'[q] \in States[q]
  BY <1>2, <1>3, Becomes DEF AppIInv
<1>5. RegisteredInOrder' /\ StagesInOrder'
  BY <1>1, FrameStages
<1>6. /\ UNCHANGED <<mode, cleaners, tried, completed>> /\ Len(cleaners) >= 16 
      /\ mode \notin {"server", "console", "finalize", "done"}
      /\ ~(mode = "client" /\ "sockmgr" \in completed) /\ winsock
  BY <1>1 DEF AppIInv, NothingTooEarly, PhasesSettle, ClientDone, LayerStands,
     NoSockets, shutdownVars, history
<1>7. AppTypeOK'
  BY <1>1, <1>4 DEF AppIInv, AppTypeOK
<1>8. NothingTooEarly' /\ LayerStands'
  BY <1>1, <1>4, <1>6 DEF AppIInv, NothingTooEarly, LayerStands, Resource
<1>9. PhasesSettle' /\ ConsoleSettles'
  BY <1>1, <1>4, <1>6 DEF AppIInv, PhasesSettle, ConsoleSettles, Resource
<1> QED
  BY <1>5, <1>7, <1>8, <1>9 DEF AppIInv

\* What they leave alone, but for buffers.
Rest == <<shutdownVars, runMode, start, iocp, onceClosed, port, service, winsock>>

\* A resource that is let go of, at once or by and by.
LEMMA Releases ==
    ASSUME AppIInv, NEW r \in Resource, NEW s \in States[r], Become(r, s),
           UNCHANGED Rest, UNCHANGED buffers, use[r] # "none",
           \/ s = "none"
           \/ s = "closing" /\ use[r] = "open"
           \/ s = "dropping" /\ use[r] = "unmatched"
    PROVE  AppIInv'
<1>1. /\ DOMAIN use' = Resource /\ use' = [q \in Resource |-> use'[q]]
      /\ \A q \in Resource : use'[q] \in States[q]
      /\ use'[r] = s /\ \A q \in Resource : q # r => use'[q] = use[q]
  BY Becomes DEF AppIInv
<1>2. UNCHANGED <<shutdownVars, runMode, start, iocp, onceClosed, port, service, winsock,
                  buffers, mode, cleaners, tried, completed>>
  BY DEF Rest, shutdownVars, history
<1>3. RegisteredInOrder' /\ StagesInOrder'
  BY <1>2, FrameStages
<1>4. AppTypeOK'
  BY <1>1, <1>2 DEF AppIInv, AppTypeOK
<1>5. \A q \in Resource : use[q] = "none" => use'[q] = "none"
  BY <1>1
<1>6. /\ use'["outbound"] \in {"connecting", "aborting"} => use'["outbound"] = use["outbound"]
      /\ use'["outbound"] \in {"open", "closing"} => use["outbound"] \in {"open", "closing"}
      /\ use'["listener"] = "open" => use["listener"] = "open"
      /\ use'["listener"] # "none" => use["listener"] # "none"
      /\ ClientDone => ClientDone'
  BY <1>1 DEF ClientDone, Resource
<1>7. (NoSockets => NoSockets') /\ (Clean => Clean')
  BY <1>2, <1>5 DEF NoSockets, Clean, Resource
<1>8. NothingTooEarly'
  BY <1>2, <1>5 DEF AppIInv, NothingTooEarly, Resource
<1>9. PhasesSettle'
  BY <1>2, <1>5, <1>6 DEF AppIInv, PhasesSettle, Resource
<1>10. ConsoleSettles'
  <2>1. \A h : Settled(h) => Settled(h)'
    BY <1>2, <1>5, <1>6, <1>7 DEF Settled, Resource
  <2> QED
    BY <1>2, <1>5, <1>7, <2>1 DEF AppIInv, ConsoleSettles, Resource
<1>11. LayerStands'
  BY <1>2, <1>5, <1>6, <1>7 DEF AppIInv, LayerStands, Resource
<1> QED
  BY <1>3, <1>4, <1>8, <1>9, <1>10, <1>11 DEF AppIInv

\* One that is taken up again, which is not the listener, before its phase is over.
LEMMA Resumes ==
    ASSUME AppIInv, NEW r \in {"inbound", "outbound", "request"}, NEW s \in States[r],
           Become(r, s), UNCHANGED Rest, buffers' \in {buffers, TRUE},
           use["inbound"] # "none" \/ use["outbound"] \notin {"none", "open", "closing"},
           r = "inbound" => use["inbound"] # "none" /\ use["listener"] = "open",
           r = "outbound" => use["outbound"] \in {"connecting", "aborting"} /\ s = "open"
                             /\ buffers',
           r = "request" => use["inbound"] = "open"
    PROVE  AppIInv'
<1>1. r \in Resource
  BY DEF Resource
<1>2. /\ DOMAIN use' = Resource /\ use' = [q \in Resource |-> use'[q]]
      /\ \A q \in Resource : use'[q] \in States[q]
      /\ use'[r] = s /\ \A q \in Resource : q # r => use'[q] = use[q]
  BY <1>1, Becomes DEF AppIInv
<1>3. UNCHANGED <<shutdownVars, runMode, start, iocp, onceClosed, port, service, winsock,
                  mode, cleaners, tried, completed>>
  BY DEF Rest, shutdownVars, history
<1>4. RegisteredInOrder' /\ StagesInOrder'
  BY <1>3, FrameStages
<1>5. AppTypeOK'
  BY <1>2, <1>3 DEF AppIInv, AppTypeOK
<1>6. ~NoSockets /\ ~(Len(cleaners) < 16) /\ iocp \notin {"closed", "ended"} /\ winsock
  BY DEF AppIInv, NothingTooEarly, ConsoleSettles, LayerStands, NoSockets
<1>7. NothingTooEarly'
  BY <1>2, <1>3, <1>6 DEF AppIInv, NothingTooEarly, Resource
<1>8. PhasesSettle'
  BY <1>2, <1>3, <1>6 DEF AppIInv, PhasesSettle, ClientDone, Resource
<1>9. ConsoleSettles'
  <2>1. mode \notin {"finalize", "done"}
    BY <1>6 DEF AppIInv, ConsoleSettles, Clean
  <2>2. CASE r = "outbound"
    <3>1. \A h : Settled(h) => Settled(h)'
      BY <1>2, <1>3, <1>6, <2>2 DEF Settled, NoSockets, Resource
    <3> QED
      BY <1>3, <1>6, <2>1, <3>1 DEF AppIInv, ConsoleSettles
  <2>3. CASE r # "outbound"
    <3>1. mode # "console"
      BY <2>3 DEF AppIInv, PhasesSettle, ClientDone
    <3> QED
      BY <1>3, <1>6, <2>1, <3>1 DEF AppIInv, ConsoleSettles
  <2> QED
    BY <2>2, <2>3
<1>10. LayerStands'
  BY <1>2, <1>3, <1>6 DEF AppIInv, LayerStands, Resource
<1> QED
  BY <1>4, <1>5, <1>7, <1>8, <1>9, <1>10 DEF AppIInv

\* The file of the log, while the handler of the log has not completed.
LEMMA LogMoves ==
    ASSUME AppIInv, NEW s \in States["log"], Become("log", s),
           UNCHANGED Rest, UNCHANGED buffers,
           \/ use["log"] # "none"
           \/ ~(Len(cleaners) < 8) /\ mode \notin {"console", "finalize", "done"}
    PROVE  AppIInv'
<1>1. "log" \in Resource
  BY DEF Resource
<1>2. /\ DOMAIN use' = Resource /\ use' = [q \in Resource |-> use'[q]]
      /\ \A q \in Resource : use'[q] \in States[q]
      /\ \A q \in Resource : q # "log" => use'[q] = use[q]
  BY <1>1, Becomes DEF AppIInv
<1>3. UNCHANGED <<shutdownVars, runMode, start, iocp, onceClosed, port, service, winsock,
                  buffers, mode, cleaners, tried, completed>>
  BY DEF Rest, shutdownVars, history
<1>4. RegisteredInOrder' /\ StagesInOrder'
  BY <1>3, FrameStages
<1>5. AppTypeOK'
  BY <1>2, <1>3 DEF AppIInv, AppTypeOK
<1>6. /\ ~(Len(cleaners) < 8) /\ mode \notin {"finalize", "done"}
      /\ mode = "console" => \A h \in completed : h # "logfile"
  BY DEF AppIInv, NothingTooEarly, ConsoleSettles, Clean, Settled
<1>7. NothingTooEarly'
  BY <1>2, <1>3, <1>6 DEF AppIInv, NothingTooEarly, Resource
<1>8. PhasesSettle' /\ LayerStands'
  BY <1>2, <1>3 DEF AppIInv, PhasesSettle, ClientDone, LayerStands, NoSockets, Resource
<1>9. ConsoleSettles'
  <2>1. \A h : h # "logfile" /\ Settled(h) => Settled(h)'
    BY <1>2, <1>3 DEF Settled, NoSockets, Resource
  <2>2. NoSockets => NoSockets'
    BY <1>2 DEF NoSockets, Resource
  <2>3. (\A h \in completed : Settled(h)) /\ (\A h \in completed : h # "logfile")
          => (\A h \in completed : Settled(h)')
    BY <2>1
  <2> QED
    BY <1>2, <1>3, <1>6, <2>2, <2>3 DEF AppIInv, ConsoleSettles, Resource
<1> QED
  BY <1>4, <1>5, <1>7, <1>8, <1>9 DEF AppIInv

\* The threads find their port closed, or the service ended.
LEMMA ThreadsKeep ==
    ASSUME AppIInv, Threads PROVE AppIInv'
<1>1. /\ UNCHANGED <<shutdownVars, runMode, start, use, onceClosed, winsock, buffers,
                     mode, cleaners, tried, completed>>
      /\ \/ iocp = "closed" /\ iocp' = "ended" /\ UNCHANGED <<port, service>>
         \/ port = "closed" /\ port' = "none" /\ UNCHANGED <<iocp, service>>
         \/ service = "running" /\ service' = "stopped" /\ UNCHANGED <<iocp, port>>
  BY DEF Threads, DispatchThreadEnds, JobThreadEnds, ServiceThreadEnds,
     shutdownVars, history
<1>2. RegisteredInOrder' /\ StagesInOrder'
  BY <1>1, FrameStages
<1>3. AppTypeOK'
  BY <1>1 DEF AppIInv, AppTypeOK
<1>4. NothingTooEarly'
  BY <1>1 DEF AppIInv, NothingTooEarly
<1>5. PhasesSettle' /\ LayerStands'
  BY <1>1 DEF AppIInv, PhasesSettle, ClientDone, LayerStands, NoSockets
<1>6. ConsoleSettles'
  <2>1. \A h : Settled(h) => Settled(h)'
    BY <1>1 DEF Settled, NoSockets
  <2> QED
    BY <1>1, <2>1 DEF AppIInv, ConsoleSettles, Clean, NoSockets
<1> QED
  BY <1>2, <1>3, <1>4, <1>5, <1>6 DEF AppIInv

\* The actions.
LEMMA ProgramPeerKeep ==
    ASSUME AppIInv, Core, Program \/ Peer PROVE AppIInv'
<1>1. CASE Program
  BY <1>1, OpenKeeps DEF Program
<1>2. CASE Accept
  BY <1>2, AcceptKeeps
<1>3. CASE Match
  <2>1. use["inbound"] = "unmatched" /\ UNCHANGED Rest /\ UNCHANGED buffers
    BY <1>3 DEF Match, Rest, platformVars
  <2>2. CASE use["listener"] = "open"
    <3>1. Become("inbound", "open") /\ "open" \in States["inbound"]
      BY <1>3, <2>2, StatesAre DEF Match
    <3> QED
      BY <2>1, <2>2, <3>1, Resumes
  <2>3. CASE use["listener"] # "open"
    <3>1. Become("inbound", "dropping") /\ "dropping" \in States["inbound"]
          /\ "inbound" \in Resource
      BY <1>3, <2>3, StatesAre DEF Match, Resource
    <3> QED
      BY <2>1, <3>1, Releases
  <2> QED
    BY <2>2, <2>3
<1>4. CASE Request
  <2>1. Become("request", "open") /\ "open" \in States["request"]
        /\ UNCHANGED Rest /\ UNCHANGED buffers /\ use["inbound"] = "open"
    BY <1>4, StatesAre DEF Request, Rest, platformVars
  <2> QED
    BY <2>1, Resumes
<1>5. CASE Log
  <2>1. /\ Become("log", Logged) /\ UNCHANGED Rest /\ UNCHANGED buffers
        /\ mode \notin {"console", "finalize", "done"} /\ "logfile" \in Registered
    BY <1>5 DEF Log, Rest, platformVars
  <2>2. Logged \in States["log"]
    <3>1. use["log"] \in States["log"]
      BY DEF AppIInv, AppTypeOK, Resource
    <3> QED
      BY <3>1, StatesAre DEF Logged
  <2>3. ~(Len(cleaners) < 8)
    <3>1. PICK k \in 1 .. Len(cleaners) : Startup[k] = "logfile"
      BY <2>1, Knows DEF AppIInv
    <3>2. k \in 1 .. 16
      BY Knows, <2>1 DEF AppIInv
    <3>3. Startup[8] = "logfile"
      BY StartupIs
    <3>4. k = 8
      BY <3>1, <3>2, <3>3, StartupInjective
    <3> QED
      BY <3>4
  <2> QED
    BY <2>1, <2>2, <2>3, LogMoves
<1> QED
  BY <1>1, <1>2, <1>3, <1>4, <1>5 DEF Peer

LEMMA IoOwnerKeep ==
    ASSUME AppIInv, Core, Io \/ Owner \/ LogWritten PROVE AppIInv'
<1>1. \A r \in Resource : "none" \in States[r]
  BY StatesAre DEF Resource
<1>2. CASE ConnectEnds
  <2>1. UNCHANGED Rest /\ "outbound" \in Resource
        /\ use["outbound"] \in {"connecting", "aborting"}
        /\ \/ Become("outbound", "open") /\ buffers' = TRUE
           \/ Become("outbound", "none") /\ UNCHANGED buffers
    BY <1>2 DEF ConnectEnds, Rest, Resource
  <2>2. CASE Become("outbound", "open") /\ buffers' = TRUE
    <3>1. "open" \in States["outbound"]
      BY StatesAre
    <3> QED
      BY <2>1, <2>2, <3>1, Resumes
  <2>3. CASE Become("outbound", "none") /\ UNCHANGED buffers
    BY <1>1, <2>1, <2>3, Releases
  <2> QED
    BY <2>1, <2>2, <2>3
<1>3. CASE \E r \in Use : IoEnds(r) \/ Ends(r)
  <2>1. PICK r \in Use : IoEnds(r) \/ Ends(r)
    BY <1>3
  <2>2. Become(r, "none") /\ r \in Resource /\ use[r] # "none"
        /\ UNCHANGED Rest /\ UNCHANGED buffers
    BY <2>1, AppAssumption DEF IoEnds, Ends, Rest, platformVars
  <2> QED
    BY <1>1, <2>2, Releases
<1>4. CASE Owner
  <2>1. PICK r \in Use : OwnerCloses(r)
    BY <1>4 DEF Owner
  <2>2. /\ r \in {"inbound", "outbound", "pipe"} /\ r \in Resource
        /\ use[r] \in {"open", "unmatched"} /\ Become(r, Closing[use[r]])
        /\ Closing["open"] = "closing" /\ Closing["unmatched"] = "dropping"
        /\ UNCHANGED Rest /\ UNCHANGED buffers
    BY <2>1 DEF OwnerCloses, Closing, Resource, Rest, platformVars
  <2>3. use[r] \in States[r]
    BY <2>2 DEF AppIInv, AppTypeOK
  <2>4. Closing[use[r]] \in States[r]
    BY <2>2, <2>3, StatesAre
  <2> QED
    BY <2>2, <2>4, Releases
<1>5. CASE LogWritten
  <2>1. /\ UNCHANGED Rest /\ UNCHANGED buffers /\ "log" \in Resource
        /\ use["log"] \in {"writing", "closing"}
        /\ Become("log", IF use["log"] = "closing" THEN "none" ELSE "open")
    BY <1>5 DEF LogWritten, Rest, platformVars, Resource
  <2>2. (IF use["log"] = "closing" THEN "none" ELSE "open") \in States["log"]
    BY StatesAre
  <2> QED
    BY <2>1, <2>2, LogMoves
<1> QED
  BY <1>2, <1>3, <1>4, <1>5 DEF Io

-----------------------------------------------------------------------------
(* Steps of the shutdown.                                                  *)

\* What only looks at the resources and at the mode stays as it is.
LEMMA SameUse ==
    ASSUME AppIInv, UNCHANGED <<use, platformVars, mode, tried, completed>>,
           start' \in 1 .. Len(Startup) + 1,
           runMode' \in {"starting", "running", "stopping", "stopped"},
           Len(cleaners') = Len(cleaners)
    PROVE  AppTypeOK' /\ NothingTooEarly' /\ PhasesSettle' /\ ConsoleSettles'
           /\ LayerStands'
<1>1. UNCHANGED <<use, iocp, onceClosed, port, service, winsock, buffers>>
  BY DEF platformVars
<1>2. AppTypeOK'
  BY <1>1 DEF AppIInv, AppTypeOK
<1>3. NothingTooEarly'
  BY <1>1 DEF AppIInv, NothingTooEarly
<1>4. PhasesSettle' /\ LayerStands'
  BY <1>1 DEF AppIInv, PhasesSettle, ClientDone, LayerStands, NoSockets
<1>5. ConsoleSettles'
  <2>1. \A h : Settled(h) => Settled(h)'
    BY <1>1 DEF Settled, NoSockets
  <2> QED
    BY <1>1, <2>1 DEF AppIInv, ConsoleSettles, Clean, NoSockets
<1> QED
  BY <1>2, <1>3, <1>4, <1>5

LEMMA SameApp ==
    ASSUME AppIInv, UNCHANGED <<appVars, mode, tried, completed>>,
           Len(cleaners') = Len(cleaners)
    PROVE  AppTypeOK' /\ NothingTooEarly' /\ PhasesSettle' /\ ConsoleSettles'
           /\ LayerStands'
<1>1. UNCHANGED <<use, platformVars, runMode, start>>
  BY DEF appVars
<1>2. start' \in 1 .. Len(Startup) + 1
      /\ runMode' \in {"starting", "running", "stopping", "stopped"}
  BY <1>1 DEF AppIInv, AppTypeOK
<1> QED
  BY <1>1, <1>2, SameUse

\* The handlers in order, if only marks have changed.
LEMMA SameOrder ==
    ASSUME AppIInv, Core, UNCHANGED <<mode, start, runMode>>,
           DOMAIN cleaners' = DOMAIN cleaners, Len(cleaners') = Len(cleaners),
           cleaners = <<>> => cleaners' = <<>>,
           \A i \in DOMAIN cleaners : cleaners'[i].notify = cleaners[i].notify,
           mode \in Phase /\ (pass' > 0 \/ ~firstTry') => roll' = Registered
    PROVE  RegisteredInOrder'
<1>1. Registered' = Registered
  BY SameRegistered
<1>2. mode' \in Phase /\ (pass' > 0 \/ ~firstTry') => roll' = Registered'
  BY <1>1
<1>3. \A i \in DOMAIN cleaners' :
          cleaners'[i].notify = Startup[Len(cleaners') + 1 - i]
  BY DEF AppIInv, RegisteredInOrder
<1>4. mode' # "done" =>
          \/ Len(cleaners') = start' - 1
          \/ Started' /\ Len(cleaners') = Len(Platform) /\ runMode' # "starting"
  BY DEF AppIInv, RegisteredInOrder, Started
<1> QED
  BY <1>2, <1>3, <1>4 DEF AppIInv, RegisteredInOrder

LEMMA OnTimerMainKeeps ==
    ASSUME AppIInv, Core, OnTimerMain, Started, UNCHANGED appVars PROVE AppIInv'
<1>1. /\ mode = "main" /\ mode' = "client" /\ mode' \in Phase /\ firstTry' /\ armed
      /\ pass = 0 /\ completed' = {} /\ tried' = {}
      /\ UNCHANGED <<cleaners, pass, main, appVars>>
  BY DEF OnTimerMain, TimerTurn, EnterNextMode, After, Phase, mainVars
<1>2. UNCHANGED <<use, iocp, onceClosed, port, service, winsock, buffers, runMode, start>>
  BY DEF appVars, platformVars
<1>3. main = "waiting"
  BY <1>1 DEF Core, MainWaits
<1>4. RegisteredInOrder'
  BY <1>1, <1>2 DEF AppIInv, RegisteredInOrder, Started
<1>5. StagesInOrder'
  BY <1>1, <1>2, <1>3 DEF AppIInv, StagesInOrder, Started
<1>6. AppTypeOK' /\ NothingTooEarly'
  BY <1>1, <1>2 DEF AppIInv, AppTypeOK, NothingTooEarly
<1>7. PhasesSettle' /\ LayerStands'
  BY <1>1, <1>2 DEF AppIInv, PhasesSettle, LayerStands, NoSockets
<1>8. ConsoleSettles'
  BY <1>1, <1>2 DEF AppIInv, ConsoleSettles
<1> QED
  BY <1>4, <1>5, <1>6, <1>7, <1>8 DEF AppIInv

LEMMA StopBeginKeeps ==
    ASSUME AppIInv, Core, StopBegin, UNCHANGED appVars PROVE AppIInv'
<1>1. /\ mode \in Phase /\ UNCHANGED <<mode, main, firstTry, tried, completed, appVars>>
      /\ \/ firstTry /\ cleaners' = AllUnstopped /\ roll' = Registered
         \/ ~firstTry /\ UNCHANGED <<cleaners, roll>>
  BY DEF StopBegin, mainVars
<1>2. UNCHANGED <<runMode, start, winsock>>
  BY DEF appVars, platformVars
<1>3. cleaners \in Seq(Cleaner)
  BY DEF Core, ShutdownTypeOK
<1>4. /\ DOMAIN cleaners' = DOMAIN cleaners /\ Len(cleaners') = Len(cleaners)
      /\ cleaners = <<>> => cleaners' = <<>>
      /\ \A i \in DOMAIN cleaners : cleaners'[i].notify = cleaners[i].notify
  <2>1. CASE cleaners' = AllUnstopped
    <3>1. \A i \in DOMAIN cleaners : cleaners[i] \in [notify : Handler, stopped : BOOLEAN]
      <4>1. \A i \in DOMAIN cleaners : cleaners[i] \in Cleaner
        BY <1>3
      <4> QED
        BY <4>1 DEF Cleaner
    <3>2. \A i \in DOMAIN cleaners : cleaners'[i].notify = cleaners[i].notify
            /\ cleaners'[i] \in [notify : Handler, stopped : BOOLEAN]
      BY <2>1, <3>1 DEF AllUnstopped
    <3>3. cleaners' = [i \in DOMAIN cleaners |-> cleaners'[i]]
      BY <2>1 DEF AllUnstopped
    <3>4. /\ DOMAIN cleaners' = DOMAIN cleaners /\ Len(cleaners') = Len(cleaners)
          /\ cleaners' \in Seq(Cleaner)
      BY <1>3, <3>2, <3>3, Remarked DEF Cleaner
    <3> QED
      BY <1>3, <3>2, <3>4
  <2>2. CASE UNCHANGED cleaners
    BY <2>2
  <2> QED
    BY <1>1, <2>1, <2>2
<1>5. roll' = Registered
  BY <1>1 DEF AppIInv, RegisteredInOrder
<1>6. RegisteredInOrder'
  BY <1>1, <1>2, <1>4, <1>5, SameOrder
<1>7. StagesInOrder'
  BY <1>1, <1>2, <1>4 DEF AppIInv, StagesInOrder, Started
<1> QED
  BY <1>1, <1>4, <1>6, <1>7, SameApp DEF AppIInv

LEMMA SkipStoppedKeeps ==
    ASSUME AppIInv, Core, SkipStopped, UNCHANGED appVars PROVE AppIInv'
<1>1. /\ pass \in DOMAIN cleaners
      /\ UNCHANGED <<mode, cleaners, main, firstTry, roll, tried, completed, appVars>>
  BY DEF SkipStopped, InLoop, mainVars, history
<1>2. UNCHANGED <<runMode, start, winsock>>
  BY DEF appVars, platformVars
<1>3. pass > 0
  BY <1>1 DEF Core, ShutdownTypeOK
<1>4. mode \in Phase => roll' = Registered
  BY <1>1, <1>3 DEF AppIInv, RegisteredInOrder
<1>5. RegisteredInOrder'
  BY <1>1, <1>2, <1>4, SameOrder
<1>6. StagesInOrder'
  BY <1>1, <1>2 DEF AppIInv, StagesInOrder, Started
<1> QED
  BY <1>1, <1>5, <1>6, SameApp DEF AppIInv

\* What the end of a phase means for the resources.
LEMMA PhaseOver ==
    ASSUME AppIInv, Core, roll \subseteq completed, mode \in Phase, pass > 0
    PROVE  /\ mode = "client" => ClientDone
           /\ mode = "server" => use["child"] = "none"
           /\ mode = "console" => Clean
<1>1. /\ Len(cleaners) \in {6, 16} /\ mode # "done"
      /\ \A k \in 1 .. Len(cleaners) : Startup[k] \in completed
  <2>1. roll = Registered
    BY DEF AppIInv, RegisteredInOrder
  <2>2. mode \notin {"main", "done"} /\ start \in 1 .. Len(Startup) + 1
    BY DEF Phase, AppIInv, AppTypeOK
  <2> QED
    BY <2>1, <2>2, Knows, ShutdownKnows DEF AppIInv
<1>2. \A k \in 1 .. 6 : Startup[k] \in completed
  <2>1. CASE Len(cleaners) = 6
    BY <1>1, <2>1
  <2>2. CASE Len(cleaners) = 16
    <3>1. \A k \in 1 .. 16 : Startup[k] \in completed
      BY <1>1, <2>2
    <3> QED
      BY <3>1
  <2> QED
    BY <1>1, <2>1, <2>2
<1>3. "iocp" \in completed /\ "exec" \in completed /\ "service" \in completed
      /\ "gui" \in completed /\ "filemon" \in completed
  <2>1. Startup[2] \in completed /\ Startup[3] \in completed /\ Startup[4] \in completed
        /\ Startup[5] \in completed /\ Startup[6] \in completed
    BY <1>2
  <2> QED
    BY <2>1, StartupIs
<1>4. ASSUME Len(cleaners) = 16
      PROVE  {"logfile", "pipe", "sockbuf", "socket", "accept", "connect", "appsocket",
              "sockmgr", "httproute"} \subseteq completed
  <2>1. \A k \in 1 .. 16 : Startup[k] \in completed
    BY <1>1, <1>4
  <2>2. /\ Startup[8] \in completed /\ Startup[9] \in completed /\ Startup[10] \in completed
        /\ Startup[11] \in completed /\ Startup[12] \in completed
        /\ Startup[13] \in completed /\ Startup[14] \in completed
        /\ Startup[15] \in completed /\ Startup[16] \in completed
    BY <2>1
  <2> QED
    BY <2>2, StartupIs
<1>5. CASE Len(cleaners) = 6
  <2>1. /\ NoSockets /\ use["pipe"] = "none" /\ use["child"] = "none"
        /\ use["request"] = "none" /\ use["log"] = "none" /\ use["dir"] = "none"
        /\ ~buffers /\ ~winsock
    BY <1>5 DEF AppIInv, NothingTooEarly, NoSockets
  <2>2. mode = "console" => Clean
    BY <1>3, <2>1 DEF AppIInv, ConsoleSettles, Settled, Clean
  <2> QED
    BY <2>1, <2>2 DEF ClientDone, NoSockets
<1>6. CASE Len(cleaners) = 16
  <2>1. mode = "client" => ClientDone
    BY <1>4, <1>6 DEF AppIInv, PhasesSettle
  <2>2. mode = "server" => use["child"] = "none"
    BY <1>3 DEF AppIInv, PhasesSettle
  <2>3. mode = "console" => Clean
    <3>1. SUFFICES ASSUME mode = "console" PROVE Clean
      OBVIOUS
    <3>2. use["child"] = "none"
      BY <3>1 DEF AppIInv, PhasesSettle
    <3>3. \A h \in completed : Settled(h)
      BY <3>1 DEF AppIInv, ConsoleSettles
    <3>4. iocp = "ended" /\ port = "none" /\ service = "stopped"
          /\ use["window"] = "none" /\ use["dir"] = "none"
      BY <1>3, <3>3 DEF Settled
    <3>5. use["log"] = "none" /\ use["pipe"] = "none" /\ ~buffers /\ NoSockets
          /\ ~winsock /\ use["request"] = "none"
      BY <1>4, <1>6, <3>3 DEF Settled
    <3> QED
      BY <3>2, <3>4, <3>5 DEF Clean
  <2> QED
    BY <2>1, <2>2, <2>3
<1> QED
  BY <1>1, <1>5, <1>6

LEMMA StopEndKeeps ==
    ASSUME AppIInv, Core, StopEnd, UNCHANGED appVars PROVE AppIInv'
<1>1. /\ pass = Len(cleaners) + 1 /\ pass' = 0
      /\ UNCHANGED <<cleaners, main, appVars>>
  BY DEF StopEnd, mainVars
<1>2. UNCHANGED <<use, iocp, onceClosed, port, service, winsock, buffers, runMode, start>>
  BY DEF appVars, platformVars
<1>3. mode \in Phase /\ (stopped => roll \subseteq completed) /\ pass > 0
  <2>1. pass > 0
    BY <1>1 DEF Core, ShutdownTypeOK
  <2> QED
    BY <1>1, <2>1, PassOver
<1>4. CASE ~stopped /\ firstTry' = FALSE /\ UNCHANGED <<mode, history>>
  <2>1. UNCHANGED <<mode, roll, tried, completed>>
    BY <1>4 DEF history
  <2>2. roll' = Registered
    BY <1>3, <2>1 DEF AppIInv, RegisteredInOrder
  <2>3. RegisteredInOrder'
    BY <1>1, <1>2, <2>1, <2>2, SameOrder
  <2>4. StagesInOrder'
    BY <1>1, <1>2, <2>1 DEF AppIInv, StagesInOrder, Started
  <2> QED
    BY <1>1, <2>1, <2>3, <2>4, SameApp DEF AppIInv
<1>5. CASE stopped /\ EnterNextMode
  <2>1. /\ mode = "client" => ClientDone /\ mode' = "server"
        /\ mode = "server" => use["child"] = "none" /\ mode' = "console"
        /\ mode = "console" => Clean /\ mode' = "finalize"
    BY <1>3, <1>5, PhaseOver DEF EnterNextMode, After
  <2>2. /\ mode' \in {"server", "console", "finalize"} /\ firstTry'
        /\ completed' = {} /\ tried' = {}
    BY <1>3, <1>5, <2>1 DEF EnterNextMode, Phase
  <2>3. RegisteredInOrder'
    <3>1. mode # "done" /\ mode' # "done"
      BY <1>3, <2>2 DEF Phase
    <3>2. ~(pass' > 0 \/ ~firstTry')
      BY <1>1, <2>2
    <3> QED
      BY <1>1, <1>2, <3>1, <3>2 DEF AppIInv, RegisteredInOrder, Started
  <2>4. StagesInOrder'
    <3>1. mode # "main" /\ mode # "done"
      BY <1>3 DEF Phase
    <3> QED
      BY <1>1, <1>2, <2>2, <3>1 DEF AppIInv, StagesInOrder, Started
  <2>5. AppTypeOK' /\ NothingTooEarly'
    BY <1>1, <1>2 DEF AppIInv, AppTypeOK, NothingTooEarly
  <2>6. PhasesSettle' /\ LayerStands'
    BY <1>2, <1>3, <2>1, <2>2 DEF AppIInv, PhasesSettle, ClientDone, LayerStands,
       NoSockets, Phase
  <2>7. ConsoleSettles'
    BY <1>2, <1>3, <2>1, <2>2 DEF AppIInv, ConsoleSettles, Clean, NoSockets, Phase
  <2> QED
    BY <2>3, <2>4, <2>5, <2>6, <2>7 DEF AppIInv
<1> QED
  BY <1>4, <1>5 DEF StopEnd

LEMMA FinalizeKeeps ==
    ASSUME AppIInv, Core, Finalize, UNCHANGED appVars PROVE AppIInv'
<1>1. /\ cleaners' = <<>> /\ mode = "finalize" /\ mode' = "done"
      /\ UNCHANGED <<main, appVars>>
  BY DEF Finalize
<1>2. UNCHANGED <<use, iocp, onceClosed, port, service, winsock, buffers, runMode, start>>
  BY DEF appVars, platformVars
<1>3. Clean /\ Clean'
  BY <1>1, <1>2 DEF AppIInv, ConsoleSettles, Clean, NoSockets
<1>4. RegisteredInOrder'
  BY <1>1, StartupIs DEF RegisteredInOrder, Phase
<1>5. StagesInOrder'
  BY <1>1, <1>2 DEF AppIInv, StagesInOrder, Started
<1>6. AppTypeOK' /\ NothingTooEarly' /\ LayerStands'
  BY <1>2, <1>3 DEF AppIInv, AppTypeOK, NothingTooEarly, LayerStands, Clean, NoSockets
<1>7. PhasesSettle'
  BY <1>1, <1>3 DEF PhasesSettle, ClientDone, Clean, NoSockets
<1>8. ConsoleSettles'
  BY <1>1, <1>2, <1>3 DEF ConsoleSettles, Clean, NoSockets
<1> QED
  BY <1>4, <1>5, <1>6, <1>7, <1>8 DEF AppIInv

LEMMA ShutdownTimerKeeps ==
    ASSUME AppIInv, Core, ShutdownTimer PROVE AppIInv'
<1>1. UNCHANGED appVars /\ (pass > 0 \/ Started) /\ TimerStep
  BY DEF ShutdownTimer
<1>2. CASE OnTimerMain
  <2>1. pass = 0 /\ ~(pass > 0)
    BY <1>2 DEF OnTimerMain, TimerTurn
  <2> QED
    BY <1>1, <1>2, <2>1, OnTimerMainKeeps
<1> QED
  BY <1>1, <1>2, StopBeginKeeps, SkipStoppedKeeps, StopEndKeeps, FinalizeKeeps
  DEF TimerStep

\* The time limit, and stuttering.
LEMMA LimitKeeps ==
    ASSUME AppIInv, Core, TimeLimit \/ DisableByConfig \/ UNCHANGED vars PROVE AppIInv'
<1>1. UNCHANGED <<appVars, mode, cleaners, main, pass, firstTry, roll, tried, completed>>
  BY DEF TimeLimit, DisableByConfig, TimeLimitPasses, Delay, DisableTimeout, vars,
     shutdownVars, passVars, mainVars, history
<1>2. UNCHANGED <<runMode, start, winsock>>
  BY <1>1 DEF appVars, platformVars
<1>3. RegisteredInOrder'
  BY <1>1, <1>2 DEF AppIInv, RegisteredInOrder, Registered, Started
<1>4. StagesInOrder'
  BY <1>1, <1>2 DEF AppIInv, StagesInOrder, Started
<1> QED
  BY <1>1, <1>3, <1>4, SameApp DEF AppIInv

\* The main thread, and whoever tells it to stop.
LEMMA MainKeeps ==
    ASSUME AppIInv, Core, MainDestroys \/ MainReturns \/ ParseFails \/ SignalShutdown
    PROVE  AppIInv'
<1>1. UNCHANGED <<use, platformVars, cleaners, roll, tried, completed>> /\ UNCHANGED winsock
  <2>1. CASE MainDestroys
    BY <2>1 DEF MainDestroys, DestroyBegin, appVars, platformVars, history
  <2>2. CASE MainReturns
    BY <2>2 DEF MainReturns, DestroyEnd, platformVars, history
  <2>3. CASE ParseFails \/ SignalShutdown
    BY <2>3 DEF ParseFails, SignalShutdown, platformVars, shutdownVars, history
  <2> QED
    BY <2>1, <2>2, <2>3
<1>2. start \in 1 .. 17 /\ Len(Startup) = 16 /\ Len(Platform) = 6
  BY StartupIs DEF AppIInv, AppTypeOK
<1>3. UNCHANGED mode
  BY DEF MainDestroys, MainReturns, ParseFails, SignalShutdown, DestroyBegin, DestroyEnd,
     shutdownVars, AppIInv, StagesInOrder
<1>4. /\ \/ runMode' \in {"stopping", "stopped"}
         \/ runMode' = runMode
      /\ main' # "running" => runMode' \in {"stopping", "stopped"} /\ start' > 6
      /\ main' = "stopped" => mode' = "done"
      /\ main = "running" \/ main' # "running"
  <2>1. CASE MainDestroys
    BY <1>2, <2>1 DEF MainDestroys, DestroyBegin, appVars
  <2>2. CASE MainReturns
    BY <1>2, <1>3, <2>2 DEF MainReturns, DestroyEnd, Core, MainWaits, AppIInv, StagesInOrder
  <2>3. CASE ParseFails \/ SignalShutdown
    BY <1>2, <1>3, <2>3 DEF ParseFails, SignalShutdown, shutdownVars, mainVars, AppIInv,
       StagesInOrder
  <2> QED
    BY <2>1, <2>2, <2>3
<1>5. \/ start' = start
      \/ start' = 17 /\ start = 7 /\ runMode' = "stopping"
  BY <1>2 DEF MainDestroys, MainReturns, ParseFails, SignalShutdown, appVars
<1>6. start' \in 1 .. Len(Startup) + 1
      /\ runMode' \in {"starting", "running", "stopping", "stopped"}
  BY <1>2, <1>4, <1>5 DEF AppIInv, AppTypeOK
<1>7. RegisteredInOrder'
  <2>1. mode' # "done" =>
          \/ Len(cleaners') = start' - 1
          \/ start' > Len(Startup) /\ Len(cleaners') = Len(Platform)
             /\ runMode' # "starting"
    <3>1. mode # "done" =>
            \/ Len(cleaners) = start - 1
            \/ start > 16 /\ Len(cleaners) = 6 /\ runMode # "starting"
      BY <1>2 DEF AppIInv, RegisteredInOrder, Started
    <3>2. CASE start' = start
      BY <1>1, <1>2, <1>3, <1>4, <3>1, <3>2
    <3>3. CASE start' = 17 /\ start = 7 /\ runMode' = "stopping"
      BY <1>1, <1>2, <1>3, <3>1, <3>3
    <3> QED
      BY <1>5, <3>2, <3>3
  <2>2. mode' \in Phase /\ (pass' > 0 \/ ~firstTry') => roll' = Registered'
    <3>1. mode # "main" => UNCHANGED <<pass, firstTry>>
      BY DEF MainDestroys, MainReturns, ParseFails, SignalShutdown, DestroyBegin,
         DestroyEnd, shutdownVars, passVars, AppIInv, StagesInOrder
    <3> QED
      BY <1>1, <1>3, <3>1 DEF AppIInv, RegisteredInOrder, Registered, Phase
  <2> QED
    BY <1>1, <1>3, <2>1, <2>2 DEF AppIInv, RegisteredInOrder, Started
<1>8. StagesInOrder'
  <2>1. mode' # "main" => Started' /\ main' # "running"
    BY <1>2, <1>3, <1>4, <1>5 DEF AppIInv, StagesInOrder, Started
  <2>2. runMode' = "running" => Len(cleaners') = Len(Startup)
    BY <1>1, <1>4 DEF AppIInv, StagesInOrder
  <2> QED
    BY <1>1, <1>2, <1>3, <1>4, <2>1, <2>2 DEF AppIInv, StagesInOrder
<1> QED
  BY <1>1, <1>3, <1>6, <1>7, <1>8, SameUse DEF AppIInv

\* The initialize function of the next library.
LEMMA InitializeKeeps ==
    ASSUME AppIInv, Core, Initialize PROVE AppIInv'
<1> DEFINE h == Startup[start]
<1>1. /\ ~Started /\ Register(h) /\ start' = start + 1
      /\ iocp' = (IF h = "iocp" THEN "open" ELSE iocp)
      /\ service' \in {"running", "stopped"} /\ (h # "service" => service' = service)
      /\ use' = (IF h = "config" /\ "dir" \in Use
                 THEN [use EXCEPT !["dir"] = "open"] ELSE use)
      /\ winsock' = (h = "socket" \/ winsock)
      /\ runMode' = (IF start' > Len(Startup) /\ runMode = "starting"
                     THEN "running" ELSE runMode)
      /\ UNCHANGED <<onceClosed, port, buffers>>
  <2>1. service' \in {"running", "stopped"} /\ (h # "service" => service' = service)
    BY DEF Initialize, AppIInv, AppTypeOK
  <2> QED
    BY <2>1 DEF Initialize
<1>2. start \in 1 .. 16 /\ Len(Startup) = 16 /\ Len(Platform) = 6
  BY <1>1, StartupIs DEF AppIInv, AppTypeOK, Started
<1>3. UNCHANGED <<mode, main, pass, firstTry, roll, tried, completed>>
  BY <1>1 DEF Register, passVars, mainVars, history
<1>4. mode = "main" /\ Len(cleaners) = start - 1
  BY <1>1 DEF AppIInv, StagesInOrder, RegisteredInOrder
<1>5. h \in Handler /\ cleaners \in Seq(Cleaner)
  BY <1>1, <1>2, StartupHandlers DEF Core, ShutdownTypeOK
<1>6. /\ cleaners' \in Seq(Cleaner)
      /\ Len(cleaners') = start
      /\ cleaners'[1].notify = h
      /\ \A i \in DOMAIN cleaners' \ {1} :
            i - 1 \in DOMAIN cleaners /\ cleaners'[i] = cleaners[i - 1]
  <2>1. /\ cleaners' \in Seq(Cleaner)
        /\ Len(cleaners') = Len(cleaners) + 1
        /\ cleaners'[1].notify = h
        /\ \A i \in DOMAIN cleaners' \ {1} :
              i - 1 \in DOMAIN cleaners /\ cleaners'[i] = cleaners[i - 1]
    <3> HIDE DEF h
    <3> QED
      BY <1>1, <1>5, Prepended
  <2> QED
    BY <1>2, <1>4, <2>1
<1>7. /\ h = "iocp" => start = 2
      /\ h = "service" => start = 4
      /\ h = "config" => start = 7
      /\ h = "socket" <=> start = 11
  BY <1>2, StartupIs, StartupInjective
<1> HIDE DEF h
<1>8. RegisteredInOrder'
  <2>1. \A i \in DOMAIN cleaners' :
          cleaners'[i].notify = Startup[Len(cleaners') + 1 - i]
    <3>1. SUFFICES ASSUME NEW i \in DOMAIN cleaners'
                   PROVE  cleaners'[i].notify = Startup[start + 1 - i]
      BY <1>6
    <3>2. CASE i = 1
      <4>1. start + 1 - i = start
        BY <1>2, <3>2
      <4> QED
        BY <1>6, <3>2, <4>1 DEF h
    <3>3. CASE i # 1
      <4>1. i - 1 \in DOMAIN cleaners /\ cleaners'[i] = cleaners[i - 1]
        BY <1>6, <3>3
      <4>2. cleaners[i - 1].notify = Startup[Len(cleaners) + 1 - (i - 1)]
        BY <4>1 DEF AppIInv, RegisteredInOrder
      <4>3. i \in Int /\ Len(cleaners) + 1 - (i - 1) = start + 1 - i
        BY <1>2, <1>4, <1>6
      <4> QED
        BY <4>1, <4>2, <4>3
    <3> QED
      BY <3>2, <3>3
  <2>2. mode' \notin Phase /\ mode' # "done"
    BY <1>3, <1>4 DEF Phase
  <2>3. Len(cleaners') = start' - 1 /\ Len(cleaners') <= Len(Startup)
    BY <1>1, <1>2, <1>6
  <2> QED
    BY <2>1, <2>2, <2>3 DEF RegisteredInOrder
<1>9. StagesInOrder'
  <2>1. mode' = "main" /\ main' = main
    BY <1>3, <1>4
  <2>2. main' # "running" => runMode' \in {"stopping", "stopped"} /\ start' > 6
    BY <1>1, <1>2, <2>1 DEF AppIInv, StagesInOrder
  <2>3. main' # "stopped"
    BY <1>4, <2>1 DEF AppIInv, StagesInOrder
  <2>4. runMode' = "running" => Len(cleaners') = Len(Startup)
    <3>1. runMode # "running"
      BY <1>2, <1>4 DEF AppIInv, StagesInOrder
    <3> QED
      BY <1>1, <1>2, <1>6, <3>1
  <2>5. ~(Len(cleaners') < 11) => winsock'
    <3>1. CASE start < 12
      <4>1. ~(start < 11) => start = 11
        BY <1>2, <3>1
      <4>2. start = 11 => winsock'
        BY <1>1, <1>7
      <4> QED
        BY <1>6, <4>1, <4>2
    <3>2. CASE ~(start < 12)
      <4>1. ~(Len(cleaners) < 11)
        BY <1>2, <1>4, <3>2
      <4> QED
        BY <1>1, <1>4, <4>1 DEF AppIInv, StagesInOrder
    <3> QED
      BY <3>1, <3>2
  <2> QED
    BY <1>2, <2>1, <2>2, <2>3, <2>4, <2>5 DEF StagesInOrder
<1>10. /\ DOMAIN use' = Resource /\ use' = [q \in Resource |-> use'[q]]
       /\ \A q \in Resource : use'[q] \in States[q]
       /\ \A q \in Resource : q # "dir" => use'[q] = use[q]
       /\ h # "config" => use'["dir"] = use["dir"]
  <2>1. CASE use' = use
    BY <2>1 DEF AppIInv, AppTypeOK
  <2>2. CASE use' # use
    <3>1. h = "config" /\ Become("dir", "open") /\ "dir" \in Resource
          /\ "open" \in States["dir"]
      BY <1>1, <2>2, StatesAre DEF Become, Resource
    <3> QED
      BY <3>1, Becomes DEF AppIInv
  <2> QED
    BY <2>1, <2>2
<1>11. AppTypeOK'
  <2>1. start' \in 1 .. Len(Startup) + 1
    BY <1>1, <1>2
  <2>2. iocp' \in {"none", "open", "closed", "ended"} /\ winsock' \in BOOLEAN
        /\ runMode' \in {"starting", "running", "stopping", "stopped"}
    BY <1>1 DEF AppIInv, AppTypeOK
  <2> QED
    BY <1>1, <1>10, <2>1, <2>2 DEF AppIInv, AppTypeOK
<1>12. NothingTooEarly'
  <2>1. Len(cleaners') < 16 => Len(cleaners) < 16
    BY <1>2, <1>4, <1>6
  <2>2. Len(cleaners') < 11 => ~winsock'
    <3>1. start < 11 => Len(cleaners) < 11 /\ start # 11
      BY <1>2, <1>4
    <3>2. start < 11 => ~winsock
      BY <3>1 DEF AppIInv, NothingTooEarly
    <3> QED
      BY <1>1, <1>6, <1>7, <3>1, <3>2
  <2>3. Len(cleaners') < 8 => use'["log"] = "none"
    BY <1>2, <1>4, <1>6, <1>10 DEF AppIInv, NothingTooEarly, Resource
  <2>4. Len(cleaners') < 7 => use'["dir"] = "none"
    BY <1>2, <1>4, <1>6, <1>7, <1>10 DEF AppIInv, NothingTooEarly
  <2>5. Len(cleaners') < 4 => service' = "stopped"
    BY <1>1, <1>2, <1>4, <1>6, <1>7 DEF AppIInv, NothingTooEarly
  <2> QED
    BY <1>1, <1>10, <2>1, <2>2, <2>3, <2>4, <2>5 DEF AppIInv, NothingTooEarly, Resource
<1>13. PhasesSettle'
  BY <1>3, <1>4 DEF PhasesSettle
<1>14. ConsoleSettles'
  BY <1>1, <1>3, <1>4 DEF AppIInv, ConsoleSettles
<1>15. LayerStands'
  BY <1>1, <1>10 DEF AppIInv, LayerStands, NoSockets, Resource
<1> QED
  BY <1>8, <1>9, <1>11, <1>12, <1>13, <1>14, <1>15 DEF AppIInv

-----------------------------------------------------------------------------
(* The handlers.                                                           *)

\* What a call means for the shutdown.
LEMMA CallIs ==
    ASSUME AppIInv, Core, NEW h, CallHandler(h)
    PROVE  /\ Calls(h) /\ mode \in Phase /\ h \in Registered /\ h \notin completed
           /\ UNCHANGED <<mode, main, runMode, start, service>>
           /\ Len(cleaners') = Len(cleaners)
           /\ roll = Registered /\ (~firstTry => h \in tried)
           /\ tried' \in {tried, tried \cup {h}} /\ (~firstTry => tried' = tried)
           /\ \/ completed' = completed
              \/ completed' = completed \cup {h} /\ ~Incomplete(h)
           /\ RegisteredInOrder'
<1>1. Calls(h) /\ UNCHANGED <<runMode, start, service>>
  BY DEF CallHandler
<1>2. pass \in DOMAIN cleaners /\ cleaners[pass].notify = h /\ ~cleaners[pass].stopped
  BY <1>1 DEF Calls, InLoop
<1>3. cleaners \in Seq(Cleaner) /\ pass > 0 /\ mode \in Phase
  <2>1. cleaners \in Seq(Cleaner)
    BY DEF Core, ShutdownTypeOK
  <2>2. pass > 0
    BY <1>2, <2>1
  <2> QED
    BY <2>1, <2>2 DEF Core, ShutdownTypeOK
<1>4. h \in Registered /\ h \notin completed
  BY <1>2, <1>3 DEF Registered, Core, MarksTrue
<1>5. roll = Registered /\ (~firstTry => h \in tried)
  <2>1. roll = Registered
    BY <1>3 DEF AppIInv, RegisteredInOrder
  <2>2. ~firstTry => roll \subseteq tried
    BY <1>3 DEF Core, FirstPassCallsAll
  <2> QED
    BY <1>4, <2>1, <2>2
<1>6. /\ UNCHANGED <<mode, main, firstTry, roll>>
      /\ tried' \in {tried, tried \cup {h}} /\ (~firstTry => tried' = tried)
      /\ \/ completed' = completed
         \/ completed' = completed \cup {h} /\ ~Incomplete(h)
      /\ cleaners' \in {cleaners, [cleaners EXCEPT ![pass].stopped = TRUE]}
  <2>1. CASE HandlerIncomplete(h)
    BY <2>1 DEF HandlerIncomplete, LeavePass, mainVars
  <2>2. CASE HandlerTooLate(h)
    BY <2>2 DEF HandlerTooLate, passVars, mainVars, history
  <2>3. CASE HandlerCompletes(h) /\ ~Incomplete(h)
    BY <2>3 DEF HandlerCompletes, mainVars
  <2> QED
    BY <2>1, <2>2, <2>3 DEF CallHandler
<1>7. /\ Len(cleaners') = Len(cleaners) /\ DOMAIN cleaners' = DOMAIN cleaners
      /\ cleaners = <<>> => cleaners' = <<>>
      /\ \A i \in DOMAIN cleaners : cleaners'[i].notify = cleaners[i].notify
  <2>1. CASE cleaners' = cleaners
    BY <2>1
  <2>2. CASE cleaners' = [cleaners EXCEPT ![pass].stopped = TRUE]
    <3>1. \A i \in DOMAIN cleaners : cleaners[i] \in [notify : Handler, stopped : BOOLEAN]
      <4>1. \A i \in DOMAIN cleaners : cleaners[i] \in Cleaner
        BY <1>3
      <4> QED
        BY <4>1 DEF Cleaner
    <3>2. \A i \in DOMAIN cleaners : cleaners'[i].notify = cleaners[i].notify
            /\ cleaners'[i] \in [notify : Handler, stopped : BOOLEAN]
      BY <1>2, <2>2, <3>1
    <3>3. cleaners' = [i \in DOMAIN cleaners |-> cleaners'[i]]
      BY <2>2
    <3>4. /\ DOMAIN cleaners' = DOMAIN cleaners /\ Len(cleaners') = Len(cleaners)
          /\ cleaners' \in Seq(Cleaner)
      BY <1>3, <3>2, <3>3, Remarked DEF Cleaner
    <3> QED
      BY <1>3, <3>2, <3>4
  <2> QED
    BY <1>6, <2>1, <2>2
<1>8. RegisteredInOrder'
  BY <1>1, <1>5, <1>6, <1>7, SameOrder
<1> QED
  BY <1>1, <1>3, <1>4, <1>5, <1>6, <1>7, <1>8

LEMMA CallStages ==
    ASSUME AppIInv, Core, NEW h, CallHandler(h)
    PROVE  StagesInOrder'
<1>1. /\ UNCHANGED <<mode, main, runMode, start>> /\ mode \in Phase
      /\ Len(cleaners') = Len(cleaners)
  BY CallIs
<1>2. mode # "main"
  BY <1>1 DEF Phase
<1> QED
  BY <1>1, <1>2 DEF AppIInv, StagesInOrder, Started

\* The client phase closes the listener and the matched sockets.
LEMMA ClientCallKeeps ==
    ASSUME AppIInv, Core, NEW h, CallHandler(h), mode = "client" PROVE AppIInv'
<1>1. UNCHANGED <<iocp, onceClosed, port, service, winsock, buffers, runMode, start>>
      /\ use' = UseAfterClient(h)
  BY DEF CallHandler, ClosesPort, ClosesJobPort, StopsWinsock, FreesBuffers, UseAfter,
     AppIInv, AppTypeOK
<1>2. \A r \in Resource : use[r] \in States[r]
  BY DEF AppIInv, AppTypeOK
<1>3. /\ DOMAIN use' = Resource /\ use' = [q \in Resource |-> use'[q]]
      /\ \A q \in Resource : q \notin {"listener", "inbound"} => use'[q] = use[q]
      /\ use'["listener"] \in {use["listener"], Shut("listener")}
      /\ use'["inbound"] \in {use["inbound"], Shut("inbound")}
      /\ h = "sockmgr" /\ firstTry => use'["listener"] = Shut("listener")
      /\ h # "sockmgr" \/ ~firstTry => use' = use
  <2>1. CASE h = "sockmgr" /\ firstTry
    <3>1. use' = [use EXCEPT !["listener"] = Shut("listener"), !["inbound"] = Shut("inbound")]
      BY <1>1, <2>1 DEF UseAfterClient
    <3>2. DOMAIN use = Resource
      BY DEF AppIInv, AppTypeOK
    <3>3. "listener" \in Resource /\ "inbound" \in Resource
      BY DEF Resource
    <3> HIDE DEF Shut, Resource
    <3> QED
      BY <2>1, <3>1, <3>2, <3>3
  <2>2. CASE ~(h = "sockmgr" /\ firstTry)
    <3>1. use' = use
      BY <1>1, <2>2 DEF UseAfterClient
    <3> QED
      BY <2>2, <3>1 DEF AppIInv, AppTypeOK
  <2> QED
    BY <2>1, <2>2
<1>4. /\ use["listener"] \in {"none", "open", "closing"}
      /\ use["inbound"] \in {"none", "open", "closing", "unmatched", "dropping"}
  BY <1>2, StatesAre DEF Resource
<1>5. /\ \A q \in Resource : use'[q] \in States[q]
      /\ \A q \in Resource : use'[q] = "none" <=> use[q] = "none"
      /\ use'["listener"] = "open" => use["listener"] = "open"
      /\ Shut("listener") # "open"
  BY <1>2, <1>3, <1>4, StatesAre DEF Shut
<1>6. AppTypeOK'
  BY <1>1, <1>3, <1>5 DEF AppIInv, AppTypeOK
<1>7. /\ mode' = "client" /\ Len(cleaners') = Len(cleaners) /\ h \notin completed
      /\ tried' \in {tried, tried \cup {h}} /\ (~firstTry => h \in tried /\ tried' = tried)
      /\ \/ completed' = completed
         \/ completed' = completed \cup {h} /\ ~Incomplete(h)
  BY CallIs
<1>8. NothingTooEarly'
  BY <1>1, <1>3, <1>5, <1>7 DEF AppIInv, NothingTooEarly, Resource
<1>9. "sockmgr" \in tried' => use'["listener"] # "open"
  BY <1>3, <1>5, <1>7 DEF AppIInv, PhasesSettle
<1>10. "sockmgr" \in completed' => ClientDone'
  <2>1. CASE "sockmgr" \in completed
    BY <1>3, <1>7, <2>1 DEF AppIInv, PhasesSettle, ClientDone
  <2>2. CASE h = "sockmgr" /\ ~Incomplete(h)
    <3>1. use'["inbound"] \notin {"open", "closing"}
      BY <2>2 DEF Incomplete, ClientIncomplete
    <3>2. use'["listener"] # "open"
      BY <1>3, <1>5, <1>7, <2>2 DEF AppIInv, PhasesSettle
    <3>3. use'["listener"] \in States["listener"] /\ use'["inbound"] \in States["inbound"]
      BY <1>5 DEF Resource
    <3> QED
      BY <3>1, <3>2, <3>3, StatesAre DEF ClientDone
  <2> QED
    BY <1>7, <2>1, <2>2
<1>11. PhasesSettle'
  BY <1>7, <1>9, <1>10 DEF PhasesSettle
<1>12. ConsoleSettles'
  BY <1>1, <1>7 DEF AppIInv, ConsoleSettles
<1>13. LayerStands'
  BY <1>1, <1>3, <1>5 DEF AppIInv, LayerStands, NoSockets, Resource
<1> QED
  BY <1>6, <1>8, <1>11, <1>12, <1>13, CallIs, CallStages DEF AppIInv

\* The server phase waits for the child.
LEMMA ServerCallKeeps ==
    ASSUME AppIInv, Core, NEW h, CallHandler(h), mode = "server" PROVE AppIInv'
<1>1. UNCHANGED <<use, iocp, onceClosed, port, service, winsock, buffers, runMode, start>>
  BY DEF CallHandler, ClosesPort, ClosesJobPort, StopsWinsock, FreesBuffers, UseAfter,
     AppIInv, AppTypeOK
<1>2. /\ mode' = "server" /\ Len(cleaners') = Len(cleaners)
      /\ \/ completed' = completed
         \/ completed' = completed \cup {h} /\ ~Incomplete(h)
  BY CallIs
<1>3. "exec" \in completed' => use["child"] = "none"
  BY <1>2 DEF AppIInv, PhasesSettle, Incomplete, ServerIncomplete
<1>4. AppTypeOK' /\ NothingTooEarly'
  BY <1>1, <1>2 DEF AppIInv, AppTypeOK, NothingTooEarly
<1>5. PhasesSettle'
  BY <1>1, <1>2, <1>3 DEF AppIInv, PhasesSettle, ClientDone
<1>6. ConsoleSettles' /\ LayerStands'
  BY <1>1, <1>2 DEF AppIInv, ConsoleSettles, LayerStands, NoSockets
<1> QED
  BY <1>4, <1>5, <1>6, CallIs, CallStages DEF AppIInv

\* What the console phase does to the resources: it closes what is there, and
\* only the log is written to.
LEMMA ConsoleUse ==
    ASSUME AppIInv, NEW h, use' = UseAfterConsole(h),
           "inbound" \in Resource, "outbound" \in Resource, "dir" \in Resource,
           "log" \in Resource, "window" \in Resource
    PROVE  /\ DOMAIN use' = Resource /\ use' = [q \in Resource |-> use'[q]]
           /\ \A q \in Resource : use'[q] \in States[q]
           /\ \A q \in Resource \ {"log"} : use[q] = "none" => use'[q] = "none"
           /\ \A q \in Resource : q \notin {"inbound", "outbound", "dir", "log", "window"}
                => use'[q] = use[q]
           /\ use'["outbound"] \in {use["outbound"], "aborting"}
           /\ use'["outbound"] = "aborting" => use["outbound"] \in {"connecting", "aborting"}
           /\ h # "logfile" => use'["log"] = use["log"]
           /\ h = "logfile" => use'["log"] = LogShut
<1>1. /\ \A r \in Resource : use[r] \in States[r]
      /\ DOMAIN use = Resource /\ use = [q \in Resource |-> use[q]]
  BY DEF AppIInv, AppTypeOK
<1>2. /\ use["inbound"] \in {"none", "open", "closing", "unmatched", "dropping"}
      /\ use["outbound"] \in {"none", "connecting", "aborting", "open", "closing"}
      /\ use["dir"] \in {"none", "open", "closing"}
      /\ use["window"] \in {"none", "open", "closing"}
      /\ use["log"] \in {"none", "open", "writing", "closing"}
  BY <1>1, StatesAre
<1>3. \/ use' = use /\ h # "logfile"
      \/ /\ h = "appsocket" /\ use["inbound"] = "unmatched"
         /\ use' = [use EXCEPT !["inbound"] = "dropping"]
      \/ /\ h = "connect" /\ use["outbound"] = "connecting"
         /\ use' = [use EXCEPT !["outbound"] = "aborting"]
      \/ h = "config" /\ use' = [use EXCEPT !["dir"] = Shut("dir")]
      \/ h = "logfile" /\ use' = [use EXCEPT !["log"] = LogShut]
      \/ h = "gui" /\ use' = [use EXCEPT !["window"] = Shut("window")]
  BY DEF UseAfterConsole
<1>4. CASE use' = use /\ h # "logfile"
  BY <1>1, <1>2, <1>4
<1>5. CASE /\ h = "appsocket" /\ use["inbound"] = "unmatched"
           /\ use' = [use EXCEPT !["inbound"] = "dropping"]
  BY <1>1, <1>2, <1>5, StatesAre
<1>6. CASE /\ h = "connect" /\ use["outbound"] = "connecting"
           /\ use' = [use EXCEPT !["outbound"] = "aborting"]
  BY <1>1, <1>2, <1>6, StatesAre
<1>7. CASE h = "config" /\ use' = [use EXCEPT !["dir"] = Shut("dir")]
  <2>1. Shut("dir") \in States["dir"] /\ (use["dir"] = "none" => Shut("dir") = "none")
    BY <1>2, StatesAre DEF Shut
  <2> HIDE DEF Shut
  <2> QED
    BY <1>1, <1>2, <1>7, <2>1
<1>8. CASE h = "logfile" /\ use' = [use EXCEPT !["log"] = LogShut]
  <2>1. LogShut \in States["log"]
    BY <1>2, StatesAre DEF LogShut, Logged
  <2> QED
    BY <1>1, <1>2, <1>8, <2>1
<1>9. CASE h = "gui" /\ use' = [use EXCEPT !["window"] = Shut("window")]
  <2>1. Shut("window") \in States["window"] /\ (use["window"] = "none" => Shut("window") = "none")
    BY <1>2, StatesAre DEF Shut
  <2> HIDE DEF Shut
  <2> QED
    BY <1>1, <1>2, <1>9, <2>1
<1> QED
  BY <1>3, <1>4, <1>5, <1>6, <1>7, <1>8, <1>9

\* On a retry the newer handlers have completed, so that the sockets, the pipe
\* and the directory are gone when the completion port is closed, and the
\* sockets when the buffers are freed.
LEMMA RetrySettles ==
    ASSUME AppIInv, Core, NEW h, Calls(h), mode = "console", ~firstTry
    PROVE  /\ h = "iocp" => NoSockets /\ use["pipe"] = "none" /\ use["dir"] = "none"
           /\ h = "sockbuf" => NoSockets
<1>1. PICK i \in 1 .. Len(cleaners) :
          /\ h = Startup[i]
          /\ \A k \in i + 1 .. Len(cleaners) : Startup[k] \in completed
  BY CallPlace DEF AppIInv
<1>2. Len(cleaners) \in {6, 16}
  <2>1. mode \notin {"main", "done"} /\ start \in 1 .. Len(Startup) + 1
    BY DEF AppIInv, AppTypeOK
  <2> QED
    BY <2>1, ShutdownKnows DEF AppIInv
<1>3. PICK n \in {6, 16} : n = Len(cleaners)
  BY <1>2
<1>4. i \in 1 .. n /\ i \in 1 .. 16 /\ h = Startup[i]
      /\ \A k \in i + 1 .. n : Startup[k] \in completed
  BY <1>1, <1>3
<1> HIDE <1>1
<1>5. \A g \in completed : Settled(g)
  BY DEF AppIInv, ConsoleSettles
<1>6. CASE h = "iocp"
  <2>1. i = 2
    <3>1. Startup[2] = "iocp"
      BY StartupIs
    <3>2. i \in 1 .. 16 /\ Startup[i] = Startup[2] /\ 2 \in 1 .. 16
      BY <1>4, <1>6, <3>1
    <3> QED
      BY <3>2, StartupInjective
  <2>2. "filemon" \in completed
    <3>1. 6 \in i + 1 .. n
      BY <2>1
    <3>2. Startup[6] \in completed
      BY <1>4, <3>1
    <3> QED
      BY <3>2, StartupIs
  <2>3. CASE n = 16
    <3>1. 11 \in i + 1 .. n /\ 9 \in i + 1 .. n
      BY <2>1, <2>3
    <3>2. Startup[11] \in completed /\ Startup[9] \in completed
      BY <1>4, <3>1
    <3>3. "socket" \in completed /\ "pipe" \in completed
      BY <3>2, StartupIs
    <3> QED
      BY <1>5, <1>6, <2>2, <3>3 DEF Settled
  <2>4. CASE n = 6
    <3>1. Len(cleaners) < 16
      BY <1>3, <2>4
    <3> QED
      BY <1>5, <1>6, <2>2, <3>1 DEF Settled, AppIInv, NothingTooEarly, NoSockets
  <2> QED
    BY <2>3, <2>4
<1>7. CASE h = "sockbuf"
  <2>1. i = 10
    <3>1. Startup[10] = "sockbuf"
      BY StartupIs
    <3>2. i \in 1 .. 16 /\ Startup[i] = Startup[10] /\ 10 \in 1 .. 16
      BY <1>4, <1>7, <3>1
    <3> QED
      BY <3>2, StartupInjective
  <2>2. n = 16
    BY <1>4, <2>1
  <2>3. 11 \in i + 1 .. n
    BY <2>1, <2>2
  <2>4. Startup[11] \in completed
    BY <1>4, <2>3
  <2>5. "socket" \in completed
    BY <2>4, StartupIs
  <2> QED
    BY <1>5, <1>7, <2>5 DEF Settled
<1> QED
  BY <1>6, <1>7

LEMMA ConsoleCallKeeps ==
    ASSUME AppIInv, Core, NEW h, CallHandler(h), mode = "console" PROVE AppIInv'
<1>1. /\ use' = UseAfterConsole(h)
      /\ iocp' = IF ClosesPort(h) THEN "closed" ELSE iocp
      /\ onceClosed' = (ClosesPort(h) \/ onceClosed)
      /\ port' = IF ClosesJobPort(h) THEN "closed" ELSE port
      /\ winsock' = (winsock /\ ~StopsWinsock(h))
      /\ buffers' = (buffers /\ ~FreesBuffers(h))
      /\ UNCHANGED <<runMode, start, service>>
  BY DEF CallHandler, UseAfter
<1>2. /\ Calls(h) /\ mode' = "console" /\ Len(cleaners') = Len(cleaners)
      /\ h \in Registered /\ h \notin completed
      /\ \/ completed' = completed
         \/ completed' = completed \cup {h} /\ ~Incomplete(h)
  BY CallIs
<1>3. /\ DOMAIN use' = Resource /\ use' = [q \in Resource |-> use'[q]]
      /\ \A q \in Resource : use'[q] \in States[q]
      /\ \A q \in Resource \ {"log"} : use[q] = "none" => use'[q] = "none"
      /\ \A q \in Resource : q \notin {"inbound", "outbound", "dir", "log", "window"}
           => use'[q] = use[q]
      /\ use'["outbound"] \in {use["outbound"], "aborting"}
      /\ use'["outbound"] = "aborting" => use["outbound"] \in {"connecting", "aborting"}
      /\ h # "logfile" => use'["log"] = use["log"]
      /\ h = "logfile" => use'["log"] = LogShut
  <2>1. "inbound" \in Resource /\ "outbound" \in Resource /\ "dir" \in Resource
        /\ "log" \in Resource /\ "window" \in Resource
    BY DEF Resource
  <2> QED
    BY <1>1, <2>1, ConsoleUse
<1>4. ClientDone /\ use["child"] = "none" /\ (\A g \in completed : Settled(g))
  BY DEF AppIInv, PhasesSettle, ConsoleSettles
<1>5. AppTypeOK'
  <2>1. iocp' \in {"none", "open", "closed", "ended"} /\ port' \in {"none", "open", "closed"}
    BY <1>1 DEF AppIInv, AppTypeOK
  <2>2. winsock' \in BOOLEAN /\ buffers' \in BOOLEAN /\ onceClosed' \in BOOLEAN
    BY <1>1
  <2> QED
    BY <1>1, <1>3, <2>1, <2>2 DEF AppIInv, AppTypeOK
<1>6. NoSockets => NoSockets'
  BY <1>3 DEF NoSockets, Resource
<1>7. PhasesSettle'
  <2>1. use'["listener"] = use["listener"] /\ use'["child"] = use["child"]
    BY <1>3 DEF Resource
  <2>2. use'["inbound"] \in {"none", "unmatched", "dropping"}
    <3>1. use["inbound"] \in {"none", "unmatched", "dropping"}
      BY <1>4 DEF ClientDone
    <3>2. use'["inbound"] \in {use["inbound"], "dropping"}
      <4>1. DOMAIN use = Resource /\ "inbound" \in Resource
        BY DEF AppIInv, AppTypeOK, Resource
      <4> QED
        BY <1>1, <3>1, <4>1 DEF UseAfterConsole
    <3> QED
      BY <3>1, <3>2
  <2> QED
    BY <1>2, <1>4, <2>1, <2>2 DEF PhasesSettle, ClientDone
<1>8. NothingTooEarly'
  <2>1. Len(cleaners) < 8 => h # "logfile"
    <3>1. SUFFICES ASSUME h = "logfile", Len(cleaners) < 8 PROVE FALSE
      OBVIOUS
    <3>2. PICK k \in 1 .. Len(cleaners) : Startup[k] = "logfile"
      BY <1>2, <3>1, Knows DEF AppIInv
    <3>3. k \in 1 .. 16 /\ k # 8
      BY <3>1
    <3> QED
      BY <3>2, <3>3, StartupIs, StartupInjective
  <2>2. Len(cleaners) < 8 => use'["log"] = "none"
    BY <1>3, <2>1 DEF AppIInv, NothingTooEarly
  <2>3. ~buffers /\ port = "none" => ~buffers' /\ port' = "none"
    BY <1>1 DEF ClosesJobPort
  <2>4. ~winsock => ~winsock'
    BY <1>1
  <2> QED
    BY <1>1, <1>2, <1>3, <2>2, <2>3, <2>4 DEF AppIInv, NothingTooEarly, Resource
<1>9. iocp' \in {"closed", "ended"} =>
          NoSockets' /\ use'["pipe"] = "none" /\ use'["dir"] = "none"
  <2>1. iocp' \in {"closed", "ended"} =>
            NoSockets /\ use["pipe"] = "none" /\ use["dir"] = "none"
    <3>1. CASE ClosesPort(h)
      <4>1. h = "iocp" /\ ~firstTry
        BY <3>1 DEF ClosesPort
      <4> QED
        BY <1>2, <4>1, RetrySettles
    <3>2. CASE ~ClosesPort(h)
      BY <1>1, <3>2 DEF AppIInv, ConsoleSettles
    <3> QED
      BY <3>1, <3>2
  <2> QED
    BY <1>3, <1>6, <2>1 DEF Resource
<1>10. ASSUME NEW g \in completed PROVE Settled(g)'
  <2>1. Settled(g) /\ g # h
    BY <1>2, <1>4
  <2>2. g = "logfile" => use'["log"] = "none"
    BY <1>3, <2>1 DEF Settled
  <2>3. g = "exec" => port' = "none"
    BY <1>1, <2>1 DEF Settled, ClosesJobPort
  <2>4. g = "iocp" => iocp' = "ended"
    BY <1>1, <2>1 DEF Settled, ClosesPort
  <2>5. g = "connect" => use'["outbound"] \notin {"connecting", "aborting"}
    BY <1>3, <2>1 DEF Settled
  <2>6. /\ g = "httproute" => use'["request"] = "none"
        /\ g = "appsocket" => use'["inbound"] = "none"
        /\ g = "accept" => use'["listener"] = "none"
        /\ g = "pipe" => use'["pipe"] = "none"
        /\ g = "filemon" => use'["dir"] = "none"
        /\ g = "gui" => use'["window"] = "none"
    BY <1>3, <2>1 DEF Settled, Resource
  <2>7. /\ g = "socket" => NoSockets' /\ ~winsock'
        /\ g = "sockbuf" => NoSockets' /\ ~buffers'
        /\ g = "service" => service' = "stopped"
    BY <1>1, <1>6, <2>1 DEF Settled
  <2> QED
    BY <2>2, <2>3, <2>4, <2>5, <2>6, <2>7 DEF Settled
<1>11. ASSUME ~Incomplete(h) PROVE Settled(h)'
  <2>1. ~ConsoleIncomplete(h)
    BY <1>11 DEF Incomplete
  <2>2. h = "httproute" => use'["request"] = "none"
    BY <1>3, <2>1 DEF ConsoleIncomplete, Resource
  <2>3. h = "appsocket" => use'["inbound"] = "none"
    <3>1. h = "appsocket" => use'["inbound"] \notin {"unmatched", "dropping"}
      BY <2>1 DEF ConsoleIncomplete
    <3>2. use'["inbound"] \in {"none", "unmatched", "dropping"}
      BY <1>2, <1>7 DEF PhasesSettle, ClientDone
    <3> QED
      BY <3>1, <3>2
  <2>4. h = "connect" => use'["outbound"] \notin {"connecting", "aborting"}
    BY <2>1 DEF ConsoleIncomplete
  <2>5. h = "accept" => use'["listener"] = "none"
    BY <1>3, <2>1 DEF ConsoleIncomplete, Resource
  <2>6. h = "socket" => NoSockets' /\ ~winsock'
    BY <1>1, <1>6, <2>1, NoSocketsCounted DEF ConsoleIncomplete, StopsWinsock
  <2>7. h = "sockbuf" => NoSockets' /\ ~buffers'
    <3>1. SUFFICES ASSUME h = "sockbuf" PROVE NoSockets' /\ ~buffers'
      OBVIOUS
    <3>2. ~firstTry
      BY <2>1, <3>1 DEF ConsoleIncomplete
    <3>3. NoSockets
      BY <1>2, <3>1, <3>2, RetrySettles
    <3> QED
      BY <1>1, <1>6, <3>1, <3>2, <3>3 DEF FreesBuffers
  <2>8. h = "pipe" => use'["pipe"] = "none"
    BY <1>3, <2>1 DEF ConsoleIncomplete, Resource
  <2>9. h = "logfile" => use'["log"] = "none"
    <3>1. SUFFICES ASSUME h = "logfile" PROVE use'["log"] = "none"
      OBVIOUS
    <3>2. ~firstTry /\ use["log"] \notin {"writing", "closing"}
      BY <2>1, <3>1 DEF ConsoleIncomplete
    <3>3. use["log"] \in {"none", "open", "writing", "closing"}
      BY StatesAre DEF AppIInv, AppTypeOK, Resource
    <3>4. LogShut = "none"
      BY <3>2, <3>3 DEF LogShut
    <3> QED
      BY <1>3, <3>1, <3>4
  <2>10. h = "filemon" => use'["dir"] = "none"
    BY <1>3, <2>1 DEF ConsoleIncomplete, Resource
  <2>11. h = "gui" => use'["window"] = "none"
    BY <2>1 DEF ConsoleIncomplete
  <2>12. h = "service" => service' = "stopped"
    BY <1>1, <2>1 DEF ConsoleIncomplete
  <2>13. h = "exec" => port' = "none"
    BY <2>1 DEF ConsoleIncomplete
  <2>14. h = "iocp" => iocp' = "ended"
    BY <2>1 DEF ConsoleIncomplete
  <2> QED
    BY <2>2, <2>3, <2>4, <2>5, <2>6, <2>7, <2>8, <2>9, <2>10, <2>11, <2>12, <2>13, <2>14
    DEF Settled
<1>12. ConsoleSettles'
  <2>1. \A g \in completed' : Settled(g)'
    BY <1>2, <1>10, <1>11
  <2> QED
    BY <1>2, <1>9, <2>1 DEF ConsoleSettles
<1>13. LayerStands'
  <2>1. winsock /\ ~winsock' => NoSockets'
    BY <1>1, <1>6, NoSocketsCounted DEF StopsWinsock
  <2>2. buffers /\ ~buffers' => NoSockets'
    BY <1>1, <1>2, <1>6, RetrySettles DEF FreesBuffers
  <2>3. ~NoSockets' => ~NoSockets
    BY <1>6
  <2>4. /\ use'["inbound"] # "none" => use["inbound"] # "none"
        /\ use'["outbound"] \in {"open", "closing"} => use["outbound"] \in {"open", "closing"}
    BY <1>3 DEF Resource
  <2> QED
    BY <2>1, <2>2, <2>3, <2>4 DEF AppIInv, LayerStands, NoSockets
<1> QED
  BY <1>5, <1>7, <1>8, <1>12, <1>13, CallIs, CallStages DEF AppIInv

LEMMA AppIInvStep ==
    Core /\ AppIInv /\ [Next]_vars => AppIInv'
<1> SUFFICES ASSUME Core, AppIInv, [Next]_vars PROVE AppIInv'
  OBVIOUS
<1>1. CASE Main
  BY <1>1, InitializeKeeps, MainKeeps DEF Main
<1>2. CASE HandlerCalled
  <2>1. PICK h \in AppHandler : CallHandler(h)
    BY <1>2 DEF HandlerCalled
  <2>2. mode \in Phase
    BY <2>1, CallIs
  <2> QED
    BY <2>1, <2>2, ClientCallKeeps, ServerCallKeeps, ConsoleCallKeeps DEF Phase
<1> QED
  BY <1>1, <1>2, MainKeeps, ShutdownTimerKeeps, LimitKeeps, ProgramPeerKeep,
     IoOwnerKeep, ThreadsKeep DEF Next

\* The inductive invariant of the application, over that of the shutdown.
LEMMA AppInductive == Spec => []AppIInv
<1>1. Spec => []Core
  <2>1. ShutdownSpec => []Core
    BY CoreInit, CoreStep, PTL DEF ShutdownSpec
  <2> QED
    BY <2>1, AppImplementsShutdown, PTL
<1>2. Spec => [][Next]_vars
  BY PTL DEF Spec
<1> QED
  BY <1>1, <1>2, AppIInvInit, AppIInvStep, PTL DEF Spec

\* The completion port, Winsock and the registered buffers outlive the I/O, the
\* sockets and the transfers that need them, however the shutdown goes.
THEOREM AppLayersOutliveUse == Spec => []LayersOutliveUse
  BY AppInductive, AppIInvSuffices, PTL

\* When iShutdownDestroy has returned nothing is left.
THEOREM AppStoppedIsClean == Spec => []StoppedIsClean
  BY AppInductive, AppIInvSuffices, PTL
=============================================================================
