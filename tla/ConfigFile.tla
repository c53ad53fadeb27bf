------------------------------ MODULE ConfigFile ------------------------------
(* One monitored configuration file: the ConfigFile of app/config.cpp with    *)
(* its list of notifiers, and the FileInfo and the timer of the DirInfo that  *)
(* watches the configuration directory (win/winfilemon.cpp).                  *)
(*                                                                            *)
(* Both files run callbacks with their mutex released, one at a time, and say *)
(* which thread is in one in s_inThread: whoever comes meanwhile waits on a   *)
(* condition variable. The two flags nest: a thread that was called by the    *)
(* file monitor (fileThread) goes on to call the notifiers of the             *)
(* configuration file (inThread).                                             *)
(*                                                                            *)
(* A step is a critical section. Handlers may close notifiers of the file     *)
(* and make no other call; the file's owner closes a notifier before it  *)
(* closes the last one for good. Habits switches on what the code does not    *)
(* survive:                                                                   *)
(*   "reopen"     monitor the file again after its last notifier was closed   *)
(*   "busy"       the file can't be opened when it is read, because its       *)
(*                writer still has it open                                    *)
(*   "closeSelf"  close a notifier in its own handler                         *)
EXTENDS Naturals, Sequences, SequencesExt

CONSTANTS Notifiers,   \* the IConfigNotify objects, registered once each
          Threads,     \* threads that call the functions of config.h
          Event,       \* the event thread: timers and completions run on it
          None, Mark,  \* a null pointer; the marker of notify_UNLK
          MaxDisk,     \* bound: versions of the file
          MaxCalls,    \* bound: explicit calls of configChange
          Habits

ASSUME ConfigAssumption ==
    /\ Event \in Threads
    /\ MaxDisk \in Nat \ {0} /\ MaxCalls \in Nat
    /\ Habits \subseteq {"reopen", "busy", "closeSelf"}
    /\ None \notin Threads \cup Notifiers \cup {Mark}
    /\ Mark \notin Notifiers

VARIABLES
    disk,        \* version of the file on disk; stands for its mtime too
    notice,      \* ReadDirectoryChangesW has something to report
    armed,       \* the timer of the DirInfo is running
    seen,        \* FileInfo.mtime
    watched,     \* the ConfigFile is in FileInfo.notifiers
    fileThread,  \* s_inThread of winfilemon.cpp
    content,     \* m_content: the version that was read, 0 for nothing
    xml,         \* m_xml: the version that was parsed
    list,        \* m_notifiers
    inThread,    \* s_inThread of config.cpp
    inNotify,    \* s_inNotify of config.cpp
    at,          \* where each thread is
    who,         \* its argument: the notifier, None for all of them
    told,        \* version each notifier was last called with
    used,        \* notifiers that have been registered
    calls        \* calls of configChange so far

fileVars == <<disk, notice, armed, seen, watched>>
vars == <<fileVars, fileThread, content, xml, list, inThread, inNotify, at,
          who, told, used, calls>>

Versions == 0 .. MaxDisk
Places == {"idle", "add", "fileWait", "read", "change", "notify", "told",
           "close"}

TypeOK ==
    /\ disk \in Versions /\ seen \in Versions
    /\ content \in Versions /\ xml \in Versions
    /\ notice \in BOOLEAN /\ armed \in BOOLEAN /\ watched \in BOOLEAN
    /\ fileThread \in Threads \cup {None}
    /\ inThread \in Threads \cup {None}
    /\ inNotify \in Notifiers \cup {None}
    /\ ToSet(list) \subseteq Notifiers \cup {Mark} /\ IsInjective(list)
    /\ at \in [Threads -> Places]
    /\ who \in [Threads -> Notifiers \cup {None}]
    /\ told \in [Notifiers -> Versions]
    /\ used \subseteq Notifiers /\ calls \in 0 .. MaxCalls
    \* the marker is in the list exactly while a thread runs the callbacks
    /\ Mark \in ToSet(list) <=> inThread # None

Init ==
    /\ disk = 1 /\ seen = 0 /\ content = 0 /\ xml = 0
    /\ notice = FALSE /\ armed = FALSE /\ watched = FALSE
    /\ fileThread = None /\ inThread = None /\ inNotify = None
    /\ list = <<>>
    /\ at = [t \in Threads |-> "idle"]
    /\ who = [t \in Threads |-> None]
    /\ told = [n \in Notifiers |-> 0]
    /\ used = {} /\ calls = 0

-------------------------------------------------------------------------------
(* The walk of ConfigFile::notify_UNLK                                        *)

\* Where x is linked, and the list when it is no longer.
Pos(l, x) == CHOOSE i \in DOMAIN l : l[i] = x
Without(l, x) == IF x \in ToSet(l) THEN RemoveAt(l, Pos(l, x)) ELSE l

\* The callback of x, without the lock, with the document as it is now.
Call(t, n, x, doc) ==
    /\ inThread' = t /\ inNotify' = x
    /\ at' = [at EXCEPT ![t] = "told"]
    /\ who' = [who EXCEPT ![t] = n]
    /\ told' = [told EXCEPT ![x] = doc]
    /\ UNCHANGED fileThread

\* A mutant of Finish: the file monitor is not left.
FinishStays(t, l) ==
    /\ list' = Without(l, Mark)
    /\ inThread' = None /\ inNotify' = None
    /\ at' = [at EXCEPT ![t] = "idle"]
    /\ who' = [who EXCEPT ![t] = None]
    /\ UNCHANGED <<fileThread, told>>

\* The marker goes, the flags are cleared and whoever waits is woken. A thread
\* that came through the file monitor leaves that as well. (The ConfigFile
\* stays in s_files, even with no notifier left: the key there is the path in
\* the configuration directory and not m_fullpath.)
Finish(t, l) ==
    /\ list' = Without(l, Mark)
    /\ inThread' = None /\ inNotify' = None
    /\ at' = [at EXCEPT ![t] = "idle"]
    /\ who' = [who EXCEPT ![t] = None]
    /\ fileThread' = IF fileThread = t THEN None ELSE fileThread
    /\ UNCHANGED told

\* The loop from the marker on: it moves up to the next notifier asked for.
Walk(t, n, l, doc) ==
    LET asked == {i \in DOMAIN l : i > Pos(l, Mark) /\ n \in {None, l[i]}}
        j == Min(asked)
    IN  IF asked = {}
        THEN Finish(t, l)
        ELSE /\ list' = InsertAt(Without(l, Mark), j - 1, Mark)
             /\ Call(t, n, l[j], doc)

\* notify_UNLK: wait while another thread is in a callback.
Notify(t, n, l, doc) ==
    IF inThread = None
    THEN Walk(t, n, <<Mark>> \o l, doc)
    ELSE /\ list' = l
         /\ at' = [at EXCEPT ![t] = "notify"]
         /\ who' = [who EXCEPT ![t] = n]
         /\ UNCHANGED <<fileThread, inThread, inNotify, told>>

\* The wait of notify_UNLK ends.
NotifyWoken(t) ==
    /\ at[t] = "notify" /\ inThread = None
    /\ Walk(t, who[t], <<Mark>> \o list, xml)
    /\ UNCHANGED <<fileVars, content, xml, used, calls>>

\* The list with n, which was called, linked before the marker: n was behind
\* it, or was closed by its handler, is deleted, and is back in the list (and
\* that only as long as nobody uses its memory for something else).
Passed(l, n) ==
    IF n \in ToSet(l)
    THEN InsertAt(Without(l, Mark), Pos(l, Mark) + 1, Mark)
    ELSE InsertAt(l, Pos(l, Mark), n)

\* onConfigChange returns and the lock is taken again; a call that names its
\* notifier is over after one callback.
Told(t) ==
    /\ at[t] = "told"
    /\ IF who[t] # None
       THEN Finish(t, list)
       ELSE Walk(t, None, Passed(list, inNotify), xml)
    /\ UNCHANGED <<fileVars, content, xml, used, calls>>

-------------------------------------------------------------------------------
(* The functions of config.h                                                  *)

\* configMonitor: the first notifier of the file has the file monitored, the
\* others are called at once.
Monitor(t, n) ==
    /\ at[t] = "idle" /\ n \notin used
    /\ "reopen" \in Habits \/ list # <<>> \/ ~watched
    /\ used' = used \cup {n}
    /\ IF list = <<>>
       THEN /\ list' = <<n>>
            /\ at' = [at EXCEPT ![t] = "add"]
            /\ UNCHANGED <<fileThread, inThread, inNotify, who, told>>
       ELSE Notify(t, n, Append(list, n), xml)
    /\ UNCHANGED <<fileVars, content, xml, calls>>

\* closeWait_UNLK once no other thread is in a callback.
CloseNow(t, n) ==
    /\ list' = Without(list, n)
    /\ at' = [at EXCEPT ![t] = "idle"]
    /\ who' = [who EXCEPT ![t] = None]

\* Mutant of CloseWait: it doesn't wait.
CloseWaitNot(t, n) ==
    /\ at[t] = "idle" /\ n \in ToSet(list)
    /\ CloseNow(t, n)
    /\ UNCHANGED <<fileVars, fileThread, content, xml, inThread, inNotify,
                   told, used, calls>>

\* configCloseWait: wait while another thread is in a callback, of whichever
\* notifier.
CloseWait(t, n) ==
    /\ at[t] = "idle" /\ n \in ToSet(list)
    /\ IF inThread = None
       THEN CloseNow(t, n)
       ELSE /\ at' = [at EXCEPT ![t] = "close"]
            /\ who' = [who EXCEPT ![t] = n]
            /\ UNCHANGED list
    /\ UNCHANGED <<fileVars, fileThread, content, xml, inThread, inNotify,
                   told, used, calls>>

\* The wait of closeWait_UNLK ends.
CloseWoken(t) ==
    /\ at[t] = "close" /\ inThread = None
    /\ CloseNow(t, who[t])
    /\ UNCHANGED <<fileVars, fileThread, content, xml, inThread, inNotify,
                   told, used, calls>>

\* configCloseWait inside of a handler: no wait.
CloseInHandler(t, n) ==
    /\ at[t] = "told" /\ n \in ToSet(list)
    /\ "closeSelf" \in Habits \/ n # inNotify
    /\ list' = Without(list, n)
    /\ UNCHANGED <<fileVars, fileThread, content, xml, inThread, inNotify, at,
                   who, told, used, calls>>

\* configChange(file, n) by the program: parse what was read, tell n or all.
\* (reparse_LK comes before the wait, a handler may be using the document.)
ConfigChange(t, n) ==
    /\ at[t] = "idle" /\ calls < MaxCalls /\ used # {}
    /\ calls' = calls + 1
    /\ xml' = content
    /\ Notify(t, n, list, content)
    /\ UNCHANGED <<fileVars, content, used>>

-------------------------------------------------------------------------------
(* The file monitor                                                           *)

\* One callback at a time here too.
FileNotify(t) ==
    IF fileThread = None
    THEN fileThread' = t /\ at' = [at EXCEPT ![t] = "read"]
    ELSE at' = [at EXCEPT ![t] = "fileWait"] /\ UNCHANGED fileThread

\* The wait in addMonitor_UNLK or onTimer ends.
FileWoken(t) ==
    /\ at[t] = "fileWait" /\ fileThread = None
    /\ FileNotify(t)
    /\ UNCHANGED <<fileVars, content, xml, list, inThread, inNotify, who, told,
                   used, calls>>

\* addMonitor_UNLK: note the file's time, then have it read; nothing when the
\* ConfigFile already monitors it.
AddMonitor(t) ==
    /\ at[t] = "add"
    /\ IF watched
       THEN /\ at' = [at EXCEPT ![t] = "idle"]
            /\ UNCHANGED <<seen, watched, fileThread>>
       ELSE /\ seen' = disk /\ watched' = TRUE
            /\ FileNotify(t)
    /\ UNCHANGED <<disk, notice, armed, content, xml, list, inThread, inNotify,
                   who, told, used, calls>>

\* ConfigFile::onFileChange reads the file; it is left empty when it can't.
ReadFile(t) ==
    /\ at[t] = "read"
    /\ \/ content' = disk
       \/ "busy" \in Habits /\ content' = 0
    /\ at' = [at EXCEPT ![t] = "change"]
    /\ UNCHANGED <<fileVars, fileThread, xml, list, inThread, inNotify, who,
                   told, used, calls>>

\* Mutant of ParseContent: the time of the file is noted after it was read.
ParseContentDated(t) ==
    /\ at[t] = "change"
    /\ seen' = disk
    /\ xml' = content
    /\ Notify(t, None, list, content)
    /\ UNCHANGED <<disk, notice, armed, watched, content, used, calls>>

\* parseContent ends in configChange(m_fullpath, nullptr).
ParseContent(t) ==
    /\ at[t] = "change"
    /\ xml' = content
    /\ Notify(t, None, list, content)
    /\ UNCHANGED <<fileVars, content, used, calls>>

\* Somebody writes the file.
DiskChanges ==
    /\ disk < MaxDisk
    /\ disk' = disk + 1 /\ notice' = TRUE
    /\ UNCHANGED <<armed, seen, watched, fileThread, content, xml, list,
                   inThread, inNotify, at, who, told, used, calls>>

\* DirInfo::onTask: ask for the next report and start the timer.
OnTask ==
    /\ at[Event] = "idle" /\ notice
    /\ notice' = FALSE /\ armed' = TRUE
    /\ UNCHANGED <<disk, seen, watched, fileThread, content, xml, list,
                   inThread, inNotify, at, who, told, used, calls>>

\* DirInfo::onTimer: a file whose time has changed is reported, once nobody
\* else is in a callback of the file monitor.
OnTimer ==
    /\ at[Event] = "idle" /\ armed
    /\ armed' = FALSE
    /\ IF watched /\ disk # seen
       THEN seen' = disk /\ FileNotify(Event)
       ELSE UNCHANGED <<seen, fileThread, at>>
    /\ UNCHANGED <<disk, notice, watched, content, xml, list, inThread,
                   inNotify, who, told, used, calls>>

-------------------------------------------------------------------------------
\* What a thread does once it is in a call.
Proceed(t) ==
    \/ NotifyWoken(t) \/ Told(t) \/ CloseWoken(t)
    \/ FileWoken(t) \/ AddMonitor(t) \/ ReadFile(t) \/ ParseContent(t)

Next ==
    \/ \E t \in Threads, n \in Notifiers :
          Monitor(t, n) \/ CloseWait(t, n) \/ CloseInHandler(t, n)
    \/ \E t \in Threads, n \in Notifiers \cup {None} : ConfigChange(t, n)
    \/ \E t \in Threads : Proceed(t)
    \/ DiskChanges \/ OnTask \/ OnTimer

Spec == Init /\ [][Next]_vars

\* Handlers return, threads run, and so do the completions and the timers of
\* the event thread. Nothing makes a program call or a file change.
Fairness == WF_vars(OnTask) /\ WF_vars(OnTimer)
            /\ \A t \in Threads : WF_vars(Proceed(t))
LiveSpec == Spec /\ Fairness

-------------------------------------------------------------------------------
\* Once configCloseWait is through with a notifier (and its owner may delete
\* it) no thread is in its onConfigChange, and none will call it.
ClosedIsQuiet == inNotify # None => inNotify \in ToSet(list)

\* The list, with the marker in it, and the callback in progress agree.
WalkConsistent == TypeOK /\ ClosedIsQuiet

\* The list stays valid if notifiers are removed while the handlers run: one
\* that was closed (it was registered, and is in the list no longer) is never
\* in it again. It fails with Habits = {"closeSelf"}: notify_UNLK links the
\* notifier that was called before the marker, deleted or not.
ClosedStaysClosed ==
    [][\A n \in used : n \notin ToSet(list) => n \notin ToSet(list')]_vars

\* When the last report and the last call have been dealt with, every notifier
\* of the file has been given the file as it is on disk, whoever registered,
\* closed or wrote meanwhile.
ToldTheLatest ==
    (~notice /\ ~armed /\ \A t \in Threads : at[t] = "idle")
        => \A n \in ToSet(list) : told[n] = disk

\* Every call of these functions returns, whatever it has to wait for: there is
\* always somebody to end the callback it waits for and to wake it.
CallsReturn == \A t \in Threads : at[t] # "idle" ~> at[t] = "idle"

===============================================================================
