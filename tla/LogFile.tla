------------------------------- MODULE LogFile -------------------------------
(***************************************************************************)
(* The log file of an application: LogFile of app/logfile.cpp, with the    *)
(* writes of win/winfile.cpp it depends on.                                *)
(*                                                                         *)
(* Any thread logs.  There are two buffers: m_writing is with the system   *)
(* while one asynchronous write is under way, m_pending takes what comes   *)
(* meanwhile.  A write is started by a thread of the queue "File IO" and   *)
(* completed on the event thread, which logs an error if there was one     *)
(* before it calls onFileWrite.  A fatal message is written at once: its   *)
(* thread waits, with m_mut locked, until a File IO thread has started the *)
(* write and has run its completion, and then aborts the process.          *)
(*                                                                         *)
(* A message is its number in the order in which m_mut was taken for it.   *)
(* A critical section is one step; only the fatal message keeps m_mut over *)
(* several.  Messages below the log level are not there.  Habits switches  *)
(* on what the code does not survive:                                      *)
(*   "openFails"  the file can't be opened                                 *)
(*   "syncFails"  the write of the fatal message fails                     *)
(*   "errors"     several File IO threads have errors to log at one time   *)
(*   "late"       something is logged after the log was closed             *)
(***************************************************************************)
EXTENDS Naturals, Sequences, FiniteSets

CONSTANTS
    IoThread,   \* the threads of the queue "File IO"
    MaxPending, \* messages that fit in kLogBufferSize
    MaxMsgs,    \* bound: messages logged
    Habits

ASSUME LogAssumption ==
    /\ IsFiniteSet(IoThread) /\ Cardinality(IoThread) > 1
    /\ MaxPending \in Nat \ {0} /\ MaxMsgs \in Nat
    /\ Habits \subseteq {"openFails", "syncFails", "errors", "late"}

VARIABLES
    file,    \* m_file: "none" or "open"
    writing, \* m_writing
    pending, \* m_pending
    closing, \* m_closing
    async,   \* the FileWriter of fileAppend
    handed,  \* what m_writing was when that was called
    sync,    \* the FileWriter of fileAppendWait
    io,      \* what each File IO thread is doing: "idle", or about to log an
             \* "error" of somebody else's file or the "syncError" of this one
    fatal,   \* the fatal message: "no", "append" (its thread is waiting and
             \* has m_mut), "logged" or "aborted"
    urgent,  \* its number
    shut,    \* closeLog was not called, has returned false, or true
    count,   \* messages so far
    disk,    \* what is in the file: a sequence of sets
    lost     \* dropped for want of room, or with a write that failed

buffers == <<file, writing, pending, closing>>
vars == <<buffers, async, handed, sync, io, fatal, urgent, shut, count, disk, lost>>

Init ==
    /\ file = "none" /\ closing = FALSE
    /\ writing = {} /\ pending = {} /\ handed = {}
    /\ async = "none" /\ sync = "none"
    /\ io = [i \in IoThread |-> "idle"]
    /\ fatal = "no" /\ urgent = 0
    /\ shut = "no"
    /\ count = 0 /\ disk = <<>> /\ lost = {}

Alive == fatal # "aborted"
Locked == fatal = "append"
OnDisk == UNION {disk[k] : k \in DOMAIN disk}

\* The bound leaves room for the errors that are going to be logged.
Owed == Cardinality({i \in IoThread : io[i] # "idle"})
        + IF async \in {"posted", "failed"} THEN 1 ELSE 0
Room == count + Owed < MaxMsgs

\* The log is closed when whatever could log has ended.
InTime == shut # "done" \/ "late" \in Habits

------------------------------------------------------------------------------
(* LogFile::writeLog                                                         *)

\* Nothing is under way: the message goes to m_writing, and the file is opened
\* if it has to be. The error message about a file that can't be opened comes
\* from a thread that is logging already, and is dropped (core/log.cpp:79).
CanOpen == IF "openFails" \in Habits /\ file = "none" THEN BOOLEAN ELSE {TRUE}

Begin(m, opened) ==
    /\ writing = {}
    /\ writing' = {m}
    /\ file' = IF opened THEN "open" ELSE "none"
    /\ closing' = (closing /\ file = "open")
    /\ UNCHANGED <<pending, lost>>

\* A mutant of Queue: the message is appended to the buffer that is with the
\* system.
QueueInPlace(m) ==
    /\ writing # {}
    /\ writing' = writing \cup {m}
    /\ UNCHANGED <<file, pending, closing, lost>>

\* A write is under way. When the message does not fit the others are dropped.
Queue(m) ==
    /\ writing # {}
    /\ IF Cardinality(pending) < MaxPending
         THEN pending' = pending \cup {m} /\ UNCHANGED lost
         ELSE pending' = {m} /\ lost' = lost \cup pending
    /\ UNCHANGED <<file, writing, closing>>

WriteLog ==
    LET m == count + 1 IN
    /\ ~Locked
    /\ count' = m
    /\ \/ \E opened \in CanOpen :
              /\ Begin(m, opened)
              /\ IF opened THEN async' = "queued" /\ handed' = {m}
                           ELSE UNCHANGED <<async, handed>>
       \/ Queue(m) /\ UNCHANGED <<async, handed>>

Log ==
    /\ Alive /\ Room /\ InTime
    /\ WriteLog
    /\ UNCHANGED <<sync, io, fatal, urgent, shut, disk>>

\* The same with wait. Without a file fileAppendWait uses a null pointer.
LogFatal ==
    LET m == count + 1 IN
    /\ fatal = "no" /\ Room /\ InTime
    /\ count' = m /\ urgent' = m
    /\ \/ \E opened \in CanOpen :
              /\ Begin(m, opened)
              /\ IF opened THEN sync' = "queued" /\ fatal' = "append"
                           ELSE UNCHANGED sync /\ fatal' = "logged"
       \/ /\ Queue(m)
          /\ IF file = "open" THEN sync' = "queued" /\ fatal' = "append"
                              ELSE UNCHANGED sync /\ fatal' = "aborted"
    /\ UNCHANGED <<async, handed, io, shut, disk>>

\* The buffer that is written at once: m_pending if m_writing is with the
\* system.
SyncBuffer == IF async = "none" THEN writing ELSE pending

FatalResumes ==
    /\ Alive /\ sync = "told"
    /\ sync' = "none" /\ fatal' = "logged"
    /\ IF async = "none" THEN writing' = {} /\ UNCHANGED pending
                         ELSE pending' = {} /\ UNCHANGED writing
    /\ UNCHANGED <<file, closing, async, handed, io, urgent, shut, count, disk, lost>>

\* ~LogMsgScope
Abort ==
    /\ fatal = "logged"
    /\ fatal' = "aborted"
    /\ UNCHANGED <<buffers, async, handed, sync, io, urgent, shut, count, disk, lost>>

------------------------------------------------------------------------------
(* The writes: IFileOpBase and FileWriter                                    *)

\* A File IO thread takes the first task of its queue.
AsyncStarts ==
    /\ Alive /\ async = "queued"
    /\ \E i \in IoThread : io[i] = "idle"
    /\ async' = "posted"
    /\ UNCHANGED <<buffers, handed, sync, io, fatal, urgent, shut, count, disk, lost>>

SyncStarts ==
    /\ Alive /\ sync = "queued" /\ async # "queued"
    /\ \E i \in IoThread : io[i] = "idle"
    /\ sync' = "posted"
    /\ UNCHANGED <<buffers, async, handed, io, fatal, urgent, shut, count, disk, lost>>

AsyncWritten ==
    /\ Alive /\ async = "posted"
    /\ async' = "written" /\ disk' = Append(disk, handed)
    /\ UNCHANGED <<buffers, handed, sync, io, fatal, urgent, shut, count, lost>>

AsyncFails ==
    /\ Alive /\ async = "posted"
    /\ count + Owed <= MaxMsgs
    /\ async' = "failed"
    /\ UNCHANGED <<buffers, handed, sync, io, fatal, urgent, shut, count, disk, lost>>

SyncResult == {"written"} \cup {"failed" : h \in Habits \cap {"syncFails"}}

SyncDone ==
    /\ Alive /\ sync = "posted"
    /\ sync' \in SyncResult
    /\ disk' = IF sync' = "written" THEN Append(disk, SyncBuffer) ELSE disk
    /\ UNCHANGED <<buffers, async, handed, io, fatal, urgent, shut, count, lost>>

\* The completion of the synchronous write: the thread that waits is woken, but
\* not before an error has been logged.
SyncEnds(i) ==
    /\ Alive /\ io[i] = "idle" /\ sync \in {"written", "failed"}
    /\ IF sync = "written"
         THEN sync' = "told" /\ UNCHANGED io
         ELSE sync' = "failing" /\ io' = [io EXCEPT ![i] = "syncError"]
    /\ UNCHANGED <<buffers, async, handed, fatal, urgent, shut, count, disk, lost>>

\* Something else goes wrong in a File IO thread.
OtherFails(i) ==
    /\ Alive /\ Room /\ shut = "no"
    /\ io[i] = "idle"
    /\ "errors" \in Habits \/ \A j \in IoThread : io[j] = "idle"
    /\ io' = [io EXCEPT ![i] = "error"]
    /\ UNCHANGED <<buffers, async, handed, sync, fatal, urgent, shut, count, disk, lost>>

IoLogs(i) ==
    /\ Alive /\ io[i] # "idle"
    /\ WriteLog
    /\ io' = [io EXCEPT ![i] = "idle"]
    /\ sync' = IF io[i] = "syncError" THEN "told" ELSE sync
    /\ UNCHANGED <<fatal, urgent, shut, disk>>

------------------------------------------------------------------------------
(* The event thread                                                          *)

\* IFileOpBase::onTask of a write that failed.
LogFailure ==
    /\ Alive /\ ~Locked /\ async = "failed"
    /\ Queue(count + 1) /\ count' = count + 1
    /\ async' = "noted"
    /\ UNCHANGED <<handed, sync, io, fatal, urgent, shut, disk>>

\* Mutants of NextWrite: m_pending is not cleared, a file that is being closed
\* is closed with something in the buffer.
NextWriteKeeps ==
    /\ writing' = pending
    /\ pending' = writing
    /\ IF pending = {}
         THEN /\ async' = "none" /\ handed' = {}
              /\ file' = IF closing THEN "none" ELSE file
         ELSE async' = "queued" /\ handed' = pending /\ UNCHANGED file

NextWriteCloses ==
    /\ writing' = pending
    /\ pending' = {}
    /\ IF pending = {} \/ closing
         THEN /\ async' = "none" /\ handed' = {}
              /\ file' = IF closing THEN "none" ELSE file
         ELSE async' = "queued" /\ handed' = pending /\ UNCHANGED file

\* The buffers are swapped; the file is closed if nothing came meanwhile.
NextWrite ==
    /\ writing' = pending
    /\ pending' = {}
    /\ IF pending = {}
         THEN /\ async' = "none" /\ handed' = {}
              /\ file' = IF closing THEN "none" ELSE file
         ELSE async' = "queued" /\ handed' = pending /\ UNCHANGED file

OnFileWrite ==
    /\ Alive /\ ~Locked /\ async \in {"written", "noted"}
    /\ NextWrite
    /\ lost' = IF async = "noted" THEN lost \cup writing ELSE lost
    /\ UNCHANGED <<closing, sync, io, fatal, urgent, shut, count, disk>>

\* The handler of the console phase calls it again until it returns true. By
\* then the File IO threads have nothing else to do.
CloseLog ==
    /\ Alive /\ ~Locked /\ shut # "done"
    /\ \A i \in IoThread : io[i] = "idle"
    /\ IF writing = {}
         THEN file' = "none" /\ shut' = "done" /\ UNCHANGED closing
         ELSE closing' = TRUE /\ shut' = "asked" /\ UNCHANGED file
    /\ UNCHANGED <<writing, pending, async, handed, sync, io, fatal, urgent, count,
                   disk, lost>>

Retry == shut = "asked" /\ CloseLog

------------------------------------------------------------------------------
FatalThread == LogFatal \/ FatalResumes \/ Abort
EventThread == LogFailure \/ OnFileWrite \/ CloseLog
IoStart == AsyncStarts \/ SyncStarts
System == AsyncWritten \/ AsyncFails \/ SyncDone
IoStep(i) == SyncEnds(i) \/ IoLogs(i)

Next ==
    \/ Log \/ FatalThread \/ EventThread \/ IoStart \/ System
    \/ \E i \in IoThread : IoStep(i) \/ OtherFails(i)

Spec == Init /\ [][Next]_vars

\* Threads run, a write is done or fails, and closeLog is tried again.
Fairness ==
    /\ WF_vars(FatalResumes \/ Abort) /\ WF_vars(LogFailure \/ OnFileWrite)
    /\ WF_vars(Retry) /\ WF_vars(IoStart) /\ WF_vars(System)
    /\ \A i \in IoThread : WF_vars(IoStep(i))

LiveSpec == Spec /\ Fairness

------------------------------------------------------------------------------
(***************************************************************************)
(* Properties.                                                             *)
(***************************************************************************)

TypeOK ==
    /\ file \in {"none", "open"} /\ closing \in BOOLEAN
    /\ count \in Nat /\ urgent \in 0 .. count
    /\ writing \subseteq 1 .. count /\ pending \subseteq 1 .. count
    /\ lost \subseteq 1 .. count
    /\ disk \in Seq(SUBSET (1 .. count))
    /\ async \in {"none", "queued", "posted", "written", "failed", "noted"}
    /\ sync \in {"none", "queued", "posted", "written", "failed", "failing", "told"}
    /\ io \in [IoThread -> {"idle", "error", "syncError"}]
    /\ fatal \in {"no", "append", "logged", "aborted"}
    /\ shut \in {"no", "asked", "done"}

\* m_writing is not touched while the system reads it, and there is a write
\* under way whenever it is not empty, or nobody would ever empty it again. A
\* file that is not open is written to by no one, and m_pending is used only
\* behind a write.
BuffersConsistent ==
    /\ async # "none" => handed = writing /\ writing # {}
    /\ writing # {} => async # "none" \/ fatal = "append"
    /\ file = "none" => writing = {}
    /\ pending # {} => async # "none"
    /\ closing /\ file = "open" => writing # {}

\* The fatal message has m_mut exactly while its write is under way, is in the
\* buffer that is written, and does not meet a file that is about to be closed.
FatalHasLock ==
    /\ Locked <=> sync # "none"
    /\ Locked => urgent \in SyncBuffer
    /\ Locked /\ async = "none" => ~closing
    /\ \A i \in IoThread : io[i] = "syncError" => sync = "failing"
    /\ fatal = "no" <=> urgent = 0

\* When closeLog has returned true the log stays closed, with nothing unwritten.
ClosedForGood ==
    shut = "done" =>
        /\ file = "none" /\ fatal \notin {"append"}
        /\ \A i \in IoThread : io[i] = "idle"

\* LogFile and its writes agree, in all of these respects.
LogIInv == TypeOK /\ BuffersConsistent /\ FatalHasLock /\ ClosedForGood

\* The last write has been done and its buffer not been given up yet.
Landed == IF async = "written" THEN writing ELSE {}

\* Messages are written in the order in which they were logged, each of them
\* once, as long as there is no fatal message, which overtakes what is being
\* written.
InOrder ==
    fatal = "no" =>
        /\ \A k, l \in DOMAIN disk :
               k < l => \A m \in disk[k], n \in disk[l] : m < n
        /\ \A m \in OnDisk \ Landed, n \in writing : m < n
        /\ \A m \in OnDisk \cup writing, n \in pending : m < n

\* No message vanishes: it is in the file or in a buffer, or was dropped for
\* want of room or with a write that failed, and those are not in the file.
Accounted ==
    /\ 1 .. count = OnDisk \cup writing \cup pending \cup lost
    /\ lost \cap (OnDisk \cup writing \cup pending) = {}

\* What has been written at once, and nobody has been told of it yet.
Synced == IF sync \in {"written", "told"} THEN SyncBuffer ELSE {}

\* No message is in two places, but between the end of a write and the moment
\* its buffer is cleared.
Apart ==
    /\ writing \cap pending = {}
    /\ async \in {"queued", "posted", "failed", "noted"} => writing \cap OnDisk = {}
    /\ (pending \ Synced) \cap OnDisk = {}

\* What was written is in the file, and the process is not aborted before its
\* fatal message is.
FatalOnDisk ==
    /\ Landed \cup Synced \subseteq OnDisk
    /\ fatal \in {"logged", "aborted"} => urgent \in OnDisk

\* All that a log promises of its messages.
LogKept == InOrder /\ Accounted /\ Apart /\ FatalOnDisk

\* closeLog returns true in the end, with m_mut never locked for good: a fatal
\* message does abort the process. "Returns true if close completed, otherwise
\* try again until no more writes are pending" (logfile.cpp:36).
LogSettles ==
    /\ shut = "asked" ~> (shut = "done" \/ ~Alive)
    /\ fatal # "no" ~> fatal = "aborted"
=============================================================================
