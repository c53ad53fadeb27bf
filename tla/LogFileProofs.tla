---------------------------- MODULE LogFileProofs ----------------------------
(***************************************************************************)
(* Proofs about the log file, for any number of File IO threads, any size  *)
(* of the buffer and any number of messages, as long as the file can be    *)
(* opened and nothing is logged once the log was closed.  Writes may fail, *)
(* that of the fatal message too.                                          *)
(***************************************************************************)
EXTENDS LogFile, TLAPS

Healthy == Habits \cap {"openFails", "late"} = {}

LEMMA Opens == ASSUME Healthy PROVE CanOpen = {TRUE}
  BY DEF Healthy, CanOpen

\* What writeLog does to the buffers, in either of its branches.
LEMMA WriteLogCases ==
    ASSUME Healthy, LogIInv, WriteLog
    PROVE  /\ ~Locked /\ count' = count + 1
           /\ \/ /\ writing = {} /\ writing' = {count + 1} /\ file' = "open"
                 /\ async' = "queued" /\ handed' = {count + 1} /\ ~closing'
                 /\ UNCHANGED <<pending, lost>>
              \/ /\ Queue(count + 1) /\ UNCHANGED <<async, handed>>
<1>1. CASE Queue(count + 1) /\ UNCHANGED <<async, handed>>
  BY <1>1 DEF WriteLog
<1>2. CASE \E opened \in CanOpen :
              /\ Begin(count + 1, opened)
              /\ IF opened THEN async' = "queued" /\ handed' = {count + 1}
                           ELSE UNCHANGED <<async, handed>>
  <2>1. Begin(count + 1, TRUE) /\ async' = "queued" /\ handed' = {count + 1}
    <3>1. PICK opened \in CanOpen :
              /\ Begin(count + 1, opened)
              /\ IF opened THEN async' = "queued" /\ handed' = {count + 1}
                           ELSE UNCHANGED <<async, handed>>
      BY <1>2
    <3>2. opened = TRUE
      BY <3>1, Opens
    <3> QED
      BY <3>1, <3>2, Zenon
  <2>2. ~closing'
    BY <2>1 DEF Begin, LogIInv, BuffersConsistent
  <2> QED
    BY <2>1, <2>2 DEF Begin, WriteLog
<1> QED
  BY <1>1, <1>2 DEF WriteLog

\* The types of what is there stay true when there are more messages.
LEMMA MoreMessages ==
    ASSUME TypeOK, count' \in Nat, count <= count', UNCHANGED disk
    PROVE  /\ 1 .. count \subseteq 1 .. count'
           /\ count' = count + 1 => {count + 1} \subseteq 1 .. count'
           /\ disk' \in Seq(SUBSET (1 .. count'))
<1>1. 1 .. count \subseteq 1 .. count'
  BY DEF TypeOK
<1>2. SUBSET (1 .. count) \subseteq SUBSET (1 .. count')
  BY <1>1
<1>3. \A k \in 1 .. Len(disk) : disk[k] \in SUBSET (1 .. count')
  BY <1>2 DEF TypeOK
<1>4. disk = [k \in 1 .. Len(disk) |-> disk[k]] /\ Len(disk) \in Nat
  BY DEF TypeOK
<1>5. count' = count + 1 => {count + 1} \subseteq 1 .. count'
  BY DEF TypeOK
<1> QED
  BY <1>1, <1>3, <1>4, <1>5

LEMMA QueueTypes ==
    ASSUME TypeOK, Queue(count + 1), count' = count + 1
    PROVE  writing' \subseteq 1 .. count' /\ pending' \subseteq 1 .. count'
           /\ lost' \subseteq 1 .. count' /\ pending' # {}
<1>1. 1 .. count \subseteq 1 .. count' /\ {count + 1} \subseteq 1 .. count'
  BY DEF TypeOK
<1>2. writing \subseteq 1 .. count /\ pending \subseteq 1 .. count
      /\ lost \subseteq 1 .. count
  BY DEF TypeOK
<1>3. \/ pending' = pending \cup {count + 1} /\ lost' = lost
      \/ pending' = {count + 1} /\ lost' = lost \cup pending
  BY DEF Queue
<1>4. writing' = writing
  BY DEF Queue
<1> QED
  BY <1>1, <1>2, <1>3, <1>4

-----------------------------------------------------------------------------
(* The invariant of the buffers, action by action.                          *)

LEMMA LogStep ==
    ASSUME Healthy, LogIInv, Log
    PROVE  LogIInv'
<1> USE DEF LogIInv
<1>1. WriteLog /\ ~Locked /\ count' = count + 1 /\ shut # "done"
      /\ UNCHANGED <<sync, io, fatal, urgent, shut, disk>>
  BY DEF Log, WriteLog, InTime, Healthy
<1>2. count' \in Nat /\ count <= count'
  BY <1>1 DEF TypeOK
<1>3. TypeOK'
  <2>1. CASE Queue(count + 1) /\ UNCHANGED <<async, handed>>
    BY <1>1, <1>2, <2>1, MoreMessages, QueueTypes DEF TypeOK, Queue
  <2>2. CASE ~(Queue(count + 1) /\ UNCHANGED <<async, handed>>)
    <3>1. /\ writing' = {count + 1} /\ file' = "open" /\ async' = "queued"
          /\ ~closing' /\ UNCHANGED <<pending, lost>>
      BY <1>1, <2>2, WriteLogCases
    <3>2. closing' \in BOOLEAN
      BY <1>1, <2>2 DEF WriteLog, Begin
    <3> QED
      BY <1>1, <1>2, <3>1, <3>2, MoreMessages DEF TypeOK
  <2> QED
    BY <2>1, <2>2
<1>4. BuffersConsistent'
  BY <1>1, WriteLogCases DEF BuffersConsistent, Queue, Locked
<1>5. FatalHasLock'
  BY <1>1 DEF FatalHasLock, Locked
<1>6. ClosedForGood'
  BY <1>1 DEF ClosedForGood
<1> QED
  BY <1>3, <1>4, <1>5, <1>6

LEMMA IoLogsStep ==
    ASSUME Healthy, LogIInv, NEW i \in IoThread, IoLogs(i)
    PROVE  LogIInv'
<1> USE DEF LogIInv
<1>1. WriteLog /\ ~Locked /\ count' = count + 1
      /\ UNCHANGED <<fatal, urgent, shut, disk>>
      /\ io[i] # "idle" /\ io' = [io EXCEPT ![i] = "idle"]
  BY DEF IoLogs, WriteLog
<1>2. UNCHANGED sync /\ sync = "none"
  BY <1>1 DEF IoLogs, FatalHasLock
<1>3. count' \in Nat /\ count <= count'
  BY <1>1 DEF TypeOK
<1>4. shut # "done"
  BY <1>1 DEF ClosedForGood
<1>5. TypeOK'
  <2>1. CASE Queue(count + 1) /\ UNCHANGED <<async, handed>>
    BY <1>1, <1>2, <1>3, <2>1, MoreMessages, QueueTypes DEF TypeOK, Queue
  <2>2. CASE ~(Queue(count + 1) /\ UNCHANGED <<async, handed>>)
    <3>1. /\ writing' = {count + 1} /\ file' = "open" /\ async' = "queued"
          /\ ~closing' /\ UNCHANGED <<pending, lost>>
      BY <1>1, <2>2, WriteLogCases
    <3>2. closing' \in BOOLEAN
      BY <1>1, <2>2 DEF WriteLog, Begin
    <3> QED
      BY <1>1, <1>2, <1>3, <3>1, <3>2, MoreMessages DEF TypeOK
  <2> QED
    BY <2>1, <2>2
<1>6. BuffersConsistent'
  BY <1>1, WriteLogCases DEF BuffersConsistent, Queue, Locked
<1>7. FatalHasLock'
  BY <1>1, <1>2 DEF FatalHasLock, Locked, TypeOK
<1>8. ClosedForGood'
  BY <1>1, <1>4 DEF ClosedForGood
<1> QED
  BY <1>5, <1>6, <1>7, <1>8

LEMMA LogFatalStep ==
    ASSUME Healthy, LogIInv, LogFatal
    PROVE  LogIInv'
<1> USE DEF LogIInv
<1>1. fatal = "no" /\ count' = count + 1 /\ urgent' = count + 1 /\ shut # "done"
      /\ UNCHANGED <<async, handed, io, shut, disk>>
  BY DEF LogFatal, InTime, Healthy
<1>2. count' \in Nat /\ count <= count'
  BY <1>1 DEF TypeOK
<1>3. sync' = "queued" /\ fatal' = "append" /\ sync = "none"
      /\ (Begin(count + 1, TRUE) \/ (Queue(count + 1) /\ file = "open"))
  <2>1. sync = "none"
    BY <1>1 DEF FatalHasLock, Locked
  <2>2. CASE \E opened \in CanOpen :
                /\ Begin(count + 1, opened)
                /\ IF opened THEN sync' = "queued" /\ fatal' = "append"
                             ELSE UNCHANGED sync /\ fatal' = "logged"
    <3>1. PICK opened \in CanOpen :
                /\ Begin(count + 1, opened)
                /\ IF opened THEN sync' = "queued" /\ fatal' = "append"
                             ELSE UNCHANGED sync /\ fatal' = "logged"
      BY <2>2
    <3>2. opened = TRUE
      BY <3>1, Opens
    <3> QED
      BY <2>1, <3>1, <3>2, Zenon
  <2>3. CASE /\ Queue(count + 1)
             /\ IF file = "open" THEN sync' = "queued" /\ fatal' = "append"
                                 ELSE UNCHANGED sync /\ fatal' = "aborted"
    <3>1. file = "open"
      BY <2>3 DEF Queue, BuffersConsistent, TypeOK
    <3> QED
      BY <2>1, <2>3, <3>1
  <2> QED
    BY <2>2, <2>3 DEF LogFatal
<1>4. CASE Begin(count + 1, TRUE)
  <2>1. writing = {} /\ writing' = {count + 1} /\ file' = "open" /\ ~closing'
        /\ UNCHANGED <<pending, lost>> /\ async = "none"
    BY <1>4 DEF Begin, BuffersConsistent
  <2>2. TypeOK'
    <3>1. closing' \in BOOLEAN
      BY <1>4 DEF Begin
    <3> QED
      BY <1>1, <1>2, <1>3, <2>1, <3>1, MoreMessages DEF TypeOK
  <2>3. BuffersConsistent'
    BY <1>1, <1>3, <2>1 DEF BuffersConsistent
  <2>4. FatalHasLock'
    BY <1>1, <1>2, <1>3, <2>1 DEF FatalHasLock, Locked, SyncBuffer, TypeOK
  <2>5. ClosedForGood'
    BY <1>1 DEF ClosedForGood
  <2> QED
    BY <2>2, <2>3, <2>4, <2>5
<1>5. CASE Queue(count + 1) /\ file = "open"
  <2>1. async # "none" /\ count + 1 \in pending'
        /\ UNCHANGED <<file, writing, closing>>
    BY <1>1, <1>5 DEF Queue, BuffersConsistent
  <2>2. TypeOK'
    BY <1>1, <1>2, <1>3, <1>5, <2>1, MoreMessages, QueueTypes DEF TypeOK
  <2>3. BuffersConsistent'
    BY <1>1, <1>3, <2>1 DEF BuffersConsistent
  <2>4. FatalHasLock'
    BY <1>1, <1>2, <1>3, <2>1 DEF FatalHasLock, Locked, SyncBuffer, TypeOK
  <2>5. ClosedForGood'
    BY <1>1 DEF ClosedForGood
  <2> QED
    BY <2>2, <2>3, <2>4, <2>5
<1> QED
  BY <1>3, <1>4, <1>5

LEMMA FatalResumesStep ==
    ASSUME LogIInv, FatalResumes
    PROVE  LogIInv'
<1> USE DEF LogIInv
<1>1. TypeOK'
  BY DEF FatalResumes, TypeOK
<1>2. BuffersConsistent'
  BY DEF FatalResumes, BuffersConsistent, FatalHasLock, Locked
<1>3. FatalHasLock'
  BY DEF FatalResumes, FatalHasLock, Locked
<1>4. ClosedForGood'
  BY DEF FatalResumes, ClosedForGood
<1> QED
  BY <1>1, <1>2, <1>3, <1>4

LEMMA AbortStep ==
    ASSUME LogIInv, Abort
    PROVE  LogIInv'
  BY DEF LogIInv, Abort, buffers, TypeOK, BuffersConsistent, FatalHasLock,
         ClosedForGood, Locked

LEMMA LogFailureStep ==
    ASSUME LogIInv, LogFailure
    PROVE  LogIInv'
<1> USE DEF LogIInv
<1>1. ~Locked /\ async = "failed" /\ async' = "noted" /\ count' = count + 1
      /\ Queue(count + 1)
      /\ UNCHANGED <<handed, sync, io, fatal, urgent, shut, disk>>
  BY DEF LogFailure
<1>2. count' \in Nat /\ count <= count'
  BY <1>1 DEF TypeOK
<1>3. TypeOK'
  BY <1>1, <1>2, MoreMessages, QueueTypes DEF TypeOK, Queue
<1>4. BuffersConsistent'
  BY <1>1 DEF BuffersConsistent, Queue
<1>5. FatalHasLock' /\ ClosedForGood'
  BY <1>1 DEF FatalHasLock, ClosedForGood, Locked, Queue
<1> QED
  BY <1>3, <1>4, <1>5

LEMMA OnFileWriteStep ==
    ASSUME LogIInv, OnFileWrite
    PROVE  LogIInv'
<1> USE DEF LogIInv
<1>1. ~Locked /\ async # "none" /\ writing' = pending /\ pending' = {}
      /\ UNCHANGED <<closing, sync, io, fatal, urgent, shut, count, disk>>
  BY DEF OnFileWrite, NextWrite
<1>2. TypeOK'
  BY <1>1 DEF TypeOK, OnFileWrite, NextWrite
<1>3. BuffersConsistent'
  <2>1. CASE pending = {}
    BY <1>1, <2>1 DEF BuffersConsistent, OnFileWrite, NextWrite
  <2>2. CASE pending # {}
    BY <1>1, <2>2 DEF BuffersConsistent, OnFileWrite, NextWrite
  <2> QED
    BY <2>1, <2>2
<1>4. FatalHasLock'
  BY <1>1 DEF FatalHasLock, Locked
<1>5. shut # "done"
  BY <1>1 DEF ClosedForGood, BuffersConsistent
<1> QED
  BY <1>1, <1>2, <1>3, <1>4, <1>5 DEF ClosedForGood

LEMMA CloseLogStep ==
    ASSUME LogIInv, CloseLog
    PROVE  LogIInv'
<1> USE DEF LogIInv
<1>1. ~Locked /\ (\A i \in IoThread : io[i] = "idle")
      /\ UNCHANGED <<writing, pending, async, handed, sync, io, fatal, urgent,
                     count, disk, lost>>
  BY DEF CloseLog
<1>2. TypeOK'
  BY <1>1 DEF TypeOK, CloseLog
<1>3. BuffersConsistent'
  BY <1>1 DEF BuffersConsistent, CloseLog
<1>4. FatalHasLock'
  BY <1>1 DEF FatalHasLock, Locked
<1>5. ClosedForGood'
  BY <1>1 DEF ClosedForGood, CloseLog, Locked
<1> QED
  BY <1>2, <1>3, <1>4, <1>5

\* A step of the writes, and of the threads that carry them out, by itself.
LEMMA DiskGrows ==
    ASSUME TypeOK, NEW S \in SUBSET (1 .. count)
    PROVE  /\ Append(disk, S) \in Seq(SUBSET (1 .. count))
           /\ UNION {Append(disk, S)[k] : k \in DOMAIN Append(disk, S)}
                = OnDisk \cup S
<1> DEFINE D == Append(disk, S)
<1>1. D \in Seq(SUBSET (1 .. count)) /\ Len(D) = Len(disk) + 1
      /\ Len(disk) \in Nat /\ D[Len(disk) + 1] = S
      /\ DOMAIN D = 1 .. Len(disk) + 1 /\ DOMAIN disk = 1 .. Len(disk)
  BY DEF TypeOK
<1>2. \A k \in 1 .. Len(disk) : D[k] = disk[k]
  BY DEF TypeOK
<1>3. ASSUME NEW m PROVE m \in UNION {D[k] : k \in DOMAIN D} <=> m \in OnDisk \cup S
  BY <1>1, <1>2 DEF OnDisk
<1> HIDE DEF D
<1>4. UNION {D[k] : k \in DOMAIN D} = OnDisk \cup S
  BY <1>3
<1> QED
  BY <1>1, <1>4 DEF D

LEMMA IoStepStep ==
    ASSUME LogIInv,
           \/ IoStart \/ System
           \/ \E i \in IoThread : SyncEnds(i) \/ OtherFails(i)
    PROVE  LogIInv'
<1> USE DEF LogIInv
<1>1. UNCHANGED <<file, writing, pending, closing, handed, fatal, urgent, shut,
                  count, lost>>
  BY DEF IoStart, System, AsyncStarts, SyncStarts, AsyncWritten, AsyncFails,
         SyncDone, SyncEnds, OtherFails, buffers
<1>2. /\ async' \in {"none", "queued", "posted", "written", "failed", "noted"}
      /\ async' = "none" <=> async = "none"
  BY DEF IoStart, System, AsyncStarts, SyncStarts, AsyncWritten, AsyncFails,
         SyncDone, SyncEnds, OtherFails, TypeOK
<1>3. /\ sync' \in {"none", "queued", "posted", "written", "failed", "failing",
                    "told"}
      /\ sync' = "none" <=> sync = "none"
  BY DEF IoStart, System, AsyncStarts, SyncStarts, AsyncWritten, AsyncFails,
         SyncDone, SyncResult, SyncEnds, OtherFails, TypeOK
<1>4. disk' \in Seq(SUBSET (1 .. count))
  <2>1. handed \subseteq 1 .. count \/ async = "none"
    BY DEF TypeOK, BuffersConsistent
  <2>2. SyncBuffer \subseteq 1 .. count
    BY DEF TypeOK, SyncBuffer
  <2> QED
    BY <2>1, <2>2, DiskGrows DEF IoStart, System, AsyncStarts, SyncStarts,
       AsyncWritten, AsyncFails, SyncDone, SyncEnds, OtherFails, TypeOK
<1>5. io' \in [IoThread -> {"idle", "error", "syncError"}]
      /\ \A i \in IoThread : io'[i] = "syncError" => sync' = "failing"
  BY DEF IoStart, System, AsyncStarts, SyncStarts, AsyncWritten, AsyncFails,
         SyncDone, SyncEnds, OtherFails, TypeOK, FatalHasLock
<1>6. TypeOK'
  BY <1>1, <1>2, <1>3, <1>4, <1>5 DEF TypeOK
<1>7. BuffersConsistent'
  BY <1>1, <1>2 DEF BuffersConsistent
<1>8. FatalHasLock'
  BY <1>1, <1>2, <1>3, <1>5 DEF FatalHasLock, Locked, SyncBuffer
<1>9. ClosedForGood'
  <2>1. CASE shut = "done"
    <3>1. sync = "none"
      BY <2>1 DEF ClosedForGood, FatalHasLock, Locked
    <3>2. UNCHANGED io
      BY <2>1, <3>1 DEF IoStart, System, AsyncStarts, SyncStarts, AsyncWritten,
         AsyncFails, SyncDone, SyncEnds, OtherFails
    <3> QED
      BY <1>1, <3>2 DEF ClosedForGood
  <2>2. CASE shut # "done"
    BY <1>1, <2>2 DEF ClosedForGood
  <2> QED
    BY <2>1, <2>2
<1> QED
  BY <1>6, <1>7, <1>8, <1>9

LEMMA LogInit == ASSUME Init PROVE LogIInv
<1>1. TypeOK
  <2>1. disk \in Seq(SUBSET (1 .. count))
    BY DEF Init
  <2>2. io \in [IoThread -> {"idle", "error", "syncError"}]
    BY DEF Init
  <2>3. count \in Nat /\ urgent \in 0 .. count
    BY DEF Init
  <2>4. writing \subseteq 1 .. count /\ pending \subseteq 1 .. count
        /\ lost \subseteq 1 .. count
    BY DEF Init
  <2>5. /\ file \in {"none", "open"} /\ closing \in BOOLEAN
        /\ async = "none" /\ sync = "none" /\ fatal = "no" /\ shut = "no"
    BY DEF Init
  <2> QED
    BY <2>1, <2>2, <2>3, <2>4, <2>5 DEF TypeOK
<1>2. BuffersConsistent /\ ClosedForGood
  BY DEF Init, BuffersConsistent, ClosedForGood
<1>3. FatalHasLock
  BY DEF Init, FatalHasLock, Locked
<1> QED
  BY <1>1, <1>2, <1>3 DEF LogIInv

LEMMA LogInductive ==
    ASSUME Healthy, LogIInv, [Next]_vars
    PROVE  LogIInv'
<1>1. CASE Log
  BY <1>1, LogStep
<1>2. CASE FatalThread
  BY <1>2, LogFatalStep, FatalResumesStep, AbortStep DEF FatalThread
<1>3. CASE EventThread
  BY <1>3, LogFailureStep, OnFileWriteStep, CloseLogStep DEF EventThread
<1>4. CASE IoStart \/ System
  BY <1>4, IoStepStep
<1>5. ASSUME NEW i \in IoThread, IoStep(i) \/ OtherFails(i)
      PROVE  LogIInv'
  BY <1>5, IoLogsStep, IoStepStep DEF IoStep
<1>6. CASE UNCHANGED vars
  BY <1>6 DEF vars, buffers, LogIInv, TypeOK, BuffersConsistent, FatalHasLock,
              ClosedForGood, Locked, SyncBuffer
<1> QED
  BY <1>1, <1>2, <1>3, <1>4, <1>5, <1>6 DEF Next

\* The buffers and the writes of the log file agree (app/logfile.cpp:85-158),
\* for any threads and any number of messages.
THEOREM LogInvariance == ASSUME Healthy PROVE Spec => []LogIInv
<1>1. LogIInv /\ [Next]_vars => LogIInv'
  BY LogInductive
<1> QED
  BY LogInit, <1>1, PTL DEF Spec

-----------------------------------------------------------------------------
(* Where the messages are.                                                   *)

LEMMA OnDiskTyped == ASSUME TypeOK PROVE OnDisk \subseteq 1 .. count
  BY DEF TypeOK, OnDisk

\* Numbers grow: a new message is later than all that is anywhere.
LEMMA NewIsLater ==
    ASSUME TypeOK
    PROVE  /\ \A m \in OnDisk \cup writing \cup pending \cup lost : m < count + 1
           /\ 1 .. (count + 1) = (1 .. count) \cup {count + 1}
<1>1. \A m \in 1 .. count : m < count + 1
  BY DEF TypeOK
<1>2. 1 .. (count + 1) = (1 .. count) \cup {count + 1}
  BY DEF TypeOK
<1>3. OnDisk \cup writing \cup pending \cup lost \subseteq 1 .. count
  BY OnDiskTyped DEF TypeOK
<1> QED
  BY <1>1, <1>2, <1>3

\* A message is added to a buffer, and others may be dropped for it.
Added ==
    /\ ~Locked /\ count' = count + 1
    /\ \/ /\ writing = {} /\ writing' = {count + 1}
          /\ async' \in {"queued", "none"} /\ UNCHANGED <<pending, lost>>
       \/ /\ Queue(count + 1)
          /\ async' = async \/ (async = "failed" /\ async' = "noted")
    /\ sync' \in {"none", "queued"} /\ UNCHANGED disk

LEMMA AddedKept ==
    ASSUME LogIInv, LogKept, Added
    PROVE  /\ UNCHANGED OnDisk /\ Synced = {} /\ Synced' = {}
           /\ Landed' \subseteq Landed /\ Accounted' /\ Apart'
<1> DEFINE m == count + 1
<1>1. UNCHANGED OnDisk
  BY DEF OnDisk, Added
<1>2. sync = "none" /\ Synced = {} /\ Synced' = {}
  BY DEF Added, LogIInv, FatalHasLock, Synced
<1>3. /\ m \notin OnDisk /\ m \notin writing /\ m \notin pending /\ m \notin lost
      /\ 1 .. count' = (1 .. count) \cup {m}
  BY NewIsLater DEF LogIInv, Added, TypeOK
<1>4. /\ writing \cap pending = {} /\ pending \cap OnDisk = {}
      /\ async \in {"queued", "posted", "failed", "noted"} =>
             writing \cap OnDisk = {}
      /\ 1 .. count = OnDisk \cup writing \cup pending \cup lost
      /\ lost \cap (OnDisk \cup writing \cup pending) = {}
  BY <1>2 DEF LogKept, Apart, Accounted
<1> HIDE DEF m
<1>5. Landed' \subseteq Landed
  <2>1. CASE async' \in {"queued", "none", "noted"}
    BY <2>1 DEF Landed
  <2>2. CASE UNCHANGED <<writing, async>>
    BY <2>2 DEF Landed
  <2> QED
    BY <2>1, <2>2 DEF Added, Queue
<1>6. CASE writing = {} /\ writing' = {m} /\ UNCHANGED <<pending, lost>>
  BY <1>1, <1>2, <1>3, <1>4, <1>5, <1>6 DEF Accounted, Apart
<1>7. CASE /\ UNCHANGED writing
           /\ async' = async \/ (async = "failed" /\ async' = "noted")
           /\ \/ pending' = pending \cup {m} /\ UNCHANGED lost
              \/ pending' = {m} /\ lost' = lost \cup pending
  BY <1>1, <1>2, <1>3, <1>4, <1>5, <1>7 DEF Accounted, Apart
<1> QED
  BY <1>6, <1>7 DEF Added, Queue, m

\* Without a fatal message the new one is in its place.
LEMMA AddedInOrder ==
    ASSUME LogIInv, LogKept, Added, fatal = "no", async' # "written" \/ UNCHANGED async
    PROVE  InOrder'
<1>1. UNCHANGED <<disk, OnDisk>>
  BY AddedKept DEF Added
<1>2. /\ \A k, l \in DOMAIN disk :
             k < l => \A x \in disk[k], y \in disk[l] : x < y
      /\ \A x \in OnDisk \ Landed, y \in writing : x < y
      /\ \A x \in OnDisk \cup writing, y \in pending : x < y
  BY DEF LogKept, InOrder
<1>3. \A x \in OnDisk \cup writing \cup pending : x < count + 1
  BY NewIsLater DEF LogIInv
<1>4. CASE /\ writing = {} /\ writing' = {count + 1}
           /\ UNCHANGED <<pending, lost>>
  <2>1. pending = {} \/ async # "none"
    BY DEF LogIInv, BuffersConsistent
  <2>2. pending = {}
    BY <1>4, <2>1 DEF LogIInv, BuffersConsistent
  <2> QED
    BY <1>1, <1>2, <1>3, <1>4, <2>2 DEF InOrder
<1>5. CASE /\ Queue(count + 1)
           /\ async' = async \/ (async = "failed" /\ async' = "noted")
  <2>1. UNCHANGED <<writing, Landed>>
    BY <1>5 DEF Queue, Landed
  <2>2. pending' \subseteq pending \cup {count + 1}
    BY <1>5 DEF Queue
  <2> QED
    BY <1>1, <1>2, <1>3, <2>1, <2>2 DEF InOrder
<1> QED
  BY <1>4, <1>5 DEF Added

LEMMA MessageKept ==
    ASSUME LogIInv, LogKept, Added, async' # "written" \/ UNCHANGED async,
           UNCHANGED <<fatal, urgent>>
    PROVE  LogKept'
<1>1. /\ UNCHANGED OnDisk /\ Synced' = {} /\ Landed' \subseteq Landed
      /\ Accounted' /\ Apart'
  BY AddedKept
<1>2. FatalOnDisk'
  BY <1>1 DEF LogKept, FatalOnDisk
<1>3. InOrder'
  BY AddedInOrder DEF InOrder
<1> QED
  BY <1>1, <1>2, <1>3 DEF LogKept

LEMMA LogAdds ==
    ASSUME Healthy, LogIInv,
           Log \/ LogFailure \/ \E i \in IoThread : IoLogs(i)
    PROVE  Added /\ UNCHANGED <<fatal, urgent>>
           /\ (async' # "written" \/ UNCHANGED async)
<1>1. ASSUME WriteLog, sync' = "none", UNCHANGED <<disk, fatal, urgent>>
      PROVE  Added /\ UNCHANGED <<fatal, urgent>>
             /\ (async' # "written" \/ UNCHANGED async)
  BY <1>1, WriteLogCases DEF Added
<1>2. CASE Log
  BY <1>1, <1>2 DEF Log, WriteLog, LogIInv, FatalHasLock
<1>3. CASE LogFailure
  BY <1>3 DEF LogFailure, Added, LogIInv, FatalHasLock
<1>4. ASSUME NEW i \in IoThread, IoLogs(i)
      PROVE  Added /\ UNCHANGED <<fatal, urgent>>
             /\ (async' # "written" \/ UNCHANGED async)
  <2>1. WriteLog /\ sync = "none"
    BY <1>4 DEF IoLogs, WriteLog, LogIInv, FatalHasLock
  <2>2. sync' = "none"
    BY <1>4, <2>1 DEF IoLogs, LogIInv, FatalHasLock
  <2> QED
    BY <1>1, <1>4, <2>1, <2>2 DEF IoLogs
<1> QED
  BY <1>2, <1>3, <1>4

LEMMA LogFatalKept ==
    ASSUME Healthy, LogIInv, LogKept, LogFatal
    PROVE  LogKept'
<1>1. fatal = "no" /\ fatal' = "append" /\ sync' = "queued"
      /\ count' = count + 1 /\ UNCHANGED <<async, disk>>
      /\ (Begin(count + 1, TRUE) \/ Queue(count + 1))
  <2>1. /\ fatal = "no" /\ count' = count + 1 /\ UNCHANGED <<async, disk>>
        /\ \/ \E opened \in CanOpen :
                 /\ Begin(count + 1, opened)
                 /\ IF opened THEN sync' = "queued" /\ fatal' = "append"
                              ELSE UNCHANGED sync /\ fatal' = "logged"
           \/ /\ Queue(count + 1)
              /\ IF file = "open" THEN sync' = "queued" /\ fatal' = "append"
                                  ELSE UNCHANGED sync /\ fatal' = "aborted"
    BY DEF LogFatal
  <2>2. CASE \E opened \in CanOpen :
                 /\ Begin(count + 1, opened)
                 /\ IF opened THEN sync' = "queued" /\ fatal' = "append"
                              ELSE UNCHANGED sync /\ fatal' = "logged"
    <3>1. PICK opened \in CanOpen :
                 /\ Begin(count + 1, opened)
                 /\ IF opened THEN sync' = "queued" /\ fatal' = "append"
                              ELSE UNCHANGED sync /\ fatal' = "logged"
      BY <2>2
    <3>2. opened = TRUE
      BY <3>1, Opens
    <3> QED
      BY <2>1, <3>1, <3>2, Zenon
  <2>3. CASE /\ Queue(count + 1)
             /\ IF file = "open" THEN sync' = "queued" /\ fatal' = "append"
                                 ELSE UNCHANGED sync /\ fatal' = "aborted"
    <3>1. file = "open"
      BY <2>3 DEF Queue, LogIInv, BuffersConsistent, TypeOK
    <3> QED
      BY <2>1, <2>3, <3>1
  <2> QED
    BY <2>1, <2>2, <2>3
<1>2. Added
  <2>1. CASE Begin(count + 1, TRUE)
    BY <1>1, <2>1 DEF Added, Begin, Locked, LogIInv, BuffersConsistent
  <2>2. CASE Queue(count + 1)
    BY <1>1, <2>2 DEF Added, Locked
  <2> QED
    BY <1>1, <2>1, <2>2
<1>3. UNCHANGED OnDisk /\ Synced' = {} /\ Landed' \subseteq Landed
      /\ Accounted' /\ Apart'
  BY <1>2, AddedKept
<1> QED
  BY <1>1, <1>3 DEF LogKept, InOrder, FatalOnDisk

\* The fatal message is in the file when its thread goes on.
LEMMA FatalResumesKept ==
    ASSUME LogIInv, LogKept, FatalResumes
    PROVE  LogKept'
<1>1. /\ sync = "told" /\ sync' = "none" /\ fatal = "append" /\ fatal' = "logged"
      /\ UNCHANGED <<async, urgent, count, disk, lost>>
      /\ UNCHANGED OnDisk
  BY DEF FatalResumes, OnDisk, LogIInv, FatalHasLock, Locked
<1>2. SyncBuffer \subseteq OnDisk /\ urgent \in SyncBuffer /\ Synced' = {}
  BY <1>1 DEF LogKept, FatalOnDisk, Synced, LogIInv, FatalHasLock, Locked
<1>3. /\ 1 .. count = OnDisk \cup writing \cup pending \cup lost
      /\ lost \cap (OnDisk \cup writing \cup pending) = {}
      /\ writing \cap pending = {} /\ Landed \subseteq OnDisk
      /\ async \in {"queued", "posted", "failed", "noted"} =>
             writing \cap OnDisk = {}
  BY DEF LogKept, Accounted, Apart, FatalOnDisk
<1>4. CASE async = "none"
  <2>1. writing' = {} /\ pending' = pending /\ writing \subseteq OnDisk
    BY <1>2, <1>4 DEF FatalResumes, SyncBuffer
  <2>2. pending = {} /\ Landed' = {}
    BY <1>1, <1>4 DEF LogIInv, BuffersConsistent, Landed
  <2>3. Accounted' /\ Apart' /\ FatalOnDisk'
    BY <1>1, <1>2, <1>3, <1>4, <2>1, <2>2 DEF Accounted, Apart, FatalOnDisk
  <2> QED
    BY <1>1, <2>3 DEF LogKept, InOrder
<1>5. CASE async # "none"
  <2>1. writing' = writing /\ pending' = {} /\ pending \subseteq OnDisk
    BY <1>2, <1>5 DEF FatalResumes, SyncBuffer
  <2>2. Landed' = Landed
    BY <1>1, <2>1 DEF Landed
  <2>3. Accounted' /\ Apart' /\ FatalOnDisk'
    BY <1>1, <1>2, <1>3, <2>1, <2>2 DEF Accounted, Apart, FatalOnDisk
  <2> QED
    BY <1>1, <2>3 DEF LogKept, InOrder
<1> QED
  BY <1>4, <1>5

\* Steps that leave the messages where they are.
LEMMA QuietKept ==
    ASSUME LogIInv, LogKept, UNCHANGED <<writing, pending, count, disk, lost, urgent>>,
           \/ async' = async
           \/ async = "queued" /\ async' = "posted"
           \/ async = "posted" /\ async' = "failed",
           \/ sync' = sync
           \/ sync \in {"queued", "failed"} /\ sync' \in {"posted", "failing"}
           \/ sync = "posted" /\ sync' = "failed"
           \/ sync = "written" /\ sync' = "told",
           fatal' = fatal \/ (fatal = "logged" /\ fatal' = "aborted")
    PROVE  LogKept'
<1>1. UNCHANGED <<OnDisk, SyncBuffer>>
  BY DEF OnDisk, SyncBuffer
<1>2. UNCHANGED <<Landed, Synced>>
  BY <1>1 DEF Landed, Synced
<1>3. InOrder'
  BY <1>1, <1>2 DEF LogKept, InOrder
<1>4. Accounted'
  BY <1>1 DEF LogKept, Accounted
<1>5. Apart'
  BY <1>1, <1>2 DEF LogKept, Apart
<1>6. FatalOnDisk'
  BY <1>1, <1>2 DEF LogKept, FatalOnDisk
<1> QED
  BY <1>3, <1>4, <1>5, <1>6 DEF LogKept

\* The buffers are swapped: what was written is in the file, or lost.
LEMMA OnFileWriteKept ==
    ASSUME LogIInv, LogKept, OnFileWrite
    PROVE  LogKept'
<1>1. /\ writing' = pending /\ pending' = {} /\ sync = "none"
      /\ async \in {"written", "noted"} /\ async' \in {"none", "queued"}
      /\ lost' = IF async = "noted" THEN lost \cup writing ELSE lost
      /\ UNCHANGED <<sync, fatal, urgent, count, disk>> /\ UNCHANGED OnDisk
  BY DEF OnFileWrite, NextWrite, LogIInv, FatalHasLock, OnDisk
<1>2. Synced = {} /\ Synced' = {} /\ Landed' = {}
  BY <1>1 DEF Synced, Landed
<1>3. pending \cap OnDisk = {} /\ writing \cap pending = {}
      /\ (async = "noted" => writing \cap OnDisk = {})
  BY <1>1, <1>2 DEF LogKept, Apart
<1>4. Apart' /\ FatalOnDisk'
  BY <1>1, <1>2, <1>3 DEF LogKept, Apart, FatalOnDisk
<1>5. InOrder'
  BY <1>1, <1>2 DEF LogKept, InOrder
<1>6. Accounted'
  <2>1. CASE async = "noted"
    BY <1>1, <1>3, <2>1 DEF LogKept, Accounted
  <2>2. CASE async = "written"
    <3>1. writing \subseteq OnDisk
      BY <2>2 DEF LogKept, FatalOnDisk, Landed
    <3> QED
      BY <1>1, <2>2, <3>1 DEF LogKept, Accounted
  <2> QED
    BY <1>1, <2>1, <2>2
<1> QED
  BY <1>4, <1>5, <1>6 DEF LogKept

\* What is written has not been in the file before, and is later than all that
\* is, unless a fatal message has overtaken it.
LEMMA AsyncWrittenKept ==
    ASSUME LogIInv, LogKept, AsyncWritten
    PROVE  LogKept'
<1>1. /\ async = "posted" /\ async' = "written" /\ disk' = Append(disk, writing)
      /\ UNCHANGED <<writing, pending, sync, fatal, urgent, count, lost>>
      /\ writing \in SUBSET (1 .. count)
  BY DEF AsyncWritten, buffers, LogIInv, BuffersConsistent, TypeOK
<1>2. OnDisk' = OnDisk \cup writing
  BY <1>1, DiskGrows DEF OnDisk, LogIInv
<1>3. Landed = {} /\ Landed' = writing /\ Synced' = Synced
  BY <1>1 DEF Landed, Synced, SyncBuffer
<1>4. Accounted'
  BY <1>1, <1>2 DEF LogKept, Accounted
<1>5. Apart'
  BY <1>1, <1>2, <1>3 DEF LogKept, Apart
<1>6. FatalOnDisk'
  BY <1>1, <1>2, <1>3 DEF LogKept, FatalOnDisk
<1>7. CASE fatal = "no"
  <2>1. /\ \A k, l \in DOMAIN disk :
               k < l => \A x \in disk[k], y \in disk[l] : x < y
        /\ \A x \in OnDisk, y \in writing : x < y
        /\ \A x \in OnDisk \cup writing, y \in pending : x < y
    BY <1>3, <1>7 DEF LogKept, InOrder
  <2>2. ASSUME NEW k \in DOMAIN disk', NEW l \in DOMAIN disk', k < l,
               NEW x \in disk'[k], NEW y \in disk'[l]
        PROVE  x < y
    <3>1. /\ k \in DOMAIN disk /\ disk'[k] = disk[k]
          /\ \/ l \in DOMAIN disk /\ disk'[l] = disk[l]
             \/ disk'[l] = writing
      BY <1>1, <2>2 DEF LogIInv, TypeOK
    <3> QED
      BY <2>1, <2>2, <3>1 DEF OnDisk
  <2> QED
    BY <1>1, <1>2, <1>3, <1>4, <1>5, <1>6, <2>1, <2>2 DEF LogKept, InOrder
<1>8. CASE fatal # "no"
  BY <1>1, <1>4, <1>5, <1>6, <1>8 DEF LogKept, InOrder
<1> QED
  BY <1>7, <1>8

\* The buffer of the fatal message is in the file, or its write has failed.
LEMMA SyncDoneKept ==
    ASSUME LogIInv, LogKept, SyncDone
    PROVE  LogKept'
<1>1. /\ sync = "posted" /\ sync' \in {"written", "failed"} /\ fatal = "append"
      /\ disk' = IF sync' = "written" THEN Append(disk, SyncBuffer) ELSE disk
      /\ UNCHANGED <<writing, pending, async, fatal, urgent, count, lost>>
  BY DEF SyncDone, SyncResult, buffers, LogIInv, FatalHasLock, Locked
<1>2. CASE sync' = "failed"
  BY <1>1, <1>2, QuietKept
<1>3. CASE sync' = "written"
  <2>1. SyncBuffer \in SUBSET (1 .. count) /\ Synced = {} /\ Synced' = SyncBuffer
    BY <1>1, <1>3 DEF LogIInv, TypeOK, SyncBuffer, Synced
  <2>2. OnDisk' = OnDisk \cup SyncBuffer
    BY <1>1, <1>3, <2>1, DiskGrows DEF OnDisk, LogIInv
  <2>3. Landed' = Landed
    BY <1>1 DEF Landed
  <2>4. Accounted'
    BY <1>1, <2>2 DEF LogKept, Accounted, SyncBuffer
  <2>5. Apart'
    <3>1. async = "none" => pending = {}
      BY DEF LogIInv, BuffersConsistent
    <3> QED
      BY <1>1, <2>1, <2>2, <3>1 DEF LogKept, Apart, SyncBuffer
  <2>6. FatalOnDisk'
    BY <1>1, <2>1, <2>2, <2>3 DEF LogKept, FatalOnDisk
  <2> QED
    BY <1>1, <2>4, <2>5, <2>6 DEF LogKept, InOrder
<1> QED
  BY <1>1, <1>2, <1>3

LEMMA KeptInit == ASSUME Init PROVE LogKept
<1>1. OnDisk = {} /\ Landed = {} /\ Synced = {} /\ 1 .. count = {}
  BY DEF Init, OnDisk, Landed, Synced
<1>2. DOMAIN disk = {}
  BY DEF Init
<1> QED
  BY <1>1, <1>2 DEF Init, LogKept, InOrder, Accounted, Apart, FatalOnDisk

LEMMA KeptInductive ==
    ASSUME Healthy, LogIInv, LogKept, [Next]_vars
    PROVE  LogKept'
<1>1. CASE Log \/ LogFailure \/ \E i \in IoThread : IoLogs(i)
  BY <1>1, LogAdds, MessageKept
<1>2. CASE FatalThread
  <2>1. CASE Abort
    BY <2>1, QuietKept DEF Abort, buffers
  <2> QED
    BY <1>2, <2>1, LogFatalKept, FatalResumesKept DEF FatalThread
<1>3. CASE OnFileWrite
  BY <1>3, OnFileWriteKept
<1>4. CASE CloseLog
  BY <1>4, QuietKept DEF CloseLog
<1>5. CASE IoStart
  BY <1>5, QuietKept DEF IoStart, AsyncStarts, SyncStarts, buffers
<1>6. CASE System
  <2>1. CASE AsyncFails
    BY <2>1, QuietKept DEF AsyncFails, buffers
  <2> QED
    BY <1>6, <2>1, AsyncWrittenKept, SyncDoneKept DEF System
<1>7. ASSUME NEW i \in IoThread, SyncEnds(i) \/ OtherFails(i)
      PROVE  LogKept'
  BY <1>7, QuietKept DEF SyncEnds, OtherFails, buffers
<1>8. CASE UNCHANGED vars
  BY <1>8, QuietKept DEF vars, buffers
<1> QED
  BY <1>1, <1>2, <1>3, <1>4, <1>5, <1>6, <1>7, <1>8
  DEF Next, EventThread, IoStep

\* Every message is in the file once, and in order, or in a buffer, or was
\* dropped for want of room or with a write that failed; and no process is
\* aborted with its fatal message unwritten (writeLog and onFileWrite,
\* app/logfile.cpp:85-158): for any threads and any number of messages.
THEOREM LogKeptAlways == ASSUME Healthy PROVE Spec => []LogKept
<1>1. LogIInv /\ LogKept /\ [Next]_vars => LogKept'
  BY KeptInductive
<1> QED
  BY KeptInit, LogInvariance, <1>1, PTL DEF Spec
=============================================================================
