----------------------------- MODULE TimerProofs -----------------------------
(***************************************************************************)
(* Proofs about the timers, for any notifies, threads and waits.  The      *)
(* queue, the timers and the task that serves them agree, and the dispatch *)
(* thread is never late, whatever handlers call.  That nothing runs after  *)
(* a close is proved for programs in which only the owner of a notify      *)
(* updates and closes it.                                                  *)
(***************************************************************************)
EXTENDS Timer, SequenceTheorems, TLAPS

Node == [n : Notify, left : 0..MaxWait, state : {"live", "stale", "orphan"}]

\* Node i of ts is the one that counts for n's timer.
Live(ts, i, n) == ts[i].n = n /\ ts[i].state = "live"

Sorted(ts) == \A i, j \in DOMAIN ts : i < j => ts[i].left <= ts[j].left
LiveOnce(ts) ==
    \A i, j \in DOMAIN ts :
        ts[i].state = "live" /\ ts[j].state = "live" /\ ts[i].n = ts[j].n => i = j
LiveTrue(ts, ex) ==
    \A i \in DOMAIN ts : ts[i].state = "live" => ts[i].left = ex[ts[i].n]
LiveThere(ts, ex) ==
    \A n \in Notify : ex[n] # Inf => \E i \in DOMAIN ts : Live(ts, i, n)

\* The queue of nodes; the last part ends with the dispatch thread, which
\* throws the nodes away but leaves the timers.
QueueOK ==
    /\ timers \in Seq(Node) /\ expiration \in [Notify -> Wait]
    /\ Sorted(timers) /\ LiveOnce(timers) /\ LiveTrue(timers, expiration)
    /\ mode # "stopped" => LiveThere(timers, expiration)
ArmedOK ==
    /\ \A n \in Notify : expiration[n] # Inf => armed[n]
    /\ connected => handling # None /\ armed[handling]

\* Where the threads are.
StagesOK ==
    /\ handling # None <=> epc = "callback"
    /\ \A c \in Thread : call[c].pc # "idle" => call[c].n \in Notify
    /\ mpc = "run" <=> mode = "running"
    /\ mode = "stopped" => dpc = "done"
    /\ dpc = "timed" => ~processing

TimerIInv ==
    /\ TypeOK /\ QueueOK /\ ArmedOK /\ StagesOK /\ RunTimersOnce
    /\ DispatchNotLate

\* Where only the owner of a notify updates and closes it: a notify whose timer
\* is set is alive; ...
CallsOK ==
    /\ \A n \in Notify : armed[n] => alive[n]
    /\ \A c \in Thread : call[c].pc # "idle" =>
          /\ Owner[call[c].n] = c /\ alive[call[c].n]
          /\ call[c].pc \in {"waiting", "woken"} => ~armed[call[c].n] /\ c # Event
          /\ c = Event => epc \in {"idle", "callback"}
          /\ c = Event /\ call[c].pc = "closing" /\ call[c].destroy => handling # call[c].n
    /\ \A c \in Thread : call[c].pc = "idle" => call[c] = Idle

\* ... the nodes of timers the notify let go of are seen only after the stop; ...
NoOrphans == mode # "stopped" => \A i \in DOMAIN timers : timers[i].state # "orphan"

\* ... and a close waits for a handler that is running.
HandlerWaitedFor ==
    mode # "stopped" /\ handling # None =>
        /\ alive[handling]
        /\ ~armed[handling] =>
              \/ Owner[handling] = Event
              \/ /\ call[Owner[handling]].pc \in {"waiting", "woken"}
                 /\ call[Owner[handling]].n = handling

QuietIInv == TimerIInv /\ CallsOK /\ NoOrphans /\ HandlerWaitedFor
-----------------------------------------------------------------------------
(* Operators on the queue.                                                 *)

\* A node put in place p: the others keep their order around it.
LEMMA InsertIs ==
    ASSUME NEW s \in Seq(Node), NEW p \in 1 .. Len(s) + 1, NEW x \in Node
    PROVE  /\ Insert(s, p, x) \in Seq(Node) /\ Len(Insert(s, p, x)) = Len(s) + 1
           /\ Insert(s, p, x)[p] = x
           /\ \A i \in 1 .. p - 1 : Insert(s, p, x)[i] = s[i]
           /\ \A i \in p + 1 .. Len(s) + 1 : Insert(s, p, x)[i] = s[i - 1]
<1> DEFINE a == SubSeq(s, 1, p - 1)
           b == <<x>>
           c == SubSeq(s, p, Len(s))
<1>1. PICK n \in Nat : n = Len(s)
  OBVIOUS
<1>2. p \in Int /\ p \in 1 .. n + 1 /\ \A i \in 1 .. n : s[i] \in Node
  BY <1>1
<1>3. /\ a \in Seq(Node) /\ Len(a) = p - 1 /\ \A i \in 1 .. p - 1 : a[i] = s[i]
  <2>1. \A i \in 1 .. p - 1 : s[i] \in Node
    BY <1>2
  <2>2. /\ SubSeq(s, 1, p - 1) \in Seq(Node)
        /\ Len(SubSeq(s, 1, p - 1)) = IF 1 <= p - 1 THEN p - 1 - 1 + 1 ELSE 0
        /\ \A i \in 1 .. p - 1 - 1 + 1 : SubSeq(s, 1, p - 1)[i] = s[1 + i - 1]
    <3>1. 1 \in Int /\ p - 1 \in Int
      BY <1>2
    <3> QED
      BY <2>1, <3>1, SubSeqProperties
  <2>3. p - 1 - 1 + 1 = p - 1 /\ (~(1 <= p - 1) => p - 1 = 0)
        /\ \A i \in 1 .. p - 1 : 1 + i - 1 = i
    BY <1>2
  <2> QED
    BY <2>2, <2>3
<1>4. /\ c \in Seq(Node) /\ Len(c) = n - p + 1 /\ \A i \in 1 .. n - p + 1 : c[i] = s[p + i - 1]
  <2>1. \A i \in p .. n : s[i] \in Node
    BY <1>2
  <2>2. /\ SubSeq(s, p, n) \in Seq(Node)
        /\ Len(SubSeq(s, p, n)) = IF p <= n THEN n - p + 1 ELSE 0
        /\ \A i \in 1 .. n - p + 1 : SubSeq(s, p, n)[i] = s[p + i - 1]
    BY <1>2, <2>1, SubSeqProperties
  <2>3. ~(p <= n) => n - p + 1 = 0
    BY <1>2
  <2> QED
    BY <1>1, <2>2, <2>3
<1>5. b \in Seq(Node) /\ Len(b) = 1 /\ b[1] = x
  OBVIOUS
<1> HIDE DEF a, b, c
<1>6. /\ a \o b \in Seq(Node) /\ Len(a \o b) = p
      /\ \A i \in 1 .. p : (a \o b)[i] = IF i <= p - 1 THEN a[i] ELSE b[i - (p - 1)]
  <2>1. /\ a \o b \in Seq(Node) /\ Len(a \o b) = Len(a) + Len(b)
        /\ \A i \in 1 .. Len(a) + Len(b) :
              (a \o b)[i] = IF i <= Len(a) THEN a[i] ELSE b[i - Len(a)]
    BY <1>3, <1>5, ConcatProperties
  <2>2. Len(a) + Len(b) = p
    BY <1>2, <1>3, <1>5
  <2> QED
    BY <1>3, <2>1, <2>2
<1>7. /\ (a \o b) \o c \in Seq(Node) /\ Len((a \o b) \o c) = n + 1
      /\ \A i \in 1 .. n + 1 :
            ((a \o b) \o c)[i] = IF i <= p THEN (a \o b)[i] ELSE c[i - p]
  <2> DEFINE ab == a \o b
  <2>0. ab \in Seq(Node) /\ Len(ab) = p
    BY <1>6
  <2> HIDE DEF ab
  <2>1. /\ ab \o c \in Seq(Node) /\ Len(ab \o c) = Len(ab) + Len(c)
        /\ \A i \in 1 .. Len(ab) + Len(c) :
              (ab \o c)[i] = IF i <= Len(ab) THEN ab[i] ELSE c[i - Len(ab)]
    BY <1>4, <2>0, ConcatProperties
  <2>2. Len(ab) + Len(c) = n + 1
    BY <1>2, <1>4, <2>0
  <2> QED
    BY <2>0, <2>1, <2>2 DEF ab
<1>8. Insert(s, p, x) = (a \o b) \o c
  BY DEF Insert, a, b, c
<1>9. Insert(s, p, x)[p] = x
  <2>1. p \in 1 .. p /\ p - (p - 1) = 1 /\ ~(p <= p - 1) /\ p <= p /\ p \in 1 .. n + 1
    BY <1>2
  <2>2. (a \o b)[p] = b[1]
    BY <1>6, <2>1
  <2> QED
    BY <1>5, <1>7, <1>8, <2>1, <2>2
<1>10. ASSUME NEW i \in 1 .. p - 1 PROVE Insert(s, p, x)[i] = s[i]
  <2>1. i \in 1 .. n + 1 /\ i \in 1 .. p /\ i <= p /\ i <= p - 1
    BY <1>2
  <2> QED
    BY <1>3, <1>6, <1>7, <1>8, <2>1
<1>11. ASSUME NEW i \in p + 1 .. n + 1 PROVE Insert(s, p, x)[i] = s[i - 1]
  <2>1. i \in 1 .. n + 1 /\ ~(i <= p) /\ i - p \in 1 .. n - p + 1 /\ p + (i - p) - 1 = i - 1
    BY <1>2
  <2> QED
    BY <1>4, <1>7, <1>8, <2>1
<1> QED
  BY <1>1, <1>7, <1>8, <1>9, <1>10, <1>11

\* Marks change the state of nodes and nothing else.
LEMMA MarkIs ==
    ASSUME timers \in Seq(Node), NEW n, NEW from,
           NEW to \in {"live", "stale", "orphan"}
    PROVE  /\ Mark(n, from, to) \in Seq(Node) /\ Len(Mark(n, from, to)) = Len(timers)
           /\ DOMAIN Mark(n, from, to) = DOMAIN timers
           /\ (Mark(n, from, to) = <<>> <=> timers = <<>>)
           /\ \A i \in DOMAIN timers :
                 /\ Mark(n, from, to)[i].n = timers[i].n
                 /\ Mark(n, from, to)[i].left = timers[i].left
                 /\ Mark(n, from, to)[i].state =
                       IF timers[i].n = n /\ timers[i].state = from THEN to
                       ELSE timers[i].state
<1> DEFINE t == Mark(n, from, to)
<1>1. PICK k \in Nat : k = Len(timers) /\ DOMAIN timers = 1 .. k
                       /\ timers \in [1 .. k -> Node]
  OBVIOUS
<1>2. ASSUME NEW i \in 1 .. k
      PROVE  /\ t[i] \in Node
             /\ t[i].n = timers[i].n /\ t[i].left = timers[i].left
             /\ t[i].state = IF timers[i].n = n /\ timers[i].state = from THEN to
                             ELSE timers[i].state
  <2>1. timers[i] \in Node
    BY <1>1
  <2>2. t[i] = IF timers[i].n = n /\ timers[i].state = from
               THEN [timers[i] EXCEPT !.state = to] ELSE timers[i]
    BY <1>1 DEF Mark
  <2> QED
    BY <2>1, <2>2 DEF Node
<1>3. t \in [1 .. k -> Node] /\ DOMAIN t = 1 .. k
  BY <1>1, <1>2 DEF Mark
<1> HIDE DEF t
<1>4. t \in Seq(Node) /\ Len(t) = k /\ (t = <<>> <=> k = 0)
  BY <1>3
<1>5. timers = <<>> <=> k = 0
  BY <1>1
<1> QED
  BY <1>1, <1>2, <1>3, <1>4, <1>5 DEF t

\* A node for n's timer in its place among nodes none of which counts for n.
ReadyFor(s, ex, n) ==
    /\ s \in Seq(Node) /\ ex \in [Notify -> Wait]
    /\ Sorted(s) /\ LiveOnce(s) /\ LiveTrue(s, ex)
    /\ \A i \in DOMAIN s : ~Live(s, i, n)
InPlace(s, ex, n, p, t, e) ==
    /\ t \in Seq(Node) /\ t # <<>> /\ Sorted(t) /\ LiveOnce(t) /\ LiveTrue(t, e)
    /\ (\A m \in Notify \ {n} : ex[m] # Inf => \E i \in DOMAIN s : Live(s, i, m))
          => LiveThere(t, e)
    /\ (\A i \in DOMAIN s : s[i].state # "orphan")
          => \A i \in DOMAIN t : t[i].state # "orphan"
    /\ p # 1 => s # <<>> /\ t[1] = s[1]

LEMMA InsertOK ==
    ASSUME MaxWait \in Nat, NEW s, NEW ex, NEW n \in Notify, ReadyFor(s, ex, n),
           NEW w \in 0 .. MaxWait, NEW p \in Places(s, w), NEW t, NEW e,
           t = Insert(s, p, [n |-> n, left |-> w, state |-> "live"]),
           e = [ex EXCEPT ![n] = w]
    PROVE  InPlace(s, ex, n, p, t, e)
<1>0. /\ s \in Seq(Node) /\ ex \in [Notify -> Wait]
      /\ Sorted(s) /\ LiveOnce(s) /\ LiveTrue(s, ex)
      /\ \A i \in DOMAIN s : ~Live(s, i, n)
  BY DEF ReadyFor
<1> DEFINE x == [n |-> n, left |-> w, state |-> "live"]
<1>1. PICK k \in Nat : k = Len(s) /\ DOMAIN s = 1 .. k
  BY <1>0
<1>2. p \in 1 .. k + 1 /\ (\A i \in 1 .. p - 1 : s[i].left <= w)
      /\ \A i \in p .. k : s[i].left >= w
  BY <1>1 DEF Places
<1>3. x \in Node /\ x.n = n /\ x.left = w /\ x.state = "live"
  BY DEF Node
<1> HIDE DEF x
<1>4. /\ t \in Seq(Node) /\ DOMAIN t = 1 .. k + 1 /\ t # <<>> /\ t[p] = x
      /\ \A i \in 1 .. p - 1 : t[i] = s[i]
      /\ \A i \in p + 1 .. k + 1 : t[i] = s[i - 1]
  <2>1. p \in 1 .. Len(s) + 1
    BY <1>1, <1>2
  <2>2. /\ t \in Seq(Node) /\ Len(t) = k + 1 /\ t[p] = x
        /\ \A i \in 1 .. p - 1 : t[i] = s[i]
        /\ \A i \in p + 1 .. k + 1 : t[i] = s[i - 1]
    BY <1>0, <1>1, <1>3, <2>1, InsertIs DEF x
  <2> QED
    BY <2>2
\* Where node i of t was in s.
<1> DEFINE o(i) == IF i < p THEN i ELSE i - 1
<1>5. ASSUME NEW i \in 1 .. k + 1, i # p
      PROVE  o(i) \in 1 .. k /\ t[i] = s[o(i)]
  <2>1. CASE i < p
    <3>1. i \in 1 .. p - 1 /\ i \in 1 .. k /\ o(i) = i
      BY <1>2, <2>1
    <3> QED
      BY <1>4, <3>1
  <2>2. CASE ~(i < p)
    <3>1. i \in p + 1 .. k + 1 /\ i - 1 \in 1 .. k /\ o(i) = i - 1
      BY <1>2, <1>5, <2>2
    <3> QED
      BY <1>4, <3>1
  <2> QED
    BY <2>1, <2>2
<1>6. \A i \in 1 .. k : s[i] \in Node
  BY <1>0, <1>1
<1>7. Sorted(t)
  <2> SUFFICES ASSUME NEW i \in 1 .. k + 1, NEW j \in 1 .. k + 1, i < j
               PROVE  t[i].left <= t[j].left
    BY <1>4 DEF Sorted
  <2>1. CASE i = p
    <3>1. j \in p + 1 .. k + 1 /\ j - 1 \in p .. k
      BY <1>2, <2>1
    <3>2. t[j] = s[j - 1] /\ s[j - 1].left >= w
      BY <1>2, <1>4, <3>1
    <3>3. s[j - 1].left \in 0 .. MaxWait
      BY <1>2, <1>6, <3>1 DEF Node
    <3> QED
      BY <1>3, <1>4, <2>1, <3>2, <3>3
  <2>2. CASE j = p
    <3>1. i \in 1 .. p - 1
      BY <1>2, <2>2
    <3> QED
      BY <1>2, <1>3, <1>4, <2>2, <3>1
  <2>3. CASE i # p /\ j # p
    <3>1. o(i) < o(j) /\ o(i) \in DOMAIN s /\ o(j) \in DOMAIN s
      BY <1>1, <1>2, <1>5, <2>3
    <3>2. t[i] = s[o(i)] /\ t[j] = s[o(j)]
      BY <1>5, <2>3
    <3> HIDE DEF o
    <3> QED
      BY <1>0, <3>1, <3>2 DEF Sorted
  <2> QED
    BY <2>1, <2>2, <2>3
<1>8. LiveOnce(t)
  <2> SUFFICES ASSUME NEW i \in 1 .. k + 1, NEW j \in 1 .. k + 1, t[i].state = "live",
                      t[j].state = "live", t[i].n = t[j].n
               PROVE  i = j
    BY <1>4 DEF LiveOnce
  <2>1. ASSUME NEW h \in 1 .. k + 1, h # p, t[h].state = "live" PROVE t[h].n # n
    <3>1. o(h) \in DOMAIN s /\ t[h] = s[o(h)]
      BY <1>1, <1>5, <2>1
    <3> HIDE DEF o
    <3> QED
      BY <1>0, <2>1, <3>1 DEF Live
  <2>2. CASE i = p \/ j = p
    BY <1>3, <1>4, <2>1, <2>2
  <2>3. CASE i # p /\ j # p
    <3>1. t[i] = s[o(i)] /\ t[j] = s[o(j)] /\ o(i) \in DOMAIN s /\ o(j) \in DOMAIN s
      BY <1>1, <1>5, <2>3
    <3>2. o(i) = o(j)
      <4> HIDE DEF o
      <4> QED
        BY <1>0, <2>2, <3>1 DEF LiveOnce
    <3> QED
      BY <1>2, <2>3, <3>2
  <2> QED
    BY <2>2, <2>3
<1>9. LiveTrue(t, e)
  <2> SUFFICES ASSUME NEW i \in 1 .. k + 1, t[i].state = "live"
               PROVE  t[i].left = e[t[i].n]
    BY <1>4 DEF LiveTrue
  <2>1. CASE i = p
    BY <1>0, <1>3, <1>4, <2>1
  <2>2. CASE i # p
    <3>1. o(i) \in DOMAIN s /\ t[i] = s[o(i)]
      BY <1>1, <1>5, <2>2
    <3> HIDE DEF o
    <3>2. t[i].left = ex[t[i].n] /\ t[i].n # n
      BY <1>0, <3>1, <2>2 DEF LiveTrue, Live
    <3>3. t[i].n \in Notify
      BY <1>1, <1>6, <3>1 DEF Node
    <3> QED
      BY <1>0, <3>2, <3>3
  <2> QED
    BY <2>1, <2>2
<1>10. ASSUME \A m \in Notify \ {n} : ex[m] # Inf => \E i \in DOMAIN s : Live(s, i, m)
       PROVE  LiveThere(t, e)
  <2> SUFFICES ASSUME NEW m \in Notify, e[m] # Inf
               PROVE  \E i \in DOMAIN t : Live(t, i, m)
    BY DEF LiveThere
  <2>1. CASE m = n
    BY <1>0, <1>2, <1>3, <1>4, <2>1 DEF Live
  <2>2. CASE m # n
    <3>1. PICK i \in 1 .. k : Live(s, i, m)
      BY <1>0, <1>1, <1>10, <2>2
    <3>2. i < p => i \in 1 .. k + 1 /\ t[i] = s[i]
      BY <1>2, <1>4
    <3>3. ~(i < p) => i + 1 \in 1 .. k + 1 /\ t[i + 1] = s[i]
      BY <1>2, <1>4
    <3> QED
      BY <1>4, <3>1, <3>2, <3>3 DEF Live
  <2> QED
    BY <2>1, <2>2
<1>11. ASSUME \A i \in DOMAIN s : s[i].state # "orphan", NEW i \in DOMAIN t
       PROVE  t[i].state # "orphan"
  <2>1. CASE i = p
    BY <1>3, <1>4, <2>1
  <2>2. CASE i # p
    <3>1. o(i) \in DOMAIN s /\ t[i] = s[o(i)]
      BY <1>1, <1>4, <1>5, <2>2
    <3> HIDE DEF o
    <3> QED
      BY <1>11, <3>1
  <2> QED
    BY <2>1, <2>2
<1>12. p # 1 => s # <<>> /\ t[1] = s[1]
  <2>1. p # 1 => 1 \in 1 .. p - 1 /\ k # 0
    BY <1>2
  <2> QED
    BY <1>0, <1>1, <1>4, <2>1
<1> HIDE DEF o
<1> QED
  BY <1>4, <1>7, <1>8, <1>9, <1>10, <1>11, <1>12 DEF InPlace

\* Marking n's live nodes as of no use: none is left, the others are as they were.
Marked(s, n) ==
    /\ s \in Seq(Node) /\ DOMAIN s = DOMAIN timers /\ Len(s) = Len(timers)
    /\ (s = <<>> <=> timers = <<>>)
    /\ \A i \in DOMAIN s : s[i].left = timers[i].left /\ s[i].n = timers[i].n
    /\ Sorted(s) /\ LiveOnce(s)
    /\ \A i \in DOMAIN s : ~Live(s, i, n)
    /\ \A m \in Notify \ {n} : \A i \in DOMAIN s : Live(s, i, m) <=> Live(timers, i, m)
    /\ LiveTrue(s, expiration)
    /\ LiveTrue(s, [expiration EXCEPT ![n] = Inf])

Whole(s) == \A i \in DOMAIN s : s[i].state # "orphan"

LEMMA MarkOK ==
    ASSUME QueueOK, NEW n \in Notify, NEW to \in {"stale", "orphan"},
           NEW s, s = Mark(n, "live", to)
    PROVE  Marked(s, n) /\ (to = "stale" /\ Whole(timers) => Whole(s))
<1>1. timers \in Seq(Node) /\ expiration \in [Notify -> Wait] /\ Sorted(timers)
      /\ LiveOnce(timers) /\ LiveTrue(timers, expiration)
  BY DEF QueueOK
<1>2. /\ s \in Seq(Node) /\ Len(s) = Len(timers) /\ DOMAIN s = DOMAIN timers
      /\ (s = <<>> <=> timers = <<>>)
      /\ \A i \in DOMAIN timers :
            /\ s[i].n = timers[i].n /\ s[i].left = timers[i].left
            /\ s[i].state = IF timers[i].n = n /\ timers[i].state = "live" THEN to
                            ELSE timers[i].state
  BY <1>1, MarkIs
<1>3. Sorted(s)
  BY <1>1, <1>2 DEF Sorted
<1>4. LiveOnce(s)
  BY <1>1, <1>2 DEF LiveOnce
<1>5. \A i \in DOMAIN s : ~Live(s, i, n)
  BY <1>2 DEF Live
<1>6. \A m \in Notify \ {n} : \A i \in DOMAIN s : Live(s, i, m) <=> Live(timers, i, m)
  BY <1>2 DEF Live
<1>7. LiveTrue(s, expiration)
  BY <1>1, <1>2 DEF LiveTrue
<1>8. LiveTrue(s, [expiration EXCEPT ![n] = Inf])
  <2> SUFFICES ASSUME NEW i \in DOMAIN s, s[i].state = "live"
               PROVE  s[i].left = [expiration EXCEPT ![n] = Inf][s[i].n]
    BY DEF LiveTrue
  <2>1. s[i].n # n /\ s[i].left = expiration[s[i].n]
    BY <1>5, <1>7 DEF Live, LiveTrue
  <2>2. s[i] \in Node
    BY <1>2
  <2>3. s[i].n \in Notify
    BY <2>2 DEF Node
  <2> QED
    BY <1>1, <2>1, <2>3
<1>9. to = "stale" /\ Whole(timers) => Whole(s)
  BY <1>2 DEF Whole
<1> QED
  BY <1>2, <1>3, <1>4, <1>5, <1>6, <1>7, <1>8, <1>9 DEF Marked

LEMMA MarkStale ==
    ASSUME QueueOK, NEW n \in Notify
    PROVE  Marked(Mark(n, "live", "stale"), n)
           /\ (Whole(timers) => Whole(Mark(n, "live", "stale")))
BY MarkOK

LEMMA MarkOrphan ==
    ASSUME QueueOK, NEW n \in Notify
    PROVE  Marked(Mark(n, "live", "orphan"), n)
BY MarkOK

\* What a timer that is set to w leaves behind it, the first node included.
LEMMA ArmOK ==
    ASSUME MaxWait \in Nat, QueueOK, NEW n \in Notify, NEW w \in Wait,
           NEW p \in 1 .. Len(timers) + 1, Arm(n, w, p)
    PROVE  /\ timers' \in Seq(Node)
           /\ Sorted(timers') /\ LiveOnce(timers') /\ LiveTrue(timers', expiration')
           /\ mode # "stopped" => LiveThere(timers', expiration')
           /\ expiration' = [expiration EXCEPT ![n] = w]
           /\ (\A i \in DOMAIN timers : timers[i].state # "orphan")
                 => \A i \in DOMAIN timers' : timers'[i].state # "orphan"
           /\ w = Inf => (timers' = <<>> <=> timers = <<>>)
                          /\ (timers # <<>> => timers'[1].left = timers[1].left)
           /\ w # Inf => timers' # <<>>
           /\ w # Inf /\ p # 1 => timers # <<>> /\ timers'[1].left = timers[1].left
<1> DEFINE s == Outdated(n)
<1>0. s = Mark(n, "live", "stale")
  BY DEF Outdated
<1>1. expiration' = [expiration EXCEPT ![n] = w] /\ p \in Places(timers, w)
      /\ timers' = IF w = Inf THEN s ELSE Insert(s, p, [n |-> n, left |-> w, state |-> "live"])
  BY DEF Arm
<1> HIDE DEF s
<1>2. /\ s \in Seq(Node) /\ DOMAIN s = DOMAIN timers /\ Len(s) = Len(timers)
      /\ (s = <<>> <=> timers = <<>>)
      /\ \A i \in DOMAIN s : s[i].left = timers[i].left /\ s[i].n = timers[i].n
      /\ Sorted(s) /\ LiveOnce(s)
      /\ \A i \in DOMAIN s : ~Live(s, i, n)
      /\ \A m \in Notify \ {n} : \A i \in DOMAIN s : Live(s, i, m) <=> Live(timers, i, m)
      /\ LiveTrue(s, expiration)
      /\ LiveTrue(s, [expiration EXCEPT ![n] = Inf])
      /\ (\A i \in DOMAIN timers : timers[i].state # "orphan")
            => \A i \in DOMAIN s : s[i].state # "orphan"
  <2>1. Marked(s, n) /\ (Whole(timers) => Whole(s))
    BY <1>0, MarkStale
  <2> QED
    BY <2>1 DEF Marked, Whole
<1>3. expiration \in [Notify -> Wait] /\ timers \in Seq(Node)
      /\ (mode # "stopped" => LiveThere(timers, expiration))
  BY DEF QueueOK
<1>4. mode # "stopped" => \A m \in Notify \ {n} :
         expiration[m] # Inf => \E i \in DOMAIN s : Live(s, i, m)
  BY <1>2, <1>3 DEF LiveThere
<1>5. timers # <<>> => 1 \in DOMAIN timers
  BY <1>3
<1>6. timers # <<>> => s[1].left = timers[1].left
  BY <1>2, <1>5
<1>7. CASE w = Inf
  <2>1. timers' = s
    BY <1>1, <1>7
  <2>2. ASSUME mode # "stopped" PROVE LiveThere(s, [expiration EXCEPT ![n] = Inf])
    BY <1>3, <1>4, <2>2 DEF LiveThere
  <2> QED
    BY <1>1, <1>2, <1>6, <1>7, <2>1, <2>2
<1>8. CASE w # Inf
  <2>1. w \in 0 .. MaxWait
    BY <1>8 DEF Wait, Inf
  <2>2. p \in Places(s, w)
    <3>1. PICK k \in Nat : k = Len(timers) /\ DOMAIN timers = 1 .. k
      BY <1>3
    <3>2. p \in 1 .. k + 1 /\ (\A i \in 1 .. p - 1 : timers[i].left <= w)
          /\ \A i \in p .. k : timers[i].left >= w /\ timers[i].left > 0
      BY <1>1, <3>1 DEF Places
    <3>3. \A i \in 1 .. p - 1 : i \in DOMAIN s
      BY <1>2, <3>1, <3>2
    <3>4. \A i \in p .. k : i \in DOMAIN s
      BY <1>2, <3>1, <3>2
    <3>5. p \in 1 .. Len(s) + 1 /\ (\A i \in 1 .. p - 1 : s[i].left <= w)
          /\ \A i \in p .. Len(s) : s[i].left >= w /\ s[i].left > 0
      BY <1>2, <3>1, <3>2, <3>3, <3>4
    <3> QED
      BY <3>5 DEF Places
  <2> DEFINE e == [expiration EXCEPT ![n] = w]
             t == Insert(s, p, [n |-> n, left |-> w, state |-> "live"])
  <2>3. timers' = t /\ expiration' = e
    BY <1>1, <1>8
  <2>0. /\ t = Insert(s, p, [n |-> n, left |-> w, state |-> "live"])
        /\ e = [expiration EXCEPT ![n] = w]
    OBVIOUS
  <2> HIDE DEF t, e
  <2>4. InPlace(s, expiration, n, p, t, e)
    <3>1. ReadyFor(s, expiration, n)
      BY <1>2, <1>3 DEF ReadyFor
    <3> QED
      BY <2>0, <2>1, <2>2, <3>1, InsertOK
  <2> QED
    BY <1>1, <1>2, <1>4, <1>6, <1>8, <2>3, <2>4 DEF InPlace
<1> QED
  BY <1>7, <1>8

\* The first node is taken off, and its timer is no longer set if it counted.
LEMMA TailOK ==
    ASSUME MaxWait \in Nat, QueueOK, timers # <<>>,
           NEW t, t = Tail(timers), NEW e,
           e = IF Top.state = "live" THEN [expiration EXCEPT ![Top.n] = Inf] ELSE expiration
    PROVE  /\ t \in Seq(Node) /\ e \in [Notify -> Wait] /\ Top \in Node
           /\ Sorted(t) /\ LiveOnce(t) /\ LiveTrue(t, e)
           /\ mode # "stopped" => LiveThere(t, e)
           /\ t # <<>> => Top.left <= t[1].left
           /\ (\A i \in DOMAIN timers : timers[i].state # "orphan")
                 => \A i \in DOMAIN t : t[i].state # "orphan"
           /\ Top.state # "live" \/ expiration[Top.n] # Inf
<1>1. timers \in Seq(Node) /\ expiration \in [Notify -> Wait] /\ Sorted(timers)
      /\ LiveOnce(timers) /\ LiveTrue(timers, expiration)
      /\ (mode # "stopped" => LiveThere(timers, expiration))
  BY DEF QueueOK
<1>2. PICK k \in Nat : k = Len(timers) /\ DOMAIN timers = 1 .. k /\ k > 0
                       /\ timers \in [1 .. k -> Node]
  BY <1>1
<1>3. t \in Seq(Node) /\ DOMAIN t = 1 .. k - 1 /\ (k = 1 => t = <<>>)
      /\ \A i \in 1 .. k - 1 : t[i] = timers[i + 1]
  <2>1. /\ t \in Seq(Node) /\ Len(t) = k - 1
        /\ \A i \in 1 .. k - 1 : t[i] = timers[i + 1]
    BY <1>1, <1>2, HeadTailProperties
  <2> QED
    BY <1>2, <2>1
<1>4. Top = timers[1] /\ Top \in Node
  BY <1>1, <1>2 DEF Top
<1>5. \A i \in 1 .. k - 1 : i + 1 \in 1 .. k
  BY <1>2
<1>6. Sorted(t)
  <2> SUFFICES ASSUME NEW i \in 1 .. k - 1, NEW j \in 1 .. k - 1, i < j
               PROVE  t[i].left <= t[j].left
    BY <1>3 DEF Sorted
  <2>1. i + 1 \in DOMAIN timers /\ j + 1 \in DOMAIN timers /\ i + 1 < j + 1
    BY <1>2
  <2> QED
    BY <1>1, <1>3, <2>1 DEF Sorted
<1>7. LiveOnce(t)
  <2> SUFFICES ASSUME NEW i \in 1 .. k - 1, NEW j \in 1 .. k - 1, t[i].state = "live",
                      t[j].state = "live", t[i].n = t[j].n
               PROVE  i = j
    BY <1>3 DEF LiveOnce
  <2>1. i + 1 \in DOMAIN timers /\ j + 1 \in DOMAIN timers
    BY <1>2
  <2>2. t[i] = timers[i + 1] /\ t[j] = timers[j + 1]
    BY <1>3
  <2>3. i + 1 = j + 1
    BY <1>1, <2>1, <2>2 DEF LiveOnce
  <2> QED
    BY <2>3
<1>8. Inf \in Wait /\ \A v \in 0 .. MaxWait : v # Inf
  BY DEF Inf, Wait
<1>9. e \in [Notify -> Wait]
  BY <1>1, <1>8
<1>10. LiveTrue(t, e)
  <2> SUFFICES ASSUME NEW i \in 1 .. k - 1, t[i].state = "live"
               PROVE  t[i].left = e[t[i].n]
    BY <1>3 DEF LiveTrue
  <2>1. i + 1 \in 1 .. k /\ t[i] = timers[i + 1] /\ i + 1 # 1 /\ 1 \in 1 .. k
    BY <1>2, <1>3
  <2>2. t[i].left = expiration[t[i].n] /\ t[i].n \in Notify
    BY <1>1, <1>2, <2>1 DEF LiveTrue, Node
  <2>3. Top.state = "live" => t[i].n # Top.n
    BY <1>1, <1>2, <1>4, <2>1 DEF LiveOnce
  <2> QED
    BY <1>1, <2>2, <2>3
<1>11. ASSUME mode # "stopped" PROVE LiveThere(t, e)
  <2> SUFFICES ASSUME NEW m \in Notify, e[m] # Inf
               PROVE  \E i \in DOMAIN t : Live(t, i, m)
    BY DEF LiveThere
  <2>1. expiration[m] # Inf /\ ~(Top.state = "live" /\ Top.n = m)
    BY <1>1
  <2>2. PICK i \in 1 .. k : Live(timers, i, m)
    BY <1>1, <1>2, <1>11, <2>1 DEF LiveThere
  <2>3. i # 1
    BY <1>4, <2>1, <2>2 DEF Live
  <2>4. i - 1 \in 1 .. k - 1 /\ t[i - 1] = timers[i]
    BY <1>2, <1>3, <2>3
  <2> QED
    BY <1>3, <2>2, <2>4 DEF Live
<1>12. t # <<>> => Top.left <= t[1].left
  <2>1. t # <<>> => k > 1
    <3>1. CASE k = 1
      BY <1>3, <3>1
    <3> QED
      BY <1>2, <3>1
  <2>2. ASSUME t # <<>>
        PROVE  1 \in 1 .. k - 1 /\ 1 \in DOMAIN timers /\ 2 \in DOMAIN timers /\ 1 + 1 = 2
    BY <1>2, <2>1, <2>2
  <2>3. ASSUME t # <<>> PROVE t[1] = timers[2]
    BY <1>3, <2>2, <2>3
  <2>4. ASSUME t # <<>> PROVE timers[1].left <= timers[2].left
    BY <1>1, <2>2, <2>4 DEF Sorted
  <2> QED
    BY <1>4, <2>3, <2>4
<1>13. ASSUME \A i \in DOMAIN timers : timers[i].state # "orphan"
       PROVE  \A i \in DOMAIN t : t[i].state # "orphan"
  BY <1>2, <1>3, <1>5, <1>13
<1>14. Top.state # "live" \/ expiration[Top.n] # Inf
  <2>1. 1 \in DOMAIN timers /\ Top.left \in 0 .. MaxWait
    BY <1>2, <1>4 DEF Node
  <2> QED
    BY <1>1, <1>4, <1>8, <2>1 DEF LiveTrue
<1> QED
  BY <1>3, <1>4, <1>6, <1>7, <1>9, <1>10, <1>11, <1>12, <1>13, <1>14

\* Time passes for the queue and the timers alike.
LEMMA LaterOK ==
    ASSUME TimerAssumption, NEW v \in Wait, NEW w \in Wait
    PROVE  /\ Later(v) \in Wait /\ (v # Inf => Later(v) \in 0 .. MaxWait)
           /\ (Later(v) = Inf <=> v = Inf) /\ (v <= w /\ w # Inf => Later(v) <= Later(w))
           /\ Inf \in Wait /\ Inf \notin 0 .. MaxWait
  BY DEF TimerAssumption, Wait, Inf, Later

\* The nodes are t and the timers e when time has passed.
Passed(t, e) ==
    /\ t = [i \in DOMAIN timers |-> [timers[i] EXCEPT !.left = Later(@)]]
    /\ e = [n \in Notify |-> Later(expiration[n])]

LEMMA SeqOfNodes ==
    ASSUME NEW k \in Nat, NEW f \in [1 .. k -> Node]
    PROVE  f \in Seq(Node) /\ Len(f) = k /\ DOMAIN f = 1 .. k /\ (f = <<>> <=> k = 0)
  OBVIOUS

LEMMA TickOK ==
    ASSUME TimerAssumption, QueueOK, NEW t, NEW e, Passed(t, e)
    PROVE  /\ t \in Seq(Node) /\ e \in [Notify -> Wait] /\ (t = <<>> <=> timers = <<>>)
           /\ Sorted(t) /\ LiveOnce(t) /\ LiveTrue(t, e)
           /\ mode # "stopped" => LiveThere(t, e)
           /\ timers # <<>> => t[1].left = Later(timers[1].left)
           /\ (\A i \in DOMAIN timers : timers[i].state # "orphan")
                 => \A i \in DOMAIN t : t[i].state # "orphan"
           /\ \A n \in Notify : e[n] = Inf <=> expiration[n] = Inf
<1>1. timers \in Seq(Node) /\ expiration \in [Notify -> Wait] /\ Sorted(timers)
      /\ LiveOnce(timers) /\ LiveTrue(timers, expiration)
      /\ (mode # "stopped" => LiveThere(timers, expiration))
  BY DEF QueueOK
<1>2. PICK k \in Nat : k = Len(timers) /\ DOMAIN timers = 1 .. k
                       /\ timers \in [1 .. k -> Node]
  BY <1>1
<1>3. ASSUME NEW i \in 1 .. k
      PROVE  /\ t[i] \in Node /\ t[i].n = timers[i].n /\ t[i].state = timers[i].state
             /\ t[i].left = Later(timers[i].left) /\ timers[i] \in Node
             /\ timers[i].left \in Wait /\ timers[i].left # Inf
  <2>1. timers[i] \in Node
    BY <1>2
  <2>2. timers[i].left \in 0 .. MaxWait /\ timers[i].n \in Notify
        /\ timers[i].state \in {"live", "stale", "orphan"}
    BY <2>1 DEF Node
  <2>3. timers[i].left \in Wait /\ timers[i].left # Inf
    BY <2>2 DEF Wait, Inf, TimerAssumption
  <2>4. Later(timers[i].left) \in 0 .. MaxWait
    BY <2>3, LaterOK
  <2>5. t[i] = [timers[i] EXCEPT !.left = Later(timers[i].left)]
    BY <1>2 DEF Passed
  <2>6. timers[i] = [n |-> timers[i].n, left |-> timers[i].left, state |-> timers[i].state]
    BY <2>1 DEF Node
  <2>7. t[i] = [n |-> timers[i].n, left |-> Later(timers[i].left), state |-> timers[i].state]
    BY <2>1, <2>5 DEF Node
  <2> QED
    BY <2>1, <2>2, <2>3, <2>4, <2>7 DEF Node
<1>4. t \in Seq(Node) /\ DOMAIN t = 1 .. k /\ (t = <<>> <=> timers = <<>>)
  <2>1. t \in [1 .. k -> Node]
    BY <1>2, <1>3 DEF Passed
  <2>2. t \in Seq(Node) /\ DOMAIN t = 1 .. k /\ (t = <<>> <=> k = 0)
    BY <2>1, SeqOfNodes
  <2>3. timers = <<>> <=> k = 0
    BY <1>2
  <2> QED
    BY <2>2, <2>3
<1>5. e \in [Notify -> Wait] /\ \A n \in Notify : e[n] = Later(expiration[n])
  BY <1>1, LaterOK DEF Passed
<1>6. \A n \in Notify : e[n] = Inf <=> expiration[n] = Inf
  BY <1>1, <1>5, LaterOK
<1>7. Sorted(t)
  <2> SUFFICES ASSUME NEW i \in 1 .. k, NEW j \in 1 .. k, i < j
               PROVE  t[i].left <= t[j].left
    BY <1>4 DEF Sorted
  <2>1. timers[i].left <= timers[j].left
    BY <1>1, <1>2 DEF Sorted
  <2> QED
    BY <1>3, <2>1, LaterOK
<1>8. LiveOnce(t)
  BY <1>1, <1>2, <1>3, <1>4 DEF LiveOnce
<1>9. LiveTrue(t, e)
  <2> SUFFICES ASSUME NEW i \in 1 .. k, t[i].state = "live"
               PROVE  t[i].left = e[t[i].n]
    BY <1>4 DEF LiveTrue
  <2>1. timers[i].left = expiration[timers[i].n]
    BY <1>1, <1>2, <1>3 DEF LiveTrue
  <2>2. timers[i].n \in Notify
    BY <1>3 DEF Node
  <2> QED
    BY <1>3, <1>5, <2>1, <2>2
<1>10. ASSUME mode # "stopped" PROVE LiveThere(t, e)
  <2> SUFFICES ASSUME NEW m \in Notify, e[m] # Inf
               PROVE  \E i \in DOMAIN t : Live(t, i, m)
    BY DEF LiveThere
  <2>1. PICK i \in 1 .. k : Live(timers, i, m)
    BY <1>1, <1>2, <1>6, <1>10 DEF LiveThere
  <2> QED
    BY <1>3, <1>4, <2>1 DEF Live
<1>11. timers # <<>> => t[1].left = Later(timers[1].left)
  <2>1. timers # <<>> => 1 \in 1 .. k
    BY <1>2
  <2> QED
    BY <1>3, <2>1
<1>12. ASSUME \A i \in DOMAIN timers : timers[i].state # "orphan"
       PROVE  \A i \in DOMAIN t : t[i].state # "orphan"
  BY <1>2, <1>3, <1>4, <1>12
<1> QED
  BY <1>4, <1>5, <1>6, <1>7, <1>8, <1>9, <1>10, <1>11, <1>12

-----------------------------------------------------------------------------
(* One lemma per action, or per group of actions that leave the queue be.  *)

CallSet == [pc : {"idle", "notify", "closing", "waiting", "woken"},
            n : Notify \cup {None}, destroy : BOOLEAN]

\* What TypeOK says of the queue is what a sequence of nodes is.
LEMMA NodesTyped ==
    ASSUME NEW ts \in Seq(Node)
    PROVE  \A i \in DOMAIN ts : ts[i] \in
             [n : Notify, left : 0..MaxWait, state : {"live", "stale", "orphan"}]
<1>1. \A i \in DOMAIN ts : ts[i] \in Node
  OBVIOUS
<1> QED
  BY <1>1 DEF Node

LEMMA TopIs ==
    ASSUME timers # <<>>
    PROVE  Top = timers[1]
  BY DEF Top

\* The values a thread's call takes.
LEMMA CallTyped ==
    ASSUME NEW pc \in {"idle", "notify", "closing", "waiting", "woken"},
           NEW n \in Notify \cup {None}, NEW destroy \in BOOLEAN
    PROVE  At(pc, n, destroy) \in CallSet /\ Idle \in CallSet
  BY DEF At, Idle, CallSet

LEMMA TimerInit ==
    ASSUME TimerAssumption, Init
    PROVE  TimerIInv
<1>1. timers = <<>> /\ timers \in Seq(Node)
  BY DEF Init
<1>2. Inf \in Wait
  BY DEF Inf, Wait, TimerAssumption
<1>3. TypeOK
  <2>1. \A i \in DOMAIN timers : timers[i] \in
          [n : Notify, left : 0..MaxWait, state : {"live", "stale", "orphan"}]
    BY <1>1, NodesTyped
  <2>2. Idle \in CallSet
    BY DEF Idle, CallSet
  <2>3. call \in [Thread -> CallSet]
    BY <2>2 DEF Init
  <2>4. expiration \in [Notify -> Wait] /\ armed \in [Notify -> BOOLEAN]
        /\ alive \in [Notify -> BOOLEAN] /\ sleep \in Wait
    BY <1>2 DEF Init
  <2>6. processing \in BOOLEAN /\ connected \in BOOLEAN
    BY DEF Init
  <2>7. queued \in 0..1
    BY DEF Init
  <2>5. /\ mode \in {"running", "stopping", "stopped"}
        /\ handling \in Notify \cup {None}
        /\ epc \in {"idle", "loop", "callback", "notify"}
        /\ dpc \in {"check", "wait", "timed", "push", "done"}
        /\ mpc \in {"run", "notify", "check", "waiting", "done"}
    BY DEF Init
  <2> QED
    BY <2>1, <2>3, <2>4, <2>5, <2>6, <2>7 DEF TypeOK, CallSet
<1>4. QueueOK
  BY <1>1, <1>2 DEF Init, QueueOK, Sorted, LiveOnce, LiveTrue, LiveThere
<1>5. ArmedOK /\ StagesOK /\ RunTimersOnce /\ DispatchNotLate
  BY DEF Init, ArmedOK, StagesOK, RunTimersOnce, DispatchNotLate, Processing, Idle
<1> QED
  BY <1>3, <1>4, <1>5 DEF TimerIInv

\* The types of everything but the queue.
RestTyped ==
    /\ mode \in {"running", "stopping", "stopped"}
    /\ processing \in BOOLEAN /\ connected \in BOOLEAN
    /\ handling \in Notify \cup {None}
    /\ armed \in [Notify -> BOOLEAN] /\ alive \in [Notify -> BOOLEAN]
    /\ queued \in 0..1
    /\ epc \in {"idle", "loop", "callback", "notify"}
    /\ dpc \in {"check", "wait", "timed", "push", "done"}
    /\ sleep \in Wait
    /\ call \in [Thread -> CallSet]
    /\ mpc \in {"run", "notify", "check", "waiting", "done"}

LEMMA TypeParts ==
    /\ TypeOK => RestTyped
    /\ QueueOK /\ RestTyped => TypeOK
    /\ (QueueOK /\ RestTyped)' => TypeOK'
<1>1. TypeOK => RestTyped
  BY DEF TypeOK, RestTyped, CallSet
<1>2. QueueOK /\ RestTyped => TypeOK
  <2>1. ASSUME QueueOK
        PROVE  \A i \in DOMAIN timers : timers[i] \in
                 [n : Notify, left : 0..MaxWait, state : {"live", "stale", "orphan"}]
    BY <2>1, NodesTyped DEF QueueOK
  <2> QED
    BY <2>1 DEF TypeOK, RestTyped, CallSet, QueueOK
<1>3. (QueueOK /\ RestTyped)' => TypeOK'
  <2>1. ASSUME QueueOK'
        PROVE  \A i \in DOMAIN timers' : timers'[i] \in
                 [n : Notify, left : 0..MaxWait, state : {"live", "stale", "orphan"}]
    BY <2>1, NodesTyped DEF QueueOK
  <2> QED
    BY <2>1 DEF TypeOK, RestTyped, CallSet, QueueOK
<1> QED
  BY <1>1, <1>2, <1>3

\* A step that leaves the queue and the timers be.
LEMMA QueueStays ==
    ASSUME QueueOK, UNCHANGED <<timers, expiration>>, mode = "stopped" => mode' = "stopped"
    PROVE  QueueOK'
  BY DEF QueueOK, LiveThere, LiveTrue, LiveOnce, Sorted, Live

\* While RunTimers is working the dispatch thread's next look at the queue is to come.
LEMMA WorkingIsClaimed ==
    ASSUME RestTyped, RunTimersOnce
    PROVE  /\ Processing => processing /\ queued = 0 /\ dpc # "push"
           /\ dpc = "push" => processing /\ queued = 0
           /\ queued > 0 => processing /\ queued = 1 /\ ~Processing /\ dpc # "push"
           /\ ~processing => queued = 0 /\ ~Processing /\ dpc # "push"
  BY DEF RestTyped, RunTimersOnce, Processing

LEMMA UpdateKeeps ==
    ASSUME TimerAssumption, TimerIInv, NEW c \in Thread, NEW n \in Notify, NEW w \in Wait,
           NEW sooner \in BOOLEAN, Update(c, n, w, sooner)
    PROVE  TimerIInv'
<1>1. QueueOK /\ ArmedOK /\ StagesOK /\ RunTimersOnce /\ DispatchNotLate /\ RestTyped
  BY TypeParts DEF TimerIInv
<1>2. /\ call[c] = Idle /\ armed' = [armed EXCEPT ![n] = TRUE]
      /\ UNCHANGED <<mode, processing, handling, connected, alive, queued, epc, dpc, sleep, mpc>>
  BY DEF Update, MayCall
<1>3. \/ UNCHANGED <<timers, expiration, call>>
      \/ \E p \in 1 .. Len(timers) + 1 :
            /\ Arm(n, w, p)
            /\ call' = IF Notifies(w, p) THEN [call EXCEPT ![c] = At("notify", n, FALSE)]
                       ELSE call
  BY DEF Update
<1>4. RunTimersOnce'
  BY <1>1, <1>2 DEF RunTimersOnce, Processing
<1>5. CASE UNCHANGED <<timers, expiration, call>>
  <2>1. QueueOK'
    BY <1>1, <1>2, <1>5, QueueStays
  <2>2. ArmedOK'
    BY <1>1, <1>2, <1>5 DEF ArmedOK, RestTyped
  <2>3. StagesOK'
    BY <1>1, <1>2, <1>5 DEF StagesOK
  <2>4. DispatchNotLate'
    BY <1>1, <1>2, <1>5 DEF DispatchNotLate, NotifyPending, Top
  <2>5. RestTyped'
    BY <1>1, <1>2, <1>5 DEF RestTyped
  <2> QED
    BY <1>4, <2>1, <2>2, <2>3, <2>4, <2>5, TypeParts DEF TimerIInv
<1>6. ASSUME NEW p \in 1 .. Len(timers) + 1, Arm(n, w, p),
             call' = IF Notifies(w, p) THEN [call EXCEPT ![c] = At("notify", n, FALSE)]
                     ELSE call
      PROVE  TimerIInv'
  <2>1. /\ timers' \in Seq(Node)
        /\ Sorted(timers') /\ LiveOnce(timers') /\ LiveTrue(timers', expiration')
        /\ mode # "stopped" => LiveThere(timers', expiration')
        /\ expiration' = [expiration EXCEPT ![n] = w]
        /\ w # Inf => timers' # <<>>
        /\ w # Inf /\ p # 1 => timers # <<>> /\ timers'[1].left = timers[1].left
    BY <1>1, <1>6, ArmOK DEF TimerAssumption
  <2>2. expiration' \in [Notify -> Wait]
    BY <1>1, <2>1 DEF QueueOK
  <2>3. QueueOK'
    BY <1>2, <2>1, <2>2 DEF QueueOK
  <2>4. ArmedOK'
    BY <1>1, <1>2, <2>1 DEF ArmedOK, RestTyped, QueueOK
  <2>5. At("notify", n, FALSE) \in CallSet /\ At("notify", n, FALSE).pc = "notify"
        /\ At("notify", n, FALSE).n = n
    BY DEF At, CallSet
  <2>6. \/ call' = [call EXCEPT ![c] = At("notify", n, FALSE)]
        \/ ~Notifies(w, p) /\ call' = call
    BY <1>6
  <2>7. call' \in [Thread -> CallSet]
    BY <1>1, <2>5, <2>6 DEF RestTyped
  <2>8. RestTyped'
    BY <1>1, <1>2, <2>7 DEF RestTyped
  <2>9. StagesOK'
    BY <1>1, <1>2, <2>5, <2>6 DEF StagesOK, RestTyped
  <2>10. DispatchNotLate'
    <3>1. CASE call' = [call EXCEPT ![c] = At("notify", n, FALSE)]
      <4>1. call'[c].pc = "notify"
        BY <1>1, <2>5, <3>1 DEF RestTyped
      <4> QED
        BY <4>1 DEF DispatchNotLate, NotifyPending
    <3>2. CASE ~Notifies(w, p) /\ call' = call
      <4>1. w # Inf /\ p # 1
        BY <3>2 DEF Notifies
      <4>2. timers # <<>> /\ Top' = timers'[1] /\ Top = timers[1]
            /\ timers'[1].left = timers[1].left
        BY <2>1, <4>1 DEF Top
      <4>3. NotifyPending' <=> NotifyPending
        BY <1>2, <3>2 DEF NotifyPending
      <4>4. dpc' = dpc /\ mode' = mode /\ processing' = processing /\ sleep' = sleep
        BY <1>2
      <4> HIDE DEF NotifyPending
      <4> QED
        BY <1>1, <4>2, <4>3, <4>4 DEF DispatchNotLate
    <3> QED
      BY <2>6, <3>1, <3>2
  <2> QED
    BY <1>4, <2>3, <2>4, <2>8, <2>9, <2>10, TypeParts DEF TimerIInv
<1> QED
  BY <1>3, <1>5, <1>6

\* The steps of timerUpdate and timerCloseWait that leave the queue be.
LEMMA CallKeeps ==
    ASSUME TimerAssumption, TimerIInv, NEW c \in Thread,
           UpdateNotify(c) \/ CloseWoken(c) \/ SpuriousCloser(c)
    PROVE  TimerIInv'
<1>1. QueueOK /\ ArmedOK /\ StagesOK /\ RunTimersOnce /\ DispatchNotLate /\ RestTyped
  BY TypeParts DEF TimerIInv
<1>2. /\ UNCHANGED <<mode, timers, processing, handling, connected, armed, expiration,
                    queued, epc, sleep, mpc>>
      /\ dpc' = dpc \/ (dpc' = "check" /\ dpc \in {"wait", "timed"})
      /\ call[c].pc = "notify" => dpc' \notin {"wait", "timed"}
  <2>1. UNCHANGED <<mode, timers, processing, handling, connected, armed, expiration,
                   queued, epc, sleep, mpc>>
    BY DEF UpdateNotify, CloseWoken, SpuriousCloser
  <2>2. dpc' = dpc \/ (dpc' = "check" /\ dpc \in {"wait", "timed"})
    BY DEF UpdateNotify, CloseWoken, SpuriousCloser, WakeDispatch
  <2>3. call[c].pc = "notify" => dpc' \notin {"wait", "timed"}
    BY DEF UpdateNotify, CloseWoken, SpuriousCloser, WakeDispatch
  <2> QED
    BY <2>1, <2>2, <2>3
<1>3. \/ call' = [call EXCEPT ![c] = Idle]
      \/ call[c].pc \in {"woken", "waiting"} /\ call' = [call EXCEPT ![c].pc = "waiting"]
      \/ call[c].pc \in {"woken", "waiting"} /\ call' = [call EXCEPT ![c].pc = "woken"]
  BY DEF UpdateNotify, CloseWoken, SpuriousCloser, Return
<1>4. alive' = alive \/ \E n \in Notify, d \in BOOLEAN : alive' = [alive EXCEPT ![n] = @ /\ ~d]
  <2>1. call[c] \in CallSet
    BY <1>1 DEF RestTyped
  <2>2. call[c].destroy \in BOOLEAN /\ (call[c].pc # "idle" => call[c].n \in Notify)
    BY <1>1, <2>1 DEF CallSet, StagesOK
  <2> QED
    BY <2>2 DEF UpdateNotify, CloseWoken, SpuriousCloser, Return
<1>5. /\ call'  \in [Thread -> CallSet]
      /\ \A b \in Thread : call'[b].pc # "idle" => call'[b].n \in Notify
      /\ \A b \in Thread \ {c} : call'[b] = call[b]
  <2>1. \A b \in Thread : call[b] \in CallSet
    BY <1>1 DEF RestTyped
  <2>2. Idle \in CallSet /\ Idle.pc = "idle"
    BY DEF Idle, CallSet
  <2>3. call'[c] = Idle \/ \E pc \in {"waiting", "woken"} :
            call[c].pc # "idle" /\ call'[c] = [call[c] EXCEPT !.pc = pc]
    BY <1>1, <1>3 DEF RestTyped
  <2>4. call' = [call EXCEPT ![c] = call'[c]]
    BY <1>1, <1>3 DEF RestTyped
  <2>5. call'[c] \in CallSet /\ (call'[c].pc # "idle" => call'[c].n \in Notify)
    <3>1. CASE call'[c] = Idle
      BY <2>2, <3>1
    <3>2. ASSUME NEW pc \in {"waiting", "woken"}, call[c].pc # "idle",
                 call'[c] = [call[c] EXCEPT !.pc = pc]
          PROVE  call'[c] \in CallSet /\ call'[c].n \in Notify
      <4>1. call[c].n \in Notify /\ call[c] \in CallSet
        BY <1>1, <2>1, <3>2 DEF StagesOK
      <4> QED
        BY <3>2, <4>1 DEF CallSet
    <3> QED
      BY <2>3, <3>1, <3>2
  <2> QED
    BY <1>1, <2>4, <2>5 DEF RestTyped, StagesOK
<1>6. QueueOK'
  BY <1>1, <1>2, QueueStays
<1>7. ArmedOK' /\ RunTimersOnce'
  BY <1>1, <1>2 DEF ArmedOK, RunTimersOnce, Processing
<1>8. StagesOK'
  BY <1>1, <1>2, <1>5 DEF StagesOK
<1>9. DispatchNotLate'
  <2> SUFFICES ASSUME dpc' \in {"wait", "timed"} PROVE DispatchNotLate'
    BY DEF DispatchNotLate
  <2>1. dpc' = dpc /\ call[c].pc # "notify"
    BY <1>2
  <2>2. NotifyPending => NotifyPending'
    BY <1>2, <1>5, <2>1 DEF NotifyPending
  <2>3. Top' = Top
    BY <1>2 DEF Top
  <2> QED
    BY <1>1, <1>2, <2>1, <2>2, <2>3 DEF DispatchNotLate
<1>10. RestTyped'
  <2>1. alive' \in [Notify -> BOOLEAN]
    BY <1>1, <1>4 DEF RestTyped
  <2> QED
    BY <1>1, <1>2, <1>5, <2>1 DEF RestTyped
<1> QED
  BY <1>6, <1>7, <1>8, <1>9, <1>10, TypeParts DEF TimerIInv

\* timerCloseWait before it has s_mut, ...
LEMMA CloseBeginKeeps ==
    ASSUME TimerAssumption, TimerIInv, NEW c \in Thread, NEW n \in Notify,
           NEW destroy \in BOOLEAN, CloseBegin(c, n, destroy)
    PROVE  TimerIInv'
<1>1. QueueOK /\ ArmedOK /\ StagesOK /\ RunTimersOnce /\ DispatchNotLate /\ RestTyped
  BY TypeParts DEF TimerIInv
<1>2. /\ call[c] = Idle
      /\ connected' = (connected /\ ~(handling = n /\ armed[n] /\ mode = "stopped"))
      /\ UNCHANGED <<mode, processing, handling, queued, epc, dpc, sleep, mpc>>
  BY DEF CloseBegin, MayCall
<1>3. \/ ~armed[n] /\ Return(c, n, destroy) /\ UNCHANGED <<timers, armed, expiration>>
      \/ /\ armed[n] /\ mode = "stopped" /\ Return(c, n, destroy)
         /\ armed' = [armed EXCEPT ![n] = FALSE]
         /\ expiration' = [expiration EXCEPT ![n] = Inf]
         /\ timers' = Mark(n, "live", "orphan")
      \/ /\ armed[n] /\ mode # "stopped"
         /\ call' = [call EXCEPT ![c] = At("closing", n, destroy)]
         /\ UNCHANGED <<timers, armed, expiration, alive>>
  BY DEF CloseBegin
<1>4. call' \in [Thread -> CallSet] /\ alive' \in [Notify -> BOOLEAN]
      /\ (\A b \in Thread : call'[b].pc # "idle" => call'[b].n \in Notify)
      /\ (NotifyPending <=> NotifyPending')
  <2>1. Idle \in CallSet /\ Idle.pc = "idle"
    BY DEF Idle, CallSet
  <2>2. /\ At("closing", n, destroy) \in CallSet /\ At("closing", n, destroy).n = n
        /\ At("closing", n, destroy).pc = "closing"
    BY DEF At, CallSet
  <2>3. \/ call' = [call EXCEPT ![c] = Idle] /\ alive' = [alive EXCEPT ![n] = @ /\ ~destroy]
        \/ call' = [call EXCEPT ![c] = At("closing", n, destroy)] /\ alive' = alive
    BY <1>3 DEF Return
  <2>4. call' \in [Thread -> CallSet]
    BY <1>1, <2>1, <2>2, <2>3 DEF RestTyped
  <2>5. alive' \in [Notify -> BOOLEAN]
    BY <1>1, <2>3 DEF RestTyped
  <2>6. \A b \in Thread : call'[b].pc # "idle" => call'[b].n \in Notify
    BY <1>1, <2>1, <2>2, <2>3 DEF RestTyped, StagesOK
  <2>7. \A b \in Thread : call'[b].pc = "notify" <=> call[b].pc = "notify"
    BY <1>1, <1>2, <2>1, <2>2, <2>3 DEF RestTyped
  <2> QED
    BY <1>2, <2>4, <2>5, <2>6, <2>7 DEF NotifyPending
<1>5. RunTimersOnce'
  BY <1>1, <1>2 DEF RunTimersOnce, Processing
<1>6. StagesOK'
  BY <1>1, <1>2, <1>4 DEF StagesOK
<1>7. CASE UNCHANGED <<timers, armed, expiration>>
  <2>1. QueueOK'
    BY <1>1, <1>2, <1>7, QueueStays
  <2>2. ArmedOK'
    BY <1>1, <1>2, <1>7 DEF ArmedOK
  <2>3. DispatchNotLate'
    BY <1>1, <1>2, <1>4, <1>7 DEF DispatchNotLate, Top
  <2>4. RestTyped'
    BY <1>1, <1>2, <1>4, <1>7 DEF RestTyped
  <2> QED
    BY <1>5, <1>6, <2>1, <2>2, <2>3, <2>4, TypeParts DEF TimerIInv
<1>8. CASE /\ armed[n] /\ mode = "stopped"
           /\ armed' = [armed EXCEPT ![n] = FALSE]
           /\ expiration' = [expiration EXCEPT ![n] = Inf]
           /\ timers' = Mark(n, "live", "orphan")
  <2>1. Marked(timers', n)
    BY <1>1, <1>8, MarkOrphan
  <2>2. /\ timers' \in Seq(Node) /\ Sorted(timers') /\ LiveOnce(timers')
        /\ LiveTrue(timers', [expiration EXCEPT ![n] = Inf])
    BY <2>1 DEF Marked
  <2>3. expiration' \in [Notify -> Wait]
    BY <1>1, <1>8 DEF QueueOK, Wait, Inf, TimerAssumption
  <2>4. QueueOK'
    BY <1>2, <1>8, <2>2, <2>3 DEF QueueOK
  <2>5. ArmedOK'
    BY <1>1, <1>2, <1>8 DEF ArmedOK, QueueOK, RestTyped
  <2>6. DispatchNotLate'
    BY <1>1, <1>2, <1>8 DEF DispatchNotLate, StagesOK
  <2>7. armed' \in [Notify -> BOOLEAN]
    BY <1>1, <1>8 DEF RestTyped
  <2>8. RestTyped'
    BY <1>1, <1>2, <1>4, <2>7 DEF RestTyped
  <2> QED
    BY <1>5, <1>6, <2>4, <2>5, <2>6, <2>8, TypeParts DEF TimerIInv
<1> QED
  BY <1>3, <1>7, <1>8

\* ... and with it.
LEMMA CloseLockedKeeps ==
    ASSUME TimerAssumption, TimerIInv, NEW c \in Thread, CloseLocked(c)
    PROVE  TimerIInv'
<1>1. QueueOK /\ ArmedOK /\ StagesOK /\ RunTimersOnce /\ DispatchNotLate /\ RestTyped
  BY TypeParts DEF TimerIInv
<1> DEFINE n == call[c].n
<1>2. /\ call[c].pc = "closing" /\ armed[n]
      /\ armed' = [armed EXCEPT ![n] = FALSE]
      /\ expiration' = [expiration EXCEPT ![n] = Inf]
      /\ timers' = Mark(n, "live", "stale")
      /\ connected' = (connected /\ handling # n)
      /\ UNCHANGED <<mode, processing, handling, queued, epc, dpc, sleep, mpc>>
  BY DEF CloseLocked, Outdated
<1>3. \/ call' = [call EXCEPT ![c].pc = "waiting"] /\ alive' = alive
      \/ /\ call' = [call EXCEPT ![c] = Idle]
         /\ alive' = [alive EXCEPT ![n] = @ /\ ~call[c].destroy]
  BY DEF CloseLocked, Return
<1>4. n \in Notify /\ call[c] \in CallSet /\ call[c].destroy \in BOOLEAN
  BY <1>1, <1>2 DEF StagesOK, RestTyped, CallSet
<1>5. call' \in [Thread -> CallSet] /\ alive' \in [Notify -> BOOLEAN]
      /\ (\A b \in Thread : call'[b].pc # "idle" => call'[b].n \in Notify)
      /\ (NotifyPending <=> NotifyPending')
  <2>1. Idle \in CallSet /\ Idle.pc = "idle"
    BY DEF Idle, CallSet
  <2>2. /\ [call[c] EXCEPT !.pc = "waiting"] \in CallSet
        /\ [call[c] EXCEPT !.pc = "waiting"].n = n
        /\ [call[c] EXCEPT !.pc = "waiting"].pc = "waiting"
    BY <1>4 DEF CallSet
  <2>3. \E x \in {Idle, [call[c] EXCEPT !.pc = "waiting"]} : call' = [call EXCEPT ![c] = x]
    BY <1>1, <1>3 DEF RestTyped
  <2>4. call' \in [Thread -> CallSet]
    BY <1>1, <2>1, <2>2, <2>3 DEF RestTyped
  <2>5. alive' \in [Notify -> BOOLEAN]
    BY <1>1, <1>3, <1>4 DEF RestTyped
  <2>6. \A b \in Thread : call'[b].pc # "idle" => call'[b].n \in Notify
    <3> HIDE DEF n
    <3> QED
      BY <1>1, <1>4, <2>1, <2>2, <2>3 DEF RestTyped, StagesOK
  <2>7. \A b \in Thread : call'[b].pc = "notify" <=> call[b].pc = "notify"
    BY <1>1, <1>2, <2>1, <2>2, <2>3 DEF RestTyped
  <2> QED
    BY <1>2, <2>4, <2>5, <2>6, <2>7 DEF NotifyPending
<1> HIDE DEF n
<1>6. RunTimersOnce'
  BY <1>1, <1>2 DEF RunTimersOnce, Processing
<1>7. StagesOK'
  BY <1>1, <1>2, <1>5 DEF StagesOK
<1>8. /\ timers' \in Seq(Node) /\ Sorted(timers') /\ LiveOnce(timers')
      /\ DOMAIN timers' = DOMAIN timers /\ (timers' = <<>> <=> timers = <<>>)
      /\ \A i \in DOMAIN timers' : timers'[i].left = timers[i].left
      /\ LiveTrue(timers', [expiration EXCEPT ![n] = Inf])
      /\ \A m \in Notify \ {n} : \A i \in DOMAIN timers' :
            Live(timers', i, m) <=> Live(timers, i, m)
  <2>1. Marked(timers', n)
    BY <1>1, <1>2, <1>4, MarkStale
  <2> QED
    BY <2>1 DEF Marked
<1>9. QueueOK'
  <2>1. expiration' \in [Notify -> Wait]
    BY <1>1, <1>2, <1>4 DEF QueueOK, Wait, Inf, TimerAssumption
  <2>2. mode' # "stopped" => LiveThere(timers', expiration')
    BY <1>1, <1>2, <1>8 DEF QueueOK, LiveThere
  <2> QED
    BY <1>2, <1>8, <2>1, <2>2 DEF QueueOK
<1>10. ArmedOK'
  BY <1>1, <1>2, <1>4 DEF ArmedOK, QueueOK, RestTyped
<1>11. DispatchNotLate'
  <2>1. timers # <<>> => 1 \in DOMAIN timers'
    BY <1>8
  <2>2. timers # <<>> => Top' = timers'[1] /\ Top = timers[1]
    BY <1>8 DEF Top
  <2> QED
    BY <1>1, <1>2, <1>5, <1>8, <2>1, <2>2 DEF DispatchNotLate
<1>12. RestTyped'
  <2>1. armed' \in [Notify -> BOOLEAN] /\ connected' \in BOOLEAN
    BY <1>1, <1>2 DEF RestTyped
  <2> QED
    BY <1>1, <1>2, <1>5, <2>1 DEF RestTyped
<1> QED
  BY <1>6, <1>7, <1>9, <1>10, <1>11, <1>12, TypeParts DEF TimerIInv

\* The event thread: RunTimers starts, ...
LEMMA RunStartKeeps ==
    ASSUME TimerAssumption, TimerIInv, RunStart
    PROVE  TimerIInv'
<1>1. QueueOK /\ ArmedOK /\ StagesOK /\ RunTimersOnce /\ DispatchNotLate /\ RestTyped
  BY TypeParts DEF TimerIInv
<1>2. /\ epc = "idle" /\ queued > 0 /\ queued' = queued - 1 /\ epc' = "loop"
      /\ UNCHANGED <<mode, timers, processing, handling, connected, armed, expiration,
                     alive, dpc, sleep, call, mpc>>
  BY DEF RunStart
<1>3. QueueOK'
  BY <1>1, <1>2, QueueStays
<1>4. ArmedOK' /\ StagesOK'
  BY <1>1, <1>2 DEF ArmedOK, StagesOK
<1>5. RunTimersOnce'
  BY <1>1, <1>2 DEF RunTimersOnce, Processing, RestTyped
<1>6. DispatchNotLate'
  BY <1>1, <1>2 DEF DispatchNotLate, NotifyPending, Top
<1>7. RestTyped'
  <2>1. queued' \in 0..1
    BY <1>1, <1>2 DEF RestTyped
  <2> QED
    BY <1>1, <1>2, <2>1 DEF RestTyped
<1> QED
  BY <1>3, <1>4, <1>5, <1>6, <1>7, TypeParts DEF TimerIInv

\* ... takes a node off the queue, of use or not, ...
LEMMA RunTakeKeeps ==
    ASSUME TimerAssumption, TimerIInv, RunSkip \/ RunCallback
    PROVE  TimerIInv'
<1>1. QueueOK /\ ArmedOK /\ StagesOK /\ RunTimersOnce /\ DispatchNotLate /\ RestTyped
  BY TypeParts DEF TimerIInv
<1>2. /\ epc = "loop" /\ timers # <<>> /\ timers' = Tail(timers)
      /\ expiration' = IF Top.state = "live" THEN [expiration EXCEPT ![Top.n] = Inf]
                       ELSE expiration
      /\ UNCHANGED <<mode, processing, armed, alive, queued, dpc, sleep, call, mpc>>
  <2>1. CASE RunSkip
    BY <2>1 DEF RunSkip, Due
  <2>2. CASE RunCallback
    BY <2>2 DEF RunCallback, Due
  <2> QED
    BY <2>1, <2>2
<1>3. /\ timers' \in Seq(Node) /\ expiration' \in [Notify -> Wait] /\ Top \in Node
      /\ Sorted(timers') /\ LiveOnce(timers') /\ LiveTrue(timers', expiration')
      /\ mode # "stopped" => LiveThere(timers', expiration')
      /\ Top.state # "live" \/ expiration[Top.n] # Inf
  BY <1>1, <1>2, TailOK DEF TimerAssumption
<1>4. Top.n \in Notify /\ None \notin Notify
  BY <1>3 DEF Node, TimerAssumption
<1>5. \/ handling' = handling /\ connected' = connected /\ epc' = epc
      \/ handling' = Top.n /\ connected' = (Top.state = "live") /\ epc' = "callback"
  BY DEF RunSkip, RunCallback
<1>6. QueueOK'
  BY <1>2, <1>3 DEF QueueOK
<1>7. ArmedOK'
  <2>1. \A n \in Notify : expiration'[n] # Inf => expiration[n] # Inf
    BY <1>1, <1>2 DEF QueueOK
  <2> QED
    <3>1. \A n \in Notify : expiration'[n] # Inf => armed'[n]
      BY <1>1, <1>2, <2>1 DEF ArmedOK
    <3>2. CASE handling' = handling /\ connected' = connected
      BY <1>1, <1>2, <3>1, <3>2 DEF ArmedOK
    <3>3. CASE handling' = Top.n /\ connected' = (Top.state = "live")
      <4>1. Top.state = "live" => armed[Top.n]
        BY <1>1, <1>3, <1>4 DEF ArmedOK
      <4> QED
        BY <1>2, <1>4, <3>1, <3>3, <4>1 DEF ArmedOK
    <3> QED
      BY <1>5, <3>2, <3>3
<1>8. StagesOK'
  BY <1>1, <1>2, <1>4, <1>5 DEF StagesOK
<1>9. RunTimersOnce'
  BY <1>1, <1>2, <1>5 DEF RunTimersOnce, Processing
<1>10. DispatchNotLate'
  <2>1. processing /\ dpc # "timed"
    BY <1>1, <1>2, WorkingIsClaimed DEF StagesOK, Processing
  <2>2. NotifyPending' <=> NotifyPending
    BY <1>2, <1>5 DEF NotifyPending
  <2> QED
    BY <1>1, <1>2, <2>1, <2>2 DEF DispatchNotLate
<1>11. RestTyped'
  <2>1. handling' \in Notify \cup {None} /\ connected' \in BOOLEAN
        /\ epc' \in {"idle", "loop", "callback", "notify"}
    BY <1>1, <1>4, <1>5 DEF RestTyped
  <2> QED
    BY <1>1, <1>2, <2>1 DEF RestTyped
<1> QED
  BY <1>6, <1>7, <1>8, <1>9, <1>10, <1>11, TypeParts DEF TimerIInv

\* ... and sets the timer of the handler that has returned.
LEMMA RunReturnKeeps ==
    ASSUME TimerAssumption, TimerIInv, NEW w \in Wait, RunReturn(w)
    PROVE  TimerIInv'
<1>1. QueueOK /\ ArmedOK /\ StagesOK /\ RunTimersOnce /\ DispatchNotLate /\ RestTyped
  BY TypeParts DEF TimerIInv
<1>2. /\ epc = "callback" /\ epc' = "loop" /\ handling' = None /\ connected' = FALSE
      /\ UNCHANGED <<mode, processing, armed, alive, queued, dpc, sleep, mpc>>
  BY DEF RunReturn
<1>3. IF Rearms(handling, w)
      THEN \E p \in 1 .. Len(timers) + 1 : Arm(handling, w, p)
      ELSE UNCHANGED <<timers, expiration>>
  BY DEF RunReturn
<1>4. handling \in Notify /\ processing /\ dpc # "timed"
  BY <1>1, <1>2, WorkingIsClaimed DEF StagesOK, RestTyped, Processing
<1>5. /\ call' \in [Thread -> CallSet]
      /\ \A c \in Thread : call'[c].pc # "idle" => call'[c].n \in Notify
      /\ \A c \in Thread : call[c].pc = "notify" => call'[c].pc = "notify"
  <2>1. ASSUME NEW c \in Thread, call[c].pc = "waiting"
        PROVE  /\ [call[c] EXCEPT !.pc = "woken"] \in CallSet
               /\ [call[c] EXCEPT !.pc = "woken"].n \in Notify
    <3>1. call[c] \in CallSet /\ call[c].n \in Notify
      BY <1>1, <2>1 DEF RestTyped, StagesOK
    <3> QED
      BY <3>1 DEF CallSet
  <2>2. CASE call' = call
    BY <1>1, <2>2 DEF RestTyped, StagesOK
  <2>3. CASE WakeClosers
    <3>1. \A c \in Thread : call'[c] = IF call[c].pc = "waiting"
                                        THEN [call[c] EXCEPT !.pc = "woken"] ELSE call[c]
      BY <2>3 DEF WakeClosers
    <3>2. ASSUME NEW c \in Thread
          PROVE  /\ call'[c] \in CallSet /\ (call'[c].pc # "idle" => call'[c].n \in Notify)
                 /\ (call[c].pc = "notify" => call'[c].pc = "notify")
      <4>1. CASE call[c].pc = "waiting"
        BY <2>1, <3>1, <4>1
      <4>2. CASE call[c].pc # "waiting"
        BY <1>1, <3>1, <4>2 DEF RestTyped, StagesOK
      <4> QED
        BY <4>1, <4>2
    <3>3. call' \in [Thread -> CallSet]
      BY <2>3, <3>2 DEF WakeClosers
    <3> QED
      BY <3>2, <3>3
  <2> QED
    BY <2>2, <2>3 DEF RunReturn
<1>6. QueueOK' /\ ArmedOK'
  <2>1. CASE ~Rearms(handling, w)
    <3>1. UNCHANGED <<timers, expiration>>
      BY <1>3, <2>1
    <3> QED
      BY <1>1, <1>2, <3>1, QueueStays DEF ArmedOK
  <2>2. CASE Rearms(handling, w)
    <3>1. PICK p \in 1 .. Len(timers) + 1 : Arm(handling, w, p)
      BY <1>3, <2>2
    <3>2. /\ timers' \in Seq(Node)
          /\ Sorted(timers') /\ LiveOnce(timers') /\ LiveTrue(timers', expiration')
          /\ mode # "stopped" => LiveThere(timers', expiration')
          /\ expiration' = [expiration EXCEPT ![handling] = w]
      BY <1>1, <1>4, <3>1, ArmOK DEF TimerAssumption
    <3>3. expiration' \in [Notify -> Wait]
      BY <1>1, <3>2 DEF QueueOK
    <3>4. QueueOK'
      BY <1>2, <3>2, <3>3 DEF QueueOK
    <3>5. connected
      BY <2>2 DEF Rearms
    <3>6. ArmedOK'
      BY <1>1, <1>2, <1>4, <3>2, <3>5 DEF ArmedOK, QueueOK
    <3> QED
      BY <3>4, <3>6
  <2> QED
    BY <2>1, <2>2
<1>7. StagesOK'
  BY <1>1, <1>2, <1>5 DEF StagesOK
<1>8. RunTimersOnce'
  BY <1>1, <1>2 DEF RunTimersOnce, Processing
<1>9. DispatchNotLate'
  <2>1. NotifyPending => NotifyPending'
    BY <1>2, <1>5 DEF NotifyPending
  <2> QED
    BY <1>1, <1>2, <1>4, <2>1 DEF DispatchNotLate
<1>10. RestTyped'
  <2>1. handling' \in Notify \cup {None} /\ connected' \in BOOLEAN
        /\ epc' \in {"idle", "loop", "callback", "notify"}
    BY <1>2
  <2> QED
    BY <1>1, <1>2, <1>5, <2>1 DEF RestTyped
<1> QED
  BY <1>6, <1>7, <1>8, <1>9, <1>10, TypeParts DEF TimerIInv

\* RunTimers has nothing more to do: the dispatch thread is told if there is
\* anything left in the queue.
LEMMA RunEndKeeps ==
    ASSUME TimerAssumption, TimerIInv, RunEnd \/ RunNotify
    PROVE  TimerIInv'
<1>1. QueueOK /\ ArmedOK /\ StagesOK /\ RunTimersOnce /\ DispatchNotLate /\ RestTyped
  BY TypeParts DEF TimerIInv
<1>2. UNCHANGED <<mode, timers, handling, connected, armed, expiration, alive, queued,
                  sleep, call, mpc>>
  BY DEF RunEnd, RunNotify
<1>3. /\ epc \in {"loop", "notify"} /\ epc' \in {"idle", "notify"}
      /\ dpc' = dpc \/ (dpc' = "check" /\ dpc \in {"wait", "timed"})
  BY DEF RunEnd, RunNotify, WakeDispatch
<1>4. processing' \in BOOLEAN /\ (processing' => processing)
  <2>1. processing \in BOOLEAN
    BY <1>1 DEF RestTyped
  <2>2. processing' = FALSE \/ processing' = processing
    BY DEF RunEnd, RunNotify
  <2>3. CASE processing' = FALSE
    BY <2>3
  <2>4. CASE processing' = processing
    BY <2>1, <2>4
  <2> QED
    BY <2>2, <2>3, <2>4
<1>5. QueueOK'
  BY <1>1, <1>2, QueueStays
<1>6. ArmedOK'
  BY <1>1, <1>2 DEF ArmedOK
<1>7. StagesOK'
  BY <1>1, <1>2, <1>3, <1>4 DEF StagesOK
<1>8. RunTimersOnce'
  <2>1. CASE RunEnd
    <3>1. epc = "loop" /\ ~processing' /\ epc' \in {"idle", "notify"} /\ dpc' = dpc
      BY <2>1 DEF RunEnd
    <3>2. queued = 0 /\ dpc # "push"
      BY <1>1, <3>1, WorkingIsClaimed DEF Processing
    <3> QED
      BY <1>2, <3>1, <3>2 DEF RunTimersOnce, Processing
  <2>2. CASE RunNotify
    <3>1. epc = "notify" /\ epc' = "idle" /\ processing' = processing
          /\ (dpc' = "push" <=> dpc = "push")
      BY <2>2 DEF RunNotify, WakeDispatch
    <3> QED
      BY <1>1, <1>2, <3>1 DEF RunTimersOnce, Processing
  <2> QED
    BY <2>1, <2>2
<1>9. DispatchNotLate'
  <2>1. CASE RunEnd
    <3>1. epc = "loop" /\ epc' = (IF timers = <<>> THEN "idle" ELSE "notify") /\ dpc' = dpc
      BY <2>1 DEF RunEnd
    <3>2. processing /\ dpc # "timed"
      BY <1>1, <3>1, WorkingIsClaimed DEF StagesOK, Processing
    <3>3. NotifyPending => NotifyPending'
      BY <1>2, <3>1 DEF NotifyPending
    <3>4. timers # <<>> => NotifyPending'
      BY <3>1 DEF NotifyPending
    <3> QED
      BY <1>1, <1>2, <3>1, <3>2, <3>3, <3>4 DEF DispatchNotLate
  <2>2. CASE RunNotify
    BY <2>2 DEF RunNotify, WakeDispatch, DispatchNotLate
  <2> QED
    BY <2>1, <2>2
<1>10. RestTyped'
  BY <1>1, <1>2, <1>3, <1>4 DEF RestTyped
<1> QED
  BY <1>5, <1>6, <1>7, <1>8, <1>9, <1>10, TypeParts DEF TimerIInv

\* The dispatch thread stops, ...
LEMMA DispatchStopKeeps ==
    ASSUME TimerAssumption, TimerIInv, DispatchStop
    PROVE  TimerIInv'
<1>1. QueueOK /\ ArmedOK /\ StagesOK /\ RunTimersOnce /\ DispatchNotLate /\ RestTyped
  BY TypeParts DEF TimerIInv
<1>2. /\ dpc = "check" /\ mode = "stopping" /\ timers' = <<>> /\ mode' = "stopped"
      /\ mpc' = (IF mpc = "waiting" THEN "check" ELSE mpc) /\ dpc' = "done"
      /\ UNCHANGED <<processing, handling, connected, armed, expiration, alive, queued,
                     epc, sleep, call>>
  BY DEF DispatchStop, WakeDestroyer
<1>3. QueueOK'
  BY <1>1, <1>2 DEF QueueOK, Sorted, LiveOnce, LiveTrue
<1>4. ArmedOK' /\ StagesOK' /\ RunTimersOnce' /\ DispatchNotLate'
  BY <1>1, <1>2 DEF ArmedOK, StagesOK, RunTimersOnce, Processing, DispatchNotLate
<1>5. RestTyped'
  BY <1>1, <1>2 DEF RestTyped
<1> QED
  BY <1>3, <1>4, <1>5, TypeParts DEF TimerIInv

\* ... looks at the queue, ...
LEMMA DispatchCheckKeeps ==
    ASSUME TimerAssumption, TimerIInv, DispatchCheck
    PROVE  TimerIInv'
<1>1. QueueOK /\ ArmedOK /\ StagesOK /\ RunTimersOnce /\ DispatchNotLate /\ RestTyped
  BY TypeParts DEF TimerIInv
<1>2. /\ dpc = "check" /\ mode # "stopping"
      /\ UNCHANGED <<mode, timers, handling, connected, armed, expiration, alive, queued,
                     epc, call, mpc>>
  BY DEF DispatchCheck
<1>3. \/ (processing \/ timers = <<>>) /\ dpc' = "wait" /\ UNCHANGED <<processing, sleep>>
      \/ ~processing /\ processing' = TRUE /\ dpc' = "push" /\ UNCHANGED sleep
      \/ /\ ~processing /\ timers # <<>> /\ sleep' = Top.left /\ dpc' = "timed"
         /\ UNCHANGED processing
  BY DEF DispatchCheck, ClaimRun
<1>4. mode = "running"
  BY <1>1, <1>2 DEF StagesOK, RestTyped
<1>5. timers # <<>> => Top \in Node /\ Top.left \in Wait /\ Top' = Top /\ Top.left <= Top.left
  <2>1. timers # <<>> => Top \in Node
    BY <1>1 DEF QueueOK, Top
  <2>2. timers # <<>> => Top.left \in 0 .. MaxWait
    BY <2>1 DEF Node
  <2> QED
    BY <1>2, <2>1, <2>2 DEF Wait, Inf, Top, TimerAssumption
<1>6. QueueOK'
  BY <1>1, <1>2, QueueStays
<1>7. ArmedOK'
  BY <1>1, <1>2 DEF ArmedOK
<1>8. StagesOK'
  BY <1>1, <1>2, <1>3, <1>4 DEF StagesOK
<1>9. RunTimersOnce'
  <2>1. CASE processing' = processing /\ dpc' \in {"wait", "timed"}
    BY <1>1, <1>2, <2>1 DEF RunTimersOnce, Processing
  <2>2. CASE ~processing /\ processing' = TRUE /\ dpc' = "push"
    <3>1. queued = 0 /\ ~Processing
      BY <1>1, <2>2, WorkingIsClaimed
    <3> QED
      BY <1>2, <2>2, <3>1 DEF RunTimersOnce, Processing
  <2> QED
    BY <1>3, <2>1, <2>2
<1>10. DispatchNotLate'
  <2>1. CASE (processing \/ timers = <<>>) /\ dpc' = "wait" /\ UNCHANGED <<processing, sleep>>
    BY <1>2, <1>4, <2>1 DEF DispatchNotLate
  <2>2. CASE dpc' = "push"
    BY <2>2 DEF DispatchNotLate
  <2>3. CASE timers # <<>> /\ sleep' = Top.left /\ dpc' = "timed"
    BY <1>2, <1>4, <1>5, <2>3 DEF DispatchNotLate
  <2> QED
    BY <1>3, <2>1, <2>2, <2>3
<1>11. RestTyped'
  <2>1. processing' \in BOOLEAN /\ sleep' \in Wait
        /\ dpc' \in {"check", "wait", "timed", "push", "done"}
    BY <1>1, <1>3, <1>5 DEF RestTyped
  <2> QED
    BY <1>1, <1>2, <2>1 DEF RestTyped
<1> QED
  BY <1>6, <1>7, <1>8, <1>9, <1>10, <1>11, TypeParts DEF TimerIInv

\* ... pushes RunTimers or wakes up.
LEMMA DispatchKeeps ==
    ASSUME TimerAssumption, TimerIInv, DispatchPush \/ DispatchTimeout \/ SpuriousDispatch
    PROVE  TimerIInv'
<1>1. QueueOK /\ ArmedOK /\ StagesOK /\ RunTimersOnce /\ DispatchNotLate /\ RestTyped
  BY TypeParts DEF TimerIInv
<1>2. /\ dpc' = "check" /\ dpc \in {"push", "wait", "timed"}
      /\ UNCHANGED <<mode, timers, processing, handling, connected, armed, expiration,
                     alive, epc, sleep, call, mpc>>
  BY DEF DispatchPush, DispatchTimeout, SpuriousDispatch
<1>3. (dpc = "push" /\ queued' = queued + 1) \/ (dpc # "push" /\ queued' = queued)
  BY DEF DispatchPush, DispatchTimeout, SpuriousDispatch
<1>4. QueueOK'
  BY <1>1, <1>2, QueueStays
<1>5. ArmedOK' /\ StagesOK' /\ DispatchNotLate'
  BY <1>1, <1>2 DEF ArmedOK, StagesOK, DispatchNotLate
<1>6. RunTimersOnce'
  BY <1>1, <1>2, <1>3 DEF RunTimersOnce, Processing, RestTyped
<1>7. RestTyped'
  <2>1. queued' \in 0..1
    BY <1>1, <1>3, WorkingIsClaimed DEF RestTyped
  <2> QED
    BY <1>1, <1>2, <2>1 DEF RestTyped
<1> QED
  BY <1>4, <1>5, <1>6, <1>7, TypeParts DEF TimerIInv

\* The main thread stops the timers.
LEMMA DestroyKeeps ==
    ASSUME TimerAssumption, TimerIInv,
           DestroyBegin \/ DestroyNotify \/ DestroyCheck \/ SpuriousDestroy
    PROVE  TimerIInv'
<1>1. QueueOK /\ ArmedOK /\ StagesOK /\ RunTimersOnce /\ DispatchNotLate /\ RestTyped
  BY TypeParts DEF TimerIInv
<1>2. UNCHANGED <<timers, processing, handling, connected, armed, expiration, alive,
                  queued, epc, sleep, call>>
  BY DEF DestroyBegin, DestroyNotify, DestroyCheck, SpuriousDestroy
<1>3. /\ mpc' \in {"notify", "check", "waiting", "done"}
      /\ \/ mpc = "run" /\ mode' = "stopping" /\ mpc' = "notify" /\ dpc' = dpc
         \/ /\ mpc # "run" /\ mode' = mode
            /\ \/ mpc = "notify" /\ dpc' = (IF dpc \in {"wait", "timed"} THEN "check" ELSE dpc)
               \/ mpc # "notify" /\ dpc' = dpc
  BY DEF DestroyBegin, DestroyNotify, DestroyCheck, SpuriousDestroy, WakeDispatch
<1>4. mode' \in {"stopping", "stopped"} /\ (mode' = "stopped" => mode = "stopped")
      /\ (mode = "stopped" => mode' = "stopped") /\ mpc' # "run"
  BY <1>1, <1>3 DEF StagesOK, RestTyped
<1>5. QueueOK'
  BY <1>1, <1>2, <1>4, QueueStays
<1>6. ArmedOK'
  BY <1>1, <1>2 DEF ArmedOK
<1>7. StagesOK'
  BY <1>1, <1>2, <1>3, <1>4 DEF StagesOK
<1>8. RunTimersOnce'
  BY <1>1, <1>2, <1>3 DEF RunTimersOnce, Processing
<1>9. DispatchNotLate'
  <2>1. CASE mpc \in {"run", "notify"}
    BY <1>3, <2>1 DEF DispatchNotLate, NotifyPending
  <2>2. CASE mpc \notin {"run", "notify"}
    <3>1. mode # "running" /\ dpc' = dpc
      BY <1>1, <1>3, <2>2 DEF StagesOK
    <3>2. NotifyPending => NotifyPending'
      BY <1>2, <2>2 DEF NotifyPending
    <3> QED
      BY <1>1, <3>1, <3>2 DEF DispatchNotLate
  <2> QED
    BY <2>1, <2>2
<1>10. RestTyped'
  <2>1. /\ mode' \in {"running", "stopping", "stopped"}
        /\ dpc' \in {"check", "wait", "timed", "push", "done"}
    BY <1>1, <1>3, <1>4 DEF RestTyped
  <2> QED
    BY <1>1, <1>2, <1>3, <2>1 DEF RestTyped
<1> QED
  BY <1>5, <1>6, <1>7, <1>8, <1>9, <1>10, TypeParts DEF TimerIInv

\* Time passes.
LEMMA TickKeeps ==
    ASSUME TimerAssumption, TimerIInv, Tick
    PROVE  TimerIInv'
<1>1. QueueOK /\ ArmedOK /\ StagesOK /\ RunTimersOnce /\ DispatchNotLate /\ RestTyped
  BY TypeParts DEF TimerIInv
<1>2. /\ Passed(timers', expiration') /\ sleep' = Later(sleep)
      /\ UNCHANGED <<mode, processing, handling, connected, armed, alive, queued, epc, dpc,
                     call, mpc>>
  BY DEF Tick, Passed
<1>3. /\ timers' \in Seq(Node) /\ expiration' \in [Notify -> Wait]
      /\ (timers' = <<>> <=> timers = <<>>)
      /\ Sorted(timers') /\ LiveOnce(timers') /\ LiveTrue(timers', expiration')
      /\ mode # "stopped" => LiveThere(timers', expiration')
      /\ timers # <<>> => timers'[1].left = Later(timers[1].left)
      /\ \A n \in Notify : expiration'[n] = Inf <=> expiration[n] = Inf
  BY <1>1, <1>2, TickOK
<1>4. QueueOK'
  BY <1>2, <1>3 DEF QueueOK
<1>5. ArmedOK'
  BY <1>1, <1>2, <1>3 DEF ArmedOK
<1>6. StagesOK' /\ RunTimersOnce'
  BY <1>1, <1>2 DEF StagesOK, RunTimersOnce, Processing
<1>7. sleep \in Wait
  BY <1>1 DEF RestTyped
<1>8. DispatchNotLate'
  <2>1. NotifyPending' <=> NotifyPending
    BY <1>2 DEF NotifyPending
  <2>2. timers # <<>> => /\ Top = timers[1] /\ Top' = timers'[1]
                         /\ Top.left \in Wait /\ Top.left # Inf
    <3>1. timers # <<>> => Top = timers[1] /\ Top' = timers'[1] /\ Top \in Node
      BY <1>1, <1>3 DEF QueueOK, Top
    <3>2. timers # <<>> => Top.left \in 0 .. MaxWait
      BY <3>1 DEF Node
    <3> QED
      BY <3>1, <3>2 DEF Wait, Inf, TimerAssumption
  <2>3. timers # <<>> /\ sleep <= Top.left => sleep' <= Top'.left
    <3>1. timers # <<>> /\ sleep <= Top.left => Later(sleep) <= Later(Top.left)
      BY <1>7, <2>2, LaterOK
    <3>2. timers # <<>> => Top'.left = Later(Top.left)
      BY <1>3, <2>2
    <3> QED
      BY <1>2, <3>1, <3>2
  <2> QED
    BY <1>1, <1>2, <1>3, <2>1, <2>3 DEF DispatchNotLate
<1>9. RestTyped'
  <2>1. sleep' \in Wait
    BY <1>2, <1>7, LaterOK
  <2> QED
    BY <1>1, <1>2, <2>1 DEF RestTyped
<1> QED
  BY <1>4, <1>5, <1>6, <1>8, <1>9, TypeParts DEF TimerIInv

LEMMA TimerStep ==
    ASSUME TimerAssumption, TimerIInv, [Next]_vars
    PROVE  TimerIInv'
<1>1. CASE \E c \in Thread : ClientStep(c) \/ CallStep(c) \/ SpuriousCloser(c)
  <2>1. PICK c \in Thread : ClientStep(c) \/ CallStep(c) \/ SpuriousCloser(c)
    BY <1>1
  <2>2. CASE ClientStep(c)
    BY <2>2, UpdateKeeps, CloseBeginKeeps DEF ClientStep
  <2>3. CASE CallStep(c)
    BY <2>3, CallKeeps, CloseLockedKeeps DEF CallStep
  <2>4. CASE SpuriousCloser(c)
    BY <2>4, CallKeeps
  <2> QED
    BY <2>1, <2>2, <2>3, <2>4
<1>2. CASE RunStart
  BY <1>2, RunStartKeeps
<1>3. CASE RunStep
  BY <1>3, RunTakeKeeps, RunEndKeeps DEF RunStep
<1>4. CASE \E w \in Wait : RunReturn(w)
  BY <1>4, RunReturnKeeps
<1>5. CASE DispatchStep \/ SpuriousDispatch
  BY <1>5, DispatchStopKeeps, DispatchCheckKeeps, DispatchKeeps DEF DispatchStep
<1>6. CASE DestroyBegin \/ DestroyStep \/ SpuriousDestroy
  BY <1>6, DestroyKeeps DEF DestroyStep
<1>7. CASE Tick
  BY <1>7, TickKeeps
<1>8. CASE UNCHANGED vars
  BY <1>8 DEF vars, TimerIInv, TypeOK, QueueOK, ArmedOK, StagesOK, RunTimersOnce,
              DispatchNotLate, NotifyPending, Processing, Top, LiveThere, LiveTrue,
              LiveOnce, Sorted, Live
<1> QED
  BY <1>1, <1>2, <1>3, <1>4, <1>5, <1>6, <1>7, <1>8 DEF Next

LEMMA TimerInductive == Spec => []TimerIInv
<1>1. Init => TimerIInv
  BY TimerInit, TimerAssumption
<1>2. TimerIInv /\ [Next]_vars => TimerIInv'
  BY TimerStep, TimerAssumption
<1> QED
  BY <1>1, <1>2, PTL DEF Spec

-----------------------------------------------------------------------------
(* The theorems that hold whatever handlers call.                          *)

\* The queue holds exactly one node that counts for a notify whose timer is set,
\* at its time, none for any other, the soonest first; and s_runTimers is in at
\* most one place, which s_processing tells (timer.cpp, Timer::update,
\* Timer::closeWait and RunTimers::onTask).
THEOREM TimerQueueConsistent == Spec => []QueueConsistent
<1>1. TimerIInv => QueueConsistent
  <2> SUFFICES ASSUME TimerIInv PROVE QueueConsistent
    OBVIOUS
  <2>1. TypeOK /\ QueueOK /\ ArmedOK /\ RunTimersOnce
    BY DEF TimerIInv
  <2>2. timers \in Seq(Node) /\ Sorted(timers) /\ LiveOnce(timers)
        /\ LiveTrue(timers, expiration) /\ (mode # "stopped" => LiveThere(timers, expiration))
    BY <2>1 DEF QueueOK
  <2>3. \A i \in DOMAIN timers : timers[i].left # Inf
    <3>1. \A i \in DOMAIN timers : timers[i] \in Node
      BY <2>2
    <3>2. \A i \in DOMAIN timers : timers[i].left \in 0 .. MaxWait
      BY <3>1 DEF Node
    <3> QED
      BY <3>2, TimerAssumption DEF Inf, TimerAssumption
  <2>4. ASSUME mode # "stopped", NEW n \in Notify, expiration[n] = Inf
        PROVE  LiveNodes(n) = {}
    BY <2>2, <2>3, <2>4 DEF LiveNodes, LiveTrue
  <2>5. ASSUME mode # "stopped", NEW n \in Notify, expiration[n] # Inf
        PROVE  armed[n] /\ \E i \in DOMAIN timers :
                 LiveNodes(n) = {i} /\ timers[i].left = expiration[n]
    <3>1. PICK i \in DOMAIN timers : Live(timers, i, n)
      BY <2>2, <2>5 DEF LiveThere
    <3>2. timers[i].n = n /\ timers[i].state = "live" /\ timers[i].left = expiration[n]
      BY <2>2, <3>1 DEF Live, LiveTrue
    <3>3. \A j \in DOMAIN timers : timers[j].n = n /\ timers[j].state = "live" => j = i
      BY <2>2, <3>2 DEF LiveOnce
    <3>4. LiveNodes(n) = {i}
      BY <3>2, <3>3 DEF LiveNodes
    <3> QED
      BY <2>1, <2>5, <3>2, <3>4 DEF ArmedOK
  <2>6. NodeMatchesTimer
    BY <2>2, <2>4, <2>5 DEF NodeMatchesTimer, Sorted
  <2> QED
    BY <2>1, <2>6 DEF QueueConsistent
<1> QED
  BY <1>1, TimerInductive, PTL

\* The dispatch thread never oversleeps a node, whoever put it in the queue and
\* whenever, and never sleeps through a shutdown, with a notify_one missing
\* (timer.cpp, timerDispatchThread).
THEOREM TimerDispatchNotLate == Spec => []DispatchNotLate
<1>1. TimerIInv => DispatchNotLate
  BY DEF TimerIInv
<1> QED
  BY <1>1, TimerInductive, PTL

-----------------------------------------------------------------------------
(* Where only the owner of a notify updates and closes it.                 *)

LEMMA UpdateQuiet ==
    ASSUME TimerAssumption, SelfCalls = {}, QuietIInv, NEW c \in Thread, NEW n \in Notify,
           NEW w \in Wait, NEW sooner \in BOOLEAN, Update(c, n, w, sooner)
    PROVE  CallsOK' /\ NoOrphans' /\ HandlerWaitedFor'
<1>1. QueueOK /\ ArmedOK /\ StagesOK /\ RestTyped /\ CallsOK /\ NoOrphans /\ HandlerWaitedFor
  BY TypeParts DEF TimerIInv, QuietIInv
<1>2. /\ call[c] = Idle /\ alive[n] /\ (c = Event => epc \in {"idle", "callback"})
      /\ Owner[n] = c /\ armed' = [armed EXCEPT ![n] = TRUE]
      /\ UNCHANGED <<mode, handling, alive, epc>>
  BY DEF Update, MayCall
<1>3. \/ UNCHANGED <<timers, expiration, call>>
      \/ \E p \in 1 .. Len(timers) + 1 :
            /\ Arm(n, w, p)
            /\ call' = IF Notifies(w, p) THEN [call EXCEPT ![c] = At("notify", n, FALSE)]
                       ELSE call
  BY DEF Update
<1>4. call' = call \/ call' = [call EXCEPT ![c] = At("notify", n, FALSE)]
  BY <1>3
<1>5. /\ At("notify", n, FALSE).pc = "notify" /\ At("notify", n, FALSE).n = n
      /\ Idle.pc = "idle"
  BY DEF At, Idle
<1>6. \A b \in Thread : b # c => call'[b] = call[b]
  BY <1>1, <1>4 DEF RestTyped
<1>7. call'[c] = Idle \/ (call'[c].pc = "notify" /\ call'[c].n = n)
  BY <1>1, <1>2, <1>4, <1>5 DEF RestTyped
<1>8. \A b \in Thread : b # c /\ call[b].pc # "idle" => call[b].n # n /\ call[b].n \in Notify
  BY <1>1, <1>2 DEF CallsOK, StagesOK
<1>9. CallsOK'
  <2>1. \A m \in Notify : armed'[m] => alive'[m]
    BY <1>1, <1>2 DEF CallsOK, RestTyped
  <2>2. ASSUME NEW b \in Thread, call'[b].pc # "idle"
        PROVE  /\ Owner[call'[b].n] = b /\ alive'[call'[b].n]
               /\ call'[b].pc \in {"waiting", "woken"} => ~armed'[call'[b].n] /\ b # Event
               /\ b = Event => epc' \in {"idle", "callback"}
               /\ b = Event /\ call'[b].pc = "closing" /\ call'[b].destroy
                    => handling' # call'[b].n
    <3>1. CASE b = c
      BY <1>2, <1>5, <1>7, <2>2, <3>1
    <3>2. CASE b # c
      <4>1. call'[b] = call[b] /\ call[b].pc # "idle"
        BY <1>6, <2>2, <3>2
      <4>2. armed'[call[b].n] = armed[call[b].n]
        BY <1>1, <1>2, <1>8, <3>2, <4>1 DEF RestTyped
      <4> QED
        BY <1>1, <1>2, <4>1, <4>2 DEF CallsOK
    <3> QED
      BY <3>1, <3>2
  <2>3. \A b \in Thread : call'[b].pc = "idle" => call'[b] = Idle
    BY <1>1, <1>6, <1>7 DEF CallsOK
  <2> QED
    BY <2>1, <2>2, <2>3 DEF CallsOK
<1>10. NoOrphans'
  <2>1. CASE UNCHANGED <<timers, expiration, call>>
    BY <1>1, <1>2, <2>1 DEF NoOrphans
  <2>2. ASSUME NEW p \in 1 .. Len(timers) + 1, Arm(n, w, p) PROVE NoOrphans'
    <3>1. (\A i \in DOMAIN timers : timers[i].state # "orphan")
            => \A i \in DOMAIN timers' : timers'[i].state # "orphan"
      BY <1>1, <2>2, ArmOK DEF TimerAssumption
    <3> QED
      BY <1>1, <1>2, <3>1 DEF NoOrphans
  <2> QED
    BY <1>3, <2>1, <2>2
<1>11. HandlerWaitedFor'
  <2> SUFFICES ASSUME mode # "stopped", handling # None
               PROVE  /\ alive[handling]
                      /\ ~armed'[handling] =>
                           \/ Owner[handling] = Event
                           \/ /\ call'[Owner[handling]].pc \in {"waiting", "woken"}
                              /\ call'[Owner[handling]].n = handling
    BY <1>2 DEF HandlerWaitedFor
  <2>1. handling \in Notify /\ Owner[handling] \in Thread
    BY <1>1 DEF RestTyped, TimerAssumption, Thread
  <2>2. ~armed'[handling] => ~armed[handling]
    BY <1>1, <1>2, <2>1 DEF RestTyped
  <2>3. call[Owner[handling]].pc \in {"waiting", "woken"} => Owner[handling] # c
    BY <1>2, <1>5
  <2> QED
    BY <1>1, <1>6, <2>1, <2>2, <2>3 DEF HandlerWaitedFor
<1> QED
  BY <1>9, <1>10, <1>11

LEMMA CloseBeginQuiet ==
    ASSUME TimerAssumption, SelfCalls = {}, QuietIInv, NEW c \in Thread, NEW n \in Notify,
           NEW destroy \in BOOLEAN, CloseBegin(c, n, destroy)
    PROVE  CallsOK' /\ NoOrphans' /\ HandlerWaitedFor'
<1>1. QueueOK /\ ArmedOK /\ StagesOK /\ RestTyped /\ CallsOK /\ NoOrphans /\ HandlerWaitedFor
  BY TypeParts DEF TimerIInv, QuietIInv
<1>2. /\ call[c] = Idle /\ alive[n] /\ (c = Event => epc \in {"idle", "callback"})
      /\ Owner[n] = c /\ (destroy => ~(c = Event /\ handling = n))
      /\ UNCHANGED <<mode, handling, epc>>
  BY DEF CloseBegin, MayCall, MayDestroy
<1>3. \/ ~armed[n] /\ Return(c, n, destroy) /\ UNCHANGED <<timers, armed>>
      \/ armed[n] /\ mode = "stopped" /\ Return(c, n, destroy)
         /\ armed' = [armed EXCEPT ![n] = FALSE]
      \/ /\ armed[n] /\ call' = [call EXCEPT ![c] = At("closing", n, destroy)]
         /\ UNCHANGED <<timers, armed, alive>>
  BY DEF CloseBegin
<1>4. \/ call'[c] = Idle /\ alive' = [alive EXCEPT ![n] = @ /\ ~destroy] /\ ~armed'[n]
      \/ call'[c] = At("closing", n, destroy) /\ alive' = alive
  BY <1>1, <1>3 DEF Return, RestTyped
<1>5. /\ At("closing", n, destroy).pc = "closing" /\ At("closing", n, destroy).n = n
      /\ At("closing", n, destroy).destroy = destroy /\ Idle.pc = "idle"
  BY DEF At, Idle
<1>6. \A b \in Thread : b # c => call'[b] = call[b]
  BY <1>1, <1>3 DEF RestTyped, Return
<1>7. \A b \in Thread : b # c /\ call[b].pc # "idle" => call[b].n # n /\ call[b].n \in Notify
  BY <1>1, <1>2 DEF CallsOK, StagesOK
<1>8. \A m \in Notify : m # n => armed'[m] = armed[m] /\ alive'[m] = alive[m]
  BY <1>1, <1>3, <1>4 DEF RestTyped
<1>9. CallsOK'
  <2>1. \A m \in Notify : armed'[m] => alive'[m]
    BY <1>1, <1>2, <1>4, <1>8 DEF CallsOK
  <2>2. ASSUME NEW b \in Thread, call'[b].pc # "idle"
        PROVE  /\ Owner[call'[b].n] = b /\ alive'[call'[b].n]
               /\ call'[b].pc \in {"waiting", "woken"} => ~armed'[call'[b].n] /\ b # Event
               /\ b = Event => epc' \in {"idle", "callback"}
               /\ b = Event /\ call'[b].pc = "closing" /\ call'[b].destroy
                    => handling' # call'[b].n
    <3>1. CASE b = c
      BY <1>2, <1>4, <1>5, <2>2, <3>1
    <3>2. CASE b # c
      <4>1. call'[b] = call[b] /\ call[b].pc # "idle"
        BY <1>6, <2>2, <3>2
      <4>2. armed'[call[b].n] = armed[call[b].n] /\ alive'[call[b].n] = alive[call[b].n]
        BY <1>7, <1>8, <3>2, <4>1
      <4> QED
        BY <1>1, <1>2, <4>1, <4>2 DEF CallsOK
    <3> QED
      BY <3>1, <3>2
  <2>3. \A b \in Thread : call'[b].pc = "idle" => call'[b] = Idle
    BY <1>1, <1>4, <1>5, <1>6 DEF CallsOK
  <2> QED
    BY <2>1, <2>2, <2>3 DEF CallsOK
<1>10. NoOrphans' /\ HandlerWaitedFor'
  <2>1. CASE mode = "stopped"
    BY <1>2, <2>1 DEF NoOrphans, HandlerWaitedFor
  <2>2. CASE mode # "stopped"
    <3>1. UNCHANGED <<timers, armed>>
      BY <1>3, <2>2
    <3>2. NoOrphans'
      BY <1>1, <1>2, <3>1 DEF NoOrphans
    <3> SUFFICES ASSUME handling # None
                 PROVE  /\ alive'[handling]
                        /\ ~armed[handling] =>
                             \/ Owner[handling] = Event
                             \/ /\ call'[Owner[handling]].pc \in {"waiting", "woken"}
                                /\ call'[Owner[handling]].n = handling
      BY <1>2, <3>1, <3>2 DEF HandlerWaitedFor
    <3>3. handling \in Notify /\ Owner[handling] \in Thread
      BY <1>1 DEF RestTyped, TimerAssumption, Thread
    <3>4. call[Owner[handling]].pc \in {"waiting", "woken"} => Owner[handling] # c
      BY <1>2, <1>5
    <3>5. alive'[handling]
      <4>1. CASE handling # n
        BY <1>1, <1>8, <2>2, <3>3, <4>1 DEF HandlerWaitedFor
      <4>2. CASE handling = n
        <5>1. CASE call'[c] = At("closing", n, destroy) /\ alive' = alive
          BY <1>1, <2>2, <5>1 DEF HandlerWaitedFor
        <5>2. CASE alive' = [alive EXCEPT ![n] = @ /\ ~destroy] /\ ~armed'[n]
          <6>1. c = Event
            BY <1>1, <1>2, <2>2, <3>1, <3>4, <4>2, <5>2 DEF HandlerWaitedFor
          <6>2. ~destroy
            BY <1>2, <4>2, <6>1
          <6> QED
            BY <1>1, <1>2, <4>2, <5>2, <6>2 DEF RestTyped
        <5> QED
          BY <1>4, <5>1, <5>2
      <4> QED
        BY <4>1, <4>2
    <3> QED
      BY <1>1, <1>6, <2>2, <3>3, <3>4, <3>5 DEF HandlerWaitedFor
  <2> QED
    BY <2>1, <2>2
<1> QED
  BY <1>9, <1>10

LEMMA CloseLockedQuiet ==
    ASSUME TimerAssumption, SelfCalls = {}, QuietIInv, NEW c \in Thread, CloseLocked(c)
    PROVE  CallsOK' /\ NoOrphans' /\ HandlerWaitedFor'
<1>1. QueueOK /\ ArmedOK /\ StagesOK /\ RestTyped /\ CallsOK /\ NoOrphans /\ HandlerWaitedFor
  BY TypeParts DEF TimerIInv, QuietIInv
<1> DEFINE n == call[c].n
<1>2. /\ call[c].pc = "closing"
      /\ armed' = [armed EXCEPT ![n] = FALSE]
      /\ timers' = Mark(n, "live", "stale")
      /\ UNCHANGED <<mode, handling, epc>>
  BY DEF CloseLocked, Outdated
<1>3. \/ InProgress(c, n) /\ call' = [call EXCEPT ![c].pc = "waiting"] /\ alive' = alive
      \/ /\ ~InProgress(c, n) /\ call' = [call EXCEPT ![c] = Idle]
         /\ alive' = [alive EXCEPT ![n] = @ /\ ~call[c].destroy]
  BY DEF CloseLocked, Return
<1>4. /\ n \in Notify /\ Owner[n] = c /\ alive[n] /\ call[c] \in CallSet
      /\ (c = Event => epc \in {"idle", "callback"})
      /\ (c = Event /\ call[c].destroy => handling # n)
  BY <1>1, <1>2 DEF StagesOK, RestTyped, CallsOK
<1> HIDE DEF n
<1>5. \/ call'[c] = Idle /\ ~InProgress(c, n) /\ alive' = [alive EXCEPT ![n] = @ /\ ~call[c].destroy]
      \/ /\ call'[c].pc = "waiting" /\ call'[c].n = n /\ c # Event
         /\ InProgress(c, n) /\ alive' = alive
  <2>1. CASE InProgress(c, n) /\ call' = [call EXCEPT ![c].pc = "waiting"] /\ alive' = alive
    <3>1. c # Event
      BY <1>1, <1>4, <2>1 DEF InProgress, Processing, StagesOK, TimerAssumption
    <3>2. call'[c] = [call[c] EXCEPT !.pc = "waiting"]
      BY <1>1, <2>1 DEF RestTyped
    <3>3. call'[c].pc = "waiting" /\ call'[c].n = n
      BY <1>4, <3>2 DEF CallSet, n
    <3> QED
      BY <2>1, <3>1, <3>3
  <2>2. CASE /\ ~InProgress(c, n) /\ call' = [call EXCEPT ![c] = Idle]
             /\ alive' = [alive EXCEPT ![n] = @ /\ ~call[c].destroy]
    BY <1>1, <2>2 DEF RestTyped
  <2> QED
    BY <1>3, <2>1, <2>2
<1>6. \A b \in Thread : b # c => call'[b] = call[b]
  BY <1>1, <1>3 DEF RestTyped
<1>7. \A b \in Thread : b # c /\ call[b].pc # "idle" => call[b].n # n /\ call[b].n \in Notify
  BY <1>1, <1>4 DEF CallsOK, StagesOK
<1>8. \A m \in Notify : m # n => armed'[m] = armed[m] /\ alive'[m] = alive[m]
  BY <1>1, <1>2, <1>5 DEF RestTyped
<1>9. ~armed'[n] /\ Idle.pc = "idle"
  BY <1>1, <1>2, <1>4 DEF RestTyped, Idle
<1>10. CallsOK'
  <2>1. \A m \in Notify : armed'[m] => alive'[m]
    BY <1>1, <1>8, <1>9 DEF CallsOK
  <2>2. ASSUME NEW b \in Thread, call'[b].pc # "idle"
        PROVE  /\ Owner[call'[b].n] = b /\ alive'[call'[b].n]
               /\ call'[b].pc \in {"waiting", "woken"} => ~armed'[call'[b].n] /\ b # Event
               /\ b = Event => epc' \in {"idle", "callback"}
               /\ b = Event /\ call'[b].pc = "closing" /\ call'[b].destroy
                    => handling' # call'[b].n
    <3>1. CASE b = c
      BY <1>4, <1>5, <1>9, <2>2, <3>1
    <3>2. CASE b # c
      <4>1. call'[b] = call[b] /\ call[b].pc # "idle"
        BY <1>6, <2>2, <3>2
      <4>2. armed'[call[b].n] = armed[call[b].n] /\ alive'[call[b].n] = alive[call[b].n]
        BY <1>7, <1>8, <3>2, <4>1
      <4> QED
        BY <1>1, <1>2, <4>1, <4>2 DEF CallsOK
    <3> QED
      BY <3>1, <3>2
  <2>3. \A b \in Thread : call'[b].pc = "idle" => call'[b] = Idle
    BY <1>1, <1>5, <1>6 DEF CallsOK
  <2> QED
    BY <2>1, <2>2, <2>3 DEF CallsOK
<1>11. NoOrphans'
  <2>1. Whole(timers) => Whole(timers')
    BY <1>1, <1>2, <1>4, MarkStale
  <2>2. (\A i \in DOMAIN timers : timers[i].state # "orphan")
          => \A i \in DOMAIN timers' : timers'[i].state # "orphan"
    BY <2>1 DEF Whole
  <2> QED
    BY <1>1, <1>2, <2>2 DEF NoOrphans
<1>12. HandlerWaitedFor'
  <2> SUFFICES ASSUME mode # "stopped", handling # None
               PROVE  /\ alive'[handling]
                      /\ ~armed'[handling] =>
                           \/ Owner[handling] = Event
                           \/ /\ call'[Owner[handling]].pc \in {"waiting", "woken"}
                              /\ call'[Owner[handling]].n = handling
    BY <1>2 DEF HandlerWaitedFor
  <2>1. handling \in Notify /\ Owner[handling] \in Thread
    BY <1>1 DEF RestTyped, TimerAssumption, Thread
  <2>2. CASE handling = n
    <3>1. CASE c = Event
      <4>1. alive'[n]
        BY <1>1, <1>4, <1>5, <2>2, <3>1 DEF RestTyped
      <4> QED
        BY <1>4, <2>2, <3>1, <4>1
    <3>2. CASE c # Event
      <4>1. InProgress(c, n)
        BY <2>2, <3>2 DEF InProgress
      <4> QED
        BY <1>4, <1>5, <2>2, <4>1
    <3> QED
      BY <3>1, <3>2
  <2>3. CASE handling # n
    <3>1. alive'[handling] /\ armed'[handling] = armed[handling]
      BY <1>1, <1>8, <2>1, <2>3 DEF HandlerWaitedFor
    <3>2. call[Owner[handling]].pc \in {"waiting", "woken"} => Owner[handling] # c
      BY <1>2
    <3> QED
      BY <1>1, <1>6, <2>1, <3>1, <3>2 DEF HandlerWaitedFor
  <2> QED
    BY <2>2, <2>3
<1> QED
  BY <1>10, <1>11, <1>12

LEMMA CallQuiet ==
    ASSUME TimerAssumption, SelfCalls = {}, QuietIInv, NEW c \in Thread,
           UpdateNotify(c) \/ CloseWoken(c) \/ SpuriousCloser(c)
    PROVE  CallsOK' /\ NoOrphans' /\ HandlerWaitedFor'
<1>1. QueueOK /\ ArmedOK /\ StagesOK /\ RestTyped /\ CallsOK /\ NoOrphans /\ HandlerWaitedFor
  BY TypeParts DEF TimerIInv, QuietIInv
<1> DEFINE n == call[c].n
<1>2. UNCHANGED <<mode, timers, handling, armed, epc>>
  BY DEF UpdateNotify, CloseWoken, SpuriousCloser
<1>3. \/ call[c].pc = "notify" /\ call' = [call EXCEPT ![c] = Idle] /\ alive' = alive
      \/ /\ call[c].pc = "woken" /\ handling # n /\ call' = [call EXCEPT ![c] = Idle]
         /\ alive' = [alive EXCEPT ![n] = @ /\ ~call[c].destroy]
      \/ /\ call[c].pc \in {"woken", "waiting"} /\ alive' = alive
         /\ \E pc \in {"waiting", "woken"} : call' = [call EXCEPT ![c].pc = pc]
  BY DEF UpdateNotify, CloseWoken, SpuriousCloser, Return
<1>4. /\ n \in Notify /\ Owner[n] = c /\ alive[n] /\ call[c] \in CallSet
      /\ (call[c].pc \in {"waiting", "woken"} => ~armed[n] /\ c # Event)
  BY <1>1, <1>3 DEF StagesOK, RestTyped, CallsOK
<1> HIDE DEF n
<1>5. \/ call[c].pc = "notify" /\ call'[c] = Idle /\ alive' = alive
      \/ /\ call[c].pc = "woken" /\ handling # n /\ call'[c] = Idle
         /\ alive' = [alive EXCEPT ![n] = @ /\ ~call[c].destroy]
      \/ /\ call[c].pc \in {"woken", "waiting"} /\ alive' = alive
         /\ call'[c].pc \in {"woken", "waiting"} /\ call'[c].n = n
  <2>1. CASE call' = [call EXCEPT ![c] = Idle]
    <3>1. call'[c] = Idle
      BY <1>1, <2>1 DEF RestTyped
    <3>2. call[c].pc \in {"woken", "waiting"} =>
            ~\E pc \in {"waiting", "woken"} : call' = [call EXCEPT ![c].pc = pc]
      <4> SUFFICES ASSUME NEW pc \in {"waiting", "woken"}, call' = [call EXCEPT ![c].pc = pc]
                   PROVE  FALSE
        OBVIOUS
      <4>1. call'[c].pc = pc
        BY <1>1, <1>4 DEF RestTyped, CallSet
      <4> QED
        BY <3>1, <4>1 DEF Idle
    <3> QED
      BY <1>3, <3>1, <3>2
  <2>2. ASSUME NEW pc \in {"waiting", "woken"}, call' = [call EXCEPT ![c].pc = pc],
               call[c].pc \in {"woken", "waiting"}, alive' = alive
        PROVE  call'[c].pc \in {"woken", "waiting"} /\ call'[c].n = n
    <3>1. call'[c] = [call[c] EXCEPT !.pc = pc]
      BY <1>1, <2>2 DEF RestTyped
    <3> QED
      BY <1>4, <3>1 DEF CallSet, n
  <2> QED
    BY <1>3, <2>1, <2>2
<1>6. \A b \in Thread : b # c => call'[b] = call[b]
  BY <1>1, <1>3 DEF RestTyped
<1>7. \A b \in Thread : b # c /\ call[b].pc # "idle" => call[b].n # n /\ call[b].n \in Notify
  BY <1>1, <1>4 DEF CallsOK, StagesOK
<1>8. \A m \in Notify : m # n => alive'[m] = alive[m]
  BY <1>1, <1>5 DEF RestTyped
<1>9. CallsOK'
  <2>1. \A m \in Notify : armed'[m] => alive'[m]
    BY <1>1, <1>2, <1>4, <1>5, <1>8 DEF CallsOK
  <2>2. ASSUME NEW b \in Thread, call'[b].pc # "idle"
        PROVE  /\ Owner[call'[b].n] = b /\ alive'[call'[b].n]
               /\ call'[b].pc \in {"waiting", "woken"} => ~armed'[call'[b].n] /\ b # Event
               /\ b = Event => epc' \in {"idle", "callback"}
               /\ b = Event /\ call'[b].pc = "closing" /\ call'[b].destroy
                    => handling' # call'[b].n
    <3>1. CASE b = c
      <4>1. /\ call[c].pc \in {"woken", "waiting"} /\ alive' = alive
            /\ call'[c].pc \in {"woken", "waiting"} /\ call'[c].n = n
        BY <1>5, <2>2, <3>1 DEF Idle
      <4> QED
        BY <1>2, <1>4, <3>1, <4>1
    <3>2. CASE b # c
      <4>1. call'[b] = call[b] /\ call[b].pc # "idle"
        BY <1>6, <2>2, <3>2
      <4>2. alive'[call[b].n] = alive[call[b].n]
        BY <1>7, <1>8, <3>2, <4>1
      <4> QED
        BY <1>1, <1>2, <4>1, <4>2 DEF CallsOK
    <3> QED
      BY <3>1, <3>2
  <2>3. \A b \in Thread : call'[b].pc = "idle" => call'[b] = Idle
    BY <1>1, <1>5, <1>6 DEF CallsOK
  <2> QED
    BY <2>1, <2>2, <2>3 DEF CallsOK
<1>10. NoOrphans'
  BY <1>1, <1>2 DEF NoOrphans
<1>11. HandlerWaitedFor'
  <2> SUFFICES ASSUME mode # "stopped", handling # None
               PROVE  /\ alive'[handling]
                      /\ ~armed[handling] =>
                           \/ Owner[handling] = Event
                           \/ /\ call'[Owner[handling]].pc \in {"waiting", "woken"}
                              /\ call'[Owner[handling]].n = handling
    BY <1>2 DEF HandlerWaitedFor
  <2>1. handling \in Notify /\ Owner[handling] \in Thread
    BY <1>1 DEF RestTyped, TimerAssumption, Thread
  <2>2. alive'[handling]
    BY <1>1, <1>5, <1>8, <2>1 DEF HandlerWaitedFor
  <2>3. call[c].pc \in {"waiting", "woken"} /\ n = handling
          => call'[c].pc \in {"waiting", "woken"} /\ call'[c].n = handling
    BY <1>5
  <2> QED
    BY <1>1, <1>6, <2>1, <2>2, <2>3 DEF HandlerWaitedFor, n
<1> QED
  BY <1>9, <1>10, <1>11

LEMMA RunTakeQuiet ==
    ASSUME TimerAssumption, SelfCalls = {}, QuietIInv, RunSkip \/ RunCallback
    PROVE  CallsOK' /\ NoOrphans' /\ HandlerWaitedFor'
<1>1. QueueOK /\ ArmedOK /\ StagesOK /\ RestTyped /\ CallsOK /\ NoOrphans /\ HandlerWaitedFor
  BY TypeParts DEF TimerIInv, QuietIInv
<1>2. /\ epc = "loop" /\ timers # <<>> /\ timers' = Tail(timers)
      /\ expiration' = IF Top.state = "live" THEN [expiration EXCEPT ![Top.n] = Inf]
                       ELSE expiration
      /\ UNCHANGED <<mode, armed, alive, call>>
  <2>1. CASE RunSkip
    BY <2>1 DEF RunSkip, Due
  <2>2. CASE RunCallback
    BY <2>2 DEF RunCallback, Due
  <2> QED
    BY <2>1, <2>2
<1>3. /\ Top \in Node
      /\ (\A i \in DOMAIN timers : timers[i].state # "orphan")
           => \A i \in DOMAIN timers' : timers'[i].state # "orphan"
      /\ Top.state # "live" \/ expiration[Top.n] # Inf
  BY <1>1, <1>2, TailOK DEF TimerAssumption
<1>4. Top.n \in Notify /\ Top.state \in {"live", "stale", "orphan"}
  BY <1>3 DEF Node
<1>5. \/ handling' = handling /\ epc' = epc
      \/ handling' = Top.n /\ Top.state # "stale" /\ epc' = "callback"
  BY DEF RunSkip, RunCallback
<1>6. call[Event] = Idle /\ Idle.pc = "idle"
  <2>1. Event \in Thread
    BY DEF Thread
  <2> QED
    BY <1>1, <1>2, <2>1 DEF CallsOK, Idle
<1>7. CallsOK'
  BY <1>1, <1>2, <1>6 DEF CallsOK
<1>8. NoOrphans'
  BY <1>1, <1>2, <1>3 DEF NoOrphans
<1>9. HandlerWaitedFor'
  <2>1. CASE handling' = handling
    BY <1>1, <1>2, <2>1 DEF HandlerWaitedFor
  <2>2. CASE handling' = Top.n /\ Top.state # "stale" /\ mode # "stopped"
    <3>1. Top.state # "orphan"
      <4>1. 1 \in DOMAIN timers
        BY <1>1, <1>2 DEF QueueOK
      <4> QED
        BY <1>1, <1>2, <2>2, <4>1 DEF NoOrphans, Top
    <3>2. armed[Top.n] /\ alive[Top.n]
      BY <1>1, <1>3, <1>4, <2>2, <3>1 DEF ArmedOK, CallsOK
    <3> QED
      BY <1>2, <2>2, <3>2 DEF HandlerWaitedFor
  <2>3. CASE mode = "stopped"
    BY <1>2, <2>3 DEF HandlerWaitedFor
  <2> QED
    BY <1>5, <2>1, <2>2, <2>3
<1> QED
  BY <1>7, <1>8, <1>9

LEMMA RunReturnQuiet ==
    ASSUME TimerAssumption, SelfCalls = {}, QuietIInv, NEW w \in Wait, RunReturn(w)
    PROVE  CallsOK' /\ NoOrphans' /\ HandlerWaitedFor'
<1>1. QueueOK /\ ArmedOK /\ StagesOK /\ RestTyped /\ CallsOK /\ NoOrphans /\ HandlerWaitedFor
  BY TypeParts DEF TimerIInv, QuietIInv
<1>2. /\ epc = "callback" /\ epc' = "loop" /\ handling' = None /\ call[Event] = Idle
      /\ UNCHANGED <<mode, armed, alive>> /\ (call' = call \/ WakeClosers)
  BY DEF RunReturn
<1>3. handling \in Notify
  BY <1>1, <1>2 DEF StagesOK, RestTyped
<1>4. ASSUME NEW c \in Thread
      PROVE  \/ call'[c] = call[c]
             \/ /\ call[c].pc = "waiting" /\ call'[c].pc = "woken" /\ call'[c].n = call[c].n
  <2>1. CASE call' = call
    BY <2>1
  <2>2. CASE WakeClosers
    <3>1. call'[c] = IF call[c].pc = "waiting" THEN [call[c] EXCEPT !.pc = "woken"] ELSE call[c]
      BY <2>2 DEF WakeClosers
    <3>2. call[c] \in CallSet
      BY <1>1 DEF RestTyped
    <3> QED
      BY <3>1, <3>2 DEF CallSet
  <2> QED
    BY <1>2, <2>1, <2>2
<1>5. CallsOK'
  <2>1. \A m \in Notify : armed'[m] => alive'[m]
    BY <1>1, <1>2 DEF CallsOK
  <2>2. ASSUME NEW b \in Thread, call'[b].pc # "idle"
        PROVE  /\ Owner[call'[b].n] = b /\ alive'[call'[b].n]
               /\ call'[b].pc \in {"waiting", "woken"} => ~armed'[call'[b].n] /\ b # Event
               /\ b # Event
    <3>1. call[b].pc # "idle" /\ call'[b].n = call[b].n
          /\ (call'[b].pc \in {"waiting", "woken"} => call[b].pc \in {"waiting", "woken"})
      BY <1>4, <2>2
    <3>2. b # Event
      BY <1>2, <3>1 DEF Idle
    <3> QED
      BY <1>1, <1>2, <3>1, <3>2 DEF CallsOK
  <2>3. \A b \in Thread : call'[b].pc = "idle" => call'[b] = Idle
    BY <1>1, <1>4 DEF CallsOK
  <2> QED
    BY <2>1, <2>2, <2>3 DEF CallsOK
<1>6. NoOrphans'
  <2>1. CASE UNCHANGED timers
    BY <1>1, <1>2, <2>1 DEF NoOrphans
  <2>2. ASSUME NEW p \in 1 .. Len(timers) + 1, Arm(handling, w, p) PROVE NoOrphans'
    <3>1. (\A i \in DOMAIN timers : timers[i].state # "orphan")
            => \A i \in DOMAIN timers' : timers'[i].state # "orphan"
      BY <1>1, <1>3, <2>2, ArmOK DEF TimerAssumption
    <3> QED
      BY <1>1, <1>2, <3>1 DEF NoOrphans
  <2>3. UNCHANGED timers \/ \E p \in 1 .. Len(timers) + 1 : Arm(handling, w, p)
    BY DEF RunReturn
  <2> QED
    BY <2>1, <2>2, <2>3
<1>7. HandlerWaitedFor'
  BY <1>2 DEF HandlerWaitedFor
<1> QED
  BY <1>5, <1>6, <1>7

\* The other steps leave notifies, handler and calls be.
LEMMA OthersQuiet ==
    ASSUME TimerAssumption, SelfCalls = {}, QuietIInv,
           \/ RunStart \/ RunEnd \/ RunNotify \/ DispatchStep \/ SpuriousDispatch
           \/ DestroyBegin \/ DestroyStep \/ SpuriousDestroy \/ Tick
    PROVE  CallsOK' /\ NoOrphans' /\ HandlerWaitedFor'
<1>1. QueueOK /\ ArmedOK /\ StagesOK /\ RestTyped /\ CallsOK /\ NoOrphans /\ HandlerWaitedFor
  BY TypeParts DEF TimerIInv, QuietIInv
<1>2. UNCHANGED <<handling, armed, alive, call>>
  BY DEF RunStart, RunEnd, RunNotify, DispatchStep, DispatchStop, DispatchCheck, DispatchPush,
         DispatchTimeout, SpuriousDispatch, DestroyBegin, DestroyStep, DestroyNotify,
         DestroyCheck, SpuriousDestroy, Tick
<1>3. mode = "stopped" => mode' = "stopped"
  BY <1>1 DEF RunStart, RunEnd, RunNotify, DispatchStep, DispatchStop, DispatchCheck, DispatchPush,
         DispatchTimeout, SpuriousDispatch, DestroyBegin, DestroyStep, DestroyNotify,
         DestroyCheck, SpuriousDestroy, Tick, StagesOK
<1>4. \/ epc' = epc
      \/ epc' = "loop" /\ call[Event] = Idle
      \/ epc \in {"loop", "notify"} /\ epc' \in {"idle", "notify"}
  BY DEF RunStart, RunEnd, RunNotify, DispatchStep, DispatchStop, DispatchCheck, DispatchPush,
         DispatchTimeout, SpuriousDispatch, DestroyBegin, DestroyStep, DestroyNotify,
         DestroyCheck, SpuriousDestroy, Tick
<1>5. \A c \in Thread : c = Event /\ call[c].pc # "idle" => epc' \in {"idle", "callback"}
  BY <1>1, <1>4 DEF CallsOK, Idle
<1>6. CallsOK'
  BY <1>1, <1>2, <1>5 DEF CallsOK
<1>7. HandlerWaitedFor'
  BY <1>1, <1>2, <1>3 DEF HandlerWaitedFor
<1>8. NoOrphans'
  <2>1. CASE timers' = timers
    BY <1>1, <1>3, <2>1 DEF NoOrphans
  <2>2. CASE timers' = <<>>
    BY <2>2 DEF NoOrphans
  <2>3. CASE Tick
    <3>1. Passed(timers', expiration')
      BY <2>3 DEF Tick, Passed
    <3>2. (\A i \in DOMAIN timers : timers[i].state # "orphan")
            => \A i \in DOMAIN timers' : timers'[i].state # "orphan"
      BY <1>1, <3>1, TickOK
    <3> QED
      BY <1>1, <1>3, <3>2 DEF NoOrphans
  <2>4. timers' = timers \/ timers' = <<>> \/ Tick
    BY DEF RunStart, RunEnd, RunNotify, DispatchStep, DispatchStop, DispatchCheck, DispatchPush,
           DispatchTimeout, SpuriousDispatch, DestroyBegin, DestroyStep, DestroyNotify,
           DestroyCheck, SpuriousDestroy
  <2> QED
    BY <2>1, <2>2, <2>3, <2>4
<1> QED
  BY <1>6, <1>7, <1>8

LEMMA QuietStep ==
    ASSUME TimerAssumption, SelfCalls = {}, QuietIInv, [Next]_vars
    PROVE  QuietIInv'
<1>1. TimerIInv'
  BY TimerStep DEF QuietIInv
<1>2. CASE \E c \in Thread : ClientStep(c) \/ CallStep(c) \/ SpuriousCloser(c)
  <2>1. PICK c \in Thread : ClientStep(c) \/ CallStep(c) \/ SpuriousCloser(c)
    BY <1>2
  <2>2. CASE ClientStep(c)
    BY <1>1, <2>2, UpdateQuiet, CloseBeginQuiet DEF ClientStep, QuietIInv
  <2>3. CASE CallStep(c)
    BY <1>1, <2>3, CallQuiet, CloseLockedQuiet DEF CallStep, QuietIInv
  <2>4. CASE SpuriousCloser(c)
    BY <1>1, <2>4, CallQuiet DEF QuietIInv
  <2> QED
    BY <2>1, <2>2, <2>3, <2>4
<1>3. CASE RunSkip \/ RunCallback
  BY <1>1, <1>3, RunTakeQuiet DEF QuietIInv
<1>4. CASE \E w \in Wait : RunReturn(w)
  BY <1>1, <1>4, RunReturnQuiet DEF QuietIInv
<1>5. CASE \/ RunStart \/ RunEnd \/ RunNotify \/ DispatchStep \/ SpuriousDispatch
           \/ DestroyBegin \/ DestroyStep \/ SpuriousDestroy \/ Tick
  BY <1>1, <1>5, OthersQuiet DEF QuietIInv
<1>6. CASE UNCHANGED vars
  BY <1>1, <1>6 DEF vars, QuietIInv, CallsOK, NoOrphans, HandlerWaitedFor
<1> QED
  BY <1>2, <1>3, <1>4, <1>5, <1>6 DEF Next, RunStep

LEMMA TimerQuiet ==
    ASSUME SelfCalls = {}
    PROVE  Spec => []QuietIInv
<1>1. Init => QuietIInv
  <2> SUFFICES ASSUME Init PROVE QuietIInv
    OBVIOUS
  <2>1. TimerIInv
    BY TimerInit, TimerAssumption
  <2>2. CallsOK /\ HandlerWaitedFor
    BY DEF Init, CallsOK, HandlerWaitedFor, Idle
  <2>3. NoOrphans
    BY DEF Init, NoOrphans
  <2> QED
    BY <2>1, <2>2, <2>3 DEF QuietIInv
<1>2. QuietIInv /\ [Next]_vars => QuietIInv'
  BY QuietStep, TimerAssumption
<1> QED
  BY <1>1, <1>2, PTL DEF Spec

\* Where nobody but its owner updates or closes a notify: once timerCloseWait has
\* returned to a thread other than the event thread, or the notify is gone, its
\* handler is not running and no node of the queue counts for it (timer.cpp,
\* Timer::closeWait, ITimerNotify::~ITimerNotify).
THEOREM TimerClosedIsQuiet ==
    ASSUME SelfCalls = {}
    PROVE  Spec => []ClosedIsQuiet
<1>1. QuietIInv => ClosedIsQuiet
  <2> SUFFICES ASSUME QuietIInv, mode # "stopped", NEW n \in Notify, Closed(n)
               PROVE  handling # n /\ LiveNodes(n) = {}
    BY DEF ClosedIsQuiet
  <2>1. QueueOK /\ ArmedOK /\ StagesOK /\ CallsOK /\ HandlerWaitedFor /\ RestTyped
    BY TypeParts DEF QuietIInv, TimerIInv
  <2>2. Owner[n] \in Thread /\ n # None
    BY TimerAssumption DEF TimerAssumption, Thread
  <2>3. ~armed[n]
    BY <2>1 DEF Closed, CallsOK
  <2>4. handling # n
    BY <2>1, <2>2, <2>3 DEF Closed, HandlerWaitedFor
  <2>5. expiration[n] = Inf
    BY <2>1, <2>3 DEF ArmedOK
  <2>6. \A i \in DOMAIN timers : timers[i].left # Inf
    <3>1. \A i \in DOMAIN timers : timers[i] \in Node
      BY <2>1 DEF QueueOK
    <3>2. \A i \in DOMAIN timers : timers[i].left \in 0 .. MaxWait
      BY <3>1 DEF Node
    <3> QED
      BY <3>2, TimerAssumption DEF Inf, TimerAssumption
  <2>7. LiveNodes(n) = {}
    BY <2>1, <2>5, <2>6 DEF LiveNodes, QueueOK, LiveTrue
  <2> QED
    BY <2>4, <2>7
<1> QED
  BY <1>1, TimerQuiet, PTL

-----------------------------------------------------------------------------
(***************************************************************************)
(* The refinement of TimerAlarm, where nobody but its owner updates or     *)
(* closes a notify.                                                        *)
(***************************************************************************)
AlarmVars == <<expiration, handling, alive, waitsFor, mode = "stopped">>
Waits(c) == call[c].pc \in {"waiting", "woken"}

\* A thread goes on waiting for the same handler, or goes on not waiting.
LEMMA WaitsSame ==
    ASSUME NEW c \in Thread,
           \/ call'[c] = call[c]
           \/ ~Waits(c) /\ ~Waits(c)'
           \/ Waits(c) /\ Waits(c)' /\ call'[c].n = call[c].n
    PROVE  waitsFor'[c] = waitsFor[c]
BY DEF waitsFor, Waits

\* Calls that neither begin nor end a wait.
LEMMA NobodyWaits ==
    ASSUME \A c \in Thread :
              \/ call'[c] = call[c]
              \/ ~Waits(c) /\ ~Waits(c)'
              \/ Waits(c) /\ Waits(c)' /\ call'[c].n = call[c].n
    PROVE  UNCHANGED waitsFor
<1>1. \A c \in Thread : waitsFor'[c] = waitsFor[c]
  BY WaitsSame
<1>2. /\ waitsFor = [c \in Thread |-> waitsFor[c]]
      /\ waitsFor' = [c \in Thread |-> waitsFor'[c]]
  BY DEF waitsFor
<1> QED BY <1>1, <1>2

\* A timer that is set, or whose owner is in no call, is free for the next one.
LEMMA ArmedFree ==
    ASSUME TimerAssumption, QuietIInv, NEW n \in Notify,
           armed[n] \/ (alive[n] /\ call[Owner[n]] = Idle)
    PROVE  Alarm!Free(n)
<1>1. CallsOK /\ n # None
  BY TimerAssumption DEF QuietIInv, TimerAssumption
<1>2. alive[n]
  BY <1>1 DEF CallsOK
<1>3. ASSUME NEW c \in Thread PROVE waitsFor[c] # n
  BY <1>1 DEF CallsOK, waitsFor, Idle
<1> QED BY <1>2, <1>3 DEF Alarm!Free

LEMMA AlarmInit ==
    ASSUME Init PROVE Alarm!Init
<1>1. \A c \in Thread : waitsFor[c] = None
  BY DEF Init, waitsFor, Idle
<1>2. waitsFor = [c \in Thread |-> waitsFor[c]]
  BY DEF waitsFor
<1>3. waitsFor = [c \in Thread |-> None]
  BY <1>1, <1>2
<1> QED BY <1>3 DEF Init, Alarm!Init

\* timerUpdate sets the timer.
LEMMA UpdateSets ==
    ASSUME TimerAssumption, SelfCalls = {}, QuietIInv, NEW c \in Thread, NEW n \in Notify,
           NEW w \in Wait, NEW sooner \in BOOLEAN, Update(c, n, w, sooner)
    PROVE  Alarm!Set(n, w) \/ UNCHANGED AlarmVars
<1>1. alive[n] /\ call[c] = Idle /\ Owner[n] = c
  BY DEF Update, MayCall
<1>2. RestTyped
  BY TypeParts DEF QuietIInv, TimerIInv
<1>3. UNCHANGED waitsFor
  <2>1. \/ call' = call
        \/ call' = [call EXCEPT ![c] = At("notify", n, FALSE)]
    BY DEF Update
  <2>2. CASE call' = call
    BY <2>2, NobodyWaits
  <2>3. CASE call' = [call EXCEPT ![c] = At("notify", n, FALSE)]
    <3>1. call'[c].pc = "notify" /\ call[c].pc = "idle"
      BY <1>1, <1>2, <2>3 DEF At, Idle, RestTyped
    <3>2. \A d \in Thread \ {c} : call'[d] = call[d]
      BY <1>2, <2>3 DEF RestTyped
    <3> QED BY <3>1, <3>2, NobodyWaits DEF Waits
  <2> QED BY <2>1, <2>2, <2>3
<1>4. expiration' = expiration \/ expiration' = [expiration EXCEPT ![n] = w]
  BY DEF Update, Arm
<1>5. Alarm!Free(n)
  BY <1>1, ArmedFree
<1>6. UNCHANGED <<handling, alive, mode>>
  BY DEF Update
<1> QED BY <1>3, <1>4, <1>5, <1>6 DEF Alarm!Set, AlarmVars

\* What a returning call leaves of the notify.
LEMMA ReturnCloses ==
    ASSUME RestTyped, NEW c \in Thread, NEW n \in Notify, NEW destroy \in BOOLEAN,
           Return(c, n, destroy), destroy => handling # n
    PROVE  Alarm!Closed(n)
<1>1. alive \in [Notify -> BOOLEAN] /\ alive' = [alive EXCEPT ![n] = @ /\ ~destroy]
  BY DEF RestTyped, Return
<1>2. CASE destroy
  <2>1. alive' = [alive EXCEPT ![n] = FALSE]
    BY <1>1, <1>2
  <2> QED BY <1>2, <2>1 DEF Alarm!Closed
<1>3. CASE ~destroy
  <2>1. (alive[n] /\ ~destroy) = alive[n]
    BY <1>1, <1>3
  <2>2. alive' = [alive EXCEPT ![n] = alive[n]]
    BY <1>1, <2>1
  <2>3. alive' = alive
    BY <1>1, <2>2
  <2> QED BY <2>3 DEF Alarm!Closed
<1> QED BY <1>2, <1>3

\* timerCloseWait, before it takes the lock: a timer that was never set, or has
\* been closed, has no handler to wait for.
LEMMA CloseBeginCloses ==
    ASSUME TimerAssumption, SelfCalls = {}, QuietIInv, mode # "stopped",
           NEW c \in Thread, NEW n \in Notify, NEW destroy \in BOOLEAN,
           CloseBegin(c, n, destroy)
    PROVE  Alarm!Close(c, n) \/ UNCHANGED AlarmVars
<1>1. alive[n] /\ call[c] = Idle /\ Owner[n] = c
  BY DEF CloseBegin, MayCall
<1>2. RestTyped /\ QueueOK /\ ArmedOK /\ HandlerWaitedFor /\ n # None
  BY TypeParts, TimerAssumption DEF QuietIInv, TimerIInv, TimerAssumption
<1>3. UNCHANGED <<handling, mode>>
  BY DEF CloseBegin
<1>4. Alarm!Free(n) /\ waitsFor[c] = None
  <2>1. Alarm!Free(n)
    BY <1>1, ArmedFree
  <2>2. call[c].pc = "idle"
    BY <1>1 DEF Idle
  <2> QED BY <2>1, <2>2 DEF waitsFor
<1>5. CASE armed[n]
  <2>1. UNCHANGED <<expiration, alive>> /\ call' = [call EXCEPT ![c] = At("closing", n, destroy)]
    BY <1>5 DEF CloseBegin
  <2>2. call'[c].pc = "closing" /\ call[c].pc = "idle"
    BY <1>1, <1>2, <2>1 DEF At, Idle, RestTyped
  <2>3. \A d \in Thread \ {c} : call'[d] = call[d]
    BY <1>2, <2>1 DEF RestTyped
  <2>4. UNCHANGED waitsFor
    BY <2>2, <2>3, NobodyWaits DEF Waits
  <2> QED BY <1>3, <2>1, <2>4 DEF AlarmVars
<1>6. CASE ~armed[n]
  <2>1. UNCHANGED expiration /\ Return(c, n, destroy)
    BY <1>6 DEF CloseBegin
  <2>2. expiration[n] = Inf /\ expiration \in [Notify -> Wait]
    BY <1>2, <1>6 DEF ArmedOK, QueueOK
  <2>3. expiration' = [expiration EXCEPT ![n] = Inf]
    BY <2>1, <2>2
  <2>4. handling = n => c = Event
    BY <1>1, <1>2, <1>6 DEF HandlerWaitedFor, Idle
  <2>5. destroy => handling # n
    BY <1>1, <2>4 DEF CloseBegin, MayDestroy
  <2>6. Alarm!Closed(n)
    BY <1>2, <2>1, <2>5, ReturnCloses
  <2>7. call' = [call EXCEPT ![c] = Idle]
    BY <2>1 DEF Return
  <2>8. call' = call
    BY <1>1, <1>2, <2>7 DEF RestTyped
  <2>9. UNCHANGED waitsFor
    BY <2>8, NobodyWaits
  <2> QED BY <1>3, <1>4, <2>3, <2>4, <2>6, <2>9 DEF Alarm!Close
<1> QED BY <1>5, <1>6

\* A thread ends its call or begins to wait: waitsFor changes for it alone.
LEMMA WaitsFor ==
    ASSUME NEW c \in Thread, NEW n, \A d \in Thread \ {c} : call'[d] = call[d],
           n = IF Waits(c)' THEN call'[c].n ELSE None
    PROVE  waitsFor' = [waitsFor EXCEPT ![c] = n]
BY DEF waitsFor, Waits

\* timerCloseWait, with the lock: from here on the timer is closed.
LEMMA CloseLockedCloses ==
    ASSUME TimerAssumption, SelfCalls = {}, QuietIInv, NEW c \in Thread, CloseLocked(c)
    PROVE  Alarm!Close(c, call[c].n)
<1> DEFINE n == call[c].n
<1>1. RestTyped /\ QueueOK /\ StagesOK /\ CallsOK
  BY TypeParts DEF QuietIInv, TimerIInv
<1>2. n \in Notify /\ armed[n] /\ call[c].pc = "closing" /\ n # None
  BY <1>1, TimerAssumption DEF CloseLocked, StagesOK, TimerAssumption
<1>3. Alarm!Free(n) /\ waitsFor[c] = None
  BY <1>2, ArmedFree DEF waitsFor
<1>4. expiration' = [expiration EXCEPT ![n] = Inf] /\ UNCHANGED <<handling, mode>>
  BY DEF CloseLocked
<1>5. CASE InProgress(c, n)
  <2>1. UNCHANGED alive /\ call' = [call EXCEPT ![c].pc = "waiting"]
    BY <1>5 DEF CloseLocked
  <2>2. call'[c].pc = "waiting" /\ call'[c].n = n
    BY <1>1, <2>1 DEF RestTyped, CallSet
  <2>3. \A d \in Thread \ {c} : call'[d] = call[d]
    BY <1>1, <2>1 DEF RestTyped
  <2>4. waitsFor' = [waitsFor EXCEPT ![c] = n]
    BY <2>2, <2>3, WaitsFor DEF Waits
  <2> QED BY <1>3, <1>4, <1>5, <2>1, <2>4 DEF InProgress, Alarm!Close
<1>6. CASE ~InProgress(c, n)
  <2>1. Return(c, n, call[c].destroy)
    BY <1>6 DEF CloseLocked
  <2>2. handling = n => c = Event
    BY <1>6 DEF InProgress
  <2>3. call[c].destroy \in BOOLEAN /\ (call[c].destroy => handling # n)
    BY <1>1, <1>2, <2>2 DEF CallsOK, RestTyped, CallSet
  <2>4. Alarm!Closed(n)
    BY <1>1, <1>2, <2>1, <2>3, ReturnCloses
  <2>5. call' = [call EXCEPT ![c] = Idle]
    BY <2>1 DEF Return
  <2>6. call'[c].pc = "idle" /\ \A d \in Thread \ {c} : call'[d] = call[d]
    BY <1>1, <2>5 DEF RestTyped, Idle
  <2>7. UNCHANGED waitsFor
    BY <1>2, <2>6, NobodyWaits DEF Waits
  <2> QED BY <1>3, <1>4, <2>2, <2>4, <2>7 DEF Alarm!Close
<1> QED BY <1>5, <1>6

\* The rest of timerUpdate and timerCloseWait.
LEMMA CallEnds ==
    ASSUME TimerAssumption, QuietIInv, NEW c \in Thread,
           UpdateNotify(c) \/ CloseWoken(c) \/ SpuriousCloser(c)
    PROVE  Alarm!CloseEnds(c) \/ UNCHANGED AlarmVars
<1> DEFINE n == call[c].n
<1>1. RestTyped /\ StagesOK
  BY TypeParts DEF QuietIInv, TimerIInv
<1>2. UNCHANGED <<expiration, handling, mode>>
  BY DEF UpdateNotify, CloseWoken, SpuriousCloser
<1>3. CASE UpdateNotify(c)
  <2>1. UNCHANGED alive /\ call[c].pc = "notify" /\ call' = [call EXCEPT ![c] = Idle]
    BY <1>3 DEF UpdateNotify
  <2>2. call'[c].pc = "idle" /\ \A d \in Thread \ {c} : call'[d] = call[d]
    BY <1>1, <2>1 DEF RestTyped, Idle
  <2>3. UNCHANGED waitsFor
    BY <2>1, <2>2, NobodyWaits DEF Waits
  <2> QED BY <1>2, <2>1, <2>3 DEF AlarmVars
<1>4. ASSUME NEW pc \in {"waiting", "woken"}, UNCHANGED alive, Waits(c),
             call' = [call EXCEPT ![c].pc = pc]
      PROVE  UNCHANGED AlarmVars
  <2>1. call'[c].pc = pc /\ call'[c].n = call[c].n
    BY <1>1, <1>4 DEF RestTyped, CallSet
  <2>2. \A d \in Thread \ {c} : call'[d] = call[d]
    BY <1>1, <1>4 DEF RestTyped
  <2>3. UNCHANGED waitsFor
    BY <1>4, <2>1, <2>2, NobodyWaits DEF Waits
  <2> QED BY <1>2, <1>4, <2>3 DEF AlarmVars
<1>5. CASE SpuriousCloser(c) \/ (CloseWoken(c) /\ handling = n)
  BY <1>4, <1>5 DEF SpuriousCloser, CloseWoken, Waits
<1>6. CASE CloseWoken(c) /\ handling # n
  <2>1. n \in Notify /\ n # None /\ call[c].pc = "woken" /\ call[c].destroy \in BOOLEAN
    BY <1>1, <1>6, TimerAssumption DEF CloseWoken, StagesOK, TimerAssumption, RestTyped, CallSet
  <2>2. Return(c, n, call[c].destroy)
    BY <1>6 DEF CloseWoken
  <2>3. Alarm!Closed(n)
    BY <1>1, <1>6, <2>1, <2>2, ReturnCloses
  <2>4. call' = [call EXCEPT ![c] = Idle]
    BY <2>2 DEF Return
  <2>5. call'[c].pc = "idle" /\ \A d \in Thread \ {c} : call'[d] = call[d]
    BY <1>1, <2>4 DEF RestTyped, Idle
  <2>6. waitsFor' = [waitsFor EXCEPT ![c] = None] /\ waitsFor[c] = n
    BY <2>1, <2>5, WaitsFor DEF Waits, waitsFor
  <2> QED BY <1>2, <1>6, <2>1, <2>3, <2>6 DEF Alarm!CloseEnds
<1> QED BY <1>3, <1>5, <1>6

\* RunTimers calls the handler of the first node that is due, if it counts.
LEMMA CallbackFires ==
    ASSUME TimerAssumption, QuietIInv, mode # "stopped", RunCallback
    PROVE  Top.n \in Notify /\ Alarm!Fire(Top.n)
<1>1. RestTyped /\ QueueOK /\ ArmedOK /\ StagesOK /\ NoOrphans
  BY TypeParts DEF QuietIInv, TimerIInv
<1>2. timers # <<>> /\ 1 \in DOMAIN timers /\ Top = timers[1] /\ Top \in Node
  BY <1>1, TopIs DEF RunCallback, Due, QueueOK
<1>3. Top.n \in Notify /\ Top.state = "live" /\ Top.left = 0
  BY <1>1, <1>2 DEF RunCallback, Due, Node, NoOrphans
<1>4. expiration[Top.n] = 0
  BY <1>1, <1>2, <1>3 DEF QueueOK, LiveTrue
<1>5. armed[Top.n]
  BY <1>1, <1>3, <1>4, TimerAssumption DEF ArmedOK, Inf, TimerAssumption
<1>6. Alarm!Free(Top.n) /\ handling = None
  BY <1>1, <1>3, <1>5, ArmedFree DEF StagesOK, RunCallback, RestTyped
<1>7. UNCHANGED <<alive, call, mode>> /\ handling' = Top.n
  BY DEF RunCallback
<1>8. expiration' = [expiration EXCEPT ![Top.n] = Inf]
  BY <1>3 DEF RunCallback
<1>9. UNCHANGED waitsFor
  BY <1>7, NobodyWaits
<1> QED BY <1>3, <1>4, <1>6, <1>7, <1>8, <1>9 DEF Alarm!Fire

\* The handler returns; the timer it ran for is set again only if it is still
\* the notify's.
LEMMA ReturnFinishes ==
    ASSUME TimerAssumption, QuietIInv, NEW w \in Wait, RunReturn(w)
    PROVE  Alarm!Finish
<1>1. RestTyped /\ QueueOK /\ ArmedOK /\ StagesOK
  BY TypeParts DEF QuietIInv, TimerIInv
<1>2. handling \in Notify /\ handling # None /\ handling' = None
  BY <1>1 DEF RunReturn, StagesOK, RestTyped
<1>3. UNCHANGED <<alive, mode>>
  BY DEF RunReturn
<1>4. UNCHANGED waitsFor
  <2>1. CASE connected
    BY <2>1, NobodyWaits DEF RunReturn
  <2>2. CASE ~connected
    <3>1. \A c \in Thread :
            call'[c] = IF call[c].pc = "waiting" THEN [call[c] EXCEPT !.pc = "woken"] ELSE call[c]
      BY <2>2 DEF RunReturn, WakeClosers
    <3>2. ASSUME NEW c \in Thread, call[c].pc = "waiting"
          PROVE  call'[c].pc = "woken" /\ call'[c].n = call[c].n
      BY <1>1, <3>1, <3>2 DEF RestTyped, CallSet
    <3> QED BY <3>1, <3>2, NobodyWaits DEF Waits
  <2> QED BY <2>1, <2>2
<1>5. CASE Rearms(handling, w)
  <2>1. expiration' = [expiration EXCEPT ![handling] = w]
    BY <1>5 DEF RunReturn, Arm
  <2>2. connected /\ w < expiration[handling]
    BY <1>5 DEF Rearms
  <2>3. w \in 0 .. Inf - 1
    <3>1. expiration[handling] \in 0 .. Inf /\ Inf \in Int
      BY <1>1, <1>2, TimerAssumption DEF QueueOK, Wait, Inf, TimerAssumption
    <3> QED BY <2>2, <3>1 DEF Wait
  <2>4. Alarm!Free(handling)
    BY <1>1, <1>2, <2>2, ArmedFree DEF ArmedOK
  <2> QED BY <1>2, <1>3, <1>4, <2>1, <2>2, <2>3, <2>4 DEF Alarm!Finish
<1>6. CASE ~Rearms(handling, w)
  <2>1. UNCHANGED expiration
    BY <1>6 DEF RunReturn
  <2> QED BY <1>2, <1>3, <1>4, <2>1 DEF Alarm!Finish
<1> QED BY <1>5, <1>6

\* The others let time pass, stop the timers, or do nothing that can be seen.
LEMMA OthersSilent ==
    ASSUME TimerAssumption, QuietIInv,
           \/ RunStart \/ RunSkip \/ RunEnd \/ RunNotify \/ DispatchStep \/ SpuriousDispatch
           \/ DestroyBegin \/ DestroyStep \/ SpuriousDestroy \/ Tick
    PROVE  Alarm!TimePasses \/ Alarm!Stop \/ UNCHANGED AlarmVars
<1>1. UNCHANGED <<handling, alive, call>>
  BY DEF RunStart, RunSkip, RunEnd, RunNotify, DispatchStep, DispatchStop, DispatchCheck,
         DispatchPush, DispatchTimeout, SpuriousDispatch, DestroyBegin, DestroyStep,
         DestroyNotify, DestroyCheck, SpuriousDestroy, Tick
<1>2. UNCHANGED waitsFor
  BY <1>1, NobodyWaits
<1>3. CASE Tick
  <2>1. expiration' = [n \in Notify |-> Alarm!Later(expiration[n])] /\ UNCHANGED mode
    BY <1>3 DEF Tick, Later, Alarm!Later
  <2> QED BY <1>1, <1>2, <2>1 DEF Alarm!TimePasses
<1>4. CASE DispatchStop
  <2>1. mode' = "stopped" /\ UNCHANGED expiration
    BY <1>4 DEF DispatchStop
  <2> QED BY <1>1, <1>2, <2>1 DEF Alarm!Stop
<1>5. CASE DestroyBegin
  <2>1. mode = "running" /\ mode' = "stopping" /\ UNCHANGED expiration
    BY <1>5 DEF DestroyBegin, QuietIInv, TimerIInv, StagesOK
  <2>2. (mode' = "stopped") = (mode = "stopped")
    BY <2>1
  <2> QED BY <1>1, <1>2, <2>1, <2>2 DEF AlarmVars
<1>6. CASE \/ RunStart \/ RunSkip \/ RunEnd \/ RunNotify \/ DispatchCheck \/ DispatchPush
           \/ DispatchTimeout \/ SpuriousDispatch \/ DestroyStep \/ SpuriousDestroy
  <2>1. UNCHANGED <<mode, expiration>>
    BY <1>6 DEF RunStart, RunSkip, RunEnd, RunNotify, DispatchCheck, DispatchPush,
         DispatchTimeout, SpuriousDispatch, DestroyStep, DestroyNotify, DestroyCheck,
         SpuriousDestroy
  <2> QED BY <1>1, <1>2, <2>1 DEF AlarmVars
<1> QED BY <1>3, <1>4, <1>5, <1>6 DEF DispatchStep

\* Once the timers are stopped they stay so.
LEMMA StoppedStays ==
    ASSUME QuietIInv, [Next]_vars, mode = "stopped"
    PROVE  mode' = "stopped"
<1>1. mpc # "run" /\ dpc = "done"
  BY DEF QuietIInv, TimerIInv, StagesOK
<1> QED
  BY <1>1 DEF Next, ClientStep, CallStep, RunStep, DispatchStep, DestroyStep, vars, Update,
     CloseBegin, UpdateNotify, CloseLocked, CloseWoken, SpuriousCloser, RunStart, RunSkip,
     RunCallback, RunEnd, RunNotify, RunReturn, DispatchStop, DispatchCheck, DispatchPush,
     DispatchTimeout, SpuriousDispatch, DestroyBegin, DestroyNotify, DestroyCheck,
     SpuriousDestroy, Tick

LEMMA AlarmStep ==
    ASSUME TimerAssumption, SelfCalls = {}, QuietIInv, [Next]_vars
    PROVE  [Alarm!Next]_(Alarm!vars)
<1>1. UNCHANGED AlarmVars => UNCHANGED Alarm!vars
  BY DEF AlarmVars, Alarm!vars
<1>2. CASE mode = "stopped"
  BY <1>2, StoppedStays DEF Alarm!StaysStopped, Alarm!Next
<1>3. CASE mode # "stopped"
  <2>1. ASSUME NEW c \in Thread, ClientStep(c) \/ CallStep(c) \/ SpuriousCloser(c)
        PROVE  Alarm!Next \/ UNCHANGED AlarmVars
    <3>1. CASE ClientStep(c)
      BY <1>3, <3>1, UpdateSets, CloseBeginCloses DEF ClientStep, Alarm!Next, Wait
    <3>2. CASE CloseLocked(c)
      <4>1. call[c].n \in Notify
        BY <3>2 DEF CloseLocked, QuietIInv, TimerIInv, StagesOK
      <4> QED BY <3>2, <4>1, CloseLockedCloses DEF Alarm!Next
    <3>3. CASE UpdateNotify(c) \/ CloseWoken(c) \/ SpuriousCloser(c)
      BY <3>3, CallEnds DEF Alarm!Next
    <3> QED BY <2>1, <3>1, <3>2, <3>3 DEF CallStep
  <2>2. CASE RunCallback
    BY <1>3, <2>2, CallbackFires DEF Alarm!Next
  <2>3. CASE \E w \in Wait : RunReturn(w)
    BY <2>3, ReturnFinishes DEF Alarm!Next
  <2>4. CASE \/ RunStart \/ RunSkip \/ RunEnd \/ RunNotify \/ DispatchStep \/ SpuriousDispatch
             \/ DestroyBegin \/ DestroyStep \/ SpuriousDestroy \/ Tick
    BY <1>1, <2>4, OthersSilent DEF Alarm!Next
  <2>5. CASE UNCHANGED vars
    BY <1>1, <2>5, NobodyWaits DEF vars, AlarmVars
  <2> QED BY <1>1, <2>1, <2>2, <2>3, <2>4, <2>5 DEF Next, RunStep
<1> QED BY <1>2, <1>3

\* Where nobody but its owner updates or closes a notify, the timers implement
\* TimerAlarm: handlers are called when their time has come, once for each time
\* that was set, and not between a close and the return of the thread that waits
\* (timer.h, timerUpdate and timerCloseWait).
THEOREM TimerImplementsAlarm ==
    ASSUME SelfCalls = {}
    PROVE  Spec => ImplementsAlarm
<1>1. QuietIInv /\ [Next]_vars => [Alarm!Next]_(Alarm!vars)
  BY AlarmStep, TimerAssumption
<1>2. Init => Alarm!Init
  BY AlarmInit
<1> QED BY <1>1, <1>2, TimerQuiet, PTL DEF Spec, Alarm!Spec, ImplementsAlarm

=============================================================================
