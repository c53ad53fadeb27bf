---------------------------- MODULE SocketProofs ----------------------------
(***************************************************************************)
(* Proofs about the connected socket of module Socket, for any sizes of    *)
(* its queues and batches.  What the application has been told holds       *)
(* whatever it does; the other two theorems leave out the habits that      *)
(* break what they say, and only these.                                    *)
(***************************************************************************)
EXTENDS Socket, FiniteSetTheorems, FunctionTheorems, SequenceTheorems,
        TLAPS

-----------------------------------------------------------------------------
(***************************************************************************)
(* Counting the results of a kind in a queue.                              *)
(***************************************************************************)
Marks(s, kinds) == {i \in DOMAIN s : s[i] \in kinds}

\* There are finitely many of them.
LEMMA CountType ==
    ASSUME NEW S, NEW s \in Seq(S), NEW kinds
    PROVE  /\ IsFiniteSet(Marks(s, kinds))
           /\ CountOf(s, kinds) = Cardinality(Marks(s, kinds))
           /\ CountOf(s, kinds) \in Nat
<1>1. IsFiniteSet(1 .. Len(s)) /\ DOMAIN s = 1 .. Len(s)
  BY FS_Interval
<1>2. IsFiniteSet(Marks(s, kinds))
  BY <1>1, FS_Subset DEF Marks
<1>3. CountOf(s, kinds) = Cardinality(Marks(s, kinds))
  BY DEF CountOf, Marks
<1> QED BY <1>2, <1>3, FS_CardinalityType

\* s is a followed by b.
Joins(s, a, b) ==
    /\ Len(s) = Len(a) + Len(b)
    /\ \A i \in 1 .. Len(a) : s[i] = a[i]
    /\ \A i \in 1 .. Len(b) : s[Len(a) + i] = b[i]

\* What is in two queues is counted in each.
LEMMA CountJoined ==
    ASSUME NEW S, NEW s \in Seq(S), NEW a \in Seq(S), NEW b \in Seq(S),
           Joins(s, a, b), NEW kinds
    PROVE  CountOf(s, kinds) = CountOf(a, kinds) + CountOf(b, kinds)
<1>1. PICK m \in Nat : m = Len(a) /\ DOMAIN a = 1 .. m
  OBVIOUS
<1>2. PICK n \in Nat : n = Len(b) /\ DOMAIN b = 1 .. n
  OBVIOUS
<1>3. DOMAIN s = 1 .. (m + n)
  BY <1>1, <1>2 DEF Joins
<1> DEFINE A == Marks(a, kinds)
           B == Marks(b, kinds)
           C == {i \in (m + 1) .. (m + n) : s[i] \in kinds}
           f == [i \in B |-> m + i]
<1>4. B \subseteq 1 .. n /\ A \subseteq 1 .. m
  BY <1>1, <1>2 DEF Marks
<1>5. \A i \in 1 .. m : s[i] = a[i]
  BY <1>1 DEF Joins
<1>6. \A i \in 1 .. n : s[m + i] = b[i]
  BY <1>1, <1>2 DEF Joins
<1>7. \A i \in B : m + i \in C
  <2> TAKE i \in B
  <2>1. i \in 1 .. n /\ b[i] \in kinds
    BY <1>2 DEF Marks
  <2> QED BY <2>1, <1>6
<1>8. \A j \in C : j - m \in B /\ m + (j - m) = j
  <2> TAKE j \in C
  <2>1. j - m \in 1 .. n /\ m + (j - m) = j
    OBVIOUS
  <2>2. s[j] = b[j - m]
    BY <2>1, <1>6
  <2> QED BY <2>1, <2>2, <1>2 DEF Marks
<1>9. f \in Bijection(B, C)
  <2>1. f \in [B -> C]
    BY <1>7
  <2>2. \A i, j \in B : f[i] = f[j] => i = j
    BY <1>4
  <2>3. \A j \in C : \E i \in B : f[i] = j
    BY <1>8
  <2> QED BY <2>1, <2>2, <2>3, Fun_IsBij
<1>10. Marks(s, kinds) = A \cup C /\ A \cap C = {}
  <2>1. A \cap C = {}
    BY <1>4
  <2>2. \A i \in 1 .. m : i \in Marks(s, kinds) <=> i \in A
    BY <1>1, <1>3, <1>5 DEF Marks
  <2>3. \A i \in (m + 1) .. (m + n) : i \in Marks(s, kinds) <=> i \in C
    BY <1>3 DEF Marks
  <2>4. Marks(s, kinds) \subseteq 1 .. (m + n)
    BY <1>3 DEF Marks
  <2> HIDE DEF A, C
  <2>5. C \subseteq (m + 1) .. (m + n) /\ A \subseteq 1 .. m
    BY <1>4 DEF C
  <2>6. \A i \in 1 .. (m + n) : i \in 1 .. m \/ i \in (m + 1) .. (m + n)
    OBVIOUS
  <2>7. \A i \in 1 .. (m + n) : i \in Marks(s, kinds) <=> i \in A \/ i \in C
    BY <2>2, <2>3, <2>5, <2>6
  <2>8. \A i : i \in A \/ i \in C => i \in 1 .. (m + n)
    <3>1. 1 .. m \subseteq 1 .. (m + n) /\ (m + 1) .. (m + n) \subseteq 1 .. (m + n)
      BY <1>1, <1>2
    <3> QED BY <2>5, <3>1, Zenon
  <2>9. Marks(s, kinds) = A \cup C
    BY <2>4, <2>7, <2>8, Zenon
  <2> QED BY <2>1, <2>9
<1>11. IsFiniteSet(C) /\ Cardinality(C) = Cardinality(B)
  BY <1>9, CountType, FS_Bijection DEF ExistsBijection
<1>12. Cardinality(A \cup C) = Cardinality(A) + Cardinality(C) - Cardinality(A \cap C)
  BY <1>11, CountType, FS_Union
<1>13. Cardinality(A \cap C) = 0
  BY <1>10, FS_EmptySet
<1>14. /\ CountOf(a, kinds) = Cardinality(A) /\ CountOf(a, kinds) \in Nat
       /\ CountOf(b, kinds) = Cardinality(B) /\ CountOf(b, kinds) \in Nat
       /\ CountOf(s, kinds) = Cardinality(Marks(s, kinds))
  BY CountType
<1> HIDE DEF A, B, C
<1> QED BY <1>10, <1>11, <1>12, <1>13, <1>14

\* One result is counted if it is of the kind.
LEMMA CountOne ==
    ASSUME NEW x, NEW kinds
    PROVE  CountOf(<<x>>, kinds) = IF x \in kinds THEN 1 ELSE 0
<1>1. Marks(<<x>>, kinds) = IF x \in kinds THEN {1} ELSE {}
  BY DEF Marks
<1>2. CountOf(<<x>>, kinds) = Cardinality(Marks(<<x>>, kinds))
  BY DEF CountOf, Marks
<1> QED BY <1>1, <1>2, FS_EmptySet, FS_Singleton

\* A result joins a queue at its end ...
LEMMA CountAppend ==
    ASSUME NEW S, NEW s \in Seq(S), NEW x \in S, NEW kinds
    PROVE  CountOf(Append(s, x), kinds)
               = CountOf(s, kinds) + (IF x \in kinds THEN 1 ELSE 0)
<1> DEFINE t == Append(s, x)
           b == <<x>>
<1>1. t \in Seq(S) /\ b \in Seq(S)
  OBVIOUS
<1>2. Joins(t, s, b)
  BY DEF Joins
<1>3. CountOf(s, kinds) \in Nat
  BY CountType
<1>4. CountOf(b, kinds) = IF x \in kinds THEN 1 ELSE 0
  BY CountOne
<1> HIDE DEF t, b
<1>5. CountOf(t, kinds) = CountOf(s, kinds) + CountOf(b, kinds)
  BY <1>1, <1>2, CountJoined
<1> QED BY <1>3, <1>4, <1>5 DEF t

\* ... and leaves it at its head.
LEMMA CountTail ==
    ASSUME NEW S, NEW s \in Seq(S), s # <<>>, NEW kinds
    PROVE  CountOf(s, kinds)
               = (IF Head(s) \in kinds THEN 1 ELSE 0) + CountOf(Tail(s), kinds)
<1> DEFINE t == Tail(s)
           h == <<Head(s)>>
<1>1. t \in Seq(S) /\ h \in Seq(S)
  OBVIOUS
<1>2. Joins(s, h, t)
  BY DEF Joins
<1>3. CountOf(h, kinds) = IF Head(s) \in kinds THEN 1 ELSE 0
  BY CountOne
<1> HIDE DEF t, h
<1>4. CountOf(t, kinds) \in Nat
  BY <1>1, CountType
<1>5. CountOf(s, kinds) = CountOf(h, kinds) + CountOf(t, kinds)
  BY <1>1, <1>2, CountJoined
<1> QED BY <1>3, <1>4, <1>5 DEF t

\* onTask splits a queue in two.
LEMMA CountCut ==
    ASSUME NEW S, NEW s \in Seq(S), NEW n \in Nat, n <= Len(s), NEW kinds
    PROVE  /\ SubSeq(s, 1, n) \in Seq(S) /\ SubSeq(s, n + 1, Len(s)) \in Seq(S)
           /\ CountOf(s, kinds) = CountOf(SubSeq(s, 1, n), kinds)
                                    + CountOf(SubSeq(s, n + 1, Len(s)), kinds)
<1>1. PICK m \in Nat : m = Len(s) /\ DOMAIN s = 1 .. m
  OBVIOUS
<1>2. \A i \in 1 .. m : s[i] \in S
  BY <1>1
<1> DEFINE a == SubSeq(s, 1, n)
           b == SubSeq(s, n + 1, m)
<1>3. a \in Seq(S) /\ Len(a) = n /\ \A i \in 1 .. n : a[i] = s[i]
  <2>1. \A i \in 1 .. n : s[i] \in S
    BY <1>1, <1>2
  <2>2. /\ a \in Seq(S) /\ Len(a) = (IF 1 <= n THEN n - 1 + 1 ELSE 0)
        /\ \A i \in 1 .. n - 1 + 1 : a[i] = s[1 + i - 1]
    BY <2>1, SubSeqProperties
  <2> HIDE DEF a
  <2> QED BY <2>2
<1>4. b \in Seq(S) /\ Len(b) = m - n /\ \A i \in 1 .. m - n : b[i] = s[n + i]
  <2>1. \A i \in n + 1 .. m : s[i] \in S
    BY <1>1, <1>2
  <2>2. /\ b \in Seq(S) /\ Len(b) = (IF n + 1 <= m THEN m - (n + 1) + 1 ELSE 0)
        /\ \A i \in 1 .. m - (n + 1) + 1 : b[i] = s[n + 1 + i - 1]
    BY <2>1, <1>1, SubSeqProperties
  <2>3. m - (n + 1) + 1 = m - n /\ (n + 1 <= m \/ m - n = 0)
    BY <1>1
  <2>4. \A i \in 1 .. m - n : n + 1 + i - 1 = n + i
    BY <1>1
  <2> HIDE DEF b
  <2> QED BY <2>2, <2>3, <2>4, <1>1
<1>5. a \in Seq(S) /\ b \in Seq(S) /\ Joins(s, a, b)
  <2> HIDE DEF a, b
  <2> QED BY <1>1, <1>3, <1>4 DEF Joins
<1>6. CountOf(s, kinds) = CountOf(a, kinds) + CountOf(b, kinds)
  <2> HIDE DEF a, b
  <2> QED BY <1>5, CountJoined
<1> QED BY <1>1, <1>5, <1>6

\* A queue in which nothing is counted is empty.
LEMMA CountNone ==
    ASSUME NEW s \in Seq(Result), CountOf(s, {"data", "none"}) = 0,
           CountOf(s, {"write"}) = 0
    PROVE  s = <<>>
<1>1. Marks(s, {"data", "none"}) = {} /\ Marks(s, {"write"}) = {}
  BY CountType, FS_EmptySet
<1>2. SUFFICES ASSUME s # <<>>
               PROVE  FALSE
  OBVIOUS
<1>3. 1 \in DOMAIN s /\ s[1] \in Result
  BY <1>2
<1> QED BY <1>1, <1>3 DEF Marks, Result

-----------------------------------------------------------------------------
(***************************************************************************)
(* The object and its requests, r reads and w writes of which are among    *)
(* the results.                                                            *)
(***************************************************************************)
SocketType ==
    [mode : {"active", "closing", "closed"}, open : BOOLEAN, alive : BOOLEAN,
     prereads : Nat, reads : Nat, prewrites : Nat, writes : Nat,
     kreads : Nat, kwrites : Nat, told : BOOLEAN, disconnects : Nat,
     late : BOOLEAN, touched : BOOLEAN]

\* Every request is with the kernel or among the results.
Counted(s, r, w) ==
    /\ s.reads = s.kreads + r
    /\ s.writes = s.kwrites + w
    /\ s.prereads + s.reads <= MaxReads
    /\ s.writes <= MaxWrites

\* Data waits only for a place in the send queue, and the application knows.
Waits(s) ==
    s.alive =>
        /\ s.prewrites > 0 => s.writes = MaxWrites
        /\ s.mode = "active" => (s.told <=> s.prewrites > 0)

\* The object goes with the last request.
Gone(s) == ~s.alive => s.reads = 0 /\ s.writes = 0

Sound(s, r, w) == s \in SocketType /\ Counted(s, r, w) /\ Waits(s) /\ Gone(s)

\* The application has been told of the end of the connection once or not at
\* all.
Once(s) ==
    /\ s.disconnects \in {0, 1} /\ ~s.late
    /\ s.alive => (s.mode = "closed" <=> s.disconnects = 1)
    /\ ~s.alive => s.disconnects = 1
    /\ s.disconnects = 1 => s.reads = 0

LEMMA ConstantsType == MaxReads \in Nat \ {0} /\ MaxWrites \in Nat \ {0} /\ MaxResults \in Nat \ {0}
  BY SocketAssumption

\* hardClose forgets the data that waits, and nothing else.
LEMMA HardCloseSound ==
    ASSUME NEW s, NEW r \in Nat, NEW w \in Nat, Sound(s, r, w)
    PROVE  /\ Sound(HardClose(s), r, w)
           /\ \A field \in {"alive", "prereads", "reads", "kreads", "writes", "kwrites",
                            "disconnects", "late", "touched"} :
                HardClose(s)[field] = s[field]
           /\ Once(s) /\ s.disconnects = 0 => Once(HardClose(s))
<1> DEFINE t == [s EXCEPT !.mode = "closing", !.open = FALSE, !.prewrites = 0]
<1>1. CASE s.open
  <2>1. HardClose(s) = t
    BY <1>1 DEF HardClose
  <2>2. /\ t \in SocketType /\ t.mode = "closing" /\ t.prewrites = 0
        /\ t.alive = s.alive /\ t.prereads = s.prereads /\ t.reads = s.reads
        /\ t.kreads = s.kreads /\ t.writes = s.writes /\ t.kwrites = s.kwrites
        /\ t.disconnects = s.disconnects /\ t.late = s.late /\ t.touched = s.touched
    BY DEF Sound, SocketType
  <2> HIDE DEF t
  <2>3. Sound(t, r, w)
    BY <2>2 DEF Sound, Counted, Waits, Gone
  <2>4. Once(s) /\ s.disconnects = 0 => Once(t)
    BY <2>2 DEF Once
  <2> QED BY <2>1, <2>2, <2>3, <2>4
<1>2. CASE ~s.open
  BY <1>2 DEF HardClose
<1> QED BY <1>1, <1>2

\* The object is deleted when it has no requests.
LEMMA DeleteSound ==
    ASSUME NEW s \in SocketType, Counted(s, 0, 0), s.reads = 0, s.writes = 0
    PROVE  /\ Sound(Delete(s), 0, 0)
           /\ Delete(s).touched = s.touched /\ ~Delete(s).alive
           /\ ~s.late /\ s.disconnects = 1 => Once(Delete(s))
<1> DEFINE h == HardClose(s)
           t == [h EXCEPT !.alive = FALSE, !.prereads = 0]
<1>1. /\ h \in SocketType /\ h.reads = 0 /\ h.writes = 0 /\ h.touched = s.touched
      /\ h.kreads = s.kreads /\ h.kwrites = s.kwrites
      /\ h.late = s.late /\ h.disconnects = s.disconnects
  BY DEF HardClose, SocketType
<1>2. Delete(s) = t
  BY DEF Delete
<1> HIDE DEF h
<1>3. /\ t \in SocketType /\ t.alive = FALSE /\ t.prereads = 0
      /\ t.reads = h.reads /\ t.writes = h.writes /\ t.touched = h.touched
      /\ t.kreads = h.kreads /\ t.kwrites = h.kwrites
      /\ t.late = h.late /\ t.disconnects = h.disconnects
  BY <1>1 DEF SocketType
<1> HIDE DEF t
<1>4. Sound(t, 0, 0)
  BY <1>1, <1>3, ConstantsType DEF Sound, Counted, Waits, Gone, SocketType
<1>5. ~s.late /\ s.disconnects = 1 => Once(t)
  BY <1>1, <1>3 DEF Once
<1> QED BY <1>1, <1>2, <1>3, <1>4, <1>5

\* The end of onRead tells the application once, and deletes the object when
\* there is no request left.
LEMMA ReadEndsSound ==
    ASSUME NEW s, NEW r \in Nat, NEW w \in Nat, Sound(s, r, w), s.alive,
           NEW again \in BOOLEAN
    PROVE  /\ Sound(ReadEnds(s, again), r, w)
           /\ ReadEnds(s, again).touched = s.touched
           /\ Once(s) /\ ~again => Once(ReadEnds(s, again))
<1>1. CASE s.reads > 0
  BY <1>1 DEF ReadEnds
<1>2. CASE ~(s.reads > 0)
  <2> DEFINE c == IF s.mode = "closed" THEN s
                  ELSE [s EXCEPT !.mode = "closed", !.disconnects = @ + 1]
             d == IF again THEN HardClose(c) ELSE c
  <2>1. ReadEnds(s, again) = IF d.writes = 0 THEN Delete(d) ELSE d
    BY <1>2 DEF ReadEnds
  <2>2. s.reads = 0 /\ s \in SocketType /\ r = 0
    BY <1>2 DEF Sound, SocketType, Counted
  <2>3. /\ c \in SocketType /\ c.mode = "closed"
        /\ c.prewrites = s.prewrites
        /\ c.alive = s.alive /\ c.prereads = s.prereads /\ c.reads = s.reads
        /\ c.kreads = s.kreads /\ c.writes = s.writes /\ c.kwrites = s.kwrites
        /\ c.late = s.late /\ c.touched = s.touched
        /\ Once(s) => c.disconnects = 1
    <3>1. CASE s.mode = "closed"
      <4>1. c = s
        BY <3>1
      <4> HIDE DEF c
      <4> QED BY <2>2, <3>1, <4>1 DEF Once
    <3>2. CASE s.mode # "closed"
      <4>1. c = [s EXCEPT !.mode = "closed", !.disconnects = @ + 1]
        BY <3>2
      <4>2. Once(s) => s.disconnects = 0
        BY <2>2, <3>2 DEF Once
      <4>3. s.disconnects + 1 \in Nat
        BY <2>2 DEF SocketType
      <4> HIDE DEF c
      <4>4. c \in SocketType
        BY <2>2, <4>1, <4>3 DEF SocketType
      <4>5. c.mode = "closed" /\ c.disconnects = s.disconnects + 1
        BY <2>2, <4>1 DEF SocketType
      <4>6. /\ c.prewrites = s.prewrites
            /\ c.alive = s.alive /\ c.prereads = s.prereads /\ c.reads = s.reads
            /\ c.kreads = s.kreads /\ c.writes = s.writes /\ c.kwrites = s.kwrites
            /\ c.late = s.late /\ c.touched = s.touched
        BY <2>2, <4>1 DEF SocketType
      <4> QED BY <4>2, <4>4, <4>5, <4>6
    <3> QED BY <3>1, <3>2
  <2> HIDE DEF c
  <2>4. Sound(c, r, w)
    BY <2>3 DEF Sound, Counted, Waits, Gone
  <2>5. Once(s) => Once(c)
    BY <2>2, <2>3 DEF Once
  <2>6. /\ Sound(d, r, w) /\ d.reads = 0 /\ d.touched = s.touched
        /\ Once(s) /\ ~again => Once(d) /\ d.disconnects = 1
    <3>1. CASE again
      <4>1. d = HardClose(c)
        BY <3>1
      <4> QED BY <2>2, <2>3, <2>4, <3>1, <4>1, HardCloseSound
    <3>2. CASE ~again
      BY <2>2, <2>3, <2>4, <2>5, <3>2
    <3> QED BY <3>1, <3>2
  <2> HIDE DEF d
  <2>7. CASE d.writes = 0
    <3>1. d \in SocketType /\ w = 0 /\ Counted(d, 0, 0)
      BY <2>2, <2>6, <2>7 DEF Sound, Counted, SocketType
    <3>2. Once(s) /\ ~again => ~d.late /\ d.disconnects = 1
      BY <2>6 DEF Once
    <3> QED BY <2>1, <2>2, <2>6, <2>7, <3>1, <3>2, DeleteSound
  <2>8. CASE d.writes # 0
    BY <2>1, <2>6, <2>8
  <2> QED BY <2>7, <2>8
<1> QED BY <1>1, <1>2

\* requeueRead of a read that is held back.
LEMMA RequeueReadSound ==
    ASSUME NEW s, NEW r \in Nat, NEW w \in Nat, Sound(s, r, w), s.alive,
           s.prereads > 0, NEW again \in BOOLEAN
    PROVE  /\ Sound(RequeueRead(s, again), r, w)
           /\ RequeueRead(s, again).touched = s.touched
           /\ Once(s) /\ ~again => Once(RequeueRead(s, again))
<1>1. /\ s \in SocketType /\ s.prereads - 1 \in Nat
      /\ s.reads + 1 \in Nat /\ s.kreads + 1 \in Nat
  BY DEF Sound, SocketType
<1>2. CASE s.mode = "active"
  <2> DEFINE t == [s EXCEPT !.prereads = @ - 1, !.reads = @ + 1, !.kreads = @ + 1]
  <2>1. RequeueRead(s, again) = t
    BY <1>2 DEF RequeueRead
  <2>2. t \in SocketType
    BY <1>1 DEF SocketType
  <2>3. /\ t.prereads = s.prereads - 1 /\ t.reads = s.reads + 1
        /\ t.kreads = s.kreads + 1 /\ t.mode = s.mode /\ t.alive = s.alive
        /\ t.prewrites = s.prewrites /\ t.writes = s.writes /\ t.kwrites = s.kwrites
        /\ t.told = s.told /\ t.disconnects = s.disconnects /\ t.late = s.late
        /\ t.touched = s.touched
    BY <1>1 DEF SocketType
  <2> HIDE DEF t
  <2>4. Sound(t, r, w)
    BY <1>1, <2>2, <2>3, ConstantsType DEF Sound, Counted, Waits, Gone, SocketType
  <2>5. Once(s) => Once(t)
    BY <1>2, <2>3 DEF Once
  <2> QED BY <2>1, <2>3, <2>4, <2>5
<1>3. CASE s.mode # "active"
  <2> DEFINE t == [s EXCEPT !.prereads = @ - 1]
  <2>1. RequeueRead(s, again) = ReadEnds(t, again)
    BY <1>3 DEF RequeueRead
  <2>2. /\ t \in SocketType /\ t.prereads = s.prereads - 1 /\ t.reads = s.reads
        /\ t.kreads = s.kreads /\ t.mode = s.mode /\ t.alive = s.alive
        /\ t.prewrites = s.prewrites /\ t.writes = s.writes /\ t.kwrites = s.kwrites
        /\ t.told = s.told /\ t.disconnects = s.disconnects /\ t.late = s.late
        /\ t.touched = s.touched
    BY <1>1 DEF SocketType
  <2> HIDE DEF t
  <2>3. Sound(t, r, w) /\ t.alive
    BY <1>1, <2>2, ConstantsType DEF Sound, Counted, Waits, Gone, SocketType
  <2>4. Once(s) => Once(t)
    BY <2>2 DEF Once
  <2> QED BY <2>1, <2>2, <2>3, <2>4, ReadEndsSound
<1> QED BY <1>2, <1>3

\* queueWrites hands over what the send queue has room for.
LEMMA QueueWritesFields ==
    ASSUME NEW s \in SocketType, s.writes <= MaxWrites
    PROVE  /\ QueueWrites(s) \in SocketType
           /\ QueueWrites(s).prewrites + QueueWrites(s).writes = s.prewrites + s.writes
           /\ QueueWrites(s).writes + s.kwrites = s.writes + QueueWrites(s).kwrites
           /\ QueueWrites(s).writes >= s.writes /\ QueueWrites(s).writes <= MaxWrites
           /\ QueueWrites(s).prewrites > 0 => QueueWrites(s).writes = MaxWrites
           /\ \A field \in {"mode", "open", "alive", "prereads", "reads", "kreads", "told",
                            "disconnects", "late", "touched"} :
                QueueWrites(s)[field] = s[field]
<1> DEFINE room == MaxWrites - s.writes
           n == IF s.prewrites < room THEN s.prewrites ELSE room
           q == [s EXCEPT !.prewrites = @ - n, !.writes = @ + n, !.kwrites = @ + n]
<1>1. /\ n \in Nat /\ s.prewrites \in Nat /\ s.writes \in Nat /\ s.kwrites \in Nat
      /\ s.prewrites - n \in Nat /\ s.writes + n \in Nat /\ s.kwrites + n \in Nat
      /\ s.writes + n <= MaxWrites
      /\ s.prewrites - n > 0 => s.writes + n = MaxWrites
  BY ConstantsType DEF SocketType
<1>2. QueueWrites(s) = q
  BY DEF QueueWrites
<1> HIDE DEF n
<1>3. q \in SocketType
  BY <1>1 DEF SocketType
<1>4. q.prewrites = s.prewrites - n /\ q.writes = s.writes + n /\ q.kwrites = s.kwrites + n
  BY DEF SocketType
<1>5. \A field \in {"mode", "open", "alive", "prereads", "reads", "kreads", "told",
                    "disconnects", "late", "touched"} : q[field] = s[field]
  BY DEF SocketType
<1> HIDE DEF q
<1>6. /\ q.prewrites + q.writes = s.prewrites + s.writes
      /\ q.writes + s.kwrites = s.writes + q.kwrites
      /\ q.writes >= s.writes /\ q.writes <= MaxWrites
      /\ q.prewrites > 0 => q.writes = MaxWrites
  BY <1>1, <1>4
<1> QED BY <1>2, <1>3, <1>5, <1>6

\* What a handler or the application writes.
LEMMA PrewriteSound ==
    ASSUME NEW s, NEW r \in Nat, NEW w \in Nat, Sound(s, r, w), s.alive,
           NEW fits \in BOOLEAN, NEW stale \in BOOLEAN
    PROVE  /\ Sound(Prewrite(s, fits, stale), r, w)
           /\ \A field \in {"alive", "prereads", "reads", "kreads",
                            "disconnects", "late", "touched"} :
                Prewrite(s, fits, stale)[field] = s[field]
           /\ ~stale => Prewrite(s, fits, stale).mode = s.mode
           /\ Once(s) => Once(Prewrite(s, fits, stale))
<1>1. CASE s.mode \in {"closing", "closed"}
  BY <1>1 DEF Prewrite
<1>2. CASE s.mode \notin {"closing", "closed"}
  <2> DEFINE waited == s.prewrites > 0
             p == [s EXCEPT !.prewrites = IF waited /\ fits THEN @ ELSE @ + 1]
             q == QueueWrites(p)
             t == [q EXCEPT !.told = TRUE]
  <2>1. /\ s \in SocketType /\ s.mode = "active" /\ s.writes <= MaxWrites
        /\ s.prewrites \in Nat /\ s.writes \in Nat /\ s.kwrites \in Nat
        /\ waited => s.writes = MaxWrites /\ s.told
        /\ ~waited => ~s.told
    BY <1>2 DEF Sound, SocketType, Counted, Waits
  <2>2. /\ p \in SocketType /\ p.writes = s.writes /\ p.kwrites = s.kwrites
        /\ p.prewrites \in Nat /\ (waited => p.prewrites > 0)
    BY <2>1 DEF SocketType
  <2>3. \A field \in {"mode", "open", "alive", "prereads", "reads", "kreads", "told",
                      "disconnects", "late", "touched"} : p[field] = s[field]
    BY <2>1 DEF SocketType
  <2>4. Prewrite(s, fits, stale)
          = CASE q.prewrites > 0 /\ waited /\ ~fits /\ stale -> HardClose(q)
              [] q.prewrites > 0 /\ ~waited -> t
              [] OTHER -> q
    BY <1>2 DEF Prewrite
  <2> HIDE DEF p
  <2>5. /\ q \in SocketType /\ q.prewrites + q.writes = p.prewrites + s.writes
        /\ q.writes + s.kwrites = s.writes + q.kwrites
        /\ q.writes <= MaxWrites /\ q.writes >= s.writes
        /\ q.prewrites > 0 => q.writes = MaxWrites
    BY <2>1, <2>2, QueueWritesFields
  <2>6. \A field \in {"mode", "open", "alive", "prereads", "reads", "kreads", "told",
                      "disconnects", "late", "touched"} : q[field] = s[field]
    BY <2>1, <2>2, <2>3, QueueWritesFields
  <2> HIDE DEF q
  <2>7. q.prewrites \in Nat /\ q.writes \in Nat /\ q.kwrites \in Nat
    BY <2>5 DEF SocketType
  <2>8. Counted(q, r, w)
    BY <2>1, <2>5, <2>6, <2>7 DEF Sound, Counted
  <2>9. ASSUME waited
        PROVE  q.prewrites > 0
    <3>1. s.writes = MaxWrites /\ p.prewrites > 0 /\ p.prewrites \in Nat
      BY <2>1, <2>2, <2>9
    <3>2. q.prewrites + q.writes = p.prewrites + MaxWrites /\ q.writes <= MaxWrites
      BY <2>5, <3>1
    <3> HIDE DEF waited
    <3> QED BY <2>7, <3>1, <3>2, ConstantsType
  <2>10. Once(s) => Once(q)
    BY <2>6 DEF Once
  <2>11. CASE q.prewrites > 0 /\ waited
    <3>1. Sound(q, r, w)
      BY <2>1, <2>5, <2>6, <2>8, <2>11 DEF Sound, Waits, Gone
    <3>2. CASE ~fits /\ stale
      <4>1. Prewrite(s, fits, stale) = HardClose(q)
        BY <2>4, <2>11, <3>2
      <4>2. Once(s) => s.disconnects = 0
        BY <2>1 DEF Once
      <4> DEFINE h == HardClose(q)
      <4>3. /\ Sound(h, r, w)
            /\ \A field \in {"alive", "prereads", "reads", "kreads",
                             "disconnects", "late", "touched"} : h[field] = s[field]
            /\ Once(s) => Once(h)
        BY <2>6, <2>10, <3>1, <4>2, HardCloseSound
      <4> HIDE DEF h
      <4>4. Prewrite(s, fits, stale) = h
        BY <4>1 DEF h
      <4> QED BY <3>2, <4>3, <4>4
    <3>3. CASE ~(~fits /\ stale)
      <4>1. Prewrite(s, fits, stale) = q
        BY <2>4, <2>11, <3>3
      <4> QED BY <2>6, <2>10, <3>1, <4>1
    <3> QED BY <3>2, <3>3
  <2>12. CASE q.prewrites > 0 /\ ~waited
    <3>1. Prewrite(s, fits, stale) = t
      BY <2>4, <2>12
    <3>2. t \in SocketType /\ t.told = TRUE
      BY <2>5 DEF SocketType
    <3>3. \A field \in {"mode", "open", "alive", "prereads", "reads", "kreads",
                        "disconnects", "late", "touched"} : t[field] = s[field]
      BY <2>5, <2>6 DEF SocketType
    <3>4. t.prewrites = q.prewrites /\ t.writes = q.writes /\ t.kwrites = q.kwrites
      BY <2>5 DEF SocketType
    <3> HIDE DEF t
    <3>5. Sound(t, r, w)
      BY <2>1, <2>5, <2>6, <2>8, <2>12, <3>2, <3>3, <3>4 DEF Sound, Counted, Waits, Gone
    <3>6. Once(s) => Once(t)
      BY <3>3 DEF Once
    <3> QED BY <3>1, <3>3, <3>5, <3>6
  <2>13. CASE ~(q.prewrites > 0)
    <3>1. Prewrite(s, fits, stale) = q
      BY <2>4, <2>13
    <3>2. Sound(q, r, w)
      BY <2>1, <2>5, <2>6, <2>8, <2>9, <2>13 DEF Sound, Waits, Gone
    <3> QED BY <2>6, <2>10, <3>1, <3>2
  <2> QED BY <2>11, <2>12, <2>13
<1> QED BY <1>1, <1>2

\* The calls of a handler.
LEMMA CalledSound ==
    ASSUME NEW s, NEW r \in Nat, NEW w \in Nat, Sound(s, r, w), s.alive,
           NEW call, call = "read" => s.prereads > 0
    PROVE  /\ Sound(Called(s, call), r, w)
           /\ Called(s, call).touched = s.touched
           /\ call # "read" =>
                \A field \in {"alive", "prereads", "reads", "kreads", "disconnects", "late"} :
                    Called(s, call)[field] = s[field]
           /\ call \notin {"disconnect", "read"} => Called(s, call).mode = s.mode
           /\ Once(s) /\ (call = "disconnect" => s.disconnects = 0)
                => Once(Called(s, call))
<1>1. CASE call = "write"
  <2>1. Called(s, call) = Prewrite(s, FALSE, FALSE)
    BY <1>1 DEF Called
  <2> DEFINE t == Prewrite(s, FALSE, FALSE)
  <2>2. /\ Sound(t, r, w)
        /\ \A field \in {"alive", "prereads", "reads", "kreads",
                         "disconnects", "late", "touched"} : t[field] = s[field]
        /\ t.mode = s.mode
        /\ Once(s) => Once(t)
    BY PrewriteSound
  <2> HIDE DEF t
  <2> QED BY <1>1, <2>1, <2>2 DEF t
<1>2. CASE call = "disconnect"
  <2>1. Called(s, call) = HardClose(s)
    BY <1>2 DEF Called
  <2> QED BY <1>2, <2>1, HardCloseSound
<1>3. CASE call = "read"
  <2>1. Called(s, call) = RequeueRead(s, FALSE)
    BY <1>3 DEF Called
  <2> QED BY <1>3, <2>1, RequeueReadSound
<1>4. CASE call \notin {"write", "disconnect", "read"}
  BY <1>4 DEF Called
<1> QED BY <1>1, <1>2, <1>3, <1>4

\* Whose result is among the results is alive.
LEMMA NotGone ==
    ASSUME NEW s, NEW r \in Nat, NEW w \in Nat, Sound(s, r, w), r > 0 \/ w > 0
    PROVE  /\ s.alive
           /\ r > 0 => s.reads > 0 /\ (Once(s) => s.disconnects = 0)
BY DEF Sound, SocketType, Counted, Gone, Once

\* A read that is done is no longer pending.
LEMMA ReadDone ==
    ASSUME NEW s, NEW r \in Nat, NEW w \in Nat, Sound(s, r, w), r > 0
    PROVE  /\ Sound([s EXCEPT !.reads = @ - 1], r - 1, w)
           /\ [s EXCEPT !.reads = @ - 1].alive
           /\ [s EXCEPT !.reads = @ - 1].touched = s.touched
           /\ Once(s) => Once([s EXCEPT !.reads = @ - 1])
<1> DEFINE t == [s EXCEPT !.reads = @ - 1]
<1>1. s.alive /\ s.reads > 0 /\ s \in SocketType /\ s.reads - 1 \in Nat
  BY NotGone DEF Sound, SocketType
<1>2. t \in SocketType /\ t.reads = s.reads - 1
  BY <1>1 DEF SocketType
<1>3. \A field \in {"mode", "alive", "prereads", "kreads", "prewrites", "writes", "kwrites",
                    "told", "disconnects", "late", "touched"} : t[field] = s[field]
  BY <1>1 DEF SocketType
<1> HIDE DEF t
<1>4. Sound(t, r - 1, w)
  BY <1>1, <1>2, <1>3, ConstantsType DEF Sound, Counted, Waits, Gone, SocketType
<1>5. Once(s) => Once(t)
  BY <1>1, <1>2, <1>3 DEF Once
<1> QED BY <1>1, <1>3, <1>4, <1>5 DEF t

\* onRead of a read with bytes.
LEMMA OnDataSound ==
    ASSUME NEW s, NEW r \in Nat, NEW w \in Nat, Sound(s, r, w), r > 0,
           NEW call, call # "read", NEW more \in BOOLEAN, NEW again \in BOOLEAN
    PROVE  /\ Sound(OnData(s, call, more, again), r - 1, w)
           /\ OnData(s, call, more, again).touched = s.touched
           /\ Once(s) /\ ~again => Once(OnData(s, call, more, again))
<1> DEFINE l == [s EXCEPT !.late = @ \/ s.disconnects > 0]
           c == Called(l, call)
           held == [c EXCEPT !.reads = @ - 1, !.prereads = @ + 1]
           next == [c EXCEPT !.kreads = @ + 1]
           done == [c EXCEPT !.reads = @ - 1]
<1>1. s.alive /\ s.reads > 0 /\ s \in SocketType /\ (Once(s) => s.disconnects = 0)
  BY NotGone DEF Sound
<1>2. l \in SocketType
  BY <1>1 DEF SocketType
<1>3. \A field \in {"mode", "alive", "prereads", "reads", "kreads", "prewrites", "writes",
                    "kwrites", "told", "disconnects", "touched"} : l[field] = s[field]
  BY <1>1 DEF SocketType
<1>4. Once(s) => ~l.late
  BY <1>1 DEF SocketType, Once
<1>5. OnData(s, call, more, again)
        = CASE ~more -> held
            [] more /\ c.mode = "active" -> next
            [] OTHER -> ReadEnds(done, again)
  BY DEF OnData
<1> HIDE DEF l
<1>6. Sound(l, r, w) /\ l.alive /\ (Once(s) => Once(l) /\ l.disconnects = 0)
  BY <1>1, <1>2, <1>3, <1>4 DEF Sound, Counted, Waits, Gone, Once
<1>7. /\ Sound(c, r, w) /\ c.touched = s.touched
      /\ \A field \in {"alive", "prereads", "reads", "kreads", "disconnects", "late"} :
            c[field] = l[field]
      /\ Once(s) => Once(c)
  BY <1>3, <1>6, CalledSound
<1> HIDE DEF c
<1>8. /\ c \in SocketType /\ c.alive /\ c.reads > 0
      /\ c.reads - 1 \in Nat /\ c.prereads + 1 \in Nat /\ c.kreads + 1 \in Nat
  BY <1>7, NotGone DEF Sound, SocketType
<1>9. CASE ~more
  <2>1. held \in SocketType
    BY <1>8 DEF SocketType
  <2>2. held.reads = c.reads - 1 /\ held.prereads = c.prereads + 1
    BY <1>8 DEF SocketType
  <2>3. \A field \in {"mode", "alive", "kreads", "prewrites", "writes", "kwrites",
                      "told", "disconnects", "late", "touched"} : held[field] = c[field]
    BY <1>8 DEF SocketType
  <2>4. OnData(s, call, more, again) = held
    BY <1>5, <1>9
  <2> HIDE DEF held
  <2>5. Sound(held, r - 1, w)
    BY <1>7, <1>8, <2>1, <2>2, <2>3, ConstantsType DEF Sound, Counted, Waits, Gone, SocketType
  <2>6. Once(c) => Once(held)
    BY <1>8, <2>2, <2>3 DEF Once
  <2> QED BY <1>7, <2>3, <2>4, <2>5, <2>6
<1>10. CASE more /\ c.mode = "active"
  <2>1. next \in SocketType
    BY <1>8 DEF SocketType
  <2>2. next.kreads = c.kreads + 1
    BY <1>8 DEF SocketType
  <2>3. \A field \in {"mode", "alive", "prereads", "reads", "prewrites", "writes", "kwrites",
                      "told", "disconnects", "late", "touched"} : next[field] = c[field]
    BY <1>8 DEF SocketType
  <2>4. OnData(s, call, more, again) = next
    BY <1>5, <1>10
  <2> HIDE DEF next
  <2>5. Sound(next, r - 1, w)
    BY <1>7, <1>8, <2>1, <2>2, <2>3, ConstantsType DEF Sound, Counted, Waits, Gone, SocketType
  <2>6. Once(c) => Once(next)
    BY <2>3 DEF Once
  <2> QED BY <1>7, <2>3, <2>4, <2>5, <2>6
<1>11. CASE more /\ c.mode # "active"
  <2>1. OnData(s, call, more, again) = ReadEnds(done, again)
    BY <1>5, <1>11
  <2>2. /\ Sound(done, r - 1, w) /\ done.alive /\ done.touched = c.touched
        /\ Once(c) => Once(done)
    BY <1>7, ReadDone
  <2> HIDE DEF done
  <2>3. r - 1 \in Nat
    OBVIOUS
  <2> QED BY <1>7, <2>1, <2>2, <2>3, ReadEndsSound
<1> QED BY <1>9, <1>10, <1>11

\* onRead of a read without bytes.
LEMMA OnNoDataSound ==
    ASSUME NEW s, NEW r \in Nat, NEW w \in Nat, Sound(s, r, w), r > 0,
           NEW again \in BOOLEAN
    PROVE  /\ Sound(OnNoData(s, again), r - 1, w)
           /\ OnNoData(s, again).touched = s.touched
           /\ Once(s) /\ ~again => Once(OnNoData(s, again))
<1> DEFINE t == [s EXCEPT !.reads = @ - 1]
<1>1. OnNoData(s, again) = ReadEnds(t, again)
  BY DEF OnNoData
<1>2. /\ Sound(t, r - 1, w) /\ t.alive /\ t.touched = s.touched
      /\ Once(s) => Once(t)
  BY ReadDone
<1> HIDE DEF t
<1>3. r - 1 \in Nat
  OBVIOUS
<1> QED BY <1>1, <1>2, <1>3, ReadEndsSound

\* onWrite.
LEMMA OnWriteSound ==
    ASSUME NEW s, NEW r \in Nat, NEW w \in Nat, Sound(s, r, w), w > 0,
           NEW call, call = "read" => s.prereads > 0
    PROVE  /\ Sound(OnWrite(s, call), r, w - 1)
           /\ OnWrite(s, call).touched = s.touched
           /\ Once(s) /\ (call = "disconnect" => s.disconnects = 0)
                => Once(OnWrite(s, call))
<1> DEFINE x == [s EXCEPT !.writes = @ - 1]
           q == QueueWrites(x)
           t == [q EXCEPT !.told = FALSE]
<1>1. /\ s.alive /\ s \in SocketType /\ s.writes - 1 \in Nat /\ s.writes \in Nat
      /\ s.kwrites \in Nat /\ s.prewrites \in Nat /\ s.writes = s.kwrites + w
      /\ s.writes <= MaxWrites /\ (s.prewrites > 0 => s.writes = MaxWrites)
      /\ (s.mode = "active" => (s.told <=> s.prewrites > 0))
  BY NotGone DEF Sound, SocketType, Counted, Waits
<1>2. x \in SocketType /\ x.writes = s.writes - 1
  BY <1>1 DEF SocketType
<1>12. x.writes <= MaxWrites
  BY <1>1, <1>2, ConstantsType
<1>3. \A field \in {"mode", "open", "alive", "prereads", "reads", "kreads", "prewrites",
                    "kwrites", "told", "disconnects", "late", "touched"} : x[field] = s[field]
  BY <1>1 DEF SocketType
<1>4. OnWrite(s, call)
        = IF x.mode = "closed" /\ x.reads = 0 /\ x.writes = 0 THEN Delete(x)
          ELSE IF (s.prewrites > 0 /\ q.prewrites = 0) \/ q.writes = 0
               THEN Called(t, call)
          ELSE q
  BY DEF OnWrite
<1> HIDE DEF x
<1>5. w - 1 \in Nat
  OBVIOUS
<1>6. CASE x.mode = "closed" /\ x.reads = 0 /\ x.writes = 0
  <2>1. OnWrite(s, call) = Delete(x)
    BY <1>4, <1>6
  <2>2. s.reads = 0 /\ r = 0 /\ w = 1 /\ Counted(x, 0, 0)
    <3>1. s.reads = 0 /\ s.writes = 1 /\ s.kwrites \in Nat /\ s.kreads \in Nat
      BY <1>1, <1>2, <1>3, <1>6 DEF SocketType
    <3>2. s.reads = s.kreads + r /\ s.writes = s.kwrites + w /\ s.prereads + s.reads <= MaxReads
      BY DEF Sound, Counted
    <3>3. r = 0 /\ s.kreads = 0
      BY <3>1, <3>2
    <3>4. w = 1 /\ s.kwrites = 0
      <4>1. \A a, b \in Nat : a + b = 1 /\ b > 0 => a = 0 /\ b = 1
        OBVIOUS
      <4>2. s.kwrites + w = 1
        BY <3>1, <3>2
      <4> QED BY <3>1, <4>1, <4>2
    <3> QED BY <1>3, <1>6, <3>1, <3>2, <3>3, <3>4, ConstantsType DEF Counted
  <2>3. Once(s) => ~x.late /\ x.disconnects = 1
    BY <1>1, <1>3, <1>6 DEF Once
  <2>4. /\ Sound(Delete(x), 0, 0) /\ Delete(x).touched = s.touched
        /\ Once(s) => Once(Delete(x))
    BY <1>2, <1>3, <1>6, <2>2, <2>3, DeleteSound
  <2> QED BY <2>1, <2>2, <2>4
<1>7. CASE ~(x.mode = "closed" /\ x.reads = 0 /\ x.writes = 0)
  <2>1. /\ q \in SocketType /\ q.prewrites + q.writes = s.prewrites + (s.writes - 1)
        /\ q.writes + s.kwrites = (s.writes - 1) + q.kwrites
        /\ q.writes <= MaxWrites /\ q.writes >= s.writes - 1
        /\ q.prewrites > 0 => q.writes = MaxWrites
    <3>1. x.writes = s.writes - 1 /\ x.prewrites = s.prewrites /\ x.kwrites = s.kwrites
      BY <1>2, <1>3
    <3>2. /\ q \in SocketType /\ q.prewrites + q.writes = x.prewrites + x.writes
          /\ q.writes + x.kwrites = x.writes + q.kwrites
          /\ q.writes <= MaxWrites /\ q.writes >= x.writes
          /\ q.prewrites > 0 => q.writes = MaxWrites
      BY <1>2, <1>12, QueueWritesFields
    <3> QED BY <3>1, <3>2
  <2>2. \A field \in {"mode", "open", "alive", "prereads", "reads", "kreads", "told",
                      "disconnects", "late", "touched"} : q[field] = s[field]
    <3>1. \A field \in {"mode", "open", "alive", "prereads", "reads", "kreads", "told",
                        "disconnects", "late", "touched"} : q[field] = x[field]
      BY <1>2, <1>12, QueueWritesFields
    <3> QED BY <1>3, <3>1
  <2> HIDE DEF q
  <2>3. q.prewrites \in Nat /\ q.writes \in Nat /\ q.kwrites \in Nat
    BY <2>1 DEF SocketType
  <2>4. Counted(q, r, w - 1)
    BY <1>1, <2>1, <2>2, <2>3 DEF Sound, Counted
  <2>5. s.prewrites = 0 => q.prewrites = 0
    BY <1>1, <2>1, <2>3, ConstantsType
  <2>6. CASE (s.prewrites > 0 /\ q.prewrites = 0) \/ q.writes = 0
    <3>1. OnWrite(s, call) = Called(t, call)
      BY <1>4, <1>7, <2>6
    <3>2. t \in SocketType /\ t.told = FALSE
      BY <2>1 DEF SocketType
    <3>3. \A field \in {"mode", "alive", "prereads", "reads", "kreads",
                        "disconnects", "late", "touched"} : t[field] = s[field]
      BY <2>1, <2>2 DEF SocketType
    <3>4. t.prewrites = q.prewrites /\ t.writes = q.writes /\ t.kwrites = q.kwrites
      BY <2>1 DEF SocketType
    <3>5. q.prewrites = 0
      BY <2>1, <2>3, <2>6, ConstantsType
    <3> HIDE DEF t
    <3>6. Sound(t, r, w - 1) /\ t.alive
      BY <1>1, <2>2, <2>4, <3>2, <3>3, <3>4, <3>5 DEF Sound, Counted, Waits, Gone
    <3>7. Once(s) => Once(t)
      BY <3>3 DEF Once
    <3>8. (call = "read" => t.prereads > 0) /\ t.disconnects = s.disconnects
      BY <3>3
    <3> QED BY <1>5, <3>1, <3>3, <3>6, <3>7, <3>8, CalledSound
  <2>7. CASE ~((s.prewrites > 0 /\ q.prewrites = 0) \/ q.writes = 0)
    <3>1. OnWrite(s, call) = q
      BY <1>4, <1>7, <2>7
    <3>2. q.prewrites > 0 <=> s.prewrites > 0
      BY <1>1, <2>3, <2>5, <2>7
    <3>3. Sound(q, r, w - 1)
      BY <1>1, <2>1, <2>2, <2>4, <3>2 DEF Sound, Waits, Gone
    <3>4. Once(s) => Once(q)
      BY <2>2 DEF Once
    <3> QED BY <2>2, <3>1, <3>3, <3>4
  <2> QED BY <2>6, <2>7
<1> QED BY <1>6, <1>7

\* The handler of the connection returns, and the reads are queued, all of
\* them or, to end the connection, none.
LEMMA RequeuedSound ==
    ASSUME NEW s, Sound(s, 0, 0), s.alive, s.reads = 0
    PROVE  /\ Sound(Requeued(s), 0, 0)
           /\ Once(s) => Once(Requeued(s))
           /\ s.mode = "active" => Requeued(s).touched = s.touched
<1>1. s \in SocketType
  BY DEF Sound
<1>2. s.kreads = 0
  BY <1>1 DEF Sound, Counted, SocketType
<1>3. CASE s.mode = "active"
  <2> DEFINE t == [s EXCEPT !.prereads = 0, !.reads = MaxReads, !.kreads = MaxReads]
  <2>1. Requeued(s) = t
    BY <1>3 DEF Requeued
  <2>2. t \in SocketType
    BY <1>1, ConstantsType DEF SocketType
  <2>3. t.prereads = 0 /\ t.reads = MaxReads /\ t.kreads = MaxReads
    BY <1>1 DEF SocketType
  <2>4. \A field \in {"mode", "alive", "prewrites", "writes", "kwrites",
                      "told", "disconnects", "late", "touched"} : t[field] = s[field]
    BY <1>1 DEF SocketType
  <2> HIDE DEF t
  <2>5. Sound(t, 0, 0)
    BY <2>2, <2>3, <2>4, ConstantsType DEF Sound, Counted, Waits, Gone
  <2>6. Once(s) => Once(t)
    BY <1>3, <2>4 DEF Once
  <2> QED BY <2>1, <2>4, <2>5, <2>6
<1>4. CASE s.mode # "active"
  <2> DEFINE p == [s EXCEPT !.prereads = 1]
             q == RequeueRead(p, FALSE)
             t == [q EXCEPT !.touched = @ \/ ~q.alive]
  <2>1. Requeued(s) = t
    BY <1>4 DEF Requeued, Touch
  <2>2. p \in SocketType /\ p.prereads = 1
    BY <1>1 DEF SocketType
  <2>3. \A field \in {"mode", "alive", "reads", "kreads", "prewrites", "writes", "kwrites",
                      "told", "disconnects", "late", "touched"} : p[field] = s[field]
    BY <1>1 DEF SocketType
  <2> HIDE DEF p
  <2>4. Sound(p, 0, 0) /\ p.alive /\ (Once(s) => Once(p))
    BY <1>2, <2>2, <2>3, ConstantsType DEF Sound, Counted, Waits, Gone, Once
  <2>5. Sound(q, 0, 0) /\ (Once(s) => Once(q))
    <3>1. p.prereads > 0 /\ FALSE \in BOOLEAN /\ 0 \in Nat
      BY <2>2
    <3> QED BY <2>4, <3>1, RequeueReadSound
  <2> HIDE DEF q
  <2>6. t \in SocketType
    BY <2>5 DEF Sound, SocketType
  <2>7. \A field \in {"mode", "alive", "prereads", "reads", "kreads", "prewrites", "writes",
                      "kwrites", "told", "disconnects", "late"} : t[field] = q[field]
    BY <2>5 DEF Sound, SocketType
  <2> HIDE DEF t
  <2>8. Sound(t, 0, 0)
    BY <2>5, <2>6, <2>7 DEF Sound, Counted, Waits, Gone
  <2>9. Once(q) => Once(t)
    BY <2>7 DEF Once
  <2> QED BY <1>4, <2>1, <2>5, <2>8, <2>9
<1> QED BY <1>3, <1>4

\* Whoever uses the object changes nothing else.
LEMMA TouchSound ==
    ASSUME NEW s, NEW r, NEW w, Sound(s, r, w)
    PROVE  /\ Sound(Touch(s), r, w)
           /\ Touch(s).alive = s.alive
           /\ s.alive => Touch(s).touched = s.touched
           /\ Once(s) => Once(Touch(s))
<1> DEFINE t == [s EXCEPT !.touched = @ \/ ~s.alive]
<1>1. t \in SocketType
  BY DEF Sound, SocketType
<1>2. \A field \in {"mode", "alive", "prereads", "reads", "kreads", "prewrites", "writes",
                    "kwrites", "told", "disconnects", "late"} : t[field] = s[field]
  BY DEF Sound, SocketType
<1>3. s.alive => t.touched = s.touched
  BY DEF Sound, SocketType
<1>4. Touch(s) = t
  BY DEF Touch
<1> HIDE DEF t
<1>5. Sound(t, r, w)
  BY <1>1, <1>2 DEF Sound, Counted, Waits, Gone
<1>6. Once(s) => Once(t)
  BY <1>2 DEF Once
<1> QED BY <1>2, <1>3, <1>4, <1>5, <1>6

-----------------------------------------------------------------------------
(***************************************************************************)
(* The inductive invariant.                                                *)
(***************************************************************************)
Reads == {"data", "none"}
Writes == {"write"}

\* onTask holds results only while it runs, and none exist before the reads
\* are queued.
StagesOK ==
    /\ pc \in {"connect", "idle", "task"}
    /\ pc # "task" => batch = <<>>
    /\ pc = "connect" => sock = NewSocket /\ queue = <<>>

QueuesOK == queue \in Seq(Result) /\ batch \in Seq(Result) /\ ready \in BOOLEAN /\ peer \in BOOLEAN

SocketIInv == Sound(sock, InQueues(Reads), InQueues(Writes)) /\ StagesOK /\ QueuesOK

\* Applications that neither refuse a connection nor read on from inside of
\* onSocketBufferChanged: while onTask runs the object is there.
Untouched == ~sock.touched /\ (pc = "task" => sock.alive)

LEMMA NothingCounted ==
    ASSUME NEW kinds
    PROVE  CountOf(<<>>, kinds) = 0
<1>1. {i \in DOMAIN <<>> : <<>>[i] \in kinds} = {}
  OBVIOUS
<1> QED BY <1>1, FS_EmptySet DEF CountOf

LEMMA InQueuesType ==
    ASSUME QueuesOK, NEW kinds
    PROVE  /\ CountOf(queue, kinds) \in Nat /\ CountOf(batch, kinds) \in Nat
           /\ InQueues(kinds) \in Nat
<1>1. CountOf(queue, kinds) \in Nat /\ CountOf(batch, kinds) \in Nat
  BY CountType DEF QueuesOK
<1> QED BY <1>1 DEF InQueues

\* A new socket has no requests.
LEMMA NewSocketSound == Sound(NewSocket, 0, 0) /\ Once(NewSocket)
<1>1. NewSocket \in SocketType
  BY ConstantsType DEF NewSocket, SocketType
<1>2. Counted(NewSocket, 0, 0) /\ Waits(NewSocket) /\ Gone(NewSocket) /\ Once(NewSocket)
  BY ConstantsType DEF NewSocket, Counted, Waits, Gone, Once
<1> QED BY <1>1, <1>2 DEF Sound

LEMMA InitIInv == Init => SocketIInv /\ Once(sock) /\ Untouched
<1> SUFFICES ASSUME Init
             PROVE  SocketIInv /\ Once(sock) /\ Untouched
  OBVIOUS
<1>1. sock = NewSocket /\ queue = <<>> /\ batch = <<>> /\ pc = "connect"
  BY DEF Init
<1>2. InQueues(Reads) = 0 /\ InQueues(Writes) = 0
  BY <1>1, NothingCounted DEF InQueues
<1>3. Sound(sock, InQueues(Reads), InQueues(Writes)) /\ Once(sock)
  BY <1>1, <1>2, NewSocketSound
<1>4. StagesOK /\ QueuesOK /\ Untouched
  <2>1. ready \in BOOLEAN /\ peer \in BOOLEAN
    BY DEF Init
  <2>2. sock.touched = FALSE
    BY <1>1 DEF NewSocket
  <2> QED BY <1>1, <2>1, <2>2 DEF StagesOK, QueuesOK, Untouched
<1> QED BY <1>3, <1>4 DEF SocketIInv

\* A step that leaves the queues alone and the object sound.
LEMMA QuietStep ==
    ASSUME SocketIInv, UNCHANGED <<queue, batch>>, peer' \in BOOLEAN, ready' \in BOOLEAN,
           Sound(sock', InQueues(Reads), InQueues(Writes)),
           pc' \in {"connect", "idle", "task"}, pc' # "task" => batch = <<>>,
           pc' = "connect" => sock' = NewSocket /\ queue = <<>>
    PROVE  SocketIInv'
<1>1. InQueues(Reads)' = InQueues(Reads) /\ InQueues(Writes)' = InQueues(Writes)
  BY DEF InQueues
<1>2. Sound(sock, InQueues(Reads), InQueues(Writes))'
  BY <1>1
<1> QED BY <1>2 DEF SocketIInv, StagesOK, QueuesOK

LEMMA ConnectedStep ==
    ASSUME SocketIInv, Connected
    PROVE  /\ SocketIInv'
           /\ Once(sock) => Once(sock)'
           /\ Untouched /\ "refuse" \notin Habits => Untouched'
<1>1. /\ sock = NewSocket /\ queue = <<>> /\ batch = <<>> /\ pc' = "idle"
      /\ ready' = TRUE /\ peer' = peer /\ queue' = queue /\ batch' = batch
  BY DEF Connected, SocketIInv, StagesOK
<1>2. PICK call \in Calls(sock) :
        /\ call = "disconnect" => "refuse" \in Habits
        /\ sock' = Requeued(Called(sock, call))
  BY DEF Connected
<1> DEFINE c == Called(sock, call)
<1>3. /\ Sound(sock, 0, 0) /\ Once(sock) /\ sock.alive /\ sock.disconnects = 0
      /\ sock.reads = 0 /\ sock.mode = "active" /\ sock.touched = FALSE
  BY <1>1, NewSocketSound DEF NewSocket
<1>4. call # "read"
  BY <1>2 DEF Calls
<1>5. /\ Sound(c, 0, 0) /\ c.touched = sock.touched /\ Once(c)
      /\ c.alive = sock.alive /\ c.reads = sock.reads
      /\ call # "disconnect" => c.mode = sock.mode
  <2>1. /\ Sound(c, 0, 0) /\ c.touched = sock.touched
        /\ \A field \in {"alive", "prereads", "reads", "kreads", "disconnects", "late"} :
              c[field] = sock[field]
        /\ call \notin {"disconnect", "read"} => c.mode = sock.mode
        /\ Once(c)
    BY <1>3, <1>4, CalledSound
  <2> HIDE DEF c
  <2>2. c["alive"] = sock["alive"] /\ c["reads"] = sock["reads"]
    BY <2>1
  <2> QED BY <1>4, <2>1, <2>2
<1> HIDE DEF c
<1>6. /\ Sound(Requeued(c), 0, 0) /\ Once(Requeued(c))
      /\ c.mode = "active" => Requeued(c).touched = c.touched
  BY <1>3, <1>5, RequeuedSound
<1>7. sock' = Requeued(c)
  BY <1>2 DEF c
<1>8. InQueues(Reads) = 0 /\ InQueues(Writes) = 0
  BY <1>1, NothingCounted DEF InQueues
<1>9. SocketIInv'
  <2>1. peer' \in BOOLEAN /\ ready' \in BOOLEAN
    BY <1>1 DEF SocketIInv, QueuesOK
  <2>2. Sound(sock', InQueues(Reads), InQueues(Writes))
    BY <1>6, <1>7, <1>8
  <2> QED BY <1>1, <2>1, <2>2, QuietStep
<1>10. ASSUME "refuse" \notin Habits
       PROVE  Untouched'
  <2>1. c.mode = "active"
    BY <1>2, <1>3, <1>5, <1>10
  <2>2. sock'.touched = FALSE
    BY <1>3, <1>5, <1>6, <1>7, <2>1
  <2> QED BY <1>1, <2>2 DEF Untouched
<1> QED BY <1>6, <1>7, <1>9, <1>10

LEMMA TaskBeginStep ==
    ASSUME SocketIInv, TaskBegin
    PROVE  SocketIInv' /\ sock' = sock
<1> DEFINE n == IF Len(queue) < MaxResults THEN Len(queue) ELSE MaxResults
           b == SubSeq(queue, 1, n)
           q == SubSeq(queue, n + 1, Len(queue))
<1>1. /\ pc = "idle" /\ batch' = b /\ queue' = q /\ pc' = "task" /\ ready' = FALSE
      /\ sock' = sock /\ peer' = peer
  BY DEF TaskBegin
<1>2. queue \in Seq(Result) /\ batch = <<>> /\ peer \in BOOLEAN
  BY <1>1 DEF SocketIInv, StagesOK, QueuesOK
<1>3. n \in Nat /\ n <= Len(queue)
  BY <1>2, ConstantsType
<1> HIDE DEF n
<1>4. b \in Seq(Result) /\ q \in Seq(Result)
  BY <1>2, <1>3, CountCut
<1>5. ASSUME NEW kinds
      PROVE  InQueues(kinds)' = InQueues(kinds)
  <2>1. CountOf(queue, kinds) = CountOf(b, kinds) + CountOf(q, kinds)
    BY <1>2, <1>3, CountCut
  <2> HIDE DEF b, q
  <2>2. CountOf(b, kinds) \in Nat /\ CountOf(q, kinds) \in Nat
    BY <1>4, CountType
  <2>3. InQueues(kinds)' = CountOf(q, kinds) + CountOf(b, kinds)
    BY <1>1 DEF InQueues
  <2>4. InQueues(kinds) = CountOf(queue, kinds)
    BY <1>2, <2>1, <2>2, NothingCounted DEF InQueues
  <2> QED BY <2>1, <2>2, <2>3, <2>4
<1>6. InQueues(Reads)' = InQueues(Reads) /\ InQueues(Writes)' = InQueues(Writes)
  BY <1>5
<1> HIDE DEF b, q
<1>7. Sound(sock, InQueues(Reads), InQueues(Writes))'
  BY <1>1, <1>6 DEF SocketIInv
<1>8. StagesOK' /\ QueuesOK'
  BY <1>1, <1>2, <1>4 DEF StagesOK, QueuesOK
<1> QED BY <1>1, <1>7, <1>8 DEF SocketIInv

\* The counts after a result has been looked at.
Left(kinds) == CountOf(queue, kinds) + CountOf(Tail(batch), kinds)

LEMMA LeftType ==
    ASSUME QueuesOK, batch # <<>>
    PROVE  /\ Tail(batch) \in Seq(Result) /\ Head(batch) \in Result
           /\ Left(Reads) \in Nat /\ Left(Writes) \in Nat
           /\ Head(batch) \in Reads =>
                /\ Left(Reads) = InQueues(Reads) - 1 /\ Left(Writes) = InQueues(Writes)
           /\ Head(batch) = "write" =>
                /\ Left(Reads) = InQueues(Reads) /\ Left(Writes) = InQueues(Writes) - 1
<1>1. batch \in Seq(Result) /\ queue \in Seq(Result)
  BY DEF QueuesOK
<1>2. Tail(batch) \in Seq(Result) /\ Head(batch) \in Result
  BY <1>1
<1>3. ASSUME NEW kinds
      PROVE  /\ Left(kinds) \in Nat
             /\ InQueues(kinds) = (IF Head(batch) \in kinds THEN 1 ELSE 0) + Left(kinds)
  <2>1. CountOf(queue, kinds) \in Nat /\ CountOf(Tail(batch), kinds) \in Nat
    BY <1>1, <1>2, CountType
  <2>2. CountOf(batch, kinds)
          = (IF Head(batch) \in kinds THEN 1 ELSE 0) + CountOf(Tail(batch), kinds)
    BY <1>1, CountTail
  <2> QED BY <2>1, <2>2 DEF Left, InQueues
<1>4. /\ Left(Reads) \in Nat /\ Left(Writes) \in Nat
      /\ InQueues(Reads) = (IF Head(batch) \in Reads THEN 1 ELSE 0) + Left(Reads)
      /\ InQueues(Writes) = (IF Head(batch) \in Writes THEN 1 ELSE 0) + Left(Writes)
  BY <1>3
<1>5. Head(batch) \in Reads => Head(batch) \notin Writes
  BY DEF Reads, Writes
<1>6. Head(batch) = "write" => Head(batch) \in Writes /\ Head(batch) \notin Reads
  BY DEF Reads, Writes
<1>7. Head(batch) \in Reads =>
        /\ Left(Reads) = InQueues(Reads) - 1 /\ Left(Writes) = InQueues(Writes)
  BY <1>4, <1>5
<1>8. Head(batch) = "write" =>
        /\ Left(Reads) = InQueues(Reads) /\ Left(Writes) = InQueues(Writes) - 1
  BY <1>4, <1>6
<1> QED BY <1>2, <1>4, <1>7, <1>8

\* When the object is gone, so are its results.
LEMMA GoneIsDone ==
    ASSUME NEW s, NEW q \in Seq(Result), NEW b \in Seq(Result), ~s.alive,
           Sound(s, CountOf(q, Reads) + CountOf(b, Reads), CountOf(q, Writes) + CountOf(b, Writes))
    PROVE  s.reads = 0 /\ s.writes = 0 /\ q = <<>> /\ b = <<>>
<1>1. /\ CountOf(q, Reads) \in Nat /\ CountOf(b, Reads) \in Nat
      /\ CountOf(q, Writes) \in Nat /\ CountOf(b, Writes) \in Nat
  BY CountType
<1>2. s.reads = 0 /\ s.writes = 0 /\ s.kreads \in Nat /\ s.kwrites \in Nat
  BY DEF Sound, Gone, SocketType
<1>3. /\ s.reads = s.kreads + (CountOf(q, Reads) + CountOf(b, Reads))
      /\ s.writes = s.kwrites + (CountOf(q, Writes) + CountOf(b, Writes))
  BY DEF Sound, Counted
<1>4. /\ CountOf(q, Reads) = 0 /\ CountOf(b, Reads) = 0
      /\ CountOf(q, Writes) = 0 /\ CountOf(b, Writes) = 0
  BY <1>1, <1>2, <1>3
<1> QED BY <1>2, <1>4, CountNone DEF Reads, Writes

\* onTask goes on to the next result if there is one.
LEMMA HandleResultStep ==
    ASSUME SocketIInv, batch # <<>>, pc = "task", NEW s, HandleResult(s),
           Sound(s, Left(Reads), Left(Writes))
    PROVE  /\ SocketIInv' /\ sock' = s
           /\ ~s.touched => Untouched'
<1>1. QueuesOK
  BY DEF SocketIInv
<1>2. Tail(batch) \in Seq(Result) /\ queue \in Seq(Result)
  BY <1>1, LeftType DEF QueuesOK
<1>3. /\ sock' = s /\ queue' = queue /\ ready' = ready /\ peer' = peer
      /\ pc' = (IF s.alive \/ s.touched THEN "task" ELSE "idle")
      /\ batch' = (IF s.alive \/ s.touched THEN Tail(batch) ELSE <<>>)
  BY DEF HandleResult
<1>4. batch' = Tail(batch)
  <2>1. CASE s.alive
    BY <1>3, <2>1
  <2>2. CASE ~s.alive
    <3>1. Tail(batch) = <<>>
      BY <1>2, <2>2, GoneIsDone DEF Left
    <3> QED BY <1>3, <3>1
  <2> QED BY <2>1, <2>2
<1>5. InQueues(Reads)' = Left(Reads) /\ InQueues(Writes)' = Left(Writes)
  BY <1>3, <1>4 DEF InQueues, Left
<1>6. Sound(sock, InQueues(Reads), InQueues(Writes))'
  BY <1>3, <1>5
<1>7. QueuesOK'
  BY <1>1, <1>2, <1>3, <1>4 DEF QueuesOK
<1>8. StagesOK'
  BY <1>3 DEF StagesOK
<1>9. ~s.touched => Untouched'
  BY <1>3 DEF Untouched
<1> QED BY <1>3, <1>6, <1>7, <1>8, <1>9 DEF SocketIInv

LEMMA TaskReadStep ==
    ASSUME SocketIInv, TaskRead
    PROVE  /\ SocketIInv'
           /\ Once(sock) /\ "again" \notin Habits => Once(sock)'
           /\ Untouched => Untouched'
<1>1. pc = "task" /\ batch # <<>> /\ QueuesOK
  BY DEF TaskRead, SocketIInv
<1>2. PICK again \in BOOLEAN :
        /\ Disconnects(again)
        /\ \/ /\ Head(batch) = "data"
              /\ \E call \in Calls(sock), more \in BOOLEAN :
                    HandleResult(OnData(sock, call, more, again))
           \/ /\ Head(batch) = "none"
              /\ HandleResult(OnNoData(sock, again))
  BY DEF TaskRead
<1>3. "again" \notin Habits => ~again
  BY <1>2 DEF Disconnects
<1>4. /\ Left(Reads) = InQueues(Reads) - 1 /\ Left(Writes) = InQueues(Writes)
      /\ InQueues(Reads) \in Nat /\ InQueues(Writes) \in Nat /\ InQueues(Reads) > 0
  <2>1. Head(batch) \in Reads
    BY <1>2 DEF Reads
  <2>2. Left(Reads) \in Nat
    BY <1>1, LeftType
  <2>3. Left(Reads) = InQueues(Reads) - 1 /\ Left(Writes) = InQueues(Writes)
    BY <1>1, <2>1, LeftType
  <2>4. InQueues(Reads) \in Nat /\ InQueues(Writes) \in Nat
    BY <1>1, InQueuesType
  <2> QED BY <2>2, <2>3, <2>4
<1>5. Sound(sock, InQueues(Reads), InQueues(Writes))
  BY DEF SocketIInv
<1>6. ASSUME NEW s, HandleResult(s), Sound(s, Left(Reads), Left(Writes)),
             s.touched = sock.touched, Once(sock) /\ ~again => Once(s)
      PROVE  /\ SocketIInv'
             /\ Once(sock) /\ "again" \notin Habits => Once(sock)'
             /\ Untouched => Untouched'
  <2>1. SocketIInv' /\ sock' = s /\ (~s.touched => Untouched')
    BY <1>1, <1>6, HandleResultStep
  <2> QED BY <1>3, <1>6, <2>1 DEF Untouched
<1>7. CASE Head(batch) = "data"
           /\ \E call \in Calls(sock), more \in BOOLEAN :
                HandleResult(OnData(sock, call, more, again))
  <2>1. PICK call \in Calls(sock), more \in BOOLEAN :
            HandleResult(OnData(sock, call, more, again))
    BY <1>7
  <2>2. call # "read"
    BY DEF Calls
  <2> DEFINE s == OnData(sock, call, more, again)
  <2>3. /\ Sound(s, Left(Reads), Left(Writes)) /\ s.touched = sock.touched
        /\ Once(sock) /\ ~again => Once(s)
    BY <1>4, <1>5, <2>2, OnDataSound
  <2> HIDE DEF s
  <2>4. HandleResult(s)
    BY <2>1 DEF s
  <2> QED BY <1>6, <2>3, <2>4
<1>8. CASE Head(batch) = "none" /\ HandleResult(OnNoData(sock, again))
  <2> DEFINE s == OnNoData(sock, again)
  <2>1. /\ Sound(s, Left(Reads), Left(Writes)) /\ s.touched = sock.touched
        /\ Once(sock) /\ ~again => Once(s)
    BY <1>4, <1>5, OnNoDataSound
  <2> HIDE DEF s
  <2>2. HandleResult(s)
    BY <1>8 DEF s
  <2> QED BY <1>6, <2>1, <2>2
<1> QED BY <1>2, <1>7, <1>8

LEMMA TaskWriteStep ==
    ASSUME SocketIInv, TaskWrite
    PROVE  /\ SocketIInv'
           /\ Once(sock) /\ "again" \notin Habits => Once(sock)'
           /\ Untouched /\ "resume" \notin Habits => Untouched'
<1>1. pc = "task" /\ batch # <<>> /\ Head(batch) = "write" /\ QueuesOK
  BY DEF TaskWrite, SocketIInv
<1>2. PICK call \in WriteCalls(sock) :
        HandleResult(IF call = "read" THEN Touch(OnWrite(sock, call)) ELSE OnWrite(sock, call))
  BY DEF TaskWrite
<1> DEFINE o == OnWrite(sock, call)
           s == IF call = "read" THEN Touch(o) ELSE o
<1>3. /\ call = "read" => sock.prereads > 0 /\ "resume" \in Habits
      /\ call = "disconnect" => sock.disconnects = 0 \/ "again" \in Habits
  BY <1>2 DEF WriteCalls, Calls
<1>4. /\ Left(Reads) = InQueues(Reads) /\ Left(Writes) = InQueues(Writes) - 1
      /\ InQueues(Reads) \in Nat /\ InQueues(Writes) \in Nat /\ InQueues(Writes) > 0
  <2>1. Left(Writes) \in Nat
    BY <1>1, LeftType
  <2>2. Left(Reads) = InQueues(Reads) /\ Left(Writes) = InQueues(Writes) - 1
    BY <1>1, LeftType
  <2>3. InQueues(Reads) \in Nat /\ InQueues(Writes) \in Nat
    BY <1>1, InQueuesType
  <2> QED BY <2>1, <2>2, <2>3
<1>5. Sound(sock, InQueues(Reads), InQueues(Writes))
  BY DEF SocketIInv
<1>6. /\ Sound(o, Left(Reads), Left(Writes)) /\ o.touched = sock.touched
      /\ Once(sock) /\ "again" \notin Habits => Once(o)
  BY <1>3, <1>4, <1>5, OnWriteSound
<1> HIDE DEF o
<1>7. /\ Sound(s, Left(Reads), Left(Writes))
      /\ Once(o) => Once(s)
      /\ "resume" \notin Habits => s.touched = sock.touched
  <2>1. CASE call = "read"
    BY <1>3, <1>6, <2>1, TouchSound
  <2>2. CASE call # "read"
    BY <1>6, <2>2
  <2> QED BY <2>1, <2>2
<1>8. HandleResult(s)
  BY <1>2 DEF o
<1> HIDE DEF s
<1>9. SocketIInv' /\ sock' = s /\ (~s.touched => Untouched')
  BY <1>1, <1>7, <1>8, HandleResultStep
<1> QED BY <1>6, <1>7, <1>9 DEF Untouched

LEMMA TaskEndStep ==
    ASSUME SocketIInv, TaskEnd
    PROVE  /\ SocketIInv'
           /\ Once(sock) => Once(sock)'
           /\ Untouched => Untouched'
<1>1. /\ pc = "task" /\ batch = <<>> /\ sock' = Touch(sock) /\ ready' = TRUE /\ pc' = "idle"
      /\ queue' = queue /\ batch' = batch /\ peer' = peer
  BY DEF TaskEnd
<1>2. Sound(sock, InQueues(Reads), InQueues(Writes)) /\ peer' \in BOOLEAN
  BY <1>1 DEF SocketIInv, QueuesOK
<1>3. /\ Sound(sock', InQueues(Reads), InQueues(Writes))
      /\ Once(sock) => Once(sock')
      /\ sock.alive => sock'.touched = sock.touched
  BY <1>1, <1>2, TouchSound
<1>4. SocketIInv'
  BY <1>1, <1>2, <1>3, QuietStep
<1>5. Untouched => Untouched'
  BY <1>1, <1>3 DEF Untouched
<1> QED BY <1>3, <1>4, <1>5

\* The application, between tasks.
LEMMA AppStep ==
    ASSUME SocketIInv, App
    PROVE  /\ SocketIInv'
           /\ Once(sock) /\ "again" \notin Habits => Once(sock)'
           /\ Untouched => Untouched'
<1>1. /\ pc = "idle" /\ sock.alive /\ queue' = queue /\ batch' = batch /\ pc' = pc
      /\ ready' = ready /\ peer' = peer
  BY DEF App, AppWrite, AppDisconnect, AppRead, AppIdle
<1>2. /\ Sound(sock, InQueues(Reads), InQueues(Writes)) /\ QueuesOK /\ batch = <<>>
      /\ InQueues(Reads) \in Nat /\ InQueues(Writes) \in Nat
  BY <1>1, InQueuesType DEF SocketIInv, StagesOK
<1>3. ASSUME Sound(sock', InQueues(Reads), InQueues(Writes)), sock'.touched = sock.touched
      PROVE  SocketIInv' /\ (Untouched => Untouched')
  <2>1. peer' \in BOOLEAN /\ ready' \in BOOLEAN
    BY <1>1, <1>2 DEF QueuesOK
  <2>2. SocketIInv'
    BY <1>1, <1>2, <1>3, <2>1, QuietStep
  <2> QED BY <1>1, <1>3, <2>2 DEF Untouched
<1>4. CASE AppWrite
  <2>1. PICK fits \in BOOLEAN, stale \in BOOLEAN : sock' = Prewrite(sock, fits, stale)
    BY <1>4 DEF AppWrite
  <2>2. /\ Sound(sock', InQueues(Reads), InQueues(Writes)) /\ sock'.touched = sock.touched
        /\ Once(sock) => Once(sock')
    BY <1>1, <1>2, <2>1, PrewriteSound
  <2> QED BY <1>3, <2>2
<1>5. CASE AppDisconnect
  <2>1. sock' = HardClose(sock) /\ (sock.disconnects > 0 => "again" \in Habits)
    BY <1>5 DEF AppDisconnect
  <2>2. /\ Sound(sock', InQueues(Reads), InQueues(Writes)) /\ sock'.touched = sock.touched
        /\ Once(sock) /\ sock.disconnects = 0 => Once(sock')
    BY <1>2, <2>1, HardCloseSound
  <2>3. Once(sock) /\ "again" \notin Habits => sock.disconnects = 0
    BY <2>1 DEF Once
  <2> QED BY <1>3, <2>2, <2>3
<1>6. CASE AppRead
  <2>1. PICK again \in BOOLEAN : Disconnects(again) /\ sock' = RequeueRead(sock, again)
    BY <1>6 DEF AppRead
  <2>2. sock.prereads > 0 /\ ("again" \notin Habits => ~again)
    BY <1>6, <2>1 DEF AppRead, Disconnects
  <2>3. /\ Sound(sock', InQueues(Reads), InQueues(Writes)) /\ sock'.touched = sock.touched
        /\ Once(sock) /\ ~again => Once(sock')
    BY <1>1, <1>2, <2>1, <2>2, RequeueReadSound
  <2> QED BY <1>3, <2>2, <2>3
<1> QED BY <1>4, <1>5, <1>6 DEF App

\* The kernel completes a request: it goes from the kernel to the results.
LEMMA KernelStep ==
    ASSUME SocketIInv, Kernel
    PROVE  /\ SocketIInv'
           /\ Once(sock) => Once(sock)'
           /\ Untouched => Untouched'
<1>1. PICK x \in Result, field \in {"kreads", "kwrites"} :
        /\ queue' = Append(queue, x) /\ sock' = [sock EXCEPT ![field] = @ - 1]
        /\ sock[field] > 0
        /\ (x \in Reads /\ field = "kreads") \/ (x \in Writes /\ field = "kwrites")
  <2>1. CASE ReadCompletes
    <3>1. PICK x \in {"data", "none"} : Completes(x, [sock EXCEPT !.kreads = @ - 1])
      BY <2>1 DEF ReadCompletes
    <3>2. sock.kreads > 0 /\ x \in Result /\ x \in Reads
      BY <2>1 DEF ReadCompletes, Result, Reads
    <3>3. queue' = Append(queue, x) /\ sock' = [sock EXCEPT !["kreads"] = @ - 1]
      BY <3>1 DEF Completes
    <3> QED BY <3>2, <3>3
  <2>2. CASE WriteCompletes
    <3>1. Completes("write", [sock EXCEPT !.kwrites = @ - 1])
      BY <2>2 DEF WriteCompletes
    <3>2. sock.kwrites > 0 /\ "write" \in Result /\ "write" \in Writes
      BY <2>2 DEF WriteCompletes, Result, Writes
    <3>3. queue' = Append(queue, "write") /\ sock' = [sock EXCEPT !["kwrites"] = @ - 1]
      BY <3>1 DEF Completes
    <3> QED BY <3>2, <3>3
  <2> QED BY <2>1, <2>2 DEF Kernel
<1>2. batch' = batch /\ pc' = pc /\ ready' = ready /\ peer' = peer
  BY DEF Kernel, ReadCompletes, WriteCompletes, Completes
<1>3. /\ QueuesOK /\ StagesOK /\ Sound(sock, InQueues(Reads), InQueues(Writes))
      /\ queue \in Seq(Result) /\ sock \in SocketType
  BY DEF SocketIInv, QueuesOK, Sound
<1>4. /\ sock[field] \in Nat /\ sock[field] - 1 \in Nat /\ sock.kreads \in Nat /\ sock.kwrites \in Nat
  BY <1>1, <1>3 DEF SocketType
<1>5. sock' \in SocketType
  BY <1>1, <1>3, <1>4 DEF SocketType
<1>6. /\ \A f \in {"mode", "open", "alive", "prereads", "reads", "prewrites", "writes", "told",
                   "disconnects", "late", "touched"} : sock'[f] = sock[f]
      /\ field = "kreads" => sock'.kreads = sock.kreads - 1 /\ sock'.kwrites = sock.kwrites
      /\ field = "kwrites" => sock'.kwrites = sock.kwrites - 1 /\ sock'.kreads = sock.kreads
  BY <1>1, <1>3 DEF SocketType
<1>7. ASSUME NEW kinds
      PROVE  InQueues(kinds)' = InQueues(kinds) + (IF x \in kinds THEN 1 ELSE 0)
  <2>1. CountOf(queue', kinds) = CountOf(queue, kinds) + (IF x \in kinds THEN 1 ELSE 0)
    BY <1>1, <1>3, CountAppend
  <2> QED BY <1>2, <1>3, <2>1, InQueuesType DEF InQueues
<1>8. /\ InQueues(Reads)' = InQueues(Reads) + (IF x \in Reads THEN 1 ELSE 0)
      /\ InQueues(Writes)' = InQueues(Writes) + (IF x \in Writes THEN 1 ELSE 0)
      /\ InQueues(Reads) \in Nat /\ InQueues(Writes) \in Nat
  BY <1>3, <1>7, InQueuesType
<1>9. Counted(sock', InQueues(Reads)', InQueues(Writes)')
  <2>1. Counted(sock, InQueues(Reads), InQueues(Writes))
    BY <1>3 DEF Sound
  <2>2. CASE x \in Reads /\ field = "kreads"
    <3>1. x \notin Writes
      BY <2>2 DEF Reads, Writes
    <3> QED BY <1>4, <1>6, <1>8, <2>1, <2>2, <3>1 DEF Counted
  <2>3. CASE x \in Writes /\ field = "kwrites"
    <3>1. x \notin Reads
      BY <2>3 DEF Reads, Writes
    <3> QED BY <1>4, <1>6, <1>8, <2>1, <2>3, <3>1 DEF Counted
  <2> QED BY <1>1, <2>2, <2>3
<1>10. Sound(sock, InQueues(Reads), InQueues(Writes))'
  BY <1>3, <1>5, <1>6, <1>9 DEF Sound, Waits, Gone
<1>11. Once(sock) => Once(sock)'
  BY <1>6 DEF Once
<1>12. Untouched => Untouched'
  BY <1>2, <1>6 DEF Untouched
<1>13. pc # "connect"
  BY <1>1, <1>3 DEF StagesOK, NewSocket
<1>14. StagesOK' /\ QueuesOK'
  BY <1>1, <1>2, <1>3, <1>13 DEF StagesOK, QueuesOK
<1> QED BY <1>10, <1>11, <1>12, <1>14 DEF SocketIInv

\* What every step does to the three invariants.
LEMMA SocketSteps ==
    ASSUME SocketIInv, [Next]_vars
    PROVE  /\ SocketIInv'
           /\ Once(sock) /\ "again" \notin Habits => Once(sock)'
           /\ Untouched /\ Habits \cap {"refuse", "resume"} = {} => Untouched'
<1>1. CASE Connected
  BY <1>1, ConnectedStep
<1>2. CASE TaskBegin
  <2>1. SocketIInv' /\ sock' = sock
    BY <1>2, TaskBeginStep
  <2>2. Untouched => Untouched'
    <3>1. pc = "idle" /\ queue # <<>> /\ batch = <<>>
      BY <1>2 DEF TaskBegin, SocketIInv, StagesOK
    <3>2. queue \in Seq(Result) /\ batch \in Seq(Result)
      BY DEF SocketIInv, QueuesOK
    <3>3. Sound(sock, CountOf(queue, Reads) + CountOf(batch, Reads),
                CountOf(queue, Writes) + CountOf(batch, Writes))
      BY DEF SocketIInv, InQueues
    <3>4. sock.alive
      BY <3>1, <3>2, <3>3, GoneIsDone
    <3> QED BY <2>1, <3>4 DEF Untouched
  <2> QED BY <2>1, <2>2
<1>3. CASE TaskRead
  BY <1>3, TaskReadStep
<1>4. CASE TaskWrite
  BY <1>4, TaskWriteStep
<1>5. CASE TaskEnd
  BY <1>5, TaskEndStep
<1>6. CASE App
  BY <1>6, AppStep
<1>7. CASE Kernel
  BY <1>7, KernelStep
<1>8. CASE PeerCloses \/ UNCHANGED vars
  <2>1. /\ sock' = sock /\ queue' = queue /\ batch' = batch /\ pc' = pc /\ ready' = ready
        /\ peer' \in BOOLEAN
    BY <1>8 DEF PeerCloses, vars, SocketIInv, QueuesOK
  <2>2. SocketIInv'
    BY <2>1, QuietStep DEF SocketIInv, StagesOK, QueuesOK
  <2> QED BY <2>1, <2>2 DEF Untouched
<1> QED BY <1>1, <1>2, <1>3, <1>4, <1>5, <1>6, <1>7, <1>8 DEF Next, Task

-----------------------------------------------------------------------------
(***************************************************************************)
(* The properties.                                                         *)
(***************************************************************************)
LEMMA IInvTypeOK == SocketIInv => TypeOK
<1> SUFFICES ASSUME SocketIInv
             PROVE  TypeOK
  OBVIOUS
<1>1. /\ sock \in SocketType
      /\ Counted(sock, InQueues(Reads), InQueues(Writes)) /\ StagesOK /\ QueuesOK
  BY DEF SocketIInv, Sound
<1>2. /\ sock.mode \in {"active", "closing", "closed"} /\ sock.prewrites \in Nat
      /\ sock.open \in BOOLEAN /\ sock.told \in BOOLEAN
  BY <1>1 DEF SocketType
<1>3. {ready, peer, sock.open, sock.told} \subseteq BOOLEAN
  BY <1>1, <1>2 DEF QueuesOK
<1> QED BY <1>1, <1>2, <1>3 DEF TypeOK, Counted, StagesOK, QueuesOK, Reads, Writes

LEMMA IInvDeletedIsDone == SocketIInv /\ Untouched => DeletedIsDone
<1> SUFFICES ASSUME SocketIInv, Untouched, ~sock.alive
             PROVE  /\ sock.reads = 0 /\ sock.writes = 0 /\ queue = <<>> /\ batch = <<>>
                    /\ ~sock.touched
  BY DEF DeletedIsDone
<1>1. queue \in Seq(Result) /\ batch \in Seq(Result)
  BY DEF SocketIInv, QueuesOK
<1>2. Sound(sock, CountOf(queue, Reads) + CountOf(batch, Reads),
            CountOf(queue, Writes) + CountOf(batch, Writes))
  BY DEF SocketIInv, InQueues
<1> QED BY <1>1, <1>2, GoneIsDone DEF Untouched

LEMMA SocketIInvHolds == Spec => []SocketIInv
<1>1. Init => SocketIInv
  BY InitIInv
<1>2. SocketIInv /\ [Next]_vars => SocketIInv'
  BY SocketSteps
<1> QED BY <1>1, <1>2, PTL DEF Spec

\* An active application has been told that data is waiting if and only if it
\* is, after every call of write, every completion and every disconnect in any
\* order, whatever the application does (queuePrewrite, onWrite).
THEOREM SocketWaitingIsTold == Spec => []WaitingIsTold
<1>1. SocketIInv => WaitingIsTold
  <2> SUFFICES ASSUME SocketIInv, sock.alive, sock.mode = "active"
               PROVE  sock.told = (sock.prewrites > 0)
    BY DEF WaitingIsTold
  <2>1. sock.told \in BOOLEAN /\ (sock.told <=> sock.prewrites > 0)
    BY DEF SocketIInv, Sound, Waits, SocketType
  <2>2. CASE sock.told
    BY <2>1, <2>2
  <2>3. CASE ~sock.told
    BY <2>1, <2>3
  <2> QED BY <2>2, <2>3
<1> QED BY <1>1, SocketIInvHolds, PTL

\* The requests are counted right, and with the last the object is deleted and
\* not used again, by an application that does not disconnect in
\* onSocketConnect or onSocketAccept and does not read on from inside of
\* onSocketBufferChanged.
THEOREM SocketStaysConsistent ==
    ASSUME Habits \cap {"refuse", "resume"} = {}
    PROVE  Spec => []SocketConsistent
<1>1. Init => SocketIInv /\ Untouched
  BY InitIInv
<1>2. SocketIInv /\ Untouched /\ [Next]_vars => SocketIInv' /\ Untouched'
  BY SocketSteps
<1>3. SocketIInv /\ Untouched => SocketConsistent
  BY IInvTypeOK, IInvDeletedIsDone DEF SocketConsistent
<1> QED BY <1>1, <1>2, <1>3, PTL DEF Spec

\* onSocketDisconnect is called once, before the object is deleted, and no data
\* is delivered after it, when the application does not disconnect a socket
\* again after it.
THEOREM SocketDisconnectedOnce ==
    ASSUME "again" \notin Habits
    PROVE  Spec => []DisconnectedOnce
<1>1. Init => SocketIInv /\ Once(sock)
  BY InitIInv
<1>2. SocketIInv /\ Once(sock) /\ [Next]_vars => SocketIInv' /\ Once(sock)'
  BY SocketSteps
<1>3. Once(sock) => DisconnectedOnce
  BY DEF Once, DisconnectedOnce
<1> QED BY <1>1, <1>2, <1>3, PTL DEF Spec

=============================================================================
