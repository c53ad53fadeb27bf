--------------------------- MODULE ConfigFileProofs ---------------------------
(* Proofs about a configuration file, for any threads, notifiers, versions    *)
(* of the file and calls. The walk of the notifiers goes on from a list that  *)
(* fits it unless a handler closes its own notifier; that everybody is told   *)
(* of the last version leaves out the other two habits as well.               *)
EXTENDS ConfigFile, FunctionTheorems, SequenceTheorems, TLAPS

-------------------------------------------------------------------------------
(* The walk                                                                   *)

Entry == Notifiers \cup {Mark}
Linked(l) == l \in Seq(Entry) /\ IsInjective(l)

\* The notifier that is being called is the one behind the marker.
AtMark(l, n) ==
    \E i \in DOMAIN l : i + 1 \in DOMAIN l /\ l[i] = Mark /\ l[i + 1] = n

\* The list, the flags and the threads: one is in a handler exactly while the
\* flags say so.
Ring ==
    /\ Linked(list)
    /\ inThread \in Threads \cup {None} /\ inNotify \in Notifiers \cup {None}
    /\ fileThread \in Threads \cup {None}
    /\ at \in [Threads -> Places]
    /\ who \in [Threads -> Notifiers \cup {None}]
    /\ told \in [Notifiers -> Versions]
    /\ Mark \in ToSet(list) <=> inThread # None
    /\ inThread # None => inNotify # None /\ AtMark(list, inNotify)
    /\ inThread = None => inNotify = None
    /\ \A t \in Threads : at[t] = "told" <=> inThread = t

Rest ==
    /\ disk \in Versions /\ seen \in Versions
    /\ content \in Versions /\ xml \in Versions
    /\ notice \in BOOLEAN /\ armed \in BOOLEAN /\ watched \in BOOLEAN
    /\ used \subseteq Notifiers /\ calls \in 0 .. MaxCalls

\* Only notifiers that were registered are in the list.
WalkIInv == Ring /\ Rest /\ ToSet(list) \ {Mark} \subseteq used

-------------------------------------------------------------------------------
(* Who is told                                                                *)

\* A thread is on its way to read the file, and will call all the notifiers.
Reading ==
    \E t \in Threads : \/ at[t] \in {"fileWait", "read", "change"}
                       \/ at[t] = "add" /\ ~watched

\* A thread waits to call n, or has it ahead of it on its walk.
Ahead(l, n) ==
    \E i, j \in DOMAIN l : l[i] = Mark /\ l[j] = n /\ i + 1 < j
Coming(n) ==
    \E t \in Threads : \/ at[t] = "notify" /\ who[t] \in {None, n}
                       \/ at[t] = "told" /\ who[t] = None /\ Ahead(list, n)

Expects(n) == told[n] = xml \/ Reading \/ Coming(n)

\* The last version is on its way to the notifiers: the directory, the timer,
\* the thread that reads and the one that parses hand it on.
OnItsWay ==
    /\ seen <= disk
    /\ used # {} /\ ~watched => \E t \in Threads : at[t] = "add"
    /\ watched /\ disk # seen => notice \/ armed
    /\ watched /\ disk = seen
          => content = disk \/ \E t \in Threads : at[t] \in {"fileWait", "read"}
    /\ xml = content \/ \E t \in Threads : at[t] = "change"

ToldIInv ==
    WalkIInv /\ OnItsWay /\ \A n \in ToSet(list) \ {Mark} : Expects(n)

-------------------------------------------------------------------------------
(* The list                                                                   *)

LEMMA Lengths ==
    ASSUME NEW l \in Seq(Entry)
    PROVE  \E k \in Nat : k = Len(l) /\ DOMAIN l = 1 .. k
OBVIOUS

LEMMA Joined ==
    ASSUME NEW a \in Seq(Entry), NEW b \in Seq(Entry)
    PROVE  /\ a \o b \in Seq(Entry) /\ Len(a \o b) = Len(a) + Len(b)
           /\ \A i \in 1 .. Len(a) + Len(b) :
                (a \o b)[i] = IF i <= Len(a) THEN a[i] ELSE b[i - Len(a)]
OBVIOUS

LEMMA PosDef ==
    ASSUME NEW l, Linked(l), NEW m \in DOMAIN l
    PROVE  Pos(l, l[m]) = m
BY DEF Linked, IsInjective, Pos

\* Unlinking an entry closes the gap.
LEMMA Unlinked ==
    ASSUME NEW l, Linked(l), NEW m \in DOMAIN l
    PROVE  /\ Without(l, l[m]) \in Seq(Entry)
           /\ DOMAIN Without(l, l[m]) = 1 .. Len(l) - 1
           /\ Len(Without(l, l[m])) = Len(l) - 1
           /\ \A i \in 1 .. Len(l) - 1 :
                Without(l, l[m])[i] = IF i < m THEN l[i] ELSE l[i + 1]
<1>1. PICK k \in Nat : k = Len(l) /\ DOMAIN l = 1 .. k
  BY Lengths DEF Linked
<1>2. Without(l, l[m]) = SubSeq(l, 1, m - 1) \o SubSeq(l, m + 1, Len(l))
  BY PosDef DEF Without, ToSet, RemoveAt
<1>3. l \in Seq(Entry) /\ m \in 1 .. k
  BY <1>1 DEF Linked
<1> HIDE DEF Entry
<1> DEFINE a == SubSeq(l, 1, m - 1)
           b == SubSeq(l, m + 1, k)
<1>4. a \in Seq(Entry) /\ Len(a) = m - 1 /\ \A i \in 1 .. m - 1 : a[i] = l[i]
  BY <1>1, <1>3
<1>5. b \in Seq(Entry) /\ Len(b) = k - m /\ \A i \in 1 .. k - m : b[i] = l[m + i]
  BY <1>1, <1>3
<1> HIDE DEF a, b
<1>6. a \o b \in Seq(Entry) /\ Len(a \o b) = k - 1
  <2>1. a \o b \in Seq(Entry) /\ Len(a \o b) = Len(a) + Len(b)
    BY <1>4, <1>5
  <2>2. (m - 1) + (k - m) = k - 1
    BY <1>3
  <2> QED BY <2>1, <2>2, <1>4, <1>5
<1>7. \A i \in 1 .. k - 1 : (a \o b)[i] = IF i < m THEN a[i] ELSE b[i - m + 1]
  BY <1>3, <1>4, <1>5
<1>8. \A i \in 1 .. k - 1 : (a \o b)[i] = IF i < m THEN l[i] ELSE l[i + 1]
  <2> TAKE i \in 1 .. k - 1
  <2>1. CASE i < m
    BY <2>1, <1>3, <1>4, <1>7
  <2>2. CASE ~(i < m)
    <3>1. i - m + 1 \in 1 .. k - m /\ m + (i - m + 1) = i + 1
      BY <2>2, <1>3
    <3> QED BY <2>2, <3>1, <1>5, <1>7
  <2> QED BY <2>1, <2>2
<1>9. Without(l, l[m]) = a \o b
  BY <1>1, <1>2 DEF a, b
<1>10. DOMAIN (a \o b) = 1 .. k - 1
  BY <1>6
<1> QED BY <1>1, <1>6, <1>8, <1>9, <1>10

\* The marker moves ahead.
LEMMA Moved ==
    ASSUME NEW l, Linked(l), NEW m \in DOMAIN l, l[m] = Mark,
           NEW p \in DOMAIN l, m <= p
    PROVE  LET r == InsertAt(Without(l, Mark), p, Mark)
           IN  /\ r \in Seq(Entry) /\ DOMAIN r = DOMAIN l
               /\ \A i \in DOMAIN l :
                    r[i] = IF i < m \/ i > p THEN l[i]
                           ELSE IF i = p THEN Mark ELSE l[i + 1]
<1>1. PICK k \in Nat : k = Len(l) /\ DOMAIN l = 1 .. k
  BY Lengths DEF Linked
<1> DEFINE s == Without(l, Mark)
<1>2. /\ s \in Seq(Entry) /\ Len(s) = k - 1 /\ DOMAIN s = 1 .. k - 1
      /\ \A i \in 1 .. k - 1 : s[i] = IF i < m THEN l[i] ELSE l[i + 1]
  BY <1>1, Unlinked
<1>3. m \in 1 .. k /\ p \in 1 .. k /\ Mark \in Entry
  BY <1>1 DEF Entry
<1> HIDE DEF s, Entry
<1> DEFINE a == SubSeq(s, 1, p - 1)
           b == SubSeq(s, p, k - 1)
           c == a \o <<Mark>>
           r == c \o b
<1>a. a \in Seq(Entry) /\ Len(a) = p - 1 /\ \A i \in 1 .. p - 1 : a[i] = s[i]
  BY <1>2, <1>3
<1>b. b \in Seq(Entry) /\ Len(b) = k - p /\ \A i \in 1 .. k - p : b[i] = s[p - 1 + i]
  <2>1. k - 1 \in Int /\ p \in Nat /\ p >= 1 /\ k - 1 >= p - 1 /\ (k - 1) - p + 1 = k - p
    BY <1>3
  <2>2. PICK n \in Int : n = k - 1
    BY <2>1
  <2>3. SubSeq(s, p, n) \in Seq(Entry) /\ Len(SubSeq(s, p, n)) = n - p + 1
    BY <1>2, <2>1, <2>2
  <2>4. \A i \in 1 .. n - p + 1 : SubSeq(s, p, n)[i] = s[p - 1 + i]
    BY <1>2, <2>1, <2>2
  <2> QED BY <2>1, <2>2, <2>3, <2>4
<1> HIDE DEF a, b
<1>c. /\ c \in Seq(Entry) /\ Len(c) = p
      /\ \A i \in 1 .. p : c[i] = IF i < p THEN s[i] ELSE Mark
  BY <1>a, <1>3
<1> HIDE DEF c
<1>4. r \in Seq(Entry) /\ Len(r) = k
  <2>1. r \in Seq(Entry) /\ Len(r) = Len(c) + Len(b)
    BY <1>b, <1>c, Joined
  <2>2. p + (k - p) = k
    BY <1>1, <1>3
  <2> QED BY <2>1, <2>2, <1>b, <1>c
<1>d. DOMAIN r = 1 .. k
  BY <1>4
<1>e. \A i \in 1 .. k : r[i] = IF i <= p THEN c[i] ELSE b[i - p]
  <2>1. Len(c) + Len(b) = k
    BY <1>b, <1>c, <1>3
  <2> QED BY <2>1, <1>b, <1>c, Joined
<1> HIDE DEF r
<1>5. \A i \in 1 .. k : r[i] = IF i < p THEN s[i] ELSE
                               IF i = p THEN Mark ELSE s[i - 1]
  <2> TAKE i \in 1 .. k
  <2>1. CASE i <= p
    BY <2>1, <1>3, <1>c, <1>e
  <2>2. CASE i > p
    <3>1. i - p \in 1 .. k - p /\ p - 1 + (i - p) = i - 1
      BY <2>2, <1>3
    <3>2. b[i - p] = s[i - 1]
      BY <3>1, <1>b
    <3> QED BY <2>2, <3>2, <1>3, <1>e
  <2> QED BY <2>1, <2>2, <1>3
<1>6. \A i \in 1 .. k : r[i] = IF i < m \/ i > p THEN l[i]
                               ELSE IF i = p THEN Mark ELSE l[i + 1]
  <2> TAKE i \in 1 .. k
  <2>1. CASE i < p
    BY <2>1, <1>2, <1>3, <1>5
  <2>2. CASE i = p
    BY <2>2, <1>3, <1>5
  <2>3. CASE i > p
    <3>1. i - 1 \in 1 .. k - 1 /\ ~(i - 1 < m) /\ (i - 1) + 1 = i
      BY <2>3, <1>3
    <3>2. s[i - 1] = l[i]
      BY <3>1, <1>2
    <3> QED BY <2>3, <3>2, <1>3, <1>5
  <2> QED BY <2>1, <2>2, <2>3, <1>3
<1> QED BY <1>1, <1>2, <1>4, <1>d, <1>6 DEF InsertAt, a, b, c, r, s

LEMMA WithoutSet ==
    ASSUME NEW l, Linked(l), NEW x
    PROVE  /\ Linked(Without(l, x))
           /\ ToSet(Without(l, x)) = ToSet(l) \ {x}
<1>1. CASE x \notin ToSet(l)
  BY <1>1 DEF Without
<1>2. CASE x \in ToSet(l)
  <2>1. PICK m \in DOMAIN l : l[m] = x
    BY <1>2 DEF ToSet
  <2>2. PICK k \in Nat : k = Len(l) /\ DOMAIN l = 1 .. k
    BY Lengths DEF Linked
  <2> DEFINE r == Without(l, x)
  <2>3. /\ r \in Seq(Entry) /\ DOMAIN r = 1 .. k - 1
        /\ \A i \in 1 .. k - 1 : r[i] = IF i < m THEN l[i] ELSE l[i + 1]
    BY <2>1, <2>2, Unlinked
  <2> HIDE DEF r
  <2>4. \A i, j \in 1 .. k : l[i] = l[j] => i = j
    BY <2>2 DEF Linked, IsInjective
  <2>5. ASSUME NEW i \in 1 .. k - 1
        PROVE  \E q \in 1 .. k : /\ q # m /\ r[i] = l[q]
                                 /\ q = IF i < m THEN i ELSE i + 1
    BY <2>1, <2>2, <2>3
  <2>6. ASSUME NEW q \in 1 .. k, q # m
        PROVE  \E i \in 1 .. k - 1 : r[i] = l[q]
    <3>1. CASE q < m
      BY <3>1, <2>1, <2>2, <2>3
    <3>2. CASE q > m
      <4>1. q - 1 \in 1 .. k - 1 /\ ~(q - 1 < m) /\ (q - 1) + 1 = q
        BY <3>2, <2>1, <2>2
      <4> QED BY <4>1, <2>3
    <3> QED BY <3>1, <3>2, <2>6, <2>1, <2>2
  <2>7. IsInjective(r)
    <3> SUFFICES ASSUME NEW i \in 1 .. k - 1, NEW j \in 1 .. k - 1, r[i] = r[j]
                 PROVE  i = j
      BY <2>3 DEF IsInjective
    <3>1. PICK p \in 1 .. k : r[i] = l[p] /\ p = IF i < m THEN i ELSE i + 1
      BY <2>5
    <3>2. PICK q \in 1 .. k : r[j] = l[q] /\ q = IF j < m THEN j ELSE j + 1
      BY <2>5
    <3>3. p = q
      BY <3>1, <3>2, <2>4
    <3> QED BY <3>1, <3>2, <3>3, <2>1, <2>2
  <2>8. ToSet(r) = ToSet(l) \ {x}
    <3>1. ASSUME NEW y \in ToSet(r)
          PROVE  y \in ToSet(l) /\ y # x
      <4>1. PICK i \in 1 .. k - 1 : y = r[i]
        BY <2>3 DEF ToSet
      <4>2. PICK q \in 1 .. k : q # m /\ y = l[q]
        BY <4>1, <2>5
      <4> QED BY <4>2, <2>1, <2>2, <2>4 DEF ToSet
    <3>2. ASSUME NEW y \in ToSet(l), y # x
          PROVE  y \in ToSet(r)
      <4>1. PICK q \in 1 .. k : y = l[q] /\ q # m
        BY <3>2, <2>1, <2>2 DEF ToSet
      <4> QED BY <4>1, <2>6, <2>3 DEF ToSet
    <3> QED BY <3>1, <3>2
  <2> QED BY <2>3, <2>7, <2>8 DEF Linked, r
<1> QED BY <1>1, <1>2

\* What is ahead of the marker stays there when another entry goes.
LEMMA WithoutKeeps ==
    ASSUME NEW l, Linked(l), NEW n, AtMark(l, n), NEW x, x \notin {Mark, n}
    PROVE  /\ AtMark(Without(l, x), n)
           /\ \A y : y # x /\ Ahead(l, y) => Ahead(Without(l, x), y)
<1>1. CASE x \notin ToSet(l)
  BY <1>1 DEF Without
<1>2. CASE x \in ToSet(l)
  <2>1. PICK m \in DOMAIN l : l[m] = x
    BY <1>2 DEF ToSet
  <2>2. PICK k \in Nat : k = Len(l) /\ DOMAIN l = 1 .. k
    BY Lengths DEF Linked
  <2> DEFINE r == Without(l, x)
  <2>3. /\ DOMAIN r = 1 .. k - 1
        /\ \A i \in 1 .. k - 1 : r[i] = IF i < m THEN l[i] ELSE l[i + 1]
    BY <2>1, <2>2, Unlinked
  <2> HIDE DEF r
  <2>4. \A i, j \in 1 .. k : l[i] = l[j] => i = j
    BY <2>2 DEF Linked, IsInjective
  <2>5. ASSUME NEW q \in 1 .. k, q # m
        PROVE  LET i == IF q < m THEN q ELSE q - 1
               IN  i \in 1 .. k - 1 /\ r[i] = l[q]
    <3>1. CASE q < m
      BY <3>1, <2>1, <2>2, <2>3
    <3>2. CASE q > m
      <4>1. q - 1 \in 1 .. k - 1 /\ ~(q - 1 < m) /\ (q - 1) + 1 = q
        BY <3>2, <2>1, <2>2
      <4>2. r[q - 1] = l[q]
        BY <4>1, <2>3
      <4>3. ~(q < m)
        BY <3>2, <2>1, <2>2
      <4> QED BY <4>1, <4>2, <4>3
    <3> QED BY <3>1, <3>2, <2>5, <2>1, <2>2
  <2>6. PICK i \in 1 .. k : i + 1 \in 1 .. k /\ l[i] = Mark /\ l[i + 1] = n
    BY <2>2 DEF AtMark
  <2>7. i # m /\ i + 1 # m /\ m \in 1 .. k
    BY <2>1, <2>2, <2>6
  <2>8. PICK h \in 1 .. k - 1 : r[h] = Mark /\ h = IF i < m THEN i ELSE i - 1
    BY <2>5, <2>6, <2>7
  <2>9. AtMark(r, n)
    <3>1. PICK g \in 1 .. k - 1 : /\ r[g] = n
                                  /\ g = IF i + 1 < m THEN i + 1 ELSE (i + 1) - 1
      BY <2>5, <2>6, <2>7
    <3>2. g = h + 1
      BY <3>1, <2>7, <2>8
    <3> QED BY <3>1, <3>2, <2>3, <2>8 DEF AtMark
  <2>10. ASSUME NEW y, y # x, Ahead(l, y)
         PROVE  Ahead(r, y)
    <3>1. PICK p, j \in 1 .. k : l[p] = Mark /\ l[j] = y /\ p + 1 < j
      BY <2>10, <2>2 DEF Ahead
    <3>2. p = i /\ j # m
      BY <3>1, <2>1, <2>4, <2>6, <2>10
    <3>3. PICK g \in 1 .. k - 1 : r[g] = y /\ g = IF j < m THEN j ELSE j - 1
      BY <3>1, <3>2, <2>5
    <3>4. h + 1 < g
      BY <3>1, <3>2, <3>3, <2>7, <2>8
    <3> QED BY <3>3, <3>4, <2>3, <2>8 DEF Ahead
  <2> QED BY <2>9, <2>10 DEF r
<1> QED BY <1>1, <1>2

LEMMA Appended ==
    ASSUME NEW l, Linked(l), NEW x \in Entry, x \notin ToSet(l)
    PROVE  /\ Linked(Append(l, x)) /\ ToSet(Append(l, x)) = ToSet(l) \cup {x}
           /\ \A n : AtMark(l, n) => AtMark(Append(l, x), n)
           /\ \A n : Ahead(l, n) => Ahead(Append(l, x), n)
<1>1. PICK k \in Nat : k = Len(l) /\ DOMAIN l = 1 .. k
  BY Lengths DEF Linked
<1> DEFINE r == Append(l, x)
<1> HIDE DEF Entry
<1>2. r \in Seq(Entry) /\ Len(r) = k + 1
  BY <1>1 DEF Linked
<1>3. DOMAIN r = 1 .. k + 1
  BY <1>2
<1>4. \A i \in 1 .. k : r[i] = l[i]
  BY <1>1 DEF Linked
<1>5. r[k + 1] = x
  BY <1>1 DEF Linked
<1> HIDE DEF r
<1>6. \A i \in 1 .. k : l[i] # x
  BY <1>1 DEF ToSet
<1>7. IsInjective(r)
  <2>1. \A i, j \in 1 .. k : l[i] = l[j] => i = j
    BY <1>1 DEF Linked, IsInjective
  <2> SUFFICES ASSUME NEW i \in 1 .. k + 1, NEW j \in 1 .. k + 1, r[i] = r[j]
               PROVE  i = j
    BY <1>3 DEF IsInjective
  <2>2. i \in 1 .. k \/ i = k + 1
    OBVIOUS
  <2>3. j \in 1 .. k \/ j = k + 1
    OBVIOUS
  <2> QED BY <2>1, <2>2, <2>3, <1>4, <1>5, <1>6
<1>8. ToSet(r) = ToSet(l) \cup {x}
  <2>1. ASSUME NEW y \in ToSet(r)
        PROVE  y \in ToSet(l) \cup {x}
    <3>1. PICK i \in 1 .. k + 1 : y = r[i]
      BY <1>3 DEF ToSet
    <3>2. i \in 1 .. k \/ i = k + 1
      OBVIOUS
    <3> QED BY <3>1, <3>2, <1>1, <1>4, <1>5 DEF ToSet
  <2>2. ASSUME NEW y \in ToSet(l)
        PROVE  y \in ToSet(r)
    <3>1. PICK i \in 1 .. k : y = l[i]
      BY <1>1 DEF ToSet
    <3>2. i \in 1 .. k + 1
      OBVIOUS
    <3> QED BY <3>1, <3>2, <1>3, <1>4 DEF ToSet
  <2>3. x \in ToSet(r)
    <3>1. k + 1 \in 1 .. k + 1
      OBVIOUS
    <3> QED BY <3>1, <1>3, <1>5 DEF ToSet
  <2> QED BY <2>1, <2>2, <2>3
<1>9. \A n : AtMark(l, n) => AtMark(r, n)
  BY <1>1, <1>3, <1>4 DEF AtMark
<1>10. \A n : Ahead(l, n) => Ahead(r, n)
  BY <1>1, <1>3, <1>4 DEF Ahead
<1> QED BY <1>2, <1>7, <1>8, <1>9, <1>10 DEF Linked, r

LEMMA Fronted ==
    ASSUME NEW l, Linked(l), Mark \notin ToSet(l)
    PROVE  /\ Linked(<<Mark>> \o l) /\ ToSet(<<Mark>> \o l) = ToSet(l) \cup {Mark}
           /\ 1 \in DOMAIN (<<Mark>> \o l) /\ (<<Mark>> \o l)[1] = Mark
<1>1. PICK k \in Nat : k = Len(l) /\ DOMAIN l = 1 .. k
  BY Lengths DEF Linked
<1> DEFINE o == <<Mark>>
           r == o \o l
<1>2. o \in Seq(Entry) /\ Len(o) = 1 /\ o[1] = Mark
  BY DEF Entry
<1> HIDE DEF o, Entry
<1>3. /\ r \in Seq(Entry) /\ Len(r) = 1 + k
      /\ \A i \in 1 .. 1 + k : r[i] = IF i <= 1 THEN o[i] ELSE l[i - 1]
  <2>1. l \in Seq(Entry)
    BY DEF Linked
  <2>2. r \in Seq(Entry) /\ Len(r) = Len(o) + Len(l)
    BY <1>2, <2>1, Joined
  <2>3. \A i \in 1 .. Len(o) + Len(l) :
           r[i] = IF i <= Len(o) THEN o[i] ELSE l[i - Len(o)]
    BY <1>2, <2>1, Joined
  <2> HIDE DEF r
  <2> QED BY <1>1, <1>2, <2>2, <2>3
<1> HIDE DEF r
<1>4. DOMAIN r = 1 .. k + 1 /\ r[1] = Mark
  BY <1>2, <1>3
<1>5. \A i \in 1 .. k : r[i + 1] = l[i]
  <2> TAKE i \in 1 .. k
  <2>1. i + 1 \in 1 .. 1 + k /\ ~(i + 1 <= 1) /\ (i + 1) - 1 = i
    OBVIOUS
  <2> QED BY <2>1, <1>3
<1>6. \A i \in 1 .. k + 1 : i = 1 \/ \E j \in 1 .. k : i = j + 1
  <2> TAKE i \in 1 .. k + 1
  <2>1. i = 1 \/ (i - 1 \in 1 .. k /\ i = (i - 1) + 1)
    OBVIOUS
  <2> QED BY <2>1
<1>7. \A i \in 1 .. k : l[i] # Mark
  BY <1>1 DEF ToSet
<1>8. IsInjective(r)
  <2>1. \A i, j \in 1 .. k : l[i] = l[j] => i = j
    BY <1>1 DEF Linked, IsInjective
  <2> SUFFICES ASSUME NEW i \in 1 .. k + 1, NEW j \in 1 .. k + 1, r[i] = r[j]
               PROVE  i = j
    BY <1>4 DEF IsInjective
  <2> QED BY <2>1, <1>4, <1>5, <1>6, <1>7
<1>9. ToSet(r) = ToSet(l) \cup {Mark}
  <2>1. \A j \in 1 .. k : j + 1 \in 1 .. k + 1
    OBVIOUS
  <2>2. 1 \in 1 .. k + 1
    OBVIOUS
  <2>3. ASSUME NEW y \in ToSet(r)
        PROVE  y \in ToSet(l) \cup {Mark}
    <3>1. PICK i \in 1 .. k + 1 : y = r[i]
      BY <1>4 DEF ToSet
    <3>2. CASE i = 1
      BY <3>1, <3>2, <1>4
    <3>3. ASSUME NEW j \in 1 .. k, i = j + 1
          PROVE  y \in ToSet(l)
      BY <3>1, <3>3, <1>1, <1>5 DEF ToSet
    <3> QED BY <3>2, <3>3, <1>6
  <2>4. \A y \in ToSet(l) : y \in ToSet(r)
    BY <2>1, <1>1, <1>4, <1>5 DEF ToSet
  <2>5. Mark \in ToSet(r)
    BY <2>2, <1>4 DEF ToSet
  <2> QED BY <2>3, <2>4, <2>5
<1> QED BY <1>3, <1>4, <1>8, <1>9 DEF Linked, o, r

LEMMA MovedSet ==
    ASSUME NEW l, Linked(l), NEW m \in DOMAIN l, l[m] = Mark,
           NEW p \in DOMAIN l, m <= p
    PROVE  LET r == InsertAt(Without(l, Mark), p, Mark)
           IN  /\ Linked(r) /\ ToSet(r) = ToSet(l)
               /\ DOMAIN r = DOMAIN l /\ r[p] = Mark
               /\ \A i \in DOMAIN l : i > p => r[i] = l[i]
<1> DEFINE r == InsertAt(Without(l, Mark), p, Mark)
<1>1. PICK k \in Nat : k = Len(l) /\ DOMAIN l = 1 .. k
  BY Lengths DEF Linked
<1>2. /\ r \in Seq(Entry) /\ DOMAIN r = 1 .. k
      /\ \A i \in 1 .. k : r[i] = IF i < m \/ i > p THEN l[i]
                                  ELSE IF i = p THEN Mark ELSE l[i + 1]
  BY <1>1, Moved
<1> HIDE DEF r
<1>3. m \in 1 .. k /\ p \in 1 .. k
  BY <1>1
<1> DEFINE From(i) == IF i < m \/ i > p THEN i ELSE IF i = p THEN m ELSE i + 1
<1>4. \A i \in 1 .. k : From(i) \in 1 .. k
  BY <1>3
<1>5. \A i \in 1 .. k : r[i] = l[From(i)]
  BY <1>2, <1>3
<1>6. \A i, j \in 1 .. k : From(i) = From(j) => i = j
  BY <1>3
<1>7. ASSUME NEW q \in 1 .. k
      PROVE  \E i \in 1 .. k : From(i) = q
  <2>1. CASE q < m \/ q > p
    BY <2>1
  <2>2. CASE q = m
    <3>1. ~(p < m) /\ ~(p > p)
      BY <1>3
    <3>2. From(p) = q
      BY <3>1, <2>2
    <3> QED BY <3>2, <1>3
  <2>3. CASE m < q /\ q <= p
    <3>1. /\ q - 1 \in 1 .. k /\ ~(q - 1 < m) /\ ~(q - 1 > p) /\ q - 1 # p
          /\ (q - 1) + 1 = q
      BY <2>3, <1>3
    <3>2. From(q - 1) = q
      BY <3>1
    <3> QED BY <3>1, <3>2
  <2> QED BY <2>1, <2>2, <2>3, <1>3
<1> HIDE DEF From
<1>8. IsInjective(r)
  <2>1. \A i, j \in 1 .. k : l[i] = l[j] => i = j
    BY <1>1 DEF Linked, IsInjective
  <2> SUFFICES ASSUME NEW i \in 1 .. k, NEW j \in 1 .. k, r[i] = r[j]
               PROVE  i = j
    BY <1>2 DEF IsInjective
  <2>2. l[From(i)] = l[From(j)]
    BY <1>5
  <2>3. From(i) = From(j)
    BY <2>1, <2>2, <1>4
  <2> QED BY <2>3, <1>6
<1>9. ToSet(r) = ToSet(l)
  <2>1. ASSUME NEW y \in ToSet(r)
        PROVE  y \in ToSet(l)
    BY <1>1, <1>2, <1>4, <1>5 DEF ToSet
  <2>2. ASSUME NEW y \in ToSet(l)
        PROVE  y \in ToSet(r)
    <3>1. PICK q \in 1 .. k : y = l[q]
      BY <1>1 DEF ToSet
    <3>2. PICK i \in 1 .. k : From(i) = q
      BY <1>7
    <3> QED BY <3>1, <3>2, <1>2, <1>5 DEF ToSet
  <2> QED BY <2>1, <2>2
<1>10. r[p] = Mark /\ \A i \in 1 .. k : i > p => r[i] = l[i]
  BY <1>2, <1>3
<1> QED BY <1>1, <1>2, <1>8, <1>9, <1>10 DEF Linked, r

\* The walk after a callback: what was ahead is now behind the marker.
LEMMA PassedSet ==
    ASSUME NEW l, Linked(l), NEW n, AtMark(l, n)
    PROVE  LET r == Passed(l, n)
           IN  /\ Linked(r) /\ ToSet(r) = ToSet(l)
               /\ \A y : Ahead(l, y) =>
                    \E i, j \in DOMAIN r : r[i] = Mark /\ r[j] = y /\ i < j
<1>1. PICK k \in Nat : k = Len(l) /\ DOMAIN l = 1 .. k
  BY Lengths DEF Linked
<1>2. PICK m \in 1 .. k : m + 1 \in 1 .. k /\ l[m] = Mark
  BY <1>1 DEF AtMark
<1> DEFINE r == Passed(l, n)
<1>3. r = InsertAt(Without(l, Mark), m + 1, Mark)
  <2>1. n \in ToSet(l)
    BY DEF AtMark, ToSet
  <2>2. Pos(l, Mark) = m
    BY <1>1, <1>2, PosDef
  <2> QED BY <2>1, <2>2 DEF Passed
<1>4. m <= m + 1
  BY <1>2
<1>5. /\ Linked(r) /\ ToSet(r) = ToSet(l) /\ DOMAIN r = 1 .. k
      /\ r[m + 1] = Mark /\ \A i \in 1 .. k : i > m + 1 => r[i] = l[i]
  BY <1>1, <1>2, <1>3, <1>4, MovedSet
<1> HIDE DEF r
<1>6. ASSUME NEW y, Ahead(l, y)
      PROVE  \E i, j \in 1 .. k : r[i] = Mark /\ r[j] = y /\ i < j
  <2>1. PICK i, j \in 1 .. k : l[i] = Mark /\ l[j] = y /\ i + 1 < j
    BY <1>1, <1>6 DEF Ahead
  <2>2. i = m
    BY <2>1, <1>1, <1>2 DEF Linked, IsInjective
  <2>3. m + 1 < j /\ j > m + 1
    BY <2>1, <2>2
  <2> QED BY <2>1, <2>3, <1>2, <1>5
<1> QED BY <1>5, <1>6 DEF r

-------------------------------------------------------------------------------
(* A walk                                                                     *)

LEMMA MinAsked ==
    ASSUME NEW k \in Nat, NEW J \in SUBSET (1 .. k), NEW j \in J,
           \A i \in J : j <= i
    PROVE  Min(J) = j
<1>1. \A x \in J : (\A y \in J : x <= y) => x = j
  OBVIOUS
<1> QED BY <1>1 DEF Min

\* The walk ends, or goes to the next entry that is asked for.
LEMMA WalkDef ==
    ASSUME NEW t, NEW n, NEW l, Linked(l), NEW doc, Walk(t, n, l, doc),
           NEW m \in DOMAIN l, l[m] = Mark
    PROVE  \/ /\ Finish(t, l)
              /\ \A i \in DOMAIN l : i > m => n \notin {None, l[i]}
           \/ \E j \in DOMAIN l :
                 /\ m < j
                 /\ IF n = None THEN j = m + 1 ELSE l[j] = n
                 /\ list' = InsertAt(Without(l, Mark), j - 1, Mark)
                 /\ Call(t, n, l[j], doc)
<1>1. PICK k \in Nat : k = Len(l) /\ DOMAIN l = 1 .. k
  BY Lengths DEF Linked
<1>2. Pos(l, Mark) = m
  BY PosDef
<1> DEFINE asked == {i \in DOMAIN l : i > m /\ n \in {None, l[i]}}
<1>3. IF asked = {}
      THEN Finish(t, l)
      ELSE /\ list' = InsertAt(Without(l, Mark), Min(asked) - 1, Mark)
           /\ Call(t, n, l[Min(asked)], doc)
  BY <1>2 DEF Walk
<1>4. CASE asked = {}
  BY <1>3, <1>4
<1>5. CASE asked # {}
  <2>1. \E j \in asked : /\ \A i \in asked : j <= i
                         /\ IF n = None THEN j = m + 1 ELSE l[j] = n
    <3>1. PICK i \in asked : TRUE
      BY <1>5
    <3>2. CASE n = None
      <4>1. m + 1 \in 1 .. k
        BY <3>1, <1>1
      <4>2. m + 1 \in asked
        BY <4>1, <3>2, <1>1
      <4>3. \A h \in asked : m + 1 <= h
        BY <1>1
      <4> QED BY <3>2, <4>2, <4>3
    <3>3. CASE n # None
      <4>1. l[i] = n
        BY <3>1, <3>3
      <4>2. \A h \in asked : h = i
        BY <4>1, <3>3 DEF Linked, IsInjective
      <4>3. i <= i
        BY <3>1, <1>1
      <4> QED BY <3>1, <3>3, <4>1, <4>2, <4>3
    <3> QED BY <3>2, <3>3
  <2>2. PICK j \in asked : /\ \A i \in asked : j <= i
                           /\ IF n = None THEN j = m + 1 ELSE l[j] = n
    BY <2>1
  <2>3. Min(asked) = j
    BY <2>2, <1>1, MinAsked
  <2>4. m < j
    BY <1>1
  <2> QED BY <2>2, <2>3, <2>4, <1>3, <1>5
<1> QED BY <1>4, <1>5

\* Only t moves, to one of the places P, and nobody else's argument changes.
Moves(t, P) == /\ \E p \in P : at' = [at EXCEPT ![t] = p]
               /\ \A u \in Threads : u # t => who'[u] = who[u]

LEMMA FinishRing ==
    ASSUME Ring, NEW t \in Threads, inThread \in {None, t},
           NEW l, Linked(l), Finish(t, l)
    PROVE  /\ Ring' /\ ToSet(list)' = ToSet(l) \ {Mark}
           /\ at' = [at EXCEPT ![t] = "idle"]
           /\ who' = [who EXCEPT ![t] = None] /\ told' = told
<1>1. /\ inThread' = None /\ inNotify' = None
      /\ at' = [at EXCEPT ![t] = "idle"] /\ who' = [who EXCEPT ![t] = None]
      /\ told' = told
  BY DEF Finish
<1>2. Linked(list') /\ ToSet(list') = ToSet(l) \ {Mark}
  BY WithoutSet DEF Finish
<1>3. \A u \in Threads : at'[u] # "told" /\ u # None
  BY <1>1, ConfigAssumption DEF Ring
<1>4. fileThread' \in Threads \cup {None}
  BY DEF Ring, Finish
<1>5. at' \in [Threads -> Places] /\ who' \in [Threads -> Notifiers \cup {None}]
  BY <1>1 DEF Ring, Places
<1> QED BY <1>1, <1>2, <1>3, <1>4, <1>5 DEF Ring

LEMMA WalkRing ==
    ASSUME Ring, NEW t \in Threads, inThread \in {None, t},
           NEW n \in Notifiers \cup {None}, NEW doc \in Versions,
           NEW l, Linked(l), Mark \in ToSet(l), Walk(t, n, l, doc)
    PROVE  /\ Ring' /\ ToSet(list)' \ {Mark} = ToSet(l) \ {Mark}
           /\ Moves(t, {"idle", "told"})
<1>1. PICK m \in DOMAIN l : l[m] = Mark
  BY DEF ToSet
<1>2. CASE Finish(t, l)
  BY <1>2, FinishRing DEF Ring, Moves
<1>3. ASSUME NEW j \in DOMAIN l, m < j,
             list' = InsertAt(Without(l, Mark), j - 1, Mark),
             Call(t, n, l[j], doc)
      PROVE  /\ Ring' /\ ToSet(list)' \ {Mark} = ToSet(l) \ {Mark}
             /\ Moves(t, {"idle", "told"})
  <2>1. PICK k \in Nat : k = Len(l) /\ DOMAIN l = 1 .. k
    BY Lengths DEF Linked
  <2>2. j - 1 \in DOMAIN l /\ m <= j - 1 /\ j > j - 1 /\ (j - 1) + 1 = j
    BY <2>1, <1>3
  <2>3. /\ Linked(list') /\ ToSet(list') = ToSet(l) /\ DOMAIN list' = DOMAIN l
        /\ list'[j - 1] = Mark /\ list'[j] = l[j]
    BY <2>2, <1>1, <1>3, MovedSet
  <2>4. l[j] \in Notifiers /\ l[j] # None
    <3>1. l[j] # Mark
      BY <2>1, <1>1, <1>3 DEF Linked, IsInjective
    <3> QED BY <3>1, ConfigAssumption DEF Linked, Entry
  <2>5. AtMark(list', l[j])
    BY <2>2, <2>3 DEF AtMark
  <2>6. /\ inThread' = t /\ inNotify' = l[j] /\ fileThread' = fileThread
        /\ at' = [at EXCEPT ![t] = "told"] /\ who' = [who EXCEPT ![t] = n]
        /\ told' = [told EXCEPT ![l[j]] = doc]
    BY <1>3 DEF Call
  <2>7. \A u \in Threads : at'[u] = "told" <=> inThread' = u
    BY <2>6, ConfigAssumption DEF Ring
  <2>8. /\ at' \in [Threads -> Places] /\ who' \in [Threads -> Notifiers \cup {None}]
        /\ told' \in [Notifiers -> Versions]
    BY <2>6 DEF Ring, Places
  <2>9. Ring'
    BY <2>3, <2>4, <2>5, <2>6, <2>7, <2>8, ConfigAssumption DEF Ring
  <2> QED BY <2>3, <2>6, <2>9 DEF Ring, Moves
<1> QED BY <1>1, <1>2, <1>3, WalkDef

\* A thread that is not in a handler has one or all notifiers called.
LEMMA NotifyRing ==
    ASSUME Ring, NEW t \in Threads, at[t] # "told",
           NEW n \in Notifiers \cup {None}, NEW doc \in Versions,
           NEW l, Linked(l), Mark \in ToSet(l) <=> inThread # None,
           inThread # None => AtMark(l, inNotify), Notify(t, n, l, doc)
    PROVE  /\ Ring' /\ ToSet(list)' \ {Mark} = ToSet(l) \ {Mark}
           /\ Moves(t, {"idle", "told", "notify"})
<1>1. CASE inThread = None
  <2>1. Walk(t, n, <<Mark>> \o l, doc)
    BY <1>1 DEF Notify
  <2>2. /\ Linked(<<Mark>> \o l) /\ Mark \in ToSet(<<Mark>> \o l)
        /\ ToSet(<<Mark>> \o l) \ {Mark} = ToSet(l) \ {Mark}
    BY <1>1, Fronted
  <2> QED BY <1>1, <2>1, <2>2, WalkRing DEF Moves
<1>2. CASE inThread # None
  <2>1. /\ list' = l /\ at' = [at EXCEPT ![t] = "notify"]
        /\ who' = [who EXCEPT ![t] = n] /\ fileThread' = fileThread
        /\ inThread' = inThread /\ inNotify' = inNotify /\ told' = told
    BY <1>2 DEF Notify
  <2>2. \A u \in Threads : at'[u] = "told" <=> inThread' = u
    BY <2>1 DEF Ring
  <2>3. at' \in [Threads -> Places] /\ who' \in [Threads -> Notifiers \cup {None}]
    BY <2>1 DEF Ring, Places
  <2>4. Ring'
    BY <1>2, <2>1, <2>2, <2>3 DEF Ring
  <2> QED BY <2>1, <2>4 DEF Ring, Moves
<1> QED BY <1>1, <1>2

\* Steps that change neither the list nor the flags.
LEMMA StayRing ==
    ASSUME Ring, UNCHANGED <<list, inThread, inNotify, told>>,
           fileThread' \in Threads \cup {None},
           at' \in [Threads -> Places],
           who' \in [Threads -> Notifiers \cup {None}],
           \A t \in Threads : at'[t] = "told" <=> at[t] = "told"
    PROVE  Ring'
BY DEF Ring, Linked, AtMark

LEMMA WithoutRing ==
    ASSUME Ring, NEW x \in Notifiers \cup {None}, list' = Without(list, x),
           x # inNotify \/ inThread = None,
           UNCHANGED <<inThread, inNotify, told, fileThread>>,
           at' \in [Threads -> Places],
           who' \in [Threads -> Notifiers \cup {None}],
           \A t \in Threads : at'[t] = "told" <=> at[t] = "told"
    PROVE  Ring' /\ ToSet(list)' \subseteq ToSet(list)
<1>1. Linked(list') /\ ToSet(list') = ToSet(list) \ {x} /\ x # Mark
  BY WithoutSet, ConfigAssumption DEF Ring
<1>2. inThread # None => AtMark(list', inNotify)
  BY <1>1, WithoutKeeps DEF Ring
<1> QED BY <1>1, <1>2 DEF Ring

\* One lemma for each step of a thread: the list keeps its entries, but for the
\* ones that are linked or unlinked.
LEMMA WokenWalk ==
    ASSUME WalkIInv, NEW t \in Threads, NotifyWoken(t)
    PROVE  Ring' /\ ToSet(list)' \ {Mark} = ToSet(list) \ {Mark}
<1>1. /\ Linked(<<Mark>> \o list) /\ Mark \in ToSet(<<Mark>> \o list)
      /\ ToSet(<<Mark>> \o list) \ {Mark} = ToSet(list) \ {Mark}
  BY Fronted DEF NotifyWoken, WalkIInv, Ring
<1>2. /\ Walk(t, who[t], <<Mark>> \o list, xml) /\ inThread \in {None, t}
      /\ who[t] \in Notifiers \cup {None} /\ xml \in Versions
  BY DEF NotifyWoken, WalkIInv, Ring, Rest
<1> QED BY <1>1, <1>2, WalkRing DEF WalkIInv

LEMMA ToldWalk ==
    ASSUME WalkIInv, NEW t \in Threads, Told(t)
    PROVE  Ring' /\ ToSet(list)' \ {Mark} = ToSet(list) \ {Mark}
<1>1. inThread = t /\ inThread # None /\ AtMark(list, inNotify) /\ Linked(list)
  BY ConfigAssumption DEF Told, WalkIInv, Ring
<1>2. CASE who[t] # None
  <2>1. Finish(t, list)
    BY <1>2 DEF Told
  <2> QED BY <1>1, <2>1, FinishRing DEF WalkIInv
<1>3. CASE who[t] = None
  <2>1. Walk(t, None, Passed(list, inNotify), xml)
    BY <1>3 DEF Told
  <2>2. /\ Linked(Passed(list, inNotify))
        /\ ToSet(Passed(list, inNotify)) = ToSet(list)
    BY <1>1, PassedSet
  <2>3. Mark \in ToSet(list) /\ xml \in Versions
    BY <1>1 DEF WalkIInv, Ring, Rest
  <2> QED BY <1>1, <2>1, <2>2, <2>3, WalkRing DEF WalkIInv
<1> QED BY <1>2, <1>3

\* The entry that is linked is new.
LEMMA MonitorList ==
    ASSUME WalkIInv, NEW t \in Threads, NEW n \in Notifiers, Monitor(t, n)
    PROVE  /\ n \in Entry /\ n \notin ToSet(list) /\ n # Mark
           /\ Linked(Append(list, n))
           /\ ToSet(Append(list, n)) = ToSet(list) \cup {n}
           /\ Mark \in ToSet(Append(list, n)) <=> inThread # None
           /\ inThread # None => AtMark(Append(list, n), inNotify)
<1>1. n \in Entry /\ n \notin ToSet(list) /\ n # Mark
  BY ConfigAssumption DEF Monitor, WalkIInv, Entry
<1>2. /\ Linked(Append(list, n))
      /\ ToSet(Append(list, n)) = ToSet(list) \cup {n}
      /\ AtMark(list, inNotify) => AtMark(Append(list, n), inNotify)
  BY <1>1, Appended DEF WalkIInv, Ring
<1> QED BY <1>1, <1>2 DEF WalkIInv, Ring

LEMMA MonitorWalk ==
    ASSUME WalkIInv, NEW t \in Threads, NEW n \in Notifiers, Monitor(t, n)
    PROVE  Ring' /\ ToSet(list)' \ {Mark} = (ToSet(list) \cup {n}) \ {Mark}
<1>1. /\ n \in Entry /\ n \notin ToSet(list) /\ n # Mark
      /\ Linked(Append(list, n))
      /\ ToSet(Append(list, n)) = ToSet(list) \cup {n}
      /\ Mark \in ToSet(Append(list, n)) <=> inThread # None
      /\ inThread # None => AtMark(Append(list, n), inNotify)
  BY MonitorList
<1>2. at[t] = "idle" /\ xml \in Versions
  BY DEF Monitor, WalkIInv, Rest
<1>3. CASE list = <<>>
  <2>1. /\ list' = Append(list, n) /\ at' = [at EXCEPT ![t] = "add"]
        /\ UNCHANGED <<fileThread, inThread, inNotify, who, told>>
    BY <1>3 DEF Monitor
  <2>2. Ring
    BY DEF WalkIInv
  <2>3. \A u \in Threads : at'[u] = "told" <=> inThread' = u
    BY <1>2, <2>1, <2>2 DEF Ring
  <2>4. at' \in [Threads -> Places]
    BY <2>1, <2>2 DEF Ring, Places
  <2>5. Linked(list') /\ ToSet(list') = ToSet(list) \cup {n}
    BY <1>1, <2>1
  <2>6. inThread' # None => AtMark(list', inNotify')
    BY <1>1, <2>1
  <2>7. Mark \in ToSet(list') <=> inThread' # None
    BY <1>1, <2>1
  <2>8. Ring'
    BY <2>1, <2>2, <2>3, <2>4, <2>5, <2>6, <2>7 DEF Ring
  <2> QED BY <2>5, <2>8
<1>4. CASE list # <<>>
  <2>1. Notify(t, n, Append(list, n), xml)
    BY <1>4 DEF Monitor
  <2> QED BY <1>1, <1>2, <2>1, NotifyRing DEF WalkIInv
<1> QED BY <1>3, <1>4

\* ParseContent, and configChange by the program.
LEMMA ChangeWalk ==
    ASSUME WalkIInv, NEW t \in Threads, NEW n \in Notifiers \cup {None},
           at[t] # "told", Notify(t, n, list, content)
    PROVE  Ring' /\ ToSet(list)' \ {Mark} = ToSet(list) \ {Mark}
<1>1. /\ Linked(list) /\ content \in Versions
      /\ Mark \in ToSet(list) <=> inThread # None
      /\ inThread # None => AtMark(list, inNotify)
  BY DEF WalkIInv, Ring, Rest
<1> QED BY <1>1, NotifyRing DEF WalkIInv

LEMMA CloseWalk ==
    ASSUME "closeSelf" \notin Habits,
           WalkIInv, NEW t \in Threads, NEW n \in Notifiers \cup {None},
           CloseWait(t, n) \/ CloseWoken(t) \/ CloseInHandler(t, n)
    PROVE  Ring' /\ ToSet(list)' \ {Mark} \subseteq ToSet(list) \ {Mark}
<1>1. Ring
  BY DEF WalkIInv
<1>2. ASSUME NEW x \in Notifiers \cup {None}, CloseNow(t, x), inThread = None,
             at[t] # "told", UNCHANGED <<inThread, inNotify, told, fileThread>>
      PROVE  Ring' /\ ToSet(list)' \ {Mark} \subseteq ToSet(list) \ {Mark}
  <2>1. /\ list' = Without(list, x) /\ at' = [at EXCEPT ![t] = "idle"]
        /\ who' = [who EXCEPT ![t] = None]
    BY <1>2 DEF CloseNow
  <2>2. \A u \in Threads : at'[u] = "told" <=> at[u] = "told"
    BY <1>1, <1>2, <2>1 DEF Ring
  <2>3. at' \in [Threads -> Places] /\ who' \in [Threads -> Notifiers \cup {None}]
    BY <1>1, <2>1 DEF Ring, Places
  <2> QED BY <1>1, <1>2, <2>1, <2>2, <2>3, WithoutRing
<1>3. CASE CloseWait(t, n) /\ inThread = None
  BY <1>2, <1>3 DEF CloseWait
<1>4. CASE CloseWait(t, n) /\ inThread # None
  <2>1. /\ UNCHANGED <<list, inThread, inNotify, told, fileThread>>
        /\ at[t] = "idle" /\ at' = [at EXCEPT ![t] = "close"]
        /\ who' = [who EXCEPT ![t] = n]
    BY <1>4 DEF CloseWait
  <2>2. \A u \in Threads : at'[u] = "told" <=> at[u] = "told"
    BY <1>1, <2>1 DEF Ring
  <2>3. at' \in [Threads -> Places] /\ who' \in [Threads -> Notifiers \cup {None}]
    BY <1>1, <2>1 DEF Ring, Places
  <2>4. fileThread' \in Threads \cup {None}
    BY <1>1, <2>1 DEF Ring
  <2> QED BY <1>1, <2>1, <2>2, <2>3, <2>4, StayRing
<1>5. CASE CloseWoken(t)
  <2>1. who[t] \in Notifiers \cup {None}
    BY <1>1 DEF Ring
  <2> QED BY <1>2, <1>5, <2>1 DEF CloseWoken
<1>6. CASE CloseInHandler(t, n)
  <2>1. /\ list' = Without(list, n) /\ n # inNotify
        /\ UNCHANGED <<inThread, inNotify, told, fileThread, at, who>>
    BY <1>6 DEF CloseInHandler
  <2>2. at' \in [Threads -> Places] /\ who' \in [Threads -> Notifiers \cup {None}]
    BY <1>1, <2>1 DEF Ring
  <2>3. Ring' /\ ToSet(list)' \subseteq ToSet(list)
    BY <1>1, <2>1, <2>2, WithoutRing
  <2> QED BY <2>3
<1> QED BY <1>3, <1>4, <1>5, <1>6

\* The steps of the file monitor move one thread, which is not in a handler.
LEMMA MonitorStays ==
    ASSUME WalkIInv, NEW t \in Threads, at[t] # "told",
           UNCHANGED <<list, inThread, inNotify, told, who>>,
           \/ FileNotify(t)
           \/ \E p \in Places \ {"told"} : /\ at' = [at EXCEPT ![t] = p]
                                           /\ UNCHANGED fileThread
           \/ UNCHANGED <<at, fileThread>>
    PROVE  Ring'
<1>1. Ring
  BY DEF WalkIInv
<1>2. CASE UNCHANGED <<at, fileThread>>
  BY <1>1, <1>2, StayRing DEF Ring
<1>3. ASSUME NEW p \in Places \ {"told"}, at' = [at EXCEPT ![t] = p],
             fileThread' \in Threads \cup {None}
      PROVE  Ring'
  <2>1. \A u \in Threads : at'[u] = "told" <=> at[u] = "told"
    BY <1>1, <1>3 DEF Ring
  <2>2. at' \in [Threads -> Places] /\ who' \in [Threads -> Notifiers \cup {None}]
    BY <1>1, <1>3 DEF Ring
  <2> QED BY <1>1, <1>3, <2>1, <2>2, StayRing
<1>4. CASE FileNotify(t)
  <2>1. \E p \in {"read", "fileWait"} : at' = [at EXCEPT ![t] = p]
    BY <1>4 DEF FileNotify
  <2>2. fileThread' \in Threads \cup {None}
    BY <1>1, <1>4 DEF FileNotify, Ring
  <2> QED BY <1>3, <2>1, <2>2 DEF Places
<1> QED BY <1>1, <1>2, <1>3, <1>4 DEF Ring

LEMMA StepWalkIInv ==
    ASSUME "closeSelf" \notin Habits
    PROVE  WalkIInv /\ [Next]_vars => WalkIInv'
<1> SUFFICES ASSUME WalkIInv, [Next]_vars
             PROVE  WalkIInv'
  OBVIOUS
<1>1. Ring /\ Rest /\ ToSet(list) \ {Mark} \subseteq used
  BY DEF WalkIInv
<1>2. ASSUME NEW t \in Threads, NEW n \in Notifiers, Monitor(t, n)
      PROVE  WalkIInv'
  <2>1. used' = used \cup {n} /\ UNCHANGED <<fileVars, content, xml, calls>>
    BY <1>2 DEF Monitor
  <2> QED BY <1>1, <1>2, <2>1, MonitorWalk DEF WalkIInv, Rest, fileVars
<1>3. ASSUME NEW t \in Threads, NEW n \in Notifiers \cup {None},
             CloseWait(t, n) \/ CloseWoken(t) \/ CloseInHandler(t, n)
      PROVE  WalkIInv'
  <2>1. UNCHANGED <<fileVars, content, xml, used, calls>>
    BY <1>3 DEF CloseWait, CloseWoken, CloseInHandler
  <2> QED BY <1>1, <1>3, <2>1, CloseWalk DEF WalkIInv, Rest, fileVars
<1>4. ASSUME NEW t \in Threads, NEW n \in Notifiers \cup {None}, ConfigChange(t, n)
      PROVE  WalkIInv'
  <2>1. /\ at[t] # "told" /\ Notify(t, n, list, content)
        /\ UNCHANGED <<fileVars, content, used>>
    BY <1>4 DEF ConfigChange
  <2>2. xml' \in Versions /\ calls' \in 0 .. MaxCalls
    BY <1>1, <1>4, ConfigAssumption DEF ConfigChange, Rest
  <2> QED BY <1>1, <2>1, <2>2, ChangeWalk DEF WalkIInv, Rest, fileVars
<1>5. ASSUME NEW t \in Threads, ParseContent(t)
      PROVE  WalkIInv'
  <2>1. /\ at[t] # "told" /\ Notify(t, None, list, content)
        /\ UNCHANGED <<fileVars, content, used, calls>>
    BY <1>5 DEF ParseContent
  <2>2. xml' \in Versions
    BY <1>1, <1>5 DEF ParseContent, Rest
  <2> QED BY <1>1, <2>1, <2>2, ChangeWalk DEF WalkIInv, Rest, fileVars
<1>6. ASSUME NEW t \in Threads, NotifyWoken(t) \/ Told(t)
      PROVE  WalkIInv'
  <2>1. UNCHANGED <<fileVars, content, xml, used, calls>>
    BY <1>6 DEF NotifyWoken, Told
  <2> QED BY <1>1, <1>6, <2>1, WokenWalk, ToldWalk DEF WalkIInv, Rest, fileVars
<1>7. ASSUME NEW t \in Threads, FileWoken(t) \/ AddMonitor(t) \/ ReadFile(t)
      PROVE  WalkIInv'
  <2>1. /\ at[t] # "told" /\ "change" \in Places \ {"told"}
        /\ "idle" \in Places \ {"told"}
        /\ UNCHANGED <<list, inThread, inNotify, told, who, used>>
    BY <1>7 DEF FileWoken, AddMonitor, ReadFile, Places
  <2>2. \/ FileNotify(t)
        \/ \E p \in Places \ {"told"} : /\ at' = [at EXCEPT ![t] = p]
                                        /\ UNCHANGED fileThread
    BY <1>7, <2>1 DEF FileWoken, AddMonitor, ReadFile
  <2>3. Ring'
    BY <2>1, <2>2, MonitorStays
  <2>4. Rest'
    <3>1. 0 \in Versions
      BY ConfigAssumption DEF Versions
    <3>2. CASE FileWoken(t)
      BY <1>1, <3>2 DEF Rest, FileWoken, fileVars
    <3>3. CASE AddMonitor(t)
      BY <1>1, <3>3 DEF Rest, AddMonitor
    <3>4. CASE ReadFile(t)
      BY <1>1, <3>1, <3>4 DEF Rest, ReadFile, fileVars
    <3> QED BY <1>7, <3>2, <3>3, <3>4
  <2> QED BY <1>1, <2>1, <2>3, <2>4 DEF WalkIInv
<1>8. ASSUME OnTask \/ OnTimer \/ DiskChanges
      PROVE  WalkIInv'
  <2>1. UNCHANGED <<list, inThread, inNotify, told, who, used>>
    BY <1>8 DEF OnTask, OnTimer, DiskChanges
  <2>2. CASE OnTimer
    <3>1. FileNotify(Event) \/ UNCHANGED <<at, fileThread>>
      BY <2>2 DEF OnTimer
    <3>2. at[Event] # "told" /\ Event \in Threads
      BY <2>2, ConfigAssumption DEF OnTimer
    <3>3. Ring'
      BY <2>1, <3>1, <3>2, MonitorStays
    <3>4. Rest'
      BY <1>1, <2>2 DEF Rest, OnTimer
    <3> QED BY <1>1, <2>1, <3>3, <3>4 DEF WalkIInv
  <2>3. CASE OnTask \/ DiskChanges
    <3>1. UNCHANGED <<at, fileThread>>
      BY <2>3 DEF OnTask, DiskChanges
    <3>2. Ring'
      BY <1>1, <2>1, <3>1, StayRing DEF Ring
    <3>3. Rest'
      <4>1. CASE OnTask
        BY <1>1, <4>1 DEF Rest, OnTask
      <4>2. CASE DiskChanges
        <5>1. disk' \in Versions
          BY <1>1, <4>2, ConfigAssumption DEF Rest, DiskChanges, Versions
        <5> QED BY <1>1, <4>2, <5>1 DEF Rest, DiskChanges
      <4> QED BY <2>3, <4>1, <4>2
    <3> QED BY <1>1, <2>1, <3>2, <3>3 DEF WalkIInv
  <2> QED BY <1>8, <2>2, <2>3
<1>9. CASE UNCHANGED vars
  <2>1. Rest'
    BY <1>1, <1>9 DEF Rest, vars, fileVars
  <2>2. Ring'
    BY <1>1, <1>9, StayRing DEF vars, Ring
  <2> QED BY <1>1, <1>9, <2>1, <2>2 DEF WalkIInv, vars
<1> QED BY <1>2, <1>3, <1>4, <1>5, <1>6, <1>7, <1>8, <1>9 DEF Next, Proceed

LEMMA InitWalkIInv == Init => WalkIInv
<1> SUFFICES ASSUME Init
             PROVE  WalkIInv
  OBVIOUS
<1>1. Rest
  <2>1. 0 \in Versions /\ 1 \in Versions /\ 0 \in 0 .. MaxCalls
    BY ConfigAssumption DEF Versions
  <2> QED BY <2>1 DEF Init, Rest
<1>2. list = <<>> /\ Linked(list) /\ ToSet(list) = {}
  BY DEF Init, Linked, IsInjective, ToSet
<1>3. 0 \in Versions
  BY ConfigAssumption DEF Versions
<1>4. \A t \in Threads : at[t] # "told" /\ t # None
  BY ConfigAssumption DEF Init
<1>5. /\ at \in [Threads -> Places] /\ who \in [Threads -> Notifiers \cup {None}]
      /\ told \in [Notifiers -> Versions]
  BY <1>3 DEF Init, Places
<1>6. inThread = None /\ inNotify = None /\ fileThread = None
  BY DEF Init
<1>7. Ring
  BY <1>2, <1>4, <1>5, <1>6 DEF Ring
<1> QED BY <1>1, <1>2, <1>7 DEF WalkIInv

LEMMA WalkInvariance ==
    ASSUME "closeSelf" \notin Habits
    PROVE  Spec => []WalkIInv
BY InitWalkIInv, StepWalkIInv, PTL DEF Spec

\* Whatever is registered, closed, called and written by whichever thread, and
\* whichever other notifiers a handler closes: the list, its marker and the
\* flags agree, and the notifier that is in a callback is in the list.
THEOREM ConfigWalkConsistent ==
    ASSUME "closeSelf" \notin Habits
    PROVE  Spec => []WalkConsistent
<1>1. WalkIInv => WalkConsistent
  <2> SUFFICES ASSUME WalkIInv
               PROVE  WalkConsistent
    OBVIOUS
  <2>1. Ring /\ Rest
    BY DEF WalkIInv
  <2>2. ToSet(list) \subseteq Notifiers \cup {Mark} /\ IsInjective(list)
    BY <2>1 DEF Ring, Linked, Entry, ToSet
  <2>3. TypeOK
    BY <2>1, <2>2 DEF Ring, Rest, TypeOK
  <2>4. ClosedIsQuiet
    BY <2>1 DEF Ring, AtMark, ToSet, ClosedIsQuiet
  <2> QED BY <2>3, <2>4 DEF WalkConsistent
<1> QED BY <1>1, WalkInvariance, PTL

-------------------------------------------------------------------------------
(* Everybody is told                                                          *)

\* What becomes of an entry when a thread walks: it is called, or not reached
\* as it was not asked for or behind, or ahead.
LEMMA WalkTells ==
    ASSUME Ring, NEW t \in Threads, NEW n \in Notifiers \cup {None}, NEW doc,
           NEW l, Linked(l), NEW m \in DOMAIN l, l[m] = Mark,
           Walk(t, n, l, doc), NEW q \in DOMAIN l, l[q] # Mark
    PROVE  \/ told'[l[q]] = doc
           \/ told'[l[q]] = told[l[q]] /\ (q < m \/ n \notin {None, l[q]})
           \/ at'[t] = "told" /\ n = None /\ who'[t] = None /\ Ahead(list', l[q])
<1>1. PICK k \in Nat : k = Len(l) /\ DOMAIN l = 1 .. k
  BY Lengths DEF Linked
<1>2. q # m /\ l[q] \in Notifiers
  BY DEF Linked, Entry
<1>3. CASE /\ Finish(t, l)
           /\ \A i \in DOMAIN l : i > m => n \notin {None, l[i]}
  <2>1. told' = told
    BY <1>3 DEF Finish
  <2> QED BY <1>1, <1>2, <1>3, <2>1
<1>4. ASSUME NEW j \in DOMAIN l, m < j,
             IF n = None THEN j = m + 1 ELSE l[j] = n,
             list' = InsertAt(Without(l, Mark), j - 1, Mark),
             Call(t, n, l[j], doc)
      PROVE  \/ told'[l[q]] = doc
             \/ told'[l[q]] = told[l[q]] /\ (q < m \/ n \notin {None, l[q]})
             \/ /\ at'[t] = "told" /\ n = None /\ who'[t] = None
                /\ Ahead(list', l[q])
  <2>1. /\ told' = [told EXCEPT ![l[j]] = doc] /\ told \in [Notifiers -> Versions]
        /\ at' = [at EXCEPT ![t] = "told"] /\ at \in [Threads -> Places]
        /\ who' = [who EXCEPT ![t] = n] /\ who \in [Threads -> Notifiers \cup {None}]
    BY <1>4 DEF Call, Ring
  <2>2. CASE q = j
    BY <2>1, <2>2, <1>2
  <2>3. CASE q # j /\ n # None
    <3>1. l[q] # l[j] /\ l[j] = n
      BY <2>3, <1>4 DEF Linked, IsInjective
    <3> QED BY <3>1, <2>1, <2>3, <1>2
  <2>4. CASE q < m
    <3>1. l[q] # l[j]
      BY <2>4, <1>1, <1>4 DEF Linked, IsInjective
    <3> QED BY <3>1, <2>1, <2>4, <1>2
  <2>5. CASE n = None /\ j < q
    <3>1. j - 1 \in DOMAIN l /\ m <= j - 1 /\ q > j - 1 /\ (j - 1) + 1 < q
      BY <2>5, <1>1, <1>4
    <3>2. list'[j - 1] = Mark /\ list'[q] = l[q] /\ DOMAIN list' = DOMAIN l
      BY <3>1, <1>4, MovedSet
    <3>3. Ahead(list', l[q])
      BY <3>1, <3>2 DEF Ahead
    <3> QED BY <3>3, <2>1, <2>5
  <2>6. q = j \/ n # None \/ q < m \/ j < q
    BY <1>1, <1>2, <1>4
  <2> QED BY <2>2, <2>3, <2>4, <2>5, <2>6
<1> QED BY <1>3, <1>4, WalkDef

\* Everybody who is asked for is called, or will be; the others are left alone.
LEMMA NotifyTells ==
    ASSUME Ring, NEW t \in Threads, NEW n \in Notifiers \cup {None}, NEW doc,
           NEW l, Linked(l), Mark \in ToSet(l) <=> inThread # None,
           Notify(t, n, l, doc), NEW x \in ToSet(l) \ {Mark}
    PROVE  \/ told'[x] = doc
           \/ told'[x] = told[x] /\ n \notin {None, x}
           \/ n \in {None, x} /\ Coming(x)'
<1>1. CASE inThread = None
  <2> DEFINE r == <<Mark>> \o l
  <2>1. /\ Walk(t, n, r, doc) /\ Linked(r) /\ ToSet(r) = ToSet(l) \cup {Mark}
        /\ 1 \in DOMAIN r /\ r[1] = Mark
    BY <1>1, Fronted DEF Notify
  <2> HIDE DEF r
  <2>2. PICK q \in DOMAIN r : r[q] = x
    BY <2>1 DEF ToSet
  <2>3. ~(q < 1)
    <3>1. PICK k \in Nat : k = Len(r) /\ DOMAIN r = 1 .. k
      BY <2>1, Lengths DEF Linked
    <3> QED BY <3>1
  <2>4. \/ told'[x] = doc
        \/ told'[x] = told[x] /\ n \notin {None, x}
        \/ at'[t] = "told" /\ n = None /\ who'[t] = None /\ Ahead(list', x)
    BY <2>1, <2>2, <2>3, WalkTells
  <2> QED BY <2>4 DEF Coming
<1>2. CASE inThread # None
  <2>1. /\ at' = [at EXCEPT ![t] = "notify"] /\ who' = [who EXCEPT ![t] = n]
        /\ told' = told
    BY <1>2 DEF Notify
  <2>2. at'[t] = "notify" /\ who'[t] = n
    BY <2>1 DEF Ring
  <2> QED BY <2>1, <2>2 DEF Coming
<1> QED BY <1>1, <1>2

\* Whoever another thread is going to call stays so.
LEMMA NotifyKeeps ==
    ASSUME Ring, NEW t \in Threads, at[t] \notin {"told", "notify"},
           NEW n, NEW doc, NEW l, Notify(t, n, l, doc),
           Moves(t, {"idle", "told", "notify"}),
           NEW x, Ahead(list, x) => Ahead(l, x), Coming(x)
    PROVE  Coming(x)'
<1>1. PICK u \in Threads : \/ at[u] = "notify" /\ who[u] \in {None, x}
                           \/ at[u] = "told" /\ who[u] = None /\ Ahead(list, x)
  BY DEF Coming
<1>2. u # t /\ at'[u] = at[u] /\ who'[u] = who[u]
  BY <1>1 DEF Moves, Ring
<1>3. CASE at[u] = "told" /\ who[u] = None /\ Ahead(list, x)
  <2>1. inThread # None
    BY <1>3, ConfigAssumption DEF Ring
  <2>2. list' = l
    BY <2>1 DEF Notify
  <2> QED BY <1>2, <1>3, <2>2 DEF Coming
<1>4. CASE at[u] = "notify" /\ who[u] \in {None, x}
  BY <1>2, <1>4 DEF Coming
<1> QED BY <1>1, <1>3, <1>4

\* A thread that is not on its way to read the file leaves those alone that are.
LEMMA ReadingKept ==
    ASSUME Ring, NEW t \in Threads, NEW P, Moves(t, P),
           at[t] \notin {"add", "fileWait", "read", "change"},
           watched' = watched, Reading
    PROVE  Reading'
<1>1. PICK u \in Threads : \/ at[u] \in {"fileWait", "read", "change"}
                           \/ at[u] = "add" /\ ~watched
  BY DEF Reading
<1>2. at'[u] = at[u]
  BY <1>1 DEF Moves, Ring
<1> QED BY <1>1, <1>2 DEF Reading

LEMMA OnItsWayKept ==
    ASSUME Ring, OnItsWay, NEW t \in Threads, NEW P, Moves(t, P),
           at[t] \notin {"add", "fileWait", "read"},
           UNCHANGED <<disk, seen, watched, notice, armed, content>>,
           xml' = content \/ (xml' = xml /\ at[t] # "change"),
           \/ used' = {} \/ used # {} \/ watched \/ at'[t] = "add"
    PROVE  OnItsWay'
<1>1. \A u \in Threads : at[u] \in {"add", "fileWait", "read"} => at'[u] = at[u]
  BY DEF Moves, Ring
<1>2. \A u \in Threads : at[u] = "change" /\ xml' = xml /\ at[t] # "change"
                            => at'[u] = at[u]
  BY DEF Moves, Ring
<1>3. used' # {} /\ ~watched' => \E u \in Threads : at'[u] = "add"
  BY <1>1 DEF OnItsWay
<1>4. watched' /\ disk' = seen'
        => content' = disk' \/ \E u \in Threads : at'[u] \in {"fileWait", "read"}
  BY <1>1 DEF OnItsWay
<1>5. xml' = content' \/ \E u \in Threads : at'[u] = "change"
  BY <1>2 DEF OnItsWay
<1>6. seen' <= disk' /\ (watched' /\ disk' # seen' => notice' \/ armed')
  BY DEF OnItsWay
<1> QED BY <1>3, <1>4, <1>5, <1>6 DEF OnItsWay

LEMMA WokenTold ==
    ASSUME ToldIInv, NEW t \in Threads, NotifyWoken(t)
    PROVE  ToldIInv'
<1>1. WalkIInv /\ Ring /\ OnItsWay
  BY DEF ToldIInv, WalkIInv
<1> DEFINE l == <<Mark>> \o list
<1>2. /\ at[t] = "notify" /\ inThread = None /\ Walk(t, who[t], l, xml)
      /\ UNCHANGED <<fileVars, content, xml, used, calls>>
  BY DEF NotifyWoken
<1>3. /\ Linked(l) /\ ToSet(l) = ToSet(list) \cup {Mark} /\ Mark \notin ToSet(list)
      /\ 1 \in DOMAIN l /\ l[1] = Mark
  BY <1>1, <1>2, Fronted DEF Ring
<1> HIDE DEF l
<1>4. who[t] \in Notifiers \cup {None} /\ xml \in Versions /\ inThread \in {None, t}
  BY <1>1, <1>2 DEF Ring, WalkIInv, Rest
<1>5. /\ Ring' /\ ToSet(list)' \ {Mark} = ToSet(l) \ {Mark}
      /\ Moves(t, {"idle", "told"})
  BY <1>1, <1>2, <1>3, <1>4, WalkRing
<1>6. WalkIInv'
  BY <1>1, <1>2, <1>3, <1>5 DEF WalkIInv, Rest, fileVars
<1>7. OnItsWay'
  BY <1>1, <1>2, <1>5, OnItsWayKept DEF fileVars, OnItsWay
<1>8. ASSUME NEW x \in ToSet(list)' \ {Mark}
      PROVE  Expects(x)'
  <2>1. x \in ToSet(list) \ {Mark} /\ Expects(x)
    BY <1>3, <1>5, <1>8 DEF ToldIInv
  <2>2. PICK q \in DOMAIN l : l[q] = x
    BY <1>3, <2>1 DEF ToSet
  <2>3. ~(q < 1)
    <3>1. PICK k \in Nat : k = Len(l) /\ DOMAIN l = 1 .. k
      BY <1>3, Lengths DEF Linked
    <3> QED BY <3>1
  <2>4. \/ told'[x] = xml
        \/ told'[x] = told[x] /\ who[t] \notin {None, x}
        \/ at'[t] = "told" /\ who'[t] = None /\ Ahead(list', x)
    BY <1>1, <1>2, <1>3, <1>4, <2>1, <2>2, <2>3, WalkTells
  <2>5. CASE at'[t] = "told" /\ who'[t] = None /\ Ahead(list', x)
    BY <2>5 DEF Expects, Coming
  <2>6. CASE told'[x] = xml
    BY <1>2, <2>6 DEF Expects
  <2>7. CASE told'[x] = told[x] /\ who[t] \notin {None, x}
    <3>1. CASE told[x] = xml
      BY <1>2, <2>7, <3>1 DEF Expects
    <3>2. CASE Reading
      BY <1>1, <1>2, <1>5, <3>2, ReadingKept DEF Expects, fileVars
    <3>3. CASE Coming(x)
      <4>1. PICK u \in Threads : at[u] = "notify" /\ who[u] \in {None, x}
        BY <1>1, <1>2, <3>3, ConfigAssumption DEF Coming, Ring
      <4>2. u # t
        BY <2>7, <4>1
      <4>3. at'[u] = "notify" /\ who'[u] \in {None, x}
        BY <1>1, <1>5, <4>1, <4>2 DEF Moves, Ring
      <4> QED BY <4>3 DEF Expects, Coming
    <3> QED BY <2>1, <3>1, <3>2, <3>3 DEF Expects
  <2> QED BY <2>4, <2>5, <2>6, <2>7
<1> QED BY <1>6, <1>7, <1>8 DEF ToldIInv

LEMMA ToldTold ==
    ASSUME ToldIInv, NEW t \in Threads, Told(t)
    PROVE  ToldIInv'
<1>1. WalkIInv /\ Ring /\ OnItsWay
  BY DEF ToldIInv, WalkIInv
<1>2. /\ at[t] = "told" /\ inThread = t /\ inThread # None
      /\ AtMark(list, inNotify) /\ Linked(list)
      /\ UNCHANGED <<fileVars, content, xml, used, calls>>
  BY <1>1, ConfigAssumption DEF Told, Ring
<1>3. xml \in Versions /\ Mark \in ToSet(list)
  BY <1>1, <1>2 DEF WalkIInv, Ring, Rest
\* What another thread is going to call.
<1>4. ASSUME NEW x, Coming(x), Moves(t, {"idle", "told"}),
             ~(who[t] = None /\ Ahead(list, x))
      PROVE  Coming(x)'
  <2>1. PICK u \in Threads : \/ at[u] = "notify" /\ who[u] \in {None, x}
                             \/ at[u] = "told" /\ who[u] = None /\ Ahead(list, x)
    BY <1>4 DEF Coming
  <2>2. at[u] = "told" => u = t
    BY <1>1, <1>2 DEF Ring
  <2>3. at[u] = "notify" /\ who[u] \in {None, x} /\ u # t
    BY <1>2, <1>4, <2>1, <2>2
  <2>4. at'[u] = "notify" /\ who'[u] \in {None, x}
    BY <1>1, <1>4, <2>3 DEF Moves, Ring
  <2> QED BY <2>4 DEF Coming
<1>5. ASSUME Ring', Moves(t, {"idle", "told"}),
             ToSet(list)' \ {Mark} = ToSet(list) \ {Mark},
             \A x \in ToSet(list) \ {Mark} :
                \/ told'[x] \in {told[x], xml}
                   /\ ~(told'[x] # xml /\ who[t] = None /\ Ahead(list, x))
                \/ Coming(x)'
      PROVE  ToldIInv'
  <2>1. WalkIInv'
    BY <1>1, <1>2, <1>5 DEF WalkIInv, Rest, fileVars
  <2>2. OnItsWay'
    BY <1>1, <1>2, <1>5, OnItsWayKept DEF fileVars, OnItsWay
  <2>3. ASSUME NEW x \in ToSet(list)' \ {Mark}
        PROVE  Expects(x)'
    <3>1. x \in ToSet(list) \ {Mark} /\ Expects(x)
      BY <1>5, <2>3 DEF ToldIInv
    <3>2. CASE told[x] = xml
      BY <1>2, <1>5, <3>1, <3>2 DEF Expects
    <3>3. CASE Reading
      BY <1>1, <1>2, <1>5, <3>3, ReadingKept DEF Expects, fileVars
    <3>4. CASE Coming(x)
      <4>1. CASE who[t] = None /\ Ahead(list, x)
        BY <1>2, <1>5, <3>1, <4>1 DEF Expects
      <4>2. CASE ~(who[t] = None /\ Ahead(list, x))
        BY <1>4, <1>5, <3>4, <4>2 DEF Expects
      <4> QED BY <4>1, <4>2
    <3> QED BY <3>1, <3>2, <3>3, <3>4 DEF Expects
  <2> QED BY <2>1, <2>2, <2>3 DEF ToldIInv
<1>6. CASE who[t] # None
  <2>1. Finish(t, list)
    BY <1>6 DEF Told
  <2>2. /\ Ring' /\ ToSet(list)' = ToSet(list) \ {Mark}
        /\ at' = [at EXCEPT ![t] = "idle"]
        /\ who' = [who EXCEPT ![t] = None] /\ told' = told
    BY <1>1, <1>2, <2>1, FinishRing
  <2>3. Moves(t, {"idle", "told"})
    BY <1>1, <2>2 DEF Moves, Ring
  <2> QED BY <1>5, <1>6, <2>2, <2>3
<1>7. CASE who[t] = None
  <2> DEFINE l == Passed(list, inNotify)
  <2>1. Walk(t, None, l, xml)
    BY <1>7 DEF Told
  <2>2. /\ Linked(l) /\ ToSet(l) = ToSet(list)
        /\ \A y : Ahead(list, y) => \E i, j \in DOMAIN l :
                                       l[i] = Mark /\ l[j] = y /\ i < j
    BY <1>2, PassedSet
  <2> HIDE DEF l
  <2>3. Ring' /\ ToSet(list)' \ {Mark} = ToSet(l) \ {Mark} /\ Moves(t, {"idle", "told"})
    BY <1>1, <1>2, <1>3, <2>1, <2>2, WalkRing
  <2>4. PICK m \in DOMAIN l : l[m] = Mark
    BY <1>3, <2>2 DEF ToSet
  <2>5. ASSUME NEW x \in ToSet(list) \ {Mark}
        PROVE  \/ told'[x] \in {told[x], xml}
                  /\ ~(told'[x] # xml /\ who[t] = None /\ Ahead(list, x))
               \/ Coming(x)'
    <3>1. PICK q \in DOMAIN l : l[q] = x
      BY <2>2, <2>5 DEF ToSet
    <3>2. \/ told'[x] = xml
          \/ told'[x] = told[x] /\ q < m
          \/ at'[t] = "told" /\ who'[t] = None /\ Ahead(list', x)
      BY <1>1, <1>2, <2>1, <2>2, <2>4, <2>5, <3>1, WalkTells
    <3>3. ASSUME q < m
          PROVE  ~Ahead(list, x)
      <4>1. SUFFICES ASSUME Ahead(list, x)
                     PROVE  FALSE
        OBVIOUS
      <4>2. PICK i, j \in DOMAIN l : l[i] = Mark /\ l[j] = x /\ i < j
        BY <2>2, <4>1
      <4>3. i = m /\ j = q
        BY <2>2, <2>4, <3>1, <4>2 DEF Linked, IsInjective
      <4>4. PICK k \in Nat : k = Len(l) /\ DOMAIN l = 1 .. k
        BY <2>2, Lengths DEF Linked
      <4> QED BY <3>3, <4>2, <4>3, <4>4
    <3> QED BY <3>2, <3>3 DEF Coming
  <2> QED BY <1>5, <2>2, <2>3, <2>5
<1> QED BY <1>6, <1>7

\* What a call of Notify leaves to be shown is that the document may be new.
LEMMA NotifyTold ==
    ASSUME ToldIInv, WalkIInv', OnItsWay', NEW t \in Threads,
           at[t] \in {"idle", "change"},
           NEW n \in Notifiers \cup {None}, NEW doc \in Versions,
           NEW l, Linked(l), Mark \in ToSet(l) <=> inThread # None,
           inThread # None => AtMark(l, inNotify),
           Notify(t, n, l, doc), xml' = doc, watched' = watched,
           \A y : Ahead(list, y) => Ahead(l, y),
           \A x \in ToSet(l) \ {Mark} : x \in ToSet(list) \/ n \in {None, x},
           n = None \/ (at[t] = "idle" /\ (xml' = xml \/ Reading))
    PROVE  ToldIInv'
<1>1. Ring
  BY DEF ToldIInv, WalkIInv
<1>2. /\ ToSet(list)' \ {Mark} = ToSet(l) \ {Mark}
      /\ Moves(t, {"idle", "told", "notify"})
  BY <1>1, NotifyRing
<1>3. ASSUME NEW x \in ToSet(list)' \ {Mark}
      PROVE  Expects(x)'
  <2>1. x \in ToSet(l) \ {Mark}
    BY <1>2
  <2>2. \/ told'[x] = doc
        \/ told'[x] = told[x] /\ n \notin {None, x}
        \/ n \in {None, x} /\ Coming(x)'
    BY <1>1, <2>1, NotifyTells
  <2>3. CASE told'[x] = doc \/ Coming(x)'
    BY <2>3 DEF Expects
  <2>4. CASE told'[x] = told[x] /\ n \notin {None, x}
    <3>1. Expects(x) /\ at[t] = "idle" /\ (xml' = xml \/ Reading)
      BY <2>1, <2>4 DEF ToldIInv
    <3>2. CASE Reading
      <4>1. Reading'
        BY <1>1, <1>2, <3>1, <3>2, ReadingKept
      <4> QED BY <4>1 DEF Expects
    <3>3. CASE told[x] = xml /\ xml' = xml
      BY <2>4, <3>3 DEF Expects
    <3>4. CASE Coming(x)
      <4>1. Coming(x)'
        BY <1>1, <1>2, <3>1, <3>4, NotifyKeeps
      <4> QED BY <4>1 DEF Expects
    <3> QED BY <3>1, <3>2, <3>3, <3>4 DEF Expects
  <2> QED BY <2>2, <2>3, <2>4
<1> QED BY <1>3 DEF ToldIInv

LEMMA ChangeTold ==
    ASSUME ToldIInv, NEW t \in Threads, NEW n \in Notifiers \cup {None},
           ConfigChange(t, n) \/ (n = None /\ ParseContent(t)), WalkIInv'
    PROVE  ToldIInv'
<1>1. WalkIInv /\ Ring /\ OnItsWay /\ content \in Versions
  BY DEF ToldIInv, WalkIInv, Rest
<1>2. /\ Linked(list)
      /\ Mark \in ToSet(list) <=> inThread # None
      /\ inThread # None => AtMark(list, inNotify)
  BY <1>1 DEF Ring
<1>3. /\ Notify(t, n, list, content) /\ xml' = content
      /\ UNCHANGED <<fileVars, content, used>>
      /\ at[t] = "idle" \/ (at[t] = "change" /\ n = None)
  BY DEF ConfigChange, ParseContent
<1>4. Moves(t, {"idle", "told", "notify"})
  BY <1>1, <1>2, <1>3, NotifyRing
<1>5. OnItsWay'
  <2>1. /\ UNCHANGED <<disk, seen, watched, notice, armed, content>>
        /\ at[t] \notin {"add", "fileWait", "read"}
        /\ used' = {} \/ used # {} \/ watched \/ at'[t] = "add"
    BY <1>3 DEF fileVars
  <2>2. xml' = content \/ (xml' = xml /\ at[t] # "change")
    BY <1>3
  <2>3. Ring /\ OnItsWay
    BY <1>1
  <2> QED BY ONLY <1>4, <2>1, <2>2, <2>3, OnItsWayKept
<1>6. xml' = xml \/ Reading
  BY <1>1, <1>3 DEF OnItsWay, Reading
<1> QED BY <1>1, <1>2, <1>3, <1>5, <1>6, NotifyTold DEF fileVars

LEMMA MonitorTold ==
    ASSUME ToldIInv, NEW t \in Threads, NEW n \in Notifiers, Monitor(t, n),
           "reopen" \notin Habits, WalkIInv'
    PROVE  ToldIInv'
<1>1. WalkIInv /\ Ring /\ OnItsWay /\ xml \in Versions
  BY DEF ToldIInv, WalkIInv, Rest
<1>2. /\ at[t] = "idle" /\ used' = used \cup {n}
      /\ UNCHANGED <<fileVars, content, xml, calls>>
  BY DEF Monitor
<1>3. /\ n \in Entry /\ n \notin ToSet(list) /\ n # Mark
      /\ Linked(Append(list, n))
      /\ ToSet(Append(list, n)) = ToSet(list) \cup {n}
      /\ Mark \in ToSet(Append(list, n)) <=> inThread # None
      /\ inThread # None => AtMark(Append(list, n), inNotify)
  BY <1>1, MonitorList
<1>4. CASE list = <<>>
  <2>1. /\ list' = <<n>> /\ at' = [at EXCEPT ![t] = "add"] /\ who' = who
        /\ ~watched
    BY <1>4 DEF Monitor
  <2>2. Moves(t, {"add"}) /\ at'[t] = "add"
    BY <1>1, <2>1 DEF Moves, Ring
  <2>3. OnItsWay'
    BY <1>1, <1>2, <2>2, OnItsWayKept DEF fileVars, OnItsWay
  <2>4. Reading'
    BY <1>2, <2>1, <2>2 DEF Reading, fileVars
  <2> QED BY <2>3, <2>4 DEF ToldIInv, Expects
<1>5. CASE list # <<>>
  <2>1. Notify(t, n, Append(list, n), xml)
    BY <1>5 DEF Monitor
  <2>2. used # {}
    <3>1. PICK y : y \in ToSet(list)
      <4>1. PICK k \in Nat : k = Len(list) /\ DOMAIN list = 1 .. k
        BY <1>1, Lengths DEF Ring, Linked
      <4>2. k # 0
        BY <1>1, <1>5, <4>1 DEF Ring, Linked
      <4>3. 1 \in 1 .. k
        BY <4>1, <4>2
      <4> QED BY <4>1, <4>3 DEF ToSet
    <3>2. CASE y # Mark
      BY <1>1, <3>1, <3>2 DEF WalkIInv
    <3>3. CASE y = Mark
      <4>1. inNotify \in ToSet(list) \ {Mark}
        BY <1>1, <3>1, <3>3, ConfigAssumption DEF Ring, AtMark, ToSet
      <4> QED BY <1>1, <4>1 DEF WalkIInv
    <3> QED BY <3>2, <3>3
  <2>3. Moves(t, {"idle", "told", "notify"})
    BY <1>1, <1>2, <1>3, <2>1, NotifyRing
  <2>4. OnItsWay'
    BY <1>1, <1>2, <2>2, <2>3, OnItsWayKept DEF fileVars, OnItsWay
  <2>5. \A y : Ahead(list, y) => Ahead(Append(list, n), y)
    BY <1>1, <1>3, Appended DEF Ring
  <2> QED BY <1>1, <1>2, <1>3, <2>1, <2>4, <2>5, NotifyTold DEF fileVars
<1> QED BY <1>4, <1>5

\* The steps that leave the document and who was told of it, and every call
\* that is to come.
LEMMA QuietTold ==
    ASSUME ToldIInv, WalkIInv', OnItsWay', Reading => Reading',
           UNCHANGED <<xml, told>>, ToSet(list') \subseteq ToSet(list),
           \A x \in ToSet(list') \ {Mark} : Coming(x) => Coming(x)'
    PROVE  ToldIInv'
<1>1. ASSUME NEW x \in ToSet(list') \ {Mark}
      PROVE  Expects(x)'
  <2>1. Expects(x)
    BY <1>1 DEF ToldIInv
  <2>2. told'[x] = told[x] /\ xml' = xml
    OBVIOUS
  <2> QED BY <1>1, <2>1, <2>2 DEF Expects
<1> QED BY <1>1 DEF ToldIInv

LEMMA CloseTold ==
    ASSUME "closeSelf" \notin Habits,
           ToldIInv, NEW t \in Threads, NEW n \in Notifiers \cup {None},
           CloseWait(t, n) \/ CloseWoken(t) \/ CloseInHandler(t, n), WalkIInv'
    PROVE  ToldIInv'
<1>1. WalkIInv /\ Ring /\ OnItsWay /\ Linked(list)
  BY DEF ToldIInv, WalkIInv, Ring
<1>2. UNCHANGED <<fileVars, content, xml, told, used>>
  BY DEF CloseWait, CloseWoken, CloseInHandler
<1>3. ASSUME NEW P, Moves(t, P),
             at[t] \notin {"add", "fileWait", "read", "change"}
      PROVE  OnItsWay' /\ (Reading => Reading')
  BY <1>1, <1>2, <1>3, OnItsWayKept, ReadingKept DEF fileVars, OnItsWay
<1>4. ASSUME NEW x \in Notifiers \cup {None}, CloseNow(t, x), inThread = None,
             at[t] \in {"idle", "close"}
      PROVE  ToldIInv'
  <2>1. /\ list' = Without(list, x) /\ at' = [at EXCEPT ![t] = "idle"]
        /\ who' = [who EXCEPT ![t] = None]
    BY <1>4 DEF CloseNow
  <2>2. Moves(t, {"idle"})
    BY <1>1, <2>1 DEF Moves, Ring
  <2>3. ToSet(list') \subseteq ToSet(list)
    BY <1>1, <2>1, WithoutSet
  <2>4. ASSUME NEW y, Coming(y)
        PROVE  Coming(y)'
    <3>1. PICK u \in Threads : at[u] = "notify" /\ who[u] \in {None, y}
      BY <1>1, <1>4, <2>4, ConfigAssumption DEF Coming, Ring
    <3>2. at'[u] = "notify" /\ who'[u] \in {None, y}
      BY <1>1, <1>4, <2>1, <3>1 DEF Ring
    <3> QED BY <3>2 DEF Coming
  <2>5. OnItsWay' /\ (Reading => Reading')
    BY <1>3, <1>4, <2>2
  <2> QED BY <1>2, <2>3, <2>4, <2>5, QuietTold
<1>5. CASE CloseWait(t, n) /\ inThread # None
  <2>1. /\ list' = list /\ at[t] = "idle" /\ at' = [at EXCEPT ![t] = "close"]
        /\ who' = [who EXCEPT ![t] = n]
    BY <1>5 DEF CloseWait
  <2>2. Moves(t, {"close"})
    BY <1>1, <2>1 DEF Moves, Ring
  <2>3. ASSUME NEW y, Coming(y)
        PROVE  Coming(y)'
    <3>1. PICK u \in Threads : \/ at[u] = "notify" /\ who[u] \in {None, y}
                               \/ at[u] = "told" /\ who[u] = None /\ Ahead(list, y)
      BY <2>3 DEF Coming
    <3>2. at'[u] = at[u] /\ who'[u] = who[u]
      BY <1>1, <2>1, <3>1 DEF Ring
    <3> QED BY <2>1, <3>1, <3>2 DEF Coming
  <2>4. OnItsWay' /\ (Reading => Reading')
    BY <1>3, <2>1, <2>2
  <2> QED BY <1>2, <2>1, <2>3, <2>4, QuietTold
<1>6. CASE CloseInHandler(t, n)
  <2>1. /\ list' = Without(list, n) /\ n \notin {Mark, inNotify}
        /\ at[t] = "told" /\ UNCHANGED <<at, who>>
    BY <1>6, ConfigAssumption DEF CloseInHandler
  <2>2. inThread # None
    BY <1>1, <2>1, ConfigAssumption DEF Ring
  <2>3. \A y : y # n /\ Ahead(list, y) => Ahead(list', y)
    BY <1>1, <2>1, <2>2, WithoutKeeps DEF Ring
  <2>4. ToSet(list') = ToSet(list) \ {n}
    BY <1>1, <2>1, WithoutSet
  <2>5. \A y \in ToSet(list') \ {Mark} : Coming(y) => Coming(y)'
    BY <2>1, <2>3, <2>4 DEF Coming
  <2>6. OnItsWay'
    BY <1>1, <1>2, <2>1 DEF OnItsWay, fileVars
  <2>7. Reading => Reading'
    BY <1>2, <2>1 DEF Reading, fileVars
  <2> QED BY <1>2, <2>4, <2>5, <2>6, <2>7, QuietTold
<1>7. CASE CloseWait(t, n) /\ inThread = None
  BY <1>4, <1>7 DEF CloseWait
<1>8. CASE CloseWoken(t)
  <2>1. who[t] \in Notifiers \cup {None}
    BY <1>1 DEF Ring
  <2> QED BY <1>4, <1>8, <2>1 DEF CloseWoken
<1> QED BY <1>5, <1>6, <1>7, <1>8

\* The steps of the file monitor: whoever notices a change reads the file.
LEMMA FileTold ==
    ASSUME ToldIInv, NEW t \in Threads, WalkIInv',
           FileWoken(t) \/ AddMonitor(t) \/ ReadFile(t),
           "busy" \notin Habits
    PROVE  ToldIInv'
<1>1. WalkIInv /\ Ring /\ OnItsWay
  BY DEF ToldIInv, WalkIInv
<1>2. /\ UNCHANGED <<list, told, xml, who, used, disk, notice, armed>>
      /\ at[t] \in {"fileWait", "add", "read"}
  BY DEF FileWoken, AddMonitor, ReadFile, fileVars
<1>3. /\ \A u \in Threads : u # t => at'[u] = at[u]
      /\ FileNotify(t) => at'[t] \in {"read", "fileWait"}
      /\ \A p : at' = [at EXCEPT ![t] = p] => at'[t] = p
  BY <1>1 DEF FileWoken, AddMonitor, ReadFile, FileNotify, Ring
<1>4. ASSUME NEW y, Coming(y)
      PROVE  Coming(y)'
  <2>1. PICK u \in Threads : \/ at[u] = "notify" /\ who[u] \in {None, y}
                             \/ at[u] = "told" /\ who[u] = None /\ Ahead(list, y)
    BY <1>4 DEF Coming
  <2>2. at'[u] = at[u]
    BY <1>2, <1>3, <2>1
  <2> QED BY <1>2, <2>1, <2>2 DEF Coming
<1>5. OnItsWay' /\ (Reading => Reading')
  <2>1. CASE FileWoken(t)
    <3>1. /\ at[t] = "fileWait" /\ at'[t] \in {"read", "fileWait"}
          /\ UNCHANGED <<watched, seen, content>>
      BY <1>3, <2>1 DEF FileWoken, fileVars
    <3>2. OnItsWay'
      BY <1>1, <1>2, <1>3, <3>1 DEF OnItsWay
    <3> QED BY <3>1, <3>2 DEF Reading
  <2>2. CASE ReadFile(t)
    <3>1. /\ at[t] = "read" /\ at'[t] = "change" /\ content' = disk
          /\ UNCHANGED <<watched, seen>>
      BY <1>3, <2>2 DEF ReadFile, fileVars
    <3>2. OnItsWay'
      BY <1>1, <1>2, <1>3, <3>1 DEF OnItsWay
    <3> QED BY <3>1, <3>2 DEF Reading
  <2>3. CASE AddMonitor(t) /\ watched
    <3>1. /\ at[t] = "add" /\ at'[t] = "idle"
          /\ UNCHANGED <<watched, seen, content>>
      BY <1>3, <2>3 DEF AddMonitor
    <3>2. OnItsWay'
      BY <1>1, <1>2, <1>3, <2>3, <3>1 DEF OnItsWay
    <3>3. ASSUME Reading
          PROVE  Reading'
      <4>1. PICK u \in Threads : at[u] \in {"fileWait", "read", "change"}
        BY <2>3, <3>3 DEF Reading
      <4>2. at'[u] = at[u]
        BY <1>3, <3>1, <4>1
      <4> QED BY <4>1, <4>2 DEF Reading
    <3> QED BY <3>2, <3>3
  <2>4. CASE AddMonitor(t) /\ ~watched
    <3>1. /\ at[t] = "add" /\ at'[t] \in {"read", "fileWait"}
          /\ watched' /\ seen' = disk /\ UNCHANGED content
      BY <1>3, <2>4 DEF AddMonitor
    <3>2. seen' <= disk'
      BY <1>1, <1>2, <3>1 DEF WalkIInv, Rest, Versions
    <3>3. OnItsWay'
      BY <1>1, <1>2, <1>3, <3>1, <3>2 DEF OnItsWay
    <3> QED BY <3>1, <3>3 DEF Reading
  <2> QED BY <2>1, <2>2, <2>3, <2>4
<1> QED BY <1>2, <1>4, <1>5, QuietTold

LEMMA DiskTold ==
    ASSUME ToldIInv, WalkIInv', DiskChanges \/ OnTask \/ OnTimer
    PROVE  ToldIInv'
<1>1. WalkIInv /\ Ring /\ OnItsWay /\ Rest
  BY DEF ToldIInv, WalkIInv
<1>2. UNCHANGED <<list, told, xml, who, used, content, watched>>
  BY DEF DiskChanges, OnTask, OnTimer
<1>3. \A u \in Threads : at[u] # "idle" => at'[u] = at[u]
  BY <1>1 DEF DiskChanges, OnTask, OnTimer, FileNotify, Ring
<1>4. \A y : Coming(y) => Coming(y)'
  BY <1>2, <1>3 DEF Coming
<1>5. Reading => Reading'
  BY <1>2, <1>3 DEF Reading
<1>6. OnItsWay'
  <2>1. /\ used' # {} /\ ~watched' => \E u \in Threads : at'[u] = "add"
        /\ xml' = content' \/ \E u \in Threads : at'[u] = "change"
    BY <1>1, <1>2, <1>3 DEF OnItsWay
  <2>2. (\E u \in Threads : at[u] \in {"fileWait", "read"})
          => \E u \in Threads : at'[u] \in {"fileWait", "read"}
    BY <1>3
  <2>3. CASE DiskChanges
    <3>1. seen \in Nat /\ disk \in Nat /\ seen <= disk
      BY <1>1 DEF OnItsWay, Rest, Versions
    <3>2. disk' = disk + 1 /\ seen' = seen /\ notice'
      BY <2>3 DEF DiskChanges
    <3>3. seen' <= disk' /\ disk' # seen'
      BY <3>1, <3>2
    <3> QED BY <2>1, <3>2, <3>3 DEF OnItsWay
  <2>4. CASE OnTask
    BY <1>1, <1>2, <2>1, <2>2, <2>4 DEF OnTask, OnItsWay
  <2>5. CASE OnTimer /\ watched /\ disk # seen
    <3>1. seen' = disk /\ disk' = disk /\ disk \in Nat
      BY <1>1, <2>5 DEF OnTimer, Rest, Versions
    <3>2. at'[Event] \in {"fileWait", "read"} /\ Event \in Threads
      BY <1>1, <2>5, ConfigAssumption DEF OnTimer, FileNotify, Ring
    <3>3. seen' <= disk'
      BY <3>1
    <3> QED BY <2>1, <3>1, <3>2, <3>3 DEF OnItsWay
  <2>6. CASE OnTimer /\ ~(watched /\ disk # seen)
    BY <1>1, <1>2, <2>1, <2>2, <2>6 DEF OnTimer, OnItsWay
  <2> QED BY <2>3, <2>4, <2>5, <2>6
<1> QED BY <1>2, <1>4, <1>5, <1>6, QuietTold

LEMMA StepToldIInv ==
    ASSUME "reopen" \notin Habits, "busy" \notin Habits,
           "closeSelf" \notin Habits
    PROVE  ToldIInv /\ [Next]_vars => ToldIInv'
<1> SUFFICES ASSUME ToldIInv, [Next]_vars
             PROVE  ToldIInv'
  OBVIOUS
<1>1. WalkIInv'
  BY StepWalkIInv DEF ToldIInv
<1>2. CASE UNCHANGED vars
  BY <1>1, <1>2, QuietTold
     DEF ToldIInv, vars, fileVars, OnItsWay, Reading, Coming
<1>3. ASSUME NEW t \in Threads, Proceed(t)
      PROVE  ToldIInv'
  BY <1>1, <1>3, WokenTold, ToldTold, CloseTold, FileTold, ChangeTold
     DEF Proceed
<1> QED BY <1>1, <1>2, <1>3, MonitorTold, CloseTold, ChangeTold, DiskTold DEF Next

LEMMA InitToldIInv == Init => ToldIInv
<1> SUFFICES ASSUME Init
             PROVE  ToldIInv
  OBVIOUS
<1>1. WalkIInv
  BY InitWalkIInv
<1>2. OnItsWay
  BY DEF Init, OnItsWay
<1>3. ToSet(list) = {}
  BY DEF Init, ToSet
<1> QED BY <1>1, <1>2, <1>3 DEF ToldIInv

\* Unless a file is monitored again, cannot be read while it is written or has a
\* notifier closed in its own handler, everybody has been given the last version
\* when nothing is left to be done.
THEOREM ConfigToldTheLatest ==
    ASSUME "reopen" \notin Habits, "busy" \notin Habits,
           "closeSelf" \notin Habits
    PROVE  Spec => []ToldTheLatest
<1>1. ToldIInv => ToldTheLatest
  <2> SUFFICES ASSUME ToldIInv, ~notice, ~armed,
                      \A t \in Threads : at[t] = "idle",
                      NEW n \in ToSet(list)
               PROVE  told[n] = disk
    BY DEF ToldTheLatest
  <2>1. WalkIInv /\ Ring /\ OnItsWay
    BY DEF ToldIInv, WalkIInv
  <2>2. Mark \notin ToSet(list)
    BY <2>1 DEF Ring
  <2>3. n # Mark /\ n \in used
    BY <2>1, <2>2 DEF WalkIInv
  <2>4. watched
    BY <2>1, <2>3 DEF OnItsWay
  <2>5. disk = seen /\ content = disk /\ xml = content
    BY <2>1, <2>4 DEF OnItsWay
  <2>6. told[n] = xml
    BY <2>3 DEF ToldIInv, Expects, Reading, Coming
  <2> QED BY <2>5, <2>6
<1>2. Spec => []ToldIInv
  BY InitToldIInv, StepToldIInv, PTL DEF Spec
<1> QED BY <1>1, <1>2, PTL
===============================================================================
