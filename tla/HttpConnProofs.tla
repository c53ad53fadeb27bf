--------------------------- MODULE HttpConnProofs ---------------------------
(***************************************************************************)
(* Proofs about the connection of module HttpConn, for any ids, windows    *)
(* and sizes.                                                              *)
(*                                                                         *)
(* Conn is a value, and a frame or a call computes the next one: most of   *)
(* the module says what the operators on that value do (Does: to the       *)
(* stream they are about; Spares, OthersKept: to all the others), first    *)
(* for the steps on one stream, then for the walk over all of them.  The   *)
(* inductive invariant is HttpIInv; Safe is what every action keeps.       *)
(***************************************************************************)
EXTENDS HttpConn, WellFoundedInduction, FiniteSetTheorems, TLAPS

-----------------------------------------------------------------------------
(* Induction, and the functions it defines.                                *)

\* A set of numbers that is not empty has a least element.
LEMMA NatMin ==
    ASSUME NEW T, T \subseteq Nat, T # {}
    PROVE  \E x \in T : \A y \in T : x <= y
<1>1. PICK R : R = OpToRel(<, Nat)
  OBVIOUS
<1>2. IsWellFoundedOn(R, Nat)
  BY <1>1, NatLessThanWellFounded
<1>3. \A x, y \in Nat : <<x, y>> \in R <=> x < y
  BY <1>1 DEF OpToRel
<1>4. PICK x \in T : \A y \in T : ~(<<y, x>> \in R)
  BY <1>2, WFMin
<1>5. x \in Nat /\ \A y \in T : y \in Nat /\ ~(y < x)
  BY <1>3, <1>4
<1> QED BY <1>5

\* The function that Walk defines.
WalkFn(f, c, order, n) ==
    f = [i \in 0 .. n |-> IF i = 0 THEN c ELSE WalkStep(f[i - 1], order[i])]

\* It exists for every length: of the lengths without it there is no least one.
LEMMA WalkExists ==
    ASSUME NEW c, NEW order, NEW n \in Nat
    PROVE  \E f : WalkFn(f, c, order, n)
<1> DEFINE T == {k \in Nat : ~ \E f : WalkFn(f, c, order, k)}
<1>1. SUFFICES ASSUME T # {} PROVE FALSE
  OBVIOUS
<1>2. PICK k \in T : \A j \in T : k <= j
  BY <1>1, NatMin
<1>3. k # 0
  <2> DEFINE f == [i \in 0 .. 0 |-> c]
  <2>1. WalkFn(f, c, order, 0)
    BY DEF WalkFn
  <2> QED BY <1>2, <2>1
<1>4. PICK g : WalkFn(g, c, order, k - 1)
  <2>1. k - 1 \in Nat /\ ~(k <= k - 1)
    BY <1>2, <1>3
  <2>2. k - 1 \notin T
    BY <1>2, <2>1
  <2> QED BY <2>1, <2>2
<1> DEFINE f == [i \in 0 .. k |-> IF i = k THEN WalkStep(g[k - 1], order[k]) ELSE g[i]]
<1>5. ASSUME NEW i \in 0 .. k
      PROVE  f[i] = IF i = 0 THEN c ELSE WalkStep(f[i - 1], order[i])
  <2>1. CASE i = k
    BY <1>2, <1>3, <2>1
  <2>2. CASE i # k
    <3>1. i \in 0 .. k - 1 /\ (i # 0 => i - 1 \in 0 .. k /\ i - 1 # k)
      BY <1>2, <2>2
    <3>2. g[i] = IF i = 0 THEN c ELSE WalkStep(g[i - 1], order[i])
      BY <1>4, <3>1 DEF WalkFn
    <3> QED BY <2>2, <3>1, <3>2
  <2> QED BY <2>1, <2>2
<1>6. f = [i \in 0 .. k |-> IF i = 0 THEN c ELSE WalkStep(f[i - 1], order[i])]
  <2> HIDE DEF f
  <2>1. f = [i \in 0 .. k |-> f[i]]
    BY DEF f
  <2> QED BY <1>5, <2>1
<1>7. WalkFn(f, c, order, k)
  BY <1>6 DEF WalkFn
<1> QED BY <1>2, <1>7

\* What a walk over an order leads to.
LEMMA WalkIs ==
    ASSUME NEW c, NEW order, Len(order) \in Nat
    PROVE  \E f : WalkFn(f, c, order, Len(order)) /\ Walk(c, order) = f[Len(order)]
<1> DEFINE after == CHOOSE f : f = [i \in 0 .. Len(order) |-> IF i = 0 THEN c ELSE WalkStep(f[i - 1], order[i])]
<1>1. Walk(c, order) = after[Len(order)]
  BY DEF Walk
<1>2. WalkFn(after, c, order, Len(order))
  BY WalkExists DEF WalkFn
<1> QED BY <1>1, <1>2

-----------------------------------------------------------------------------
(* The part of the connection that sending works on, and its type.         *)

Wires == [credit : [Ids \cup {0} -> Int], phase : [Ids -> Phases], faults : SUBSET Faults,
          misjudged : SUBSET Ids]
Entries == [stream : Ids, gen : Nat \ {0}]

\* The window of the connection is the peer's.
Conns == {c \in [flow : 0 .. MaxWindow, streams : [Ids -> StreamType], wire : Wires,
                 resets : Seq(Entries), gen : [Ids -> Nat], fatal : BOOLEAN] :
             c.wire.credit[0] = c.flow}

\* What the assumption says of the bounds.
LEMMA IdsPositive ==
    ASSUME HttpAssumption
    PROVE  /\ Ids \subseteq Nat \ {0} /\ IsFiniteSet(Ids)
           /\ MaxUnsent \in Nat /\ MaxWindow \in Nat /\ DefaultWindow \in 0 .. MaxWindow /\ MaxFrame \in Nat \ {0}
BY DEF HttpAssumption, Ids

\* The least element of a pair.
LEMMA MinIs ==
    ASSUME NEW a \in Int, NEW b \in Int
    PROVE  Min({a, b}) = IF a <= b THEN a ELSE b
<1>1. CASE a <= b
  <2>1. \A x \in {a, b} : (\A y \in {a, b} : x <= y) => x = a
    BY <1>1
  <2>2. \A y \in {a, b} : a <= y
    BY <1>1
  <2> QED BY <1>1, <2>1, <2>2 DEF Min
<1>2. CASE b < a
  <2>1. \A x \in {a, b} : (\A y \in {a, b} : x <= y) => x = b
    BY <1>2
  <2>2. \A y \in {a, b} : b <= y
    BY <1>2
  <2> QED BY <1>2, <2>1, <2>2 DEF Min
<1> QED BY <1>1, <1>2

\* What may be sent at once never exceeds either window.
LEMMA AllowedIs ==
    ASSUME NEW c \in Conns, NEW s \in Ids, NEW len \in Nat, HttpAssumption
    PROVE  /\ Avail(c, s) \in Nat /\ Avail(c, s) <= c.flow
           /\ Avail(c, s) <= c.streams[s].window
           /\ Avail(c, s) = c.flow \/ Avail(c, s) = c.streams[s].window
           /\ Allowed(Avail(c, s), len) \in Nat
           /\ Allowed(Avail(c, s), len) <= len
           /\ Allowed(Avail(c, s), len) <= Avail(c, s)
           /\ Allowed(Avail(c, s), len) < len => Allowed(Avail(c, s), len) = Avail(c, s)
<1>1. c.flow \in Nat /\ c.streams[s].window \in Nat
  BY IdsPositive DEF Conns, StreamType
<1>2. Avail(c, s) = IF c.flow <= c.streams[s].window THEN c.flow ELSE c.streams[s].window
  BY <1>1, MinIs DEF Avail
<1> HIDE DEF Avail
<1>3. Avail(c, s) \in Nat
  BY <1>1, <1>2
<1> QED BY <1>1, <1>2, <1>3 DEF Allowed

\* Less window for the others, nothing else changes for them.
Spares(c, d, s) ==
    /\ d \in Conns /\ d.flow <= c.flow /\ d.gen[s] >= c.gen[s]
    /\ \A t \in Ids \ {s} :
        /\ d.streams[t] = c.streams[t] /\ d.gen[t] = c.gen[t]
        /\ d.wire.phase[t] = c.wire.phase[t] /\ d.wire.credit[t] = c.wire.credit[t]
        /\ t \in d.wire.misjudged <=> t \in c.wire.misjudged

\* The fields of a stream, and what may be put into them.
LEMMA StreamExcept ==
    ASSUME NEW sm \in StreamType, HttpAssumption
    PROVE  /\ sm.slot \in {"absent", "null", "live"} /\ sm.local \in States /\ sm.remote \in States
           /\ sm.window \in Nat /\ sm.unsent \in 0 .. MaxUnsent
           /\ sm.msg \in {"none", "request", "response"}
           /\ \A n \in 0 .. MaxWindow : [sm EXCEPT !.window = n] \in StreamType
           /\ \A n \in 0 .. MaxUnsent : [sm EXCEPT !.unsent = n] \in StreamType
           /\ \A x \in States : [sm EXCEPT !.local = x] \in StreamType
           /\ \A x \in States : [sm EXCEPT !.remote = x] \in StreamType
           /\ \A x \in {"none", "request", "response"} : [sm EXCEPT !.msg = x] \in StreamType
BY IdsPositive DEF StreamType

\* What the peer makes of data.
Told(w, v, s, n, end) ==
    /\ v \in Wires /\ v.misjudged = w.misjudged
    /\ v.credit[0] = w.credit[0] - n /\ v.credit[s] = w.credit[s] - n
    /\ \A t \in Ids \ {s} : v.credit[t] = w.credit[t] /\ v.phase[t] = w.phase[t]
    /\ v.phase[s] = IF end /\ w.phase[s] = "open" THEN "ended" ELSE w.phase[s]
    /\ "window" \in v.faults => "window" \in w.faults \/ n > w.credit[s] \/ n > w.credit[0]

\* The peer counts data against both windows.
LEMMA WireDataIs ==
    ASSUME NEW w \in Wires, NEW s \in Ids, NEW n \in Nat, NEW end, HttpAssumption
    PROVE  Told(w, WireData(w, s, n, end), s, n, end)
<1> DEFINE f == WireFrame(w, s, end)
<1>1. /\ f \in Wires /\ f.credit = w.credit /\ f.misjudged = w.misjudged
      /\ "window" \in f.faults => "window" \in w.faults
      /\ f.phase = [w.phase EXCEPT ![s] = IF end /\ @ = "open" THEN "ended" ELSE @]
  BY DEF Wires, WireFrame, Phases, Faults
<1>2. s # 0 /\ s \in Ids \cup {0} /\ 0 \in Ids \cup {0} /\ 0 \notin Ids
  BY IdsPositive
<1> DEFINE v == WireData(w, s, n, end)
<1>3. /\ v = [f EXCEPT !.credit = [f.credit EXCEPT ![s] = @ - n, ![0] = @ - n],
                       !.faults = @ \cup {x \in {"window"} : n > 0 /\ (n > w.credit[s] \/ n > w.credit[0])}]
  BY <1>1, <1>2 DEF Wires, WireData
<1> HIDE DEF f, v
<1>4. /\ v.phase = f.phase /\ v.credit = [w.credit EXCEPT ![s] = @ - n, ![0] = @ - n]
      /\ v.faults = f.faults \cup {x \in {"window"} : n > 0 /\ (n > w.credit[s] \/ n > w.credit[0])}
      /\ v.misjudged = w.misjudged
      /\ v = [credit |-> v.credit, phase |-> v.phase, faults |-> v.faults, misjudged |-> v.misjudged]
  BY <1>1, <1>3 DEF Wires
<1>5. v.credit \in [Ids \cup {0} -> Int] /\ v.phase \in [Ids -> Phases] /\ v.faults \subseteq Faults
      /\ v.misjudged \subseteq Ids
  BY <1>1, <1>2, <1>4 DEF Wires, Faults
<1>6. v \in Wires
  BY <1>4, <1>5 DEF Wires
<1>7. /\ v.credit[0] = w.credit[0] - n /\ v.credit[s] = w.credit[s] - n
      /\ \A t \in Ids \ {s} : v.credit[t] = w.credit[t]
  BY <1>2, <1>4 DEF Wires
<1>8. /\ \A t \in Ids \ {s} : v.phase[t] = w.phase[t]
      /\ v.phase[s] = IF end /\ w.phase[s] = "open" THEN "ended" ELSE w.phase[s]
  BY <1>1, <1>4 DEF Wires
<1>9. "window" \in v.faults => "window" \in w.faults \/ n > w.credit[s] \/ n > w.credit[0]
  BY <1>1, <1>4
<1> QED BY <1>4, <1>6, <1>7, <1>8, <1>9 DEF v, Told

\* What sending n bytes changes.
Transferred(c, d, s, n, end) ==
    /\ Spares(c, d, s) /\ d.flow = c.flow - n
    /\ d.streams[s] = [c.streams[s] EXCEPT !.window = @ - n]
    /\ d.gen = c.gen /\ d.resets = c.resets /\ d.fatal = c.fatal
    /\ Told(c.wire, d.wire, s, n, end)

\* Both windows of the sender shrink by what is sent.
LEMMA TransferIs ==
    ASSUME NEW c \in Conns, NEW s \in Ids, NEW end \in BOOLEAN, HttpAssumption,
           NEW n \in Nat, n <= c.flow, n <= c.streams[s].window
    PROVE  Transferred(c, Transfer(c, s, n, end), s, n, end)
<1> DEFINE w == IF n > 0 \/ end THEN WireData(c.wire, s, n, end) ELSE c.wire
           x == [c.streams[s] EXCEPT !.window = @ - n]
           d == Transfer(c, s, n, end)
<1>1. c.flow \in 0 .. MaxWindow /\ c.streams[s] \in StreamType /\ c.wire \in Wires
  BY DEF Conns
<1>2. x \in StreamType
  <2>1. PICK m \in 0 .. MaxWindow : m = c.streams[s].window - n
    BY <1>1, IdsPositive DEF StreamType
  <2>2. x = [c.streams[s] EXCEPT !.window = m]
    BY <2>1
  <2> QED BY <1>1, <2>2, StreamExcept
<1>3. d = [flow |-> c.flow - n, streams |-> [c.streams EXCEPT ![s] = x], wire |-> w,
           resets |-> c.resets, gen |-> c.gen, fatal |-> c.fatal]
  <2>1. d = [c EXCEPT !.flow = @ - n, !.streams = [c.streams EXCEPT ![s] = x], !.wire = w]
    BY DEF Transfer, Conns
  <2> HIDE DEF d, w, x
  <2> QED BY <2>1 DEF Conns
<1>4. Told(c.wire, w, s, n, end)
  <2>1. CASE n > 0 \/ end
    BY <1>1, <2>1, WireDataIs
  <2>2. CASE ~(n > 0 \/ end)
    <3>1. w = c.wire /\ n = 0 /\ ~end /\ w.credit[0] \in Int /\ w.credit[s] \in Int
      BY <1>1, <2>2 DEF Wires
    <3> QED BY <1>1, <3>1 DEF Told
  <2> QED BY <2>1, <2>2
<1> HIDE DEF w, x, d
<1>5. c.flow - n \in 0 .. MaxWindow /\ c.flow - n <= c.flow
  BY <1>1, IdsPositive
<1>6. d \in Conns
  BY <1>1, <1>2, <1>3, <1>4, <1>5 DEF Conns, Told
<1>7. d.streams[s] = x /\ \A t \in Ids \ {s} : d.streams[t] = c.streams[t]
  BY <1>3 DEF Conns
<1>8. Spares(c, d, s)
  BY <1>3, <1>4, <1>5, <1>6, <1>7 DEF Spares, Told, Conns
<1> QED BY <1>3, <1>4, <1>7, <1>8 DEF x, d, Transferred

-----------------------------------------------------------------------------
(* What holds of a connection.                                             *)

Entry(c, s) == [stream |-> s, gen |-> c.gen[s]]
Listed(c, s) == \E i \in 1 .. Len(c.resets) : c.resets[i] = Entry(c, s)

\* A stream agrees with what the peer has seen, its window too unless that has been
\* misjudged, and waits in s_resetStreams exactly if this side has reset it.
Kept(c, s) ==
    /\ c.wire.phase[s] = "open" => c.streams[s].slot = "live"
    /\ c.streams[s].slot = "live" =>
        /\ c.gen[s] > 0
        /\ s \notin c.wire.misjudged => c.wire.credit[s] = c.streams[s].window
        /\ c.streams[s].local = "closed" /\ c.streams[s].unsent = 0 => c.wire.phase[s] # "open"
        /\ c.streams[s].remote = "open" => c.streams[s].msg # "none"
        /\ c.wire.phase[s] = "reset" => c.streams[s].local = "closed" /\ c.streams[s].remote = "closed"
        /\ c.wire.phase[s] = "reset" <=> Listed(c, s)

\* Data is held back for want of window.
Held(c, s) ==
    c.streams[s].slot = "live" /\ c.streams[s].unsent > 0 =>
        Avail(c, s) < MaxFrame /\ Avail(c, s) < c.streams[s].unsent

\* The windows are not larger than the peer's.
Covered(c, s) == c.streams[s].slot = "live" => c.wire.credit[s] >= c.streams[s].window
Paid(c) == "window" \notin c.wire.faults

\* A step on stream s that keeps all this.
Does(c, d, s) ==
    /\ Spares(c, d, s)
    /\ d.resets = c.resets \/ d.resets = Append(c.resets, Entry(d, s))
    /\ Kept(d, s)
    /\ Paid(c) /\ Covered(c, s) => Paid(d) /\ Covered(d, s)

\* An entry for s lists no other stream.
LEMMA ListedSame ==
    ASSUME NEW c \in Conns, NEW d \in Conns, NEW s \in Ids, NEW t \in Ids \ {s},
           d.resets = c.resets \/ d.resets = Append(c.resets, Entry(d, s)),
           d.gen[t] = c.gen[t]
    PROVE  Listed(d, t) <=> Listed(c, t)
<1>1. Entry(d, t) = Entry(c, t) /\ Entry(c, t) # Entry(d, s)
  BY DEF Entry
<1>2. CASE d.resets = c.resets
  BY <1>1, <1>2 DEF Listed
<1>3. CASE d.resets = Append(c.resets, Entry(d, s))
  <2> DEFINE q == c.resets
             e == Entry(d, s)
  <2>1. q \in Seq(Entries)
    BY DEF Conns
  <2>2. Len(Append(q, e)) = Len(q) + 1 /\ Len(q) \in Nat
        /\ Append(q, e)[Len(q) + 1] = e /\ \A i \in 1 .. Len(q) : Append(q, e)[i] = q[i]
    BY <2>1
  <2> HIDE DEF q, e
  <2>3. ASSUME NEW i \in 1 .. Len(Append(q, e)), Append(q, e)[i] = Entry(c, t)
        PROVE  i \in 1 .. Len(q) /\ q[i] = Entry(c, t)
    BY <1>1, <2>2, <2>3 DEF e
  <2>4. ASSUME NEW i \in 1 .. Len(q), q[i] = Entry(c, t)
        PROVE  i \in 1 .. Len(Append(q, e)) /\ Append(q, e)[i] = Entry(c, t)
    BY <2>2, <2>4
  <2>5. d.resets = Append(q, e) /\ c.resets = q
    BY <1>3 DEF q, e
  <2> QED BY <1>1, <2>3, <2>4, <2>5 DEF Listed
<1> QED BY <1>2, <1>3

\* The other streams lose nothing by it.
LEMMA OthersKept ==
    ASSUME NEW c \in Conns, NEW d, NEW s \in Ids, NEW t \in Ids \ {s}, Spares(c, d, s),
           d.resets = c.resets \/ d.resets = Append(c.resets, Entry(d, s)), HttpAssumption
    PROVE  /\ Kept(c, t) => Kept(d, t)
           /\ Held(c, t) => Held(d, t)
           /\ Covered(c, t) => Covered(d, t)
<1>1. /\ d \in Conns /\ d.flow <= c.flow /\ d.gen[t] = c.gen[t]
      /\ d.streams[t] = c.streams[t]
      /\ d.wire.phase[t] = c.wire.phase[t] /\ d.wire.credit[t] = c.wire.credit[t]
      /\ t \in d.wire.misjudged <=> t \in c.wire.misjudged
  BY DEF Spares
<1>2. Listed(d, t) <=> Listed(c, t)
  BY <1>1, ListedSame
<1>3. Avail(c, t) = IF c.flow <= c.streams[t].window THEN c.flow ELSE c.streams[t].window
  <2>1. c.flow \in Int /\ c.streams[t].window \in Int
    BY DEF Conns, StreamType
  <2> QED BY <2>1, MinIs DEF Avail
<1>4. Avail(d, t) = IF d.flow <= d.streams[t].window THEN d.flow ELSE d.streams[t].window
  <2>1. d.flow \in Int /\ d.streams[t].window \in Int
    BY <1>1 DEF Conns, StreamType
  <2> QED BY <2>1, MinIs DEF Avail
<1> HIDE DEF Avail
<1>5. c.flow \in Nat /\ d.flow \in Nat /\ c.streams[t].window \in Nat /\ c.streams[t].unsent \in Int
      /\ MaxFrame \in Nat
  <2>1. c.flow \in 0 .. MaxWindow /\ d.flow \in 0 .. MaxWindow /\ c.streams[t] \in StreamType
    BY <1>1 DEF Conns
  <2>2. c.streams[t].window \in 0 .. MaxWindow /\ c.streams[t].unsent \in 0 .. MaxUnsent
    BY <2>1 DEF StreamType
  <2> QED BY <2>1, <2>2, IdsPositive
<1>6. Avail(d, t) <= Avail(c, t) /\ Avail(c, t) \in Int /\ Avail(d, t) \in Int
  BY <1>1, <1>3, <1>4, <1>5
<1>7. Held(c, t) => Held(d, t)
  BY <1>1, <1>5, <1>6 DEF Held
<1>8. Kept(c, t) => Kept(d, t)
  BY <1>1, <1>2 DEF Kept
<1>9. Covered(c, t) => Covered(d, t)
  BY <1>1 DEF Covered
<1> QED BY <1>7, <1>8, <1>9

\* Two steps on a stream are one, if the first resets nothing.
LEMMA DoesTwice ==
    ASSUME NEW c \in Conns, NEW d, NEW e, NEW s \in Ids, Does(c, d, s), Does(d, e, s),
           d.resets = c.resets
    PROVE  Does(c, e, s)
<1>1. Spares(c, e, s)
  <2>1. e \in Conns /\ d \in Conns
    BY DEF Does, Spares
  <2>2. c.flow \in Int /\ d.flow \in Int /\ e.flow \in Int
        /\ c.gen[s] \in Nat /\ d.gen[s] \in Nat /\ e.gen[s] \in Nat
    BY <2>1 DEF Conns
  <2>3. e.flow <= c.flow /\ e.gen[s] >= c.gen[s]
    BY <2>2 DEF Does, Spares
  <2> QED BY <2>1, <2>3 DEF Does, Spares
<1> QED BY <1>1 DEF Does

-----------------------------------------------------------------------------
(* The steps on one stream.                                                *)

\* A connection with another wire.
LEMMA ReplaceWire ==
    ASSUME NEW c \in Conns, NEW v
    PROVE  [c EXCEPT !.wire = v]
              = [flow |-> c.flow, streams |-> c.streams, wire |-> v,
                 resets |-> c.resets, gen |-> c.gen, fatal |-> c.fatal]
BY DEF Conns

\* A connection with other streams and another wire.
LEMMA ReplaceTwo ==
    ASSUME NEW c \in Conns, NEW q, NEW v
    PROVE  [c EXCEPT !.streams = q, !.wire = v]
              = [flow |-> c.flow, streams |-> q, wire |-> v,
                 resets |-> c.resets, gen |-> c.gen, fatal |-> c.fatal]
<1>1. [c EXCEPT !.streams = q, !.wire = v] = [[c EXCEPT !.streams = q] EXCEPT !.wire = v]
  OBVIOUS
<1>2. [c EXCEPT !.streams = q]
         = [flow |-> c.flow, streams |-> q, wire |-> c.wire,
            resets |-> c.resets, gen |-> c.gen, fatal |-> c.fatal]
  BY DEF Conns
<1>3. [[flow |-> c.flow, streams |-> q, wire |-> c.wire,
        resets |-> c.resets, gen |-> c.gen, fatal |-> c.fatal] EXCEPT !.wire = v]
         = [flow |-> c.flow, streams |-> q, wire |-> v,
            resets |-> c.resets, gen |-> c.gen, fatal |-> c.fatal]
  OBVIOUS
<1> QED BY <1>1, <1>2, <1>3

\* The connection without stream s.
LEMMA ErasedIs ==
    ASSUME NEW c \in Conns, NEW s \in Ids
    PROVE  Erase(c, s) = [flow |-> c.flow, streams |-> [c.streams EXCEPT ![s] = NoStream],
                          wire |-> [credit |-> [c.wire.credit EXCEPT ![s] = 0],
                                    phase |-> c.wire.phase, faults |-> c.wire.faults,
                                    misjudged |-> c.wire.misjudged \ {s}],
                          resets |-> c.resets, gen |-> c.gen, fatal |-> c.fatal]
<1> DEFINE d == Erase(c, s)
           w == [credit |-> [c.wire.credit EXCEPT ![s] = 0], phase |-> c.wire.phase,
                 faults |-> c.wire.faults, misjudged |-> c.wire.misjudged \ {s}]
<1>1. d = [flow |-> c.flow, streams |-> [c.streams EXCEPT ![s] = NoStream], wire |-> w,
           resets |-> c.resets, gen |-> c.gen, fatal |-> c.fatal]
  <2> DEFINE q == [c.streams EXCEPT ![s] = NoStream]
             k == [c.wire.credit EXCEPT ![s] = 0]
             v == [credit |-> k, phase |-> c.wire.phase, faults |-> c.wire.faults,
                   misjudged |-> c.wire.misjudged]
             e == [flow |-> c.flow, streams |-> q, wire |-> v,
                   resets |-> c.resets, gen |-> c.gen, fatal |-> c.fatal]
  <2>1. c.wire = [credit |-> c.wire.credit, phase |-> c.wire.phase, faults |-> c.wire.faults,
                  misjudged |-> c.wire.misjudged]
    BY DEF Conns, Wires
  <2>2. [c EXCEPT !.streams[s] = NoStream, !.wire.credit[s] = 0] = e
    <3>1. [c.wire EXCEPT !.credit = k] = v
      <4> HIDE DEF k
      <4> QED BY <2>1
    <3>2. [c EXCEPT !.streams[s] = NoStream, !.wire.credit[s] = 0]
             = [c EXCEPT !.streams = q, !.wire = [c.wire EXCEPT !.credit = k]]
      BY DEF Conns
    <3> HIDE DEF q, v, k
    <3>3. [c EXCEPT !.streams = q, !.wire = v] = e
      BY ReplaceTwo
    <3> HIDE DEF e
    <3> QED BY <3>1, <3>2, <3>3
  <2>3. d = [[c EXCEPT !.streams[s] = NoStream, !.wire.credit[s] = 0] EXCEPT !.wire.misjudged = @ \ {s}]
    BY DEF Erase
  <2> HIDE DEF d
  <2>4. d = [e EXCEPT !.wire = [v EXCEPT !.misjudged = @ \ {s}]]
    <3> HIDE DEF k, q
    <3> QED BY <2>2, <2>3
  <2>5. [v EXCEPT !.misjudged = @ \ {s}] = w
    <3> HIDE DEF k
    <3> QED BY DEF k
  <2> HIDE DEF v, w
  <2> QED BY <2>4, <2>5
<1> QED BY <1>1

\* A stream may be erased once the peer no longer waits for it.
LEMMA EraseIs ==
    ASSUME NEW c \in Conns, NEW s \in Ids, HttpAssumption, c.wire.phase[s] # "open"
    PROVE  /\ Does(c, Erase(c, s), s)
           /\ Erase(c, s).streams[s] = NoStream
           /\ Erase(c, s).gen = c.gen /\ Erase(c, s).fatal = c.fatal /\ Erase(c, s).flow = c.flow
           /\ Erase(c, s).resets = c.resets
           /\ Erase(c, s).wire.phase = c.wire.phase
<1> DEFINE d == Erase(c, s)
           w == [credit |-> [c.wire.credit EXCEPT ![s] = 0], phase |-> c.wire.phase,
                 faults |-> c.wire.faults, misjudged |-> c.wire.misjudged \ {s}]
<1>0. s # 0 /\ MaxWindow \in Nat /\ MaxUnsent \in Nat
  BY IdsPositive
<1>1. d = [flow |-> c.flow, streams |-> [c.streams EXCEPT ![s] = NoStream], wire |-> w,
           resets |-> c.resets, gen |-> c.gen, fatal |-> c.fatal]
  BY ErasedIs
<1>2. /\ w \in Wires /\ w.phase = c.wire.phase /\ w.faults = c.wire.faults
      /\ w.misjudged = c.wire.misjudged \ {s}
      /\ \A t \in (Ids \cup {0}) \ {s} : w.credit[t] = c.wire.credit[t]
  BY DEF Conns, Wires
<1>3. NoStream \in StreamType /\ NoStream.slot = "absent"
  <2>1. 0 \in 0 .. MaxUnsent
    BY <1>0
  <2> QED BY <1>0, <2>1 DEF NoStream, StreamType, States
<1> HIDE DEF d, w
<1>4. d \in Conns
  <2>1. w.credit[0] = c.flow
    BY <1>0, <1>2 DEF Conns
  <2> QED BY <1>1, <1>2, <1>3, <2>1 DEF Conns
<1>5. d.streams[s] = NoStream /\ \A t \in Ids \ {s} : d.streams[t] = c.streams[t]
  BY <1>1 DEF Conns
<1>6. Spares(c, d, s)
  <2>1. c.flow \in Int /\ c.gen[s] \in Int
    BY DEF Conns
  <2> QED BY <1>1, <1>2, <1>4, <1>5, <2>1 DEF Spares
<1>7. Kept(d, s)
  BY <1>1, <1>2, <1>3, <1>5 DEF Kept
<1>8. Paid(c) => Paid(d) /\ Covered(d, s)
  BY <1>0, <1>1, <1>2, <1>3, <1>5 DEF Paid, Covered
<1>9. Does(c, d, s)
  BY <1>1, <1>6, <1>7, <1>8 DEF Does
<1> QED BY <1>1, <1>2, <1>5, <1>9 DEF d

\* A completed stream goes, and its end has been sent.
Settles(c, d, s) ==
    /\ d.gen = c.gen /\ d.resets = c.resets /\ d.fatal = c.fatal /\ d.flow = c.flow
    /\ d.wire.phase = c.wire.phase
    /\ d.streams[s] \in {c.streams[s], NoStream}

\* That is so for a stream that is closed and has nothing held back.
LEMMA EraseCompletedIs ==
    ASSUME NEW c \in Conns, NEW s \in Ids, HttpAssumption, Kept(c, s)
    PROVE  Does(c, EraseCompleted(c, s), s) /\ Settles(c, EraseCompleted(c, s), s)
<1>1. CASE Completed(c.streams[s])
  <2>1. EraseCompleted(c, s) = Erase(c, s)
    BY <1>1 DEF EraseCompleted
  <2>2. c.wire.phase[s] # "open"
    BY <1>1 DEF Kept, Completed
  <2> QED BY <2>1, <2>2, EraseIs DEF Settles
<1>2. CASE ~Completed(c.streams[s])
  <2>1. EraseCompleted(c, s) = c
    BY <1>2 DEF EraseCompleted
  <2>2. c.flow \in Int /\ c.gen[s] \in Int
    BY DEF Conns
  <2>3. Spares(c, c, s)
    BY <2>2 DEF Spares
  <2> QED BY <2>1, <2>3 DEF Settles, Does
<1> QED BY <1>1, <1>2

\* What a stream holds back is for want of window still.
LEMMA SettlesHeld ==
    ASSUME NEW c \in Conns, NEW d, NEW s \in Ids, Settles(c, d, s), Held(c, s)
    PROVE  Held(d, s)
<1>1. CASE d.streams[s] = c.streams[s]
  <2>1. Avail(d, s) = Avail(c, s)
    BY <1>1 DEF Settles, Avail
  <2> QED BY <1>1, <2>1 DEF Held
<1>2. CASE d.streams[s] = NoStream
  BY <1>2 DEF Held, NoStream
<1> QED BY <1>1, <1>2 DEF Settles

\* n bytes are sent, u are held back, the sending side becomes l.
Sends(c, d, s, n, u, l, end) ==
    /\ Spares(c, d, s) /\ d.flow = c.flow - n
    /\ d.streams[s].slot = "live" /\ d.streams[s].unsent = u /\ d.streams[s].local = l
    /\ d.streams[s].window = c.streams[s].window - n
    /\ d.streams[s].remote = c.streams[s].remote /\ d.streams[s].msg = c.streams[s].msg
    /\ d.gen = c.gen /\ d.resets = c.resets
    /\ Told(c.wire, d.wire, s, n, end)

\* Sending keeps what holds of a stream, if the last part is sent with its end.
LEMMA SendsDoes ==
    ASSUME NEW c \in Conns, NEW d, NEW s \in Ids, NEW n \in Nat, NEW u, NEW l, NEW end \in BOOLEAN,
           HttpAssumption, Sends(c, d, s, n, u, l, end),
           c.streams[s].slot = "live", Kept(c, s), n <= Avail(c, s),
           l = "closed" /\ u = 0 => end \/ (c.streams[s].local = "closed" /\ c.streams[s].unsent = 0),
           c.wire.phase[s] = "reset" => l = "closed"
    PROVE  Does(c, d, s)
<1>1. n <= c.flow /\ n <= c.streams[s].window /\ c.flow \in Int /\ c.streams[s].window \in Int
  <2>1. Avail(c, s) \in Nat /\ Avail(c, s) <= c.flow /\ Avail(c, s) <= c.streams[s].window
    BY AllowedIs, 0 \in Nat
  <2>2. c.flow \in Int /\ c.streams[s].window \in Int
    BY DEF Conns, StreamType
  <2> HIDE DEF Avail
  <2> QED BY <2>1, <2>2
<1>2. Listed(d, s) <=> Listed(c, s)
  BY DEF Listed, Entry, Sends
<1>3. d.wire.phase[s] = IF end /\ c.wire.phase[s] = "open" THEN "ended" ELSE c.wire.phase[s]
  BY DEF Sends, Told
<1>4. Kept(d, s)
  <2>1. s \notin d.wire.misjudged => d.wire.credit[s] = d.streams[s].window
    BY DEF Kept, Sends, Told
  <2> QED BY <1>2, <1>3, <2>1 DEF Kept, Sends
<1>5. ASSUME Paid(c), Covered(c, s) PROVE Paid(d) /\ Covered(d, s)
  <2>1. c.wire.credit[0] = c.flow /\ c.wire.credit[s] >= c.streams[s].window
    BY <1>5 DEF Conns, Covered
  <2>2. c.wire.credit[s] \in Int
    BY DEF Conns, Wires
  <2>3. ~(n > c.wire.credit[s]) /\ ~(n > c.wire.credit[0])
    BY <1>1, <2>1, <2>2
  <2>4. "window" \notin d.wire.faults
    BY <1>5, <2>3 DEF Sends, Told, Paid
  <2>5. /\ d.wire.credit[0] = d.flow
        /\ d.wire.credit[s] = c.wire.credit[s] - n
        /\ d.streams[s].window = c.streams[s].window - n
    BY <2>1 DEF Sends, Told
  <2>6. d.wire.credit[s] >= d.streams[s].window
    BY <1>1, <2>1, <2>2, <2>5
  <2> QED BY <2>4, <2>5, <2>6 DEF Paid, Covered
<1> QED BY <1>4, <1>5 DEF Does, Sends

\* Data is held back only if all that may be sent is sent.
LEMMA SendsHeld ==
    ASSUME NEW c \in Conns, NEW d, NEW s \in Ids, NEW n \in Nat, NEW u, NEW l, NEW end,
           HttpAssumption, Sends(c, d, s, n, u, l, end), u = 0 \/ n = Avail(c, s)
    PROVE  Held(d, s)
<1>1. CASE d.streams[s].unsent > 0
  <2>1. d \in Conns /\ d.streams[s].unsent = u /\ u # 0
    BY <1>1 DEF Sends, Spares
  <2>2. Avail(c, s) = c.flow \/ Avail(c, s) = c.streams[s].window
    BY AllowedIs, 0 \in Nat
  <2>3. d.flow = 0 \/ d.streams[s].window = 0
    <3>1. c.flow \in Int /\ c.streams[s].window \in Int
      BY DEF Conns, StreamType
    <3> HIDE DEF Avail
    <3> QED BY <2>1, <2>2, <3>1 DEF Sends
  <2>4. Avail(d, s) \in Nat /\ Avail(d, s) <= d.flow /\ Avail(d, s) <= d.streams[s].window
    BY <2>1, AllowedIs, 0 \in Nat
  <2>5. Avail(d, s) = 0
    <3>1. d.flow \in Int /\ d.streams[s].window \in Int
      BY <2>1 DEF Conns, StreamType
    <3> HIDE DEF Avail
    <3> QED BY <2>3, <2>4, <3>1
  <2> HIDE DEF Avail
  <2> QED BY <1>1, <2>5, IdsPositive DEF Held
<1>2. CASE ~(d.streams[s].unsent > 0)
  BY <1>2 DEF Held
<1> QED BY <1>1, <1>2

\* What answering leaves of a stream: it is gone, or its sending side is l.
Answers(c, d, s, l) ==
    /\ d.gen = c.gen /\ d.resets = c.resets
    /\ d.wire.phase[s] = "reset" <=> c.wire.phase[s] = "reset"
    /\ d.streams[s].slot # "null"
    /\ d.streams[s].slot = "live" =>
        /\ d.streams[s].local = l /\ d.streams[s].remote = c.streams[s].remote
        /\ d.streams[s].msg = c.streams[s].msg

\* addData keeps it, holds back only what it must, and is fatal on a stream that is not open.
LEMMA AddDataIs ==
    ASSUME NEW c \in Conns, NEW s \in Ids, NEW len \in Nat, NEW more \in BOOLEAN, HttpAssumption,
           c.streams[s].slot = "live", Kept(c, s), c.streams[s].unsent + len <= MaxUnsent, ~c.fatal
    PROVE  LET d == AddData(c, s, len, more)
           IN /\ Does(c, d, s)
              /\ d.fatal <=> c.streams[s].local # "open"
              /\ d.fatal => Answers(c, d, s, c.streams[s].local)
              /\ ~d.fatal => /\ Held(c, s) => Held(d, s)
                             /\ Answers(c, d, s, IF more THEN "open" ELSE "closed")
<1> DEFINE sm == c.streams[s]
           n == IF sm.unsent > 0 THEN 0 ELSE Allowed(Avail(c, s), len)
           end == ~more /\ n = len
           u == sm.unsent + len - n
           sent == Transfer(c, s, n, end)
           kept == [sent EXCEPT !.streams[s].unsent = @ + len - n]
           closed == [kept EXCEPT !.streams[s].local = "closed"]
           e == IF more THEN kept ELSE closed
           d == AddData(c, s, len, more)
<1>1. d = IF sm.local # "open" THEN [kept EXCEPT !.fatal = TRUE] ELSE EraseCompleted(e, s)
  BY DEF AddData
<1>2. sm \in StreamType /\ sm.unsent \in 0 .. MaxUnsent /\ sm.window \in Nat /\ sm.local \in States
  BY DEF Conns, StreamType
<1>3. /\ n \in 0 .. len /\ n <= Avail(c, s) /\ n <= c.flow /\ n <= sm.window
      /\ sm.unsent > 0 => n = 0
      /\ sm.unsent = 0 /\ n < len => n = Avail(c, s)
  <2>1. /\ Avail(c, s) \in Nat /\ Avail(c, s) <= c.flow /\ Avail(c, s) <= sm.window
        /\ Allowed(Avail(c, s), len) \in Nat /\ Allowed(Avail(c, s), len) <= len
        /\ Allowed(Avail(c, s), len) <= Avail(c, s)
        /\ Allowed(Avail(c, s), len) < len => Allowed(Avail(c, s), len) = Avail(c, s)
    BY AllowedIs
  <2>2. c.flow \in Nat
    BY IdsPositive DEF Conns
  <2> HIDE DEF Avail, Allowed, sm
  <2> QED BY <1>2, <2>1, <2>2
<1> HIDE DEF n, d
<1>4. /\ n \in Nat /\ u \in 0 .. MaxUnsent
      /\ u = 0 <=> sm.unsent = 0 /\ n = len
  <2> HIDE DEF sm
  <2>1. sm.unsent + len <= MaxUnsent
    BY DEF sm
  <2> QED BY <1>2, <1>3, <2>1, IdsPositive
<1>5. Transferred(c, sent, s, n, end)
  BY <1>3, <1>4, TransferIs
<1> HIDE DEF sent, end
<1>6. /\ sent \in Conns /\ Spares(c, sent, s) /\ sent.flow = c.flow - n
      /\ sent.streams[s] = [sm EXCEPT !.window = sm.window - n]
      /\ sent.gen = c.gen /\ sent.resets = c.resets /\ sent.fatal = c.fatal
      /\ Told(c.wire, sent.wire, s, n, end)
  BY <1>5 DEF Transferred, Spares
<1>7. sent.streams[s].unsent + len - n = u
  BY <1>2, <1>6 DEF StreamType
<1> HIDE DEF u
<1> DEFINE x == [sent.streams[s] EXCEPT !.unsent = u]
           y == [x EXCEPT !.local = "closed"]
<1>8. kept = [sent EXCEPT !.streams = [sent.streams EXCEPT ![s] = x]]
  BY <1>6, <1>7 DEF Conns
<1>9. /\ x \in StreamType /\ x.slot = "live" /\ x.unsent = u /\ x.local = sm.local
      /\ x.window = sm.window - n /\ x.remote = sm.remote /\ x.msg = sm.msg
  <2>1. sent.streams[s] \in StreamType
    BY <1>6 DEF Conns
  <2>2. x \in StreamType
    BY <1>4, <2>1 DEF StreamType
  <2> QED BY <1>2, <1>6, <2>2 DEF StreamType
<1>10. /\ y \in StreamType /\ y.slot = "live" /\ y.unsent = u /\ y.local = "closed"
       /\ y.window = sm.window - n /\ y.remote = sm.remote /\ y.msg = sm.msg
  <2> HIDE DEF x
  <2>1. y \in StreamType
    BY <1>9 DEF StreamType, States
  <2> QED BY <1>9, <2>1 DEF StreamType
<1> HIDE DEF x, y
<1> DEFINE K(z, f) == [sent EXCEPT !.streams = [sent.streams EXCEPT ![s] = z], !.fatal = f]
<1>11. ASSUME NEW z \in StreamType, NEW f \in BOOLEAN,
              z.slot = "live", z.unsent = u, z.window = sm.window - n,
              z.remote = sm.remote, z.msg = sm.msg
       PROVE  /\ K(z, f) \in Conns /\ K(z, f).fatal = f /\ K(z, f).streams[s] = z
              /\ Sends(c, K(z, f), s, n, u, z.local, end)
  <2> DEFINE k == K(z, f)
  <2>1. k \in Conns
    BY <1>6, <1>11 DEF Conns
  <2>2. k.streams[s] = z /\ k.fatal = f /\ \A t \in Ids \ {s} : k.streams[t] = sent.streams[t]
    BY <1>6, <1>11 DEF Conns
  <2>3. k.flow = sent.flow /\ k.wire = sent.wire /\ k.gen = sent.gen /\ k.resets = sent.resets
    BY <1>6, <1>11 DEF Conns
  <2>4. Spares(c, k, s)
    BY <1>6, <2>1, <2>2, <2>3 DEF Spares
  <2> QED BY <1>6, <1>11, <2>1, <2>2, <2>3, <2>4 DEF Sends
<1>12. end \in BOOLEAN /\ (u = 0 /\ ~more => end)
  BY <1>4 DEF end
<1>13. CASE sm.local # "open"
  <2>1. d = K(x, TRUE)
    <3>1. d = [kept EXCEPT !.fatal = TRUE]
      BY <1>1, <1>13
    <3> HIDE DEF kept
    <3> QED BY <1>6, <1>8, <3>1 DEF Conns
  <2>2. d.fatal = TRUE /\ Sends(c, d, s, n, u, x.local, end)
    <3> HIDE DEF K
    <3> QED BY <1>9, <1>11, <2>1
  <2>3. x.local = "closed" /\ u = 0 => end \/ (c.streams[s].local = "closed" /\ c.streams[s].unsent = 0)
    BY <1>4, <1>9
  <2>4. c.wire.phase[s] = "reset" => x.local = "closed"
    BY <1>9 DEF Kept
  <2>5. Does(c, d, s)
    BY <1>3, <1>4, <1>12, <2>2, <2>3, <2>4, SendsDoes
  <2>6. Answers(c, d, s, sm.local)
    BY <1>9, <2>2 DEF Answers, Sends, Told
  <2> QED BY <1>13, <2>2, <2>5, <2>6 DEF d
<1>14. CASE sm.local = "open"
  <2> DEFINE l == IF more THEN "open" ELSE "closed"
             z == IF more THEN x ELSE y
  <2>1. e = K(z, FALSE)
    <3>1. kept = [sent EXCEPT !.streams = [sent.streams EXCEPT ![s] = x], !.fatal = FALSE]
      <4> HIDE DEF kept
      <4> QED BY <1>6, <1>8 DEF Conns
    <3>2. closed = [sent EXCEPT !.streams = [sent.streams EXCEPT ![s] = y], !.fatal = FALSE]
      <4> HIDE DEF kept
      <4>1. closed = [kept EXCEPT !.streams = [kept.streams EXCEPT ![s] = [kept.streams[s] EXCEPT !.local = "closed"]]]
        BY <1>6, <1>8 DEF Conns
      <4>2. kept.streams = [sent.streams EXCEPT ![s] = x] /\ kept.streams[s] = x
        BY <1>6, <1>8 DEF Conns
      <4>3. kept.streams[s] = x /\ [kept.streams EXCEPT ![s] = y] = [sent.streams EXCEPT ![s] = y]
        BY <1>6, <4>2 DEF Conns
      <4> HIDE DEF closed
      <4> QED BY <1>6, <1>8, <4>1, <4>2, <4>3 DEF y, Conns
    <3> HIDE DEF kept, closed
    <3> QED BY <3>1, <3>2
  <2>2. z \in StreamType /\ z.slot = "live" /\ z.unsent = u /\ z.window = sm.window - n
        /\ z.remote = sm.remote /\ z.msg = sm.msg /\ z.local = l
    BY <1>9, <1>10, <1>14
  <2> HIDE DEF e, z, K
  <2>3. e \in Conns /\ e.fatal = FALSE /\ e.streams[s] = z /\ Sends(c, e, s, n, u, l, end)
    BY <1>11, <2>1, <2>2
  <2>4. l = "closed" /\ u = 0 => end
    BY <1>12
  <2>5. c.wire.phase[s] # "reset"
    BY <1>14 DEF Kept
  <2>6. Does(c, e, s)
    BY <1>3, <1>4, <1>12, <2>3, <2>4, <2>5, SendsDoes
  <2>7. Does(e, d, s) /\ Settles(e, d, s)
    BY <1>1, <1>14, <2>3, <2>6, EraseCompletedIs DEF Does
  <2>8. e.gen = c.gen /\ e.resets = c.resets /\ e.wire.phase[s] # "reset"
    BY <2>3, <2>5 DEF Sends, Told
  <2>9. Does(c, d, s)
    BY <2>6, <2>7, <2>8, DoesTwice
  <2>10. ASSUME Held(c, s) PROVE Held(d, s)
    <3>1. CASE sm.unsent > 0
      <4>1. n = 0 /\ u >= sm.unsent
        BY <1>2, <1>3, <3>1 DEF u
      <4>2. e.flow = c.flow /\ e.streams[s].window = c.streams[s].window
        <5>1. c.flow \in Int
          BY DEF Conns
        <5> QED BY <1>2, <2>3, <4>1, <5>1 DEF Sends
      <4>3. Avail(e, s) = Avail(c, s)
        BY <4>2 DEF Avail
      <4>4. Avail(c, s) < MaxFrame /\ Avail(c, s) < sm.unsent /\ Avail(c, s) \in Nat
        BY <2>10, <3>1, AllowedIs, 0 \in Nat DEF Held
      <4>5. Held(e, s)
        <5> HIDE DEF Avail
        <5> QED BY <1>2, <1>4, <2>2, <2>3, <4>1, <4>3, <4>4 DEF Held
      <4> QED BY <2>3, <2>7, <4>5, SettlesHeld
    <3>2. CASE ~(sm.unsent > 0)
      <4>1. u = 0 \/ n = Avail(c, s)
        BY <1>2, <1>3, <1>4, <3>2
      <4>2. Held(e, s)
        BY <1>4, <2>3, <4>1, SendsHeld
      <4> QED BY <2>3, <2>7, <4>2, SettlesHeld
    <3> QED BY <3>1, <3>2
  <2>11. d.fatal = FALSE
    BY <2>3, <2>7 DEF Settles
  <2>12. Answers(c, d, s, l)
    <3>1. d.streams[s] = z \/ d.streams[s] = NoStream
      BY <2>3, <2>7 DEF Settles
    <3> QED BY <2>2, <2>5, <2>7, <2>8, <3>1 DEF Answers, Settles, NoStream
  <2> QED BY <1>14, <2>9, <2>10, <2>11, <2>12 DEF d
<1> QED BY <1>13, <1>14

\* Held back data is sent on as far as the windows go.
LEMMA WriteUnsentIs ==
    ASSUME NEW c \in Conns, NEW s \in Ids, HttpAssumption, c.streams[s].slot = "live", Kept(c, s)
    PROVE  LET d == WriteUnsent(c, s)
           IN /\ Does(c, d, s) /\ Held(d, s) /\ d.fatal = c.fatal
              /\ Answers(c, d, s, c.streams[s].local)
<1> DEFINE sm == c.streams[s]
           n == Allowed(Avail(c, s), sm.unsent)
           end == sm.local = "closed" /\ n = sm.unsent
           u == sm.unsent - n
           sent == Transfer(c, s, n, end)
           e == [sent EXCEPT !.streams[s].unsent = @ - n]
           d == WriteUnsent(c, s)
<1>1. d = IF n < sm.unsent /\ n < MaxFrame THEN c ELSE EraseCompleted(e, s)
  BY DEF WriteUnsent
<1>2. sm \in StreamType /\ sm.unsent \in 0 .. MaxUnsent /\ sm.window \in Nat /\ sm.local \in States
      /\ c.flow \in Nat /\ MaxUnsent \in Nat /\ MaxFrame \in Nat \ {0}
  BY IdsPositive DEF Conns, StreamType
<1>3. /\ n \in 0 .. sm.unsent /\ n <= Avail(c, s) /\ n <= c.flow /\ n <= sm.window
      /\ n < sm.unsent => n = Avail(c, s)
      /\ Avail(c, s) \in Nat
  <2>0. sm.unsent \in Nat
    BY <1>2
  <2>1. /\ Avail(c, s) \in Nat /\ Avail(c, s) <= c.flow /\ Avail(c, s) <= sm.window
        /\ n \in Nat /\ n <= sm.unsent /\ n <= Avail(c, s)
        /\ n < sm.unsent => n = Avail(c, s)
    BY <2>0, AllowedIs
  <2> HIDE DEF Avail, n, sm
  <2> QED BY <1>2, <2>0, <2>1
<1> HIDE DEF n, d
<1>4. n \in Nat /\ u \in 0 .. MaxUnsent /\ (u = 0 <=> n = sm.unsent) /\ (u = 0 \/ n = Avail(c, s))
  <2> HIDE DEF sm
  <2> QED BY <1>2, <1>3
<1>5. Transferred(c, sent, s, n, end)
  BY <1>3, <1>4, TransferIs
<1>6. end \in BOOLEAN /\ (u = 0 /\ sm.local = "closed" => end)
  BY <1>4
<1> HIDE DEF sent, end
<1>7. /\ sent \in Conns /\ Spares(c, sent, s) /\ sent.flow = c.flow - n
      /\ sent.streams[s] = [sm EXCEPT !.window = sm.window - n]
      /\ sent.gen = c.gen /\ sent.resets = c.resets /\ sent.fatal = c.fatal
      /\ Told(c.wire, sent.wire, s, n, end)
  BY <1>5 DEF Transferred, Spares
<1>8. sent.streams[s].unsent - n = u /\ sent.streams[s] \in StreamType
  BY <1>2, <1>7 DEF Conns, StreamType
<1> HIDE DEF u
<1> DEFINE x == [sent.streams[s] EXCEPT !.unsent = u]
<1>9. e = [sent EXCEPT !.streams = [sent.streams EXCEPT ![s] = x]]
  BY <1>7, <1>8 DEF Conns
<1>10. /\ x \in StreamType /\ x.slot = "live" /\ x.unsent = u /\ x.local = sm.local
       /\ x.window = sm.window - n /\ x.remote = sm.remote /\ x.msg = sm.msg
  <2>1. x \in StreamType
    BY <1>4, <1>8 DEF StreamType
  <2> QED BY <1>2, <1>7, <2>1 DEF StreamType
<1> HIDE DEF x, e
<1>11. /\ e \in Conns /\ e.streams[s] = x /\ \A t \in Ids \ {s} : e.streams[t] = sent.streams[t]
       /\ e.flow = sent.flow /\ e.wire = sent.wire /\ e.gen = sent.gen /\ e.resets = sent.resets
       /\ e.fatal = sent.fatal
  BY <1>7, <1>9, <1>10 DEF Conns
<1>12. Spares(c, e, s)
  BY <1>7, <1>11 DEF Spares
<1>13. Sends(c, e, s, n, u, sm.local, end)
  BY <1>7, <1>10, <1>11, <1>12 DEF Sends
<1>14. Does(c, e, s)
  <2>1. c.wire.phase[s] = "reset" => sm.local = "closed"
    BY DEF Kept
  <2> QED BY <1>3, <1>4, <1>6, <1>13, <2>1, SendsDoes
<1>15. Held(e, s)
  BY <1>4, <1>13, SendsHeld
<1>16. CASE n < sm.unsent /\ n < MaxFrame
  <2>1. d = c
    BY <1>1, <1>16
  <2>2. Held(c, s)
    <3>1. Avail(c, s) = n
      BY <1>3, <1>16
    <3> HIDE DEF Avail
    <3> QED BY <1>16, <3>1 DEF Held
  <2>3. Spares(c, c, s)
    <3>1. c.flow \in Int /\ c.gen[s] \in Int
      BY DEF Conns
    <3> QED BY <3>1 DEF Spares
  <2> QED BY <2>1, <2>2, <2>3 DEF Does, Answers, d
<1>17. CASE ~(n < sm.unsent /\ n < MaxFrame)
  <2>1. d = EraseCompleted(e, s)
    BY <1>1, <1>17
  <2>2. Does(e, d, s) /\ Settles(e, d, s)
    BY <1>11, <1>14, <2>1, EraseCompletedIs DEF Does
  <2>3. Does(c, d, s)
    BY <1>7, <1>11, <1>14, <2>2, DoesTwice
  <2>4. Held(d, s)
    BY <1>11, <1>15, <2>2, SettlesHeld
  <2>5. d.fatal = c.fatal
    BY <1>7, <1>11, <2>2 DEF Settles
  <2>6. d.streams[s] = x \/ d.streams[s] = NoStream
    BY <1>11, <2>2 DEF Settles
  <2>7. d.wire.phase[s] = "reset" <=> c.wire.phase[s] = "reset"
    BY <1>13, <2>2 DEF Sends, Told, Settles
  <2>8. Answers(c, d, s, sm.local)
    BY <1>7, <1>10, <1>11, <2>2, <2>6, <2>7 DEF Answers, Settles, NoStream
  <2> QED BY <2>3, <2>4, <2>5, <2>8 DEF d
<1> QED BY <1>16, <1>17

\* The peer sees no data in other frames.
LEMMA WireFrameIs ==
    ASSUME NEW w \in Wires, NEW s \in Ids, NEW end \in BOOLEAN, HttpAssumption
    PROVE  Told(w, WireFrame(w, s, end), s, 0, end)
<1> DEFINE v == WireFrame(w, s, end)
<1>1. /\ v \in Wires /\ v.credit = w.credit /\ v.misjudged = w.misjudged
      /\ "window" \in v.faults => "window" \in w.faults
      /\ v.phase = [w.phase EXCEPT ![s] = IF end /\ @ = "open" THEN "ended" ELSE @]
  BY DEF Wires, WireFrame, Phases, Faults
<1> HIDE DEF v
<1>2. /\ v.phase[s] = IF end /\ w.phase[s] = "open" THEN "ended" ELSE w.phase[s]
      /\ \A t \in Ids \ {s} : v.phase[t] = w.phase[t]
  BY <1>1 DEF Wires
<1>3. w.credit[0] \in Int /\ w.credit[s] \in Int
  BY DEF Wires
<1> QED BY <1>1, <1>2, <1>3 DEF Told, v

\* A frame that carries no data.
Framed(c, s, l, end) == [c EXCEPT !.wire = WireFrame(@, s, end), !.streams[s].local = l]

\* A frame without data keeps what holds of a stream.
LEMMA FrameDoes ==
    ASSUME NEW c \in Conns, NEW s \in Ids, NEW l \in States, NEW end \in BOOLEAN, HttpAssumption,
           c.streams[s].slot = "live", Kept(c, s), c.streams[s].local # "closed",
           l = "closed" => end
    PROVE  LET d == Framed(c, s, l, end)
           IN /\ Does(c, d, s) /\ Sends(c, d, s, 0, c.streams[s].unsent, l, end)
              /\ d.fatal = c.fatal
              /\ Held(c, s) => Held(d, s)
<1> DEFINE sm == c.streams[s]
           w == WireFrame(c.wire, s, end)
           x == [sm EXCEPT !.local = l]
           d == Framed(c, s, l, end)
<1>1. d = [flow |-> c.flow, streams |-> [c.streams EXCEPT ![s] = x], wire |-> w,
           resets |-> c.resets, gen |-> c.gen, fatal |-> c.fatal]
  <2> HIDE DEF w
  <2>1. d = [c EXCEPT !.wire = w, !.streams = [@ EXCEPT ![s] = x]]
    BY DEF Conns, w, Framed
  <2> HIDE DEF d, x
  <2> QED BY <2>1 DEF Conns
<1>2. Told(c.wire, w, s, 0, end) /\ w \in Wires
  <2>1. c.wire \in Wires
    BY DEF Conns
  <2> QED BY <2>1, WireFrameIs DEF Told
<1>3. /\ sm \in StreamType /\ x \in StreamType /\ x.slot = "live" /\ x.unsent = sm.unsent
      /\ x.local = l /\ x.window = sm.window /\ x.remote = sm.remote /\ x.msg = sm.msg
      /\ sm.window \in Int /\ c.flow \in Int /\ c.gen[s] \in Int
  <2>1. sm \in StreamType /\ c.flow \in Int /\ c.gen[s] \in Int
    BY DEF Conns
  <2>2. x \in StreamType /\ sm.window \in Int
    <3> HIDE DEF sm
    <3> QED BY <2>1 DEF StreamType
  <2>3. x.slot = "live" /\ x.unsent = sm.unsent /\ x.local = l /\ x.window = sm.window
        /\ x.remote = sm.remote /\ x.msg = sm.msg
    BY <2>1 DEF StreamType
  <2> QED BY <2>1, <2>2, <2>3
<1> HIDE DEF d, w, x
<1>4. d \in Conns
  <2>1. w.credit[0] = c.flow
    BY <1>2, <1>3 DEF Told, Conns
  <2> QED BY <1>1, <1>2, <1>3, <2>1 DEF Conns
<1>5. d.streams[s] = x /\ \A t \in Ids \ {s} : d.streams[t] = c.streams[t]
  BY <1>1 DEF Conns
<1>6. Spares(c, d, s)
  BY <1>1, <1>2, <1>3, <1>4, <1>5 DEF Spares, Told
<1>7. Sends(c, d, s, 0, sm.unsent, l, end)
  BY <1>1, <1>2, <1>3, <1>5, <1>6 DEF Sends
<1>8. Does(c, d, s)
  <2>1. c.wire.phase[s] # "reset"
    BY DEF Kept
  <2>2. 0 \in Nat /\ 0 <= Avail(c, s)
    BY AllowedIs, 0 \in Nat
  <2> HIDE DEF Avail
  <2> QED BY <1>7, <2>1, <2>2, SendsDoes
<1>9. Avail(d, s) = Avail(c, s)
  BY <1>1, <1>3, <1>5 DEF Avail
<1>10. Held(c, s) => Held(d, s)
  BY <1>3, <1>5, <1>9 DEF Held
<1> QED BY <1>1, <1>7, <1>8, <1>10 DEF d

\* writeMsg keeps it, and is never fatal.
LEMMA WriteMsgIs ==
    ASSUME NEW c \in Conns, NEW s \in Ids, NEW len \in Nat, NEW more \in BOOLEAN, HttpAssumption,
           c.streams[s].slot = "live", Kept(c, s), c.streams[s].unsent + len <= MaxUnsent, ~c.fatal
    PROVE  LET d == WriteMsg(c, s, len, more)
           IN /\ Does(c, d, s) /\ ~d.fatal
              /\ Held(c, s) => Held(d, s)
              /\ IF c.streams[s].local = "closed" THEN d = c
                 ELSE Answers(c, d, s, IF more THEN "open" ELSE "closed")
<1> DEFINE only == len = 0 /\ ~more
           l == IF only THEN "closed" ELSE "open"
           sent == Framed(c, s, l, only)
           d == WriteMsg(c, s, len, more)
<1>1. d = IF c.streams[s].local = "closed" THEN c
          ELSE IF only THEN sent ELSE AddData(sent, s, len, more)
  BY DEF WriteMsg, Framed
<1>2. only \in BOOLEAN /\ l \in States /\ (l = "closed" => only)
  BY DEF States
<1>3. CASE c.streams[s].local = "closed"
  <2>1. Spares(c, c, s)
    <3>1. c.flow \in Int /\ c.gen[s] \in Int
      BY DEF Conns
    <3> QED BY <3>1 DEF Spares
  <2> QED BY <1>1, <1>3, <2>1 DEF Does
<1>4. CASE c.streams[s].local # "closed"
  <2> HIDE DEF only, l, d
  <2>1. /\ Does(c, sent, s) /\ Sends(c, sent, s, 0, c.streams[s].unsent, l, only)
        /\ sent.fatal = c.fatal
        /\ Held(c, s) => Held(sent, s)
    BY <1>2, <1>4, FrameDoes
  <2> HIDE DEF sent
  <2>2. c.wire.phase[s] # "reset" /\ sent.wire.phase[s] # "reset"
    BY <1>4, <2>1 DEF Kept, Sends, Told
  <2>3. /\ sent \in Conns /\ Kept(sent, s) /\ sent.streams[s].slot = "live"
        /\ sent.streams[s].local = l /\ sent.streams[s].unsent = c.streams[s].unsent
        /\ sent.streams[s].remote = c.streams[s].remote /\ sent.streams[s].msg = c.streams[s].msg
        /\ sent.gen = c.gen /\ sent.resets = c.resets
    BY <2>1 DEF Does, Spares, Sends
  <2>4. CASE only
    <3>1. d = sent /\ l = "closed" /\ ~more
      BY <1>1, <1>4, <2>4 DEF l, only
    <3>2. Answers(c, sent, s, l)
      BY <2>2, <2>3 DEF Answers
    <3> QED BY <1>4, <2>1, <3>1, <3>2 DEF d
  <2>5. CASE ~only
    <3> DEFINE a == AddData(sent, s, len, more)
               k == IF more THEN "open" ELSE "closed"
    <3>1. d = a /\ l = "open"
      BY <1>1, <1>4, <2>5 DEF l
    <3>2. /\ Does(sent, a, s) /\ ~a.fatal
          /\ Held(sent, s) => Held(a, s)
          /\ Answers(sent, a, s, k)
      <4>1. sent.streams[s].unsent + len <= MaxUnsent /\ ~sent.fatal
        BY <2>1, <2>3
      <4>2. sent.streams[s].local = "open"
        BY <2>3, <3>1
      <4> HIDE DEF a
      <4>3. /\ Does(sent, a, s) /\ (a.fatal <=> sent.streams[s].local # "open")
            /\ ~a.fatal => (Held(sent, s) => Held(a, s)) /\ Answers(sent, a, s, k)
        BY <2>3, <4>1, AddDataIs DEF a
      <4> QED BY <4>2, <4>3
    <3> HIDE DEF a, k
    <3>3. Does(c, a, s)
      BY <2>1, <2>3, <3>2, DoesTwice
    <3>4. Answers(c, a, s, k)
      BY <2>2, <2>3, <3>2 DEF Answers
    <3>5. Held(c, s) => Held(a, s)
      BY <2>1, <3>2
    <3> QED BY <1>4, <3>1, <3>2, <3>3, <3>4, <3>5 DEF d, k
  <2> QED BY <1>2, <2>4, <2>5
<1> QED BY <1>3, <1>4

\* No entry of s_resetStreams is of a stream yet to come.
Dated(c) == \A i \in 1 .. Len(c.resets) : c.resets[i].gen <= c.gen[c.resets[i].stream]

\* A new stream has the window of the peer, and no entry in s_resetStreams.
LEMMA OpenIs ==
    ASSUME NEW c \in Conns, NEW s \in Ids, NEW window \in Nat, HttpAssumption,
           window <= initialWindow, initialWindow \in 0 .. MaxWindow, Dated(c)
    PROVE  LET d == Open(c, s, window)
           IN /\ Does(c, d, s) /\ Held(d, s)
              /\ d.streams[s] = NewStream(window) /\ d.wire.phase[s] = "open"
              /\ d.gen[s] = c.gen[s] + 1 /\ d.resets = c.resets /\ d.fatal = c.fatal
<1> DEFINE x == NewStream(window)
           w == WireOpen(c.wire, s, window)
           mis == (c.wire.misjudged \ {s}) \cup {t \in {s} : window # initialWindow}
           d == Open(c, s, window)
<1>1. x.slot = "live" /\ x.local = "idle" /\ x.remote = "idle" /\ x.window = window
      /\ x.unsent = 0 /\ x.msg = "none" /\ x \in StreamType
  <2>1. 0 \in 0 .. MaxUnsent /\ window \in 0 .. MaxWindow
    BY IdsPositive
  <2>2. x = [slot |-> "live", local |-> "idle", remote |-> "idle",
             window |-> window, unsent |-> 0, msg |-> "none"]
    <3>1. x = [NoStream EXCEPT !.slot = "live", !.window = window]
      BY DEF NewStream
    <3> HIDE DEF x
    <3> QED BY <3>1 DEF NoStream
  <2> QED BY <2>1, <2>2 DEF StreamType, States
<1>2. d = [flow |-> c.flow, streams |-> [c.streams EXCEPT ![s] = x], wire |-> w,
           resets |-> c.resets, gen |-> [c.gen EXCEPT ![s] = @ + 1], fatal |-> c.fatal]
  <2>1. d = [c EXCEPT !.streams = [c.streams EXCEPT ![s] = x],
                      !.gen = [c.gen EXCEPT ![s] = c.gen[s] + 1], !.wire = w]
    BY DEF Open
  <2> HIDE DEF d, x, w
  <2> QED BY <2>1 DEF Conns
<1>3. /\ w \in Wires /\ w.phase[s] = "open" /\ w.credit[s] = initialWindow
      /\ \A t \in Ids \ {s} : w.phase[t] = c.wire.phase[t] /\ w.credit[t] = c.wire.credit[t]
      /\ w.credit[0] = c.wire.credit[0] /\ w.faults = c.wire.faults
      /\ \A t \in Ids \ {s} : t \in w.misjudged <=> t \in c.wire.misjudged
      /\ s \notin w.misjudged => window = initialWindow
  <2>1. c.wire \in Wires /\ s # 0 /\ initialWindow \in Int
    BY IdsPositive DEF Conns
  <2>2. w = [credit |-> [c.wire.credit EXCEPT ![s] = initialWindow],
             phase |-> [c.wire.phase EXCEPT ![s] = "open"], faults |-> c.wire.faults,
             misjudged |-> mis]
    <3>1. c.wire = [credit |-> c.wire.credit, phase |-> c.wire.phase, faults |-> c.wire.faults,
                    misjudged |-> c.wire.misjudged]
      BY <2>1 DEF Wires
    <3>2. w = [c.wire EXCEPT !.credit = [@ EXCEPT ![s] = initialWindow], !.phase = [@ EXCEPT ![s] = "open"],
                             !.misjudged = mis]
      BY <3>1 DEF WireOpen
    <3> HIDE DEF w, mis
    <3> QED BY <3>1, <3>2
  <2>3. /\ mis \subseteq Ids /\ (s \notin mis => window = initialWindow)
        /\ \A t \in Ids \ {s} : t \in mis <=> t \in c.wire.misjudged
    BY <2>1 DEF Wires
  <2> HIDE DEF w, mis
  <2> QED BY <2>1, <2>2, <2>3 DEF Wires, Phases
<1>4. c.flow \in Int /\ c.gen[s] \in Nat /\ c.gen[s] + 1 >= c.gen[s] /\ c.gen[s] + 1 \in Nat
  BY DEF Conns
<1> HIDE DEF d, x, w
<1>5. d \in Conns
  BY <1>1, <1>2, <1>3 DEF Conns
<1>6. d.streams[s] = x /\ d.gen[s] = c.gen[s] + 1
      /\ \A t \in Ids \ {s} : d.streams[t] = c.streams[t] /\ d.gen[t] = c.gen[t]
  BY <1>2 DEF Conns
<1>7. Spares(c, d, s)
  BY <1>2, <1>3, <1>4, <1>5, <1>6 DEF Spares
<1>8. ~Listed(d, s)
  <2> SUFFICES ASSUME NEW i \in 1 .. Len(c.resets), c.resets[i] = [stream |-> s, gen |-> c.gen[s] + 1]
               PROVE  FALSE
    BY <1>2, <1>6 DEF Listed, Entry
  <2>1. c.resets[i].gen = c.gen[s] + 1 /\ c.resets[i].stream = s
    OBVIOUS
  <2>2. c.gen[s] + 1 <= c.gen[s]
    BY <2>1 DEF Dated
  <2> QED BY <1>4, <2>2
<1>9. Kept(d, s)
  BY <1>1, <1>2, <1>3, <1>4, <1>6, <1>8 DEF Kept
<1>10. Paid(c) => Paid(d) /\ Covered(d, s)
  BY <1>1, <1>2, <1>3, <1>6 DEF Paid, Covered
<1>11. Held(d, s)
  BY <1>1, <1>6 DEF Held
<1> QED BY <1>2, <1>3, <1>6, <1>7, <1>9, <1>10, <1>11 DEF Does, d, x

\* What is received changes no more than the receiving side and its message.
Received(c, s, x) == [c EXCEPT !.streams = [c.streams EXCEPT ![s] = x]]

\* So it keeps what holds of a stream, if one that may receive has a message.
LEMMA ReceivedIs ==
    ASSUME NEW c \in Conns, NEW s \in Ids, NEW x \in StreamType, HttpAssumption,
           c.streams[s].slot = "live", Kept(c, s),
           x.slot = "live", x.local = c.streams[s].local, x.window = c.streams[s].window,
           x.unsent = c.streams[s].unsent, x.remote = "open" => x.msg # "none",
           c.wire.phase[s] = "reset" => x.remote = "closed"
    PROVE  LET d == Received(c, s, x)
           IN /\ Does(c, d, s)
              /\ Held(c, s) => Held(d, s)
              /\ d.flow = c.flow /\ d.wire = c.wire /\ d.gen = c.gen /\ d.resets = c.resets
              /\ d.fatal = c.fatal /\ d.streams[s] = x
<1> DEFINE d == Received(c, s, x)
<1>1. /\ d.flow = c.flow /\ d.wire = c.wire /\ d.gen = c.gen /\ d.resets = c.resets
      /\ d.fatal = c.fatal /\ d.streams = [c.streams EXCEPT ![s] = x] /\ d \in Conns
  BY DEF Received, Conns
<1> HIDE DEF d
<1>2. d.streams[s] = x /\ \A t \in Ids \ {s} : d.streams[t] = c.streams[t]
  BY <1>1 DEF Conns
<1>3. Spares(c, d, s)
  <2>1. c.flow \in Int /\ c.gen[s] \in Int
    BY DEF Conns
  <2> QED BY <1>1, <1>2, <2>1 DEF Spares
<1>4. Kept(d, s)
  <2>1. Listed(d, s) <=> Listed(c, s)
    BY <1>1 DEF Listed, Entry
  <2> QED BY <1>1, <1>2, <2>1 DEF Kept
<1>5. Paid(c) /\ Covered(c, s) => Paid(d) /\ Covered(d, s)
  BY <1>1, <1>2 DEF Paid, Covered
<1>6. Held(c, s) => Held(d, s)
  <2>1. Avail(d, s) = Avail(c, s)
    BY <1>1, <1>2 DEF Avail
  <2> QED BY <1>2, <2>1 DEF Held
<1> QED BY <1>1, <1>2, <1>3, <1>4, <1>5, <1>6 DEF Does, d

\* resetStream closes both sides of a stream, and lists it.
LEMMA ResetIs ==
    ASSUME NEW c \in Conns, NEW s \in Ids, HttpAssumption,
           c.streams[s].slot \in {"absent", "live"}, Kept(c, s)
    PROVE  LET d == ResetStream(c, s)
           IN /\ Does(c, d, s)
              /\ Held(c, s) => Held(d, s)
              /\ d.gen = c.gen /\ d.fatal = c.fatal
              /\ d.wire.phase[s] = "reset" /\ d.streams[s].slot = c.streams[s].slot
              /\ d.streams[s].slot = "live" => d.streams[s].remote = "closed"
<1> DEFINE sm == c.streams[s]
           live == sm.slot = "live"
           x == IF live THEN [sm EXCEPT !.local = "closed", !.remote = "closed"] ELSE sm
           w == WireReset(c.wire, s)
           q == IF live THEN Append(c.resets, Entry(c, s)) ELSE c.resets
           d == ResetStream(c, s)
<1>1. /\ sm \in StreamType /\ x \in StreamType /\ x.slot = sm.slot /\ x.window = sm.window
      /\ x.unsent = sm.unsent /\ (live => x.local = "closed" /\ x.remote = "closed")
  <2>1. sm \in StreamType
    BY DEF Conns
  <2> HIDE DEF sm
  <2>2. CASE live
    BY <2>1, <2>2 DEF StreamType, States
  <2>3. CASE ~live
    BY <2>1, <2>3
  <2> QED BY <2>1, <2>2, <2>3
<1>2. /\ w \in Wires /\ w.phase[s] = "reset" /\ w.credit = c.wire.credit /\ w.faults = c.wire.faults
      /\ w.misjudged = c.wire.misjudged
      /\ \A t \in Ids \ {s} : w.phase[t] = c.wire.phase[t]
  BY DEF WireReset, Conns, Wires, Phases
<1>3. d = [flow |-> c.flow, streams |-> [c.streams EXCEPT ![s] = x], wire |-> w,
           resets |-> q, gen |-> c.gen, fatal |-> c.fatal]
  <2>1. CASE live
    <3> DEFINE rst == [c EXCEPT !.wire = w]
    <3>0. d = [CloseBoth(rst, s) EXCEPT !.resets = Append(CloseBoth(rst, s).resets, Entry(c, s))]
      BY <2>1 DEF ResetStream, Entry
    <3>1. rst = [flow |-> c.flow, streams |-> c.streams, wire |-> w,
                 resets |-> c.resets, gen |-> c.gen, fatal |-> c.fatal]
      <4> HIDE DEF w
      <4> QED BY ReplaceWire
    <3> HIDE DEF w, rst, d
    <3>2. CloseBoth(rst, s) = [rst EXCEPT !.streams = [c.streams EXCEPT ![s] = x]]
      <4>1. CloseBoth(rst, s) = [rst EXCEPT !.streams[s].local = "closed", !.streams[s].remote = "closed"]
        BY DEF CloseBoth
      <4>2. x = [[sm EXCEPT !.local = "closed"] EXCEPT !.remote = "closed"]
        BY <2>1
      <4>3. [[c.streams EXCEPT ![s] = [sm EXCEPT !.local = "closed"]] EXCEPT ![s] = x] = [c.streams EXCEPT ![s] = x]
        BY DEF Conns
      <4>4. [c.streams EXCEPT ![s] = [sm EXCEPT !.local = "closed"]][s] = [sm EXCEPT !.local = "closed"]
        BY DEF Conns
      <4> HIDE DEF x, sm
      <4> QED BY <3>1, <4>1, <4>2, <4>3, <4>4 DEF sm
    <3> HIDE DEF x
    <3> QED BY <2>1, <3>0, <3>1, <3>2
  <2>2. CASE ~live
    <3>1. d = [c EXCEPT !.wire = w]
      BY <2>2 DEF ResetStream
    <3>2. [c.streams EXCEPT ![s] = x] = c.streams
      BY <2>2 DEF Conns
    <3> HIDE DEF w, d, x
    <3> QED BY <2>2, <3>1, <3>2 DEF Conns
  <2> QED BY <2>1, <2>2
<1>4. q \in Seq(Entries) /\ (live => Len(q) \in Nat /\ Len(q) >= 1 /\ q[Len(q)] = Entry(c, s))
  <2>1. c.resets \in Seq(Entries) /\ c.gen[s] \in Nat
    BY DEF Conns
  <2>2. CASE live
    <3>1. Entry(c, s) \in Entries
      BY <2>1, <2>2 DEF Entry, Entries, Kept
    <3> QED BY <2>1, <2>2, <3>1
  <2>3. CASE ~live
    BY <2>1, <2>3
  <2> QED BY <2>2, <2>3
<1> HIDE DEF d, w, x
<1>5. d \in Conns
  <2> HIDE DEF q
  <2> QED BY <1>1, <1>2, <1>3, <1>4 DEF Conns
<1>6. d.streams[s] = x /\ \A t \in Ids \ {s} : d.streams[t] = c.streams[t]
  BY <1>3 DEF Conns
<1>7. Spares(c, d, s)
  <2>1. c.flow \in Int /\ c.gen[s] \in Int
    BY DEF Conns
  <2> QED BY <1>2, <1>3, <1>5, <1>6, <2>1 DEF Spares
<1>8. d.resets = q /\ d.gen = c.gen /\ d.wire = w /\ d.flow = c.flow /\ d.fatal = c.fatal
  BY <1>3
<1>9. live => Listed(d, s)
  <2>1. Entry(d, s) = Entry(c, s)
    BY <1>8 DEF Entry
  <2> HIDE DEF q
  <2> QED BY <1>4, <1>8, <2>1 DEF Listed
<1>10. Kept(d, s)
  <2>1. CASE live
    <3>1. c.gen[s] > 0
      BY <2>1 DEF Kept
    <3>2. s \notin d.wire.misjudged => d.wire.credit[s] = d.streams[s].window
      BY <1>1, <1>2, <1>6, <1>8, <2>1 DEF Kept
    <3> QED BY <1>1, <1>2, <1>6, <1>8, <1>9, <2>1, <3>1, <3>2 DEF Kept
  <2>2. CASE ~live
    BY <1>1, <1>2, <1>6, <1>8, <2>2 DEF Kept
  <2> QED BY <2>1, <2>2
<1>11. Paid(c) /\ Covered(c, s) => Paid(d) /\ Covered(d, s)
  BY <1>1, <1>2, <1>6, <1>8 DEF Paid, Covered
<1>12. Held(c, s) => Held(d, s)
  <2>1. Avail(d, s) = Avail(c, s)
    BY <1>1, <1>6, <1>8 DEF Avail
  <2> QED BY <1>1, <1>6, <2>1 DEF Held
<1>13. Does(c, d, s)
  <2>1. Entry(d, s) = Entry(c, s)
    BY <1>8 DEF Entry
  <2> QED BY <1>7, <1>8, <1>10, <1>11, <2>1 DEF Does
<1> QED BY <1>1, <1>2, <1>6, <1>8, <1>12, <1>13 DEF d

-----------------------------------------------------------------------------
(* The walk over the streams.                                              *)

\* An order of a finite set reaches each of its elements, once.
LEMMA SeqsAre ==
    ASSUME NEW S, IsFiniteSet(S), NEW order \in SetToSeqs(S)
    PROVE  /\ Len(order) \in Nat
           /\ \A i \in 1 .. Len(order) : order[i] \in S
           /\ \A i, j \in 1 .. Len(order) : i # j => order[i] # order[j]
           /\ \A x \in S : \E i \in 1 .. Len(order) : order[i] = x
<1> DEFINE n == Cardinality(S)
<1>1. n \in Nat
  BY FS_CardinalityType
<1>2. order \in [1 .. n -> S] /\ \A i, j \in 1 .. n : i # j => order[i] # order[j]
  BY DEF SetToSeqs
<1>3. order \in Injection(1 .. n, S)
  BY <1>2 DEF Injection, IsInjective
<1>4. IsFiniteSet(1 .. n) /\ Cardinality(1 .. n) = n
  BY <1>1, FS_Interval
<1>5. order \in Surjection(1 .. n, S)
  BY <1>3, <1>4, FS_Injection
<1>6. \A x \in S : \E i \in 1 .. n : order[i] = x
  BY <1>5 DEF Surjection
<1>7. Len(order) = n
  BY <1>1, <1>2
<1> QED BY <1>1, <1>2, <1>6, <1>7

\* What sending on changes.
Carried(c, d) ==
    /\ d \in Conns /\ d.flow <= c.flow
    /\ d.gen = c.gen /\ d.resets = c.resets /\ d.fatal = c.fatal
    /\ \A t \in Ids :
        /\ Kept(d, t)
        /\ d.wire.phase[t] = "reset" <=> c.wire.phase[t] = "reset"
        /\ d.streams[t].slot # "null"
        /\ d.streams[t].slot = "live" =>
            /\ c.streams[t].slot = "live" /\ d.streams[t].local = c.streams[t].local
            /\ d.streams[t].remote = c.streams[t].remote /\ d.streams[t].msg = c.streams[t].msg
    /\ Paid(c) /\ (\A t \in Ids : Covered(c, t)) => Paid(d) /\ (\A t \in Ids : Covered(d, t))

\* It may be continued with any stream that is left.
LEMMA CarriedOn ==
    ASSUME NEW c \in Conns, NEW d, NEW s \in Ids, HttpAssumption, Carried(c, d),
           d.streams[s].slot = "live"
    PROVE  Carried(c, WriteUnsent(d, s))
<1> DEFINE e == WriteUnsent(d, s)
<1>1. d \in Conns /\ Kept(d, s)
  BY DEF Carried
<1>2. Does(d, e, s) /\ e.fatal = d.fatal /\ Answers(d, e, s, d.streams[s].local)
  BY <1>1, WriteUnsentIs
<1> HIDE DEF e
<1>3. e \in Conns /\ e.flow <= c.flow
  <2>1. e \in Conns /\ e.flow <= d.flow /\ d.flow <= c.flow
    BY <1>2 DEF Does, Spares, Carried
  <2>2. c.flow \in Int /\ d.flow \in Int /\ e.flow \in Int
    BY <1>1, <2>1 DEF Conns
  <2> QED BY <2>1, <2>2
<1>4. e.gen = c.gen /\ e.resets = c.resets /\ e.fatal = c.fatal
  BY <1>2 DEF Answers, Carried
<1>5. ASSUME NEW t \in Ids
      PROVE  /\ Kept(e, t)
             /\ e.wire.phase[t] = "reset" <=> c.wire.phase[t] = "reset"
             /\ e.streams[t].slot # "null"
             /\ e.streams[t].slot = "live" =>
                 /\ c.streams[t].slot = "live" /\ e.streams[t].local = c.streams[t].local
                 /\ e.streams[t].remote = c.streams[t].remote /\ e.streams[t].msg = c.streams[t].msg
  <2>1. CASE t = s
    BY <1>2, <2>1 DEF Does, Answers, Carried
  <2>2. CASE t # s
    <3>1. Kept(e, t)
      BY <1>1, <1>2, <2>2, OthersKept DEF Does, Carried
    <3>2. e.streams[t] = d.streams[t] /\ e.wire.phase[t] = d.wire.phase[t]
      BY <1>2, <2>2 DEF Does, Spares
    <3> QED BY <3>1, <3>2 DEF Carried
  <2> QED BY <2>1, <2>2
<1>6. ASSUME Paid(d), \A t \in Ids : Covered(d, t)
      PROVE  Paid(e) /\ \A t \in Ids : Covered(e, t)
  <2>1. Paid(e) /\ Covered(e, s)
    BY <1>2, <1>6 DEF Does
  <2>2. \A t \in Ids \ {s} : Covered(e, t)
    BY <1>1, <1>2, <1>6, OthersKept DEF Does
  <2> QED BY <2>1, <2>2
<1> QED BY <1>3, <1>4, <1>5, <1>6 DEF Carried, e

\* Without window for the connection, everything is held back rightly.
LEMMA DryHeld ==
    ASSUME NEW c \in Conns, NEW s \in Ids, HttpAssumption, c.flow = 0
    PROVE  Held(c, s)
<1>1. Avail(c, s) \in Nat /\ Avail(c, s) <= 0
  BY AllowedIs, 0 \in Nat
<1>2. MaxFrame \in Nat \ {0} /\ c.streams[s].unsent \in Int
  BY IdsPositive DEF Conns, StreamType
<1> HIDE DEF Avail
<1>3. Avail(c, s) = 0
  BY <1>1
<1> QED BY <1>2, <1>3 DEF Held

\* After the walk no stream holds back more than it must: a stream that was passed stays
\* dry, since the window of the connection only shrinks on the way.
LEMMA WalkKeeps ==
    ASSUME NEW c \in Conns, HttpAssumption,
           \A t \in Ids : Kept(c, t) /\ c.streams[t].slot # "null",
           NEW order \in SetToSeqs({t \in Ids : c.streams[t].slot # "absent"})
    PROVE  Carried(c, Walk(c, order)) /\ \A t \in Ids : Held(Walk(c, order), t)
<1> DEFINE S == {t \in Ids : c.streams[t].slot # "absent"}
           n == Len(order)
<1>1. IsFiniteSet(S)
  BY IdsPositive, FS_Subset
<1>2. /\ n \in Nat
      /\ \A i \in 1 .. n : order[i] \in Ids /\ c.streams[order[i]].slot = "live"
      /\ \A i, j \in 1 .. n : i # j => order[i] # order[j]
      /\ \A t \in Ids : c.streams[t].slot # "absent" => \E i \in 1 .. n : order[i] = t
  <2>1. \A t \in S : t \in Ids /\ c.streams[t].slot = "live"
    BY DEF Conns, StreamType
  <2>2. \A t \in Ids : c.streams[t].slot # "absent" => t \in S
    OBVIOUS
  <2>3. order \in SetToSeqs(S)
    OBVIOUS
  <2> HIDE DEF S, n
  <2>4. /\ n \in Nat
        /\ \A i \in 1 .. n : order[i] \in S
        /\ \A i, j \in 1 .. n : i # j => order[i] # order[j]
        /\ \A t \in S : \E i \in 1 .. n : order[i] = t
    BY <1>1, <2>3, SeqsAre DEF n
  <2> QED BY <2>1, <2>2, <2>4
<1>3. PICK f : WalkFn(f, c, order, n) /\ Walk(c, order) = f[n]
  BY <1>2, WalkIs
<1> HIDE DEF n
<1>4. f[0] = c /\ \A i \in 1 .. n : f[i] = WalkStep(f[i - 1], order[i])
  <2>1. 0 \in 0 .. n /\ \A i \in 1 .. n : i \in 0 .. n /\ i # 0
    BY <1>2
  <2> QED BY <1>3, <2>1 DEF WalkFn
<1> DEFINE Behind(i) == \A j \in 1 .. n : j <= i => Held(f[i], order[j]) \/ f[i].flow = 0
           Ahead(i) == \A j \in 1 .. n : j > i => f[i].streams[order[j]] = c.streams[order[j]]
           Done(i) == Carried(c, f[i]) /\ Behind(i) /\ Ahead(i)
<1>5. Done(0)
  <2>1. c.flow \in Int
    BY DEF Conns
  <2>2. Carried(c, c)
    BY <2>1 DEF Carried
  <2> QED BY <1>2, <1>4, <2>2
<1>6. ASSUME NEW i \in 1 .. n, Done(i - 1) PROVE Done(i)
  <2> DEFINE d == f[i - 1]
             s == order[i]
             e == f[i]
  <2>1. /\ d \in Conns /\ Carried(c, d) /\ s \in Ids /\ i \in Int
        /\ \A j \in 1 .. n : j < i => Held(d, order[j]) \/ d.flow = 0
        /\ \A j \in 1 .. n : j >= i => d.streams[order[j]] = c.streams[order[j]]
    BY <1>2, <1>6 DEF Carried
  <2>2. d.streams[s] = c.streams[s] /\ d.streams[s].slot = "live"
    BY <1>2, <2>1
  <2>3. e = WalkStep(d, s)
    BY <1>4
  <2> HIDE DEF d, e, s
  <2>4. CASE d.flow = 0
    <3>1. e = d
      BY <2>3, <2>4 DEF WalkStep
    <3>2. Carried(c, e) /\ (\A j \in 1 .. n : j <= i => Held(e, order[j]) \/ e.flow = 0)
          /\ (\A j \in 1 .. n : j > i => e.streams[order[j]] = c.streams[order[j]])
      BY <2>1, <2>4, <3>1
    <3> QED BY <3>2 DEF e
  <2>5. CASE d.flow # 0
    <3>1. e = WriteUnsent(d, s)
      BY <2>3, <2>5 DEF WalkStep
    <3>2. Carried(c, e)
      BY <2>1, <2>2, <3>1, CarriedOn
    <3>3. Does(d, e, s) /\ Held(e, s)
      BY <2>1, <2>2, <3>1, WriteUnsentIs DEF Carried
    <3>4. ASSUME NEW j \in 1 .. n, j < i PROVE Held(e, order[j])
      <4>1. order[j] \in Ids \ {s} /\ Held(d, order[j])
        BY <1>2, <2>1, <2>5, <3>4 DEF s
      <4> QED BY <2>1, <3>3, <4>1, OthersKept DEF Does
    <3>5. ASSUME NEW j \in 1 .. n, j > i PROVE e.streams[order[j]] = c.streams[order[j]]
      <4>1. order[j] \in Ids \ {s} /\ d.streams[order[j]] = c.streams[order[j]]
        BY <1>2, <2>1, <3>5 DEF s
      <4> QED BY <3>3, <4>1 DEF Does, Spares
    <3>6. \A j \in 1 .. n : j <= i => Held(e, order[j])
      BY <2>1, <3>3, <3>4 DEF s
    <3> QED BY <3>2, <3>5, <3>6 DEF e
  <2> QED BY <2>4, <2>5
<1> HIDE DEF Done
<1>7. \A i \in 0 .. n : Done(i)
  <2> DEFINE T == {i \in 0 .. n : ~Done(i)}
  <2> SUFFICES ASSUME T # {} PROVE FALSE
    OBVIOUS
  <2>1. T \subseteq Nat
    BY <1>2
  <2>2. PICK i \in T : \A j \in T : i <= j
    BY <2>1, NatMin
  <2>3. i \in 1 .. n /\ i - 1 \in 0 .. n /\ ~(i <= i - 1)
    BY <1>2, <1>5, <2>2
  <2>4. Done(i - 1)
    BY <2>2, <2>3
  <2> QED BY <1>6, <2>2, <2>3, <2>4
<1>8. Done(n)
  BY <1>2, <1>7
<1>9. Carried(c, f[n]) /\ \A j \in 1 .. n : Held(f[n], order[j]) \/ f[n].flow = 0
  <2>1. \A j \in 1 .. n : j <= n
    BY <1>2
  <2> QED BY <1>8, <2>1 DEF Done
<1>10. ASSUME NEW t \in Ids PROVE Held(f[n], t)
  <2>1. f[n] \in Conns
    BY <1>9 DEF Carried
  <2>2. CASE f[n].flow = 0
    BY <2>1, <2>2, DryHeld
  <2>3. CASE f[n].flow # 0 /\ c.streams[t].slot # "absent"
    BY <1>2, <1>9, <2>3
  <2>4. CASE c.streams[t].slot = "absent"
    BY <1>9, <2>4 DEF Held, Carried
  <2> QED BY <2>2, <2>3, <2>4
<1> QED BY <1>3, <1>9, <1>10

-----------------------------------------------------------------------------
(* The inductive invariant.                                                *)

Requests == [stream : Ids, gen : Nat \ {0}, stage : {"reply", "more"}]

\* The first stream of an id is ready for whatever the application still answers:
\* a request that is not answered yet has an idle sending side, one that is being
\* answered an open one, and one that has not been delivered has no answer.
Answerable(c, R, s) ==
    c.streams[s].slot = "live" =>
        /\ c.streams[s].remote = "idle" => c.streams[s].local # "idle"
        /\ c.gen[s] = 1 /\ c.wire.phase[s] # "reset" =>
            /\ \A r \in R : r.stream = s => c.streams[s].local = IF r.stage = "more" THEN "open" ELSE "idle"
            /\ c.streams[s].msg = "request" => c.streams[s].local = "idle" /\ \A r \in R : r.stream # s

RestTyped ==
    /\ status \in {"preface", "open", "failed", "closed", "aborted", "crashed"}
    /\ outgoing \in BOOLEAN
    /\ frameMode \in {"settings", "normal", "continuation"}
    /\ lastInput \in Ids \cup {0} /\ lastOutput \in GoAwayIds \cup {0}
    /\ nextOutput \in Nat /\ unackSettings \in 0 .. 1
    /\ status = "preface" => unackSettings = 0
    /\ initialWindow \in 0 .. MaxWindow
    /\ blamed \in Ids \cup {0}

\* All that is said of a connection c, its requests R and its status.
Sound(c, R, st) ==
    /\ c \in Conns
    /\ \A s \in Ids : Kept(c, s) /\ Answerable(c, R, s)
    /\ Dated(c)
    /\ st # "aborted" => \A s \in Ids : Held(c, s)
    /\ st \in {"preface", "open"} => \A s \in Ids : c.streams[s].slot # "null"
    /\ R \subseteq Requests /\ \A r \in R : r.gen <= c.gen[r.stream]

HttpIInv == RestTyped /\ Sound(Conn, requests, status)

\* While the peer does not lower its initial window.
CreditInv == Paid(Conn) /\ \A s \in Ids : Covered(Conn, s)

\* What every step has to keep.
Safe ==
    /\ HttpIInv'
    /\ CreditInv /\ initialWindow' >= initialWindow => CreditInv'

\* A step that leaves the direction of the connection alone leaves the types alone.
LEMMA IdsSame ==
    ASSUME outgoing' = outgoing
    PROVE  Ids' = Ids /\ Conns' = Conns /\ Requests' = Requests
<1>1. Ids' = Ids
  BY DEF Ids
<1>2. StreamType' = StreamType
  BY DEF StreamType
<1>3. Wires' = Wires /\ Entries' = Entries
  BY <1>1 DEF Wires, Entries
<1> QED BY <1>1, <1>2, <1>3 DEF Conns, Requests

\* The connection after a step is the one that the step has worked out.
LEMMA BecomeIs ==
    ASSUME NEW c, Become(c)
    PROVE  Conn' = [flow |-> c.flow, streams |-> c.streams, wire |-> c.wire,
                    resets |-> c.resets, gen |-> c.gen, fatal |-> FALSE]
<1>1. Conn' = [flow |-> flowWindow', streams |-> streams', wire |-> wire',
               resets |-> resetQ', gen |-> gen', fatal |-> FALSE]
  BY DEF Conn
<1> QED BY <1>1 DEF Become

\* What holds of the connection that a step has worked out holds after the step.
LEMMA SoundNext ==
    ASSUME HttpAssumption, NEW c \in Conns, Become(c), outgoing' = outgoing,
           RestTyped', Sound(c, requests', status')
    PROVE  HttpIInv'
<1> DEFINE d == Conn'
<1>1. d = [flow |-> c.flow, streams |-> c.streams, wire |-> c.wire,
           resets |-> c.resets, gen |-> c.gen, fatal |-> FALSE]
  BY BecomeIs
<1> HIDE DEF d
<1>2. d \in Conns /\ d.flow = c.flow /\ d.streams = c.streams /\ d.wire = c.wire
      /\ d.resets = c.resets /\ d.gen = c.gen
  BY <1>1 DEF Conns
<1>3. ASSUME NEW s \in Ids
      PROVE  /\ Kept(c, s) => Kept(d, s)
             /\ Held(c, s) => Held(d, s)
             /\ Answerable(c, requests', s) => Answerable(d, requests', s)
  BY <1>2 DEF Kept, Held, Answerable, Listed, Entry, Avail
<1>4. Sound(d, requests', status')
  BY <1>2, <1>3 DEF Sound, Dated
<1>5. Sound(Conn, requests, status)'
  <2>1. Ids' = Ids /\ Conns' = Conns /\ Requests' = Requests
    BY IdsSame
  <2> QED BY <1>4, <2>1 DEF Sound, d
<1> QED BY <1>5 DEF HttpIInv

\* A step that changes one stream.
LEMMA StepSafe ==
    ASSUME HttpAssumption, HttpIInv, NEW s \in Ids, NEW c, Become(c), Does(Conn, c, s),
           outgoing' = outgoing, RestTyped',
           status' # "aborted" => status # "aborted" /\ Held(c, s),
           status' \in {"preface", "open"} =>
               status \in {"preface", "open"} /\ c.streams[s].slot # "null",
           Answerable(c, requests', s),
           \A r \in requests' : \/ r \in requests /\ r.stream # s
                                \/ r \in Requests /\ r.stream = s /\ r.gen <= c.gen[s]
    PROVE  HttpIInv' /\ (CreditInv => CreditInv')
<1>1. Sound(Conn, requests, status) /\ Conn \in Conns
  BY DEF HttpIInv, Sound
<1> DEFINE b == Conn
<1> HIDE DEF b
<1>2. b \in Conns /\ Sound(b, requests, status) /\ Does(b, c, s) /\ c \in Conns /\ Spares(b, c, s)
      /\ (c.resets = b.resets \/ c.resets = Append(b.resets, Entry(c, s)))
  BY <1>1 DEF b, Does, Spares
<1>3. ASSUME NEW t \in Ids
      PROVE  /\ Kept(c, t) /\ Answerable(c, requests', t)
             /\ status' # "aborted" => Held(c, t)
             /\ status' \in {"preface", "open"} => c.streams[t].slot # "null"
  <2>1. CASE t = s
    BY <1>2, <2>1 DEF Does
  <2>2. CASE t # s
    <3>1. /\ Kept(b, t) => Kept(c, t)
          /\ Held(b, t) => Held(c, t)
      BY <1>2, <2>2, OthersKept
    <3>2. c.streams[t] = b.streams[t] /\ c.gen[t] = b.gen[t] /\ c.wire.phase[t] = b.wire.phase[t]
      BY <1>2, <2>2 DEF Spares
    <3>3. Answerable(c, requests', t)
      BY <1>2, <2>2, <3>2 DEF Answerable, Sound
    <3> QED BY <1>2, <3>1, <3>2, <3>3 DEF Sound
  <2> QED BY <2>1, <2>2
<1>4. ASSUME NEW i \in 1 .. Len(c.resets)
      PROVE  c.resets[i].gen <= c.gen[c.resets[i].stream]
  <2>0. ASSUME NEW e \in Entries, e.gen <= b.gen[e.stream]
        PROVE  e.gen <= c.gen[e.stream]
    <3>1. e.gen \in Int /\ e.stream \in Ids
      BY <2>0 DEF Entries
    <3>2. b.gen[e.stream] \in Int /\ c.gen[e.stream] \in Int /\ b.gen[e.stream] <= c.gen[e.stream]
      <4>1. b.gen[e.stream] \in Int /\ c.gen[e.stream] \in Int
        BY <1>2, <3>1 DEF Conns
      <4> QED BY <1>2, <3>1, <4>1 DEF Spares
    <3> QED BY <2>0, <3>1, <3>2
  <2>1. b.resets \in Seq(Entries) /\ \A j \in 1 .. Len(b.resets) : b.resets[j].gen <= b.gen[b.resets[j].stream]
    BY <1>2 DEF Conns, Sound, Dated
  <2>2. CASE c.resets = b.resets
    <3>1. i \in 1 .. Len(b.resets) /\ b.resets[i] \in Entries
      BY <2>1, <2>2
    <3> QED BY <2>0, <2>1, <2>2, <3>1
  <2>3. CASE c.resets = Append(b.resets, Entry(c, s)) /\ i \in 1 .. Len(b.resets)
    <3>1. c.resets[i] = b.resets[i] /\ b.resets[i] \in Entries
      BY <2>1, <2>3
    <3> QED BY <2>0, <2>1, <2>3, <3>1
  <2>4. CASE c.resets = Append(b.resets, Entry(c, s)) /\ i \notin 1 .. Len(b.resets)
    <3>1. c.resets[i] = Entry(c, s)
      BY <2>1, <2>4
    <3>2. c.gen[s] \in Int
      BY <1>2 DEF Conns
    <3> QED BY <3>1, <3>2 DEF Entry
  <2> QED BY <1>2, <2>2, <2>3, <2>4
<1>5. ASSUME NEW r \in requests' PROVE r \in Requests /\ r.gen <= c.gen[r.stream]
  <2>1. CASE r \in requests /\ r.stream # s
    <3>1. r \in Requests /\ r.gen <= b.gen[r.stream] /\ r.stream \in Ids
      BY <1>2, <2>1 DEF Sound, Requests
    <3> QED BY <1>2, <2>1, <3>1 DEF Spares
  <2> QED BY <2>1
<1>6. Sound(c, requests', status')
  BY <1>2, <1>3, <1>4, <1>5 DEF Sound, Dated
<1>7. ASSUME CreditInv PROVE CreditInv'
  <2>1. Paid(b) /\ \A t \in Ids : Covered(b, t)
    BY <1>7 DEF CreditInv, b
  <2>2. Paid(c) /\ Covered(c, s)
    BY <1>2, <2>1 DEF Does
  <2>3. \A t \in Ids : Covered(c, t)
    BY <1>2, <2>1, <2>2, OthersKept
  <2> DEFINE d == Conn'
  <2>4. d.flow = c.flow /\ d.streams = c.streams /\ d.wire = c.wire
    BY BecomeIs
  <2> HIDE DEF d
  <2>5. Paid(d) /\ \A t \in Ids : Covered(d, t)
    BY <2>2, <2>3, <2>4 DEF Paid, Covered
  <2> QED BY <2>5, IdsSame DEF CreditInv, d
<1> QED BY <1>2, <1>6, <1>7, SoundNext

\* A step that changes no stream.
LEMMA QuietSafe ==
    ASSUME HttpAssumption, HttpIInv, UNCHANGED data, outgoing' = outgoing, RestTyped',
           requests' \subseteq requests, status # "aborted",
           status' \in {"preface", "open"} => status \in {"preface", "open"}
    PROVE  HttpIInv' /\ (CreditInv => CreditInv')
<1>1. Conn' = Conn /\ Become(Conn)
  BY DEF data, Conn, Become
<1>2. Sound(Conn, requests', status')
  <2> DEFINE b == Conn
  <2>1. Sound(b, requests, status)
    BY DEF HttpIInv
  <2> HIDE DEF b
  <2>2. \A s \in Ids : Answerable(b, requests, s) => Answerable(b, requests', s)
    BY DEF Answerable
  <2>3. Sound(b, requests', status')
    BY <2>1, <2>2 DEF Sound
  <2> QED BY <2>3 DEF b
<1>3. HttpIInv'
  BY <1>1, <1>2, SoundNext DEF Sound
<1>4. CreditInv => CreditInv'
  BY <1>1, IdsSame DEF CreditInv
<1> QED BY <1>3, <1>4

-----------------------------------------------------------------------------
(* The steps that change no stream.                                        *)

\* The preface.
LEMMA PrefaceSafe ==
    ASSUME HttpAssumption, HttpIInv, Preface
    PROVE  Safe
<1>1. UNCHANGED data /\ outgoing' = outgoing /\ requests' \subseteq requests /\ status # "aborted"
      /\ (status' \in {"preface", "open"} => status \in {"preface", "open"}) /\ status' # "aborted"
  BY DEF Preface, data
<1>2. RestTyped'
  BY IdsSame DEF Preface, HttpIInv, RestTyped
<1> QED BY <1>1, <1>2, QuietSafe DEF Safe

\* Frames that are refused, ignored or only counted.
LEMMA FrameQuietSafe ==
    ASSUME HttpAssumption, HttpIInv,
           \/ OnBadFrame \/ OnIgnored \/ OnSettingsAck
           \/ \E s \in Ids : OnHeadersAgain(s)
           \/ \E last \in GoAwayIds, noError \in BOOLEAN : OnGoAway(last, noError)
    PROVE  Safe
<1>1. UNCHANGED data /\ outgoing' = outgoing /\ requests' \subseteq requests /\ status = "open"
      /\ (status' \in {"preface", "open"} => status \in {"preface", "open"}) /\ status' # "aborted"
  BY DEF OnBadFrame, OnIgnored, OnSettingsAck, OnHeadersAgain, OnGoAway, Receiving, GoAwayOnly, GoAway,
         FrameOk
<1>2. RestTyped'
  <2>1. RestTyped /\ status = "open" /\ status' \in {"open", "failed"} /\ nextOutput' = nextOutput
        /\ blamed' = blamed /\ initialWindow' = initialWindow /\ lastInput' = lastInput
        /\ frameMode' \in {frameMode, "normal"}
    BY DEF OnBadFrame, OnIgnored, OnSettingsAck, OnHeadersAgain, OnGoAway, Receiving, GoAwayOnly, GoAway,
           FrameOk, frameVars, HttpIInv
  <2>2. unackSettings' = unackSettings \/ (unackSettings # 0 /\ unackSettings' = unackSettings - 1)
    BY DEF OnBadFrame, OnIgnored, OnSettingsAck, OnHeadersAgain, OnGoAway, Receiving, GoAwayOnly, GoAway,
           FrameOk, frameVars
  <2>3. lastOutput' = lastOutput \/ lastOutput' \in GoAwayIds
    BY DEF OnBadFrame, OnIgnored, OnSettingsAck, OnHeadersAgain, OnGoAway, Receiving, GoAwayOnly, GoAway,
           FrameOk, frameVars
  <2>4. unackSettings' \in 0 .. 1
    BY <2>1, <2>2 DEF RestTyped
  <2> QED BY <1>1, <2>1, <2>3, <2>4, IdsSame DEF RestTyped
<1> QED BY <1>1, <1>2, QuietSafe DEF Safe

\* The end of the connection.
LEMMA CloseSafe ==
    ASSUME HttpAssumption, HttpIInv, Close
    PROVE  Safe
<1>1. UNCHANGED data /\ outgoing' = outgoing /\ requests' \subseteq requests /\ status # "aborted"
      /\ (status' \in {"preface", "open"} => status \in {"preface", "open"}) /\ status' # "aborted"
  BY DEF Close, CallVars
<1>2. RestTyped'
  BY IdsSame DEF Close, CallVars, frameVars, HttpIInv, RestTyped
<1> QED BY <1>1, <1>2, QuietSafe DEF Safe

\* A frame on a stream that is not in m_streams.
LEMMA UnknownSafe ==
    ASSUME HttpAssumption, HttpIInv, NEW s \in Ids, OnUnknownStream(s), Receiving,
           UNCHANGED <<frameVars, requests>>
    PROVE  Safe
<1>1. UNCHANGED data /\ outgoing' = outgoing /\ requests' \subseteq requests /\ status = "open"
      /\ (status' \in {"preface", "open"} => status \in {"preface", "open"}) /\ status' # "aborted"
  BY DEF OnUnknownStream, GoAway, Receiving
<1>2. RestTyped'
  <2>1. RestTyped /\ status' \in {"open", "failed"} /\ nextOutput' = nextOutput
        /\ initialWindow' = initialWindow /\ lastInput' = lastInput /\ frameMode' = frameMode
        /\ unackSettings' = unackSettings /\ lastOutput' = lastOutput /\ blamed' \in {s, blamed}
    BY <1>1 DEF OnUnknownStream, GoAway, frameVars, HttpIInv
  <2> QED BY <1>1, <2>1, IdsSame DEF RestTyped
<1> QED BY <1>1, <1>2, QuietSafe DEF Safe

-----------------------------------------------------------------------------
(* The steps on one stream.                                                *)

\* What the invariant says of a stream of the connection.
LEMMA StreamHas ==
    ASSUME HttpIInv, NEW s \in Ids
    PROVE  /\ Conn \in Conns /\ Kept(Conn, s) /\ Answerable(Conn, requests, s) /\ Dated(Conn)
           /\ status # "aborted" => Held(Conn, s)
           /\ status \in {"preface", "open"} => streams[s].slot # "null"
           /\ Conn.streams[s] = streams[s] /\ Conn.gen[s] = gen[s] /\ Conn.wire.phase[s] = wire.phase[s]
           /\ streams[s].slot \in {"absent", "null", "live"}
           /\ streams[s].slot = "live" => gen[s] > 0
           /\ gen[s] \in Nat /\ ~Conn.fatal
<1>1. Sound(Conn, requests, status)
  BY DEF HttpIInv
<1>2. Conn.streams = streams /\ Conn.gen = gen /\ Conn.wire = wire /\ Conn.fatal = FALSE
  BY DEF Conn
<1> DEFINE b == Conn
<1> HIDE DEF b
<1>3. Sound(b, requests, status) /\ b.streams = streams /\ b.gen = gen /\ b.wire = wire /\ b.fatal = FALSE
  BY <1>1, <1>2 DEF b
<1>4. b.streams[s] \in StreamType /\ b.gen[s] \in Nat
  BY <1>3 DEF Sound, Conns
<1>5. b.streams[s].slot \in {"absent", "null", "live"}
  BY <1>4 DEF StreamType
<1>6. b \in Conns /\ Kept(b, s) /\ Answerable(b, requests, s) /\ Dated(b)
      /\ (status # "aborted" => Held(b, s))
      /\ (status \in {"preface", "open"} => b.streams[s].slot # "null")
  BY <1>3 DEF Sound
<1>7. b.streams[s].slot = "live" => b.gen[s] > 0
  BY <1>6 DEF Kept
<1> QED BY <1>3, <1>4, <1>5, <1>6, <1>7 DEF b

\* The requests of the application are of streams that have been opened.
LEMMA RequestsAre ==
    ASSUME HttpIInv, NEW r \in requests
    PROVE  /\ r \in Requests /\ r.stream \in Ids /\ r.gen \in Nat \ {0} /\ r.stage \in {"reply", "more"}
           /\ r.gen <= gen[r.stream]
<1>1. Sound(Conn, requests, status) /\ Conn.gen = gen
  BY DEF HttpIInv, Conn
<1> DEFINE b == Conn
<1> HIDE DEF b
<1>2. Sound(b, requests, status) /\ b.gen = gen
  BY <1>1 DEF b
<1> QED BY <1>2 DEF Sound, Requests

\* A frame or call that resets a stream.
LEMMA ResetSafe ==
    ASSUME HttpAssumption, HttpIInv, NEW s \in Ids, Become(ResetStream(Conn, s)),
           streams[s].slot # "null", status \in {"open", "failed"}, status' = status,
           outgoing' = outgoing, RestTyped', requests' \subseteq requests
    PROVE  HttpIInv' /\ (CreditInv => CreditInv')
<1> DEFINE b == Conn
           c == ResetStream(b, s)
<1>1. /\ b \in Conns /\ Held(b, s) /\ b.streams[s].slot \in {"absent", "live"} /\ b.gen[s] = gen[s]
      /\ Kept(b, s)
  BY StreamHas
<1> HIDE DEF b
<1>2. /\ Does(b, c, s) /\ Held(c, s) /\ c.gen = b.gen
      /\ c.wire.phase[s] = "reset" /\ c.streams[s].slot = b.streams[s].slot
      /\ c.streams[s].slot = "live" => c.streams[s].remote = "closed"
  BY <1>1, ResetIs
<1>3. Become(c)
  BY DEF b
<1> HIDE DEF c
<1>4. Answerable(c, requests', s)
  BY <1>2 DEF Answerable
<1>5. \A r \in requests' : \/ r \in requests /\ r.stream # s
                           \/ r \in Requests /\ r.stream = s /\ r.gen <= c.gen[s]
  BY <1>1, <1>2, RequestsAre
<1>6. c.streams[s].slot # "null"
  BY <1>1, <1>2
<1> QED BY <1>2, <1>3, <1>4, <1>5, <1>6, StepSafe DEF b

\* A priority frame that is in error.
LEMMA OnPrioritySafe ==
    ASSUME HttpAssumption, HttpIInv, NEW s \in Ids, OnPriority(s)
    PROVE  Safe
<1>1. /\ status = "open" /\ status' = status /\ outgoing' = outgoing /\ requests' \subseteq requests
      /\ Become(ResetStream(Conn, s))
  BY DEF OnPriority, Receiving, FrameOk
<1>2. RestTyped'
  BY <1>1, IdsSame DEF OnPriority, FrameOk, frameVars, HttpIInv, RestTyped
<1>3. streams[s].slot # "null"
  BY <1>1, StreamHas
<1> QED BY <1>1, <1>2, <1>3, ResetSafe DEF Safe

\* The receiving side becomes r, and the message m.
Got(c, s, r, m) == Received(c, s, [c.streams[s] EXCEPT !.remote = r, !.msg = m])

Gets(c, d, s, r, m) ==
    /\ Does(c, d, s)
    /\ Held(c, s) => Held(d, s)
    /\ d.flow = c.flow /\ d.wire = c.wire /\ d.gen = c.gen /\ d.resets = c.resets
    /\ d.fatal = c.fatal /\ d.streams[s].slot = "live"
    /\ d.streams[s].local = c.streams[s].local /\ d.streams[s].remote = r
    /\ d.streams[s].msg = m

\* It is a step on the stream, if the stream has not been reset.
LEMMA GotIs ==
    ASSUME NEW c \in Conns, NEW s \in Ids, NEW r \in States, NEW m \in {"none", "request", "response"},
           HttpAssumption, c.streams[s].slot = "live", Kept(c, s), r = "open" => m # "none",
           c.wire.phase[s] = "reset" => r = "closed"
    PROVE  Gets(c, Got(c, s, r, m), s, r, m)
<1> DEFINE x == [c.streams[s] EXCEPT !.remote = r, !.msg = m]
           d == Got(c, s, r, m)
<1>1. d = Received(c, s, x)
  BY DEF Got
<1>2. /\ x \in StreamType /\ x.slot = "live" /\ x.local = c.streams[s].local
      /\ x.window = c.streams[s].window /\ x.unsent = c.streams[s].unsent
      /\ x.remote = r /\ x.msg = m
  <2> DEFINE sm == c.streams[s]
  <2>1. sm \in StreamType /\ sm.slot = "live"
    BY DEF Conns
  <2> HIDE DEF sm
  <2>2. [sm EXCEPT !.remote = r, !.msg = m] \in StreamType
    BY <2>1 DEF StreamType
  <2> QED BY <2>1, <2>2 DEF StreamType, sm
<1> HIDE DEF x, d
<1>3. /\ Does(c, d, s)
      /\ Held(c, s) => Held(d, s)
      /\ d.flow = c.flow /\ d.wire = c.wire /\ d.gen = c.gen /\ d.resets = c.resets
      /\ d.fatal = c.fatal /\ d.streams[s] = x
  <2>1. x.remote = "open" => x.msg # "none"
    BY <1>2
  <2>2. c.wire.phase[s] = "reset" => x.remote = "closed"
    BY <1>2
  <2> QED BY <1>1, <1>2, <2>1, <2>2, ReceivedIs
<1> QED BY <1>2, <1>3 DEF d, Gets

Heard(c, s, r, m) == [c EXCEPT !.streams[s].remote = r, !.streams[s].msg = m]

\* The forms in which the handlers write it.
LEMMA TakenIs ==
    ASSUME NEW c \in Conns, NEW s \in Ids
    PROVE  /\ TakeMsg(CloseRemote(c, s), s) = Got(c, s, "closed", "none")
           /\ \A r, m : Heard(c, s, r, m) = Got(c, s, r, m)
           /\ \A r, m : TakeMsg(Got(c, s, r, m), s) = Got(c, s, r, "none")
<1> DEFINE sm == c.streams[s]
           q == c.streams
           P(r, m) == [[c EXCEPT !.streams = [c.streams EXCEPT ![s] = [sm EXCEPT !.remote = r]]]
                          EXCEPT !.streams = [[c.streams EXCEPT ![s] = [sm EXCEPT !.remote = r]]
                                                EXCEPT ![s] = [sm EXCEPT !.remote = r, !.msg = m]]]
<1>1. ASSUME NEW x, NEW y
      PROVE  /\ [q EXCEPT ![s] = x][s] = x
             /\ [[q EXCEPT ![s] = x] EXCEPT ![s] = y] = [q EXCEPT ![s] = y]
  BY DEF Conns
<1>2. ASSUME NEW x, NEW y
      PROVE  [[c EXCEPT !.streams = [q EXCEPT ![s] = x]] EXCEPT !.streams = [q EXCEPT ![s] = y]]
                = [c EXCEPT !.streams = [q EXCEPT ![s] = y]]
  BY DEF Conns
<1>3. ASSUME NEW x PROVE [c EXCEPT !.streams = [q EXCEPT ![s] = x]].streams = [q EXCEPT ![s] = x]
  BY DEF Conns
<1>4. ASSUME NEW r, NEW m
      PROVE  [[c EXCEPT !.streams[s].remote = r] EXCEPT !.streams[s].msg = m] = Got(c, s, r, m)
  <2> DEFINE x == [sm EXCEPT !.remote = r]
             y == [sm EXCEPT !.remote = r, !.msg = m]
             d == [c EXCEPT !.streams = [q EXCEPT ![s] = x]]
  <2>1. [c EXCEPT !.streams[s].remote = r] = d
    OBVIOUS
  <2>2. y = [x EXCEPT !.msg = m]
    OBVIOUS
  <2>3. [d EXCEPT !.streams[s].msg = m] = [d EXCEPT !.streams = [d.streams EXCEPT ![s] = [d.streams[s] EXCEPT !.msg = m]]]
    OBVIOUS
  <2> HIDE DEF x, y, q
  <2>4. d.streams = [q EXCEPT ![s] = x]
    BY <1>3
  <2>5. d.streams[s] = x
    BY <1>1, <2>4
  <2> HIDE DEF d
  <2>6. [d EXCEPT !.streams[s].msg = m] = [d EXCEPT !.streams = [q EXCEPT ![s] = y]]
    <3>1. [d.streams EXCEPT ![s] = y] = [q EXCEPT ![s] = y]
      BY <1>1, <2>4
    <3> QED BY <2>2, <2>3, <2>5, <3>1
  <2>7. [d EXCEPT !.streams = [q EXCEPT ![s] = y]] = [c EXCEPT !.streams = [q EXCEPT ![s] = y]]
    BY <1>2 DEF d
  <2> QED BY <2>1, <2>6, <2>7 DEF Got, Received, q, y
<1>5. TakeMsg(CloseRemote(c, s), s) = Got(c, s, "closed", "none")
  BY <1>4 DEF TakeMsg, CloseRemote
<1>6. ASSUME NEW r, NEW m
      PROVE  Heard(c, s, r, m) = Got(c, s, r, m)
  BY <1>4 DEF Heard
<1>7. ASSUME NEW r, NEW m
      PROVE  TakeMsg(Got(c, s, r, m), s) = Got(c, s, r, "none")
  <2> DEFINE y == [sm EXCEPT !.remote = r, !.msg = m]
             z == [sm EXCEPT !.remote = r, !.msg = "none"]
             d == [c EXCEPT !.streams = [q EXCEPT ![s] = y]]
  <2>1. Got(c, s, r, m) = d /\ Got(c, s, r, "none") = [c EXCEPT !.streams = [q EXCEPT ![s] = z]]
    BY DEF Got, Received
  <2>2. z = [y EXCEPT !.msg = "none"]
    OBVIOUS
  <2>3. TakeMsg(d, s) = [d EXCEPT !.streams = [d.streams EXCEPT ![s] = [d.streams[s] EXCEPT !.msg = "none"]]]
    BY DEF TakeMsg
  <2> HIDE DEF y, z, q
  <2>4. d.streams = [q EXCEPT ![s] = y]
    BY <1>3
  <2>5. d.streams[s] = y
    BY <1>1, <2>4
  <2>6. TakeMsg(d, s) = [d EXCEPT !.streams = [q EXCEPT ![s] = z]]
    <3> HIDE DEF d
    <3>1. [d.streams EXCEPT ![s] = z] = [q EXCEPT ![s] = z]
      BY <1>1, <2>4
    <3> QED BY <2>2, <2>3, <2>5, <3>1
  <2>7. [d EXCEPT !.streams = [q EXCEPT ![s] = z]] = [c EXCEPT !.streams = [q EXCEPT ![s] = z]]
    BY <1>2
  <2> QED BY <2>1, <2>6, <2>7
<1> QED BY <1>5, <1>6, <1>7

\* A message that has been received is delivered.
LEMMA DeliverIs ==
    ASSUME HttpIInv, NEW c, NEW s \in Ids, Deliver(c, s), c.gen[s] \in Nat \ {0}, gen[s] <= c.gen[s]
    PROVE  /\ \A r \in requests' : \/ r \in requests /\ r.stream # s
                                   \/ r \in Requests /\ r.stream = s /\ r.gen <= c.gen[s]
           /\ \A r \in requests' : \/ r \in requests
                                   \/ r.stream = s /\ r.stage = "reply" /\ c.streams[s].msg = "request"
<1> DEFINE q == [stream |-> s, gen |-> c.gen[s], stage |-> "reply"]
<1>1. requests' = requests \/ (requests' = requests \cup {q} /\ c.streams[s].msg = "request")
  BY DEF Deliver
<1>2. q \in Requests /\ q.stream = s /\ q.gen = c.gen[s] /\ q.stage = "reply"
  BY DEF Requests
<1> HIDE DEF q
<1>3. ASSUME NEW r \in requests
      PROVE  \/ r \in requests /\ r.stream # s
             \/ r \in Requests /\ r.stream = s /\ r.gen <= c.gen[s]
  <2>1. r \in Requests /\ r.gen \in Nat /\ r.gen <= gen[r.stream]
    BY RequestsAre
  <2>2. CASE r.stream = s
    <3>1. r.gen <= gen[s] /\ gen[s] \in Nat
      BY <2>1, <2>2, StreamHas
    <3> QED BY <2>1, <2>2, <3>1
  <2>3. CASE r.stream # s
    BY <2>3
  <2> QED BY <2>2, <2>3
<1>4. c.gen[s] <= c.gen[s]
  OBVIOUS
<1> QED BY <1>1, <1>2, <1>3, <1>4

\* A DATA frame.
LEMMA OnDataSafe ==
    ASSUME HttpAssumption, HttpIInv, NEW s \in Ids, NEW end \in BOOLEAN, OnData(s, end)
    PROVE  Safe
<1>1. status = "open" /\ status' = status /\ outgoing' = outgoing /\ streams[s].slot # "null"
  BY StreamHas DEF OnData, Receiving, FrameOk
<1>2. RestTyped'
  BY <1>1, IdsSame DEF OnData, FrameOk, frameVars, HttpIInv, RestTyped
<1>3. CASE Live(s) /\ streams[s].remote = "open" /\ end
  <2> DEFINE b == Conn
             c == Got(b, s, "closed", "none")
  <2>0. Become(TakeMsg(CloseRemote(b, s), s)) /\ Deliver(b, s)
    BY <1>3 DEF OnData
  <2>1. /\ b \in Conns /\ Kept(b, s) /\ Answerable(b, requests, s) /\ Held(b, s)
        /\ b.streams[s] = streams[s] /\ b.gen[s] = gen[s] /\ gen[s] \in Nat /\ gen[s] > 0
        /\ b.streams[s].slot = "live"
    BY <1>1, <1>3, StreamHas DEF Live
  <2> HIDE DEF b
  <2>2. Become(c)
    BY <2>0, <2>1, TakenIs
  <2>3. /\ Does(b, c, s) /\ Held(c, s) /\ c.gen = b.gen /\ c.wire = b.wire
        /\ c.streams[s].slot = "live" /\ c.streams[s].local = b.streams[s].local
        /\ c.streams[s].remote = "closed" /\ c.streams[s].msg = "none"
    <3>1. "closed" \in States /\ "none" \in {"none", "request", "response"} /\ "closed" # "open"
      BY DEF States
    <3>2. Gets(b, c, s, "closed", "none")
      BY <2>1, <3>1, GotIs
    <3> QED BY <2>1, <3>2 DEF Gets
  <2> HIDE DEF c
  <2>4. /\ \A r \in requests' : \/ r \in requests /\ r.stream # s
                                \/ r \in Requests /\ r.stream = s /\ r.gen <= b.gen[s]
        /\ \A r \in requests' : \/ r \in requests
                                \/ r.stream = s /\ r.stage = "reply" /\ b.streams[s].msg = "request"
    <3>1. b.gen[s] \in Nat \ {0} /\ gen[s] <= b.gen[s]
      BY <2>1
    <3> QED BY <2>0, <3>1, DeliverIs
  <2>5. Answerable(c, requests', s)
    BY <2>1, <2>3, <2>4 DEF Answerable
  <2> QED BY <1>1, <1>2, <2>2, <2>3, <2>4, <2>5, StepSafe DEF b, Safe
<1>4. CASE Live(s) /\ streams[s].remote = "open" /\ ~end
  <2>1. UNCHANGED data /\ requests' \subseteq requests
    BY <1>4 DEF OnData
  <2> QED BY <1>1, <1>2, <2>1, QuietSafe DEF Safe
<1>5. CASE ~(Live(s) /\ streams[s].remote = "open")
  <2>1. Become(ResetStream(Conn, s)) /\ requests' \subseteq requests
    BY <1>5 DEF OnData
  <2> QED BY <1>1, <1>2, <2>1, ResetSafe DEF Safe
<1> QED BY <1>3, <1>4, <1>5

\* The peer resets a stream, and it goes.
EraseReset(c, s) == [Erase(c, s) EXCEPT !.wire = WireReset(@, s)]

\* It may, whatever state it is in.
LEMMA EraseResetIs ==
    ASSUME NEW c \in Conns, NEW s \in Ids, HttpAssumption
    PROVE  LET d == EraseReset(c, s)
           IN /\ Does(c, d, s) /\ Held(d, s)
              /\ d.streams[s].slot = "absent" /\ d.gen = c.gen
<1> DEFINE d == EraseReset(c, s)
           v == [credit |-> [c.wire.credit EXCEPT ![s] = 0],
                 phase |-> [c.wire.phase EXCEPT ![s] = "reset"], faults |-> c.wire.faults,
                 misjudged |-> c.wire.misjudged \ {s}]
           w == [credit |-> [c.wire.credit EXCEPT ![s] = 0],
                 phase |-> c.wire.phase, faults |-> c.wire.faults,
                 misjudged |-> c.wire.misjudged \ {s}]
<1>0. s # 0 /\ MaxUnsent \in Nat /\ MaxWindow \in Nat
  BY IdsPositive
<1>1. d = [flow |-> c.flow, streams |-> [c.streams EXCEPT ![s] = NoStream], wire |-> v,
           resets |-> c.resets, gen |-> c.gen, fatal |-> c.fatal]
  <2>1. WireReset(w, s) = v
    BY DEF WireReset
  <2>2. Erase(c, s) = [flow |-> c.flow, streams |-> [c.streams EXCEPT ![s] = NoStream], wire |-> w,
                       resets |-> c.resets, gen |-> c.gen, fatal |-> c.fatal]
    BY ErasedIs
  <2> HIDE DEF v, w
  <2> QED BY <2>1, <2>2 DEF EraseReset
<1>2. /\ v \in Wires /\ v.phase[s] = "reset" /\ v.faults = c.wire.faults
      /\ v.misjudged = c.wire.misjudged \ {s}
      /\ \A t \in (Ids \cup {0}) \ {s} : v.credit[t] = c.wire.credit[t]
      /\ \A t \in Ids \ {s} : v.phase[t] = c.wire.phase[t]
  BY DEF Conns, Wires, Phases
<1>3. NoStream \in StreamType /\ NoStream.slot = "absent"
  <2>1. 0 \in 0 .. MaxUnsent
    BY <1>0
  <2> QED BY <1>0, <2>1 DEF NoStream, StreamType, States
<1> HIDE DEF v, d
<1>4. d \in Conns
  <2>1. v.credit[0] = c.flow
    BY <1>0, <1>2 DEF Conns
  <2> QED BY <1>1, <1>2, <1>3, <2>1 DEF Conns
<1>5. d.streams[s] = NoStream /\ \A t \in Ids \ {s} : d.streams[t] = c.streams[t]
  BY <1>1 DEF Conns
<1>6. Spares(c, d, s)
  <2>1. c.flow \in Int /\ c.gen[s] \in Int
    BY DEF Conns
  <2> QED BY <1>1, <1>2, <1>4, <1>5, <2>1 DEF Spares
<1>7. Kept(d, s) /\ Held(d, s)
  BY <1>1, <1>2, <1>3, <1>5 DEF Kept, Held
<1>8. Paid(c) => Paid(d) /\ Covered(d, s)
  BY <1>0, <1>1, <1>2, <1>3, <1>5 DEF Paid, Covered
<1>9. Does(c, d, s)
  BY <1>1, <1>6, <1>7, <1>8 DEF Does
<1> QED BY <1>1, <1>3, <1>5, <1>7, <1>9 DEF d

\* Window for a stream, which its held back data may be sent with.
Granted(c, s, n) == [c EXCEPT !.streams[s].window = @ + n, !.wire = WireGrant(@, s, n)]

Grants(c, d, s) ==
    /\ d \in Conns /\ Does(c, d, s) /\ d.gen = c.gen /\ d.resets = c.resets /\ d.fatal = c.fatal
    /\ d.streams[s].slot = c.streams[s].slot /\ d.streams[s].local = c.streams[s].local
    /\ d.streams[s].remote = c.streams[s].remote /\ d.streams[s].msg = c.streams[s].msg
    /\ d.wire.phase = c.wire.phase

\* That alone keeps what holds of the stream.
LEMMA GrantIs ==
    ASSUME NEW c \in Conns, NEW s \in Ids, NEW n \in Nat, HttpAssumption, Kept(c, s),
           c.streams[s].window + n <= MaxWindow
    PROVE  Grants(c, Granted(c, s, n), s)
<1> DEFINE d == Granted(c, s, n)
           x == [c.streams[s] EXCEPT !.window = c.streams[s].window + n]
           w == [credit |-> [c.wire.credit EXCEPT ![s] = c.wire.credit[s] + n],
                 phase |-> c.wire.phase, faults |-> c.wire.faults, misjudged |-> c.wire.misjudged]
<1>0. s # 0
  BY IdsPositive
<1>1. d = [flow |-> c.flow, streams |-> [c.streams EXCEPT ![s] = x], wire |-> w,
           resets |-> c.resets, gen |-> c.gen, fatal |-> c.fatal]
  <2>1. WireGrant(c.wire, s, n) = w
    <3>1. c.wire = [credit |-> c.wire.credit, phase |-> c.wire.phase, faults |-> c.wire.faults,
                    misjudged |-> c.wire.misjudged]
      BY DEF Conns, Wires
    <3> QED BY <3>1 DEF WireGrant
  <2>2. d = [c EXCEPT !.streams = [c.streams EXCEPT ![s] = x], !.wire = WireGrant(c.wire, s, n)]
    BY DEF Conns, Granted
  <2> HIDE DEF x, w, d
  <2> QED BY <2>1, <2>2 DEF Conns
<1>2. /\ w \in Wires /\ w.phase = c.wire.phase /\ w.faults = c.wire.faults
      /\ w.misjudged = c.wire.misjudged
      /\ \A t \in (Ids \cup {0}) \ {s} : w.credit[t] = c.wire.credit[t]
      /\ w.credit[s] = c.wire.credit[s] + n
  BY DEF Conns, Wires
<1>3. /\ x \in StreamType /\ x.slot = c.streams[s].slot /\ x.local = c.streams[s].local
      /\ x.remote = c.streams[s].remote /\ x.msg = c.streams[s].msg /\ x.unsent = c.streams[s].unsent
      /\ x.window = c.streams[s].window + n /\ c.streams[s].window \in Nat
  <2>1. c.streams[s] \in StreamType
    BY DEF Conns
  <2> DEFINE sm == c.streams[s]
  <2>2. x = [sm EXCEPT !.window = sm.window + n]
    OBVIOUS
  <2> HIDE DEF sm, x
  <2>3. sm \in StreamType /\ sm.window \in Nat
    BY <2>1, StreamExcept DEF sm
  <2>4. PICK m \in 0 .. MaxWindow : m = sm.window + n
    <3>1. sm.window + n <= MaxWindow
      BY DEF sm
    <3> QED BY <2>3, <3>1, IdsPositive
  <2>5. x = [sm EXCEPT !.window = m]
    BY <2>2, <2>4
  <2>6. x \in StreamType
    BY <2>3, <2>5, StreamExcept
  <2>7. /\ x.slot = sm.slot /\ x.local = sm.local /\ x.remote = sm.remote /\ x.msg = sm.msg
        /\ x.unsent = sm.unsent /\ x.window = sm.window + n
    BY <2>3, <2>4, <2>5 DEF StreamType
  <2> QED BY <2>3, <2>6, <2>7 DEF sm
<1> HIDE DEF x, w, d
<1>4. d \in Conns
  <2>1. w.credit[0] = c.flow
    BY <1>0, <1>2 DEF Conns
  <2> QED BY <1>1, <1>2, <1>3, <2>1 DEF Conns
<1>5. d.streams[s] = x /\ \A t \in Ids \ {s} : d.streams[t] = c.streams[t]
  BY <1>1 DEF Conns
<1>6. Spares(c, d, s)
  <2>1. c.flow \in Int /\ c.gen[s] \in Int
    BY DEF Conns
  <2> QED BY <1>1, <1>2, <1>4, <1>5, <2>1 DEF Spares
<1>7. Kept(d, s)
  <2>1. d.resets = c.resets /\ d.gen = c.gen /\ d.wire = w
    BY <1>1
  <2>2. Listed(d, s) <=> Listed(c, s)
    BY <2>1 DEF Listed, Entry
  <2> QED BY <2>1, <2>2, <1>2, <1>3, <1>5 DEF Kept
<1>8. Paid(c) /\ Covered(c, s) => Paid(d) /\ Covered(d, s)
  <2>1. c.wire.credit[s] \in Int
    BY DEF Conns, Wires
  <2> QED BY <1>0, <1>1, <1>2, <1>3, <1>5, <2>1 DEF Paid, Covered
<1>9. Does(c, d, s)
  BY <1>1, <1>6, <1>7, <1>8 DEF Does
<1> QED BY <1>1, <1>2, <1>3, <1>4, <1>5, <1>9 DEF d, Grants

\* A RST_STREAM frame.
LEMMA OnRstStreamSafe ==
    ASSUME HttpAssumption, HttpIInv, NEW s \in Ids, OnRstStream(s)
    PROVE  Safe
<1>1. CASE Has(s)
  <2> DEFINE b == Conn
             c == EraseReset(b, s)
  <2>1. status = "open" /\ status' = status /\ outgoing' = outgoing /\ requests' = requests /\ Become(c)
    BY <1>1 DEF OnRstStream, Receiving, FrameOk, EraseReset
  <2>2. RestTyped'
    BY <1>1, <2>1, IdsSame DEF OnRstStream, FrameOk, frameVars, HttpIInv, RestTyped
  <2>3. b \in Conns /\ b.gen[s] = gen[s]
    BY StreamHas
  <2> HIDE DEF b
  <2>4. Does(b, c, s) /\ Held(c, s) /\ c.streams[s].slot = "absent" /\ c.gen = b.gen
    BY <2>3, EraseResetIs
  <2> HIDE DEF c
  <2>5. Answerable(c, requests', s) /\ c.streams[s].slot # "null"
    BY <2>4 DEF Answerable
  <2>6. \A r \in requests' : \/ r \in requests /\ r.stream # s
                             \/ r \in Requests /\ r.stream = s /\ r.gen <= c.gen[s]
    BY <2>1, <2>3, <2>4, RequestsAre
  <2> QED BY <2>1, <2>2, <2>4, <2>5, <2>6, StepSafe DEF b, Safe
<1>2. CASE ~Has(s)
  BY <1>2, UnknownSafe DEF OnRstStream
<1> QED BY <1>1, <1>2

\* A WINDOW_UPDATE frame for a stream.
LEMMA OnWindowUpdateSafe ==
    ASSUME HttpAssumption, HttpIInv, NEW s \in Ids, NEW n \in Increments, OnWindowUpdate(s, n)
    PROVE  Safe
<1>1. status = "open" /\ streams[s].slot # "null" /\ streams[s].slot \in {"absent", "null", "live"}
      /\ requests' = requests
  BY StreamHas DEF OnWindowUpdate, Receiving
<1>2. CASE ~Has(s)
  BY <1>2, UnknownSafe DEF OnWindowUpdate
<1>3. CASE Has(s)
  <2>1. status' = status /\ outgoing' = outgoing
    BY <1>3 DEF OnWindowUpdate, FrameOk
  <2>2. RestTyped'
    BY <1>3, <2>1, IdsSame DEF OnWindowUpdate, FrameOk, frameVars, HttpIInv, RestTyped
  <2>3. CASE MaxWindow - n < streams[s].window
    <3>1. Become(ResetStream(Conn, s))
      BY <1>3, <2>3 DEF OnWindowUpdate
    <3> QED BY <1>1, <2>1, <2>2, <3>1, ResetSafe DEF Safe
  <2>4. CASE ~(MaxWindow - n < streams[s].window)
    <3> DEFINE b == Conn
               d == Granted(b, s, n)
               c == WriteUnsent(d, s)
    <3>1. Become(c)
      BY <1>3, <2>4 DEF OnWindowUpdate, Granted
    <3>2. /\ b \in Conns /\ Kept(b, s) /\ Answerable(b, requests, s) /\ b.streams[s].slot = "live"
          /\ b.gen[s] = gen[s]
      BY <1>1, <1>3, StreamHas DEF Has
    <3>3. n \in Nat /\ b.streams[s].window + n <= MaxWindow
      <4>1. n \in Nat /\ MaxWindow \in Nat
        BY IdsPositive DEF HttpAssumption
      <4>2. streams[s].window \in Nat /\ b.streams[s] = streams[s]
        BY <3>2, StreamHas, IdsPositive DEF Conns, StreamType
      <4> QED BY <2>4, <4>1, <4>2
    <3> HIDE DEF b
    <3>4. Grants(b, d, s)
      BY <3>2, <3>3, GrantIs
    <3> HIDE DEF d
    <3>5. Does(d, c, s) /\ Held(c, s) /\ Answers(d, c, s, d.streams[s].local)
      <4>1. Kept(d, s) /\ d.streams[s].slot = "live"
        BY <3>2, <3>4 DEF Does, Grants
      <4> QED BY <3>4, <4>1, WriteUnsentIs DEF Grants
    <3> HIDE DEF c
    <3>6. Does(b, c, s)
      BY <3>2, <3>4, <3>5, DoesTwice DEF Grants
    <3>7. Answerable(c, requests', s) /\ c.streams[s].slot # "null"
      BY <1>1, <3>2, <3>4, <3>5 DEF Answerable, Answers, Grants
    <3>8. \A r \in requests' : \/ r \in requests /\ r.stream # s
                               \/ r \in Requests /\ r.stream = s /\ r.gen <= c.gen[s]
      BY <1>1, <3>2, <3>4, <3>5, RequestsAre DEF Answers, Grants
    <3> QED BY <1>1, <2>1, <2>2, <3>1, <3>5, <3>6, <3>7, <3>8, StepSafe DEF b, Safe
  <2> QED BY <2>3, <2>4
<1> QED BY <1>2, <1>3

-----------------------------------------------------------------------------
(* The steps that move windows.                                            *)

\* The windows after a step are those that the step has worked out.
LEMMA CreditNext ==
    ASSUME NEW c, Become(c), outgoing' = outgoing, Paid(c), \A s \in Ids : Covered(c, s)
    PROVE  CreditInv'
<1> DEFINE d == Conn'
<1>1. d.flow = c.flow /\ d.streams = c.streams /\ d.wire = c.wire
  BY BecomeIs
<1> HIDE DEF d
<1>2. Paid(d) /\ \A s \in Ids : Covered(d, s)
  BY <1>1 DEF Paid, Covered
<1> QED BY <1>2, IdsSame DEF CreditInv, d

\* What the invariant says of the connection.
LEMMA ConnHas ==
    ASSUME HttpIInv
    PROVE  /\ Sound(Conn, requests, status)
           /\ Conn.streams = streams /\ Conn.gen = gen /\ Conn.wire = wire /\ Conn.flow = flowWindow
           /\ Conn.resets = resetQ /\ Conn.fatal = FALSE
BY DEF HttpIInv, Conn

\* A new initial window size moves the windows of the peer, and no other than 0.
LEMMA WireSettingsIs ==
    ASSUME NEW w \in Wires, NEW diff \in Int, HttpAssumption
    PROVE  LET v == WireSettings(w, diff)
           IN /\ v \in Wires /\ v.phase = w.phase /\ v.faults = w.faults
              /\ v.credit[0] = w.credit[0]
              /\ \A s \in Ids \ v.misjudged : s \notin w.misjudged /\ v.credit[s] = w.credit[s]
              /\ diff >= 0 => \A s \in Ids : v.credit[s] >= w.credit[s]
<1> DEFINE v == WireSettings(w, diff)
           q == [s \in Ids \cup {0} |->
                    IF s # 0 /\ w.phase[s] = "open" THEN w.credit[s] + diff ELSE w.credit[s]]
           mis == w.misjudged \cup {s \in Ids : diff # 0 /\ w.phase[s] = "open"}
<1>1. v = [credit |-> q, phase |-> w.phase, faults |-> w.faults, misjudged |-> mis]
  <2>1. w = [credit |-> w.credit, phase |-> w.phase, faults |-> w.faults, misjudged |-> w.misjudged]
        /\ DOMAIN w.credit = Ids \cup {0} /\ DOMAIN w.phase = Ids
    BY DEF Wires
  <2>2. v = [w EXCEPT !.credit = q, !.misjudged = mis]
    BY <2>1 DEF WireSettings
  <2> HIDE DEF q, v, mis
  <2> QED BY <2>1, <2>2
<1>2. /\ q \in [Ids \cup {0} -> Int] /\ q[0] = w.credit[0]
      /\ mis \subseteq Ids
      /\ \A s \in Ids \ mis : s \notin w.misjudged /\ q[s] = w.credit[s]
      /\ diff >= 0 => \A s \in Ids : q[s] >= w.credit[s]
  BY DEF Wires
<1> HIDE DEF q, v, mis
<1>3. v \in Wires
  BY <1>1, <1>2 DEF Wires
<1> QED BY <1>1, <1>2, <1>3 DEF v

\* A SETTINGS frame: the windows of the streams stay, those of the peer may shrink.
LEMMA OnSettingsSafe ==
    ASSUME HttpAssumption, HttpIInv, NEW v \in InitialWindows \cup {initialWindow}, OnSettings(v)
    PROVE  Safe
<1>1. /\ status = "open" /\ status' \in {"open", "failed"} /\ outgoing' = outgoing
      /\ requests' = requests /\ frameMode' = "normal"
  BY DEF OnSettings, Receiving, GoAway
<1>2. v \in Nat /\ initialWindow \in Int
  BY DEF HttpAssumption, HttpIInv, RestTyped
<1>3. initialWindow' \in 0 .. MaxWindow
  <2>1. initialWindow' = initialWindow \/ (initialWindow' = v /\ ~(v > MaxWindow))
    BY DEF OnSettings
  <2> QED BY <1>2, <2>1, IdsPositive DEF HttpIInv, RestTyped
<1>4. RestTyped'
  BY <1>1, <1>3, IdsSame DEF OnSettings, HttpIInv, RestTyped
<1>5. CASE v > MaxWindow
  <2>1. UNCHANGED data /\ requests' \subseteq requests
    BY <1>5 DEF OnSettings, data
  <2> QED BY <1>1, <1>4, <2>1, QuietSafe DEF Safe
<1>6. CASE ~(v > MaxWindow)
  <2> DEFINE b == Conn
             w == WireSettings(wire, v - initialWindow)
             c == [b EXCEPT !.wire = w]
  <2>1. /\ Sound(b, requests, status) /\ b \in Conns
        /\ b.streams = streams /\ b.gen = gen /\ b.wire = wire /\ b.flow = flowWindow
        /\ b.resets = resetQ
    BY ConnHas DEF Sound
  <2>2. initialWindow' = v /\ wire' = w /\ flowWindow' = flowWindow /\ resetQ' = resetQ /\ gen' = gen
        /\ streams' = [s \in Ids |-> IF Has(s) THEN [streams[s] EXCEPT !.window = @ + (v - initialWindow')]
                                               ELSE streams[s]]
    BY <1>6 DEF OnSettings
  <2> HIDE DEF b
  <2>3. streams' = streams
    <3>1. streams \in [Ids -> StreamType] /\ v - initialWindow' = 0
      BY <1>2, <2>1, <2>2 DEF Conns
    <3>2. ASSUME NEW s \in Ids PROVE streams'[s] = streams[s]
      <4>1. streams[s].window + 0 = streams[s].window
        BY <3>1 DEF StreamType
      <4>2. [streams[s] EXCEPT !.window = streams[s].window] = streams[s]
        BY <3>1 DEF StreamType
      <4> QED BY <2>2, <3>1, <4>1, <4>2
    <3>3. streams' = [s \in Ids |-> streams'[s]] /\ streams = [s \in Ids |-> streams[s]]
      BY <2>2, <3>1
    <3> QED BY <3>2, <3>3
  <2>4. /\ w \in Wires /\ w.phase = wire.phase /\ w.faults = wire.faults
        /\ w.credit[0] = wire.credit[0]
        /\ \A s \in Ids \ w.misjudged : s \notin wire.misjudged /\ w.credit[s] = wire.credit[s]
        /\ v >= initialWindow => \A s \in Ids : w.credit[s] >= wire.credit[s]
    <3>1. wire \in Wires /\ v - initialWindow \in Int /\ (v >= initialWindow <=> v - initialWindow >= 0)
      BY <1>2, <2>1 DEF Conns
    <3> QED BY <3>1, WireSettingsIs
  <2> HIDE DEF w
  <2>5. /\ c.flow = b.flow /\ c.streams = b.streams /\ c.wire = w
        /\ c.resets = b.resets /\ c.gen = b.gen /\ c \in Conns
    BY <2>1, <2>4 DEF Conns
  <2> HIDE DEF c
  <2>6. Become(c)
    BY <2>1, <2>2, <2>3, <2>5 DEF Become
  <2>7. ASSUME NEW s \in Ids
        PROVE  /\ Kept(b, s) => Kept(c, s)
               /\ Held(b, s) => Held(c, s)
               /\ Answerable(b, requests, s) => Answerable(c, requests, s)
    BY <2>1, <2>4, <2>5 DEF Kept, Held, Answerable, Listed, Entry, Avail
  <2>8. Sound(c, requests', status')
    <3>1. status' = status
      BY <1>6 DEF OnSettings
    <3> QED BY <1>1, <2>1, <2>5, <2>7, <3>1 DEF Sound, Dated
  <2>9. HttpIInv'
    BY <1>1, <1>4, <2>5, <2>6, <2>8, SoundNext
  <2>10. ASSUME CreditInv, initialWindow' >= initialWindow PROVE CreditInv'
    <3>1. Paid(b) /\ \A s \in Ids : Covered(b, s)
      BY <2>10 DEF CreditInv, b
    <3>2. Paid(c)
      BY <2>1, <2>4, <2>5, <3>1 DEF Paid
    <3>3. ASSUME NEW s \in Ids PROVE Covered(c, s)
      <4>1. w.credit[s] >= wire.credit[s]
        BY <2>2, <2>4, <2>10
      <4>2. w.credit[s] \in Int /\ b.wire.credit[s] \in Int /\ b.streams[s].window \in Int
        BY <2>1, <2>4 DEF Conns, Wires, StreamType
      <4> QED BY <2>1, <2>5, <3>1, <4>1, <4>2 DEF Covered
    <3> QED BY <1>1, <2>6, <3>2, <3>3, CreditNext
  <2> QED BY <1>1, <2>9, <2>10 DEF Safe
<1> QED BY <1>5, <1>6

\* More window for the connection.
Widened(c, n) == [c EXCEPT !.flow = @ + n, !.wire = WireGrant(@, 0, n)]

Widens(c, d) ==
    /\ d \in Conns /\ d.streams = c.streams /\ d.resets = c.resets /\ d.gen = c.gen
    /\ d.fatal = c.fatal /\ d.wire.phase = c.wire.phase
    /\ \A s \in Ids : Kept(c, s) => Kept(d, s)
    /\ Paid(c) /\ (\A s \in Ids : Covered(c, s)) => Paid(d) /\ (\A s \in Ids : Covered(d, s))

\* It takes nothing from the streams, but what they hold back may now fit.
LEMMA WidenIs ==
    ASSUME NEW c \in Conns, NEW n \in Nat, c.flow + n <= MaxWindow, HttpAssumption
    PROVE  Widens(c, Widened(c, n))
<1> DEFINE d == Widened(c, n)
           w == [credit |-> [c.wire.credit EXCEPT ![0] = c.wire.credit[0] + n],
                 phase |-> c.wire.phase, faults |-> c.wire.faults, misjudged |-> c.wire.misjudged]
<1>0. 0 \notin Ids /\ 0 \in Ids \cup {0}
  BY IdsPositive
<1>1. d = [flow |-> c.flow + n, streams |-> c.streams, wire |-> w,
           resets |-> c.resets, gen |-> c.gen, fatal |-> c.fatal]
  <2>1. WireGrant(c.wire, 0, n) = w
    <3>1. c.wire = [credit |-> c.wire.credit, phase |-> c.wire.phase, faults |-> c.wire.faults,
                    misjudged |-> c.wire.misjudged]
      BY DEF Conns, Wires
    <3> QED BY <3>1 DEF WireGrant
  <2>2. d = [c EXCEPT !.flow = c.flow + n, !.wire = WireGrant(c.wire, 0, n)]
    BY DEF Widened
  <2> HIDE DEF w, d
  <2> QED BY <2>1, <2>2 DEF Conns
<1>2. /\ w \in Wires /\ w.phase = c.wire.phase /\ w.faults = c.wire.faults
      /\ w.misjudged = c.wire.misjudged
      /\ \A s \in Ids : w.credit[s] = c.wire.credit[s]
      /\ w.credit[0] = c.wire.credit[0] + n
  BY <1>0 DEF Conns, Wires
<1>3. c.flow + n \in 0 .. MaxWindow
  BY IdsPositive DEF Conns
<1> HIDE DEF w, d
<1>4. d \in Conns
  BY <1>1, <1>2, <1>3 DEF Conns
<1>5. /\ d.flow = c.flow + n /\ d.streams = c.streams /\ d.wire = w
      /\ d.resets = c.resets /\ d.gen = c.gen /\ d.fatal = c.fatal
  BY <1>1
<1>6. \A s \in Ids : Kept(c, s) => Kept(d, s)
  BY <1>2, <1>5 DEF Kept, Listed, Entry
<1>7. Paid(c) => Paid(d)
  BY <1>2, <1>5 DEF Paid
<1>8. \A s \in Ids : Covered(c, s) => Covered(d, s)
  BY <1>2, <1>5 DEF Covered
<1> QED BY <1>2, <1>4, <1>5, <1>6, <1>7, <1>8 DEF Widens, d

\* A WINDOW_UPDATE frame for the connection.
LEMMA OnWindowUpdateConnSafe ==
    ASSUME HttpAssumption, HttpIInv, NEW n \in Increments, OnWindowUpdateConn(n)
    PROVE  Safe
<1>1. /\ status = "open" /\ status' \in {"open", "failed", "crashed"} /\ outgoing' = outgoing
      /\ requests' = requests
  BY DEF OnWindowUpdateConn, Receiving, GoAway
<1>2. RestTyped'
  BY <1>1, IdsSame DEF OnWindowUpdateConn, frameVars, HttpIInv, RestTyped
<1>3. CASE MaxWindow - n < flowWindow
  <2>1. UNCHANGED data /\ requests' \subseteq requests
    BY <1>1, <1>3 DEF OnWindowUpdateConn
  <2> QED BY <1>1, <1>2, <2>1, QuietSafe DEF Safe
<1>4. CASE ~(MaxWindow - n < flowWindow)
  <2> DEFINE b == Conn
             d == Widened(b, n)
  <2>1. PICK order \in SetToSeqs({s \in Ids : Has(s)}) : Become(Walk(d, order))
    BY <1>4 DEF OnWindowUpdateConn, Widened
  <2> DEFINE c == Walk(d, order)
  <2>2. /\ Sound(b, requests, status) /\ b \in Conns /\ b.streams = streams /\ b.flow = flowWindow
    BY ConnHas DEF Sound
  <2>3. n \in Nat /\ b.flow + n <= MaxWindow
    <3>1. n \in Nat /\ MaxWindow \in Nat
      BY IdsPositive DEF HttpAssumption
    <3>2. b.flow \in Int
      BY <2>2 DEF Conns
    <3> QED BY <1>4, <2>2, <3>1, <3>2
  <2> HIDE DEF b
  <2>4. Widens(b, d)
    BY <2>2, <2>3, WidenIs
  <2> HIDE DEF d
  <2>5. Carried(d, c) /\ \A s \in Ids : Held(c, s)
    <3>1. \A s \in Ids : Kept(d, s) /\ d.streams[s].slot # "null"
      BY <1>1, <2>2, <2>4 DEF Widens, Sound
    <3>2. {s \in Ids : Has(s)} = {s \in Ids : d.streams[s].slot # "absent"}
      BY <2>2, <2>4 DEF Widens, Has
    <3> QED BY <2>1, <2>4, <3>1, <3>2, WalkKeeps DEF Widens
  <2> HIDE DEF c
  <2>6. ASSUME NEW s \in Ids PROVE Answerable(c, requests, s)
    <3>1. Answerable(b, requests, s)
      BY <2>2 DEF Sound
    <3>2. Answerable(d, requests, s)
      BY <2>4, <3>1 DEF Widens, Answerable
    <3> QED BY <2>5, <3>2 DEF Carried, Answerable
  <2>7. Sound(c, requests', status')
    <3>1. c.resets = b.resets /\ c.gen = b.gen
      BY <2>4, <2>5 DEF Carried, Widens
    <3> QED BY <1>1, <2>2, <2>5, <2>6, <3>1 DEF Sound, Carried, Dated
  <2>8. c \in Conns /\ Become(c)
    BY <2>1, <2>5 DEF Carried, c
  <2>9. HttpIInv'
    BY <1>1, <1>2, <2>7, <2>8, SoundNext
  <2>10. ASSUME CreditInv PROVE CreditInv'
    <3>1. Paid(b) /\ \A s \in Ids : Covered(b, s)
      BY <2>10 DEF CreditInv, b
    <3>2. Paid(c) /\ \A s \in Ids : Covered(c, s)
      BY <2>4, <2>5, <3>1 DEF Widens, Carried
    <3> QED BY <1>1, <2>8, <3>2, CreditNext
  <2> QED BY <1>1, <2>9, <2>10 DEF Safe
<1> QED BY <1>3, <1>4

-----------------------------------------------------------------------------
(* Headers.                                                                *)

\* A HEADERS frame on an id that is refused: the slot stays behind, on a connection that has failed.
LEMMA OnHeadersRefusedSafe ==
    ASSUME HttpAssumption, HttpIInv, NEW s \in Ids, OnHeadersRefused(s)
    PROVE  Safe
<1> DEFINE b == Conn
           x == [streams[s] EXCEPT !.slot = "null"]
           c == Received(b, s, x)
<1>1. /\ status = "open" /\ status' = "failed" /\ outgoing' = outgoing /\ requests' = requests
      /\ streams[s].slot = "absent"
  BY DEF OnHeadersRefused, Receiving, GoAway, Has
<1>2. RestTyped'
  BY <1>1, IdsSame DEF OnHeadersRefused, frameVars, HttpIInv, RestTyped
<1>3. /\ Sound(b, requests, status) /\ b \in Conns /\ Kept(b, s)
      /\ b.streams = streams /\ b.gen = gen /\ b.wire = wire /\ b.flow = flowWindow /\ b.resets = resetQ
  BY ConnHas DEF Sound
<1> HIDE DEF b
<1>4. x \in StreamType /\ x.slot = "null"
  BY <1>3 DEF Conns, StreamType
<1>5. streams' = [streams EXCEPT ![s] = x]
  BY DEF OnHeadersRefused
<1> HIDE DEF x
<1>6. /\ c.flow = b.flow /\ c.wire = b.wire /\ c.gen = b.gen /\ c.resets = b.resets
      /\ c.streams = [streams EXCEPT ![s] = x] /\ c \in Conns
  BY <1>3, <1>4 DEF Received, Conns
<1> HIDE DEF c
<1>7. Become(c)
  BY <1>3, <1>5, <1>6 DEF Become, OnHeadersRefused
<1>8. c.streams[s] = x /\ \A t \in Ids \ {s} : c.streams[t] = b.streams[t]
  BY <1>3, <1>6 DEF Conns
<1>9. Does(b, c, s)
  <2>1. b.flow \in Int /\ b.gen[s] \in Int
    BY <1>3 DEF Conns
  <2>2. Spares(b, c, s)
    BY <1>6, <1>8, <2>1 DEF Spares
  <2>3. Kept(c, s)
    BY <1>1, <1>3, <1>4, <1>6, <1>8 DEF Kept
  <2>4. Paid(b) => Paid(c) /\ Covered(c, s)
    BY <1>4, <1>6, <1>8 DEF Paid, Covered
  <2> QED BY <1>6, <2>2, <2>3, <2>4 DEF Does
<1>10. Held(c, s) /\ Answerable(c, requests', s)
  BY <1>4, <1>8 DEF Held, Answerable
<1>11. \A r \in requests' : \/ r \in requests /\ r.stream # s
                            \/ r \in Requests /\ r.stream = s /\ r.gen <= c.gen[s]
  BY <1>1, <1>3, <1>6, RequestsAre
<1> QED BY <1>1, <1>2, <1>7, <1>9, <1>10, <1>11, StepSafe DEF b, Safe

\* The stream a header block is for: one that has been requested, or a new one.
Finds(d, s) ==
    /\ d \in Conns /\ Does(Conn, d, s) /\ Held(d, s) /\ d.resets = resetQ
    /\ d.streams[s].slot = "live" /\ d.wire.phase[s] # "reset"
    /\ d.gen[s] \in Nat \ {0} /\ gen[s] <= d.gen[s]
    /\ d.gen[s] = 1 =>
        IF d.streams[s].local = "idle"
        THEN \A r \in requests : r.stream # s
        ELSE \A r \in requests : r.stream = s => d.streams[s].local = IF r.stage = "more" THEN "open" ELSE "idle"

\* A step that changes nothing.
LEMMA StillDoes ==
    ASSUME NEW c \in Conns, NEW s \in Ids, Kept(c, s)
    PROVE  Does(c, c, s)
<1>1. c.flow \in Int /\ c.gen[s] \in Int
  BY DEF Conns
<1> QED BY <1>1 DEF Does, Spares

\* The request of a stream that has not been opened cannot be.
LEMMA NoneYet ==
    ASSUME HttpIInv, NEW s \in Ids, gen[s] + 1 = 1
    PROVE  \A r \in requests : r.stream # s
<1> SUFFICES ASSUME NEW r \in requests, r.stream = s PROVE FALSE
  OBVIOUS
<1>1. r.gen \in Nat \ {0} /\ r.gen <= gen[s] /\ gen[s] \in Nat
  BY RequestsAre, StreamHas
<1> QED BY <1>1

\* It is not reset, and has no requests that its sending side is not ready for.
LEMMA FindsIs ==
    ASSUME HttpAssumption, HttpIInv, NEW s \in Ids, status = "open",
           (Live(s) /\ streams[s].remote = "idle") \/ ~Has(s)
    PROVE  LET d == IF Has(s) THEN Conn ELSE Open(Conn, s, initialWindow)
           IN Finds(d, s) /\ (Has(s) <=> d.streams[s].local # "idle")
<1> DEFINE b == Conn
           d == IF Has(s) THEN b ELSE Open(b, s, initialWindow)
<1>1. /\ b \in Conns /\ Kept(b, s) /\ Answerable(b, requests, s) /\ Held(b, s) /\ Dated(b)
      /\ b.streams[s] = streams[s] /\ b.gen[s] = gen[s] /\ gen[s] \in Nat
      /\ streams[s].slot = "live" => gen[s] > 0
  BY StreamHas
<1>2. b.resets = resetQ
  BY ConnHas
<1>3. CASE Has(s)
  <2>1. d = b /\ b.streams[s].slot = "live" /\ b.streams[s].remote = "idle"
    BY <1>1, <1>3 DEF Live
  <2> HIDE DEF b, d
  <2>2. b.wire.phase[s] # "reset"
    BY <1>1, <2>1 DEF Kept
  <2>3. b.streams[s].local # "idle"
    BY <1>1, <2>1 DEF Answerable
  <2>4. b.gen[s] = 1 => \A r \in requests :
            r.stream = s => b.streams[s].local = IF r.stage = "more" THEN "open" ELSE "idle"
    BY <1>1, <2>1, <2>2 DEF Answerable
  <2>5. Does(b, b, s) /\ gen[s] <= b.gen[s] /\ b.gen[s] \in Nat \ {0}
    BY <1>1, <2>1, StillDoes
  <2>6. Does(Conn, b, s)
    BY <2>5 DEF b
  <2> QED BY <1>1, <1>2, <1>3, <2>1, <2>2, <2>3, <2>4, <2>5, <2>6 DEF Finds, d, b
<1>4. CASE ~Has(s)
  <2> DEFINE o == Open(b, s, initialWindow)
  <2>1. d = o
    BY <1>4
  <2>2. initialWindow \in Nat /\ initialWindow <= initialWindow /\ initialWindow \in 0 .. MaxWindow
    BY IdsPositive DEF HttpIInv, RestTyped
  <2> HIDE DEF b, d
  <2>3. /\ Does(b, o, s) /\ Held(o, s)
        /\ o.streams[s] = NewStream(initialWindow) /\ o.wire.phase[s] = "open"
        /\ o.gen[s] = b.gen[s] + 1 /\ o.resets = b.resets
    BY <1>1, <2>2, OpenIs
  <2>4. o.streams[s].slot = "live" /\ o.streams[s].local = "idle"
    BY <2>3 DEF NewStream, NoStream
  <2> HIDE DEF o
  <2>5. o.gen[s] \in Nat \ {0} /\ gen[s] <= o.gen[s] /\ o \in Conns
    BY <1>1, <2>3 DEF Does, Spares
  <2>6. o.gen[s] = 1 => \A r \in requests : r.stream # s
    BY <1>1, <2>3, NoneYet
  <2>7. Finds(o, s)
    BY <1>2, <2>3, <2>4, <2>5, <2>6 DEF Finds, b
  <2> QED BY <1>4, <2>1, <2>4, <2>7 DEF d, b
<1> QED BY <1>3, <1>4 DEF d, b

\* A HEADERS frame.
LEMMA OnHeadersSafe ==
    ASSUME HttpAssumption, HttpIInv, NEW s \in Ids, NEW end \in BOOLEAN, NEW endHeaders \in BOOLEAN,
           NEW block \in Blocks, OnHeaders(s, end, endHeaders, block)
    PROVE  Safe
<1> DEFINE found == IF Has(s) THEN Conn ELSE Open(Conn, s, initialWindow)
           m == IF found.streams[s].local = "idle" THEN "request" ELSE "response"
           x == IF end THEN "closed" ELSE "open"
           c == Got(found, s, x, m)
           t == Got(found, s, x, "none")
           reset == block = "invalid" \/ (block = "incomplete" /\ endHeaders)
<1>1. /\ status = "open" /\ outgoing' = outgoing
      /\ (Live(s) /\ streams[s].remote = "idle") \/ ~Has(s)
      /\ lastInput' \in {lastInput, s} /\ frameMode' \in {frameMode, "continuation"}
      /\ UNCHANGED <<outgoing, nextOutput, blamed, lastOutput, unackSettings, initialWindow>>
  BY DEF OnHeaders, Receiving
<1>2. Finds(found, s) /\ found \in Conns
  <2>1. Finds(found, s)
    BY <1>1, FindsIs
  <2> HIDE DEF found
  <2> QED BY <2>1 DEF Finds
<1>3. \/ block = "undecodable" /\ status' = "failed" /\ Become(c) /\ requests' = requests
      \/ reset /\ Become(ResetStream(c, s)) /\ status' = status /\ requests' = requests
      \/ end /\ Become(t) /\ Deliver(c, s) /\ status' = status
      \/ ~end /\ Become(c) /\ requests' = requests /\ status' = status
  <2>1. [found EXCEPT !.streams[s].remote = x, !.streams[s].msg = m] = c
    <3> HIDE DEF found, m, x, c
    <3>1. \A r, k : Heard(found, s, r, k) = Got(found, s, r, k)
      BY <1>2, TakenIs
    <3>2. Heard(found, s, x, m) = c
      BY <3>1 DEF c
    <3> QED BY <3>2 DEF Heard
  <2>2. TakeMsg(c, s) = t
    <3> HIDE DEF found, m, x, c, t
    <3>1. \A r, k : TakeMsg(Got(found, s, r, k), s) = Got(found, s, r, "none")
      BY <1>2, TakenIs
    <3> QED BY <3>1 DEF c, t
  <2> HIDE DEF c, t
  <2> QED BY <2>1, <2>2 DEF OnHeaders, GoAway
<1>4. RestTyped'
  <2>1. status' \in {"open", "failed"}
    BY <1>1, <1>3
  <2> QED BY <1>1, <2>1, IdsSame DEF HttpIInv, RestTyped
<1> DEFINE b == Conn
<1> HIDE DEF b, found
<1>5. /\ found \in Conns /\ Does(b, found, s) /\ found.resets = resetQ /\ Held(found, s)
      /\ b.resets = resetQ /\ b \in Conns
  BY <1>2, ConnHas DEF Finds, Sound, b
<1>6. x \in States /\ m \in {"none", "request", "response"} /\ "none" \in {"none", "request", "response"}
      /\ m # "none" /\ (x = "open" => ~end)
  BY DEF States
<1>7. Gets(found, c, s, x, m)
  BY <1>2, <1>5, <1>6, GotIs DEF Finds, Does
<1>8. end => Gets(found, t, s, x, "none")
  BY <1>2, <1>5, <1>6, GotIs DEF Finds, Does
<1>9. ASSUME NEW d, NEW y, Gets(found, d, s, x, y)
      PROVE  Does(b, d, s) /\ Held(d, s) /\ d.resets = resetQ /\ d.gen = found.gen
             /\ d.streams[s].slot = "live" /\ d \in Conns /\ d.gen[s] \in Nat \ {0}
  <2>1. Does(b, d, s)
    BY <1>5, <1>9, DoesTwice DEF Gets
  <2> QED BY <1>2, <1>5, <1>9, <2>1 DEF Gets, Finds, Does, Spares
<1>10. ASSUME requests' = requests
       PROVE  \A r \in requests' : \/ r \in requests /\ r.stream # s
                                   \/ r \in Requests /\ r.stream = s /\ r.gen <= found.gen[s]
  <2> SUFFICES ASSUME NEW r \in requests, r.stream = s
               PROVE  r \in Requests /\ r.gen <= found.gen[s]
    BY <1>10
  <2>1. r \in Requests /\ r.gen \in Nat /\ r.gen <= gen[s] /\ gen[s] \in Nat
    BY RequestsAre, StreamHas
  <2> QED BY <1>2, <2>1 DEF Finds
<1>11. Answerable(c, requests, s)
  BY <1>2, <1>7 DEF Gets, Finds, Answerable
<1> HIDE DEF c, t
<1>12. CASE Become(c) /\ requests' = requests /\ status' \in {"open", "failed"}
  <2>1. Does(b, c, s) /\ Held(c, s) /\ c.gen = found.gen /\ c.streams[s].slot = "live"
    BY <1>7, <1>9
  <2> QED BY <1>1, <1>4, <1>10, <1>11, <1>12, <2>1, StepSafe DEF b, Safe
<1>13. CASE Become(ResetStream(c, s)) /\ requests' = requests /\ status' = status
  <2> DEFINE e == ResetStream(c, s)
  <2>1. /\ Does(b, c, s) /\ Held(c, s) /\ c.gen = found.gen /\ c.resets = resetQ
        /\ c.streams[s].slot = "live" /\ c \in Conns /\ Kept(c, s)
    BY <1>7, <1>9 DEF Does
  <2>2. /\ Does(c, e, s) /\ Held(e, s) /\ e.gen = c.gen /\ e.wire.phase[s] = "reset"
        /\ e.streams[s].slot = "live" /\ e.streams[s].remote = "closed"
    BY <2>1, ResetIs
  <2> HIDE DEF e
  <2>3. Does(b, e, s)
    BY <1>5, <2>1, <2>2, DoesTwice
  <2>4. Answerable(e, requests', s)
    BY <2>2 DEF Answerable
  <2>5. Become(e) /\ status' # "aborted" /\ status # "aborted" /\ e.streams[s].slot # "null"
    BY <1>1, <1>13, <2>2 DEF e
  <2> QED BY <1>1, <1>4, <1>10, <1>13, <2>1, <2>2, <2>3, <2>4, <2>5, StepSafe DEF b, Safe
<1>14. CASE end /\ Become(t) /\ Deliver(c, s) /\ status' = status
  <2>1. Does(b, t, s) /\ Held(t, s) /\ t.gen = found.gen /\ t.streams[s].slot = "live"
    BY <1>8, <1>9, <1>14
  <2>2. c.gen = found.gen /\ c.streams[s].msg = m /\ c.gen[s] \in Nat \ {0} /\ gen[s] <= c.gen[s]
    BY <1>2, <1>7, <1>9 DEF Gets, Finds
  <2>3. /\ \A r \in requests' : \/ r \in requests /\ r.stream # s
                                \/ r \in Requests /\ r.stream = s /\ r.gen <= c.gen[s]
        /\ \A r \in requests' : \/ r \in requests
                                \/ r.stream = s /\ r.stage = "reply" /\ c.streams[s].msg = "request"
    BY <1>14, <2>2, DeliverIs
  <2>4. Answerable(t, requests', s)
    <3>1. /\ t.streams[s].remote = "closed" /\ t.streams[s].msg = "none"
          /\ t.streams[s].local = found.streams[s].local
      BY <1>8, <1>14 DEF Gets
    <3>2. ASSUME t.gen[s] = 1, NEW r \in requests', r.stream = s
          PROVE  t.streams[s].local = IF r.stage = "more" THEN "open" ELSE "idle"
      <4>1. CASE r \in requests
        BY <1>2, <2>1, <3>1, <3>2, <4>1 DEF Finds
      <4>2. CASE r.stage = "reply" /\ m = "request"
        BY <3>1, <4>2
      <4> QED BY <2>2, <2>3, <4>1, <4>2
    <3> QED BY <3>1, <3>2 DEF Answerable
  <2>5. \A r \in requests' : \/ r \in requests /\ r.stream # s
                             \/ r \in Requests /\ r.stream = s /\ r.gen <= t.gen[s]
    BY <2>1, <2>2, <2>3
  <2> QED BY <1>1, <1>4, <1>14, <2>1, <2>4, <2>5, StepSafe DEF b, Safe
<1> QED BY <1>1, <1>3, <1>12, <1>13, <1>14

-----------------------------------------------------------------------------
(* Calls of the application.                                               *)

\* What is left to be answered when a part of request r has been.
LEMMA AnsweredIs ==
    ASSUME HttpIInv, NEW r \in requests, NEW more \in BOOLEAN, Answered(r, more)
    PROVE  /\ \A q \in requests' : \/ q \in requests /\ q.stream # r.stream
                                   \/ q \in Requests /\ q.stream = r.stream /\ q.gen <= gen[r.stream]
           /\ gen[r.stream] = 1 =>
                \A q \in requests' : q.stream = r.stream =>
                    (more /\ q.stage = "more") \/ (q \in requests /\ q.stage # r.stage)
<1>1. \A q \in requests : /\ q \in Requests /\ q.stream \in Ids /\ q.gen \in Nat \ {0}
                          /\ q.stage \in {"reply", "more"} /\ q.gen <= gen[q.stream]
  BY RequestsAre
<1> DEFINE m == [r EXCEPT !.stage = "more"]
<1>2. m \in Requests /\ m.stream = r.stream /\ m.gen = r.gen /\ m.stage = "more"
  BY <1>1 DEF Requests
<1>3. requests' = (requests \ {r}) \cup {q \in {m} : more}
  BY DEF Answered
<1> HIDE DEF m
<1>4. ASSUME NEW q \in requests'
      PROVE  \/ q \in requests /\ q.stream # r.stream
             \/ q \in Requests /\ q.stream = r.stream /\ q.gen <= gen[r.stream]
  BY <1>1, <1>2, <1>3
<1>5. ASSUME gen[r.stream] = 1, NEW q \in requests', q.stream = r.stream
      PROVE  (more /\ q.stage = "more") \/ (q \in requests /\ q.stage # r.stage)
  <2>1. CASE q = m /\ more
    BY <1>2, <2>1
  <2>2. CASE q \in requests /\ q # r
    <3>1. q.gen = 1 /\ r.gen = 1
      BY <1>1, <1>5, <2>2
    <3>2. q.stage # r.stage
      BY <1>1, <1>5, <2>2, <3>1 DEF Requests
    <3> QED BY <2>2, <3>2
  <2> QED BY <1>3, <2>1, <2>2
<1> QED BY <1>4, <1>5

\* The stream stays ready for it.
LEMMA StaysAnswerable ==
    ASSUME HttpIInv, NEW r \in requests, NEW more \in BOOLEAN, Answered(r, more), NEW c, NEW l,
           Answers(Conn, c, r.stream, l), streams[r.stream].slot = "live",
           \/ l = IF more THEN "open" ELSE "closed"
           \/ l = streams[r.stream].local /\ (gen[r.stream] # 1 \/ wire.phase[r.stream] = "reset")
    PROVE  Answerable(c, requests', r.stream)
<1> DEFINE b == Conn
           s == r.stream
<1>1. s \in Ids
  BY RequestsAre
<1>2. /\ Answerable(b, requests, s) /\ b.streams[s] = streams[s] /\ b.gen[s] = gen[s]
      /\ b.wire.phase[s] = wire.phase[s]
  BY <1>1, StreamHas
<1>3. Answers(b, c, s, l)
  OBVIOUS
<1>4. gen[s] = 1 => \A q \in requests' : q.stream = s =>
        (more /\ q.stage = "more") \/ (q \in requests /\ q.stage # r.stage)
  BY AnsweredIs
<1>5. r.stage \in {"reply", "more"} /\ \A q \in requests : q.stage \in {"reply", "more"}
  BY RequestsAre
<1> HIDE DEF b, s
<1>6. SUFFICES ASSUME c.streams[s].slot = "live"
               PROVE  /\ c.streams[s].remote = "idle" => c.streams[s].local # "idle"
                      /\ c.gen[s] = 1 /\ c.wire.phase[s] # "reset" =>
                          /\ \A q \in requests' : q.stream = s =>
                                c.streams[s].local = IF q.stage = "more" THEN "open" ELSE "idle"
                          /\ c.streams[s].msg = "request" =>
                                c.streams[s].local = "idle" /\ \A q \in requests' : q.stream # s
  BY DEF Answerable, s
<1>7. /\ c.streams[s].local = l /\ c.streams[s].remote = streams[s].remote
      /\ c.streams[s].msg = streams[s].msg /\ c.gen[s] = gen[s]
      /\ c.wire.phase[s] = "reset" <=> wire.phase[s] = "reset"
  BY <1>2, <1>3, <1>6 DEF Answers
<1>8. streams[s].remote = "idle" => streams[s].local # "idle"
  BY <1>2 DEF Answerable, s
<1>9. c.streams[s].remote = "idle" => c.streams[s].local # "idle"
  BY <1>7, <1>8 DEF s
<1>10. ASSUME c.gen[s] = 1, c.wire.phase[s] # "reset"
       PROVE  /\ \A q \in requests' : q.stream = s =>
                    c.streams[s].local = IF q.stage = "more" THEN "open" ELSE "idle"
              /\ c.streams[s].msg # "request"
  <2>1. gen[s] = 1 /\ wire.phase[s] # "reset" /\ l = IF more THEN "open" ELSE "closed"
    BY <1>7, <1>10 DEF s
  <2>2. \A q \in requests : q.stream = s => streams[s].local = IF q.stage = "more" THEN "open" ELSE "idle"
    BY <1>2, <2>1 DEF Answerable, s
  <2>3. streams[s].msg # "request"
    BY <1>2, <2>1 DEF Answerable, s
  <2>4. \A q \in requests : q.stream = s => q.stage = r.stage
    BY <1>5, <2>2 DEF s
  <2>5. \A q \in requests' : q.stream = s => more /\ q.stage = "more"
    BY <1>4, <2>1, <2>4
  <2> QED BY <1>7, <2>1, <2>3, <2>5
<1> QED BY <1>9, <1>10

\* The variables that no call changes.
LEMMA CallTyped ==
    ASSUME HttpIInv, UNCHANGED CallVars, Usable, status' \in {status, "aborted", "crashed"},
           nextOutput' \in Nat
    PROVE  RestTyped' /\ outgoing' = outgoing /\ initialWindow' = initialWindow /\ status # "aborted"
<1>1. outgoing' = outgoing
  BY DEF CallVars
<1> QED BY <1>1, IdsSame DEF CallVars, frameVars, Usable, HttpIInv, RestTyped

\* The slot of a stream that was refused, or none: nothing is done to the connection.
LEMMA NothingSafe ==
    ASSUME HttpAssumption, HttpIInv, NEW r \in requests, NEW more \in BOOLEAN, Answered(r, more),
           streams[r.stream].slot # "live", UNCHANGED data, status' \in {status, "crashed"},
           Usable, UNCHANGED <<CallVars, nextOutput>>
    PROVE  Safe
<1> DEFINE b == Conn
           s == r.stream
<1>1. s \in Ids
  BY RequestsAre
<1>2. RestTyped' /\ outgoing' = outgoing /\ status # "aborted"
  <2>1. nextOutput' \in Nat
    BY DEF HttpIInv, RestTyped
  <2> QED BY <2>1, CallTyped
<1>3. /\ b \in Conns /\ Kept(b, s) /\ Held(b, s) /\ b.streams[s].slot # "live" /\ b.gen[s] = gen[s]
      /\ status \in {"preface", "open"} => b.streams[s].slot # "null"
  BY <1>1, <1>2, StreamHas
<1>4. Become(b)
  BY DEF data, Conn, Become
<1>5. \A q \in requests' : \/ q \in requests /\ q.stream # s
                           \/ q \in Requests /\ q.stream = s /\ q.gen <= b.gen[s]
  BY <1>3, AnsweredIs
<1>6. status' # "aborted" /\ (status' \in {"preface", "open"} => status \in {"preface", "open"})
  BY <1>2
<1> HIDE DEF b, s
<1>7. Does(b, b, s)
  BY <1>1, <1>3, StillDoes
<1>8. Answerable(b, requests', s)
  BY <1>3 DEF Answerable
<1>9. Does(Conn, b, s)
  BY <1>7 DEF b
<1> QED BY <1>1, <1>2, <1>3, <1>4, <1>5, <1>6, <1>8, <1>9, StepSafe DEF Safe

\* httpReply.
LEMMA ReplySafe ==
    ASSUME HttpAssumption, HttpIInv, NEW r \in requests, NEW len \in Sizes, NEW more \in BOOLEAN,
           Reply(r, len, more)
    PROVE  Safe
<1> DEFINE b == Conn
           s == r.stream
           c == WriteMsg(b, s, len, more)
<1>1. Usable /\ r.stage = "reply" /\ MayHold(s, len) /\ Answered(r, more)
      /\ UNCHANGED <<CallVars, nextOutput>>
  BY DEF Reply
<1>2. s \in Ids
  BY RequestsAre
<1>3. /\ b \in Conns /\ Kept(b, s) /\ Answerable(b, requests, s) /\ b.streams[s] = streams[s]
      /\ b.gen[s] = gen[s] /\ b.wire.phase[s] = wire.phase[s] /\ ~b.fatal
      /\ streams[s].slot \in {"absent", "null", "live"}
      /\ status # "aborted" => Held(b, s)
  BY <1>2, StreamHas
<1>4. CASE streams[s].slot # "live"
  <2>1. UNCHANGED data /\ status' \in {status, "crashed"}
    BY <1>3, <1>4 DEF Reply, Crash
  <2> QED BY <1>1, <1>4, <2>1, NothingSafe
<1>5. CASE streams[s].slot = "live"
  <2>1. Call(c)
    BY <1>5 DEF Reply
  <2>2. len \in Nat /\ b.streams[s].unsent + len <= MaxUnsent /\ b.streams[s].slot = "live"
    BY <1>1, <1>3, <1>5 DEF MayHold, Has, HttpAssumption
  <2> HIDE DEF b
  <2>3. /\ Does(b, c, s) /\ ~c.fatal
        /\ Held(b, s) => Held(c, s)
        /\ IF b.streams[s].local = "closed" THEN c = b
           ELSE Answers(b, c, s, IF more THEN "open" ELSE "closed")
    BY <1>2, <1>3, <2>2, WriteMsgIs
  <2> HIDE DEF c
  <2>4. Become(c) /\ status' = status
    BY <2>1, <2>3 DEF Call
  <2>5. RestTyped' /\ outgoing' = outgoing /\ status # "aborted"
    <3>1. nextOutput' \in Nat
      BY <1>1 DEF HttpIInv, RestTyped
    <3> QED BY <1>1, <2>4, <3>1, CallTyped
  <2>6. Answerable(c, requests', s) /\ c.streams[s].slot # "null" /\ c.gen[s] = gen[s]
    <3>1. CASE b.streams[s].local = "closed"
      <4>1. c = b /\ Answers(b, c, s, "closed")
        BY <1>3, <2>2, <2>3, <3>1 DEF Answers
      <4>2. gen[s] # 1 \/ wire.phase[s] = "reset"
        BY <1>1, <1>3, <2>2, <3>1 DEF Answerable
      <4>3. Answers(Conn, c, r.stream, "closed")
        BY <4>1 DEF b
      <4>4. Answerable(c, requests', s)
        BY <1>1, <1>3, <1>5, <3>1, <4>2, <4>3, StaysAnswerable
      <4> QED BY <1>3, <2>2, <4>1, <4>4
    <3>2. CASE b.streams[s].local # "closed"
      <4>1. Answers(b, c, s, IF more THEN "open" ELSE "closed")
        BY <2>3, <3>2
      <4>2. Answers(Conn, c, r.stream, IF more THEN "open" ELSE "closed")
        BY <4>1 DEF b
      <4>3. Answerable(c, requests', s)
        BY <1>1, <1>5, <4>2, StaysAnswerable
      <4> QED BY <1>3, <4>1, <4>3 DEF Answers
    <3> QED BY <3>1, <3>2
  <2>7. \A q \in requests' : \/ q \in requests /\ q.stream # s
                             \/ q \in Requests /\ q.stream = s /\ q.gen <= c.gen[s]
    BY <1>1, <2>6, AnsweredIs
  <2>8. Does(Conn, c, s)
    BY <2>3 DEF b
  <2> HIDE DEF s
  <2> QED BY <1>2, <1>3, <2>3, <2>4, <2>5, <2>6, <2>7, <2>8, StepSafe DEF Safe
<1> QED BY <1>4, <1>5

\* httpData.
LEMMA DataSafe ==
    ASSUME HttpAssumption, HttpIInv, NEW r \in requests, NEW len \in Sizes, NEW more \in BOOLEAN,
           Data(r, len, more)
    PROVE  Safe
<1> DEFINE b == Conn
           s == r.stream
           c == AddData(b, s, len, more)
<1>1. Usable /\ r.stage = "more" /\ MayHold(s, len) /\ Answered(r, more)
      /\ UNCHANGED <<CallVars, nextOutput>>
  BY DEF Data
<1>2. s \in Ids
  BY RequestsAre
<1>3. /\ b \in Conns /\ Kept(b, s) /\ Answerable(b, requests, s) /\ b.streams[s] = streams[s]
      /\ b.gen[s] = gen[s] /\ b.wire.phase[s] = wire.phase[s] /\ ~b.fatal
      /\ streams[s].slot \in {"absent", "null", "live"}
      /\ status # "aborted" => Held(b, s)
      /\ streams[s].slot = "live" => gen[s] > 0
      /\ gen[s] \in Nat
  BY <1>2, StreamHas
<1>4. CASE streams[s].slot # "live"
  <2>1. UNCHANGED data /\ status' \in {status, "crashed"}
    BY <1>3, <1>4 DEF Data, Crash
  <2> QED BY <1>1, <1>4, <2>1, NothingSafe
<1>5. CASE streams[s].slot = "live"
  <2>1. Call(c)
    BY <1>5 DEF Data
  <2>2. len \in Nat /\ b.streams[s].unsent + len <= MaxUnsent /\ b.streams[s].slot = "live"
    BY <1>1, <1>3, <1>5 DEF MayHold, Has, HttpAssumption
  <2> HIDE DEF b
  <2>3. /\ Does(b, c, s)
        /\ c.fatal <=> b.streams[s].local # "open"
        /\ c.fatal => Answers(b, c, s, b.streams[s].local)
        /\ ~c.fatal => /\ Held(b, s) => Held(c, s)
                       /\ Answers(b, c, s, IF more THEN "open" ELSE "closed")
    BY <1>2, <1>3, <2>2, AddDataIs
  <2> HIDE DEF c
  <2>4. Become(c) /\ status' = IF c.fatal THEN "aborted" ELSE status
    BY <2>1 DEF Call
  <2>5. RestTyped' /\ outgoing' = outgoing /\ status # "aborted"
    <3>1. nextOutput' \in Nat
      BY <1>1 DEF HttpIInv, RestTyped
    <3> QED BY <1>1, <2>4, <3>1, CallTyped
  <2>6. c.fatal => wire.phase[s] = "reset" \/ gen[s] > 1
    <3>1. c.fatal => wire.phase[s] = "reset" \/ gen[s] # 1
      BY <1>1, <1>3, <2>2, <2>3 DEF Answerable
    <3> QED BY <1>3, <1>5, <3>1
  <2>7. Answerable(c, requests', s) /\ c.streams[s].slot # "null" /\ c.gen[s] = gen[s]
    <3>1. CASE c.fatal
      <4>1. Answers(b, c, s, b.streams[s].local)
        BY <2>3, <3>1
      <4>2. Answers(Conn, c, r.stream, streams[r.stream].local)
        BY <1>3, <4>1 DEF b
      <4>3. gen[s] # 1 \/ wire.phase[s] = "reset"
        BY <2>6, <3>1
      <4>4. Answerable(c, requests', s)
        BY <1>1, <1>5, <4>2, <4>3, StaysAnswerable
      <4> QED BY <1>3, <4>1, <4>4 DEF Answers
    <3>2. CASE ~c.fatal
      <4>1. Answers(b, c, s, IF more THEN "open" ELSE "closed")
        BY <2>3, <3>2
      <4>2. Answers(Conn, c, r.stream, IF more THEN "open" ELSE "closed")
        BY <4>1 DEF b
      <4>3. Answerable(c, requests', s)
        BY <1>1, <1>5, <4>2, StaysAnswerable
      <4> QED BY <1>3, <4>1, <4>3 DEF Answers
    <3> QED BY <3>1, <3>2
  <2>8. \A q \in requests' : \/ q \in requests /\ q.stream # s
                             \/ q \in Requests /\ q.stream = s /\ q.gen <= c.gen[s]
    BY <1>1, <2>7, AnsweredIs
  <2>9. Does(Conn, c, s)
    BY <2>3 DEF b
  <2>10. status' # "aborted" => ~c.fatal
    BY <2>4
  <2>11. HttpIInv' /\ (CreditInv => CreditInv')
    <3> HIDE DEF s
    <3> QED BY <1>2, <1>3, <2>3, <2>4, <2>5, <2>7, <2>8, <2>9, <2>10, StepSafe
  <2> QED BY <2>11 DEF Safe
<1> QED BY <1>4, <1>5

\* httpRequest.
LEMMA RequestSafe ==
    ASSUME HttpAssumption, HttpIInv, NEW len \in Sizes, NEW more \in BOOLEAN, Request(len, more)
    PROVE  Safe
<1> DEFINE b == Conn
           s == nextOutput
           d == Open(b, s, 0)
           c == WriteMsg(d, s, len, more)
           q == [stream |-> s, gen |-> gen'[s], stage |-> "more"]
<1>1. /\ Usable /\ s \in Ids /\ len <= MaxUnsent /\ Call(c) /\ nextOutput' = nextOutput + 2
      /\ requests' = requests \cup {r \in {q} : more} /\ UNCHANGED CallVars
  BY DEF Request
<1>2. /\ b \in Conns /\ Dated(b) /\ b.gen[s] = gen[s] /\ gen[s] \in Nat /\ ~b.fatal
  BY <1>1, StreamHas
<1>3. len \in Nat /\ initialWindow \in 0 .. MaxWindow /\ 0 <= initialWindow /\ 0 \in Nat /\ 0 + len <= MaxUnsent
  BY <1>1, IdsPositive DEF HttpAssumption, HttpIInv, RestTyped
<1> HIDE DEF b, s
<1>4. /\ Does(b, d, s) /\ Held(d, s) /\ d.streams[s] = NewStream(0) /\ d.wire.phase[s] = "open"
      /\ d.gen[s] = b.gen[s] + 1 /\ d.resets = b.resets /\ d.fatal = b.fatal
  BY <1>1, <1>2, <1>3, OpenIs
<1>5. /\ d.streams[s].slot = "live" /\ d.streams[s].local = "idle" /\ d.streams[s].unsent = 0
      /\ d.streams[s].remote = "idle" /\ d.streams[s].msg = "none"
  BY <1>4 DEF NewStream, NoStream
<1>6. d \in Conns /\ Kept(d, s)
  BY <1>4 DEF Does, Spares
<1> HIDE DEF d
<1>7. /\ Does(d, c, s) /\ ~c.fatal /\ Held(c, s)
      /\ Answers(d, c, s, IF more THEN "open" ELSE "closed")
  <2>1. /\ Does(d, c, s) /\ ~c.fatal
        /\ Held(d, s) => Held(c, s)
        /\ IF d.streams[s].local = "closed" THEN c = d
           ELSE Answers(d, c, s, IF more THEN "open" ELSE "closed")
    <3>1. d.streams[s].unsent + len <= MaxUnsent /\ ~d.fatal
      BY <1>2, <1>3, <1>4, <1>5
    <3> QED BY <1>1, <1>3, <1>5, <1>6, <3>1, WriteMsgIs
  <2> QED BY <1>4, <1>5, <2>1
<1> HIDE DEF c
<1>8. Does(b, c, s)
  BY <1>1, <1>2, <1>4, <1>7, DoesTwice
<1>9. Become(c) /\ status' = status
  BY <1>1, <1>7 DEF Call
<1>10. RestTyped' /\ outgoing' = outgoing /\ status # "aborted"
  <2>1. nextOutput' \in Nat
    BY <1>1 DEF HttpIInv, RestTyped
  <2> QED BY <1>1, <1>9, <2>1, CallTyped
<1>11. c.gen[s] = gen[s] + 1 /\ c.gen[s] \in Nat \ {0} /\ gen[s] <= c.gen[s]
  BY <1>2, <1>4, <1>7 DEF Answers
<1>12. q \in Requests /\ q.stream = s /\ q.gen = c.gen[s] /\ q.stage = "more"
  <2>1. gen' = c.gen
    BY <1>9 DEF Become
  <2> QED BY <1>1, <1>11, <2>1 DEF Requests
<1> HIDE DEF q
<1>13. ASSUME NEW r \in requests'
       PROVE  \/ r \in requests /\ r.stream # s
              \/ r \in Requests /\ r.stream = s /\ r.gen <= c.gen[s]
  <2>1. CASE r \in requests
    <3>1. r \in Requests /\ r.gen \in Nat /\ r.gen <= gen[r.stream]
      BY <2>1, RequestsAre
    <3>2. r.stream = s => r.gen <= c.gen[s]
      BY <1>2, <1>11, <3>1
    <3> QED BY <2>1, <3>1, <3>2
  <2>2. CASE r = q
    BY <1>11, <1>12, <2>2
  <2> QED BY <1>1, <2>1, <2>2
<1>14. Answerable(c, requests', s)
  <2>1. SUFFICES ASSUME c.streams[s].slot = "live"
                 PROVE  /\ c.streams[s].remote = "idle" => c.streams[s].local # "idle"
                        /\ c.streams[s].msg # "request"
                        /\ c.gen[s] = 1 => \A r \in requests' : r.stream = s =>
                              c.streams[s].local = IF r.stage = "more" THEN "open" ELSE "idle"
    BY DEF Answerable
  <2>2. c.streams[s].local = (IF more THEN "open" ELSE "closed") /\ c.streams[s].msg = "none"
    BY <1>5, <1>7, <2>1 DEF Answers
  <2>3. ASSUME c.gen[s] = 1, NEW r \in requests', r.stream = s
        PROVE  more /\ r.stage = "more"
    <3>1. gen[s] + 1 = 1
      BY <1>11, <2>3
    <3>2. r \notin requests
      BY <1>1, <2>3, <3>1, NoneYet
    <3> QED BY <1>1, <1>12, <3>2
  <2> QED BY <2>2, <2>3
<1>15. c.streams[s].slot # "null" /\ Does(Conn, c, s)
  BY <1>7, <1>8 DEF Answers, b
<1> QED BY <1>1, <1>7, <1>9, <1>10, <1>13, <1>14, <1>15, StepSafe DEF Safe

\* httpResetStream.
LEMMA CancelSafe ==
    ASSUME HttpAssumption, HttpIInv, NEW r \in requests, Cancel(r)
    PROVE  Safe
<1> DEFINE b == Conn
           s == r.stream
<1>1. Usable /\ UNCHANGED <<CallVars, nextOutput>> /\ requests' \subseteq requests
  BY DEF Cancel, Answered
<1>2. s \in Ids
  BY RequestsAre
<1>3. nextOutput' \in Nat
  BY <1>1 DEF HttpIInv, RestTyped
<1>4. CASE streams[s].slot = "null"
  <2>1. UNCHANGED data /\ status' = "crashed"
    BY <1>4 DEF Cancel, Crash
  <2>2. RestTyped' /\ outgoing' = outgoing /\ status # "aborted"
    BY <1>1, <1>3, <2>1, CallTyped
  <2> QED BY <1>1, <2>1, <2>2, QuietSafe DEF Safe
<1>5. CASE streams[s].slot # "null"
  <2> DEFINE c == ResetStream(b, s)
  <2>1. Call(c)
    BY <1>5 DEF Cancel
  <2>2. /\ b \in Conns /\ b.streams[s].slot \in {"absent", "live"} /\ ~b.fatal /\ Kept(b, s)
    BY <1>2, <1>5, StreamHas
  <2> HIDE DEF b
  <2>3. c.fatal = b.fatal
    BY <1>2, <2>2, ResetIs
  <2>4. Become(c) /\ status' = status
    BY <2>1, <2>2, <2>3 DEF Call
  <2>5. Become(ResetStream(Conn, s))
    BY <2>4 DEF b
  <2>6. RestTyped' /\ outgoing' = outgoing /\ status # "aborted"
    BY <1>1, <1>3, <2>4, CallTyped
  <2> QED BY <1>1, <1>2, <1>5, <2>4, <2>5, <2>6, ResetSafe DEF Safe, Usable
<1> QED BY <1>4, <1>5

\* The oldest entry of s_resetStreams goes, and its stream if that is still there.
Expired(c) == [c EXCEPT !.resets = Tail(c.resets)]

\* No other stream loses its entry.
LEMMA ExpiredIs ==
    ASSUME NEW c \in Conns, c.resets # <<>>
    PROVE  LET d == Expired(c)
               e == Head(c.resets)
           IN /\ d \in Conns /\ d.flow = c.flow /\ d.streams = c.streams /\ d.wire = c.wire
              /\ d.gen = c.gen /\ d.fatal = c.fatal
              /\ e \in Entries
              /\ \A i \in 1 .. Len(d.resets) : \E j \in 1 .. Len(c.resets) : d.resets[i] = c.resets[j]
              /\ \A s \in Ids : Entry(c, s) # e => (Listed(d, s) <=> Listed(c, s))
<1> DEFINE d == Expired(c)
           q == c.resets
           e == Head(q)
           p == Tail(q)
<1>1. q \in Seq(Entries) /\ q # <<>>
  BY DEF Conns
<1> HIDE DEF q
<1>2. /\ Len(q) \in Nat /\ Len(q) >= 1 /\ q[1] = e /\ e \in Entries
      /\ p \in Seq(Entries) /\ Len(p) = Len(q) - 1 /\ \A i \in 1 .. Len(p) : p[i] = q[i + 1]
  BY <1>1
<1> HIDE DEF e, p
<1>3. d = [c EXCEPT !.resets = p] /\ c.resets = q
  BY DEF Expired, q, p
<1> HIDE DEF d
<1>4. /\ d \in Conns /\ d.flow = c.flow /\ d.streams = c.streams /\ d.wire = c.wire
      /\ d.gen = c.gen /\ d.fatal = c.fatal /\ d.resets = p
  BY <1>2, <1>3 DEF Conns
<1>5. \A i \in 1 .. Len(p) : i + 1 \in 1 .. Len(q) /\ p[i] = q[i + 1]
  BY <1>2
<1>6. ASSUME NEW s \in Ids, Entry(c, s) # e PROVE Listed(d, s) <=> Listed(c, s)
  <2>1. Entry(d, s) = Entry(c, s)
    BY <1>4 DEF Entry
  <2>2. ASSUME NEW j \in 1 .. Len(q), q[j] = Entry(c, s)
        PROVE  \E i \in 1 .. Len(p) : p[i] = Entry(c, s)
    <3>1. j # 1
      BY <1>2, <1>6, <2>2
    <3>2. j - 1 \in 1 .. Len(p) /\ p[j - 1] = q[j]
      <4>1. j - 1 \in 1 .. Len(p) /\ (j - 1) + 1 = j
        BY <1>2, <3>1
      <4> QED BY <1>2, <4>1
    <3> QED BY <2>2, <3>2
  <2> QED BY <1>3, <1>4, <1>5, <2>1, <2>2 DEF Listed
<1> QED BY <1>2, <1>3, <1>4, <1>5, <1>6 DEF d, e, q

\* ResetStreamTimer::onTimer.
LEMMA ExpireResetSafe ==
    ASSUME HttpAssumption, HttpIInv, ExpireReset
    PROVE  Safe
<1> DEFINE b == Conn
           e == Head(b.resets)
           d == IF SameStream(e) THEN Erase(b, e.stream) ELSE b
           c == Expired(d)
<1>1. /\ Sound(b, requests, status) /\ b \in Conns /\ b.streams = streams /\ b.gen = gen
      /\ b.wire = wire /\ b.resets = resetQ
  BY ConnHas DEF Sound
<1>2. Usable /\ resetQ # <<>> /\ Become(c) /\ status' = status /\ requests' = requests
      /\ nextOutput' = nextOutput /\ UNCHANGED CallVars
  BY <1>1 DEF ExpireReset, Expired
<1>3. RestTyped' /\ outgoing' = outgoing /\ status # "aborted"
  <2>1. nextOutput' \in Nat
    BY <1>2 DEF HttpIInv, RestTyped
  <2> QED BY <1>2, <2>1, CallTyped
<1> HIDE DEF b
<1>4. e \in Entries /\ e.stream \in Ids /\ \E i \in 1 .. Len(b.resets) : b.resets[i] = e
  <2>1. b.resets \in Seq(Entries) /\ b.resets # <<>>
    BY <1>1, <1>2 DEF Conns
  <2>2. e \in Entries /\ Len(b.resets) \in Nat /\ 1 \in 1 .. Len(b.resets) /\ b.resets[1] = e
    BY <2>1
  <2> QED BY <2>2 DEF Entries
<1> HIDE DEF e
<1>5. SameStream(e) => /\ Does(b, d, e.stream) /\ d.streams[e.stream].slot = "absent"
                       /\ d.gen = b.gen /\ d.resets = b.resets /\ d.wire.phase = b.wire.phase
  <2> SUFFICES ASSUME SameStream(e)
               PROVE  /\ Does(b, d, e.stream) /\ d.streams[e.stream].slot = "absent"
                      /\ d.gen = b.gen /\ d.resets = b.resets /\ d.wire.phase = b.wire.phase
    OBVIOUS
  <2>1. e = Entry(b, e.stream) /\ b.streams[e.stream].slot = "live"
    BY <1>1, <1>4 DEF SameStream, Live, Entry, Entries
  <2>2. Listed(b, e.stream)
    BY <1>4, <2>1 DEF Listed
  <2>3. b.wire.phase[e.stream] # "open"
    BY <1>1, <1>4, <2>1, <2>2 DEF Sound, Kept
  <2>4. d = Erase(b, e.stream)
    OBVIOUS
  <2> HIDE DEF d
  <2> QED BY <1>1, <1>4, <2>3, <2>4, EraseIs DEF NoStream
<1>6. ~SameStream(e) => d = b /\ (b.streams[e.stream].slot # "live" \/ b.gen[e.stream] # e.gen)
  BY <1>1 DEF SameStream, Live
<1> HIDE DEF d
<1>7. /\ d \in Conns /\ d.gen = b.gen /\ d.resets = b.resets
      /\ \A s \in Ids :
            /\ Kept(d, s) /\ Held(d, s) /\ Answerable(d, requests, s)
            /\ status # "failed" => d.streams[s].slot # "null"
  <2>1. ASSUME NEW s \in Ids
        PROVE  /\ Kept(b, s) /\ Held(b, s) /\ Answerable(b, requests, s)
               /\ status # "failed" => b.streams[s].slot # "null"
    BY <1>1, <1>2, <1>3 DEF Sound, Usable
  <2>2. CASE SameStream(e)
    <3>1. ASSUME NEW s \in Ids
          PROVE  /\ Kept(d, s) /\ Held(d, s) /\ Answerable(d, requests, s)
                 /\ status # "failed" => d.streams[s].slot # "null"
      <4>1. CASE s = e.stream
        BY <1>5, <2>2, <4>1 DEF Does, Held, Answerable
      <4>2. CASE s # e.stream
        <5>1. Kept(d, s) /\ Held(d, s)
          BY <1>1, <1>4, <1>5, <2>1, <2>2, <4>2, OthersKept DEF Does
        <5>2. d.streams[s] = b.streams[s] /\ d.gen[s] = b.gen[s] /\ d.wire.phase[s] = b.wire.phase[s]
          BY <1>5, <2>2, <4>2 DEF Does, Spares
        <5> QED BY <2>1, <5>1, <5>2 DEF Answerable
      <4> QED BY <4>1, <4>2
    <3> QED BY <1>5, <2>2, <3>1 DEF Does, Spares
  <2>3. CASE ~SameStream(e)
    BY <1>1, <1>6, <2>1, <2>3
  <2> QED BY <2>2, <2>3
<1>8. ASSUME NEW s \in Ids, d.streams[s].slot = "live" PROVE Entry(d, s) # e
  BY <1>4, <1>5, <1>6, <1>7, <1>8 DEF Entry
<1>9. /\ c \in Conns /\ c.flow = d.flow /\ c.streams = d.streams /\ c.wire = d.wire /\ c.gen = d.gen
      /\ \A i \in 1 .. Len(c.resets) : \E j \in 1 .. Len(b.resets) : c.resets[i] = b.resets[j]
      /\ \A s \in Ids : Entry(d, s) # e => (Listed(c, s) <=> Listed(d, s))
  BY <1>1, <1>2, <1>7, ExpiredIs DEF e
<1> HIDE DEF c
<1>10. ASSUME NEW s \in Ids
       PROVE  /\ Kept(c, s) /\ Held(c, s) /\ Answerable(c, requests, s)
              /\ status # "failed" => c.streams[s].slot # "null"
  <2>1. Held(c, s) /\ Answerable(c, requests, s)
    BY <1>7, <1>9 DEF Held, Avail, Answerable
  <2>2. Kept(c, s)
    BY <1>7, <1>8, <1>9 DEF Kept
  <2> QED BY <1>7, <1>9, <2>1, <2>2
<1>11. Sound(c, requests', status')
  <2>1. Dated(c)
    BY <1>1, <1>7, <1>9 DEF Sound, Dated
  <2> QED BY <1>1, <1>2, <1>7, <1>9, <1>10, <2>1 DEF Sound, Usable
<1>12. HttpIInv'
  BY <1>2, <1>3, <1>9, <1>11, SoundNext
<1>13. ASSUME CreditInv PROVE CreditInv'
  <2>1. Paid(b) /\ \A s \in Ids : Covered(b, s)
    BY <1>13 DEF CreditInv, b
  <2>2. Paid(d) /\ \A s \in Ids : Covered(d, s)
    <3>1. CASE SameStream(e)
      <4>1. Paid(d) /\ Covered(d, e.stream)
        BY <1>4, <1>5, <2>1, <3>1 DEF Does
      <4>2. \A s \in Ids \ {e.stream} : Covered(d, s)
        BY <1>1, <1>4, <1>5, <2>1, <3>1, OthersKept DEF Does
      <4> QED BY <4>1, <4>2
    <3>2. CASE ~SameStream(e)
      BY <1>6, <2>1, <3>2
    <3> QED BY <3>1, <3>2
  <2>3. Paid(c) /\ \A s \in Ids : Covered(c, s)
    BY <1>9, <2>2 DEF Paid, Covered
  <2> QED BY <1>2, <1>3, <2>3, CreditNext
<1> QED BY <1>2, <1>12, <1>13, <1>3 DEF Safe

-----------------------------------------------------------------------------
(* Every step, and the first state.                                        *)

\* Every step of the connection.
LEMMA NextSafe ==
    ASSUME HttpAssumption, HttpIInv, Next
    PROVE  Safe
<1>1. CASE Preface
  BY <1>1, PrefaceSafe
<1>2. CASE Frame
  <2>1. CASE \/ OnBadFrame \/ OnIgnored \/ OnSettingsAck
             \/ \E s \in Ids : OnHeadersAgain(s)
             \/ \E last \in GoAwayIds, noError \in BOOLEAN : OnGoAway(last, noError)
    BY <2>1, FrameQuietSafe
  <2>2. CASE \E v \in InitialWindows \cup {initialWindow} : OnSettings(v)
    BY <2>2, OnSettingsSafe
  <2>3. CASE \E n \in Increments : OnWindowUpdateConn(n)
    BY <2>3, OnWindowUpdateConnSafe
  <2>4. CASE \E s \in Ids : OnPriority(s)
    BY <2>4, OnPrioritySafe
  <2>5. CASE \E s \in Ids : OnHeadersRefused(s)
    BY <2>5, OnHeadersRefusedSafe
  <2>6. CASE \E s \in Ids : OnRstStream(s)
    BY <2>6, OnRstStreamSafe
  <2>7. CASE \E s \in Ids, end \in BOOLEAN : OnData(s, end)
    BY <2>7, OnDataSafe
  <2>8. CASE \E s \in Ids, end \in BOOLEAN, endHeaders \in BOOLEAN, block \in Blocks :
                OnHeaders(s, end, endHeaders, block)
    BY <2>8, OnHeadersSafe
  <2>9. CASE \E s \in Ids, n \in Increments : OnWindowUpdate(s, n)
    BY <2>9, OnWindowUpdateSafe
  <2> QED BY <1>2, <2>1, <2>2, <2>3, <2>4, <2>5, <2>6, <2>7, <2>8, <2>9 DEF Frame
<1>3. CASE AppCall
  BY <1>3, RequestSafe, ReplySafe, DataSafe DEF AppCall
<1>4. CASE \E r \in requests : Cancel(r)
  BY <1>4, CancelSafe
<1>5. CASE ExpireReset
  BY <1>5, ExpireResetSafe
<1>6. CASE Close
  BY <1>6, CloseSafe
<1> QED BY <1>1, <1>2, <1>3, <1>4, <1>5, <1>6 DEF Next

\* And none.
LEMMA StutterSafe ==
    ASSUME HttpAssumption, HttpIInv, UNCHANGED vars
    PROVE  Safe
<1>1. Conn' = Conn /\ Ids' = Ids /\ Conns' = Conns /\ Requests' = Requests
  BY IdsSame DEF vars, Conn
<1>2. RestTyped'
  BY <1>1 DEF vars, HttpIInv, RestTyped
<1>3. HttpIInv'
  <2> DEFINE b == Conn
  <2>1. Become(b) /\ outgoing' = outgoing /\ requests' = requests /\ status' = status
    BY DEF vars, Become, Conn
  <2>2. Sound(b, requests, status)
    BY DEF HttpIInv
  <2> HIDE DEF b
  <2>3. Sound(b, requests', status') /\ b \in Conns
    BY <2>1, <2>2 DEF Sound
  <2> QED BY <1>2, <2>1, <2>3, SoundNext
<1>4. CreditInv => CreditInv'
  BY <1>1 DEF CreditInv
<1> QED BY <1>3, <1>4 DEF Safe, vars

\* The first state.
LEMMA HttpInit ==
    ASSUME HttpAssumption, Init
    PROVE  HttpIInv /\ CreditInv
<1> DEFINE b == Conn
<1>1. /\ b = [flow |-> DefaultWindow, streams |-> [s \in Ids |-> NoStream], wire |-> NoWire,
              resets |-> <<>>, gen |-> [s \in Ids |-> 0], fatal |-> FALSE]
      /\ requests = {}
  BY DEF Init, Conn
<1> HIDE DEF b
<1>2. DefaultWindow \in 0 .. MaxWindow /\ 0 \in 0 .. MaxUnsent /\ 0 \notin Ids
  BY IdsPositive
<1>3. NoStream \in StreamType /\ NoStream.slot = "absent"
  BY <1>2 DEF NoStream, StreamType, States
<1>4. /\ NoWire \in Wires /\ NoWire.credit[0] = DefaultWindow /\ NoWire.faults = {}
      /\ \A s \in Ids : NoWire.phase[s] = "idle"
  BY <1>2 DEF NoWire, Wires, Phases
<1>5. /\ b.flow = DefaultWindow /\ b.wire = NoWire /\ b.resets = <<>>
      /\ \A s \in Ids : b.streams[s].slot = "absent"
  BY <1>1, <1>3
<1>6. b \in Conns
  <2>1. <<>> \in Seq(Entries)
    OBVIOUS
  <2> QED BY <1>1, <1>2, <1>3, <1>4, <2>1 DEF Conns
<1>7. \A s \in Ids : Kept(b, s) /\ Answerable(b, requests, s) /\ Held(b, s) /\ Covered(b, s)
  BY <1>4, <1>5 DEF Kept, Answerable, Held, Covered
<1>8. Dated(b)
  BY <1>5 DEF Dated
<1>9. Sound(b, requests, status)
  BY <1>1, <1>5, <1>6, <1>7, <1>8 DEF Sound
<1>10. Paid(b)
  BY <1>4, <1>5 DEF Paid
<1>11. RestTyped
  BY <1>2 DEF Init, RestTyped
<1> QED BY <1>7, <1>9, <1>10, <1>11 DEF HttpIInv, CreditInv, b

-----------------------------------------------------------------------------
(* What follows from the invariant.                                        *)

\* The first invariant of the runs.
LEMMA IInvConsistent ==
    ASSUME HttpIInv
    PROVE  StreamsConsistent
<1> DEFINE b == Conn
<1>1. /\ Sound(b, requests, status) /\ b.streams = streams /\ b.gen = gen /\ b.wire = wire
      /\ b.flow = flowWindow /\ b.resets = resetQ
  BY ConnHas
<1> HIDE DEF b
<1>2. /\ flowWindow \in 0 .. MaxWindow /\ streams \in [Ids -> StreamType] /\ wire \in Wires
      /\ resetQ \in Seq(Entries) /\ gen \in [Ids -> Nat]
  BY <1>1 DEF Sound, Conns
<1>4. /\ wire.credit \in [Ids \cup {0} -> Int] /\ wire.phase \in [Ids -> Phases] /\ wire.faults \subseteq Faults
      /\ wire.misjudged \subseteq Ids
  BY <1>2 DEF Wires
<1>5. requests \subseteq [stream : Ids, gen : Nat \ {0}, stage : {"reply", "more"}]
  BY <1>1 DEF Sound, Requests
<1>6. resetQ \in Seq([stream : Ids, gen : Nat \ {0}])
  BY <1>2 DEF Entries
<1>7. TypeOK
  BY <1>2, <1>4, <1>5, <1>6 DEF TypeOK, HttpIInv, RestTyped
<1>8. OpenIsKept /\ OpenHasMsg
  BY <1>1 DEF OpenIsKept, OpenHasMsg, Live, Sound, Kept
<1> QED BY <1>7, <1>8 DEF StreamsConsistent

\* The second.
LEMMA IInvHeldBack ==
    ASSUME HttpIInv
    PROVE  HeldBackForWindow
<1> SUFFICES ASSUME status \in {"open", "failed"}, NEW s \in Ids \ wire.misjudged,
                    Live(s), streams[s].unsent > 0
             PROVE  PeerAvail(s) < MaxFrame /\ PeerAvail(s) < streams[s].unsent
  BY DEF HeldBackForWindow, ForWindow
<1> DEFINE b == Conn
<1>1. Held(b, s) /\ Kept(b, s) /\ b \in Conns /\ b.streams[s] = streams[s] /\ b.wire = wire
  BY StreamHas, ConnHas
<1> HIDE DEF b
<1>2. Avail(b, s) < MaxFrame /\ Avail(b, s) < streams[s].unsent
  BY <1>1 DEF Held, Live
<1>3. wire.credit[0] = b.flow /\ wire.credit[s] = b.streams[s].window
  BY <1>1 DEF Conns, Kept, Live
<1>4. PeerAvail(s) = Avail(b, s)
  BY <1>3 DEF PeerAvail, Avail
<1> QED BY <1>2, <1>4

\* The third.
LEMMA IInvReset ==
    ASSUME HttpIInv
    PROVE  ResetStaysClosed
<1> DEFINE b == Conn
<1>1. /\ Sound(b, requests, status) /\ b.streams = streams /\ b.gen = gen /\ b.wire = wire
      /\ b.resets = resetQ
  BY ConnHas
<1> HIDE DEF b
<1>2. ASSUME NEW s \in Ids, streams[s].slot = "live"
      PROVE  /\ wire.phase[s] = "reset" => streams[s].local = "closed" /\ streams[s].remote = "closed"
             /\ wire.phase[s] = "reset" <=>
                    \E i \in 1 .. Len(resetQ) : resetQ[i] = [stream |-> s, gen |-> gen[s]]
  <2>1. Kept(b, s)
    BY <1>1 DEF Sound
  <2> QED BY <1>1, <1>2, <2>1 DEF Kept, Listed, Entry
<1>3. ASSUME NEW i \in 1 .. Len(resetQ), SameStream(resetQ[i])
      PROVE  streams[resetQ[i].stream].local = "closed" /\ streams[resetQ[i].stream].remote = "closed"
  <2>1. resetQ \in Seq(Entries)
    BY <1>1 DEF Sound, Conns
  <2> DEFINE e == resetQ[i]
  <2>2. e \in Entries
    BY <2>1
  <2>3. e = resetQ[i] /\ SameStream(e)
    BY <1>3
  <2> HIDE DEF e
  <2>4. e.stream \in Ids /\ streams[e.stream].slot = "live" /\ e = [stream |-> e.stream, gen |-> gen[e.stream]]
    BY <2>2, <2>3 DEF SameStream, Live, Entries
  <2>5. streams[e.stream].local = "closed" /\ streams[e.stream].remote = "closed"
    BY <1>2, <2>3, <2>4
  <2> QED BY <2>5 DEF e
<1> QED BY <1>2, <1>3 DEF ResetStaysClosed, Live

\* httpReply never ends the process: writeMsg leaves a closed stream alone, and
\* opens the other ones before it calls addData.
LEMMA ReplyNotFatal ==
    ASSUME HttpAssumption, HttpIInv, NEW r \in requests, NEW len \in Sizes, NEW more \in BOOLEAN,
           Reply(r, len, more), status # "aborted"
    PROVE  status' # "aborted"
<1> DEFINE b == Conn
           s == r.stream
           c == WriteMsg(b, s, len, more)
<1>1. s \in Ids /\ MayHold(s, len)
  BY RequestsAre DEF Reply
<1>2. /\ b \in Conns /\ Kept(b, s) /\ b.streams[s] = streams[s] /\ ~b.fatal
      /\ streams[s].slot \in {"absent", "null", "live"}
  BY <1>1, StreamHas
<1>3. CASE streams[s].slot # "live"
  BY <1>2, <1>3 DEF Reply, Crash
<1>4. CASE streams[s].slot = "live"
  <2>1. Call(c)
    BY <1>4 DEF Reply
  <2>2. len \in Nat /\ b.streams[s].unsent + len <= MaxUnsent /\ b.streams[s].slot = "live"
    BY <1>1, <1>2, <1>4 DEF MayHold, Has, HttpAssumption
  <2> HIDE DEF b
  <2>3. ~c.fatal
    BY <1>1, <1>2, <2>2, WriteMsgIs
  <2> QED BY <2>1, <2>3 DEF Call
<1> QED BY <1>3, <1>4

\* httpData does only on a stream that its request has not left open.
LEMMA DataFatal ==
    ASSUME HttpAssumption, HttpIInv, NEW r \in requests, NEW len \in Sizes, NEW more \in BOOLEAN,
           Data(r, len, more), status # "aborted", status' = "aborted"
    PROVE  wire.phase[r.stream] = "reset" \/ gen[r.stream] > 1
<1> DEFINE b == Conn
           s == r.stream
           c == AddData(b, s, len, more)
<1>1. s \in Ids /\ MayHold(s, len) /\ r.stage = "more"
  BY RequestsAre DEF Data
<1>2. /\ b \in Conns /\ Kept(b, s) /\ Answerable(b, requests, s) /\ b.streams[s] = streams[s]
      /\ b.gen[s] = gen[s] /\ b.wire.phase[s] = wire.phase[s] /\ ~b.fatal
      /\ streams[s].slot \in {"absent", "null", "live"}
      /\ streams[s].slot = "live" => gen[s] > 0
      /\ gen[s] \in Nat
  BY <1>1, StreamHas
<1>3. streams[s].slot = "live"
  BY <1>2 DEF Data, Crash
<1>4. Call(c)
  BY <1>3 DEF Data
<1>5. len \in Nat /\ b.streams[s].unsent + len <= MaxUnsent /\ b.streams[s].slot = "live"
  BY <1>1, <1>2, <1>3 DEF MayHold, Has, HttpAssumption
<1> HIDE DEF b
<1>6. c.fatal <=> b.streams[s].local # "open"
  BY <1>1, <1>2, <1>5, AddDataIs
<1> HIDE DEF c
<1>7. streams[s].local # "open"
  BY <1>2, <1>4, <1>6 DEF Call
<1>8. wire.phase[s] = "reset" \/ gen[s] # 1
  BY <1>1, <1>2, <1>3, <1>7 DEF Answerable
<1> QED BY <1>2, <1>3, <1>8

-----------------------------------------------------------------------------
(* The theorems.                                                           *)

\* The inductive invariant holds of every behaviour.
LEMMA HttpInvariant == Spec => []HttpIInv
<1>1. Init => HttpIInv
  BY HttpAssumption, HttpInit
<1>2. HttpIInv /\ [Next]_vars => HttpIInv'
  BY HttpAssumption, NextSafe, StutterSafe DEF Safe
<1> QED BY <1>1, <1>2, PTL DEF Spec

\* Whatever the peer sends and the application asks, the streams agree with what
\* was received, sent and held back: a stream on which the peer waits for the end
\* of the data is in m_streams, and one that may receive data has a message
\* (HttpConn::addData, writeUnsent, resetStream, onHeaders, onData).
THEOREM HttpStreamsConsistent == Spec => []StreamsConsistent
<1>1. HttpIInv => StreamsConsistent
  BY IInvConsistent
<1> QED BY <1>1, HttpInvariant, PTL

\* Data is held back only while no whole frame and not the rest of it fits into what
\* the peer lets this side send, on every stream that started with the window of the
\* peer and has seen no SETTINGS move it: the windows of the code are the peer's
\* (transfer in addData and writeUnsent, onWindowUpdate), and writeUnsent is called
\* wherever one of them grows, for every stream that the walk over m_streams reaches.
THEOREM HttpHeldBack == Spec => []HeldBackForWindow
<1>1. HttpIInv => HeldBackForWindow
  BY IInvHeldBack
<1> QED BY <1>1, HttpInvariant, PTL

\* The assertion of ResetStreamTimer::onTimer: an entry of s_resetStreams that is
\* still in m_streams is closed on both sides, and every stream that this side has
\* reset has its entry.
THEOREM HttpResetStaysClosed == Spec => []ResetStaysClosed
<1>1. HttpIInv => ResetStaysClosed
  BY IInvReset
<1> QED BY <1>1, HttpInvariant, PTL

\* logMsgFatal in addData is reached only in answering a request whose own stream
\* was reset, or has given way to a second one of the same id, and never by httpReply:
\* that of any other request finds its stream as the last answer has left it, or gone.
THEOREM HttpFatalOnlyOnOwnReset == Spec => FatalOnlyOnOwnReset
<1>1. HttpIInv /\ [Next]_vars =>
        [status # "aborted" /\ status' = "aborted" =>
            \A r \in requests, len \in Sizes, more \in BOOLEAN :
               Reply(r, len, more) \/ Data(r, len, more)
                 => wire.phase[r.stream] = "reset" \/ gen[r.stream] > 1]_vars
  BY HttpAssumption, ReplyNotFatal, DataFatal
<1> QED BY <1>1, HttpInvariant, PTL DEF Spec, FatalOnlyOnOwnReset

\* No DATA frame exceeds the windows of the peer, as long as the peer never lowers
\* its initial window: with that the window of a stream in m_streams is at most the
\* peer's, and the window of the connection equal to it (transfer in addData and
\* writeUnsent, onWindowUpdate).
THEOREM HttpWindowRespected ==
    Spec /\ [][initialWindow' >= initialWindow]_initialWindow => []WindowRespected
<1>1. Init => CreditInv
  BY HttpAssumption, HttpInit
<1>2. HttpIInv /\ CreditInv /\ [Next]_vars /\ [initialWindow' >= initialWindow]_initialWindow => CreditInv'
  <2> SUFFICES ASSUME HttpIInv, CreditInv, [Next]_vars, [initialWindow' >= initialWindow]_initialWindow
               PROVE  CreditInv'
    OBVIOUS
  <2>1. Safe
    BY HttpAssumption, NextSafe, StutterSafe
  <2>2. initialWindow' >= initialWindow
    BY DEF HttpIInv, RestTyped
  <2> QED BY <2>1, <2>2 DEF Safe
<1>3. CreditInv => WindowRespected
  BY DEF CreditInv, Paid, Conn, WindowRespected
<1> QED BY <1>1, <1>2, <1>3, HttpInvariant, PTL DEF Spec
=============================================================================
