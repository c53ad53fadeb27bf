---------------------------- MODULE SockMgrProofs ----------------------------
(***************************************************************************)
(* Proofs about the two socket managers.  The accepting ones of module     *)
(* AcceptMgr, for any managers, addresses and connections; the connecting  *)
(* one of module ConnMgr, for any addresses.  The theorems leave out the   *)
(* habits that break what they say, and only these.                        *)
(***************************************************************************)
EXTENDS AcceptMgr, ConnMgr, FiniteSetTheorems, SequenceTheorems, TLAPS

-----------------------------------------------------------------------------
(***************************************************************************)
(* THE ACCEPTING MANAGERS                                                  *)
(***************************************************************************)

\* Who listens on an address is in s_sockAddrs, and is running.
Wants(m, e) == mgr[m] = "running" /\ e \in addrs[m]
FactoriesOK == \A e \in Addr : \A m \in Mgr : m \in factories[e] <=> Wants(m, e)

\* The types of everything but the listeners.
MgrsTyped ==
    /\ mgr \in [Mgr -> {"running", "stopping", "gone"}]
    /\ addrs \in [Mgr -> SUBSET Addr]
    /\ factories \in [Addr -> SUBSET Mgr]
RestTyped ==
    /\ phase \in {"run", "client", "console", "done"}
    /\ MgrsTyped
    /\ link \in [Link -> LinkState]

\* An open connection nobody has matched has an address and nothing else; one
\* that is matched is in its manager's list.
LinkOK(l) ==
    /\ l.state = "active" => l.open /\ l.unmatched # l.listed
    /\ l.unmatched => l.at \in Addr /\ l.owner = None
    /\ l.owner # None => l.listed /\ ~l.unmatched
    /\ l.listed => l.owner # None
LinksOK ==
    \A c \in Link :
        LinkOK(link[c]) /\ (link[c].owner # None => mgr[link[c].owner] # "gone")

\* The listeners of an address that is wanted, or not: there is one at most,
\* which is dead, waits for connections or is on its way out.
Shape(s, wanted) ==
    \/ s = <<>> /\ ~wanted
    \/ \E x \in Listener :
        /\ s = <<x>>
        /\ \/ ~x.open /\ ~x.accepting
           \/ wanted /\ x.open /\ x.accepting
           \/ ~wanted /\ ~x.open /\ x.stop /\ x.accepting
\* An address somebody listens on is wanted of its listeners, unless it could
\* not be opened.
Opened(e) == factories[e] # {} /\ e \notin unopened
ListenersOK ==
    \A e \in Addr :
        Shape(listeners[e], Opened(e)) /\ (e \in unopened => factories[e] # {})

ListenersTyped ==
    /\ listeners = [e \in Addr |-> listeners[e]]
    /\ \A e \in Addr : listeners[e] \in Seq(Listener)
    /\ unopened \subseteq Addr

LinksIInv == RestTyped /\ ListenersTyped /\ FactoriesOK /\ LinksOK
AddrsIInv == MgrsTyped /\ FactoriesOK /\ ListenersTyped /\ ListenersOK

-----------------------------------------------------------------------------
(* Operators.                                                              *)

\* A connection that is disconnected is of its kind and no longer active.
LEMMA DisconnectIs ==
    ASSUME NEW l \in LinkState
    PROVE  /\ Disconnect(l) \in LinkState
           /\ l.open => Disconnect(l).state # "active"
           /\ ~l.open => Disconnect(l) = l
           /\ Disconnect(l).at = l.at /\ Disconnect(l).unmatched = l.unmatched
           /\ Disconnect(l).owner = l.owner /\ Disconnect(l).listed = l.listed
<1>1. CASE ~l.open
  BY <1>1 DEF Disconnect
<1>2. CASE l.open
  <2>1. Disconnect(l) = [state |-> IF l.state = "closed" THEN "stuck" ELSE "closing",
                         open |-> FALSE, at |-> l.at, unmatched |-> l.unmatched,
                         owner |-> l.owner, listed |-> l.listed]
    BY <1>2 DEF Disconnect, LinkState
  <2> QED
    BY <1>2, <2>1 DEF LinkState
<1> QED
  BY <1>1, <1>2

LEMMA DisconnectOK ==
    ASSUME NEW l \in LinkState, LinkOK(l)
    PROVE  Disconnect(l) \in LinkState /\ LinkOK(Disconnect(l))
           /\ Disconnect(l).state # "active" /\ Disconnect(l).owner = l.owner
           /\ Disconnect(l).listed = l.listed
<1>1. /\ Disconnect(l) \in LinkState
      /\ l.open => Disconnect(l).state # "active"
      /\ ~l.open => Disconnect(l) = l
      /\ Disconnect(l).at = l.at /\ Disconnect(l).unmatched = l.unmatched
      /\ Disconnect(l).owner = l.owner /\ Disconnect(l).listed = l.listed
  BY DisconnectIs
<1>2. Disconnect(l).state # "active"
  BY <1>1 DEF LinkOK
<1> QED
  BY <1>1, <1>2 DEF LinkOK

LEMMA FreeOK == Free \in LinkState /\ LinkOK(Free) /\ Free.owner = None /\ ~Free.listed
  BY DEF Free, LinkState, LinkOK

\* The listener that is closed is the first one.
LEMMA CloseListenIs ==
    ASSUME NEW s \in Seq(Listener)
    PROVE  /\ CloseListen(s) \in Seq(Listener)
           /\ s = <<>> => CloseListen(s) = <<>>
           /\ \A x \in Listener : s = <<x>> =>
                CloseListen(s) = <<[x EXCEPT !.open = FALSE, !.stop = TRUE]>>
<1>1. CASE s = <<>>
  BY <1>1 DEF CloseListen
<1>2. CASE s # <<>>
  <2>1. PICK k \in Nat : k = Len(s) /\ DOMAIN s = 1 .. k /\ k > 0 /\ s \in [1 .. k -> Listener]
    BY <1>2
  <2> DEFINE y == [s[1] EXCEPT !.open = FALSE, !.stop = TRUE]
  <2>2. s[1] \in Listener /\ y \in Listener
    <3>1. s[1] \in Listener
      BY <2>1
    <3> QED
      BY <3>1 DEF Listener
  <2>3. CloseListen(s) = [s EXCEPT ![1] = y]
    BY <1>2 DEF CloseListen
  <2> HIDE DEF y
  <2>4. [s EXCEPT ![1] = y] \in Seq(Listener)
    <3>1. [s EXCEPT ![1] = y] \in [1 .. k -> Listener]
      BY <2>1, <2>2
    <3> QED
      BY <2>1, <3>1
  <2>5. ASSUME NEW x \in Listener, s = <<x>> PROVE [s EXCEPT ![1] = y] = <<y>>
    BY <2>5
  <2>6. \A x \in Listener : s = <<x>> => y = [x EXCEPT !.open = FALSE, !.stop = TRUE]
    BY DEF y
  <2> QED
    BY <1>2, <2>3, <2>4, <2>5, <2>6
<1> QED
  BY <1>1, <1>2

LEMMA NewListenerIs ==
    /\ NewListener \in Listener /\ NewListener.open /\ NewListener.accepting
    /\ DeadListener \in Listener /\ ~DeadListener.open /\ ~DeadListener.accepting
  BY DEF NewListener, DeadListener, Listener

\* Whatever becomes of socketListen, it leaves one more listener or none.
LEMMA ListenIs ==
    ASSUME NEW s \in Seq(Listener), NEW how
    PROVE  /\ Listen(s, how) \in Seq(Listener)
           /\ s = <<>> => Listen(s, how) = CASE how = "open" -> <<NewListener>>
                                            [] how = "dead" -> <<DeadListener>>
                                            [] OTHER -> <<>>
<1>1. \A x \in Listener : Append(s, x) \in Seq(Listener)
  OBVIOUS
<1>2. \A x \in Listener : Append(<<>>, x) = <<x>>
  OBVIOUS
<1>3. Listen(s, how) \in Seq(Listener)
  BY <1>1, NewListenerIs DEF Listen
<1> QED
  BY <1>2, <1>3, NewListenerIs DEF Listen

LEMMA ListenersTypedOK ==
    ASSUME NEW e \in Addr, NEW fs, NEW how, ListenersTyped
    PROVE  Listeners(e, fs, how) \in Seq(Listener)
<1>1. listeners[e] \in Seq(Listener)
  BY DEF ListenersTyped
<1>2. CloseListen(listeners[e]) \in Seq(Listener)
  BY <1>1, CloseListenIs
<1>3. Listen(listeners[e], how) \in Seq(Listener)
  BY <1>1, ListenIs
<1> QED
  BY <1>1, <1>2, <1>3 DEF Listeners

LEMMA FactoriesTyped ==
    ASSUME ListenersTyped, NEW fs, SetFactories(fs)
    PROVE  ListenersTyped'
<1> DEFINE opened == {e \in Addr : factories[e] = {} /\ fs[e] # {}}
<1>1. PICK how \in [opened -> Opening] :
        /\ listeners' = [e \in Addr |-> Listeners(e, fs[e], how[e])]
        /\ unopened' = {e \in unopened : fs[e] # {}} \cup {e \in opened : how[e] = "failed"}
  BY DEF SetFactories
<1>2. \A e \in Addr : listeners'[e] \in Seq(Listener)
  BY <1>1, ListenersTypedOK
<1> QED
  BY <1>1, <1>2 DEF ListenersTyped

\* A listener is deleted.
LEMMA RemoveIsSeq ==
    ASSUME NEW s \in Seq(Listener), NEW i \in DOMAIN s
    PROVE  /\ SubSeq(s, 1, i - 1) \o SubSeq(s, i + 1, Len(s)) \in Seq(Listener)
           /\ Len(s) = 1 => SubSeq(s, 1, i - 1) \o SubSeq(s, i + 1, Len(s)) = <<>>
<1>1. PICK k \in Nat : k = Len(s) /\ DOMAIN s = 1 .. k /\ \A j \in 1 .. k : s[j] \in Listener
  OBVIOUS
<1>2. i \in 1 .. k /\ i - 1 \in Int /\ i + 1 \in Int /\ 1 \in Int /\ k \in Int
  BY <1>1
<1>3. SubSeq(s, 1, i - 1) \in Seq(Listener)
      /\ Len(SubSeq(s, 1, i - 1)) = IF 1 <= i - 1 THEN i - 1 - 1 + 1 ELSE 0
  <2>1. \A j \in 1 .. i - 1 : s[j] \in Listener
    BY <1>1, <1>2
  <2> QED
    BY <1>2, <2>1, SubSeqProperties
<1>4. SubSeq(s, i + 1, k) \in Seq(Listener)
      /\ Len(SubSeq(s, i + 1, k)) = IF i + 1 <= k THEN k - (i + 1) + 1 ELSE 0
  <2>1. \A j \in i + 1 .. k : s[j] \in Listener
    BY <1>1, <1>2
  <2> QED
    BY <1>2, <2>1, SubSeqProperties
<1>5. ASSUME k = 1 PROVE SubSeq(s, 1, i - 1) = <<>> /\ SubSeq(s, i + 1, k) = <<>>
  <2>1. Len(SubSeq(s, 1, i - 1)) = 0 /\ Len(SubSeq(s, i + 1, k)) = 0
    BY <1>2, <1>3, <1>4, <1>5
  <2> QED
    BY <1>3, <1>4, <2>1, EmptySeq
<1> QED
  BY <1>1, <1>3, <1>4, <1>5, ConcatEmptySeq

\* AcceptEx fails, or not.
LEMMA AcceptFails ==
    ASSUME ListenersTyped, NEW e \in Addr, NEW c, AcceptDone(e, c)
    PROVE  /\ ListenersTyped'
           /\ ListenersOK /\ factories' = factories => ListenersOK'
<1>0. unopened' = unopened
  BY DEF AcceptDone
<1>1. PICK i \in DOMAIN listeners[e] :
        /\ listeners[e][i].open /\ listeners[e][i].accepting
        /\ \/ UNCHANGED listeners
           \/ listeners' = [listeners EXCEPT ![e][i].open = FALSE, ![e][i].accepting = FALSE]
  BY DEF AcceptDone
<1>2. CASE UNCHANGED listeners
  BY <1>0, <1>2 DEF ListenersTyped, ListenersOK, Opened
<1>3. CASE listeners' = [listeners EXCEPT ![e][i].open = FALSE, ![e][i].accepting = FALSE]
  <2> DEFINE y == [listeners[e][i] EXCEPT !.open = FALSE, !.accepting = FALSE]
             s == [listeners[e] EXCEPT ![i] = y]
  <2>1. listeners[e] \in Seq(Listener) /\ listeners[e][i] \in Listener
    BY DEF ListenersTyped
  <2>2. y \in Listener /\ ~y.open /\ ~y.accepting
    BY <2>1 DEF Listener
  <2>3. listeners' = [listeners EXCEPT ![e] = s]
    BY <1>3, <2>1 DEF ListenersTyped
  <2> HIDE DEF y
  <2>4. s \in Seq(Listener)
    BY <2>1, <2>2
  <2>5. \A x \in Listener : listeners[e] = <<x>> => s = <<y>>
    OBVIOUS
  <2> HIDE DEF s
  <2>6. ListenersTyped'
    BY <1>0, <2>3, <2>4 DEF ListenersTyped
  <2>7. ASSUME ListenersOK, factories' = factories, NEW a \in Addr
        PROVE  Shape(listeners'[a], Opened(a))
    <3>1. CASE a # e
      BY <2>3, <2>7, <3>1 DEF ListenersOK, ListenersTyped
    <3>2. CASE a = e
      <4>1. PICK x \in Listener : listeners[e] = <<x>>
        BY <2>1, <2>7 DEF ListenersOK, Shape
      <4>2. listeners'[e] = <<y>>
        BY <2>3, <2>5, <4>1 DEF ListenersTyped
      <4> QED
        BY <2>2, <3>2, <4>2 DEF Shape
    <3> QED
      BY <3>1, <3>2
  <2> QED
    BY <1>0, <2>6, <2>7 DEF ListenersOK, Opened
<1> QED
  BY <1>1, <1>2, <1>3

LEMMA AcceptMgrInit ==
    ASSUME Init
    PROVE  RestTyped /\ ListenersTyped /\ FactoriesOK /\ LinksOK /\ ListenersOK
<1>1. RestTyped
  BY FreeOK DEF Init, RestTyped, MgrsTyped
<1>2. ListenersTyped
  BY DEF Init, ListenersTyped
<1>3. FactoriesOK
  BY DEF Init, FactoriesOK, Wants
<1>4. LinksOK
  BY FreeOK DEF Init, LinksOK
<1>5. ListenersOK
  BY DEF Init, ListenersOK, Opened, Shape
<1> QED
  BY <1>1, <1>2, <1>3, <1>4, <1>5

\* An address keeps its shape when managers come and go, if it is not opened
\* again before the last listener is gone.
LEMMA ListenersShape ==
    ASSUME NEW e \in Addr, NEW fs, NEW how, ListenersTyped, ListenersOK,
           factories[e] = {} /\ fs # {} => listeners[e] = <<>> /\ how \in Opening
    PROVE  Shape(Listeners(e, fs, how),
                 fs # {} /\ IF factories[e] = {} THEN how # "failed" ELSE e \notin unopened)
<1>1. listeners[e] \in Seq(Listener) /\ Shape(listeners[e], Opened(e))
  BY DEF ListenersTyped, ListenersOK
<1>2. CASE factories[e] = {} /\ fs # {}
  <2>1. Listeners(e, fs, how) = Listen(<<>>, how)
    BY <1>2 DEF Listeners
  <2>2. Listen(<<>>, how) = CASE how = "open" -> <<NewListener>>
                              [] how = "dead" -> <<DeadListener>>
                              [] OTHER -> <<>>
    BY <1>1, <1>2, ListenIs
  <2> QED
    BY <1>2, <2>1, <2>2, NewListenerIs DEF Shape, Opening
<1>3. CASE factories[e] # {} /\ fs = {}
  <2>1. Listeners(e, fs, how) = CloseListen(listeners[e])
    BY <1>3 DEF Listeners
  <2>2. CASE listeners[e] = <<>>
    <3>1. CloseListen(listeners[e]) = <<>>
      BY <2>2 DEF CloseListen
    <3> QED
      BY <1>3, <2>1, <3>1 DEF Shape
  <2>3. ASSUME NEW x \in Listener, listeners[e] = <<x>>,
               (~x.open /\ ~x.accepting) \/ x.accepting
        PROVE  Shape(CloseListen(listeners[e]), FALSE)
    <3> DEFINE y == [x EXCEPT !.open = FALSE, !.stop = TRUE]
    <3>1. y \in Listener /\ ~y.open /\ y.stop /\ y.accepting = x.accepting
      BY DEF Listener
    <3>2. CloseListen(listeners[e]) = <<y>>
      BY <1>1, <2>3, CloseListenIs
    <3> HIDE DEF y
    <3>3. y.accepting \in BOOLEAN
      BY <3>1 DEF Listener
    <3>4. (~y.open /\ ~y.accepting) \/ (~y.open /\ y.stop /\ y.accepting)
      BY <2>3, <3>1, <3>3
    <3> QED
      BY <3>1, <3>2, <3>4 DEF Shape
  <2> QED
    BY <1>1, <1>3, <2>1, <2>2, <2>3 DEF Shape
<1>4. CASE (factories[e] = {}) = (fs = {})
  <2>1. Listeners(e, fs, how) = listeners[e]
    BY <1>4 DEF Listeners
  <2> QED
    BY <1>1, <1>4, <2>1 DEF Shape, Opened
<1> QED
  BY <1>2, <1>3, <1>4

-----------------------------------------------------------------------------
(* Managers and connections.                                               *)

\* Who listens where, when the addresses of a running manager change.
SetFactoriesOf(m, A) ==
    [e \in Addr |-> CASE e \in A \ addrs[m] -> factories[e] \cup {m}
                      [] e \in addrs[m] \ A -> factories[e] \ {m}
                      [] OTHER -> factories[e]]

LEMMA SetAddressesFactories ==
    ASSUME MgrsTyped, FactoriesOK, "late" \notin Habits,
           NEW m \in Mgr, NEW A \in SUBSET Addr, SetAddresses(m, A)
    PROVE  /\ FactoriesOK' /\ addrs' \in [Mgr -> SUBSET Addr]
           /\ factories' \in [Addr -> SUBSET Mgr]
           /\ "relisten" \notin Habits =>
                \A e \in Addr : factories[e] = {} /\ factories'[e] # {} => listeners[e] = <<>>
<1>1. /\ mgr[m] = "running" /\ mgr' = mgr /\ addrs' = [addrs EXCEPT ![m] = A]
      /\ factories' = SetFactoriesOf(m, A)
      /\ "relisten" \notin Habits =>
            \A e \in A \ addrs[m] : factories[e] = {} => listeners[e] = <<>>
  BY DEF SetAddresses, SetFactories, SetFactoriesOf
<1>2. \A e \in Addr : factories'[e] = IF e \in A \ addrs[m] THEN factories[e] \cup {m}
                                     ELSE IF e \in addrs[m] \ A THEN factories[e] \ {m}
                                     ELSE factories[e]
  BY <1>1 DEF SetFactoriesOf
<1>3. factories' \in [Addr -> SUBSET Mgr]
  <2>1. \A e \in Addr : factories'[e] \in SUBSET Mgr
    BY <1>2 DEF RestTyped, MgrsTyped
  <2>2. factories' = [e \in Addr |-> factories'[e]]
    BY <1>1 DEF SetFactoriesOf
  <2> QED
    BY <2>1, <2>2
<1>4. addrs' \in [Mgr -> SUBSET Addr] /\ addrs'[m] = A
      /\ \A n \in Mgr : n # m => addrs'[n] = addrs[n]
  BY <1>1 DEF RestTyped, MgrsTyped
<1>5. ASSUME NEW e \in Addr, NEW n \in Mgr
      PROVE  n \in factories'[e] <=> Wants(n, e)'
  <2>1. n \in factories[e] <=> Wants(n, e)
    BY DEF FactoriesOK
  <2>2. CASE n = m
    BY <1>1, <1>2, <1>4, <2>1, <2>2 DEF Wants
  <2>3. CASE n # m
    <3>1. n \in factories'[e] <=> n \in factories[e]
      BY <1>2, <2>3
    <3>2. Wants(n, e)' <=> Wants(n, e)
      BY <1>1, <1>4, <2>3 DEF Wants
    <3> QED
      BY <2>1, <3>1, <3>2
  <2> QED
    BY <2>2, <2>3
<1>6. ASSUME "relisten" \notin Habits, NEW e \in Addr, factories[e] = {}, factories'[e] # {}
      PROVE  listeners[e] = <<>>
  BY <1>1, <1>2, <1>6
<1> QED
  BY <1>3, <1>4, <1>5, <1>6 DEF FactoriesOK

LEMMA StopManagerFactories ==
    ASSUME MgrsTyped, FactoriesOK, NEW m \in Mgr, StopManager(m)
    PROVE  /\ FactoriesOK' /\ factories' \in [Addr -> SUBSET Mgr]
           /\ mgr' \in [Mgr -> {"running", "stopping", "gone"}]
           /\ \A e \in Addr : factories[e] = {} => factories'[e] = {}
<1>1. /\ mgr[m] # "gone" /\ addrs' = addrs
      /\ mgr' = [mgr EXCEPT ![m] = IF \E c \in Link : link[c].listed /\ link[c].owner = m
                                 THEN "stopping" ELSE "gone"]
      /\ \/ mgr[m] = "running" /\ factories' = [e \in Addr |-> factories[e] \ {m}]
         \/ mgr[m] # "running" /\ factories' = factories
  BY DEF StopManager, SetFactories
<1>2. mgr' \in [Mgr -> {"running", "stopping", "gone"}] /\ mgr'[m] # "running"
      /\ \A n \in Mgr : n # m => mgr'[n] = mgr[n]
  BY <1>1 DEF RestTyped, MgrsTyped
<1>3. \A e \in Addr : factories'[e] = IF mgr[m] = "running" THEN factories[e] \ {m}
                                     ELSE factories[e]
  BY <1>1
<1>4. factories' \in [Addr -> SUBSET Mgr]
  BY <1>1 DEF RestTyped, MgrsTyped
<1>5. ASSUME NEW e \in Addr, NEW n \in Mgr
      PROVE  n \in factories'[e] <=> Wants(n, e)'
  <2>1. n \in factories[e] <=> Wants(n, e)
    BY DEF FactoriesOK
  <2>2. CASE n = m
    BY <1>1, <1>2, <1>3, <2>1, <2>2 DEF Wants
  <2>3. CASE n # m
    BY <1>1, <1>2, <1>3, <2>1, <2>3 DEF Wants
  <2> QED
    BY <2>2, <2>3
<1> QED
  BY <1>2, <1>3, <1>4, <1>5 DEF FactoriesOK

\* A handler of one connection.
LEMMA LinkBecomes ==
    ASSUME RestTyped, LinksOK, NEW c \in Link, NEW l \in LinkState, LinkOK(l),
           l.owner # None => mgr[l.owner] # "gone",
           link' = [link EXCEPT ![c] = l], mgr' = mgr
    PROVE  LinksOK' /\ link' \in [Link -> LinkState]
<1>1. link' \in [Link -> LinkState] /\ link'[c] = l
      /\ \A b \in Link : b # c => link'[b] = link[b]
  BY DEF RestTyped, MgrsTyped
<1>2. ASSUME NEW b \in Link
      PROVE  LinkOK(link'[b]) /\ (link'[b].owner # None => mgr[link'[b].owner] # "gone")
  BY <1>1 DEF LinksOK
<1> QED
  BY <1>1, <1>2 DEF LinksOK

LEMMA SocketLinks ==
    ASSUME AcceptMgrAssumption, "refuse" \notin Habits, RestTyped, FactoriesOK, LinksOK,
           NEW c \in Link, Socket(c)
    PROVE  LinksOK' /\ link' \in [Link -> LinkState]
<1>1. PICK l : /\ Becomes(c, l)
               /\ \/ /\ link[c].state \in {"active", "closing"}
                     /\ link[c].unmatched \/ link[c].owner # None
                     /\ l \in AfterData(link[c])
                  \/ /\ link[c].unmatched
                     /\ l = Disconnect([link[c] EXCEPT !.unmatched = FALSE])
                  \/ link[c].listed /\ l = Disconnect(link[c])
                  \/ link[c].state = "active" /\ l = [link[c] EXCEPT !.state = "closing"]
                  \/ /\ link[c].state = "closing"
                     /\ l = [link[c] EXCEPT !.state = "closed", !.unmatched = FALSE]
                  \/ l = Free
  BY DEF Socket, Read, Rejected, Inactive, PeerCloses, Disconnected, Destroyed
<1>2. link' = [link EXCEPT ![c] = l] /\ mgr' = mgr
  BY <1>1 DEF Becomes
<1> DEFINE k == link[c]
<1>3. k \in LinkState /\ LinkOK(k) /\ (k.owner # None => mgr[k.owner] # "gone")
  BY DEF LinksOK, RestTyped, MgrsTyped
<1> HIDE DEF k
<1>4. CASE /\ k.state \in {"active", "closing"} /\ (k.unmatched \/ k.owner # None)
           /\ l \in AfterData(k)
  <2>1. CASE k.unmatched
    <3>0. PICK r \in [m : factories[k.at], accepted : {TRUE}] :
            l = [k EXCEPT !.unmatched = FALSE, !.owner = r.m, !.listed = r.accepted]
      BY <1>4, <2>1 DEF AfterData
    <3> DEFINE m == r.m
    <3>1. m \in factories[k.at] /\ l = [k EXCEPT !.unmatched = FALSE, !.owner = m, !.listed = TRUE]
      BY <3>0
    <3> HIDE DEF m
    <3>2. k.at \in Addr
      BY <1>3, <2>1 DEF LinkOK
    <3>3. m \in Mgr /\ mgr[m] = "running"
      BY <3>1, <3>2 DEF RestTyped, MgrsTyped, FactoriesOK, Wants
    <3>4. /\ l \in LinkState /\ l.unmatched = FALSE /\ l.owner = m /\ l.listed = TRUE
          /\ l.state = k.state /\ l.open = k.open
      BY <1>3, <3>1, <3>3 DEF LinkState
    <3>7. LinkOK(l)
      BY <1>3, <3>3, <3>4 DEF LinkOK, AcceptMgrAssumption
    <3> QED
      BY <1>2, <3>3, <3>4, <3>7, LinkBecomes
  <2>2. CASE ~k.unmatched
    <3>1. l = [k EXCEPT !.listed = TRUE] /\ k.owner # None
      BY <1>4, <2>2 DEF AfterData
    <3>2. /\ l \in LinkState /\ l.unmatched = k.unmatched /\ l.owner = k.owner
          /\ l.listed = TRUE /\ l.state = k.state /\ l.open = k.open
      BY <1>3, <3>1 DEF LinkState
    <3>3. LinkOK(l)
      BY <1>3, <2>2, <3>1, <3>2 DEF LinkOK
    <3> QED
      BY <1>2, <1>3, <3>2, <3>3, LinkBecomes
  <2> QED
    BY <2>1, <2>2
<1>5. CASE k.unmatched /\ l = Disconnect([k EXCEPT !.unmatched = FALSE])
  <2> DEFINE j == [k EXCEPT !.unmatched = FALSE]
  <2>1. /\ j \in LinkState /\ j.unmatched = FALSE /\ j.state = k.state /\ j.open = k.open
        /\ j.owner = k.owner /\ j.listed = k.listed
    BY <1>3 DEF LinkState
  <2> HIDE DEF j
  <2>2. /\ Disconnect(j) \in LinkState /\ (j.open => Disconnect(j).state # "active")
        /\ (~j.open => Disconnect(j) = j)
        /\ Disconnect(j).unmatched = FALSE
        /\ Disconnect(j).owner = k.owner /\ Disconnect(j).listed = k.listed
    BY <2>1, DisconnectIs
  <2>3. l = Disconnect(j)
    BY <1>5 DEF j
  <2>4. l.state # "active"
    BY <1>3, <2>1, <2>2, <2>3 DEF LinkOK
  <2>5. LinkOK(l)
    BY <1>3, <1>5, <2>2, <2>3, <2>4 DEF LinkOK
  <2> QED
    BY <1>2, <1>3, <2>2, <2>3, <2>5, LinkBecomes
<1>6. CASE k.listed /\ l = Disconnect(k)
  <2>1. l \in LinkState /\ LinkOK(l) /\ l.owner = k.owner
    BY <1>3, <1>6, DisconnectOK
  <2> QED
    BY <1>2, <1>3, <2>1, LinkBecomes
<1>7. CASE k.state = "active" /\ l = [k EXCEPT !.state = "closing"]
  <2>1. /\ l \in LinkState /\ l.state = "closing" /\ l.unmatched = k.unmatched
        /\ l.at = k.at /\ l.owner = k.owner /\ l.listed = k.listed
    BY <1>3, <1>7 DEF LinkState
  <2>2. LinkOK(l)
    BY <1>3, <2>1 DEF LinkOK
  <2> QED
    BY <1>2, <1>3, <2>1, <2>2, LinkBecomes
<1>8. CASE k.state = "closing" /\ l = [k EXCEPT !.state = "closed", !.unmatched = FALSE]
  <2>1. /\ l \in LinkState /\ l.state = "closed" /\ l.unmatched = FALSE
        /\ l.owner = k.owner /\ l.listed = k.listed
    BY <1>3, <1>8 DEF LinkState
  <2>2. LinkOK(l)
    BY <1>3, <2>1 DEF LinkOK
  <2> QED
    BY <1>2, <1>3, <2>1, <2>2, LinkBecomes
<1>9. CASE l = Free
  BY <1>2, <1>9, FreeOK, LinkBecomes
<1> QED
  BY <1>1, <1>4, <1>5, <1>6, <1>7, <1>8, <1>9 DEF k

\* Several connections are disconnected at once.
LEMMA SomeDisconnected ==
    ASSUME RestTyped, LinksOK, NEW f, link' = [c \in Link |-> f[c]],
           \A c \in Link : f[c] \in {Disconnect(link[c]), link[c]}
    PROVE  link' \in [Link -> LinkState]
           /\ \A c \in Link : LinkOK(link'[c]) /\ link'[c].owner = link[c].owner
                              /\ link'[c].listed = link[c].listed
<1>1. ASSUME NEW c \in Link
      PROVE  /\ link'[c] \in LinkState /\ LinkOK(link'[c])
             /\ link'[c].owner = link[c].owner /\ link'[c].listed = link[c].listed
  <2>1. link[c] \in LinkState /\ LinkOK(link[c])
    BY DEF RestTyped, MgrsTyped, LinksOK
  <2>2. link'[c] = Disconnect(link[c]) \/ link'[c] = link[c]
    OBVIOUS
  <2> QED
    BY <2>1, <2>2, DisconnectOK
<1> QED
  BY <1>1

-----------------------------------------------------------------------------
(* The connections are watched.                                            *)

LEMMA LinksStep ==
    ASSUME AcceptMgrAssumption, "late" \notin Habits, "refuse" \notin Habits,
           LinksIInv, [Next]_vars
    PROVE  LinksIInv'
<1>1. RestTyped /\ ListenersTyped /\ FactoriesOK /\ LinksOK
  BY DEF LinksIInv
<1>2. ASSUME NEW m \in Mgr, NEW A \in SUBSET Addr, SetAddresses(m, A)
      PROVE  LinksIInv'
  <2>1. FactoriesOK' /\ addrs' \in [Mgr -> SUBSET Addr] /\ factories' \in [Addr -> SUBSET Mgr]
    BY <1>1, <1>2, SetAddressesFactories DEF RestTyped
  <2>2. UNCHANGED <<phase, mgr, link>>
    BY <1>2 DEF SetAddresses
  <2>3. ListenersTyped'
    BY <1>1, <1>2, FactoriesTyped DEF SetAddresses
  <2>4. LinksOK'
    BY <1>1, <2>2 DEF LinksOK
  <2>5. RestTyped'
    BY <1>1, <2>1, <2>2 DEF RestTyped, MgrsTyped
  <2> QED
    BY <2>1, <2>3, <2>4, <2>5 DEF LinksIInv
<1>3. ASSUME NEW e \in Addr, AcceptEnds(e)
      PROVE  LinksIInv'
  <2>1. PICK i \in DOMAIN listeners[e] :
          listeners' = [listeners EXCEPT ![e] = SubSeq(@, 1, i - 1) \o SubSeq(@, i + 1, Len(@))]
    BY <1>3 DEF AcceptEnds
  <2>2. UNCHANGED <<phase, mgr, addrs, factories, unopened, link>>
    BY <1>3 DEF AcceptEnds
  <2>3. SubSeq(listeners[e], 1, i - 1) \o SubSeq(listeners[e], i + 1, Len(listeners[e]))
          \in Seq(Listener)
    BY <1>1, RemoveIsSeq DEF ListenersTyped
  <2>4. ListenersTyped'
    BY <1>1, <2>1, <2>2, <2>3 DEF ListenersTyped
  <2> QED
    BY <1>1, <2>2, <2>4 DEF LinksIInv, RestTyped, MgrsTyped, FactoriesOK, Wants, LinksOK
<1>4. ASSUME NEW e \in Addr, NEW c \in Link, AcceptDone(e, c)
      PROVE  LinksIInv'
  <2> DEFINE l == [Free EXCEPT !.state = "active", !.open = TRUE, !.at = e, !.unmatched = TRUE]
  <2>1. /\ link' = [link EXCEPT ![c] = l]
        /\ UNCHANGED <<phase, mgr, addrs, factories>>
    BY <1>4 DEF AcceptDone
  <2>2. l \in LinkState /\ LinkOK(l) /\ l.owner = None
    BY DEF Free, LinkState, LinkOK
  <2> HIDE DEF l
  <2>3. LinksOK' /\ link' \in [Link -> LinkState]
    BY <1>1, <2>1, <2>2, LinkBecomes
  <2>4. ListenersTyped'
    BY <1>1, <1>4, AcceptFails DEF AcceptDone
  <2>5. FactoriesOK' /\ RestTyped'
    BY <1>1, <2>1, <2>3 DEF FactoriesOK, Wants, RestTyped, MgrsTyped
  <2> QED
    BY <2>3, <2>4, <2>5 DEF LinksIInv
<1>5. ASSUME NEW c \in Link, Socket(c)
      PROVE  LinksIInv'
  <2>1. LinksOK' /\ link' \in [Link -> LinkState]
    BY <1>1, <1>5, SocketLinks
  <2>2. UNCHANGED <<phase, mgr, addrs, factories, listeners, unopened>>
    BY <1>5 DEF Socket, Read, Rejected, Inactive, PeerCloses, Disconnected, Destroyed, Becomes
  <2> QED
    BY <1>1, <2>1, <2>2 DEF LinksIInv, RestTyped, MgrsTyped, ListenersTyped, FactoriesOK, Wants
<1>6. CASE BeginShutdown \/ ConsoleEnds
  <2>1. phase' \in {"client", "done"} /\ UNCHANGED <<mgr, addrs, factories, listeners, unopened, link>>
    BY <1>6 DEF BeginShutdown, ConsoleEnds
  <2> QED
    BY <1>1, <2>1 DEF LinksIInv, RestTyped, MgrsTyped, ListenersTyped, FactoriesOK, Wants, LinksOK
<1>7. ASSUME NEW m \in Mgr, StopManager(m)
      PROVE  LinksIInv'
  <2>1. FactoriesOK' /\ factories' \in [Addr -> SUBSET Mgr]
        /\ mgr' \in [Mgr -> {"running", "stopping", "gone"}]
    BY <1>1, <1>7, StopManagerFactories DEF RestTyped
  <2>2. /\ UNCHANGED <<phase, addrs>>
        /\ (\E fs : SetFactories(fs)) \/ UNCHANGED <<listeners, unopened>>
    BY <1>7 DEF StopManager
  <2>3. ListenersTyped'
    BY <1>1, <2>2, FactoriesTyped DEF ListenersTyped
  <2>4. /\ link' \in [Link -> LinkState]
        /\ \A c \in Link : LinkOK(link'[c]) /\ link'[c].owner = link[c].owner
                           /\ link'[c].listed = link[c].listed
    <3>1. CASE link' = link
      BY <1>1, <3>1 DEF RestTyped, MgrsTyped, LinksOK
    <3>2. CASE link' = [c \in Link |-> IF link[c].listed /\ link[c].owner = m
                                      THEN Disconnect(link[c]) ELSE link[c]]
      <4> DEFINE f == [c \in Link |-> IF link[c].listed /\ link[c].owner = m
                                     THEN Disconnect(link[c]) ELSE link[c]]
      <4>1. link' = [c \in Link |-> f[c]] /\ \A c \in Link : f[c] \in {Disconnect(link[c]), link[c]}
        BY <3>2
      <4> HIDE DEF f
      <4> QED
        BY <1>1, <4>1, SomeDisconnected
    <3> QED
      BY <1>7, <3>1, <3>2 DEF StopManager
  <2>5. mgr' = [mgr EXCEPT ![m] = IF \E c \in Link : link[c].listed /\ link[c].owner = m
                                 THEN "stopping" ELSE "gone"]
    BY <1>7 DEF StopManager
  <2>6. ASSUME NEW c \in Link, link[c].owner # None
        PROVE  mgr'[link[c].owner] # "gone"
    <3>1. link[c].owner \in Mgr /\ link[c].listed /\ mgr[link[c].owner] # "gone"
      BY <1>1, <2>6 DEF RestTyped, MgrsTyped, LinkState, LinksOK, LinkOK
    <3>2. CASE link[c].owner = m
      BY <1>1, <2>5, <3>1, <3>2 DEF RestTyped, MgrsTyped
    <3>3. CASE link[c].owner # m
      BY <1>1, <2>5, <3>1, <3>3 DEF RestTyped, MgrsTyped
    <3> QED
      BY <3>2, <3>3
  <2>7. LinksOK'
    BY <2>4, <2>6 DEF LinksOK
  <2>8. RestTyped'
    BY <1>1, <2>1, <2>2, <2>4 DEF RestTyped, MgrsTyped
  <2> QED
    BY <2>1, <2>3, <2>7, <2>8 DEF LinksIInv
<1>8. CASE EnterConsole
  <2> DEFINE f == [c \in Link |-> IF link[c].unmatched THEN Disconnect(link[c]) ELSE link[c]]
  <2>1. /\ link' = [c \in Link |-> f[c]] /\ phase' = "console"
        /\ \A c \in Link : f[c] \in {Disconnect(link[c]), link[c]}
        /\ UNCHANGED <<mgr, addrs, factories, listeners, unopened>>
    BY <1>8 DEF EnterConsole
  <2> HIDE DEF f
  <2>2. /\ link' \in [Link -> LinkState]
        /\ \A c \in Link : LinkOK(link'[c]) /\ link'[c].owner = link[c].owner
                           /\ link'[c].listed = link[c].listed
    BY <1>1, <2>1, SomeDisconnected
  <2>3. LinksOK'
    BY <1>1, <2>1, <2>2 DEF LinksOK
  <2> QED
    BY <1>1, <2>1, <2>2, <2>3 DEF LinksIInv, RestTyped, MgrsTyped, ListenersTyped, FactoriesOK, Wants
<1>9. CASE UNCHANGED vars
  BY <1>1, <1>9 DEF vars, LinksIInv, RestTyped, MgrsTyped, ListenersTyped, FactoriesOK, Wants, LinksOK
<1> QED
  BY <1>2, <1>3, <1>4, <1>5, <1>6, <1>7, <1>8, <1>9 DEF Next

\* Where handlers accept every connection that is matched, and no manager gets
\* addresses after its shutdown: a connection nobody has closed is in exactly
\* one of the lists in which the timers and the shutdown find it, and its
\* manager exists as long as it does (sockmgracc.cpp, appsocket.cpp).
THEOREM AcceptLinksConsistent ==
    ASSUME "late" \notin Habits, "refuse" \notin Habits
    PROVE  Spec => []LinksConsistent
<1>1. Init => LinksIInv
  BY AcceptMgrInit DEF LinksIInv
<1>2. LinksIInv /\ [Next]_vars => LinksIInv'
  BY LinksStep, AcceptMgrAssumption
<1>3. LinksIInv => LinksConsistent
  BY DEF LinksIInv, LinksConsistent, TypeOK, RestTyped, MgrsTyped, ListenersTyped, LinksWatched, LinksOK, LinkOK
<1> QED
  BY <1>1, <1>2, <1>3, PTL DEF Spec

-----------------------------------------------------------------------------
(* The addresses are open.                                                 *)

\* All addresses keep their shape when the factories change.
LEMMA FactoriesShape ==
    ASSUME ListenersTyped, ListenersOK, NEW fs, SetFactories(fs),
           \A e \in Addr : factories[e] = {} /\ fs[e] # {} => listeners[e] = <<>>
    PROVE  ListenersTyped' /\ ListenersOK'
<1> DEFINE opened == {e \in Addr : factories[e] = {} /\ fs[e] # {}}
<1>1. PICK how \in [opened -> Opening] :
        /\ factories' = fs
        /\ listeners' = [e \in Addr |-> Listeners(e, fs[e], how[e])]
        /\ unopened' = {e \in unopened : fs[e] # {}} \cup {e \in opened : how[e] = "failed"}
  BY DEF SetFactories
<1>2. ASSUME NEW e \in Addr
      PROVE  Shape(listeners'[e], Opened(e)') /\ (e \in unopened' => factories'[e] # {})
  <2>1. Shape(Listeners(e, fs[e], how[e]),
              fs[e] # {} /\ IF factories[e] = {} THEN how[e] # "failed" ELSE e \notin unopened)
    BY <1>1, ListenersShape
  <2>2. e \in unopened' <=> /\ fs[e] # {}
                            /\ IF factories[e] = {} THEN how[e] = "failed" ELSE e \in unopened
    BY <1>1 DEF ListenersOK
  <2>3. Opened(e)' <=>
          fs[e] # {} /\ IF factories[e] = {} THEN how[e] # "failed" ELSE e \notin unopened
    BY <1>1, <2>2 DEF Opened
  <2>4. Shape(listeners'[e], Opened(e)')
    BY <1>1, <2>1, <2>3 DEF Shape
  <2> QED
    BY <1>1, <2>2, <2>4
<1>3. ListenersTyped'
  BY FactoriesTyped
<1> QED
  BY <1>2, <1>3 DEF ListenersOK

LEMMA AddrsStep ==
    ASSUME "late" \notin Habits, "relisten" \notin Habits, AddrsIInv, [Next]_vars
    PROVE  AddrsIInv'
<1>1. MgrsTyped /\ FactoriesOK /\ ListenersTyped /\ ListenersOK
  BY DEF AddrsIInv
<1>2. ASSUME NEW m \in Mgr, NEW A \in SUBSET Addr, SetAddresses(m, A)
      PROVE  AddrsIInv'
  <2>1. FactoriesOK' /\ addrs' \in [Mgr -> SUBSET Addr] /\ factories' \in [Addr -> SUBSET Mgr]
        /\ \A e \in Addr : factories[e] = {} /\ factories'[e] # {} => listeners[e] = <<>>
    BY <1>1, <1>2, SetAddressesFactories
  <2>2. PICK fs : SetFactories(fs)
    BY <1>2 DEF SetAddresses
  <2>3. factories' = fs /\ mgr' = mgr
    BY <1>2, <2>2 DEF SetAddresses, SetFactories
  <2>4. ListenersTyped' /\ ListenersOK'
    BY <1>1, <2>1, <2>2, <2>3, FactoriesShape
  <2> QED
    BY <1>1, <2>1, <2>3, <2>4 DEF AddrsIInv, MgrsTyped
<1>3. ASSUME NEW m \in Mgr, StopManager(m)
      PROVE  AddrsIInv'
  <2>1. FactoriesOK' /\ factories' \in [Addr -> SUBSET Mgr]
        /\ mgr' \in [Mgr -> {"running", "stopping", "gone"}]
        /\ \A e \in Addr : factories[e] = {} => factories'[e] = {}
    BY <1>1, <1>3, StopManagerFactories
  <2>2. /\ addrs' = addrs
        /\ (\E fs : SetFactories(fs)) \/ UNCHANGED <<listeners, unopened, factories>>
    BY <1>3 DEF StopManager
  <2>3. ListenersTyped' /\ ListenersOK'
    <3>1. ASSUME NEW fs, SetFactories(fs) PROVE ListenersTyped' /\ ListenersOK'
      <4>1. factories' = fs
        BY <3>1 DEF SetFactories
      <4> QED
        BY <1>1, <2>1, <3>1, <4>1, FactoriesShape
    <3>2. CASE UNCHANGED <<listeners, unopened, factories>>
      BY <1>1, <3>2 DEF ListenersTyped, ListenersOK, Opened
    <3> QED
      BY <2>2, <3>1, <3>2
  <2> QED
    BY <1>1, <2>1, <2>2, <2>3 DEF AddrsIInv, MgrsTyped
<1>4. ASSUME NEW e \in Addr, AcceptEnds(e)
      PROVE  AddrsIInv'
  <2> DEFINE s == listeners[e]
             t(i) == SubSeq(s, 1, i - 1) \o SubSeq(s, i + 1, Len(s))
  <2>1. PICK i \in DOMAIN s :
          s[i].accepting /\ ~s[i].open /\ listeners' = [listeners EXCEPT ![e] = t(i)]
    BY <1>4 DEF AcceptEnds
  <2>2. UNCHANGED <<mgr, addrs, factories, unopened>>
    BY <1>4 DEF AcceptEnds
  <2>3. s \in Seq(Listener) /\ Shape(s, Opened(e))
    BY <1>1 DEF ListenersTyped, ListenersOK
  <2>4. PICK x \in Listener :
          /\ s = <<x>>
          /\ \/ ~x.open /\ ~x.accepting
             \/ Opened(e) /\ x.open /\ x.accepting
             \/ ~Opened(e) /\ ~x.open /\ x.stop /\ x.accepting
    BY <2>1, <2>3 DEF Shape
  <2>5. i = 1 /\ s[i] = x /\ Len(s) = 1
    BY <2>1, <2>4
  <2>6. ~Opened(e)
    BY <2>1, <2>4, <2>5
  <2>7. t(i) \in Seq(Listener) /\ t(i) = <<>>
    BY <2>1, <2>3, <2>5, RemoveIsSeq
  <2> HIDE DEF s, t
  <2>8. ListenersTyped'
    BY <1>1, <2>1, <2>2, <2>7 DEF ListenersTyped
  <2>9. ASSUME NEW a \in Addr PROVE Shape(listeners'[a], Opened(a))
    <3>1. CASE a = e
      BY <1>1, <2>1, <2>6, <2>7, <3>1 DEF Shape, ListenersTyped
    <3>2. CASE a # e
      BY <1>1, <2>1, <3>2 DEF ListenersTyped, ListenersOK
    <3> QED
      BY <3>1, <3>2
  <2> QED
    BY <1>1, <2>2, <2>8, <2>9
    DEF AddrsIInv, MgrsTyped, FactoriesOK, Wants, ListenersOK, Opened
<1>5. ASSUME NEW e \in Addr, NEW c \in Link, AcceptDone(e, c)
      PROVE  AddrsIInv'
  <2>1. UNCHANGED <<mgr, addrs, factories>>
    BY <1>5 DEF AcceptDone
  <2>2. ListenersTyped' /\ ListenersOK'
    BY <1>1, <1>5, <2>1, AcceptFails
  <2> QED
    BY <1>1, <2>1, <2>2 DEF AddrsIInv, MgrsTyped, FactoriesOK, Wants
<1>6. CASE UNCHANGED <<mgr, addrs, factories, listeners, unopened>>
  BY <1>1, <1>6 DEF AddrsIInv, MgrsTyped, FactoriesOK, Wants, ListenersTyped, ListenersOK, Opened
<1>7. ASSUME NEW c \in Link, Socket(c)
      PROVE  UNCHANGED <<mgr, addrs, factories, listeners, unopened>>
  BY <1>7 DEF Socket, Read, Rejected, Inactive, PeerCloses, Disconnected, Destroyed, Becomes
<1>8. CASE BeginShutdown \/ EnterConsole \/ ConsoleEnds \/ UNCHANGED vars
  BY <1>6, <1>8 DEF BeginShutdown, EnterConsole, ConsoleEnds, vars
<1> QED
  BY <1>2, <1>3, <1>4, <1>5, <1>6, <1>7, <1>8 DEF Next

\* Where an address is not opened again before its old listener is gone, and no
\* manager gets addresses after its shutdown: an address is open exactly as long
\* as a running manager wants it, and what is left of a listener afterwards is
\* on its way out (appsocket.cpp, socketListen and socketCloseWait;
\* winsockacc.cpp).
THEOREM AcceptAddressesOpen ==
    ASSUME "late" \notin Habits, "relisten" \notin Habits
    PROVE  Spec => []AddressesOpen
<1>1. Init => AddrsIInv
  BY AcceptMgrInit DEF AddrsIInv, RestTyped
<1>2. AddrsIInv /\ [Next]_vars => AddrsIInv'
  BY AddrsStep
<1>3. AddrsIInv => AddressesOpen
  <2> SUFFICES ASSUME AddrsIInv PROVE AddressesOpen
    OBVIOUS
  <2> DEFINE opened(e) == {i \in DOMAIN listeners[e] : listeners[e][i].open}
             wanted(e) == \E m \in Mgr : mgr[m] = "running" /\ e \in addrs[m]
             served(e) == wanted(e) /\ e \notin unopened
  <2>1. ASSUME NEW e \in Addr
        PROVE  /\ Cardinality(opened(e)) = IF served(e) /\ ~Dead(e) THEN 1 ELSE 0
               /\ ~Dead(e) => \A i \in DOMAIN listeners[e] :
                    listeners[e][i].accepting /\ (i \in opened(e) \/ listeners[e][i].stop)
    <3>1. Opened(e) <=> served(e)
      BY DEF AddrsIInv, FactoriesOK, Wants, MgrsTyped, Opened
    <3>2. Shape(listeners[e], Opened(e))
      BY DEF AddrsIInv, ListenersOK
    <3>3. CASE listeners[e] = <<>> /\ ~Opened(e)
      <4>1. opened(e) = {}
        BY <3>3
      <4>2. Cardinality(opened(e)) = 0
        BY <4>1, FS_EmptySet
      <4> QED
        BY <3>1, <3>3, <4>2
    <3>4. ASSUME NEW x \in Listener, listeners[e] = <<x>>,
                 \/ ~x.open /\ ~x.accepting
                 \/ Opened(e) /\ x.open /\ x.accepting
                 \/ ~Opened(e) /\ ~x.open /\ x.stop /\ x.accepting
          PROVE  /\ Cardinality(opened(e)) = IF served(e) /\ ~Dead(e) THEN 1 ELSE 0
                 /\ ~Dead(e) => \A i \in DOMAIN listeners[e] :
                      listeners[e][i].accepting /\ (i \in opened(e) \/ listeners[e][i].stop)
      <4>1. DOMAIN listeners[e] = {1} /\ listeners[e][1] = x
        BY <3>4
      <4>2. Dead(e) <=> ~x.open /\ ~x.accepting
        BY <4>1 DEF Dead
      <4>3. opened(e) = IF x.open THEN {1} ELSE {}
        BY <4>1
      <4>4. Cardinality(opened(e)) = IF x.open THEN 1 ELSE 0
        <5> HIDE DEF opened
        <5>1. Cardinality({}) = 0
          BY FS_EmptySet
        <5>2. Cardinality({1}) = 1
          BY FS_Singleton
        <5> QED
          BY <4>3, <5>1, <5>2
      <4>5. x.open \in BOOLEAN /\ x.accepting \in BOOLEAN
        BY DEF Listener
      <4>6. (x.open <=> served(e) /\ ~Dead(e)) /\ (~Dead(e) => x.accepting)
        BY <3>1, <3>4, <4>2, <4>5
      <4>7. ASSUME ~Dead(e), NEW i \in DOMAIN listeners[e]
            PROVE  listeners[e][i].accepting /\ (i \in opened(e) \/ listeners[e][i].stop)
        BY <3>4, <4>1, <4>2, <4>3, <4>7
      <4> HIDE DEF opened, wanted, served
      <4> QED
        BY <4>4, <4>6, <4>7
    <3> HIDE DEF opened, wanted, served
    <3> QED
      BY <3>2, <3>3, <3>4 DEF Shape
  <2> QED
    BY <2>1 DEF AddressesOpen
<1> QED
  BY <1>1, <1>2, <1>3, PTL DEF Spec

-----------------------------------------------------------------------------
(***************************************************************************)
(* THE CONNECTING MANAGER                                                  *)
(***************************************************************************)
\* One socket by itself.
Good(s) ==
    /\ s \in Sock
    /\ s.mode \in {"absent", "unconnected"} <=> s.conn = "none"
    /\ s.mode = "connecting" <=> s.conn = "connecting"
    /\ s.mode = "connected" <=> s.conn \in {"active", "closing"}
    /\ s.mode = "absent" => s = Absent
    /\ s.mode = "unconnected" => s.recent /\ ~s.stopping

\* A socket that is there stays, and is not stopped, unless it was being
\* stopped.
Keeps(r, s) ==
    /\ r.stopping => s.mode = "absent" \/ s.stopping
    /\ ~r.stopping => s.mode # "absent" /\ ~s.stopping

LEMMA AllGood == ConnIInv => \A a \in Target : Good(sock[a])
  BY DEF ConnIInv, ConnTypeOK, SocketsSettled, Good

-----------------------------------------------------------------------------
(* The member functions.                                                   *)

\* Whether it fails or not, the socket is there and will be connected.
LEMMA ConnectGood ==
    ASSUME NEW s \in Sock, ~s.stopping, NEW fails \in BOOLEAN
    PROVE  Good(Connect(s, fails)) /\ ~Connect(s, fails).stopping
           /\ Connect(s, fails).mode \in {"connecting", "unconnected"}
<1>1. CASE fails
  BY <1>1 DEF Connect, Good, Sock, Mode, Conn
<1>2. CASE ~fails
  BY <1>2 DEF Connect, Good, Sock, Mode, Conn
<1> QED
  BY <1>1, <1>2

LEMMA AbsentGood == Good(Absent)
  BY DEF Good, Absent, Sock, Mode, Conn

LEMMA DestroyedGood ==
    ASSUME NEW s \in Sock, s.mode = "unconnected", s.conn = "none", NEW fails \in BOOLEAN
    PROVE  Good(SockDestroyed(s, fails)) /\ Keeps(s, SockDestroyed(s, fails))
<1>1. CASE s.stopping
  BY <1>1, AbsentGood DEF SockDestroyed, Keeps, Absent
<1>2. CASE ~s.stopping /\ s.recent
  BY <1>2 DEF SockDestroyed, Keeps, Good, Sock, Mode, Conn
<1>3. CASE ~s.stopping /\ ~s.recent
  <2>1. SockDestroyed(s, fails) = Connect(s, fails)
    BY <1>3 DEF SockDestroyed
  <2> QED
    BY <1>3, <2>1, ConnectGood DEF Keeps
<1> QED
  BY <1>1, <1>2, <1>3 DEF Sock

LEMMA DisconnectGood ==
    ASSUME NEW s, Good(s)
    PROVE  /\ Good(SockDisconnect(s)) /\ SockDisconnect(s).mode = s.mode
           /\ SockDisconnect(s).stopping = s.stopping
           /\ s.conn # "connecting" => SockDisconnect(s).conn # "connecting"
  BY DEF SockDisconnect, Good, Sock, Mode, Conn, Absent

LEMMA ShutDownGood ==
    ASSUME NEW s, Good(s)
    PROVE  /\ Good(ShutDown(s))
           /\ ShutDown(s).mode = "absent" \/ ShutDown(s).stopping
           /\ ShutDown(s).conn = "connecting" => s.conn = "connecting"
<1> DEFINE t == [s EXCEPT !.stopping = TRUE]
<1>1. CASE s.mode = "absent"
  BY <1>1 DEF ShutDown, Good
<1>2. CASE s.mode = "unconnected"
  <2>1. t \in Sock /\ t.mode = "unconnected" /\ t.conn = "none" /\ t.stopping
    BY <1>2 DEF Good, Sock
  <2>2. ShutDown(s) = Absent
    BY <1>2, <2>1 DEF ShutDown, SockDestroyed
  <2> QED
    BY <2>2, AbsentGood DEF Absent
<1>3. CASE s.mode \notin {"absent", "unconnected"}
  <2>1. Good(t) /\ t.stopping /\ t.conn = s.conn
    BY <1>3 DEF Good, Sock, Absent
  <2>2. ShutDown(s) = SockDisconnect(t)
    BY <1>3 DEF ShutDown
  <2> QED
    BY <2>1, <2>2, DisconnectGood
<1> QED
  BY <1>1, <1>2, <1>3

-----------------------------------------------------------------------------
(* The steps.                                                              *)

LEMMA InitHolds == ConnInit => ConnIInv
  BY AbsentGood DEF ConnInit, ConnIInv, ConnTypeOK, AddressesServed,
     SocketsSettled, Good, Absent

\* A step of one socket that is there keeps the invariant if the socket keeps
\* its place.
LEMMA OneSocket ==
    ASSUME ConnIInv, NEW a \in Target, NEW s, NEW fails \in BOOLEAN,
           SockBecomes(a, s) \/ SockConnects(a, s, fails), Good(s),
           Keeps(sock[a], s), sock[a].mode # "absent"
    PROVE  ConnIInv'
<1>1. /\ sock' \in [Target -> Sock] /\ sock'[a] = s
      /\ \A b \in Target \ {a} : sock'[b] = sock[b]
      /\ mgrMode' = mgrMode /\ targets' = targets /\ dangling' \in BOOLEAN
  BY DEF SockBecomes, SockConnects, ConnIInv, ConnTypeOK, Good
<1>2. \A b \in Target : Good(sock'[b])
  BY <1>1, AllGood
<1>3. ConnTypeOK'
  BY <1>1, <1>2 DEF ConnIInv, ConnTypeOK, Good
<1>4. AddressesServed'
  BY <1>1, <1>2 DEF ConnIInv, AddressesServed, Keeps, Good
<1>5. SocketsSettled'
  BY <1>1, <1>2 DEF ConnIInv, SocketsSettled, Keeps, Good
<1> QED
  BY <1>3, <1>4, <1>5 DEF ConnIInv

LEMMA HandlersHold ==
    ASSUME ConnIInv, NEW a \in Target, Handlers(a) PROVE ConnIInv'
<1>1. Good(sock[a]) /\ sock[a] \in Sock
  BY AllGood DEF ConnIInv, ConnTypeOK
<1>2. CASE OnConnect(a)
  <2> DEFINE s == [sock[a] EXCEPT !.mode = "connected", !.conn = "active"]
  <2>1. Good(s) /\ s.stopping = sock[a].stopping /\ s.mode = "connected"
        /\ sock[a].mode # "absent"
    BY <1>1, <1>2 DEF OnConnect, Good, Sock, Mode, Conn, Absent
  <2>2. SockBecomes(a, s) \/ SockBecomes(a, SockDisconnect(s))
    BY <1>2 DEF OnConnect
  <2>3. Good(SockDisconnect(s)) /\ SockDisconnect(s).stopping = s.stopping
        /\ SockDisconnect(s).mode = "connected"
    BY <2>1, DisconnectGood
  <2> HIDE DEF s
  <2> QED
    BY <2>1, <2>2, <2>3, OneSocket DEF Keeps
<1>3. CASE OnConnectFailed(a) \/ OnDestroy(a)
  <2> DEFINE s == [sock[a] EXCEPT !.mode = "unconnected", !.conn = "none"]
  <2>1. s \in Sock /\ s.mode = "unconnected" /\ s.conn = "none"
        /\ s.stopping = sock[a].stopping
    BY <1>1 DEF Sock, Mode, Conn
  <2>2. PICK fails \in BOOLEAN : SockConnects(a, SockDestroyed(s, fails), fails)
    BY <1>3 DEF OnConnectFailed, OnDestroy, ConnDeleted, Outcomes
  <2>3. sock[a].mode # "absent"
    BY <1>1, <1>3 DEF OnConnectFailed, OnDestroy, Good
  <2> HIDE DEF s
  <2>4. Good(SockDestroyed(s, fails)) /\ Keeps(sock[a], SockDestroyed(s, fails))
    BY <2>1, DestroyedGood DEF Keeps
  <2> QED
    BY <2>2, <2>3, <2>4, OneSocket
<1>4. CASE AppDisconnect(a)
  <2>1. SockBecomes(a, SockDisconnect(sock[a])) /\ sock[a].mode # "absent"
    BY <1>1, <1>4 DEF AppDisconnect, Good
  <2> QED
    BY <1>1, <2>1, DisconnectGood, OneSocket DEF Keeps
<1>5. CASE TargetCloses(a)
  <2> DEFINE s == [sock[a] EXCEPT !.conn = "closing"]
  <2>1. Good(s) /\ Keeps(sock[a], s) /\ sock[a].mode # "absent"
    BY <1>1, <1>5 DEF TargetCloses, Good, Keeps, Sock, Mode, Conn, Absent
  <2> QED
    BY <1>5, <2>1, OneSocket DEF TargetCloses
<1>6. CASE OnDisconnect(a)
  <2> DEFINE s == [sock[a] EXCEPT !.mode = "closing", !.conn = "closed"]
  <2>1. Good(s) /\ Keeps(sock[a], s) /\ sock[a].mode # "absent"
    BY <1>1, <1>6 DEF OnDisconnect, Good, Keeps, Sock, Mode, Conn, Absent
  <2> QED
    BY <1>6, <2>1, OneSocket DEF OnDisconnect
<1>7. CASE RecentTimer(a)
  <2>1. sock[a].mode # "absent"
    BY <1>1, <1>7 DEF RecentTimer, Good, Absent
  <2>2. CASE sock[a].mode = "unconnected"
    <3>1. PICK fails \in BOOLEAN : SockConnects(a, Connect(sock[a], fails), fails)
      BY <1>7, <2>2 DEF RecentTimer, Outcomes
    <3>2. ~sock[a].stopping
      BY <1>1, <2>2 DEF Good
    <3>3. Good(Connect(sock[a], fails)) /\ Keeps(sock[a], Connect(sock[a], fails))
      <4>1. Connect(sock[a], fails).mode # "absent" /\ ~Connect(sock[a], fails).stopping
        BY <1>1, <3>2, ConnectGood
      <4> QED
        BY <1>1, <3>2, <4>1, ConnectGood DEF Keeps
    <3> QED
      BY <2>1, <3>1, <3>3, OneSocket
  <2>3. CASE sock[a].mode # "unconnected"
    <3> DEFINE s == [sock[a] EXCEPT !.recent = FALSE]
    <3>1. Good(s) /\ Keeps(sock[a], s)
      BY <1>1, <2>1, <2>3 DEF Good, Keeps, Sock, Absent
    <3>2. SockConnects(a, s, FALSE)
      BY <1>7, <2>3 DEF RecentTimer, Outcomes
    <3> HIDE DEF s
    <3> QED
      BY <2>1, <3>1, <3>2, OneSocket
  <2> QED
    BY <2>2, <2>3
<1> QED
  BY <1>2, <1>3, <1>4, <1>5, <1>6, <1>7 DEF Handlers, ConnectEnds

\* An address that is new had no socket, one that is removed has its socket
\* stopped.
LEMMA SetTargetsHolds ==
    ASSUME ConnIInv, "readd" \notin ConnHabits, NEW A \in SUBSET Target,
           SetTargets(A)
    PROVE  ConnIInv'
<1>1. /\ mgrMode = "running" /\ mgrMode' = mgrMode /\ targets' = A
      /\ dangling' \in BOOLEAN
      /\ \A a \in A \ targets : sock[a].mode = "absent"
      /\ \A a \in Target :
            /\ a \in A \ targets => \E f \in BOOLEAN : sock'[a] = Connect(sock[a], f)
            /\ a \in targets \ A => sock'[a] = ShutDown(sock[a])
            /\ a \in A <=> a \in targets => sock'[a] = sock[a]
      /\ sock' = [a \in Target |-> sock'[a]]
  <2>1. PICK F \in SUBSET (A \ targets) :
          /\ sock' = [a \in Target |->
                CASE a \in A \ targets -> Connect(sock[a], a \in F)
                  [] a \in targets \ A -> ShutDown(sock[a])
                  [] OTHER -> sock[a]]
          /\ dangling' = (dangling \/ F # {})
    BY DEF SetTargets
  <2>2. dangling' \in BOOLEAN
    BY <2>1
  <2>3. \A a \in Target : a \in A \ targets => \E f \in BOOLEAN : sock'[a] = Connect(sock[a], f)
    <3> TAKE a \in Target
    <3> HAVE a \in A \ targets
    <3> DEFINE f == a \in F
    <3>1. f \in BOOLEAN /\ sock'[a] = Connect(sock[a], f)
      BY <2>1
    <3> HIDE DEF f
    <3> QED
      BY <3>1
  <2>4. \A a \in Target : /\ a \in targets \ A => sock'[a] = ShutDown(sock[a])
                         /\ a \in A <=> a \in targets => sock'[a] = sock[a]
    BY <2>1
  <2> QED
    BY <2>1, <2>2, <2>3, <2>4 DEF SetTargets
<1>2. \A a \in Target : a \in A \ targets =>
          /\ Good(sock'[a]) /\ sock'[a].mode \in {"connecting", "unconnected"}
          /\ ~sock'[a].stopping
  <2> TAKE a \in Target
  <2> HAVE a \in A \ targets
  <2>1. sock[a] \in Sock /\ ~sock[a].stopping
    BY <1>1, AllGood DEF Good, Absent
  <2> QED
    BY <1>1, <2>1, ConnectGood
<1>3. \A a \in Target : a \in targets \ A =>
          Good(sock'[a]) /\ (sock'[a].mode = "absent" \/ sock'[a].stopping)
  BY <1>1, AllGood, ShutDownGood
<1>4. \A a \in Target : Good(sock'[a])
  BY <1>1, <1>2, <1>3, AllGood
<1>5. ConnTypeOK'
  <2>1. sock' \in [Target -> Sock]
    BY <1>1, <1>4 DEF Good
  <2> QED
    BY <1>1, <1>4, <2>1 DEF ConnIInv, ConnTypeOK, Good
<1>6. AddressesServed'
  BY <1>1, <1>2, <1>3, <1>4 DEF ConnIInv, AddressesServed, Good
<1>7. SocketsSettled'
  BY <1>1, <1>4 DEF SocketsSettled, Good
<1> QED
  BY <1>5, <1>6, <1>7 DEF ConnIInv

\* The shutdown stops every socket the first time and none after that.
LEMMA ShutdownHolds ==
    ASSUME ConnIInv, ClientPhase \/ Erase \/ FailedTask PROVE ConnIInv'
<1>1. CASE Erase \/ FailedTask
  BY <1>1 DEF Erase, FailedTask, ConnIInv, ConnTypeOK, AddressesServed, SocketsSettled
<1>2. CASE ClientPhase
  <2>1. /\ mgrMode' \in {"stopped", "stopping"} /\ targets' = targets
        /\ dangling' = dangling
    BY <1>2 DEF ClientPhase, Shutdown
  <2>2. \A a \in Target : Good(sock'[a])
          /\ (sock'[a].mode = "absent" \/ sock'[a].stopping)
    <3>1. CASE mgrMode = "running"
      <4>1. sock' = [a \in Target |-> ShutDown(sock[a])]
        BY <1>2, <3>1 DEF ClientPhase, Shutdown
      <4> QED
        BY <4>1, AllGood, ShutDownGood
    <3>2. CASE mgrMode # "running"
      <4>1. sock' = sock
        BY <1>2, <3>2 DEF ClientPhase, Shutdown
      <4>2. mgrMode = "stopping"
        BY <1>2, <3>2 DEF ClientPhase
      <4> QED
        BY <4>1, <4>2, AllGood DEF ConnIInv, SocketsSettled
    <3> QED
      BY <3>1, <3>2
  <2>3. sock' \in [Target -> Sock]
    <3>1. sock' = [a \in Target |-> sock'[a]]
      BY <1>2 DEF ClientPhase, Shutdown, ConnIInv, ConnTypeOK
    <3> QED
      BY <2>2, <3>1 DEF Good
  <2>4. ConnTypeOK'
    BY <2>1, <2>2, <2>3 DEF ConnIInv, ConnTypeOK, Good
  <2>5. AddressesServed' /\ SocketsSettled'
    BY <2>1, <2>2 DEF AddressesServed, SocketsSettled, Good
  <2> QED
    BY <2>4, <2>5 DEF ConnIInv
<1> QED
  BY <1>1, <1>2

LEMMA StepHolds ==
    ASSUME "readd" \notin ConnHabits
    PROVE  ConnIInv /\ [ConnNext]_connVars => ConnIInv'
<1>1. ASSUME ConnIInv, UNCHANGED connVars PROVE ConnIInv'
  BY <1>1 DEF connVars, ConnIInv, ConnTypeOK, AddressesServed, SocketsSettled
<1> QED
  BY <1>1, HandlersHold, SetTargetsHolds, ShutdownHolds DEF ConnNext

-----------------------------------------------------------------------------
(* Attempts.                                                               *)

\* One handler, and the socket it is about.
LEMMA HandlerAttempts ==
    ASSUME ConnIInv, NEW a \in Target, Handlers(a)
    PROVE  AttemptAllowed(a) /\ \A b \in Target \ {a} : sock'[b] = sock[b]
<1>1. Good(sock[a]) /\ sock[a] \in Sock /\ sock \in [Target -> Sock]
      /\ (\/ mgrMode \in {"running", "broken"}
          \/ sock[a].mode = "absent" \/ sock[a].stopping)
  BY AllGood DEF ConnIInv, ConnTypeOK, SocketsSettled
<1>2. CASE OnConnectFailed(a) \/ OnDestroy(a)
  <2> DEFINE s == [sock[a] EXCEPT !.mode = "unconnected", !.conn = "none"]
  <2>1. s \in Sock /\ s.conn = "none" /\ s.stopping = sock[a].stopping
        /\ s.recent = sock[a].recent
    BY <1>1 DEF Sock, Mode, Conn
  <2>2. PICK fails \in BOOLEAN : SockConnects(a, SockDestroyed(s, fails), fails)
    BY <1>2 DEF OnConnectFailed, OnDestroy, ConnDeleted, Outcomes
  <2>3. sock[a].mode # "absent"
    BY <1>1, <1>2 DEF OnConnectFailed, OnDestroy, Good
  <2> HIDE DEF s
  <2>4. SockDestroyed(s, fails).conn = "connecting" => ~s.recent /\ ~s.stopping
          /\ SockDestroyed(s, fails).stopping = s.stopping
    BY <2>1 DEF SockDestroyed, Absent, Connect, Sock
  <2>5. /\ sock'[a] = SockDestroyed(s, fails) /\ mgrMode # "broken"
        /\ \A b \in Target \ {a} : sock'[b] = sock[b]
    BY <1>1, <2>2 DEF SockConnects, Running
  <2>6. sock'[a].conn = "connecting" => /\ ~sock[a].stopping /\ ~sock[a].recent
                                        /\ ~sock'[a].stopping
    BY <2>1, <2>4, <2>5
  <2>7. ~sock[a].stopping => mgrMode = "running"
    BY <1>1, <2>3, <2>5
  <2>8. AttemptAllowed(a)
    BY <2>6, <2>7 DEF AttemptAllowed
  <2> QED
    BY <2>5, <2>8
<1>3. CASE RecentTimer(a)
  <2>1. PICK fails \in BOOLEAN :
          SockConnects(a, IF sock[a].mode = "unconnected" THEN Connect(sock[a], fails)
                          ELSE [sock[a] EXCEPT !.recent = FALSE], fails)
    BY <1>3 DEF RecentTimer, Outcomes
  <2> QED
    BY <1>1, <2>1 DEF SockConnects, Running, AttemptAllowed, Connect, Good, Sock
<1>4. CASE OnConnect(a)
  BY <1>1, <1>4 DEF OnConnect, SockBecomes, AttemptAllowed, SockDisconnect, Sock
<1>5. CASE AppDisconnect(a) \/ TargetCloses(a) \/ OnDisconnect(a)
  BY <1>1, <1>5 DEF AppDisconnect, TargetCloses, OnDisconnect, SockBecomes,
     AttemptAllowed, SockDisconnect, Sock
<1> QED
  BY <1>2, <1>3, <1>4, <1>5 DEF Handlers, ConnectEnds

LEMMA StepAttempts ==
    ASSUME "readd" \notin ConnHabits, ConnIInv, [ConnNext]_connVars
    PROVE  \A a \in Target : AttemptAllowed(a)
<1> TAKE a \in Target
<1>1. CASE UNCHANGED connVars
  BY <1>1 DEF connVars, AttemptAllowed
<1>2. ASSUME NEW A \in SUBSET Target, SetTargets(A) PROVE AttemptAllowed(a)
  <2>0. PICK F \in SUBSET (A \ targets) :
          sock' = [b \in Target |->
                CASE b \in A \ targets -> Connect(sock[b], b \in F)
                  [] b \in targets \ A -> ShutDown(sock[b])
                  [] OTHER -> sock[b]]
    BY <1>2 DEF SetTargets
  <2> DEFINE f == a \in F
  <2>1. /\ mgrMode = "running" /\ (a \in A \ targets => sock[a].mode = "absent")
        /\ f \in BOOLEAN
        /\ a \in A \ targets => sock'[a] = Connect(sock[a], f)
        /\ a \in targets \ A => sock'[a] = ShutDown(sock[a])
        /\ (a \in A <=> a \in targets) => sock'[a] = sock[a]
    BY <1>2, <2>0 DEF SetTargets
  <2> HIDE DEF f
  <2>2. CASE a \in A \ targets
    <3>1. sock[a] = Absent /\ sock'[a] = Connect(Absent, f)
      BY <2>1, <2>2, AllGood DEF Good
    <3>2. ~Connect(Absent, f).stopping /\ ~Absent.recent
      BY DEF Connect, Absent
    <3>3. ~sock'[a].stopping /\ ~sock[a].recent
      BY <3>1, <3>2
    <3> QED
      BY <2>1, <3>3 DEF AttemptAllowed
  <2>3. CASE a \in targets \ A
    <3>1. sock'[a] = ShutDown(sock[a])
      BY <2>1, <2>3
    <3> QED
      BY <3>1, AllGood, ShutDownGood DEF AttemptAllowed
  <2>4. CASE a \in A <=> a \in targets
    BY <2>1, <2>4 DEF AttemptAllowed
  <2> QED
    BY <2>2, <2>3, <2>4
<1>3. CASE ClientPhase
  <2>1. sock'[a] = ShutDown(sock[a]) \/ sock'[a] = sock[a]
    BY <1>3 DEF ClientPhase, Shutdown
  <2> QED
    BY <2>1, AllGood, ShutDownGood DEF AttemptAllowed
<1>4. CASE Erase \/ FailedTask
  BY <1>4 DEF Erase, FailedTask, AttemptAllowed
<1>5. ASSUME NEW b \in Target, Handlers(b) PROVE AttemptAllowed(a)
  BY <1>5, HandlerAttempts DEF AttemptAllowed
<1> QED
  BY <1>1, <1>2, <1>3, <1>4, <1>5 DEF ConnNext

-----------------------------------------------------------------------------
(* The theorems.                                                           *)

\* The invariant, for any set of addresses.
THEOREM ConnInvariance ==
    ASSUME "readd" \notin ConnHabits PROVE ConnSpec => []ConnIInv
  BY InitHolds, StepHolds, PTL DEF ConnSpec

\* As long as the manager runs every one of its addresses is served, however
\* connections fail and addresses change.
THEOREM Served ==
    ASSUME "readd" \notin ConnHabits PROVE ConnSpec => []AddressesServed
<1>1. ConnIInv => AddressesServed
  BY DEF ConnIInv
<1> QED
  BY <1>1, ConnInvariance, PTL

\* No attempt is made for a socket that is being stopped, after the shutdown or
\* within the interval after the last.
THEOREM Attempts ==
    ASSUME "readd" \notin ConnHabits PROVE ConnSpec => AttemptsAllowed
<1>1. ConnIInv /\ [ConnNext]_connVars
        => [\A a \in Target : AttemptAllowed(a)]_connVars
  BY StepAttempts
<1> QED
  BY <1>1, ConnInvariance, PTL DEF ConnSpec, AttemptsAllowed
=============================================================================
