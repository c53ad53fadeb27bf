------------------------------ MODULE HttpConn ------------------------------
(***************************************************************************)
(* One HTTP/2 connection (libs/net/httpconn.cpp, httpint.h), the frames    *)
(* its peer sends it, and the calls of its user: requests delivered to the *)
(* application, replies, further data and cancellations the way            *)
(* HttpSocket (httproute.cpp) makes them.                                  *)
(*                                                                         *)
(* Everything runs in the event thread, so a frame or a call is one step.  *)
(* Header blocks are abstracted to the four ways decoding them can end,    *)
(* and bodies to their length.  "wire" is what the peer makes of the       *)
(* frames it gets: the observer that RFC 7540 is stated on.                *)
(***************************************************************************)
EXTENDS Integers, Sequences, FiniteSets, SequencesExt

CONSTANTS
    ServerIds,      \* stream ids in use on an accepted connection
    ClientIds,      \* and on an outgoing one
    DefaultWindow,  \* kDefaultWindowSize
    MaxWindow,      \* kMaximumWindowSize
    MaxFrame,       \* m_maxOutputFrame
    InitialWindows, \* values the peer announces with SETTINGS
    GoAwayIds,      \* last stream ids the peer sends with GOAWAY
    Increments,     \* values the peer sends with WINDOW_UPDATE
    Sizes,          \* lengths of the bodies and of the data the application sends
    MaxUnsent,      \* bound on the data a stream holds back
    MaxOpened,      \* bound on the streams opened, those of the same id included
    MaxResets       \* bound on the length of s_resetStreams

ASSUME HttpAssumption ==
    /\ ServerIds \cup ClientIds \subseteq Nat \ {0}
    /\ IsFiniteSet(ServerIds) /\ IsFiniteSet(ClientIds)
    /\ {DefaultWindow, MaxWindow, MaxFrame} \subseteq Nat \ {0}
    /\ DefaultWindow <= MaxWindow
    /\ InitialWindows \subseteq Nat /\ Sizes \subseteq Nat
    /\ GoAwayIds \subseteq Nat
    /\ Increments \subseteq 1 .. MaxWindow
    /\ {MaxUnsent, MaxOpened, MaxResets} \subseteq Nat

VARIABLES
    status,         \* what has become of the connection
    outgoing,       \* m_outgoing
    frameMode,      \* m_frameMode
    lastInput,      \* m_lastInputStream
    nextOutput,     \* m_nextOutputStream
    lastOutput,     \* m_lastOutputStream
    unackSettings,  \* m_unackSettings
    flowWindow,     \* m_flowWindow of the connection
    initialWindow,  \* m_initialFlowWindow
    streams,        \* m_streams
    resetQ,         \* s_resetStreams
    requests,       \* s_requests: what the application still answers
    gen,            \* how many streams have been opened with an id
    wire,           \* what the peer has seen
    blamed          \* the stream a GOAWAY of ours called idle, 0 if none

Ids == IF outgoing THEN ClientIds ELSE ServerIds

frameVars == <<frameMode, lastInput, lastOutput, unackSettings, initialWindow>>
vars == <<status, outgoing, frameMode, lastInput, nextOutput, lastOutput, unackSettings,
          flowWindow, initialWindow, streams, resetQ, requests, gen, wire, blamed>>

-----------------------------------------------------------------------------
(* The peer's view.                                                        *)

Phases == {"idle", "open", "ended", "reset"}
Faults == {"window", "late"}

\* A stream is opened, with the send window the peer has announced. It is in
\* "misjudged" if this side starts to count with another one.
WireOpen(w, s, window) ==
    [w EXCEPT !.phase[s] = "open", !.credit[s] = initialWindow,
              !.misjudged = (@ \ {s}) \cup {t \in {s} : window # initialWindow}]

\* A frame on a stream; nothing may follow END_STREAM or RST_STREAM.
WireFrame(w, s, end) ==
    [w EXCEPT !.faults = @ \cup {f \in {"late"} : w.phase[s] \in {"ended", "reset"}},
              !.phase[s] = IF end /\ @ = "open" THEN "ended" ELSE @]

\* DATA frames with n bytes together; they use up both windows.
WireData(w, s, n, end) ==
    LET f == WireFrame(w, s, end)
    IN [f EXCEPT !.credit[s] = @ - n,
                 !.credit[0] = @ - n,
                 !.faults = @ \cup {x \in {"window"} : n > 0 /\ (n > w.credit[s] \/ n > w.credit[0])}]

WireReset(w, s) == [w EXCEPT !.phase[s] = "reset"]

WireGrant(w, s, n) == [w EXCEPT !.credit[s] = @ + n]

\* A new initial window size moves the windows of all the open streams: they are
\* "misjudged" from then on, as the code has never moved one.
WireSettings(w, diff) ==
    [w EXCEPT !.credit = [s \in DOMAIN @ |-> IF s # 0 /\ w.phase[s] = "open" THEN @[s] + diff ELSE @[s]],
              !.misjudged = @ \cup {s \in DOMAIN w.phase : diff # 0 /\ w.phase[s] = "open"}]

-----------------------------------------------------------------------------
(* Streams.                                                                *)

States == {"idle", "open", "closed"}

NoStream == [slot |-> "absent", local |-> "idle", remote |-> "idle",
             window |-> 0, unsent |-> 0, msg |-> "none"]

NewStream(window) == [NoStream EXCEPT !.slot = "live", !.window = window]

Has(s) == streams[s].slot # "absent"
Live(s) == streams[s].slot = "live"

\* The entries of s_resetStreams that share their HttpStream with m_streams.
SameStream(e) == Live(e.stream) /\ gen[e.stream] = e.gen

\* The part of the connection that sending data works on.
Conn == [flow |-> flowWindow, streams |-> streams, wire |-> wire,
         resets |-> resetQ, gen |-> gen, fatal |-> FALSE]

Become(c) ==
    /\ flowWindow' = c.flow
    /\ streams' = c.streams
    /\ wire' = c.wire
    /\ resetQ' = c.resets
    /\ gen' = c.gen

\* A new HttpStream in m_streams, in the place of one that has the same id.
Open(c, s, window) ==
    [c EXCEPT !.streams[s] = NewStream(window), !.gen[s] = @ + 1, !.wire = WireOpen(@, s, window)]

Erase(c, s) == [c EXCEPT !.streams[s] = NoStream, !.wire.credit[s] = 0, !.wire.misjudged = @ \ {s}]

Completed(sm) == sm.local = "closed" /\ sm.unsent = 0 /\ sm.remote = "closed"

\* Mutation: the stream is forgotten although data is held back.
EraseClosed(c, s) ==
    IF c.streams[s].local = "closed" /\ c.streams[s].remote = "closed" THEN Erase(c, s) ELSE c

EraseCompleted(c, s) == IF Completed(c.streams[s]) THEN Erase(c, s) ELSE c

\* Mutation: the windows are not looked at.
AllowedAll(avail, len) == len

\* An int compared with a size_t: a negative window counts as more than any length.
Allowed(avail, len) == IF avail \in 0 .. (len - 1) THEN avail ELSE len

Transfer(c, s, n, end) ==
    [c EXCEPT !.flow = @ - n,
              !.streams[s].window = @ - n,
              !.wire = IF n > 0 \/ end THEN WireData(@, s, n, end) ELSE @]

Avail(c, s) == Min({c.flow, c.streams[s].window})

\* HttpConn::addData on a stream it has found.
AddData(c, s, len, more) ==
    LET sm == c.streams[s]
        count == IF sm.unsent > 0 THEN 0 ELSE Allowed(Avail(c, s), len)
        sent == Transfer(c, s, count, ~more /\ count = len)
        kept == [sent EXCEPT !.streams[s].unsent = @ + len - count]
    IN IF sm.local # "open"
         THEN [kept EXCEPT !.fatal = TRUE]
         ELSE EraseCompleted(IF more THEN kept ELSE [kept EXCEPT !.streams[s].local = "closed"], s)

\* HttpConn::writeMsg: the headers, then the body.
WriteMsg(c, s, len, more) ==
    LET headersOnly == len = 0 /\ ~more
        sent == [c EXCEPT !.wire = WireFrame(@, s, headersOnly),
                          !.streams[s].local = IF headersOnly THEN "closed" ELSE "open"]
    IN IF c.streams[s].local = "closed" THEN c
       ELSE IF headersOnly THEN sent
       ELSE AddData(sent, s, len, more)

\* HttpConn::writeUnsent: nothing is sent until a whole frame, or the rest, fits.
WriteUnsent(c, s) ==
    LET sm == c.streams[s]
        count == Allowed(Avail(c, s), sm.unsent)
        sent == Transfer(c, s, count, sm.local = "closed" /\ count = sm.unsent)
    IN IF count < sm.unsent /\ count < MaxFrame
         THEN c
         ELSE EraseCompleted([sent EXCEPT !.streams[s].unsent = @ - count], s)

\* Mutation: the peer may go on sending.
CloseLocal(c, s) == [c EXCEPT !.streams[s].local = "closed"]

CloseBoth(c, s) == [c EXCEPT !.streams[s].local = "closed", !.streams[s].remote = "closed"]

\* HttpConn::resetStream, with the entry for the ResetStreamTimer.
ResetStream(c, s) ==
    LET rst == [c EXCEPT !.wire = WireReset(@, s)]
    IN IF c.streams[s].slot = "absent" THEN rst
       ELSE [CloseBoth(rst, s) EXCEPT !.resets = Append(@, [stream |-> s, gen |-> c.gen[s]])]

\* Bounds for the steps that reset a stream, hold data back or open a stream.
MayReset(s) == Has(s) => Len(resetQ) < MaxResets
MayHold(s, len) == Has(s) => streams[s].unsent + len <= MaxUnsent
MayOpen == MapThenSumSet(LAMBDA s : gen[s], Ids) < MaxOpened

-----------------------------------------------------------------------------
(* Opening the connection.                                                 *)

NoWire == [credit |-> [s \in Ids \cup {0} |-> IF s = 0 THEN DefaultWindow ELSE 0],
           phase |-> [s \in Ids |-> "idle"],
           faults |-> {}, misjudged |-> {}]

Init ==
    /\ outgoing \in BOOLEAN
    /\ status = IF outgoing THEN "open" ELSE "preface"
    /\ frameMode = "settings"
    /\ lastInput = 0 /\ lastOutput = 0
    /\ nextOutput = IF outgoing THEN 1 ELSE 2
    /\ unackSettings = IF outgoing THEN 1 ELSE 0
    /\ flowWindow = DefaultWindow /\ initialWindow = DefaultWindow
    /\ streams = [s \in Ids |-> NoStream]
    /\ resetQ = <<>>
    /\ requests = {}
    /\ gen = [s \in Ids |-> 0]
    /\ wire = NoWire
    /\ blamed = 0

\* The server has received the whole preface, or something else.
Preface ==
    /\ status = "preface"
    /\ \/ status' = "open" /\ unackSettings' = unackSettings + 1
       \/ status' = "failed" /\ UNCHANGED unackSettings
    /\ UNCHANGED <<outgoing, frameMode, lastInput, nextOutput, lastOutput, flowWindow,
                   initialWindow, streams, resetQ, requests, gen, wire, blamed>>

-----------------------------------------------------------------------------
(* Frames from the peer.                                                   *)

data == <<flowWindow, streams, wire, resetQ, gen>>
Receiving == status = "open"
Normal == frameMode = "normal"

\* replyGoAway: recv returns false, and HttpSocket disconnects.
GoAway == status' = "failed"

GoAwayOnly == GoAway /\ UNCHANGED <<frameVars, data, outgoing, nextOutput, requests, blamed>>

FrameOk == UNCHANGED <<status, outgoing, nextOutput, blamed>>

\* A frame that is too large, malformed, on the wrong stream or not expected in
\* this frame mode; a promise; a continuation, since m_continueStream is never set.
OnBadFrame == Receiving /\ GoAwayOnly

\* A ping or its ack, a valid priority, an unknown frame: nothing changes.
OnIgnored ==
    /\ Receiving /\ Normal
    /\ FrameOk
    /\ UNCHANGED <<frameVars, data, requests>>

OnPriority(s) ==
    /\ Receiving /\ Normal
    /\ MayReset(s)
    /\ Become(ResetStream(Conn, s))
    /\ FrameOk
    /\ UNCHANGED <<frameVars, requests>>

OnSettings(v) ==
    /\ Receiving
    /\ frameMode \in {"normal", "settings"}
    /\ frameMode' = "normal"
    /\ IF v > MaxWindow
         THEN GoAway /\ UNCHANGED <<initialWindow, streams, wire>>
         ELSE /\ initialWindow' = v
              /\ LET diff == v - initialWindow'
                 IN streams' = [s \in Ids |-> IF Has(s) THEN [streams[s] EXCEPT !.window = @ + diff]
                                                        ELSE streams[s]]
              /\ wire' = WireSettings(wire, v - initialWindow)
              /\ UNCHANGED status
    /\ UNCHANGED <<outgoing, nextOutput, blamed, lastInput, lastOutput, unackSettings, flowWindow, resetQ, requests, gen>>

OnSettingsAck ==
    /\ Receiving
    /\ frameMode \in {"normal", "settings"}
    /\ frameMode' = "normal"
    /\ IF unackSettings = 0
         THEN GoAway /\ UNCHANGED unackSettings
         ELSE unackSettings' = unackSettings - 1 /\ UNCHANGED status
    /\ UNCHANGED <<outgoing, nextOutput, blamed, lastInput, lastOutput, initialWindow, data, requests>>

\* findAlways leaves an entry without a stream behind when it refuses.
OnHeadersRefused(s) ==
    /\ Receiving /\ Normal
    /\ ~Has(s) /\ (s % 2 = 0 \/ s < lastInput)
    /\ GoAway
    /\ streams' = [streams EXCEPT ![s].slot = "null"]
    /\ UNCHANGED <<frameVars, outgoing, nextOutput, blamed, flowWindow, wire, resetQ, gen, requests>>

\* A second header block on a stream.
OnHeadersAgain(s) ==
    /\ Receiving /\ Normal
    /\ Live(s) /\ streams[s].remote # "idle"
    /\ GoAwayOnly

Deliver(c, s) ==
    IF c.streams[s].msg = "request"
      THEN requests' = requests \cup {[stream |-> s, gen |-> c.gen[s], stage |-> "reply"]}
      ELSE UNCHANGED requests

TakeMsg(c, s) == [c EXCEPT !.streams[s].msg = "none"]

\* A header block whose decoding breaks the connection, breaks the stream, lacks
\* pseudo headers, or is in order.
Blocks == {"undecodable", "invalid", "incomplete", "valid"}

OnHeaders(s, end, endHeaders, block) ==
    /\ Receiving /\ Normal
    /\ \/ Live(s) /\ streams[s].remote = "idle"
       \/ ~Has(s) /\ s % 2 = 1 /\ s >= lastInput /\ MayOpen
    /\ Len(resetQ) < MaxResets
    /\ LET found == IF Has(s) THEN Conn ELSE Open(Conn, s, initialWindow)
           msg == IF found.streams[s].local = "idle" THEN "request" ELSE "response"
           c == [found EXCEPT !.streams[s].remote = IF end THEN "closed" ELSE "open",
                              !.streams[s].msg = msg]
           reset == block = "invalid" \/ (block = "incomplete" /\ endHeaders)
       IN \/ /\ block = "undecodable"
             /\ GoAway /\ Become(c) /\ UNCHANGED requests
          \/ /\ reset
             /\ Become(ResetStream(c, s)) /\ UNCHANGED <<status, requests>>
          \/ /\ block # "undecodable" /\ ~reset
             /\ IF end THEN Become(TakeMsg(c, s)) /\ Deliver(c, s)
                       ELSE Become(c) /\ UNCHANGED requests
             /\ UNCHANGED status
    /\ lastInput' = IF Has(s) THEN lastInput ELSE s
    /\ frameMode' = IF endHeaders THEN frameMode ELSE "continuation"
    /\ UNCHANGED <<outgoing, nextOutput, blamed, lastOutput, unackSettings, initialWindow>>

CloseRemote(c, s) == [c EXCEPT !.streams[s].remote = "closed"]

OnData(s, end) ==
    /\ Receiving /\ Normal
    /\ IF Live(s) /\ streams[s].remote = "open"
         THEN IF end
                THEN Become(TakeMsg(CloseRemote(Conn, s), s)) /\ Deliver(Conn, s)
                ELSE UNCHANGED <<data, requests>>
         ELSE /\ MayReset(s)
              /\ Become(ResetStream(Conn, s))
              /\ UNCHANGED requests
    /\ FrameOk
    /\ UNCHANGED frameVars

\* A frame on a stream that is not in m_streams is an error if the stream has not
\* been opened yet, as told by the highest stream of the peer, and ignored if it has.
OnUnknownStream(s) ==
    /\ IF s > lastInput
         THEN GoAway /\ blamed' = s
         ELSE UNCHANGED <<status, blamed>>
    /\ UNCHANGED <<data, outgoing, nextOutput>>

OnRstStream(s) ==
    /\ Receiving /\ Normal
    /\ IF Has(s)
         THEN Become([Erase(Conn, s) EXCEPT !.wire = WireReset(@, s)]) /\ FrameOk
         ELSE OnUnknownStream(s)
    /\ UNCHANGED <<frameVars, requests>>

OnGoAway(last, noError) ==
    /\ Receiving
    /\ IF lastOutput # 0 /\ last > lastOutput
         THEN GoAway /\ UNCHANGED lastOutput
         ELSE /\ lastOutput' = last
              /\ IF noError /\ last > nextOutput THEN UNCHANGED status ELSE GoAway
    /\ UNCHANGED <<outgoing, nextOutput, blamed, frameMode, lastInput, unackSettings,
                   initialWindow, data, requests>>

\* Mutation: new window of the connection is not used at once.
WalkNobody(c, order) == c

\* The streams are sent on in the order of the hash table, while there is window.
WalkStep(c, s) == IF c.flow = 0 THEN c ELSE WriteUnsent(c, s)
Walk(c, order) ==
    LET after[i \in 0 .. Len(order)] == IF i = 0 THEN c ELSE WalkStep(after[i - 1], order[i])
    IN after[Len(order)]

\* When writeUnsent erases the stream the loop stands on, the loop goes on from a
\* freed node: it reads what is still there, or crashes.
OnWindowUpdateConn(n) ==
    /\ Receiving /\ Normal
    /\ IF MaxWindow - n < flowWindow
         THEN GoAway /\ UNCHANGED data
         ELSE \E order \in SetToSeqs({s \in Ids : Has(s)}) :
                LET c == Walk([Conn EXCEPT !.flow = @ + n, !.wire = WireGrant(@, 0, n)], order)
                IN /\ Become(c)
                   /\ \/ UNCHANGED status
                      \/ status' = "crashed" /\ \E s \in Ids : Has(s) /\ c.streams[s].slot = "absent"
    /\ UNCHANGED <<outgoing, nextOutput, blamed, frameVars, requests>>

OnWindowUpdate(s, n) ==
    /\ Receiving /\ Normal
    /\ IF ~Has(s) THEN OnUnknownStream(s)
       ELSE IF MaxWindow - n < streams[s].window
         THEN MayReset(s) /\ Become(ResetStream(Conn, s)) /\ FrameOk
         ELSE /\ Become(WriteUnsent([Conn EXCEPT !.streams[s].window = @ + n, !.wire = WireGrant(@, s, n)], s))
              /\ FrameOk
    /\ UNCHANGED <<frameVars, requests>>

-----------------------------------------------------------------------------
(* Calls of the application.                                               *)

Usable == status \in {"open", "failed"}
CallVars == <<outgoing, frameVars, blamed>>

\* The outcome of a call: logMsgFatal ends the process.
Call(c) ==
    /\ Become(c)
    /\ status' = IF c.fatal THEN "aborted" ELSE status

Crash == status' = "crashed" /\ UNCHANGED data

\* HttpConn::request; the stream's own window stays 0.
Request(len, more) ==
    /\ Usable /\ outgoing
    /\ nextOutput \in Ids /\ MayOpen /\ len <= MaxUnsent
    /\ Call(WriteMsg(Open(Conn, nextOutput, 0), nextOutput, len, more))
    /\ requests' = requests \cup {r \in {[stream |-> nextOutput, gen |-> gen'[nextOutput], stage |-> "more"]} : more}
    /\ nextOutput' = nextOutput + 2
    /\ UNCHANGED CallVars

\* Mutation: the request is kept, and can be answered on.
AnsweredKept(r, more) == requests' = (requests \ {r}) \cup {[r EXCEPT !.stage = "more"]}

\* HttpSocket::iReply: the request is forgotten with the last part of the answer.
Answered(r, more) ==
    requests' = (requests \ {r}) \cup {q \in {[r EXCEPT !.stage = "more"]} : more}

\* httpReply
Reply(r, len, more) ==
    /\ Usable /\ r.stage = "reply"
    /\ MayHold(r.stream, len)
    /\ Answered(r, more)
    /\ CASE streams[r.stream].slot = "absent" -> UNCHANGED <<data, status>>
         [] streams[r.stream].slot = "null" -> Crash
         [] OTHER -> Call(WriteMsg(Conn, r.stream, len, more))
    /\ UNCHANGED <<CallVars, nextOutput>>

\* httpData
Data(r, len, more) ==
    /\ Usable /\ r.stage = "more"
    /\ MayHold(r.stream, len)
    /\ Answered(r, more)
    /\ CASE streams[r.stream].slot = "absent" -> UNCHANGED <<data, status>>
         [] streams[r.stream].slot = "null" -> Crash
         [] OTHER -> Call(AddData(Conn, r.stream, len, more))
    /\ UNCHANGED <<CallVars, nextOutput>>

\* httpResetStream
Cancel(r) ==
    /\ Usable
    /\ MayReset(r.stream)
    /\ Answered(r, FALSE)
    /\ IF streams[r.stream].slot = "null"
         THEN Crash
         ELSE Call(ResetStream(Conn, r.stream))
    /\ UNCHANGED <<CallVars, nextOutput>>

\* ResetStreamTimer::onTimer, for one entry that has become old enough.
ExpireReset ==
    /\ Usable /\ resetQ # <<>>
    /\ LET e == Head(resetQ)
           c == IF SameStream(e) THEN Erase(Conn, e.stream) ELSE Conn
       IN Become([c EXCEPT !.resets = Tail(@)])
    /\ UNCHANGED <<status, nextOutput, requests, CallVars>>

\* httpClose: the connection and what the socket was asked are forgotten.
Close ==
    /\ status \in {"preface", "open", "failed"}
    /\ status' = "closed"
    /\ requests' = {}
    /\ UNCHANGED <<data, nextOutput, CallVars>>

Frame ==
    \/ OnBadFrame \/ OnIgnored \/ OnSettingsAck
    \/ \E v \in InitialWindows \cup {initialWindow} : OnSettings(v)
    \/ \E n \in Increments : OnWindowUpdateConn(n)
    \/ \E last \in GoAwayIds, noError \in BOOLEAN : OnGoAway(last, noError)
    \/ \E s \in Ids :
         \/ OnPriority(s) \/ OnHeadersRefused(s) \/ OnHeadersAgain(s) \/ OnRstStream(s)
         \/ \E end \in BOOLEAN : OnData(s, end)
         \/ \E end \in BOOLEAN, endHeaders \in BOOLEAN, block \in Blocks : OnHeaders(s, end, endHeaders, block)
         \/ \E n \in Increments : OnWindowUpdate(s, n)

AppCall ==
    \E more \in BOOLEAN, len \in Sizes :
        \/ Request(len, more)
        \/ \E r \in requests : Reply(r, len, more) \/ Data(r, len, more)

Next == Preface \/ Frame \/ AppCall \/ (\E r \in requests : Cancel(r)) \/ ExpireReset \/ Close

Spec == Init /\ [][Next]_vars

-----------------------------------------------------------------------------
(* Properties.                                                             *)

\* Every variable has its type; windows stay below the limit of the protocol.
StreamType ==
    [slot : {"absent", "null", "live"}, local : States, remote : States,
     window : 0 .. MaxWindow, unsent : 0 .. MaxUnsent, msg : {"none", "request", "response"}]

TypeOK ==
    /\ status \in {"preface", "open", "failed", "closed", "aborted", "crashed"}
    /\ outgoing \in BOOLEAN
    /\ frameMode \in {"settings", "normal", "continuation"}
    /\ lastInput \in Ids \cup {0} /\ lastOutput \in GoAwayIds \cup {0}
    /\ nextOutput \in Nat /\ unackSettings \in 0 .. 1
    /\ flowWindow \in 0 .. MaxWindow /\ initialWindow \in 0 .. MaxWindow
    /\ streams \in [Ids -> StreamType]
    /\ resetQ \in Seq([stream : Ids, gen : Nat \ {0}])
    /\ requests \subseteq [stream : Ids, gen : Nat \ {0}, stage : {"reply", "more"}]
    /\ gen \in [Ids -> Nat]
    /\ wire.credit \in [Ids \cup {0} -> Int] /\ wire.phase \in [Ids -> Phases] /\ wire.faults \subseteq Faults
    /\ wire.misjudged \subseteq Ids
    /\ blamed \in Ids \cup {0}

\* No DATA frame ever exceeds what the peer allows on the stream or on the
\* connection (RFC 7540, 6.9, which http.h says is implemented): across replies,
\* held back data sent on later, window updates and new initial window sizes.
WindowRespected == "window" \notin wire.faults

\* Nothing is sent on a stream after its END_STREAM, or after it was reset.
NothingAfterEnd == "late" \notin wire.faults

\* A stream on which the peer still waits for the end of our data is in m_streams,
\* so held back data is never forgotten: a stream goes away only when all was sent
\* or one of the sides has reset it.
OpenIsKept == \A s \in Ids : wire.phase[s] = "open" => Live(s)

\* What the peer lets this side send on a stream.
PeerAvail(s) == Min({wire.credit[0], wire.credit[s]})

\* The data of stream s is held back as the windows of the peer leave no room for
\* a whole frame or for the rest of it.
ForWindow(s) ==
    Live(s) /\ streams[s].unsent > 0 =>
        PeerAvail(s) < MaxFrame /\ PeerAvail(s) < streams[s].unsent

\* Data is held back only for want of window, as the peer counts it: every update
\* that makes room is used at once. That leaves out the streams whose window the
\* code has wrong from the start or since a SETTINGS (AllHeldBackForWindow).
HeldBackForWindow ==
    status \in {"open", "failed"} => \A s \in Ids \ wire.misjudged : ForWindow(s)

\* The same for every stream, as RFC 7540, 6.9, has it. It fails: request() leaves
\* the window of its stream at 0, setInitialWindowSize moves no window, and data
\* stays here that the peer would take.
AllHeldBackForWindow ==
    status \in {"open", "failed"} => \A s \in Ids : ForWindow(s)

\* While a stream may receive data it has the message the data belongs to: onData
\* appends to it without a look at the pointer.
OpenHasMsg == \A s \in Ids : Live(s) /\ streams[s].remote = "open" => streams[s].msg # "none"

\* The streams agree with what was received, sent and held back.
StreamsConsistent == TypeOK /\ OpenIsKept /\ OpenHasMsg

\* The assertion of ResetStreamTimer::onTimer, and what it is there for: a stream
\* this side has reset stays closed on both sides, and waits in s_resetStreams
\* until it is deleted.
ResetStaysClosed ==
    /\ \A i \in 1 .. Len(resetQ) : SameStream(resetQ[i]) =>
          LET sm == streams[resetQ[i].stream] IN sm.local = "closed" /\ sm.remote = "closed"
    /\ \A s \in Ids : Live(s) /\ wire.phase[s] = "reset" =>
          \E i \in 1 .. Len(resetQ) : resetQ[i] = [stream |-> s, gen |-> gen[s]]

\* logMsgFatal in addData ends the process only in answering a request whose own
\* stream was reset, or gave way to a second stream of the same id: the answers to
\* all the other requests find their stream as they left it, or gone.
FatalOnlyOnOwnReset ==
    [][status # "aborted" /\ status' = "aborted" =>
          \A r \in requests, len \in Sizes, more \in BOOLEAN :
             Reply(r, len, more) \/ Data(r, len, more)
                => wire.phase[r.stream] = "reset" \/ gen[r.stream] > 1]_vars

\* httpReply and httpData return false if the stream has been closed (http.h:374
\* and 385), and httpResetStream resets it: no call ends the process. It fails:
\* addData goes on with a closed stream that is still in m_streams.
ClosedIsNotFatal == status # "aborted"

\* The stream that a GOAWAY of this side calls idle is none that has been completed:
\* frames on those are ignored (the comments at httpconn.cpp:965 and 1247).
CompletedIsNotIdle == [][blamed' # blamed => wire.phase[blamed'] # "ended"]_vars

=============================================================================
