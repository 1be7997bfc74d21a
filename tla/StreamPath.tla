----------------------------- MODULE StreamPath -----------------------------
(***************************************************************************)
(* The way of an incoming stream from a shared QUIC connection to the       *)
(* protocol that owns it: the endpoint offers every connection to libp2p    *)
(* and to ethp2p, the dispatchers split its streams between the two views,  *)
(* either view is released while the other goes on, and the peer supervisor *)
(* reads stream headers in a bounded number of slots and routes the streams *)
(* (transport/, supervisor.go).                                             *)
(*                                                                          *)
(* One node and one remote peer.  The HELLO exchange, and with it the       *)
(* peer's first unidirectional stream, is in Stack; what a family does with *)
(* a routed stream is in FamilyDelivery.  QUIC itself, which accepts        *)
(* streams in the order of their IDs, is external.                          *)
(***************************************************************************)
EXTENDS Control, Rlp, FiniteSets

CONSTANTS
    Conns,          \* connections with the peer
    MaxStreams,     \* bound: streams the peer opens
    Calls,          \* calls of OpenStream and OpenUniStream by a family
    MaxClassify,    \* maxStreamsPendingClassify
    MaxReads,       \* maxHeaderReads
    MaxPending,     \* maxConnsPendingDelivery
    Routes,         \* selectors of the registered protocols
    Scenes,         \* the connections and their streams, who dialed, whether libp2p
                    \* has detached at the start, the calls, and the bound on faults
    None

Streams == 1..MaxStreams

Sides == {"lib", "eth"}
Dirs == {"uni", "bidi"}

\* Transport's queues on a connection, and the view each one belongs to.
Queues == Dirs \union {"lib"}
SideOf(q) == IF q = "lib" THEN "lib" ELSE "eth"

ASSUME PathAssumption ==
    /\ MaxStreams \in Nat /\ MaxClassify \in Nat /\ MaxReads \in Nat /\ MaxPending \in Nat
    /\ \A sc \in Scenes :
          /\ sc.faults \in Nat
          /\ sc.conns \subseteq Conns
          /\ sc.dialed \subseteq sc.conns
          /\ sc.detached \in BOOLEAN
          /\ sc.opens \subseteq Calls
          /\ DOMAIN sc.streams \subseteq Streams
          /\ \A s \in DOMAIN sc.streams :
                /\ sc.streams[s].conn \in sc.conns
                /\ sc.streams[s].dir \in Dirs
                /\ sc.streams[s].bytes \in Seq(Bytes)
    /\ None \notin Conns

VARIABLES
    scene,      \* the scene that is played
    raw,        \* the QUIC connection: "none", "up", "closed" here or "lost"
    rel,        \* a view: "held", "cancelled" or "done"
    last,       \* the view that was released last, and closes the connection
    libQ, ethQ, \* views that wait for libp2p and for the stack to accept them
    popped,     \* the view the libp2p listener has taken and not yet checked
    hosted,     \* libp2p views that libp2p accepted
    detached,   \* libDone: the libp2p listener is closed
    stopped,    \* the endpoint is closed
    place,      \* where a stream is
    data,       \* what the peer sent on it: "none", "first", "all" or "reset"
    queue,      \* transport's stream queues
    ready,      \* their wake channels
    handed,     \* ethp2p views the stack took and the supervisor has not attached
    conn, reading, inbox,   \* the supervisor
    served,     \* the views the running supervisor has had
    ending,     \* the view that dropView is ending
    next,       \* the view that attach takes when it has
    doomed,     \* dropped and rejected views whose release has not begun
    late,       \* admitted views that awaitHello's callback closed
    up,         \* the view whose family handle has not ended
    call,       \* a call: "idle", "opening", "opened", "wrote", "returned" or "failed"
    via,        \* the view of the handle it was made on
    cut,        \* its context has ended
    sent,       \* the stream it opened: "none", "open" or "reset"
    faults

tVars == <<raw, rel, last, libQ, ethQ, popped, hosted, detached, stopped>>
sVars == <<place, data, queue, ready>>
dropping == <<ending, next>>
supVars == <<handed, conn, reading, inbox, served, dropping, doomed, late>>
callVars == <<call, via, cut, sent>>
oVars == <<up, callVars>>
vars == <<scene, tVars, sVars, supVars, oVars, faults>>

Init ==
    /\ scene \in Scenes
    /\ raw = [c \in Conns |-> "none"]
    /\ rel = [c \in Conns |-> [v \in Sides |-> "held"]]
    /\ last = [c \in Conns |-> None]
    /\ libQ = <<>>
    /\ ethQ = <<>>
    /\ popped = None
    /\ hosted = {}
    /\ detached = scene.detached
    /\ stopped = FALSE
    /\ place = [s \in Streams |-> "remote"]
    /\ data = [s \in Streams |-> "none"]
    /\ queue = [c \in Conns |-> [q \in Queues |-> <<>>]]
    /\ ready = [c \in Conns |-> [d \in Dirs |-> FALSE]]
    /\ handed = {}
    /\ conn = None
    /\ reading = [d \in Dirs |-> 0]
    /\ inbox = <<>>
    /\ served = {}
    /\ ending = None
    /\ next = None
    /\ doomed = {}
    /\ late = {}
    /\ up = None
    /\ call = [o \in Calls |-> "idle"]
    /\ via = [o \in Calls |-> None]
    /\ cut = [o \in Calls |-> FALSE]
    /\ sent = [o \in Calls |-> "none"]
    /\ faults = 0

Fault ==
    /\ faults < scene.faults
    /\ faults' = faults + 1

Exists(s) == s \in DOMAIN scene.streams
ConnOf(s) == scene.streams[s].conn
DirOf(s) == scene.streams[s].dir
BytesOf(s) == scene.streams[s].bytes

\* The view's context has ended: it was released, or the connection ended.
Down(c) == raw[c] \in {"closed", "lost"}
Ended(c, v) == Down(c) \/ rel[c][v] \in {"cancelled", "done"}


-----------------------------------------------------------------------------
(* The two views of a connection: claimRelease and closeSide.               *)

\* The views in vs of connection c are claimed, and their contexts end with the
\* cause; the second claim of the two is the last one.
Claim(r, c, vs) == [r EXCEPT ![c] = [v \in Sides |->
                       IF v \in vs /\ r[c][v] = "held" THEN "cancelled" ELSE r[c][v]]]

LastOf(c, v) ==
    IF rel[c][v] = "held" /\ \A w \in Sides \ {v} : rel[c][w] # "held" THEN v ELSE last[c]

Release(c, v) ==
    /\ rel' = Claim(rel, c, {v})
    /\ last' = [last EXCEPT ![c] = LastOf(c, v)]

\* Mutant: every release closes the connection.
CloseSideEager(c, v) ==
    /\ rel[c][v] = "cancelled"
    /\ rel' = [rel EXCEPT ![c][v] = "done"]
    /\ raw' = IF Down(c) THEN raw ELSE [raw EXCEPT ![c] = "closed"]
    /\ LET mine == {q \in Queues : SideOf(q) = v}
       IN /\ queue' = [queue EXCEPT ![c] = [q \in Queues |-> IF q \in mine THEN <<>> ELSE @[q]]]
          /\ place' = [s \in Streams |->
                         IF \E q \in mine : \E i \in 1..Len(queue[c][q]) : queue[c][q][i] = s
                         THEN "reset" ELSE place[s]]
    /\ UNCHANGED <<scene, last, libQ, ethQ, popped, hosted, detached, stopped, data, ready,
                   supVars, faults, oVars>>

\* The last release closes the connection; each closes its own queues, for good,
\* and resets what it finds there.
CloseSide(c, v) ==
    /\ rel[c][v] = "cancelled"
    /\ rel' = [rel EXCEPT ![c][v] = "done"]
    /\ raw' = IF last[c] = v /\ ~Down(c) THEN [raw EXCEPT ![c] = "closed"] ELSE raw
    /\ LET mine == {q \in Queues : SideOf(q) = v}
       IN /\ queue' = [queue EXCEPT ![c] = [q \in Queues |-> IF q \in mine THEN <<>> ELSE @[q]]]
          /\ place' = [s \in Streams |->
                         IF \E q \in mine : \E i \in 1..Len(queue[c][q]) : queue[c][q][i] = s
                         THEN "reset" ELSE place[s]]
    /\ UNCHANGED <<scene, last, libQ, ethQ, popped, hosted, detached, stopped, data, ready,
                   supVars, faults, oVars>>

-----------------------------------------------------------------------------
(* The endpoint: a connection is offered to libp2p first and then, if it    *)
(* was accepted and not dialed, to the stack.                               *)

\* offerLibp2p releases the view of a detached libp2p, or of a full queue.
Unclaimed == detached \/ Len(libQ) = MaxPending

\* offerEthp2p releases that of a full queue.
Unoffered == Len(ethQ) = MaxPending

ConnArrives(c) ==
    /\ c \in scene.conns \ scene.dialed
    /\ raw[c] = "none"
    /\ ~stopped
    /\ raw' = [raw EXCEPT ![c] = "up"]
    /\ libQ' = IF Unclaimed THEN libQ ELSE Append(libQ, c)
    /\ ethQ' = IF Unoffered THEN ethQ ELSE Append(ethQ, c)
    /\ rel' = Claim(rel, c, {v \in Sides : IF v = "lib" THEN Unclaimed ELSE Unoffered})
    /\ last' = [last EXCEPT ![c] = IF Unclaimed /\ Unoffered THEN "eth" ELSE None]
    /\ UNCHANGED <<scene, popped, hosted, detached, stopped, sVars, supVars, faults, oVars>>

Dial(c) ==
    /\ c \in scene.dialed
    /\ raw[c] = "none"
    /\ ~stopped
    /\ raw' = [raw EXCEPT ![c] = "up"]
    /\ libQ' = IF Unclaimed THEN libQ ELSE Append(libQ, c)
    /\ rel' = Claim(rel, c, IF Unclaimed THEN {"lib"} ELSE {})
    /\ handed' = handed \union {c}
    /\ UNCHANGED <<scene, last, ethQ, popped, hosted, detached, stopped, sVars,
                   conn, reading, inbox, served, dropping, doomed, late, faults, oVars>>

\* Ethp2pTransport.Accept
Accept ==
    /\ ethQ # <<>>
    /\ handed' = handed \union {Head(ethQ)}
    /\ ethQ' = Tail(ethQ)
    /\ UNCHANGED <<scene, raw, rel, last, libQ, popped, hosted, detached, stopped, sVars,
                   conn, reading, inbox, served, dropping, doomed, late, faults, oVars>>

\* libp2pListener.Accept takes a view, and looks only then whether libp2p
\* detached or the endpoint closed meanwhile.
ListenerPop ==
    /\ popped = None
    /\ libQ # <<>>
    /\ popped' = Head(libQ)
    /\ libQ' = Tail(libQ)
    /\ UNCHANGED <<scene, raw, rel, last, ethQ, hosted, detached, stopped, sVars, supVars, faults, oVars>>

ListenerAccept ==
    /\ popped # None
    /\ popped' = None
    /\ IF detached \/ stopped
       THEN Release(popped, "lib") /\ hosted' = hosted
       ELSE hosted' = hosted \union {popped} /\ UNCHANGED <<rel, last>>
    /\ UNCHANGED <<scene, raw, libQ, ethQ, detached, stopped, sVars, supVars, faults, oVars>>

\* The listener closes: what libp2p never accepted is released.
DetachLibp2p ==
    /\ ~detached
    /\ Fault
    /\ detached' = TRUE
    /\ libQ' = <<>>
    /\ LET queued == {libQ[i] : i \in 1..Len(libQ)}
       IN /\ rel' = [c \in Conns |-> IF c \in queued THEN Claim(rel, c, {"lib"})[c] ELSE rel[c]]
          /\ last' = [c \in Conns |-> IF c \in queued THEN LastOf(c, "lib") ELSE last[c]]
    /\ UNCHANGED <<scene, raw, ethQ, popped, hosted, stopped, sVars, supVars, oVars>>

\* libp2p closes a connection it accepted.
Libp2pCloses(c) ==
    /\ c \in hosted
    /\ rel[c]["lib"] = "held"
    /\ Fault
    /\ Release(c, "lib")
    /\ UNCHANGED <<scene, raw, libQ, ethQ, popped, hosted, detached, stopped, sVars, supVars, oVars>>

\* Endpoint.shutdown closes every connection with the QUIC transport.
Shutdown ==
    /\ ~stopped
    /\ Fault
    /\ stopped' = TRUE
    /\ raw' = [c \in Conns |-> IF raw[c] = "up" THEN "lost" ELSE raw[c]]
    /\ UNCHANGED <<scene, rel, last, libQ, ethQ, popped, hosted, detached, sVars, supVars, oVars>>

\* The connection ends by itself or at the peer's hand.
ConnLost(c) ==
    /\ raw[c] = "up"
    /\ Fault
    /\ raw' = [raw EXCEPT ![c] = "lost"]
    /\ UNCHANGED <<scene, rel, last, libQ, ethQ, popped, hosted, detached, stopped, sVars, supVars, oVars>>

-----------------------------------------------------------------------------
(* The dispatchers.                                                         *)

\* What of a stream's bytes has arrived.
Received(s) ==
    IF data[s] = "all" THEN BytesOf(s)
    ELSE IF data[s] = "first" THEN SubSeq(BytesOf(s), 1, 1) ELSE <<>>

\* The peer sends a stream's bytes and FIN; the first byte may come alone where
\* it matters, before the classification.  It may also reset the stream.
PeerSends(s) ==
    /\ place[s] \in {"classify", "queued", "header"}
    /\ ~Down(ConnOf(s))
    /\ \/ data[s] \in {"none", "first"} /\ data' = [data EXCEPT ![s] = "all"]
       \/ /\ data[s] = "none" /\ place[s] = "classify" /\ Len(BytesOf(s)) > 1
          /\ data' = [data EXCEPT ![s] = "first"]
    /\ UNCHANGED <<scene, tVars, place, queue, ready, supVars, faults, oVars>>

PeerResets(s) ==
    /\ place[s] \in {"classify", "queued", "header"}
    /\ ~Down(ConnOf(s))
    /\ data[s] \in {"none", "first"}
    /\ Fault
    /\ data' = [data EXCEPT ![s] = "reset"]
    /\ UNCHANGED <<scene, tVars, place, queue, ready, supVars, oVars>>

\* QUIC hands over the streams of a direction in the order of their IDs.
NextOf(s) ==
    /\ Exists(s)
    /\ place[s] = "remote"
    /\ raw[ConnOf(s)] = "up"
    /\ \A t \in 1..(s - 1) : Exists(t) /\ ConnOf(t) = ConnOf(s) /\ DirOf(t) = DirOf(s)
                             => place[t] # "remote"

\* streamQueue.push
Push(c, q, s) ==
    /\ queue' = [queue EXCEPT ![c][q] = Append(@, s)]
    /\ ready' = IF q = "lib" THEN ready ELSE [ready EXCEPT ![c][q] = TRUE]
    /\ place' = [place EXCEPT ![s] = "queued"]

Reset(s) ==
    /\ place' = [place EXCEPT ![s] = "reset"]
    /\ UNCHANGED <<queue, ready>>

\* Mutant: a push after the release goes into the closed queue.
HandToClosed(c, q, s) ==
    \/ Push(c, q, s)
    \/ /\ Ended(c, SideOf(q))
       /\ Reset(s)

\* The dispatcher looks at the view's context and then pushes.  Between the two
\* the view may end, so an ended view still gets the stream, until its queue is
\* closed.
HandTo(c, q, s) ==
    \/ /\ rel[c][SideOf(q)] # "done"
       /\ Push(c, q, s)
    \/ /\ Ended(c, SideOf(q))
       /\ Reset(s)

DrainUni(s) ==
    /\ NextOf(s)
    /\ DirOf(s) = "uni"
    /\ HandTo(ConnOf(s), "uni", s)
    /\ UNCHANGED <<scene, tVars, data, supVars, faults, oVars>>

\* A token of biSem per stream that is being classified.
Classifying(c) == {s \in Streams : Exists(s) /\ ConnOf(s) = c /\ place[s] = "classify"}

DrainBidi(s) ==
    /\ NextOf(s)
    /\ DirOf(s) = "bidi"
    /\ Cardinality(Classifying(ConnOf(s))) < MaxClassify
    /\ place' = [place EXCEPT ![s] = "classify"]
    /\ UNCHANGED <<scene, tVars, data, queue, ready, supVars, faults, oVars>>

\* classifyBi and what follows it: the first byte decides, and a stream without
\* one, for a timeout, a FIN, a reset or the connection's end, is given up.
Classify(s) ==
    /\ place[s] = "classify"
    /\ \/ /\ Received(s) # <<>>
          /\ HandTo(ConnOf(s), IF Received(s)[1] = Reserved THEN "lib" ELSE "bidi", s)
       \/ /\ Received(s) = <<>> \/ Down(ConnOf(s))
          /\ Reset(s)
    /\ UNCHANGED <<scene, tVars, data, supVars, faults, oVars>>

\* libp2pConn.AcceptStream
AcceptStream(c) ==
    /\ c \in hosted
    /\ queue[c]["lib"] # <<>>
    /\ queue' = [queue EXCEPT ![c]["lib"] = Tail(@)]
    /\ place' = [place EXCEPT ![Head(queue[c]["lib"])] =
                   IF Ended(c, "lib") THEN "reset" ELSE "libp2p"]
    /\ UNCHANGED <<scene, tVars, data, ready, supVars, faults, oVars>>


-----------------------------------------------------------------------------
(* The peer supervisor.                                                     *)

\* NextStream and NextUniStream: a view that ended yields none.
Available(c, d) == IF Ended(c, "eth") THEN 0 ELSE Len(queue[c][d])

\* readHeaders on view c, with rd slots in use, pl the streams' places and rdy
\* the wake channels: both queues are popped while there are slots, and a queue
\* that keeps streams stays signalled.
ReadHeaders(c, rd, pl, rdy) ==
    LET room(d) == MaxReads - rd[d]
        took == [d \in Dirs |-> IF room(d) < Available(c, d) THEN room(d) ELSE Available(c, d)]
    IN /\ reading' = [d \in Dirs |-> rd[d] + took[d]]
       /\ queue' = [queue EXCEPT ![c] = [q \in Queues |->
                      IF q = "lib" THEN @[q] ELSE SubSeq(@[q], took[q] + 1, Len(@[q]))]]
       /\ ready' = [rdy EXCEPT ![c] = [d \in Dirs |->
                      @[d] \/ (took[d] > 0 /\ Len(queue[c][d]) > took[d])]]
       /\ place' = [s \in Streams |->
                      IF \E d \in Dirs : \E i \in 1..took[d] : queue[c][d][i] = s
                      THEN "header" ELSE pl[s]]

\* The supervisor runs one event at a time, and dropView is in the middle of one.
Between == ending = None /\ next = None

\* dropView: the slots are free at once.  The handles end next, and the release
\* follows in closeView.
DropCurrent(c) ==
    /\ conn' = None
    /\ reading' = [d \in Dirs |-> 0]
    /\ ending' = conn
    /\ next' = c

EndHandles ==
    /\ ending # None
    /\ ending' = None
    /\ up' = None
    /\ doomed' = doomed \union {ending}
    /\ UNCHANGED <<scene, tVars, sVars, handed, conn, reading, inbox, served, next, late,
                   callVars, faults>>

Install(c) ==
    /\ conn' = c
    /\ up' = c
    /\ ReadHeaders(c, [d \in Dirs |-> 0], place, ready)

\* A view that passed the handshake is admitted, in place of the old one.
Attach(c) ==
    /\ Between
    /\ c \in handed
    /\ handed' = handed \ {c}
    /\ served' = served \union {c}
    /\ IF conn = None
       THEN Install(c) /\ UNCHANGED dropping
       ELSE DropCurrent(c) /\ UNCHANGED <<place, queue, ready, up>>
    /\ UNCHANGED <<scene, tVars, data, inbox, doomed, late, faults, callVars>>

AttachNext ==
    /\ ending = None /\ next # None
    /\ Install(next)
    /\ next' = None
    /\ UNCHANGED <<scene, tVars, data, handed, inbox, served, ending, doomed, late,
                   faults, callVars>>

\* A view whose handshake failed, or that lost to another one, is released.
Reject(c) ==
    /\ Between
    /\ c \in handed
    /\ Ended(c, "eth") \/ conn # None
    /\ handed' = handed \ {c}
    /\ doomed' = doomed \union {c}
    /\ UNCHANGED <<scene, tVars, sVars, conn, reading, inbox, served, dropping, late, faults, oVars>>

\* Streams() or UniStreams() is ready.
Wake(d) ==
    /\ Between
    /\ conn # None
    /\ ready[conn][d]
    /\ ReadHeaders(conn, reading, place, [ready EXCEPT ![conn][d] = FALSE])
    /\ UNCHANGED <<scene, tVars, data, handed, conn, inbox, served, dropping, doomed, late, faults, oVars>>

\* A post reaches the supervisor that started the read, unless it has exited;
\* then a stream whose header was read is cancelled by its reader.
Post(s, ok) ==
    IF ConnOf(s) \in served
    THEN /\ inbox' = Append(inbox, [stream |-> s, ok |-> ok])
         /\ place' = [place EXCEPT ![s] = IF ok THEN "posted" ELSE "reset"]
    ELSE /\ inbox' = inbox
         /\ place' = [place EXCEPT ![s] = "reset"]

\* The goroutine that reads a header ends: with a selector; or with an error
\* and the stream cancelled, for a bad header, a FIN or a reset before its end,
\* a timeout, or the end of the view or the connection.
ReadHeader(s) ==
    /\ place[s] = "header"
    /\ LET got == ReadSelector(Received(s))
       IN \/ got.kind = "ok" /\ Post(s, TRUE)
          \/ /\ got.kind # "ok" \/ conn # ConnOf(s) \/ Down(ConnOf(s))
             /\ Post(s, FALSE)
    /\ UNCHANGED <<scene, tVars, data, queue, ready, handed, conn, reading, served, dropping,
                   doomed, late, faults, oVars>>

Selector(s) == ReadSelector(BytesOf(s)).value

\* Mutant: a result for a view that is gone is taken for the current one's.
HeaderReadAny ==
    /\ Between
    /\ inbox # <<>>
    /\ inbox' = Tail(inbox)
    /\ LET s == Head(inbox).stream
           ok == Head(inbox).ok
           rd == [reading EXCEPT ![DirOf(s)] = IF @ > 0 THEN @ - 1 ELSE 0]
           ends(how) == IF ok THEN [place EXCEPT ![s] = how] ELSE place
       IN IF conn = None
          THEN place' = ends("reset") /\ UNCHANGED <<queue, ready, conn, reading, dropping>>
          ELSE /\ ReadHeaders(conn, rd,
                    ends(IF Selector(s) \in Routes THEN "routed" ELSE "reset"), ready)
               /\ UNCHANGED <<conn, dropping>>
    /\ UNCHANGED <<scene, tVars, data, handed, served, doomed, late, faults, oVars>>

\* headerRead
HeaderRead ==
    /\ Between
    /\ inbox # <<>>
    /\ inbox' = Tail(inbox)
    /\ LET s == Head(inbox).stream
           ok == Head(inbox).ok
           rd == [reading EXCEPT ![DirOf(s)] = @ - 1]
           ends(how) == IF ok THEN [place EXCEPT ![s] = how] ELSE place
       IN IF conn # ConnOf(s)
          THEN place' = ends("reset") /\ UNCHANGED <<queue, ready, conn, reading, dropping>>
          ELSE IF ok /\ Selector(s)[1] = ControlFamily
          THEN place' = ends("reset") /\ DropCurrent(None) /\ UNCHANGED <<queue, ready>>
          ELSE /\ ReadHeaders(conn, rd,
                    ends(IF ok /\ Selector(s) \in Routes THEN "routed" ELSE "reset"), ready)
               /\ UNCHANGED <<conn, dropping>>
    /\ UNCHANGED <<scene, tVars, data, handed, served, doomed, late, faults, oVars>>

\* The view ends, by Done, with its last handle, or at anyone's wish: GOAWAY,
\* Disconnect, Close.
DropView ==
    /\ Between
    /\ conn # None
    /\ IF Ended(conn, "eth") \/ up = None THEN faults' = faults ELSE Fault
    /\ DropCurrent(None)
    /\ UNCHANGED <<scene, tVars, sVars, handed, inbox, served, doomed, late, oVars>>

\* tryExit: the next view gets a new supervisor.
Exit ==
    /\ Between
    /\ conn = None
    /\ inbox = <<>>
    /\ served # {}
    /\ served' = {}
    /\ UNCHANGED <<scene, tVars, sVars, handed, conn, reading, inbox, dropping, doomed, late,
                   faults, oVars>>

\* controlSession.close releases the view.
CloseView(c) ==
    /\ c \in doomed
    /\ doomed' = doomed \ {c}
    /\ Release(c, "eth")
    /\ UNCHANGED <<scene, raw, libQ, ethQ, popped, hosted, detached, stopped, sVars,
                   handed, conn, reading, inbox, served, dropping, late, faults, oVars>>

\* The handshake's context ends, and awaitHello's callback closes the session.
\* awaitHello does not wait for it: it may run when the view is admitted.
HelloEnds(c) ==
    /\ c \in handed \union {conn, ending, next}
    /\ c # None
    /\ rel[c]["eth"] = "held"
    /\ Fault
    /\ Release(c, "eth")
    /\ late' = late \union {c}
    /\ UNCHANGED <<scene, raw, libQ, ethQ, popped, hosted, detached, stopped, sVars,
                   handed, conn, reading, inbox, served, dropping, doomed, oVars>>

-----------------------------------------------------------------------------
(* A family opens a stream through its handle.  The handle's end, the       *)
(* caller's and the view's reach the call through callbacks, which may come *)
(* late.                                                                    *)

\* A family ends its handle; the supervisor hears of it later.
PeerClose ==
    /\ up # None
    /\ Fault
    /\ up' = None
    /\ UNCHANGED <<scene, tVars, sVars, supVars, callVars>>

OpenCall(o) ==
    /\ o \in scene.opens
    /\ call[o] = "idle"
    /\ \E c \in {conn, up} \ {None} :
          /\ via' = [via EXCEPT ![o] = c]
          /\ call' = [call EXCEPT ![o] = IF up = c THEN "opening" ELSE "failed"]
    /\ UNCHANGED <<scene, tVars, sVars, supVars, up, cut, sent, faults>>

\* Conn.OpenStream waits for stream credit, until the context or the view ends.
OpenSync(o) ==
    /\ call[o] = "opening"
    /\ \/ /\ ~cut[o]
          /\ raw[via[o]] = "up"
          /\ call' = [call EXCEPT ![o] = "opened"]
          /\ sent' = [sent EXCEPT ![o] = "open"]
       \/ /\ cut[o] \/ Ended(via[o], "eth")
          /\ call' = [call EXCEPT ![o] = "failed"]
          /\ sent' = sent
    /\ UNCHANGED <<scene, tVars, sVars, supVars, up, via, cut, faults>>

\* The callback of the handle's context runs, or the caller's context ends.
CutOff(o) ==
    /\ call[o] \in {"opening", "opened"}
    /\ ~cut[o]
    /\ IF up # via[o] THEN faults' = faults ELSE Fault
    /\ cut' = [cut EXCEPT ![o] = TRUE]
    /\ UNCHANGED <<scene, tVars, sVars, supVars, up, call, via, sent>>

\* The call fails, and resets the stream.
GiveUp(o) ==
    /\ call' = [call EXCEPT ![o] = "failed"]
    /\ sent' = [sent EXCEPT ![o] = "reset"]

\* WriteSelector, and then a look at the context.  The write fails with the
\* connection, or when the peer does not want the stream.
WriteHeader(o) ==
    /\ call[o] = "opened"
    /\ \/ /\ ~cut[o] /\ ~Down(via[o])
          /\ call' = [call EXCEPT ![o] = "wrote"]
          /\ UNCHANGED <<sent, faults>>
       \/ /\ GiveUp(o)
          /\ IF cut[o] \/ Down(via[o]) THEN faults' = faults ELSE Fault
    /\ UNCHANGED <<scene, tVars, sVars, supVars, up, via, cut>>

\* Mutant: the handle is not looked at again.
ReturnBlind(o) ==
    /\ call[o] = "wrote"
    /\ call' = [call EXCEPT ![o] = "returned"]
    /\ UNCHANGED <<scene, tVars, sVars, supVars, up, via, cut, sent, faults>>

\* The handle may have ended before its callback ran: such a stream is never
\* returned.
ReturnStream(o) ==
    /\ call[o] = "wrote"
    /\ IF up = via[o]
         THEN call' = [call EXCEPT ![o] = "returned"] /\ sent' = sent
         ELSE GiveUp(o)
    /\ UNCHANGED <<scene, tVars, sVars, supVars, up, via, cut, faults>>

Opens(o) == OpenCall(o) \/ OpenSync(o) \/ CutOff(o) \/ WriteHeader(o) \/ ReturnStream(o)

-----------------------------------------------------------------------------
Releases(c) == CloseView(c) \/ HelloEnds(c) \/ \E v \in Sides : CloseSide(c, v)

Endpoint(c) == ConnArrives(c) \/ Dial(c) \/ Libp2pCloses(c) \/ ConnLost(c)

Listener == Accept \/ ListenerPop \/ ListenerAccept \/ DetachLibp2p \/ Shutdown

Dispatch(s) == DrainUni(s) \/ DrainBidi(s) \/ Classify(s)

Supervise ==
    \/ HeaderRead
    \/ DropView
    \/ EndHandles
    \/ AttachNext
    \/ Exit
    \/ \E d \in Dirs : Wake(d)
    \/ \E c \in Conns : Attach(c) \/ Reject(c)

Next ==
    \/ Supervise
    \/ Listener
    \/ \E c \in Conns : Endpoint(c) \/ Releases(c) \/ AcceptStream(c)
    \/ \E s \in Streams : Dispatch(s) \/ ReadHeader(s) \/ PeerSends(s) \/ PeerResets(s)
    \/ PeerClose
    \/ \E o \in Calls : Opens(o)

Spec == Init /\ [][Next]_vars

-----------------------------------------------------------------------------

\* The header slots are exact and never keep a stream waiting: while a view is
\* current, each direction counts the reads of that view under way or reported,
\* whatever became of the reads of earlier views, and a stream stays in the
\* transport queue only if the wake channel holds a token or all slots are taken
\* (supervisor.go:244-252 "so no wake is lost").
HeaderSlots ==
    conn # None => \A d \in Dirs :
        /\ reading[d] = Cardinality({s \in Streams :
                          /\ Exists(s) /\ ConnOf(s) = conn /\ DirOf(s) = d
                          /\ \/ place[s] = "header"
                             \/ \E i \in 1..Len(inbox) : inbox[i].stream = s})
        /\ reading[d] <= MaxReads
        /\ queue[conn][d] # <<>> /\ ~Ended(conn, "eth") =>
               ready[conn][d] \/ reading[d] = MaxReads

\* A stream of a released view is not left behind on a connection that lives on
\* for the other view, where it would hold stream credit for good: once the
\* release is done, a stream sits in no queue of that view, and one that waits at
\* all waits in a queue of the other (conn.go "A concurrent push either joins this
\* batch or observes closed").  A header may still be read: the supervisor, or the
\* reader if it has exited, routes or cancels that stream.
NoOrphanStream ==
    \A c \in Conns, q \in Queues : rel[c][SideOf(q)] = "done" =>
        /\ queue[c][q] = <<>>
        /\ \A s \in Streams : Exists(s) /\ ConnOf(s) = c /\ place[s] = "queued" =>
              \E p \in Queues \ {q} : \E i \in 1..Len(queue[c][p]) : queue[c][p][i] = s
        /\ \A s \in Streams : Exists(s) /\ ConnOf(s) = c /\ place[s] = "posted" =>
              c \in served /\ \E i \in 1..Len(inbox) : inbox[i].stream = s

\* A stream that reached a family was sent by the peer with exactly that
\* protocol's header, on the current view's connection or an earlier one's, and
\* a stream that reached libp2p is a bidirectional one that began with the
\* multistream byte: no stream is taken for another protocol's, whatever its
\* bytes (wire.go "No ethp2p stream header begins with it").
RoutedAsSent ==
    \A s \in Streams :
        /\ place[s] = "routed" =>
              \E r \in Routes : LET h == AppendSelector(r)
                                IN h = SubSeq(BytesOf(s), 1, Len(h))
        /\ place[s] = "libp2p" => DirOf(s) = "bidi" /\ BytesOf(s)[1] = Reserved

\* The connection is shared to the end and not beyond: this node closes it only
\* when both views have been released, it closes it when both releases are done,
\* however they interleave, and once libp2p has detached its view is released or
\* in libp2p's own hands, so that the ethp2p release is enough (conn.go:186-195,
\* endpoint.go:206-208).
SharedToTheEnd ==
    \A c \in Conns :
        /\ raw[c] = "closed" => \A v \in Sides : rel[c][v] # "held"
        /\ (\A v \in Sides : rel[c][v] = "done") => Down(c)
        /\ detached /\ raw[c] # "none" =>
               rel[c]["lib"] # "held" \/ c \in hosted \/ c = popped

\* A stream that a family opens is in its hands or reset.  It is handed out only
\* while its handle lives, however late the handle's end reaches the call, and so
\* before dropView's release begins: only awaitHello's callback may have released
\* the view by then.  And a call that fails leaves no stream open, which would hold
\* credit of the connection that lives on for libp2p or for the next view
\* (family.go:242-244 "This recheck never returns such a stream").
OpensOwned ==
    [][\A o \in Calls :
         /\ call'[o] = "returned" /\ call[o] # "returned" =>
                up = via[o] /\ (rel[via[o]]["eth"] = "held" \/ via[o] \in late)
         /\ call'[o] = "failed" => sent'[o] # "open"]_vars

\* No shorter prefix reads as anything.
Waits(Read(_), b, len) == \A n \in 0..(len - 1) : Read(SubSeq(b, 1, n)) = More

HeaderCanonical(b, sel) ==
    sel.kind = "ok" =>
        /\ AppendSelector(sel.value) = SubSeq(b, 1, sel.len)
        /\ Waits(ParseSelector, b, sel.len)

FrameCanonical(b, frame) ==
    LET Frame(bytes) == ReadFrame(bytes, Len(b))
    IN frame.kind = "ok" =>
        /\ AppendFrame(frame.value[1], frame.value[2]) = SubSeq(b, 1, frame.len)
        /\ Waits(Frame, b, frame.len)

HelloCanonical(b, hello) ==
    hello.kind = "ok" =>
        /\ ValidFamilies(hello.value)
        /\ ReadHello(HelloBytes(hello.value)).value = hello.value
        /\ Waits(ReadHello, b, hello.len)

GoAwayCanonical(b, bye) ==
    bye.kind = "ok" =>
        /\ ~bye.value.protocol
        /\ ReadGoAway(GoAwayBytes(bye.value)).value = bye.value
        /\ Waits(ReadGoAway, b, bye.len)

ItemCanonical(b, item) ==
    item # Invalid =>
        /\ (IF item.kind = "list" THEN EncodeList(item.payload)
                                  ELSE EncodeBytes(item.payload)) = b
        /\ DecodeUint(item) # -1 => EncodeUint(DecodeUint(item)) = b

\* The codecs are canonical on whatever the peer sends.  Bytes that read as a
\* stream header, a frame or a record's RLP item are the one encoding of what was
\* read, and no shorter prefix of a header, a frame or a control message reads as
\* anything, so a reader that gets the bytes one at a time stops neither early nor
\* late (wire.go:151-155, 224-228, 266-268).  A HELLO that is accepted has families
\* the sender may announce, and would read the same if this node had sent it; the
\* code of a GOAWAY is a stack code that this node could have sent.
CodecCanonical ==
    \A s \in Streams : place[s] = "header" /\ data[s] = "all" =>
        LET b == BytesOf(s)
            greeting == AppendSelector(ControlSelector) \o b
        IN /\ HeaderCanonical(b, ReadSelector(b))
           /\ FrameCanonical(b, ReadFrame(b, Len(b)))
           /\ HelloCanonical(greeting, ReadHello(greeting))
           /\ GoAwayCanonical(b, ReadGoAway(b))
           /\ ItemCanonical(b, DecodeSingle(b))

=============================================================================
