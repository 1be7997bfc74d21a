------------------------------- MODULE Engine -------------------------------
(***************************************************************************)
(* The broadcast engine (broadcast/engine.go), a single actor between the   *)
(* family's events, the channels and one PeerConn for every handle          *)
(* (broadcast/peer.go, peer_in.go).  It binds a peer on PeerUp, makes it    *)
(* ready when its BCAST handshake is done, enrols it in the channels it     *)
(* subscribed to, hands it its streams, and joins its goroutines on         *)
(* PeerDown; every send it makes to a channel, and the join, may block it.  *)
(*                                                                          *)
(* One remote peer, whose handles follow one another: the family returns an *)
(* ID's PeerDown before its next PeerUp (FamilyDelivery).  What a channel   *)
(* does with its events is in ChannelIntake, what the control and data      *)
(* loops write in CtrlOut and ChunkSend.                                    *)
(***************************************************************************)
EXTENDS Integers, Sequences, FiniteSets

CONSTANTS
    MaxHandles, \* bound: how often the peer connects
    MaxIds,     \* number of channel IDs
    Chans,      \* Channel objects, each made by one AttachChannel
    IdOf,       \* the ID of each
    EventCap,   \* capacity of eventCh
    InboxCap,   \* channelInboxCap
    SessionCap, \* streamQueueCap: SESS handoff queue and readers
    ChunkSem,   \* maxInboundChunkStreams
    Scenes,     \* the handles, channels and streams there are, and the bounds on
                \* the SUBSCRIBE and UNSUBSCRIBE frames of a handle and on faults,
                \* and the handles that are sent a chunk
    None

Handles == 1..MaxHandles
Ids == 1..MaxIds
Kinds == {"BCAST", "SESS", "CHUNK", "BIDI"}

ASSUME EngineAssumption ==
    /\ MaxHandles \in Nat /\ MaxIds \in Nat /\ EventCap \in Nat /\ InboxCap \in Nat
    /\ SessionCap \in Nat /\ ChunkSem \in Nat
    /\ IdOf \in [Chans -> Ids]
    /\ \A sc \in Scenes :
          /\ sc.faults \in Nat /\ sc.frames \in Nat /\ sc.handles \subseteq Handles
          /\ sc.chans \subseteq Chans /\ sc.sends \subseteq Handles
          /\ \A i \in DOMAIN sc.streams :
                sc.streams[i] \in [handle : Handles, kind : Kinds, id : Ids]

VARIABLES
    scene,
    handle,     \* the family's handle: "none", "queued", "up", "ending" or "down"
    closing,    \* e.ctx has ended
    estate,     \* the actor: "run", "shutdown" or "stopped"
    events,     \* eventCh
    todo,       \* what is left of the function the actor runs
    bindings, peers, channels,
    subs, bound, frames,                \* of a PeerConn
    run,        \* where its Run is
    stopped,    \* its context was cancelled, by itself or by the engine's end
    hsIn, hsOut, ctrlOut, ready, claimed, closed,
    workers,    \* its control loop and reader; loops: the data and the accept loops
    result,     \* the channel its data loop reports a chunk to; "none" before, "sent" after
    place,      \* where a stream is
    to,         \* the channel a reader sends it to
    user,       \* a Channel's owner: "none", "attach", "attached", "stop", "drop", "gone"
    over,       \* Channels whose context was cancelled
    done,       \* Channels whose actor has exited
    inbox, members,
    faults

famVars == <<handle>>
engVars == <<closing, estate, events, todo, bindings, peers, channels, subs, bound>>
peerVars == <<frames, run, stopped, hsIn, hsOut, ctrlOut, ready, claimed, closed,
              workers, result>>
strVars == <<place, to>>
chanVars == <<user, over, done, inbox, members>>
vars == <<scene, famVars, engVars, peerVars, strVars, chanVars, faults>>

Streams == 1..Len(scene.streams)
HandleOf(s) == scene.streams[s].handle
KindOf(s) == scene.streams[s].kind
StreamId(s) == scene.streams[s].id

Init ==
    /\ scene \in Scenes
    /\ handle = [h \in Handles |-> "none"]
    /\ closing = FALSE
    /\ estate = "run"
    /\ events = <<>>
    /\ todo = <<>>
    /\ bindings = {}
    /\ peers = None
    /\ channels = [i \in Ids |-> None]
    /\ subs = [h \in Handles |-> {}]
    /\ bound = [h \in Handles |-> [i \in Ids |-> None]]
    /\ frames = [h \in Handles |-> 0]
    /\ run = [h \in Handles |-> "none"]
    /\ stopped = {}
    /\ hsIn = [h \in Handles |-> "none"]
    /\ hsOut = [h \in Handles |-> "none"]
    /\ ctrlOut = [h \in Handles |-> "none"]
    /\ ready = {}
    /\ claimed = {}
    /\ closed = {}
    /\ workers = [h \in Handles |-> {}]
    /\ result = [h \in Handles |-> "none"]
    /\ place = [s \in Streams |-> "away"]
    /\ to = [s \in Streams |-> None]
    /\ user = [x \in Chans |-> "none"]
    /\ over = {}
    /\ done = {}
    /\ inbox = [x \in Chans |-> <<>>]
    /\ members = [x \in Chans |-> None]
    /\ faults = 0

Fault ==
    /\ faults < scene.faults
    /\ faults' = faults + 1

\* p.ctx: it ends with the handle's context, by p.cancel, and some time after
\* the engine's context.
Ended(h) == h \in stopped \/ handle[h] \in {"ending", "down"}

\* A channel's context ends with the engine's.
Over(x) == x \in over \/ closing

\* Engine.post: blocks while eventCh is full, and gives up with e.ctx.
Post(e) ==
    \/ Len(events) < EventCap /\ events' = Append(events, e)
    \/ closing /\ events' = events

-----------------------------------------------------------------------------
(* The family and the peer's streams.                                       *)

PeerComes(h) ==
    /\ h \in scene.handles
    /\ handle[h] = "none"
    /\ h > 1 => handle[h - 1] \in {"ending", "down"}
    /\ handle' = [handle EXCEPT ![h] = "queued"]
    /\ UNCHANGED <<scene, engVars, peerVars, strVars, chanVars, faults>>

StreamArrives(s) ==
    /\ place[s] = "away"
    /\ \A t \in 1..(s - 1) : HandleOf(t) = HandleOf(s) => place[t] # "away"
    /\ handle[HandleOf(s)] \in {"queued", "up"}
    /\ place' = [place EXCEPT ![s] = "offered"]
    /\ UNCHANGED <<scene, famVars, engVars, peerVars, to, chanVars, faults>>

\* closePeer resets what was not handed over; a handle whose PeerUp was not
\* returned leaves no event.
ResetOffered(h) == [s \in Streams |->
    IF HandleOf(s) = h /\ place[s] = "offered" THEN "ended" ELSE place[s]]

PeerGoes(h) ==
    /\ handle[h] \in {"queued", "up"}
    /\ Fault
    /\ handle' = [handle EXCEPT ![h] = IF @ = "up" THEN "ending" ELSE "down"]
    /\ place' = ResetOffered(h)
    /\ UNCHANGED <<scene, engVars, peerVars, to, chanVars>>

-----------------------------------------------------------------------------
(* The actor: a function runs to its end, and what may block is in todo.    *)

Idle == estate = "run" /\ todo = <<>>

Bind(h, i, x) == [op |-> "bind", peer |-> h, id |-> i, chan |-> x]
Send(x, m) == [op |-> "send", chan |-> x, member |-> m]
CloseOps(h) == IF h \in closed THEN <<>>
               ELSE <<[op |-> "close", peer |-> h], [op |-> "join", peer |-> h]>>

\* enrolPeerToChannel and unenrolPeerFromChannel, with the channels cs.
EnrolOps(h, i, cs) ==
    IF cs[i] = None THEN <<>> ELSE <<Bind(h, i, cs[i]), Send(cs[i], h)>>
UnenrolOps(h, i) ==
    <<Bind(h, i, None)>> \o (IF channels[i] = None THEN <<>> ELSE <<Send(channels[i], None)>>)

\* The operations for each ID of a set, one after the other.
ForEach(is, Ops(_)) ==
    LET ops[i \in 0..MaxIds] ==
            IF i = 0 THEN <<>> ELSE ops[i - 1] \o (IF i \in is THEN Ops(i) ELSE <<>>)
    IN ops[MaxIds]

\* handlePeerGone: only the current binding leaves peers and its channels.
PeerGone(h) ==
    LET unenrol(i) == UnenrolOps(h, i)
    IN /\ peers' = IF peers = h THEN None ELSE peers
       /\ todo' = (IF peers = h THEN ForEach(subs[h], unenrol) ELSE <<>>) \o CloseOps(h)

\* bindPeer.  The handle may end after Next returned its PeerUp and before the
\* engine looks.
DeliverUp(h) ==
    /\ Idle
    /\ handle[h] = "queued"
    /\ h > 1 => handle[h - 1] = "down"
    /\ \/ /\ handle' = [handle EXCEPT ![h] = "up"]
          /\ bindings' = bindings \union {h}
          /\ run' = [run EXCEPT ![h] = "handshake"]
          /\ UNCHANGED <<place, faults>>
       \/ /\ Fault
          /\ handle' = [handle EXCEPT ![h] = "ending"]
          /\ place' = ResetOffered(h)
          /\ UNCHANGED <<bindings, run>>
    /\ UNCHANGED <<scene, closing, estate, events, todo, peers, channels, subs, bound, frames,
                   stopped, hsIn, hsOut, ctrlOut, ready, claimed, closed, workers, result, to, chanVars>>

Count(h, p) == Cardinality({s \in Streams : HandleOf(s) = h /\ place[s] = p})

\* enqueueStream and acceptBcast: one BCAST stream, and SESS up to its bound.
Enqueued(s) ==
    LET h == HandleOf(s)
    IN CASE Ended(h) \/ closing \/ h \notin bindings \/ KindOf(s) = "BIDI" -> "ended"
         [] KindOf(s) = "BCAST" ->
              IF \E t \in 1..(s - 1) : HandleOf(t) = h /\ KindOf(t) = "BCAST"
              THEN "ended" ELSE "slot"
         [] KindOf(s) = "SESS" -> IF Count(h, "sessionIn") < SessionCap THEN "sessionIn" ELSE "ended"
         [] OTHER -> "chunkIn"

\* handleStreamEvent
DeliverStream(s) ==
    /\ Idle
    /\ place[s] = "offered"
    /\ handle[HandleOf(s)] = "up"
    /\ \A t \in 1..(s - 1) : HandleOf(t) = HandleOf(s) => place[t] # "offered"
    /\ place' = [place EXCEPT ![s] = Enqueued(s)]
    /\ UNCHANGED <<scene, famVars, engVars, peerVars, to, chanVars, faults>>

DeliverDown(h) ==
    /\ Idle
    /\ handle[h] = "ending"
    /\ handle' = [handle EXCEPT ![h] = "down"]
    /\ bindings' = bindings \ {h}
    /\ IF h \in bindings THEN PeerGone(h) ELSE UNCHANGED <<peers, todo>>
    /\ UNCHANGED <<scene, closing, estate, events, channels, subs, bound, peerVars, strVars,
                   chanVars, faults>>

\* The functions posted to eventCh.
Take(fn) ==
    /\ Idle
    /\ events # <<>>
    /\ Head(events).fn = fn
    /\ events' = Tail(events)

\* addChannel: a taken ID ends the newcomer.
AddChannel ==
    /\ Take("add")
    /\ LET x == Head(events).chan
           i == IdOf[x]
           cs == [channels EXCEPT ![i] = x]
       IN IF channels[i] # None
          THEN over' = over \union {x} /\ UNCHANGED <<channels, todo>>
          ELSE /\ channels' = cs
               /\ todo' = IF peers # None /\ i \in subs[peers] THEN EnrolOps(peers, i, cs) ELSE <<>>
               /\ UNCHANGED over
    /\ UNCHANGED <<scene, famVars, closing, estate, bindings, peers, subs, bound, peerVars,
                   strVars, user, done, inbox, members, faults>>

\* removeChannel
RemoveChannel ==
    /\ Take("drop")
    /\ LET i == Head(events).id
       IN /\ channels' = [channels EXCEPT ![i] = None]
          /\ bound' = IF peers = None \/ channels[i] = None THEN bound
                      ELSE [bound EXCEPT ![peers][i] = None]
    /\ UNCHANGED <<scene, famVars, closing, estate, todo, bindings, peers, subs, peerVars,
                   strVars, chanVars, faults>>

\* Mutant: a handshake that finished after PeerDown is not refused.
HandshakeLate ==
    /\ Take("handshook")
    /\ LET h == Head(events).peer
           is == Head(events).ids
           enrol(i) == EnrolOps(h, i, channels)
       IN /\ peers' = h
          /\ subs' = [subs EXCEPT ![h] = is]
          /\ todo' = Append(ForEach(is, enrol), [op |-> "ready", peer |-> h])
    /\ UNCHANGED <<scene, famVars, closing, estate, bindings, channels, bound, peerVars,
                   strVars, chanVars, faults>>

\* handlePeerHandshake
PeerHandshake ==
    /\ Take("handshook")
    /\ LET h == Head(events).peer
           is == Head(events).ids
           enrol(i) == EnrolOps(h, i, channels)
       IN IF Ended(h) THEN UNCHANGED <<peers, subs, todo>>
          ELSE /\ peers' = h
               /\ subs' = [subs EXCEPT ![h] = is]
               /\ todo' = Append(ForEach(is, enrol), [op |-> "ready", peer |-> h])
    /\ UNCHANGED <<scene, famVars, closing, estate, bindings, channels, bound, peerVars,
                   strVars, chanVars, faults>>

PeerReportedGone ==
    /\ Take("gone")
    /\ PeerGone(Head(events).peer)
    /\ UNCHANGED <<scene, famVars, closing, estate, bindings, channels, subs, bound, peerVars,
                   strVars, chanVars, faults>>

\* peerSubscribed and peerUnsubscribed
PeerSubscribed ==
    /\ Take("sub")
    /\ LET h == Head(events).peer
           i == Head(events).id
       IN IF peers # h \/ i \in subs[h] THEN UNCHANGED <<subs, todo>>
          ELSE /\ subs' = [subs EXCEPT ![h] = @ \union {i}]
               /\ todo' = EnrolOps(h, i, channels)
    /\ UNCHANGED <<scene, famVars, closing, estate, bindings, peers, channels, bound, peerVars,
                   strVars, chanVars, faults>>

PeerUnsubscribed ==
    /\ Take("unsub")
    /\ LET h == Head(events).peer
           i == Head(events).id
       IN IF peers # h \/ i \notin subs[h] THEN UNCHANGED <<subs, todo>>
          ELSE /\ subs' = [subs EXCEPT ![h] = @ \ {i}]
               /\ todo' = UnenrolOps(h, i)
    /\ UNCHANGED <<scene, famVars, closing, estate, bindings, peers, channels, bound, peerVars,
                   strVars, chanVars, faults>>

-----------------------------------------------------------------------------
(* What may block the actor.                                                *)

Step(op) ==
    /\ todo # <<>>
    /\ Head(todo).op = op
    /\ todo' = Tail(todo)

\* BindChannel and UnbindChannel; the readers see them at once.
BindChannel ==
    /\ Step("bind")
    /\ bound' = [bound EXCEPT ![Head(todo).peer][Head(todo).id] = Head(todo).chan]
    /\ UNCHANGED <<scene, famVars, closing, estate, events, bindings, peers, channels, subs,
                   peerVars, strVars, chanVars, faults>>

\* The send to a channel ends with room in the inbox, the channel's actor, or
\* the engine.
SendToChannel ==
    /\ Step("send")
    /\ LET x == Head(todo).chan
       IN \/ /\ Len(inbox[x]) < InboxCap
             /\ inbox' = [inbox EXCEPT ![x] = Append(@, [kind |-> "peer", member |-> Head(todo).member])]
          \/ /\ x \in done \/ closing
             /\ inbox' = inbox
    /\ UNCHANGED <<scene, famVars, closing, estate, events, bindings, peers, channels, subs, bound,
                   peerVars, strVars, user, over, done, members, faults>>

\* close(p.handshakeDone)
SetReady ==
    /\ Step("ready")
    /\ ready' = ready \union {Head(todo).peer}
    /\ UNCHANGED <<scene, famVars, closing, estate, events, bindings, peers, channels, subs, bound,
                   frames, run, stopped, hsIn, hsOut, ctrlOut, claimed, closed, workers, result,
                   strVars, chanVars, faults>>

\* PeerConn.Close: stop, claim the start, join, dispose.
ClosePeer ==
    /\ Step("close")
    /\ stopped' = stopped \union {Head(todo).peer}
    /\ claimed' = claimed \union {Head(todo).peer}
    /\ UNCHANGED <<scene, famVars, closing, estate, events, bindings, peers, channels, subs, bound,
                   frames, run, hsIn, hsOut, ctrlOut, ready, closed, workers, result,
                   strVars, chanVars, faults>>

\* p.wg: the workers and the stream readers they started.  The data loop and the
\* accept loops end with the context between two streams, which is seen when they
\* are joined.
Reading == {"reading", "sending", "session"}
Joined(h) ==
    /\ workers[h] \subseteq {"loops"}
    /\ result[h] \notin Chans
    /\ \A s \in Streams : HandleOf(s) = h => place[s] \notin Reading
    /\ workers' = [workers EXCEPT ![h] = {}]

\* Mutant: Close does not drain the queues.
JoinOnly ==
    /\ Step("join")
    /\ LET h == Head(todo).peer
       IN /\ Joined(h)
          /\ closed' = closed \union {h}
          /\ place' = [s \in Streams |->
                         IF HandleOf(s) = h /\ place[s] = "chunkIn" THEN "ended" ELSE place[s]]
    /\ UNCHANGED <<scene, famVars, closing, estate, events, bindings, peers, channels, subs, bound,
                   frames, run, stopped, hsIn, hsOut, ctrlOut, ready, claimed, result,
                   to, chanVars, faults>>

JoinPeer ==
    /\ Step("join")
    /\ LET h == Head(todo).peer
       IN /\ Joined(h)
          /\ closed' = closed \union {h}
          /\ place' = [s \in Streams |->
                         IF HandleOf(s) = h /\ place[s] \in {"slot", "sessionIn", "chunkIn"}
                         THEN "ended" ELSE place[s]]
    /\ UNCHANGED <<scene, famVars, closing, estate, events, bindings, peers, channels, subs, bound,
                   frames, run, stopped, hsIn, hsOut, ctrlOut, ready, claimed, result,
                   to, chanVars, faults>>

\* Engine.Close, and the actor that sees it: the family's events are cancelled,
\* the bindings closed, the channels awaited.
CloseEngine ==
    /\ ~closing
    /\ Fault
    /\ closing' = TRUE
    /\ UNCHANGED <<scene, famVars, estate, events, todo, bindings, peers, channels, subs, bound,
                   peerVars, strVars, chanVars>>

Shutdown ==
    /\ Idle
    /\ closing
    /\ estate' = "shutdown"
    /\ handle' = [h \in Handles |-> IF handle[h] = "queued" THEN "up"
                                    ELSE IF handle[h] = "ending" THEN "down" ELSE handle[h]]
    /\ place' = [s \in Streams |-> IF place[s] = "offered" THEN "ended" ELSE place[s]]
    /\ LET ops[h \in 0..MaxHandles] ==
               IF h = 0 THEN <<>> ELSE ops[h - 1] \o (IF h \in bindings THEN CloseOps(h) ELSE <<>>)
       IN todo' = ops[MaxHandles]
    /\ UNCHANGED <<scene, closing, events, bindings, peers, channels, subs, bound, peerVars,
                   to, chanVars, faults>>

Stopped ==
    /\ estate = "shutdown"
    /\ todo = <<>>
    /\ \A i \in Ids : channels[i] # None => channels[i] \in done
    /\ estate' = "stopped"
    /\ UNCHANGED <<scene, famVars, closing, events, todo, bindings, peers, channels, subs, bound,
                   peerVars, strVars, chanVars, faults>>

-----------------------------------------------------------------------------
(* PeerConn.Run.                                                            *)

\* The handshake's context: a half that fails ends the other.
Failing(h) == Ended(h) \/ hsIn[h] = "failed" \/ hsOut[h] = "failed"

EndHeld(h) == [s \in Streams |-> IF HandleOf(s) = h /\ place[s] = "held" THEN "ended" ELSE place[s]]

\* One half opens the BCAST stream and writes the Handshake.
WriteHandshake(h) ==
    /\ run[h] = "handshake"
    /\ hsOut[h] = "none"
    /\ \/ /\ ~Failing(h)
          /\ hsOut' = [hsOut EXCEPT ![h] = "ok"]
          /\ ctrlOut' = [ctrlOut EXCEPT ![h] = "open"]
          /\ faults' = faults
       \/ /\ hsOut' = [hsOut EXCEPT ![h] = "failed"]
          /\ ctrlOut' = ctrlOut
          /\ IF Failing(h) THEN faults' = faults ELSE Fault
    /\ UNCHANGED <<scene, famVars, engVars, frames, run, stopped, hsIn, ready, claimed, closed,
                   workers, result, strVars, chanVars>>

\* The other takes the peer's BCAST stream, when there is one, and reads its
\* Handshake.
ReadHandshake(h) ==
    /\ run[h] = "handshake"
    /\ hsIn[h] = "none"
    /\ \/ /\ ~Failing(h)
          /\ hsIn' = [hsIn EXCEPT ![h] = "ok"]
          /\ \E s \in Streams : /\ HandleOf(s) = h /\ place[s] = "slot"
                                /\ place' = [place EXCEPT ![s] = "held"]
          /\ faults' = faults
       \/ /\ hsIn' = [hsIn EXCEPT ![h] = "failed"]
          /\ \/ place' = place
             \/ \E s \in Streams : /\ HandleOf(s) = h /\ place[s] = "slot"
                                   /\ place' = [place EXCEPT ![s] = "ended"]
          /\ IF Failing(h) THEN faults' = faults ELSE Fault
    /\ UNCHANGED <<scene, famVars, engVars, frames, run, stopped, hsOut, ctrlOut, ready, claimed,
                   closed, workers, result, to, chanVars>>

\* The halves are joined.  On failure, or for an old version, what is open ends,
\* and Run stops the peer.
EndHandshake(h) ==
    /\ run[h] = "handshake"
    /\ hsIn[h] \in {"ok", "failed"}
    /\ hsOut[h] \in {"ok", "failed"}
    /\ \/ /\ hsIn[h] = "ok" /\ hsOut[h] = "ok"
          /\ run' = [run EXCEPT ![h] = "posting"]
          /\ UNCHANGED <<stopped, ctrlOut, place, faults>>
       \/ /\ IF hsIn[h] = "ok" /\ hsOut[h] = "ok" THEN Fault ELSE faults' = faults
          /\ run' = [run EXCEPT ![h] = "exiting"]
          /\ stopped' = stopped \union {h}
          /\ ctrlOut' = [ctrlOut EXCEPT ![h] = IF @ = "open" THEN "ended" ELSE @]
          /\ place' = EndHeld(h)
    /\ UNCHANGED <<scene, famVars, engVars, frames, hsIn, hsOut, ready, claimed, closed, workers, result,
                   to, chanVars>>

PostHandshake(h) ==
    /\ run[h] = "posting"
    /\ \E is \in SUBSET Ids : Post([fn |-> "handshook", peer |-> h, ids |-> is])
    /\ run' = [run EXCEPT ![h] = "waiting"]
    /\ UNCHANGED <<scene, famVars, closing, estate, todo, bindings, peers, channels, subs, bound,
                   frames, stopped, hsIn, hsOut, ctrlOut, ready, claimed, closed, workers, result,
                   strVars, chanVars, faults>>

\* The workers start under handlersMu, unless Close claimed the start.
StartWorkers(h) ==
    /\ run[h] = "waiting"
    /\ h \in ready \/ Ended(h)
    /\ IF Ended(h) \/ h \in claimed
       THEN /\ run' = [run EXCEPT ![h] = "exiting"]
            /\ stopped' = stopped \union {h}
            /\ UNCHANGED <<claimed, workers>>
       ELSE /\ run' = [run EXCEPT ![h] = "active"]
            /\ claimed' = claimed \union {h}
            /\ workers' = [workers EXCEPT ![h] = {"ctrl", "reader", "loops"}]
            /\ UNCHANGED stopped
    /\ UNCHANGED <<scene, famVars, engVars, frames, hsIn, hsOut, ctrlOut, ready, closed,
                   result, strVars, chanVars, faults>>

StopRun(h) ==
    /\ run[h] = "active"
    /\ Ended(h)
    /\ run' = [run EXCEPT ![h] = "exiting"]
    /\ stopped' = stopped \union {h}
    /\ UNCHANGED <<scene, famVars, engVars, frames, hsIn, hsOut, ctrlOut, ready, claimed, closed,
                   workers, result, strVars, chanVars, faults>>

\* The deferred part of Run: join, end the control streams if no worker has (a
\* second cancellation does nothing), and report.
ReportGone(h) ==
    /\ run[h] = "exiting"
    /\ Joined(h)
    /\ Post([fn |-> "gone", peer |-> h])
    /\ run' = [run EXCEPT ![h] = "done"]
    /\ place' = EndHeld(h)
    /\ ctrlOut' = [ctrlOut EXCEPT ![h] = IF @ = "open" THEN "ended" ELSE @]
    /\ UNCHANGED <<scene, famVars, closing, estate, todo, bindings, peers, channels, subs, bound,
                   frames, stopped, hsIn, hsOut, ready, claimed, closed, result,
                   to, chanVars, faults>>

\* The AfterFunc on the engine's context.
EngineCancels(h) ==
    /\ closing
    /\ run[h] # "none"
    /\ h \notin stopped
    /\ stopped' = stopped \union {h}
    /\ UNCHANGED <<scene, famVars, engVars, frames, run, hsIn, hsOut, ctrlOut, ready, claimed,
                   closed, workers, result, strVars, chanVars, faults>>

-----------------------------------------------------------------------------
(* The workers of a PeerConn.                                               *)

\* runCtrlReader posts until the engine or the peer ends.
ReadControl(h) ==
    /\ "reader" \in workers[h]
    /\ frames[h] < scene.frames
    /\ \E i \in Ids, fn \in {"sub", "unsub"} : Post([fn |-> fn, peer |-> h, id |-> i])
    /\ frames' = [frames EXCEPT ![h] = @ + 1]
    /\ UNCHANGED <<scene, famVars, closing, estate, todo, bindings, peers, channels, subs, bound,
                   run, stopped, hsIn, hsOut, ctrlOut, ready, claimed, closed, workers, result,
                   strVars, chanVars, faults>>

\* runDataLoop takes a chunk of a session of a channel that has the peer.
TakeChunk(h) ==
    /\ "loops" \in workers[h]
    /\ h \in scene.sends
    /\ result[h] = "none"
    /\ \E x \in Chans : members[x] = h /\ result' = [result EXCEPT ![h] = x]
    /\ UNCHANGED <<scene, famVars, engVars, frames, run, stopped, hsIn, hsOut, ctrlOut, ready,
                   claimed, closed, workers, strVars, chanVars, faults>>

\* handleSendChunk: doSendChunk ends with its deadline, and the report of the
\* result with room in the inbox, with the session, and so with the channel, or with
\* the peer.
ReportChunk(h) ==
    /\ result[h] \in Chans
    /\ LET x == result[h]
       IN \/ /\ Len(inbox[x]) < InboxCap
             /\ inbox' = [inbox EXCEPT ![x] = Append(@, [kind |-> "result"])]
          \/ /\ Over(x) \/ Ended(h)
             /\ inbox' = inbox
    /\ result' = [result EXCEPT ![h] = "sent"]
    /\ UNCHANGED <<scene, famVars, engVars, frames, run, stopped, hsIn, hsOut, ctrlOut, ready,
                   claimed, closed, workers, strVars, user, over, done, members, faults>>

\* The control reader and the control loop end with the context, or by themselves,
\* for a failed stream, and take the peer along.
EndWorker(h, w) ==
    /\ w \in workers[h] \ {"loops"}
    /\ IF Ended(h) THEN faults' = faults ELSE Fault
    /\ workers' = [workers EXCEPT ![h] = @ \ {w}]
    /\ stopped' = IF Ended(h) THEN stopped ELSE stopped \union {h}
    /\ ctrlOut' = IF w = "ctrl" THEN [ctrlOut EXCEPT ![h] = "ended"] ELSE ctrlOut
    /\ place' = IF w = "reader" THEN EndHeld(h) ELSE place
    /\ UNCHANGED <<scene, famVars, engVars, frames, run, hsIn, hsOut, ready, claimed, closed,
                   result, to, chanVars>>

First(h, p) == CHOOSE s \in Streams :
    /\ HandleOf(s) = h /\ place[s] = p
    /\ \A t \in 1..(s - 1) : HandleOf(t) = h => place[t] # p

Readers(h, k) == {s \in Streams : HandleOf(s) = h /\ KindOf(s) = k /\ place[s] \in Reading}

\* acceptSession refuses a stream beyond its readers; acceptChunk waits.
AcceptSession(h) ==
    /\ "loops" \in workers[h]
    /\ Count(h, "sessionIn") > 0
    /\ \/ /\ Cardinality(Readers(h, "SESS")) < SessionCap
          /\ place' = [place EXCEPT ![First(h, "sessionIn")] = "reading"]
       \/ /\ Cardinality(Readers(h, "SESS")) >= SessionCap \/ Ended(h)
          /\ place' = [place EXCEPT ![First(h, "sessionIn")] = "ended"]
    /\ UNCHANGED <<scene, famVars, engVars, peerVars, to, chanVars, faults>>

AcceptChunk(h) ==
    /\ "loops" \in workers[h]
    /\ Count(h, "chunkIn") > 0
    /\ \/ /\ Cardinality(Readers(h, "CHUNK")) < ChunkSem
          /\ place' = [place EXCEPT ![First(h, "chunkIn")] = "reading"]
       \/ /\ Ended(h)
          /\ place' = [place EXCEPT ![First(h, "chunkIn")] = "ended"]
    /\ UNCHANGED <<scene, famVars, engVars, peerVars, to, chanVars, faults>>

\* runInboundSession and processChunk: read the first frame and look the channel
\* up among those bound.
ReadStream(s) ==
    /\ place[s] = "reading"
    /\ LET x == bound[HandleOf(s)][StreamId(s)]
       IN \/ /\ x # None
             /\ place' = [place EXCEPT ![s] = "sending"]
             /\ to' = [to EXCEPT ![s] = x]
             /\ faults' = faults
          \/ /\ place' = [place EXCEPT ![s] = "ended"]
             /\ to' = to
             /\ IF x = None \/ Ended(HandleOf(s)) THEN faults' = faults ELSE Fault
    /\ UNCHANGED <<scene, famVars, engVars, peerVars, chanVars>>

\* Mutant: a reader waits for the channel alone.
SendStreamDeaf(s) ==
    /\ place[s] = "sending"
    /\ LET x == to[s]
       IN /\ Len(inbox[x]) < InboxCap
          /\ inbox' = [inbox EXCEPT ![x] = Append(@, [kind |-> "stream", stream |-> s])]
          /\ place' = [place EXCEPT ![s] =
                         IF KindOf(s) = "SESS" THEN "session" ELSE IF Over(x) THEN "ended" ELSE "channel"]
    /\ UNCHANGED <<scene, famVars, engVars, peerVars, to, user, over, done, members, faults>>

\* The send to the channel ends with room, the channel's context, or the peer's.
\* A CHUNK stream is the channel's from then on, unless the channel is ending.
SendStream(s) ==
    /\ place[s] = "sending"
    /\ LET x == to[s]
       IN \/ /\ Len(inbox[x]) < InboxCap
             /\ inbox' = [inbox EXCEPT ![x] = Append(@, [kind |-> "stream", stream |-> s])]
             /\ place' = [place EXCEPT ![s] =
                            IF KindOf(s) = "SESS" THEN "session"
                            ELSE IF Over(x) THEN "ended" ELSE "channel"]
          \/ /\ Over(x) \/ Ended(HandleOf(s))
             /\ inbox' = inbox
             /\ place' = [place EXCEPT ![s] = "ended"]
    /\ UNCHANGED <<scene, famVars, engVars, peerVars, to, user, over, done, members, faults>>

\* A SESS stream ends at FIN or a reset, which the channel is told, or with the
\* channel or the peer.
EndSession(s) ==
    /\ place[s] = "session"
    /\ LET x == to[s]
       IN \/ /\ Len(inbox[x]) < InboxCap
             /\ inbox' = [inbox EXCEPT ![x] = Append(@, [kind |-> "stream", stream |-> s])]
          \/ /\ Over(x) \/ Ended(HandleOf(s))
             /\ inbox' = inbox
    /\ place' = [place EXCEPT ![s] = "ended"]
    /\ UNCHANGED <<scene, famVars, engVars, peerVars, to, user, over, done, members, faults>>

-----------------------------------------------------------------------------
(* The channels and their owners.                                           *)

AttachChannel(x) ==
    /\ user[x] = "none"
    /\ x \in scene.chans
    /\ Post([fn |-> "add", chan |-> x])
    /\ user' = [user EXCEPT ![x] = "attached"]
    /\ UNCHANGED <<scene, famVars, closing, estate, todo, bindings, peers, channels, subs, bound,
                   peerVars, strVars, over, done, inbox, members, faults>>

Stop(x) ==
    /\ user[x] = "attached"
    /\ Fault
    /\ user' = [user EXCEPT ![x] = "stop"]
    /\ over' = over \union {x}
    /\ UNCHANGED <<scene, famVars, engVars, peerVars, strVars, done, inbox, members>>

DropChannel(x) ==
    /\ user[x] = "stop"
    /\ x \in done
    /\ Post([fn |-> "drop", id |-> IdOf[x]])
    /\ user' = [user EXCEPT ![x] = "gone"]
    /\ UNCHANGED <<scene, famVars, closing, estate, todo, bindings, peers, channels, subs, bound,
                   peerVars, strVars, over, done, inbox, members, faults>>

\* Channel.run
ChannelHandles(x) ==
    /\ x \notin done
    /\ inbox[x] # <<>>
    /\ inbox' = [inbox EXCEPT ![x] = Tail(@)]
    /\ members' = IF Head(inbox[x]).kind = "peer"
                  THEN [members EXCEPT ![x] = Head(inbox[x]).member] ELSE members
    /\ UNCHANGED <<scene, famVars, engVars, peerVars, strVars, user, over, done, faults>>

ChannelEnds(x) ==
    /\ x \notin done
    /\ user[x] # "none"
    /\ Over(x)
    /\ done' = done \union {x}
    /\ inbox' = [inbox EXCEPT ![x] = <<>>]
    /\ place' = [s \in Streams |-> IF to[s] = x /\ place[s] = "channel" THEN "ended" ELSE place[s]]
    /\ UNCHANGED <<scene, famVars, engVars, peerVars, to, user, over, members, faults>>

-----------------------------------------------------------------------------

Deliver ==
    \/ \E h \in Handles : DeliverUp(h) \/ DeliverDown(h)
    \/ \E s \in Streams : DeliverStream(s)

Handle ==
    \/ AddChannel \/ RemoveChannel \/ PeerHandshake \/ PeerReportedGone
    \/ PeerSubscribed \/ PeerUnsubscribed

Block == BindChannel \/ SendToChannel \/ SetReady \/ ClosePeer \/ JoinPeer

Actor == Deliver \/ Handle \/ Block \/ Shutdown \/ Stopped

Running(h) ==
    \/ WriteHandshake(h) \/ ReadHandshake(h) \/ EndHandshake(h)
    \/ PostHandshake(h) \/ StartWorkers(h) \/ StopRun(h) \/ ReportGone(h) \/ EngineCancels(h)

Working(h) ==
    \/ ReadControl(h) \/ TakeChunk(h) \/ ReportChunk(h) \/ AcceptSession(h) \/ AcceptChunk(h)
    \/ \E w \in workers[h] : EndWorker(h, w)

Reader(s) == ReadStream(s) \/ SendStream(s) \/ EndSession(s)

Channel(x) == ChannelHandles(x) \/ ChannelEnds(x) \/ DropChannel(x)

\* What the program does by itself.
Program ==
    \/ Actor
    \/ \E h \in Handles : Running(h) \/ Working(h)
    \/ \E s \in Streams : Reader(s)
    \/ \E x \in Chans : Channel(x)

Environment ==
    \/ \E h \in Handles : PeerComes(h) \/ PeerGoes(h)
    \/ \E s \in Streams : StreamArrives(s)
    \/ \E x \in Chans : AttachChannel(x) \/ Stop(x)
    \/ CloseEngine

Next == Program \/ Environment

Spec == Init /\ [][Next]_vars

\* The Go scheduler runs some goroutine that can run.
FairSpec == Spec /\ WF_vars(Program)

-----------------------------------------------------------------------------

\* What a channel will hold of the peer when its inbox and the actor's sends are
\* through.
Final(x) ==
    LET posted == SelectSeq(inbox[x], LAMBDA e : e.kind = "peer")
        sends == SelectSeq(todo, LAMBDA o : o.op = "send" /\ o.chan = x)
    IN IF sends # <<>> THEN sends[Len(sends)].member
       ELSE IF posted # <<>> THEN posted[Len(posted)].member
       ELSE members[x]

\* The channels and the engine agree on the peer: a registered channel that has
\* not ended has, or will get, the peer's current PeerConn exactly if the peer
\* subscribed to its ID, whatever subscriptions, channel changes, disconnects
\* and reconnects came in between, and the peer the engine counts as ready is
\* one whose PeerDown it has not seen (engine.go:221-225 "a handshake that
\* finishes after it fails this check").
MembersAgree ==
    ~closing =>
        /\ peers # None => peers \in bindings
        /\ \A i \in Ids : LET x == channels[i]
           IN x # None /\ x \notin over =>
                  Final(x) = IF peers # None /\ i \in subs[peers] THEN peers ELSE None

\* Every stream handed to broadcast is ended or a channel's once the engine has
\* closed the PeerConn, wherever the handshake, the accept loops and the readers
\* were, and the control streams end with Run; after the actor's exit this holds
\* for every PeerConn (peer.go:262-278 "cannot race a final enqueue").
StreamsDisposed ==
    /\ \A s \in Streams : HandleOf(s) \in closed => place[s] \notin Reading \union
           {"slot", "sessionIn", "chunkIn"}
    /\ \A h \in Handles : run[h] = "done" =>
           /\ ctrlOut[h] # "open"
           /\ \A s \in Streams : HandleOf(s) = h => place[s] # "held"
    /\ estate = "stopped" => bindings \subseteq closed

\* Close returns: however the actor, the PeerConns, their readers and the
\* channels wait on one another when the engine's context ends, the actor exits
\* and every Run with it (engine.go:93-99, peer_ctrl.go:62).
CloseReturns ==
    closing ~> estate = "stopped" /\ \A h \in Handles : run[h] \in {"none", "done"}

=============================================================================
