---------------------------- MODULE ChannelIntake ----------------------------
(***************************************************************************)
(* The inbound half of a broadcast channel: the channel actor with its inbox *)
(* (broadcast/channel.go), the sessions it creates, feeds and disposes        *)
(* (broadcast/session.go), and the goroutines that post to it: the readers    *)
(* of CHUNK and SESS streams (broadcast/peer_in.go), the payload readers and  *)
(* the decoder of a session, and the expiry timers.                           *)
(*                                                                          *)
(* One message is modelled: sessions of different messages share only the     *)
(* inbox.  Its session may be disposed and created again, and the events of   *)
(* an earlier generation's goroutines may still be in the inbox then.         *)
(*                                                                          *)
(* closeWithCode cancels a session's context and waits for its goroutines:    *)
(* the actor is "closing" in between.  What a session sends is the subject of *)
(* ChunkSend and CtrlOut.                                                     *)
(***************************************************************************)
EXTENDS Naturals, Sequences, FiniteSets, Functions

CONSTANTS
    Peers,       \* remote peers
    Streams,     \* incoming CHUNK streams of the message
    PeerOf,      \* the peer a stream came from
    ChunkOf,     \* the chunk its header names
    Chunks,
    DataChunks,  \* chunks needed to decode
    MaxParked,   \* maxParkedChunks
    MaxReads,    \* maxConcurrentReads
    InboxCap,    \* channelInboxCap
    MaxConn,     \* bound: connections bound to the channel
    MaxOpen,     \* bound: SESS streams for the message
    Scenes       \* of a behaviour: who connects, which streams come, the malformed ones
                 \* (with a chunk ID or length the session refuses) among them, and
                 \* bounds on bindings and publications

ASSUME IntakeAssumption ==
    /\ IsFiniteSet(Streams) /\ IsFiniteSet(Chunks)
    /\ PeerOf \in [Streams -> Peers] /\ ChunkOf \in [Streams -> Chunks]
    /\ DataChunks \in 1..Cardinality(Chunks)
    /\ MaxParked \in Nat \ {0} /\ MaxReads \in Nat \ {0} /\ InboxCap \in Nat \ {0}
    /\ MaxConn \in Nat /\ MaxOpen \in Nat
    /\ Scenes \subseteq [peers : SUBSET Peers, streams : SUBSET Streams,
                         malformed : SUBSET Streams, binds : Nat, publishes : Nat]

VARIABLES
    ctx,       \* the channel's context is live
    actor,     \* run, closing, publish (closing, then publish), stopping, done
    inbox,
    member,    \* Channel.members: the connection of a member, 0 if none
    sess,      \* the session; on if there is one
    parked,    \* the parked group's streams
    parkedDue, \* its TTL has passed
    \* goroutines
    reader,    \* phase of a stream's payload reader
    decoder,   \* a decode goroutine runs
    cut,       \* streams whose dedup group was cancelled
    \* producers
    status,    \* of a CHUNK stream: idle, open, read, cancelled
    chk,       \* streams handed over, the channel's context not rechecked yet
    bound,     \* the engine's side: the peer's bound connection, 0 if none
    latest,    \* the peer's latest connection, 0 if none; numbered in order
    gone,      \* peers whose latest connection the engine has removed
    binds,     \* bindings so far
    sessIn,    \* the peer's open inbound SESS streams, <<number, connection>>
    opens,     \* SESS streams so far
    publishes, \* publications so far
    scene

goroutines == <<reader, decoder, cut>>
producers == <<chk, bound, latest, gone, binds, sessIn, opens, publishes, scene>>
vars == <<ctx, actor, inbox, member, sess, parked, parkedDue, goroutines,
          status, producers>>

NoSession == [on |-> FALSE, stage |-> "Consuming", peers |-> [p \in Peers |-> 0],
              completed |-> {}, left |-> {}, ever |-> FALSE, have |-> {},
              queue |-> <<>>, due |-> FALSE]

Init ==
    /\ ctx = TRUE
    /\ actor = "run"
    /\ inbox = <<>>
    /\ member = [p \in Peers |-> 0]
    /\ sess = NoSession
    /\ parked = <<>>
    /\ parkedDue = FALSE
    /\ reader = [s \in Streams |-> "none"]
    /\ decoder = FALSE
    /\ cut = {}
    /\ status = [s \in Streams |-> "idle"]
    /\ chk = {}
    /\ bound = [p \in Peers |-> 0]
    /\ latest = [p \in Peers |-> 0]
    /\ gone = {}
    /\ binds = 0
    /\ sessIn = [p \in Peers |-> {}]
    /\ opens = 0
    /\ publishes = 0
    /\ scene \in Scenes

-----------------------------------------------------------------------------
(* The inbox and the contexts. *)

Event(kind, of, conn) == [kind |-> kind, of |-> of, conn |-> conn]

Post(e) == /\ Len(inbox) < InboxCap
           /\ inbox' = Append(inbox, e)

\* The actor takes the next event, which is of the given kind.
Takes(kind) == /\ actor = "run"
               /\ inbox # <<>> /\ Head(inbox).kind = kind
               /\ inbox' = Tail(inbox)

\* The peer, stream or outcome the event is about.
Of == Head(inbox).of

\* For the goroutines of a session: the close of one waits for its goroutines, so
\* those of an earlier session never see the next one.
SessionEnded == ~ctx \/ ~sess.on

ReadEnded(s) == SessionEnded \/ s \in cut

-----------------------------------------------------------------------------
(* A session's reads. *)

\* The elements of q that are in S, in their order: the k-th is the one that has
\* k such elements up to it.
Kept(q, S) == {i \in DOMAIN q : q[i] \in S}
Rank(I, i) == Cardinality({j \in I : j <= i})
Keep(q, S) ==
    LET I == Kept(q, S)
    IN  [k \in 1..Cardinality(I) |-> q[CHOOSE i \in I : Rank(I, i) = k]]

\* Readers holding a slot of readSem: it is given back before ReadDone is posted.
Reading == {s \in Streams : reader[s] \in {"read", "post"}}

\* handleChunkStream reads a stream only if its chunk is needed.
Wanted(X, s) == /\ s \notin scene.malformed
                /\ X.stage = "Consuming"
                /\ ChunkOf[s] \notin X.have

Free == MaxReads - Cardinality(Reading)

\* Mutant: a slot that became free is left to the streams that arrive later.
DrainableNot(X) == 0

\* drainReads: how many queued streams it takes; an unwanted one takes no slot.
Drainable(X) ==
    LET before(i) == {j \in 1..(i - 1) : Wanted(X, X.queue[j])}
    IN  Cardinality({i \in DOMAIN X.queue : Cardinality(before(i)) < Free})

\* drainReads, then handleChunkStream for each of new: the wanted streams get a
\* reader while slots are free and are queued after that, the others are cancelled.
Feed(X, new) ==
    LET n == Drainable(X)
        wants(q) == Keep(q, {s \in Streams : Wanted(X, s)})
        taken == SubSeq(X.queue, 1, n)
        ready == wants(taken) \o wants(new)
        k == IF Len(ready) < Free THEN Len(ready) ELSE Free
        started == Range(SubSeq(ready, 1, k))
    IN  [sess |-> [X EXCEPT !.queue = SubSeq(@, n + 1, Len(@)) \o SubSeq(ready, k + 1, Len(ready))],
         reader |-> [s \in Streams |-> IF s \in started THEN "read" ELSE reader[s]],
         refused |-> {s \in Range(taken) \cup Range(new) : ~Wanted(X, s)}]

Cancelled(S) == [s \in Streams |-> IF s \in S THEN "cancelled" ELSE status[s]]

-----------------------------------------------------------------------------
(* A session's life. *)

\* The streams that did not come from p.
Others(p) == {s \in Streams : PeerOf[s] # p}

Attached(X) == {p \in Peers : X.peers[p] # 0}

\* Mutant: a peer that has reconstructed keeps a decoded session alive.
IdleIgnoresCompleted(X) == X.ever /\ Attached(X) = {}

Idle(X) ==
    /\ X.ever
    /\ \/ Attached(X) = {}
       \/ X.stage \in {"Reconstructed", "Origin"} /\ Attached(X) \subseteq X.completed

\* disposeSession and closeWithCode up to the wait for the session's goroutines:
\* readers and decoder find their context ended, queued and parked streams are
\* cancelled.
Dispose(next) ==
    /\ sess' = NoSession
    /\ status' = Cancelled(Range(sess.queue) \cup Range(parked))
    /\ parked' = <<>> /\ parkedDue' = FALSE
    /\ actor' = next

\* A handler's end: the session is now X, the streams in S were cancelled;
\* disposeIfIdle.
Settle(X, S) ==
    IF Idle(X)
    THEN Dispose("closing")
    ELSE /\ sess' = X
         /\ status' = Cancelled(S)
         /\ UNCHANGED <<parked, parkedDue, actor>>

\* Mutant: the close does not wait for the decoder.
QuiescedReaders == \A s \in Streams : reader[s] = "none"

\* wg.Wait: the closed session's goroutines have returned.  No other session has
\* any, since every close waits.
Quiesced == ~decoder /\ \A s \in Streams : reader[s] = "none"

Closed ==
    /\ actor = "closing" /\ Quiesced
    /\ actor' = "run"
    /\ UNCHANGED <<ctx, inbox, member, sess, parked, parkedDue, goroutines, status, producers>>

\* newSession and the attachment of the channel's members.
NewSession(stage, have) ==
    [NoSession EXCEPT !.on = TRUE, !.stage = stage, !.have = have,
                      !.peers = member, !.ever = \E p \in Peers : member[p] # 0]

-----------------------------------------------------------------------------
(* The actor's handlers, one per kind of event. *)

\* channelReadDone.
HandleReadDone ==
    /\ Takes("ReadDone")
    /\ IF ~sess.on
       THEN UNCHANGED <<sess, reader, status>>
       ELSE LET f == Feed(sess, <<>>)
            IN  sess' = f.sess /\ reader' = f.reader /\ status' = Cancelled(f.refused)
    /\ UNCHANGED <<ctx, actor, member, parked, parkedDue, decoder, cut, producers>>

\* handleChunk with a session.
HandleChunk ==
    /\ Takes("Stream") /\ sess.on
    /\ LET f == Feed(sess, <<Of>>)
       IN  sess' = f.sess /\ reader' = f.reader /\ status' = Cancelled(f.refused)
    /\ UNCHANGED <<ctx, actor, member, parked, parkedDue, decoder, cut, producers>>

ParkedFull == Len(parked) >= MaxParked

\* handleChunk without one.
ParkChunk ==
    /\ Takes("Stream") /\ ~sess.on
    /\ IF ParkedFull
       THEN status' = Cancelled({Of}) /\ UNCHANGED parked
       ELSE parked' = Append(parked, Of) /\ UNCHANGED status
    /\ UNCHANGED <<ctx, actor, member, sess, parkedDue, goroutines, producers>>

\* acceptChunk: the chunk is stored, the other reads of it are cancelled, and a
\* consuming session that can decode tells its peers and starts its decoder.
AcceptChunk(c) ==
    LET have == sess.have \cup {c}
        complete == Cardinality(have) >= DataChunks /\ sess.stage = "Consuming"
    IN  /\ sess' = [sess EXCEPT !.have = have,
                                !.stage = IF complete THEN "Decoding" ELSE @]
        /\ decoder' = (decoder \/ complete)
        /\ cut' = cut \cup {s \in Reading : ChunkOf[s] = c}

\* handleChunkData: a chunk the session has, or takes no more, is dropped; so is
\* one that fails verification.
HandleChunkData ==
    /\ Takes("Data")
    /\ \/ /\ sess.on
          /\ ChunkOf[Of] \notin sess.have /\ Cardinality(sess.have) < DataChunks
          /\ AcceptChunk(ChunkOf[Of])
       \/ UNCHANGED <<sess, decoder, cut>>
    /\ UNCHANGED <<ctx, actor, member, parked, parkedDue, reader, status, producers>>

\* handleSessionOpen: a session that exists only takes the routing state; the
\* preamble may be invalid; otherwise createRelaySession, which ends by feeding
\* the parked streams.
HandleSessionOpen ==
    /\ Takes("Open")
    /\ \/ UNCHANGED <<sess, reader, status, parked, parkedDue>>
       \/ /\ ~sess.on
          /\ LET f == Feed(NewSession("Consuming", {}), parked)
             IN  sess' = f.sess /\ reader' = f.reader /\ status' = Cancelled(f.refused)
          /\ parked' = <<>> /\ parkedDue' = FALSE
    /\ UNCHANGED <<ctx, actor, member, decoder, cut, producers>>

\* handlePeerBound and handlePeerAttached.
HandlePeerBound ==
    /\ Takes("Bound")
    /\ member' = [member EXCEPT ![Of] = Head(inbox).conn]
    /\ sess' = IF ~sess.on \/ member[Of] = Head(inbox).conn \/ sess.peers[Of] # 0 THEN sess
               ELSE [sess EXCEPT !.peers[Of] = Head(inbox).conn, !.ever = TRUE,
                                 !.left = @ \ {Of}]
    /\ UNCHANGED <<ctx, actor, parked, parkedDue, goroutines, status, producers>>

\* handlePeerDropped, for the session's part: the peer's queued reads are
\* cancelled by the caller.
Dropped(X, p) == [X EXCEPT !.peers[p] = 0, !.completed = @ \ {p},
                           !.queue = Keep(@, Others(p))]

From(p, q) == {s \in Range(q) : PeerOf[s] = p}

\* handlePeerUnbound: parked groups first, then the sessions.
HandlePeerUnbound ==
    /\ Takes("Unbound")
    /\ member' = [member EXCEPT ![Of] = 0]
    /\ LET kept == Keep(parked, Others(Of))
           X == [Dropped(sess, Of) EXCEPT !.left = @ \ {Of}]
       IN  IF Idle(X)
           THEN Dispose("closing")
           ELSE /\ sess' = X
                /\ status' = Cancelled(From(Of, sess.queue) \cup From(Of, parked))
                /\ parked' = kept
                /\ parkedDue' = (parkedDue /\ kept # <<>>)
                /\ UNCHANGED actor
    /\ UNCHANGED <<ctx, goroutines, producers>>

\* channelPeerReconstructed.
HandlePeerReconstructed ==
    /\ Takes("Reconstructed")
    /\ IF ~sess.on
       THEN UNCHANGED <<sess, status, parked, parkedDue, actor>>
       ELSE Settle([sess EXCEPT !.completed = @ \cup ({Of} \cap Attached(sess))], {})
    /\ UNCHANGED <<ctx, member, goroutines, producers>>

\* Mutant: the end of a replaced connection's SESS stream detaches the peer's
\* current connection.
EndsCurrentAny(p, n) == TRUE

EndsCurrent(p, n) == member[p] = n

\* channelPeerSessionEnded.
HandlePeerSessionEnded ==
    /\ Takes("Ended")
    /\ LET n == Head(inbox).conn
       IN  IF EndsCurrent(Of, n) /\ sess.on
           THEN Settle([Dropped(sess, Of) EXCEPT !.left = IF member[Of] = n THEN @ \cup {Of} ELSE @],
                       From(Of, sess.queue))
           ELSE UNCHANGED <<sess, status, parked, parkedDue, actor>>
    /\ UNCHANGED <<ctx, member, goroutines, producers>>

\* channelDecoded: a failed decode changes nothing.
HandleDecoded ==
    /\ Takes("Decoded")
    /\ IF sess.on /\ sess.stage \in {"Consuming", "Decoding"} /\ Of = "ok"
       THEN Settle([sess EXCEPT !.stage = "Reconstructed"], {})
       ELSE UNCHANGED <<sess, status, parked, parkedDue, actor>>
    /\ UNCHANGED <<ctx, member, goroutines, producers>>

\* The session handlePublish creates; a group parked for the message stays parked.
CreateOrigin ==
    /\ sess' = NewSession("Origin", Chunks)
    /\ actor' = "run"
    /\ UNCHANGED <<parked, parkedDue, status>>

\* handlePublish, up to the close of the session it replaces.
HandlePublish ==
    /\ Takes("Publish")
    /\ IF ~sess.on THEN CreateOrigin ELSE Dispose("publish")
    /\ UNCHANGED <<ctx, member, goroutines, producers>>

\* handlePublish, after it.
Replaced ==
    /\ actor = "publish" /\ Quiesced
    /\ CreateOrigin
    /\ UNCHANGED <<ctx, inbox, member, goroutines, producers>>

\* expireDue.
HandleExpiry ==
    /\ Takes("Expiry")
    /\ \/ sess.due /\ Dispose("closing")
       \/ /\ ~sess.due
          /\ status' = Cancelled(IF parkedDue THEN Range(parked) ELSE {})
          /\ parked' = IF parkedDue THEN <<>> ELSE parked
          /\ parkedDue' = FALSE
          /\ UNCHANGED <<sess, actor>>
    /\ UNCHANGED <<ctx, member, goroutines, producers>>

\* run, when it sees the context ended: shutdown up to the wait.
Shutdown ==
    /\ actor = "run" /\ ~ctx
    /\ Dispose("stopping")
    /\ UNCHANGED <<ctx, inbox, member, goroutines, producers>>

\* drainInbox, at its last poll.
DrainInbox ==
    /\ actor = "stopping" /\ Quiesced
    /\ status' = Cancelled({e.of : e \in {f \in Range(inbox) : f.kind = "Stream"}})
    /\ inbox' = <<>>
    /\ actor' = "done"
    /\ UNCHANGED <<ctx, member, sess, parked, parkedDue, goroutines, producers>>

Handle == \/ HandleReadDone \/ HandleChunk \/ ParkChunk \/ HandleChunkData
          \/ HandleSessionOpen \/ HandlePeerBound \/ HandlePeerUnbound
          \/ HandlePeerReconstructed \/ HandlePeerSessionEnded \/ HandleDecoded
          \/ HandlePublish \/ HandleExpiry

Actor == Handle \/ Closed \/ Replaced \/ Shutdown \/ DrainInbox

-----------------------------------------------------------------------------
(* The session's goroutines. *)

channel == <<ctx, actor, member, sess, parked, parkedDue>>

Phase(s, phase) == reader' = [reader EXCEPT ![s] = phase]

\* The payload is read; it may be complete although the read's context has ended.
ReadPayload(s) ==
    /\ reader[s] = "read"
    /\ Phase(s, "post")
    /\ status' = [status EXCEPT ![s] = "read"]
    /\ UNCHANGED <<channel, inbox, decoder, cut, producers>>

\* The read fails: the context's callback cancelled the stream, the peer or the
\* connection ended it, or chunkReadTimeout passed.
FailRead(s) ==
    /\ reader[s] = "read"
    /\ Phase(s, "done")
    /\ status' = Cancelled({s})
    /\ UNCHANGED <<channel, inbox, decoder, cut, producers>>

\* Mutant: a reader whose context has ended still waits for room in the inbox.
GiveUpNot(s) == FALSE

GiveUp(s) == ReadEnded(s)

PostData(s) ==
    /\ reader[s] = "post"
    /\ \/ Post(Event("Data", s, 0))
       \/ GiveUp(s) /\ UNCHANGED inbox
    /\ Phase(s, "done")
    /\ UNCHANGED <<channel, decoder, cut, status, producers>>

\* The reader's slot is free by now.
PostReadDone(s) ==
    /\ reader[s] = "done"
    /\ \/ Post(Event("ReadDone", "", 0))
       \/ SessionEnded /\ UNCHANGED inbox
    /\ Phase(s, "none")
    /\ UNCHANGED <<channel, decoder, cut, status, producers>>

Decode ==
    /\ decoder
    /\ \/ \E outcome \in {"ok", "failed"} : Post(Event("Decoded", outcome, 0))
       \/ SessionEnded /\ UNCHANGED inbox
    /\ decoder' = FALSE
    /\ UNCHANGED <<channel, reader, cut, status, producers>>

Read(s) == ReadPayload(s) \/ FailRead(s) \/ PostData(s) \/ PostReadDone(s)

\* The timers scheduleExpiry starts for a session and for a parked group.
ExpireSession ==
    /\ sess.on /\ ~sess.due
    /\ Post(Event("Expiry", "", 0))
    /\ sess' = [sess EXCEPT !.due = TRUE]
    /\ UNCHANGED <<ctx, actor, member, parked, parkedDue, goroutines, status, producers>>

\* Mutant: no expiry is scheduled for a group.
ScheduledNot == FALSE

Scheduled == parked # <<>>

ExpireParked ==
    /\ Scheduled /\ ~parkedDue
    /\ Post(Event("Expiry", "", 0))
    /\ parkedDue' = TRUE
    /\ UNCHANGED <<ctx, actor, member, sess, parked, goroutines, status, producers>>

-----------------------------------------------------------------------------
(* The producers: the engine, the peers' stream readers, Publish and Stop.  A    *)
(* reader looks the channel up before it posts, so it may post after an Unbound.  *)

idleActor == <<ctx, actor, member, sess, parked, parkedDue, goroutines>>

\* enrolPeerToChannel, at the handshake of a new connection or at a SUBSCRIBE: after
\* an UNSUBSCRIBE the same connection is bound again.
BindPeer(p) ==
    /\ bound[p] = 0 /\ p \in scene.peers /\ binds < scene.binds
    /\ \E n \in 1..MaxConn :
          /\ \/ n = latest[p] /\ p \notin gone
             \/ /\ \A q \in Peers : latest[q] < n
                /\ n = 1 \/ \E q \in Peers : latest[q] = n - 1
          /\ Post(Event("Bound", p, n))
          /\ bound' = [bound EXCEPT ![p] = n]
          /\ latest' = [latest EXCEPT ![p] = n]
    /\ gone' = gone \ {p} /\ binds' = binds + 1
    /\ UNCHANGED <<idleActor, status, chk, sessIn, opens, publishes, scene>>

\* unenrolPeerFromChannel: an UNSUBSCRIBE, or removePeer.
UnbindPeer(p) ==
    /\ bound[p] # 0
    /\ Post(Event("Unbound", p, 0))
    /\ bound' = [bound EXCEPT ![p] = 0]
    /\ gone' \in {gone, gone \cup {p}}
    /\ UNCHANGED <<idleActor, status, chk, latest, binds, sessIn, opens, publishes, scene>>

\* processChunk: the hand-over.
SendStream(s) ==
    /\ status[s] = "idle" /\ s \in scene.streams /\ latest[PeerOf[s]] # 0
    /\ \/ Post(Event("Stream", s, 0)) /\ chk' = chk \cup {s}
          /\ status' = [status EXCEPT ![s] = "open"]
       \/ ~ctx /\ status' = Cancelled({s}) /\ UNCHANGED <<inbox, chk>>
    /\ UNCHANGED <<idleActor, bound, latest, gone, binds, sessIn, opens, publishes, scene>>

\* Mutant: the producer does not look at the context again.
MissedNot == FALSE

Missed == ~ctx

\* processChunk: the recheck after it.
Recheck(s) ==
    /\ s \in chk
    /\ chk' = chk \ {s}
    /\ status' = IF Missed THEN Cancelled({s}) ELSE status
    /\ UNCHANGED <<idleActor, inbox, bound, latest, gone, binds, sessIn, opens, publishes, scene>>

\* runInboundSession: the OPEN frame.
OpenSessionIn(p) ==
    /\ latest[p] # 0 /\ opens < MaxOpen
    /\ Post(Event("Open", p, 0))
    /\ sessIn' = [sessIn EXCEPT ![p] = @ \cup {<<opens + 1, latest[p]>>}]
    /\ opens' = opens + 1
    /\ UNCHANGED <<idleActor, status, chk, bound, latest, gone, binds, publishes, scene>>

\* runInboundSession: the stream is reset with Reconstructed, or ends otherwise.  It
\* stays unreported when the channel's context or the connection's has ended, which
\* the engine may have yet to learn.
EndSessionIn(p) ==
    \E k \in sessIn[p] :
        /\ \/ Post(Event("Reconstructed", p, 0))
           \/ Post(Event("Ended", p, k[2]))
           \/ UNCHANGED inbox
        /\ sessIn' = [sessIn EXCEPT ![p] = @ \ {k}]
        /\ UNCHANGED <<idleActor, status, chk, bound, latest, gone, binds, opens, publishes, scene>>

Publish ==
    /\ publishes < scene.publishes
    /\ Post(Event("Publish", "", 0))
    /\ publishes' = publishes + 1
    /\ UNCHANGED <<idleActor, status, chk, bound, latest, gone, binds, sessIn, opens, scene>>

Stop ==
    /\ ctx
    /\ ctx' = FALSE
    /\ UNCHANGED <<actor, inbox, member, sess, parked, parkedDue, goroutines, status, producers>>

Next ==
    \/ Actor
    \/ \E s \in Streams : Read(s) \/ SendStream(s) \/ Recheck(s)
    \/ Decode \/ ExpireSession \/ ExpireParked
    \/ \E p \in Peers : BindPeer(p) \/ UnbindPeer(p) \/ OpenSessionIn(p) \/ EndSessionIn(p)
    \/ Publish \/ Stop

Spec == Init /\ [][Next]_vars

\* The channel's own steps: of the actor, the readers (chunkReadTimeout ends every
\* read), the decoder, a producer that rechecks, and the timers.
Program == \/ Actor \/ Decode \/ ExpireSession \/ ExpireParked
           \/ \E s \in Streams : Read(s) \/ Recheck(s)

\* While one of them can be taken, one is.  The load is bounded, so a send that waits
\* for room in the inbox gets its turn, as in Go, where a channel serves its blocked
\* senders in order.  Nothing is assumed of peers, of the engine or of callers.
FairSpec == Spec /\ WF_vars(Program)


-----------------------------------------------------------------------------
(* Properties. *)

SessionType == [on : BOOLEAN, stage : {"Consuming", "Decoding", "Reconstructed", "Origin"},
                peers : [Peers -> 0..MaxConn], completed : SUBSET Peers,
                left : SUBSET Peers, ever : BOOLEAN, have : SUBSET Chunks,
                queue : Seq(Streams), due : BOOLEAN]

\* The types of the channel's state, with the bounds the code declares: a parked
\* group holds at most maxParkedChunks streams and a session reads at most
\* maxConcurrentReads at a time.
TypeOK ==
    /\ ctx \in BOOLEAN
    /\ actor \in {"run", "closing", "publish", "stopping", "done"}
    /\ Len(inbox) <= InboxCap
    /\ member \in [Peers -> 0..MaxConn]
    /\ sess \in SessionType
    /\ parked \in Seq(Streams) /\ Len(parked) <= MaxParked
    /\ parkedDue \in BOOLEAN
    /\ reader \in [Streams -> {"none", "read", "post", "done"}]
    /\ Cardinality(Reading) <= MaxReads
    /\ status \in [Streams -> {"idle", "open", "read", "cancelled"}]

\* A CHUNK stream handed to the channel is always held by someone who will end it:
\* it waits in the inbox of an actor that has not drained it, in the parked group,
\* in the read queue, in a reader, or its producer has yet to see the context end.
\* A stream outside these keeps its credit for the life of the connection.  The
\* parked ones and the readers stay within their limits.
NoLeakedStream ==
    /\ \A s \in Streams : status[s] = "open" =>
         \/ \E i \in DOMAIN inbox : inbox[i] = Event("Stream", s, 0) /\ actor # "done"
         \/ s \in Range(parked) \cup Range(sess.queue)
         \/ reader[s] = "read"
         \/ s \in chk
    /\ Len(parked) <= MaxParked
    /\ Cardinality(Reading) <= MaxReads

\* "The actor never waits for a reader ... let a completion wake the actor when a
\* slot becomes available": while a stream is queued and a slot is free, a ReadDone
\* event is on its way.
NoReadStall ==
    (ctx /\ actor = "run" /\ sess.queue # <<>> /\ Free > 0) =>
        \/ \E i \in DOMAIN inbox : inbox[i].kind = "ReadDone"
        \/ \E s \in Streams : reader[s] = "done"

\* A decoder reads the chunks of the session the channel has, one past consuming:
\* the close of a session outlives its decoder, so that no decode runs on a closed
\* strategy and none runs beside the next session's.  The stage may be past Decoding
\* as well, when the result of an earlier session's decode has moved it on.
DecoderOwned ==
    (decoder /\ actor = "run") => (sess.on /\ sess.stage \in {"Decoding", "Reconstructed"})

\* The session's peers are the channel's members, on their current connections, but
\* for those that ended the session themselves.
PeersAreMembers ==
    sess.on => \A p \in Peers :
        sess.peers[p] = IF p \in sess.left THEN 0 ELSE member[p]

\* idle's promise: the channel "disposes the session in the same event".  Between
\* events no session is left that once had peers and has none that it can still
\* help or hear from.
NoIdleSession ==
    (actor = "run" /\ sess.on /\ sess.ever) =>
        \E p \in Peers : /\ sess.peers[p] # 0
                         /\ sess.stage \in {"Reconstructed", "Origin"} => p \notin sess.completed

\* closeWithCode's wait ends, whatever the inbox holds: the actor never waits for a
\* goroutine that waits for the actor.
CloseReturns ==
    actor \in {"closing", "publish", "stopping"} ~> actor \in {"run", "done"}

\* Every CHUNK stream handed to the channel is read or cancelled in the end.
StreamSettles == \A s \in Streams : status[s] = "open" ~> status[s] # "open"

\* "A session moves monotonically through four stages": a relay is Reconstructed
\* only from Decoding, when its own decode has succeeded and its peers were told.
ReconstructedByDecode ==
    [][(sess.on /\ sess'.stage = "Reconstructed")
            => sess.stage \in {"Decoding", "Reconstructed"}]_vars

=============================================================================
