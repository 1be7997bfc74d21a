------------------------------ MODULE ChunkSend ------------------------------
(***************************************************************************)
(* The outbound half of one broadcast session: the Reed-Solomon strategy's  *)
(* emission state (broadcast/rs/strategy.go, emit.go), the session methods   *)
(* that drive it on the channel actor (broadcast/session.go), and the data   *)
(* loop of each peer, which takes chunks from the session's outbox and       *)
(* reports how the send ended (broadcast/peer_ctrl.go).                      *)
(*                                                                          *)
(* A handler of the actor is one step, its trailing drainPolls included.     *)
(* The results of one data loop reach the actor in order; everything else    *)
(* the actor handles comes from other producers and may fall between.        *)
(*                                                                          *)
(* A peer may be dropped and attached again while sends of its earlier       *)
(* attachment are still on their way: dispatches and results carry the       *)
(* attachment `a' they belong to, which the code does not know.  The session *)
(* goes with its last peer, and is not made again.  How the slot of an       *)
(* outbox is registered is the subject of CtrlOut.                           *)
(***************************************************************************)
EXTENDS Integers, Sequences, FiniteSets

CONSTANTS
    Peers,              \* remote peer IDs
    Chunks,             \* shard indices
    DataChunks,         \* Preamble.DataChunks
    ForwardMultiplier,  \* Config.ForwardMultiplier
    BitmapThreshold,    \* Config.BitmapThreshold, in percent
    OutboxCap,          \* capacity of a chunkOutbox
    Scenes              \* an origin or a relay, with the bounds: attachments of each
                        \* peer, and the peers whose loops are scheduled

ASSUME ChunkSendAssumption ==
    /\ IsFiniteSet(Peers)
    /\ IsFiniteSet(Chunks) /\ Chunks # {}
    /\ DataChunks \in Nat \ {0}
    /\ ForwardMultiplier \in Nat \ {0}
    /\ BitmapThreshold \in 0..100
    /\ OutboxCap \in Nat \ {0}
    /\ Scenes \subseteq [origin : BOOLEAN, attach : [Peers -> Nat], loops : SUBSET Peers]

VARIABLES
    scene,
    strat,      \* strategy: origin, have, times, sent, dirty
    peer,       \* strategy.peers and session.peers: on, done, bitmap, inflight
    box,        \* chunkOutbox of the current attachment
    told,       \* the inventory last handed to the peer's control state
    stage,      \* Consuming (Decoding included), Reconstructed, Origin or Disposed
    \* the peer's data loop
    conn,       \* the connection is up
    slot,       \* the registered outbox: none, cur(rent) or old
    oldbox,     \* chunkOutbox of the attachment before
    pc,         \* scan, wait, write
    job,        \* the chunk being written
    wake,       \* a token is in wakeCh
    results,    \* channelChunkSent events under way to the actor
    \* history
    att,        \* attachments so far
    announced,  \* chunks the peer said or showed it has, in this attachment
    wrote,      \* chunks written to the peer in this attachment
    twice,      \* chunks written to the peer twice in one attachment
    tainted     \* a result of an earlier attachment was taken for this one's

session == <<strat, peer, box, told, stage>>
loop == <<conn, slot, oldbox, pc, job>>
history == <<att, announced, wrote, twice, tainted>>
vars == <<scene, session, loop, wake, results, history>>

Zero == [c \in Chunks |-> 0]
NoPeerState == [on |-> FALSE, done |-> FALSE, bitmap |-> {}, inflight |-> Zero]
NoChunk == [c |-> 0, a |-> 0, live |-> FALSE]

\* newOriginStrategy or newRelayStrategy.
Init ==
    /\ scene \in Scenes
    /\ strat = [origin |-> scene.origin, have |-> IF scene.origin THEN Chunks ELSE {},
                times |-> Zero, sent |-> Zero, dirty |-> scene.origin]
    /\ stage = IF scene.origin THEN "Origin" ELSE "Consuming"
    /\ peer = [p \in Peers |-> NoPeerState]
    /\ box = [p \in Peers |-> <<>>]
    /\ told = [p \in Peers |-> {}]
    /\ conn = [p \in Peers |-> TRUE]
    /\ slot = [p \in Peers |-> "none"]
    /\ oldbox = [p \in Peers |-> <<>>]
    /\ pc = [p \in Peers |-> "scan"]
    /\ job = [p \in Peers |-> NoChunk]
    /\ wake = [p \in Peers |-> FALSE]
    /\ results = [p \in Peers |-> <<>>]
    /\ att = [p \in Peers |-> 0]
    /\ announced = [p \in Peers |-> {}]
    /\ wrote = [p \in Peers |-> {}]
    /\ twice = [p \in Peers |-> {}]
    /\ tainted = {}

-----------------------------------------------------------------------------
(* The strategy. *)

\* TakeChunk freezes the strategy once it can decode.
Complete(S) == S.origin \/ Cardinality(S.have) >= DataChunks

ShouldEmitRouting(S) ==
    (Cardinality(S.have) * 100) \div Cardinality(Chunks) >= BitmapThreshold

\* The budget test of allocate: confirmed sends only.
WithinBudget(S, c) == S.origin \/ S.sent[c] < ForwardMultiplier

\* What allocate may offer a peer.
Offer(ps, S) ==
    IF ps.on /\ ~ps.done
    THEN {c \in S.have : /\ c \notin ps.bitmap
                         /\ ps.inflight[c] = 0
                         /\ WithinBudget(S, c)}
    ELSE {}

\* The orders in which PollChunks may range over the peers.
Orders(Q) == {f \in [Q -> 1..Cardinality(Q)] : \A p, q \in Q : f[p] = f[q] => p = q}

\* PollChunks: one chunk for every peer that can be offered one, the least often
\* allocated first.  Ties are broken by a random priority.
Picks(P, S) ==
    LET Q == {p \in Peers : Offer(P[p], S) # {}} IN
    {f \in [Q -> Chunks] :
        /\ \A p \in Q : f[p] \in Offer(P[p], S)
        /\ \E ord \in Orders(Q) : \A p \in Q : \A c \in Offer(P[p], S) :
              LET TimesNow(d) == S.times[d] + Cardinality({q \in Q :
                                     ord[q] < ord[p] /\ f[q] = d})
              IN  TimesNow(f[p]) <= TimesNow(c)}

\* ChunkSent's early returns: an unknown peer, nothing in flight.
SentCounts(ps, c) == ps.on /\ ps.inflight[c] > 0

\* Mutant: a successful send is not recorded in the peer's bitmap.
BitmapAfterNot(ps, c, ok) == ps.bitmap \ {c}

\* ChunkSent on the peer's bitmap: set on success, cleared on failure.
BitmapAfter(ps, c, ok) == IF ok THEN ps.bitmap \union {c} ELSE ps.bitmap \ {c}

SentPeer(ps, c, ok) ==
    IF SentCounts(ps, c)
    THEN [ps EXCEPT !.inflight[c] = @ - 1, !.bitmap = BitmapAfter(ps, c, ok)]
    ELSE ps

\* ChunkSent on the planner: AddSent for a relay's success, Decrement of the
\* allocations for a failure.
SentPlan(S, ps, c, ok) ==
    IF ~SentCounts(ps, c) THEN S
    ELSE IF ok THEN [S EXCEPT !.sent[c] = IF S.origin THEN @ ELSE @ + 1]
    ELSE [S EXCEPT !.times[c] = @ - 1]

-----------------------------------------------------------------------------
(* drainPolls. *)

\* PollRouting(false).
PollRouting(S) == S.dirty /\ ShouldEmitRouting(S)

\* Mutant: the data loop is not woken.
WokenNot(w, b) == w

\* sendChunk's non-blocking send on wakeCh.
Woken(w, b) == w \/ b

\* Mutant: a dispatch that found the outbox full stays counted in flight.
SlotFullNot(b) == FALSE

\* sendChunk: a full outbox fails the dispatch at once, and the ChunkSent that
\* reports it undoes what allocate recorded.
SlotFull(b) == Len(b) >= OutboxCap

\* drainPolls from the strategy state S, the peers P and the outboxes B: routing
\* to every attached peer that has not completed, then one chunk per peer.
Drain(P, S, B, T) ==
    /\ told' = [p \in Peers |->
            IF PollRouting(S) /\ P[p].on /\ ~P[p].done THEN S.have ELSE T[p]]
    /\ \E f \in Picks(P, S) :
        LET kept == {p \in DOMAIN f : ~SlotFull(B[p])}
            pushed == {p \in DOMAIN f : Len(B[p]) < OutboxCap}
        IN
        /\ peer' = [p \in Peers |-> IF p \in kept
                THEN [P[p] EXCEPT !.inflight[f[p]] = @ + 1] ELSE P[p]]
        /\ strat' = [S EXCEPT
                !.dirty = @ /\ ~ShouldEmitRouting(S),
                !.times = [c \in Chunks |->
                    @[c] + Cardinality({p \in kept : f[p] = c})]]
        /\ box' = [p \in Peers |-> IF p \in pushed
                THEN Append(B[p], [c |-> f[p], a |-> att'[p], live |-> TRUE])
                ELSE B[p]]
        /\ wake' = [p \in Peers |-> Woken(wake[p], p \in pushed)]

\* Cancel the contexts of the sends of the chunks C that wait in an outbox.
Kill(b, C) == [i \in DOMAIN b |-> [b[i] EXCEPT !.live = @ /\ b[i].c \notin C]]

-----------------------------------------------------------------------------
(* The channel actor. *)

\* handlePeerAttached: the peer gets our inventory with its OPEN.
Attach(p) ==
    /\ stage # "Disposed"
    /\ conn[p] /\ ~peer[p].on /\ att[p] < scene.attach[p]
    /\ att' = [att EXCEPT ![p] = @ + 1]
    /\ Drain([peer EXCEPT ![p] = [NoPeerState EXCEPT !.on = TRUE]],
             [strat EXCEPT !.dirty = @ /\ ~ShouldEmitRouting(strat)],
             [box EXCEPT ![p] = <<>>],
             [told EXCEPT ![p] = IF ShouldEmitRouting(strat) THEN strat.have ELSE {}])
    /\ UNCHANGED <<stage, loop, results, announced, wrote, twice, tainted>>

Attached == {p \in Peers : peer[p].on}

\* idle, for the peers P: a session that has decoded is done when every peer has
\* completed or gone, another one when every peer has gone.
Idle(P, st) ==
    /\ \E p \in Peers : att[p] > 0
    /\ \A p \in Peers : P[p].on => st \in {"Reconstructed", "Origin"} /\ P[p].done

\* The peers Q leave: every send to them is cancelled before the strategy forgets
\* the peer.
Leave(Q) ==
    /\ peer' = [p \in Peers |-> IF p \in Q THEN NoPeerState ELSE peer[p]]
    /\ box' = [p \in Peers |-> IF p \in Q THEN <<>> ELSE box[p]]
    /\ oldbox' = [p \in Peers |-> IF p \in Q THEN Kill(box[p], Chunks) ELSE oldbox[p]]
    /\ slot' = [p \in Peers |-> IF p \notin Q THEN slot[p]
                                ELSE IF slot[p] = "cur" THEN "old" ELSE "none"]
    /\ told' = [p \in Peers |-> IF p \in Q THEN {} ELSE told[p]]
    /\ announced' = [p \in Peers |-> IF p \in Q THEN {} ELSE announced[p]]
    /\ wrote' = [p \in Peers |-> IF p \in Q THEN {} ELSE wrote[p]]
    /\ twice' = [p \in Peers |-> IF p \in Q THEN {} ELSE twice[p]]
    /\ tainted' = tainted \ Q
    /\ UNCHANGED <<strat, conn, pc, job, wake, results, att>>

\* disposeSession: by disposeIfIdle, on expiry, with the channel, or for a local
\* publication.
Dispose ==
    /\ stage # "Disposed"
    /\ stage' = "Disposed"
    /\ Leave(Attached)

\* handlePeerDropped: unbound from the channel, or the end of its SESS stream; and
\* then disposeIfIdle.
Drop(p) ==
    /\ peer[p].on
    /\ IF Idle([peer EXCEPT ![p] = NoPeerState], stage)
       THEN Dispose
       ELSE Leave({p}) /\ stage' = stage

\* handlePeerCompleted, the peer having reconstructed the message; and then
\* disposeIfIdle.
PeerCompleted(p) ==
    /\ peer[p].on /\ ~peer[p].done
    /\ IF Idle([peer EXCEPT ![p].done = TRUE], stage)
       THEN Dispose
       ELSE /\ peer' = [peer EXCEPT ![p].done = TRUE]
            /\ box' = [box EXCEPT ![p] = Kill(@, Chunks)]
            /\ UNCHANGED <<strat, told, stage, loop, wake, results, history>>

\* channelDecoded: a relay that has enough chunks has decoded them.
Decoded ==
    /\ stage = "Consuming" /\ Complete(strat)
    /\ IF Idle(peer, "Reconstructed")
       THEN Dispose
       ELSE /\ stage' = "Reconstructed"
            /\ UNCHANGED <<strat, peer, box, told, loop, wake, results, history>>

\* handleRoutingUpdate: sends the update shows to be redundant are cancelled.
RoutingUpdate(p, bm) ==
    LET ps == [peer[p] EXCEPT !.bitmap = @ \union bm]
        redundant == {c \in Chunks : ps.inflight[c] > 0 /\ c \in ps.bitmap}
    IN
    /\ peer[p].on
    /\ announced' = [announced EXCEPT ![p] = @ \union bm]
    /\ UNCHANGED <<stage, loop, results, att, wrote, twice, tainted>>
    /\ Drain([peer EXCEPT ![p] = ps], strat,
             [box EXCEPT ![p] = Kill(@, redundant)], told)

\* Mutant: an accepted chunk does not change our inventory's flag.
DirtyAfterTakeNot == FALSE

\* TakeChunk marks the routing state dirty.
DirtyAfterTake == TRUE

\* acceptChunk of a verified chunk a relay still needs.
TakeChunk(p, c) ==
    /\ stage # "Disposed"
    /\ c \notin strat.have /\ ~Complete(strat)
    /\ announced' = [announced EXCEPT ![p] = IF peer[p].on THEN @ \union {c} ELSE @]
    /\ UNCHANGED <<stage, loop, results, att, wrote, twice, tainted>>
    /\ Drain([peer EXCEPT ![p].bitmap = IF peer[p].on THEN @ \union {c} ELSE @],
             [strat EXCEPT !.have = @ \union {c}, !.dirty = DirtyAfterTake],
             box, told)

\* Mutant: the strategy is not polled after a result.
DrainAfterSentNot(P, S, B, T) ==
    peer' = P /\ strat' = S /\ box' = B /\ told' = T /\ wake' = wake

DrainAfterSent(P, S, B, T) == Drain(P, S, B, T)

\* handleSendComplete: the result is correlated by peer and handle alone, and the
\* send registered under them is cancelled.
SendComplete(p) ==
    /\ results[p] # <<>>
    /\ LET r == Head(results[p]) IN
       /\ results' = [results EXCEPT ![p] = Tail(@)]
       /\ tainted' = IF peer[p].on /\ r.a # att[p] THEN tainted \union {p}
                                                   ELSE tainted
       /\ UNCHANGED <<stage, loop, att, announced, wrote, twice>>
       /\ IF stage = "Disposed" THEN UNCHANGED <<strat, peer, box, told, wake>>
          ELSE DrainAfterSent([peer EXCEPT ![p] = SentPeer(@, r.c, r.ok)],
                              SentPlan(strat, peer[p], r.c, r.ok),
                              [box EXCEPT ![p] = Kill(@, {r.c})], told)

-----------------------------------------------------------------------------
(* The peer's control loop and data loop. *)

\* applySlot: the current outbox replaces whatever was registered.
RegisterSlot(p) ==
    /\ conn[p] /\ peer[p].on /\ slot[p] # "cur" /\ pc[p] # "write"
    /\ slot' = [slot EXCEPT ![p] = "cur"]
    /\ oldbox' = [oldbox EXCEPT ![p] = <<>>]
    /\ pc' = [pc EXCEPT ![p] = "scan"]
    /\ UNCHANGED <<session, conn, job, wake, results, history>>

\* applySlot: the OPEN under way when the peer was dropped registers its outbox.
RegisterLate(p) ==
    /\ conn[p] /\ slot[p] = "none" /\ oldbox[p] # <<>> /\ pc[p] # "write"
    /\ slot' = [slot EXCEPT ![p] = "old"]
    /\ pc' = [pc EXCEPT ![p] = "scan"]
    /\ UNCHANGED <<session, conn, oldbox, job, wake, results, history>>

\* applySlot: the outbox of the dropped attachment is removed.
UnregisterSlot(p) ==
    /\ conn[p] /\ slot[p] = "old" /\ pc[p] # "write"
    /\ slot' = [slot EXCEPT ![p] = "none"]
    /\ oldbox' = [oldbox EXCEPT ![p] = <<>>]
    /\ pc' = [pc EXCEPT ![p] = "scan"]
    /\ UNCHANGED <<session, conn, job, wake, results, history>>

Registered(p) == CASE slot[p] = "cur" -> box[p]
                   [] slot[p] = "old" -> oldbox[p]
                   [] OTHER -> <<>>

Unqueue(p) ==
    IF slot[p] = "cur"
    THEN box' = [box EXCEPT ![p] = Tail(@)] /\ UNCHANGED oldbox
    ELSE oldbox' = [oldbox EXCEPT ![p] = Tail(@)] /\ UNCHANGED box

\* handleSendChunk: the result may get lost when the session is disposed.
Report(p, d, ok) ==
    \/ results' = [results EXCEPT ![p] = Append(@, [c |-> d.c, a |-> d.a, ok |-> ok])]
    \/ stage = "Disposed" /\ results' = results

\* doSendChunk of a chunk whose context has ended.
SkipCancelled(p) ==
    /\ conn[p] /\ pc[p] = "scan" /\ Registered(p) # <<>>
    /\ ~Head(Registered(p)).live
    /\ Unqueue(p)
    /\ Report(p, Head(Registered(p)), FALSE)
    /\ UNCHANGED <<strat, peer, told, stage, conn, slot, pc, job, wake, history>>

\* doSendChunk starts to write.
StartWrite(p) ==
    /\ conn[p] /\ pc[p] = "scan" /\ Registered(p) # <<>>
    /\ Head(Registered(p)).live
    /\ Unqueue(p)
    /\ pc' = [pc EXCEPT ![p] = "write"]
    /\ job' = [job EXCEPT ![p] = Head(Registered(p))]
    /\ UNCHANGED <<strat, peer, told, stage, conn, slot, wake, results, history>>

\* The write ends: all of the chunk is on the wire, or it failed or timed out.
EndWrite(p, ok) ==
    /\ conn[p] /\ pc[p] = "write"
    /\ pc' = [pc EXCEPT ![p] = "scan"]
    /\ job' = [job EXCEPT ![p] = NoChunk]
    /\ Report(p, job[p], ok)
    /\ LET now == {c \in {job[p].c} : ok /\ peer[p].on /\ job[p].a = att[p]} IN
       /\ twice' = [twice EXCEPT ![p] = @ \union (now \intersect wrote[p])]
       /\ wrote' = [wrote EXCEPT ![p] = @ \union now]
    /\ UNCHANGED <<session, conn, slot, oldbox, wake, att, announced, tainted>>

\* The scan finds nothing, and the loop waits.
Sleep(p) ==
    /\ conn[p] /\ pc[p] = "scan" /\ Registered(p) = <<>>
    /\ pc' = [pc EXCEPT ![p] = "wait"]
    /\ UNCHANGED <<session, conn, slot, oldbox, job, wake, results, history>>

Wake(p) ==
    /\ conn[p] /\ pc[p] = "wait" /\ wake[p]
    /\ wake' = [wake EXCEPT ![p] = FALSE]
    /\ pc' = [pc EXCEPT ![p] = "scan"]
    /\ UNCHANGED <<session, conn, slot, oldbox, job, results, history>>

\* The connection ends: the loop returns, and the result of a write that was
\* under way may still be reported.
Disconnect(p) ==
    /\ conn[p]
    /\ conn' = [conn EXCEPT ![p] = FALSE]
    /\ \/ UNCHANGED results
       \/ pc[p] = "write" /\ Report(p, job[p], FALSE)
    /\ pc' = [pc EXCEPT ![p] = "scan"]
    /\ job' = [job EXCEPT ![p] = NoChunk]
    /\ UNCHANGED <<session, slot, oldbox, wake, history>>

\* A new connection of the peer, with loops of its own, after the channel has
\* unbound the old one.
Reconnect(p) ==
    /\ ~conn[p] /\ ~peer[p].on
    /\ conn' = [conn EXCEPT ![p] = TRUE]
    /\ slot' = [slot EXCEPT ![p] = "none"]
    /\ oldbox' = [oldbox EXCEPT ![p] = <<>>]
    /\ wake' = [wake EXCEPT ![p] = FALSE]
    /\ UNCHANGED <<session, pc, job, results, history>>

-----------------------------------------------------------------------------

Actor(p) ==
    \/ Attach(p) \/ Drop(p) \/ PeerCompleted(p) \/ SendComplete(p)
    \/ \E bm \in SUBSET Chunks \ {{}} : RoutingUpdate(p, bm)
    \/ \E c \in Chunks : TakeChunk(p, c)

Loops(p) ==
    \/ RegisterSlot(p) \/ RegisterLate(p) \/ UnregisterSlot(p)
    \/ SkipCancelled(p) \/ StartWrite(p) \/ Sleep(p) \/ Wake(p)
    \/ \E ok \in BOOLEAN : EndWrite(p, ok)
    \/ Disconnect(p) \/ Reconnect(p)

Next ==
    /\ \/ \E p \in Peers : Actor(p)
       \/ \E p \in scene.loops : Loops(p)
       \/ Decoded \/ Dispose
    /\ UNCHANGED scene

Spec == Init /\ [][Next]_vars

-----------------------------------------------------------------------------
(* Properties. *)

Dispatches == [c : Chunks, a : Nat \ {0}, live : BOOLEAN]
Reports == [c : Chunks, a : Nat \ {0}, ok : BOOLEAN]

TypeOK ==
    /\ strat \in [origin : BOOLEAN, have : SUBSET Chunks, times : [Chunks -> Nat],
                  sent : [Chunks -> Nat], dirty : BOOLEAN]
    /\ peer \in [Peers -> [on : BOOLEAN, done : BOOLEAN, bitmap : SUBSET Chunks,
                           inflight : [Chunks -> 0..1]]]
    /\ box \in [Peers -> Seq(Dispatches)]
    /\ told \in [Peers -> SUBSET Chunks]
    /\ stage \in {"Consuming", "Reconstructed", "Origin", "Disposed"}
    /\ conn \in [Peers -> BOOLEAN]
    /\ slot \in [Peers -> {"none", "cur", "old"}]
    /\ oldbox \in [Peers -> Seq(Dispatches)]
    /\ pc \in [Peers -> {"scan", "wait", "write"}]
    /\ job \in [Peers -> Dispatches \union {NoChunk}]
    /\ wake \in [Peers -> BOOLEAN]
    /\ results \in [Peers -> Seq(Reports)]
    /\ att \in [Peers -> Nat]
    /\ announced \in [Peers -> SUBSET Chunks]
    /\ wrote \in [Peers -> SUBSET Chunks] /\ twice \in [Peers -> SUBSET Chunks]
    /\ tainted \subseteq Peers

\* Dispatches of chunk c in the peer's present attachment that were not reported
\* to the strategy yet.
Outstanding(p, c) ==
    Cardinality({i \in DOMAIN box[p] : box[p][i].c = c})
    + Cardinality({i \in DOMAIN results[p] :
                      results[p][i].c = c /\ results[p][i].a = att[p]})
    + (IF pc[p] = "write" /\ job[p].c = c /\ job[p].a = att[p] THEN 1 ELSE 0)

\* Every dispatch is reported to the strategy exactly once, so what it counts in
\* flight is what really is (types.go:150-153, "the session will call ChunkSent
\* exactly once"): while the peer is connected and no result of an earlier
\* attachment was taken for one of this.  See InflightExact for the latter.
InflightExactUntainted ==
    \A p \in Peers \ tainted : \A c \in Chunks :
        peer[p].on /\ conn[p] => peer[p].inflight[c] = Outstanding(p, c)

\* The same for every attached and connected peer.
InflightExact ==
    \A p \in Peers, c \in Chunks :
        peer[p].on /\ conn[p] => peer[p].inflight[c] = Outstanding(p, c)

\* Emission never stalls: when a connected peer could be offered a chunk and
\* nothing more is polled, a dispatch to it is on its way whose result will poll
\* again (drainPolls offers a peer one chunk at a time).
NoSendStall ==
    \A p \in Peers : (conn[p] /\ Offer(peer[p], strat) # {}) =>
        box[p] # <<>> \/ results[p] # <<>> \/ pc[p] = "write"

\* No chunk waits in a registered outbox while the data loop sleeps without a
\* token (session.go:553-556, peer_ctrl.go:141-147).
NoSleepingChunk ==
    \A p \in Peers : (conn[p] /\ pc[p] = "wait" /\ Registered(p) # <<>>) => wake[p]

\* Once past the threshold, every attached peer that has not completed has been
\* handed our present inventory, whoever the last forced poll was for.
RoutingFresh ==
    ShouldEmitRouting(strat) =>
        \A p \in Peers : peer[p].on /\ ~peer[p].done => told[p] = strat.have

\* A chunk written to a peer is not written to it again while it stays attached,
\* unless a stale result confused the count.
WrittenOnce == \A p \in Peers \ tainted : twice[p] = {}

\* "Maximum successful sends per shard for relays"
\* (specs/003-ec-broadcast-rs.md:238).
ForwardBudget ==
    ~strat.origin => \A c \in Chunks : strat.sent[c] <= ForwardMultiplier

\* What the budget really bounds: the sends in flight when the last credit is used
\* are not counted against it, so every further peer may add one.
BudgetBound ==
    ~strat.origin => \A c \in Chunks :
        strat.sent[c] <= ForwardMultiplier - 1 + Cardinality(Peers)

\* What the peer announced stays known, "so future PollChunks avoids sending
\* chunks the peer already has" (types.go:234-237).
AnnouncedKept ==
    \A p \in Peers : peer[p].on => announced[p] \subseteq peer[p].bitmap

=============================================================================
