--------------------------- MODULE FamilyDelivery ---------------------------
(***************************************************************************)
(* The event queue of one protocol family (family.go): what the stack's    *)
(* per-peer supervisors enqueue, and what the family's single consumer      *)
(* receives from Family.Next.                                               *)
(*                                                                          *)
(* Every operation below runs under the family mutex in the code, so each   *)
(* is one atomic step.  The supervisor of a peer owns at most one view at a *)
(* time and ends its handle before adding the next one, in two critical     *)
(* sections the consumer may run between.                                   *)
(*                                                                          *)
(* The ring (a list.List of peerDelivery) is kept as the set `ready' of     *)
(* handles linked in it and, for each of them, the set `ahead' of handles   *)
(* that come before it: h is the front when nothing is ahead of it, and     *)
(* pushing h to the back puts everything linked ahead of it.                *)
(***************************************************************************)
EXTENDS Integers, Sequences, FiniteSets

CONSTANTS
    Peers,        \* remote peer IDs
    Handles,      \* Peer handles, one per view and family; never reused
    Streams,      \* incoming streams whose header names this family
    Protocols,    \* protocols the family registered
    ProtocolOf,   \* the protocol named by a stream's header
    MaxQueued,    \* ProtocolSpec.MaxQueued
    NoHandle,     \* the supervisor has no view
    NoPeer        \* the handle does not exist yet

ASSUME DeliveryAssumption ==
    /\ ProtocolOf \in [Streams -> Protocols]
    /\ MaxQueued \in [Protocols -> Nat \ {0}]
    /\ NoHandle \notin Handles
    /\ NoPeer \notin Peers

VARIABLES
    ready,     \* handles linked in the ring
    ahead,     \* for a linked handle, the handles before it
    owner,     \* the remote peer of a handle
    up,        \* handles whose PeerUp was returned    (peerDelivery.up)
    down,      \* handles that ended, context included (peerDelivery.down)
    gone,      \* handles whose PeerDown was returned
    streams,   \* peerDelivery.streams
    queued,    \* peerDelivery.queued
    current,   \* the handle the peer's supervisor routes to
    wake,      \* a token is in the wake channel
    consumer,  \* "waiting" for the wake channel, or "draining" Next
    outcome,   \* history: what became of each stream
    replaces,  \* history: handles of the same peer added before this one
    served     \* history: handles served since this one joined the ring's back

vars == <<ready, ahead, owner, up, down, gone, streams, queued, current,
          wake, consumer, outcome, replaces, served>>

ring == <<ready, ahead>>

Outcomes == {"none", "queued", "delivered",
             "Closing", "UnsupportedSelector", "Unspecified"}

Init ==
    /\ ready = {}
    /\ ahead = [h \in Handles |-> {}]
    /\ owner = [h \in Handles |-> NoPeer]
    /\ up = {} /\ down = {} /\ gone = {}
    /\ streams = [h \in Handles |-> <<>>]
    /\ queued = [h \in Handles |-> [t \in Protocols |-> 0]]
    /\ current = [p \in Peers |-> NoHandle]
    /\ wake = FALSE
    /\ consumer = "waiting"
    /\ outcome = [s \in Streams |-> "none"]
    /\ replaces = [h \in Handles |-> {}]
    /\ served = [h \in Handles |-> {}]

-----------------------------------------------------------------------------
(* The ring. *)

Front(h) == h \in ready /\ ahead[h] = {}

\* Mutant: the wake is not sent.
SignalDropped == wake' = wake

\* signal: a non-blocking send on the wake channel.
Signal == wake' = TRUE

\* schedule: link the handle at the back unless linked, and signal in any case.
Schedule(h) ==
    /\ ready' = ready \union {h}
    /\ ahead' = IF h \in ready THEN ahead ELSE [ahead EXCEPT ![h] = ready]
    /\ served' = IF h \in ready THEN served ELSE [served EXCEPT ![h] = {}]
    /\ Signal

\* list.Remove.
Unlink(h) ==
    /\ ready' = ready \ {h}
    /\ ahead' = [x \in Handles |-> IF x = h THEN {} ELSE ahead[x] \ {h}]

\* Mutant: the handle goes back to the front.
RelinkFront(h) == UNCHANGED ring

\* Remove of the front, then PushBack of the same handle.
Relink(h) ==
    /\ ready' = ready
    /\ ahead' = [x \in Handles |-> IF x = h THEN ready \ {h}
                                            ELSE ahead[x] \ {h}]

\* Mutant: a handle with more streams leaves the ring.
RequeueNever(h, more) == Unlink(h)

\* The end of Next: the popped handle returns to the back if it has more.
Requeue(h, more) == IF more THEN Relink(h) ELSE Unlink(h)

\* History for a step of Next that serves h.
Serve(h) ==
    served' = [x \in Handles |-> IF x = h THEN {}
                                 ELSE IF x \in ready THEN served[x] \union {h}
                                 ELSE served[x]]

-----------------------------------------------------------------------------
(* The supervisor's side. *)

\* Mutant: attach adds the new view's handles before it drops the old view.
NoViewUnchecked(p) == TRUE

\* attach calls addPeer with no view standing: it dropped the one it replaces.
NoView(p) == current[p] = NoHandle

\* addPeer, called by attach.
AddPeer(p, h) ==
    /\ NoView(p)
    /\ owner[h] = NoPeer
    /\ owner' = [owner EXCEPT ![h] = p]
    /\ replaces' = [replaces EXCEPT ![h] = {x \in Handles : owner[x] = p}]
    /\ current' = [current EXCEPT ![p] = h]
    /\ Schedule(h)
    /\ UNCHANGED <<up, down, gone, streams, queued, consumer, outcome>>

\* The protocol's queue is at its bound.
Full(h, t) == queued[h][t] >= MaxQueued[t]

\* push on a handle the consumer closed itself.
PushEnded(p, s) ==
    /\ outcome[s] = "none"
    /\ current[p] \in down
    /\ outcome' = [outcome EXCEPT ![s] = "UnsupportedSelector"]
    /\ UNCHANGED <<ring, owner, up, down, gone, streams, queued, current,
                   wake, consumer, replaces, served>>

\* push over the protocol's bound.
PushOver(p, s) ==
    /\ outcome[s] = "none"
    /\ current[p] \in Handles \ down
    /\ Full(current[p], ProtocolOf[s])
    /\ outcome' = [outcome EXCEPT ![s] = "Unspecified"]
    /\ UNCHANGED <<ring, owner, up, down, gone, streams, queued, current,
                   wake, consumer, replaces, served>>

\* push within the bound.
Push(p, s) ==
    LET h == current[p] t == ProtocolOf[s] IN
    /\ outcome[s] = "none"
    /\ h \in Handles \ down
    /\ ~Full(h, t)
    /\ streams' = [streams EXCEPT ![h] = Append(@, s)]
    /\ queued' = [queued EXCEPT ![h][t] = @ + 1]
    /\ outcome' = [outcome EXCEPT ![s] = "queued"]
    /\ Schedule(h)
    /\ UNCHANGED <<owner, up, down, gone, current, consumer, replaces>>

\* closePeer takes the queued streams and clears the counts.
ClearQueue(h) ==
    /\ streams' = [streams EXCEPT ![h] = <<>>]
    /\ queued' = [queued EXCEPT ![h] = [t \in Protocols |-> 0]]

\* Mutant: a handle that never came up stays in the ring.
AnnounceEndAlways(h) == Schedule(h)

\* closePeer's last critical part: PeerDown is scheduled, or the handle leaves
\* the ring when its PeerUp was never returned.
AnnounceEnd(h) ==
    IF h \in up THEN Schedule(h) ELSE Unlink(h) /\ UNCHANGED <<wake, served>>

\* closePeer on a live handle: it ends and its queued streams are reset.
ClosePeer(h, resetCode) ==
    /\ down' = down \union {h}
    /\ ClearQueue(h)
    /\ outcome' = [s \in Streams |->
            IF \E i \in 1..Len(streams[h]) : streams[h][i] = s
            THEN resetCode ELSE outcome[s]]
    /\ AnnounceEnd(h)
    /\ UNCHANGED <<owner, up, gone, consumer, replaces>>

\* dropView of a view whose handle is still live.
DropView(p) ==
    /\ current[p] \in Handles \ down
    /\ ClosePeer(current[p], "Closing")
    /\ current' = [current EXCEPT ![p] = NoHandle]

\* dropView of a view whose handle the consumer closed: closePeer returns early.
DropClosedView(p) ==
    /\ current[p] \in down
    /\ current' = [current EXCEPT ![p] = NoHandle]
    /\ UNCHANGED <<ring, owner, up, down, gone, streams, queued, wake,
                   consumer, outcome, replaces, served>>

-----------------------------------------------------------------------------
(* The consumer's side. *)

\* Peer.Close: the consumer holds every handle it got a PeerUp for.  Closing an
\* ended handle does nothing.
PeerClose(h) ==
    /\ h \in up \ down
    /\ ClosePeer(h, "UnsupportedSelector")
    /\ UNCHANGED current

\* The consumer leaves its select and starts to drain.
Wake ==
    /\ consumer = "waiting"
    /\ wake
    /\ wake' = FALSE
    /\ consumer' = "draining"
    /\ UNCHANGED <<ring, owner, up, down, gone, streams, queued, current,
                   outcome, replaces, served>>

\* Next returns PeerUp.  The handle stays linked only if it has more to say.
NextPeerUp(h) ==
    /\ consumer = "draining"
    /\ Front(h)
    /\ h \notin up
    /\ up' = up \union {h}
    /\ Requeue(h, streams[h] # <<>> \/ h \in down)
    /\ Serve(h)
    /\ UNCHANGED <<owner, down, gone, streams, queued, current, wake,
                   consumer, outcome, replaces>>

\* Mutant: a returned stream keeps counting against its bound.
UncountNot(h, t) == queued' = queued

\* A returned stream stops counting against its protocol's bound.
Uncount(h, t) == queued' = [queued EXCEPT ![h][t] = @ - 1]

\* Next returns the oldest queued stream.
NextStreamIn(h) ==
    /\ consumer = "draining"
    /\ Front(h)
    /\ h \in up
    /\ streams[h] # <<>>
    /\ streams' = [streams EXCEPT ![h] = Tail(@)]
    /\ Uncount(h, ProtocolOf[Head(streams[h])])
    /\ outcome' = [outcome EXCEPT ![Head(streams[h])] = "delivered"]
    /\ Requeue(h, Len(streams[h]) > 1 \/ h \in down)
    /\ Serve(h)
    /\ UNCHANGED <<owner, up, down, gone, current, wake, consumer, replaces>>

\* Next returns PeerDown, the handle's last event.
NextPeerDown(h) ==
    /\ consumer = "draining"
    /\ Front(h)
    /\ h \in up
    /\ streams[h] = <<>>
    /\ gone' = gone \union {h}
    /\ Unlink(h)
    /\ Serve(h)
    /\ UNCHANGED <<owner, up, down, streams, queued, current, wake,
                   consumer, outcome, replaces>>

\* Next reports empty, and the consumer goes back to its select.
NextEmpty ==
    /\ consumer = "draining"
    /\ ready = {}
    /\ consumer' = "waiting"
    /\ UNCHANGED <<ring, owner, up, down, gone, streams, queued, current,
                   wake, outcome, replaces, served>>

-----------------------------------------------------------------------------

Consume ==
    \/ Wake
    \/ NextEmpty
    \/ \E h \in Handles : NextPeerUp(h) \/ NextStreamIn(h) \/ NextPeerDown(h)

Supervise ==
    \E p \in Peers :
        \/ \E h \in Handles : AddPeer(p, h)
        \/ \E s \in Streams : PushEnded(p, s) \/ PushOver(p, s) \/ Push(p, s)
        \/ DropView(p)
        \/ DropClosedView(p)

Next == Consume \/ Supervise \/ \E h \in Handles : PeerClose(h)

Spec == Init /\ [][Next]_vars

\* The consumer's goroutine (Engine.run) keeps running: it selects on the wake
\* channel and drains without blocking.  Nothing is assumed of the supervisors.
FairSpec == Spec /\ WF_vars(Consume)

-----------------------------------------------------------------------------
(* Properties. *)

TypeOK ==
    /\ ready \subseteq Handles
    /\ ahead \in [Handles -> SUBSET Handles]
    /\ owner \in [Handles -> Peers \union {NoPeer}]
    /\ up \subseteq Handles /\ down \subseteq Handles /\ gone \subseteq Handles
    /\ streams \in [Handles -> Seq(Streams)]
    /\ queued \in [Handles -> [Protocols -> Nat]]
    /\ current \in [Peers -> Handles \union {NoHandle}]
    /\ wake \in BOOLEAN
    /\ consumer \in {"waiting", "draining"}
    /\ outcome \in [Streams -> Outcomes]
    /\ replaces \in [Handles -> SUBSET Handles]
    /\ served \in [Handles -> SUBSET Handles]

\* When the consumer learns of a peer's new handle, it has already been told of
\* the end of every earlier handle of that peer it knew.  Engine keeps one
\* binding per peer ID on this promise (engine.go:221-223, supervisor.go:198).
ReplacedDownFirst ==
    \A h \in up : \A x \in replaces[h] : x \in up => x \in gone

\* No wake is lost: events are never pending while the consumer waits on an
\* empty wake channel (family.go:148-149).
NoLostWake == ready # {} => wake \/ consumer = "draining"

\* Peers take turns: no handle is served twice while another one waits in the
\* ring (family.go:81, "Peers take turns").
TakeTurns ==
    \A h, x \in Handles : (Front(h) /\ x \in ready \ {h}) => h \notin served[x]

Waiting(h, t) == {i \in 1..Len(streams[h]) : ProtocolOf[streams[h][i]] = t}

\* The per-protocol count that enforces MaxQueued is exactly the number of
\* streams waiting, so the bound neither leaks away nor is exceeded.
QueueCountExact ==
    \A h \in Handles, t \in Protocols :
        /\ queued[h][t] = Cardinality(Waiting(h, t))
        /\ queued[h][t] <= MaxQueued[t]

\* A stream that was accepted is in exactly one live handle's queue until it is
\* returned or reset, and that handle is linked in the ring: nothing accepted
\* is stranded where neither Next nor closePeer finds it.
NoStrandedStream ==
    /\ \A s \in Streams : outcome[s] = "queued" =>
           \E h \in ready \ down : \E i \in 1..Len(streams[h]) : streams[h][i] = s
    /\ \A h \in Handles : \A i \in 1..Len(streams[h]) :
           outcome[streams[h][i]] = "queued"

OrderedStep ==
    /\ \A h \in Handles :
          /\ h \in up' \ up => h \notin down /\ gone' = gone
          /\ h \in gone' \ gone => h \in up /\ h \in down /\ up' = up
          /\ h \in gone => h \notin ready' /\ streams'[h] = <<>>
    /\ \A s \in Streams : (outcome'[s] = "delivered" /\ outcome[s] = "queued") =>
          \E h \in up \ down : streams[h] # <<>> /\ Head(streams[h]) = s

\* Events of one handle: a step returns at most one of PeerUp, a stream and
\* PeerDown for it; PeerUp of an ended handle and streams of a handle that is
\* not up, or that has ended, are never returned; nothing follows PeerDown
\* (doc.go:86-90).
EventOrder == [][OrderedStep]_vars

\* Every handle the consumer knows and that ended is reported with PeerDown, a
\* handle that was added is reported or ends first, and a queued stream is
\* returned or reset.
EveryEventReturned ==
    /\ \A h \in Handles :
          /\ (h \in up /\ h \in down) ~> (h \in gone)
          /\ (owner[h] # NoPeer) ~> (h \in up \/ h \in down)
    /\ \A s \in Streams : (outcome[s] = "queued") ~> (outcome[s] # "queued")

=============================================================================
