# A TLA+ model of ethp2p

ethp2p is a peer-to-peer stack for erasure-coded broadcast over QUIC. This
directory models its concurrent core in TLA+, checks the models with TLC on
small instances, and proves properties of the stack, of the family delivery queue,
of the outbound control state, of chunk emission and of a channel's intake with
TLAPS for every value of the constants. Paths below are relative to `src/`;
`PROJECT.json` maps every definition to the lines it models.

## The system

| Part | Source | State | What happens to it |
|---|---|---|---|
| transport | `transport/` | one QUIC connection shared by an ethp2p and a libp2p view; queues of classified streams | accept and dial, classify a stream by its first bytes, release a view, close the connection when both are released |
| stack | `stack.go`, `session.go`, `control/` | dial states, supervisors, live views | Connect, Disconnect, Close, hello and GOAWAY exchange |
| peer supervisor | `supervisor.go` | the peer's current view, its routes, handles and header reads | attach (duplicate rule), read stream headers, drop the view, exit |
| family delivery | `family.go` | ring of handles with pending events, per-protocol queues, wake channel | addPeer, push, closePeer; the consumer calls Next |
| engine | `broadcast/engine.go`, `peer.go` | channels, bindings, connected peers | bind and unbind peers, announce channels, hand streams to connections |
| outbound control | `broadcast/ctrl_out.go`, `peer_ctrl.go` | per-peer wishes (channels, sessions), open SESS streams, chunk slots | callers record wishes, the control loop takes and writes them one at a time |
| chunk emission | `broadcast/session.go`, `rs/`, `peer_ctrl.go` | inventories, in-flight counts, planner, outboxes | poll the strategy after each event, send, report the result |
| channel and sessions | `broadcast/channel.go`, `session.go`, `peer_in.go` | inbox, members, sessions, parked streams, read queue | one actor handles events; readers, decoder and timers post to it |
| codecs | `wire/`, `enr/`, `broadcast/wire.go` | none | parse and format frames, selectors, records |

Every part is a goroutine or a small group of them that owns its state and hears
from the others through channels, mutex-guarded queues or contexts. A stream
arrives at the transport, its header is read by the peer's supervisor, the family
ring delivers it to the engine, the engine hands it to the peer's connection, and
a reader there posts it to a channel actor. In the other direction a session
records what it wants in the peer's control state and puts chunks in an outbox,
and two loops per peer write them.

What makes it hard: a peer reconnects while events of its earlier connection are
still queued somewhere; a message's session is disposed and created again under
the same key; wishes coalesce while a write waits for credit; an actor waits for
goroutines that post to it; bounded queues refuse work in the middle of a step.
`PROJECT.json` lists these hazards at the lines where they bite, with the
properties that cover them.

How the modules divide the system:

    StreamPath      transport, header reading          Wire, Control, Rlp: codecs
        |                                                  (operators)
    Stack           Connect, HELLO, supervisor, GOAWAY, Close
        |  implements PeerPresence, which FamilyDelivery relies on
    FamilyDelivery  the ring of events
        |  per peer: PeerDown before the next PeerUp, on which Engine relies
    Engine          bindings, PeerConn, enrolment, shutdown
        |                       |
    ChannelIntake   receiving   CtrlOut, ChunkSend   sending

## Modules

### Stack and PeerPresence

Two nodes and everything between a call of `Connect` and a family's handle
(`stack.go`, `session.go`, `supervisor.go`). A connection is dialed by a driver
(`Connect`, `Dial`, `DialFails`, `Finish`; other callers wait in `Awaken`), both
ends write HELLO, `ReadHello` hands the view to the peer's supervisor, and the
supervisor's loop (`Admit`, `Replace` with `InstallReplacing`, `Reject`, `Drop`,
`Skip`, `ViewDone`, `TryExit`) handles its inbox batch by batch. Goroutines release
dropped views (`CloseView`) and read the peer's GOAWAY (`ReadGoAway`).
`Disconnect`, `Close` in its three stages, a family's `PeerClose`, cancelled
callers, expired handshakes and lost connections come at any time.

`PeerPresence` is what the families may rely on: handles of one view at a time,
each view admitted once, nothing after Close. `Stack` is shown to implement it by
mapping `held` to the handles, `spent` to the views that have had a GOAWAY reader
(which exactly the installed ones have) and `over` to the closed nodes.

The run has two connections and four scenes: both nodes dial; two callers share a
dial; one caller with two endpoints; one caller at the node with the higher peer
ID. Two connections suffice for a duplicate, a replacement and a reconnect. Each
scene allows one or two faults (`Fault` counts failures and departures), so that
every pair of them is tried in the last two.

Simplifications: appending to an inbox and signalling are one step, except in
Close, where the distance matters (`CloseBegin`, `CloseSignal`): a late signal
only makes the supervisor look at an empty inbox. Close codes and records are left
out. Peers that speak only libp2p appear as a dial that fails.

### StreamPath, Wire, Control and Rlp

One node's side of the connections with one peer, from the transport to a routed
stream (`transport/`, the accept loops and header readers of `supervisor.go`). An
endpoint offers each connection to libp2p and to the stack (`Endpoint`,
`Listener`); streams are accepted and classified by their first byte with a
bounded number of tokens (`Dispatch`); either view is released while the other
goes on, in the code's two steps, claim and drain (`Releases`); the supervisor
takes streams from the queue on a wake as far as it has header slots, and routes
or cancels what its readers report (`Supervise`, `ReadHeader`). `dropView` takes
two steps, since the handles live on for a moment after the supervisor has given
up the view (`DropCurrent`, `EndHandles`), and a replacing view is installed after
both (`AttachNext`). The callback with which `awaitHello` watches its context is not
waited for, so it may release a view that has just been admitted (`HelloEnds`);
`late` remembers these. In the other direction a family opens a stream through its handle (`Opens`), while the handle,
the view or the connection ends; the callbacks that carry these ends into the call
may come late (`CutOff`), which is why the code looks at the handle again.

`Wire` has varints, selectors, frames and codes, `Control` HELLO and GOAWAY, `Rlp`
the items of a record. They are operators on sequences of bytes, translated with
their early returns, with the numeric limits as constants: the run gives a byte
ten values (five end a varint; as an RLP prefix each of its classes occurs twice), a
selector field two bytes and an RLP length up to two bytes. It checks the decoders on
every input of up to three bytes, on those of four that begin as a control frame, as
a header of long numbers or as a long RLP item, and on RLP items with a length of two
bytes, all of them as the bytes of a stream, so that the readers' behaviour at every
prefix is covered too. `CodecCanonical` compares each decoder with its encoder: what decodes
is the one encoding of its value.

Bounds: two connections, up to three streams, one classification token, one header
slot per direction, one connection waiting for acceptance; at each of these limits
one more arrives. One call opens a
stream; calls share nothing but the handle. Simplifications: the bytes of a unidirectional stream arrive
whole or not; `readHeaders` takes a batch of streams in one step; a view's claim
and the end of its context are one step; the HELLO stream is Stack's; the payload
of HELLO and GOAWAY is the packed varints of its one field, without the record and
protobuf's unknown fields.

### Engine

The broadcast engine's actor (`broadcast/engine.go`) with one remote peer that may
reconnect, its PeerConns (`peer.go`, `peer_in.go`, `peer_ctrl.go`) and the
channels as far as they answer the engine. The functions posted to `eventCh` run
one at a time; one that sends to channels or joins a PeerConn runs over several
steps (`todo`), since each of these may block while readers, accept loops and
channels go on. The PeerConn has its handshake, the claim of BCAST, the hand-off
queues and their readers, the workers that `Run` starts and their end, and the data
loop's report of a chunk's result, which waits for room in the channel's inbox while
the engine waits to join the loop (`TakeChunk`, `ReportChunk`, `Joined`).

Six scenes: a reconnect; a SUBSCRIBE or UNSUBSCRIBE frame; a SESS stream on its way to
a channel; a CHUNK stream on its way to a channel while a chunk is sent; two Channels
of one ID; more streams than the queues hold. Every queue has one place.
Simplifications: events of the delivery loop interleave freely with posted functions,
where the code's select picks one of them; the data loop and the accept loops end with
the context between two streams, which is seen when they are joined. Fairness is `WF_vars(Program)`: the scheduler runs some goroutine that can
run. It is weaker than fairness for each of them, and enough because every wait of
the shutdown path is for a goroutine that can go on. Nothing is assumed of the
family, the peer or the callers.

### FamilyDelivery

One family's ring (`family.go`). Each critical section of the family mutex is an
action: `AddPeer`, `Push` (with `PushEnded` and `PushOver` for its early
returns), `PeerClose`, the supervisor's `DropView`, and the cases of `Next`
(`NextPeerUp`, `NextStreamIn`, `NextPeerDown`, `NextEmpty`). The linked list is
the set `ready` with, for each linked handle, the set `ahead` of those before it,
which makes the state canonical and the proofs first-order. `outcome`, `replaces`
and `served` are history. The view's handles of other families are independent
and left out.

The run has two peers, two handles and three streams of two protocols with
`MaxQueued` 1. Two handles suffice for one to replace the other and for two peers
to wait side by side; three streams fill a queue and overflow it. The proofs
remove these bounds for everything except `EveryEventReturned`. The only fairness
is that the consumer keeps running: `Engine.run` selects on the wake channel and
`Next` never blocks.

### CtrlOut

The outbound control state of one connected peer (`ctrl_out.go`) with the loop
that writes it and the engine step that seeds it. Callers (`AddChannel`,
`RemoveChannel`, `OpenSession`, `CloseSession`, `CloseSessionStream`,
`SetRouting`) run at any time, between `next()` (one action per phase,
`NextClose` to `NextRouting`) and the write it returned (`Write...`), and while a
write is blocked. An OPEN takes two steps, the stream and its first frame
(`OpenStream`, `WriteOpen`): in between the stream is open and the loop's map does
not have it, so a failing write must cancel it (`OpenFails`). A session's
generations are numbered; the payload of an open or an update is the generation
that produced it, which is what lets a property say that a frame belongs to another
session. Creation order is kept as sets of older entries (`elder`).

`Handshake` compares sets: a channel that left and came back between Hello and the
handshake is not announced again, so `epoch` counts a channel's additions after the
handshake, and `ChannelsSettled` speaks of those. `RemoveChannel` may come while the
channel has sessions, as `DropChannel` of a running channel makes it; its sessions
then go on to change the control state, and `joined` is the channels that have this
peer as a member. A second Channel of the same ID beside one that runs on is not
modelled here (Engine has it).

One channel that may be added twice and one message with two generations. A
second key would only interleave: entries interact through the order of the
phases alone. Simplification: a write and the slot update after it are one step
that waits for room in the slot channel first. Fairness is assumed of the loop's
exit and of a write of OPEN that its ended context fails, since each of the loop's
waits also waits for the peer's context; nothing is assumed of other writes, because
a peer may withhold credit for ever.

### ChunkSend

The outbound half of one session: the Reed-Solomon strategy's emission state, the
session's handlers and the peer's data loop. A handler is one step with its
trailing `drainPolls` (`Drain`), which polls routing, then offers every peer one
chunk by least allocations, ties open. The session has its stage and ends as the
code ends it: when a peer is dropped or completes, or the message is decoded, the
handler looks whether the session is idle and disposes it (`Idle`, `Dispose`), and
expiry, a publication or the channel's end may dispose it at any time. Sends carry
the attachment they belong to, which the code does not know; `tainted` records that a
result of an earlier attachment was taken for one of the present.

A scene says who takes part. In the passing run a relay's peer is attached up to twice
while a second peer, whose data loop has not begun, may keep the session alive (with
one peer alone its end would be the session's), and an origin has two peers. There are
two chunks up to symmetry, of which one decodes, and an outbox of one place (the
code's has 16) so that it fills. `chunk_send_budget` has two peers with both data
loops. The theorems hold for any number of peers. `Config.DisableBitmap` is left out.
There is no liveness property: the remote peer's reading decides whether a send ends.

### ChannelIntake

The inbound half of a channel: the actor with its bounded inbox, one message's
session through its generations, parked streams, the read queue, payload readers,
the decoder, the expiry timers, and the peers' SESS and CHUNK readers. Each kind
of event has its handler as one action. `closeWithCode` waits for the session's
goroutines, so disposal has two steps (`actor` is "closing" in between), and the
goroutines take their steps meanwhile. The engine binds a peer (`BindPeer`) on a new
connection or again on the one it had, after UNSUBSCRIBE and SUBSCRIBE; once the
connection has ended (`gone`) it is not bound again.

One run with four scenes: two streams of a peer compete for the one reader; the
message is published while its peer is bound again or reconnects; a malformed stream;
two peers and three bindings in all. The inbox has one place, which makes every
producer wait, the case that matters for the waits between actor and goroutines; one
chunk decodes the message. Fairness is `WF_vars(Program)`: while the actor, a reader
(`chunkReadTimeout` ends a read), the decoder or a timer can run, one of them does. The
load of a scene is bounded, so that this suffices for every send that waits for room;
nothing is assumed of peers, the engine or callers. Simplifications: a
timer's expiry and its post are one step; a reader's slot that is freed in the
middle of one handler is seen by the next; asynchronous verification is left out
(`strategy.Verified` returns nil); routing updates and chunk results belong to
ChunkSend.

## What the runs show

| Run | Result |
|---|---|
| `family_delivery` | No lost wake; replaced handles end first; turns; exact queue bounds; nothing stranded; per-handle order; every event is returned |
| `ctrl_out` | Whenever the loop sleeps the peer knows exactly the engine's channels and the attached sessions; no frame of one generation reaches another's stream; no stream is forgotten; a cancelled loop ends clean |
| `chunk_send` | In-flight counts are exact, emission never stalls, no chunk sleeps in an outbox, none is written twice, inventories are fresh |
| `channel_intake` | Every stream is owned by someone who will end it, and is read or cancelled; no queued read stalls; session peers are the members; no idle session is left; a decoder belongs to the present session; a close never deadlocks with the goroutines it waits for |
| `stack` | At rest both nodes hold the same view or none, and hold one if nothing failed; no request is lost; a Disconnect that returned has ended every view it found, also the one being dialed; no call is stranded; families see PeerPresence |
| `stream_path` | Header slots are exact and never keep a stream waiting; a released view leaves no stream behind; no stream reaches another protocol; a connection lives until both views are released and no longer; a stream is handed to a family only while its handle lives, and a failed open leaves none; the codecs are canonical |
| `engine` | Channels and engine agree on the peer through reconnects and channel changes; every stream handed to broadcast is disposed of; Close returns |

Five runs end in a violation, each a disagreement between the code and a comment
or the specification (details under `findings`):

- `ctrl_out_reopen`: a session closed while its predecessor's SESS stream is
  open and its own OPEN is unwritten is opened afterwards (`ctrl_out.go:173`).
  `ctrl_out` therefore excepts keys in `doubled`.
- `chunk_send_stale`: results are matched by peer and handle, so one of an earlier
  attachment can be taken for the present one's (`session.go:390`), when another
  peer keeps the session alive in between.
  `chunk_send` therefore excepts peers in `tainted`.
- `chunk_send_announced`: the failure of a cancelled redundant send clears the bit
  the peer announced (`rs/strategy.go:317`).
- `chunk_send_budget`: the forward budget is tested against confirmed sends only, so
  that every peer may be sent a shard before the first send is confirmed
  (`rs/strategy.go:263`). `BudgetBounded` proves what the test does bound.
- `channel_intake_stale`: the decode result of a disposed session marks its
  successor reconstructed (`channel.go:266`).

Deadlock checking is off in every run: all the modelled systems may rest when the
bounded inputs are used up.

## What is proved

`FamilyDeliveryProofs`, under `DeliveryAssumption` alone
(the constants are typed, bounds are positive, the "none" values are fresh), for
any sets of peers, handles, streams and protocols:

- `WakeNeverLost`, `DownBeforeReplacement`, `PeersTakeTurns`, `NothingStranded`,
  `HandleEventOrder`, `QueueBoundExact` and `TypeCorrect`.

None of the invariants is inductive alone. `RingInv` adds that an unborn handle is
nowhere (`Unborn`), that a peer has one live handle, its supervisor's (`OneLive`),
that an ended handle has an empty queue (`Ending`), that a reported one is out of
the ring for good (`Reported`), that a linked handle has something to say
(`HasEvent`), that a replaced handle which the consumer must still hear of stands
ahead of its successor (`ReplacedAhead`), and that whoever was served since x
joined stands behind x (`ServedBehind`). `Accepted` does the same for streams, and
`CountInv` relates counts to positions; its two lemmas count a protocol's places
in a sequence under Append and Tail with the library's cardinality theorems.

`ChunkSendProofs`, under `ChunkSendAssumption` (finite sets of peers and chunks,
positive bounds, typed scenes):

- `BudgetBounded`, `InventoriesFresh`, `NoChunkSleeps`, `SendNeverStalls`,
  `WritesHappenOnce`, `InflightIsExact` and `SendTypeCorrect`.

A bound on confirmed sends alone is not inductive: several sends may be in flight
when the last credit is used. `Paid` counts them: confirmed sends plus the peers a
chunk is in flight to stay below the multiplier plus the number of peers, because
`allocate` adds one only below the multiplier. Its second half, that allocations
cover the sends in flight, is what keeps the planner's counts from going negative
when a failure gives one back. `Fresh` is inductive given the types: every handler
either leaves the inventory alone or sets the dirty flag before it polls. Both are
stated of the arguments of `Drain`, since each handler changes the state before it
polls, and shown to survive `Drain` once.

The other four follow a dispatch on its way through outbox, data loop and result
(`PathInv`, in `ChunkSendPath` with the steps of the data loop; the session's
handlers and the theorems are in `ChunkSendProofs`). `Belongs` says where dispatches
are and that an outbox holds those of the present attachment only; `Awake` that the
loop does not sleep on a registered chunk; `Moving` that a peer who could be offered
a chunk has a dispatch under way; `Queues`, with the types, that a disposed session has
no peer left. A result is lost only with the session or the connection, so `Moving` survives
it: no connected peer is left that waits for a poll. For a peer whose results are not confused,
`Followed` says of each chunk that one dispatch of it exists in all if the strategy
counts it in flight and none otherwise (`Sole`), and that a chunk that was written
is known to the peer or its success is on its way (`Confirmed`). `WrittenOnce`
needs both: a dispatch that is written is the only one, so the chunk was not
confirmed before, so it was not written before.

`StackProofs`, under `StackAssumption` (two nodes, typed scenes, a fresh "none"),
for any number of connections, callers, families, calls of Disconnect and faults:

- `RequestsReachSupervisor`: `NoLostRequest` always holds;
- `StackImplementsPresence`: `Spec => FamiliesSeeOneView`, the refinement.

Both follow from `StackInv`. Of a node it says where the supervisor's loop is and
what it then holds (`Loop`: a replacing view is still at the head of the batch and
no view is current), that an absent supervisor has left nothing behind (`Absent`),
that an inbox with requests comes with a wake (`Woken`), that the views in state
"boxed" are exactly those handed over in the inbox or the batch (`Boxed`), that
nothing is read from a view before it is installed (`Unread`), and that handles
are the current view's (`Handled`). NoLostRequest alone is not inductive: that a
request finds a supervisor needs that `post` reaches only views the supervisor
owns and that it owns none after `tryExit`. For the refinement, `Admit` must find
no handles and a view that was never admitted: a view is handed over once, so that
queues hold each hand-over once (`Once`), and both queues have none in common.
Queues are reasoned about through the set of requests they hold (`Held`), with one
lemma each for Append and Tail; a lemma for each action then shows the invariant
kept, most through `Served` (a request is done), `PostStep` (a request is added)
or `Untouched` (the other node).

`CtrlOutProofs`, under `CtrlOutAssumption` (each key is of a channel, bounds are natural
numbers, the slot channel has room for one), for any channels, messages and
generations and any capacity of the slot updates' channel:

- `ChannelsSettledHolds`, `SessionsSettledHolds`, `NoForeignFrameHolds`,
  `NoForgottenStreamHolds`, `WireOrderHolds` and `CtrlTypes`.

The properties speak of the moments at which the loop sleeps; `CtrlInv` says what
holds in between, key by key and channel by channel. A channel is announced or the
write that tells it is under way (`ChannelInv`). Of a key, the peer has seen only
generations that existed and holds at most one open stream, the one the loop's map has
or the one whose OPEN it is writing (`Carried`, `Seen`); what is
still to be opened was never opened (`Unopened`); an entry's flags are those of
its last generation (`Flags`); the stream and the write under way fit the entry
(`Held`); and what was written for the last generation is on the wire, with the
chunk slot it settles to once the updates under way are applied (`Written`,
`Settles`). A loop that sleeps finds nothing to do (`Quiet`), since every caller
that changes an entry also leaves a token. `CtrlOutInvariant` has the invariant,
its types, the slot updates and what callers and `next()` do to a key,
`CtrlOutProofs` the writes, the channels and the theorems.

`ChannelIntakeProofs`, under `IntakeAssumption` (finite sets of streams and chunks,
each stream of a peer and for a chunk, positive capacities), for any peers, streams and
chunks, any room in the inbox, any number of readers and of parked streams:

- `StreamsAreHeld`, `ReadsKeepGoing`, `SessionsFollowMembers`, `IdleSessionsEnd`,
  `DecoderStaysOwned` and `IntakeTyped`: NoLeakedStream, NoReadStall,
  PeersAreMembers, NoIdleSession, DecoderOwned and the types always hold.

They follow from `IntakeInv`, whose parts need each other. A stream is in one
place, the inbox, the parked group, the read queue or with a reader (`Apart`), each
at most once (`SentOnce` and injective queues), and an open one is in one of them or
its producer has yet to look at the ended context (`Held`): NoLeakedStream alone is
not inductive, since a handler that cancels what it removes from one queue must not
meet the same stream in another. PeersAreMembers needs to know the order of what is
still in the inbox: a second Bound of a peer without an Unbound in between would
find the session on the old connection. `Enrolled` says that the events of the inbox
lead, one turn after the other, from the member's connection in the channel to the
one the engine has bound (`Leads`); the handlers take the first turn, the engine adds
the last. `Slots` says that a queued stream which finds a free slot will be looked
at: a ReadDone is in the inbox or a reader is about to post one. `Fits` describes a
session between two events, never idle; `Stopped` what an actor that waits has left.
`ChannelIntakeInvariant` has the invariant, the lemmas about the operators (`Keep`,
which filters a queue and is defined by counting because the prover knows nothing of
a recursive filter; `Drainable`; `Feed`) and what several handlers share, moving
streams (`Moved`) or dropping a peer (`DropResult`). `ChannelIntakeProofs` has a
lemma for each handler, goroutine and producer. TLC has checked IntakeInv on the
run's instance first.

Only model-checked: liveness (`EveryEventReturned`, `EndsClean`, `StreamSettles`
and `CloseReturns` of ChannelIntake and of Engine), which is out of the prover's
reach here; the other properties of Stack (`ViewsAgree`, `DisconnectEnds`,
`NoStrandedCall`), which relate two nodes or a caller to its dial and need an
invariant of their own; everything about StreamPath and Engine. What the codecs
compute for every input would need induction over data, which the prover lacks; the
run covers the short inputs described above.

The types of FamilyDelivery, CtrlOut, ChunkSend and ChannelIntake are proved
(`TypeCorrect`, `CtrlTypes`, `SendTypeCorrect`, `IntakeTyped`) and therefore no invariant of a run.

## Observations

Places where the code is right by a narrow margin or a reader may stumble; no run
reports them as violations.

- `stack.go:431`: `Connect` looks at `info` once its dial is over. While a view
  replaces another there is a moment without info, in which a call whose own view
  was refused as a duplicate returns an error although the peer stays connected.
- `stack.go:250`: `Disconnect` waits for the view it drops. One that was dropped
  just before may still have its releasing goroutine running when it returns.
- `supervisor.go:175`: of two views in one direction the one attached later is
  kept, which need not be the one dialed later.

## Not modelled

- Traffic totals, records and their sequence rule (`updateRecord`), the entries and
  signatures of a record beyond RLP, argument checks of constructors.
- Connections whose peer speaks libp2p only.
- The frames of `broadcast/wire.go`, which pair generated protobuf code with the
  frame head modelled in Wire.
- Asynchronous verification of chunks: `strategy.Verified` returns nil in the one
  strategy there is. `broadcast/rlnc` holds no implementation.
- Reed-Solomon arithmetic, hashing, TLS, certificates and identities: functions
  without state, on data no property here tells apart.
- Generated code, the simulator, the harness and tracing, logging, observers.

The whole system as one composition is out of TLC's reach; the modules are joined
by the promises above, PeerPresence and the order of family events.

## Running

    tlc -config MCStack.cfg MCStack
    tlapm StackProofs.tla

and likewise for the other MC modules, configurations and proof modules. The runs
take up to five minutes, the proofs of a module up to twenty.
