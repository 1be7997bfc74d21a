------------------------------- MODULE CtrlOut -------------------------------
(***************************************************************************)
(* The outbound control state of one connected broadcast peer and the      *)
(* goroutine that writes it (broadcast/ctrl_out.go, the control half of    *)
(* broadcast/peer_ctrl.go, and the engine step that seeds it).              *)
(*                                                                          *)
(* The engine announces channels, and sessions open, route and close their  *)
(* SESS stream, by recording what they want in ctrlOutState under its       *)
(* mutex.  The control loop takes one transition at a time with next() and  *)
(* then performs it; callers run freely between the two and while a write   *)
(* is blocked, so several wishes may coalesce.                              *)
(*                                                                          *)
(* A session of a message may be disposed and created again: `Gen' numbers  *)
(* its generations on this peer.  The payload of an open or a routing       *)
(* update is abstracted to the generation that produced it.                 *)
(***************************************************************************)
EXTENDS Naturals, Sequences, FiniteSets

CONSTANTS
    Channels,      \* channel IDs
    Keys,          \* sessionKey: (channel, message) pairs
    ChannelOf,     \* the channel of a key
    MaxGen,        \* bound: generations of one session
    MaxEpoch,      \* bound: times the engine adds one channel
    SlotUpdateCap  \* capacity of the slot channel between the two loops

ASSUME CtrlOutAssumption ==
    /\ ChannelOf \in [Keys -> Channels]
    /\ MaxGen \in Nat /\ MaxEpoch \in Nat
    /\ SlotUpdateCap \in Nat \ {0}

VARIABLES
    \* the engine and the sessions
    present,    \* channels the engine has
    joined,     \* channels that enrolled this peer and keep it as a member
    epoch,      \* history: how often the engine added the channel after the handshake
    att,        \* generation of the session attached to this peer, 0 if none
    lastGen,    \* last generation used for the key
    finished,   \* history: generations that asked for closeSessionStream
    \* ctrlOutState
    want, announced, retire,  \* channels, as sets of the ones with the flag
    entry,      \* sessions: the flags of an entry
    elder,      \* sessionOut.order: for an existing entry, itself and the older ones
    ready,      \* a token is in the ready channel
    closed,
    \* PeerConn and the control loop
    live,       \* p.ctx has not ended
    pc,         \* control loop: hello, loop, wait, write, exit
    job,        \* the transition next() returned
    stream,     \* the loop's sessions map: generation of the open SESS stream
    slotCh,     \* slot updates under way to the data loop
    slots,      \* the data loop's slots: generation of the chunk outbox
    \* what the remote peer sees
    subs,       \* channels it believes we subscribe to
    seen,       \* history: epoch of the channel's last announcement
    fate,       \* history: how each generation's SESS stream stands
    routed,     \* history: generations of updates written on a wrong stream
    doubled     \* history: keys closed while open and already reopened

callers == <<present, joined, epoch, att, lastGen, finished>>
state == <<want, announced, retire, entry, elder, ready, closed>>
loop == <<pc, job, stream, slotCh, slots>>
remote == <<subs, seen, fate, routed>>
vars == <<callers, state, live, loop, remote, doubled>>

Gens == 1..MaxGen

NoEntry == [pending |-> 0, open |-> FALSE, routing |-> 0,
            closeStream |-> FALSE, close |-> FALSE]

NoJob == [kind |-> "none"]

Exists(k) == k \in elder[k]

Init ==
    /\ present \in SUBSET Channels
    /\ joined = {}
    /\ epoch = [c \in Channels |-> 0]
    /\ att = [k \in Keys |-> 0]
    /\ lastGen = [k \in Keys |-> 0]
    /\ finished = [k \in Keys |-> {}]
    /\ want = {} /\ announced = {} /\ retire = {}
    /\ entry = [k \in Keys |-> NoEntry]
    /\ elder = [k \in Keys |-> {}]
    /\ ready = FALSE
    /\ closed = FALSE
    /\ live = TRUE
    /\ pc = "hello"
    /\ job = NoJob
    /\ stream = [k \in Keys |-> 0]
    /\ slotCh = <<>>
    /\ slots = [k \in Keys |-> 0]
    /\ subs = present          \* our Hello, written from the bind-time channels
    /\ seen = [c \in Channels |-> 0]
    /\ fate = [k \in Keys |-> [g \in Gens |-> "none"]]
    /\ routed = {}
    /\ doubled = {}

-----------------------------------------------------------------------------
(* The engine. *)

\* signal: a non-blocking send on the ready channel.
Signal == ready' = TRUE

\* handlePeerHandshake: record what Hello carried, then the difference to the
\* channels of today, enrol the peer, and let the loops start.  Only the sets are
\* compared: a channel that left and came back since Hello is not announced again.
Handshake ==
    /\ pc = "hello" /\ live
    /\ announced' = subs
    /\ want' = present
    /\ ready' = (present # subs)
    /\ joined' = present
    /\ pc' = "loop"
    /\ UNCHANGED <<present, epoch, att, lastGen, finished, retire, entry, elder,
                   closed, live, job, stream, slotCh, slots, remote, doubled>>

\* Mutant: a channel that comes back before its removal was written is treated
\* as if it had never left.
RetireNever(c) == UNCHANGED retire

\* announce(present) of a channel whose removal is still to be written: the
\* removal is kept, so the peer sees the channel leave and come back.
Retire(c) ==
    retire' = IF c \in announced \ want THEN retire \union {c} ELSE retire

\* addChannel, for this peer.  Before the handshake the peer is not among the
\* engine's peers and hears of it through the difference above.
AddChannel(c) ==
    /\ c \notin present /\ epoch[c] < MaxEpoch
    /\ present' = present \union {c}
    /\ IF pc = "hello"
       THEN UNCHANGED <<epoch, joined>>
       ELSE /\ epoch' = [epoch EXCEPT ![c] = @ + 1]
            /\ joined' = joined \union {c}
    /\ IF pc = "hello" \/ closed
       THEN UNCHANGED <<want, retire, ready>>
       ELSE /\ Retire(c)
            /\ want' = want \union {c}
            /\ Signal
    /\ UNCHANGED <<att, lastGen, finished, announced, entry, elder, closed,
                   live, loop, remote, doubled>>

\* removeChannel, for this peer: announce(absent) also forgets the routing
\* updates of the channel's sessions.  A channel that stops has closed its sessions
\* by then; DropChannel may also remove one that runs on with its members.
RemoveChannel(c) ==
    /\ c \in present
    /\ present' = present \ {c}
    /\ IF pc = "hello" \/ closed
       THEN UNCHANGED <<want, entry, ready>>
       ELSE /\ want' = want \ {c}
            /\ entry' = [k \in Keys |->
                    IF Exists(k) /\ ChannelOf[k] = c
                    THEN [entry[k] EXCEPT !.routing = 0] ELSE entry[k]]
            /\ Signal
    /\ UNCHANGED <<joined, epoch, att, lastGen, finished, announced, retire, elder,
                   closed, live, loop, remote, doubled>>

-----------------------------------------------------------------------------
(* The sessions, on the channel actors. *)

\* session(key): the entry is created, last in order, if it is missing.
Obtain(k) ==
    elder' = IF Exists(k) THEN elder
             ELSE [elder EXCEPT ![k] = {k} \union {j \in Keys : Exists(j)}]

\* Mutant: the flags of the closed generation survive into the next one.
ReopenedDirty(e, g) == [e EXCEPT !.pending = g, !.close = FALSE]

\* Mutant: the close of the previous generation is not withdrawn.
ReopenedClosed(e, g) == [e EXCEPT !.pending = g]

\* The entry after openSession: a fresh open replaces a closed generation.
Reopened(e, g) ==
    IF e.close
    THEN [e EXCEPT !.pending = g, !.close = FALSE,
                   !.closeStream = FALSE, !.routing = 0]
    ELSE [e EXCEPT !.pending = g]

\* handlePeerAttached calls openSession.
OpenSession(k) ==
    /\ ChannelOf[k] \in joined
    /\ att[k] = 0 /\ lastGen[k] < MaxGen
    /\ LET g == lastGen[k] + 1 IN
       /\ att' = [att EXCEPT ![k] = g]
       /\ lastGen' = [lastGen EXCEPT ![k] = g]
       /\ IF closed
          THEN UNCHANGED <<entry, elder, ready>>
          ELSE /\ entry' = [entry EXCEPT ![k] = Reopened(entry[k], g)]
               /\ Obtain(k)
               /\ Signal
    /\ UNCHANGED <<present, joined, epoch, finished, want, announced, retire, closed,
                   live, loop, remote, doubled>>

\* handlePeerDropped and notifyPeersSessionDone call closeSession.
CloseSession(k) ==
    /\ att[k] # 0
    /\ att' = [att EXCEPT ![k] = 0]
    /\ IF closed
       THEN UNCHANGED <<entry, elder, ready, doubled>>
       ELSE /\ entry' = [entry EXCEPT ![k] = [entry[k] EXCEPT !.close = TRUE]]
            /\ Obtain(k)
            /\ Signal
            /\ doubled' = IF entry[k].open /\ entry[k].pending # 0
                          THEN doubled \union {k} ELSE doubled
    /\ UNCHANGED <<present, joined, epoch, lastGen, finished, want, announced, retire,
                   closed, live, loop, remote>>

\* notifyPeersComplete calls closeSessionStream, once per session.
CloseSessionStream(k) ==
    /\ att[k] # 0 /\ att[k] \notin finished[k]
    /\ finished' = [finished EXCEPT ![k] = @ \union {att[k]}]
    /\ IF closed
       THEN UNCHANGED <<entry, elder, ready>>
       ELSE /\ entry' = [entry EXCEPT ![k] =
                            [entry[k] EXCEPT !.closeStream = TRUE]]
            /\ Obtain(k)
            /\ Signal
    /\ UNCHANGED <<present, joined, epoch, att, lastGen, want, announced, retire,
                   closed, live, loop, remote, doubled>>

\* broadcastRouting calls setRouting.
SetRouting(k) ==
    /\ att[k] # 0 /\ ~closed /\ Exists(k)
    /\ entry' = [entry EXCEPT ![k].routing = att[k]]
    /\ Signal
    /\ UNCHANGED <<callers, want, announced, retire, elder, closed, live,
                   loop, remote, doubled>>

-----------------------------------------------------------------------------
(* next(): one transition in phase order, consumed before it is written. *)

\* firstSession: the oldest of the matching entries.
First(k, S) == elder[k] \intersect S = {k}

CloseWanted == {k \in Keys : entry[k].close /\ entry[k].open}
UnsubscribeWanted == retire \union (announced \ want)

\* Mutant: announced channels are announced again.
SubscribeWantedAgain == want

SubscribeWanted == want \ announced
OpenWanted == {k \in Keys : entry[k].pending # 0}
CloseStreamWanted == {k \in Keys : entry[k].closeStream /\ entry[k].open}
RoutingWanted == {k \in Keys : entry[k].routing # 0 /\ entry[k].open}

\* The first phase deletes the closed entries that never reached the writer and
\* come before the closed entry it returns, or all of them if it returns none.
Skipped(k) ==
    /\ entry[k].close /\ ~entry[k].open
    /\ elder[k] \intersect CloseWanted = {}

\* delete(s.sessions, k) for every k of S.
Forget(S) == elder' = [k \in Keys |-> IF k \in S THEN {} ELSE elder[k] \ S]

SkippedKeys == {k \in Keys : Skipped(k)}

Pruned == [k \in Keys |-> IF Skipped(k) THEN NoEntry ELSE entry[k]]

\* Entries still matching after the first phase.
Kept(S) == {k \in S : ~Skipped(k)}

Take(kind, k, gen) ==
    /\ pc' = "write"
    /\ job' = [kind |-> kind, at |-> k, gen |-> gen]
    /\ UNCHANGED <<callers, ready, closed, live, stream, slotCh, slots,
                   remote, doubled>>

Turn == pc = "loop" /\ live /\ ~closed

\* The entry once its CloseSession was taken: a newer open stays.
AfterClose(e) ==
    IF e.pending = 0 THEN NoEntry
    ELSE [e EXCEPT !.close = FALSE, !.open = FALSE]

NextClose(k) ==
    /\ Turn
    /\ First(k, CloseWanted)
    /\ entry' = [Pruned EXCEPT ![k] = AfterClose(entry[k])]
    /\ Forget(SkippedKeys \union {j \in {k} : entry[j].pending = 0})
    /\ Take("CloseSession", k, 0)
    /\ UNCHANGED <<want, announced, retire>>

NextUnsubscribe(c) ==
    /\ Turn
    /\ CloseWanted = {}
    /\ c \in UnsubscribeWanted
    /\ announced' = announced \ {c}
    /\ retire' = retire \ {c}
    /\ entry' = Pruned
    /\ Forget(SkippedKeys)
    /\ Take("Unsubscribe", c, 0)
    /\ UNCHANGED want

NextSubscribe(c) ==
    /\ Turn
    /\ CloseWanted = {} /\ UnsubscribeWanted = {}
    /\ c \in SubscribeWanted
    /\ announced' = announced \union {c}
    /\ entry' = Pruned
    /\ Forget(SkippedKeys)
    /\ Take("Subscribe", c, epoch[c])
    /\ UNCHANGED <<want, retire>>

NoChannelWork == UnsubscribeWanted = {} /\ SubscribeWanted = {}

NextOpen(k) ==
    /\ Turn
    /\ CloseWanted = {} /\ NoChannelWork
    /\ First(k, Kept(OpenWanted))
    /\ entry' = [Pruned EXCEPT ![k].pending = 0, ![k].open = TRUE]
    /\ Forget(SkippedKeys)
    /\ Take("Open", k, entry[k].pending)
    /\ UNCHANGED <<want, announced, retire>>

NextCloseStream(k) ==
    /\ Turn
    /\ CloseWanted = {} /\ NoChannelWork /\ Kept(OpenWanted) = {}
    /\ First(k, Kept(CloseStreamWanted))
    /\ entry' = [Pruned EXCEPT ![k].closeStream = FALSE]
    /\ Forget(SkippedKeys)
    /\ Take("CloseStream", k, 0)
    /\ UNCHANGED <<want, announced, retire>>

NextRouting(k) ==
    /\ Turn
    /\ CloseWanted = {} /\ NoChannelWork /\ Kept(OpenWanted) = {}
    /\ Kept(CloseStreamWanted) = {}
    /\ First(k, Kept(RoutingWanted))
    /\ entry' = [Pruned EXCEPT ![k].routing = 0]
    /\ Forget(SkippedKeys)
    /\ Take("Routing", k, entry[k].routing)
    /\ UNCHANGED <<want, announced, retire>>

\* next reports nothing to do, and the loop waits for the ready channel.
NextNone ==
    /\ pc = "loop" /\ live
    /\ closed \/ (CloseWanted = {} /\ NoChannelWork /\ Kept(OpenWanted) = {}
                  /\ Kept(CloseStreamWanted) = {} /\ Kept(RoutingWanted) = {})
    /\ entry' = Pruned
    /\ Forget(SkippedKeys)
    /\ pc' = "wait"
    /\ UNCHANGED <<callers, want, announced, retire, ready, closed, live, job,
                   stream, slotCh, slots, remote, doubled>>

Wake ==
    /\ pc = "wait" /\ live /\ ready
    /\ ready' = FALSE
    /\ pc' = "loop"
    /\ UNCHANGED <<callers, want, announced, retire, entry, elder, closed,
                   live, job, stream, slotCh, slots, remote, doubled>>

-----------------------------------------------------------------------------
(* handleCtrl: the write, which may wait for the peer. *)

SlotRoom == Len(slotCh) < SlotUpdateCap

Done == pc' = "loop" /\ job' = NoJob

Mark(k, g, f) == fate' = [fate EXCEPT ![k][g] = f]

\* writeCtrl.
WriteChannel ==
    /\ pc = "write" /\ live
    /\ job.kind \in {"Subscribe", "Unsubscribe"}
    /\ IF job.kind = "Subscribe"
       THEN /\ subs' = subs \union {job.at}
            /\ seen' = [seen EXCEPT ![job.at] = job.gen]
       ELSE subs' = subs \ {job.at} /\ UNCHANGED seen
    /\ Done
    /\ UNCHANGED <<callers, state, live, stream, slotCh, slots, fate, routed,
                   doubled>>

\* Mutant: the stream of the previous generation is forgotten, not closed.
RetirePreviousNot(k) == UNCHANGED fate

\* handleSessionOpen closes the stream of the generation it replaces.
RetirePrevious(k) == Mark(k, stream[k], "fin")

\* handleSessionOpen, up to the slot update for the stream it replaces.
WriteOpenReplace ==
    /\ pc = "write" /\ live /\ job.kind = "Open"
    /\ stream[job.at] # 0 /\ SlotRoom
    /\ RetirePrevious(job.at)
    /\ stream' = [stream EXCEPT ![job.at] = 0]
    /\ slotCh' = Append(slotCh, [at |-> job.at, gen |-> 0])
    /\ UNCHANGED <<callers, state, live, pc, job, slots, subs, seen, routed,
                   doubled>>

\* handleSessionOpen: the stream is opened; OPEN is still to be written.
OpenStream ==
    /\ pc = "write" /\ live /\ job.kind = "Open"
    /\ stream[job.at] = 0
    /\ Mark(job.at, job.gen, "open")
    /\ job' = [job EXCEPT !.kind = "OpenFrame"]
    /\ UNCHANGED <<callers, state, live, pc, stream, slotCh, slots, subs, seen,
                   routed, doubled>>

\* OPEN is written and the slot registered.
WriteOpen ==
    /\ pc = "write" /\ live /\ job.kind = "OpenFrame" /\ SlotRoom
    /\ stream' = [stream EXCEPT ![job.at] = job.gen]
    /\ slotCh' = Append(slotCh, [at |-> job.at, gen |-> job.gen])
    /\ Done
    /\ UNCHANGED <<callers, state, live, slots, remote, doubled>>

\* The write of OPEN fails, which the end of the peer's context makes it do: the
\* stream is cancelled and the peer ends.  A context that ends while the slot waits
\* for room has the same outcome.
OpenFails ==
    /\ pc = "write" /\ job.kind = "OpenFrame"
    /\ Mark(job.at, job.gen, "cancelled")
    /\ live' = FALSE
    /\ Done
    /\ UNCHANGED <<callers, state, stream, slotCh, slots, subs, seen, routed, doubled>>

\* The slot update that removes a slot.
DropSlot(k) == slotCh' = Append(slotCh, [at |-> k, gen |-> 0])

\* handleSessionDone.
WriteCloseSession ==
    /\ pc = "write" /\ live /\ job.kind = "CloseSession"
    /\ SlotRoom
    /\ IF stream[job.at] # 0 THEN Mark(job.at, stream[job.at], "fin")
                             ELSE UNCHANGED fate
    /\ stream' = [stream EXCEPT ![job.at] = 0]
    /\ DropSlot(job.at)
    /\ Done
    /\ UNCHANGED <<callers, state, live, slots, subs, seen, routed, doubled>>

\* handleCtrl of peerCloseStream: the stream is reset with Reconstructed, the
\* slot stays.
WriteCloseStream ==
    /\ pc = "write" /\ live /\ job.kind = "CloseStream"
    /\ IF stream[job.at] # 0 THEN Mark(job.at, stream[job.at], "Reconstructed")
                             ELSE UNCHANGED fate
    /\ stream' = [stream EXCEPT ![job.at] = 0]
    /\ Done
    /\ UNCHANGED <<callers, state, live, slotCh, slots, subs, seen, routed,
                   doubled>>

\* handleSendRoutingUpdate, the write succeeding or there being no stream.
WriteRouting ==
    /\ pc = "write" /\ live /\ job.kind = "Routing"
    /\ routed' = IF stream[job.at] \in {0, job.gen} THEN routed
                 ELSE routed \union {job.at}
    /\ Done
    /\ UNCHANGED <<callers, state, live, stream, slotCh, slots, subs, seen,
                   fate, doubled>>

\* handleSendRoutingUpdate, the write failing: only the stream is lost.
RoutingFails ==
    /\ pc = "write" /\ live /\ job.kind = "Routing"
    /\ stream[job.at] # 0
    /\ Mark(job.at, stream[job.at], "cancelled")
    /\ stream' = [stream EXCEPT ![job.at] = 0]
    /\ Done
    /\ UNCHANGED <<callers, state, live, slotCh, slots, subs, seen, routed,
                   doubled>>

\* A failing write of the BCAST stream, or a SESS stream that cannot be opened, ends
\* the peer.
WriteFails ==
    /\ pc = "write" /\ live
    /\ \/ job.kind \in {"Subscribe", "Unsubscribe"}
       \/ job.kind = "Open" /\ stream[job.at] = 0
    /\ live' = FALSE
    /\ Done
    /\ UNCHANGED <<callers, state, stream, slotCh, slots, remote, doubled>>

-----------------------------------------------------------------------------
(* The data loop's side of the slots, and the end of the peer. *)

ApplySlot ==
    /\ live /\ slotCh # <<>>
    /\ slots' = [slots EXCEPT ![Head(slotCh).at] = Head(slotCh).gen]
    /\ slotCh' = Tail(slotCh)
    /\ UNCHANGED <<callers, state, live, pc, job, stream, remote, doubled>>

\* The peer's context ends: its view closed, its reader failed, or the engine
\* closes it.
Cancel ==
    /\ live
    /\ live' = FALSE
    /\ UNCHANGED <<callers, state, loop, remote, doubled>>

\* stop(): the control state is closed and cleared.
CloseState ==
    /\ ~live /\ ~closed
    /\ closed' = TRUE
    /\ want' = {} /\ announced' = {} /\ retire' = {}
    /\ entry' = [k \in Keys |-> NoEntry]
    /\ Forget(Keys)
    /\ UNCHANGED <<callers, ready, live, loop, remote, doubled>>

\* Mutant: streams still open when the loop ends are left alone.
CancelOpenNot(f) == f

\* runCtrlLoop's deferred cancellation of every open stream.
CancelOpen(f) ==
    [k \in Keys |-> [g \in Gens |->
        IF stream[k] = g THEN "cancelled" ELSE f[k][g]]]

\* runCtrlLoop returns, once the transition under way has.
Exit ==
    /\ ~live /\ pc # "exit" /\ job.kind # "OpenFrame"
    /\ pc' = "exit"
    /\ job' = NoJob
    /\ fate' = CancelOpen(fate)
    /\ stream' = [k \in Keys |-> 0]
    /\ UNCHANGED <<callers, state, live, slotCh, slots, subs, seen, routed,
                   doubled>>

-----------------------------------------------------------------------------

Engine == Handshake \/ \E c \in Channels : AddChannel(c) \/ RemoveChannel(c)

Sessions == \E k \in Keys : \/ OpenSession(k) \/ CloseSession(k)
                            \/ CloseSessionStream(k) \/ SetRouting(k)

Take1 == \/ \E k \in Keys : NextClose(k) \/ NextOpen(k) \/ NextCloseStream(k)
                            \/ NextRouting(k)
         \/ \E c \in Channels : NextUnsubscribe(c) \/ NextSubscribe(c)
         \/ NextNone \/ Wake

Write == \/ WriteChannel \/ WriteOpenReplace \/ OpenStream \/ WriteOpen \/ OpenFails
         \/ WriteCloseSession \/ WriteCloseStream \/ WriteRouting \/ RoutingFails
         \/ WriteFails

Next == Engine \/ Sessions \/ Take1 \/ Write \/ ApplySlot
        \/ Cancel \/ CloseState \/ Exit

Spec == Init /\ [][Next]_vars

\* Every wait of the control loop also waits for the peer's context, and the end
\* of the context unblocks a write, so a cancelled loop ends.  Nothing is
\* assumed of writes: the peer may withhold credit for ever.
FairSpec == Spec /\ WF_vars(Exit) /\ WF_vars(~live /\ OpenFails)

-----------------------------------------------------------------------------
(* Properties. *)

Entries == [pending : 0..MaxGen, open : BOOLEAN, routing : 0..MaxGen,
            closeStream : BOOLEAN, close : BOOLEAN]

ChannelKinds == {"Subscribe", "Unsubscribe"}
SessionKinds == {"Open", "OpenFrame", "CloseSession", "CloseStream", "Routing"}

Jobs ==
    {NoJob}
    \union [kind : ChannelKinds, at : Channels, gen : 0..MaxEpoch]
    \union [kind : SessionKinds, at : Keys, gen : 0..MaxGen]

CallersOK ==
    /\ present \in SUBSET Channels
    /\ joined \in SUBSET Channels
    /\ epoch \in [Channels -> 0..MaxEpoch]
    /\ att \in [Keys -> 0..MaxGen]
    /\ lastGen \in [Keys -> 0..MaxGen]
    /\ finished \in [Keys -> SUBSET Gens]

StateOK ==
    /\ want \in SUBSET Channels
    /\ announced \in SUBSET Channels
    /\ retire \in SUBSET announced
    /\ entry \in [Keys -> Entries]
    /\ elder \in [Keys -> SUBSET Keys]
    /\ ready \in BOOLEAN
    /\ closed \in BOOLEAN

LoopOK ==
    /\ pc \in {"hello", "loop", "wait", "write", "exit"}
    /\ job \in Jobs
    /\ stream \in [Keys -> 0..MaxGen]
    /\ slotCh \in Seq([at : Keys, gen : 0..MaxGen])
    /\ Len(slotCh) <= SlotUpdateCap
    /\ slots \in [Keys -> 0..MaxGen]

RemoteOK ==
    /\ subs \in SUBSET Channels
    /\ seen \in [Channels -> 0..MaxEpoch]
    /\ fate \in [Keys -> [Gens -> {"none", "open", "fin", "Reconstructed", "cancelled"}]]
    /\ routed \in SUBSET Keys

TypeOK ==
    /\ CallersOK /\ StateOK /\ LoopOK /\ RemoteOK
    /\ live \in BOOLEAN
    /\ doubled \in SUBSET Keys

\* The control loop sleeps with no token to wake it.
Asleep == pc = "wait" /\ live /\ ~ready

\* Whenever the loop sleeps, the peer knows exactly the channels the engine has, and
\* has seen each announced again since it was last added: no wake is lost, and a
\* removal followed by an addition is never swallowed once the handshake is over
\* (engine.go:229-240, ctrl_out.go:58-63).
ChannelsSettled ==
    Asleep => /\ subs = present
              /\ \A c \in present : seen[c] = epoch[c]

\* Whenever the loop sleeps, sessions and peer agree.  An attached session has its
\* SESS stream, unless it completed or a routing write failed, and, the slot
\* updates applied, its chunk slot.  A session that ended leaves nothing behind:
\* no entry, no stream, no slot ("closes its SESS stream and drops the chunk slot",
\* session.go:141-144).  Keys closed while one generation was open and the next
\* one still unwritten are excepted: see EndedSettled.
SessionsSettled ==
    Asleep => \A k \in Keys \ doubled :
        /\ slotCh = <<>> => slots[k] = att[k]
        /\ IF att[k] # 0
           THEN fate[k][att[k]] \in
                    {"cancelled", IF att[k] \in finished[k] THEN "Reconstructed"
                                                            ELSE "open"}
           ELSE ~Exists(k) /\ stream[k] = 0

\* What ended leaves nothing behind, for every key.
EndedSettled ==
    Asleep => \A k \in Keys : att[k] = 0 =>
        /\ ~Exists(k) /\ stream[k] = 0
        /\ slotCh = <<>> => slots[k] = 0

\* The peer is never told a session reconstructed when it did not, nor given the
\* routing state of another generation (same exception).
NoForeignFrame ==
    \A k \in Keys \ doubled :
        /\ k \notin routed
        /\ \A g \in Gens : fate[k][g] = "Reconstructed" => g \in finished[k]

\* The stream whose OPEN is being written.
HalfOpen(k, g) == job.kind = "OpenFrame" /\ job.at = k /\ job.gen = g

\* Every open SESS stream is the one the loop holds for its key, or the one whose OPEN
\* it is writing: no generation's stream is forgotten while open.
NoForgottenStream ==
    \A k \in Keys, g \in Gens :
        fate[k][g] = "open" => stream[k] = g \/ HalfOpen(k, g)

\* What the peer hears of a channel alternates, and generations of a session
\* reach it in order, each at most once.
WireOrder ==
    [][/\ subs' # subs => \E c \in Channels : subs' \in {subs \union {c}, subs \ {c}}
       /\ (job.kind \in {"Subscribe", "Unsubscribe"} /\ pc = "write" /\ pc' = "loop" /\ live')
              => subs' # subs
       /\ \A k \in Keys, g \in Gens :
             (fate'[k][g] = "open" /\ fate[k][g] # "open")
                 => \A x \in g..MaxGen : fate[k][x] = "none"]_vars

\* When the peer ends, the control loop ends and every SESS stream it had opened
\* is closed or cancelled.
EndsClean ==
    (~live) ~> (pc = "exit" /\ \A k \in Keys, g \in Gens : fate[k][g] # "open")

=============================================================================
