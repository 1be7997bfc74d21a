-------------------------- MODULE CtrlOutInvariant ---------------------------
(* The inductive invariant of CtrlOut: what the peer was told, what the loop is   *)
(* about to write and what the entries still ask for fit together, key by key and *)
(* channel by channel.  Proved here: its typing half, the slot updates, and that  *)
(* the callers of the control state and its next() keep what it says of a key.    *)
EXTENDS CtrlOut, TLAPS

Updates == [at : Keys, gen : 0..MaxGen]

\* The types, and what the loop's place says of the rest.
Typed ==
    /\ TypeOK
    /\ pc = "hello" => retire = {} /\ \A c \in Channels : epoch[c] = 0 /\ seen[c] = 0
    /\ pc = "exit" \/ closed => ~live

\* What the loop is writing for a key, or for a channel.
Doing(k) == IF pc = "write" /\ job.kind \in SessionKinds /\ job.at = k THEN job.kind ELSE "none"
Telling(c) == IF pc = "write" /\ job.kind \in ChannelKinds /\ job.at = c THEN job.kind ELSE "none"

\* What the data loop's slot of key k will be once the updates under way are
\* applied.
Settles(k, g) ==
    \/ \E i \in DOMAIN slotCh : /\ slotCh[i] = [at |-> k, gen |-> g]
                                /\ \A j \in DOMAIN slotCh : j > i => slotCh[j].at # k
    \/ slots[k] = g /\ \A i \in DOMAIN slotCh : slotCh[i].at # k

\* A channel is announced to the peer or the write that tells it is under way,
\* and an announcement that is not to be withdrawn is of the present addition.
ChannelInv(c) ==
    /\ c \in want <=> c \in present
    /\ c \in subs <=> \/ c \in announced /\ Telling(c) # "Subscribe"
                      \/ Telling(c) = "Unsubscribe"
    /\ Telling(c) = "Subscribe" => c \in announced
    /\ Telling(c) = "Unsubscribe" => c \notin announced
    /\ c \in (announced \intersect present) \ retire =>
           epoch[c] = IF Telling(c) = "Subscribe" THEN job.gen ELSE seen[c]

\* The loop holds the stream of a generation, or has opened it and not yet written
\* its OPEN.
Carried(k, g) == stream[k] = g \/ (Doing(k) = "OpenFrame" /\ job.gen = g)

\* What the peer has seen of a key's generations, whatever happens later.
Seen(k) ==
    /\ att[k] \in {0, lastGen[k]}
    /\ Doing(k) = "OpenFrame" => stream[k] = 0 /\ job.gen \in 1..lastGen[k]
    /\ finished[k] \subseteq 1..lastGen[k]
    /\ \A g \in Gens : /\ fate[k][g] # "none" => g <= lastGen[k]
                       /\ fate[k][g] = "open" <=> Carried(k, g)
    /\ k \notin doubled =>
          /\ k \notin routed
          /\ \A g \in Gens : fate[k][g] = "Reconstructed" => g \in finished[k]

\* The generations to be opened were never opened, nor any later one.
Unopened(k) ==
    /\ ~Exists(k) => entry[k] = NoEntry
    /\ entry[k].pending <= lastGen[k]
    /\ entry[k].pending # 0 => \A g \in Gens : g >= entry[k].pending => fate[k][g] = "none"
    /\ Doing(k) = "Open" =>
          /\ job.gen \in 1..lastGen[k]
          /\ \A g \in Gens : g >= job.gen => fate[k][g] = "none"
          /\ entry[k].pending # 0 => entry[k].pending > job.gen

\* The flags of an entry are of the last generation.
Flags(k) ==
    /\ entry[k].pending \in {0, lastGen[k]}
    /\ entry[k].routing \in {0, lastGen[k]}
    /\ entry[k].closeStream => lastGen[k] \in finished[k]
    /\ IF att[k] = 0 THEN Exists(k) => entry[k].close
                     ELSE ~entry[k].close /\ (entry[k].open \/ entry[k].pending # 0)
    /\ ~(entry[k].close /\ entry[k].open /\ entry[k].pending # 0)

\* The loop is opening the stream of a generation.
Opening(k) == Doing(k) \in {"Open", "OpenFrame"}

\* The stream the loop holds and the write under way fit the entry.
Held(k) ==
    /\ Doing(k) = "CloseSession" => ~entry[k].open /\ (att[k] # 0 => stream[k] < att[k])
    /\ Opening(k) => entry[k].open /\ (entry[k].pending = 0 => job.gen = lastGen[k])
    /\ Doing(k) = "Routing" => stream[k] \in {0, job.gen}
    /\ Doing(k) = "CloseStream" => stream[k] = 0 \/ stream[k] \in finished[k]
    /\ Doing(k) \notin {"Open", "CloseSession"} /\ stream[k] # 0 =>
          entry[k].open /\ (entry[k].pending = 0 => stream[k] = lastGen[k])

\* An entry whose last generation was opened.
Opened(k) == entry[k].open /\ entry[k].pending = 0 /\ ~Opening(k)

\* What was written for the last generation.
Written(k) ==
    /\ Opened(k) => /\ lastGen[k] \in Gens
                    /\ fate[k][lastGen[k]] \in {"open", "cancelled", "Reconstructed"}
                    /\ Settles(k, lastGen[k])
    /\ ~entry[k].open /\ Doing(k) # "CloseSession" => Settles(k, 0)
    /\ att[k] # 0 /\ att[k] \in finished[k] =>
          \/ entry[k].closeStream
          \/ Opened(k) /\ (Doing(k) = "CloseStream" \/ fate[k][att[k]] # "open")

KeyInv(k) ==
    /\ Seen(k)
    /\ live => Unopened(k)
    /\ live /\ k \notin doubled => Flags(k) /\ Held(k) /\ Written(k)

\* Whenever the loop sleeps there is nothing to do.
Quiet ==
    /\ announced = want /\ retire = {}
    /\ \A k \in Keys : /\ ~entry[k].close /\ entry[k].pending = 0
                       /\ entry[k].open => ~entry[k].closeStream /\ entry[k].routing = 0

\* The inductive invariant.
CtrlInv ==
    /\ Typed
    /\ live /\ pc # "hello" => \A c \in Channels : ChannelInv(c)
    /\ \A k \in Keys : KeyInv(k)
    /\ Asleep => Quiet

-----------------------------------------------------------------------------
(* Types. *)

LEMMA Naturals0 ==
    /\ MaxGen \in Nat /\ MaxEpoch \in Nat /\ SlotUpdateCap \in Nat
    /\ 0 \in 0..MaxGen /\ 0 \in 0..MaxEpoch
BY CtrlOutAssumption

LEMMA NoEntryFields ==
    /\ NoEntry.pending = 0 /\ NoEntry.routing = 0
    /\ ~NoEntry.open /\ ~NoEntry.closeStream /\ ~NoEntry.close
BY Zenon DEF NoEntry

LEMMA EntryMade ==
    ASSUME NEW e \in Entries
    PROVE  /\ e.pending \in 0..MaxGen /\ e.routing \in 0..MaxGen
           /\ e.pending \in Nat /\ e.routing \in Nat
           /\ e.open \in BOOLEAN /\ e.closeStream \in BOOLEAN /\ e.close \in BOOLEAN
           /\ NoEntry \in Entries
           /\ \A b \in BOOLEAN : /\ [e EXCEPT !.close = b] \in Entries
                                /\ [e EXCEPT !.closeStream = b] \in Entries
                                /\ [e EXCEPT !.open = b] \in Entries
           /\ \A g \in 0..MaxGen : /\ [e EXCEPT !.routing = g] \in Entries
                                  /\ [e EXCEPT !.pending = g] \in Entries
                                  /\ Reopened(e, g) \in Entries
           /\ AfterClose(e) \in Entries
           /\ [e EXCEPT !.pending = 0, !.open = TRUE] \in Entries
<1>1. /\ e.pending \in 0..MaxGen /\ e.routing \in 0..MaxGen
      /\ e.pending \in Nat /\ e.routing \in Nat
      /\ e.open \in BOOLEAN /\ e.closeStream \in BOOLEAN /\ e.close \in BOOLEAN
      /\ NoEntry \in Entries
  BY Naturals0 DEF Entries, NoEntry
<1>2. \A b \in BOOLEAN : /\ [e EXCEPT !.close = b] \in Entries
                        /\ [e EXCEPT !.closeStream = b] \in Entries
                        /\ [e EXCEPT !.open = b] \in Entries
  BY Zenon DEF Entries
<1>3. \A g \in 0..MaxGen : /\ [e EXCEPT !.routing = g] \in Entries
                          /\ [e EXCEPT !.pending = g] \in Entries
  BY Zenon DEF Entries
<1>4. \A g \in 0..MaxGen : Reopened(e, g) \in Entries
  <2> TAKE g \in 0..MaxGen
  <2> DEFINE d == [e EXCEPT !.routing = 0]
  <2>0. d \in Entries
    BY Zenon, <1>3, Naturals0
  <2>1. [d EXCEPT !.pending = g, !.close = FALSE, !.closeStream = FALSE] \in Entries
    BY Zenon, <2>0 DEF Entries
  <2>2. [d EXCEPT !.pending = g, !.close = FALSE, !.closeStream = FALSE]
            = [e EXCEPT !.pending = g, !.close = FALSE, !.closeStream = FALSE, !.routing = 0]
    BY Zenon DEF Entries
  <2> QED
    BY Zenon, <2>1, <2>2, <1>3 DEF Reopened
<1>5. AfterClose(e) \in Entries
  <2>1. [e EXCEPT !.close = FALSE, !.open = FALSE] \in Entries
    BY Zenon DEF Entries
  <2> QED
    BY Zenon, <2>1, <1>1 DEF AfterClose
<1>6. [e EXCEPT !.pending = 0, !.open = TRUE] \in Entries
  <2> DEFINE d == [e EXCEPT !.pending = 0]
  <2>1. d \in Entries
    BY Zenon, <1>3, Naturals0
  <2>2. [d EXCEPT !.open = TRUE] \in Entries
    BY Zenon, <2>1 DEF Entries
  <2> QED
    BY Zenon, <2>2 DEF Entries
<1> QED
  BY Zenon, <1>1, <1>2, <1>3, <1>4, <1>5, <1>6

KeyTyped(k) ==
    /\ entry[k] \in Entries
    /\ att[k] \in Nat /\ lastGen[k] \in Nat /\ lastGen[k] <= MaxGen
    /\ stream[k] \in Nat /\ stream[k] <= MaxGen
    /\ finished[k] \subseteq Gens
    /\ fate[k] \in [Gens -> {"none", "open", "fin", "Reconstructed", "cancelled"}]

LEMMA KeyTypes ==
    ASSUME Typed, NEW k \in Keys
    PROVE  KeyTyped(k)
BY Naturals0 DEF KeyTyped, Typed, TypeOK, CallersOK, StateOK, LoopOK, RemoteOK

LEMMA JobTypes ==
    ASSUME Typed
    PROVE  /\ job.kind \in SessionKinds => job.at \in Keys /\ job.gen \in 0..MaxGen
           /\ job.kind \in ChannelKinds => job.at \in Channels /\ job.gen \in 0..MaxEpoch
           /\ job.kind \notin SessionKinds \/ job.kind \notin ChannelKinds
BY DEF Typed, TypeOK, LoopOK, Jobs, NoJob, SessionKinds, ChannelKinds

LEMMA JobMade ==
    /\ \A kind \in SessionKinds, k \in Keys, g \in 0..MaxGen :
          [kind |-> kind, at |-> k, gen |-> g] \in Jobs
    /\ \A kind \in ChannelKinds, c \in Channels, g \in 0..MaxEpoch :
          [kind |-> kind, at |-> c, gen |-> g] \in Jobs
    /\ NoJob \in Jobs /\ NoJob.kind = "none"
BY Zenon DEF Jobs, NoJob

LEMMA PrunedTyped ==
    ASSUME Typed
    PROVE  Pruned \in [Keys -> Entries]
BY Zenon, EntryMade DEF Typed, TypeOK, StateOK, Pruned

LEMMA EngineTyped ==
    ASSUME Typed, Engine
    PROVE  Typed'
<1> USE Naturals0
<1>1. CASE Handshake
  <2>1. CallersOK' /\ StateOK' /\ LoopOK' /\ RemoteOK'
    BY Zenon, <1>1 DEF Handshake, Typed, TypeOK, CallersOK, StateOK, LoopOK, RemoteOK, remote
  <2> QED
    BY Zenon, <1>1, <2>1 DEF Handshake, Typed, TypeOK
<1>2. ASSUME NEW c \in Channels, AddChannel(c)
      PROVE  Typed'
  <2>1. CallersOK'
    BY <1>2 DEF AddChannel, Typed, TypeOK, CallersOK
  <2>2. StateOK'
    BY Zenon, <1>2 DEF AddChannel, Retire, Signal, Typed, TypeOK, StateOK
  <2> QED
    BY Zenon, <1>2, <2>1, <2>2 DEF AddChannel, Typed, TypeOK, LoopOK, RemoteOK, loop, remote
<1>3. ASSUME NEW c \in Channels, RemoveChannel(c)
      PROVE  Typed'
  <2>1. CallersOK'
    BY Zenon, <1>3 DEF RemoveChannel, Typed, TypeOK, CallersOK
  <2>2. entry' \in [Keys -> Entries]
    <3>1. ASSUME NEW k \in Keys
          PROVE  entry[k] \in Entries /\ [entry[k] EXCEPT !.routing = 0] \in Entries
      <4>1. entry[k] \in Entries
        BY Zenon DEF Typed, TypeOK, StateOK
      <4> QED
        BY Zenon, <4>1, EntryMade
    <3> QED
      BY Zenon, <1>3, <3>1 DEF RemoveChannel, Typed, TypeOK, StateOK
  <2>3. StateOK'
    BY Zenon, <1>3, <2>2 DEF RemoveChannel, Signal, Typed, TypeOK, StateOK
  <2> QED
    BY Zenon, <1>3, <2>1, <2>3 DEF RemoveChannel, Typed, TypeOK, LoopOK, RemoteOK, loop, remote
<1> QED
  BY Zenon, <1>1, <1>2, <1>3 DEF Engine

LEMMA SessionsTyped ==
    ASSUME Typed, Sessions
    PROVE  Typed'
<1> USE Naturals0
<1>1. ASSUME NEW k \in Keys, entry' = entry \/ \E e \in Entries : entry' = [entry EXCEPT ![k] = e],
             elder' = elder \/ Obtain(k), ready' = ready \/ Signal,
             CallersOK', doubled' \in SUBSET Keys,
             UNCHANGED <<epoch, want, announced, retire, closed, live, loop, remote>>
      PROVE  Typed'
  <2>1. entry' \in [Keys -> Entries]
    BY Zenon, <1>1 DEF Typed, TypeOK, StateOK
  <2>2. elder' \in [Keys -> SUBSET Keys]
    BY <1>1 DEF Typed, TypeOK, StateOK, Obtain
  <2>3. StateOK'
    BY Zenon, <1>1, <2>1, <2>2 DEF Typed, TypeOK, StateOK, Signal
  <2> QED
    BY Zenon, <1>1, <2>3 DEF Typed, TypeOK, LoopOK, RemoteOK, loop, remote
<1>2. ASSUME NEW k \in Keys, OpenSession(k) \/ CloseSession(k) \/ CloseSessionStream(k) \/ SetRouting(k)
      PROVE  /\ CallersOK'
             /\ doubled' \in SUBSET Keys
             /\ UNCHANGED <<epoch, want, announced, retire, closed, live, loop, remote>>
  <2>1. CASE OpenSession(k)
    BY <2>1 DEF OpenSession, Typed, TypeOK, CallersOK
  <2>2. CASE CloseSession(k)
    BY Zenon, <2>2 DEF CloseSession, Typed, TypeOK, CallersOK
  <2>3. CASE CloseSessionStream(k)
    BY <2>3 DEF CloseSessionStream, Typed, TypeOK, CallersOK, Gens
  <2>4. CASE SetRouting(k)
    BY Zenon, <2>4 DEF SetRouting, Typed, TypeOK, CallersOK, callers
  <2> QED
    BY Zenon, <1>2, <2>1, <2>2, <2>3, <2>4
<1>3. ASSUME NEW k \in Keys, OpenSession(k) \/ CloseSession(k) \/ CloseSessionStream(k) \/ SetRouting(k)
      PROVE  /\ entry' = entry \/ \E e \in Entries : entry' = [entry EXCEPT ![k] = e]
             /\ elder' = elder \/ Obtain(k)
             /\ ready' = ready \/ Signal
  <2>1. entry[k] \in Entries /\ att[k] \in 0..MaxGen /\ lastGen[k] \in 0..MaxGen
    BY Zenon DEF Typed, TypeOK, StateOK, CallersOK
  <2>2. CASE OpenSession(k)
    <3>1. lastGen[k] + 1 \in 0..MaxGen
      BY <2>1, <2>2 DEF OpenSession
    <3> QED
      BY Zenon, <2>1, <2>2, <3>1, EntryMade DEF OpenSession
  <2>3. CASE CloseSession(k)
    BY Zenon, <2>1, <2>3, EntryMade DEF CloseSession
  <2>4. CASE CloseSessionStream(k)
    BY Zenon, <2>1, <2>4, EntryMade DEF CloseSessionStream
  <2>5. CASE SetRouting(k)
    <3>1. entry' = [entry EXCEPT ![k] = [entry[k] EXCEPT !.routing = att[k]]]
      BY Zenon, <2>5 DEF SetRouting
    <3> QED
      BY Zenon, <2>1, <2>5, <3>1, EntryMade DEF SetRouting
  <2> QED
    BY Zenon, <1>3, <2>2, <2>3, <2>4, <2>5
<1> QED
  BY Zenon, <1>1, <1>2, <1>3 DEF Sessions

LEMMA ForgetTyped ==
    ASSUME Typed, NEW S, Forget(S)
    PROVE  elder' \in [Keys -> SUBSET Keys]
BY Zenon DEF Forget, Typed, TypeOK, StateOK

\* A transition that next() took, for a key or for a channel.
LEMMA TakeTyped ==
    ASSUME Typed, NEW j \in Jobs, live, pc = "loop", pc' = "write", job' = j,
           want' = want, announced' \in SUBSET Channels, retire' \in SUBSET announced',
           entry' \in [Keys -> Entries], elder' \in [Keys -> SUBSET Keys],
           UNCHANGED <<callers, ready, closed, live, stream, slotCh, slots, remote, doubled>>
    PROVE  Typed'
<1>1. StateOK'
  BY Zenon DEF Typed, TypeOK, StateOK
<1>2. CallersOK' /\ LoopOK' /\ RemoteOK'
  BY Zenon DEF Typed, TypeOK, CallersOK, LoopOK, RemoteOK, callers, remote
<1> QED
  BY Zenon, <1>1, <1>2 DEF Typed, TypeOK

LEMMA Take1Typed ==
    ASSUME Typed, Take1
    PROVE  Typed'
<1> USE Naturals0
<1>1. \A k \in Keys : entry[k] \in Entries
  BY Zenon DEF Typed, TypeOK, StateOK
<1>2. Pruned \in [Keys -> Entries]
  BY Zenon, PrunedTyped
<1>3. ASSUME NEW k \in Keys, NextClose(k)
      PROVE  Typed'
  <2>1. AfterClose(entry[k]) \in Entries
    BY Zenon, <1>1, EntryMade
  <2>2. entry' \in [Keys -> Entries]
    BY Zenon, <1>2, <1>3, <2>1 DEF NextClose
  <2>3. [kind |-> "CloseSession", at |-> k, gen |-> 0] \in Jobs
    BY Zenon, JobMade DEF SessionKinds
  <2>4. elder' \in [Keys -> SUBSET Keys]
    BY Zenon, <1>3, ForgetTyped DEF NextClose
  <2> QED
    BY Zenon, <1>3, <2>2, <2>3, <2>4, TakeTyped DEF NextClose, Take, Turn, Typed, TypeOK, StateOK
<1>4. ASSUME NEW k \in Keys, NextOpen(k)
      PROVE  Typed'
  <2>1. entry' \in [Keys -> Entries]
    <3>1. Pruned[k] \in Entries
      BY Zenon, <1>2
    <3>2. [Pruned[k] EXCEPT !.pending = 0, !.open = TRUE] \in Entries
      BY Zenon, <3>1, EntryMade
    <3>3. entry' = [Pruned EXCEPT ![k] = [Pruned[k] EXCEPT !.pending = 0, !.open = TRUE]]
      BY Zenon, <1>4, <1>2 DEF NextOpen
    <3> QED
      BY Zenon, <1>2, <3>2, <3>3
  <2>2. [kind |-> "Open", at |-> k, gen |-> entry[k].pending] \in Jobs
    BY Zenon, <1>1, EntryMade, JobMade DEF SessionKinds
  <2>3. elder' \in [Keys -> SUBSET Keys]
    BY Zenon, <1>4, ForgetTyped DEF NextOpen
  <2> QED
    BY Zenon, <1>4, <2>1, <2>2, <2>3, TakeTyped DEF NextOpen, Take, Turn, Typed, TypeOK, StateOK
<1>5. ASSUME NEW k \in Keys, NextCloseStream(k)
      PROVE  Typed'
  <2>1. entry' \in [Keys -> Entries]
    <3>1. Pruned[k] \in Entries
      BY Zenon, <1>2
    <3>2. [Pruned[k] EXCEPT !.closeStream = FALSE] \in Entries
      BY Zenon, <3>1, EntryMade
    <3>3. entry' = [Pruned EXCEPT ![k] = [Pruned[k] EXCEPT !.closeStream = FALSE]]
      BY Zenon, <1>5, <1>2 DEF NextCloseStream
    <3> QED
      BY Zenon, <1>2, <3>2, <3>3
  <2>2. [kind |-> "CloseStream", at |-> k, gen |-> 0] \in Jobs
    BY Zenon, JobMade DEF SessionKinds
  <2>3. elder' \in [Keys -> SUBSET Keys]
    BY Zenon, <1>5, ForgetTyped DEF NextCloseStream
  <2> QED
    BY Zenon, <1>5, <2>1, <2>2, <2>3, TakeTyped DEF NextCloseStream, Take, Turn, Typed, TypeOK, StateOK
<1>6. ASSUME NEW k \in Keys, NextRouting(k)
      PROVE  Typed'
  <2>1. entry' \in [Keys -> Entries]
    <3>1. Pruned[k] \in Entries
      BY Zenon, <1>2
    <3>2. [Pruned[k] EXCEPT !.routing = 0] \in Entries
      BY Zenon, <3>1, EntryMade
    <3>3. entry' = [Pruned EXCEPT ![k] = [Pruned[k] EXCEPT !.routing = 0]]
      BY Zenon, <1>6, <1>2 DEF NextRouting
    <3> QED
      BY Zenon, <1>2, <3>2, <3>3
  <2>2. [kind |-> "Routing", at |-> k, gen |-> entry[k].routing] \in Jobs
    BY Zenon, <1>1, EntryMade, JobMade DEF SessionKinds
  <2>3. elder' \in [Keys -> SUBSET Keys]
    BY Zenon, <1>6, ForgetTyped DEF NextRouting
  <2> QED
    BY Zenon, <1>6, <2>1, <2>2, <2>3, TakeTyped DEF NextRouting, Take, Turn, Typed, TypeOK, StateOK
<1>7. ASSUME NEW c \in Channels, NextUnsubscribe(c)
      PROVE  Typed'
  <2>1. [kind |-> "Unsubscribe", at |-> c, gen |-> 0] \in Jobs
    BY Zenon, JobMade DEF ChannelKinds
  <2>2. elder' \in [Keys -> SUBSET Keys]
    BY Zenon, <1>7, ForgetTyped DEF NextUnsubscribe
  <2>3. announced' \in SUBSET Channels /\ retire' \in SUBSET announced'
    BY Zenon, <1>7 DEF NextUnsubscribe, Typed, TypeOK, StateOK
  <2> QED
    BY Zenon, <1>2, <1>7, <2>1, <2>2, <2>3, TakeTyped DEF NextUnsubscribe, Take, Turn
<1>8. ASSUME NEW c \in Channels, NextSubscribe(c)
      PROVE  Typed'
  <2>1. [kind |-> "Subscribe", at |-> c, gen |-> epoch[c]] \in Jobs
    BY Zenon, JobMade DEF ChannelKinds, Typed, TypeOK, CallersOK
  <2>2. elder' \in [Keys -> SUBSET Keys]
    BY Zenon, <1>8, ForgetTyped DEF NextSubscribe
  <2>3. announced' \in SUBSET Channels /\ retire' \in SUBSET announced'
    BY Zenon, <1>8 DEF NextSubscribe, Typed, TypeOK, StateOK
  <2> QED
    BY Zenon, <1>2, <1>8, <2>1, <2>2, <2>3, TakeTyped DEF NextSubscribe, Take, Turn
<1>9. CASE NextNone
  <2>1. elder' \in [Keys -> SUBSET Keys]
    BY Zenon, <1>9, ForgetTyped DEF NextNone
  <2>2. StateOK'
    BY Zenon, <1>2, <1>9, <2>1 DEF NextNone, Typed, TypeOK, StateOK
  <2>3. CallersOK' /\ LoopOK' /\ RemoteOK'
    BY Zenon, <1>9 DEF NextNone, Typed, TypeOK, CallersOK, LoopOK, RemoteOK, callers, remote
  <2> QED
    BY Zenon, <1>9, <2>2, <2>3 DEF NextNone, Typed, TypeOK
<1>10. CASE Wake
  <2>1. CallersOK' /\ StateOK' /\ LoopOK' /\ RemoteOK'
    BY Zenon, <1>10 DEF Wake, Typed, TypeOK, CallersOK, StateOK, LoopOK, RemoteOK, callers, remote
  <2> QED
    BY Zenon, <1>10, <2>1 DEF Wake, Typed, TypeOK
<1> QED
  BY Zenon, <1>3, <1>4, <1>5, <1>6, <1>7, <1>8, <1>9, <1>10 DEF Take1

LEMMA SlotTyped ==
    ASSUME Typed, NEW k \in Keys, NEW g \in 0..MaxGen, SlotRoom
    PROVE  LET q == Append(slotCh, [at |-> k, gen |-> g])
           IN  q \in Seq(Updates) /\ Len(q) <= SlotUpdateCap
BY Naturals0 DEF Typed, TypeOK, LoopOK, Updates, SlotRoom

LEMMA WriteTyped ==
    ASSUME Typed, Write
    PROVE  Typed'
<1> USE Naturals0
<1>1. ASSUME UNCHANGED <<callers, state, doubled>>, live \/ ~live', live' \in BOOLEAN, LoopOK', RemoteOK',
             pc' \notin {"hello", "exit"}
      PROVE  Typed'
  BY Zenon, <1>1 DEF Typed, TypeOK, CallersOK, StateOK, callers, state
<1>2. NoJob \in Jobs
  BY Zenon, JobMade
<1>3. CASE WriteChannel
  <2>1. LoopOK'
    BY Zenon, <1>2, <1>3 DEF WriteChannel, Done, Typed, TypeOK, LoopOK
  <2>2. RemoteOK'
    <3>1. job.at \in Channels /\ job.gen \in 0..MaxEpoch
      BY Zenon, <1>3, JobTypes DEF WriteChannel, ChannelKinds
    <3> QED
      BY Zenon, <1>3, <3>1 DEF WriteChannel, Typed, TypeOK, RemoteOK
  <2> QED
    BY Zenon, <1>1, <1>3, <2>1, <2>2 DEF WriteChannel, Done, Typed, TypeOK
<1>4. ASSUME pc = "write", job.kind \in SessionKinds, NEW g \in Gens, NEW f \in {"open", "fin", "Reconstructed", "cancelled"},
             Mark(job.at, g, f), UNCHANGED <<subs, seen, routed>>
      PROVE  RemoteOK'
  <2>1. job.at \in Keys
    BY Zenon, <1>4, JobTypes
  <2> QED
    BY Zenon, <1>4, <2>1 DEF Mark, Typed, TypeOK, RemoteOK
<1>5. ASSUME UNCHANGED <<subs, seen, fate, routed>>
      PROVE  RemoteOK'
  BY Zenon, <1>5 DEF Typed, TypeOK, RemoteOK
<1>6. ASSUME pc = "write", job.kind \in SessionKinds
      PROVE  /\ job.at \in Keys
             /\ stream[job.at] \in 0..MaxGen
             /\ stream[job.at] # 0 => stream[job.at] \in Gens
             /\ job.gen \in 0..MaxGen
  BY <1>6, JobTypes DEF Typed, TypeOK, LoopOK, Gens
<1>7. ASSUME pc = "write", job.kind \in SessionKinds, NEW g \in 0..MaxGen,
             pc' \in {"write", "loop"}, job' \in {job, NoJob, [job EXCEPT !.kind = "OpenFrame"]}, slots' = slots,
             stream' \in {stream, [stream EXCEPT ![job.at] = g]},
             slotCh' = slotCh \/ \E h \in 0..MaxGen : SlotRoom /\ slotCh' = Append(slotCh, [at |-> job.at, gen |-> h])
      PROVE  LoopOK'
  <2>1. slotCh' \in Seq(Updates) /\ Len(slotCh') <= SlotUpdateCap
    <3>1. CASE slotCh' = slotCh
      BY Zenon, <3>1 DEF Typed, TypeOK, LoopOK, Updates
    <3>2. ASSUME NEW h \in 0..MaxGen, SlotRoom, slotCh' = Append(slotCh, [at |-> job.at, gen |-> h])
          PROVE  slotCh' \in Seq(Updates) /\ Len(slotCh') <= SlotUpdateCap
      BY Zenon, <1>6, <1>7, <3>2, SlotTyped
    <3> QED
      BY Zenon, <1>7, <3>1, <3>2
  <2>2. stream' \in [Keys -> 0..MaxGen]
    BY Zenon, <1>6, <1>7 DEF Typed, TypeOK, LoopOK
  <2>3. job' \in Jobs
    <3>1. job \in Jobs
      BY Zenon DEF Typed, TypeOK, LoopOK
    <3>2. [job EXCEPT !.kind = "OpenFrame"] \in Jobs
      BY <1>7, <3>1 DEF Jobs, NoJob, SessionKinds, ChannelKinds
    <3> QED
      BY Zenon, <1>2, <1>7, <3>1, <3>2
  <2> QED
    BY Zenon, <1>7, <2>1, <2>2, <2>3 DEF Typed, TypeOK, LoopOK, Updates
<1>8. CASE WriteOpenReplace
  <2>1. pc = "write" /\ job.kind \in SessionKinds /\ live
    BY Zenon, <1>8 DEF WriteOpenReplace, SessionKinds
  <2>2. LoopOK'
    BY Zenon, <1>7, <1>8, <2>1 DEF WriteOpenReplace
  <2>3. RemoteOK'
    BY Zenon, <1>4, <1>6, <1>8, <2>1 DEF WriteOpenReplace, RetirePrevious
  <2> QED
    BY Zenon, <1>1, <1>8, <2>1, <2>2, <2>3 DEF WriteOpenReplace, Typed, TypeOK
<1>9. CASE OpenStream \/ OpenFails
  <2>1. pc = "write" /\ job.kind \in SessionKinds
    BY Zenon, <1>9 DEF OpenStream, OpenFails, SessionKinds
  <2>2. LoopOK'
    BY Zenon, <1>6, <1>7, <1>9, <2>1 DEF OpenStream, OpenFails, Done
  <2>3. RemoteOK'
    <3>1. CASE job.gen \in Gens
      BY Zenon, <1>4, <1>9, <2>1, <3>1 DEF OpenStream, OpenFails
    <3>2. CASE job.gen \notin Gens
      <4>1. /\ fate[job.at] \in [Gens -> {"none", "open", "fin", "Reconstructed", "cancelled"}]
            /\ fate \in [Keys -> [Gens -> {"none", "open", "fin", "Reconstructed", "cancelled"}]]
        BY Zenon, <1>6, <2>1 DEF Typed, TypeOK, RemoteOK
      <4>2. \A f : [fate[job.at] EXCEPT ![job.gen] = f] = fate[job.at]
        BY <3>2, <4>1
      <4>3. [fate EXCEPT ![job.at] = fate[job.at]] = fate
        BY Zenon, <4>1
      <4>4. fate' = [fate EXCEPT ![job.at] = fate[job.at]]
        BY Zenon, <1>9, <4>2 DEF OpenStream, OpenFails, Mark
      <4> QED
        BY Zenon, <1>5, <1>9, <4>3, <4>4 DEF OpenStream, OpenFails
    <3> QED
      BY Zenon, <3>1, <3>2
  <2> QED
    BY Zenon, <1>1, <1>9, <2>1, <2>2, <2>3 DEF OpenStream, OpenFails, Done, Typed, TypeOK
<1>15. CASE WriteOpen
  <2>1. pc = "write" /\ job.kind \in SessionKinds /\ live
    BY Zenon, <1>15 DEF WriteOpen, SessionKinds
  <2>2. LoopOK'
    BY Zenon, <1>6, <1>7, <1>15, <2>1 DEF WriteOpen, Done
  <2>3. RemoteOK'
    BY Zenon, <1>5, <1>15 DEF WriteOpen, remote
  <2> QED
    BY Zenon, <1>1, <1>15, <2>1, <2>2, <2>3 DEF WriteOpen, Done, Typed, TypeOK
<1>10. CASE WriteCloseSession
  <2>1. pc = "write" /\ job.kind \in SessionKinds /\ live
    BY Zenon, <1>10 DEF WriteCloseSession, SessionKinds
  <2>2. LoopOK'
    BY Zenon, <1>7, <1>10, <2>1 DEF WriteCloseSession, DropSlot, Done
  <2>3. RemoteOK'
    BY Zenon, <1>4, <1>5, <1>6, <1>10, <2>1 DEF WriteCloseSession
  <2> QED
    BY Zenon, <1>1, <1>10, <2>1, <2>2, <2>3 DEF WriteCloseSession, Done, Typed, TypeOK
<1>11. CASE WriteCloseStream
  <2>1. pc = "write" /\ job.kind \in SessionKinds /\ live
    BY Zenon, <1>11 DEF WriteCloseStream, SessionKinds
  <2>2. LoopOK'
    BY Zenon, <1>7, <1>11, <2>1 DEF WriteCloseStream, Done
  <2>3. RemoteOK'
    BY Zenon, <1>4, <1>5, <1>6, <1>11, <2>1 DEF WriteCloseStream
  <2> QED
    BY Zenon, <1>1, <1>11, <2>1, <2>2, <2>3 DEF WriteCloseStream, Done, Typed, TypeOK
<1>12. CASE WriteRouting
  <2>1. pc = "write" /\ job.kind \in SessionKinds /\ live
    BY Zenon, <1>12 DEF WriteRouting, SessionKinds
  <2>2. LoopOK'
    BY Zenon, <1>7, <1>12, <2>1 DEF WriteRouting, Done
  <2>3. RemoteOK'
    BY Zenon, <1>6, <1>12, <2>1 DEF WriteRouting, Typed, TypeOK, RemoteOK
  <2> QED
    BY Zenon, <1>1, <1>12, <2>1, <2>2, <2>3 DEF WriteRouting, Done, Typed, TypeOK
<1>13. CASE RoutingFails
  <2>1. pc = "write" /\ job.kind \in SessionKinds /\ live
    BY Zenon, <1>13 DEF RoutingFails, SessionKinds
  <2>2. LoopOK'
    BY Zenon, <1>7, <1>13, <2>1 DEF RoutingFails, Done
  <2>3. RemoteOK'
    BY Zenon, <1>4, <1>6, <1>13, <2>1 DEF RoutingFails
  <2> QED
    BY Zenon, <1>1, <1>13, <2>1, <2>2, <2>3 DEF RoutingFails, Done, Typed, TypeOK
<1>14. CASE WriteFails
  <2>1. LoopOK' /\ RemoteOK'
    BY Zenon, <1>2, <1>14 DEF WriteFails, Done, Typed, TypeOK, LoopOK, RemoteOK, remote
  <2> QED
    BY Zenon, <1>1, <1>14, <2>1 DEF WriteFails, Done
<1> QED
  BY Zenon, <1>3, <1>8, <1>9, <1>10, <1>11, <1>12, <1>13, <1>14, <1>15 DEF Write

LEMMA EndTyped ==
    ASSUME Typed, ApplySlot \/ Cancel \/ CloseState \/ Exit \/ UNCHANGED vars
    PROVE  Typed'
<1> USE Naturals0
<1>1. CASE ApplySlot
  <2>1. /\ slotCh \in Seq(Updates) /\ slotCh # <<>> /\ Len(slotCh) <= SlotUpdateCap
    BY Zenon, <1>1 DEF ApplySlot, Typed, TypeOK, LoopOK, Updates
  <2>2. /\ Head(slotCh) \in Updates /\ Tail(slotCh) \in Seq(Updates)
        /\ Len(Tail(slotCh)) = Len(slotCh) - 1 /\ Len(slotCh) \in Nat
    BY <2>1
  <2>3. LoopOK'
    BY <1>1, <2>1, <2>2 DEF ApplySlot, Typed, TypeOK, LoopOK, Updates
  <2> QED
    BY Zenon, <1>1, <2>3 DEF ApplySlot, Typed, TypeOK, CallersOK, StateOK, RemoteOK, callers, state, remote
<1>2. CASE Cancel
  BY Zenon, <1>2 DEF Cancel, Typed, TypeOK, CallersOK, StateOK, LoopOK, RemoteOK, callers, state, loop, remote
<1>3. CASE CloseState
  <2>1. StateOK'
    <3>1. elder' \in [Keys -> SUBSET Keys]
      BY Zenon, <1>3, ForgetTyped DEF CloseState
    <3>2. NoEntry \in Entries
      BY Zenon DEF NoEntry, Entries
    <3> QED
      BY Zenon, <1>3, <3>1, <3>2 DEF CloseState, Typed, TypeOK, StateOK
  <2> QED
    BY Zenon, <1>3, <2>1 DEF CloseState, Typed, TypeOK, CallersOK, LoopOK, RemoteOK, callers, loop, remote
<1>4. CASE Exit
  <2>1. RemoteOK'
    BY Zenon, <1>4 DEF Exit, CancelOpen, Typed, TypeOK, RemoteOK
  <2>2. LoopOK'
    BY Zenon, <1>4, JobMade DEF Exit, Typed, TypeOK, LoopOK
  <2> QED
    BY Zenon, <1>4, <2>1, <2>2 DEF Exit, Typed, TypeOK, CallersOK, StateOK, callers, state
<1>5. CASE UNCHANGED vars
  BY Zenon, <1>5 DEF vars, Typed, TypeOK, CallersOK, StateOK, LoopOK, RemoteOK, callers, state, loop, remote
<1> QED
  BY Zenon, <1>1, <1>2, <1>3, <1>4, <1>5

LEMMA TypedStep ==
    ASSUME Typed, [Next]_vars
    PROVE  Typed'
BY Zenon, EngineTyped, SessionsTyped, Take1Typed, WriteTyped, EndTyped DEF Next

-----------------------------------------------------------------------------
(* Slot updates. *)

LEMMA SettlesSame ==
    ASSUME UNCHANGED <<slotCh, slots>>
    PROVE  \A k, g : Settles(k, g) => Settles(k, g)'
BY Zenon DEF Settles

LEMMA SettlesAppend ==
    ASSUME Typed, NEW k \in Keys, NEW h \in 0..MaxGen, slots' = slots,
           slotCh' = Append(slotCh, [at |-> k, gen |-> h])
    PROVE  /\ Settles(k, h)'
           /\ \A j \in Keys \ {k} : \A g : Settles(j, g) => Settles(j, g)'
<1> DEFINE u == [at |-> k, gen |-> h]
<1>1. slotCh \in Seq(Updates) /\ u \in Updates /\ Len(slotCh) \in Nat /\ DOMAIN slotCh = 1..Len(slotCh)
  BY DEF Typed, TypeOK, LoopOK, Updates
<1>2. /\ DOMAIN slotCh' = 1..(Len(slotCh) + 1)
      /\ \A i \in 1..Len(slotCh) : slotCh'[i] = slotCh[i]
      /\ slotCh'[Len(slotCh) + 1] = u
  BY <1>1
<1>3. u.at = k
  BY Zenon
<1>4. Settles(k, h)'
  <2>1. Len(slotCh) + 1 \in DOMAIN slotCh'
    BY <1>1, <1>2
  <2>2. \A j \in DOMAIN slotCh' : ~(j > Len(slotCh) + 1)
    BY <1>1, <1>2
  <2> QED
    BY Zenon, <2>1, <2>2, <1>2 DEF Settles
<1> HIDE DEF u
<1>5. ASSUME NEW j \in Keys \ {k}, NEW g, Settles(j, g)
      PROVE  Settles(j, g)'
  <2>1. ASSUME NEW i \in DOMAIN slotCh, slotCh[i] = [at |-> j, gen |-> g],
               \A x \in DOMAIN slotCh : x > i => slotCh[x].at # j
        PROVE  Settles(j, g)'
    <3>1. i \in DOMAIN slotCh' /\ slotCh'[i] = [at |-> j, gen |-> g]
      BY <1>1, <1>2, <2>1
    <3>2. \A x \in DOMAIN slotCh' : x > i => slotCh'[x].at # j
      BY <1>1, <1>2, <1>3, <2>1
    <3> QED
      BY Zenon, <3>1, <3>2 DEF Settles
  <2>2. ASSUME slots[j] = g, \A i \in DOMAIN slotCh : slotCh[i].at # j
        PROVE  Settles(j, g)'
    <3>1. \A i \in DOMAIN slotCh' : slotCh'[i].at # j
      BY <1>1, <1>2, <1>3, <2>2
    <3> QED
      BY Zenon, <2>2, <3>1 DEF Settles
  <2> QED
    BY Zenon, <1>5, <2>1, <2>2 DEF Settles
<1> QED
  BY Zenon, <1>4, <1>5

LEMMA SettlesApply ==
    ASSUME Typed, ApplySlot
    PROVE  \A k \in Keys : \A g : Settles(k, g) => Settles(k, g)'
<1> SUFFICES ASSUME NEW k \in Keys, NEW g, Settles(k, g)
             PROVE  Settles(k, g)'
  BY Zenon
<1> DEFINE n == Len(slotCh)
<1>1. /\ slotCh \in Seq(Updates) /\ slotCh # <<>> /\ n \in Nat /\ DOMAIN slotCh = 1..n /\ n > 0
  BY DEF ApplySlot, Typed, TypeOK, LoopOK, Updates
<1>2. /\ DOMAIN slotCh' = 1..(n - 1)
      /\ \A i \in 1..(n - 1) : slotCh'[i] = slotCh[i + 1]
      /\ Head(slotCh) = slotCh[1] /\ slotCh[1] \in Updates
  BY <1>1 DEF ApplySlot
<1>3. slots' = [slots EXCEPT ![slotCh[1].at] = slotCh[1].gen] /\ slots \in [Keys -> 0..MaxGen]
  BY Zenon, <1>2 DEF ApplySlot, Typed, TypeOK, LoopOK
<1> HIDE DEF n
<1>4. ASSUME NEW i \in DOMAIN slotCh, slotCh[i] = [at |-> k, gen |-> g],
             \A x \in DOMAIN slotCh : x > i => slotCh[x].at # k
      PROVE  Settles(k, g)'
  <2>1. CASE i = 1
    <3>1. \A x \in DOMAIN slotCh' : slotCh'[x].at # k
      <4> SUFFICES ASSUME NEW x \in 1..(n - 1)
                   PROVE  slotCh'[x].at # k
        BY Zenon, <1>2
      <4>1. x + 1 \in DOMAIN slotCh /\ x + 1 > i
        BY <1>1, <2>1
      <4> QED
        BY Zenon, <1>2, <1>4, <4>1
    <3>2. slots'[k] = g
      BY <1>3, <1>4, <2>1
    <3> QED
      BY Zenon, <3>1, <3>2 DEF Settles
  <2>2. CASE i # 1
    <3>1. i - 1 \in DOMAIN slotCh' /\ slotCh'[i - 1] = [at |-> k, gen |-> g]
      BY <1>1, <1>2, <1>4, <2>2
    <3>2. \A x \in DOMAIN slotCh' : x > i - 1 => slotCh'[x].at # k
      <4> SUFFICES ASSUME NEW x \in 1..(n - 1), x > i - 1
                   PROVE  slotCh'[x].at # k
        BY Zenon, <1>2
      <4>1. x + 1 \in DOMAIN slotCh /\ x + 1 > i
        BY <1>1
      <4> QED
        BY Zenon, <1>2, <1>4, <4>1
    <3> QED
      BY Zenon, <3>1, <3>2 DEF Settles
  <2> QED
    BY Zenon, <2>1, <2>2
<1>5. ASSUME slots[k] = g, \A i \in DOMAIN slotCh : slotCh[i].at # k
      PROVE  Settles(k, g)'
  <2>1. \A x \in DOMAIN slotCh' : slotCh'[x].at # k
    BY <1>1, <1>2, <1>5
  <2>2. slots'[k] = g
    BY <1>1, <1>3, <1>5
  <2> QED
    BY Zenon, <2>1, <2>2 DEF Settles
<1> QED
  BY Zenon, <1>4, <1>5 DEF Settles

-----------------------------------------------------------------------------
(* Keys. *)

\* What KeyInv says of a key is as before.
Steady(k) ==
    /\ entry'[k] = entry[k]
    /\ Exists(k)' <=> Exists(k)
    /\ att'[k] = att[k]
    /\ lastGen'[k] = lastGen[k]
    /\ finished'[k] = finished[k]
    /\ stream'[k] = stream[k]
    /\ fate'[k] = fate[k]
    /\ Doing(k)' = Doing(k)
    /\ Doing(k) # "none" => job'.gen = job.gen
    /\ k \in routed' <=> k \in routed
    /\ k \in doubled' <=> k \in doubled
    /\ live' => live
    /\ live' => \A g : Settles(k, g) => Settles(k, g)'

LEMMA CarriedSame ==
    ASSUME NEW k \in Keys, stream'[k] = stream[k],
           \/ Doing(k)' = Doing(k) /\ (Doing(k) # "none" => job'.gen = job.gen)
           \/ Doing(k) # "OpenFrame" /\ Doing(k)' # "OpenFrame"
    PROVE  /\ \A g : Carried(k, g)' <=> Carried(k, g)
           /\ Doing(k)' = "OpenFrame" => Doing(k) = "OpenFrame" /\ job'.gen = job.gen
<1>1. "OpenFrame" # "none"
  BY Zenon
<1> QED
  BY Zenon, <1>1 DEF Carried

\* What the peer has seen of a key is as before, its last generation may have
\* finished or been detached.
LEMMA SeenSame ==
    ASSUME NEW k \in Keys, Seen(k), stream'[k] = stream[k], fate'[k] = fate[k],
           lastGen'[k] = lastGen[k], att'[k] \in {att[k], 0},
           finished[k] \subseteq finished'[k], finished'[k] \subseteq 1..lastGen[k],
           k \notin doubled' => k \notin doubled /\ (k \in routed' => k \in routed),
           \/ Doing(k)' = Doing(k) /\ (Doing(k) # "none" => job'.gen = job.gen)
           \/ Doing(k) # "OpenFrame" /\ Doing(k)' # "OpenFrame"
    PROVE  Seen(k)'
<1>1. /\ \A g : Carried(k, g)' <=> Carried(k, g)
      /\ Doing(k)' = "OpenFrame" => Doing(k) = "OpenFrame" /\ job'.gen = job.gen
  BY Zenon, CarriedSame
<1>2. att'[k] \in {0, lastGen'[k]} /\ finished'[k] \subseteq 1..lastGen'[k]
  BY Zenon DEF Seen
<1>3. Doing(k)' = "OpenFrame" => stream'[k] = 0 /\ job'.gen \in 1..lastGen'[k]
  BY Zenon, <1>1 DEF Seen
<1>4. \A g \in Gens : /\ fate'[k][g] # "none" => g <= lastGen'[k]
                      /\ fate'[k][g] = "open" <=> Carried(k, g)'
  BY Zenon, <1>1 DEF Seen
<1>5. k \notin doubled' => /\ k \notin routed'
                          /\ \A g \in Gens : fate'[k][g] = "Reconstructed" => g \in finished'[k]
  BY Zenon DEF Seen
<1> QED
  BY Zenon, <1>2, <1>3, <1>4, <1>5 DEF Seen

LEMMA KeySteady ==
    ASSUME NEW k \in Keys, KeyInv(k), Steady(k)
    PROVE  KeyInv(k)'
<1>0. finished'[k] \subseteq 1..lastGen[k] /\ finished[k] \subseteq finished'[k]
  BY Zenon DEF KeyInv, Seen, Steady
<1>1. Seen(k)'
  BY Zenon, <1>0, SeenSame DEF KeyInv, Steady
<1>2. ASSUME live'
      PROVE  Unopened(k)'
  BY Zenon, <1>2 DEF KeyInv, Unopened, Steady
<1>3. ASSUME live', k \notin doubled'
      PROVE  Flags(k)' /\ Held(k)'
  BY Zenon, <1>3 DEF KeyInv, Flags, Held, Opening, Steady
<1>4. ASSUME live', k \notin doubled'
      PROVE  Written(k)'
  BY Zenon, <1>4 DEF KeyInv, Written, Opened, Opening, Steady
<1> QED
  BY Zenon, <1>1, <1>2, <1>3, <1>4 DEF KeyInv

LEMMA OpenKey ==
    ASSUME Typed, NEW k \in Keys, KeyInv(k), OpenSession(k)
    PROVE  KeyInv(k)'
<1>t. KeyTyped(k)
  BY Zenon, KeyTypes
<1>0. /\ att'[k] = lastGen[k] + 1 /\ lastGen'[k] = lastGen[k] + 1 /\ att[k] = 0
      /\ lastGen[k] < MaxGen
      /\ UNCHANGED <<finished, fate, stream, pc, job, slotCh, slots, routed, doubled, live>>
  BY Zenon DEF OpenSession, loop, remote, Typed, TypeOK, CallersOK
<1>s. Seen(k)
  BY Zenon DEF KeyInv
<1>c. /\ \A g : Carried(k, g)' <=> Carried(k, g)
      /\ Doing(k)' = "OpenFrame" => Doing(k) = "OpenFrame" /\ job'.gen = job.gen
  <2>1. Doing(k)' = Doing(k)
    BY Zenon, <1>0 DEF Doing
  <2> QED
    BY Zenon, <1>0, <2>1, CarriedSame
<1> DEFINE n == lastGen[k]
<1>g. /\ n \in Nat /\ stream[k] \in Nat /\ Gens \subseteq Nat /\ entry[k] \in Entries
      /\ stream[k] # 0 => stream[k] \in Gens
      /\ n < MaxGen => n + 1 \in 0..MaxGen
  BY ONLY <1>t, Naturals0 DEF KeyTyped, Gens
<1>n. /\ n + 1 # 0 /\ n <= n + 1 /\ n + 1 <= n + 1 /\ n + 1 \notin 1..n
      /\ \A i \in 1..n : i \in 1..(n + 1) /\ n + 1 > i
      /\ \A i \in Gens : /\ i >= n + 1 => ~(i <= n)
                        /\ i <= n => i <= n + 1
      /\ stream[k] <= n => stream[k] < n + 1
  BY ONLY <1>g
<1>1. Seen(k)'
  <2>1. att'[k] \in {0, lastGen'[k]} /\ finished'[k] \subseteq 1..lastGen'[k]
    BY Zenon, <1>0, <1>n, <1>s DEF Seen
  <2>2. ASSUME NEW g \in Gens, fate'[k][g] # "none" PROVE g <= lastGen'[k]
    <3>1. g <= n /\ n \in Nat /\ g \in Nat
      BY Zenon, <1>0, <1>g, <1>s, <2>2 DEF Seen
    <3>2. lastGen'[k] = n + 1
      BY ZenonT(40), <1>0
    <3> QED
      BY ONLY <3>1, <3>2
  <2>3. Doing(k)' = "OpenFrame" => stream'[k] = 0 /\ job'.gen \in 1..lastGen'[k]
    BY Zenon, <1>0, <1>c, <1>n, <1>s DEF Seen
  <2> QED
    BY Zenon, <1>0, <1>c, <1>s, <2>1, <2>2, <2>3 DEF Seen
<1>2. ASSUME live
      PROVE  /\ entry'[k] = Reopened(entry[k], lastGen[k] + 1) /\ Exists(k)'
             /\ Doing(k)' = Doing(k) /\ \A g : Settles(k, g) => Settles(k, g)'
             /\ lastGen[k] + 1 \in 0..MaxGen
  <2>1. ~closed
    BY Zenon, <1>2 DEF Typed
  <2>2. Doing(k)' = Doing(k)
    BY Zenon, <1>0 DEF Doing
  <2> QED
    BY ZenonT(40), <1>0, <1>g, <2>1, <2>2, SettlesSame DEF OpenSession, Obtain, Exists, Typed, TypeOK, StateOK
<1>3. ASSUME live
      PROVE  /\ entry'[k].pending = lastGen[k] + 1 /\ entry'[k].open = entry[k].open
             /\ ~entry'[k].close
             /\ entry'[k].closeStream => ~entry[k].close /\ entry[k].closeStream
             /\ entry'[k].routing # 0 => ~entry[k].close /\ entry'[k].routing = entry[k].routing
  BY ZenonT(40), <1>2, <1>3, <1>g DEF Reopened, Entries
<1>4. ASSUME live
      PROVE  Unopened(k)'
  <2>1. Unopened(k)
    BY Zenon, <1>4 DEF KeyInv
  <2> QED
    <3>1. entry'[k].pending <= lastGen'[k]
      BY Zenon, <1>0, <1>3, <1>4, <1>n
    <3>2. ASSUME NEW g \in Gens, g >= n + 1 PROVE fate'[k][g] = "none"
      <4>0. g \in Nat /\ n \in Nat
        BY Zenon, <1>g
      <4>1. ~(g <= n)
        BY ONLY <3>2, <4>0
      <4> QED
        BY Zenon, <1>0, <1>s, <4>1 DEF Seen
    <3>3. ASSUME Doing(k)' = "Open"
          PROVE  /\ job'.gen \in 1..lastGen'[k]
                 /\ \A g \in Gens : g >= job'.gen => fate'[k][g] = "none"
                 /\ entry'[k].pending > job'.gen
      BY Zenon, <1>0, <1>2, <1>3, <1>4, <1>n, <2>1, <3>3 DEF Unopened
    <3> QED
      BY Zenon, <1>2, <1>3, <1>4, <3>1, <3>2, <3>3 DEF Unopened
<1>5. ASSUME live, k \notin doubled
      PROVE  ~entry'[k].closeStream /\ entry'[k].routing = 0
  <2>1. Exists(k) => entry[k].close
    BY Zenon, <1>0, <1>5 DEF KeyInv, Flags
  <2>2. ~Exists(k) => ~entry[k].closeStream /\ entry[k].routing = 0
    BY Zenon, <1>5, NoEntryFields DEF KeyInv, Unopened
  <2> QED
    BY Zenon, <1>3, <1>5, <2>1, <2>2
<1>6. ASSUME live, k \notin doubled
      PROVE  Flags(k)'
  <2>1. Flags(k)
    BY Zenon, <1>6 DEF KeyInv
  <2> QED
    BY Zenon, <1>0, <1>3, <1>5, <1>6, <1>n, <2>1 DEF Flags
<1>7. stream[k] <= lastGen[k]
  <2>1. 0 <= n
    BY ONLY <1>g
  <2>2. "open" # "none"
    BY Zenon
  <2> QED
    BY Zenon, <1>g, <1>s, <2>1, <2>2 DEF Seen, Carried
<1>8. ASSUME live, k \notin doubled
      PROVE  Held(k)'
  <2>1. Held(k)
    BY Zenon, <1>8 DEF KeyInv
  <2> QED
    BY Zenon, <1>0, <1>2, <1>3, <1>7, <1>8, <1>n, <2>1 DEF Held, Opening
<1>9. ASSUME live, k \notin doubled
      PROVE  Written(k)'
  <2>1. ~Opened(k)'
    BY Zenon, <1>3, <1>9, <1>n DEF Opened, Opening
  <2>2. att'[k] \notin finished'[k]
    BY Zenon, <1>0, <1>n, <1>s DEF Seen
  <2> QED
    BY Zenon, <1>2, <1>3, <1>9, <2>1, <2>2 DEF KeyInv, Written
<1>10. (live' <=> live) /\ doubled' = doubled
  BY Zenon, <1>0
<1> QED
  BY Zenon, <1>1, <1>4, <1>6, <1>8, <1>9, <1>10 DEF KeyInv

LEMMA CloseKey ==
    ASSUME Typed, NEW k \in Keys, KeyInv(k), CloseSession(k)
    PROVE  KeyInv(k)'
<1>t. KeyTyped(k)
  BY Zenon, KeyTypes
<1> USE Naturals0, <1>t DEF KeyTyped
<1>0. /\ att'[k] = 0
      /\ UNCHANGED <<lastGen, finished, fate, stream, pc, job, slotCh, slots, routed, live>>
      /\ doubled \subseteq doubled'
  BY Zenon DEF CloseSession, loop, remote, Typed, TypeOK, CallersOK
<1>d. Doing(k)' = Doing(k)
  BY Zenon, <1>0 DEF Doing
<1>1. Seen(k)'
  <2>1. finished[k] \subseteq 1..lastGen[k] /\ Seen(k)
    BY Zenon DEF KeyInv, Seen
  <2> QED
    BY Zenon, <1>0, <1>d, <2>1, SeenSame
<1>2. ASSUME live
      PROVE  /\ entry'[k] = [entry[k] EXCEPT !.close = TRUE] /\ Exists(k)'
             /\ Doing(k)' = Doing(k) /\ \A g : Settles(k, g) => Settles(k, g)'
             /\ k \notin doubled' => ~(entry[k].open /\ entry[k].pending # 0)
  <2>1. ~closed
    BY Zenon, <1>2 DEF Typed
  <2>2. Doing(k)' = Doing(k)
    BY Zenon, <1>0 DEF Doing
  <2> QED
    BY <1>0, <2>1, <2>2, SettlesSame DEF CloseSession, Obtain, Exists, Typed, TypeOK, StateOK
<1>3. ASSUME live
      PROVE  /\ entry'[k].pending = entry[k].pending /\ entry'[k].open = entry[k].open
             /\ entry'[k].close /\ entry'[k].closeStream = entry[k].closeStream
             /\ entry'[k].routing = entry[k].routing
  BY Zenon, <1>2, <1>3 DEF Entries
<1>4. ASSUME live
      PROVE  Unopened(k)'
  BY Zenon, <1>0, <1>2, <1>3, <1>4 DEF Unopened, KeyInv
<1>5. ASSUME live, k \notin doubled'
      PROVE  Flags(k)' /\ Held(k)'
  BY Zenon, <1>0, <1>2, <1>3, <1>5 DEF KeyInv, Flags, Held, Opening
<1>6. ASSUME live, k \notin doubled'
      PROVE  Written(k)'
  BY Zenon, <1>0, <1>2, <1>3, <1>6 DEF KeyInv, Written, Opened, Opening
<1> QED
  BY Zenon, <1>0, <1>1, <1>4, <1>5, <1>6 DEF KeyInv

LEMMA CloseStreamKey ==
    ASSUME Typed, NEW k \in Keys, KeyInv(k), CloseSessionStream(k)
    PROVE  KeyInv(k)'
<1>t. KeyTyped(k)
  BY Zenon, KeyTypes
<1> USE Naturals0, <1>t DEF KeyTyped
<1>0. /\ finished'[k] = finished[k] \union {att[k]} /\ att[k] = lastGen[k] /\ att[k] # 0
      /\ UNCHANGED <<att, lastGen, fate, stream, pc, job, slotCh, slots, routed, doubled, live>>
  BY Zenon DEF CloseSessionStream, loop, remote, Typed, TypeOK, CallersOK, KeyInv, Seen
<1>d. Doing(k)' = Doing(k)
  BY Zenon, <1>0 DEF Doing
<1>1. Seen(k)'
  <2>1. finished[k] \subseteq 1..lastGen[k] /\ Seen(k)
    BY Zenon DEF KeyInv, Seen
  <2>2. lastGen[k] \in Nat
    BY Zenon, <1>t
  <2>3. lastGen[k] \in 1..lastGen[k]
    BY ONLY <1>0, <2>2
  <2>4. finished[k] \subseteq finished'[k] /\ finished'[k] \subseteq 1..lastGen[k]
    BY Zenon, <1>0, <2>1, <2>3
  <2> QED
    BY Zenon, <1>0, <1>d, <2>1, <2>4, SeenSame
<1>2. ASSUME live
      PROVE  /\ entry'[k] = [entry[k] EXCEPT !.closeStream = TRUE] /\ Exists(k)'
             /\ Doing(k)' = Doing(k) /\ \A g : Settles(k, g) => Settles(k, g)'
  <2>1. ~closed
    BY Zenon, <1>2 DEF Typed
  <2>2. Doing(k)' = Doing(k)
    BY Zenon, <1>0 DEF Doing
  <2> QED
    BY <1>0, <2>1, <2>2, SettlesSame DEF CloseSessionStream, Obtain, Exists, Typed, TypeOK, StateOK
<1>3. ASSUME live
      PROVE  /\ entry'[k].pending = entry[k].pending /\ entry'[k].open = entry[k].open
             /\ entry'[k].close = entry[k].close /\ entry'[k].closeStream
             /\ entry'[k].routing = entry[k].routing
  BY <1>2, <1>3 DEF Entries
<1>4. ASSUME live
      PROVE  Unopened(k)'
  BY Zenon, <1>0, <1>2, <1>3, <1>4 DEF Unopened, KeyInv
<1>5. ASSUME live, k \notin doubled
      PROVE  Flags(k)' /\ Held(k)'
  BY Zenon, <1>0, <1>2, <1>3, <1>5 DEF KeyInv, Flags, Held, Opening
<1>6. ASSUME live, k \notin doubled
      PROVE  Written(k)'
  BY Zenon, <1>0, <1>2, <1>3, <1>6 DEF KeyInv, Written, Opened, Opening
<1> QED
  BY Zenon, <1>0, <1>1, <1>4, <1>5, <1>6 DEF KeyInv

LEMMA RoutingKey ==
    ASSUME Typed, NEW k \in Keys, KeyInv(k), SetRouting(k)
    PROVE  KeyInv(k)'
<1>t. KeyTyped(k)
  BY Zenon, KeyTypes
<1> USE Naturals0, <1>t DEF KeyTyped
<1>0. /\ att[k] = lastGen[k] /\ att[k] # 0
      /\ UNCHANGED <<att, lastGen, finished, fate, stream, pc, job, slotCh, slots, routed, doubled, live>>
      /\ Exists(k) /\ Exists(k)'
  BY Zenon DEF SetRouting, callers, loop, remote, KeyInv, Seen, Exists
<1>1. Seen(k)'
  <2>1. finished[k] \subseteq 1..lastGen[k] /\ Seen(k) /\ Doing(k)' = Doing(k)
    BY Zenon, <1>0 DEF KeyInv, Seen, Doing
  <2> QED
    BY Zenon, <1>0, <2>1, SeenSame
<1>2. entry'[k] = [entry[k] EXCEPT !.routing = att[k]]
  BY Zenon DEF SetRouting, Typed, TypeOK, StateOK
<1>3. /\ entry'[k].pending = entry[k].pending /\ entry'[k].open = entry[k].open
      /\ entry'[k].close = entry[k].close /\ entry'[k].closeStream = entry[k].closeStream
      /\ entry'[k].routing = att[k]
  BY Zenon, <1>2 DEF Entries
<1>4. Doing(k)' = Doing(k) /\ \A g : Settles(k, g) => Settles(k, g)'
  BY Zenon, <1>0, SettlesSame DEF Doing
<1>5. ASSUME live
      PROVE  Unopened(k)'
  BY Zenon, <1>0, <1>3, <1>4, <1>5 DEF Unopened, KeyInv
<1>6. ASSUME live, k \notin doubled
      PROVE  Flags(k)' /\ Held(k)'
  BY ZenonT(40), <1>0, <1>3, <1>4, <1>6 DEF KeyInv, Flags, Held, Opening
<1>7. ASSUME live, k \notin doubled
      PROVE  Written(k)'
  BY Zenon, <1>0, <1>3, <1>4, <1>7 DEF KeyInv, Written, Opened, Opening
<1> QED
  BY Zenon, <1>0, <1>1, <1>5, <1>6, <1>7 DEF KeyInv

LEMMA SessionsKeys ==
    ASSUME Typed, \A k \in Keys : KeyInv(k), Sessions
    PROVE  \A k \in Keys : KeyInv(k)'
<1> SUFFICES ASSUME NEW k \in Keys, NEW j \in Keys,
                    OpenSession(k) \/ CloseSession(k) \/ CloseSessionStream(k) \/ SetRouting(k)
             PROVE  KeyInv(j)'
  BY Zenon DEF Sessions
<1>1. CASE j = k
  BY Zenon, <1>1, OpenKey, CloseKey, CloseStreamKey, RoutingKey
<1>2. CASE j # k
  <2>1. /\ entry'[j] = entry[j] /\ elder'[j] = elder[j] /\ att'[j] = att[j]
        /\ lastGen'[j] = lastGen[j] /\ finished'[j] = finished[j]
        /\ j \in doubled' <=> j \in doubled
        /\ UNCHANGED <<loop, remote, live>>
    <3>0. /\ entry \in [Keys -> Entries] /\ elder \in [Keys -> SUBSET Keys]
          /\ att \in [Keys -> 0..MaxGen] /\ lastGen \in [Keys -> 0..MaxGen]
          /\ finished \in [Keys -> SUBSET Gens]
      BY Zenon DEF Typed, TypeOK, CallersOK, StateOK
    <3>1. CASE OpenSession(k)
      BY Zenon, <1>2, <3>0, <3>1 DEF OpenSession, Obtain
    <3>2. CASE CloseSession(k)
      BY Zenon, <1>2, <3>0, <3>2 DEF CloseSession, Obtain
    <3>3. CASE CloseSessionStream(k)
      BY Zenon, <1>2, <3>0, <3>3 DEF CloseSessionStream, Obtain
    <3>4. CASE SetRouting(k)
      BY Zenon, <1>2, <3>0, <3>4 DEF SetRouting, callers
    <3> QED
      BY Zenon, <3>1, <3>2, <3>3, <3>4
  <2>2. Steady(j)
    BY Zenon, <2>1, SettlesSame DEF Steady, Exists, Doing, loop, remote
  <2> QED
    BY ZenonT(40), <2>2, KeySteady
<1> QED
  BY Zenon, <1>1, <1>2

LEMMA EngineKeys ==
    ASSUME Typed, \A k \in Keys : KeyInv(k), Engine
    PROVE  \A k \in Keys : KeyInv(k)'
<1> SUFFICES ASSUME NEW k \in Keys
             PROVE  KeyInv(k)'
  BY Zenon
<1>0. /\ UNCHANGED <<att, lastGen, finished, elder, stream, slotCh, slots, fate, routed, doubled, live, job>>
      /\ pc' = pc \/ (pc = "hello" /\ pc' = "loop")
  BY Zenon DEF Engine, Handshake, AddChannel, RemoveChannel, callers, loop, remote
<1>1. Exists(k)' <=> Exists(k)
  BY Zenon, <1>0 DEF Exists
<1>2. Doing(k)' = Doing(k) /\ \A g : Settles(k, g) => Settles(k, g)'
  BY Zenon, <1>0, SettlesSame DEF Doing
<1>3. CASE entry'[k] = entry[k]
  <2>1. Steady(k)
    BY ZenonT(40), <1>0, <1>1, <1>2, <1>3 DEF Steady
  <2> QED
    BY Zenon, <2>1, KeySteady
<1>4. CASE entry'[k] = [entry[k] EXCEPT !.routing = 0] /\ Exists(k)
  <2>t. KeyTyped(k)
    BY Zenon, KeyTypes
  <2> USE Naturals0, <2>t DEF KeyTyped
  <2>1. /\ entry'[k].pending = entry[k].pending /\ entry'[k].open = entry[k].open
        /\ entry'[k].close = entry[k].close /\ entry'[k].closeStream = entry[k].closeStream
        /\ entry'[k].routing = 0
    BY Zenon, <1>4 DEF Entries
  <2>2. Seen(k)'
    <3>1. finished[k] \subseteq 1..lastGen[k] /\ Seen(k)
      BY Zenon DEF KeyInv, Seen
    <3> QED
      BY Zenon, <1>0, <1>2, <3>1, SeenSame
  <2>3. ASSUME live
        PROVE  Unopened(k)'
    BY ZenonT(40), <1>0, <1>1, <1>2, <1>4, <2>1, <2>3 DEF Unopened, KeyInv
  <2>4. ASSUME live, k \notin doubled
        PROVE  Flags(k)' /\ Held(k)'
    BY ZenonT(40), <1>0, <1>1, <1>2, <2>1, <2>4 DEF KeyInv, Flags, Held, Opening
  <2>5. ASSUME live, k \notin doubled
        PROVE  Written(k)'
    BY Zenon, <1>0, <1>2, <2>1, <2>5 DEF KeyInv, Written, Opened, Opening
  <2> QED
    BY Zenon, <1>0, <2>2, <2>3, <2>4, <2>5 DEF KeyInv
<1>5. entry'[k] = entry[k] \/ (entry'[k] = [entry[k] EXCEPT !.routing = 0] /\ Exists(k))
  BY Zenon DEF Engine, Handshake, AddChannel, RemoveChannel
<1> QED
  BY Zenon, <1>3, <1>4, <1>5

-----------------------------------------------------------------------------
(* What next() takes. *)

\* The entries of other keys stay or are deleted with their closed flag.
LEMMA PrunedKey ==
    ASSUME Typed, NEW k \in Keys, KeyInv(k), Skipped(k), Turn,
           entry'[k] = NoEntry, ~Exists(k)', Doing(k)' = "none",
           UNCHANGED <<callers, live, stream, slotCh, slots, remote, doubled>>
    PROVE  KeyInv(k)'
<1>t. KeyTyped(k)
  BY ZenonT(40), KeyTypes
<1> USE Naturals0, <1>t DEF KeyTyped
<1>0. Doing(k) = "none" /\ live
  BY Zenon DEF Turn, Doing
<1>1. Seen(k)'
  <2>1. /\ finished[k] \subseteq 1..lastGen[k] /\ Seen(k)
        /\ UNCHANGED <<att, lastGen, finished, stream, fate, routed, doubled>>
    BY Zenon DEF KeyInv, Seen, callers, remote
  <2> QED
    BY Zenon, <1>0, <2>1, SeenSame
<1>2. \A g : Settles(k, g) => Settles(k, g)'
  BY Zenon, SettlesSame
<1>3. entry[k].close /\ ~entry[k].open
  BY Zenon DEF Skipped
<1>4. Unopened(k)'
  BY DEF Unopened, NoEntry, callers
<1>5. ASSUME k \notin doubled
      PROVE  att[k] = 0 /\ stream[k] = 0
  BY Zenon, <1>0, <1>3, <1>5 DEF KeyInv, Flags, Held, Opening
<1>6. ASSUME k \notin doubled
      PROVE  Flags(k)' /\ Held(k)'
  <2>1. Flags(k)'
    BY Zenon, <1>5, <1>6, NoEntryFields DEF Flags, callers
  <2>2. Held(k)'
    BY ZenonT(40), <1>5, <1>6 DEF Held, Opening, callers
  <2> QED
    BY Zenon, <2>1, <2>2
<1>7. ASSUME k \notin doubled
      PROVE  Written(k)'
  BY ZenonT(40), <1>0, <1>2, <1>3, <1>5, <1>7, NoEntryFields DEF KeyInv, Written, Opened, Opening, callers
<1> QED
  BY Zenon, <1>0, <1>1, <1>4, <1>6, <1>7 DEF KeyInv

\* A key other than the one taken.
LEMMA OtherKey ==
    ASSUME Typed, NEW k \in Keys, KeyInv(k), pc = "loop", live, ~closed, NEW S, Forget(S),
           entry'[k] = Pruned[k], k \in S <=> Skipped(k), Doing(k)' = "none",
           UNCHANGED <<callers, live, stream, slotCh, slots, remote, doubled>>
    PROVE  KeyInv(k)'
<1>1. Exists(k)' <=> Exists(k) /\ k \notin S
  BY Zenon DEF Forget, Exists, Typed, TypeOK, StateOK
<1>2. CASE Skipped(k)
  BY Zenon, <1>1, <1>2, PrunedKey DEF Pruned, Turn
<1>3. CASE ~Skipped(k)
  <2>1. entry'[k] = entry[k] /\ Doing(k) = "none"
    BY ZenonT(40), <1>3 DEF Pruned, Doing
  <2>2. Steady(k)
    BY Zenon, <1>1, <1>3, <2>1, SettlesSame DEF Steady, callers, remote
  <2> QED
    BY Zenon, <2>2, KeySteady
<1> QED
  BY Zenon, <1>2, <1>3

LEMMA NextCloseKey ==
    ASSUME Typed, NEW k \in Keys, KeyInv(k), NextClose(k)
    PROVE  KeyInv(k)'
<1>t. KeyTyped(k)
  BY Zenon, KeyTypes
<1> USE Naturals0, <1>t DEF KeyTyped
<1>0. /\ live /\ Doing(k)' = "CloseSession" /\ Doing(k) = "none"
      /\ UNCHANGED <<att, lastGen, finished, fate, stream, slotCh, slots, routed, doubled, live>>
  BY Zenon DEF NextClose, Turn, Take, Doing, SessionKinds, callers, remote
<1>1. entry[k].open /\ entry[k].close /\ Exists(k) /\ ~Skipped(k)
  BY ZenonT(40) DEF NextClose, First, CloseWanted, Skipped, Exists
<1>2. entry'[k] = AfterClose(entry[k])
  BY Zenon, PrunedTyped DEF NextClose
<1>3. Seen(k)'
  <2>1. finished[k] \subseteq 1..lastGen[k] /\ Seen(k)
    BY Zenon DEF KeyInv, Seen
  <2>2. Doing(k)' # "OpenFrame" /\ Doing(k) # "OpenFrame"
    BY Zenon, <1>0
  <2> QED
    BY Zenon, <1>0, <2>1, <2>2, SeenSame
<1>4. CASE entry[k].pending = 0
  <2>1. entry'[k] = NoEntry
    BY Zenon, <1>2, <1>4 DEF AfterClose
  <2>2. Unopened(k)'
    <3>1. entry'[k].pending = 0
      BY Zenon, <2>1, NoEntryFields
    <3>2. 0 <= lastGen[k]
      BY ONLY <1>t, Naturals0, k \in Keys DEF KeyTyped
    <3>3. Doing(k)' # "Open"
      BY Zenon, <1>0
    <3> QED
      BY ZenonT(40), <1>0, <2>1, <3>1, <3>2, <3>3 DEF Unopened
  <2>3. ~Exists(k)'
    BY Zenon, <1>4 DEF NextClose, Forget, Exists
  <2>4. ASSUME k \notin doubled
        PROVE  Flags(k)' /\ Held(k)' /\ Written(k)'
    <3>1. att[k] = 0
      BY Zenon, <1>0, <1>1, <2>4 DEF KeyInv, Flags
    <3>2. /\ entry'[k].pending = 0 /\ entry'[k].routing = 0
          /\ ~entry'[k].open /\ ~entry'[k].close /\ ~entry'[k].closeStream
      BY Zenon, <2>1, NoEntryFields
    <3>3. Flags(k)'
      BY Zenon, <1>0, <2>3, <3>1, <3>2 DEF Flags
    <3>4. Held(k)'
      BY Zenon, <1>0, <2>3, <3>1, <3>2 DEF Held, Opening
    <3>5. Written(k)'
      BY Zenon, <1>0, <2>3, <3>1, <3>2 DEF Written, Opened, Opening
    <3> QED
      BY Zenon, <3>3, <3>4, <3>5
  <2> QED
    BY Zenon, <1>0, <1>3, <2>2, <2>4 DEF KeyInv
<1>5. CASE entry[k].pending # 0
  <2>1. entry'[k].pending = entry[k].pending
    BY Zenon, <1>2, <1>5 DEF AfterClose, Entries
  <2>2. Exists(k)'
    BY Zenon, <1>1, <1>5 DEF NextClose, Forget, Exists, SkippedKeys, Typed, TypeOK, StateOK
  <2>3. Unopened(k)'
    BY Zenon, <1>0, <2>1, <2>2 DEF KeyInv, Unopened
  <2>4. k \in doubled
    BY Zenon, <1>0, <1>1, <1>5 DEF KeyInv, Flags
  <2> QED
    BY Zenon, <1>0, <1>3, <2>3, <2>4 DEF KeyInv
<1> QED
  BY Zenon, <1>4, <1>5

LEMMA NextOpenKey ==
    ASSUME Typed, NEW k \in Keys, KeyInv(k), NextOpen(k)
    PROVE  KeyInv(k)'
<1>t. KeyTyped(k)
  BY Zenon, KeyTypes
<1> USE Naturals0, <1>t DEF KeyTyped
<1>0. /\ live /\ Doing(k)' = "Open" /\ Doing(k) = "none" /\ job'.gen = entry[k].pending
      /\ UNCHANGED <<att, lastGen, finished, fate, stream, slotCh, slots, routed, doubled, live>>
  BY Zenon DEF NextOpen, Turn, Take, Doing, SessionKinds, callers, remote
<1>1. entry[k].pending # 0 /\ Exists(k) /\ ~Skipped(k)
  BY Zenon DEF NextOpen, First, Kept, OpenWanted, Exists
<1>2. entry'[k] = [entry[k] EXCEPT !.pending = 0, !.open = TRUE]
  BY Zenon, <1>1, PrunedTyped DEF NextOpen, Pruned
<1>3. /\ entry'[k].pending = 0 /\ entry'[k].open
      /\ entry'[k].close = entry[k].close /\ entry'[k].closeStream = entry[k].closeStream
      /\ entry'[k].routing = entry[k].routing
  BY Zenon, <1>2 DEF Entries
<1>4. Exists(k)'
  BY Zenon, <1>1 DEF NextOpen, Forget, Exists, SkippedKeys, Typed, TypeOK, StateOK
<1>5. Seen(k)'
  <2>1. finished[k] \subseteq 1..lastGen[k] /\ Seen(k)
    BY Zenon DEF KeyInv, Seen
  <2>2. Doing(k)' # "OpenFrame" /\ Doing(k) # "OpenFrame"
    BY Zenon, <1>0
  <2> QED
    BY Zenon, <1>0, <2>1, <2>2, SeenSame
<1>6. Unopened(k)'
  <2>1. entry[k].pending \in Nat
    BY ZenonT(40), EntryMade
  <2>2. job'.gen \in 1..lastGen[k] /\ \A g \in Gens : g >= job'.gen => fate[k][g] = "none"
    <3>1. Unopened(k)
      BY Zenon, <1>0 DEF KeyInv
    <3>2. entry[k].pending # 0
      BY Zenon, <1>1
    <3>3. /\ entry[k].pending <= lastGen[k]
          /\ \A g \in Gens : g >= entry[k].pending => fate[k][g] = "none"
      BY ZenonT(40), <3>1, <3>2 DEF Unopened
    <3>4. lastGen[k] \in Nat
      BY Zenon, <1>t
    <3>5. entry[k].pending \in 1..lastGen[k]
      BY ONLY <2>1, <3>2, <3>3, <3>4
    <3>6. job'.gen = entry[k].pending
      BY Zenon, <1>0
    <3> QED
      BY Zenon, <3>3, <3>5, <3>6
  <2>3. 0 <= lastGen[k]
    <3>1. lastGen[k] \in Nat
      BY Zenon, <1>t
    <3> QED
      BY ONLY <3>1
  <2> QED
    BY Zenon, <1>0, <1>3, <1>4, <2>2, <2>3 DEF Unopened
<1>7. ASSUME k \notin doubled
      PROVE  Flags(k)' /\ Held(k)'
  BY Zenon, <1>0, <1>1, <1>3, <1>4, <1>7 DEF KeyInv, Flags, Held, Opening
<1>8. ASSUME k \notin doubled
      PROVE  Written(k)'
  BY Zenon, <1>0, <1>1, <1>3, <1>8 DEF KeyInv, Written, Opened, Opening
<1> QED
  BY Zenon, <1>0, <1>5, <1>6, <1>7, <1>8 DEF KeyInv

LEMMA NextCloseStreamKey ==
    ASSUME Typed, NEW k \in Keys, KeyInv(k), NextCloseStream(k)
    PROVE  KeyInv(k)'
<1>t. KeyTyped(k)
  BY Zenon, KeyTypes
<1> USE Naturals0, <1>t DEF KeyTyped
<1>0. /\ live /\ Doing(k)' = "CloseStream" /\ Doing(k) = "none"
      /\ UNCHANGED <<att, lastGen, finished, fate, stream, slotCh, slots, routed, doubled, live>>
  BY Zenon DEF NextCloseStream, Turn, Take, Doing, SessionKinds, callers, remote
<1>1. /\ entry[k].closeStream /\ entry[k].open /\ Exists(k) /\ ~Skipped(k)
      /\ entry[k].pending = 0
  BY Zenon DEF NextCloseStream, First, Kept, CloseStreamWanted, OpenWanted, Exists
<1>2. entry'[k] = [entry[k] EXCEPT !.closeStream = FALSE]
  BY Zenon, <1>1, PrunedTyped DEF NextCloseStream, Pruned
<1>3. /\ entry'[k].pending = entry[k].pending /\ entry'[k].open = entry[k].open
      /\ entry'[k].close = entry[k].close /\ ~entry'[k].closeStream
      /\ entry'[k].routing = entry[k].routing
  BY Zenon, <1>2 DEF Entries
<1>4. Exists(k)'
  BY Zenon, <1>1 DEF NextCloseStream, Forget, Exists, SkippedKeys, Typed, TypeOK, StateOK
<1>5. Seen(k)'
  <2>1. finished[k] \subseteq 1..lastGen[k] /\ Seen(k)
    BY Zenon DEF KeyInv, Seen
  <2>2. Doing(k)' # "OpenFrame" /\ Doing(k) # "OpenFrame"
    BY Zenon, <1>0
  <2> QED
    BY Zenon, <1>0, <2>1, <2>2, SeenSame
<1>6. Unopened(k)'
  BY Zenon, <1>0, <1>1, <1>3, <1>4 DEF KeyInv, Unopened
<1>7. ASSUME k \notin doubled
      PROVE  Flags(k)' /\ Held(k)'
  BY Zenon, <1>0, <1>1, <1>3, <1>4, <1>7 DEF KeyInv, Flags, Held, Opening
<1>8. ASSUME k \notin doubled
      PROVE  Written(k)'
  BY Zenon, <1>0, <1>1, <1>3, <1>8, SettlesSame DEF KeyInv, Written, Opened, Opening
<1> QED
  BY Zenon, <1>0, <1>5, <1>6, <1>7, <1>8 DEF KeyInv

LEMMA NextRoutingKey ==
    ASSUME Typed, NEW k \in Keys, KeyInv(k), NextRouting(k)
    PROVE  KeyInv(k)'
<1>t. KeyTyped(k)
  BY Zenon, KeyTypes
<1> USE Naturals0, <1>t DEF KeyTyped
<1>0. /\ live /\ Doing(k)' = "Routing" /\ Doing(k) = "none" /\ job'.gen = entry[k].routing
      /\ UNCHANGED <<att, lastGen, finished, fate, stream, slotCh, slots, routed, doubled, live>>
  BY Zenon DEF NextRouting, Turn, Take, Doing, SessionKinds, callers, remote
<1>1. /\ entry[k].routing # 0 /\ entry[k].open /\ Exists(k) /\ ~Skipped(k)
      /\ entry[k].pending = 0
  BY Zenon DEF NextRouting, First, Kept, RoutingWanted, OpenWanted, Exists
<1>2. entry'[k] = [entry[k] EXCEPT !.routing = 0]
  BY Zenon, <1>1, PrunedTyped DEF NextRouting, Pruned
<1>3. /\ entry'[k].pending = entry[k].pending /\ entry'[k].open = entry[k].open
      /\ entry'[k].close = entry[k].close /\ entry'[k].closeStream = entry[k].closeStream
      /\ entry'[k].routing = 0
  BY Zenon, <1>2 DEF Entries
<1>4. Exists(k)'
  BY Zenon, <1>1 DEF NextRouting, Forget, Exists, SkippedKeys, Typed, TypeOK, StateOK
<1>5. Seen(k)'
  <2>1. finished[k] \subseteq 1..lastGen[k] /\ Seen(k)
    BY Zenon DEF KeyInv, Seen
  <2>2. Doing(k)' # "OpenFrame" /\ Doing(k) # "OpenFrame"
    BY Zenon, <1>0
  <2> QED
    BY Zenon, <1>0, <2>1, <2>2, SeenSame
<1>6. Unopened(k)'
  BY Zenon, <1>0, <1>1, <1>3, <1>4 DEF KeyInv, Unopened
<1>7. ASSUME k \notin doubled
      PROVE  Flags(k)' /\ Held(k)'
  BY Zenon, <1>0, <1>1, <1>3, <1>4, <1>7 DEF KeyInv, Flags, Held, Opening
<1>8. ASSUME k \notin doubled
      PROVE  Written(k)'
  BY Zenon, <1>0, <1>1, <1>3, <1>8, SettlesSame DEF KeyInv, Written, Opened, Opening
<1> QED
  BY Zenon, <1>0, <1>5, <1>6, <1>7, <1>8 DEF KeyInv

LEMMA TakeKeys ==
    ASSUME Typed, \A k \in Keys : KeyInv(k), Take1
    PROVE  \A k \in Keys : KeyInv(k)'
<1> SUFFICES ASSUME NEW j \in Keys
             PROVE  KeyInv(j)'
  BY Zenon
<1>1. ASSUME NEW k \in Keys, NextClose(k) \/ NextOpen(k) \/ NextCloseStream(k) \/ NextRouting(k)
      PROVE  KeyInv(j)'
  <2>1. CASE j = k
    BY Zenon, <1>1, <2>1, NextCloseKey, NextOpenKey, NextCloseStreamKey, NextRoutingKey
  <2>2. CASE j # k
    <3>1. /\ pc = "loop" /\ live /\ ~closed /\ Doing(j)' = "none"
          /\ UNCHANGED <<callers, live, stream, slotCh, slots, remote, doubled>>
      BY <1>1, <2>2 DEF NextClose, NextOpen, NextCloseStream, NextRouting, Turn, Take, Doing
    <3>2. entry'[j] = Pruned[j]
      BY Zenon, <1>1, <2>2, PrunedTyped DEF NextClose, NextOpen, NextCloseStream, NextRouting
    <3>3. CASE NextClose(k)
      <4> DEFINE S == SkippedKeys \union {i \in {k} : entry[i].pending = 0}
      <4>1. Forget(S) /\ (j \in S <=> Skipped(j))
        BY Zenon, <2>2, <3>3 DEF NextClose, SkippedKeys
      <4> HIDE DEF S
      <4> QED
        BY Zenon, <3>1, <3>2, <4>1, OtherKey
    <3>4. CASE NextOpen(k) \/ NextCloseStream(k) \/ NextRouting(k)
      <4>1. Forget(SkippedKeys) /\ (j \in SkippedKeys <=> Skipped(j))
        BY Zenon, <3>4 DEF NextOpen, NextCloseStream, NextRouting, SkippedKeys
      <4> QED
        BY Zenon, <3>1, <3>2, <4>1, OtherKey
    <3> QED
      BY Zenon, <1>1, <3>3, <3>4
  <2> QED
    BY Zenon, <2>1, <2>2
<1>2. ASSUME NEW c \in Channels, NextUnsubscribe(c) \/ NextSubscribe(c)
      PROVE  KeyInv(j)'
  <2>1. /\ pc = "loop" /\ live /\ ~closed /\ Doing(j)' = "none" /\ entry' = Pruned
        /\ UNCHANGED <<callers, live, stream, slotCh, slots, remote, doubled>>
        /\ Forget(SkippedKeys) /\ (j \in SkippedKeys <=> Skipped(j))
    BY <1>2 DEF NextUnsubscribe, NextSubscribe, Turn, Take, Doing, SessionKinds, SkippedKeys
  <2> QED
    BY Zenon, <2>1, OtherKey
<1>3. CASE NextNone
  <2>1. /\ pc = "loop" /\ live /\ ~closed /\ Doing(j)' = "none" /\ entry' = Pruned
        /\ UNCHANGED <<callers, live, stream, slotCh, slots, remote, doubled>>
        /\ Forget(SkippedKeys) /\ (j \in SkippedKeys <=> Skipped(j))
    BY Zenon, <1>3 DEF NextNone, Doing, SkippedKeys, Typed
  <2> QED
    BY Zenon, <2>1, OtherKey
<1>4. CASE Wake
  <2>1. Steady(j)
    BY Zenon, <1>4, SettlesSame DEF Wake, Steady, Exists, Doing, callers, remote
  <2> QED
    BY Zenon, <2>1, KeySteady
<1> QED
  BY Zenon, <1>1, <1>2, <1>3, <1>4 DEF Take1

=============================================================================
