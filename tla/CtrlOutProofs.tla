---------------------------- MODULE CtrlOutProofs ----------------------------
(* Proofs about CtrlOut for any number of channels, messages, generations and    *)
(* slot updates under way: what the peer knows whenever the control loop sleeps, *)
(* and what it may never be told.                                                *)
EXTENDS CtrlOutInvariant

-----------------------------------------------------------------------------
(* What the loop writes. *)

\* The stream the loop held is closed, reset or cancelled.
LEMMA LostStream ==
    ASSUME Typed, NEW k \in Keys, KeyInv(k), stream[k] # 0, NEW f \in {"fin", "Reconstructed", "cancelled"},
           Mark(k, stream[k], f), stream' = [stream EXCEPT ![k] = 0],
           UNCHANGED <<att, lastGen, finished, routed, doubled>>, Doing(k)' # "OpenFrame",
           f = "Reconstructed" /\ k \notin doubled => stream[k] \in finished[k]
    PROVE  /\ Seen(k)' /\ stream'[k] = 0
           /\ \A g \in Gens : /\ fate[k][g] = "none" => fate'[k][g] = "none"
                              /\ fate'[k][g] \in {fate[k][g], f}
                              /\ fate'[k][g] # "open"
<1>t. KeyTyped(k)
  BY KeyTypes
<1> USE Naturals0, <1>t DEF KeyTyped
<1>1. stream[k] \in Gens /\ stream'[k] = 0
  BY DEF Gens, Typed, TypeOK, LoopOK
<1>2. /\ fate'[k][stream[k]] = f
      /\ \A g \in Gens : g # stream[k] => fate'[k][g] = fate[k][g]
  BY <1>1 DEF Mark, Typed, TypeOK, RemoteOK
<1>s. Seen(k)
  BY Zenon DEF KeyInv
<1>c. Doing(k) # "OpenFrame"
  BY Zenon, <1>s DEF Seen
<1>3. fate[k][stream[k]] = "open"
  <2>1. Carried(k, stream[k])
    BY Zenon DEF Carried
  <2> QED
    BY Zenon, <1>1, <1>s, <2>1 DEF Seen
<1>4. \A g \in Gens : fate'[k][g] # "open"
  <2>1. f # "open"
    OBVIOUS
  <2>2. ASSUME NEW g \in Gens, g # stream[k]
        PROVE  fate'[k][g] # "open"
    <3>1. ~Carried(k, g)
      BY Zenon, <1>c, <2>2 DEF Carried
    <3>2. fate[k][g] # "open"
      BY Zenon, <1>s, <3>1 DEF Seen
    <3> QED
      BY Zenon, <1>2, <2>2, <3>2
  <2> QED
    BY Zenon, <1>2, <2>1, <2>2
<1>5. \A g \in Gens : /\ fate[k][g] = "none" => fate'[k][g] = "none"
                      /\ fate'[k][g] \in {fate[k][g], f}
  BY <1>2, <1>3
<1>6. Seen(k)'
  <2>1. \A g \in Gens : fate'[k][g] # "none" => g <= lastGen[k]
    BY Zenon, <1>2, <1>3, <1>s DEF Seen
  <2>2. \A g \in Gens : fate'[k][g] = "open" <=> Carried(k, g)'
    <3>1. 0 \notin Gens
      BY DEF Gens
    <3>2. \A g \in Gens : stream'[k] # g
      BY Zenon, <1>1, <3>1
    <3>3. \A g \in Gens : ~Carried(k, g)'
      BY Zenon, <3>2 DEF Carried
    <3> QED
      BY Zenon, <1>4, <3>3
  <2>3. k \notin doubled => \A g \in Gens : fate'[k][g] = "Reconstructed" => g \in finished[k]
    BY Zenon, <1>2, <1>s DEF Seen
  <2> QED
    BY Zenon, <1>s, <2>1, <2>2, <2>3 DEF Seen
<1> QED
  BY <1>1, <1>4, <1>5, <1>6

\* The transition under way while OPEN is to be written.
LEMMA OpenedJob ==
    ASSUME Typed, OpenStream
    PROVE  job'.kind = "OpenFrame" /\ job'.at = job.at /\ job'.gen = job.gen
<1>1. job \in Jobs /\ job.kind = "Open" /\ job' = [job EXCEPT !.kind = "OpenFrame"]
  BY Zenon DEF OpenStream, Typed, TypeOK, LoopOK
<1>2. job \in [kind : SessionKinds, at : Keys, gen : 0..MaxGen]
  BY ONLY <1>1 DEF Jobs, NoJob, ChannelKinds
<1> QED
  BY Zenon, <1>1, <1>2

\* A write for another key, or for a channel.
LEMMA WriteOther ==
    ASSUME Typed, NEW k \in Keys, KeyInv(k), Write, job.kind \in SessionKinds => job.at # k
    PROVE  KeyInv(k)'
<1>1. /\ UNCHANGED <<callers, state, doubled>> /\ (live' => live) /\ pc = "write"
      /\ job' = job \/ pc' = "loop" \/ OpenStream
  BY Zenon DEF Write, WriteChannel, WriteOpenReplace, OpenStream, WriteOpen, OpenFails, WriteCloseSession, WriteCloseStream,
         WriteRouting, RoutingFails, WriteFails, Done, callers, state
<1>2. Doing(k) = "none" /\ Doing(k)' = "none"
  <2>1. CASE OpenStream
    BY <2>1, OpenedJob DEF OpenStream, SessionKinds, Doing
  <2>2. CASE ~OpenStream
    BY Zenon, <1>1, <2>2 DEF Doing
  <2> QED
    BY Zenon, <2>1, <2>2
<1>3. stream'[k] = stream[k] /\ fate'[k] = fate[k] /\ (k \in routed' <=> k \in routed)
  <2>1. /\ stream \in [Keys -> 0..MaxGen]
        /\ fate \in [Keys -> [Gens -> {"none", "open", "fin", "Reconstructed", "cancelled"}]]
    BY DEF Typed, TypeOK, LoopOK, RemoteOK
  <2>2. job.kind \notin SessionKinds => UNCHANGED <<stream, fate, routed>>
    BY Zenon DEF Write, WriteChannel, WriteOpenReplace, OpenStream, WriteOpen, OpenFails, WriteCloseSession,
         WriteCloseStream, WriteRouting, RoutingFails, WriteFails, remote, SessionKinds
  <2>3. ASSUME job.kind \in SessionKinds
        PROVE  /\ stream' = stream \/ \E h : stream' = [stream EXCEPT ![job.at] = h]
               /\ fate' = fate \/ \E h, f : Mark(job.at, h, f)
               /\ routed' = routed \/ routed' = routed \union {job.at}
    <3>1. CASE WriteChannel
      BY <2>3, <3>1 DEF WriteChannel, SessionKinds
    <3>2. CASE ~WriteChannel
      BY Zenon, <3>2 DEF Write, WriteOpenReplace, OpenStream, WriteOpen, OpenFails, WriteCloseSession,
         WriteCloseStream, WriteRouting, RoutingFails, WriteFails, RetirePrevious, remote
    <3> QED
      BY Zenon, <3>1, <3>2
  <2>4. CASE job.kind \in SessionKinds
    BY Zenon, <2>1, <2>3, <2>4 DEF Mark
  <2> QED
    BY Zenon, <2>2, <2>4
<1>4. \A g : Settles(k, g) => Settles(k, g)'
  <2>1. CASE UNCHANGED <<slotCh, slots>>
    BY <2>1, SettlesSame
  <2>2. ASSUME NEW h \in 0..MaxGen, slots' = slots, job.kind \in SessionKinds,
               slotCh' = Append(slotCh, [at |-> job.at, gen |-> h])
        PROVE  \A g : Settles(k, g) => Settles(k, g)'
    <3>1. job.at \in Keys /\ k \in Keys \ {job.at}
      BY <2>2, JobTypes
    <3> QED
      BY <2>2, <3>1, SettlesAppend
  <2>3. \/ UNCHANGED <<slotCh, slots>>
        \/ /\ job.kind \in SessionKinds /\ slots' = slots
           /\ \E h \in 0..MaxGen : slotCh' = Append(slotCh, [at |-> job.at, gen |-> h])
    <3>1. CASE \/ WriteChannel \/ WriteCloseStream \/ WriteRouting \/ RoutingFails \/ WriteFails
               \/ OpenStream \/ OpenFails
      BY Zenon, <3>1 DEF WriteChannel, WriteCloseStream, WriteRouting, RoutingFails, WriteFails, OpenStream, OpenFails
    <3>2. CASE WriteOpenReplace \/ WriteCloseSession
      BY <3>2, Naturals0 DEF WriteOpenReplace, WriteCloseSession, DropSlot, SessionKinds
    <3>3. CASE WriteOpen
      BY <3>3, JobTypes DEF WriteOpen, SessionKinds
    <3> QED
      BY Zenon, <3>1, <3>2, <3>3 DEF Write
  <2> QED
    BY Zenon, <2>1, <2>2, <2>3
<1>5. Steady(k)
  BY Zenon, <1>1, <1>2, <1>3, <1>4 DEF Steady, Exists, callers, state
<1> QED
  BY <1>5, KeySteady

LEMMA WriteOpenReplaceKey ==
    ASSUME Typed, NEW k \in Keys, KeyInv(k), WriteOpenReplace, job.at = k
    PROVE  KeyInv(k)'
<1>t. KeyTyped(k)
  BY KeyTypes
<1> USE Naturals0, <1>t DEF KeyTyped
<1>0. /\ live /\ Doing(k) = "Open" /\ Doing(k)' = "Open" /\ stream[k] # 0
      /\ UNCHANGED <<att, lastGen, finished, entry, elder, routed, doubled, live, job>>
      /\ stream' = [stream EXCEPT ![k] = 0] /\ Mark(k, stream[k], "fin")
  BY DEF WriteOpenReplace, RetirePrevious, Doing, SessionKinds, callers, state
<1>1. /\ Seen(k)' /\ \A g \in Gens : fate[k][g] = "none" => fate'[k][g] = "none"
  <2>1. Doing(k)' # "OpenFrame"
    BY Zenon, <1>0
  <2> QED
    BY ZenonT(40), <1>0, <2>1, LostStream
<1>2. Unopened(k)'
  BY <1>0, <1>1 DEF KeyInv, Unopened, Exists
<1>3. ASSUME k \notin doubled
      PROVE  Flags(k)' /\ Held(k)'
  BY <1>0, <1>3 DEF KeyInv, Flags, Held, Opening, Exists
<1>4. ASSUME k \notin doubled
      PROVE  Written(k)'
  BY <1>0, <1>4 DEF KeyInv, Held, Written, Opened, Opening
<1> QED
  BY <1>0, <1>1, <1>2, <1>3, <1>4 DEF KeyInv

LEMMA OpenStreamKey ==
    ASSUME Typed, NEW k \in Keys, KeyInv(k), OpenStream, job.at = k
    PROVE  KeyInv(k)'
<1>t. KeyTyped(k)
  BY Zenon, KeyTypes
<1>0. /\ live /\ Doing(k) = "Open" /\ Doing(k)' = "OpenFrame" /\ stream[k] = 0 /\ job'.gen = job.gen
      /\ UNCHANGED <<att, lastGen, finished, entry, elder, routed, doubled, live, slots, slotCh, stream>>
  BY Zenon, OpenedJob DEF OpenStream, Doing, SessionKinds, callers, state
<1>s. Seen(k) /\ Unopened(k)
  BY Zenon, <1>0 DEF KeyInv
<1>1. PICK m \in 1..lastGen[k] : m = job.gen
  BY Zenon, <1>0, <1>s DEF Unopened
<1>2. m \in Gens /\ m \in Nat /\ m <= lastGen[k] /\ 0 \notin Gens
  BY ONLY <1>t, <1>1, Naturals0 DEF Gens, KeyTyped
<1>3. /\ fate'[k][m] = "open"
      /\ \A g \in Gens : g # m => fate'[k][g] = fate[k][g]
  BY Zenon, <1>1, <1>2 DEF OpenStream, Mark, Typed, TypeOK, RemoteOK
<1>c. \A g \in Gens : /\ Carried(k, g)' <=> m = g
                      /\ ~Carried(k, g)
  <2>1. "Open" # "OpenFrame"
    BY Zenon
  <2> QED
    BY Zenon, <1>0, <1>1, <1>2, <2>1 DEF Carried
<1>4. Seen(k)'
  <2>1. ASSUME NEW g \in Gens
        PROVE  /\ fate'[k][g] # "none" => g <= lastGen[k]
               /\ fate'[k][g] = "open" <=> Carried(k, g)'
               /\ fate'[k][g] = "Reconstructed" => fate[k][g] = "Reconstructed"
    <3>1. CASE g = m
      BY Zenon, <1>2, <1>3, <1>c, <3>1
    <3>2. CASE g # m
      BY Zenon, <1>3, <1>c, <1>s, <3>2 DEF Seen
    <3> QED
      BY Zenon, <3>1, <3>2
  <2>2. stream'[k] = 0 /\ job'.gen \in 1..lastGen'[k]
    BY Zenon, <1>0, <1>1
  <2> QED
    BY Zenon, <1>0, <1>s, <2>1, <2>2 DEF Seen
<1>5. Unopened(k)'
  <2>1. entry[k].pending # 0 => entry[k].pending > m
    BY Zenon, <1>0, <1>1, <1>s DEF Unopened
  <2>2. entry[k].pending # 0 => \A g \in Gens : g >= entry[k].pending => fate'[k][g] = "none"
    <3> SUFFICES ASSUME entry[k].pending # 0, NEW g \in Gens, g >= entry[k].pending
                 PROVE  fate'[k][g] = "none"
      OBVIOUS
    <3>0. entry[k].pending \in Nat /\ g \in Nat
      <4>1. entry[k].pending \in Nat
        BY Zenon, <1>t, EntryMade DEF KeyTyped
      <4>2. g \in Nat
        BY Naturals0 DEF Gens
      <4> QED
        BY Zenon, <4>1, <4>2
    <3>1. g # m
      BY <1>2, <2>1, <3>0
    <3> QED
      BY Zenon, <1>3, <1>s, <3>1 DEF Unopened
  <2>3. Doing(k)' # "Open"
    BY Zenon, <1>0
  <2> QED
    BY Zenon, <1>0, <1>s, <2>2, <2>3 DEF Unopened, Exists
<1>o. Opening(k) /\ Opening(k)' /\ ~Opened(k)'
  BY Zenon, <1>0 DEF Opening, Opened
<1>6. ASSUME k \notin doubled
      PROVE  Flags(k)' /\ Held(k)'
  <2>1. Flags(k) /\ Held(k)
    BY Zenon, <1>0, <1>6 DEF KeyInv
  <2> QED
    BY Zenon, <1>0, <1>o, <2>1 DEF Flags, Held, Exists
<1>7. ASSUME k \notin doubled
      PROVE  Written(k)'
  <2>1. Written(k) /\ Held(k)
    BY Zenon, <1>0, <1>7 DEF KeyInv
  <2> QED
    BY Zenon, <1>0, <1>o, <2>1 DEF Written, Held, Opened
<1> QED
  BY Zenon, <1>0, <1>4, <1>5, <1>6, <1>7 DEF KeyInv

LEMMA WriteOpenKey ==
    ASSUME Typed, NEW k \in Keys, KeyInv(k), WriteOpen, job.at = k
    PROVE  KeyInv(k)'
<1>t. KeyTyped(k)
  BY Zenon, KeyTypes
<1>0. /\ live /\ Doing(k) = "OpenFrame" /\ Doing(k)' = "none"
      /\ UNCHANGED <<att, lastGen, finished, entry, elder, fate, routed, doubled, live, slots>>
      /\ slotCh' = Append(slotCh, [at |-> k, gen |-> job.gen])
  BY Zenon DEF WriteOpen, Done, Doing, SessionKinds, callers, state, remote
<1>s. Seen(k) /\ Unopened(k) /\ stream[k] = 0
  BY Zenon, <1>0 DEF KeyInv, Seen
<1>1. PICK m \in 1..lastGen[k] : m = job.gen
  BY Zenon, <1>0, <1>s DEF Seen
<1>2. m \in Gens /\ m \in 0..MaxGen /\ m # 0 /\ 0 \notin Gens
  BY ONLY <1>t, <1>1, Naturals0 DEF Gens, KeyTyped
<1>3. stream'[k] = m
  BY Zenon, <1>1 DEF WriteOpen, Typed, TypeOK, LoopOK
<1>c. \A g \in Gens : Carried(k, g)' <=> Carried(k, g)
  <2>1. "none" # "OpenFrame"
    BY Zenon
  <2> QED
    BY Zenon, <1>0, <1>1, <1>2, <1>3, <1>s, <2>1 DEF Carried
<1>4. Seen(k)'
  <2>1. Doing(k)' # "OpenFrame"
    BY Zenon, <1>0
  <2> QED
    BY Zenon, <1>0, <1>c, <1>s, <2>1 DEF Seen
<1>5. Unopened(k)'
  <2>1. Doing(k)' # "Open"
    BY Zenon, <1>0
  <2> QED
    BY Zenon, <1>0, <1>s, <2>1 DEF Unopened, Exists
<1>o. Opening(k) /\ ~Opening(k)'
  BY Zenon, <1>0 DEF Opening
<1>6. ASSUME k \notin doubled
      PROVE  Flags(k)' /\ Held(k)'
  <2>1. Flags(k) /\ Held(k)
    BY Zenon, <1>0, <1>6 DEF KeyInv
  <2>2. Flags(k)'
    BY Zenon, <1>0, <2>1 DEF Flags, Exists
  <2>3. Held(k)'
    BY Zenon, <1>0, <1>1, <1>3, <1>o, <2>1 DEF Held
  <2> QED
    BY Zenon, <2>2, <2>3
<1>7. Settles(k, m)'
  BY Zenon, <1>0, <1>1, <1>2, SettlesAppend
<1>8. ASSUME k \notin doubled
      PROVE  Written(k)'
  <2>1. /\ entry[k].open /\ (entry[k].pending = 0 => m = lastGen[k])
        /\ att[k] # 0 /\ att[k] \in finished[k] => entry[k].closeStream
    BY Zenon, <1>0, <1>1, <1>8, <1>o DEF KeyInv, Held, Written, Opened
  <2>2. fate[k][m] = "open"
    BY Zenon, <1>0, <1>1, <1>2, <1>s DEF Seen, Carried
  <2>3. Opened(k)' => m = lastGen'[k]
    BY Zenon, <1>0, <2>1 DEF Opened
  <2> QED
    BY Zenon, <1>0, <1>2, <1>7, <2>1, <2>2, <2>3 DEF Written
<1> QED
  BY Zenon, <1>0, <1>4, <1>5, <1>6, <1>8 DEF KeyInv

LEMMA OpenFailsKey ==
    ASSUME Typed, NEW k \in Keys, KeyInv(k), OpenFails, job.at = k
    PROVE  KeyInv(k)'
<1>t. KeyTyped(k)
  BY Zenon, KeyTypes
<1>0. /\ ~live' /\ Doing(k) = "OpenFrame" /\ Doing(k)' = "none"
      /\ UNCHANGED <<att, lastGen, finished, routed, doubled, stream>>
  BY Zenon DEF OpenFails, Done, Doing, SessionKinds, callers
<1>s. Seen(k) /\ stream[k] = 0
  BY Zenon, <1>0 DEF KeyInv, Seen
<1>1. PICK m \in 1..lastGen[k] : m = job.gen
  BY Zenon, <1>0, <1>s DEF Seen
<1>2. m \in Gens /\ m <= lastGen[k] /\ 0 \notin Gens
  BY ONLY <1>t, <1>1, Naturals0 DEF Gens, KeyTyped
<1>3. /\ fate'[k][m] = "cancelled"
      /\ \A g \in Gens : g # m => fate'[k][g] = fate[k][g]
  BY Zenon, <1>1, <1>2 DEF OpenFails, Mark, Typed, TypeOK, RemoteOK
<1>c. \A g \in Gens : /\ Carried(k, g) <=> m = g
                      /\ ~Carried(k, g)'
  <2>1. "none" # "OpenFrame"
    BY Zenon
  <2> QED
    BY Zenon, <1>0, <1>1, <1>2, <1>s, <2>1 DEF Carried
<1>4. ASSUME NEW g \in Gens
      PROVE  /\ fate'[k][g] # "none" => g <= lastGen[k]
             /\ fate'[k][g] # "open"
             /\ fate'[k][g] = "Reconstructed" => fate[k][g] = "Reconstructed"
  <2>1. CASE g = m
    BY Zenon, <1>2, <1>3, <2>1
  <2>2. CASE g # m
    BY Zenon, <1>3, <1>c, <1>s, <2>2 DEF Seen
  <2> QED
    BY Zenon, <2>1, <2>2
<1>5. Seen(k)'
  <2>1. Doing(k)' # "OpenFrame"
    BY Zenon, <1>0
  <2> QED
    BY Zenon, <1>0, <1>4, <1>c, <1>s, <2>1 DEF Seen
<1> QED
  BY Zenon, <1>0, <1>5 DEF KeyInv

LEMMA WriteCloseSessionKey ==
    ASSUME Typed, NEW k \in Keys, KeyInv(k), WriteCloseSession, job.at = k
    PROVE  KeyInv(k)'
<1>t. KeyTyped(k)
  BY KeyTypes
<1> USE Naturals0, <1>t DEF KeyTyped
<1>0. /\ live /\ Doing(k) = "CloseSession" /\ Doing(k)' = "none"
      /\ UNCHANGED <<att, lastGen, finished, entry, elder, routed, doubled, live, slots>>
      /\ slotCh' = Append(slotCh, [at |-> k, gen |-> 0])
      /\ stream' = [stream EXCEPT ![k] = 0]
      /\ IF stream[k] # 0 THEN Mark(k, stream[k], "fin") ELSE UNCHANGED fate
  BY Zenon DEF WriteCloseSession, DropSlot, Done, Doing, SessionKinds, callers, state
<1>1. /\ Seen(k)' /\ stream'[k] = 0
      /\ \A g \in Gens : fate[k][g] = "none" => fate'[k][g] = "none"
  <2>0. Doing(k) # "OpenFrame" /\ Doing(k)' # "OpenFrame"
    BY Zenon, <1>0
  <2>1. CASE stream[k] # 0
    <3>1. Mark(k, stream[k], "fin") /\ "fin" \in {"fin", "Reconstructed", "cancelled"}
          /\ "fin" # "Reconstructed"
      BY Zenon, <1>0, <2>1
    <3>2. UNCHANGED <<att, lastGen, finished, routed, doubled>>
      BY Zenon, <1>0
    <3> HIDE <1>t
    <3> QED
      BY ZenonT(40), <1>0, <2>0, <2>1, <3>1, <3>2, LostStream
  <2>2. CASE stream[k] = 0
    <3>1. stream' = stream /\ UNCHANGED fate
      BY <1>0, <2>2 DEF Typed, TypeOK, LoopOK
    <3>2. Seen(k) /\ finished[k] \subseteq 1..lastGen[k]
      BY Zenon DEF KeyInv, Seen
    <3> QED
      BY Zenon, <1>0, <2>0, <2>2, <3>1, <3>2, SeenSame
  <2> QED
    BY <2>1, <2>2
<1>2. Unopened(k)'
  BY Zenon, <1>0, <1>1 DEF KeyInv, Unopened, Exists
<1>3. ASSUME k \notin doubled
      PROVE  Flags(k)' /\ Held(k)'
  BY Zenon, <1>0, <1>1, <1>3 DEF KeyInv, Flags, Held, Opening, Exists
<1>4. Settles(k, 0)'
  BY Zenon, <1>0, SettlesAppend
<1>5. ASSUME k \notin doubled
      PROVE  Written(k)'
  BY Zenon, <1>0, <1>4, <1>5 DEF KeyInv, Held, Written, Opened, Opening
<1> QED
  BY Zenon, <1>0, <1>1, <1>2, <1>3, <1>5 DEF KeyInv

\* The stream of the last generation is lost by a reset or a failed write, and
\* its slot stays.
LEMMA LostKey ==
    ASSUME Typed, NEW k \in Keys, KeyInv(k), live, NEW f \in {"Reconstructed", "cancelled"},
           Doing(k) = IF f = "cancelled" THEN "Routing" ELSE "CloseStream", Doing(k)' = "none",
           stream[k] # 0, Mark(k, stream[k], f), stream' = [stream EXCEPT ![k] = 0],
           UNCHANGED <<att, lastGen, finished, entry, elder, slotCh, slots, routed, doubled, live>>
    PROVE  KeyInv(k)'
<1>t. KeyTyped(k)
  BY KeyTypes
<1> USE Naturals0, <1>t DEF KeyTyped
<1>0. f = "Reconstructed" /\ k \notin doubled => stream[k] \in finished[k]
  BY Zenon DEF KeyInv, Held, Opening
<1>1. /\ Seen(k)' /\ stream'[k] = 0
      /\ \A g \in Gens : /\ fate[k][g] = "none" => fate'[k][g] = "none"
                         /\ fate'[k][g] \in {fate[k][g], f}
                         /\ fate'[k][g] # "open"
  <2>1. f \in {"fin", "Reconstructed", "cancelled"} /\ Doing(k)' # "OpenFrame"
    OBVIOUS
  <2> QED
    BY ONLY Typed, k \in Keys, KeyInv(k), stream[k] # 0, Mark(k, stream[k], f),
       stream' = [stream EXCEPT ![k] = 0],
       UNCHANGED <<att, lastGen, finished, routed, doubled>>, <1>0, <2>1, LostStream
<1>2. Unopened(k)'
  BY <1>1 DEF KeyInv, Unopened, Exists
<1>3. ASSUME k \notin doubled
      PROVE  Flags(k)' /\ Held(k)'
  BY Zenon, <1>1, <1>3 DEF KeyInv, Flags, Held, Opening, Exists
<1>4. ASSUME k \notin doubled
      PROVE  Written(k)'
  <2>1. Opened(k)' <=> Opened(k)
    BY Zenon DEF Opened, Opening
  <2>2. Opened(k) => /\ lastGen[k] \in Gens
                     /\ fate'[k][lastGen[k]] \in {"open", "cancelled", "Reconstructed"}
    BY ZenonT(40), <1>1, <1>4 DEF KeyInv, Written
  <2>3. att[k] # 0 => att[k] \in Gens
    BY DEF KeyInv, Seen, Gens
  <2> QED
    BY Zenon, <1>1, <1>4, <2>1, <2>2, <2>3, SettlesSame DEF KeyInv, Written
<1> QED
  BY Zenon, <1>1, <1>2, <1>3, <1>4 DEF KeyInv

\* A frame that had no stream to go to, or a routing update that was written.
LEMMA NothingLostKey ==
    ASSUME Typed, NEW k \in Keys, KeyInv(k), live, Doing(k) \in {"Routing", "CloseStream"},
           Doing(k)' = "none", UNCHANGED <<fate, stream>>, Doing(k) = "CloseStream" => stream[k] = 0,
           k \in routed' => k \in routed \/ (stream[k] \notin {0, job.gen} /\ Doing(k) = "Routing"),
           UNCHANGED <<att, lastGen, finished, entry, elder, slotCh, slots, doubled, live>>
    PROVE  KeyInv(k)'
<1>t. KeyTyped(k)
  BY Zenon, KeyTypes
<1> USE Naturals0, <1>t DEF KeyTyped
<1>0. k \notin doubled => k \notin routed'
  BY Zenon DEF KeyInv, Held, Opening, Seen
<1>1. Seen(k)'
  <2>1. Seen(k) /\ finished[k] \subseteq 1..lastGen[k]
    BY Zenon DEF KeyInv, Seen
  <2>2. Doing(k) # "OpenFrame" /\ Doing(k)' # "OpenFrame"
    BY Zenon
  <2> QED
    BY Zenon, <1>0, <2>1, <2>2, SeenSame
<1>2. Unopened(k)'
  BY Zenon DEF KeyInv, Unopened, Exists
<1>3. ASSUME k \notin doubled
      PROVE  Flags(k)' /\ Held(k)'
  BY Zenon, <1>3 DEF KeyInv, Flags, Held, Opening, Exists
<1>4. ASSUME k \notin doubled
      PROVE  Written(k)'
  <2>1. Opened(k)' <=> Opened(k)
    BY Zenon DEF Opened, Opening
  <2>2. att[k] # 0 /\ Doing(k) = "CloseStream" => fate[k][att[k]] # "open"
    <3>1. att[k] # 0 => att[k] \in Gens
      BY DEF KeyInv, Seen, Gens
    <3>2. Doing(k) = "CloseStream" => \A g \in Gens : g # 0 => ~Carried(k, g)
      BY Zenon DEF Carried
    <3> QED
      BY Zenon, <3>1, <3>2 DEF KeyInv, Seen
  <2> QED
    BY Zenon, <1>4, <2>1, <2>2, SettlesSame DEF KeyInv, Written
<1> QED
  BY Zenon, <1>1, <1>2, <1>3, <1>4 DEF KeyInv

LEMMA WriteKeys ==
    ASSUME Typed, \A k \in Keys : KeyInv(k), Write
    PROVE  \A k \in Keys : KeyInv(k)'
<1> SUFFICES ASSUME NEW k \in Keys
             PROVE  KeyInv(k)'
  OBVIOUS
<1>1. CASE job.kind \in SessionKinds => job.at # k
  BY <1>1, WriteOther
<1>2. CASE job.kind \in SessionKinds /\ job.at = k
  <2>0. pc = "write" /\ UNCHANGED <<callers, state, doubled>>
    BY Zenon DEF Write, WriteChannel, WriteOpenReplace, OpenStream, WriteOpen, OpenFails, WriteCloseSession, WriteCloseStream,
         WriteRouting, RoutingFails, WriteFails, callers, state
  <2>1. CASE WriteChannel
    BY <1>2, <2>1 DEF WriteChannel, SessionKinds
  <2>2. CASE WriteOpenReplace
    BY <1>2, <2>2, WriteOpenReplaceKey
  <2>3. CASE WriteOpen
    BY <1>2, <2>3, WriteOpenKey
  <2>9. CASE OpenStream
    BY Zenon, <1>2, <2>9, OpenStreamKey
  <2>10. CASE OpenFails
    BY Zenon, <1>2, <2>10, OpenFailsKey
  <2>4. CASE WriteCloseSession
    BY <1>2, <2>4, WriteCloseSessionKey
  <2>5. CASE WriteCloseStream
    <3>1. /\ Doing(k) = "CloseStream" /\ Doing(k)' = "none" /\ live
          /\ UNCHANGED <<att, lastGen, finished, entry, elder, slotCh, slots, routed, doubled, live>>
      BY <1>2, <2>0, <2>5 DEF WriteCloseStream, Done, Doing, callers, state
    <3>2. CASE stream[k] # 0
      BY Zenon, <1>2, <2>0, <2>5, <3>1, <3>2, LostKey DEF WriteCloseStream
    <3>3. CASE stream[k] = 0
      <4>1. UNCHANGED <<fate, stream>>
        BY <1>2, <2>5, <3>3 DEF WriteCloseStream, Typed, TypeOK, LoopOK
      <4>2. Doing(k) \in {"Routing", "CloseStream"} /\ (k \in routed' => k \in routed)
        BY <3>1
      <4> QED
        BY <2>0, <3>1, <3>3, <4>1, <4>2, NothingLostKey
    <3> QED
      BY Zenon, <3>2, <3>3
  <2>6. CASE WriteRouting
    <3>1. /\ Doing(k) = "Routing" /\ Doing(k)' = "none" /\ live
          /\ UNCHANGED <<att, lastGen, finished, entry, elder, slotCh, slots, stream, fate, doubled, live>>
      BY <1>2, <2>0, <2>6 DEF WriteRouting, Done, Doing, callers, state
    <3>2. k \in routed' => k \in routed \/ stream[k] \notin {0, job.gen}
      BY <1>2, <2>6 DEF WriteRouting
    <3> QED
      BY <2>0, <3>1, <3>2, NothingLostKey
  <2>7. CASE RoutingFails
    <3>1. /\ Doing(k) = "Routing" /\ Doing(k)' = "none" /\ live
          /\ UNCHANGED <<att, lastGen, finished, entry, elder, slotCh, slots, routed, doubled, live>>
      BY <1>2, <2>0, <2>7 DEF RoutingFails, Done, Doing, callers, state
    <3> QED
      BY Zenon, <1>2, <2>0, <2>7, <3>1, LostKey DEF RoutingFails
  <2>8. CASE WriteFails
    <3>1. /\ ~live' /\ UNCHANGED <<att, lastGen, finished, fate, stream, routed, doubled>>
          /\ Doing(k) # "OpenFrame" /\ Doing(k)' # "OpenFrame"
      BY <1>2, <2>8 DEF WriteFails, Done, Doing, callers, remote
    <3>2. Seen(k)'
      <4>1. Seen(k) /\ finished[k] \subseteq 1..lastGen[k]
        BY Zenon DEF KeyInv, Seen
      <4> QED
        BY Zenon, <3>1, <4>1, SeenSame
    <3> QED
      BY <3>1, <3>2 DEF KeyInv
  <2> QED
    BY Zenon, <2>1, <2>2, <2>3, <2>4, <2>5, <2>6, <2>7, <2>8, <2>9, <2>10 DEF Write
<1> QED
  BY <1>1, <1>2

LEMMA EndKeys ==
    ASSUME Typed, \A k \in Keys : KeyInv(k), ApplySlot \/ Cancel \/ CloseState \/ Exit \/ UNCHANGED vars
    PROVE  \A k \in Keys : KeyInv(k)'
<1> SUFFICES ASSUME NEW k \in Keys
             PROVE  KeyInv(k)'
  OBVIOUS
<1>1. CASE ApplySlot
  <2>1. Steady(k)
    <3>1. \A g : Settles(k, g) => Settles(k, g)'
      BY <1>1, SettlesApply
    <3> QED
      BY <1>1, <3>1 DEF ApplySlot, Steady, Doing, Exists, callers, state, remote
  <2> QED
    BY Zenon, <2>1, KeySteady
<1>2. CASE Cancel \/ UNCHANGED vars
  <2>0. UNCHANGED <<callers, state, loop, remote, doubled>> /\ (live' => live)
    BY <1>2 DEF Cancel, vars
  <2>1. Steady(k)
    BY <2>0, SettlesSame DEF Steady, Doing, Exists, callers, state, loop, remote
  <2> QED
    BY <2>1, KeySteady
<1>3. CASE CloseState
  <2>1. /\ ~live' /\ UNCHANGED <<att, lastGen, finished, fate, stream, routed, doubled, job>>
        /\ Doing(k)' = Doing(k)
    BY Zenon, <1>3 DEF CloseState, Doing, callers, loop, remote
  <2>2. Seen(k)'
    <3>1. Seen(k) /\ finished[k] \subseteq 1..lastGen[k]
      BY Zenon DEF KeyInv, Seen
    <3> QED
      BY Zenon, <2>1, <3>1, SeenSame
  <2> QED
    BY <2>1, <2>2 DEF KeyInv
<1>4. CASE Exit
  <2>1. ~live' /\ UNCHANGED <<att, lastGen, finished, routed, doubled>> /\ stream'[k] = 0
    BY <1>4 DEF Exit, callers
  <2>2. \A g \in Gens : fate'[k][g] = IF stream[k] = g THEN "cancelled" ELSE fate[k][g]
    BY Zenon, <1>4 DEF Exit, CancelOpen
  <2>3. Doing(k) # "OpenFrame" /\ Doing(k)' # "OpenFrame" /\ 0 \notin Gens
    <3>1. job.kind # "OpenFrame" /\ pc' = "exit" /\ "exit" # "write" /\ "none" # "OpenFrame"
      BY Zenon, <1>4 DEF Exit
    <3>2. 0 \notin Gens
      BY DEF Gens
    <3> QED
      BY Zenon, <3>1, <3>2 DEF Doing
  <2>4. \A g \in Gens : /\ Carried(k, g) <=> stream[k] = g
                        /\ ~Carried(k, g)'
    BY Zenon, <2>1, <2>3 DEF Carried
  <2>s. Seen(k)
    BY Zenon DEF KeyInv
  <2>5. ASSUME NEW g \in Gens
        PROVE  /\ fate'[k][g] # "none" => g <= lastGen[k]
               /\ fate'[k][g] # "open"
               /\ fate'[k][g] = "Reconstructed" => fate[k][g] = "Reconstructed"
    <3>1. CASE stream[k] = g
      <4>1. fate[k][g] = "open" /\ fate'[k][g] = "cancelled"
        BY Zenon, <2>2, <2>4, <2>s, <3>1 DEF Seen
      <4> QED
        BY Zenon, <2>s, <4>1 DEF Seen
    <3>2. CASE stream[k] # g
      BY Zenon, <2>2, <2>4, <2>s, <3>2 DEF Seen
    <3> QED
      BY Zenon, <3>1, <3>2
  <2>6. Seen(k)'
    BY Zenon, <2>1, <2>3, <2>4, <2>5, <2>s DEF Seen
  <2> QED
    BY Zenon, <2>1, <2>6 DEF KeyInv
<1> QED
  BY <1>1, <1>2, <1>3, <1>4

LEMMA KeysStep ==
    ASSUME Typed, \A k \in Keys : KeyInv(k), [Next]_vars
    PROVE  \A k \in Keys : KeyInv(k)'
BY EngineKeys, SessionsKeys, TakeKeys, WriteKeys, EndKeys DEF Next

-----------------------------------------------------------------------------
(* Channels. *)

LEMMA ChannelSteady ==
    ASSUME NEW c \in Channels, ChannelInv(c), Telling(c)' = Telling(c), Telling(c) # "none" => job' = job,
           UNCHANGED <<want, present, announced, retire, subs, epoch, seen>>
    PROVE  ChannelInv(c)'
BY DEF ChannelInv

LEMMA EngineChannels ==
    ASSUME Typed, NEW c \in Channels, live /\ pc # "hello" => ChannelInv(c), Engine, live', pc' # "hello"
    PROVE  ChannelInv(c)'
<1>1. CASE Handshake
  <2>1. Telling(c)' = "none" /\ epoch'[c] = seen'[c]
    BY Zenon, <1>1 DEF Handshake, Telling, Typed, remote
  <2>2. want' = present' /\ announced' = subs'
    BY Zenon, <1>1 DEF Handshake, remote
  <2> QED
    BY Zenon, <2>1, <2>2 DEF ChannelInv
<1>2. ASSUME NEW d \in Channels, AddChannel(d)
      PROVE  ChannelInv(c)'
  <2>1. /\ ChannelInv(c) /\ ~closed /\ pc # "hello" /\ Telling(c)' = Telling(c)
        /\ UNCHANGED <<job, announced, subs, seen>>
    BY <1>2 DEF AddChannel, loop, remote, Typed, Telling
  <2>2. CASE c # d
    <3>1. (c \in want' <=> c \in want) /\ (c \in present' <=> c \in present) /\ epoch'[c] = epoch[c]
      BY <1>2, <2>1, <2>2 DEF AddChannel, Typed, TypeOK, CallersOK
    <3>2. c \in retire' <=> c \in retire
      BY <1>2, <2>1, <2>2 DEF AddChannel, Retire
    <3> QED
      BY Zenon, <2>1, <3>1, <3>2 DEF ChannelInv
  <2>3. CASE c = d
    <3>1. c \notin present /\ c \notin want /\ c \in present' /\ c \in want'
      BY <1>2, <2>1, <2>3 DEF AddChannel, ChannelInv
    <3>2. c \in announced => c \in retire'
      BY <1>2, <2>1, <2>3, <3>1 DEF AddChannel, Retire
    <3> QED
      BY Zenon, <2>1, <3>1, <3>2 DEF ChannelInv
  <2> QED
    BY <2>2, <2>3
<1>3. ASSUME NEW d \in Channels, RemoveChannel(d)
      PROVE  ChannelInv(c)'
  <2>1. /\ ChannelInv(c) /\ ~closed /\ pc # "hello" /\ Telling(c)' = Telling(c)
        /\ UNCHANGED <<job, announced, retire, epoch, subs, seen>>
    BY <1>3 DEF RemoveChannel, loop, remote, Typed, Telling
  <2>2. want' = want \ {d} /\ present' = present \ {d}
    BY <1>3, <2>1 DEF RemoveChannel
  <2> QED
    BY <2>1, <2>2 DEF ChannelInv
<1> QED
  BY Zenon, <1>1, <1>2, <1>3 DEF Engine

LEMMA TakeChannels ==
    ASSUME Typed, NEW c \in Channels, ChannelInv(c), Take1
    PROVE  ChannelInv(c)'
<1>0. Telling(c) = "none" /\ UNCHANGED <<present, epoch, subs, seen, want>>
  BY Zenon DEF Take1, NextClose, NextOpen, NextCloseStream, NextRouting, NextUnsubscribe, NextSubscribe,
         NextNone, Wake, Turn, Take, Telling, callers, remote
<1>1. CASE \E k \in Keys : NextClose(k) \/ NextOpen(k) \/ NextCloseStream(k) \/ NextRouting(k)
  <2>1. Telling(c)' = "none" /\ UNCHANGED <<announced, retire>>
    BY <1>1 DEF NextClose, NextOpen, NextCloseStream, NextRouting, Take, Telling, ChannelKinds
  <2> QED
    BY <1>0, <2>1, ChannelSteady
<1>2. CASE NextNone \/ Wake
  <2>1. Telling(c)' = "none" /\ UNCHANGED <<announced, retire>>
    BY Zenon, <1>2 DEF NextNone, Wake, Telling
  <2> QED
    BY <1>0, <2>1, ChannelSteady
<1>3. ASSUME NEW d \in Channels, NextUnsubscribe(d)
      PROVE  ChannelInv(c)'
  <2>1. d \in announced /\ announced' = announced \ {d} /\ retire' = retire \ {d}
    BY <1>3 DEF NextUnsubscribe, UnsubscribeWanted, Typed, TypeOK, StateOK
  <2>2. Telling(c)' = IF c = d THEN "Unsubscribe" ELSE "none"
    BY Zenon, <1>3 DEF NextUnsubscribe, Take, Telling, ChannelKinds
  <2> QED
    BY <1>0, <2>1, <2>2 DEF ChannelInv
<1>4. ASSUME NEW d \in Channels, NextSubscribe(d)
      PROVE  ChannelInv(c)'
  <2>1. d \notin announced /\ announced' = announced \union {d} /\ retire' = retire /\ job'.gen = epoch[d]
    BY <1>4 DEF NextSubscribe, SubscribeWanted, Take
  <2>2. Telling(c)' = IF c = d THEN "Subscribe" ELSE "none"
    BY <1>4 DEF NextSubscribe, Take, Telling, ChannelKinds
  <2> QED
    BY Zenon, <1>0, <2>1, <2>2 DEF ChannelInv
<1> QED
  BY <1>1, <1>2, <1>3, <1>4 DEF Take1

LEMMA WriteChannels ==
    ASSUME Typed, NEW c \in Channels, ChannelInv(c), Write, live'
    PROVE  ChannelInv(c)'
<1>0. UNCHANGED <<present, epoch, want, announced, retire>> /\ pc = "write"
  BY Zenon DEF Write, WriteChannel, WriteOpenReplace, OpenStream, WriteOpen, OpenFails, WriteCloseSession, WriteCloseStream,
         WriteRouting, RoutingFails, WriteFails, callers, state
<1>1. CASE WriteChannel
  <2>1. Telling(c)' = "none" /\ job.kind \in ChannelKinds
    BY <1>1 DEF WriteChannel, Done, Telling, ChannelKinds
  <2>2. job.at \in Channels
    BY <2>1, JobTypes
  <2>3. CASE job.at # c
    <3>1. Telling(c) = "none" /\ (c \in subs' <=> c \in subs) /\ seen'[c] = seen[c]
      BY <1>1, <2>2, <2>3 DEF WriteChannel, Telling, Typed, TypeOK, RemoteOK
    <3> QED
      BY Zenon, <1>0, <2>1, <3>1 DEF ChannelInv
  <2>4. CASE job.at = c
    <3>1. Telling(c) = job.kind
      BY Zenon, <1>0, <2>1, <2>4 DEF Telling
    <3>2. CASE job.kind = "Subscribe"
      <4>1. c \in subs' /\ seen'[c] = job.gen
        BY Zenon, <1>1, <2>2, <2>4, <3>2 DEF WriteChannel, Typed, TypeOK, RemoteOK
      <4> QED
        BY <1>0, <2>1, <3>1, <3>2, <4>1 DEF ChannelInv
    <3>3. CASE job.kind = "Unsubscribe"
      <4>1. c \notin subs'
        BY <1>1, <2>4, <3>3 DEF WriteChannel
      <4> QED
        BY <1>0, <2>1, <3>1, <3>3, <4>1 DEF ChannelInv
    <3> QED
      BY <2>1, <3>2, <3>3 DEF ChannelKinds
  <2> QED
    BY <2>3, <2>4
<1>2. CASE \/ WriteOpenReplace \/ OpenStream \/ WriteOpen \/ WriteCloseSession
           \/ WriteCloseStream \/ WriteRouting \/ RoutingFails
  <2>1. /\ Telling(c) = "none" /\ UNCHANGED <<subs, seen>>
        /\ job' = job \/ pc' = "loop" \/ job'.kind = "OpenFrame"
    <3>1. CASE OpenStream
      <4>1. job'.kind = "OpenFrame"
        BY Zenon, <3>1, OpenedJob
      <4> QED
        BY Zenon, <3>1, <4>1 DEF OpenStream, Telling, ChannelKinds
    <3>2. CASE ~OpenStream
      BY Zenon, <1>2, <3>2 DEF WriteOpenReplace, WriteOpen, WriteCloseSession, WriteCloseStream,
         WriteRouting, RoutingFails, Telling, ChannelKinds, Done, remote
    <3> QED
      BY Zenon, <3>1, <3>2
  <2>2. Telling(c)' = "none"
    BY <1>0, <2>1 DEF Telling, ChannelKinds
  <2> QED
    BY <1>0, <2>1, <2>2, ChannelSteady
<1>3. CASE WriteFails \/ OpenFails
  BY Zenon, <1>3 DEF WriteFails, OpenFails
<1> QED
  BY <1>1, <1>2, <1>3 DEF Write

LEMMA ChannelsStep ==
    ASSUME Typed, live /\ pc # "hello" => \A c \in Channels : ChannelInv(c), [Next]_vars,
           live', pc' # "hello"
    PROVE  \A c \in Channels : ChannelInv(c)'
<1> SUFFICES ASSUME NEW c \in Channels
             PROVE  ChannelInv(c)'
  OBVIOUS
<1>1. CASE Engine
  BY <1>1, EngineChannels
<1>2. CASE Take1
  <2>1. live /\ pc # "hello"
    BY Zenon, <1>2 DEF Take1, NextClose, NextOpen, NextCloseStream, NextRouting, NextUnsubscribe, NextSubscribe,
         NextNone, Wake, Turn
  <2> QED
    BY <1>2, <2>1, TakeChannels
<1>6. CASE OpenFails
  BY Zenon, <1>6 DEF OpenFails
<1>3. CASE Write /\ ~OpenFails
  <2>1. live /\ pc # "hello"
    BY Zenon, <1>3 DEF Write, WriteChannel, WriteOpenReplace, OpenStream, WriteOpen, OpenFails, WriteCloseSession, WriteCloseStream,
         WriteRouting, RoutingFails, WriteFails
  <2> QED
    BY <1>3, <2>1, WriteChannels
<1>4. CASE Sessions \/ ApplySlot \/ UNCHANGED vars
  <2>1. UNCHANGED <<want, present, announced, retire, subs, epoch, seen, live, pc, job>>
    BY Zenon, <1>4 DEF Sessions, OpenSession, CloseSession, CloseSessionStream, SetRouting, ApplySlot, vars,
       callers, state, loop, remote
  <2>2. Telling(c)' = Telling(c)
    BY <2>1 DEF Telling
  <2> QED
    BY <2>1, <2>2, ChannelSteady
<1>5. CASE Cancel \/ CloseState \/ Exit
  BY Zenon, <1>5 DEF Cancel, CloseState, Exit
<1> QED
  BY Zenon, <1>1, <1>2, <1>3, <1>4, <1>5, <1>6 DEF Next

-----------------------------------------------------------------------------
(* Sleeping. *)

LEMMA SleepQuiet ==
    ASSUME Typed, NextNone
    PROVE  Quiet'
<1>0. /\ CloseWanted = {} /\ NoChannelWork /\ Kept(OpenWanted) = {}
      /\ Kept(CloseStreamWanted) = {} /\ Kept(RoutingWanted) = {}
  BY DEF NextNone, Typed
<1>1. announced' = want' /\ retire' = {}
  BY <1>0 DEF NextNone, NoChannelWork, UnsubscribeWanted, SubscribeWanted
<1>2. ASSUME NEW k \in Keys
      PROVE  /\ ~entry'[k].close /\ entry'[k].pending = 0
             /\ entry'[k].open => ~entry'[k].closeStream /\ entry'[k].routing = 0
  <2>1. CASE Skipped(k)
    BY Zenon, <2>1 DEF NextNone, Pruned, NoEntry
  <2>2. CASE ~Skipped(k)
    <3>1. entry'[k] = entry[k]
      BY <2>2 DEF NextNone, Pruned
    <3>2. ~entry[k].close
      BY <1>0, <2>2 DEF CloseWanted, Skipped
    <3> QED
      BY <1>0, <2>2, <3>1, <3>2 DEF Kept, OpenWanted, CloseStreamWanted, RoutingWanted
  <2> QED
    BY <2>1, <2>2
<1> QED
  BY <1>1, <1>2 DEF Quiet

LEMMA QuietStep ==
    ASSUME Typed, Asleep => Quiet, [Next]_vars, Asleep'
    PROVE  Quiet'
<1>1. CASE NextNone
  BY <1>1, SleepQuiet
<1>2. CASE ~NextNone
  <2>1. Asleep /\ UNCHANGED <<want, announced, retire, entry>>
    <3>1. CASE Engine
      BY Zenon, <3>1 DEF Asleep, Engine, Handshake, AddChannel, RemoveChannel, Signal, loop, Typed
    <3>2. CASE Sessions
      BY Zenon, <3>2 DEF Asleep, Sessions, OpenSession, CloseSession, CloseSessionStream, SetRouting, Signal,
         loop, Typed
    <3>3. CASE Take1
      BY <1>2, <3>3 DEF Asleep, Take1, NextClose, NextOpen, NextCloseStream, NextRouting,
         NextUnsubscribe, NextSubscribe, Wake, Take
    <3>4. CASE Write
      BY Zenon, <3>4 DEF Asleep, Write, WriteChannel, WriteOpenReplace, OpenStream, WriteOpen, OpenFails, WriteCloseSession,
         WriteCloseStream, WriteRouting, RoutingFails, WriteFails, Done
    <3>5. CASE ApplySlot \/ Cancel \/ CloseState \/ Exit \/ UNCHANGED vars
      <4>1. CASE ApplySlot \/ UNCHANGED vars
        <5>1. UNCHANGED <<want, announced, retire, entry, ready, live, pc>>
          BY <4>1, Zenon DEF ApplySlot, vars, state, loop
        <5> QED
          BY <5>1, Zenon DEF Asleep
      <4>2. CASE Cancel \/ CloseState \/ Exit
        BY Zenon, <4>2 DEF Asleep, Cancel, CloseState, Exit
      <4> QED
        BY <3>5, <4>1, <4>2
    <3> QED
      BY <3>1, <3>2, <3>3, <3>4, <3>5 DEF Next
  <2> QED
    BY <2>1 DEF Quiet
<1> QED
  BY <1>1, <1>2

-----------------------------------------------------------------------------
(* The theorems. *)

LEMMA CtrlInit ==
    ASSUME Init
    PROVE  CtrlInv
<1> USE Naturals0
<1>1. Typed
  <2>1. CallersOK /\ RemoteOK
    BY DEF Init, CallersOK, RemoteOK
  <2>2. StateOK
    BY Zenon, EntryMade DEF Init, StateOK, NoEntry, Entries
  <2>3. LoopOK
    <3>1. slotCh \in Seq([at : Keys, gen : 0..MaxGen]) /\ Len(slotCh) <= SlotUpdateCap
      BY DEF Init
    <3>2. job \in Jobs
      BY JobMade DEF Init
    <3> QED
      BY <3>1, <3>2 DEF Init, LoopOK
  <2> QED
    BY <2>1, <2>2, <2>3 DEF Init, Typed, TypeOK
<1>2. ASSUME NEW k \in Keys
      PROVE  KeyInv(k)
  <2>1. Doing(k) = "none" /\ Settles(k, 0)
    <3>1. pc = "hello" /\ slotCh = <<>> /\ slots[k] = 0
      BY Zenon DEF Init
    <3>2. \A i \in DOMAIN slotCh : FALSE
      BY <3>1
    <3> QED
      BY Zenon, <3>1, <3>2 DEF Doing, Settles
  <2>2. Seen(k)
    BY <2>1 DEF Init, Seen, Carried, Gens
  <2>3. Unopened(k)
    <3>1. entry[k] = NoEntry /\ lastGen[k] = 0 /\ NoEntry.pending = 0 /\ 0 <= 0
      BY DEF Init, NoEntry
    <3> QED
      BY Zenon, <2>1, <3>1 DEF Unopened
  <2>4. Flags(k) /\ Held(k) /\ Written(k)
    BY <2>1 DEF Init, Flags, Held, Written, Opened, Opening, NoEntry, Exists
  <2> QED
    BY Zenon, <2>2, <2>3, <2>4 DEF KeyInv
<1> QED
  BY <1>1, <1>2 DEF Init, CtrlInv, Asleep

LEMMA CtrlStep ==
    ASSUME CtrlInv, [Next]_vars
    PROVE  CtrlInv'
<1>1. Typed'
  BY TypedStep DEF CtrlInv
<1>2. \A k \in Keys : KeyInv(k)'
  BY KeysStep DEF CtrlInv
<1>3. ASSUME live', pc' # "hello"
      PROVE  \A c \in Channels : ChannelInv(c)'
  BY <1>3, ChannelsStep DEF CtrlInv
<1>4. Asleep' => Quiet'
  BY QuietStep DEF CtrlInv
<1> QED
  BY <1>1, <1>2, <1>3, <1>4 DEF CtrlInv

\* The inductive invariant holds in every reachable state, of any number of
\* channels, messages and generations and for any capacity of the slot updates'
\* channel (ctrl_out.go and peer_ctrl.go's control loop).
THEOREM CtrlInvariant == Spec => []CtrlInv
<1>1. Init => CtrlInv
  BY CtrlInit
<1>2. CtrlInv /\ [Next]_vars => CtrlInv'
  BY CtrlStep
<1> QED
  BY <1>1, <1>2, PTL DEF Spec

\* The variables of the control state, the control loop and the wire keep their
\* types (ctrl_out.go's ctrlOutState, peer_ctrl.go's runCtrlLoop).
THEOREM CtrlTypes == Spec => []TypeOK
<1>1. CtrlInv => TypeOK
  BY DEF CtrlInv, Typed
<1> QED
  BY <1>1, CtrlInvariant, PTL

\* Whenever the control loop sleeps, the peer knows exactly the engine's channels,
\* each announced since it was last added: no wake is lost, and once the handshake
\* is over no removal followed by an addition is swallowed (engine.go announce,
\* ctrl_out.go next).
THEOREM ChannelsSettledHolds == Spec => []ChannelsSettled
<1>1. CtrlInv => ChannelsSettled
  <2> SUFFICES ASSUME CtrlInv, Asleep
               PROVE  subs = present /\ \A c \in present : seen[c] = epoch[c]
    BY Zenon DEF ChannelsSettled
  <2>1. /\ announced = want /\ retire = {}
        /\ \A c \in Channels : ChannelInv(c) /\ Telling(c) = "none"
    BY DEF CtrlInv, Quiet, Asleep, Telling
  <2>2. subs \subseteq Channels /\ present \subseteq Channels
    BY DEF CtrlInv, Typed, TypeOK, CallersOK, RemoteOK
  <2>3. \A c \in Channels : c \in subs <=> c \in present
    BY <2>1 DEF ChannelInv
  <2>4. \A c \in present : seen[c] = epoch[c]
    BY Zenon, <2>1, <2>2 DEF ChannelInv
  <2> QED
    BY <2>2, <2>3, <2>4
<1> QED
  BY <1>1, CtrlInvariant, PTL

\* Whenever the control loop sleeps, every attached session has its SESS stream
\* and its chunk slot and every session that ended left nothing behind, keys
\* closed while one generation was open and the next unwritten excepted
\* (session.go handlePeerAttached, closeSession; peer_ctrl.go handleCtrl).
THEOREM SessionsSettledHolds == Spec => []SessionsSettled
<1>1. CtrlInv => SessionsSettled
  <2> SUFFICES ASSUME CtrlInv, Asleep, NEW k \in Keys \ doubled
               PROVE  /\ slotCh = <<>> => slots[k] = att[k]
                      /\ IF att[k] # 0
                         THEN fate[k][att[k]] \in
                                  {"cancelled", IF att[k] \in finished[k] THEN "Reconstructed"
                                                                          ELSE "open"}
                         ELSE ~Exists(k) /\ stream[k] = 0
    BY Zenon DEF SessionsSettled
  <2> USE Naturals0
  <2>1. /\ Doing(k) = "none" /\ live /\ Typed
        /\ ~entry[k].close /\ entry[k].pending = 0
        /\ entry[k].open => ~entry[k].closeStream
        /\ KeyInv(k)
    BY Zenon DEF CtrlInv, Quiet, Asleep, Doing
  <2>2. Flags(k) /\ Held(k) /\ Written(k) /\ Seen(k) /\ Unopened(k)
    BY Zenon, <2>1 DEF KeyInv
  <2>3. ASSUME slotCh = <<>>, NEW g, Settles(k, g)
        PROVE  slots[k] = g
    BY <2>3 DEF Settles
  <2>4. CASE att[k] # 0
    <3>1. entry[k].open /\ Opened(k) /\ att[k] = lastGen[k]
      BY Zenon, <2>1, <2>2, <2>4 DEF Flags, Opened, Opening, Seen
    <3>2. /\ att[k] \in Gens /\ Settles(k, att[k])
          /\ fate[k][att[k]] \in {"open", "cancelled", "Reconstructed"}
      BY Zenon, <2>2, <3>1 DEF Written
    <3>3. att[k] \in finished[k] => fate[k][att[k]] # "open"
      BY Zenon, <2>1, <2>2, <2>4, <3>1 DEF Written
    <3>4. att[k] \notin finished[k] => fate[k][att[k]] # "Reconstructed"
      BY Zenon, <2>2, <3>2 DEF Seen
    <3> QED
      BY <2>3, <2>4, <3>2, <3>3, <3>4
  <2>5. CASE att[k] = 0
    <3>1. ~Exists(k)
      BY Zenon, <2>1, <2>2, <2>5 DEF Flags
    <3>2. ~entry[k].open
      <4>1. entry[k] = NoEntry
        BY <2>2, <3>1, Zenon DEF Unopened
      <4> QED
        BY Zenon, <4>1, NoEntryFields
    <3>3. stream[k] = 0 /\ Settles(k, 0)
      BY Zenon, <2>1, <2>2, <3>2 DEF Held, Written
    <3> QED
      BY Zenon, <2>3, <2>5, <3>1, <3>3
  <2> QED
    BY Zenon, <2>4, <2>5
<1> QED
  BY <1>1, CtrlInvariant, PTL

\* The peer is never told a session reconstructed when it did not, nor given the
\* routing state of another generation (peer_ctrl.go handleSendRoutingUpdate and the
\* peerCloseStream case of handleCtrl).
THEOREM NoForeignFrameHolds == Spec => []NoForeignFrame
<1>1. CtrlInv => NoForeignFrame
  BY Zenon DEF CtrlInv, KeyInv, Seen, NoForeignFrame
<1> QED
  BY <1>1, CtrlInvariant, PTL

\* An open SESS stream is the one the loop holds for its key, or the one whose OPEN
\* it is writing (peer_ctrl.go handleSessionOpen closes the one it replaces).
THEOREM NoForgottenStreamHolds == Spec => []NoForgottenStream
<1>1. CtrlInv => NoForgottenStream
  BY Zenon DEF CtrlInv, KeyInv, Seen, Carried, Doing, HalfOpen, NoForgottenStream
<1> QED
  BY <1>1, CtrlInvariant, PTL

\* What the peer hears of a channel alternates, and the generations of a session
\* reach it in order, each at most once (ctrl_out.go next consumes a transition
\* before peer_ctrl.go writes it).
THEOREM WireOrderHolds == Spec => WireOrder
<1> DEFINE Step ==
       /\ subs' # subs => \E c \in Channels : subs' \in {subs \union {c}, subs \ {c}}
       /\ (job.kind \in {"Subscribe", "Unsubscribe"} /\ pc = "write" /\ pc' = "loop" /\ live')
              => subs' # subs
       /\ \A k \in Keys, g \in Gens :
             (fate'[k][g] = "open" /\ fate[k][g] # "open")
                 => \A x \in g..MaxGen : fate[k][x] = "none"
<1>1. CtrlInv /\ [Next]_vars => [Step]_vars
  <2> SUFFICES ASSUME CtrlInv, Next
               PROVE  Step
    OBVIOUS
  <2>0. Typed
    BY DEF CtrlInv
  <2>1. ASSUME WriteChannel
        PROVE  /\ subs' # subs
               /\ \E c \in Channels : subs' \in {subs \union {c}, subs \ {c}}
    <3>1. job.kind \in ChannelKinds /\ pc = "write" /\ live
      BY <2>1 DEF WriteChannel, ChannelKinds
    <3>2. job.at \in Channels
      BY <2>0, <3>1, JobTypes
    <3>3. ChannelInv(job.at) /\ Telling(job.at) = job.kind
      BY <3>1, <3>2 DEF CtrlInv, Telling
    <3>4. CASE job.kind = "Subscribe"
      <4>1. job.at \notin subs
        BY <3>3, <3>4 DEF ChannelInv
      <4>2. subs' = subs \union {job.at}
        BY <2>1, <3>4 DEF WriteChannel
      <4> QED
        BY Zenon, <3>2, <4>1, <4>2
    <3>5. CASE job.kind = "Unsubscribe"
      <4>1. job.at \in subs
        BY Zenon, <3>3, <3>5 DEF ChannelInv
      <4>2. subs' = subs \ {job.at}
        BY Zenon, <2>1, <3>5 DEF WriteChannel
      <4> QED
        BY Zenon, <3>2, <4>1, <4>2
    <3> QED
      BY Zenon, <3>1, <3>4, <3>5 DEF ChannelKinds
  <2>2. ASSUME ~WriteChannel
        PROVE  subs' = subs
    BY Zenon, <2>2 DEF Next, Engine, Handshake, AddChannel, RemoveChannel, Sessions, OpenSession, CloseSession,
       CloseSessionStream, SetRouting, Take1, NextClose, NextOpen, NextCloseStream, NextRouting,
       NextUnsubscribe, NextSubscribe, NextNone, Wake, Take, Write, WriteOpenReplace, OpenStream, WriteOpen, OpenFails,
       WriteCloseSession, WriteCloseStream, WriteRouting, RoutingFails, WriteFails, ApplySlot, Cancel,
       CloseState, Exit, remote
  <2>3. ASSUME job.kind \in {"Subscribe", "Unsubscribe"}, pc = "write", pc' = "loop", live'
        PROVE  WriteChannel
    <3>1. CASE Write
      BY Zenon, <2>3, <3>1 DEF Write, WriteOpenReplace, OpenStream, WriteOpen, OpenFails, WriteCloseSession, WriteCloseStream,
         WriteRouting, RoutingFails, WriteFails
    <3>2. CASE ~Write
      BY Zenon, <2>3, <3>2 DEF Next, Engine, Handshake, AddChannel, RemoveChannel, Sessions, OpenSession,
         CloseSession, CloseSessionStream, SetRouting, Take1, NextClose, NextOpen, NextCloseStream,
         NextRouting, NextUnsubscribe, NextSubscribe, NextNone, Wake, Turn, ApplySlot, Cancel,
         CloseState, Exit, loop
    <3> QED
      BY <3>1, <3>2
  <2>4. ASSUME NEW k \in Keys, NEW g \in Gens, fate'[k][g] = "open", fate[k][g] # "open",
               NEW x \in g..MaxGen
        PROVE  fate[k][x] = "none"
    <3>0. /\ KeyInv(k) /\ x \in Gens /\ x >= g
          /\ fate \in [Keys -> [Gens -> {"none", "open", "fin", "Reconstructed", "cancelled"}]]
      BY <2>0, Naturals0 DEF CtrlInv, Gens, Typed, TypeOK, RemoteOK
    <3>1. CASE OpenStream
      <4>1. pc = "write" /\ live /\ job.kind = "Open" /\ Mark(job.at, job.gen, "open")
        BY Zenon, <3>1 DEF OpenStream
      <4>2. k = job.at /\ g = job.gen
        BY <2>4, <3>0, <4>1 DEF Mark
      <4>3. Doing(k) = "Open"
        BY Zenon, <4>1, <4>2 DEF Doing, SessionKinds
      <4> QED
        BY Zenon, <3>0, <4>1, <4>2, <4>3 DEF KeyInv, Unopened
    <3>2. CASE Write /\ ~OpenStream
      <4>1. CASE WriteChannel \/ WriteOpen \/ WriteRouting \/ WriteFails
        BY Zenon, <2>4, <4>1 DEF WriteChannel, WriteOpen, WriteRouting, WriteFails, remote
      <4>2. \A h : h # "open" => ~Mark(job.at, stream[job.at], h)
        BY <2>4, <3>0 DEF Mark
      <4>3. CASE WriteOpenReplace \/ WriteCloseSession \/ WriteCloseStream \/ RoutingFails
        BY Zenon, <2>4, <4>2, <4>3 DEF WriteOpenReplace, RetirePrevious, WriteCloseSession,
           WriteCloseStream, RoutingFails
      <4>4. CASE OpenFails
        <5>1. Mark(job.at, job.gen, "cancelled")
          BY Zenon, <4>4 DEF OpenFails
        <5> QED
          BY <2>4, <3>0, <5>1 DEF Mark
      <4> QED
        BY Zenon, <3>2, <4>1, <4>3, <4>4 DEF Write
    <3>3. CASE Exit
      BY <2>4, <3>0, <3>3 DEF Exit, CancelOpen
    <3>4. CASE ~Write /\ ~Exit
      BY Zenon, <2>4, <3>4 DEF Next, Engine, Handshake, AddChannel, RemoveChannel, Sessions, OpenSession,
         CloseSession, CloseSessionStream, SetRouting, Take1, NextClose, NextOpen, NextCloseStream,
         NextRouting, NextUnsubscribe, NextSubscribe, NextNone, Wake, Take, ApplySlot, Cancel,
         CloseState, remote
    <3> QED
      BY Zenon, <3>1, <3>2, <3>3, <3>4
  <2> QED
    BY Zenon, <2>1, <2>2, <2>3, <2>4
<1> QED
  BY <1>1, CtrlInvariant, PTL DEF Spec, WireOrder

=============================================================================
