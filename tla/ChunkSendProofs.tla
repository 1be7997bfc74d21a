--------------------------- MODULE ChunkSendProofs ---------------------------
(* Proofs about ChunkSend for any number of peers and chunks: what the relay's  *)
(* forward budget bounds, that inventories stay fresh, and that every dispatch  *)
(* reaches its result.  drainPolls ends every handler that feeds the strategy,  *)
(* so each invariant is stated of the arguments of Drain and shown to survive   *)
(* it once.                                                                     *)
EXTENDS ChunkSendPath, FiniteSetTheorems

\* The peers that chunk c is in flight to.
Flying(P, c) == {p \in Peers : P[p].inflight[c] > 0}

\* Sends in flight are paid for: by the budget and by the allocations counted.
Paid(P, S) ==
    \A c \in Chunks :
        /\ ~S.origin => S.sent[c] + Cardinality(Flying(P, c))
                          <= ForwardMultiplier - 1 + Cardinality(Peers)
        /\ Cardinality(Flying(P, c)) <= S.times[c]

Fresh(P, S, T) ==
    ShouldEmitRouting(S) => \A p \in Peers : P[p].on /\ ~P[p].done => T[p] = S.have

\* The inductive invariant.
SendInv ==
    Typed(peer, strat) /\ Paid(peer, strat) /\ Fresh(peer, strat, told) /\ Queues

-----------------------------------------------------------------------------
(* Sets of peers, and what drainPolls adds. *)

LEMMA FlyingFinite ==
    ASSUME NEW P, NEW c
    PROVE  /\ IsFiniteSet(Flying(P, c))
           /\ Cardinality(Flying(P, c)) \in Nat
           /\ Cardinality(Peers) \in Nat
           /\ Cardinality(Flying(P, c)) <= Cardinality(Peers)
<1>1. IsFiniteSet(Peers)
  BY ChunkSendAssumption
<1>2. Flying(P, c) \in SUBSET Peers
  BY DEF Flying
<1> QED
  BY <1>1, <1>2, FS_Subset, FS_CardinalityType

LEMMA DrainTyped ==
    ASSUME NEW P, NEW S, NEW B, NEW T, Typed(P, S), Drain(P, S, B, T)
    PROVE  /\ Typed(peer', strat')
           /\ strat'.have = S.have /\ strat'.sent = S.sent /\ strat'.origin = S.origin
           /\ \A p \in Peers : peer'[p].on = P[p].on /\ peer'[p].done = P[p].done
<1>1. PICK f \in Picks(P, S) :
          LET kept == {p \in DOMAIN f : ~SlotFull(B[p])} IN
          /\ peer' = [p \in Peers |-> IF p \in kept
                THEN [P[p] EXCEPT !.inflight[f[p]] = @ + 1] ELSE P[p]]
          /\ strat' = [S EXCEPT
                !.dirty = @ /\ ~ShouldEmitRouting(S),
                !.times = [c \in Chunks |->
                    @[c] + Cardinality({p \in kept : f[p] = c})]]
  BY Zenon DEF Drain
<1> DEFINE kept == {p \in DOMAIN f : ~SlotFull(B[p])}
<1>2. \A c \in Chunks : Cardinality({p \in kept : f[p] = c}) \in Nat
  <2> TAKE c \in Chunks
  <2>1. {p \in kept : f[p] = c} \in SUBSET Peers
    BY PicksOffer
  <2> QED
    BY <2>1, ChunkSendAssumption, FS_Subset, FS_CardinalityType
<1>3. ASSUME NEW p \in Peers
      PROVE  peer'[p] \in PeerType /\ peer'[p].on = P[p].on /\ peer'[p].done = P[p].done
  <2>1. P[p] \in PeerType
    BY DEF Typed
  <2>2. CASE p \in kept
    <3>1. f[p] \in Chunks /\ P[p].inflight[f[p]] = 0
      BY <2>2, PicksOffer
    <3>2. peer'[p] = [P[p] EXCEPT !.inflight[f[p]] = @ + 1]
      BY <1>1, <2>2
    <3> QED
      BY <2>1, <3>1, <3>2 DEF PeerType
  <2>3. CASE p \notin kept
    BY <1>1, <2>1, <2>3
  <2> QED
    BY <2>2, <2>3
<1>4. peer' \in [Peers -> PeerType]
  BY <1>1, <1>3
<1>5. /\ strat' \in StratType
      /\ strat'.have = S.have /\ strat'.sent = S.sent /\ strat'.origin = S.origin
  <2> DEFINE plus == [c \in Chunks |-> S.times[c] + Cardinality({p \in kept : f[p] = c})]
  <2>1. strat' = [S EXCEPT !.dirty = @ /\ ~ShouldEmitRouting(S), !.times = plus]
    BY <1>1
  <2>2. plus \in [Chunks -> Int]
    BY <1>2 DEF Typed, StratType
  <2>3. (S.dirty /\ ~ShouldEmitRouting(S)) \in BOOLEAN
    OBVIOUS
  <2> HIDE DEF plus
  <2> QED
    BY Zenon, <2>1, <2>2, <2>3 DEF Typed, StratType
<1> QED
  BY <1>3, <1>4, <1>5 DEF Typed

\* A send is added to those in flight only while confirmed sends are within the
\* budget, and is counted as an allocation.
LEMMA DrainPaid ==
    ASSUME NEW P, NEW S, NEW B, NEW T, Typed(P, S), Paid(P, S), Drain(P, S, B, T)
    PROVE  Paid(peer', strat')
<1>1. PICK f \in Picks(P, S) :
          LET kept == {p \in DOMAIN f : ~SlotFull(B[p])} IN
          /\ peer' = [p \in Peers |-> IF p \in kept
                THEN [P[p] EXCEPT !.inflight[f[p]] = @ + 1] ELSE P[p]]
          /\ strat' = [S EXCEPT
                !.dirty = @ /\ ~ShouldEmitRouting(S),
                !.times = [c \in Chunks |->
                    @[c] + Cardinality({p \in kept : f[p] = c})]]
  BY Zenon DEF Drain
<1> DEFINE kept == {p \in DOMAIN f : ~SlotFull(B[p])}
           added(c) == {p \in kept : f[p] = c}
<1> SUFFICES ASSUME NEW c \in Chunks
             PROVE  /\ ~strat'.origin => strat'.sent[c] + Cardinality(Flying(peer', c))
                          <= ForwardMultiplier - 1 + Cardinality(Peers)
                    /\ Cardinality(Flying(peer', c)) <= strat'.times[c]
  BY DEF Paid
<1>2. strat'.sent = S.sent /\ strat'.origin = S.origin
  BY DrainTyped
<1>3. strat'.times[c] = S.times[c] + Cardinality(added(c))
  BY <1>1 DEF Typed, StratType
<1>4. Flying(peer', c) = Flying(P, c) \union added(c)
  <2>1. ASSUME NEW p \in Peers
        PROVE  peer'[p].inflight[c] > 0 <=> P[p].inflight[c] > 0 \/ p \in added(c)
    <3>1. P[p] \in PeerType
      BY DEF Typed
    <3>2. CASE p \in kept
      <4>1. f[p] \in Chunks /\ P[p].inflight[f[p]] = 0
        BY <3>2, PicksOffer
      <4>2. peer'[p] = [P[p] EXCEPT !.inflight[f[p]] = @ + 1]
        BY <1>1, <3>2
      <4>3. peer'[p].inflight[c] = IF f[p] = c THEN 1 ELSE P[p].inflight[c]
        BY <3>1, <4>1, <4>2 DEF PeerType
      <4> QED
        BY <3>2, <4>3
    <3>3. CASE p \notin kept
      BY <1>1, <3>3
    <3> QED
      BY <3>2, <3>3
  <2>2. added(c) \subseteq Peers
    BY PicksOffer
  <2> QED
    BY <2>1, <2>2 DEF Flying
<1>5. Flying(P, c) \intersect added(c) = {}
  BY PicksOffer DEF Flying
<1>6. IsFiniteSet(added(c)) /\ Cardinality(added(c)) \in Nat
  <2>1. added(c) \in SUBSET Peers
    BY PicksOffer
  <2> QED
    BY <2>1, ChunkSendAssumption, FS_Subset, FS_CardinalityType
<1>7. Cardinality(Flying(peer', c)) = Cardinality(Flying(P, c)) + Cardinality(added(c))
  <2>1. IsFiniteSet(Flying(P, c)) /\ Cardinality(Flying(P, c)) \in Nat
    BY FlyingFinite
  <2> HIDE DEF added
  <2>2. Cardinality(Flying(P, c) \union added(c)) =
          Cardinality(Flying(P, c)) + Cardinality(added(c))
            - Cardinality(Flying(P, c) \intersect added(c))
    BY <1>6, <2>1, FS_Union
  <2>3. Cardinality(Flying(P, c) \intersect added(c)) = 0
    BY <1>5, FS_EmptySet
  <2> QED
    BY <1>4, <1>6, <2>1, <2>2, <2>3
<1>8. S.sent[c] \in Nat /\ S.times[c] \in Int /\ ForwardMultiplier \in Nat
  BY ChunkSendAssumption DEF Typed, StratType
<1>9. /\ Cardinality(Flying(P, c)) \in Nat /\ Cardinality(Peers) \in Nat
      /\ Cardinality(Flying(peer', c)) <= Cardinality(Peers)
  BY FlyingFinite
<1>10. Cardinality(Flying(peer', c)) <= strat'.times[c]
  <2>1. Cardinality(Flying(P, c)) <= S.times[c]
    BY DEF Paid
  <2> QED
    BY <1>3, <1>6, <1>7, <1>8, <1>9, <2>1
<1>11. ASSUME ~S.origin
       PROVE  S.sent[c] + Cardinality(Flying(peer', c))
                <= ForwardMultiplier - 1 + Cardinality(Peers)
  <2>1. CASE S.sent[c] < ForwardMultiplier
    BY <1>6, <1>7, <1>8, <1>9, <2>1
  <2>2. CASE ~(S.sent[c] < ForwardMultiplier)
    <3>1. added(c) = {}
      BY <1>11, <2>2, PicksOffer
    <3>2. Flying(peer', c) = Flying(P, c)
      BY <1>4, <3>1
    <3> QED
      BY <1>11, <3>2 DEF Paid
  <2> QED
    BY <2>1, <2>2
<1> QED
  BY <1>2, <1>10, <1>11

\* Routing is polled before anything else: inventories are fresh after it if they
\* were before, or if the strategy is dirty.
LEMMA DrainFresh ==
    ASSUME NEW P, NEW S, NEW B, NEW T, Typed(P, S), Drain(P, S, B, T),
           S.dirty \/ Fresh(P, S, T)
    PROVE  Fresh(peer', strat', told')
<1>1. /\ strat'.have = S.have
      /\ \A p \in Peers : peer'[p].on = P[p].on /\ peer'[p].done = P[p].done
  BY DrainTyped
<1>2. ShouldEmitRouting(strat') <=> ShouldEmitRouting(S)
  BY <1>1, EmitByHave
<1>3. told' = [p \in Peers |->
            IF PollRouting(S) /\ P[p].on /\ ~P[p].done THEN S.have ELSE T[p]]
  BY DEF Drain
<1> QED
  BY <1>1, <1>2, <1>3 DEF Fresh, PollRouting

\* Fewer sends in flight and the same counts are still paid for.
LEMMA FewerPaid ==
    ASSUME NEW P, NEW Q, NEW S, NEW R, Typed(P, S), Paid(P, S),
           \A c \in Chunks : Flying(Q, c) \subseteq Flying(P, c),
           R.origin = S.origin, R.sent = S.sent, R.times = S.times
    PROVE  Paid(Q, R)
<1> SUFFICES ASSUME NEW c \in Chunks
             PROVE  /\ ~R.origin => R.sent[c] + Cardinality(Flying(Q, c))
                          <= ForwardMultiplier - 1 + Cardinality(Peers)
                    /\ Cardinality(Flying(Q, c)) <= R.times[c]
  BY DEF Paid
<1>1. /\ Cardinality(Flying(Q, c)) <= Cardinality(Flying(P, c))
      /\ Cardinality(Flying(Q, c)) \in Nat /\ Cardinality(Flying(P, c)) \in Nat
      /\ Cardinality(Peers) \in Nat
  <2>1. Flying(Q, c) \in SUBSET Flying(P, c)
    OBVIOUS
  <2> QED
    BY ZenonT(40), <2>1, FlyingFinite, FS_Subset
<1>2. S.sent[c] \in Nat /\ S.times[c] \in Int /\ ForwardMultiplier \in Nat
  BY ChunkSendAssumption DEF Typed, StratType
<1> QED
  BY <1>1, <1>2 DEF Paid

\* ChunkSent moves one send from those in flight to the confirmed ones, or gives
\* back its allocation.
LEMMA SentKeeps ==
    ASSUME Typed(peer, strat), Paid(peer, strat), Fresh(peer, strat, told),
           NEW p \in Peers, NEW d \in Chunks, NEW ok \in BOOLEAN,
           NEW P, P = [peer EXCEPT ![p] = SentPeer(@, d, ok)],
           NEW S, S = SentPlan(strat, peer[p], d, ok)
    PROVE  /\ Typed(P, S) /\ Paid(P, S) /\ Fresh(P, S, told)
           /\ \A q \in Peers : P[q].on = peer[q].on
<1>1. CASE ~SentCounts(peer[p], d)
  <2>1. P = peer /\ S = strat
    BY <1>1 DEF SentPeer, SentPlan, Typed
  <2> QED
    BY <2>1
<1>2. CASE SentCounts(peer[p], d)
  <2>1. peer[p] \in PeerType /\ peer \in [Peers -> PeerType] /\ strat \in StratType
    BY DEF Typed
  <2>2. peer[p].inflight[d] = 1
    BY <1>2, <2>1 DEF SentCounts, PeerType
  <2>3. P[p] = [peer[p] EXCEPT !.inflight[d] = @ - 1, !.bitmap = BitmapAfter(peer[p], d, ok)]
        /\ \A q \in Peers : q # p => P[q] = peer[q]
    BY <1>2, <2>1 DEF SentPeer
  <2>4. BitmapAfter(peer[p], d, ok) \in SUBSET Chunks
    BY <2>1 DEF BitmapAfter, PeerType
  <2>5. /\ P[p] \in PeerType /\ P[p].on = peer[p].on /\ P[p].done = peer[p].done
        /\ P[p].inflight = [peer[p].inflight EXCEPT ![d] = 0]
    <3> DEFINE less == [peer[p].inflight EXCEPT ![d] = 0]
               bits == BitmapAfter(peer[p], d, ok)
    <3>1. less \in [Chunks -> 0..1]
      BY <2>1 DEF PeerType
    <3>2. P[p] = [peer[p] EXCEPT !.inflight = less, !.bitmap = bits]
      BY <2>1, <2>2, <2>3 DEF PeerType
    <3>3. bits \in SUBSET Chunks
      BY <2>4
    <3> HIDE DEF less, bits
    <3>4. /\ P[p] \in PeerType /\ P[p].on = peer[p].on /\ P[p].done = peer[p].done
          /\ P[p].inflight = less
      BY Zenon, <2>1, <3>1, <3>2, <3>3 DEF PeerType
    <3> QED
      BY <3>4 DEF less
  <2>6. P \in [Peers -> PeerType]
    BY <2>1, <2>3, <2>5
  <2>7. /\ S \in StratType /\ S.have = strat.have /\ S.origin = strat.origin
        /\ S.sent = IF ok /\ ~strat.origin THEN [strat.sent EXCEPT ![d] = @ + 1]
                                            ELSE strat.sent
        /\ S.times = IF ok THEN strat.times ELSE [strat.times EXCEPT ![d] = @ - 1]
    <3>1. CASE ok
      BY <1>2, <2>1, <3>1 DEF SentPlan, StratType
    <3>2. CASE ~ok
      BY <1>2, <2>1, <3>2 DEF SentPlan, StratType
    <3> QED
      BY <3>1, <3>2
  <2>8. Fresh(P, S, told)
    <3>1. ShouldEmitRouting(S) <=> ShouldEmitRouting(strat)
      BY <2>7, EmitByHave
    <3> QED
      BY <2>3, <2>5, <2>7, <3>1 DEF Fresh
  <2>9. ASSUME NEW c \in Chunks
        PROVE  Flying(P, c) = IF c = d THEN Flying(peer, c) \ {p} ELSE Flying(peer, c)
    <3>1. P[p].inflight[c] = IF c = d THEN 0 ELSE peer[p].inflight[c]
      BY <2>1, <2>5 DEF PeerType
    <3> QED
      BY <2>3, <3>1 DEF Flying
  <2>10. Cardinality(Flying(P, d)) = Cardinality(Flying(peer, d)) - 1
    <3>1. p \in Flying(peer, d)
      BY <2>2 DEF Flying
    <3> QED
      <4>1. IsFiniteSet(Flying(peer, d))
        BY FlyingFinite
      <4>2. Cardinality(Flying(peer, d) \ {p}) = Cardinality(Flying(peer, d)) - 1
        BY Zenon, <3>1, <4>1, FS_RemoveElement
      <4> QED
        BY Zenon, <2>9, <4>2
  <2>11. ASSUME NEW c \in Chunks
         PROVE  /\ ~S.origin => S.sent[c] + Cardinality(Flying(P, c))
                          <= ForwardMultiplier - 1 + Cardinality(Peers)
                /\ Cardinality(Flying(P, c)) <= S.times[c]
    <3>1. /\ Cardinality(Flying(P, c)) \in Nat /\ Cardinality(Flying(peer, c)) \in Nat
          /\ Cardinality(Peers) \in Nat
      BY FlyingFinite
    <3>2. strat.sent[c] \in Nat /\ strat.times[c] \in Int /\ ForwardMultiplier \in Nat
      BY <2>1, ChunkSendAssumption DEF StratType
    <3>3. /\ ~strat.origin => strat.sent[c] + Cardinality(Flying(peer, c))
                          <= ForwardMultiplier - 1 + Cardinality(Peers)
          /\ Cardinality(Flying(peer, c)) <= strat.times[c]
      BY DEF Paid
    <3>4. CASE c = d
      <4>1. ~strat.origin => S.sent[c] <= strat.sent[c] + 1 /\ S.sent[c] \in Nat
        BY <2>1, <2>7, <3>2, <3>4 DEF StratType
      <4>2. S.times[c] >= strat.times[c] - 1 /\ S.times[c] \in Int
        BY <2>1, <2>7, <3>2, <3>4 DEF StratType
      <4> QED
        BY <2>7, <2>10, <3>1, <3>2, <3>3, <3>4, <4>1, <4>2
    <3>5. CASE c # d
      <4>1. S.sent[c] = strat.sent[c] /\ S.times[c] = strat.times[c]
        BY <2>1, <2>7, <3>5 DEF StratType
      <4>2. Flying(P, c) = Flying(peer, c)
        BY Zenon, <2>9, <3>5
      <4> QED
        BY ZenonT(40), <2>7, <3>3, <4>1, <4>2
    <3> QED
      BY <3>4, <3>5
  <2> QED
    BY Zenon, <2>3, <2>5, <2>6, <2>7, <2>8, <2>11 DEF Typed, Paid
<1> QED
  BY <1>1, <1>2

-----------------------------------------------------------------------------
(* The invariant holds initially, and every step keeps it. *)

LEMMA SendInit == Init => SendInv
<1> SUFFICES ASSUME Init PROVE SendInv
  OBVIOUS
<1>1. Zero \in [Chunks -> 0..1] /\ Zero \in [Chunks -> Nat] /\ Zero \in [Chunks -> Int]
  BY DEF Zero
<1>2. NoPeerState \in PeerType /\ ~NoPeerState.on /\ NoPeerState.inflight = Zero
  BY <1>1 DEF NoPeerState, PeerType
<1>3. PICK o \in BOOLEAN :
          strat = [origin |-> o, have |-> IF o THEN Chunks ELSE {},
                   times |-> Zero, sent |-> Zero, dirty |-> o]
  <2>1. scene.origin \in BOOLEAN
    BY ChunkSendAssumption DEF Init
  <2> QED
    BY Zenon, <2>1 DEF Init
<1>4. strat \in StratType /\ strat.times = Zero /\ strat.sent = Zero
  BY Zenon, <1>1, <1>3 DEF StratType
<1>5. \A p \in Peers : peer[p] = NoPeerState
  BY DEF Init
<1>6. Typed(peer, strat)
  BY <1>2, <1>4 DEF Init, Typed
<1>7. Paid(peer, strat)
  <2> SUFFICES ASSUME NEW c \in Chunks
               PROVE  /\ strat.sent[c] + Cardinality(Flying(peer, c))
                          <= ForwardMultiplier - 1 + Cardinality(Peers)
                      /\ Cardinality(Flying(peer, c)) <= strat.times[c]
    BY DEF Paid
  <2>1. Flying(peer, c) = {}
    BY <1>2, <1>5 DEF Flying, Zero
  <2>2. Cardinality(Flying(peer, c)) = 0 /\ Cardinality(Peers) \in Nat
    BY <2>1, FS_EmptySet, FlyingFinite
  <2>3. strat.sent[c] = 0 /\ strat.times[c] = 0
    BY <1>4 DEF Zero
  <2> QED
    BY <2>2, <2>3, ChunkSendAssumption
<1>8. Fresh(peer, strat, told)
  BY Zenon, <1>2, <1>5 DEF Fresh
<1>9. Queues
  <2>1. /\ stage \in {"Consuming", "Reconstructed", "Origin", "Disposed"}
        /\ \A p \in Peers : ~peer[p].on
    BY Zenon, <1>2, <1>5 DEF Init
  <2>2. <<>> \in Seq(Dispatches) /\ <<>> \in Seq(Reports) /\ 0 \in Nat
    OBVIOUS
  <2> QED
    BY Zenon, <2>1, <2>2 DEF Init, Queues
<1> QED
  BY <1>6, <1>7, <1>8, <1>9 DEF SendInv

LEMMA PathInit == Init => PathInv
<1> SUFFICES ASSUME Init, NEW p \in Peers PROVE PathAt(p)
  BY DEF PathInv
<1>1. /\ ~peer[p].on /\ box[p] = <<>> /\ wrote[p] = {} /\ twice[p] = {}
      /\ slot[p] = "none" /\ oldbox[p] = <<>> /\ results[p] = <<>> /\ pc[p] = "scan"
  BY DEF Init, NoPeerState
<1>2. Belongs(p, peer[p], box[p], results[p], att[p]) /\ Awake(p, box[p], wake[p])
  BY <1>1 DEF Belongs, Awake
<1>3. Moving(p, peer[p], strat, box[p], results[p])
  BY <1>1 DEF Moving, Offer
<1> QED
  BY <1>1, <1>2, <1>3 DEF PathAt

LEMMA AttachKeeps ==
    ASSUME SendInv, NEW p \in Peers, Attach(p)
    PROVE  SendInv' /\ (PathInv => PathInv')
<1> DEFINE new == [NoPeerState EXCEPT !.on = TRUE]
           P == [peer EXCEPT ![p] = new]
           S == [strat EXCEPT !.dirty = @ /\ ~ShouldEmitRouting(strat)]
           B == [box EXCEPT ![p] = <<>>]
           T == [told EXCEPT ![p] = IF ShouldEmitRouting(strat) THEN strat.have ELSE {}]
<1>1. Drain(P, S, B, T)
  BY DEF Attach
<1>2. peer \in [Peers -> PeerType] /\ strat \in StratType
  BY DEF SendInv, Typed
<1>3. new \in PeerType /\ \A c \in Chunks : new.inflight[c] = 0
  <2>1. Zero \in [Chunks -> 0..1] /\ \A c \in Chunks : Zero[c] = 0
    BY DEF Zero
  <2>2. NoPeerState \in PeerType /\ NoPeerState.inflight = Zero
    BY <2>1 DEF NoPeerState, PeerType
  <2>3. new \in PeerType /\ new.inflight = NoPeerState.inflight
    BY Zenon, <2>2 DEF PeerType
  <2> QED
    BY <2>1, <2>2, <2>3
<1>4. /\ S \in StratType /\ S.have = strat.have
      /\ S.origin = strat.origin /\ S.sent = strat.sent /\ S.times = strat.times
  <2>1. (strat.dirty /\ ~ShouldEmitRouting(strat)) \in BOOLEAN
    OBVIOUS
  <2> QED
    BY Zenon, <1>2, <2>1 DEF StratType
<1>5. P[p] = new /\ \A q \in Peers : q # p => P[q] = peer[q]
  BY <1>2
<1>6. Typed(P, S)
  BY <1>2, <1>3, <1>4 DEF Typed
<1>7. Paid(P, S)
  <2>1. \A c \in Chunks : Flying(P, c) \subseteq Flying(peer, c)
    BY <1>3, <1>5 DEF Flying
  <2> HIDE DEF P, S
  <2> QED
    BY <1>4, <2>1, FewerPaid DEF SendInv
<1>8. Fresh(P, S, T)
  <2>1. ShouldEmitRouting(S) <=> ShouldEmitRouting(strat)
    BY Zenon, <1>4, EmitByHave
  <2>2. ShouldEmitRouting(strat) => T[p] = strat.have
    BY DEF SendInv, Queues
  <2>3. \A q \in Peers : q # p => T[q] = told[q]
    BY DEF SendInv, Queues
  <2> QED
    BY ZenonT(40), <1>4, <1>5, <2>1, <2>2, <2>3 DEF Fresh, SendInv
<1>9. B \in [Peers -> Seq(Dispatches)] /\ T \in [Peers -> SUBSET Chunks]
  BY <1>2 DEF SendInv, Queues, StratType
<1>10. att' \in [Peers -> Nat] /\ \A q \in Peers : P[q].on => att'[q] >= 1
  <2>1. att' = [att EXCEPT ![p] = @ + 1]
    BY Zenon DEF Attach
  <2>2. /\ att \in [Peers -> Nat]
        /\ \A q \in Peers : peer[q].on => att[q] >= 1
    BY Zenon DEF SendInv, Queues
  <2>3. att[p] \in Nat
    BY Zenon, <2>2
  <2>4. att[p] + 1 \in Nat /\ att[p] + 1 >= 1
    BY ONLY <2>3
  <2>5. /\ att' \in [Peers -> Nat] /\ att'[p] >= 1
        /\ \A q \in Peers : q # p => att'[q] = att[q]
    BY Zenon, <2>1, <2>2, <2>4
  <2> QED
    BY Zenon, <1>5, <2>2, <2>5
<1> HIDE DEF P, S, B, T
<1>11. Typed(peer', strat') /\ Paid(peer', strat') /\ Fresh(peer', strat', told')
  BY Zenon, <1>1, <1>6, <1>7, <1>8, DrainTyped, DrainPaid, DrainFresh
<1>12. wake \in [Peers -> BOOLEAN]
  BY DEF SendInv, Queues
<1>13. /\ box' \in [Peers -> Seq(Dispatches)] /\ told' \in [Peers -> SUBSET Chunks]
       /\ wake' \in [Peers -> BOOLEAN] /\ \A q \in Peers : peer'[q].on => att'[q] >= 1
  BY Zenon, <1>1, <1>6, <1>9, <1>10, <1>12, DrainQueues
<1>14. /\ UNCHANGED <<stage, conn, slot, oldbox, pc, job, results, announced, wrote, twice, tainted>>
       /\ stage # "Disposed"
  BY Zenon DEF Attach, loop
<1>15. Queues'
  BY Zenon, <1>10, <1>13, <1>14 DEF SendInv, Queues
<1>16. ASSUME PathInv, NEW q \in Peers
       PROVE  PathAt(q)'
  <2>1. PathAt(q) /\ PathAt(p)
    BY <1>16 DEF PathInv
  <2>2. UNCHANGED <<loop, wrote, twice>> /\ results' = results /\ tainted' = tainted
    BY DEF Attach
  <2>3. CASE q # p
    <3>1. P[q] = peer[q] /\ B[q] = box[q] /\ att'[q] = att[q]
      BY <1>2, <2>3 DEF P, B, Attach, SendInv, Queues
    <3> QED
      BY ZenonT(40), <1>1, <1>6, <1>9, <2>1, <2>2, <3>1, DrainOther
  <2>4. CASE q = p
    <3>1. P[p] = new /\ new.on /\ B[p] = <<>> /\ att'[p] = att[p] + 1 /\ ~peer[p].on
      BY Zenon, <1>3, <1>5 DEF P, B, Attach, SendInv, Queues, PeerType, NoPeerState
    <3>t. /\ att[p] \in Nat
          /\ \A i \in DOMAIN oldbox[p] : oldbox[p][i].a \in Nat
          /\ \A i \in DOMAIN results[p] : results[p][i].a \in Nat
          /\ pc[p] = "write" => job[p].a \in Nat
      BY Zenon, PathTypes DEF SendInv
    <3>b. /\ wrote[p] = {} /\ slot[p] # "cur"
          /\ \A i \in DOMAIN oldbox[p] : oldbox[p][i].a <= att[p]
          /\ \A i \in DOMAIN results[p] : results[p][i].a <= att[p]
          /\ pc[p] = "write" => job[p].a <= att[p]
      BY Zenon, <2>1, <3>1 DEF PathAt, Belongs
    <3>0. /\ \A i \in DOMAIN oldbox[p] : oldbox[p][i].a <= att'[p]
          /\ \A i \in DOMAIN results[p] : results[p][i].a <= att'[p]
          /\ pc[p] = "write" => job[p].a <= att'[p]
      BY ONLY <3>1, <3>t, <3>b
    <3>2. /\ att[p] \in Nat /\ wrote[p] = {} /\ slot[p] # "cur"
          /\ \A i \in DOMAIN oldbox[p] : oldbox[p][i].a < att'[p]
          /\ \A i \in DOMAIN results[p] : results[p][i].a < att'[p] /\ results[p][i].a \in Nat
          /\ pc[p] = "write" => job[p].a < att'[p] /\ job[p].a \in Nat
      BY ONLY <3>1, <3>t, <3>b
    <3>3. Belongs(p, P[p], B[p], results'[p], att'[p])
      BY Zenon, <2>2, <3>0, <3>1, <3>2, NoPlaces DEF Belongs
    <3>4. Awake(p, B[p], wake[p])
      BY <2>1, <3>2, Zenon DEF PathAt, Awake
    <3>5. Traced(p, P[p], B[p], results'[p], att'[p])
      <4>1. att'[p] \in Nat /\ \A c \in Chunks : P[p].inflight[c] = 0
        BY <1>3, <3>1, <3>2
      <4>2. \A i \in DOMAIN results[p] : results[p][i].a # att'[p]
        BY <3>2, <4>1
      <4>3. Writing(p).a # att'[p]
        BY <3>1, <3>2 DEF Writing, NoChunk
      <4>4. Followed(P[p], <<>>, Writing(p), results[p], att'[p], {})
        BY ZenonT(40), <4>1, <4>2, <4>3, NewFollowed
      <4> QED
        BY <2>2, <3>1, <3>2, <4>4 DEF Traced
    <3>6. p \notin tainted' => twice'[p] = {}
      BY <2>1, <2>2 DEF PathAt
    <3> HIDE DEF new
    <3> QED
      BY Zenon, <1>1, <1>6, <1>9, <2>2, <2>4, <3>3, <3>4, <3>5, <3>6, DrainPath
  <2> QED
    BY <2>3, <2>4
<1> QED
  BY <1>11, <1>15, <1>16 DEF SendInv, PathInv

\* Peers leave: one that is dropped, or all that are attached when the session is
\* disposed.
LEMMA LeaveKeeps ==
    ASSUME SendInv, NEW Q \in SUBSET Peers, Leave(Q),
           stage' = stage \/ (Q = Attached /\ stage' = "Disposed")
    PROVE  SendInv' /\ (PathInv => PathInv')
<1>1. peer \in [Peers -> PeerType] /\ strat \in StratType /\ strat' = strat
  BY DEF SendInv, Typed, Leave
<1>2. NoPeerState \in PeerType /\ ~NoPeerState.on /\ \A c \in Chunks : NoPeerState.inflight[c] = 0
  BY DEF NoPeerState, PeerType, Zero
<1>3. /\ peer' \in [Peers -> PeerType]
      /\ \A q \in Q : peer'[q] = NoPeerState
      /\ \A q \in Peers \ Q : peer'[q] = peer[q]
  BY Zenon, <1>1, <1>2 DEF Leave
<1>4. Typed(peer', strat')
  BY Zenon, <1>1, <1>3 DEF Typed
<1>5. Paid(peer', strat')
  <2>1. \A c \in Chunks : Flying(peer', c) \subseteq Flying(peer, c)
    BY <1>2, <1>3 DEF Flying
  <2> QED
    BY <1>1, <2>1, FewerPaid DEF SendInv
<1>6. \A q \in Peers \ Q : told'[q] = told[q]
  BY Zenon DEF Leave
<1>7. Fresh(peer', strat', told')
  BY Zenon, <1>1, <1>2, <1>3, <1>6 DEF Fresh, SendInv
<1>8. \A q \in Peers : Kill(box[q], Chunks) \in Seq(Dispatches)
  BY Zenon, KillType DEF SendInv, Queues
<1>9. Queues'
  <2>1. <<>> \in Seq(Dispatches) /\ {} \in SUBSET Chunks
    OBVIOUS
  <2>2. /\ box' \in [Peers -> Seq(Dispatches)] /\ oldbox' \in [Peers -> Seq(Dispatches)]
        /\ told' \in [Peers -> SUBSET Chunks] /\ announced' \in [Peers -> SUBSET Chunks]
        /\ wrote' \in [Peers -> SUBSET Chunks] /\ twice' \in [Peers -> SUBSET Chunks]
    BY ZenonT(40), <1>8, <2>1 DEF Leave, SendInv, Queues
  <2>3. slot' \in [Peers -> {"none", "cur", "old"}] /\ tainted' \subseteq Peers
    BY Zenon DEF Leave, SendInv, Queues
  <2>4. UNCHANGED <<conn, pc, job, wake, results, att>>
    BY Zenon DEF Leave
  <2>5. \A q \in Peers : peer'[q].on => peer[q].on /\ q \notin Q
    BY Zenon, <1>2, <1>3
  <2>6. /\ stage' \in {"Consuming", "Reconstructed", "Origin", "Disposed"}
        /\ \A q \in Peers : peer'[q].on => stage' # "Disposed"
    BY Zenon, <2>5 DEF SendInv, Queues, Attached
  <2> QED
    BY Zenon, <2>2, <2>3, <2>4, <2>5, <2>6 DEF SendInv, Queues
<1>10. ASSUME PathInv, NEW q \in Peers
       PROVE  PathAt(q)'
  <2>1. PathAt(q)
    BY Zenon, <1>10 DEF PathInv
  <2>2. CASE q \notin Q
    <3>1. /\ box'[q] = box[q] /\ oldbox'[q] = oldbox[q] /\ slot'[q] = slot[q]
          /\ wrote'[q] = wrote[q] /\ twice'[q] = twice[q]
          /\ q \notin tainted' => q \notin tainted
          /\ UNCHANGED <<strat, conn, pc, job, wake, results, att>>
      BY Zenon, <2>2 DEF Leave
    <3> QED
      BY Zenon, <1>3, <2>1, <2>2, <3>1, SamePath
  <2>3. CASE q \in Q
    <3>1. /\ box'[q] = <<>> /\ oldbox'[q] = Kill(box[q], Chunks)
          /\ slot'[q] = IF slot[q] = "cur" THEN "old" ELSE "none"
          /\ wrote'[q] = {} /\ twice'[q] = {}
          /\ UNCHANGED <<conn, pc, job, wake, results, att>>
      BY Zenon, <2>3 DEF Leave
    <3>2. ~peer'[q].on
      BY Zenon, <1>2, <1>3, <2>3
    <3>3. /\ \A i \in DOMAIN oldbox'[q] : oldbox'[q][i].a = att[q]
          /\ oldbox'[q] = <<>> <=> box[q] = <<>>
      <4>1. box[q] \in Seq(Dispatches) /\ \A i \in DOMAIN box[q] : box[q][i].a = att[q]
        BY ZenonT(40), <2>1, PathTypes DEF PathAt, Belongs, SendInv
      <4> QED
        BY <3>1, <4>1, KillSame
    <3>4. Belongs(q, peer[q], box[q], results[q], att[q])'
      <4>1. att[q] \in Nat
        BY Zenon, PathTypes DEF SendInv
      <4>2. \A i \in DOMAIN oldbox'[q] : oldbox'[q][i].a <= att[q]
        BY <3>3, <4>1
      <4> QED
        BY Zenon, <2>1, <3>1, <3>2, <4>2, NoPlaces DEF PathAt, Belongs
    <3>5. Awake(q, box[q], wake[q])'
      BY <2>1, <3>1, <3>3, Zenon DEF PathAt, Awake
    <3>6. Moving(q, peer[q], strat, box[q], results[q])'
      BY Zenon, <3>2 DEF Moving, Offer
    <3> QED
      BY ZenonT(40), <3>1, <3>2, <3>4, <3>5, <3>6 DEF PathAt
  <2> QED
    BY <2>2, <2>3
<1> QED
  BY <1>4, <1>5, <1>7, <1>9, <1>10 DEF SendInv, PathInv

LEMMA DisposeKeeps ==
    ASSUME SendInv, Dispose
    PROVE  SendInv' /\ (PathInv => PathInv')
<1>1. Attached \in SUBSET Peers /\ Leave(Attached) /\ stage' = "Disposed"
  BY Zenon DEF Attached, Dispose
<1> QED
  BY Zenon, <1>1, LeaveKeeps

LEMMA DropKeeps ==
    ASSUME SendInv, NEW p \in Peers, Drop(p)
    PROVE  SendInv' /\ (PathInv => PathInv')
<1>1. CASE Dispose
  BY Zenon, <1>1, DisposeKeeps
<1>2. CASE Leave({p}) /\ stage' = stage
  <2>1. {p} \in SUBSET Peers
    OBVIOUS
  <2> QED
    BY Zenon, <1>2, <2>1, LeaveKeeps
<1> QED
  BY Zenon, <1>1, <1>2 DEF Drop

\* channelDecoded: the session changes its stage, or is disposed.
LEMMA DecodedKeeps ==
    ASSUME SendInv, Decoded
    PROVE  SendInv' /\ (PathInv => PathInv')
<1>1. CASE Dispose
  BY Zenon, <1>1, DisposeKeeps
<1>2. CASE /\ stage' = "Reconstructed"
           /\ UNCHANGED <<strat, peer, box, told, loop, wake, results, history>>
  <2>1. Typed(peer, strat)' /\ Paid(peer, strat)' /\ Fresh(peer, strat, told)'
    BY Zenon, <1>2 DEF SendInv
  <2>2. "Reconstructed" # "Disposed"
    BY Zenon
  <2>3. Queues'
    BY Zenon, <1>2, <2>2 DEF loop, history, SendInv, Queues
  <2>4. PathInv => \A q \in Peers : PathAt(q)'
    BY Zenon, <1>2, SamePath DEF loop, history, PathInv
  <2> QED
    BY Zenon, <2>1, <2>3, <2>4 DEF SendInv, PathInv
<1> QED
  BY Zenon, <1>1, <1>2 DEF Decoded

LEMMA PeerCompletedKeeps ==
    ASSUME SendInv, NEW p \in Peers, PeerCompleted(p)
    PROVE  SendInv' /\ (PathInv => PathInv')
<1>0. SUFFICES ASSUME /\ peer' = [peer EXCEPT ![p].done = TRUE]
                       /\ box' = [box EXCEPT ![p] = Kill(@, Chunks)]
                       /\ UNCHANGED <<strat, told, stage, loop, wake, results, history>>
                PROVE  SendInv' /\ (PathInv => PathInv')
  BY Zenon, DisposeKeeps DEF PeerCompleted
<1>1. peer \in [Peers -> PeerType] /\ strat \in StratType /\ strat' = strat /\ told' = told
  BY Zenon, <1>0 DEF SendInv, Typed
<1>2. /\ peer'[p] = [peer[p] EXCEPT !.done = TRUE]
      /\ \A q \in Peers : q # p => peer'[q] = peer[q]
      /\ peer' \in [Peers -> PeerType]
  BY Zenon, <1>0, <1>1 DEF PeerType
<1>3. peer'[p].done /\ \A q \in Peers : /\ peer'[q].inflight = peer[q].inflight
                                        /\ peer'[q].on = peer[q].on
  BY <1>1, <1>2 DEF PeerType
<1>4. Typed(peer', strat')
  BY Zenon, <1>1, <1>2 DEF Typed
<1>5. Paid(peer', strat')
  <2>1. \A c \in Chunks : Flying(peer', c) \subseteq Flying(peer, c)
    BY <1>3 DEF Flying
  <2> QED
    BY <1>1, <2>1, FewerPaid DEF SendInv
<1>6. Fresh(peer', strat', told')
  BY Zenon, <1>1, <1>2, <1>3 DEF Fresh, SendInv
<1>7. Kill(box[p], Chunks) \in Seq(Dispatches)
  BY KillType DEF SendInv, Queues
<1>8. Queues'
  BY Zenon, <1>0, <1>1, <1>3, <1>7 DEF SendInv, Queues, loop, history
<1>9. ASSUME PathInv, NEW q \in Peers
      PROVE  PathAt(q)'
  <2>1. PathAt(q) /\ PathAt(p)
    BY <1>9 DEF PathInv
  <2>2. UNCHANGED <<conn, slot, oldbox, pc, job, wake, results, att, wrote, twice, tainted>>
    BY Zenon, <1>0 DEF loop, history
  <2>3. CASE q # p
    <3>1. box'[q] = box[q]
      BY Zenon, <1>0, <2>3 DEF SendInv, Queues
    <3> QED
      BY ZenonT(40), <1>1, <1>2, <2>1, <2>2, <2>3, <3>1, SamePath
  <2>4. CASE q = p
    <3>1. box[p] \in Seq(Dispatches) /\ box'[p] = Kill(box[p], Chunks)
      BY Zenon, <1>0 DEF SendInv, Queues
    <3>2. /\ DOMAIN box'[p] = DOMAIN box[p]
          /\ \A i \in DOMAIN box[p] : box'[p][i].a = box[p][i].a
          /\ box'[p] = <<>> <=> box[p] = <<>>
      BY <3>1, KillSame
    <3>3. Belongs(p, peer[p], box[p], results[p], att[p])'
      BY Zenon, <1>3, <2>1, <2>2, <3>2 DEF PathAt, Belongs
    <3>4. Awake(p, box[p], wake[p])'
      BY <2>1, <2>2, <3>2, Zenon DEF PathAt, Awake
    <3>5. Moving(p, peer[p], strat, box[p], results[p])'
      BY <1>3 DEF Moving, Offer
    <3>6. peer'[p].inflight = peer[p].inflight /\ peer'[p].bitmap = peer[p].bitmap
      BY ZenonT(40), <1>1, <1>2 DEF PeerType
    <3>7. ASSUME Traced(p, peer[p], box[p], results[p], att[p])
          PROVE  Traced(p, peer[p], box[p], results[p], att[p])'
      <4>1. Followed(peer'[p], Kill(box[p], Chunks), Writing(p), results[p], att[p], wrote[p])
        BY Zenon, <3>1, <3>6, <3>7, KillFollowed DEF Traced
      <4> QED
        BY Zenon, <2>2, <3>1, <4>1 DEF Traced, Writing
    <3> QED
      BY Zenon, <1>3, <2>1, <2>2, <2>4, <3>3, <3>4, <3>5, <3>7 DEF PathAt
  <2> QED
    BY <2>3, <2>4
<1> QED
  BY <1>4, <1>5, <1>6, <1>8, <1>9 DEF SendInv, PathInv

LEMMA RoutingUpdateKeeps ==
    ASSUME SendInv, NEW p \in Peers, NEW bm \in SUBSET Chunks, RoutingUpdate(p, bm)
    PROVE  SendInv' /\ (PathInv => PathInv')
<1> DEFINE ps == [peer[p] EXCEPT !.bitmap = @ \union bm]
           redundant == {c \in Chunks : ps.inflight[c] > 0 /\ c \in ps.bitmap}
           P == [peer EXCEPT ![p] = ps]
           S == strat
           B == [box EXCEPT ![p] = Kill(@, redundant)]
<1>1. Drain(P, S, B, told)
  BY DEF RoutingUpdate
<1>2. peer \in [Peers -> PeerType] /\ strat \in StratType
  BY DEF SendInv, Typed
<1>3. /\ ps \in PeerType /\ ps.inflight = peer[p].inflight
      /\ ps.on = peer[p].on /\ ps.done = peer[p].done
  BY <1>2 DEF PeerType
<1>4. P \in [Peers -> PeerType]
  BY <1>2, <1>3
<1>5. \A q \in Peers : /\ P[q].inflight = peer[q].inflight
                       /\ P[q].on = peer[q].on /\ P[q].done = peer[q].done
  BY <1>2, <1>3
<1>6. Typed(P, S)
  BY <1>2, <1>4 DEF Typed
<1>7. Paid(P, S)
  <2>1. \A c \in Chunks : Flying(P, c) \subseteq Flying(peer, c)
    BY <1>5 DEF Flying
  <2> HIDE DEF P
  <2> QED
    BY <2>1, FewerPaid DEF SendInv
<1>8. Fresh(P, S, told)
  BY <1>5 DEF Fresh, SendInv
<1>9. B \in [Peers -> Seq(Dispatches)]
  <2> HIDE DEF redundant
  <2>1. Kill(box[p], redundant) \in Seq(Dispatches)
    BY KillType DEF SendInv, Queues
  <2> QED
    BY <2>1 DEF SendInv, Queues
<1> HIDE DEF P, S, B
<1>10. Typed(peer', strat') /\ Paid(peer', strat') /\ Fresh(peer', strat', told')
  BY ZenonT(40), <1>1, <1>6, <1>7, <1>8, DrainTyped, DrainPaid, DrainFresh
<1>11. /\ wake \in [Peers -> BOOLEAN] /\ told \in [Peers -> SUBSET Chunks]
       /\ att' = att /\ att' \in [Peers -> Nat]
       /\ \A q \in Peers : P[q].on => att'[q] >= 1
  BY Zenon, <1>5 DEF RoutingUpdate, SendInv, Queues
<1>12. /\ box' \in [Peers -> Seq(Dispatches)] /\ told' \in [Peers -> SUBSET Chunks]
       /\ wake' \in [Peers -> BOOLEAN] /\ \A q \in Peers : peer'[q].on => att'[q] >= 1
  BY Zenon, <1>1, <1>6, <1>9, <1>11, DrainQueues
<1>13. announced' \in [Peers -> SUBSET Chunks]
  BY DEF RoutingUpdate, SendInv, Queues
<1>14. /\ UNCHANGED <<stage, conn, slot, oldbox, pc, job, results, wrote, twice, tainted>>
       /\ stage # "Disposed"
  BY Zenon DEF RoutingUpdate, loop, SendInv, Queues
<1>15. Queues'
  BY Zenon, <1>11, <1>12, <1>13, <1>14 DEF SendInv, Queues
<1>16. ASSUME PathInv, NEW q \in Peers
       PROVE  PathAt(q)'
  <2>1. PathAt(q) /\ PathAt(p)
    BY <1>16 DEF PathInv
  <2>2. UNCHANGED <<loop, wrote, twice, results, tainted>>
    BY DEF RoutingUpdate
  <2>3. CASE q # p
    <3>1. P[q] = peer[q] /\ B[q] = box[q]
      BY Zenon, <1>2, <2>3 DEF P, B, SendInv, Queues
    <3> QED
      BY Zenon, <1>1, <1>6, <1>9, <1>11, <2>1, <2>2, <3>1, DrainOther
  <2>4. CASE q = p
    <3>1. box[p] \in Seq(Dispatches) /\ B[p] = Kill(box[p], redundant)
      BY DEF B, SendInv, Queues
    <3>2. P[p].inflight = peer[p].inflight /\ peer[p].bitmap \subseteq P[p].bitmap
      BY <1>2, <1>5 DEF P, PeerType
    <3> HIDE DEF redundant
    <3>3. /\ DOMAIN B[p] = DOMAIN box[p]
          /\ \A i \in DOMAIN box[p] : B[p][i].a = box[p][i].a
          /\ B[p] = <<>> <=> box[p] = <<>>
      BY <3>1, KillSame
    <3>4. Belongs(p, P[p], B[p], results'[p], att'[p])
      BY Zenon, <1>5, <1>11, <2>1, <2>2, <3>3 DEF PathAt, Belongs
    <3>5. Awake(p, B[p], wake[p])
      BY <2>1, <3>3, Zenon DEF PathAt, Awake
    <3>6. ASSUME P[p].on, conn[p], p \notin tainted'
          PROVE  Traced(p, P[p], B[p], results'[p], att'[p])
      <4>1. Traced(p, peer[p], box[p], results[p], att[p])
        BY ZenonT(40), <1>5, <2>1, <2>2, <3>6 DEF PathAt
      <4>2. Traced(p, P[p], Kill(box[p], redundant), results[p], att[p])
        BY ZenonT(40), <3>1, <3>2, <4>1, KillFollowed DEF Traced
      <4> QED
        BY Zenon, <1>11, <2>2, <3>1, <4>2
    <3>7. p \notin tainted' => twice'[p] = {}
      BY <2>1, <2>2 DEF PathAt
    <3> QED
      BY ZenonT(40), <1>1, <1>6, <1>9, <2>2, <2>4, <3>4, <3>5, <3>6, <3>7, DrainPath
  <2> QED
    BY <2>3, <2>4
<1> QED
  BY <1>10, <1>15, <1>16 DEF SendInv, PathInv

LEMMA TakeChunkKeeps ==
    ASSUME SendInv, NEW p \in Peers, NEW c \in Chunks, TakeChunk(p, c)
    PROVE  SendInv' /\ (PathInv => PathInv')
<1> DEFINE bits == IF peer[p].on THEN peer[p].bitmap \union {c} ELSE peer[p].bitmap
           ps == [peer[p] EXCEPT !.bitmap = bits]
           P == [peer EXCEPT ![p] = ps]
           S == [strat EXCEPT !.have = @ \union {c}, !.dirty = DirtyAfterTake]
           B == box
<1>2. peer \in [Peers -> PeerType] /\ strat \in StratType
  BY DEF SendInv, Typed
<1>1. Drain(P, S, B, told)
  <2>1. [peer EXCEPT ![p].bitmap = IF peer[p].on THEN @ \union {c} ELSE @] = P
    BY <1>2
  <2> QED
    BY <2>1 DEF TakeChunk
<1>3. /\ ps \in PeerType /\ ps.inflight = peer[p].inflight
      /\ ps.on = peer[p].on /\ ps.done = peer[p].done
  <2>1. bits \in SUBSET Chunks
    BY <1>2 DEF PeerType
  <2> HIDE DEF bits
  <2> QED
    BY <1>2, <2>1 DEF PeerType
<1>4. P \in [Peers -> PeerType]
  BY <1>2, <1>3
<1>5. \A q \in Peers : /\ P[q].inflight = peer[q].inflight
                       /\ P[q].on = peer[q].on /\ P[q].done = peer[q].done
  BY <1>2, <1>3
<1>16. /\ S \in StratType /\ S.dirty
       /\ S.origin = strat.origin /\ S.sent = strat.sent /\ S.times = strat.times
  BY Zenon, <1>2 DEF StratType, DirtyAfterTake
<1>6. Typed(P, S)
  BY <1>4, <1>16 DEF Typed
<1>7. Paid(P, S)
  <2>1. \A d \in Chunks : Flying(P, d) \subseteq Flying(peer, d)
    BY <1>5 DEF Flying
  <2> HIDE DEF P, S
  <2> QED
    BY <1>16, <2>1, FewerPaid DEF SendInv
<1>8. S.dirty
  BY <1>16
<1>9. B \in [Peers -> Seq(Dispatches)]
  BY DEF SendInv, Queues
<1> HIDE DEF P, S, B
<1>10. Typed(peer', strat') /\ Paid(peer', strat') /\ Fresh(peer', strat', told')
  BY ZenonT(40), <1>1, <1>6, <1>7, <1>8, DrainTyped, DrainPaid, DrainFresh
<1>11. /\ wake \in [Peers -> BOOLEAN] /\ told \in [Peers -> SUBSET Chunks]
       /\ att' = att /\ att' \in [Peers -> Nat]
       /\ \A q \in Peers : P[q].on => att'[q] >= 1
  BY Zenon, <1>5 DEF TakeChunk, SendInv, Queues
<1>12. /\ box' \in [Peers -> Seq(Dispatches)] /\ told' \in [Peers -> SUBSET Chunks]
       /\ wake' \in [Peers -> BOOLEAN] /\ \A q \in Peers : peer'[q].on => att'[q] >= 1
  BY Zenon, <1>1, <1>6, <1>9, <1>11, DrainQueues
<1>13. announced' \in [Peers -> SUBSET Chunks]
  BY DEF TakeChunk, SendInv, Queues
<1>14. /\ UNCHANGED <<stage, conn, slot, oldbox, pc, job, results, wrote, twice, tainted>>
       /\ stage # "Disposed"
  BY Zenon DEF TakeChunk, loop
<1>15. Queues'
  BY Zenon, <1>11, <1>12, <1>13, <1>14 DEF SendInv, Queues
<1>17. ASSUME PathInv, NEW q \in Peers
       PROVE  PathAt(q)'
  <2>1. PathAt(q)
    BY <1>17 DEF PathInv
  <2>2. UNCHANGED <<loop, wrote, twice, results, tainted>>
    BY DEF TakeChunk
  <2>3. B[q] = box[q] /\ box[q] \in Seq(Dispatches)
    BY DEF B, SendInv, Queues
  <2>4. P[q].inflight = peer[q].inflight /\ peer[q].bitmap \subseteq P[q].bitmap
    BY <1>2, <1>5 DEF P, PeerType
  <2>5. Belongs(q, P[q], B[q], results'[q], att'[q])
    BY Zenon, <1>5, <1>11, <2>1, <2>2, <2>3 DEF PathAt, Belongs
  <2>6. Awake(q, B[q], wake[q])
    BY <2>1, <2>3, Zenon DEF PathAt, Awake
  <2>7. P[q].on /\ conn[q] /\ q \notin tainted'
          => Traced(q, P[q], B[q], results'[q], att'[q])
    BY Zenon, <1>5, <1>11, <2>1, <2>2, <2>3, <2>4, KillFollowed DEF PathAt, Traced
  <2>8. q \notin tainted' => twice'[q] = {}
    BY Zenon, <2>1, <2>2 DEF PathAt
  <2> QED
    BY Zenon, <1>1, <1>6, <1>9, <2>2, <2>5, <2>6, <2>7, <2>8, DrainPath
<1> QED
  BY <1>10, <1>15, <1>17 DEF SendInv, PathInv

\* A result for a session that was disposed is ignored.
LEMMA LateCompleteKeeps ==
    ASSUME SendInv, NEW p \in Peers, SendComplete(p), stage = "Disposed"
    PROVE  SendInv' /\ (PathInv => PathInv')
<1>1. \A q \in Peers : ~peer[q].on
  BY Zenon DEF SendInv, Queues
<1>2. /\ UNCHANGED <<strat, peer, box, told, wake, stage, loop, att, announced, wrote, twice, tainted>>
      /\ results' = [results EXCEPT ![p] = Tail(results[p])] /\ results[p] # <<>>
  BY Zenon, <1>1 DEF SendComplete
<1>3. results \in [Peers -> Seq(Reports)]
  BY Zenon DEF SendInv, Queues
<1>4. Tail(results[p]) \in Seq(Reports)
  BY <1>2, <1>3
<1>5. results' \in [Peers -> Seq(Reports)] /\ results'[p] = Tail(results[p])
      /\ \A q \in Peers : q # p => results'[q] = results[q]
  BY Zenon, <1>2, <1>3, <1>4
<1>6. Typed(peer, strat)' /\ Paid(peer, strat)' /\ Fresh(peer, strat, told)'
  BY Zenon, <1>2 DEF SendInv
<1>7. Queues'
  BY Zenon, <1>2, <1>5 DEF loop, SendInv, Queues
<1>8. ASSUME PathInv, NEW q \in Peers
      PROVE  PathAt(q)'
  <2>1. PathAt(q)
    BY Zenon, <1>8 DEF PathInv
  <2>2. CASE q # p
    BY Zenon, <1>2, <1>5, <2>1, <2>2, SamePath DEF loop
  <2>3. CASE q = p
    <3>1. \A i \in DOMAIN Tail(results[p]) :
             i + 1 \in DOMAIN results[p] /\ Tail(results[p])[i] = results[p][i + 1]
      BY <1>2, <1>3
    <3>2. \A i \in DOMAIN results[p] : results[p][i].a <= att[p]
      BY Zenon, <2>1, <2>3 DEF PathAt, Belongs
    <3>3. \A i \in DOMAIN results'[p] : results'[p][i].a <= att[p]
      BY Zenon, <1>5, <3>1, <3>2
    <3>4. Belongs(p, peer[p], box[p], results[p], att[p])'
      BY Zenon, <1>2, <2>1, <2>3, <3>3 DEF PathAt, Belongs, loop
    <3>5. Awake(p, box[p], wake[p])'
      BY Zenon, <1>2, <2>1, <2>3 DEF PathAt, Awake, loop
    <3>6. Moving(p, peer[p], strat, box[p], results[p])'
      BY Zenon, <1>1, <1>2 DEF Moving, Offer
    <3> QED
      BY Zenon, <1>1, <1>2, <2>1, <2>3, <3>4, <3>5, <3>6 DEF PathAt
  <2> QED
    BY Zenon, <2>2, <2>3
<1> QED
  BY Zenon, <1>6, <1>7, <1>8 DEF SendInv, PathInv

LEMMA SendCompleteKeeps ==
    ASSUME SendInv, NEW p \in Peers, SendComplete(p), stage # "Disposed"
    PROVE  SendInv' /\ (PathInv => PathInv')
<1> DEFINE r == Head(results[p])
           P == [peer EXCEPT ![p] = SentPeer(@, r.c, r.ok)]
           S == SentPlan(strat, peer[p], r.c, r.ok)
           B == [box EXCEPT ![p] = Kill(@, {r.c})]
<1>1. Drain(P, S, B, told)
  BY Zenon DEF SendComplete, DrainAfterSent
<1>2. results[p] \in Seq(Reports) /\ results[p] # <<>>
  BY DEF SendComplete, SendInv, Queues
<1>3. r.c \in Chunks /\ r.ok \in BOOLEAN
  <2>1. r \in Reports
    BY <1>2
  <2> QED
    BY Zenon, <2>1 DEF Reports
<1>4. /\ Typed(P, S) /\ Paid(P, S) /\ Fresh(P, S, told)
      /\ \A q \in Peers : P[q].on = peer[q].on
  <2> HIDE DEF r
  <2> QED
    BY <1>3, SentKeeps DEF SendInv
<1>5. \A q \in Peers : P[q].on = peer[q].on
  BY ZenonT(40), <1>4
<1>6. Typed(P, S)
  BY Zenon, <1>4
<1>7. Paid(P, S)
  BY ZenonT(40), <1>4
<1>8. Fresh(P, S, told)
  BY ZenonT(40), <1>4
<1>9. B \in [Peers -> Seq(Dispatches)]
  <2>1. Kill(box[p], {r.c}) \in Seq(Dispatches)
    BY KillType DEF SendInv, Queues
  <2> QED
    BY <2>1 DEF SendInv, Queues
<1> HIDE DEF P, S, B
<1>10. Typed(peer', strat') /\ Paid(peer', strat') /\ Fresh(peer', strat', told')
  BY ZenonT(40), <1>1, <1>6, <1>7, <1>8, DrainTyped, DrainPaid, DrainFresh
<1>11. /\ wake \in [Peers -> BOOLEAN] /\ told \in [Peers -> SUBSET Chunks]
       /\ att' = att /\ att' \in [Peers -> Nat]
       /\ \A q \in Peers : P[q].on => att'[q] >= 1
  BY Zenon, <1>5 DEF SendComplete, SendInv, Queues
<1>12. /\ box' \in [Peers -> Seq(Dispatches)] /\ told' \in [Peers -> SUBSET Chunks]
       /\ wake' \in [Peers -> BOOLEAN] /\ \A q \in Peers : peer'[q].on => att'[q] >= 1
  BY Zenon, <1>1, <1>6, <1>9, <1>11, DrainQueues
<1>13. results' \in [Peers -> Seq(Reports)] /\ tainted' \subseteq Peers
  <2>1. Tail(results[p]) \in Seq(Reports)
    BY <1>2
  <2> QED
    BY <2>1 DEF SendComplete, SendInv, Queues
<1>14. UNCHANGED <<stage, conn, slot, oldbox, pc, job, announced, wrote, twice>>
  BY Zenon DEF SendComplete, loop
<1>15. Queues'
  BY Zenon, <1>11, <1>12, <1>13, <1>14 DEF SendInv, Queues
<1>16. ASSUME PathInv, NEW q \in Peers
       PROVE  PathAt(q)'
  <2>1. PathAt(q) /\ PathAt(p)
    BY <1>16 DEF PathInv
  <2>2. /\ UNCHANGED <<loop, wrote, twice>>
        /\ results' = [results EXCEPT ![p] = Tail(@)]
        /\ tainted' = IF peer[p].on /\ r.a # att[p] THEN tainted \union {p} ELSE tainted
    BY Zenon DEF SendComplete
  <2>3. CASE q # p
    <3>1. /\ P[q] = peer[q] /\ B[q] = box[q] /\ results'[q] = results[q]
          /\ q \notin tainted' => q \notin tainted
      BY <2>2, <2>3 DEF P, B, SendInv, Typed, Queues
    <3> QED
      BY Zenon, <1>1, <1>6, <1>9, <1>11, <2>1, <2>2, <3>1, DrainOther
  <2>4. CASE q = p
    <3>1. /\ box[p] \in Seq(Dispatches) /\ B[p] = Kill(box[p], {r.c})
          /\ results'[p] = Tail(results[p])
          /\ P[p] = SentPeer(peer[p], r.c, r.ok) /\ peer[p] \in PeerType
      BY Zenon, <2>2 DEF B, P, SendInv, Typed, Queues
    <3>2. /\ DOMAIN B[p] = DOMAIN box[p]
          /\ \A i \in DOMAIN box[p] : B[p][i].a = box[p][i].a
          /\ B[p] = <<>> <=> box[p] = <<>>
      <4> DEFINE b == Kill(box[p], {r.c})
      <4>1. /\ DOMAIN b = DOMAIN box[p]
            /\ \A i \in DOMAIN box[p] : b[i].a = box[p][i].a
            /\ b = <<>> <=> box[p] = <<>>
        BY <3>1, KillSame
      <4> HIDE DEF b
      <4> QED
        BY Zenon, <3>1, <4>1 DEF b
    <3>3. \A i \in DOMAIN results'[p] : results'[p][i].a <= att[p]
      <4>1. \A i \in DOMAIN Tail(results[p]) :
               i + 1 \in DOMAIN results[p] /\ Tail(results[p])[i] = results[p][i + 1]
        BY <1>2
      <4>2. \A i \in DOMAIN results[p] : results[p][i].a <= att[p]
        BY Zenon, <2>1 DEF PathAt, Belongs
      <4> QED
        BY Zenon, <3>1, <4>1, <4>2
    <3>4. Belongs(p, P[p], B[p], results'[p], att'[p])
      BY Zenon, <1>5, <1>11, <2>1, <2>2, <3>2, <3>3 DEF PathAt, Belongs
    <3>5. Awake(p, B[p], wake[p])
      BY ZenonT(40), <2>1, <3>2 DEF PathAt, Awake
    <3>6. ASSUME P[p].on, conn[p], p \notin tainted'
          PROVE  Traced(p, P[p], B[p], results'[p], att'[p])
      <4>1. peer[p].on /\ r.a = att[p] /\ p \notin tainted
        BY <1>5, <2>2, <3>6
      <4>2. Traced(p, peer[p], box[p], results[p], att[p])
        BY Zenon, <2>1, <3>6, <4>1 DEF PathAt
      <4>3. Traced(p, P[p], box[p], results'[p], att[p])
        BY Zenon, <1>2, <3>1, <4>1, <4>2, SentFollowed DEF Traced
      <4>4. /\ P[p].inflight = P[p].inflight /\ P[p].bitmap \subseteq P[p].bitmap
            /\ box[p] \in Seq(Dispatches)
        BY Zenon, <1>11, <3>1, PathTypes DEF SendInv
      <4>5. Followed(P[p], Kill(box[p], {r.c}), Writing(p), results'[p], att[p], wrote[p])
        BY Zenon, <4>3, <4>4, KillFollowed DEF Traced
      <4> QED
        BY Zenon, <1>11, <3>1, <4>5 DEF Traced
    <3>7. p \notin tainted' => twice'[p] = {}
      BY Zenon, <2>1, <2>2 DEF PathAt
    <3> QED
      BY Zenon, <1>1, <1>6, <1>9, <2>2, <2>4, <3>4, <3>5, <3>6, <3>7, DrainPath
  <2> QED
    BY <2>3, <2>4
<1> QED
  BY <1>10, <1>15, <1>16 DEF SendInv, PathInv

LEMMA LoopsKeep ==
    ASSUME SendInv, NEW p \in Peers, Loops(p)
    PROVE  SendInv'
<1>1. UNCHANGED <<strat, peer, told>>
  BY Zenon DEF Loops, RegisterSlot, RegisterLate, UnregisterSlot, SkipCancelled, StartWrite,
         Sleep, Wake, EndWrite, Disconnect, Reconnect, session
<1> QED
  BY <1>1, LoopsQueues DEF SendInv

LEMMA SendNext ==
    SendInv /\ PathInv /\ scene \in Scenes /\ [Next]_vars
        => SendInv' /\ PathInv' /\ (scene \in Scenes)'
<1> SUFFICES ASSUME SendInv, PathInv, scene \in Scenes, [Next]_vars
             PROVE  SendInv' /\ PathInv' /\ (scene \in Scenes)'
  OBVIOUS
<1>1. ASSUME NEW p \in Peers, Actor(p) PROVE SendInv' /\ PathInv'
  BY Zenon, <1>1, AttachKeeps, DropKeeps, PeerCompletedKeeps, RoutingUpdateKeeps,
     TakeChunkKeeps, SendCompleteKeeps, LateCompleteKeeps DEF Actor
<1>2. ASSUME NEW p \in Peers, Loops(p) PROVE SendInv' /\ PathInv'
  BY <1>2, LoopsKeep, LoopsPath DEF SendInv
<1>3. CASE UNCHANGED vars
  <2>1. SendInv'
    BY <1>3 DEF vars, session, loop, history, SendInv, Queues
  <2>2. \A q \in Peers : PathAt(q)'
    BY Zenon, <1>3, SamePath DEF vars, session, loop, history, PathInv
  <2> QED
    BY Zenon, <1>3, <2>1, <2>2 DEF PathInv, vars
<1>4. scene.loops \subseteq Peers
  BY ChunkSendAssumption
<1> QED
  BY Zenon, <1>1, <1>2, <1>3, <1>4, DecodedKeeps, DisposeKeeps DEF Next

\* Everything below follows from one inductive invariant: the types, that sends in
\* flight are paid for, that inventories are fresh, that a disposed session has no
\* peer, and where the dispatches of drainPolls (session.go) are on their way to
\* ChunkSent.
THEOREM SendInvariant == Spec => [](SendInv /\ PathInv)
<1>1. Init => scene \in Scenes
  BY Zenon DEF Init
<1> QED
  BY <1>1, SendInit, PathInit, SendNext, PTL DEF Spec

\* A relay's confirmed sends of a chunk exceed Config.ForwardMultiplier by less than
\* the number of peers, in every interleaving of results, drops and attachments:
\* allocate (rs/strategy.go) tests confirmed sends only.
THEOREM BudgetBounded == Spec => []BudgetBound
<1>1. SendInv => BudgetBound
  <2> SUFFICES ASSUME SendInv, ~strat.origin, NEW c \in Chunks
               PROVE  strat.sent[c] <= ForwardMultiplier - 1 + Cardinality(Peers)
    BY DEF BudgetBound
  <2>1. Cardinality(Flying(peer, c)) \in Nat /\ Cardinality(Peers) \in Nat
    BY FlyingFinite
  <2>2. strat.sent[c] \in Nat /\ ForwardMultiplier \in Nat
    BY ChunkSendAssumption DEF SendInv, Typed, StratType
  <2> QED
    BY <2>1, <2>2 DEF SendInv, Paid
<1> QED
  BY <1>1, SendInvariant, PTL

\* Past the threshold every attached peer that has not completed was handed our
\* present inventory, although a forced poll for one newcomer clears the flag that
\* the poll for all the others looks at (PollRouting, rs/strategy.go).
THEOREM InventoriesFresh == Spec => []RoutingFresh
<1>1. SendInv => RoutingFresh
  BY Zenon DEF SendInv, Fresh, RoutingFresh
<1> QED
  BY <1>1, SendInvariant, PTL

\* Type correctness; that the planner's allocation counts (Decrement in rs/emit.go)
\* never go below zero rests on every send in flight having been counted.
THEOREM SendTypeCorrect == Spec => []TypeOK
<1>1. SendInv => TypeOK
  <2> SUFFICES ASSUME SendInv PROVE TypeOK
    OBVIOUS
  <2>1. strat \in StratType /\ peer \in [Peers -> PeerType]
    BY DEF SendInv, Typed
  <2>2. \A c \in Chunks : strat.times[c] \in Nat
    <3> TAKE c \in Chunks
    <3>1. Cardinality(Flying(peer, c)) \in Nat /\ Cardinality(Flying(peer, c)) <= strat.times[c]
      BY FlyingFinite DEF SendInv, Paid
    <3>2. strat.times[c] \in Int
      BY <2>1 DEF StratType
    <3> QED
      BY <3>1, <3>2
  <2>3. strat.times \in [Chunks -> Nat]
    BY <2>1, <2>2 DEF StratType
  <2>4. strat \in [origin : BOOLEAN, have : SUBSET Chunks, times : [Chunks -> Nat],
                   sent : [Chunks -> Nat], dirty : BOOLEAN]
    BY <2>1, <2>3 DEF StratType
  <2> QED
    BY <2>1, <2>4 DEF SendInv, Queues, TypeOK, PeerType
<1> QED
  BY <1>1, SendInvariant, PTL

\* The data loop of a connected peer never sleeps on a chunk without a wake token,
\* whichever of sendChunk's signal (session.go), the registration of an outbox and
\* the loop's own scan (peer_ctrl.go) comes first.
THEOREM NoChunkSleeps == Spec => []NoSleepingChunk
<1>1. PathInv => NoSleepingChunk
  BY Zenon DEF PathInv, PathAt, Awake, NoSleepingChunk, Registered
<1> QED
  BY <1>1, SendInvariant, PTL

\* A connected peer that could be offered a chunk always has a dispatch on its way
\* whose result polls again, although drainPolls (session.go) polls once for each
\* event and PollChunks (rs/strategy.go) offers a peer no more than one chunk.
THEOREM SendNeverStalls == Spec => []NoSendStall
<1>1. PathInv => NoSendStall
  BY Zenon DEF PathInv, PathAt, Moving, NoSendStall
<1> QED
  BY <1>1, SendInvariant, PTL

\* A chunk that was written to a peer is not written to it again while it stays
\* attached: allocate (rs/strategy.go) passes over what is in flight to the peer or
\* known to it, and ChunkSent takes a chunk from the one to the other.
THEOREM WritesHappenOnce == Spec => []WrittenOnce
<1>1. PathInv => WrittenOnce
  BY DEF PathInv, PathAt, WrittenOnce
<1> QED
  BY <1>1, SendInvariant, PTL

\* The strategy's count of what is in flight to a peer is the number of dispatches
\* that wait, are written or are reported and not taken: every dispatch meets one
\* ChunkSent.
THEOREM InflightIsExact == Spec => []InflightExactUntainted
<1>1. ASSUME SendInv, PathInv PROVE InflightExactUntainted
  <2> SUFFICES ASSUME NEW p \in Peers \ tainted, NEW c \in Chunks, peer[p].on, conn[p]
               PROVE  peer[p].inflight[c] = Outstanding(p, c)
    BY ZenonT(40) DEF InflightExactUntainted
  <2> DEFINE W == {i \in DOMAIN box[p] : box[p][i].c = c}
             R == {i \in DOMAIN results[p] : results[p][i].c = c /\ results[p][i].a = att[p]}
             j == IF pc[p] = "write" /\ job[p].c = c /\ job[p].a = att[p] THEN 1 ELSE 0
  <2>1. Sole(peer[p], box[p], Writing(p), results[p], att[p], c)
    BY Zenon, <1>1 DEF PathInv, PathAt, Traced, Followed
  <2>2. peer[p].inflight[c] \in 0..1 /\ att[p] >= 1 /\ att[p] \in Nat
    BY <1>1 DEF SendInv, Typed, PeerType, Queues
  <2>3. j = 1 <=> Writes(Writing(p), c, att[p])
    BY <2>2 DEF Writes, Writing, NoChunk
  <2>4. IF Waits(box[p], c) THEN \E i : W = {i} ELSE W = {}
    <3>1. CASE Waits(box[p], c)
      <4>1. PICK i \in DOMAIN box[p] : box[p][i].c = c
        BY Zenon, <3>1 DEF Waits
      <4>2. W = {i}
        BY <2>1, <4>1 DEF Sole
      <4> QED
        BY <3>1, <4>2
    <3>2. CASE ~Waits(box[p], c)
      BY <3>2 DEF Waits
    <3> QED
      BY <3>1, <3>2
  <2>5. IF Ends(results[p], c, att[p]) THEN \E i : R = {i} ELSE R = {}
    <3>1. CASE Ends(results[p], c, att[p])
      <4>1. PICK i \in DOMAIN results[p] : IsResult(results[p], i, c, att[p])
        BY Zenon, <3>1 DEF Ends
      <4>2. R = {i}
        BY Zenon, <2>1, <4>1 DEF Sole, Single, IsResult
      <4> QED
        BY <3>1, <4>2
    <3>2. CASE ~Ends(results[p], c, att[p])
      BY Zenon, <3>2 DEF Ends, IsResult
    <3> QED
      BY Zenon, <3>1, <3>2
  <2>6. j \in {0, 1} /\ Outstanding(p, c) = Cardinality(W) + Cardinality(R) + j
    BY DEF Outstanding
  <2> HIDE DEF W, R, j
  <2>7. Cardinality(W) = IF Waits(box[p], c) THEN 1 ELSE 0
    BY Zenon, <2>4, FS_EmptySet, FS_Singleton
  <2>8. Cardinality(R) = IF Ends(results[p], c, att[p]) THEN 1 ELSE 0
    BY Zenon, <2>5, FS_EmptySet, FS_Singleton
  <2>9. peer[p].inflight[c] \in {0, 1}
    BY <2>2
  <2> QED
    BY <2>1, <2>3, <2>6, <2>7, <2>8, <2>9 DEF Sole
<1> QED
  BY <1>1, SendInvariant, PTL

=============================================================================
