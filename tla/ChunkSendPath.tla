---------------------------- MODULE ChunkSendPath ----------------------------
(* The path of a dispatch of ChunkSend, from the outbox that drainPolls puts it *)
(* in over the data loop to its result, for any number of peers and chunks: the *)
(* invariant that follows it, and what drainPolls and the data loop do to it.   *)
EXTENDS ChunkSend, TLAPS

StratType == [origin : BOOLEAN, have : SUBSET Chunks, times : [Chunks -> Int],
              sent : [Chunks -> Nat], dirty : BOOLEAN]

PeerType == [on : BOOLEAN, done : BOOLEAN, bitmap : SUBSET Chunks,
             inflight : [Chunks -> 0..1]]

Typed(P, S) == S \in StratType /\ P \in [Peers -> PeerType]

\* The types of everything but the strategy; a loop that writes has a chunk to
\* write, an attached peer has an attachment number, and a session that was
\* disposed has no peer left.
Queues ==
    /\ box \in [Peers -> Seq(Dispatches)]
    /\ told \in [Peers -> SUBSET Chunks]
    /\ stage \in {"Consuming", "Reconstructed", "Origin", "Disposed"}
    /\ conn \in [Peers -> BOOLEAN]
    /\ slot \in [Peers -> {"none", "cur", "old"}]
    /\ oldbox \in [Peers -> Seq(Dispatches)]
    /\ pc \in [Peers -> {"scan", "wait", "write"}]
    /\ job \in [Peers -> Dispatches \union {NoChunk}]
    /\ wake \in [Peers -> BOOLEAN]
    /\ results \in [Peers -> Seq(Reports)]
    /\ att \in [Peers -> Nat]
    /\ announced \in [Peers -> SUBSET Chunks]
    /\ wrote \in [Peers -> SUBSET Chunks] /\ twice \in [Peers -> SUBSET Chunks]
    /\ tainted \subseteq Peers
    /\ \A p \in Peers : pc[p] = "write" => job[p] \in Dispatches
    /\ \A p \in Peers : peer[p].on => att[p] >= 1 /\ stage # "Disposed"

-----------------------------------------------------------------------------

(* The path of a dispatch: outbox, data loop, result.  A handler changes the   *)
(* peer's state ps, its outbox b, its results rs, its attachment a and its     *)
(* wake token w before it polls, so the invariant is stated of these.          *)

\* Where dispatches are and which attachment they belong to: an outbox holds those
\* of the present one, the outbox before it those of earlier ones.
Belongs(p, ps, b, rs, a) ==
    /\ ~ps.on => b = <<>> /\ wrote[p] = {}
    /\ slot[p] = "cur" => ps.on
    /\ \A i \in DOMAIN b : b[i].a = a
    /\ \A i \in DOMAIN oldbox[p] : /\ oldbox[p][i].a <= a
                                   /\ ps.on => oldbox[p][i].a < a
    /\ \A i \in DOMAIN rs : rs[i].a <= a
    /\ pc[p] = "write" => job[p].a <= a

\* A dispatch of chunk c in attachment a waits in outbox b, is the one being
\* written, j, or is the i-th of the results rs.
Waits(b, c) == \E i \in DOMAIN b : b[i].c = c
Writes(j, c, a) == j.c = c /\ j.a = a
IsResult(rs, i, c, a) == rs[i].c = c /\ rs[i].a = a
Ends(rs, c, a) == \E i \in DOMAIN rs : IsResult(rs, i, c, a)
Succeeds(rs, c, a) == \E i \in DOMAIN rs : IsResult(rs, i, c, a) /\ rs[i].ok
Single(rs, c, a) == \A i, k \in DOMAIN rs : IsResult(rs, i, c, a) /\ IsResult(rs, k, c, a) => i = k

\* Of the dispatches of a chunk there is one in all when the strategy counts it in
\* flight, and none otherwise.
Sole(ps, b, j, rs, a, c) ==
    /\ ps.inflight[c] = 1 <=> Waits(b, c) \/ Writes(j, c, a) \/ Ends(rs, c, a)
    /\ ~(Waits(b, c) /\ Writes(j, c, a))
    /\ ~(Waits(b, c) /\ Ends(rs, c, a))
    /\ ~(Writes(j, c, a) /\ Ends(rs, c, a))
    /\ \A i, k \in DOMAIN b : b[i].c = c /\ b[k].c = c => i = k
    /\ Single(rs, c, a)

\* A chunk of those written, w, is known to the peer, or its success is reported.
Confirmed(ps, rs, a, w, c) ==
    c \in w =>
        \/ ps.inflight[c] = 0 /\ c \in ps.bitmap
        \/ Succeeds(rs, c, a)

Followed(ps, b, j, rs, a, w) ==
    \A c \in Chunks : Sole(ps, b, j, rs, a, c) /\ Confirmed(ps, rs, a, w, c)

\* The data loop does not sleep on a chunk.
Awake(p, b, w) ==
    /\ conn[p] /\ pc[p] = "wait"
    /\ (slot[p] = "cur" /\ b # <<>>) \/ (slot[p] = "old" /\ oldbox[p] # <<>>)
    => w

\* A peer that could be offered a chunk has a dispatch under way.
Moving(p, ps, S, b, rs) ==
    conn[p] /\ Offer(ps, S) # {} => b # <<>> \/ rs # <<>> \/ pc[p] = "write"

\* The same of what the data loop is writing and of what it has written.
Writing(p) == IF pc[p] = "write" THEN job[p] ELSE NoChunk
Traced(p, ps, b, rs, a) == Followed(ps, b, Writing(p), rs, a, wrote[p])

\* While results are not confused, dispatches are followed to their end.
PathAt(p) ==
    /\ Belongs(p, peer[p], box[p], results[p], att[p])
    /\ Awake(p, box[p], wake[p])
    /\ Moving(p, peer[p], strat, box[p], results[p])
    /\ p \notin tainted =>
          /\ peer[p].on /\ conn[p] => Traced(p, peer[p], box[p], results[p], att[p])
          /\ twice[p] = {}

PathInv == \A p \in Peers : PathAt(p)

-----------------------------------------------------------------------------
(* drainPolls. *)

\* The inventory alone decides whether routing is emitted.
LEMMA EmitByHave ==
    ASSUME NEW S, NEW R, S.have = R.have
    PROVE  ShouldEmitRouting(S) <=> ShouldEmitRouting(R)
BY DEF ShouldEmitRouting

\* allocate offers a peer a chunk that is not in flight to it and is within budget.
LEMMA PicksOffer ==
    ASSUME NEW P, NEW S, NEW f \in Picks(P, S)
    PROVE  /\ DOMAIN f \subseteq Peers
           /\ \A p \in DOMAIN f : /\ f[p] \in Chunks /\ P[p].on
                                  /\ P[p].inflight[f[p]] = 0
                                  /\ S.origin \/ S.sent[f[p]] < ForwardMultiplier
BY Zenon DEF Picks, Offer, WithinBudget

\* drainPolls changes no more of the strategy than its allocations and its dirty
\* flag, and of a peer what is in flight to it.
LEMMA DrainKeepsPeers ==
    ASSUME NEW P, NEW S, NEW B, NEW T, Typed(P, S), Drain(P, S, B, T)
    PROVE  /\ strat'.have = S.have /\ strat'.sent = S.sent /\ strat'.origin = S.origin
           /\ \A p \in Peers : peer'[p].on = P[p].on /\ peer'[p].done = P[p].done
<1>1. PICK f \in Picks(P, S) :
          LET kept == {p \in DOMAIN f : ~SlotFull(B[p])} IN
          /\ peer' = [p \in Peers |-> IF p \in kept
                THEN [P[p] EXCEPT !.inflight[f[p]] = @ + 1] ELSE P[p]]
          /\ strat' = [S EXCEPT
                !.dirty = @ /\ ~ShouldEmitRouting(S),
                !.times = [c \in Chunks |->
                    @[c] + Cardinality({p \in kept : f[p] = c})]]
  BY Zenon DEF Drain
<1>2. ASSUME NEW p \in Peers
      PROVE  peer'[p].on = P[p].on /\ peer'[p].done = P[p].done
  BY <1>1 DEF Typed, PeerType
<1>3. strat'.have = S.have /\ strat'.sent = S.sent /\ strat'.origin = S.origin
  BY <1>1 DEF Typed, StratType
<1> QED
  BY <1>2, <1>3

LEMMA DrainQueues ==
    ASSUME NEW P, NEW S, NEW B, NEW T, Typed(P, S), Drain(P, S, B, T),
           B \in [Peers -> Seq(Dispatches)], T \in [Peers -> SUBSET Chunks],
           wake \in [Peers -> BOOLEAN], att' \in [Peers -> Nat],
           \A p \in Peers : P[p].on => att'[p] >= 1
    PROVE  /\ box' \in [Peers -> Seq(Dispatches)]
           /\ told' \in [Peers -> SUBSET Chunks]
           /\ wake' \in [Peers -> BOOLEAN]
           /\ \A p \in Peers : peer'[p].on => att'[p] >= 1
<1>1. PICK f \in Picks(P, S) :
          LET pushed == {p \in DOMAIN f : Len(B[p]) < OutboxCap} IN
          /\ box' = [p \in Peers |-> IF p \in pushed
                THEN Append(B[p], [c |-> f[p], a |-> att'[p], live |-> TRUE])
                ELSE B[p]]
          /\ wake' = [p \in Peers |-> Woken(wake[p], p \in pushed)]
  BY Zenon DEF Drain
<1> DEFINE pushed == {p \in DOMAIN f : Len(B[p]) < OutboxCap}
<1>2. ASSUME NEW p \in Peers
      PROVE  box'[p] \in Seq(Dispatches)
  <2>1. CASE p \in pushed
    <3>1. f[p] \in Chunks /\ P[p].on
      BY <2>1, PicksOffer
    <3>2. att'[p] \in Nat \ {0}
      BY <3>1
    <3>3. [c |-> f[p], a |-> att'[p], live |-> TRUE] \in Dispatches
      BY <3>1, <3>2 DEF Dispatches
    <3>4. box'[p] = Append(B[p], [c |-> f[p], a |-> att'[p], live |-> TRUE])
      BY <1>1, <2>1
    <3> QED
      BY <3>3, <3>4
  <2>2. CASE p \notin pushed
    BY <1>1, <2>2
  <2> QED
    BY <2>1, <2>2
<1>3. box' \in [Peers -> Seq(Dispatches)]
  BY <1>1, <1>2
<1>4. told' \in [Peers -> SUBSET Chunks]
  BY DEF Drain, Typed, StratType
<1>5. wake' \in [Peers -> BOOLEAN]
  BY <1>1, Zenon DEF Woken
<1>6. \A p \in Peers : peer'[p].on => att'[p] >= 1
  BY Zenon, DrainKeepsPeers
<1> QED
  BY <1>3, <1>4, <1>5, <1>6

\* What drainPolls does for one peer: nothing, if there is nothing to offer or the
\* outbox is full, or one dispatch of a chunk it may be offered.
LEMMA DrainGives ==
    ASSUME NEW P, NEW S, NEW B, NEW T, Drain(P, S, B, T), NEW q \in Peers,
           P \in [Peers -> PeerType], B \in [Peers -> Seq(Dispatches)]
    PROVE  \/ /\ peer'[q] = P[q] /\ box'[q] = B[q]
              /\ wake[q] => wake'[q]
              /\ Offer(P[q], S) # {} => B[q] # <<>>
           \/ \E c \in Offer(P[q], S) :
                 /\ peer'[q] = [P[q] EXCEPT !.inflight[c] = @ + 1]
                 /\ box'[q] = Append(B[q], [c |-> c, a |-> att'[q], live |-> TRUE])
                 /\ wake'[q]
<1>1. PICK f \in Picks(P, S) :
        LET kept == {p \in DOMAIN f : ~SlotFull(B[p])}
            pushed == {p \in DOMAIN f : Len(B[p]) < OutboxCap}
        IN
        /\ peer' = [p \in Peers |-> IF p \in kept
                THEN [P[p] EXCEPT !.inflight[f[p]] = @ + 1] ELSE P[p]]
        /\ box' = [p \in Peers |-> IF p \in pushed
                THEN Append(B[p], [c |-> f[p], a |-> att'[p], live |-> TRUE])
                ELSE B[p]]
        /\ wake' = [p \in Peers |-> Woken(wake[p], p \in pushed)]
  BY Zenon DEF Drain
<1>2. /\ DOMAIN f = {p \in Peers : Offer(P[p], S) # {}}
      /\ \A p \in DOMAIN f : f[p] \in Offer(P[p], S)
  BY DEF Picks
<1>3. Len(B[q]) \in Nat /\ OutboxCap \in Nat \ {0} /\ (Len(B[q]) > 0 => B[q] # <<>>)
  BY ChunkSendAssumption
<1>4. CASE q \in DOMAIN f /\ Len(B[q]) < OutboxCap
  <2>1. ~SlotFull(B[q])
    BY <1>3, <1>4 DEF SlotFull
  <2>2. /\ peer'[q] = [P[q] EXCEPT !.inflight[f[q]] = @ + 1]
        /\ box'[q] = Append(B[q], [c |-> f[q], a |-> att'[q], live |-> TRUE])
    BY <1>1, <1>4, <2>1
  <2>3. wake'[q]
    BY <1>1, <1>4, Zenon DEF Woken
  <2>4. f[q] \in Offer(P[q], S)
    BY <1>2, <1>4
  <2> QED
    BY Zenon, <2>2, <2>3, <2>4
<1>5. CASE ~(q \in DOMAIN f /\ Len(B[q]) < OutboxCap)
  <2>1. ~(q \in DOMAIN f /\ ~SlotFull(B[q]))
    BY <1>3, <1>5 DEF SlotFull
  <2>2. peer'[q] = P[q] /\ box'[q] = B[q]
    BY <1>1, <1>5, <2>1
  <2>3. wake[q] => wake'[q]
    BY <1>1, Zenon DEF Woken
  <2>4. Offer(P[q], S) # {} => B[q] # <<>>
    BY <1>2, <1>3, <1>5
  <2> QED
    BY <2>2, <2>3, <2>4
<1> QED
  BY Zenon, <1>4, <1>5

LEMMA KillType ==
    ASSUME NEW b \in Seq(Dispatches), NEW C
    PROVE  Kill(b, C) \in Seq(Dispatches)
<1>1. \A i \in 1..Len(b) : b[i] \in Dispatches
  OBVIOUS
<1>2. DOMAIN b = 1..Len(b) /\ Len(b) \in Nat
  OBVIOUS
<1>3. ASSUME NEW i \in 1..Len(b)
      PROVE  [b[i] EXCEPT !.live = @ /\ b[i].c \notin C] \in Dispatches
  <2>1. (b[i].live /\ b[i].c \notin C) \in BOOLEAN
    OBVIOUS
  <2> QED
    BY Zenon, <1>1, <2>1 DEF Dispatches
<1>4. Kill(b, C) = [i \in 1..Len(b) |-> [b[i] EXCEPT !.live = @ /\ b[i].c \notin C]]
  BY <1>2 DEF Kill
<1> QED
  BY <1>2, <1>3, <1>4

\* A dispatch is added of a chunk that was not in flight and not known.
LEMMA AddFollowed ==
    ASSUME NEW ps \in PeerType, NEW b \in Seq(Dispatches), NEW j, NEW rs, NEW a, NEW w,
           Followed(ps, b, j, rs, a, w), NEW d \in Chunks,
           ps.inflight[d] = 0, d \notin ps.bitmap
    PROVE  Followed([ps EXCEPT !.inflight[d] = @ + 1],
                    Append(b, [c |-> d, a |-> a, live |-> TRUE]), j, rs, a, w)
<1> DEFINE qs == [ps EXCEPT !.inflight[d] = @ + 1]
           e == [c |-> d, a |-> a, live |-> TRUE]
           more == Append(b, e)
<1>1. /\ qs.bitmap = ps.bitmap
      /\ \A c \in Chunks : qs.inflight[c] = IF c = d THEN 1 ELSE ps.inflight[c]
  BY DEF PeerType
<1>2. /\ DOMAIN more = 1..(Len(b) + 1) /\ DOMAIN b = 1..Len(b) /\ Len(b) \in Nat
      /\ \A i \in DOMAIN b : more[i] = b[i]
      /\ more[Len(b) + 1] = e /\ e.c = d
  OBVIOUS
<1> HIDE DEF qs, e, more
<1>3. ~Waits(b, d) /\ ~Writes(j, d, a) /\ ~Ends(rs, d, a)
  BY DEF Followed, Sole
<1>4. d \notin w
  BY <1>3 DEF Followed, Confirmed, Ends, Succeeds
<1>5. ASSUME NEW c \in Chunks
      PROVE  Waits(more, c) <=> Waits(b, c) \/ c = d
  BY <1>2 DEF Waits
<1>6. ASSUME NEW c \in Chunks
      PROVE  \A i, k \in DOMAIN more : more[i].c = c /\ more[k].c = c => i = k
  BY <1>2, <1>3 DEF Followed, Sole, Waits
<1>7. ASSUME NEW c \in Chunks
      PROVE  Sole(qs, more, j, rs, a, c)
  BY <1>1, <1>3, <1>5, <1>6 DEF Followed, Sole
<1>8. ASSUME NEW c \in Chunks
      PROVE  Confirmed(qs, rs, a, w, c)
  BY <1>1, <1>4 DEF Followed, Confirmed
<1> QED
  BY Zenon, <1>7, <1>8 DEF Followed, qs, more, e

LEMMA KillSame ==
    ASSUME NEW b \in Seq(Dispatches), NEW C
    PROVE  /\ DOMAIN Kill(b, C) = DOMAIN b
           /\ \A i \in DOMAIN b : Kill(b, C)[i].c = b[i].c /\ Kill(b, C)[i].a = b[i].a
           /\ Kill(b, C) = <<>> <=> b = <<>>
<1>1. DOMAIN b = 1..Len(b) /\ Len(b) \in Nat /\ \A i \in DOMAIN b : b[i] \in Dispatches
  OBVIOUS
<1>2. Kill(b, C) \in Seq(Dispatches)
  BY KillType
<1>3. DOMAIN Kill(b, C) = DOMAIN b
  BY DEF Kill
<1>4. ASSUME NEW i \in DOMAIN b
      PROVE  Kill(b, C)[i].c = b[i].c /\ Kill(b, C)[i].a = b[i].a
  BY <1>1 DEF Kill, Dispatches
<1>5. Kill(b, C) = <<>> <=> b = <<>>
  BY <1>1, <1>2, <1>3
<1> QED
  BY <1>3, <1>4, <1>5

\* Cancelled sends stay where they are, and a bitmap may grow.
LEMMA KillFollowed ==
    ASSUME NEW ps, NEW qs, NEW b \in Seq(Dispatches), NEW C, NEW j, NEW rs, NEW a, NEW w,
           Followed(ps, b, j, rs, a, w),
           qs.inflight = ps.inflight, ps.bitmap \subseteq qs.bitmap
    PROVE  Followed(qs, Kill(b, C), j, rs, a, w) /\ Followed(qs, b, j, rs, a, w)
<1> DEFINE kb == Kill(b, C)
<1>1. DOMAIN kb = DOMAIN b /\ \A i \in DOMAIN b : kb[i].c = b[i].c
  BY KillSame
<1> HIDE DEF kb
<1>2. \A c \in Chunks : Waits(kb, c) <=> Waits(b, c)
  BY <1>1 DEF Waits
<1>3. \A c \in Chunks : Sole(qs, kb, j, rs, a, c) /\ Sole(qs, b, j, rs, a, c)
  BY <1>1, <1>2 DEF Followed, Sole
<1>4. \A c \in Chunks : Confirmed(qs, rs, a, w, c)
  BY DEF Followed, Confirmed
<1> QED
  BY <1>3, <1>4 DEF Followed, kb

\* ChunkSent of a result of this attachment: it is the one dispatch that was
\* counted, and a success is remembered in the bitmap.
LEMMA SentFollowed ==
    ASSUME NEW ps \in PeerType, NEW b, NEW j, NEW rs \in Seq(Reports), NEW a, NEW w,
           Followed(ps, b, j, rs, a, w), rs # <<>>, ps.on, Head(rs).a = a
    PROVE  Followed(SentPeer(ps, Head(rs).c, Head(rs).ok), b, j, Tail(rs), a, w)
<1> DEFINE r == Head(rs)
           tl == Tail(rs)
           qs == SentPeer(ps, r.c, r.ok)
<1>1. /\ r = rs[1] /\ r \in Reports /\ DOMAIN rs = 1..Len(rs) /\ Len(rs) \in Nat \ {0}
      /\ DOMAIN tl = 1..(Len(rs) - 1) /\ \A i \in DOMAIN tl : tl[i] = rs[i + 1]
  OBVIOUS
<1>2. r.c \in Chunks /\ r.ok \in BOOLEAN
  BY <1>1 DEF Reports
<1>3. IsResult(rs, 1, r.c, a) /\ 1 \in DOMAIN rs
  BY <1>1 DEF IsResult
<1>4. ps.inflight[r.c] = 1
  BY <1>2, <1>3 DEF Followed, Sole, Ends
<1>5. qs = [ps EXCEPT !.inflight[r.c] = @ - 1, !.bitmap = BitmapAfter(ps, r.c, r.ok)]
  BY <1>4 DEF SentPeer, SentCounts
<1>6. /\ \A c \in Chunks : qs.inflight[c] = IF c = r.c THEN 0 ELSE ps.inflight[c]
      /\ qs.bitmap = BitmapAfter(ps, r.c, r.ok)
  <2> DEFINE less == [ps.inflight EXCEPT ![r.c] = 0]
             bits == BitmapAfter(ps, r.c, r.ok)
  <2>1. qs = [ps EXCEPT !.inflight = less, !.bitmap = bits]
    BY <1>4, <1>5 DEF PeerType
  <2>2. \A c \in Chunks : less[c] = IF c = r.c THEN 0 ELSE ps.inflight[c]
    BY <1>2 DEF PeerType
  <2> HIDE DEF less, bits, qs, r
  <2>3. qs.inflight = less /\ qs.bitmap = bits
    BY <2>1 DEF PeerType
  <2> QED
    BY <2>2, <2>3 DEF bits
<1> HIDE DEF qs, r, tl
<1>7. ~Waits(b, r.c) /\ ~Writes(j, r.c, a)
  BY <1>2, <1>3 DEF Followed, Sole, Ends
<1>8. ASSUME NEW c \in Chunks, c # r.c
      PROVE  Ends(tl, c, a) <=> Ends(rs, c, a)
  <2>1. ASSUME NEW i \in DOMAIN rs, IsResult(rs, i, c, a)
        PROVE  i - 1 \in DOMAIN tl /\ IsResult(tl, i - 1, c, a)
    <3>1. i # 1
      BY <1>1, <1>8, <2>1 DEF IsResult
    <3> QED
      BY <1>1, <2>1, <3>1 DEF IsResult
  <2>2. ASSUME NEW i \in DOMAIN tl, IsResult(tl, i, c, a)
        PROVE  i + 1 \in DOMAIN rs /\ IsResult(rs, i + 1, c, a)
    BY <1>1, <2>2 DEF IsResult
  <2> QED
    BY <2>1, <2>2 DEF Ends
<1>9. ~Ends(tl, r.c, a)
  <2> SUFFICES ASSUME NEW i \in DOMAIN tl, IsResult(tl, i, r.c, a) PROVE FALSE
    BY DEF Ends
  <2>1. i + 1 \in DOMAIN rs /\ IsResult(rs, i + 1, r.c, a) /\ i + 1 # 1
    BY <1>1 DEF IsResult
  <2> QED
    BY <1>2, <1>3, <2>1 DEF Followed, Sole, Single
<1>10. ASSUME NEW c \in Chunks
       PROVE  Single(tl, c, a)
  <2> SUFFICES ASSUME NEW i \in DOMAIN tl, NEW k \in DOMAIN tl,
                      IsResult(tl, i, c, a), IsResult(tl, k, c, a)
               PROVE  i = k
    BY DEF Single
  <2>1. /\ i + 1 \in DOMAIN rs /\ IsResult(rs, i + 1, c, a)
        /\ k + 1 \in DOMAIN rs /\ IsResult(rs, k + 1, c, a)
    BY <1>1 DEF IsResult
  <2>2. i + 1 = k + 1
    BY <2>1 DEF Followed, Sole, Single
  <2> QED
    BY <1>1, <2>2
<1>11. ASSUME NEW c \in Chunks
       PROVE  Sole(qs, b, j, tl, a, c)
  <2>1. CASE c = r.c
    BY <1>6, <1>7, <1>9, <1>10, <2>1 DEF Followed, Sole
  <2>2. CASE c # r.c
    BY <1>6, <1>8, <1>10, <2>2 DEF Followed, Sole
  <2> QED
    BY <2>1, <2>2
<1>12. ASSUME NEW c \in Chunks, c \in w
       PROVE  \/ qs.inflight[c] = 0 /\ c \in qs.bitmap
              \/ Succeeds(tl, c, a)
  <2>1. CASE c = r.c
    <3>1. PICK i \in DOMAIN rs : IsResult(rs, i, c, a) /\ rs[i].ok
      BY <1>4, <1>12, <2>1 DEF Followed, Confirmed, Succeeds
    <3>2. i = 1
      BY <1>3, <2>1, <3>1 DEF Followed, Sole, Single
    <3> QED
      BY <1>1, <1>6, <2>1, <3>1, <3>2 DEF BitmapAfter
  <2>2. CASE c # r.c
    <3>1. CASE ps.inflight[c] = 0 /\ c \in ps.bitmap
      BY <1>6, <2>2, <3>1 DEF BitmapAfter
    <3>2. CASE Succeeds(rs, c, a)
      <4>1. PICK i \in DOMAIN rs : IsResult(rs, i, c, a) /\ rs[i].ok
        BY <3>2 DEF Succeeds
      <4>2. i # 1
        BY <1>1, <2>2, <4>1 DEF IsResult
      <4>3. i - 1 \in DOMAIN tl /\ tl[i - 1] = rs[i]
        BY <1>1, <4>2
      <4> QED
        BY <4>1, <4>3 DEF IsResult, Succeeds
    <3> QED
      BY <1>12, <3>1, <3>2 DEF Followed, Confirmed
  <2> QED
    BY <2>1, <2>2
<1> QED
  BY <1>11, <1>12 DEF Followed, Confirmed, qs, r, tl

\* A new attachment has no dispatch yet.
LEMMA NewFollowed ==
    ASSUME NEW ps, NEW j, NEW rs, NEW a, j.a # a,
           \A c \in Chunks : ps.inflight[c] = 0,
           \A i \in DOMAIN rs : rs[i].a # a
    PROVE  Followed(ps, <<>>, j, rs, a, {})
<1>1. ASSUME NEW c \in Chunks
      PROVE  ~Waits(<<>>, c) /\ ~Writes(j, c, a) /\ \A i \in DOMAIN rs : ~IsResult(rs, i, c, a)
  BY DEF Waits, Writes, IsResult
<1> QED
  BY <1>1 DEF Followed, Sole, Confirmed, Ends, Succeeds, Single

LEMMA NoPlaces == DOMAIN <<>> = {}
OBVIOUS

\* What drainPolls does for one peer keeps its part of the invariant.
LEMMA DrainPath ==
    ASSUME NEW P, NEW S, NEW B, NEW T, Typed(P, S), Drain(P, S, B, T),
           B \in [Peers -> Seq(Dispatches)], NEW q \in Peers,
           UNCHANGED <<loop, wrote>>,
           Belongs(q, P[q], B[q], results'[q], att'[q]),
           Awake(q, B[q], wake[q]),
           q \notin tainted' =>
              /\ P[q].on /\ conn[q] => Traced(q, P[q], B[q], results'[q], att'[q])
              /\ twice'[q] = {}
    PROVE  PathAt(q)'
<1>1. P \in [Peers -> PeerType] /\ P[q] \in PeerType /\ B[q] \in Seq(Dispatches)
  BY DEF Typed
<1>2. /\ conn' = conn /\ slot' = slot /\ oldbox' = oldbox /\ pc' = pc /\ job' = job
      /\ wrote' = wrote
  BY DEF loop
<1>3. /\ strat'.have = S.have /\ strat'.sent = S.sent /\ strat'.origin = S.origin
      /\ peer'[q].on = P[q].on /\ peer'[q].done = P[q].done
  BY Zenon, DrainKeepsPeers
<1> DEFINE e(c) == [c |-> c, a |-> att'[q], live |-> TRUE]
<1>4. CASE /\ peer'[q] = P[q] /\ box'[q] = B[q]
           /\ wake[q] => wake'[q]
           /\ Offer(P[q], S) # {} => B[q] # <<>>
  <2>1. Belongs(q, peer[q], box[q], results[q], att[q])'
    BY Zenon, <1>2, <1>4 DEF Belongs
  <2>2. Awake(q, box[q], wake[q])'
    BY <1>2, <1>4, Zenon DEF Awake
  <2>3. Offer(peer'[q], strat') = Offer(P[q], S)
    BY Zenon, <1>3, <1>4 DEF Offer, WithinBudget
  <2>4. Moving(q, peer[q], strat, box[q], results[q])'
    BY Zenon, <1>2, <1>4, <2>3 DEF Moving
  <2>5. P[q].on /\ conn[q] /\ Traced(q, P[q], B[q], results'[q], att'[q])
          => Traced(q, peer[q], box[q], results[q], att[q])'
    BY <1>2, <1>4 DEF Traced, Writing
  <2> QED
    BY <1>2, <1>3, <2>1, <2>2, <2>4, <2>5 DEF PathAt
<1>5. CASE \E c \in Offer(P[q], S) :
                 /\ peer'[q] = [P[q] EXCEPT !.inflight[c] = @ + 1]
                 /\ box'[q] = Append(B[q], [c |-> c, a |-> att'[q], live |-> TRUE])
                 /\ wake'[q]
  <2>1. PICK c \in Offer(P[q], S) :
                 /\ peer'[q] = [P[q] EXCEPT !.inflight[c] = @ + 1]
                 /\ box'[q] = Append(B[q], e(c))
                 /\ wake'[q]
    BY Zenon, <1>5
  <2>2. c \in Chunks /\ P[q].on /\ P[q].inflight[c] = 0 /\ c \notin P[q].bitmap
    BY <1>1 DEF Offer, Typed, StratType
  <2>3. /\ box'[q] # <<>> /\ DOMAIN box'[q] = 1..(Len(B[q]) + 1)
        /\ DOMAIN B[q] = 1..Len(B[q]) /\ Len(B[q]) \in Nat
        /\ \A i \in DOMAIN B[q] : box'[q][i] = B[q][i]
        /\ box'[q][Len(B[q]) + 1].a = att'[q]
    <3> DEFINE b == B[q]
               d == e(c)
    <3>1. d.a = att'[q] /\ b \in Seq(Dispatches)
      BY <1>1
    <3> HIDE DEF b, d
    <3>2. /\ DOMAIN Append(b, d) = 1..(Len(b) + 1)
          /\ DOMAIN b = 1..Len(b) /\ Len(b) \in Nat
          /\ \A i \in DOMAIN b : Append(b, d)[i] = b[i]
          /\ Append(b, d)[Len(b) + 1] = d
      BY <3>1
    <3>3. Append(b, d) # <<>>
      <4>1. Len(b) + 1 \in DOMAIN Append(b, d)
        BY <3>2
      <4> QED
        BY <4>1
    <3> QED
      BY <2>1, <3>1, <3>2, <3>3 DEF b, d
  <2>4. \A i \in DOMAIN box'[q] : box'[q][i].a = att'[q]
    <3>1. \A i \in 1..(Len(B[q]) + 1) : i \in 1..Len(B[q]) \/ i = Len(B[q]) + 1
      BY <2>3
    <3>2. \A i \in 1..Len(B[q]) : B[q][i].a = att'[q]
      BY Zenon, <2>3 DEF Belongs
    <3> QED
      BY Zenon, <2>3, <3>1, <3>2
  <2>5. Belongs(q, peer[q], box[q], results[q], att[q])'
    BY <1>2, <1>3, <2>2, <2>4 DEF Belongs
  <2>6. Awake(q, box[q], wake[q])'
    BY <2>1 DEF Awake
  <2>7. Moving(q, peer[q], strat, box[q], results[q])'
    BY ZenonT(40), <2>3 DEF Moving
  <2>8. ASSUME Traced(q, P[q], B[q], results'[q], att'[q])
        PROVE  Traced(q, peer[q], box[q], results[q], att[q])'
    <3>1. Traced(q, peer'[q], box'[q], results'[q], att'[q])
      BY <1>1, <2>1, <2>2, <2>8, AddFollowed DEF Traced
    <3> QED
      BY Zenon, <1>2, <3>1 DEF Traced, Writing
  <2> QED
    BY Zenon, <1>2, <1>3, <2>5, <2>6, <2>7, <2>8 DEF PathAt
<1> QED
  BY Zenon, <1>1, <1>4, <1>5, DrainGives

LEMMA DrainOther ==
    ASSUME NEW P, NEW S, NEW B, NEW T, Typed(P, S), Drain(P, S, B, T),
           B \in [Peers -> Seq(Dispatches)], NEW q \in Peers, PathAt(q),
           UNCHANGED <<loop, wrote, twice>>,
           P[q] = peer[q], B[q] = box[q], results'[q] = results[q], att'[q] = att[q],
           q \notin tainted' => q \notin tainted
    PROVE  PathAt(q)'
<1>1. Belongs(q, P[q], B[q], results'[q], att'[q]) /\ Awake(q, B[q], wake[q])
  BY Zenon DEF PathAt
<1>2. Traced(q, P[q], B[q], results'[q], att'[q])
        <=> Traced(q, peer[q], box[q], results[q], att[q])
  BY Zenon
<1>3. q \notin tainted' =>
         /\ P[q].on /\ conn[q] => Traced(q, P[q], B[q], results'[q], att'[q])
         /\ twice'[q] = {}
  BY Zenon, <1>2 DEF PathAt
<1> QED
  BY Zenon, <1>1, <1>3, DrainPath

LEMMA PathTypes ==
    ASSUME Queues, NEW p \in Peers
    PROVE  /\ att[p] \in Nat
           /\ box[p] \in Seq(Dispatches) /\ oldbox[p] \in Seq(Dispatches)
           /\ results[p] \in Seq(Reports)
           /\ \A i \in DOMAIN box[p] : box[p][i].a \in Nat /\ box[p][i].c \in Chunks
           /\ \A i \in DOMAIN oldbox[p] : oldbox[p][i].a \in Nat
           /\ \A i \in DOMAIN results[p] : results[p][i].a \in Nat
           /\ pc[p] = "write" => job[p].a \in Nat /\ job[p].c \in Chunks
<1>1. /\ box[p] \in Seq(Dispatches) /\ oldbox[p] \in Seq(Dispatches)
      /\ results[p] \in Seq(Reports) /\ att[p] \in Nat
      /\ pc[p] = "write" => job[p] \in Dispatches
  BY DEF Queues
<1>2. \A d \in Dispatches : d.a \in Nat /\ d.c \in Chunks
  BY <1>1 DEF Dispatches
<1>3. \A d \in Reports : d.a \in Nat
  BY <1>1 DEF Reports
<1>4. /\ \A i \in DOMAIN box[p] : box[p][i] \in Dispatches
      /\ \A i \in DOMAIN oldbox[p] : oldbox[p][i] \in Dispatches
      /\ \A i \in DOMAIN results[p] : results[p][i] \in Reports
  BY <1>1
<1> QED
  BY <1>1, <1>2, <1>3, <1>4

\* A peer whose state does not change.
LEMMA SamePath ==
    ASSUME NEW q \in Peers, PathAt(q), strat' = strat, peer'[q] = peer[q], box'[q] = box[q],
           conn'[q] = conn[q], slot'[q] = slot[q], oldbox'[q] = oldbox[q], pc'[q] = pc[q],
           job'[q] = job[q], wake'[q] = wake[q], results'[q] = results[q],
           att'[q] = att[q], wrote'[q] = wrote[q], twice'[q] = twice[q],
           q \notin tainted' => q \notin tainted
    PROVE  PathAt(q)'
<1>1. Belongs(q, peer[q], box[q], results[q], att[q])'
  BY Zenon DEF PathAt, Belongs
<1>2. Awake(q, box[q], wake[q])'
  BY Zenon DEF PathAt, Awake
<1>3. Moving(q, peer[q], strat, box[q], results[q])'
  BY Zenon DEF PathAt, Moving
<1>4. Traced(q, peer[q], box[q], results[q], att[q])
        => Traced(q, peer[q], box[q], results[q], att[q])'
  BY Zenon DEF Traced, Writing
<1> QED
  BY Zenon, <1>1, <1>2, <1>3, <1>4 DEF PathAt

-----------------------------------------------------------------------------
(* The data loop. *)

\* What Append and Tail do to the places of a sequence.
LEMMA Appended ==
    ASSUME NEW R, NEW s \in Seq(R), NEW x
    PROVE  /\ DOMAIN Append(s, x) = DOMAIN s \union {Len(s) + 1} /\ Len(s) + 1 \notin DOMAIN s
           /\ \A i \in DOMAIN s : Append(s, x)[i] = s[i]
           /\ Append(s, x)[Len(s) + 1] = x
           /\ Append(s, x) # <<>>
<1>1. /\ DOMAIN Append(s, x) = 1..(Len(s) + 1) /\ DOMAIN s = 1..Len(s) /\ Len(s) \in Nat
      /\ \A i \in DOMAIN s : Append(s, x)[i] = s[i]
      /\ Append(s, x)[Len(s) + 1] = x
  OBVIOUS
<1>2. Len(s) + 1 \in DOMAIN Append(s, x)
  BY <1>1
<1>3. Append(s, x) # <<>>
  BY <1>2
<1> QED
  BY <1>1, <1>3

LEMMA Unqueued ==
    ASSUME NEW R, NEW s \in Seq(R), s # <<>>
    PROVE  /\ 1 \in DOMAIN s /\ Head(s) = s[1]
           /\ \A i \in DOMAIN Tail(s) : /\ i + 1 \in DOMAIN s /\ i + 1 # 1
                                        /\ Tail(s)[i] = s[i + 1]
           /\ \A i \in DOMAIN s : i # 1 => i - 1 \in DOMAIN Tail(s) /\ i = (i - 1) + 1
           /\ \A i, k \in DOMAIN Tail(s) : i + 1 = k + 1 => i = k
OBVIOUS

\* A dispatch leaves the outbox: it was the only one of its chunk there.
LEMMA LeaveOutbox ==
    ASSUME NEW b \in Seq(Dispatches), b # <<>>, NEW c,
           \A i, k \in DOMAIN b : b[i].c = c /\ b[k].c = c => i = k
    PROVE  /\ Waits(b, c) <=> Waits(Tail(b), c) \/ c = Head(b).c
           /\ ~(Waits(Tail(b), c) /\ c = Head(b).c)
           /\ \A i, k \in DOMAIN Tail(b) : Tail(b)[i].c = c /\ Tail(b)[k].c = c => i = k
BY Unqueued DEF Waits

\* A result is added.
LEMMA AddResult ==
    ASSUME NEW rs \in Seq(Reports), NEW r, NEW c, NEW a
    PROVE  /\ Ends(Append(rs, r), c, a) <=> Ends(rs, c, a) \/ (r.c = c /\ r.a = a)
           /\ Succeeds(Append(rs, r), c, a) <=>
                Succeeds(rs, c, a) \/ (r.c = c /\ r.a = a /\ r.ok)
           /\ Single(rs, c, a) /\ ~(Ends(rs, c, a) /\ r.c = c /\ r.a = a)
                => Single(Append(rs, r), c, a)
<1> DEFINE more == Append(rs, r)
           n == Len(rs) + 1
<1>1. /\ DOMAIN more = DOMAIN rs \union {n} /\ n \notin DOMAIN rs
      /\ \A i \in DOMAIN rs : more[i] = rs[i]
      /\ more[n] = r
  BY Appended
<1> HIDE DEF more, n
<1>2. \A i \in DOMAIN rs : IsResult(more, i, c, a) <=> IsResult(rs, i, c, a)
  BY <1>1 DEF IsResult
<1>3. IsResult(more, n, c, a) <=> r.c = c /\ r.a = a
  BY <1>1 DEF IsResult
<1> QED
  BY <1>1, <1>2, <1>3 DEF Ends, Succeeds, Single, more

\* doSendChunk of a cancelled chunk: from the outbox to the results.
LEMMA SkipFollowed ==
    ASSUME NEW ps, NEW b \in Seq(Dispatches), b # <<>>, NEW j, NEW rs \in Seq(Reports),
           NEW a, NEW w, Followed(ps, b, j, rs, a, w), Head(b).a = a, Head(b).c \in Chunks,
           NEW r, r.c = Head(b).c, r.a = a
    PROVE  Followed(ps, Tail(b), j, Append(rs, r), a, w)
<1>1. Waits(b, r.c)
  BY Unqueued DEF Waits
<1>2. ~Ends(rs, r.c, a) /\ ~Writes(j, r.c, a) /\ ps.inflight[r.c] = 1
  BY <1>1 DEF Followed, Sole
<1>3. r.c \notin w
  <2>1. Confirmed(ps, rs, a, w, r.c)
    BY Zenon DEF Followed
  <2>2. ~Succeeds(rs, r.c, a)
    BY Zenon, <1>2 DEF Ends, Succeeds
  <2>3. ps.inflight[r.c] # 0
    BY ONLY <1>2
  <2> QED
    BY Zenon, <2>1, <2>2, <2>3 DEF Confirmed
<1>4. ASSUME NEW c \in Chunks
      PROVE  Sole(ps, Tail(b), j, Append(rs, r), a, c)
  <2>1. Sole(ps, b, j, rs, a, c)
    BY Zenon DEF Followed
  <2> QED
    BY ZenonT(40), <1>2, <2>1, LeaveOutbox, AddResult DEF Sole
<1>5. ASSUME NEW c \in Chunks
      PROVE  Confirmed(ps, Append(rs, r), a, w, c)
  BY <1>3, AddResult DEF Followed, Confirmed
<1> QED
  BY <1>4, <1>5 DEF Followed

\* The result of a dispatch of another attachment.
LEMMA LateResult ==
    ASSUME NEW ps, NEW b, NEW j, NEW rs \in Seq(Reports), NEW a, NEW w,
           Followed(ps, b, j, rs, a, w), NEW r, r.a # a
    PROVE  Followed(ps, b, j, Append(rs, r), a, w)
<1>1. ASSUME NEW c \in Chunks
      PROVE  Sole(ps, b, j, Append(rs, r), a, c) /\ Confirmed(ps, Append(rs, r), a, w, c)
  BY AddResult DEF Followed, Sole, Confirmed
<1> QED
  BY Zenon, <1>1 DEF Followed

\* The write of a dispatch starts.
LEMMA StartFollowed ==
    ASSUME NEW ps, NEW b \in Seq(Dispatches), b # <<>>, NEW j, NEW rs, NEW a, j.a # a,
           NEW w, Followed(ps, b, j, rs, a, w), Head(b).a = a, Head(b).c \in Chunks
    PROVE  Followed(ps, Tail(b), Head(b), rs, a, w)
<1>1. ASSUME NEW c \in Chunks
      PROVE  Sole(ps, Tail(b), Head(b), rs, a, c) /\ Confirmed(ps, rs, a, w, c)
  BY Zenon, LeaveOutbox DEF Followed, Sole, Writes
<1> QED
  BY Zenon, <1>1 DEF Followed

\* The write of a dispatch of another attachment starts or ends.
LEMMA LateWrite ==
    ASSUME NEW ps, NEW b, NEW j, NEW k, NEW rs, NEW a, NEW w, j.a # a, k.a # a,
           Followed(ps, b, j, rs, a, w)
    PROVE  Followed(ps, b, k, rs, a, w)
BY DEF Followed, Sole, Writes

\* The write of a dispatch ends.
LEMMA EndFollowed ==
    ASSUME NEW ps, NEW b, NEW j, NEW k, NEW rs \in Seq(Reports), NEW a, NEW w,
           Followed(ps, b, j, rs, a, w), j.c \in Chunks, j.a = a, k.a # a,
           NEW r, r.c = j.c, r.a = a
    PROVE  Followed(ps, b, k, Append(rs, r), a, w) /\ j.c \notin w
<1>1. Writes(j, j.c, a) /\ ~Ends(rs, j.c, a) /\ ~Waits(b, j.c) /\ ps.inflight[j.c] = 1
  BY DEF Followed, Sole, Writes
<1>2. j.c \notin w
  BY <1>1 DEF Followed, Confirmed, Ends, Succeeds
<1>3. ASSUME NEW c \in Chunks
      PROVE  Sole(ps, b, k, Append(rs, r), a, c)
  BY ZenonT(40), <1>1, AddResult DEF Followed, Sole, Writes
<1>4. ASSUME NEW c \in Chunks
      PROVE  Confirmed(ps, Append(rs, r), a, w, c)
  BY <1>2, AddResult DEF Followed, Confirmed
<1> QED
  BY <1>2, <1>3, <1>4 DEF Followed

\* A chunk whose success is reported may be counted written.
LEMMA SuccessFollowed ==
    ASSUME NEW ps, NEW b, NEW j, NEW rs, NEW a, NEW w, NEW c,
           Followed(ps, b, j, rs, a, w), Succeeds(rs, c, a)
    PROVE  Followed(ps, b, j, rs, a, w \union {c})
BY DEF Followed, Confirmed

\* The data loop keeps the types.
LEMMA LoopsQueues ==
    ASSUME Queues, NEW p \in Peers, Loops(p)
    PROVE  Queues'
<1>1. UNCHANGED <<strat, peer, told, stage>>
  BY Zenon DEF Loops, RegisterSlot, RegisterLate, UnregisterSlot, SkipCancelled, StartWrite,
         Sleep, Wake, EndWrite, Disconnect, Reconnect, session
<1>3. ASSUME NEW d \in Dispatches, NEW ok \in BOOLEAN, Report(p, d, ok)
      PROVE  results' \in [Peers -> Seq(Reports)]
  <2>1. [c |-> d.c, a |-> d.a, ok |-> ok] \in Reports
    BY DEF Dispatches, Reports
  <2>2. Append(results[p], [c |-> d.c, a |-> d.a, ok |-> ok]) \in Seq(Reports)
    BY <2>1 DEF Queues
  <2> QED
    BY Zenon, <1>3, <2>2 DEF Report, Queues
<1>4. ASSUME Registered(p) # <<>>, Unqueue(p)
      PROVE  /\ Head(Registered(p)) \in Dispatches
             /\ box' \in [Peers -> Seq(Dispatches)]
             /\ oldbox' \in [Peers -> Seq(Dispatches)]
  <2>0. box \in [Peers -> Seq(Dispatches)] /\ oldbox \in [Peers -> Seq(Dispatches)]
    BY Zenon DEF Queues
  <2>1. box[p] \in Seq(Dispatches) /\ oldbox[p] \in Seq(Dispatches)
        /\ slot[p] \in {"none", "cur", "old"}
    BY DEF Queues
  <2>2. CASE slot[p] = "cur"
    <3>1. Registered(p) = box[p]
      BY <2>2 DEF Registered
    <3>2. Tail(box[p]) \in Seq(Dispatches) /\ Head(box[p]) \in Dispatches
      BY <1>4, <2>1, <3>1
    <3>3. box' = [box EXCEPT ![p] = Tail(box[p])] /\ oldbox' = oldbox
      BY Zenon, <1>4, <2>2 DEF Unqueue
    <3> QED
      BY Zenon, <2>0, <3>1, <3>2, <3>3
  <2>3. CASE slot[p] # "cur"
    <3>1. Registered(p) = oldbox[p]
      BY <1>4, <2>1, <2>3 DEF Registered
    <3>2. Tail(oldbox[p]) \in Seq(Dispatches) /\ Head(oldbox[p]) \in Dispatches
      BY <1>4, <2>1, <3>1
    <3>3. oldbox' = [oldbox EXCEPT ![p] = Tail(oldbox[p])] /\ box' = box
      BY Zenon, <1>4, <2>3 DEF Unqueue
    <3> QED
      BY Zenon, <2>0, <3>1, <3>2, <3>3
  <2> QED
    BY <2>2, <2>3
<1>5. CASE RegisterSlot(p) \/ RegisterLate(p) \/ UnregisterSlot(p)
  <2>1. /\ slot' \in [Peers -> {"none", "cur", "old"}]
        /\ oldbox' \in [Peers -> Seq(Dispatches)]
        /\ pc' = [pc EXCEPT ![p] = "scan"]
        /\ UNCHANGED <<box, conn, job, wake, results, history>>
    <3>1. <<>> \in Seq(Dispatches)
      OBVIOUS
    <3>2. CASE RegisterSlot(p)
      BY <3>1, <3>2 DEF RegisterSlot, session, Queues
    <3>3. CASE RegisterLate(p)
      BY <3>3 DEF RegisterLate, session, Queues
    <3>4. CASE UnregisterSlot(p)
      BY <3>1, <3>4 DEF UnregisterSlot, session, Queues
    <3> QED
      BY <1>5, <3>2, <3>3, <3>4
  <2>2. Queues'
    BY <1>1, <2>1 DEF history, Queues
  <2> QED
    BY <2>2
<1>6. CASE Sleep(p) \/ Wake(p)
  <2>1. Queues'
    BY Zenon, <1>1, <1>6 DEF Sleep, Wake, session, history, Queues
  <2> QED
    BY <2>1
<1>7. CASE SkipCancelled(p)
  <2>1. /\ Head(Registered(p)) \in Dispatches
        /\ box' \in [Peers -> Seq(Dispatches)] /\ oldbox' \in [Peers -> Seq(Dispatches)]
    BY Zenon, <1>4, <1>7 DEF SkipCancelled
  <2>2. results' \in [Peers -> Seq(Reports)]
    BY Zenon, <1>3, <1>7, <2>1 DEF SkipCancelled
  <2>3. Queues'
    BY Zenon, <1>1, <1>7, <2>1, <2>2 DEF SkipCancelled, history, Queues
  <2> QED
    BY <2>3
<1>8. CASE StartWrite(p)
  <2>1. /\ Head(Registered(p)) \in Dispatches
        /\ box' \in [Peers -> Seq(Dispatches)] /\ oldbox' \in [Peers -> Seq(Dispatches)]
    BY <1>4, <1>8 DEF StartWrite
  <2>2. Queues'
    BY Zenon, <1>1, <1>8, <2>1 DEF StartWrite, history, Queues
  <2> QED
    BY <2>2
<1>9. ASSUME NEW ok \in BOOLEAN, EndWrite(p, ok)
      PROVE  Queues'
  <2>1. job[p] \in Dispatches /\ job[p].c \in Chunks
    BY Zenon, <1>9 DEF EndWrite, Queues, Dispatches
  <2>2. results' \in [Peers -> Seq(Reports)]
    BY <1>3, <1>9, <2>1 DEF EndWrite
  <2>3. twice' \in [Peers -> SUBSET Chunks] /\ wrote' \in [Peers -> SUBSET Chunks]
    BY Zenon, <1>9, <2>1 DEF EndWrite, Queues
  <2>4. Queues'
    BY <1>1, <1>9, <2>2, <2>3 DEF EndWrite, session, Queues
  <2> QED
    BY <2>4
<1>10. CASE Disconnect(p)
  <2>1. results' \in [Peers -> Seq(Reports)]
    <3>1. CASE UNCHANGED results
      BY <3>1 DEF Queues
    <3>2. CASE pc[p] = "write" /\ Report(p, job[p], FALSE)
      BY Zenon, <1>3, <3>2 DEF Queues
    <3> QED
      BY Zenon, <1>10, <3>1, <3>2 DEF Disconnect
  <2>2. Queues'
    BY Zenon, <1>1, <1>10, <2>1 DEF Disconnect, session, history, Queues
  <2> QED
    BY <2>2
<1>11. CASE Reconnect(p)
  <2>1. /\ conn' \in [Peers -> BOOLEAN] /\ slot' \in [Peers -> {"none", "cur", "old"}]
        /\ wake' \in [Peers -> BOOLEAN]
    BY <1>11 DEF Reconnect, Queues
  <2>2. oldbox' \in [Peers -> Seq(Dispatches)]
    <3>1. <<>> \in Seq(Dispatches)
      OBVIOUS
    <3> QED
      BY Zenon, <1>11, <3>1 DEF Reconnect, Queues
  <2> QED
    BY Zenon, <1>1, <1>11, <2>1, <2>2 DEF Reconnect, session, history, Queues
<1> QED
  BY <1>5, <1>6, <1>7, <1>8, <1>9, <1>10, <1>11 DEF Loops

\* What is done for one peer leaves the paths of the others.
LEMMA LoopsElse ==
    ASSUME Queues, NEW p \in Peers, Loops(p), NEW q \in Peers, q # p, PathAt(q)
    PROVE  PathAt(q)'
<1>u. UNCHANGED <<strat, peer, att, tainted>>
  BY Zenon DEF Loops, RegisterSlot, RegisterLate, UnregisterSlot, SkipCancelled, StartWrite,
         Sleep, Wake, EndWrite, Disconnect, Reconnect, session, history
<1> DEFINE Frame == /\ conn'[q] = conn[q] /\ slot'[q] = slot[q] /\ pc'[q] = pc[q]
                    /\ job'[q] = job[q] /\ wake'[q] = wake[q] /\ box'[q] = box[q]
                    /\ oldbox'[q] = oldbox[q] /\ results'[q] = results[q]
                    /\ wrote'[q] = wrote[q] /\ twice'[q] = twice[q]
<1> USE DEF Queues, session, history
<1>1. ASSUME RegisterSlot(p) \/ RegisterLate(p) \/ UnregisterSlot(p) PROVE Frame
  BY <1>1 DEF RegisterSlot, RegisterLate, UnregisterSlot
<1>2. ASSUME Sleep(p) \/ Wake(p) PROVE Frame
  BY <1>2 DEF Sleep, Wake
<1>3. ASSUME SkipCancelled(p) PROVE Frame
  BY <1>3 DEF SkipCancelled, Unqueue, Report
<1>4. ASSUME StartWrite(p) PROVE Frame
  BY <1>4 DEF StartWrite, Unqueue
<1>5. ASSUME NEW ok \in BOOLEAN, EndWrite(p, ok) PROVE Frame
  BY <1>5 DEF EndWrite, Report
<1>6. ASSUME Disconnect(p) \/ Reconnect(p) PROVE Frame
  BY <1>6 DEF Disconnect, Reconnect, Report
<1> HIDE DEF Queues, session, history, Frame
<1>7. Frame
  BY Zenon, <1>1, <1>2, <1>3, <1>4, <1>5, <1>6 DEF Loops
<1> QED
  BY <1>u, <1>7, SamePath DEF Frame

LEMMA LoopTypes ==
    ASSUME Queues, NEW p \in Peers
    PROVE  /\ att[p] \in Nat /\ box[p] \in Seq(Dispatches) /\ oldbox[p] \in Seq(Dispatches)
           /\ results[p] \in Seq(Reports) /\ pc[p] \in {"scan", "wait", "write"}
           /\ slot[p] \in {"none", "cur", "old"}
           /\ peer[p].on => NoChunk.a # att[p]
           /\ \A i \in DOMAIN box[p] : box[p][i].c \in Chunks
           /\ pc[p] = "write" => job[p].c \in Chunks /\ job[p].a \in Nat
           /\ \A i \in DOMAIN oldbox[p] : oldbox[p][i].a \in Nat
<1>1. /\ att[p] \in Nat /\ (peer[p].on => att[p] >= 1)
      /\ pc[p] \in {"scan", "wait", "write"} /\ slot[p] \in {"none", "cur", "old"}
  BY Zenon, PathTypes DEF Queues
<1>2. peer[p].on => NoChunk.a # att[p]
  BY <1>1 DEF NoChunk
<1> QED
  BY <1>1, <1>2, PathTypes

\* A result of a dispatch that the loop had; it gets lost only when the peer has
\* gone with the session.
LEMMA ReportPath ==
    ASSUME Queues, NEW p \in Peers, PathAt(p), NEW d, d.a <= att[p], NEW ok \in BOOLEAN,
           Report(p, d, ok)
    PROVE  /\ \A i \in DOMAIN results'[p] : results'[p][i].a <= att[p]
           /\ peer[p].on =>
                /\ results'[p] = Append(results[p], [c |-> d.c, a |-> d.a, ok |-> ok])
                /\ results'[p] # <<>>
<1> DEFINE r == [c |-> d.c, a |-> d.a, ok |-> ok]
<1>1. \/ results'[p] = Append(results[p], r)
      \/ results'[p] = results[p] /\ stage = "Disposed"
  BY Zenon DEF Report, Queues
<1>2. r.a <= att[p]
  OBVIOUS
<1> HIDE DEF r
<1>3. \A i \in DOMAIN results[p] : results[p][i].a <= att[p]
  BY Zenon DEF PathAt, Belongs
<1>4. \A i \in DOMAIN Append(results[p], r) : Append(results[p], r)[i].a <= att[p]
  BY LoopTypes, <1>2, <1>3, Appended
<1>5. Append(results[p], r) # <<>>
  BY LoopTypes, Appended
<1>6. \A i \in DOMAIN results'[p] : results'[p][i].a <= att[p]
  BY Zenon, <1>1, <1>3, <1>4
<1>7. peer[p].on => results'[p] = Append(results[p], r)
  BY Zenon, <1>1 DEF Queues
<1> QED
  BY Zenon, <1>5, <1>6, <1>7 DEF r

\* The outbox is registered or unregistered.
LEMMA SlotPath ==
    ASSUME Queues, NEW p \in Peers, PathAt(p), RegisterSlot(p) \/ RegisterLate(p) \/ UnregisterSlot(p)
    PROVE  PathAt(p)'
<1>u. UNCHANGED <<strat, peer, att, tainted>>
  BY Zenon DEF RegisterSlot, RegisterLate, UnregisterSlot, session, history
<1>1. /\ UNCHANGED <<box, conn, job, wake, results, wrote, twice>>
      /\ pc[p] # "write" /\ pc'[p] = "scan"
      /\ oldbox'[p] \in {oldbox[p], <<>>} /\ (slot'[p] = "cur" => peer[p].on)
  BY Zenon DEF RegisterSlot, RegisterLate, UnregisterSlot, session, history, Queues
<1>2. Belongs(p, peer[p], box[p], results[p], att[p])'
  <2>1. \A i \in DOMAIN oldbox'[p] : i \in DOMAIN oldbox[p] /\ oldbox'[p][i] = oldbox[p][i]
    BY <1>1
  <2> QED
    BY Zenon, <1>u, <1>1, <2>1 DEF PathAt, Belongs
<1>3. Awake(p, box[p], wake[p])' /\ Moving(p, peer[p], strat, box[p], results[p])'
  BY Zenon, <1>u, <1>1 DEF PathAt, Awake, Moving
<1>4. Traced(p, peer[p], box[p], results[p], att[p])
        => Traced(p, peer[p], box[p], results[p], att[p])'
  BY Zenon, <1>u, <1>1 DEF Traced, Writing
<1> QED
  BY Zenon, <1>u, <1>1, <1>2, <1>3, <1>4 DEF PathAt

\* The loop sleeps only when its outbox is empty.
LEMMA SleepPath ==
    ASSUME Queues, NEW p \in Peers, PathAt(p), Sleep(p) \/ Wake(p)
    PROVE  PathAt(p)'
<1>u. UNCHANGED <<strat, peer, att, tainted>>
  BY DEF Sleep, Wake, session, history
<1>1. /\ UNCHANGED <<box, conn, slot, oldbox, job, results, wrote, twice>>
      /\ pc[p] # "write" /\ pc'[p] # "write"
      /\ pc'[p] = "wait" => Registered(p) = <<>>
  BY DEF Sleep, Wake, session, history, Queues
<1>2. Belongs(p, peer[p], box[p], results[p], att[p])'
  BY Zenon, <1>u, <1>1 DEF PathAt, Belongs
<1>3. Awake(p, box[p], wake[p])' /\ Moving(p, peer[p], strat, box[p], results[p])'
  BY <1>u, <1>1 DEF PathAt, Awake, Moving, Registered
<1>4. Traced(p, peer[p], box[p], results[p], att[p])
        => Traced(p, peer[p], box[p], results[p], att[p])'
  BY Zenon, <1>u, <1>1 DEF Traced, Writing
<1> QED
  BY Zenon, <1>u, <1>1, <1>2, <1>3, <1>4 DEF PathAt

\* The connection ends, with a result for the chunk being written, or a new one begins.
LEMMA LinkPath ==
    ASSUME Queues, NEW p \in Peers, PathAt(p), Disconnect(p) \/ Reconnect(p)
    PROVE  PathAt(p)'
<1>u. UNCHANGED <<strat, peer, att, tainted>>
  BY Zenon DEF Disconnect, Reconnect, session, history
<1>1. /\ UNCHANGED <<box, wrote, twice>>
      /\ pc'[p] = "write" => pc[p] = "write" /\ job'[p] = job[p]
      /\ oldbox'[p] \in {oldbox[p], <<>>} /\ slot'[p] \in {slot[p], "none"}
      /\ (~conn'[p] \/ ~peer[p].on) /\ (conn'[p] => slot'[p] = "none")
  BY Zenon DEF Disconnect, Reconnect, session, history, Queues
<1>2. \A i \in DOMAIN results'[p] : results'[p][i].a <= att[p]
  <2>1. CASE results' = results
    BY Zenon, <2>1 DEF PathAt, Belongs
  <2>2. CASE pc[p] = "write" /\ Report(p, job[p], FALSE)
    BY ZenonT(40), ReportPath, <2>2 DEF PathAt, Belongs
  <2> QED
    BY Zenon, <2>1, <2>2 DEF Disconnect, Reconnect
<1>3. Belongs(p, peer[p], box[p], results[p], att[p])'
  <2>1. \A i \in DOMAIN oldbox'[p] : i \in DOMAIN oldbox[p] /\ oldbox'[p][i] = oldbox[p][i]
    <3>1. CASE oldbox'[p] = oldbox[p]
      BY Zenon, <3>1
    <3>2. CASE oldbox'[p] = <<>>
      BY Zenon, <3>2, NoPlaces
    <3> QED
      BY Zenon, <1>1, <3>1, <3>2
  <2> QED
    BY ZenonT(40), <1>u, <1>1, <1>2, <2>1 DEF PathAt, Belongs
<1>4. Awake(p, box[p], wake[p])' /\ Moving(p, peer[p], strat, box[p], results[p])'
  BY ZenonT(40), <1>u, <1>1 DEF Awake, Moving, Offer
<1> QED
  BY Zenon, <1>u, <1>1, <1>3, <1>4 DEF PathAt

\* The loop takes a dispatch from the outbox of the present attachment, or from one
\* that a dropped attachment left behind.
LEMMA UnqueuePath ==
    ASSUME Queues, NEW p \in Peers, PathAt(p), Registered(p) # <<>>, Unqueue(p),
           NEW d, d = Head(Registered(p))
    PROVE  /\ d.a <= att[p]
           /\ slot[p] = "cur" => /\ peer[p].on /\ d.a = att[p] /\ d.c \in Chunks
                                 /\ d = Head(box[p]) /\ box[p] # <<>>
                                 /\ box'[p] = Tail(box[p]) /\ oldbox' = oldbox
           /\ slot[p] # "cur" => /\ slot[p] = "old" /\ (peer[p].on => d.a # att[p])
                                 /\ box' = box /\ oldbox'[p] = Tail(oldbox[p])
           /\ ~peer[p].on => box'[p] = <<>>
           /\ \A i \in DOMAIN box'[p] : box'[p][i].a = att[p]
           /\ \A i \in DOMAIN oldbox'[p] : /\ oldbox'[p][i].a <= att[p]
                                           /\ peer[p].on => oldbox'[p][i].a < att[p]
<1>1. /\ \A i \in DOMAIN box[p] : box[p][i].a = att[p]
      /\ \A i \in DOMAIN oldbox[p] : /\ oldbox[p][i].a <= att[p]
                                     /\ peer[p].on => oldbox[p][i].a < att[p]
      /\ slot[p] = "cur" => peer[p].on
      /\ ~peer[p].on => box[p] = <<>>
  BY Zenon DEF PathAt, Belongs
<1>2. CASE slot[p] = "cur"
  <2>1. Registered(p) = box[p] /\ box'[p] = Tail(box[p]) /\ oldbox' = oldbox
    BY Zenon, <1>2 DEF Registered, Unqueue, Queues
  <2>2. Head(box[p]).a = att[p] /\ Head(box[p]).c \in Chunks
    BY LoopTypes, <1>1, <2>1, Unqueued
  <2>3. \A i \in DOMAIN Tail(box[p]) : Tail(box[p])[i].a = att[p]
    BY LoopTypes, <1>1, <2>1, Unqueued
  <2> QED
    <3>1. att[p] <= att[p]
      BY LoopTypes
    <3> QED
      BY Zenon, <1>1, <1>2, <2>1, <2>2, <2>3, <3>1
<1>3. CASE slot[p] # "cur"
  <2>1. slot[p] = "old" /\ Registered(p) = oldbox[p] /\ box' = box
        /\ oldbox'[p] = Tail(oldbox[p])
    BY Zenon, LoopTypes, <1>3 DEF Registered, Unqueue, Queues
  <2>2. Head(oldbox[p]).a <= att[p] /\ (peer[p].on => Head(oldbox[p]).a < att[p])
        /\ Head(oldbox[p]).a \in Nat
    BY LoopTypes, <1>1, <2>1, Unqueued
  <2>3. \A i \in DOMAIN Tail(oldbox[p]) : /\ Tail(oldbox[p])[i].a <= att[p]
                                          /\ peer[p].on => Tail(oldbox[p])[i].a < att[p]
    BY LoopTypes, <1>1, <2>1, Unqueued
  <2> QED
    BY LoopTypes, <1>1, <1>3, <2>1, <2>2, <2>3
<1> QED
  BY Zenon, <1>2, <1>3

\* A cancelled dispatch is reported without a write.
LEMMA SkipPath ==
    ASSUME Queues, NEW p \in Peers, PathAt(p), SkipCancelled(p)
    PROVE  PathAt(p)'
<1>u. UNCHANGED <<strat, peer, att, tainted>>
  BY DEF SkipCancelled, session, history
<1> DEFINE d == Head(Registered(p))
<1>1. /\ Registered(p) # <<>> /\ Unqueue(p) /\ Report(p, d, FALSE) /\ pc[p] = "scan"
      /\ UNCHANGED <<conn, slot, pc, job, wake, wrote, twice>>
  BY Zenon DEF SkipCancelled, history
<1> DEFINE r == [c |-> d.c, a |-> d.a, ok |-> FALSE]
<1>2. r.c = d.c /\ r.a = d.a
  OBVIOUS
<1>3. /\ d.a <= att[p]
      /\ peer[p].on => results'[p] = Append(results[p], r) /\ results'[p] # <<>>
      /\ \A i \in DOMAIN results'[p] : results'[p][i].a <= att[p]
  BY Zenon, ReportPath, UnqueuePath, <1>1
<1> HIDE DEF r, d
<1>4. Belongs(p, peer[p], box[p], results[p], att[p])'
  BY Zenon, <1>u, UnqueuePath, <1>1, <1>3 DEF PathAt, Belongs, d
<1>5. Awake(p, box[p], wake[p])' /\ Moving(p, peer[p], strat, box[p], results[p])'
  BY Zenon, <1>u, <1>1, <1>3 DEF Awake, Moving, Offer
<1>6. ASSUME peer[p].on, Traced(p, peer[p], box[p], results[p], att[p])
      PROVE  Traced(p, peer[p], box[p], results[p], att[p])'
  <2>1. CASE slot[p] = "cur"
    <3>1. /\ d.a = att[p] /\ d.c \in Chunks /\ d = Head(box[p]) /\ box[p] # <<>>
          /\ box'[p] = Tail(box[p])
      BY Zenon, UnqueuePath, <1>1, <2>1 DEF d
    <3>2. Followed(peer[p], Tail(box[p]), Writing(p), Append(results[p], r), att[p], wrote[p])
      BY Zenon, LoopTypes, <1>2, <1>6, <3>1, SkipFollowed DEF Traced
    <3> QED
      BY Zenon, <1>u, <1>1, <1>3, <1>6, <3>1, <3>2 DEF Traced, Writing
  <2>2. CASE slot[p] # "cur"
    <3>1. d.a # att[p] /\ box' = box
      BY Zenon, UnqueuePath, <1>1, <1>6, <2>2 DEF d
    <3>2. Followed(peer[p], box[p], Writing(p), Append(results[p], r), att[p], wrote[p])
      BY Zenon, LoopTypes, <1>2, <1>6, <3>1, LateResult DEF Traced
    <3> QED
      BY Zenon, <1>u, <1>1, <1>3, <1>6, <3>1, <3>2 DEF Traced, Writing
  <2> QED
    BY Zenon, <2>1, <2>2
<1> QED
  BY Zenon, <1>u, <1>1, <1>4, <1>5, <1>6 DEF PathAt

LEMMA StartPath ==
    ASSUME Queues, NEW p \in Peers, PathAt(p), StartWrite(p)
    PROVE  PathAt(p)'
<1>u. UNCHANGED <<strat, peer, att, tainted>>
  BY DEF StartWrite, session, history
<1> DEFINE d == Head(Registered(p))
<1>1. /\ Registered(p) # <<>> /\ Unqueue(p) /\ pc[p] = "scan"
      /\ pc'[p] = "write" /\ job'[p] = d
      /\ UNCHANGED <<conn, slot, wake, results, wrote, twice>>
  BY DEF StartWrite, history, Queues
<1> HIDE DEF d
<1>2. d.a <= att[p]
  BY Zenon, UnqueuePath, <1>1 DEF d
<1>3. Belongs(p, peer[p], box[p], results[p], att[p])'
  BY Zenon, <1>u, UnqueuePath, <1>1, <1>2 DEF PathAt, Belongs, d
<1>4. Awake(p, box[p], wake[p])' /\ Moving(p, peer[p], strat, box[p], results[p])'
  BY Zenon, <1>1 DEF Awake, Moving
<1>5. Writing(p) = NoChunk /\ Writing(p)' = d
  BY <1>1 DEF Writing
<1>6. ASSUME peer[p].on, Traced(p, peer[p], box[p], results[p], att[p])
      PROVE  Traced(p, peer[p], box[p], results[p], att[p])'
  <2>1. CASE slot[p] = "cur"
    <3>1. /\ d.a = att[p] /\ d.c \in Chunks /\ d = Head(box[p]) /\ box[p] # <<>>
          /\ box'[p] = Tail(box[p])
      BY Zenon, UnqueuePath, <1>1, <2>1 DEF d
    <3>2. Followed(peer[p], Tail(box[p]), d, results[p], att[p], wrote[p])
      BY Zenon, LoopTypes, <1>5, <1>6, <3>1, StartFollowed DEF Traced
    <3> QED
      BY Zenon, <1>u, <1>1, <1>5, <3>1, <3>2 DEF Traced
  <2>2. CASE slot[p] # "cur"
    <3>1. d.a # att[p] /\ box' = box
      BY Zenon, UnqueuePath, <1>1, <1>6, <2>2 DEF d
    <3>2. Followed(peer[p], box[p], d, results[p], att[p], wrote[p])
      BY Zenon, LoopTypes, <1>5, <1>6, <3>1, LateWrite DEF Traced
    <3> QED
      BY Zenon, <1>u, <1>1, <1>5, <3>1, <3>2 DEF Traced
  <2> QED
    BY <2>1, <2>2
<1> QED
  BY Zenon, <1>u, <1>1, <1>3, <1>4, <1>6 DEF PathAt

LEMMA EndPath ==
    ASSUME Queues, NEW p \in Peers, PathAt(p), NEW ok \in BOOLEAN, EndWrite(p, ok)
    PROVE  PathAt(p)'
<1>u. UNCHANGED <<strat, peer, att, tainted>>
  BY Zenon DEF EndWrite, session, history
<1> DEFINE j == job[p]
           r == [c |-> j.c, a |-> j.a, ok |-> ok]
           now == {c \in {j.c} : ok /\ peer[p].on /\ j.a = att[p]}
<1>1. /\ pc[p] = "write" /\ pc'[p] = "scan" /\ Report(p, j, ok)
      /\ twice'[p] = twice[p] \union (now \intersect wrote[p])
      /\ wrote'[p] = wrote[p] \union now
      /\ UNCHANGED <<conn, slot, oldbox, box, wake>>
  BY DEF EndWrite, session, Queues
<1>2. r.c = j.c /\ r.a = j.a /\ r.ok = ok
  OBVIOUS
<1>3. j.a <= att[p] /\ j.c \in Chunks
  BY Zenon, LoopTypes, <1>1 DEF PathAt, Belongs
<1>4. /\ peer[p].on => results'[p] = Append(results[p], r) /\ results'[p] # <<>>
      /\ \A i \in DOMAIN results'[p] : results'[p][i].a <= att[p]
  BY ReportPath, <1>1, <1>3
<1>5. now \in {{}, {j.c}} /\ (now = {} \/ (ok /\ peer[p].on /\ j.a = att[p]))
  OBVIOUS
<1> HIDE DEF r, j, now
<1>6. Belongs(p, peer[p], box[p], results[p], att[p])'
  BY Zenon, <1>u, <1>1, <1>4, <1>5 DEF PathAt, Belongs
<1>7. Awake(p, box[p], wake[p])' /\ Moving(p, peer[p], strat, box[p], results[p])'
  BY Zenon, <1>u, <1>1, <1>4 DEF Awake, Moving, Offer
<1>8. Writing(p) = j /\ Writing(p)' = NoChunk
  BY Zenon, <1>1 DEF Writing, j
<1>9. ASSUME peer[p].on, Traced(p, peer[p], box[p], results[p], att[p])
      PROVE  /\ Traced(p, peer[p], box[p], results[p], att[p])'
             /\ now \intersect wrote[p] = {}
  <2>1. CASE j.a = att[p]
    <3>1. Followed(peer[p], box[p], j, results[p], att[p], wrote[p])
      BY Zenon, <1>8, <1>9 DEF Traced
    <3>2. /\ NoChunk.a # att[p] /\ j.c \in Chunks
          /\ r.c = j.c /\ r.a = att[p]
      BY LoopTypes, <1>2, <1>3, <1>9, <2>1
    <3>3. results[p] \in Seq(Reports)
      BY LoopTypes
    <3>4. /\ Followed(peer[p], box[p], NoChunk, Append(results[p], r), att[p], wrote[p])
          /\ j.c \notin wrote[p]
      BY ZenonT(30), <2>1, <3>1, <3>2, <3>3, EndFollowed
    <3>5. Followed(peer[p], box[p], NoChunk, Append(results[p], r), att[p], wrote'[p])
      <4>1. CASE now = {}
        BY ZenonT(40), <1>1, <3>4, <4>1
      <4>2. CASE now = {j.c} /\ r.ok
        <5>1. Succeeds(Append(results[p], r), j.c, att[p])
          BY Zenon, <3>2, <3>3, <4>2, AddResult
        <5>2. wrote'[p] = wrote[p] \union {j.c}
          BY Zenon, <1>1, <4>2
        <5>3. Followed(peer[p], box[p], NoChunk, Append(results[p], r), att[p],
                       wrote[p] \union {j.c})
          BY Zenon, <3>4, <5>1, SuccessFollowed
        <5> QED
          BY Zenon, <5>2, <5>3
      <4> QED
        BY <1>2, <1>5, <4>1, <4>2
    <3> QED
      BY Zenon, <1>u, <1>1, <1>4, <1>5, <1>8, <1>9, <3>4, <3>5 DEF Traced
  <2>2. CASE j.a # att[p]
    <3>1. Followed(peer[p], box[p], NoChunk, results[p], att[p], wrote[p])
      BY Zenon, LoopTypes, <1>8, <1>9, <2>2, LateWrite DEF Traced
    <3>2. Followed(peer[p], box[p], NoChunk, Append(results[p], r), att[p], wrote[p])
      BY Zenon, LoopTypes, <1>2, <2>2, <3>1, LateResult
    <3>3. now = {}
      BY Zenon, <1>5, <2>2
    <3> QED
      BY Zenon, <1>u, <1>1, <1>4, <1>8, <1>9, <3>2, <3>3 DEF Traced
  <2> QED
    BY <2>1, <2>2
<1>10. conn[p]
  BY DEF EndWrite
<1>11. p \notin tainted' => twice'[p] = {}
  <2>1. CASE peer[p].on
    BY Zenon, <1>u, <1>1, <1>9, <1>10, <2>1 DEF PathAt
  <2>2. CASE ~peer[p].on
    BY Zenon, <1>u, <1>1, <1>5, <2>2 DEF PathAt
  <2> QED
    BY <2>1, <2>2
<1> QED
  BY Zenon, <1>u, <1>1, <1>6, <1>7, <1>9, <1>11 DEF PathAt

\* The data loop moves a dispatch of the present attachment from the outbox to the
\* write and from there to the results, and those of earlier ones beside it.
LEMMA LoopsPath ==
    ASSUME Queues, PathInv, NEW p \in Peers, Loops(p)
    PROVE  PathInv'
<1>1. PathAt(p) /\ \A q \in Peers : PathAt(q)
  BY DEF PathInv
<1>2. PathAt(p)'
  BY <1>1, SlotPath, SleepPath, LinkPath, SkipPath, StartPath, EndPath DEF Loops
<1> QED
  BY <1>1, <1>2, LoopsElse DEF PathInv

=============================================================================
