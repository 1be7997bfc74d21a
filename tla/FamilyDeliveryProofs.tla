------------------------ MODULE FamilyDeliveryProofs ------------------------
(***************************************************************************)
(* What TLAPS proves of FamilyDelivery, for any number of peers, handles,     *)
(* streams and protocols.                                                     *)
(***************************************************************************)
EXTENDS FamilyDelivery, FiniteSetTheorems, TLAPS

(* The part of the state the ring's theorems need typed; the counts of queued   *)
(* streams come last.                                                           *)
Types ==
    /\ ready \subseteq Handles
    /\ ahead \in [Handles -> SUBSET Handles]
    /\ owner \in [Handles -> Peers \union {NoPeer}]
    /\ up \subseteq Handles /\ down \subseteq Handles /\ gone \subseteq Handles
    /\ streams \in [Handles -> Seq(Streams)]
    /\ current \in [Peers -> Handles \union {NoHandle}]
    /\ wake \in BOOLEAN
    /\ consumer \in {"waiting", "draining"}
    /\ outcome \in [Streams -> Outcomes]
    /\ replaces \in [Handles -> SUBSET Handles]
    /\ served \in [Handles -> SUBSET Handles]

\* A handle before addPeer: nothing refers to it.
Unborn ==
    \A h \in Handles : owner[h] = NoPeer =>
        /\ h \notin ready \union up \union down \union gone
        /\ replaces[h] = {}

\* A supervisor routes to a handle of its own peer, and that is the only live one.
OneLive ==
    /\ \A p \in Peers : current[p] # NoHandle => owner[current[p]] = p
    /\ \A h \in Handles : (owner[h] # NoPeer /\ h \notin down) => current[owner[h]] = h

\* A handle that ended has no streams, is linked only to report PeerDown, and is
\* linked until it has.
Ending ==
    \A h \in down :
        /\ streams[h] = <<>>
        /\ h \in ready => h \in up
        /\ h \in up \ gone => h \in ready

\* A handle that reported PeerDown has ended and is out of the ring.
Reported == \A h \in gone : h \in up /\ h \in down /\ h \notin ready

\* A linked handle has an event to report.
HasEvent ==
    \A h \in ready : h \notin up \/ h \in down \/ streams[h] # <<>>

\* The handles a handle replaces have ended, and those the consumer still knows
\* are ahead of it in the ring, or it is out of the ring.
ReplacedAhead ==
    \A h \in Handles : \A x \in replaces[h] :
        /\ x \in down
        /\ x \in up \ gone => h \notin up /\ (h \in ready => x \in ahead[h])

\* A handle served since another joined the back of the ring is behind it.
ServedBehind ==
    \A x, h \in ready : h \in served[x] => x \in ahead[h]

RingInv ==
    /\ Types /\ NoLostWake /\ Unborn /\ OneLive /\ Ending /\ Reported /\ HasEvent
    /\ ReplacedAhead /\ ServedBehind

-----------------------------------------------------------------------------
(* The invariant holds initially and every action keeps it. *)

\* What the ring's operations leave typed.
LEMMA RingTypes ==
    ASSUME Types, NEW h \in Handles, Schedule(h) \/ Unlink(h) \/ Relink(h)
    PROVE  ready' \subseteq Handles /\ ahead' \in [Handles -> SUBSET Handles]
<1>1. CASE Schedule(h)
  BY <1>1 DEF Types, Schedule
<1>2. CASE Unlink(h)
  <2>1. \A x \in Handles : ahead[x] \ {h} \in SUBSET Handles
    BY DEF Types
  <2> QED
    BY <1>2, <2>1 DEF Types, Unlink
<1>3. CASE Relink(h)
  <2>1. \A x \in Handles : ahead[x] \ {h} \in SUBSET Handles
    BY DEF Types
  <2>2. ready \ {h} \in SUBSET Handles
    BY DEF Types
  <2> QED
    BY <1>3, <2>1, <2>2 DEF Types, Relink
<1> QED
  BY <1>1, <1>2, <1>3

\* An empty family.
LEMMA RingInvInit == Init => RingInv
<1> SUFFICES ASSUME Init PROVE RingInv
  OBVIOUS
<1>1. streams \in [Handles -> Seq(Streams)]
  BY DEF Init
<1>2. wake \in BOOLEAN /\ consumer \in {"waiting", "draining"}
  BY Zenon DEF Init
<1>3. Types
  BY <1>1, <1>2 DEF Init, Types, Outcomes
<1>4. Unborn /\ OneLive
  BY DeliveryAssumption DEF Init, Unborn, OneLive
<1> QED
  BY <1>3, <1>4 DEF Init, RingInv, NoLostWake, Ending, Reported, HasEvent,
                    ReplacedAhead, ServedBehind

\* The new handle joins the back of the ring, behind those it replaces.
LEMMA AddPeerKeeps ==
    ASSUME RingInv, NEW p \in Peers, NEW h \in Handles, AddPeer(p, h)
    PROVE  RingInv'
<1> USE DEF RingInv
<1>1. Types'
BY DEF Types, AddPeer, Schedule, Signal
<1>2. NoLostWake'
BY DEF NoLostWake, Types, AddPeer, Schedule, Signal
<1>3. Unborn'
BY DeliveryAssumption DEF Unborn, Types, AddPeer, Schedule, Signal
<1>4. OneLive'
BY DeliveryAssumption DEF OneLive, Types, Unborn, NoView, AddPeer, Schedule, Signal
<1>5. Ending'
BY DEF Ending, Types, Unborn, AddPeer, Schedule, Signal
<1>6. Reported'
BY DEF Reported, Types, Unborn, AddPeer, Schedule, Signal
<1>7. HasEvent'
BY DEF HasEvent, Types, Unborn, AddPeer, Schedule, Signal
<1>8. ReplacedAhead'
BY DeliveryAssumption DEF ReplacedAhead, Types, Unborn, OneLive, Ending, NoView,
      AddPeer, Schedule, Signal
<1>9. ServedBehind'
BY DEF ServedBehind, Types, AddPeer, Schedule, Signal
<1> QED
  BY <1>1, <1>2, <1>3, <1>4, <1>5, <1>6, <1>7, <1>8, <1>9

\* A step that only moves the consumer or refuses a stream.
LEMMA QuietKeeps ==
    ASSUME RingInv, Types', NoLostWake',
           UNCHANGED <<ready, ahead, owner, up, down, gone, streams, current, replaces, served>>
    PROVE  RingInv'
BY DEF RingInv, Unborn, OneLive, Ending, Reported, HasEvent, ReplacedAhead, ServedBehind

\* A refused stream changes nothing in the ring.
LEMMA PushEndedKeeps ==
    ASSUME RingInv, NEW p \in Peers, NEW s \in Streams, PushEnded(p, s)
    PROVE  RingInv'
<1>1. Types' /\ NoLostWake'
  BY DEF RingInv, Types, Outcomes, NoLostWake, PushEnded, ring
<1> QED
  BY <1>1, QuietKeeps DEF PushEnded, ring

\* Nor does one over the bound.
LEMMA PushOverKeeps ==
    ASSUME RingInv, NEW p \in Peers, NEW s \in Streams, PushOver(p, s)
    PROVE  RingInv'
<1>1. Types' /\ NoLostWake'
  BY DEF RingInv, Types, Outcomes, NoLostWake, PushOver, ring
<1> QED
  BY <1>1, QuietKeeps DEF PushOver, ring

\* A handle that joins the ring again has replaced nothing that is not behind it.
LEMMA PushKeeps ==
    ASSUME RingInv, NEW p \in Peers, NEW s \in Streams, Push(p, s)
    PROVE  RingInv'
<1> USE DEF RingInv
<1>1. Types'
BY DEF Types, Outcomes, Push, Schedule, Signal
<1>2. NoLostWake'
BY DEF NoLostWake, Types, Push, Schedule, Signal
<1>3. Unborn'
  <2>1. owner[current[p]] # NoPeer
    BY ZenonT(40), DeliveryAssumption DEF OneLive, Types, Push
  <2> QED
    BY <2>1 DEF Unborn, Types, Push, Schedule
<1>4. OneLive'
BY DEF OneLive, Types, Push, Schedule, Signal
<1>5. Ending'
BY DEF Ending, Types, Push, Schedule, Signal
<1>6. Reported'
BY DEF Reported, Types, Push, Schedule, Signal
<1>7. HasEvent'
  <2>1. streams[current[p]] \in Seq(Streams) /\ current[p] \in Handles
    BY DEF Types, Push
  <2>2. Append(streams[current[p]], s) # <<>>
    BY <2>1
  <2>3. streams'[current[p]] # <<>>
    BY <2>1, <2>2 DEF Types, Push
  <2> QED
    BY <2>1, <2>3 DEF HasEvent, Types, Push, Schedule
<1>8. ReplacedAhead'
BY DEF ReplacedAhead, Types, Ending, Push, Schedule, Signal
<1>9. ServedBehind'
BY DEF ServedBehind, Types, Push, Schedule, Signal
<1> QED
  BY <1>1, <1>2, <1>3, <1>4, <1>5, <1>6, <1>7, <1>8, <1>9

\* closePeer, whoever calls it, on a live handle: all but what current says.
LEMMA ClosePeerKeeps ==
    ASSUME RingInv, NEW h \in Handles, h \notin down, owner[h] # NoPeer,
           NEW resetCode \in Outcomes, ClosePeer(h, resetCode),
           current' \in [Peers -> Handles \union {NoHandle}]
    PROVE  /\ Types' /\ NoLostWake' /\ Unborn' /\ Ending' /\ Reported' /\ HasEvent'
           /\ ReplacedAhead' /\ ServedBehind'
<1> USE DEF RingInv
<1>1. ready' \subseteq Handles /\ ahead' \in [Handles -> SUBSET Handles]
  BY RingTypes DEF ClosePeer, AnnounceEnd
<1>2. served' \in [Handles -> SUBSET Handles]
  BY DEF Types, ClosePeer, AnnounceEnd, Schedule
<1>3. wake' \in BOOLEAN
  BY Zenon DEF Types, ClosePeer, AnnounceEnd, Schedule, Signal
<1>4. outcome' \in [Streams -> Outcomes]
  BY DEF Types, ClosePeer
<1>5. streams' \in [Handles -> Seq(Streams)]
  BY DEF Types, ClosePeer, ClearQueue
<1>6. Types'
  BY <1>1, <1>2, <1>3, <1>4, <1>5 DEF Types, ClosePeer
<1>7. CASE h \in up
  <2>1. NoLostWake' /\ Unborn'
    BY <1>7, <1>6 DEF NoLostWake, Unborn, Types, ClosePeer, AnnounceEnd, Schedule, Signal
  <2>2. Ending' /\ Reported' /\ HasEvent'
    BY <1>7, <1>6 DEF Ending, Reported, HasEvent, Types, ClosePeer, ClearQueue, AnnounceEnd,
                      Schedule
  <2>3. ReplacedAhead'
    BY <1>7 DEF ReplacedAhead, Ending, Types, ClosePeer, AnnounceEnd, Schedule
  <2>4. ServedBehind'
    <3>1. CASE h \in ready
      BY Zenon, <1>7, <3>1 DEF ServedBehind, Types, ClosePeer, AnnounceEnd, Schedule
    <3>2. CASE h \notin ready
      <4>1. ready' = ready \union {h} /\ ahead' = [ahead EXCEPT ![h] = ready]
            /\ served' = [served EXCEPT ![h] = {}]
        BY <1>7, <3>2 DEF ClosePeer, AnnounceEnd, Schedule
      <4> QED
        BY <4>1 DEF ServedBehind, Types
    <3> QED
      BY <3>1, <3>2
  <2> QED
    BY <1>6, <2>1, <2>2, <2>3, <2>4
<1>8. CASE h \notin up
  <2>1. NoLostWake' /\ Unborn'
    BY <1>8, <1>6 DEF NoLostWake, Unborn, Types, ClosePeer, AnnounceEnd, Unlink
  <2>2. Ending' /\ Reported' /\ HasEvent'
    BY <1>8, <1>6 DEF Ending, Reported, HasEvent, Types, ClosePeer, ClearQueue, AnnounceEnd,
                      Unlink
  <2>3. ReplacedAhead'
    BY <1>8 DEF ReplacedAhead, Types, ClosePeer, AnnounceEnd, Unlink
  <2>4. ServedBehind'
    BY <1>8 DEF ServedBehind, Types, ClosePeer, AnnounceEnd, Unlink
  <2> QED
    BY <1>6, <2>1, <2>2, <2>3, <2>4
<1> QED
  BY <1>7, <1>8

\* The supervisor drops its view.
LEMMA DropViewKeeps ==
    ASSUME RingInv, NEW p \in Peers, DropView(p)
    PROVE  RingInv'
<1> USE DEF RingInv
<1>1. /\ current[p] \in Handles /\ current[p] \notin down
      /\ owner[current[p]] = p
      /\ ClosePeer(current[p], "Closing")
      /\ current' \in [Peers -> Handles \union {NoHandle}]
  BY Zenon, DeliveryAssumption DEF DropView, OneLive, Types
<1>2. /\ Types' /\ NoLostWake' /\ Unborn' /\ Ending' /\ Reported' /\ HasEvent'
      /\ ReplacedAhead' /\ ServedBehind'
  BY <1>1, ClosePeerKeeps, DeliveryAssumption DEF Outcomes
<1>3. OneLive'
  BY <1>1, DeliveryAssumption DEF OneLive, Types, DropView, ClosePeer
<1> QED
  BY <1>2, <1>3

\* The supervisor drops a view whose handle the consumer closed.
LEMMA DropClosedViewKeeps ==
    ASSUME RingInv, NEW p \in Peers, DropClosedView(p)
    PROVE  RingInv'
<1> USE DEF RingInv
<1>1. Types'
BY DEF Types, DropClosedView, ring
<1>2. NoLostWake'
BY DEF NoLostWake, Types, DropClosedView, ring
<1>3. Unborn'
BY DEF Unborn, Types, DropClosedView, ring
<1>4. OneLive'
BY DeliveryAssumption DEF OneLive, Types, DropClosedView, ring
<1>5. Ending'
BY DEF Ending, Types, DropClosedView, ring
<1>6. Reported'
BY DEF Reported, Types, DropClosedView, ring
<1>7. HasEvent'
BY DEF HasEvent, Types, DropClosedView, ring
<1>8. ReplacedAhead'
BY DEF ReplacedAhead, Types, DropClosedView, ring
<1>9. ServedBehind'
BY DEF ServedBehind, Types, DropClosedView, ring
<1> QED
  BY <1>1, <1>2, <1>3, <1>4, <1>5, <1>6, <1>7, <1>8, <1>9

\* The consumer closes a handle it knows.
LEMMA PeerCloseKeeps ==
    ASSUME RingInv, NEW h \in Handles, PeerClose(h)
    PROVE  RingInv'
<1> USE DEF RingInv
<1>1. /\ h \notin down /\ owner[h] # NoPeer
      /\ ClosePeer(h, "UnsupportedSelector")
      /\ current' \in [Peers -> Handles \union {NoHandle}]
  BY DEF PeerClose, Unborn, Types
<1>2. /\ Types' /\ NoLostWake' /\ Unborn' /\ Ending' /\ Reported' /\ HasEvent'
      /\ ReplacedAhead' /\ ServedBehind'
  BY <1>1, ClosePeerKeeps DEF Outcomes
<1>3. OneLive'
  BY DEF OneLive, Types, PeerClose, ClosePeer
<1> QED
  BY <1>2, <1>3

\* The consumer starts to drain.
LEMMA WakeKeeps ==
    ASSUME RingInv, Wake
    PROVE  RingInv'
<1>1. Types' /\ NoLostWake'
  BY Zenon DEF RingInv, Types, NoLostWake, Wake, ring
<1> QED
  BY <1>1, QuietKeeps DEF Wake, ring

\* A front handle whose PeerUp is returned has not ended and replaces no handle the
\* consumer still knows.
LEMMA NextPeerUpKeeps ==
    ASSUME RingInv, NEW h \in Handles, NextPeerUp(h)
    PROVE  RingInv'
<1> USE DEF RingInv
<1>1. Types'
  <2>1. ready' \subseteq Handles /\ ahead' \in [Handles -> SUBSET Handles]
    BY RingTypes DEF NextPeerUp, Requeue
  <2>2. served' \in [Handles -> SUBSET Handles]
    BY DEF Types, NextPeerUp, Serve
  <2> QED
    BY <2>1, <2>2 DEF Types, NextPeerUp
<1>2. NoLostWake'
BY DEF NoLostWake, Types, NextPeerUp, Front, Requeue, Relink, Unlink, Serve
<1>3. Unborn'
BY DEF Unborn, Types, NextPeerUp, Front, Requeue, Relink, Unlink, Serve
<1>4. OneLive'
BY DEF OneLive, Types, NextPeerUp, Front, Requeue, Relink, Unlink, Serve
<1>5. Ending'
BY DEF Ending, Types, NextPeerUp, Front, Requeue, Relink, Unlink, Serve
<1>6. Reported'
BY DEF Reported, Types, NextPeerUp, Front, Requeue, Relink, Unlink, Serve
<1>7. HasEvent'
BY DEF HasEvent, Types, NextPeerUp, Front, Requeue, Relink, Unlink, Serve
<1>8. ReplacedAhead'
BY DEF ReplacedAhead, Types, Ending, NextPeerUp, Front, Requeue, Relink, Unlink,
      Serve
<1>9. ServedBehind'
BY DEF ServedBehind, Types, NextPeerUp, Front, Requeue, Relink, Unlink, Serve
<1> QED
  BY <1>1, <1>2, <1>3, <1>4, <1>5, <1>6, <1>7, <1>8, <1>9

\* A handle with streams has not ended, so it may leave its place.
LEMMA NextStreamInKeeps ==
    ASSUME RingInv, NEW h \in Handles, NextStreamIn(h)
    PROVE  RingInv'
<1> USE DEF RingInv
<1>1. Types'
  <2>1. ready' \subseteq Handles /\ ahead' \in [Handles -> SUBSET Handles]
    BY RingTypes DEF NextStreamIn, Requeue
  <2>2. served' \in [Handles -> SUBSET Handles]
    BY DEF Types, NextStreamIn, Serve
  <2>3. streams' \in [Handles -> Seq(Streams)]
    <3>1. Tail(streams[h]) \in Seq(Streams)
      BY DEF Types, NextStreamIn
    <3> QED
      BY <3>1 DEF Types, NextStreamIn
  <2>4. outcome' \in [Streams -> Outcomes]
    BY DEF Types, Outcomes, NextStreamIn
  <2> QED
    BY <2>1, <2>2, <2>3, <2>4 DEF Types, NextStreamIn
<1>2. NoLostWake'
BY DEF NoLostWake, Types, NextStreamIn, Front, Requeue, Relink, Unlink, Serve
<1>3. Unborn'
BY DEF Unborn, Types, NextStreamIn, Front, Requeue, Relink, Unlink, Serve
<1>4. OneLive'
BY DEF OneLive, Types, NextStreamIn, Front, Requeue, Relink, Unlink, Serve
<1>5. Ending'
BY DEF Ending, Types, NextStreamIn, Front, Requeue, Relink, Unlink, Serve
<1>6. Reported'
BY DEF Reported, Types, Ending, NextStreamIn, Front, Requeue, Relink, Unlink, Serve
<1>7. HasEvent'
  <2>1. streams[h] \in Seq(Streams) /\ streams[h] # <<>>
    BY DEF Types, NextStreamIn
  <2>2. Len(streams[h]) > 1 => Len(Tail(streams[h])) > 0
    BY <2>1
  <2>3. streams'[h] = Tail(streams[h])
    BY DEF Types, NextStreamIn
  <2>5. ~(Len(<<>>) > 0)
    OBVIOUS
  <2>4. Len(streams[h]) > 1 => streams'[h] # <<>>
    BY Zenon, <2>2, <2>3, <2>5
  <2> QED
    BY <2>4 DEF HasEvent, Types, NextStreamIn, Requeue, Relink, Unlink
<1>8. ReplacedAhead'
BY DEF ReplacedAhead, Types, Ending, NextStreamIn, Front, Requeue, Relink, Unlink,
      Serve
<1>9. ServedBehind'
BY DEF ServedBehind, Types, NextStreamIn, Front, Requeue, Relink, Unlink, Serve
<1> QED
  BY <1>1, <1>2, <1>3, <1>4, <1>5, <1>6, <1>7, <1>8, <1>9

\* A linked handle without streams that is up has ended.
LEMMA NextPeerDownKeeps ==
    ASSUME RingInv, NEW h \in Handles, NextPeerDown(h)
    PROVE  RingInv'
<1> USE DEF RingInv
<1>1. Types'
BY DEF Types, NextPeerDown, Front, Unlink, Serve
<1>2. NoLostWake'
BY Zenon DEF NoLostWake, Types, NextPeerDown, Front, Unlink, Serve
<1>3. Unborn'
BY DEF Unborn, Types, NextPeerDown, Front, Unlink, Serve
<1>4. OneLive'
BY DEF OneLive, Types, NextPeerDown, Front, Unlink, Serve
<1>5. Ending'
BY DEF Ending, Types, NextPeerDown, Front, Unlink, Serve
<1>6. Reported'
BY DEF Reported, Types, HasEvent, NextPeerDown, Front, Unlink, Serve
<1>7. HasEvent'
BY DEF HasEvent, Types, NextPeerDown, Front, Unlink, Serve
<1>8. ReplacedAhead'
BY DEF ReplacedAhead, Types, NextPeerDown, Front, Unlink, Serve
<1>9. ServedBehind'
BY DEF ServedBehind, Types, NextPeerDown, Front, Unlink, Serve
<1> QED
  BY <1>1, <1>2, <1>3, <1>4, <1>5, <1>6, <1>7, <1>8, <1>9

\* The consumer finds the ring empty.
LEMMA NextEmptyKeeps ==
    ASSUME RingInv, NextEmpty
    PROVE  RingInv'
<1>1. Types' /\ NoLostWake'
  BY DEF RingInv, Types, NoLostWake, NextEmpty, ring
<1> QED
  BY <1>1, QuietKeeps DEF NextEmpty, ring

\* Every step keeps the invariant.
LEMMA RingInvNext == RingInv /\ [Next]_vars => RingInv'
<1> SUFFICES ASSUME RingInv, [Next]_vars PROVE RingInv'
  OBVIOUS
<1>1. CASE Consume
  BY <1>1, WakeKeeps, NextEmptyKeeps, NextPeerUpKeeps, NextStreamInKeeps,
     NextPeerDownKeeps DEF Consume
<1>2. CASE Supervise
  BY <1>2, AddPeerKeeps, PushEndedKeeps, PushOverKeeps, PushKeeps, DropViewKeeps,
     DropClosedViewKeeps DEF Supervise
<1>3. ASSUME NEW h \in Handles, PeerClose(h) PROVE RingInv'
  BY <1>3, PeerCloseKeeps
<1>4. CASE UNCHANGED vars
  <2>1. Types' /\ NoLostWake'
    BY <1>4 DEF RingInv, Types, NoLostWake, vars
  <2> QED
    BY <1>4, <2>1, QuietKeeps DEF vars
<1> QED
  BY <1>1, <1>2, <1>3, <1>4 DEF Next

\* The invariant of the ring holds throughout.
THEOREM RingInvariant == Spec => []RingInv
BY RingInvInit, RingInvNext, PTL DEF Spec

-----------------------------------------------------------------------------
(* The properties of the ring. *)

\* No wake is lost (signal, family.go:148-155).
THEOREM WakeNeverLost == Spec => []NoLostWake
<1>1. RingInv => NoLostWake
  BY DEF RingInv
<1> QED
  BY RingInvariant, <1>1, PTL

\* The PeerDown of every replaced handle the consumer knows precedes the PeerUp of
\* the one that replaces it (supervisor.attach, closePeer and Next together).
THEOREM DownBeforeReplacement == Spec => []ReplacedDownFirst
<1>1. RingInv => ReplacedDownFirst
  BY DEF RingInv, Types, ReplacedAhead, ReplacedDownFirst
<1> QED
  BY RingInvariant, <1>1, PTL

\* No handle is served twice while another waits in the ring (Family.Next).
THEOREM PeersTakeTurns == Spec => []TakeTurns
<1>1. RingInv => TakeTurns
  BY DEF RingInv, Types, ServedBehind, TakeTurns, Front
<1> QED
  BY RingInvariant, <1>1, PTL

-----------------------------------------------------------------------------
(* The streams. *)

\* Every stream waits in at most one place, is counted as queued there, and its
\* handle is linked; every stream counted as queued waits somewhere.
Accepted ==
    /\ \A h \in Handles : \A i \in DOMAIN streams[h] : outcome[streams[h][i]] = "queued"
    /\ \A h, g \in Handles : \A i \in DOMAIN streams[h] : \A j \in DOMAIN streams[g] :
          streams[h][i] = streams[g][j] => h = g /\ i = j
    /\ \A h \in Handles : streams[h] # <<>> => h \in ready
    /\ \A s \in Streams : outcome[s] = "queued" =>
          \E h \in Handles : \E i \in DOMAIN streams[h] : streams[h][i] = s

\* A step that accepts, returns and resets no stream and unlinks no handle with one.
LEMMA AcceptedUntouched ==
    ASSUME Accepted, UNCHANGED streams,
           \A h \in Handles : streams[h] # <<>> => (h \in ready => h \in ready'),
           \A s \in Streams : (outcome[s] = "queued") <=> (outcome'[s] = "queued"),
           streams \in [Handles -> Seq(Streams)]
    PROVE  Accepted'
<1>1. \A h \in Handles : \A i \in DOMAIN streams[h] : streams[h][i] \in Streams
  OBVIOUS
<1> QED
  BY <1>1 DEF Accepted

\* push appends a stream seen for the first time and links its handle.
LEMMA PushAccepts ==
    ASSUME RingInv, Accepted, NEW p \in Peers, NEW s \in Streams, Push(p, s)
    PROVE  Accepted'
<1> DEFINE h == current[p]
<1>1. h \in Handles /\ streams[h] \in Seq(Streams) /\ outcome[s] = "none"
  BY DEF RingInv, Types, Push
<1>2. /\ DOMAIN Append(streams[h], s) = DOMAIN streams[h] \union {Len(streams[h]) + 1}
      /\ Append(streams[h], s)[Len(streams[h]) + 1] = s
      /\ \A i \in DOMAIN streams[h] : Append(streams[h], s)[i] = streams[h][i]
      /\ Len(streams[h]) + 1 \notin DOMAIN streams[h]
  BY <1>1
<1>3. /\ streams' = [streams EXCEPT ![h] = Append(streams[h], s)]
      /\ outcome' = [outcome EXCEPT ![s] = "queued"]
      /\ ready' = ready \union {h}
  BY DEF Push, Schedule
<1>4. \A g \in Handles : \A i \in DOMAIN streams[g] :
          streams[g][i] # s /\ streams[g][i] \in Streams
  BY <1>1 DEF Accepted, RingInv, Types
<1> HIDE DEF h
<1>5. /\ \A g \in Handles \ {h} : streams'[g] = streams[g]
      /\ streams'[h] = Append(streams[h], s)
      /\ \A x \in Streams \ {s} : outcome'[x] = outcome[x]
      /\ outcome'[s] = "queued"
  BY Zenon, <1>1, <1>3 DEF RingInv, Types
<1>6. \A g \in Handles : \A i \in DOMAIN streams'[g] :
          \/ g = h /\ i = Len(streams[h]) + 1 /\ streams'[g][i] = s
          \/ i \in DOMAIN streams[g] /\ streams'[g][i] = streams[g][i]
  BY <1>2, <1>5
<1>7. \A g \in Handles : \A i \in DOMAIN streams'[g] : outcome'[streams'[g][i]] = "queued"
  BY <1>4, <1>5, <1>6 DEF Accepted
<1>8. \A g, k \in Handles : \A i \in DOMAIN streams'[g] : \A j \in DOMAIN streams'[k] :
          streams'[g][i] = streams'[k][j] => g = k /\ i = j
  BY <1>4, <1>6 DEF Accepted
<1>9. \A g \in Handles : streams'[g] # <<>> => g \in ready'
  BY Zenon, <1>3, <1>5 DEF Accepted
<1>10. \A x \in Streams : outcome'[x] = "queued" =>
          \E g \in Handles : \E i \in DOMAIN streams'[g] : streams'[g][i] = x
  <2> SUFFICES ASSUME NEW x \in Streams, outcome'[x] = "queued"
               PROVE  \E g \in Handles : \E i \in DOMAIN streams'[g] : streams'[g][i] = x
    OBVIOUS
  <2>1. CASE x = s
    BY <1>1, <1>2, <1>5, <2>1
  <2>2. CASE x # s
    <3>1. PICK g \in Handles : \E i \in DOMAIN streams[g] : streams[g][i] = x
      BY <1>5, <2>2 DEF Accepted
    <3>2. PICK i \in DOMAIN streams[g] : streams[g][i] = x
      BY Zenon, <3>1
    <3>3. i \in DOMAIN streams'[g] /\ streams'[g][i] = x
      BY Zenon, <1>2, <1>5, <3>2
    <3> QED
      BY <3>3
  <2> QED
    BY <2>1, <2>2
<1> QED
  BY <1>7, <1>8, <1>9, <1>10 DEF Accepted

\* closePeer resets exactly the streams of the handle it ends.
LEMMA ClosePeerAccepts ==
    ASSUME RingInv, Accepted, NEW h \in Handles,
           NEW resetCode \in Outcomes \ {"queued"}, ClosePeer(h, resetCode)
    PROVE  Accepted'
<1>1. /\ streams'[h] = <<>>
      /\ \A g \in Handles \ {h} : streams'[g] = streams[g]
      /\ \A g \in Handles \ {h} : g \in ready => g \in ready'
  BY Zenon DEF RingInv, Types, ClosePeer, ClearQueue, AnnounceEnd, Schedule, Unlink
<1>2. \A s \in Streams : outcome'[s] =
          IF \E i \in 1..Len(streams[h]) : streams[h][i] = s THEN resetCode ELSE outcome[s]
  BY DEF ClosePeer
<1>3. \A g \in Handles : /\ DOMAIN streams[g] = 1..Len(streams[g])
                         /\ \A i \in DOMAIN streams[g] : streams[g][i] \in Streams
  BY DEF RingInv, Types
<1>4. \A g \in Handles : \A i \in DOMAIN streams'[g] :
          g # h /\ i \in DOMAIN streams[g] /\ streams'[g][i] = streams[g][i]
  BY <1>1
<1>5. \A g \in Handles : \A i \in DOMAIN streams'[g] : outcome'[streams'[g][i]] = "queued"
  BY <1>2, <1>3, <1>4 DEF Accepted
<1>6. \A s \in Streams : outcome'[s] = "queued" =>
          \E g \in Handles : \E i \in DOMAIN streams'[g] : streams'[g][i] = s
  <2> SUFFICES ASSUME NEW s \in Streams, outcome'[s] = "queued"
               PROVE  \E g \in Handles : \E i \in DOMAIN streams'[g] : streams'[g][i] = s
    OBVIOUS
  <2>1. outcome[s] = "queued" /\ ~ \E i \in 1..Len(streams[h]) : streams[h][i] = s
    BY <1>2
  <2>2. PICK g \in Handles : \E i \in DOMAIN streams[g] : streams[g][i] = s
    BY <2>1 DEF Accepted
  <2>3. g # h
    BY <1>3, <2>1, <2>2
  <2> QED
    BY <1>1, <2>2, <2>3
<1> QED
  BY <1>1, <1>4, <1>5, <1>6 DEF Accepted

\* Next takes the oldest stream of the front handle.
LEMMA NextStreamInAccepts ==
    ASSUME RingInv, Accepted, NEW h \in Handles, NextStreamIn(h)
    PROVE  Accepted'
<1> DEFINE q == streams[h]
           s == Head(q)
<1>1. q \in Seq(Streams) /\ q # <<>>
  BY DEF RingInv, Types, NextStreamIn
<1>2. /\ s = q[1] /\ 1 \in DOMAIN q /\ s \in Streams
      /\ DOMAIN Tail(q) = 1..(Len(q) - 1) /\ DOMAIN q = 1..Len(q)
      /\ \A i \in 1..(Len(q) - 1) : Tail(q)[i] = q[i + 1]
      /\ Len(q) \in Nat \ {0}
      /\ Len(q) > 1 \/ Tail(q) = <<>>
  BY <1>1
<1>3. /\ streams' = [streams EXCEPT ![h] = Tail(q)]
      /\ outcome' = [outcome EXCEPT ![s] = "delivered"]
      /\ Requeue(h, Len(q) > 1 \/ h \in down)
  BY Zenon DEF NextStreamIn
<1>4. /\ \A g \in Handles \ {h} : streams'[g] = streams[g]
      /\ streams'[h] = Tail(q)
      /\ \A x \in Streams \ {s} : outcome'[x] = outcome[x]
      /\ outcome'[s] = "delivered"
  BY ZenonT(40), <1>2, <1>3 DEF RingInv, Types
<1>5. /\ \A g \in Handles \ {h} : g \in ready => g \in ready'
      /\ Len(q) > 1 => h \in ready'
  BY Zenon, <1>3 DEF NextStreamIn, Front, Requeue, Relink, Unlink
<1>6. \A g \in Handles : \A i \in DOMAIN streams[g] : streams[g][i] \in Streams
  BY DEF RingInv, Types
<1> HIDE DEF s
<1>7. \A g \in Handles : \A i \in DOMAIN streams'[g] :
          \/ g # h /\ i \in DOMAIN streams[g] /\ streams'[g][i] = streams[g][i]
          \/ /\ g = h /\ i \in Nat /\ i + 1 \in DOMAIN q /\ i + 1 # 1
             /\ streams'[g][i] = q[i + 1]
  <2>1. \A i \in 1..(Len(q) - 1) : i \in Nat /\ i + 1 \in 1..Len(q) /\ i + 1 # 1
    BY <1>2
  <2>2. \A i \in DOMAIN streams'[h] :
            i \in Nat /\ i + 1 \in DOMAIN q /\ i + 1 # 1 /\ streams'[h][i] = q[i + 1]
    BY Zenon, <1>2, <1>4, <2>1
  <2> QED
    BY Zenon, <1>4, <2>2
<1>8. \A g \in Handles : \A i \in DOMAIN streams'[g] :
          /\ streams'[g][i] \in Streams /\ streams'[g][i] # s
          /\ outcome[streams'[g][i]] = "queued"
  BY <1>2, <1>6, <1>7 DEF Accepted
<1>9. \A g \in Handles : \A i \in DOMAIN streams'[g] : outcome'[streams'[g][i]] = "queued"
  BY <1>4, <1>8
<1>10. \A g, k \in Handles : \A i \in DOMAIN streams'[g] : \A j \in DOMAIN streams'[k] :
          streams'[g][i] = streams'[k][j] => g = k /\ i = j
  BY <1>7 DEF Accepted
<1>11. \A g \in Handles : streams'[g] # <<>> => g \in ready'
  BY Zenon, <1>2, <1>4, <1>5 DEF Accepted
<1>12. \A x \in Streams : outcome'[x] = "queued" =>
          \E g \in Handles : \E i \in DOMAIN streams'[g] : streams'[g][i] = x
  <2> SUFFICES ASSUME NEW x \in Streams, outcome'[x] = "queued"
               PROVE  \E g \in Handles : \E i \in DOMAIN streams'[g] : streams'[g][i] = x
    OBVIOUS
  <2>1. x # s /\ outcome[x] = "queued"
    BY <1>4
  <2>2. PICK g \in Handles : \E i \in DOMAIN streams[g] : streams[g][i] = x
    BY <2>1 DEF Accepted
  <2>3. PICK i \in DOMAIN streams[g] : streams[g][i] = x
    BY <2>2
  <2>4. CASE g # h
    BY <1>4, <2>3, <2>4
  <2>5. CASE g = h
    <3>1. i # 1 /\ i \in 1..Len(q)
      BY <1>2, <2>1, <2>3, <2>5
    <3>2. i - 1 \in 1..(Len(q) - 1) /\ (i - 1) + 1 = i
      BY <1>2, <3>1
    <3>3. i - 1 \in DOMAIN streams'[h] /\ streams'[h][i - 1] = x
      BY Zenon, <1>2, <1>4, <2>3, <2>5, <3>2
    <3> QED
      BY <3>3
  <2> QED
    BY <2>4, <2>5
<1> QED
  BY <1>9, <1>10, <1>11, <1>12 DEF Accepted

\* Every step keeps Accepted.
LEMMA AcceptedNext == RingInv /\ Accepted /\ [Next]_vars => Accepted'
<1> SUFFICES ASSUME RingInv, Accepted, [Next]_vars PROVE Accepted'
  OBVIOUS
<1>1. streams \in [Handles -> Seq(Streams)] /\ outcome \in [Streams -> Outcomes]
  BY DEF RingInv, Types
<1>2. ASSUME NEW p \in Peers, NEW h \in Handles, AddPeer(p, h) PROVE Accepted'
  BY <1>1, <1>2, AcceptedUntouched DEF AddPeer, Schedule
<1>3. ASSUME NEW p \in Peers, NEW s \in Streams, PushEnded(p, s) PROVE Accepted'
  BY <1>1, <1>3, AcceptedUntouched DEF PushEnded, ring
<1>4. ASSUME NEW p \in Peers, NEW s \in Streams, PushOver(p, s) PROVE Accepted'
  BY <1>1, <1>4, AcceptedUntouched DEF PushOver, ring
<1>5. ASSUME NEW p \in Peers, DropView(p) PROVE Accepted'
  BY <1>5, ClosePeerAccepts DEF DropView, Outcomes
<1>6. ASSUME NEW p \in Peers, DropClosedView(p) PROVE Accepted'
  BY <1>1, <1>6, AcceptedUntouched DEF DropClosedView, ring
<1>7. ASSUME NEW h \in Handles, PeerClose(h) PROVE Accepted'
  BY <1>7, ClosePeerAccepts DEF PeerClose, Outcomes
<1>8. CASE Wake \/ NextEmpty
  BY Zenon, <1>1, <1>8, AcceptedUntouched DEF Wake, NextEmpty, ring
<1>9. ASSUME NEW h \in Handles, NextPeerUp(h) PROVE Accepted'
  BY <1>1, <1>9, AcceptedUntouched DEF NextPeerUp, Requeue, Relink, Unlink
<1>10. ASSUME NEW h \in Handles, NextPeerDown(h) PROVE Accepted'
  BY <1>1, <1>10, AcceptedUntouched DEF NextPeerDown, Unlink
<1>11. CASE UNCHANGED vars
  BY <1>1, <1>11, AcceptedUntouched DEF vars
<1> QED
  BY <1>2, <1>3, <1>4, <1>5, <1>6, <1>7, <1>8, <1>9, <1>10, <1>11, PushAccepts,
     NextStreamInAccepts DEF Next, Consume, Supervise

\* No accepted stream is stranded (push, closePeer and Next together).
THEOREM NothingStranded == Spec => []NoStrandedStream
<1>1. Init => Accepted
  BY DEF Init, Accepted
<1>2. RingInv /\ Accepted => NoStrandedStream
  <2> SUFFICES ASSUME RingInv, Accepted PROVE NoStrandedStream
    OBVIOUS
  <2>1. \A h \in Handles : DOMAIN streams[h] = 1..Len(streams[h])
    BY DEF RingInv, Types
  <2>2. ASSUME NEW s \in Streams, outcome[s] = "queued"
        PROVE  \E h \in ready \ down : \E i \in 1..Len(streams[h]) : streams[h][i] = s
    <3>1. PICK h \in Handles : \E i \in DOMAIN streams[h] : streams[h][i] = s
      BY <2>2 DEF Accepted
    <3>2. streams[h] # <<>>
      BY <3>1
    <3>3. h \in ready \ down
      BY <3>2 DEF RingInv, Ending, Accepted
    <3> QED
      BY <2>1, <3>1, <3>3
  <2> QED
    BY <2>1, <2>2 DEF Accepted, NoStrandedStream
<1> QED
  BY RingInvariant, AcceptedNext, <1>1, <1>2, PTL DEF Spec

\* A step that returns no event.
LEMMA SilentOrdered ==
    ASSUME RingInv', UNCHANGED <<up, gone>>,
           \A s \in Streams : outcome[s] = "queued" => outcome'[s] # "delivered"
    PROVE  OrderedStep
BY DEF OrderedStep, RingInv, Reported, Ending

\* The steps that return none.
LEMMA OthersSilent ==
    ASSUME RingInv, RingInv',
           \/ Supervise
           \/ Wake \/ NextEmpty
           \/ \E h \in Handles : PeerClose(h)
    PROVE  OrderedStep
<1>1. UNCHANGED <<up, gone>>
  BY Zenon DEF Supervise, AddPeer, PushEnded, PushOver, Push, DropView, DropClosedView,
         PeerClose, ClosePeer, Wake, NextEmpty
<1>2. \A s \in Streams : outcome[s] = "queued" => outcome'[s] # "delivered"
  <2>1. CASE Wake \/ NextEmpty
    BY <2>1 DEF Wake, NextEmpty
  <2>2. CASE Supervise
    <3>1. CASE \E p \in Peers : \E h \in Handles : AddPeer(p, h)
      BY Zenon, <3>1 DEF AddPeer
    <3>2. CASE \E p \in Peers : \E s \in Streams : PushEnded(p, s) \/ PushOver(p, s)
      BY Zenon, <3>2 DEF PushEnded, PushOver, RingInv, Types
    <3>3. CASE \E p \in Peers : \E s \in Streams : Push(p, s)
      BY <3>3 DEF Push, RingInv, Types
    <3>4. CASE \E p \in Peers : DropView(p) \/ DropClosedView(p)
      BY Zenon, <3>4 DEF DropView, DropClosedView, ClosePeer
    <3> QED
      BY Zenon, <2>2, <3>1, <3>2, <3>3, <3>4 DEF Supervise
  <2>3. CASE \E h \in Handles : PeerClose(h)
    BY <2>3 DEF PeerClose, ClosePeer
  <2> QED
    BY <2>1, <2>2, <2>3
<1> QED
  BY Zenon, <1>1, <1>2, SilentOrdered

\* The steps of Next that return an event.
LEMMA ReturnsOrdered ==
    ASSUME RingInv, RingInv', NEW h \in Handles,
           NextPeerUp(h) \/ NextStreamIn(h) \/ NextPeerDown(h)
    PROVE  OrderedStep
<1>1. CASE NextPeerUp(h)
  BY Zenon, <1>1 DEF NextPeerUp, Front, OrderedStep, RingInv, Types, Ending, Reported
<1>2. CASE NextStreamIn(h)
  <2>1. h \in up \ down
    BY Zenon, <1>2 DEF NextStreamIn, RingInv, Ending
  <2>2. \A g \in gone : g \notin ready' /\ streams'[g] = <<>>
    BY <1>2 DEF NextStreamIn, RingInv, Reported, Ending
  <2>3. \A s \in Streams : (outcome'[s] = "delivered" /\ outcome[s] = "queued")
                               => Head(streams[h]) = s
    BY <1>2 DEF NextStreamIn
  <2> QED
    BY Zenon, <1>2, <2>1, <2>2, <2>3 DEF NextStreamIn, OrderedStep
<1>3. CASE NextPeerDown(h)
  BY <1>3 DEF NextPeerDown, Front, OrderedStep, RingInv, Types, HasEvent, Ending, Reported
<1> QED
  BY Zenon, <1>1, <1>2, <1>3

\* Per handle: PeerUp, then its streams, then PeerDown, and nothing after that
\* (Family.Next).
THEOREM HandleEventOrder == Spec => EventOrder
<1>1. RingInv /\ RingInv' /\ [Next]_vars => [OrderedStep]_vars
  BY OthersSilent, ReturnsOrdered DEF Next, Consume
<1> QED
  BY RingInvariant, <1>1, PTL DEF Spec, EventOrder

-----------------------------------------------------------------------------
(* The per-protocol counts of queued streams are exact and stay within MaxQueued. *)

\* The positions of a queue that hold a stream of protocol t.
Places(q, t) == {i \in 1..Len(q) : ProtocolOf[q[i]] = t}

\* The inductive invariant of the counts.
CountInv ==
    /\ queued \in [Handles -> [Protocols -> Nat]]
    /\ \A h \in Handles, t \in Protocols :
          /\ queued[h][t] = Cardinality(Places(streams[h], t))
          /\ queued[h][t] <= MaxQueued[t]

-----------------------------------------------------------------------------
(* Counting in a sequence. *)

LEMMA PlacesFinite ==
    ASSUME NEW q \in Seq(Streams), NEW t \in Protocols
    PROVE  /\ IsFiniteSet(Places(q, t))
           /\ Cardinality(Places(q, t)) \in Nat
<1>1. IsFiniteSet(1..Len(q))
  BY FS_Interval
<1>2. Places(q, t) \in SUBSET (1..Len(q))
  BY DEF Places
<1> QED
  BY <1>1, <1>2, FS_Subset, FS_CardinalityType

\* An appended stream is one more of its own protocol.
LEMMA PlacesAppend ==
    ASSUME NEW q \in Seq(Streams), NEW s \in Streams, NEW t \in Protocols
    PROVE  Cardinality(Places(Append(q, s), t)) =
             IF ProtocolOf[s] = t THEN Cardinality(Places(q, t)) + 1
                                  ELSE Cardinality(Places(q, t))
<1> DEFINE n == Len(q) + 1
<1>1. Len(Append(q, s)) = n /\ Append(q, s)[n] = s
  OBVIOUS
<1>2. \A i \in 1..Len(q) : Append(q, s)[i] = q[i]
  OBVIOUS
<1>3. n \notin Places(q, t)
  BY DEF Places
<1>4. CASE ProtocolOf[s] = t
  <2>1. Places(Append(q, s), t) = Places(q, t) \cup {n}
    BY <1>1, <1>2, <1>4 DEF Places
  <2>2. IsFiniteSet(Places(q, t))
    BY PlacesFinite
  <2> HIDE DEF n
  <2>3. Cardinality(Places(q, t) \cup {n}) = Cardinality(Places(q, t)) + 1
    BY Zenon, <1>3, <2>2, FS_AddElement
  <2> QED
    BY <2>1, <2>3, <1>4
<1>5. CASE ProtocolOf[s] # t
  <2>1. Places(Append(q, s), t) = Places(q, t)
    BY <1>1, <1>2, <1>5 DEF Places
  <2> QED
    BY <2>1, <1>5
<1> QED
  BY <1>4, <1>5

\* A removed head is one less of its own protocol.
LEMMA PlacesTail ==
    ASSUME NEW q \in Seq(Streams), q # <<>>, NEW t \in Protocols
    PROVE  Cardinality(Places(Tail(q), t)) =
             IF ProtocolOf[Head(q)] = t THEN Cardinality(Places(q, t)) - 1
                                        ELSE Cardinality(Places(q, t))
<1> DEFINE S == Places(q, t) \ {1}
           T == Places(Tail(q), t)
           f == [i \in S |-> i - 1]
<1>1. Len(q) \in Nat /\ Len(q) > 0 /\ Head(q) = q[1]
  OBVIOUS
<1>2. Tail(q) \in Seq(Streams) /\ Len(Tail(q)) = Len(q) - 1
  OBVIOUS
<1>3. \A i \in 1..(Len(q) - 1) : Tail(q)[i] = q[i + 1]
  OBVIOUS
<1>4. f \in [S -> T]
  BY <1>1, <1>2, <1>3 DEF Places
<1>5. \A i, j \in S : f[i] = f[j] => i = j
  BY DEF Places
<1>6. \A j \in T : \E i \in S : f[i] = j
  <2> SUFFICES ASSUME NEW j \in T PROVE \E i \in S : f[i] = j
    OBVIOUS
  <2>1. j + 1 \in S /\ j \in Int
    BY <1>1, <1>2, <1>3 DEF Places
  <2>2. f[j + 1] = j
    BY <2>1
  <2> QED
    BY <2>1, <2>2
<1>7. ExistsBijection(S, T)
  <2> HIDE DEF f
  <2>1. DOMAIN f = S
    BY <1>4
  <2>2. f \in Bijection(S, T)
    BY Zenon, <2>1, <1>4, <1>5, <1>6 DEF Bijection, Injection, Surjection, IsInjective
  <2> QED
    BY Zenon, <2>2 DEF ExistsBijection
<1>8. /\ IsFiniteSet(S)
      /\ Cardinality(S) = IF 1 \in Places(q, t) THEN Cardinality(Places(q, t)) - 1
                                                ELSE Cardinality(Places(q, t))
  BY PlacesFinite, FS_RemoveElement
<1>9. Cardinality(T) = Cardinality(S)
  BY <1>7, <1>8, FS_Bijection
<1>10. 1 \in Places(q, t) <=> ProtocolOf[Head(q)] = t
  BY <1>1 DEF Places
<1> QED
  BY <1>8, <1>9, <1>10

-----------------------------------------------------------------------------
(* The counts. *)

LEMMA CountInvInit == Init => CountInv
<1> SUFFICES ASSUME Init PROVE CountInv
  OBVIOUS
<1>1. \A t \in Protocols : Places(<<>>, t) = {}
  BY DEF Places
<1>2. \A t \in Protocols : MaxQueued[t] \in Nat
  BY DeliveryAssumption
<1>3. \A t \in Protocols : Cardinality(Places(<<>>, t)) = 0
  BY ZenonT(40), <1>1, FS_EmptySet
<1>4. ASSUME NEW h \in Handles, NEW t \in Protocols
      PROVE  streams[h] = <<>> /\ queued[h][t] = 0
  BY DEF Init
<1>5. queued \in [Handles -> [Protocols -> Nat]]
  BY DEF Init
<1> QED
  BY <1>2, <1>3, <1>4, <1>5 DEF CountInv

\* Push counts the stream it appends, within the bound.
LEMMA PushCounts ==
    ASSUME RingInv, CountInv, NEW p \in Peers, NEW s \in Streams, Push(p, s)
    PROVE  CountInv'
<1> DEFINE h == current[p]
           u == ProtocolOf[s]
<1>1. h \in Handles /\ u \in Protocols /\ streams[h] \in Seq(Streams)
  BY ZenonT(40), DeliveryAssumption DEF Push, RingInv, Types
<1>2. queued' = [queued EXCEPT ![h][u] = @ + 1]
  BY DEF Push
<1>3. streams' = [streams EXCEPT ![h] = Append(@, s)]
  BY DEF Push
<1>4. MaxQueued[u] \in Nat /\ queued[h][u] \in Nat /\ queued[h][u] + 1 <= MaxQueued[u]
  <2>1. MaxQueued[u] \in Nat /\ queued[h][u] \in Nat
    BY Zenon, <1>1, DeliveryAssumption DEF CountInv
  <2>2. ~(queued[h][u] >= MaxQueued[u])
    BY Zenon DEF Push, Full
  <2> HIDE DEF h, u
  <2> QED
    BY <2>1, <2>2
<1>5. queued' \in [Handles -> [Protocols -> Nat]]
  <2>1. queued[h][u] + 1 \in Nat
    BY <1>4
  <2> QED
    BY Zenon, <1>1, <1>2, <2>1 DEF CountInv
<1>6. ASSUME NEW g \in Handles, NEW t \in Protocols
      PROVE  /\ queued'[g][t] = Cardinality(Places(streams'[g], t))
             /\ queued'[g][t] <= MaxQueued[t]
  <2>1. CASE g # h
    BY ZenonT(40), <1>1, <1>2, <1>3, <2>1 DEF CountInv, RingInv, Types
  <2>2. CASE g = h
    <3>1. streams'[g] = Append(streams[h], s)
      BY Zenon, <1>1, <1>3, <2>2 DEF RingInv, Types
    <3>2. queued'[g][t] = IF t = u THEN queued[h][t] + 1 ELSE queued[h][t]
      BY ZenonT(40), <1>1, <1>2, <2>2 DEF CountInv
    <3>3. Cardinality(Places(streams'[g], t)) =
            IF u = t THEN Cardinality(Places(streams[h], t)) + 1
                     ELSE Cardinality(Places(streams[h], t))
      <4>1. Cardinality(Places(Append(streams[h], s), t)) =
              IF u = t THEN Cardinality(Places(streams[h], t)) + 1
                       ELSE Cardinality(Places(streams[h], t))
        BY <1>1, PlacesAppend
      <4> QED
        BY ZenonT(40), <3>1, <4>1
    <3> QED
      BY Zenon, <1>1, <1>4, <3>2, <3>3 DEF CountInv
  <2> QED
    BY ZenonT(40), <2>1, <2>2
<1> QED
  BY Zenon, <1>5, <1>6 DEF CountInv

\* Next takes the stream it returns out of the count.
LEMMA NextStreamInCounts ==
    ASSUME RingInv, CountInv, NEW h \in Handles, NextStreamIn(h)
    PROVE  CountInv'
<1> DEFINE u == ProtocolOf[Head(streams[h])]
<1>1. streams[h] \in Seq(Streams) /\ streams[h] # <<>>
  BY DEF NextStreamIn, RingInv, Types
<1>2. Head(streams[h]) \in Streams
  BY <1>1
<1>3. u \in Protocols
  BY Zenon, <1>2, DeliveryAssumption
<1>4. queued' = [queued EXCEPT ![h][u] = @ - 1]
  BY Zenon DEF NextStreamIn, Uncount
<1>5. streams' = [streams EXCEPT ![h] = Tail(@)]
  BY Zenon DEF NextStreamIn
<1>6. \A t \in Protocols : Cardinality(Places(Tail(streams[h]), t)) =
          IF u = t THEN Cardinality(Places(streams[h], t)) - 1
                   ELSE Cardinality(Places(streams[h], t))
  BY Zenon, <1>1, PlacesTail
<1>7. \A t \in Protocols : Cardinality(Places(Tail(streams[h]), t)) \in Nat
  <2>1. Tail(streams[h]) \in Seq(Streams)
    BY <1>1
  <2> QED
    BY Zenon, <2>1, PlacesFinite
<1>8. /\ queued[h] \in [Protocols -> Nat]
      /\ \A t \in Protocols : MaxQueued[t] \in Nat /\ queued[h][t] <= MaxQueued[t]
      /\ \A t \in Protocols : queued[h][t] = Cardinality(Places(streams[h], t))
  BY Zenon, DeliveryAssumption DEF CountInv
<1>9. queued[h][u] - 1 \in Nat
  BY ZenonT(40), <1>3, <1>6, <1>7, <1>8
<1>10. queued' \in [Handles -> [Protocols -> Nat]]
  BY Zenon, <1>3, <1>4, <1>9 DEF CountInv
<1>11. ASSUME NEW g \in Handles, NEW t \in Protocols
       PROVE  /\ queued'[g][t] = Cardinality(Places(streams'[g], t))
              /\ queued'[g][t] <= MaxQueued[t]
  <2>1. CASE g # h
    BY ZenonT(40), <1>4, <1>5, <2>1 DEF CountInv, RingInv, Types
  <2>2. CASE g = h
    <3>1. streams'[g] = Tail(streams[h])
      BY Zenon, <1>5, <2>2 DEF RingInv, Types
    <3>2. queued'[g][t] = IF t = u THEN queued[h][t] - 1 ELSE queued[h][t]
      BY ZenonT(40), <1>3, <1>4, <2>2 DEF CountInv
    <3> HIDE DEF u
    <3>3. queued[h][t] \in Nat /\ MaxQueued[t] \in Nat
      BY ZenonT(40), <1>8
    <3>4. /\ queued'[g][t] = Cardinality(Places(streams'[g], t))
          /\ queued[h][t] <= MaxQueued[t]
      BY Zenon, <1>6, <1>8, <3>1, <3>2
    <3>5. queued[h][t] - 1 <= MaxQueued[t]
      BY <3>3, <3>4
    <3> QED
      BY Zenon, <3>2, <3>4, <3>5
  <2> QED
    BY ZenonT(40), <2>1, <2>2
<1> QED
  BY Zenon, <1>10, <1>11 DEF CountInv

\* closePeer empties the queue and the counts together.
LEMMA ClosePeerCounts ==
    ASSUME RingInv, CountInv, NEW h \in Handles, ClearQueue(h)
    PROVE  CountInv'
<1>1. queued' = [queued EXCEPT ![h] = [t \in Protocols |-> 0]]
  BY Zenon DEF ClearQueue
<1>2. streams' = [streams EXCEPT ![h] = <<>>]
  BY Zenon DEF ClearQueue
<1>3. queued' \in [Handles -> [Protocols -> Nat]]
  BY Zenon, <1>1 DEF CountInv
<1>4. \A t \in Protocols : Cardinality(Places(<<>>, t)) = 0 /\ MaxQueued[t] \in Nat
  <2>1. \A t \in Protocols : Places(<<>>, t) = {}
    BY DEF Places
  <2> QED
    BY Zenon, <2>1, FS_EmptySet, DeliveryAssumption
<1>5. ASSUME NEW g \in Handles, NEW t \in Protocols
      PROVE  /\ queued'[g][t] = Cardinality(Places(streams'[g], t))
             /\ queued'[g][t] <= MaxQueued[t]
  <2>1. CASE g # h
    BY Zenon, <1>1, <1>2, <2>1 DEF CountInv, RingInv, Types
  <2>2. CASE g = h
    <3>1. queued'[g][t] = 0 /\ streams'[g] = <<>>
      BY Zenon, <1>1, <1>2, <2>2 DEF CountInv, RingInv, Types
    <3>2. 0 <= MaxQueued[t]
      BY <1>4
    <3> QED
      BY Zenon, <1>4, <3>1, <3>2
  <2> QED
    BY Zenon, <2>1, <2>2
<1> QED
  BY Zenon, <1>3, <1>5 DEF CountInv

LEMMA CountInvNext == RingInv /\ CountInv /\ [Next]_vars => CountInv'
<1> SUFFICES ASSUME RingInv, CountInv, [Next]_vars PROVE CountInv'
  OBVIOUS
<1>1. CASE UNCHANGED <<queued, streams>>
  BY <1>1 DEF CountInv
<1>2. ASSUME NEW p \in Peers, NEW s \in Streams, Push(p, s) PROVE CountInv'
  BY <1>2, PushCounts
<1>3. ASSUME NEW h \in Handles, NextStreamIn(h) PROVE CountInv'
  BY Zenon, <1>3, NextStreamInCounts
<1>4. ASSUME NEW p \in Peers, DropView(p) PROVE CountInv'
  BY ZenonT(40), <1>4, ClosePeerCounts DEF DropView, ClosePeer
<1>5. ASSUME NEW h \in Handles, PeerClose(h) PROVE CountInv'
  BY ZenonT(40), <1>5, ClosePeerCounts DEF PeerClose, ClosePeer, RingInv, Types
<1>6. ASSUME NEW p \in Peers,
             \/ \E h \in Handles : AddPeer(p, h)
             \/ \E s \in Streams : PushEnded(p, s) \/ PushOver(p, s)
             \/ DropClosedView(p)
      PROVE  UNCHANGED <<queued, streams>>
  BY ZenonT(40), <1>6 DEF AddPeer, PushEnded, PushOver, DropClosedView
<1>7. ASSUME \/ Wake \/ NextEmpty
             \/ \E h \in Handles : NextPeerUp(h) \/ NextPeerDown(h)
      PROVE  UNCHANGED <<queued, streams>>
  BY Zenon, <1>7 DEF Wake, NextEmpty, NextPeerUp, NextPeerDown
<1>8. CASE Consume
  BY Zenon, <1>8, <1>1, <1>3, <1>7 DEF Consume
<1>9. CASE Supervise
  BY Zenon, <1>9, <1>1, <1>2, <1>4, <1>6 DEF Supervise
<1>10. CASE UNCHANGED vars
  BY <1>10, <1>1 DEF vars
<1> QED
  BY <1>5, <1>8, <1>9, <1>10 DEF Next

LEMMA CountInvariant == Spec => []CountInv
BY RingInvariant, CountInvInit, CountInvNext, PTL DEF Spec

\* The count that enforces ProtocolSpec.MaxQueued is the number of streams
\* waiting, and never exceeds it (push, Next and closePeer together).
THEOREM QueueBoundExact == Spec => []QueueCountExact
<1>1. CountInv => QueueCountExact
  BY Zenon DEF CountInv, QueueCountExact, Places, Waiting
<1> QED
  BY CountInvariant, <1>1, PTL

\* The state of the family keeps its types; a count never goes below zero.
THEOREM TypeCorrect == Spec => []TypeOK
<1>1. RingInv /\ CountInv => TypeOK
  BY Zenon DEF RingInv, Types, CountInv, TypeOK
<1> QED
  BY RingInvariant, CountInvariant, <1>1, PTL

=============================================================================
