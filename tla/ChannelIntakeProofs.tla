------------------------- MODULE ChannelIntakeProofs -------------------------
(***************************************************************************)
(* Theorems about ChannelIntake, for any peers, streams, chunks and bounds:    *)
(* every handler of the actor, every goroutine and every producer keeps the    *)
(* invariant.                                                                  *)
(***************************************************************************)
EXTENDS ChannelIntakeInvariant

-----------------------------------------------------------------------------
(* The actor's handlers. *)

LEMMA TakenEnrolled ==
    ASSUME IntakeInv, NEW k, Takes(k), k \notin {"Bound", "Unbound"},
           UNCHANGED <<member, producers>>
    PROVE  Enrolled' /\ TypedEngine'
<1>1. \A p \in Peers : Leads(inbox', p, member[p], bound[p])
  BY Zenon, Taken
<1>2. /\ member' = member /\ bound' = bound /\ latest' = latest /\ sessIn' = sessIn
      /\ opens' = opens
  BY DEF producers
<1>3. Enrolled'
  BY Zenon, <1>1, <1>2 DEF Enrolled
<1>4. TypedEngine'
  BY Zenon, <1>2 DEF IntakeInv, TypedEngine
<1> QED
  BY Zenon, <1>3, <1>4

\* A handler that finds nothing to do.
LEMMA IdleHandler ==
    ASSUME IntakeInv, NEW k, Takes(k), k \notin {"Stream", "Bound", "Unbound"},
           k = "ReadDone" => sess.queue = <<>>,
           UNCHANGED <<idleActor, status, producers>>
    PROVE  IntakeInv'
<1>1. sess' = sess /\ member' = member /\ chk' = chk /\ UNCHANGED <<member, producers>>
  BY DEF idleActor, producers
<1>2. Enrolled' /\ TypedEngine'
  <2>1. k \notin {"Bound", "Unbound"}
    OBVIOUS
  <2> QED
    BY Zenon, <1>1, <2>1, TakenEnrolled
<1>3. InboxKept
  <2>1. k # "Stream" /\ (k = "ReadDone" => sess'.queue = <<>>)
    BY Zenon, <1>1
  <2> QED
    BY Zenon, <2>1, Taken
<1>4. UNCHANGED <<channel, reader, status, chk>> /\ decoder' = decoder
  BY <1>1 DEF idleActor, channel, goroutines
<1> QED
  BY Zenon, <1>2, <1>3, <1>4, QuietStep

LEMMA OnReadDone ==
    ASSUME IntakeInv, HandleReadDone
    PROVE  IntakeInv'
<1>1. /\ Takes("ReadDone")
      /\ UNCHANGED <<ctx, actor, member, parked, parkedDue, decoder, cut, producers>>
  BY Zenon DEF HandleReadDone
<1>2. TypedChannel /\ Fits(sess, member) /\ Owned
  BY Zenon DEF IntakeInv
<1>3. CASE ~sess.on
  <2>1. UNCHANGED <<sess, reader, status>>
    BY Zenon, <1>3 DEF HandleReadDone
  <2>2. UNCHANGED <<idleActor, status, producers>>
    BY <1>1, <2>1 DEF idleActor, goroutines
  <2>3. sess.queue = <<>>
    BY Zenon, <1>2, <1>3 DEF Fits
  <2>4. "ReadDone" \notin {"Stream", "Bound", "Unbound"}
    OBVIOUS
  <2> QED
    BY Zenon, <1>1, <2>2, <2>3, <2>4, IdleHandler
<1>4. CASE sess.on
  <2>1. /\ sess' = Feed(sess, <<>>).sess /\ reader' = Feed(sess, <<>>).reader
        /\ status' = Cancelled(Feed(sess, <<>>).refused)
    BY Zenon, <1>4 DEF HandleReadDone
  <2>2. /\ actor = "run" /\ TypedInbox(inbox') /\ SentOnce(inbox')
        /\ \A s \in Streams : s \in Waiting(inbox') <=> s \in Waiting(inbox)
    <3>1. "ReadDone" # "Stream"
      OBVIOUS
    <3>2. /\ actor = "run" /\ TypedInbox(inbox') /\ SentOnce(inbox')
          /\ \A s \in Streams : s \in Waiting(inbox') <=>
                s \in Waiting(inbox) /\ ~("ReadDone" = "Stream" /\ Of = s)
      BY Zenon, <1>1, Taken
    <3> QED
      BY Zenon, <3>1, <3>2
  <2>3. Enrolled'
    <3>1. "ReadDone" \notin {"Bound", "Unbound"} /\ UNCHANGED <<member, producers>>
      BY <1>1
    <3> QED
      BY Zenon, <1>1, <3>1, TakenEnrolled
  <2>4. sess \in SessionType /\ (decoder => sess.stage \in {"Decoding", "Reconstructed"})
    BY Zenon, <1>2, <2>2 DEF TypedChannel, Owned
  <2>5. <<>> \in Seq(Streams) /\ IsInjective(<<>>) /\ Range(<<>>) = {}
    <3>1. <<>> \in Seq(Streams)
      OBVIOUS
    <3> QED
      BY Zenon, <3>1, NoElements
  <2>6. /\ parked' \in Seq(Streams) /\ Len(parked') <= MaxParked /\ parkedDue' \in BOOLEAN
        /\ IsInjective(parked') /\ parked' = parked
    BY Zenon, <1>1, <1>2 DEF TypedChannel, IntakeInv, Placed
  <2>7. \A s \in Range(<<>>) : s \in Waiting(inbox) \/ s \in Range(parked)
    BY Zenon, <2>5
  <2>8. \A s \in Streams :
          /\ s \in Waiting(inbox') <=> s \in Waiting(inbox) /\ s \notin Range(<<>>)
          /\ s \in Range(parked') <=> s \in Range(parked) /\ s \notin Range(<<>>)
    BY Zenon, <2>2, <2>5, <2>6
  <2>9. UNCHANGED <<ctx, actor, member, decoder, producers>>
    BY <1>1
  <2> QED
    BY Zenon, <1>2, <1>4, <2>1, <2>2, <2>3, <2>4, <2>5, <2>6, <2>7, <2>8, <2>9, FedStep
<1> QED
  BY Zenon, <1>3, <1>4

LEMMA OnChunk ==
    ASSUME IntakeInv, HandleChunk
    PROVE  IntakeInv'
<1> DEFINE new == <<Of>>
<1>1. /\ Takes("Stream") /\ sess.on
      /\ UNCHANGED <<ctx, actor, member, parked, parkedDue, decoder, cut, producers>>
      /\ sess' = Feed(sess, new).sess /\ reader' = Feed(sess, new).reader
      /\ status' = Cancelled(Feed(sess, new).refused)
  BY Zenon DEF HandleChunk
<1>2. TypedChannel /\ Fits(sess, member) /\ Owned
  BY Zenon DEF IntakeInv
<1>3. /\ actor = "run" /\ TypedInbox(inbox') /\ SentOnce(inbox') /\ Of \in Waiting(inbox)
      /\ \A s \in Streams : s \in Waiting(inbox') <=> s \in Waiting(inbox) /\ ~(Of = s)
  BY Zenon, <1>1, Taken
<1>4. Enrolled'
  <2>1. "Stream" \notin {"Bound", "Unbound"} /\ UNCHANGED <<member, producers>>
    BY <1>1
  <2> QED
    BY Zenon, <1>1, <2>1, TakenEnrolled
<1>5. sess \in SessionType /\ (decoder => sess.stage \in {"Decoding", "Reconstructed"})
  BY Zenon, <1>2, <1>3 DEF TypedChannel, Owned
<1>6. Of \in Streams
  BY Zenon, <1>3 DEF Waiting
<1>7. new \in Seq(Streams) /\ IsInjective(new) /\ Range(new) = {Of}
  BY Zenon, <1>6, OneElement
<1> HIDE DEF new
<1>8. /\ parked' \in Seq(Streams) /\ Len(parked') <= MaxParked /\ parkedDue' \in BOOLEAN
      /\ IsInjective(parked') /\ parked' = parked
  BY Zenon, <1>1, <1>2 DEF TypedChannel, IntakeInv, Placed
<1>9. \A s \in Range(new) : s \in Waiting(inbox) \/ s \in Range(parked)
  BY Zenon, <1>3, <1>7
<1>10. \A s \in Streams :
         /\ s \in Waiting(inbox') <=> s \in Waiting(inbox) /\ s \notin Range(new)
         /\ s \in Range(parked') <=> s \in Range(parked) /\ s \notin Range(new)
  <2>1. Of \notin Range(parked)
    BY Zenon, <1>3, <1>6 DEF IntakeInv, Placed, Apart
  <2> QED
    BY Zenon, <1>3, <1>7, <1>8, <2>1
<1>11. UNCHANGED <<ctx, actor, member, decoder, producers>>
  BY <1>1
<1> QED
  BY Zenon, <1>1, <1>2, <1>3, <1>4, <1>5, <1>7, <1>8, <1>9, <1>10, <1>11, FedStep

LEMMA OnParkChunk ==
    ASSUME IntakeInv, ParkChunk
    PROVE  IntakeInv'
<1> DEFINE S == IF ParkedFull THEN {Of} ELSE {}
           go == {}
<1>1. /\ Takes("Stream") /\ ~sess.on
      /\ UNCHANGED <<ctx, actor, member, sess, parkedDue, goroutines, producers>>
  BY Zenon DEF ParkChunk
<1>2. /\ ctx' = ctx /\ actor' = actor /\ member' = member /\ sess' = sess
      /\ parkedDue' = parkedDue /\ reader' = reader /\ decoder' = decoder /\ chk' = chk
      /\ UNCHANGED <<member, producers>>
  BY <1>1 DEF goroutines, producers
<1>3. TypedChannel /\ Stopped /\ Fits(sess, member) /\ Owned /\ Placed /\ Slots
  BY Zenon DEF IntakeInv
<1>4. /\ actor = "run" /\ TypedInbox(inbox') /\ SentOnce(inbox') /\ Of \in Waiting(inbox)
      /\ \A s \in Streams : s \in Waiting(inbox') <=> s \in Waiting(inbox) /\ ~(Of = s)
  BY Zenon, <1>1, Taken
<1>5. Enrolled' /\ TypedEngine'
  <2>1. "Stream" \notin {"Bound", "Unbound"}
    OBVIOUS
  <2> QED
    BY Zenon, <1>1, <1>2, <2>1, TakenEnrolled
<1>6. /\ Of \in Streams /\ Of \notin Range(parked) /\ IsInjective(parked)
      /\ parked \in Seq(Streams) /\ Len(parked) <= MaxParked
  BY Zenon, <1>3, <1>4 DEF Placed, Apart, Waiting, TypedChannel
<1>7. /\ parked' \in Seq(Streams) /\ Len(parked') <= MaxParked /\ IsInjective(parked')
      /\ Range(parked') = IF ParkedFull THEN Range(parked) ELSE Range(parked) \union {Of}
      /\ status' = Cancelled(S)
  <2>1. CASE ParkedFull
    BY Zenon, <1>6, <2>1 DEF ParkChunk
  <2>2. CASE ~ParkedFull
    <3>1. parked' = Append(parked, Of) /\ status' = status
      BY Zenon, <2>2 DEF ParkChunk
    <3>2. Len(parked) < MaxParked
      BY <1>6, <2>2, IntakeAssumption DEF ParkedFull
    <3>3. parked' = parked \o <<Of>>
      BY <1>6, <3>1
    <3>4. <<Of>> \in Seq(Streams) /\ Range(<<Of>>) = {Of} /\ IsInjective(<<Of>>)
      BY Zenon, <1>6, OneElement
    <3>5. Range(parked) \cap Range(<<Of>>) = {} /\ Len(<<Of>>) = 1
      BY <1>6, <3>4
    <3>6. /\ parked' \in Seq(Streams) /\ Len(parked') = Len(parked) + Len(<<Of>>)
          /\ Range(parked') = Range(parked) \union Range(<<Of>>) /\ IsInjective(parked')
      BY Zenon, <1>6, <3>3, <3>4, <3>5, JoinSeq
    <3>7. Len(parked') <= MaxParked
      BY <1>6, <3>2, <3>5, <3>6, IntakeAssumption
    <3>8. status' = Cancelled({})
      BY Zenon, <1>3, <3>1, CancelledNone
    <3> QED
      BY Zenon, <2>2, <3>4, <3>6, <3>7, <3>8
  <2> QED
    BY Zenon, <2>1, <2>2
<1>8. Starts(reader, reader', go) /\ Cancels(status, status', S) /\ \A s : s \notin go
  BY Zenon, <1>2, <1>7 DEF Starts, Cancels, Cancelled
<1>9. /\ Apart(Waiting(inbox), Range(parked), Range(sess.queue), reader, status)
      /\ Held(Waiting(inbox), Range(parked), Range(sess.queue), reader, status, chk, actor)
  BY Zenon, <1>3 DEF Placed
<1>10. \A s : s \in S <=> ParkedFull /\ s = Of
  BY Zenon
<1> HIDE DEF go, S
<1>11. Moved(Waiting(inbox), Range(parked), Range(sess.queue),
             Waiting(inbox'), Range(parked'), Range(sess.queue), go, S)
  BY Zenon, <1>4, <1>7, <1>8, <1>9, <1>10 DEF Moved, Apart
<1>12. actor # "done" /\ actor' # "done"
  BY Zenon, <1>2, <1>4
<1>13. /\ Apart(Waiting(inbox'), Range(parked'), Range(sess.queue), reader', status')
       /\ Held(Waiting(inbox'), Range(parked'), Range(sess.queue), reader', status', chk, actor')
  BY Zenon, <1>8, <1>9, <1>11, <1>12, Moves
<1>14. Placed'
  BY Zenon, <1>2, <1>3, <1>4, <1>7, <1>13 DEF Placed
<1>15. TypedChannel'
  <2>1. status' \in [Streams -> {"idle", "open", "read", "cancelled"}]
    BY Zenon, <1>3, <1>7, CancelledType
  <2> QED
    BY Zenon, <1>2, <1>3, <1>7, <2>1 DEF TypedChannel
<1>16. Stopped' /\ Owned'
  <2>1. actor' = "run" /\ actor' \notin {"stopping", "done"}
    BY <1>2, <1>4
  <2>2. Owned'
    BY Zenon, <1>2, <1>3 DEF Owned
  <2> QED
    BY Zenon, <2>1, <2>2 DEF Stopped
<1>17. Fits(sess, member)'
  BY Zenon, <1>2, <1>3
<1>18. Slots'
  <2>1. sess'.queue = <<>>
    BY Zenon, <1>1, <1>2, <1>3 DEF Fits
  <2>2. Reading' = Reading
    BY Zenon, <1>2 DEF Reading
  <2> QED
    BY Zenon, <1>3, <2>1, <2>2 DEF Slots
<1> QED
  BY Zenon, <1>4, <1>5, <1>14, <1>15, <1>16, <1>17, <1>18 DEF IntakeInv

LEMMA OnChunkData ==
    ASSUME IntakeInv, HandleChunkData
    PROVE  IntakeInv'
<1>1. /\ Takes("Data")
      /\ UNCHANGED <<ctx, actor, member, parked, parkedDue, reader, status, producers>>
  BY Zenon DEF HandleChunkData
<1>2. "Data" \notin {"Stream", "Bound", "Unbound"} /\ "Data" # "ReadDone" /\ "Data" # "Stream"
  OBVIOUS
<1>3. CASE UNCHANGED <<sess, decoder, cut>>
  <2>1. UNCHANGED <<idleActor, status, producers>>
    BY <1>1, <1>3 DEF idleActor, goroutines
  <2> QED
    BY Zenon, <1>1, <1>2, <2>1, IdleHandler
<1>4. CASE sess.on /\ AcceptChunk(ChunkOf[Of])
  <2> DEFINE have == sess.have \cup {ChunkOf[Of]}
             complete == Cardinality(have) >= DataChunks /\ sess.stage = "Consuming"
             stage == IF complete THEN "Decoding" ELSE sess.stage
  <2>1. sess' = [sess EXCEPT !.have = have, !.stage = stage] /\ decoder' = (decoder \/ complete)
    BY <1>4 DEF AcceptChunk
  <2>2. actor = "run" /\ Head(inbox) \in Events /\ Head(inbox).kind = "Data" /\ InboxKept
    BY Zenon, <1>1, <1>2, Taken
  <2>3. Enrolled' /\ UNCHANGED <<member, producers>>
    <3>1. "Data" \notin {"Bound", "Unbound"} /\ UNCHANGED <<member, producers>>
      BY <1>1
    <3> QED
      BY Zenon, <1>1, <3>1, TakenEnrolled
  <2>4. TypedChannel /\ Stopped /\ Fits(sess, member) /\ Owned
    BY Zenon DEF IntakeInv
  <2>5. sess \in SessionType
    BY Zenon, <2>4 DEF TypedChannel
  <2>6. have \in SUBSET Chunks
    <3>1. Of \in Streams
      BY <2>2, EventTypes DEF Of
    <3>2. ChunkOf[Of] \in Chunks
      BY <3>1, IntakeAssumption
    <3>3. sess.have \in SUBSET Chunks
      BY <2>5 DEF SessionType
    <3> QED
      BY Zenon, <3>2, <3>3
  <2>7. /\ stage \in {"Consuming", "Decoding", "Reconstructed", "Origin"}
        /\ stage = sess.stage \/ stage = "Decoding"
        /\ sess.stage \in {"Decoding", "Reconstructed"} => stage = sess.stage
        /\ complete => stage = "Decoding"
    <3>1. sess.stage \in {"Consuming", "Decoding", "Reconstructed", "Origin"}
      BY <2>5 DEF SessionType
    <3> HIDE DEF have
    <3> QED
      BY <3>1
  <2> HIDE DEF have, stage, complete
  <2>8. sess' \in SessionType
    BY Zenon, <2>1, <2>5, <2>6, <2>7 DEF SessionType
  <2>9. sess'.on = sess.on /\ sess'.peers = sess.peers /\ sess'.left = sess.left
    BY <2>1, <2>5 DEF SessionType
  <2>10. /\ sess'.completed = sess.completed /\ sess'.ever = sess.ever
         /\ sess'.queue = sess.queue /\ sess'.stage = stage
    BY <2>1, <2>5 DEF SessionType
  <2>11. (sess'.on <=> sess.on) /\ (sess'.ever <=> sess.ever) /\ sess'.on
    BY Zenon, <1>4, <2>9, <2>10
  <2>12. Fits(sess', member)
    BY Zenon, <2>4, <2>7, <2>9, <2>10, <2>11, FitsSame
  <2>13. /\ member' = member /\ actor' = "run" /\ parkedDue' = parkedDue /\ parked' = parked
         /\ UNCHANGED <<ctx, parked, reader, status, producers>>
    BY <1>1, <2>2
  <2>14. /\ Fits(sess, member)' /\ member' \in [Peers -> 0..MaxConn]
         /\ parkedDue' \in BOOLEAN
    BY Zenon, <2>4, <2>12, <2>13 DEF TypedChannel
  <2>15. /\ actor' \in {"run", "closing", "publish", "stopping"}
         /\ actor' \notin {"stopping", "done"} /\ actor # "done"
    BY <2>2, <2>13
  <2>16. Stopped'
    BY Zenon, <2>13, <2>15 DEF Stopped
  <2>17. Owned'
    <3>1. CASE decoder
      BY Zenon, <2>2, <2>4, <2>7, <2>10, <2>11, <3>1 DEF Owned
    <3>2. CASE complete
      <4>1. sess'.stage \in {"Decoding", "Reconstructed"}
        BY <2>7, <2>10, <3>2
      <4> QED
        BY Zenon, <2>11, <4>1 DEF Owned
    <3>3. CASE ~decoder /\ ~complete
      <4>1. ~decoder'
        BY Zenon, <2>1, <3>3
      <4> QED
        BY Zenon, <4>1 DEF Owned
    <3> QED
      BY Zenon, <3>1, <3>2, <3>3
  <2> QED
    BY Zenon, <2>2, <2>3, <2>8, <2>10, <2>13, <2>14, <2>15, <2>16, <2>17, StillStep
<1> QED
  BY Zenon, <1>3, <1>4 DEF HandleChunkData

LEMMA OnSessionOpen ==
    ASSUME IntakeInv, HandleSessionOpen
    PROVE  IntakeInv'
<1>1. Takes("Open") /\ UNCHANGED <<ctx, actor, member, decoder, cut, producers>>
  BY Zenon DEF HandleSessionOpen
<1>2. "Open" \notin {"Stream", "Bound", "Unbound"} /\ "Open" # "ReadDone" /\ "Open" # "Stream"
  OBVIOUS
<1>3. CASE UNCHANGED <<sess, reader, status, parked, parkedDue>>
  <2>1. UNCHANGED <<idleActor, status, producers>>
    BY <1>1, <1>3 DEF idleActor, goroutines
  <2> QED
    BY Zenon, <1>1, <1>2, <2>1, IdleHandler
<1>4. ASSUME ~sess.on, parked' = <<>>, parkedDue' = FALSE,
             sess' = Feed(NewSession("Consuming", {}), parked).sess,
             reader' = Feed(NewSession("Consuming", {}), parked).reader,
             status' = Cancelled(Feed(NewSession("Consuming", {}), parked).refused)
      PROVE  IntakeInv'
  <2> DEFINE X == NewSession("Consuming", {})
  <2>1. TypedChannel /\ Fits(sess, member) /\ Owned /\ Placed
    BY Zenon DEF IntakeInv
  <2>2. /\ actor = "run" /\ TypedInbox(inbox') /\ SentOnce(inbox')
        /\ \A s \in Streams : s \in Waiting(inbox') <=>
              s \in Waiting(inbox) /\ ~("Open" = "Stream" /\ Of = s)
    BY Zenon, <1>1, Taken
  <2>3. Enrolled'
    <3>1. "Open" \notin {"Bound", "Unbound"} /\ UNCHANGED <<member, producers>>
      BY <1>1
    <3> QED
      BY Zenon, <1>1, <3>1, TakenEnrolled
  <2>4. X \in SessionType /\ X.on /\ X.queue = <<>> /\ Fits(X, member)
    <3>1. member \in [Peers -> 0..MaxConn] /\ {} \in SUBSET Chunks
      BY Zenon, <2>1 DEF TypedChannel
    <3>2. "Consuming" \in {"Consuming", "Origin"}
      OBVIOUS
    <3> QED
      BY Zenon, <3>1, <3>2, NewSessionFits
  <2> HIDE DEF X
  <2>5. X.queue = sess.queue
    BY Zenon, <1>4, <2>1, <2>4 DEF Fits
  <2>6. ~decoder
    BY Zenon, <1>4, <2>1, <2>2 DEF Owned
  <2>7. parked \in Seq(Streams) /\ IsInjective(parked)
    BY Zenon, <2>1 DEF TypedChannel, Placed
  <2>8. Range(parked') = {} /\ IsInjective(parked')
    BY Zenon, <1>4, NoElements
  <2>9. parked' \in Seq(Streams) /\ Len(parked') <= MaxParked /\ parkedDue' \in BOOLEAN
    <3>1. <<>> \in Seq(Streams) /\ Len(<<>>) = 0
      OBVIOUS
    <3>2. 0 <= MaxParked
      BY IntakeAssumption
    <3> QED
      BY Zenon, <1>4, <3>1, <3>2
  <2>10. \A s \in Streams :
          /\ s \in Waiting(inbox') <=> s \in Waiting(inbox) /\ s \notin Range(parked)
          /\ s \in Range(parked') <=> s \in Range(parked) /\ s \notin Range(parked)
    <3>1. \A s \in Streams : s \in Waiting(inbox) => s \notin Range(parked)
      BY Zenon, <2>1 DEF Placed, Apart
    <3> QED
      BY Zenon, <1>2, <2>2, <2>8, <3>1
  <2>11. UNCHANGED <<ctx, actor, member, decoder, producers>>
    BY <1>1
  <2>12. /\ sess' = Feed(X, parked).sess /\ reader' = Feed(X, parked).reader
         /\ status' = Cancelled(Feed(X, parked).refused)
    BY Zenon, <1>4 DEF X
  <2>13. \A s \in Range(parked) : s \in Waiting(inbox) \/ s \in Range(parked)
    BY Zenon
  <2> QED
    BY ONLY Zenon, IntakeInv, <2>2, <2>3, <2>4, <2>5, <2>6, <2>7, <2>8, <2>9, <2>10, <2>11,
       <2>12, <2>13, FedStep
<1> QED
  BY Zenon, <1>3, <1>4 DEF HandleSessionOpen

\* The enrolment or the withdrawal at the head of the inbox says what becomes of the
\* members.
LEMMA MemberTurn ==
    ASSUME IntakeInv, NEW k \in {"Bound", "Unbound"}, Takes(k),
           NEW n \in 0..MaxConn, k = "Bound" => n = Head(inbox).conn, k = "Unbound" => n = 0,
           member' = [member EXCEPT ![Of] = n], UNCHANGED producers
    PROVE  /\ Of \in Peers /\ Enrolled' /\ InboxKept /\ member' \in [Peers -> 0..MaxConn]
           /\ \A p \in Peers : member'[p] = IF p = Of THEN n ELSE member[p]
           /\ k = "Bound" => member[Of] = 0 /\ n # 0
<1>1. /\ Head(inbox) \in Events /\ Head(inbox).kind = k /\ InboxKept
      /\ \A p \in Peers : \E mid \in 0..MaxConn :
            Turn(Head(inbox), p, member[p], mid) /\ Leads(inbox', p, mid, bound[p])
  <2>1. k # "Stream" /\ k # "ReadDone"
    OBVIOUS
  <2> QED
    BY Zenon, <2>1, Taken
<1>2. Of \in Peers /\ Head(inbox).of = Of
  <2>1. Head(inbox).kind \in {"Bound", "Unbound", "Open", "Reconstructed", "Ended"}
    BY <1>1
  <2> QED
    BY Zenon, <1>1, <2>1, EventTypes DEF Of
<1>3. member \in [Peers -> 0..MaxConn]
  BY Zenon DEF IntakeInv, TypedChannel
<1>4. /\ member' \in [Peers -> 0..MaxConn]
      /\ \A p \in Peers : member'[p] = IF p = Of THEN n ELSE member[p]
  BY Zenon, <1>2, <1>3
<1>5. k = "Bound" \/ k = "Unbound"
  OBVIOUS
<1>6. ASSUME NEW p \in Peers
      PROVE  /\ Leads(inbox', p, member'[p], bound[p])
             /\ p = Of /\ k = "Bound" => member[p] = 0 /\ n # 0
  <2>1. PICK mid \in 0..MaxConn :
           Turn(Head(inbox), p, member[p], mid) /\ Leads(inbox', p, mid, bound[p])
    BY Zenon, <1>1
  <2>2. CASE p # Of
    <3>1. mid = member[p]
      BY Zenon, <1>2, <2>1, <2>2 DEF Turn
    <3> QED
      BY Zenon, <1>4, <2>1, <2>2, <3>1
  <2>3. CASE p = Of /\ k = "Bound"
    <3>1. member[p] = 0 /\ mid = n /\ n # 0
      BY Zenon, <1>1, <1>2, <2>1, <2>3 DEF Turn
    <3> QED
      BY Zenon, <1>4, <2>1, <2>3, <3>1
  <2>4. CASE p = Of /\ k = "Unbound"
    <3>1. k # "Bound"
      BY <2>4
    <3>2. mid = n
      BY Zenon, <1>1, <1>2, <2>1, <2>4, <3>1 DEF Turn
    <3> QED
      BY Zenon, <1>4, <2>1, <2>4, <3>1, <3>2
  <2> QED
    BY Zenon, <1>5, <2>2, <2>3, <2>4
<1>7. bound' = bound
  BY DEF producers
<1>8. Enrolled'
  BY Zenon, <1>6, <1>7 DEF Enrolled
<1> QED
  BY Zenon, <1>1, <1>2, <1>4, <1>6, <1>8

LEMMA OnPeerBound ==
    ASSUME IntakeInv, HandlePeerBound
    PROVE  IntakeInv'
<1> DEFINE n == Head(inbox).conn
           X == [sess EXCEPT !.peers[Of] = n, !.ever = TRUE, !.left = @ \ {Of}]
<1>1. /\ Takes("Bound") /\ member' = [member EXCEPT ![Of] = n]
      /\ sess' = IF ~sess.on \/ member[Of] = n \/ sess.peers[Of] # 0 THEN sess ELSE X
      /\ UNCHANGED <<ctx, actor, parked, parkedDue, goroutines, status, producers>>
  BY Zenon DEF HandlePeerBound
<1>2. /\ actor = "run" /\ n \in 0..MaxConn
  <2>1. actor = "run" /\ Head(inbox) \in Events /\ Head(inbox).kind = "Bound"
    BY Zenon, <1>1, Taken
  <2> QED
    BY <2>1, EventTypes
<1>3. /\ Of \in Peers /\ Enrolled' /\ InboxKept /\ member' \in [Peers -> 0..MaxConn]
      /\ \A p \in Peers : member'[p] = IF p = Of THEN n ELSE member[p]
      /\ member[Of] = 0 /\ n # 0
  <2>1. "Bound" \in {"Bound", "Unbound"} /\ "Bound" # "Unbound" /\ UNCHANGED producers
    BY <1>1
  <2> HIDE DEF n
  <2>2. n = Head(inbox).conn
    BY Zenon DEF n
  <2> QED
    BY Zenon, <1>1, <1>2, <2>1, <2>2, MemberTurn
<1>4. TypedChannel /\ Stopped /\ Fits(sess, member) /\ Owned
  BY Zenon DEF IntakeInv
<1>5. sess \in SessionType
  BY Zenon, <1>4 DEF TypedChannel
<1> HIDE DEF n
<1>6. /\ actor' = "run" /\ decoder' = decoder /\ parkedDue' = parkedDue
      /\ UNCHANGED <<ctx, parked, reader, status, producers>>
  BY <1>1, <1>2 DEF goroutines
<1>7. /\ sess' \in SessionType /\ sess'.queue = sess.queue /\ sess'.on = sess.on
      /\ sess'.stage = sess.stage /\ Fits(sess, member)'
  <2>1. CASE ~sess.on
    <3>1. sess' = sess
      BY Zenon, <1>1, <2>1
    <3>2. Fits(sess', member')
      BY Zenon, <1>4, <2>1, <3>1 DEF Fits
    <3> QED
      BY Zenon, <1>5, <3>1, <3>2
  <2>2. CASE sess.on
    <3>1. sess.peers[Of] = 0
      BY Zenon, <1>3, <1>4, <2>2 DEF Fits
    <3>2. sess' = X
      BY Zenon, <1>1, <1>3, <2>2, <3>1
    <3>3. sess.peers \in [Peers -> 0..MaxConn] /\ sess.left \in SUBSET Peers
      BY <1>5 DEF SessionType
    <3> DEFINE f == [sess.peers EXCEPT ![Of] = n]
               l == sess.left \ {Of}
    <3>4. /\ f \in [Peers -> 0..MaxConn] /\ l \in SUBSET Peers
          /\ \A p \in Peers : f[p] = IF p = Of THEN n ELSE sess.peers[p]
      BY Zenon, <1>2, <1>3, <3>3
    <3>5. sess' = [sess EXCEPT !.peers = f, !.ever = TRUE, !.left = l]
      BY <1>5, <3>2 DEF SessionType
    <3> HIDE DEF f, l, X
    <3>6. sess' \in SessionType
      BY Zenon, <1>5, <3>4, <3>5 DEF SessionType
    <3>7. sess'.queue = sess.queue /\ sess'.on = sess.on /\ sess'.stage = sess.stage
      BY <1>5, <3>5 DEF SessionType
    <3>8. sess'.completed = sess.completed /\ sess'.peers = f /\ sess'.left = l
      BY <1>5, <3>5 DEF SessionType
    <3>9. /\ Of \in Attached(sess') /\ Of \notin Attached(sess)
          /\ Attached(sess) \subseteq Attached(sess')
      BY Zenon, <1>3, <3>1, <3>4, <3>8 DEF Attached
    <3>10. sess.completed \subseteq Attached(sess)
      BY Zenon, <1>4 DEF Fits
    <3>11. ~Idle(sess')
      BY Zenon, <3>8, <3>9, <3>10 DEF Idle
    <3>12. \A p \in Peers : sess'.peers[p] = IF p \in sess'.left THEN 0 ELSE member'[p]
      BY Zenon, <1>3, <1>4, <2>2, <3>4, <3>8 DEF Fits, l
    <3>13. sess'.on
      BY Zenon, <2>2, <3>7
    <3>14. Fits(sess', member')
      BY Zenon, <3>8, <3>9, <3>10, <3>11, <3>12, <3>13 DEF Fits
    <3> QED
      BY Zenon, <3>6, <3>7, <3>14
  <2> QED
    BY Zenon, <2>1, <2>2
<1>8. Stopped' /\ actor' \in {"run", "closing", "publish", "stopping"} /\ actor # "done"
  BY <1>2, <1>6 DEF Stopped
<1>9. Owned'
  <2>1. ASSUME decoder' PROVE sess'.on /\ sess'.stage \in {"Decoding", "Reconstructed"}
    <3>1. decoder
      BY <1>6, <2>1
    <3> QED
      BY Zenon, <1>2, <1>4, <1>7, <3>1 DEF Owned
  <2> QED
    BY Zenon, <2>1 DEF Owned
<1>10. parkedDue' \in BOOLEAN
  BY Zenon, <1>4, <1>6 DEF TypedChannel
<1> QED
  BY Zenon, <1>3, <1>6, <1>7, <1>8, <1>9, <1>10, StillStep

\* What Fits says of a session that p has left, of members m: n is what they say of p.
LEMMA DroppedFits ==
    ASSUME NEW X, NEW Y, NEW p \in Peers, NEW m, NEW m2, Fits(X, m), ~Idle(Y),
           Y.on = X.on, Y.ever = X.ever, Y.completed = X.completed \ {p},
           \A q \in Peers : Y.peers[q] = IF q = p THEN 0 ELSE X.peers[q],
           X.queue = <<>> => Y.queue = <<>>,
           \A q \in Peers : q # p => m2[q] = m[q] /\ (q \in Y.left <=> q \in X.left),
           p \in Y.left \/ m2[p] = 0
    PROVE  Fits(Y, m2)
<1>1. (Y.on <=> X.on) /\ (Y.ever <=> X.ever)
  BY Zenon
<1>2. ASSUME Y.on, NEW q \in Peers
      PROVE  Y.peers[q] = IF q \in Y.left THEN 0 ELSE m2[q]
  <2>1. CASE q = p
    BY Zenon, <2>1
  <2>2. CASE q # p
    BY Zenon, <1>1, <1>2, <2>2 DEF Fits
  <2> QED
    BY Zenon, <2>1, <2>2
<1>3. Y.completed \subseteq Attached(Y)
  <2>1. X.completed \subseteq Attached(X)
    BY Zenon DEF Fits
  <2>2. ASSUME NEW q \in Attached(X), q # p
        PROVE  q \in Attached(Y)
    BY Zenon, <2>2 DEF Attached
  <2> QED
    BY Zenon, <2>1, <2>2
<1>4. ~Y.on => Y.queue = <<>> /\ ~Y.ever
  BY Zenon, <1>1 DEF Fits
<1> QED
  BY Zenon, <1>2, <1>3, <1>4 DEF Fits

LEMMA OnPeerUnbound ==
    ASSUME IntakeInv, HandlePeerUnbound
    PROVE  IntakeInv'
<1> DEFINE kept == Keep(parked, Others(Of))
           X == [Dropped(sess, Of) EXCEPT !.left = @ \ {Of}]
           S == From(Of, sess.queue) \cup From(Of, parked)
<1>1. /\ Takes("Unbound") /\ member' = [member EXCEPT ![Of] = 0]
      /\ UNCHANGED <<ctx, goroutines, producers>>
  BY Zenon DEF HandlePeerUnbound
<1>2. \/ Idle(X) /\ Dispose("closing")
      \/ /\ ~Idle(X) /\ sess' = X /\ status' = Cancelled(S) /\ parked' = kept
         /\ parkedDue' = (parkedDue /\ kept # <<>>) /\ actor' = actor
  BY Zenon DEF HandlePeerUnbound
<1>3. /\ Of \in Peers /\ Enrolled' /\ InboxKept /\ member' \in [Peers -> 0..MaxConn]
      /\ \A p \in Peers : member'[p] = IF p = Of THEN 0 ELSE member[p]
  <2>1. /\ "Unbound" \in {"Bound", "Unbound"} /\ "Unbound" # "Bound" /\ UNCHANGED producers
        /\ 0 \in 0..MaxConn
    BY <1>1, IntakeAssumption
  <2> QED
    BY Zenon, <1>1, <2>1, MemberTurn
<1>4. actor = "run"
  BY Zenon, <1>1, Taken
<1>5. UNCHANGED <<ctx, reader, producers>> /\ decoder' = decoder
  BY <1>1 DEF goroutines
<1>6. TypedChannel /\ Stopped /\ Fits(sess, member) /\ Owned /\ Placed
  BY Zenon DEF IntakeInv
<1>7. CASE Idle(X) /\ Dispose("closing")
  <2>1. "closing" \in {"closing", "publish", "stopping"} /\ "closing" # "stopping"
    OBVIOUS
  <2> QED
    BY Zenon, <1>3, <1>4, <1>5, <1>7, <2>1, DisposeStep
<1>8. CASE /\ ~Idle(X) /\ sess' = X /\ status' = Cancelled(S) /\ parked' = kept
           /\ parkedDue' = (parkedDue /\ kept # <<>>) /\ actor' = actor
  <2>1. sess \in SessionType /\ IsInjective(sess.queue)
    BY Zenon, <1>6 DEF TypedChannel, Placed
  <2> DEFINE l == sess.left \ {Of}
             Y == [Dropped(sess, Of) EXCEPT !.left = l]
  <2>a. X = Y /\ l \in SUBSET Peers
    BY <2>1 DEF Dropped, SessionType
  <2>2. sess' = Y /\ ~Idle(Y)
    BY Zenon, <1>8, <2>a
  <2> HIDE DEF l
  <2>3. /\ Y \in SessionType /\ Y.on = sess.on /\ Y.stage = sess.stage /\ Y.ever = sess.ever
        /\ Y.left = l /\ Y.completed = sess.completed \ {Of}
        /\ \A q \in Peers : Y.peers[q] = IF q = Of THEN 0 ELSE sess.peers[q]
        /\ IsInjective(Y.queue)
        /\ Range(Y.queue) = Range(sess.queue) \ From(Of, sess.queue)
        /\ sess.queue = <<>> => Y.queue = <<>>
    <3>1. IsDropped(sess, Of, l, Y)
      BY Zenon DEF IsDropped
    <3>2. Of \in Peers /\ l \in SUBSET Peers
      BY Zenon, <1>3, <2>a
    <3> HIDE DEF Y
    <3>3. DropResult(sess, Of, l, Y)
      BY ONLY Zenon, <2>1, <3>1, <3>2, DroppedFacts
    <3> QED
      BY ONLY Zenon, <3>3 DEF DropResult
  <2> HIDE DEF Y
  <2>4. Fits(sess, member)'
    <3>1. \A q \in Peers : q # Of => member'[q] = member[q] /\ (q \in Y.left <=> q \in sess.left)
      BY Zenon, <1>3, <2>3 DEF l
    <3>2. member'[Of] = 0
      BY Zenon, <1>3
    <3>3. Fits(Y, member')
      <4>1. Of \in Peers /\ Fits(sess, member) /\ ~Idle(Y)
        BY Zenon, <1>3, <1>6, <2>2
      <4>2. /\ Y.on = sess.on /\ Y.ever = sess.ever /\ Y.completed = sess.completed \ {Of}
            /\ \A q \in Peers : Y.peers[q] = IF q = Of THEN 0 ELSE sess.peers[q]
            /\ sess.queue = <<>> => Y.queue = <<>>
        BY ONLY Zenon, <2>3
      <4> QED
        BY ONLY <3>1, <3>2, <4>1, <4>2, DroppedFits
    <3> QED
      BY Zenon, <2>2, <3>3
  <2>5. parked \in Seq(Streams) /\ IsInjective(parked) /\ Len(parked) <= MaxParked
    BY Zenon, <1>6 DEF TypedChannel, Placed
  <2>6. /\ kept \in Seq(Streams) /\ IsInjective(kept) /\ Range(kept) = Range(parked) \cap Others(Of)
        /\ Len(kept) <= Len(parked)
    BY Zenon, <2>5, KeepFacts
  <2> HIDE DEF kept
  <2>7. Len(kept) <= MaxParked
    <3>1. Len(kept) \in Nat /\ Len(parked) \in Nat
      BY <2>5, <2>6, Elements
    <3> QED
      BY <2>5, <2>6, <3>1, IntakeAssumption
  <2>8. TypedChannel'
    <3>1. status' \in [Streams -> {"idle", "open", "read", "cancelled"}]
      BY Zenon, <1>6, <1>8, CancelledType
    <3>2. parkedDue' \in BOOLEAN
      BY Zenon, <1>8
    <3> QED
      BY Zenon, <1>3, <1>5, <1>6, <1>8, <2>2, <2>3, <2>6, <2>7, <3>1, <3>2 DEF TypedChannel
  <2>9. Stopped' /\ actor' # "done" /\ actor # "done"
    BY <1>4, <1>8 DEF Stopped
  <2>10. Owned'
    <3>1. ASSUME decoder' PROVE sess'.on /\ sess'.stage \in {"Decoding", "Reconstructed"}
      <4>1. decoder
        BY <1>5, <3>1
      <4> QED
        BY Zenon, <1>4, <1>6, <2>2, <2>3, <4>1 DEF Owned
    <3> QED
      BY Zenon, <3>1 DEF Owned
  <2>11. IsInjective(sess'.queue) /\ IsInjective(parked')
    BY Zenon, <1>8, <2>2, <2>3, <2>6
  <2>12. Range(parked) \subseteq Streams
    BY Zenon, <2>5, Elements
  <2>13. /\ Range(parked') \subseteq Range(parked)
         /\ Range(sess'.queue) \subseteq Range(sess.queue)
    BY Zenon, <1>8, <2>2, <2>3, <2>6
  <2>14. /\ Range(parked) \subseteq Range(parked') \union S
         /\ Range(sess.queue) \subseteq Range(sess'.queue) \union S
    BY Zenon, <1>8, <2>2, <2>3, <2>6, <2>12 DEF Others, From
  <2> HIDE DEF S
  <2> QED
    BY Zenon, <1>3, <1>5, <1>8, <2>4, <2>8, <2>9, <2>10, <2>11, <2>13, <2>14, ActorStep
<1> QED
  BY Zenon, <1>2, <1>7, <1>8

LEMMA OnPeerReconstructed ==
    ASSUME IntakeInv, HandlePeerReconstructed
    PROVE  IntakeInv'
<1>1. Takes("Reconstructed") /\ UNCHANGED <<ctx, member, goroutines, producers>>
  BY Zenon DEF HandlePeerReconstructed
<1>2. /\ "Reconstructed" \notin {"Stream", "Bound", "Unbound"} /\ "Reconstructed" # "ReadDone"
      /\ "Reconstructed" # "Stream" /\ "Reconstructed" \notin {"Bound", "Unbound"}
  OBVIOUS
<1>3. CASE ~sess.on
  <2>1. UNCHANGED <<sess, status, parked, parkedDue, actor>>
    BY Zenon, <1>3 DEF HandlePeerReconstructed
  <2>2. UNCHANGED <<idleActor, status, producers>>
    BY <1>1, <2>1 DEF idleActor
  <2> QED
    BY Zenon, <1>1, <1>2, <2>2, IdleHandler
<1>4. CASE sess.on
  <2> DEFINE c == sess.completed \cup ({Of} \cap Attached(sess))
             X == [sess EXCEPT !.completed = c]
  <2>1. Settle(X, {})
    BY <1>4 DEF HandlePeerReconstructed
  <2>2. actor = "run" /\ InboxKept
    BY Zenon, <1>1, <1>2, Taken
  <2>3. UNCHANGED <<member, producers>> /\ UNCHANGED <<ctx, member, reader, decoder, producers>>
    BY <1>1 DEF goroutines
  <2>4. Enrolled'
    BY Zenon, <1>1, <1>2, <2>3, TakenEnrolled
  <2>5. sess \in SessionType /\ Fits(sess, member) /\ Owned /\ IsInjective(sess.queue)
    BY Zenon DEF IntakeInv, TypedChannel, Placed
  <2>6. c \subseteq Attached(sess) /\ c \in SUBSET Peers
    BY Zenon, <2>5 DEF Fits, Attached
  <2> HIDE DEF c
  <2>7. X \in SessionType
    BY <2>5, <2>6 DEF SessionType
  <2>8. X.on = sess.on /\ X.stage = sess.stage /\ X.peers = sess.peers
    BY <2>5 DEF SessionType
  <2>9. X.left = sess.left /\ X.queue = sess.queue /\ X.completed = c
    BY <2>5 DEF SessionType
  <2> HIDE DEF X
  <2>10. X.on
    BY Zenon, <1>4, <2>8
  <2>11. Attached(X) = Attached(sess)
    BY Zenon, <2>8 DEF Attached
  <2>12. ~Idle(X) => Fits(X, member)
    BY Zenon, <2>5, <2>6, <2>8, <2>9, <2>10, <2>11 DEF Fits
  <2>13. decoder => X.stage \in {"Decoding", "Reconstructed"}
    BY Zenon, <2>2, <2>5, <2>8 DEF Owned
  <2>14. /\ IsInjective(X.queue) /\ Range(X.queue) \subseteq Range(sess.queue)
         /\ Range(sess.queue) \subseteq Range(X.queue) \union {}
    BY Zenon, <2>5, <2>9
  <2> QED
    BY Zenon, <2>1, <2>2, <2>3, <2>4, <2>7, <2>10, <2>12, <2>13, <2>14, SettleStep
<1> QED
  BY Zenon, <1>3, <1>4

LEMMA OnPeerSessionEnded ==
    ASSUME IntakeInv, HandlePeerSessionEnded
    PROVE  IntakeInv'
<1> DEFINE n == Head(inbox).conn
           l == IF member[Of] = n THEN sess.left \cup {Of} ELSE sess.left
           Y == [Dropped(sess, Of) EXCEPT !.left = l]
<1>1. Takes("Ended") /\ UNCHANGED <<ctx, member, goroutines, producers>>
  BY Zenon DEF HandlePeerSessionEnded
<1>2. /\ "Ended" \notin {"Stream", "Bound", "Unbound"} /\ "Ended" # "ReadDone"
      /\ "Ended" # "Stream" /\ "Ended" \notin {"Bound", "Unbound"}
      /\ "Ended" \in {"Bound", "Unbound", "Open", "Reconstructed", "Ended"}
  OBVIOUS
<1>3. CASE ~(EndsCurrent(Of, n) /\ sess.on)
  <2>1. UNCHANGED <<sess, status, parked, parkedDue, actor>>
    BY Zenon, <1>3 DEF HandlePeerSessionEnded
  <2>2. UNCHANGED <<idleActor, status, producers>>
    BY <1>1, <2>1 DEF idleActor
  <2> QED
    BY Zenon, <1>1, <1>2, <2>2, IdleHandler
<1>4. CASE EndsCurrent(Of, n) /\ sess.on
  <2>1. member[Of] = n
    BY Zenon, <1>4 DEF EndsCurrent
  <2>2. actor = "run" /\ InboxKept /\ Head(inbox) \in Events /\ Head(inbox).kind = "Ended"
    BY Zenon, <1>1, <1>2, Taken
  <2>3. UNCHANGED <<member, producers>> /\ UNCHANGED <<ctx, member, reader, decoder, producers>>
    BY <1>1 DEF goroutines
  <2>4. Enrolled'
    BY Zenon, <1>1, <1>2, <2>3, TakenEnrolled
  <2>5. sess \in SessionType /\ Fits(sess, member) /\ Owned /\ IsInjective(sess.queue)
    BY Zenon DEF IntakeInv, TypedChannel, Placed
  <2>6. Of \in Peers
    BY Zenon, <1>2, <2>2, EventTypes DEF Of
  <2>7. /\ l \in SUBSET Peers /\ Of \in l
        /\ \A q \in Peers : q # Of => (q \in l <=> q \in sess.left)
    <3>1. sess.left \in SUBSET Peers
      BY <2>5 DEF SessionType
    <3> QED
      BY Zenon, <2>1, <2>6, <3>1
  <2>8. Settle(Y, From(Of, sess.queue))
    <3>1. Settle([Dropped(sess, Of) EXCEPT !.left = IF member[Of] = n THEN @ \cup {Of} ELSE @],
                 From(Of, sess.queue))
      BY Zenon, <1>4 DEF HandlePeerSessionEnded
    <3>2. Y = [Dropped(sess, Of) EXCEPT !.left = IF member[Of] = n THEN @ \cup {Of} ELSE @]
      BY <2>5 DEF Dropped, SessionType
    <3> QED
      BY Zenon, <3>1, <3>2
  <2> HIDE DEF l, n
  <2>9. IsDropped(sess, Of, l, Y)
    BY Zenon DEF IsDropped
  <2> HIDE DEF Y
  <2>10. DropResult(sess, Of, l, Y)
    BY ONLY Zenon, <2>5, <2>6, <2>7, <2>9, DroppedFacts
  <2>11. /\ Y \in SessionType /\ Y.on = sess.on /\ Y.stage = sess.stage /\ Y.ever = sess.ever
         /\ Y.left = l /\ Y.completed = sess.completed \ {Of}
         /\ \A q \in Peers : Y.peers[q] = IF q = Of THEN 0 ELSE sess.peers[q]
         /\ IsInjective(Y.queue)
         /\ Range(Y.queue) = Range(sess.queue) \ From(Of, sess.queue)
         /\ sess.queue = <<>> => Y.queue = <<>>
    BY ONLY Zenon, <2>10 DEF DropResult
  <2>12. Y.on
    BY Zenon, <1>4, <2>11
  <2>13. ASSUME ~Idle(Y) PROVE Fits(Y, member)
    <3>1. \A q \in Peers : q # Of => member[q] = member[q] /\ (q \in Y.left <=> q \in sess.left)
      BY Zenon, <2>7, <2>11
    <3>2. Of \in Y.left
      BY Zenon, <2>7, <2>11
    <3> QED
      BY ONLY ZenonT(40), <2>5, <2>6, <2>11, <2>13, <3>1, <3>2, DroppedFits
  <2>14. decoder => Y.stage \in {"Decoding", "Reconstructed"}
    BY Zenon, <2>2, <2>5, <2>11 DEF Owned
  <2>15. /\ Range(Y.queue) \subseteq Range(sess.queue)
         /\ Range(sess.queue) \subseteq Range(Y.queue) \union From(Of, sess.queue)
    BY Zenon, <2>11
  <2> QED
    BY Zenon, <2>2, <2>3, <2>4, <2>8, <2>11, <2>12, <2>13, <2>14, <2>15, SettleStep
<1> QED
  BY Zenon, <1>3, <1>4

LEMMA OnDecoded ==
    ASSUME IntakeInv, HandleDecoded
    PROVE  IntakeInv'
<1> DEFINE accepts == sess.on /\ sess.stage \in {"Consuming", "Decoding"} /\ Of = "ok"
<1>1. Takes("Decoded") /\ UNCHANGED <<ctx, member, goroutines, producers>>
  BY Zenon DEF HandleDecoded
<1>2. /\ "Decoded" \notin {"Stream", "Bound", "Unbound"} /\ "Decoded" # "ReadDone"
      /\ "Decoded" # "Stream" /\ "Decoded" \notin {"Bound", "Unbound"}
  OBVIOUS
<1>3. CASE ~accepts
  <2>1. UNCHANGED <<sess, status, parked, parkedDue, actor>>
    BY Zenon, <1>3 DEF HandleDecoded
  <2>2. UNCHANGED <<idleActor, status, producers>>
    BY Zenon, <1>1, <2>1 DEF idleActor
  <2> QED
    BY Zenon, <1>1, <1>2, <2>2, IdleHandler
<1>4. CASE accepts
  <2> DEFINE X == [sess EXCEPT !.stage = "Reconstructed"]
  <2>1. Settle(X, {})
    BY Zenon, <1>4 DEF HandleDecoded
  <2>2. actor = "run" /\ InboxKept
    BY Zenon, <1>1, <1>2, Taken
  <2>3. UNCHANGED <<member, producers>> /\ UNCHANGED <<ctx, member, reader, decoder, producers>>
    BY <1>1 DEF goroutines
  <2>4. Enrolled'
    BY Zenon, <1>1, <1>2, <2>3, TakenEnrolled
  <2>5. sess \in SessionType /\ Fits(sess, member) /\ IsInjective(sess.queue)
    BY Zenon DEF IntakeInv, TypedChannel, Placed
  <2>6. X \in SessionType
    BY <2>5 DEF SessionType
  <2>7. X.on = sess.on /\ X.stage = "Reconstructed" /\ X.peers = sess.peers
    BY <2>5 DEF SessionType
  <2>8. X.left = sess.left /\ X.queue = sess.queue /\ X.completed = sess.completed
    BY <2>5 DEF SessionType
  <2> HIDE DEF X
  <2>9. X.on
    BY Zenon, <1>4, <2>7
  <2>10. Attached(X) = Attached(sess)
    BY Zenon, <2>7 DEF Attached
  <2>11. ~Idle(X) => Fits(X, member)
    BY Zenon, <2>5, <2>7, <2>8, <2>9, <2>10 DEF Fits
  <2>12. decoder => X.stage \in {"Decoding", "Reconstructed"}
    BY <2>7
  <2>13. /\ IsInjective(X.queue) /\ Range(X.queue) \subseteq Range(sess.queue)
         /\ Range(sess.queue) \subseteq Range(X.queue) \union {}
    BY Zenon, <2>5, <2>8
  <2> QED
    BY Zenon, <2>1, <2>2, <2>3, <2>4, <2>6, <2>9, <2>11, <2>12, <2>13, SettleStep
<1> QED
  BY Zenon, <1>3, <1>4

\* A step of an actor that has not stopped, with the inbox as it was.
LEMMA InboxSame ==
    ASSUME IntakeInv, actor # "done", inbox' = inbox, UNCHANGED <<member, producers>>
    PROVE  InboxKept /\ Enrolled' /\ TypedEngine'
<1>1. /\ member' = member /\ bound' = bound /\ latest' = latest /\ sessIn' = sessIn
      /\ opens' = opens
  BY DEF producers
<1>2. InboxKept
  BY Zenon DEF IntakeInv, Placed, InboxKept
<1>3. Enrolled'
  BY Zenon, <1>1 DEF IntakeInv, Enrolled
<1>4. TypedEngine'
  BY Zenon, <1>1 DEF IntakeInv, TypedEngine
<1> QED
  BY Zenon, <1>2, <1>3, <1>4

LEMMA OriginStep ==
    ASSUME IntakeInv, actor # "done", ~sess.on, ~decoder, InboxKept, Enrolled', CreateOrigin,
           UNCHANGED <<ctx, member, goroutines, producers>>
    PROVE  IntakeInv'
<1>1. /\ sess' = NewSession("Origin", Chunks) /\ actor' = "run" /\ parked' = parked
      /\ parkedDue' = parkedDue /\ status' = status
  BY Zenon DEF CreateOrigin
<1>2. /\ member' = member /\ decoder' = decoder
      /\ UNCHANGED <<ctx, parked, reader, status, producers>>
  BY <1>1 DEF goroutines
<1>3. TypedChannel /\ Fits(sess, member)
  BY Zenon DEF IntakeInv
<1>4. member \in [Peers -> 0..MaxConn]
  BY Zenon, <1>3 DEF TypedChannel
<1>5. sess' \in SessionType /\ sess'.queue = <<>> /\ Fits(sess', member)
  <2>1. "Origin" \in {"Consuming", "Origin"} /\ Chunks \in SUBSET Chunks
    OBVIOUS
  <2> QED
    BY Zenon, <1>1, <1>4, <2>1, NewSessionFits
<1>6. sess'.queue = sess.queue
  BY Zenon, <1>3, <1>5 DEF Fits
<1>7. /\ Fits(sess, member)' /\ member' \in [Peers -> 0..MaxConn] /\ parkedDue' \in BOOLEAN
  BY Zenon, <1>1, <1>2, <1>3, <1>4, <1>5 DEF TypedChannel
<1>8. Stopped' /\ actor' \in {"run", "closing", "publish", "stopping"}
  BY <1>1 DEF Stopped
<1>9. Owned'
  BY Zenon, <1>2 DEF Owned
<1> QED
  BY Zenon, <1>2, <1>5, <1>6, <1>7, <1>8, <1>9, StillStep

LEMMA OnPublish ==
    ASSUME IntakeInv, HandlePublish
    PROVE  IntakeInv'
<1>1. /\ Takes("Publish") /\ UNCHANGED <<ctx, member, goroutines, producers>>
      /\ IF ~sess.on THEN CreateOrigin ELSE Dispose("publish")
  BY Zenon DEF HandlePublish
<1>2. /\ "Publish" # "ReadDone" /\ "Publish" # "Stream" /\ "Publish" \notin {"Bound", "Unbound"}
  OBVIOUS
<1>3. actor = "run" /\ InboxKept
  BY Zenon, <1>1, <1>2, Taken
<1>4. UNCHANGED <<member, producers>> /\ UNCHANGED <<ctx, reader, producers>>
  BY <1>1 DEF goroutines
<1>5. Enrolled'
  BY Zenon, <1>1, <1>2, <1>4, TakenEnrolled
<1>6. actor # "done"
  BY <1>3
<1>7. CASE ~sess.on
  <2>1. ~decoder
    BY Zenon, <1>3, <1>7 DEF IntakeInv, Owned
  <2> QED
    BY Zenon, <1>1, <1>3, <1>5, <1>6, <1>7, <2>1, OriginStep
<1>8. CASE sess.on
  <2>1. "publish" \in {"closing", "publish", "stopping"} /\ "publish" # "stopping"
    OBVIOUS
  <2>2. member' \in [Peers -> 0..MaxConn]
    BY Zenon, <1>1 DEF IntakeInv, TypedChannel
  <2> QED
    BY Zenon, <1>1, <1>3, <1>4, <1>5, <1>8, <2>1, <2>2, DisposeStep
<1> QED
  BY Zenon, <1>7, <1>8

LEMMA OnReplaced ==
    ASSUME IntakeInv, Replaced
    PROVE  IntakeInv'
<1>1. /\ actor = "publish" /\ Quiesced /\ CreateOrigin /\ inbox' = inbox
      /\ UNCHANGED <<ctx, member, goroutines, producers>>
  BY DEF Replaced
<1>2. actor # "done" /\ actor # "run" /\ UNCHANGED <<member, producers>>
  BY <1>1
<1>3. ~sess.on /\ ~decoder
  BY Zenon, <1>1, <1>2 DEF IntakeInv, Stopped, Quiesced
<1>4. InboxKept /\ Enrolled'
  BY Zenon, <1>1, <1>2, InboxSame
<1> QED
  BY Zenon, <1>1, <1>2, <1>3, <1>4, OriginStep

LEMMA OnClosed ==
    ASSUME IntakeInv, Closed
    PROVE  IntakeInv'
<1>1. /\ actor = "closing" /\ Quiesced /\ actor' = "run" /\ inbox' = inbox
      /\ sess' = sess /\ member' = member /\ parkedDue' = parkedDue /\ decoder' = decoder
      /\ UNCHANGED <<member, producers>>
      /\ UNCHANGED <<ctx, parked, reader, status, producers>>
  BY DEF Closed, goroutines
<1>2. actor # "done" /\ actor # "run"
  BY <1>1
<1>3. TypedChannel /\ Fits(sess, member)
  BY Zenon DEF IntakeInv
<1>4. /\ member' \in [Peers -> 0..MaxConn] /\ sess' \in SessionType
      /\ parkedDue' \in BOOLEAN /\ Fits(sess, member)'
  BY Zenon, <1>1, <1>3 DEF TypedChannel
<1>5. Stopped' /\ actor' \in {"run", "closing", "publish", "stopping"}
  BY <1>1 DEF Stopped
<1>6. ~decoder'
  BY <1>1 DEF Quiesced
<1>7. Owned'
  BY Zenon, <1>6 DEF Owned
<1>8. InboxKept /\ Enrolled'
  BY Zenon, <1>1, <1>2, InboxSame
<1>9. sess'.queue = sess.queue
  BY Zenon, <1>1
<1> QED
  BY Zenon, <1>1, <1>2, <1>4, <1>5, <1>7, <1>8, <1>9, StillStep

LEMMA OnExpiry ==
    ASSUME IntakeInv, HandleExpiry
    PROVE  IntakeInv'
<1> DEFINE S == IF parkedDue THEN Range(parked) ELSE {}
<1>1. Takes("Expiry") /\ UNCHANGED <<ctx, member, goroutines, producers>>
  BY Zenon DEF HandleExpiry
<1>2. /\ "Expiry" # "ReadDone" /\ "Expiry" # "Stream" /\ "Expiry" \notin {"Bound", "Unbound"}
  OBVIOUS
<1>3. actor = "run" /\ InboxKept
  BY Zenon, <1>1, <1>2, Taken
<1>4. /\ UNCHANGED <<member, producers>> /\ UNCHANGED <<ctx, reader, producers>>
      /\ decoder' = decoder
  BY <1>1 DEF goroutines
<1>5. Enrolled'
  BY Zenon, <1>1, <1>2, <1>4, TakenEnrolled
<1>6. TypedChannel /\ Owned /\ Fits(sess, member) /\ Placed
  BY Zenon DEF IntakeInv
<1>7. member' \in [Peers -> 0..MaxConn]
  BY Zenon, <1>1, <1>6 DEF TypedChannel
<1>8. CASE Dispose("closing")
  <2>1. "closing" \in {"closing", "publish", "stopping"} /\ "closing" # "stopping"
    OBVIOUS
  <2> QED
    BY Zenon, <1>3, <1>4, <1>5, <1>7, <1>8, <2>1, DisposeStep
<1>9. CASE /\ status' = Cancelled(S) /\ parked' = IF parkedDue THEN <<>> ELSE parked
           /\ parkedDue' = FALSE /\ sess' = sess /\ actor' = actor
  <2>1. /\ parked' \in Seq(Streams) /\ Len(parked') <= MaxParked /\ IsInjective(parked')
        /\ Range(parked') \subseteq Range(parked)
        /\ Range(parked) \subseteq Range(parked') \union S
    <3>1. CASE parkedDue
      <4>1. parked' = <<>>
        BY Zenon, <1>9, <3>1
      <4>2. <<>> \in Seq(Streams) /\ Len(<<>>) = 0
        OBVIOUS
      <4>3. 0 <= MaxParked
        BY IntakeAssumption
      <4> QED
        BY Zenon, <3>1, <4>1, <4>2, <4>3, NoElements
    <3>2. CASE ~parkedDue
      <4>1. parked' = parked
        BY Zenon, <1>9, <3>2
      <4> QED
        BY Zenon, <1>6, <4>1 DEF TypedChannel, Placed
    <3> QED
      BY Zenon, <3>1, <3>2
  <2> HIDE DEF S
  <2>2. TypedChannel'
    <3>1. status' \in [Streams -> {"idle", "open", "read", "cancelled"}]
      BY Zenon, <1>6, <1>9, CancelledType
    <3>2. parkedDue' \in BOOLEAN
      BY Zenon, <1>9
    <3> QED
      BY Zenon, <1>4, <1>6, <1>7, <1>9, <2>1, <3>1, <3>2 DEF TypedChannel
  <2>3. Stopped' /\ actor # "done" /\ actor' # "done"
    BY <1>3, <1>9 DEF Stopped
  <2>4. Owned' /\ Fits(sess, member)'
    BY Zenon, <1>1, <1>4, <1>6, <1>9 DEF Owned
  <2>5. /\ IsInjective(sess'.queue) /\ Range(sess'.queue) \subseteq Range(sess.queue)
        /\ Range(sess.queue) \subseteq Range(sess'.queue) \union S
    BY Zenon, <1>6, <1>9 DEF Placed
  <2> QED
    BY Zenon, <1>3, <1>4, <1>5, <1>9, <2>1, <2>2, <2>3, <2>4, <2>5, ActorStep
<1> QED
  BY Zenon, <1>8, <1>9 DEF HandleExpiry

LEMMA OnShutdown ==
    ASSUME IntakeInv, Shutdown
    PROVE  IntakeInv'
<1>1. /\ actor = "run" /\ ~ctx /\ Dispose("stopping") /\ inbox' = inbox
      /\ UNCHANGED <<member, producers>> /\ UNCHANGED <<ctx, reader, producers>>
      /\ member' = member
  BY DEF Shutdown, goroutines
<1>2. actor # "done" /\ "stopping" \in {"closing", "publish", "stopping"}
  BY <1>1
<1>3. InboxKept /\ Enrolled'
  BY Zenon, <1>1, <1>2, InboxSame
<1>4. member' \in [Peers -> 0..MaxConn]
  BY Zenon, <1>1 DEF IntakeInv, TypedChannel
<1> QED
  BY Zenon, <1>1, <1>2, <1>3, <1>4, DisposeStep

LEMMA OnDrainInbox ==
    ASSUME IntakeInv, DrainInbox
    PROVE  IntakeInv'
<1> DEFINE S == {e.of : e \in {f \in Range(inbox) : f.kind = "Stream"}}
<1>1. /\ actor = "stopping" /\ Quiesced /\ status' = Cancelled(S) /\ inbox' = <<>>
      /\ actor' = "done" /\ ctx' = ctx /\ member' = member /\ sess' = sess /\ parked' = parked
      /\ parkedDue' = parkedDue /\ reader' = reader /\ decoder' = decoder /\ chk' = chk
      /\ bound' = bound /\ latest' = latest /\ sessIn' = sessIn /\ opens' = opens
  BY DEF DrainInbox, goroutines, producers
<1>2. TypedChannel /\ TypedEngine /\ Stopped /\ Fits(sess, member) /\ Placed /\ Slots
  BY Zenon DEF IntakeInv
<1>3. actor # "run" /\ actor \in {"stopping", "done"} /\ actor' # "run" /\ actor # "done"
  BY <1>1
<1>4. ~sess.on /\ parked = <<>> /\ ~ctx
  BY Zenon, <1>2, <1>3 DEF Stopped
<1>5. sess.queue = <<>>
  BY Zenon, <1>2, <1>4 DEF Fits
<1>6. Range(parked) = {} /\ Range(sess.queue) = {}
  BY Zenon, <1>4, <1>5, NoElements
<1>7. ASSUME NEW s \in Waiting(inbox) PROVE s \in S
  BY Zenon, <1>7 DEF Waiting, Range
<1>8. \A s \in Streams : status'[s] = IF s \in S THEN "cancelled" ELSE status[s]
  BY Zenon, <1>1 DEF Cancelled
<1> HIDE DEF S
<1>9. \A s \in Streams : status'[s] # "open"
  <2> SUFFICES ASSUME NEW s \in Streams, status'[s] = "open" PROVE FALSE
    OBVIOUS
  <2>1. s \notin S /\ status[s] = "open"
    BY <1>8
  <2>2. reader[s] # "read"
    BY <1>1 DEF Quiesced
  <2>3. s \notin Waiting(inbox)
    BY Zenon, <1>7, <2>1
  <2> QED
    BY Zenon, <1>2, <1>3, <1>6, <2>1, <2>2, <2>3 DEF Placed, Held
<1>10. Waiting(inbox') = {} /\ SentOnce(inbox')
  <2>1. DOMAIN inbox' = {}
    BY <1>1
  <2> QED
    BY Zenon, <2>1 DEF Waiting, SentOnce
<1>11. \A s \in Streams : reader'[s] = "none"
  BY Zenon, <1>1 DEF Quiesced
<1>12. Placed'
  <2>1. Apart(Waiting(inbox'), Range(parked'), Range(sess'.queue), reader', status')
    BY Zenon, <1>1, <1>6, <1>10, <1>11 DEF Apart
  <2>2. Held(Waiting(inbox'), Range(parked'), Range(sess'.queue), reader', status', chk', actor')
    BY Zenon, <1>9 DEF Held
  <2> QED
    BY Zenon, <1>1, <1>2, <1>10, <2>1, <2>2 DEF Placed
<1>13. TypedInbox(inbox')
  BY <1>1, IntakeAssumption DEF TypedInbox
<1>14. TypedChannel'
  <2>1. status' \in [Streams -> {"idle", "open", "read", "cancelled"}]
    BY Zenon, <1>1, <1>2, CancelledType
  <2>2. actor' \in {"run", "closing", "publish", "stopping", "done"}
    BY <1>1
  <2> QED
    BY Zenon, <1>1, <1>2, <2>1, <2>2 DEF TypedChannel
<1>15. TypedEngine'
  BY Zenon, <1>1, <1>2 DEF TypedEngine
<1>16. Stopped' /\ Owned'
  BY Zenon, <1>1, <1>3, <1>4 DEF Stopped, Owned
<1>17. Fits(sess, member)' /\ Enrolled'
  BY Zenon, <1>1, <1>2 DEF Enrolled
<1>18. Slots'
  <2>1. Reading' = Reading
    BY Zenon, <1>1 DEF Reading
  <2> QED
    BY Zenon, <1>1, <1>2, <1>5, <2>1 DEF Slots
<1> QED
  BY Zenon, <1>12, <1>13, <1>14, <1>15, <1>16, <1>17, <1>18 DEF IntakeInv

-----------------------------------------------------------------------------
(* The session's goroutines. *)

LEMMA InboxQuiet ==
    ASSUME IntakeInv, inbox' = inbox, UNCHANGED <<actor, member, bound>>
    PROVE  InboxKept /\ Enrolled'
<1>1. InboxKept
  BY Zenon DEF IntakeInv, Placed, InboxKept
<1>2. Enrolled'
  BY Zenon DEF IntakeInv, Enrolled
<1> QED
  BY Zenon, <1>1, <1>2

\* A step of the reader of s: it holds the stream, which is in no other place.
LEMMA ReaderStep ==
    ASSUME IntakeInv, NEW s \in Streams, reader[s] # "none",
           \A x \in Streams : x # s => reader'[x] = reader[x] /\ status'[x] = status[x],
           status'[s] # "idle",
           status'[s] # "open" \/ (status'[s] = status[s] /\ reader[s] # "read"),
           reader' \in [Streams -> {"none", "read", "post", "done"}],
           status' \in [Streams -> {"idle", "open", "read", "cancelled"}],
           InboxKept, Enrolled', Slots', UNCHANGED <<channel, decoder, producers>>
    PROVE  IntakeInv'
<1>1. /\ ctx' = ctx /\ actor' = actor /\ member' = member /\ sess' = sess /\ parked' = parked
      /\ parkedDue' = parkedDue /\ decoder' = decoder /\ chk' = chk
      /\ bound' = bound /\ latest' = latest /\ sessIn' = sessIn /\ opens' = opens
  BY DEF channel, producers
<1>2. TypedChannel /\ TypedEngine /\ Stopped /\ Fits(sess, member) /\ Owned /\ Placed
  BY Zenon DEF IntakeInv
<1>3. TypedChannel' /\ TypedEngine'
  BY Zenon, <1>1, <1>2 DEF TypedChannel, TypedEngine
<1>4. Stopped' /\ Fits(sess, member)' /\ Owned'
  <2>1. Stopped'
    BY ONLY <1>1, <1>2 DEF Stopped
  <2>2. Owned'
    BY ONLY <1>1, <1>2 DEF Owned
  <2> QED
    BY Zenon, <1>1, <1>2, <2>1, <2>2
<1> DEFINE W == Waiting(inbox)
           P == Range(parked)
           Q == Range(sess.queue)
<1>5. Apart(W, P, Q, reader, status) /\ Held(W, P, Q, reader, status, chk, actor)
  BY Zenon, <1>2 DEF Placed
<1> HIDE DEF W, P, Q
<1>6. s \notin W /\ s \notin P /\ s \notin Q
  BY Zenon, <1>5 DEF Apart
<1>7. Apart(W, P, Q, reader', status')
  <2> SUFFICES ASSUME NEW x \in Streams
               PROVE  /\ x \in W => x \notin P /\ x \notin Q /\ reader'[x] = "none"
                      /\ x \in P => x \notin Q /\ reader'[x] = "none"
                      /\ x \in Q => reader'[x] = "none"
                      /\ status'[x] = "idle" => /\ x \notin W /\ x \notin P /\ x \notin Q
                                                /\ reader'[x] = "none"
    BY Zenon DEF Apart
  <2>1. CASE x = s
    BY Zenon, <1>6, <2>1
  <2>2. CASE x # s
    BY Zenon, <1>5, <2>2 DEF Apart
  <2> QED
    BY Zenon, <2>1, <2>2
<1>8. Held(W, P, Q, reader', status', chk, actor)
  <2> SUFFICES ASSUME NEW x \in Streams, status'[x] = "open"
               PROVE  \/ x \in W /\ actor # "done"
                      \/ x \in P \/ x \in Q \/ reader'[x] = "read"
                      \/ x \in chk /\ actor = "done"
    BY Zenon DEF Held
  <2>1. CASE x = s
    BY Zenon, <1>5, <2>1 DEF Held
  <2>2. CASE x # s
    BY Zenon, <1>5, <2>2 DEF Held
  <2> QED
    BY Zenon, <2>1, <2>2
<1>9. Placed'
  BY Zenon, <1>1, <1>2, <1>7, <1>8 DEF Placed, InboxKept, W, P, Q
<1> QED
  BY Zenon, <1>3, <1>4, <1>9 DEF IntakeInv, InboxKept

LEMMA ReaderPhase ==
    ASSUME IntakeInv, NEW s \in Streams, NEW phase \in {"none", "post", "done"}, Phase(s, phase)
    PROVE  /\ reader' \in [Streams -> {"none", "read", "post", "done"}] /\ reader'[s] = phase
           /\ \A x \in Streams : x # s => reader'[x] = reader[x]
           /\ reader[s] \in {"read", "post"} /\ phase = "done" =>
                 /\ Cardinality(Reading') <= MaxReads
           /\ (reader[s] \in {"read", "post"} <=> phase = "post") => Reading' = Reading
<1>1. reader \in [Streams -> {"none", "read", "post", "done"}]
  BY Zenon DEF IntakeInv, TypedChannel
<1>2. /\ reader' \in [Streams -> {"none", "read", "post", "done"}] /\ reader'[s] = phase
      /\ \A x \in Streams : x # s => reader'[x] = reader[x]
  BY <1>1 DEF Phase
<1>3. (reader[s] \in {"read", "post"} <=> phase = "post") => Reading' = Reading
  BY <1>2 DEF Reading
<1>4. ASSUME phase = "done" PROVE Cardinality(Reading') <= MaxReads
  <2>1. Reading' \in SUBSET Reading
    BY <1>2, <1>4 DEF Reading
  <2>2. IsFiniteSet(Reading)
    <3>1. Reading \in SUBSET Streams
      BY Zenon DEF Reading
    <3> QED
      BY Zenon, <3>1, IntakeAssumption, FS_Subset
  <2>3. /\ Cardinality(Reading') <= Cardinality(Reading)
        /\ Cardinality(Reading') \in Nat /\ Cardinality(Reading) \in Nat
    BY Zenon, <2>1, <2>2, FS_Subset, FS_CardinalityType
  <2>4. Cardinality(Reading) <= MaxReads
    BY Zenon DEF IntakeInv, Slots
  <2> QED
    BY <2>3, <2>4, IntakeAssumption
<1> QED
  BY Zenon, <1>2, <1>3, <1>4

LEMMA OnReadPayload ==
    ASSUME IntakeInv, NEW s \in Streams, ReadPayload(s)
    PROVE  IntakeInv'
<1>1. /\ reader[s] = "read" /\ Phase(s, "post") /\ status' = [status EXCEPT ![s] = "read"]
      /\ inbox' = inbox /\ UNCHANGED <<channel, decoder, producers>>
  BY DEF ReadPayload
<1>2. ctx' = ctx /\ sess' = sess /\ UNCHANGED <<actor, member, bound>>
  BY <1>1 DEF channel, producers
<1>3. /\ "post" \in {"none", "post", "done"} /\ reader[s] \in {"read", "post"}
      /\ reader[s] # "none"
  BY <1>1
<1>4. /\ reader' \in [Streams -> {"none", "read", "post", "done"}] /\ reader'[s] = "post"
      /\ \A x \in Streams : x # s => reader'[x] = reader[x]
      /\ Reading' = Reading
  BY Zenon, <1>1, <1>3, ReaderPhase
<1>5. /\ status' \in [Streams -> {"idle", "open", "read", "cancelled"}]
      /\ status'[s] = "read" /\ \A x \in Streams : x # s => status'[x] = status[x]
  BY <1>1 DEF IntakeInv, TypedChannel
<1>6. InboxKept /\ Enrolled'
  BY Zenon, <1>1, <1>2, InboxQuiet
<1>7. Slots'
  <2>1. (\E x \in Streams : reader[x] = "done") => \E x \in Streams : reader'[x] = "done"
    BY <1>1, <1>4
  <2> QED
    BY Zenon, <1>1, <1>2, <1>4, <2>1 DEF IntakeInv, Slots
<1>8. status'[s] # "idle" /\ status'[s] # "open"
  BY <1>5
<1> QED
  BY Zenon, <1>1, <1>3, <1>4, <1>5, <1>6, <1>7, <1>8, ReaderStep

LEMMA OnFailRead ==
    ASSUME IntakeInv, NEW s \in Streams, FailRead(s)
    PROVE  IntakeInv'
<1>1. /\ reader[s] = "read" /\ Phase(s, "done") /\ status' = Cancelled({s})
      /\ inbox' = inbox /\ UNCHANGED <<channel, decoder, producers>>
  BY DEF FailRead
<1>2. UNCHANGED <<actor, member, bound>>
  BY <1>1 DEF channel, producers
<1>3. /\ "done" \in {"none", "post", "done"} /\ reader[s] \in {"read", "post"}
      /\ reader[s] # "none"
  BY <1>1
<1>4. /\ reader' \in [Streams -> {"none", "read", "post", "done"}] /\ reader'[s] = "done"
      /\ \A x \in Streams : x # s => reader'[x] = reader[x]
      /\ Cardinality(Reading') <= MaxReads
  BY Zenon, <1>1, <1>3, ReaderPhase
<1>5. status' \in [Streams -> {"idle", "open", "read", "cancelled"}]
  BY Zenon, <1>1, CancelledType DEF IntakeInv
<1>6. status'[s] = "cancelled" /\ \A x \in Streams : x # s => status'[x] = status[x]
  BY <1>1 DEF Cancelled
<1>7. InboxKept /\ Enrolled'
  BY Zenon, <1>1, <1>2, InboxQuiet
<1>8. Slots'
  BY Zenon, <1>4 DEF Slots
<1>9. status'[s] # "idle" /\ status'[s] # "open"
  BY <1>6
<1> QED
  BY Zenon, <1>1, <1>3, <1>4, <1>5, <1>6, <1>7, <1>8, <1>9, ReaderStep

LEMMA OnPostData ==
    ASSUME IntakeInv, NEW s \in Streams, PostData(s)
    PROVE  IntakeInv'
<1>1. /\ reader[s] = "post" /\ Phase(s, "done") /\ status' = status
      /\ Post(Event("Data", s, 0)) \/ inbox' = inbox
      /\ UNCHANGED <<channel, decoder, producers>>
  BY DEF PostData
<1>2. UNCHANGED <<actor, member, bound>>
  BY <1>1 DEF channel, producers
<1>3. /\ "done" \in {"none", "post", "done"} /\ reader[s] \in {"read", "post"}
      /\ reader[s] # "none" /\ reader[s] # "read"
  BY <1>1
<1>4. /\ reader' \in [Streams -> {"none", "read", "post", "done"}] /\ reader'[s] = "done"
      /\ \A x \in Streams : x # s => reader'[x] = reader[x]
      /\ Cardinality(Reading') <= MaxReads
  BY Zenon, <1>1, <1>3, ReaderPhase
<1>5. /\ status' \in [Streams -> {"idle", "open", "read", "cancelled"}]
      /\ \A x \in Streams : status'[x] = status[x]
  BY Zenon, <1>1 DEF IntakeInv, TypedChannel
<1>6. InboxKept /\ Enrolled'
  <2>1. CASE inbox' = inbox
    BY Zenon, <1>2, <2>1, InboxQuiet
  <2>2. CASE Post(Event("Data", s, 0))
    <3>1. Plain(Event("Data", s, 0))
      BY Zenon, NewEvents
    <3> QED
      BY Zenon, <1>2, <2>2, <3>1, Posted DEF Plain
  <2> QED
    BY Zenon, <1>1, <2>1, <2>2
<1>7. Slots'
  BY Zenon, <1>4 DEF Slots
<1>8. status'[s] # "idle"
  BY Zenon, <1>3, <1>5 DEF IntakeInv, Placed, Apart
<1> QED
  BY Zenon, <1>1, <1>3, <1>4, <1>5, <1>6, <1>7, <1>8, ReaderStep

LEMMA OnPostReadDone ==
    ASSUME IntakeInv, NEW s \in Streams, PostReadDone(s)
    PROVE  IntakeInv'
<1>1. /\ reader[s] = "done" /\ Phase(s, "none") /\ status' = status
      /\ Post(Event("ReadDone", "", 0)) \/ (SessionEnded /\ inbox' = inbox)
      /\ UNCHANGED <<channel, decoder, producers>>
  BY Zenon DEF PostReadDone
<1>2. ctx' = ctx /\ sess' = sess /\ UNCHANGED <<actor, member, bound>>
  BY Zenon, <1>1 DEF channel, producers
<1>3. /\ "none" \in {"none", "post", "done"} /\ reader[s] \notin {"read", "post"}
      /\ "none" # "post" /\ reader[s] # "none" /\ reader[s] # "read"
  BY Zenon, <1>1
<1>4. /\ reader' \in [Streams -> {"none", "read", "post", "done"}]
      /\ \A x \in Streams : x # s => reader'[x] = reader[x]
      /\ Reading' = Reading
  BY Zenon, <1>1, <1>3, ReaderPhase
<1>5. /\ status' \in [Streams -> {"idle", "open", "read", "cancelled"}]
      /\ \A x \in Streams : status'[x] = status[x]
  BY Zenon, <1>1 DEF IntakeInv, TypedChannel
<1>6. InboxKept /\ Enrolled' /\ (ctx' /\ sess'.queue # <<>> => Rousing(inbox'))
  <2>1. CASE SessionEnded /\ inbox' = inbox
    <3>1. ~ctx' \/ sess'.queue = <<>>
      BY <1>2, <2>1 DEF SessionEnded, IntakeInv, Fits
    <3> QED
      BY Zenon, <1>2, <2>1, <3>1, InboxQuiet
  <2>2. CASE Post(Event("ReadDone", "", 0))
    <3>1. Plain(Event("ReadDone", "", 0)) /\ Event("ReadDone", "", 0).kind = "ReadDone"
      BY Zenon, NewEvents
    <3> QED
      BY Zenon, <1>2, <2>2, <3>1, Posted DEF Plain
  <2> QED
    BY Zenon, <1>1, <2>1, <2>2
<1>7. Slots'
  BY Zenon, <1>4, <1>6 DEF IntakeInv, Slots
<1>8. status'[s] # "idle"
  BY Zenon, <1>3, <1>5 DEF IntakeInv, Placed, Apart
<1> QED
  BY Zenon, <1>1, <1>3, <1>4, <1>5, <1>6, <1>7, <1>8, ReaderStep

LEMMA OnDecode ==
    ASSUME IntakeInv, Decode
    PROVE  IntakeInv'
<1>1. /\ (\E o \in {"ok", "failed"} : Post(Event("Decoded", o, 0))) \/ inbox' = inbox
      /\ decoder' = FALSE /\ UNCHANGED <<channel, reader, status, producers>>
  BY DEF Decode
<1>2. /\ UNCHANGED <<actor, member, bound>> /\ UNCHANGED <<channel, reader, status, chk>>
      /\ bound' = bound /\ latest' = latest /\ sessIn' = sessIn /\ opens' = opens
  BY <1>1 DEF channel, producers
<1>3. InboxKept /\ Enrolled'
  <2>1. CASE inbox' = inbox
    BY Zenon, <1>2, <2>1, InboxQuiet
  <2>2. ASSUME NEW o \in {"ok", "failed"}, Post(Event("Decoded", o, 0))
        PROVE  InboxKept /\ Enrolled'
    <3>1. Plain(Event("Decoded", o, 0))
      BY Zenon, NewEvents
    <3> QED
      BY Zenon, <1>2, <2>2, <3>1, Posted DEF Plain
  <2> QED
    BY Zenon, <1>1, <2>1, <2>2
<1>4. TypedEngine'
  BY Zenon, <1>2 DEF IntakeInv, TypedEngine
<1>5. decoder' => decoder
  BY <1>1
<1> QED
  BY Zenon, <1>2, <1>3, <1>4, <1>5, QuietStep

\* The timers.
LEMMA OnExpire ==
    ASSUME IntakeInv, ExpireSession \/ ExpireParked
    PROVE  IntakeInv'
<1>1. /\ Post(Event("Expiry", "", 0)) /\ (sess.on \/ parked # <<>>)
      /\ UNCHANGED <<ctx, parked, reader, status, producers>>
      /\ actor' = actor /\ member' = member /\ decoder' = decoder
      /\ UNCHANGED <<actor, member, bound>>
      /\ \/ sess' = [sess EXCEPT !.due = TRUE] /\ parkedDue' = parkedDue /\ sess.on
         \/ sess' = sess /\ parkedDue' = TRUE
  BY Zenon DEF ExpireSession, ExpireParked, Scheduled, goroutines, producers
<1>2. TypedChannel /\ Stopped /\ Fits(sess, member) /\ Owned
  BY Zenon DEF IntakeInv
<1>3. actor = "run"
  BY Zenon, <1>1, <1>2 DEF Stopped
<1>4. InboxKept /\ Enrolled'
  <2>1. Plain(Event("Expiry", "", 0))
    BY Zenon, NewEvents
  <2> QED
    BY Zenon, <1>1, <2>1, Posted DEF Plain
<1>5. sess \in SessionType
  BY Zenon, <1>2 DEF TypedChannel
<1>6. /\ sess' \in SessionType /\ sess'.queue = sess.queue /\ Fits(sess', member)
      /\ sess'.on = sess.on /\ sess'.stage = sess.stage
  <2>1. CASE sess' = [sess EXCEPT !.due = TRUE] /\ sess.on
    <3>1. sess' \in SessionType
      BY Zenon, <1>5, <2>1 DEF SessionType
    <3>2. sess'.queue = sess.queue /\ sess'.on = sess.on /\ sess'.stage = sess.stage
      BY Zenon, <1>5, <2>1 DEF SessionType
    <3>3. /\ sess'.peers = sess.peers /\ sess'.left = sess.left
          /\ sess'.completed = sess.completed /\ sess'.ever = sess.ever
      BY <1>5, <2>1 DEF SessionType
    <3>4. (sess'.on <=> sess.on) /\ (sess'.ever <=> sess.ever) /\ sess'.on
      BY Zenon, <2>1, <3>2, <3>3
    <3>5. Fits(sess', member)
      BY Zenon, <1>2, <3>2, <3>3, <3>4, FitsSame
    <3> QED
      BY Zenon, <3>1, <3>2, <3>5
  <2>2. CASE sess' = sess
    BY Zenon, <1>2, <1>5, <2>2
  <2> QED
    BY Zenon, <1>1, <2>1, <2>2
<1>7. /\ member' \in [Peers -> 0..MaxConn] /\ parkedDue' \in BOOLEAN /\ Fits(sess, member)'
  BY Zenon, <1>1, <1>2, <1>6 DEF TypedChannel
<1>8. /\ Stopped' /\ actor # "done" /\ actor' \in {"run", "closing", "publish", "stopping"}
  BY Zenon, <1>1, <1>3 DEF Stopped
<1>9. Owned'
  <2>1. ASSUME decoder' PROVE sess'.on /\ sess'.stage \in {"Decoding", "Reconstructed"}
    <3>1. decoder
      BY Zenon, <1>1, <2>1
    <3> QED
      BY Zenon, <1>2, <1>3, <1>6, <3>1 DEF Owned
  <2> QED
    BY Zenon, <2>1 DEF Owned
<1> QED
  BY Zenon, <1>1, <1>4, <1>6, <1>7, <1>8, <1>9, StillStep

\* The producers.
LEMMA ProducerStep ==
    ASSUME IntakeInv, UNCHANGED <<idleActor, status, chk>>, InboxKept, Enrolled', TypedEngine'
    PROVE  IntakeInv'
<1>1. UNCHANGED <<channel, reader, status, chk>> /\ decoder' = decoder
  BY DEF idleActor, goroutines, channel
<1>2. decoder' => decoder
  BY <1>1
<1> QED
  BY Zenon, <1>1, <1>2, QuietStep

LEMMA OnPublishCall ==
    ASSUME IntakeInv, Publish
    PROVE  IntakeInv'
<1>1. /\ Post(Event("Publish", "", 0)) /\ UNCHANGED <<idleActor, status, chk>>
      /\ UNCHANGED <<actor, member, bound>>
      /\ bound' = bound /\ latest' = latest /\ sessIn' = sessIn /\ opens' = opens
  BY Zenon DEF Publish, idleActor
<1>2. InboxKept /\ Enrolled'
  <2>1. Plain(Event("Publish", "", 0))
    BY Zenon, NewEvents
  <2> QED
    BY Zenon, <1>1, <2>1, Posted DEF Plain
<1>3. TypedEngine'
  BY Zenon, <1>1 DEF IntakeInv, TypedEngine
<1> QED
  BY Zenon, <1>1, <1>2, <1>3, ProducerStep

LEMMA OnOpenSessionIn ==
    ASSUME IntakeInv, NEW p \in Peers, OpenSessionIn(p)
    PROVE  IntakeInv'
<1>1. /\ Post(Event("Open", p, 0)) /\ UNCHANGED <<idleActor, status, chk>>
      /\ UNCHANGED <<actor, member, bound>> /\ bound' = bound /\ latest' = latest
      /\ sessIn' = [sessIn EXCEPT ![p] = @ \cup {<<opens + 1, latest[p]>>}]
      /\ opens' = opens + 1
  BY DEF OpenSessionIn, idleActor
<1>2. InboxKept /\ Enrolled'
  <2>1. Plain(Event("Open", p, 0))
    BY Zenon, NewEvents
  <2> QED
    BY Zenon, <1>1, <2>1, Posted DEF Plain
<1>3. TypedEngine'
  <2>1. TypedEngine
    BY Zenon DEF IntakeInv
  <2> QED
    BY ONLY <1>1, <2>1, p \in Peers DEF TypedEngine
<1> QED
  BY Zenon, <1>1, <1>2, <1>3, ProducerStep

LEMMA OnEndSessionIn ==
    ASSUME IntakeInv, NEW p \in Peers, EndSessionIn(p)
    PROVE  IntakeInv'
<1>1. PICK k \in sessIn[p] :
          /\ \/ Post(Event("Reconstructed", p, 0)) \/ Post(Event("Ended", p, k[2]))
             \/ inbox' = inbox
          /\ sessIn' = [sessIn EXCEPT ![p] = @ \ {k}]
          /\ UNCHANGED <<idleActor, status, chk, bound, latest, gone, binds, opens, publishes, scene>>
  BY Zenon DEF EndSessionIn
<1>2. /\ UNCHANGED <<idleActor, status, chk>> /\ UNCHANGED <<actor, member, bound>>
      /\ bound' = bound /\ latest' = latest /\ opens' = opens
  BY <1>1 DEF idleActor
<1>3. TypedEngine
  BY Zenon DEF IntakeInv
<1>4. k[2] \in 0..MaxConn
  BY ONLY <1>3, k \in sessIn[p], p \in Peers DEF TypedEngine
<1>5. InboxKept /\ Enrolled'
  <2>1. CASE inbox' = inbox
    BY Zenon, <1>2, <2>1, InboxQuiet
  <2>2. CASE Post(Event("Reconstructed", p, 0))
    <3>1. Plain(Event("Reconstructed", p, 0))
      BY Zenon, NewEvents
    <3> QED
      BY Zenon, <1>2, <2>2, <3>1, Posted DEF Plain
  <2>3. CASE Post(Event("Ended", p, k[2]))
    <3>1. Plain(Event("Ended", p, k[2]))
      BY Zenon, <1>4, NewEvents
    <3> QED
      BY Zenon, <1>2, <2>3, <3>1, Posted DEF Plain
  <2> QED
    BY Zenon, <1>1, <2>1, <2>2, <2>3
<1>6. TypedEngine'
  BY ONLY <1>1, <1>2, <1>3, p \in Peers DEF TypedEngine
<1> QED
  BY Zenon, <1>2, <1>5, <1>6, ProducerStep

LEMMA Enrolment ==
    ASSUME IntakeInv, NEW p \in Peers, NEW kind \in {"Bound", "Unbound"}, NEW n \in 0..MaxConn,
           Post(Event(kind, p, n)), bound' = [bound EXCEPT ![p] = n],
           actor' = actor, member' = member,
           kind = "Bound" => bound[p] = 0 /\ n # 0,
           kind = "Unbound" => bound[p] # 0 /\ n = 0
    PROVE  InboxKept /\ Enrolled' /\ bound' \in [Peers -> 0..MaxConn]
<1> DEFINE e == Event(kind, p, n)
<1>1. /\ e \in Events /\ e.kind = kind /\ e.of = p /\ e.conn = n
      /\ e.kind # "Stream" /\ e.kind # "ReadDone"
  BY DEF Events, PeerEvents, Event
<1>2. bound \in [Peers -> 0..MaxConn]
  BY Zenon DEF IntakeInv, TypedEngine
<1>3. /\ bound'[p] = n /\ \A q \in Peers : q # p => bound'[q] = bound[q]
      /\ bound' \in [Peers -> 0..MaxConn]
  BY ONLY <1>2, bound' = [bound EXCEPT ![p] = n], n \in 0..MaxConn, p \in Peers
<1>4. inbox \in Seq(Events) /\ Len(inbox) < InboxCap /\ inbox' = Append(inbox, e)
  BY Zenon DEF IntakeInv, TypedInbox, Post
<1>5. SentOnce(inbox)
  BY Zenon DEF IntakeInv, Placed
<1> HIDE DEF e
<1>6. /\ TypedInbox(inbox') /\ SentOnce(inbox')
      /\ \A s \in Streams : s \in Waiting(inbox') <=> s \in Waiting(inbox)
      /\ Rousing(inbox') <=> (Rousing(inbox) \/ e.kind = "ReadDone")
  BY Zenon, <1>1, <1>4, <1>5, PostedFacts
<1>7. Waiting(inbox') = Waiting(inbox)
  BY Zenon, <1>6 DEF Waiting
<1>8. ASSUME actor # "done", NEW q \in Peers
      PROVE  Leads(inbox', q, member'[q], bound'[q])
  <2>1. Leads(inbox, q, member[q], bound[q])
    BY Zenon, <1>8 DEF IntakeInv, Enrolled
  <2>2. Turn(e, q, bound[q], bound'[q])
    <3>1. "Bound" # "Unbound"
      OBVIOUS
    <3> QED
      BY Zenon, <1>1, <1>3, <3>1 DEF Turn
  <2>3. bound'[q] \in 0..MaxConn /\ member'[q] = member[q]
    BY Zenon, <1>3
  <2>4. Leads(inbox', q, member[q], bound'[q])
    BY Zenon, <1>1, <1>4, <2>1, <2>2, <2>3, LeadsAppend
  <2> QED
    BY Zenon, <2>3, <2>4
<1>9. Enrolled'
  BY Zenon, <1>8 DEF Enrolled
<1> QED
  BY Zenon, <1>3, <1>6, <1>7, <1>9 DEF InboxKept

LEMMA OnBindPeer ==
    ASSUME IntakeInv, NEW p \in Peers, BindPeer(p)
    PROVE  IntakeInv'
<1>1. /\ UNCHANGED <<idleActor, status, chk>> /\ actor' = actor /\ member' = member
      /\ sessIn' = sessIn /\ opens' = opens /\ bound[p] = 0
  BY DEF BindPeer, idleActor
<1>2. PICK n \in 1..MaxConn :
          /\ Post(Event("Bound", p, n)) /\ bound' = [bound EXCEPT ![p] = n]
          /\ latest' = [latest EXCEPT ![p] = n]
  BY Zenon DEF BindPeer
<1>3. n \in 0..MaxConn /\ n # 0 /\ "Bound" # "Unbound"
  BY IntakeAssumption
<1>4. InboxKept /\ Enrolled' /\ bound' \in [Peers -> 0..MaxConn]
  BY Zenon, <1>1, <1>2, <1>3, Enrolment
<1>5. TypedEngine
  BY Zenon DEF IntakeInv
<1>6. TypedEngine'
  <2>1. latest \in [Peers -> 0..MaxConn] /\ latest' = [latest EXCEPT ![p] = n]
    BY Zenon, <1>2, <1>5 DEF TypedEngine
  <2>2. latest' \in [Peers -> 0..MaxConn]
    BY ONLY <1>3, <2>1
  <2> QED
    BY Zenon, <1>1, <1>4, <1>5, <2>2 DEF TypedEngine
<1> QED
  BY Zenon, <1>1, <1>4, <1>6, ProducerStep

LEMMA OnUnbindPeer ==
    ASSUME IntakeInv, NEW p \in Peers, UnbindPeer(p)
    PROVE  IntakeInv'
<1>1. /\ UNCHANGED <<idleActor, status, chk>> /\ actor' = actor /\ member' = member
      /\ latest' = latest /\ sessIn' = sessIn /\ opens' = opens /\ bound[p] # 0
      /\ Post(Event("Unbound", p, 0)) /\ bound' = [bound EXCEPT ![p] = 0]
  BY DEF UnbindPeer, idleActor
<1>2. 0 \in 0..MaxConn /\ "Bound" # "Unbound"
  BY IntakeAssumption
<1>3. InboxKept /\ Enrolled' /\ bound' \in [Peers -> 0..MaxConn]
  BY Zenon, <1>1, <1>2, Enrolment
<1>4. TypedEngine'
  BY Zenon, <1>1, <1>3 DEF IntakeInv, TypedEngine
<1> QED
  BY Zenon, <1>1, <1>3, <1>4, ProducerStep

\* processChunk changes what the channel holds, and nothing of what it does.
LEMMA HandStep ==
    ASSUME IntakeInv, UNCHANGED <<idleActor, bound, latest, sessIn, opens>>,
           TypedInbox(inbox'), SentOnce(inbox'), Enrolled', Rousing(inbox') <=> Rousing(inbox),
           status' \in [Streams -> {"idle", "open", "read", "cancelled"}],
           Apart(Waiting(inbox'), Range(parked), Range(sess.queue), reader, status'),
           Held(Waiting(inbox'), Range(parked), Range(sess.queue), reader, status', chk', actor)
    PROVE  IntakeInv'
<1>1. /\ ctx' = ctx /\ actor' = actor /\ member' = member /\ sess' = sess /\ parked' = parked
      /\ parkedDue' = parkedDue /\ reader' = reader /\ decoder' = decoder
      /\ bound' = bound /\ latest' = latest /\ sessIn' = sessIn /\ opens' = opens
  BY DEF idleActor, goroutines
<1>2. TypedChannel /\ TypedEngine /\ Stopped /\ Fits(sess, member) /\ Owned /\ Placed /\ Slots
  BY Zenon DEF IntakeInv
<1>3. TypedChannel' /\ TypedEngine' /\ Fits(sess, member)'
  BY Zenon, <1>1, <1>2 DEF TypedChannel, TypedEngine
<1>4. Stopped'
  BY ONLY <1>1, <1>2 DEF Stopped
<1>5. Owned'
  BY ONLY <1>1, <1>2 DEF Owned
<1>6. Reading' = Reading
  BY Zenon, <1>1 DEF Reading
<1>7. ctx' <=> ctx
  BY <1>1
<1>8. Slots'
  BY Zenon, <1>1, <1>2, <1>6, <1>7 DEF Slots
<1>9. Placed'
  BY Zenon, <1>1, <1>2 DEF Placed
<1> QED
  BY Zenon, <1>3, <1>4, <1>5, <1>8, <1>9 DEF IntakeInv

LEMMA OnSendStream ==
    ASSUME IntakeInv, NEW s \in Streams, SendStream(s)
    PROVE  IntakeInv'
<1>1. /\ status[s] = "idle"
      /\ \/ /\ Post(Event("Stream", s, 0)) /\ chk' = chk \cup {s}
            /\ status' = [status EXCEPT ![s] = "open"]
         \/ status' = Cancelled({s}) /\ inbox' = inbox /\ chk' = chk
      /\ UNCHANGED <<idleActor, bound, latest, sessIn, opens>>
      /\ UNCHANGED <<actor, member, bound>>
  BY DEF SendStream, idleActor
<1> DEFINE P == Range(parked)
           Q == Range(sess.queue)
           W == Waiting(inbox)
<1>2. /\ TypedInbox(inbox) /\ SentOnce(inbox) /\ TypedChannel
      /\ Apart(W, P, Q, reader, status) /\ Held(W, P, Q, reader, status, chk, actor)
  BY Zenon DEF IntakeInv, Placed
<1>3. status \in [Streams -> {"idle", "open", "read", "cancelled"}]
  BY Zenon, <1>2 DEF TypedChannel
<1> HIDE DEF P, Q
<1>4. s \notin W /\ s \notin P /\ s \notin Q /\ reader[s] = "none"
  BY Zenon, <1>1, <1>2 DEF Apart
<1>5. CASE Post(Event("Stream", s, 0)) /\ chk' = chk \cup {s}
           /\ status' = [status EXCEPT ![s] = "open"]
  <2> DEFINE e == Event("Stream", s, 0)
  <2>1. e \in Events /\ e.kind = "Stream" /\ e.of = s
    BY DEF Events, StreamEvents, Event
  <2>2. inbox \in Seq(Events) /\ Len(inbox) < InboxCap /\ inbox' = Append(inbox, e)
    BY Zenon, <1>2, <1>5 DEF TypedInbox, Post
  <2> HIDE DEF e
  <2>3. /\ TypedInbox(inbox') /\ SentOnce(inbox')
        /\ \A x \in Streams : x \in Waiting(inbox') <=> (x \in W \/ x = s)
        /\ Rousing(inbox') <=> Rousing(inbox)
    <3>1. "Stream" # "ReadDone"
      OBVIOUS
    <3> QED
      BY Zenon, <1>2, <1>4, <2>1, <2>2, <3>1, PostedFacts
  <2>4. /\ status' \in [Streams -> {"idle", "open", "read", "cancelled"}]
        /\ status'[s] = "open" /\ \A x \in Streams : x # s => status'[x] = status[x]
    BY ONLY <1>3, <1>5, s \in Streams
  <2> DEFINE V == Waiting(inbox')
  <2> HIDE DEF V, W
  <2>5. "open" # "idle" /\ \A x \in Streams : x \in V <=> (x \in W \/ x = s)
    BY <2>3 DEF V
  <2>6. Apart(V, P, Q, reader, status')
    BY Zenon, <1>2, <1>4, <2>4, <2>5 DEF Apart
  <2>7. Held(V, P, Q, reader, status', chk', actor)
    <3>1. s \in chk' /\ \A x : x \in chk => x \in chk'
      BY Zenon, <1>5
    <3> QED
      BY Zenon, <1>2, <2>4, <2>5, <3>1 DEF Held
  <2>8. Enrolled'
    <3>1. ASSUME actor # "done", NEW p \in Peers
          PROVE  Leads(inbox', p, member[p], bound[p])
      <4>1. Leads(inbox, p, member[p], bound[p])
        BY Zenon, <3>1 DEF IntakeInv, Enrolled
      <4>2. "Stream" # "Bound" /\ "Stream" # "Unbound"
        OBVIOUS
      <4>3. Turn(e, p, bound[p], bound[p])
        BY Zenon, <2>1, <4>2 DEF Turn
      <4>4. bound[p] \in 0..MaxConn
        BY Zenon DEF IntakeInv, TypedEngine
      <4> QED
        BY Zenon, <2>1, <2>2, <4>1, <4>3, <4>4, LeadsAppend
    <3> QED
      BY Zenon, <1>1, <3>1 DEF Enrolled
  <2> QED
    BY Zenon, <1>1, <2>3, <2>4, <2>6, <2>7, <2>8, HandStep DEF V, P, Q
<1>6. CASE status' = Cancelled({s}) /\ inbox' = inbox /\ chk' = chk
  <2>1. /\ status' \in [Streams -> {"idle", "open", "read", "cancelled"}]
        /\ status'[s] = "cancelled" /\ \A x \in Streams : x # s => status'[x] = status[x]
    BY ONLY <1>3, <1>6, s \in Streams DEF Cancelled
  <2>2. "cancelled" # "idle" /\ "cancelled" # "open"
    OBVIOUS
  <2> HIDE DEF W
  <2>3. Apart(W, P, Q, reader, status')
    BY Zenon, <1>2, <2>1, <2>2 DEF Apart
  <2>4. Held(W, P, Q, reader, status', chk, actor)
    BY Zenon, <1>2, <2>1, <2>2 DEF Held
  <2>5. Enrolled'
    BY Zenon, <1>1, <1>6, InboxQuiet
  <2> QED
    BY Zenon, <1>1, <1>2, <1>6, <2>1, <2>3, <2>4, <2>5, HandStep DEF W, P, Q
<1> QED
  BY Zenon, <1>1, <1>5, <1>6

LEMMA OnRecheck ==
    ASSUME IntakeInv, NEW s \in Streams, Recheck(s)
    PROVE  IntakeInv'
<1>1. /\ chk' = chk \ {s} /\ inbox' = inbox
      /\ status' = IF ~ctx THEN Cancelled({s}) ELSE status
      /\ UNCHANGED <<idleActor, bound, latest, sessIn, opens>>
      /\ UNCHANGED <<actor, member, bound>>
  BY DEF Recheck, Missed, idleActor
<1> DEFINE P == Range(parked)
           Q == Range(sess.queue)
           W == Waiting(inbox)
<1>2. /\ TypedInbox(inbox) /\ SentOnce(inbox) /\ TypedChannel /\ Stopped
      /\ Apart(W, P, Q, reader, status) /\ Held(W, P, Q, reader, status, chk, actor)
  BY Zenon DEF IntakeInv, Placed
<1>3. status \in [Streams -> {"idle", "open", "read", "cancelled"}]
  BY Zenon, <1>2 DEF TypedChannel
<1> HIDE DEF P, Q, W
<1>4. /\ status' \in [Streams -> {"idle", "open", "read", "cancelled"}]
      /\ Apart(W, P, Q, reader, status') /\ Held(W, P, Q, reader, status', chk', actor)
  <2>1. CASE ~ctx
    <3>1. /\ status' \in [Streams -> {"idle", "open", "read", "cancelled"}]
          /\ status'[s] = "cancelled" /\ \A x \in Streams : x # s => status'[x] = status[x]
      BY ONLY <1>1, <1>3, <2>1, s \in Streams DEF Cancelled
    <3>2. "cancelled" # "idle" /\ "cancelled" # "open"
      OBVIOUS
    <3>3. Apart(W, P, Q, reader, status')
      BY Zenon, <1>2, <3>1, <3>2 DEF Apart
    <3>4. \A x : x \in chk /\ x # s => x \in chk'
      BY Zenon, <1>1
    <3>5. Held(W, P, Q, reader, status', chk', actor)
      BY Zenon, <1>2, <3>1, <3>2, <3>4 DEF Held
    <3> QED
      BY Zenon, <3>1, <3>3, <3>5
  <2>2. CASE ctx
    <3>1. actor # "done" /\ status' = status
      BY <1>1, <1>2, <2>2 DEF Stopped
    <3>2. Held(W, P, Q, reader, status, chk', actor)
      BY Zenon, <1>2, <3>1 DEF Held
    <3> QED
      BY Zenon, <1>2, <1>3, <3>1, <3>2
  <2> QED
    BY Zenon, <2>1, <2>2
<1>5. Enrolled'
  BY Zenon, <1>1, InboxQuiet
<1> QED
  BY Zenon, <1>1, <1>2, <1>4, <1>5, HandStep DEF W, P, Q

LEMMA OnStop ==
    ASSUME IntakeInv, Stop
    PROVE  IntakeInv'
<1>1. /\ ctx' = FALSE /\ actor' = actor /\ member' = member /\ sess' = sess /\ parked' = parked
      /\ parkedDue' = parkedDue /\ reader' = reader /\ decoder' = decoder /\ inbox' = inbox
      /\ status' = status /\ chk' = chk
      /\ bound' = bound /\ latest' = latest /\ sessIn' = sessIn /\ opens' = opens
  BY DEF Stop, goroutines, producers
<1>2. TypedChannel /\ TypedEngine /\ Stopped /\ Fits(sess, member) /\ Owned /\ Placed
      /\ Enrolled /\ Slots /\ TypedInbox(inbox)
  BY Zenon DEF IntakeInv
<1>3. ctx' \in BOOLEAN /\ ~ctx'
  BY Zenon, <1>1
<1>4. TypedChannel' /\ TypedEngine' /\ Fits(sess, member)' /\ TypedInbox(inbox')
  BY Zenon, <1>1, <1>2, <1>3 DEF TypedChannel, TypedEngine
<1>5. Stopped'
  BY ONLY <1>1, <1>2, <1>3 DEF Stopped
<1>6. Owned'
  BY ONLY <1>1, <1>2 DEF Owned
<1>7. Reading' = Reading
  BY Zenon, <1>1 DEF Reading
<1>8. Slots'
  BY Zenon, <1>2, <1>3, <1>7 DEF Slots
<1>9. Placed' /\ Enrolled'
  BY Zenon, <1>1, <1>2 DEF Placed, Enrolled
<1> QED
  BY Zenon, <1>4, <1>5, <1>6, <1>8, <1>9 DEF IntakeInv

-----------------------------------------------------------------------------
(* The theorems. *)

LEMMA IntakeStarts ==
    ASSUME Init
    PROVE  IntakeInv
<1>1. /\ ctx = TRUE /\ actor = "run" /\ inbox = <<>> /\ member = [p \in Peers |-> 0]
      /\ sess = NoSession /\ parked = <<>> /\ parkedDue = FALSE
      /\ reader = [s \in Streams |-> "none"] /\ decoder = FALSE
      /\ status = [s \in Streams |-> "idle"] /\ chk = {} /\ bound = [p \in Peers |-> 0]
      /\ latest = [p \in Peers |-> 0] /\ sessIn = [p \in Peers |-> {}] /\ opens = 0
  BY Zenon DEF Init
<1>2. 0 \in 0..MaxConn /\ 0 <= InboxCap /\ 0 <= MaxParked /\ 0 <= MaxReads
  BY IntakeAssumption
<1>3. TypedInbox(inbox)
  BY <1>1, <1>2 DEF TypedInbox
<1>4. NoSession \in SessionType
  BY <1>2 DEF NoSession, SessionType
<1>5. TypedChannel
  <2>1. ctx \in BOOLEAN /\ actor \in {"run", "closing", "publish", "stopping", "done"}
    BY ONLY <1>1
  <2>2. parked \in Seq(Streams) /\ Len(parked) <= MaxParked /\ parkedDue \in BOOLEAN
    <3>1. <<>> \in Seq(Streams) /\ Len(<<>>) = 0
      OBVIOUS
    <3> QED
      BY Zenon, <1>1, <1>2, <3>1
  <2>3. /\ member \in [Peers -> 0..MaxConn]
        /\ reader \in [Streams -> {"none", "read", "post", "done"}]
        /\ status \in [Streams -> {"idle", "open", "read", "cancelled"}]
    BY ONLY <1>1, <1>2
  <2> QED
    BY Zenon, <1>1, <1>4, <2>1, <2>2, <2>3 DEF TypedChannel
<1>6. TypedEngine
  BY <1>1, <1>2 DEF TypedEngine
<1>7. Stopped /\ Owned
  BY <1>1 DEF Stopped, Owned
<1>8. Fits(sess, member)
  BY Zenon, <1>1, NoSessionFits
<1>9. Enrolled
  <2> SUFFICES ASSUME NEW p \in Peers PROVE Leads(inbox, p, member[p], bound[p])
    BY Zenon DEF Enrolled
  <2>1. Len(inbox) = 0 /\ 1..Len(inbox) = {} /\ 0..Len(inbox) = {0}
    BY <1>1
  <2>2. member[p] = 0 /\ bound[p] = 0
    BY Zenon, <1>1
  <2> DEFINE w == [i \in 0..Len(inbox) |-> 0]
  <2>3. w \in [0..Len(inbox) -> 0..MaxConn] /\ w[0] = 0
    BY Zenon, <1>2, <2>1
  <2> HIDE DEF w
  <2> QED
    BY Zenon, <2>1, <2>2, <2>3 DEF Leads
<1>10. Range(<<>>) = {} /\ IsInjective(<<>>)
  BY DEF Range, IsInjective
<1>11. sess.queue = <<>>
  BY <1>1 DEF NoSession
<1>12. Waiting(inbox) = {} /\ SentOnce(inbox)
  BY <1>1 DEF Waiting, SentOnce
<1>13. /\ \A s \in Streams : reader[s] = "none" /\ status[s] = "idle"
       /\ "idle" # "open"
  BY <1>1
<1>14. Placed
  BY Zenon, <1>1, <1>10, <1>11, <1>12, <1>13 DEF Placed, Apart, Held
<1>15. Slots
  <2>1. Reading = {}
    BY <1>13 DEF Reading
  <2>2. Cardinality(Reading) = 0
    BY <2>1, FS_EmptySet
  <2> QED
    BY <1>2, <1>11, <2>2 DEF Slots
<1> QED
  BY Zenon, <1>3, <1>5, <1>6, <1>7, <1>8, <1>9, <1>14, <1>15 DEF IntakeInv

LEMMA IntakeStutters ==
    ASSUME IntakeInv, UNCHANGED vars
    PROVE  IntakeInv'
<1>1. /\ UNCHANGED <<idleActor, status, chk>> /\ inbox' = inbox
      /\ UNCHANGED <<actor, member, bound>>
      /\ bound' = bound /\ latest' = latest /\ sessIn' = sessIn /\ opens' = opens
  BY DEF vars, producers, idleActor
<1>2. InboxKept /\ Enrolled'
  BY Zenon, <1>1, InboxQuiet
<1>3. TypedEngine'
  BY Zenon, <1>1 DEF IntakeInv, TypedEngine
<1> QED
  BY Zenon, <1>1, <1>2, <1>3, ProducerStep

LEMMA IntakeSteps ==
    ASSUME IntakeInv, Next
    PROVE  IntakeInv'
<1>1. CASE Handle
  BY Zenon, <1>1, OnReadDone, OnChunk, OnParkChunk, OnChunkData, OnSessionOpen, OnPeerBound,
     OnPeerUnbound, OnPeerReconstructed, OnPeerSessionEnded, OnDecoded, OnPublish, OnExpiry
     DEF Handle
<1>2. CASE Closed \/ Replaced \/ Shutdown \/ DrainInbox
  BY Zenon, <1>2, OnClosed, OnReplaced, OnShutdown, OnDrainInbox
<1>3. ASSUME NEW s \in Streams, Read(s) \/ SendStream(s) \/ Recheck(s)
      PROVE  IntakeInv'
  BY Zenon, <1>3, OnReadPayload, OnFailRead, OnPostData, OnPostReadDone, OnSendStream, OnRecheck
     DEF Read
<1>4. CASE Decode \/ ExpireSession \/ ExpireParked \/ Publish \/ Stop
  BY Zenon, <1>4, OnDecode, OnExpire, OnPublishCall, OnStop
<1>5. ASSUME NEW p \in Peers,
             BindPeer(p) \/ UnbindPeer(p) \/ OpenSessionIn(p) \/ EndSessionIn(p)
      PROVE  IntakeInv'
  BY Zenon, <1>5, OnBindPeer, OnUnbindPeer, OnOpenSessionIn, OnEndSessionIn
<1> QED
  BY Zenon, <1>1, <1>2, <1>3, <1>4, <1>5 DEF Next, Actor

\* The invariant of the channel actor, its inbox and the goroutines that post to it
\* (channel.go, session.go, peer_in.go): where every CHUNK stream is, how the inbox
\* leads from the channel's members to the engine's, and what wakes the read queue.
THEOREM IntakeHolds == Spec => []IntakeInv
<1>1. Init => IntakeInv
  BY Zenon, IntakeStarts
<1>2. IntakeInv /\ [Next]_vars => IntakeInv'
  BY Zenon, IntakeSteps, IntakeStutters
<1> QED
  BY <1>1, <1>2, PTL DEF Spec

\* The state of the channel and its sessions keeps its type, a parked group never
\* outgrows maxParkedChunks and no more than maxConcurrentReads readers hold a slot.
THEOREM IntakeTyped == Spec => []TypeOK
<1>1. IntakeInv => TypeOK
  BY Zenon DEF IntakeInv, TypedInbox, TypedChannel, Slots, TypeOK
<1> QED
  BY <1>1, IntakeHolds, PTL

\* No CHUNK stream handed to a channel is lost by it: as long as it is neither read
\* nor cancelled, it is in the inbox, the parked group, the read queue or a reader,
\* or processChunk has yet to see that the channel has stopped.
THEOREM StreamsAreHeld == Spec => []NoLeakedStream
<1>1. ASSUME IntakeInv PROVE NoLeakedStream
  <2>1. /\ Held(Waiting(inbox), Range(parked), Range(sess.queue), reader, status, chk, actor)
        /\ Len(parked) <= MaxParked /\ Cardinality(Reading) <= MaxReads
        /\ inbox \in Seq(Events)
    BY Zenon, <1>1 DEF IntakeInv, TypedInbox, TypedChannel, Placed, Slots
  <2>2. ASSUME NEW s \in Streams, s \in Waiting(inbox)
        PROVE  \E i \in DOMAIN inbox : inbox[i] = Event("Stream", s, 0)
    <3>1. PICK i \in DOMAIN inbox : inbox[i].kind = "Stream" /\ inbox[i].of = s
      BY Zenon, <2>2 DEF Waiting
    <3>2. inbox[i] \in Events
      BY ZenonT(40), <2>1, Elements
    <3> QED
      BY Zenon, <3>1, <3>2, EventTypes
  <2> QED
    BY Zenon, <2>1, <2>2 DEF NoLeakedStream, Held
<1> QED
  BY <1>1, IntakeHolds, PTL

\* drainReads is always called in time: while a stream is queued and a read slot is
\* free, a ReadDone event is in the inbox or about to be posted, on any schedule of
\* the readers, of the decoder and of the peers' streams.
THEOREM ReadsKeepGoing == Spec => []NoReadStall
<1>1. ASSUME IntakeInv PROVE NoReadStall
  <2>1. IsFiniteSet(Reading)
    BY IntakeAssumption, FS_Subset DEF Reading
  <2>2. Cardinality(Reading) \in Nat /\ MaxReads \in Nat
    BY <2>1, FS_CardinalityType, IntakeAssumption
  <2>3. Free > 0 => Cardinality(Reading) < MaxReads
    BY <2>2 DEF Free
  <2> QED
    BY Zenon, <1>1, <2>3 DEF IntakeInv, Slots, Rousing, NoReadStall
<1> QED
  BY <1>1, IntakeHolds, PTL

\* A session knows its channel's members: handlePeerBound, handlePeerUnbound and
\* channelPeerSessionEnded keep its peers on the members' current connections,
\* however late the end of a replaced connection's SESS stream is handled.
THEOREM SessionsFollowMembers == Spec => []PeersAreMembers
<1>1. IntakeInv => PeersAreMembers
  BY Zenon DEF IntakeInv, Fits, PeersAreMembers
<1> QED
  BY <1>1, IntakeHolds, PTL

\* disposeIfIdle leaves no idle session behind an event: a session that had peers has
\* one that has not reconstructed, or one at all while the session itself has not.
THEOREM IdleSessionsEnd == Spec => []NoIdleSession
<1>1. ASSUME IntakeInv PROVE NoIdleSession
  <2>1. ~Idle(sess)
    BY Zenon, <1>1 DEF IntakeInv, Fits
  <2> QED
    BY Zenon, <2>1 DEF Idle, Attached, NoIdleSession
<1> QED
  BY <1>1, IntakeHolds, PTL

\* closeWithCode outlasts the decoder: one that runs belongs to the session the
\* channel has, past Consuming, so none reads a closed session's chunks.
THEOREM DecoderStaysOwned == Spec => []DecoderOwned
<1>1. IntakeInv => DecoderOwned
  BY Zenon DEF IntakeInv, Owned, DecoderOwned
<1> QED
  BY <1>1, IntakeHolds, PTL

=============================================================================
