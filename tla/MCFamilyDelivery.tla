-------------------------- MODULE MCFamilyDelivery --------------------------
(* FamilyDelivery for TLC: two peers that share two handles, so that they wait *)
(* side by side or one of them reconnects, and two protocols with one place    *)
(* each in the queue.                                                          *)
EXTENDS FamilyDelivery, TLC

CONSTANTS h1, h2, s1, s2, s3, BCAST, SESS

MCProtocolOf == (s1 :> BCAST) @@ (s2 :> SESS) @@ (s3 :> SESS)
MCMaxQueued == (BCAST :> 1) @@ (SESS :> 1)
MCHandles == {h1, h2}
MCStreams == {s1, s2, s3}
MCProtocols == {BCAST, SESS}

=============================================================================
