------------------------------ MODULE MCEngine ------------------------------
(***************************************************************************)
(* Scenes: a peer that reconnects; the streams of a peer, more of each kind *)
(* than there is room for; a chunk that is received while one is sent; and  *)
(* two Channels of one ID.                                                  *)
(***************************************************************************)
EXTENDS Engine

MCIdOf == [x \in Chans |-> 1]

Stream(h, k) == [handle |-> h, kind |-> k, id |-> 1]
Scene(hs, xs, streams, m, n) ==
    [handles |-> hs, chans |-> xs, streams |-> streams, frames |-> m, faults |-> n, sends |-> {}]
Sending(sc) == [sc EXCEPT !.sends = sc.handles]

MCScenes ==
    {Scene({1, 2}, {"x1"}, <<Stream(1, "BCAST"), Stream(2, "BCAST")>>, 0, 1),
     Scene({1}, {"x1"}, <<Stream(1, "BCAST")>>, 1, 1),
     Scene({1}, {"x1"}, <<Stream(1, "BCAST"), Stream(1, "SESS")>>, 0, 1),
     Sending(Scene({1}, {"x1"}, <<Stream(1, "BCAST"), Stream(1, "CHUNK")>>, 0, 1)),
     Scene({1}, {"x1", "x2"}, <<Stream(1, "BCAST")>>, 0, 1),
     Scene({1}, {}, <<Stream(1, "BCAST"), Stream(1, "BCAST"), Stream(1, "SESS"), Stream(1, "SESS"),
                      Stream(1, "BIDI")>>, 0, 1)}

=============================================================================
