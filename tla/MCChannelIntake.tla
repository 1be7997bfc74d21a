--------------------------- MODULE MCChannelIntake ---------------------------
(***************************************************************************)
(* Instances of ChannelIntake for TLC: a message that one chunk decodes, and   *)
(* the streams and connections of each scene.                                 *)
(***************************************************************************)
EXTENDS ChannelIntake, TLC

CONSTANTS p1, p2, s1, s2, c1

MCPeerOf == [s \in Streams |-> p1]

MCChunkOf == [s \in Streams |-> c1]

Scene(P, S, bad, n, m) ==
    [peers |-> P, streams |-> S, malformed |-> bad, binds |-> n, publishes |-> m]

\* Two streams compete for the reader.
Compete == Scene({p1}, {s1, s2}, {}, 1, 0)

\* The message is published, and its peer is bound again or reconnects.
Republish == Scene({p1}, {s1}, {}, 2, 1)

\* A stream the session refuses.
Refuse == Scene({p1}, {s1}, {s1}, 1, 0)

\* Two peers take part, one of them on two connections.
Two == Scene({p1, p2}, {}, {}, 3, 0)

MCScenes == {Compete, Republish, Refuse, Two}

StaleScenes == {Compete}

=============================================================================
