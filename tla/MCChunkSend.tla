----------------------------- MODULE MCChunkSend -----------------------------
(***************************************************************************)
(* ChunkSend for TLC, with two shards of which one decodes, and room for one  *)
(* in an outbox.  A relay thus has one shard to forward.                      *)
(***************************************************************************)
EXTENDS ChunkSend, TLC

CONSTANTS p1, p2, c1, c2

ChunkSymmetry == Permutations({c1, c2})

Scene(o, n1, n2, loops) ==
    [origin |-> o, attach |-> [p \in Peers |-> IF p = p1 THEN n1 ELSE n2], loops |-> loops]

\* One peer; two peers of a relay; and a peer that comes back while another one,
\* whose loops have not begun, keeps the session.
One == Scene(FALSE, 1, 0, {p1})
Two == Scene(FALSE, 1, 1, {p1, p2})
Return == Scene(FALSE, 2, 1, {p1})

MCScenes == {Return, Scene(TRUE, 1, 1, {p1})}
StaleScenes == {Return}
BudgetScenes == {Two}
AnnouncedScenes == {One}

=============================================================================
