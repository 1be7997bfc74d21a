------------------------------ MODULE MCStack ------------------------------
(* Instances of Stack: two nodes, a with the lower peer ID. *)
EXTENDS Stack

MCLeaverNode == [d \in Leavers |-> "a"]

\* Both nodes dial; two callers at one node share a dial; one caller, from
\* either end, and more that goes wrong.
MCScenes ==
    { [home |-> [k1 |-> "a", k2 |-> "b"], endpoints |-> 1, closable |-> {}, faults |-> 1],
      [home |-> [k1 |-> "a", k2 |-> "a"], endpoints |-> 1, closable |-> {"a"}, faults |-> 1],
      [home |-> [k1 |-> "a", k2 |-> None], endpoints |-> 2, closable |-> {"a"}, faults |-> 2],
      [home |-> [k1 |-> "b", k2 |-> None], endpoints |-> 1, closable |-> {"a"}, faults |-> 2] }

=============================================================================
