------------------------------ MODULE MCCtrlOut ------------------------------
(* CtrlOut for TLC: a channel that may be added twice and a message whose      *)
(* session may be created twice, which is enough for one generation to wait    *)
(* while another is written.                                                   *)
EXTENDS CtrlOut

CONSTANTS c1, k1

MCChannelOf == [k \in {k1} |-> c1]

=============================================================================
