---------------------------- MODULE PeerPresence ----------------------------
(***************************************************************************)
(* What a stack promises the protocol families of a node about one remote   *)
(* peer (doc.go, "Families and events"): handles of one view at a time,     *)
(* every view admitted at most once, and nothing after the stack closed.    *)
(* FamilyDelivery relies on it: a supervisor adds a peer's handle only when *)
(* the handle before it has ended.                                          *)
(***************************************************************************)
CONSTANTS Nodes, Views, Families

VARIABLES
    held,    \* per node, the <<view, family>> handles that have not ended
    spent,   \* per node, the views that were admitted
    over     \* nodes whose stack has closed

vars == <<held, spent, over>>

Init ==
    /\ held = [n \in Nodes |-> {}]
    /\ spent = [n \in Nodes |-> {}]
    /\ over = {}

\* A view is admitted: every shared family gets a handle.
Admit(n, v) ==
    /\ n \notin over
    /\ held[n] = {}
    /\ v \notin spent[n]
    /\ held' = [held EXCEPT ![n] = {v} \X Families]
    /\ spent' = [spent EXCEPT ![n] = @ \union {v}]
    /\ UNCHANGED over

\* Handles end: one closed by its family, or all of them with the view.
End(n) ==
    /\ held'[n] \subseteq held[n]
    /\ held' = [held EXCEPT ![n] = held'[n]]
    /\ UNCHANGED <<spent, over>>

\* Stack.Close returns.
Retire(n) ==
    /\ held[n] = {}
    /\ over' = over \union {n}
    /\ UNCHANGED <<held, spent>>

Next ==
    \E n \in Nodes : (\E v \in Views : Admit(n, v)) \/ End(n) \/ Retire(n)

Spec == Init /\ [][Next]_vars

=============================================================================
