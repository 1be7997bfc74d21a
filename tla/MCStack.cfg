SPECIFICATION Spec
CONSTANTS
    Nodes = {"a", "b"}
    Lower = "a"
    MaxConns = 2
    Families = {f}
    Callers = {"k1", "k2"}
    Leavers = {"d"}
    LeaverNode <- MCLeaverNode
    Scenes <- MCScenes
    None = None
INVARIANTS
    ViewsAgree NoLostRequest DisconnectEnds NoStrandedCall
PROPERTIES
    FamiliesSeeOneView
CHECK_DEADLOCK FALSE
