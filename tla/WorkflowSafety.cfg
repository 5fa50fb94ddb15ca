CONSTANTS
    None = None
    Foreign = Foreign
    Procs = {p1, p2}
    Bodies = {b1, b2}
    Commands = {"next", "status", "fresh", "start", "stop"}
    Layout = "panes"
    SharedServer = FALSE
    UserPanes = {"pm", "other"}
    FragilePanes = {"developer"}
    MaxTransfers = 3
SPECIFICATION Spec
SYMMETRY Symmetry
INVARIANTS
    TypeOK
    ReadsStayCurrent
    PendingIsNew
PROPERTIES
    KeepsPending
    TypesOnlyPending
    AdvancesByDelivery
