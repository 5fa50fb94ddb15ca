CONSTANTS
    None = None
    Foreign = Foreign
    Procs = {p1}
    Bodies = {b1}
    Commands = {"next", "status", "fresh", "start", "stop"}
    Layout = "panes"
    SharedServer = FALSE
    UserPanes = {}
    FragilePanes = {}
    MaxTransfers = 2
SPECIFICATION Spec
INVARIANTS
    PendingFromTurn
