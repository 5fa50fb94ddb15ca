CONSTANTS
    None = None
    Foreign = Foreign
    Procs = {p1}
    Bodies = {b1}
    Commands = {"next", "start"}
    Layout = "panes"
    SharedServer = TRUE
    UserPanes = {}
    FragilePanes = {}
    MaxTransfers = 1
SPECIFICATION Spec
INVARIANTS
    TargetHasHandoff
