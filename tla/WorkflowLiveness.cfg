CONSTANTS
    None = None
    Foreign = Foreign
    Procs = {p1, p2}
    Bodies = {b1}
    Commands = {"next", "status", "fresh", "start", "stop"}
    Layout = "panes"
    SharedServer = TRUE
    UserPanes = {}
    FragilePanes = {}
    MaxTransfers = 1
SPECIFICATION FairSpec
INVARIANTS
    LockHasWorker
PROPERTIES
    LockIsGranted
