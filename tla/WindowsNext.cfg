CONSTANTS
    None = None
    Foreign = Foreign
    Procs = {p1}
    Bodies = {b1}
    Commands = {"next", "start"}
    Layout = "windows"
    SharedServer = FALSE
    UserPanes = {}
    FragilePanes = {}
    MaxTransfers = 1
SPECIFICATION Spec
INVARIANTS
    ShellNextUsesTurn
