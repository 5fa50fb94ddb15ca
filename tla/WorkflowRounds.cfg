CONSTANTS
    None = None
    Foreign = Foreign
    Procs = {p1}
    Bodies = {b1, b2}
    Commands = {"next", "status", "fresh", "start", "stop"}
    Layout = "windows"
    SharedServer = FALSE
    UserPanes = {"pm", "developer", "reviewer"}
    FragilePanes = {"reviewer"}
    MaxTransfers = 5
    Followed = {3}
SPECIFICATION ReportSpec
SYMMETRY Symmetry
INVARIANTS
    DeliveredIsApplied
    TargetHasHandoff
    RelayHistory
    LineNotBehind
    DoctorFindsCut
    TurnHasHandoff
    PendingRetriable
PROPERTIES
    ImplementsRelay
