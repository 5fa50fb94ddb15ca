CONSTANTS
    None = None
    Bare = Bare
    p1 = p1
    p2 = p2
    top = top
    sub = sub
    Procs = {p1, p2}
    Dirs = {top, sub}
    Above <- MCAbove
    GitRoot <- MCGitRoot
    Keys = {"layout", "pm"}
    Commands <- MCCommands
    Configured = {top, "global"}
    Legacy = {"tester"}
    Allowed <- MCAllowed
    Default <- MCDefault
    HandWritten <- MCHandWritten
SPECIFICATION Spec
SYMMETRY Symmetry
INVARIANTS
    TypeOK
    ConfigLoads
PROPERTIES
    ChangesOneKey
    ShowsEffective
    FoundStays
    RegistersNew
