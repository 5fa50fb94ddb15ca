CONSTANTS
    None = None
    Rival = Rival
    Procs = {p1}
SPECIFICATION Spec
PROPERTIES
    RollsBackOwn
