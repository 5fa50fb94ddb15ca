CONSTANTS
    None = None
    Rival = Rival
    Procs = {p1, p2}
    Followed = {None, "running"}
SPECIFICATION DoctorSpec
SYMMETRY Symmetry
INVARIANTS
    TypeOK
    NoPartialSession
    CacheIsCurrent
    DoctorTypeOK
    OnePaneEach
PROPERTIES
    WarnsWithReason
    RollsBackNoPeer
    ImplementsTeam
