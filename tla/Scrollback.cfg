CONSTANTS
    None = None
    Role = "developer"
    StatusLines = {"ready"}
    Plain = {"text"}
    Wide = {"para"}
    Envelope = "text"
    Prompts <- MCPrompts
    MaxBody = 1
    History = 5
SPECIFICATION Spec
INVARIANTS
    TypeOK
    ScanAgrees
    ReadsNextBlock
    OwnWords
    NeverTakenTwice
