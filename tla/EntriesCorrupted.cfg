SPECIFICATION Spec
CONSTANTS
    Callers = {c1}
    MaxId = 1
    Texts = {"a"}
    Base32 = {"K1", "K2"}
    Plain = {"p"}
    Totps <- MCTotps
    Fields = {"secret"}
    MaxFields = 1
    Payloads <- EmptyFile
    Policies <- PrimaryClean
    Keys = {}
    MaxLines = 0
    MAX_INTEROP_ENTRIES = 3
    KeepIds = TRUE
    FromSession = TRUE
    None = None
    Locked = Locked
INVARIANT PayloadStaysReadable
