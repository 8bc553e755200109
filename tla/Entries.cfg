SPECIFICATION Spec
CONSTANTS
    Callers = {c1}
    MaxId = 3
    Texts = {"a"}
    Base32 = {"K1", "K2"}
    Plain = {}
    Totps <- MCTotps
    Fields = {"title", "secret", "totp"}
    MaxFields = 2
    Payloads <- CardFile
    Policies <- PrimaryOrDecoy
    Keys = {"x", "y"}
    MaxLines = 2
    MAX_INTEROP_ENTRIES = 2
    KeepIds = TRUE
    FromSession = FALSE
    None = None
    Locked = Locked
INVARIANTS
    TypeOK
    SecretMirrorsTotp
    UniqueIds
PROPERTIES
    OkLeavesReadable
    UnreadableIsKept
