SPECIFICATION Spec
CONSTANTS
    Callers = {c1, c2}
    MaxId = 2
    Texts = {"a"}
    Base32 = {"K1"}
    Plain = {}
    Totps = {}
    Fields = {}
    MaxFields = 0
    Payloads <- CardFile
    Policies <- MixedPolicies
    Keys = {"x"}
    MaxLines = 1
    MAX_INTEROP_ENTRIES = 2
    KeepIds = TRUE
    FromSession = TRUE
    None = None
    Locked = Locked
PROPERTY ImportAllowedBySession
