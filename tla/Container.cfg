CONSTANTS
    Passwords = {p, q}
    Plaintexts <- MCPlaintexts
    Decoys <- MCDecoys
    Foreign <- MCForeign
    Kdfs <- MCKdfs
    Policies <- MCPolicies
    Encoders = {"pretty"}
    MaxFiles = 3
    MaxFaults = 1
    None = None
SPECIFICATION Spec
SYMMETRY Symmetry
INVARIANTS Authentic Recoverable FreshNonces BackupExact
CHECK_DEADLOCK FALSE
