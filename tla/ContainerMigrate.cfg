CONSTANTS
    Passwords = {p}
    Plaintexts <- MCPlaintexts
    Decoys <- MCDecoys
    Foreign <- MCForeign
    Kdfs <- MCKdfs
    Policies = {}
    Encoders = {"pretty"}
    MaxFiles = 2
    MaxFaults = 0
    None = None
SPECIFICATION Spec
INVARIANT MigrationKeepsAccess
CHECK_DEADLOCK FALSE
