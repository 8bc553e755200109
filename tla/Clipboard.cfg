SPECIFICATION FairSpec
CONSTANTS
    Secrets = {"s1", "s2"}
    Timeouts = {0, 1}
    MaxCopies = 3
INVARIANTS
    TypeOK
    ExposureGuarded
PROPERTIES
    ClearsOwnCopy
    ExposureEnds
CHECK_DEADLOCK FALSE
