SPECIFICATION FairSpec
CONSTANTS
    Procs = {p1, p2}
    MaxWrites = 2
    Dir = "vaults"
INVARIANTS
    TypeOK
    TargetIntact
    AckedSurvives
    WriterIsolated
    ReadIsCurrent
    NoStrayTemps
PROPERTIES
    RefinesAtomicFile
    LockReleased
