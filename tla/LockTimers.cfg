SPECIFICATION Spec
CONSTANTS
    Callers = {c1, c2}
    Cancellable = {c1, c2}
    MaxGen = 4
    Timeouts = {1}
    Strengths = {"Strong"}
    Outcomes = {"Primary"}
    Runtimes = {"NotDebugged"}
    Operations = {}
    Locked = Locked
SYMMETRY CallerSymmetry
INVARIANT TypeOK
PROPERTIES
    NoStaleLock
    AutoLockOnlyWhenIdle
    RefinesRegister
