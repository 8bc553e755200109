SPECIFICATION FairSpec
CONSTANTS
    Callers = {c1, c2}
    Cancellable = {}
    MaxGen = 4
    Timeouts = {1}
    Strengths = {"Strong"}
    Outcomes = {"Primary"}
    Runtimes = {"NotDebugged"}
    Operations = {}
    Locked = Locked
PROPERTY AutoLockEventually
