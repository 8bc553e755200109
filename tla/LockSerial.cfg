SPECIFICATION FairSpec
CONSTANTS
    Callers = {c1}
    Cancellable = {}
    MaxGen = 4
    Timeouts = {0, 2}
    Strengths = {"Strong", "Biometric"}
    Outcomes = {"Primary", "Decoy"}
    Runtimes = {"NotDebugged", "Debugged"}
    Operations = {"RevealSecret", "ChangeSecuritySettings"}
    Locked = Locked
INVARIANTS
    AutoLockArmed
    ReauthCoversPosture
    GrantNeedsStrongSession
PROPERTIES
    ReauthFallsOnlyByClear
    AutoLockEventually
    RevealAllowedBySession
