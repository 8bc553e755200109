SPECIFICATION Spec
CONSTANTS
    Callers = {c1, c2}
    Cancellable = {c2}
    Flows = {"password", "signed", "biometric"}
    Vaults <- AllVaults
    CounterMax = 6
    quiet_period = 3
    max_delay = 2
    jitter_max = 1
INVARIANTS
    TypeOK
    FailuresClassified
    SessionLabelsBranch
PROPERTIES
    StreakFallsOnlyWhenEarned
    BackoffGrows
    FailuresSpaced
