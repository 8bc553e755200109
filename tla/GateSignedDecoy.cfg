SPECIFICATION Spec
CONSTANTS
    Callers = {c1}
    Cancellable = {}
    Flows = {"signed"}
    Vaults <- GoodVaults
    CounterMax = 4
    quiet_period = 3
    max_delay = 2
    jitter_max = 0
INVARIANT SignedSessionLabelsBranch
