SPECIFICATION Spec
CONSTANTS
    Procs = {p1}
    MaxWrites = 1
    Dir = ""
INVARIANT WriteWithoutFaultSucceeds
