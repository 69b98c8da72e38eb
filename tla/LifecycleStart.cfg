\* A start that is in flight while other requests are served
SPECIFICATION Spec
CONSTANTS
    Employees = {e1}
    Clients = {c1}
    MaxProcs = 3
    MaxStarts = 2
    Overlap = TRUE
    Faults = {}
INVARIANTS
    RestHasNoProcesses
CHECK_DEADLOCK FALSE
