\* Two employees, of whom one may come up or stop while the other does not
SPECIFICATION FairSpec
CONSTANTS
    Employees = {e1, e2}
    Clients = {c1}
    MaxProcs = 2
    MaxStarts = 1
    Overlap = FALSE
    Faults = {"spawn", "stop", "deadline", "checkpoint", "crash", "signal"}
INVARIANTS
    LifeTypeOK
PROPERTIES
    SuspensionEndsProcesses
    LastClientSuspends
    
    ShutdownEnds
CHECK_DEADLOCK FALSE
