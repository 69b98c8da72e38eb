\* One employee whose process is replaced, and one client
SPECIFICATION FairSpec
CONSTANTS
    Employees = {e1}
    Clients = {c1}
    MaxProcs = 3
    MaxStarts = 1
    Overlap = FALSE
    Faults = {"spawn", "stop", "deadline", "retry", "exit", "checkpoint", "crash"}
INVARIANTS
    RestHasNoProcesses
    
    
PROPERTIES
    OperationsEnd
CHECK_DEADLOCK FALSE
