\* The last client leaves a company it has stopped
SPECIFICATION Spec
CONSTANTS
    Employees = {e1}
    Clients = {c1}
    MaxProcs = 2
    MaxStarts = 1
    Overlap = FALSE
    Faults = {}
PROPERTIES
    StopIsFinal
CHECK_DEADLOCK FALSE
