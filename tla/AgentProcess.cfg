\* Two processes one after the other, three messages and interrupts.
CONSTANTS
    MaxProcs = 2
    MaxCalls = 3
SPECIFICATION Spec
INVARIANTS
    AgentTypeOK
    RejectedStartLeavesNothing
    ForgottenSessionIsClosed
    
    
    WaitersMatchInterrupts
PROPERTIES
    CallersAreAnswered
\* The bounds end every behaviour.
CHECK_DEADLOCK FALSE
