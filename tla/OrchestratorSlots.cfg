\* Two tasks compete for one slot; sessions exit, work is blocked and retried, and agents
\* write to each other inside their turns.
SPECIFICATION Spec
CONSTANTS
    lead = lead
    devA = devA
    devB = devB
    rev = rev
    Tasks = {t1, t2}
    Employees <- MCEmployeesOneDeveloper
    Workspace <- MCWorkspace
    Leader = lead
    Reviewer = rev
    MaxParallelTasks = 1
    MaxTaskRetry = 1
    MaxReviewLoops = 1
    ReviewLoopCap = 1
    Threads <- MCThreads2
    MaxDepth = 3
    MaxEpoch = 0
    ClientActions = {"task.propose", "task.assign", "task.start"}
    AgentActions = {"task.submit", "task.approve", "task.block", "employee.message"}
    Faults = {"exit"}
INVARIANTS
    OrchTypeOK
    CapacityRespected
SYMMETRY TaskSymmetry
CHECK_DEADLOCK FALSE
