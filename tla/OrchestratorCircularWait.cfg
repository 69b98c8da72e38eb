\* An agent asks a colleague, who asks back.
SPECIFICATION Spec
CONSTANTS
    lead = lead
    devA = devA
    devB = devB
    rev = rev
    Tasks = {t1}
    Employees <- MCEmployeesOneDeveloper
    Workspace <- MCWorkspace
    Leader = lead
    Reviewer = rev
    MaxParallelTasks = 1
    MaxTaskRetry = 0
    MaxReviewLoops = 0
    ReviewLoopCap = 0
    Threads <- MCThreads2
    MaxDepth = 3
    MaxEpoch = 0
    ClientActions = {"task.propose", "task.assign"}
    AgentActions = {"employee.message"}
    Faults = {}
INVARIANTS
    NoCircularWait
CHECK_DEADLOCK FALSE
