\* Rework after one rejection, no faults.
SPECIFICATION Spec
CONSTANTS
    lead = lead
    devA = devA
    devB = devB
    rev = rev
    Tasks = {t1}
    Employees <- MCEmployeesOneDeveloper
    Workspace <- MCWorkspace
    Leader = lead
    Reviewer = rev
    MaxParallelTasks = 1
    MaxTaskRetry = 1
    MaxReviewLoops = 2
    ReviewLoopCap = 2
    Threads <- MCThreads2
    MaxDepth = 2
    MaxEpoch = 0
    ClientActions = {"task.propose", "task.assign"}
    AgentActions = {"task.submit", "task.approve", "task.reject"}
    Faults = {}
PROPERTIES
    SubmittedTurnIsNoFailure
CHECK_DEADLOCK FALSE
