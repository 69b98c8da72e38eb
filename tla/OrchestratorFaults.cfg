\* One task with everything that can go wrong around it, under fair scheduling.
SPECIFICATION FairSpec
CONSTANTS
    lead = lead
    devA = devA
    devB = devB
    rev = rev
    Tasks = {t1}
    Employees <- MCEmployeesOneDeveloper
    Workspace <- MCWorkspace
    Leader = lead
    Reviewer = rev
    MaxParallelTasks = 1
    MaxTaskRetry = 1
    MaxReviewLoops = 2
    ReviewLoopCap = 2
    Threads <- MCThreads2
    MaxDepth = 2
    MaxEpoch = 3
    ClientActions = {"task.propose", "task.assign", "task.start", "task.request_review"}
    AgentActions = {"task.submit", "task.approve", "task.reject"}
    Faults = {"exit", "refused", "replace", "pause", "crash"}
INVARIANTS
    
    RunningWorkIsDriven
PROPERTIES
    NothingChangesWhileStopped
    
CHECK_DEADLOCK FALSE
