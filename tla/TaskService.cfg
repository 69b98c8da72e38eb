\* Three tasks with every dependency graph, a developer, every operation in every order, and create with its search.
SPECIFICATION CheckSpec
CONSTANTS
    lead = lead
    devA = devA
    devB = devB
    rev = rev
    Tasks = {t1, t2, t3}
    Employees <- MCEmployeesOneDeveloper
    Workspace <- MCWorkspace
    Leader = lead
    MaxTaskRetry = 1
    MaxReviewLoops = 2
    ReviewLoopCap = 1
INVARIANTS
    TaskTypeOK
    StartedWorkHasWorktree
    CompletedByIndependentReview
    RetryBudget
    DependencyGraphAcyclic
    StartedAfterDependencies
    SearchFindsCycles
PROPERTY HistoryIsKept
SYMMETRY TaskSymmetry
CHECK_DEADLOCK FALSE
