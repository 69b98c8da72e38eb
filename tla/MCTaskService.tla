--------------------------- MODULE MCTaskService ---------------------------
(* TLC instance of TaskService: two developers, a leader and a reviewer.    *)
EXTENDS DependencyCheck, TLC

CONSTANTS lead, devA, devB, rev

MCEmployees == {lead, devA, devB, rev}
MCEmployeesOneDeveloper == {lead, devA, rev}

MCWorkspace ==
    [e \in Employees |-> CASE e = lead -> "read_only"
                           [] e = rev -> "review_package"
                           [] OTHER -> "git_worktree"]

TaskSymmetry == Permutations(Tasks)
=============================================================================
