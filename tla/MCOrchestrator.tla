--------------------------- MODULE MCOrchestrator ---------------------------
(* TLC instance of Orchestrator: a leader, one or two developers, a reviewer. *)
EXTENDS Orchestrator, TLC

CONSTANTS lead, devA, devB, rev

MCEmployees == {lead, devA, devB, rev}
MCEmployeesOneDeveloper == {lead, devA, rev}

MCWorkspace ==
    [e \in Employees |-> CASE e = lead -> "read_only"
                           [] e = rev -> "review_package"
                           [] OTHER -> "git_worktree"]

TaskSymmetry == Permutations(Tasks)

MCThreads2 == 1..2
MCThreads3 == 1..3
=============================================================================
