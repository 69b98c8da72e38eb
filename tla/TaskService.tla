---------------------------- MODULE TaskService ----------------------------
(***************************************************************************)
(* The task table of one company and the operations of TaskService         *)
(* (packages/core/src/tasks/task-service.ts).                              *)
(*                                                                         *)
(* Every operation reads one row, checks it, and writes it back with its   *)
(* events in a single synchronous SQLite transaction, so each operation is *)
(* one action.  Titles, objectives, criteria and event payloads do not     *)
(* influence any decision and are left out; the artifact and evidence      *)
(* lists are kept as "is it non-empty", the only thing the code asks of    *)
(* them.  The operations are called by the orchestrator, which serves      *)
(* agents and IPC clients: nothing orders the calls.                       *)
(***************************************************************************)
EXTENDS Integers, FiniteSets

CONSTANTS
    Tasks,          \* task identifiers
    Employees,      \* CompanyDefinition.employees
    Workspace,      \* EmployeeDefinition.workspace of every employee
    Leader,         \* leaderId
    MaxTaskRetry,   \* limits.maxTaskRetry
    MaxReviewLoops, \* limits.maxReviewLoops
    ReviewLoopCap   \* bound of the model: reviewLoopCount is not bounded by the code

\* ownerEmployeeId === null
Nobody == "nobody"

WorkspaceModes == {"read_only", "git_worktree", "review_package"}

ASSUME EmployeesAssumption ==
    /\ Workspace \in [Employees -> WorkspaceModes]
    /\ Leader \in Employees
    /\ Employees \cap {"owner", "core", Nobody} = {}

\* The range of each limit in CompanyDefinition (runtime-contract/src/company.ts).
ASSUME LimitsAssumption ==
    /\ MaxTaskRetry \in 0..1
    /\ MaxReviewLoops \in 0..2
    /\ ReviewLoopCap \in Nat

\* getTask(...) === null
NoTask == [status |-> "none"]

VARIABLE
    task    \* the rows of table tasks: task[t] is a record, or NoTask

TaskStates ==
    {"draft", "ready", "running", "review", "completed", "blocked", "failed"}

\* updatedBy is the actor of the event that updatedEventId names.
TaskRecord ==
    [status : TaskStates,
     owner : Employees \cup {Nobody},
     dependencies : SUBSET Tasks,
     retryCount : Nat,
     reviewLoopCount : Nat,
     artifacts : BOOLEAN,
     evidence : BOOLEAN,
     updatedBy : Employees \cup {"owner", "core"}]

legalTransitions ==
    [draft     |-> {"ready"},
     ready     |-> {"running"},
     running   |-> {"review", "blocked", "failed"},
     review    |-> {"completed", "ready", "blocked"},
     completed |-> {},
     blocked   |-> {"ready"},
     failed    |-> {"ready", "blocked"}]

Exists(t) == task[t].status # "none"

\* #assertTransition
LegalTransition(t, next) == Exists(t) /\ next \in legalTransitions[task[t].status]

\* #assertGenericTransition: the moves that have an operation of their own.
GenericTransition(t, next) ==
    <<task[t].status, next>> \notin
        {<<"draft", "ready">>, <<"running", "review">>, <<"review", "ready">>,
         <<"review", "blocked">>, <<"failed", "ready">>, <<"failed", "blocked">>,
         <<"blocked", "ready">>}

-----------------------------------------------------------------------------
(* Dependencies.  A task may name a dependency that is proposed later.      *)

DependenciesOf(t) == IF Exists(t) THEN task[t].dependencies ELSE {}

\* #assertNoDependencyCycle: the depth-first search over the stored rows and the
\* proposed one meets a task it is still visiting.  The graph has a cycle exactly
\* when each member of some non-empty set of tasks depends on a member of the set;
\* module DependencyCheck has the search itself, call by call, and shows that it
\* accepts the proposals this accepts.
IntroducesCycle(t, deps) ==
    \E S \in SUBSET Tasks :
        /\ S # {}
        /\ \A u \in S : S \cap (IF u = t THEN deps ELSE DependenciesOf(u)) # {}

DependenciesCompleteMutant(t) == \A d \in task[t].dependencies : Exists(d)

\* #assertDependenciesComplete
DependenciesComplete(t) ==
    \A d \in task[t].dependencies : task[d].status = "completed"

-----------------------------------------------------------------------------
(* Operations.                                                              *)

Write(t, record) == task' = [task EXCEPT ![t] = record]

\* A draft with no owner.  The only caller of create passes zero counters and empty
\* lists (orchestrator.ts, createProposedTask).
Draft(deps) ==
    [status |-> "draft", owner |-> Nobody, dependencies |-> deps,
     retryCount |-> 0, reviewLoopCount |-> 0,
     artifacts |-> FALSE, evidence |-> FALSE, updatedBy |-> "core"]

\* create
Create(t, deps) ==
    /\ ~Exists(t)
    /\ ~IntroducesCycle(t, deps)
    /\ Write(t, Draft(deps))

AssignableMutant(t, e) ==
    /\ LegalTransition(t, "ready")
    /\ \A d \in task[t].dependencies : Exists(d)

\* The checks of assign.  Any state from which "ready" is legal will do.
Assignable(t, e) ==
    /\ LegalTransition(t, "ready")
    /\ Workspace[e] = "git_worktree"
    /\ \A d \in task[t].dependencies : Exists(d)

Assign(t, e) ==
    /\ Assignable(t, e)
    /\ Write(t, [task[t] EXCEPT !.owner = e, !.status = "ready", !.updatedBy = "core"])

\* transition's checks on the actor.
StartPermitted(t, actor) == DependenciesComplete(t) /\ task[t].owner = actor

CompletionPermittedMutant(t, actor) == task[t].artifacts /\ task[t].evidence

CompletionPermitted(t, actor) ==
    /\ Workspace[actor] = "review_package"
    /\ task[t].artifacts /\ task[t].evidence

Transition(t, next, actor) ==
    /\ LegalTransition(t, next)
    /\ GenericTransition(t, next)
    /\ next = "running" => StartPermitted(t, actor)
    /\ next = "completed" => CompletionPermitted(t, actor)
    /\ Write(t, [task[t] EXCEPT !.status = next, !.updatedBy = actor])

Submit(t, actor, artifacts, evidence) ==
    /\ LegalTransition(t, "review")
    /\ task[t].owner = actor
    /\ artifacts /\ evidence
    /\ Write(t, [task[t] EXCEPT !.status = "review", !.artifacts = artifacts,
                                !.evidence = evidence, !.updatedBy = actor])

RetryRemainingMutant(t) == task[t].retryCount <= MaxTaskRetry

\* hasRetryRemaining
RetryRemaining(t) == task[t].retryCount < MaxTaskRetry

\* retry: only a failed task can go to both "ready" and "blocked"; from the other
\* states one of the two outcomes is legal for some value of the counter.
Retry(t, actor) ==
    LET next == IF RetryRemaining(t) THEN "ready" ELSE "blocked"
    IN /\ LegalTransition(t, next)
       /\ Write(t, [task[t] EXCEPT
                       !.status = next, !.updatedBy = actor,
                       !.retryCount = IF RetryRemaining(t) THEN @ + 1 ELSE @])

RejectMutant(t, reviewer) ==
    /\ LegalTransition(t, "ready")
    /\ Write(t, [task[t] EXCEPT !.status = "ready", !.reviewLoopCount = @ - 1,
                                !.updatedBy = reviewer])

\* reject: the review loop is spent before it is compared with the limit.
Reject(t, reviewer) ==
    LET loops == task[t].reviewLoopCount + 1
        next  == IF loops < MaxReviewLoops THEN "ready" ELSE "blocked"
    IN /\ LegalTransition(t, next)
       /\ loops <= ReviewLoopCap
       /\ Write(t, [task[t] EXCEPT !.status = next, !.reviewLoopCount = loops,
                                   !.updatedBy = reviewer])

UnblockMutant(t, actor) ==
    /\ LegalTransition(t, "ready")
    /\ actor \in {"owner", Leader}
    /\ Write(t, [task[t] EXCEPT !.status = "ready", !.retryCount = 0, !.updatedBy = actor])

\* unblock: the guard is only that "ready" is legal, so a draft, a task under
\* review and a failed task can be released too.
Unblock(t, actor) ==
    /\ LegalTransition(t, "ready")
    /\ actor \in {"owner", Leader}
    /\ Write(t, [task[t] EXCEPT !.status = "ready", !.updatedBy = actor])

-----------------------------------------------------------------------------
(* The specification: any caller, any operation, any order.                 *)

TaskInit == task = [t \in Tasks |-> NoTask]

\* Every operation but create.
Operation(t) ==
    \/ \E e \in Employees : Assign(t, e)
    \/ \E e \in Employees, next \in TaskStates : Transition(t, next, e)
    \/ \E e \in Employees, a, v \in BOOLEAN : Submit(t, e, a, v)
    \/ \E e \in Employees : Retry(t, e)
    \/ \E e \in Employees : Reject(t, e)
    \/ \E e \in Employees \cup {"owner"} : Unblock(t, e)

TaskNext ==
    \E t \in Tasks : Operation(t) \/ \E deps \in SUBSET Tasks : Create(t, deps)

TaskSpec == TaskInit /\ [][TaskNext]_task

-----------------------------------------------------------------------------
(* Properties.                                                              *)

\* Every row is absent or a task record.
TaskTypeOK == task \in [Tasks -> TaskRecord \cup {NoTask}]

\* A task in one of these states was "running" at some time.
StartedStates == {"running", "review", "completed", "blocked", "failed"}

\* The stored dependencies form a directed acyclic graph, although a task may be
\* proposed before the tasks it depends on (create's cycle check).
DependencyGraphAcyclic ==
    \A S \in SUBSET Tasks :
        S # {} => \E u \in S : S \cap DependenciesOf(u) = {}

\* Work that ever started has all its dependencies completed, and they stay
\* completed whatever is rejected, retried, reassigned or released later
\* (assertDependenciesComplete is only called on the way into "running").
StartedAfterDependencies ==
    \A t \in Tasks : task[t].status \in StartedStates =>
        \A d \in task[t].dependencies : task[d].status = "completed"

\* Started work belongs to an employee who has a git worktree of his own
\* (assign's workspace check, then the owner check of every start).
StartedWorkHasWorktree ==
    \A t \in Tasks : task[t].status \in StartedStates =>
        /\ task[t].owner \in Employees
        /\ Workspace[task[t].owner] = "git_worktree"

\* A task under review or completed carries artifacts and evidence, and it was
\* completed by a reviewing employee who is not its owner, however many rounds of
\* rework and reassignment came before (submit, and transition to "completed").
CompletedByIndependentReview ==
    \A t \in Tasks :
        /\ task[t].status \in {"review", "completed"} =>
               task[t].artifacts /\ task[t].evidence
        /\ task[t].status = "completed" =>
               /\ task[t].updatedBy # task[t].owner
               /\ Workspace[task[t].updatedBy] = "review_package"

\* The automatic retries of a task never exceed the configured limit, also when it
\* is reassigned or released in between (retry).
RetryBudget ==
    \A t \in Tasks : Exists(t) => task[t].retryCount <= MaxTaskRetry

\* No operation forgets what was spent or found: counters never go back, the
\* dependencies of a task never change, submitted work never disappears, and a
\* completed task is final (the record updates of every operation).
HistoryIsKept ==
    [][\A t \in Tasks : Exists(t) =>
        /\ task'[t].status # "none"
        /\ task'[t].retryCount >= task[t].retryCount
        /\ task'[t].reviewLoopCount >= task[t].reviewLoopCount
        /\ task'[t].dependencies = task[t].dependencies
        /\ task[t].artifacts => task'[t].artifacts
        /\ task[t].evidence => task'[t].evidence
        /\ task[t].status = "completed" => task'[t] = task[t]]_task

=============================================================================
