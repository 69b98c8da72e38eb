------------------------ MODULE TaskService_proofs ------------------------
(***************************************************************************)
(* Proofs about TaskService for every set of tasks and employees and every *)
(* limit.  The operations differ in their guards but agree on what they    *)
(* may do to the table: rewrite one row in a way RowStep describes.  The   *)
(* first lemmas show that each operation is a row step; the invariants are *)
(* then preserved by row steps, whatever operation made them.              *)
(***************************************************************************)
EXTENDS TaskService, TLAPS

\* The start of a row: what must hold the moment a task first leaves "ready".
StartedLegally(t, r) ==
    /\ r.owner \in Employees
    /\ Workspace[r.owner] = "git_worktree"
    /\ \A d \in r.dependencies : task[d].status = "completed"

ReviewedLegally(r) ==
    /\ r.artifacts /\ r.evidence
    /\ r.status = "completed" =>
          r.updatedBy # r.owner /\ Workspace[r.updatedBy] = "review_package"

\* What the rewriting of an existing row keeps.
Keeps(old, r) ==
    /\ old.status # "completed"
    /\ r.dependencies = old.dependencies
    /\ r.retryCount >= old.retryCount
    /\ r.reviewLoopCount >= old.reviewLoopCount
    /\ old.artifacts => r.artifacts
    /\ old.evidence => r.evidence

OwnerHasWorktree(r) ==
    r.owner # Nobody => r.owner \in Employees /\ Workspace[r.owner] = "git_worktree"

RowStep(t, r) ==
    /\ r \in TaskRecord
    /\ OwnerHasWorktree(r)
    /\ task' = [task EXCEPT ![t] = r]
    /\ r.retryCount <= MaxTaskRetry
    /\ IF Exists(t) THEN Keeps(task[t], r)
                    ELSE r.status = "draft" /\ ~IntroducesCycle(t, r.dependencies)
    /\ r.status \in StartedStates => StartedLegally(t, r)
    /\ r.status \in {"review", "completed"} => ReviewedLegally(r)

\* Nobody but worktree employees ever owns a task, started or not.  Without this
\* the step from "ready" to "running" could not be shown to keep
\* StartedWorkHasWorktree: the start only checks that the actor is the owner.
OwnersHaveWorktree == \A t \in Tasks : Exists(t) => OwnerHasWorktree(task[t])

\* The inductive invariant.
TaskInv ==
    /\ TaskTypeOK
    /\ DependencyGraphAcyclic
    /\ StartedAfterDependencies
    /\ StartedWorkHasWorktree
    /\ OwnersHaveWorktree
    /\ CompletedByIndependentReview
    /\ RetryBudget

LEMMA RowType ==
    ASSUME TaskInv, NEW t \in Tasks, Exists(t)
    PROVE  /\ task[t] \in TaskRecord
           /\ task[t].retryCount <= MaxTaskRetry
           /\ OwnerHasWorktree(task[t])
  BY DEF TaskInv, TaskTypeOK, Exists, NoTask, RetryBudget, OwnersHaveWorktree

LEMMA CreateIsRowStep ==
    ASSUME TaskInv, NEW t \in Tasks, NEW deps \in SUBSET Tasks, Create(t, deps)
    PROVE  \E r : RowStep(t, r)
  <1> DEFINE r == [status |-> "draft", owner |-> Nobody, dependencies |-> deps,
                   retryCount |-> 0, reviewLoopCount |-> 0,
                   artifacts |-> FALSE, evidence |-> FALSE, updatedBy |-> "core"]
  <1>1. r \in TaskRecord
    BY DEF TaskRecord, TaskStates
  <1>2. RowStep(t, r)
    BY <1>1, LimitsAssumption DEF Create, Draft, Write, RowStep, StartedStates, OwnerHasWorktree
  <1>. QED BY <1>2

LEMMA AssignIsRowStep ==
    ASSUME TaskInv, NEW t \in Tasks, NEW e \in Employees, Assign(t, e)
    PROVE  \E r : RowStep(t, r)
  <1> DEFINE r == [task[t] EXCEPT !.owner = e, !.status = "ready", !.updatedBy = "core"]
  <1>1. Exists(t) /\ task[t].status # "completed" /\ Workspace[e] = "git_worktree"
    BY DEF Assign, Assignable, LegalTransition, legalTransitions
  <1>2. task[t] \in TaskRecord /\ task[t].retryCount <= MaxTaskRetry
    BY <1>1, RowType
  <1>3. r \in TaskRecord
    BY <1>2 DEF TaskRecord, TaskStates
  <1>4. Keeps(task[t], r) /\ r.retryCount <= MaxTaskRetry /\ OwnerHasWorktree(r)
    BY <1>1, <1>2 DEF Keeps, TaskRecord, OwnerHasWorktree
  <1>5. RowStep(t, r)
    BY <1>1, <1>2, <1>3, <1>4 DEF Assign, Write, RowStep, StartedStates, TaskRecord
  <1>. QED BY <1>5

LEMMA TransitionIsRowStep ==
    ASSUME TaskInv, NEW t \in Tasks, NEW e \in Employees, NEW next \in TaskStates,
           Transition(t, next, e)
    PROVE  \E r : RowStep(t, r)
  <1> DEFINE r == [task[t] EXCEPT !.status = next, !.updatedBy = e]
  <1>1. Exists(t) /\ task[t].status # "completed"
    BY DEF Transition, LegalTransition, legalTransitions
  <1>2. /\ task[t] \in TaskRecord /\ task[t].retryCount <= MaxTaskRetry
        /\ OwnerHasWorktree(task[t])
    BY <1>1, RowType
  <1>3. r \in TaskRecord
    BY <1>2 DEF TaskRecord
  <1>4. Keeps(task[t], r) /\ r.retryCount <= MaxTaskRetry /\ OwnerHasWorktree(r)
    BY <1>1, <1>2 DEF Keeps, TaskRecord, OwnerHasWorktree
  <1>5. next \in StartedStates => StartedLegally(t, r)
    <2>1. CASE next = "running"
      <3>1. DependenciesComplete(t) /\ task[t].owner = e
        BY <2>1 DEF Transition, StartPermitted
      <3>2. task[t].owner # Nobody
        BY <3>1, EmployeesAssumption
      <3>. QED
        BY <1>2, <3>1, <3>2 DEF StartedLegally, DependenciesComplete, OwnerHasWorktree, TaskRecord
    <2>2. CASE next \in {"review", "completed", "blocked", "failed"}
      <3>1. task[t].status \in StartedStates
        BY <2>2, <1>1, <1>2 DEF Transition, LegalTransition, legalTransitions, StartedStates,
                                TaskStates, TaskRecord
      <3>. QED
        BY <1>2, <3>1 DEF StartedLegally, TaskInv, StartedAfterDependencies,
                          StartedWorkHasWorktree, TaskRecord
    <2>. QED BY <2>1, <2>2 DEF StartedStates
  <1>6. next \in {"review", "completed"} => ReviewedLegally(r)
    <2>1. CASE next = "completed"
      <3>1. Workspace[e] = "review_package" /\ task[t].artifacts /\ task[t].evidence
        BY <2>1 DEF Transition, CompletionPermitted
      <3>2. task[t].status = "review"
        BY <2>1, <1>1, <1>2 DEF Transition, LegalTransition, legalTransitions, TaskRecord, TaskStates
      <3>3. Workspace[task[t].owner] = "git_worktree"
        BY <3>2 DEF TaskInv, StartedWorkHasWorktree, StartedStates
      <3>. QED BY <1>2, <2>1, <3>1, <3>3 DEF ReviewedLegally, TaskRecord
    <2>2. next # "review"
      BY <1>1, <1>2 DEF Transition, LegalTransition, legalTransitions, GenericTransition,
                        TaskRecord, TaskStates
    <2>. QED BY <2>1, <2>2
  <1>7. r.status = next /\ task' = [task EXCEPT ![t] = r]
    BY <1>2 DEF Transition, Write, TaskRecord
  <1> HIDE DEF r
  <1>8. RowStep(t, r)
    BY <1>1, <1>3, <1>4, <1>5, <1>6, <1>7 DEF RowStep
  <1>. QED BY <1>8

LEMMA SubmitIsRowStep ==
    ASSUME TaskInv, NEW t \in Tasks, NEW e \in Employees, NEW a \in BOOLEAN,
           NEW v \in BOOLEAN, Submit(t, e, a, v)
    PROVE  \E r : RowStep(t, r)
  <1> DEFINE r == [task[t] EXCEPT !.status = "review", !.artifacts = a,
                                  !.evidence = v, !.updatedBy = e]
  <1>1. Exists(t) /\ "review" \in legalTransitions[task[t].status] /\ a /\ v
    BY DEF Submit, LegalTransition
  <1>2. /\ task[t] \in TaskRecord /\ task[t].retryCount <= MaxTaskRetry
        /\ OwnerHasWorktree(task[t])
    BY <1>1, RowType
  <1>3. task[t].status = "running"
    BY <1>1, <1>2 DEF legalTransitions, TaskRecord, TaskStates
  <1>4. r \in TaskRecord
    BY <1>2 DEF TaskRecord, TaskStates
  <1>5. Keeps(task[t], r) /\ r.retryCount <= MaxTaskRetry /\ OwnerHasWorktree(r)
    BY <1>1, <1>2, <1>3 DEF Keeps, TaskRecord, OwnerHasWorktree
  <1>6. StartedLegally(t, r) /\ ReviewedLegally(r)
    BY <1>1, <1>2, <1>3 DEF StartedLegally, ReviewedLegally, TaskInv, TaskRecord, StartedStates,
                            StartedAfterDependencies, StartedWorkHasWorktree
  <1>. QED
    BY <1>1, <1>2, <1>4, <1>5, <1>6 DEF Submit, Write, RowStep, TaskRecord

\* Rework, release and the two outcomes of a retry put a row into "ready" or
\* "blocked": all that remains to be shown for them.
LEMMA BackToReadyOrBlocked ==
    ASSUME TaskInv, NEW t \in Tasks, NEW r \in TaskRecord,
           LegalTransition(t, r.status), r.status \in {"ready", "blocked"},
           task' = [task EXCEPT ![t] = r],
           r.owner = task[t].owner, r.dependencies = task[t].dependencies,
           r.artifacts = task[t].artifacts, r.evidence = task[t].evidence,
           r.retryCount >= task[t].retryCount, r.retryCount <= MaxTaskRetry,
           r.reviewLoopCount >= task[t].reviewLoopCount
    PROVE  RowStep(t, r)
  <1>1. Exists(t) /\ task[t].status # "completed"
    BY DEF LegalTransition, legalTransitions
  <1>2. task[t] \in TaskRecord /\ OwnerHasWorktree(task[t])
    BY <1>1, RowType
  <1>3. Keeps(task[t], r) /\ OwnerHasWorktree(r)
    BY <1>1, <1>2 DEF Keeps, OwnerHasWorktree
  <1>4. ASSUME r.status \in StartedStates PROVE StartedLegally(t, r)
    <2>1. task[t].status \in StartedStates
      BY <1>1, <1>2, <1>4 DEF LegalTransition, legalTransitions, StartedStates, TaskRecord, TaskStates
    <2>. QED
      BY <2>1, <1>2 DEF StartedLegally, TaskInv, StartedAfterDependencies,
                        StartedWorkHasWorktree, TaskRecord
  <1>. QED BY <1>1, <1>3, <1>4 DEF RowStep

LEMMA RetryIsRowStep ==
    ASSUME TaskInv, NEW t \in Tasks, NEW e \in Employees, Retry(t, e)
    PROVE  \E r : RowStep(t, r)
  <1> DEFINE to == IF RetryRemaining(t) THEN "ready" ELSE "blocked"
             n  == IF RetryRemaining(t) THEN task[t].retryCount + 1 ELSE task[t].retryCount
             r  == [task[t] EXCEPT !.status = to, !.updatedBy = e, !.retryCount = n]
  <1>1. LegalTransition(t, to) /\ task' = [task EXCEPT ![t] = r]
    BY DEF Retry, Write
  <1>2. task[t] \in TaskRecord /\ task[t].retryCount <= MaxTaskRetry
    BY <1>1, RowType DEF LegalTransition
  <1>3. n \in Nat /\ n >= task[t].retryCount /\ n <= MaxTaskRetry
    BY <1>2, LimitsAssumption DEF RetryRemaining, TaskRecord
  <1>4. to \in {"ready", "blocked"}
    OBVIOUS
  <1> HIDE DEF to, n
  <1>5. r \in TaskRecord /\ r.status = to
    BY <1>2, <1>3, <1>4 DEF TaskRecord, TaskStates
  <1>6. /\ r.owner = task[t].owner /\ r.dependencies = task[t].dependencies
        /\ r.artifacts = task[t].artifacts /\ r.evidence = task[t].evidence
        /\ r.retryCount >= task[t].retryCount /\ r.retryCount <= MaxTaskRetry
        /\ r.reviewLoopCount >= task[t].reviewLoopCount
    BY <1>2, <1>3 DEF TaskRecord
  <1> HIDE DEF r
  <1>7. RowStep(t, r)
    BY <1>1, <1>4, <1>5, <1>6, BackToReadyOrBlocked
  <1>. QED BY <1>7

LEMMA RejectIsRowStep ==
    ASSUME TaskInv, NEW t \in Tasks, NEW e \in Employees, Reject(t, e)
    PROVE  \E r : RowStep(t, r)
  <1> DEFINE n  == task[t].reviewLoopCount + 1
             to == IF n < MaxReviewLoops THEN "ready" ELSE "blocked"
             r  == [task[t] EXCEPT !.status = to, !.reviewLoopCount = n, !.updatedBy = e]
  <1>1. LegalTransition(t, to) /\ task' = [task EXCEPT ![t] = r]
    BY DEF Reject, Write
  <1>2. task[t] \in TaskRecord /\ task[t].retryCount <= MaxTaskRetry
    BY <1>1, RowType DEF LegalTransition
  <1>3. n \in Nat /\ n >= task[t].reviewLoopCount
    BY <1>2 DEF TaskRecord
  <1>4. to \in {"ready", "blocked"}
    OBVIOUS
  <1> HIDE DEF to, n
  <1>5. r \in TaskRecord /\ r.status = to
    BY <1>2, <1>3, <1>4 DEF TaskRecord, TaskStates
  <1>6. /\ r.owner = task[t].owner /\ r.dependencies = task[t].dependencies
        /\ r.artifacts = task[t].artifacts /\ r.evidence = task[t].evidence
        /\ r.retryCount >= task[t].retryCount /\ r.retryCount <= MaxTaskRetry
        /\ r.reviewLoopCount >= task[t].reviewLoopCount
    BY <1>2, <1>3 DEF TaskRecord
  <1> HIDE DEF r
  <1>7. RowStep(t, r)
    BY <1>1, <1>4, <1>5, <1>6, BackToReadyOrBlocked
  <1>. QED BY <1>7

LEMMA UnblockIsRowStep ==
    ASSUME TaskInv, NEW t \in Tasks, NEW e \in Employees \cup {"owner"}, Unblock(t, e)
    PROVE  \E r : RowStep(t, r)
  <1> DEFINE r == [task[t] EXCEPT !.status = "ready", !.updatedBy = e]
  <1>1. LegalTransition(t, "ready") /\ task' = [task EXCEPT ![t] = r]
    BY DEF Unblock, Write
  <1>2. task[t] \in TaskRecord /\ task[t].retryCount <= MaxTaskRetry
    BY <1>1, RowType DEF LegalTransition
  <1>3. r \in TaskRecord /\ r.status = "ready"
    BY <1>2 DEF TaskRecord, TaskStates
  <1>4. /\ r.owner = task[t].owner /\ r.dependencies = task[t].dependencies
        /\ r.artifacts = task[t].artifacts /\ r.evidence = task[t].evidence
        /\ r.retryCount >= task[t].retryCount /\ r.retryCount <= MaxTaskRetry
        /\ r.reviewLoopCount >= task[t].reviewLoopCount
    BY <1>2 DEF TaskRecord
  <1> HIDE DEF r
  <1>5. RowStep(t, r)
    BY <1>1, <1>3, <1>4, BackToReadyOrBlocked
  <1>. QED BY <1>5

LEMMA EveryStepIsRowStep ==
    ASSUME TaskInv, TaskNext
    PROVE  \E t \in Tasks : \E r : RowStep(t, r)
  BY CreateIsRowStep, AssignIsRowStep, TransitionIsRowStep, SubmitIsRowStep,
     RetryIsRowStep, RejectIsRowStep, UnblockIsRowStep DEF TaskNext, Operation

LEMMA RowStepKeepsGraph ==
    ASSUME TaskInv, NEW t \in Tasks, NEW r, RowStep(t, r)
    PROVE  DependencyGraphAcyclic'
  <1>1. \A u \in Tasks : task'[u] = IF u = t THEN r ELSE task[u]
    BY DEF RowStep, TaskInv, TaskTypeOK
  <1>2. r.status # "none"
    BY DEF RowStep, TaskRecord, TaskStates
  <1>3. SUFFICES ASSUME NEW S \in SUBSET Tasks, S # {},
                        \A u \in S : S \cap DependenciesOf(u)' # {}
                 PROVE  FALSE
    BY DEF DependencyGraphAcyclic
  <1>4. CASE Exists(t)
    <2>1. \A u \in S : DependenciesOf(u)' = DependenciesOf(u)
      BY <1>1, <1>2, <1>4 DEF DependenciesOf, Exists, RowStep, Keeps
    <2>. QED BY <1>3, <2>1 DEF TaskInv, DependencyGraphAcyclic
  <1>5. CASE ~Exists(t)
    <2>1. \A u \in S : DependenciesOf(u)' = IF u = t THEN r.dependencies ELSE DependenciesOf(u)
      BY <1>1, <1>2 DEF DependenciesOf, Exists
    <2>2. IntroducesCycle(t, r.dependencies)
      BY <1>3, <2>1 DEF IntroducesCycle
    <2>. QED BY <1>5, <2>2 DEF RowStep
  <1>. QED BY <1>4, <1>5

LEMMA RowStepKeepsInv ==
    ASSUME TaskInv, NEW t \in Tasks, NEW r, RowStep(t, r)
    PROVE  TaskInv'
  <1>1. \A u \in Tasks : task'[u] = IF u = t THEN r ELSE task[u]
    BY DEF RowStep, TaskInv, TaskTypeOK
  <1>2. r \in TaskRecord
    BY DEF RowStep
  <1>3. TaskTypeOK'
    BY <1>2 DEF RowStep, TaskInv, TaskTypeOK
  <1>4. task[t].status # "completed"
    BY DEF RowStep, Exists, Keeps
  <1>5. StartedAfterDependencies'
    <2>1. SUFFICES ASSUME NEW u \in Tasks, task'[u].status \in StartedStates,
                          NEW d \in task'[u].dependencies
                   PROVE  task'[d].status = "completed"
      BY DEF StartedAfterDependencies
    <2>2. task[d].status = "completed"
      <3>1. CASE u = t
        BY <1>1, <2>1, <3>1 DEF RowStep, StartedLegally
      <3>2. CASE u # t
        BY <1>1, <2>1, <3>2 DEF TaskInv, StartedAfterDependencies
      <3>. QED BY <3>1, <3>2
    <2>. QED BY <1>4, <2>2 DEF RowStep, TaskInv, TaskTypeOK
  <1>6. StartedWorkHasWorktree'
    <2>1. SUFFICES ASSUME NEW u \in Tasks, task'[u].status \in StartedStates
                   PROVE  /\ task'[u].owner \in Employees
                          /\ Workspace[task'[u].owner] = "git_worktree"
      BY DEF StartedWorkHasWorktree
    <2>. QED
      BY <1>1, <2>1 DEF RowStep, StartedLegally, TaskInv, StartedWorkHasWorktree
  <1>7. OwnersHaveWorktree'
    <2>1. SUFFICES ASSUME NEW u \in Tasks, Exists(u)' PROVE OwnerHasWorktree(task'[u])
      BY DEF OwnersHaveWorktree, OwnerHasWorktree
    <2>. QED
      BY <1>1, <2>1 DEF RowStep, TaskInv, OwnersHaveWorktree, Exists
  <1>8. CompletedByIndependentReview'
    <2>1. SUFFICES ASSUME NEW u \in Tasks
                   PROVE  /\ task'[u].status \in {"review", "completed"} =>
                                task'[u].artifacts /\ task'[u].evidence
                          /\ task'[u].status = "completed" =>
                                /\ task'[u].updatedBy # task'[u].owner
                                /\ Workspace[task'[u].updatedBy] = "review_package"
      BY DEF CompletedByIndependentReview
    <2>2. CASE u = t
      BY <1>1, <2>2 DEF RowStep, ReviewedLegally
    <2>3. CASE u # t
      BY <1>1, <2>3 DEF TaskInv, CompletedByIndependentReview
    <2>. QED BY <2>2, <2>3
  <1>9. RetryBudget'
    BY <1>1 DEF RowStep, TaskInv, RetryBudget, Exists
  <1>. QED
    BY <1>3, <1>5, <1>6, <1>7, <1>8, <1>9, RowStepKeepsGraph DEF TaskInv

LEMMA TaskInitInv == TaskInit => TaskInv
  <1> SUFFICES ASSUME TaskInit PROVE TaskInv
    OBVIOUS
  <1>1. \A t \in Tasks : task[t] = NoTask /\ task[t].status = "none"
    BY DEF TaskInit, NoTask
  <1>2. TaskTypeOK
    BY DEF TaskInit, TaskTypeOK
  <1>3. DependencyGraphAcyclic
    BY <1>1 DEF DependencyGraphAcyclic, DependenciesOf, Exists
  <1>. QED
    BY <1>1, <1>2, <1>3 DEF TaskInv, StartedAfterDependencies, StartedWorkHasWorktree,
       OwnersHaveWorktree, CompletedByIndependentReview, RetryBudget, Exists, StartedStates

LEMMA TaskInvStutters == ASSUME TaskInv, UNCHANGED task PROVE TaskInv'
  BY DEF TaskInv, TaskTypeOK, DependencyGraphAcyclic, DependenciesOf, StartedAfterDependencies,
         StartedWorkHasWorktree, OwnersHaveWorktree, OwnerHasWorktree,
         CompletedByIndependentReview, RetryBudget, Exists

\* The whole invariant holds in every reachable state of the task table.
THEOREM TaskInvariant == TaskSpec => []TaskInv
  <1>1. TaskInv /\ [TaskNext]_task => TaskInv'
    BY EveryStepIsRowStep, RowStepKeepsInv, TaskInvStutters
  <1>. QED BY <1>1, TaskInitInv, PTL DEF TaskSpec

\* Every stored row is a well-formed task record.
THEOREM TaskTypeCorrect == TaskSpec => []TaskTypeOK
  <1>1. TaskInv => TaskTypeOK
    BY DEF TaskInv
  <1>. QED BY <1>1, TaskInvariant, PTL

\* No order of proposals builds a cyclic dependency graph.
THEOREM GraphStaysAcyclic == TaskSpec => []DependencyGraphAcyclic
  <1>1. TaskInv => DependencyGraphAcyclic
    BY DEF TaskInv
  <1>. QED BY <1>1, TaskInvariant, PTL

\* Started work never has an incomplete dependency, now or later.
THEOREM DependenciesPrecedeWork == TaskSpec => []StartedAfterDependencies
  <1>1. TaskInv => StartedAfterDependencies
    BY DEF TaskInv
  <1>. QED BY <1>1, TaskInvariant, PTL

\* Started work belongs to an employee with a worktree.
THEOREM WorktreeOwnership == TaskSpec => []StartedWorkHasWorktree
  <1>1. TaskInv => StartedWorkHasWorktree
    BY DEF TaskInv
  <1>. QED BY <1>1, TaskInvariant, PTL

\* Completion is reviewed by somebody other than the owner, with evidence.
THEOREM IndependentReview == TaskSpec => []CompletedByIndependentReview
  <1>1. TaskInv => CompletedByIndependentReview
    BY DEF TaskInv
  <1>. QED BY <1>1, TaskInvariant, PTL

\* The retry counter stays within the configured limit.
THEOREM RetryBudgetHolds == TaskSpec => []RetryBudget
  <1>1. TaskInv => RetryBudget
    BY DEF TaskInv
  <1>. QED BY <1>1, TaskInvariant, PTL

\* No operation ever undoes a counter, a dependency, a submission or a completion.
THEOREM HistoryKept == TaskSpec => HistoryIsKept
  <1> DEFINE Kept(t) ==
        Exists(t) =>
          /\ task'[t].status # "none"
          /\ task'[t].retryCount >= task[t].retryCount
          /\ task'[t].reviewLoopCount >= task[t].reviewLoopCount
          /\ task'[t].dependencies = task[t].dependencies
          /\ task[t].artifacts => task'[t].artifacts
          /\ task[t].evidence => task'[t].evidence
          /\ task[t].status = "completed" => task'[t] = task[t]
  <1>1. ASSUME TaskInv, TaskNext, NEW t \in Tasks PROVE Kept(t)
    <2>1. PICK u \in Tasks : \E r : RowStep(u, r)
      BY <1>1, EveryStepIsRowStep
    <2>2. PICK r : RowStep(u, r)
      BY <2>1
    <2>3. task'[t] = IF t = u THEN r ELSE task[t]
      BY <1>1, <2>2 DEF RowStep, TaskInv, TaskTypeOK
    <2>4. CASE t = u
      BY <2>2, <2>3, <2>4 DEF RowStep, Keeps, TaskRecord, TaskStates
    <2>5. CASE t # u /\ Exists(t)
      <3>1. task[t] \in TaskRecord
        BY <1>1, <2>5, RowType
      <3>. QED BY <2>3, <2>5, <3>1 DEF TaskRecord, TaskStates
    <2>. QED BY <2>4, <2>5
  <1>2. TaskInv /\ [TaskNext]_task => [\A t \in Tasks : Kept(t)]_task
    BY <1>1
  <1>. QED BY <1>2, TaskInvariant, PTL DEF TaskSpec, HistoryIsKept

=============================================================================
