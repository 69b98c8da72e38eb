-------------------------- MODULE DependencyCheck --------------------------
(***************************************************************************)
(* The depth-first search of TaskService.#assertNoDependencyCycle          *)
(* (packages/core/src/tasks/task-service.ts), call by call.  TaskService   *)
(* takes its result for granted (IntroducesCycle); here create is as the   *)
(* code has it: search the graph, then insert the row or throw.            *)
(*                                                                         *)
(* create is synchronous, so that no other operation comes in between.     *)
(* The order of the rows and of the entries of a list is left open, and an *)
(* entry that was visited before, which "visit" returns from at once, is   *)
(* no step.  The tasks that "visiting" has are those of the suspended      *)
(* calls.                                                                  *)
(***************************************************************************)
EXTENDS TaskService, SequencesExt

VARIABLE
    search  \* the running search: the proposed row, the suspended calls of "visit",
            \* the outermost first, and the set "visited"; or NoSearch

checkVars == <<task, search>>

NoSearch == [id |-> "none"]
Searching == search # NoSearch

ListedDependenciesMutant(t) == DependenciesOf(t)

\* dependencies.get(taskId) ?? [], where the proposed row is added to the stored ones
ListedDependencies(t) == IF t = search.id THEN search.dependencies ELSE DependenciesOf(t)

\* dependencies.keys()
Keys == {t \in Tasks : Exists(t)} \cup {search.id}

\* What the loop of the innermost call, or the loop over the rows, has still to visit.
ToVisit ==
    (IF search.calls = <<>> THEN Keys ELSE ListedDependencies(Last(search.calls)))
        \ search.visited

-----------------------------------------------------------------------------
\* create, up to the search
Propose(t, deps) ==
    /\ ~Searching
    /\ ~Exists(t)
    /\ search' = [id |-> t, dependencies |-> deps, calls |-> <<>>, visited |-> {}]
    /\ UNCHANGED task

VisitMutant(t) ==
    /\ Searching
    /\ t \in ToVisit
    /\ ~Contains(search.calls, t)
    /\ search' = [search EXCEPT !.calls = Append(@, t), !.visited = @ \cup {t}]
    /\ UNCHANGED task

\* visit(t): visiting.add(t), and its loop begins
Visit(t) ==
    /\ Searching
    /\ t \in ToVisit
    /\ ~Contains(search.calls, t)
    /\ search' = [search EXCEPT !.calls = Append(@, t)]
    /\ UNCHANGED task

\* visit(t) throws: t is still being visited; create ends and the row is not inserted
Throw(t) ==
    /\ Searching
    /\ t \in ToVisit
    /\ Contains(search.calls, t)
    /\ search' = NoSearch
    /\ UNCHANGED task

\* visiting.delete(t), visited.add(t): the loop of the innermost call is over
Leave ==
    /\ Searching
    /\ search.calls # <<>>
    /\ ToVisit = {}
    /\ search' = [search EXCEPT !.calls = Front(@), !.visited = @ \cup {Last(search.calls)}]
    /\ UNCHANGED task

\* Every row was visited: the search returns and the row is inserted.
Insert ==
    /\ Searching
    /\ search.calls = <<>>
    /\ ToVisit = {}
    /\ Write(search.id, Draft(search.dependencies))
    /\ search' = NoSearch

-----------------------------------------------------------------------------
CheckInit == TaskInit /\ search = NoSearch

\* The operations of TaskService besides create.
OtherOperation ==
    /\ ~Searching
    /\ \E t \in Tasks : Operation(t)
    /\ UNCHANGED search

CheckNext ==
    \/ \E t \in Tasks, deps \in SUBSET Tasks : Propose(t, deps)
    \/ \E t \in Tasks : Visit(t) \/ Throw(t)
    \/ Leave \/ Insert
    \/ OtherOperation

CheckSpec == CheckInit /\ [][CheckNext]_checkVars

-----------------------------------------------------------------------------
\* The search throws only for a proposal that closes a cycle, through dependencies that
\* are not listed yet, shared ones and the task itself, and it returns only for one that
\* closes none; it visits no task twice, so that it ends (#assertNoDependencyCycle).
SearchFindsCycles ==
    Searching =>
        LET cyclic == IntroducesCycle(search.id, search.dependencies)
        IN /\ (\E t \in ToVisit : Contains(search.calls, t)) => cyclic
           /\ search.calls = <<>> /\ ToVisit = {} => ~cyclic
           /\ IsInjective(search.calls)
           /\ \A t \in search.visited : ~Contains(search.calls, t)
=============================================================================
