----------------------- MODULE DependencyCheck_proofs -----------------------
(***************************************************************************)
(* Proofs about DependencyCheck for any set of tasks, finite or not, and   *)
(* any graph: the depth-first search of create accepts exactly the         *)
(* proposals that close no cycle, so that create with its search is the    *)
(* create TaskService has.                                                 *)
(*                                                                         *)
(* A loop is a non-empty set of tasks each of which depends on a member of *)
(* the set; it need not be a simple cycle, and no path is ever named.  The *)
(* search throws only inside one, since the suspended calls depend on each *)
(* other in turn; and no task of a loop is ever visited to the end, since  *)
(* one of the tasks it depends on would have been before it.               *)
(***************************************************************************)
EXTENDS DependencyCheck, TaskService_proofs

\* The graph of the search has the members of S in circles.
Loop(S) == S # {} /\ \A u \in S : S \cap ListedDependencies(u) # {}

SearchType ==
    [id : Tasks, dependencies : SUBSET Tasks, calls : Seq(Tasks), visited : SUBSET Tasks]

\* Each suspended call was made for a dependency of the one before it.
CallsFollowDependencies ==
    \A i \in 1..(Len(search.calls) - 1) :
        search.calls[i + 1] \in ListedDependencies(search.calls[i])

\* No task is visited again, neither while its visit goes on nor afterwards.
VisitedOnce ==
    /\ \A i, j \in 1..Len(search.calls) : search.calls[i] = search.calls[j] => i = j
    /\ \A i \in 1..Len(search.calls) : search.calls[i] \notin search.visited

NoLoopVisited == \A S \in SUBSET Tasks : Loop(S) => S \cap search.visited = {}

SearchInv ==
    Searching =>
        /\ search \in SearchType
        /\ ~Exists(search.id)
        /\ CallsFollowDependencies
        /\ VisitedOnce
        /\ NoLoopVisited

\* The inductive invariant: of the table and of the search.
CheckInv == TaskInv /\ (search \in SearchType \/ search = NoSearch) /\ SearchInv

LEMMA SearchesDiffer == ASSUME search \in SearchType PROVE Searching
  BY DEF SearchType, Searching, NoSearch

\* A cycle is a loop.
LEMMA CycleIsLoop ==
    IntroducesCycle(search.id, search.dependencies) <=> \E S \in SUBSET Tasks : Loop(S)
  BY DEF IntroducesCycle, Loop, ListedDependencies

LEMMA ListedType ==
    ASSUME TaskTypeOK, search \in SearchType, NEW u \in Tasks
    PROVE  ListedDependencies(u) \in SUBSET Tasks
  BY DEF TaskTypeOK, SearchType, ListedDependencies, DependenciesOf, Exists, TaskRecord, NoTask

\* The search that meets a suspended call is inside of a loop.
LEMMA ThrowIsCycle ==
    ASSUME CheckInv, Searching, NEW t \in ToVisit, Contains(search.calls, t)
    PROVE  IntroducesCycle(search.id, search.dependencies)
  <1> DEFINE c == search.calls
  <1>1. /\ search \in SearchType /\ c \in Seq(Tasks) /\ Len(c) \in Nat
        /\ CallsFollowDependencies
    BY DEF CheckInv, SearchInv, SearchType, Searching
  <1>2. PICK k \in 1..Len(c) : c[k] = t
    BY DEF Contains
  <1>3. t \in ListedDependencies(c[Len(c)])
    BY <1>1, <1>2 DEF ToVisit, Last
  <1> DEFINE S == {c[i] : i \in k..Len(c)}
  <1>4. S \in SUBSET Tasks /\ t \in S
    BY <1>1, <1>2
  <1>5. ASSUME NEW i \in k..Len(c) PROVE S \cap ListedDependencies(c[i]) # {}
    <2>1. CASE i = Len(c)
      BY <1>3, <1>4, <2>1
    <2>2. CASE i < Len(c)
      <3>1. i \in 1..(Len(c) - 1) /\ i + 1 \in k..Len(c)
        BY <1>1, <1>2, <2>2
      <3>. QED BY <1>1, <3>1 DEF CallsFollowDependencies
    <2>. QED BY <1>1, <2>1, <2>2
  <1>6. Loop(S)
    BY <1>4, <1>5 DEF Loop
  <1>. QED BY <1>4, <1>6, CycleIsLoop

\* The search that has visited every row has met no loop, and there is none.
LEMMA ReturnIsNoCycle ==
    ASSUME CheckInv, Searching, search.calls = <<>>, ToVisit = {}
    PROVE  ~IntroducesCycle(search.id, search.dependencies)
  <1>1. search \in SearchType /\ NoLoopVisited
    BY DEF CheckInv, SearchInv
  <1>2. Keys \subseteq search.visited
    BY DEF ToVisit
  <1>3. SUFFICES ASSUME NEW S \in SUBSET Tasks, Loop(S) PROVE FALSE
    BY CycleIsLoop
  <1>4. PICK u \in S : S \cap ListedDependencies(u) # {}
    BY <1>3 DEF Loop
  <1>5. u \in Keys
    BY <1>4 DEF ListedDependencies, DependenciesOf, Keys
  <1>. QED BY <1>1, <1>2, <1>3, <1>4, <1>5 DEF NoLoopVisited

-----------------------------------------------------------------------------
(* The invariant, action by action.                                         *)

LEMMA ProposeKeeps ==
    ASSUME CheckInv, NEW t \in Tasks, NEW deps \in SUBSET Tasks, Propose(t, deps)
    PROVE  CheckInv'
  <1>1. /\ search' \in SearchType /\ search'.id = t /\ search'.calls = <<>> /\ search'.visited = {}
        /\ ~Exists(t)' /\ Len(search'.calls) = 0
    BY DEF Propose, SearchType, Exists
  <1>2. TaskInv'
    BY TaskInvStutters DEF CheckInv, Propose
  <1>. QED
    BY <1>1, <1>2 DEF CheckInv, SearchInv, CallsFollowDependencies, VisitedOnce, NoLoopVisited, SearchType

LEMMA VisitKeeps ==
    ASSUME CheckInv, NEW t \in Tasks, Visit(t)
    PROVE  CheckInv'
  <1> DEFINE c == search.calls
             n == Len(c) + 1
  <1>1. /\ search \in SearchType /\ c \in Seq(Tasks) /\ Len(c) \in Nat
        /\ ~Exists(search.id) /\ CallsFollowDependencies /\ VisitedOnce /\ NoLoopVisited
    BY DEF CheckInv, SearchInv, SearchType, Visit
  <1>0. Append(c, t) \in Seq(Tasks)
    BY <1>1
  <1> HIDE DEF n
  <1>2. /\ search' \in SearchType /\ search'.id = search.id /\ search'.visited = search.visited
        /\ search'.dependencies = search.dependencies /\ search'.calls = Append(c, t)
        /\ task' = task
    <2>1. search' = [search EXCEPT !.calls = Append(c, t)] /\ task' = task
      BY DEF Visit
    <2>. QED BY <1>0, <1>1, <2>1 DEF SearchType
  <1> USE DEF n
  <1>3. /\ Len(search'.calls) = n /\ search'.calls[n] = t
        /\ \A i \in 1..Len(c) : search'.calls[i] = c[i]
        /\ \A i \in 1..n : i \in 1..Len(c) \/ i = n
    BY <1>1, <1>2
  <1>4. \A u : ListedDependencies(u)' = ListedDependencies(u)
    BY <1>2 DEF ListedDependencies, DependenciesOf, Exists
  <1>5. t \notin search.visited /\ \A i \in 1..Len(c) : c[i] # t
    BY DEF Visit, ToVisit, Contains
  <1>6. Len(c) > 0 => t \in ListedDependencies(c[Len(c)])
    BY <1>1 DEF Visit, ToVisit, Last
  <1>7. CallsFollowDependencies'
    BY <1>1, <1>3, <1>4, <1>6 DEF CallsFollowDependencies
  <1>8. VisitedOnce'
    BY <1>1, <1>2, <1>3, <1>5 DEF VisitedOnce
  <1>9. NoLoopVisited'
    BY <1>1, <1>2, <1>4 DEF NoLoopVisited, Loop
  <1>10. TaskInv' /\ ~Exists(search.id)'
    BY <1>1, <1>2, TaskInvStutters DEF CheckInv, Exists
  <1>. QED BY <1>2, <1>7, <1>8, <1>9, <1>10 DEF CheckInv, SearchInv

\* A task that is left has only dependencies that were left before it: were it in a loop,
\* so would be one of them.
LEMMA LeaveKeeps ==
    ASSUME CheckInv, Leave
    PROVE  CheckInv'
  <1> DEFINE c == search.calls
             n == Len(c)
             u == c[n]
  <1>1. /\ search \in SearchType /\ c \in Seq(Tasks) /\ n \in Nat /\ n > 0 /\ u \in Tasks
        /\ ~Exists(search.id) /\ CallsFollowDependencies /\ VisitedOnce /\ NoLoopVisited
    BY DEF CheckInv, SearchInv, SearchType, Leave
  <1>2. /\ search' = [search EXCEPT !.calls = SubSeq(c, 1, n - 1), !.visited = @ \cup {u}]
        /\ ListedDependencies(u) \subseteq search.visited
        /\ task' = task
    BY <1>1 DEF Leave, Front, Last, ToVisit
  <1>3. SubSeq(c, 1, n - 1) \in Seq(Tasks)
    BY <1>1
  <1>4. /\ search' \in SearchType /\ search'.id = search.id /\ search'.dependencies = search.dependencies
        /\ search'.calls = SubSeq(c, 1, n - 1) /\ search'.visited = search.visited \cup {u}
    BY <1>1, <1>2, <1>3 DEF SearchType
  <1>5. /\ Len(search'.calls) = n - 1
        /\ \A i \in 1..(n - 1) : search'.calls[i] = c[i]
    BY <1>1, <1>4
  <1>6. \A v : ListedDependencies(v)' = ListedDependencies(v)
    BY <1>2, <1>4 DEF ListedDependencies, DependenciesOf, Exists
  <1>7. CallsFollowDependencies'
    BY <1>1, <1>5, <1>6 DEF CallsFollowDependencies
  <1>8. VisitedOnce'
    <2>1. 1..(n - 1) \subseteq 1..n /\ n \in 1..n /\ \A i \in 1..(n - 1) : i # n
      BY <1>1
    <2>2. \A i, j \in 1..(n - 1) : search'.calls[i] = search'.calls[j] => i = j
      BY <1>1, <1>5, <2>1 DEF VisitedOnce
    <2>3. \A i \in 1..(n - 1) : search'.calls[i] \notin search'.visited
      BY <1>1, <1>4, <1>5, <2>1 DEF VisitedOnce
    <2>. QED BY <1>5, <2>2, <2>3 DEF VisitedOnce
  <1>9. NoLoopVisited'
    <2>1. SUFFICES ASSUME NEW S \in SUBSET Tasks, Loop(S) PROVE S \cap search'.visited = {}
      BY <1>6 DEF NoLoopVisited, Loop
    <2>2. S \cap search.visited = {}
      BY <1>1, <2>1 DEF NoLoopVisited
    <2>3. u \notin S
      BY <1>2, <2>1, <2>2 DEF Loop
    <2>. QED BY <1>4, <2>2, <2>3
  <1>10. TaskInv' /\ ~Exists(search.id)'
    BY <1>1, <1>2, <1>4, TaskInvStutters DEF CheckInv, Exists
  <1>. QED BY <1>4, <1>7, <1>8, <1>9, <1>10 DEF CheckInv, SearchInv

\* What create inserts after its search, the create of TaskService would insert.
LEMMA InsertIsCreate ==
    ASSUME CheckInv, Insert
    PROVE  search.id \in Tasks /\ Create(search.id, search.dependencies)
                /\ search.dependencies \in SUBSET Tasks
  <1>1. search \in SearchType /\ ~Exists(search.id)
    BY DEF CheckInv, SearchInv, Insert
  <1>2. ~IntroducesCycle(search.id, search.dependencies)
    BY ReturnIsNoCycle DEF Insert
  <1>. QED BY <1>1, <1>2 DEF SearchType, Create, Insert

LEMMA CheckStep ==
    ASSUME CheckInv, [CheckNext]_checkVars
    PROVE  CheckInv' /\ [TaskNext]_task
  <1>1. CASE \E t \in Tasks, deps \in SUBSET Tasks : Propose(t, deps)
    BY <1>1, ProposeKeeps DEF Propose
  <1>2. CASE \E t \in Tasks : Visit(t)
    BY <1>2, VisitKeeps DEF Visit
  <1>3. CASE \E t \in Tasks : Throw(t)
    <2>1. task' = task /\ search' = NoSearch
      BY <1>3 DEF Throw
    <2>. QED BY <2>1, TaskInvStutters DEF CheckInv, SearchInv, Searching
  <1>4. CASE Leave
    BY <1>4, LeaveKeeps DEF Leave
  <1>5. CASE Insert
    <2>1. TaskNext
      BY <1>5, InsertIsCreate DEF TaskNext
    <2>2. TaskInv'
      BY <2>1, EveryStepIsRowStep, RowStepKeepsInv DEF CheckInv
    <2>. QED BY <1>5, <2>1, <2>2 DEF Insert, CheckInv, SearchInv, Searching
  <1>6. CASE OtherOperation
    <2>1. TaskNext /\ search' = NoSearch
      BY <1>6 DEF OtherOperation, TaskNext, Searching
    <2>2. TaskInv'
      BY <2>1, EveryStepIsRowStep, RowStepKeepsInv DEF CheckInv
    <2>. QED BY <2>1, <2>2 DEF CheckInv, SearchInv, Searching
  <1>7. CASE UNCHANGED checkVars
    <2>1. task' = task /\ search' = search
      BY <1>7 DEF checkVars
    <2>. QED
      BY <2>1, TaskInvStutters DEF CheckInv, SearchInv, Searching, Exists, CallsFollowDependencies,
         VisitedOnce, NoLoopVisited, Loop, ListedDependencies, DependenciesOf
  <1>. QED BY <1>1, <1>2, <1>3, <1>4, <1>5, <1>6, <1>7 DEF CheckNext

LEMMA CheckInitInv == CheckInit => CheckInv
  BY TaskInitInv DEF CheckInit, CheckInv, SearchInv, Searching

-----------------------------------------------------------------------------
(* The theorems.                                                            *)

\* The table and the running search stay consistent: the suspended calls are a path of
\* the graph, no task is visited twice, and no task of a loop is visited to its end.
THEOREM CheckInvariant == CheckSpec => []CheckInv
  <1>. QED BY CheckInitInv, CheckStep, PTL DEF CheckSpec

\* The search of create is right for every graph: it throws only for a proposal that
\* closes a cycle, it returns only for one that closes none, and it visits no task twice.
THEOREM SearchIsRight == CheckSpec => []SearchFindsCycles
  <1>1. CheckInv => SearchFindsCycles
    <2> SUFFICES ASSUME CheckInv, Searching
                 PROVE  LET cyclic == IntroducesCycle(search.id, search.dependencies)
                        IN /\ (\E t \in ToVisit : Contains(search.calls, t)) => cyclic
                           /\ search.calls = <<>> /\ ToVisit = {} => ~cyclic
                           /\ IsInjective(search.calls)
                           /\ \A t \in search.visited : ~Contains(search.calls, t)
      BY DEF SearchFindsCycles
    <2>1. search.calls \in Seq(Tasks) /\ VisitedOnce
      BY DEF CheckInv, SearchInv, SearchType
    <2>2. IsInjective(search.calls)
      BY <2>1 DEF VisitedOnce, IsInjective
    <2>3. \A t \in search.visited : ~Contains(search.calls, t)
      BY <2>1 DEF VisitedOnce, Contains
    <2>. QED BY <2>2, <2>3, ThrowIsCycle, ReturnIsNoCycle
  <1>. QED BY <1>1, CheckInvariant, PTL

\* create with its search is the create of TaskService, so that every invariant of the
\* table holds of the code's search, too.
THEOREM CheckImplementsTaskService == CheckSpec => TaskSpec
  <1>1. CheckInit => TaskInit
    BY DEF CheckInit
  <1>2. CheckInv /\ [CheckNext]_checkVars => [TaskNext]_task
    BY CheckStep
  <1>. QED BY <1>1, <1>2, CheckInvariant, PTL DEF CheckSpec, TaskSpec

=============================================================================
