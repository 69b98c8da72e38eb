---------------------------- MODULE Orchestrator ----------------------------
(***************************************************************************)
(* CompanyOrchestrator (packages/core/src/company/orchestrator.ts) at work *)
(* on the task table of TaskService, with the employee locks of            *)
(* SessionManager and the policy of ActionPolicy.                          *)
(*                                                                         *)
(* The Core is one JavaScript thread.  A "thread" below is a chain of      *)
(* suspended async calls: sendTask of one task, a recovered review, or the *)
(* dispatch of one client request.  Its stack holds one frame for every    *)
(* sessions.send it is inside of: the frame of sendTask at the bottom, the *)
(* review or the employee message its agent asked for above it.  Only the  *)
(* top frame runs; the frames below keep the lock of their employee.       *)
(*                                                                         *)
(* An action runs from one await to the next, except that a step that      *)
(* writes the table twice is split where the process could die between the *)
(* two transactions: "pending" names the second half, and nothing but a    *)
(* crash can come in between.                                              *)
(***************************************************************************)
EXTENDS TaskService, SequencesExt

CONSTANTS
    Reviewer,           \* reviewerId, the only member of reviewerIds
    MaxParallelTasks,   \* limits.maxParallelTasks
    Threads,            \* bound of the model: numbers of the concurrent calls
    MaxDepth,           \* bound of the model: frames of one call
    MaxEpoch,           \* bound of the model: number of pauses
    ClientActions,      \* action types the clients dispatch
    AgentActions,       \* action types the agents propose
    Faults              \* what goes wrong, see FaultKinds

ActionTypes ==
    {"task.propose", "task.assign", "task.start", "task.submit", "task.request_review",
     "task.approve", "task.reject", "task.block", "employee.message"}

\* exit: a session exits or its adapter reports an error; refused: an agent proposes
\* something malformed or forbidden; replace: resuming a session fails; pause: the
\* company is paused and recovered; crash: the Core dies and is started again.
FaultKinds == {"exit", "refused", "replace", "pause", "crash"}

\* the map #inFlight has no entry
NoThread == 0

ASSUME OrchestratorAssumption ==
    /\ Reviewer \in Employees
    /\ MaxParallelTasks \in Nat \ {0}
    /\ Threads \subseteq Nat \ {NoThread} /\ IsFiniteSet(Threads)
    /\ MaxDepth \in Nat /\ MaxEpoch \in Nat
    /\ ClientActions \subseteq ActionTypes /\ AgentActions \subseteq ActionTypes
    /\ Faults \subseteq FaultKinds

VARIABLES
    accepting,   \* #acceptingActions
    epoch,       \* #dispatchEpoch; a signal is aborted when its epoch is over
    inFlight,    \* #inFlight: the thread whose promise is stored for a task
    reviewTail,  \* #reviewRecoveryTail: recovered reviews, one after the other
    thread,      \* the async calls
    queue,       \* #sendTails: <<thread, depth>> of the holder and of the waiters
    session,     \* is there a usable session of the employee
    pending,     \* second transaction of the running step
    asked,       \* tasks with a recorded user.approval.requested since their start
    lifecycle    \* status of the company: "running", "pausing" or "paused"

core == <<accepting, epoch, inFlight, reviewTail, thread, queue, session, pending>>
vars == <<task, core, asked, lifecycle>>

Client == -1
Nothing == [step |-> "nothing"]
Idle == [kind |-> "idle", task |-> "none", stack |-> <<>>]

Frame(op, t, e) ==
    [op |-> op, task |-> t, emp |-> e, epoch |-> epoch, pc |-> "lock", decided |-> FALSE]

Top(th) == Last(thread[th].stack)
Depth(th) == Len(thread[th].stack)
Active(th) == Depth(th) > 0
At(th, op, pc) == Active(th) /\ Top(th).op = op /\ Top(th).pc = pc
StaleMutant(th) == FALSE

\* epoch !== #dispatchEpoch
Stale(th) == Top(th).epoch # epoch
Free == {th \in Threads : thread[th].kind = "idle"}
NextFree == CHOOSE th \in Free : \A other \in Free : th <= other

HasRunningCapacityMutant ==
    Cardinality({t \in Tasks : task[t].status = "running"}) <= MaxParallelTasks

\* #hasRunningCapacity
HasRunningCapacity ==
    Cardinality({t \in Tasks : task[t].status = "running"}) < MaxParallelTasks

AskMutant(t) == asked

\* #recordApprovalRequest, #recordCapacityApproval
Ask(t) == asked \cup {t}

-----------------------------------------------------------------------------
(* Locks, and returning from the frames of a call.                          *)

WithTop(th, frame) == [thread EXCEPT ![th].stack = Append(Front(@), frame)]

ReleasedMutant(th) == [queue EXCEPT ![Top(th).emp] = IF Top(th).op = "review" THEN @ ELSE Tail(@)]

\* release() of the lock the top frame holds
Released(th) == [queue EXCEPT ![Top(th).emp] = Tail(@)]
Holds(th) == queue[Top(th).emp] # <<>> /\ Head(queue[Top(th).emp]) = <<th, Depth(th)>>

Enqueued(q, e, th, depth) == [q EXCEPT ![e] = Append(@, <<th, depth>>)]

\* The call is over: finally { inFlight.delete } of #startInFlight and recoverWork.
End(th) ==
    /\ thread' = [thread EXCEPT ![th] = Idle]
    /\ inFlight' = [t \in Tasks |-> IF inFlight[t] = th THEN NoThread ELSE inFlight[t]]
    /\ reviewTail' = RemoveFirst(reviewTail, th)

\* The top frame returns, or throws, to the dispatch of the frame below it.
Pop(th, outcome) ==
    IF Depth(th) = 1 THEN End(th)
    ELSE LET below == thread[th].stack[Depth(th) - 1]
             pc    == IF outcome = "ok" THEN "stream" ELSE "failed"
         IN /\ thread' = [thread EXCEPT
                ![th].stack = Append(SubSeq(@, 1, Depth(th) - 2), [below EXCEPT !.pc = pc])]
            /\ UNCHANGED <<inFlight, reviewTail>>

\* The dispatch for a caller succeeded: its frame goes on reading its stream.
Succeeded(c, decided) ==
    IF c = Client THEN thread
    ELSE WithTop(c, [Top(c) EXCEPT !.pc = "stream", !.decided = @ \/ decided])

Failed(c) == IF c = Client THEN thread ELSE WithTop(c, [Top(c) EXCEPT !.pc = "failed"])

\* The dispatch enters another sessions.send: it queues for the lock at once.
Enter(c, frame, decided) ==
    IF c = Client
    THEN /\ Free # {}
         /\ thread' = [thread EXCEPT ![NextFree] =
                         [kind |-> "client", task |-> frame.task, stack |-> <<frame>>]]
         /\ queue' = Enqueued(queue, frame.emp, NextFree, 1)
    ELSE /\ Depth(c) < MaxDepth
         /\ thread' = [thread EXCEPT ![c].stack =
                         Append(Append(Front(@), [Top(c) EXCEPT !.pc = "dispatch",
                                                                !.decided = @ \/ decided]),
                                frame)]
         /\ queue' = Enqueued(queue, frame.emp, c, Depth(c) + 1)

-----------------------------------------------------------------------------
(* dispatch: what a proposed action does.  "c" is the thread whose agent    *)
(* proposed it, or Client.                                                  *)

\* ActionPolicy.validate
Permitted(type, actor) ==
    /\ type \in {"task.propose", "task.assign"} => actor = Leader
    /\ type \in {"task.approve", "task.reject"} => actor = Reviewer

\* Free # {} is the bound of the model on concurrent calls, here and in Enter.
StartNext(c, t, actor, decided) ==
    /\ Free # {}
    /\ pending' = [step |-> "start", caller |-> c, task |-> t, actor |-> actor]
    /\ thread' = IF c = Client THEN thread
                 ELSE WithTop(c, [Top(c) EXCEPT !.pc = "dispatch", !.decided = @ \/ decided])

CreateProposedTask(c, t, deps) ==
    /\ Create(t, deps)
    /\ thread' = Succeeded(c, FALSE)
    /\ UNCHANGED <<accepting, epoch, inFlight, reviewTail, queue, session, pending, asked>>

AssignAndSend(c, t, e) ==
    /\ Assign(t, e)
    /\ StartNext(c, t, e, FALSE)
    /\ UNCHANGED <<accepting, epoch, inFlight, reviewTail, queue, session, asked>>

\* #recordSubmissionAndRequestReview: the review runs inside the owner's turn.
RecordSubmissionAndRequestReview(c, t, actor) ==
    /\ Submit(t, actor, TRUE, TRUE)
    /\ Enter(c, Frame("review", t, Reviewer), TRUE)
    /\ UNCHANGED <<accepting, epoch, inFlight, reviewTail, session, pending, asked>>

Approve(c, t, actor) ==
    /\ Transition(t, "completed", actor)
    /\ thread' = Succeeded(c, TRUE)
    /\ UNCHANGED <<accepting, epoch, inFlight, reviewTail, queue, session, pending, asked>>

\* #rejectAndMaybeRequeue: the requeued task starts in a second transaction.  A task
\* without an owner stays "ready" and the dispatch fails.
RejectAndMaybeRequeue(c, t, actor) ==
    /\ Reject(t, actor)
    /\ IF task'[t].status = "blocked"
       THEN /\ asked' = Ask(t) /\ thread' = Succeeded(c, TRUE) /\ UNCHANGED pending
       ELSE IF task[t].owner = Nobody
       THEN thread' = Failed(c) /\ UNCHANGED <<asked, pending>>
       ELSE StartNext(c, t, task[t].owner, TRUE) /\ UNCHANGED asked
    /\ UNCHANGED <<accepting, epoch, inFlight, reviewTail, queue, session>>

StartTask(c, t, actor) ==
    /\ Exists(t) /\ task[t].owner = actor
    /\ StartNext(c, t, actor, FALSE)
    /\ UNCHANGED <<task, accepting, epoch, inFlight, reviewTail, queue, session, asked>>

RequestReview(c, t) ==
    /\ Exists(t)
    /\ Enter(c, Frame("review", t, Reviewer), FALSE)
    /\ UNCHANGED <<task, accepting, epoch, inFlight, reviewTail, session, pending, asked>>

BlockTask(c, t, actor) ==
    /\ Transition(t, "blocked", actor)
    /\ thread' = Succeeded(c, FALSE)
    /\ UNCHANGED <<accepting, epoch, inFlight, reviewTail, queue, session, pending, asked>>

\* #routeEmployeeMessage
RouteEmployeeMessage(c, t, recipient) ==
    /\ Enter(c, Frame("message", t, recipient), FALSE)
    /\ UNCHANGED <<task, accepting, epoch, inFlight, reviewTail, session, pending, asked>>

Dispatch(c, type, t, actor) ==
    /\ accepting /\ Permitted(type, actor)
    /\ \/ type = "task.propose" /\ \E deps \in SUBSET Tasks : CreateProposedTask(c, t, deps)
       \/ type = "task.assign" /\ \E e \in Employees : AssignAndSend(c, t, e)
       \/ type = "task.start" /\ StartTask(c, t, actor)
       \/ type = "task.submit" /\ RecordSubmissionAndRequestReview(c, t, actor)
       \/ type = "task.request_review" /\ RequestReview(c, t)
       \/ type = "task.approve" /\ Approve(c, t, actor)
       \/ type = "task.reject" /\ RejectAndMaybeRequeue(c, t, actor)
       \/ type = "task.block" /\ BlockTask(c, t, actor)
       \/ type = "employee.message" /\ \E e \in Employees : RouteEmployeeMessage(c, t, e)

ClientDispatches ==
    /\ pending = Nothing
    /\ \E type \in ClientActions, t \in Tasks, actor \in Employees :
           Dispatch(Client, type, t, actor)
    /\ UNCHANGED lifecycle


Startable(t, actor) == LegalTransition(t, "running") /\ StartPermitted(t, actor)

\* #startReadyTask: "ready" -> "running" and a flight of its own, or a question.
StartReady ==
    LET c == pending.caller
        t == pending.task
    IN /\ pending.step = "start"
       /\ pending' = Nothing
       /\ IF ~HasRunningCapacity
          THEN /\ asked' = Ask(t)
               /\ thread' = Succeeded(c, FALSE)
               /\ UNCHANGED <<task, inFlight, queue>>
          ELSE \/ /\ Transition(t, "running", pending.actor)
                  /\ LET frame == Frame("send", t, task[t].owner)
                     IN /\ thread' = [Succeeded(c, FALSE) EXCEPT ![NextFree] =
                                        [kind |-> "flight", task |-> t, stack |-> <<frame>>]]
                        /\ queue' = Enqueued(queue, frame.emp, NextFree, 1)
                  /\ inFlight' = [inFlight EXCEPT ![t] = NextFree]
                  /\ asked' = asked \ {t}
               \/ /\ ~Startable(t, pending.actor)
                  /\ thread' = Failed(c)
                  /\ UNCHANGED <<task, inFlight, queue, asked>>
       /\ UNCHANGED <<accepting, epoch, reviewTail, session, lifecycle>>

-----------------------------------------------------------------------------
(* sendTask, requestReview and #routeEmployeeMessage: one turn of an agent. *)

SettleFlightMutant(th) == End(th) /\ UNCHANGED <<task, pending>>

\* After the stream of sendTask: the task is still running only if nothing ended it.
SettleFlight(th) ==
    LET t == Top(th).task
    IN IF Stale(th) \/ task[t].status # "running"
       THEN End(th) /\ UNCHANGED <<task, pending>>
       ELSE /\ Transition(t, "failed", Top(th).emp)
            /\ pending' = [step |-> "retry", caller |-> th, task |-> t, actor |-> Leader]
            /\ UNCHANGED <<thread, inFlight, reviewTail>>

\* retry, and what becomes of the task: the user is asked, or the session is resumed.
RetryFlight ==
    LET th == pending.caller
        t  == pending.task
        e  == Top(th).emp
    IN /\ pending.step = "retry"
       /\ pending' = Nothing
       /\ Retry(t, pending.actor)
       /\ IF task'[t].status = "blocked" \/ ~HasRunningCapacity
          THEN asked' = Ask(t) /\ End(th) /\ UNCHANGED queue
          ELSE /\ thread' = WithTop(th, [Top(th) EXCEPT !.pc = "resume"])
               /\ queue' = Enqueued(queue, e, th, 1)
               /\ UNCHANGED <<asked, inFlight, reviewTail>>
       /\ UNCHANGED <<accepting, epoch, session, lifecycle>>

\* The lock is granted.  The message is delivered even when the dispatch was stopped
\* while it waited: the signal is only looked at when the agent answers.
Acquire(th) ==
    /\ Active(th) /\ Top(th).pc = "lock" /\ Holds(th)
    /\ IF session[Top(th).emp]
       THEN /\ thread' = WithTop(th, [Top(th) EXCEPT !.pc = "stream"])
            /\ UNCHANGED <<task, queue, inFlight, reviewTail, pending>>
       ELSE /\ queue' = Released(th)
            /\ IF Top(th).op = "send" THEN SettleFlight(th)
               ELSE Pop(th, "error") /\ UNCHANGED <<task, pending>>
    /\ UNCHANGED <<accepting, epoch, session, asked, lifecycle>>

\* The agent's stream ends, or the next event of a stopped dispatch is dropped.
TurnEnds(th) ==
    /\ Active(th) /\ Top(th).pc = "stream"
    /\ queue' = Released(th)
    /\ IF Top(th).op = "send" THEN SettleFlight(th)
       ELSE Pop(th, "ok") /\ UNCHANGED <<task, pending>>
    /\ asked' = IF /\ Top(th).op = "review" /\ ~Stale(th) /\ ~Top(th).decided
                   /\ task[Top(th).task].status = "review"
                THEN Ask(Top(th).task) ELSE asked
    /\ UNCHANGED <<accepting, epoch, session, lifecycle>>

\* session.exited or adapter.error: the session is unusable until it is replaced.
SessionExits(th) ==
    /\ "exit" \in Faults
    /\ Active(th) /\ Top(th).pc = "stream" /\ ~Stale(th)
    /\ session' = [session EXCEPT ![Top(th).emp] = FALSE]
    /\ queue' = Released(th)
    /\ IF Top(th).op = "send" THEN SettleFlight(th)
       ELSE Pop(th, "ok") /\ UNCHANGED <<task, pending>>
    /\ asked' = IF Top(th).op = "review" THEN Ask(Top(th).task) ELSE asked
    /\ UNCHANGED <<accepting, epoch, lifecycle>>

\* action.proposed, in the agent's own name.  The agent of a task may only act on it,
\* a reviewer may only decide on it; a colleague's answer is dispatched as it comes.
AgentProposes(th) ==
    /\ Active(th) /\ Top(th).pc = "stream" /\ ~Stale(th)
    /\ \E type \in AgentActions, t \in Tasks :
           /\ Top(th).op \in {"send", "review"} => t = Top(th).task
           /\ Top(th).op = "review" => type \in {"task.approve", "task.reject"}
           /\ Dispatch(th, type, t, Top(th).emp)
    /\ UNCHANGED lifecycle

\* A proposal the dispatch throws on: malformed, forbidden or illegal at this time.
ProposalRefused(th) ==
    /\ "refused" \in Faults
    /\ Active(th) /\ Top(th).pc = "stream" /\ ~Stale(th)
    /\ thread' = WithTop(th, [Top(th) EXCEPT !.pc = "failed"])
    /\ UNCHANGED <<task, accepting, epoch, inFlight, reviewTail, queue, session, pending,
                   asked, lifecycle>>

\* The frame handles the exception of the dispatch it awaited.
HandleFailure(th) ==
    /\ Active(th) /\ Top(th).pc = "failed"
    /\ queue' = Released(th)
    /\ CASE Top(th).op = "send"    -> SettleFlight(th)
         [] Top(th).op = "review"  -> Pop(th, "ok") /\ UNCHANGED <<task, pending>>
         [] Top(th).op = "message" -> Pop(th, "error") /\ UNCHANGED <<task, pending>>
    /\ asked' = IF Top(th).op = "review" /\ ~Stale(th)
                THEN Ask(Top(th).task) ELSE asked
    /\ UNCHANGED <<accepting, epoch, session, lifecycle>>

-----------------------------------------------------------------------------
(* The retry of sendTask: resumeOne, else rebuildOne, then the next turn.   *)

\* The session is there again.  The free slot may be gone by now, and so may the
\* task: started by somebody else, its transition throws and the flight ends.
StartAgain(th) ==
    LET t == Top(th).task
        e == Top(th).emp
    IN IF ~HasRunningCapacity
       THEN /\ asked' = Ask(t) /\ queue' = Released(th) /\ End(th)
            /\ UNCHANGED task
       ELSE IF ~Startable(t, e)
       THEN queue' = Released(th) /\ End(th) /\ UNCHANGED <<task, asked>>
       ELSE /\ Transition(t, "running", e)
            /\ asked' = asked \ {t}
            /\ thread' = WithTop(th, Frame("send", t, e))
            /\ queue' = Enqueued(Released(th), e, th, 1)
            /\ UNCHANGED <<inFlight, reviewTail>>

Replacing(th) == Active(th) /\ Top(th).pc \in {"resume", "rebuild"} /\ Holds(th)

SessionReplaced(th) ==
    /\ Replacing(th) /\ ~Stale(th)
    /\ session' = [session EXCEPT ![Top(th).emp] = TRUE]
    /\ StartAgain(th)
    /\ UNCHANGED <<accepting, epoch, pending, lifecycle>>

\* A failed resume queues for the lock again to rebuild; a failed rebuild, or a
\* replacement that cannot be cleaned up, leaves the task to the user.
ReplacementFails(th) ==
    /\ "replace" \in Faults
    /\ Replacing(th) /\ ~Stale(th)
    /\ \/ /\ Top(th).pc = "resume"
          /\ thread' = WithTop(th, [Top(th) EXCEPT !.pc = "rebuild"])
          /\ queue' = Enqueued(Released(th), Top(th).emp, th, 1)
          /\ UNCHANGED <<inFlight, reviewTail, asked>>
       \/ /\ asked' = Ask(Top(th).task)
          /\ queue' = Released(th)
          /\ End(th)
    /\ UNCHANGED <<task, accepting, epoch, session, pending, lifecycle>>

\* The dispatch was stopped meanwhile: the replacement is refused, or stopped again.
ReplacementAborted(th) ==
    /\ Replacing(th) /\ Stale(th)
    /\ queue' = Released(th)
    /\ End(th)
    /\ UNCHANGED <<task, accepting, epoch, session, pending, asked, lifecycle>>

-----------------------------------------------------------------------------
(* Pause, recovery and the death of the Core, as far as they concern the    *)
(* orchestrator (CheckpointService.#suspend and #recover call it).          *)

\* A recovered review waits for the one before it (pc "chain").
StartRecoveredReview(th) ==
    /\ At(th, "review", "chain") /\ Head(reviewTail) = th
    /\ IF Stale(th) THEN End(th) /\ UNCHANGED queue
       ELSE /\ thread' = WithTop(th, [Top(th) EXCEPT !.pc = "lock"])
            /\ queue' = Enqueued(queue, Reviewer, th, 1)
            /\ UNCHANGED <<inFlight, reviewTail>>
    /\ UNCHANGED <<task, accepting, epoch, session, pending, asked, lifecycle>>

\* stopDispatching, and the status "pausing".
PauseBegin ==
    /\ "pause" \in Faults
    /\ lifecycle = "running" /\ epoch < MaxEpoch
    /\ accepting' = FALSE
    /\ epoch' = epoch + 1
    /\ lifecycle' = "pausing"
    /\ UNCHANGED <<task, inFlight, reviewTail, thread, queue, session, pending, asked>>

\* quiesce is over, because nothing is in flight or because its time is up; the
\* checkpoint is committed and the sessions are stopped.
PauseDone ==
    /\ lifecycle = "pausing"
    /\ lifecycle' = "paused"
    /\ session' = [e \in Employees |-> FALSE]
    /\ UNCHANGED <<task, accepting, epoch, inFlight, reviewTail, thread, queue, pending, asked>>

\* #recover has stopped the dispatching again and replaced the session of every
\* employee, which took every lock in turn, so the calls of before are over; then
\* resumeDispatching and recoverWork.
Recover ==
    LET running == {t \in Tasks : task[t].status = "running"}
        review  == {t \in Tasks : task[t].status = "review"}
        slot    == CHOOSE f \in [running \cup review -> Threads] : IsInjective(f)
        At1(frame) == [frame EXCEPT !.epoch = epoch + 1]
    IN /\ lifecycle = "paused" /\ epoch < MaxEpoch
       /\ Free = Threads /\ Cardinality(running \cup review) <= Cardinality(Threads)
       /\ lifecycle' = "running"
       /\ epoch' = epoch + 1
       /\ accepting' = TRUE
       /\ session' = [e \in Employees |-> TRUE]
       /\ inFlight' = [t \in Tasks |-> IF t \in running \cup review THEN slot[t] ELSE NoThread]
       /\ thread' = [th \in Threads |->
            IF \E t \in running : slot[t] = th
            THEN LET t == CHOOSE t \in running : slot[t] = th
                 IN [kind |-> "flight", task |-> t,
                     stack |-> <<At1(Frame("send", t, task[t].owner))>>]
            ELSE IF \E t \in review : slot[t] = th
            THEN LET t == CHOOSE t \in review : slot[t] = th
                 IN [kind |-> "review", task |-> t,
                     stack |-> <<[At1(Frame("review", t, Reviewer)) EXCEPT !.pc = "chain"]>>]
            ELSE Idle]
       /\ queue' = [e \in Employees |->
            SetToSeq({<<slot[t], 1>> : t \in {u \in running : task[u].owner = e}})]
       /\ reviewTail' = SetToSeq({slot[t] : t \in review})
       /\ UNCHANGED <<task, pending, asked>>

\* The Core dies, also between two transactions of one step.  The new process finds
\* the tables; it serves requests, but it does not dispatch until a recovery, which
\* needs a pause first (recoverLatest).
Crash ==
    /\ "crash" \in Faults
    /\ accepting' = FALSE
    /\ epoch' = 0
    /\ inFlight' = [t \in Tasks |-> NoThread]
    /\ reviewTail' = <<>>
    /\ thread' = [th \in Threads |-> Idle]
    /\ queue' = [e \in Employees |-> <<>>]
    /\ session' = [e \in Employees |-> FALSE]
    /\ pending' = Nothing
    /\ UNCHANGED <<task, asked, lifecycle>>

-----------------------------------------------------------------------------
Init ==
    /\ TaskInit
    /\ accepting = TRUE /\ epoch = 0
    /\ inFlight = [t \in Tasks |-> NoThread]
    /\ reviewTail = <<>>
    /\ thread = [th \in Threads |-> Idle]
    /\ queue = [e \in Employees |-> <<>>]
    /\ session = [e \in Employees |-> TRUE]
    /\ pending = Nothing
    /\ asked = {}
    /\ lifecycle = "running"

\* What the Core does by itself, or an agent that answers.
ThreadStep(th) ==
    /\ pending = Nothing
    /\ \/ Acquire(th) \/ TurnEnds(th) \/ SessionExits(th)
       \/ AgentProposes(th) \/ ProposalRefused(th) \/ HandleFailure(th)
       \/ SessionReplaced(th) \/ ReplacementFails(th) \/ ReplacementAborted(th)
       \/ StartRecoveredReview(th)

Next ==
    \/ StartReady \/ RetryFlight
    \/ \E th \in Threads : ThreadStep(th)
    \/ pending = Nothing /\ (ClientDispatches \/ PauseBegin \/ PauseDone \/ Recover)
    \/ Crash

Spec == Init /\ [][Next]_vars

\* Promises that can be settled are settled, and every turn of an agent ends some
\* day (the adapter ends the stream after the answer or when its process exits).
\* Strong fairness: the event loop takes ready continuations in order, so the steps of
\* other calls do not starve one that is ready time and again.
Progress(th) ==
    /\ pending = Nothing
    /\ \/ Acquire(th) \/ TurnEnds(th) \/ HandleFailure(th)
       \/ SessionReplaced(th) \/ ReplacementAborted(th) \/ StartRecoveredReview(th)

Fairness ==
    /\ WF_vars(StartReady \/ RetryFlight)
    /\ \A th \in Threads : SF_vars(Progress(th))

FairSpec == Spec /\ Fairness

-----------------------------------------------------------------------------
(* Properties.                                                              *)

FrameType ==
    [op : {"send", "review", "message"}, task : Tasks, emp : Employees, epoch : 0..MaxEpoch,
     pc : {"chain", "lock", "stream", "dispatch", "failed", "resume", "rebuild"},
     decided : BOOLEAN]

Waiting == {"lock", "resume", "rebuild"}

\* The lock queues of SessionManager and the suspended calls agree: whoever is past
\* its lock holds it, nobody waits twice, and no finished call left its lock behind.
LocksMatchCalls ==
    pending = Nothing =>
        /\ \A e \in Employees : \A i \in 1..Len(queue[e]) :
              LET th == queue[e][i][1]
                  d  == queue[e][i][2]
              IN /\ d <= Depth(th) /\ thread[th].stack[d].emp = e
                 /\ \A j \in 1..Len(queue[e]) : queue[e][j] = queue[e][i] => j = i
        /\ \A th \in Threads : \A d \in 1..Depth(th) :
              LET frame == thread[th].stack[d]
                  line  == queue[frame.emp]
              IN CASE frame.pc = "chain"     -> TRUE
                   [] frame.pc \in Waiting -> Contains(line, <<th, d>>)
                   [] OTHER -> line # <<>> /\ Head(line) = <<th, d>>

\* Every variable has its type, a call that is over has no frames left, and the locks
\* agree with the calls, however turns, messages and retries are nested (#acquire).
OrchTypeOK ==
    /\ TaskTypeOK
    /\ accepting \in BOOLEAN /\ epoch \in 0..MaxEpoch
    /\ inFlight \in [Tasks -> Threads \cup {NoThread}]
    /\ \A i \in 1..Len(reviewTail) : reviewTail[i] \in Threads
    /\ \A th \in Threads :
          /\ thread[th].kind \in {"idle", "flight", "client", "review"}
          /\ thread[th].task \in Tasks \cup {"none"}
          /\ (thread[th].kind = "idle") = (Depth(th) = 0)
          /\ \A d \in 1..Depth(th) : thread[th].stack[d] \in FrameType
    /\ DOMAIN queue = Employees
    /\ session \in [Employees -> BOOLEAN]
    /\ pending = Nothing \/ pending.step \in {"start", "retry"}
    /\ asked \subseteq Tasks
    /\ lifecycle \in {"running", "pausing", "paused"}
    /\ LocksMatchCalls

Running == {t \in Tasks : task[t].status = "running"}

\* maxParallelTasks holds however assignments, rework, retries whose slot was taken
\* while their session was resumed, and recoveries interleave (#hasRunningCapacity).
CapacityRespected == Cardinality(Running) <= MaxParallelTasks

\* While the Core dispatches, every running task is driven by a sendTask of the
\* current epoch: no rejection, retry, pause or crash leaves work that nobody waits
\* for (startInFlight, sendTask, recoverWork).
RunningWorkIsDriven ==
    accepting => \A t \in Running : \E th \in Threads :
        /\ Active(th)
        /\ thread[th].stack[1].op = "send" /\ thread[th].stack[1].task = t
        /\ thread[th].stack[1].epoch = epoch

\* From stopDispatching to resumeDispatching no late answer, retry or review of the
\* stopped epoch touches a task (the epoch checks of sendTask and requestReview).
NothingChangesWhileStopped == [][~accepting => task' = task]_vars

AtRest == accepting /\ pending = Nothing /\ Free = Threads

\* When nothing is in flight any more and no session was lost, the user was asked about
\* every task that waits for a review or that is blocked (the approval requests of sendTask,
\* requestReview and rejectAndMaybeRequeue).
NothingWaitsInSilence ==
    AtRest /\ (\A e \in Employees : session[e]) =>
        \A t \in Tasks : task[t].status \in {"review", "blocked"} => t \in asked

\* Running work is submitted, blocked or failed in the end, or the dispatch stops.
WorkSettles ==
    \A t \in Tasks : task[t].status = "running" ~> (task[t].status # "running" \/ ~accepting)

-----------------------------------------------------------------------------
(* What the documents say and the code does not do.                         *)

\* docs/superpowers/specs/2026-07-27-agenttown-headless-mvp-design.md:594 says that
\* there is no infinite wait.  Two employees whose agents write to each other hold
\* their own lock and wait for the other's (routeEmployeeMessage inside send).
NoCircularWait ==
    ~\E S \in SUBSET Threads :
        /\ S # {}
        /\ \A th \in S : /\ Active(th) /\ Top(th).pc \in Waiting
                         /\ ~Holds(th) /\ Head(queue[Top(th).emp])[1] \in S

\* docs/superpowers/plans/2026-07-27-agenttown-p1a-core-fake-company.md:1673 says what
\* counts as an execution failure: adapter.error and a premature exit.  The flight whose
\* own turn submitted the work must not fail the task: but rework is "running" again
\* when that turn ends, and sendTask takes it for a turn without a result.
SubmittedTurnIsNoFailure ==
    [][\A t \in Tasks :
         task[t].status = "running" /\ task'[t].status = "failed" =>
             ~Top(pending'.caller).decided]_vars

\* The dispatch opens and closes as the lifecycle expects it, whatever fails in between
\* (DispatchGate; stopDispatching, resumeDispatching and start of the orchestrator).
Gate == INSTANCE DispatchGate WITH open <- accepting, status <- lifecycle
GateSpec == Gate!Spec
=============================================================================
