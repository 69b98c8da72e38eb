------------------------ MODULE Orchestrator_proofs ------------------------
(***************************************************************************)
(* Proofs about Orchestrator for every number of tasks, employees, calls   *)
(* and epochs.  Whatever the orchestrator does to the table is an          *)
(* operation of TaskService, made while actions are accepted, and fills at *)
(* most one slot that was free: TaskStep.  The invariants of the table,    *)
(* the number of running tasks and the rest while the dispatch is stopped  *)
(* follow from that alone.  That each action is such a step rests on the   *)
(* calls: a suspended call of an older epoch is recognised as stale, and   *)
(* no call of the current epoch is left once the dispatch is stopped.      *)
(*                                                                         *)
(* The second part is about the calls themselves: their locks, the work    *)
(* they drive, and the user who has to hear of what they leave.  The last  *)
(* part is about DispatchGate, which ties this module to Lifecycle.        *)
(***************************************************************************)
EXTENDS Orchestrator, TaskService_proofs, SequenceLemmas, FiniteSetTheorems, SequenceTheorems

CallFrame ==
    [op : {"send", "review", "message"}, task : Tasks, emp : Employees, epoch : Nat,
     pc : {"chain", "lock", "stream", "dispatch", "failed", "resume", "rebuild"},
     decided : BOOLEAN]

\* The frames a call may have: none is of a later epoch, and while the dispatch is
\* stopped none is of the current one.
Frames == {f \in CallFrame : f.epoch <= epoch /\ (accepting \/ f.epoch < epoch)}

Calls(F) ==
    [Threads -> [kind : {"idle", "flight", "client", "review"}, task : Tasks \cup {"none"},
                 stack : Seq(F)]]

\* The second transaction of a step belongs to a call that is under way, and it comes
\* while the dispatch goes on.
PendingOK ==
    \/ pending = Nothing
    \/ /\ accepting
       /\ pending \in [step : {"start", "retry"}, caller : Threads \cup {Client},
                       task : Tasks, actor : Employees]
       /\ pending.caller = Client => pending.step = "start"
       /\ pending.caller # Client => Active(pending.caller)

CallsOK ==
    /\ epoch \in Nat /\ accepting \in BOOLEAN
    /\ thread \in Calls(Frames)

\* The inductive invariant: of the table, of the calls and of the step under way.
OrchInv == TaskInv /\ CallsOK /\ PendingOK

\* At most one task becomes running, and only if a slot is free.
FillsOneSlot ==
    \/ Running' \subseteq Running
    \/ HasRunningCapacity /\ \E t \in Tasks : Running' \subseteq Running \cup {t}

\* What an action of the orchestrator may do to the table.
TaskStep == UNCHANGED task \/ (accepting /\ TaskNext /\ FillsOneSlot)

-----------------------------------------------------------------------------
(* The operations of the table.                                             *)

LEMMA WriteKeepsRunning ==
    ASSUME TaskTypeOK, NEW t \in Tasks, NEW r, Write(t, r), r.status # "running"
    PROVE  Running' \subseteq Running
  BY DEF TaskTypeOK, Write, Running

LEMMA WriteAddsOne ==
    ASSUME TaskTypeOK, NEW t \in Tasks, NEW r, Write(t, r)
    PROVE  Running' \subseteq Running \cup {t}
  BY DEF TaskTypeOK, Write, Running

LEMMA CreateStep ==
    ASSUME TaskInv, NEW t \in Tasks, NEW deps \in SUBSET Tasks, Create(t, deps)
    PROVE  TaskNext /\ Running' \subseteq Running
  <1>1. TaskTypeOK
    BY DEF TaskInv
  <1>2. Running' \subseteq Running
    BY <1>1, WriteKeepsRunning DEF Create, Draft
  <1>. QED BY <1>2 DEF TaskNext, Operation

LEMMA RowExists ==
    ASSUME TaskInv, NEW t \in Tasks, NEW next, LegalTransition(t, next)
    PROVE  task[t] \in TaskRecord
  BY RowType DEF LegalTransition

LEMMA AssignStep ==
    ASSUME TaskInv, NEW t \in Tasks, NEW e \in Employees, Assign(t, e)
    PROVE  TaskNext /\ Running' \subseteq Running
  <1>1. TaskTypeOK /\ task[t] \in TaskRecord
    BY RowExists DEF TaskInv, Assign, Assignable
  <1>2. Running' \subseteq Running
    BY <1>1, WriteKeepsRunning DEF Assign, TaskRecord
  <1>. QED BY <1>2 DEF TaskNext, Operation

LEMMA TransitionStep ==
    ASSUME TaskInv, NEW t \in Tasks, NEW next \in TaskStates, NEW e \in Employees,
           Transition(t, next, e)
    PROVE  /\ TaskNext
           /\ next # "running" => Running' \subseteq Running
           /\ Running' \subseteq Running \cup {t}
  <1>1. TaskTypeOK /\ task[t] \in TaskRecord
    BY RowExists DEF TaskInv, Transition
  <1>2. Write(t, [task[t] EXCEPT !.status = next, !.updatedBy = e])
    BY DEF Transition
  <1>3. [task[t] EXCEPT !.status = next, !.updatedBy = e].status = next
    BY <1>1 DEF TaskRecord
  <1>4. next # "running" => Running' \subseteq Running
    BY <1>1, <1>2, <1>3, WriteKeepsRunning
  <1>5. Running' \subseteq Running \cup {t}
    BY <1>1, <1>2, WriteAddsOne
  <1>. QED BY <1>4, <1>5 DEF TaskNext, Operation

LEMMA SubmitStep ==
    ASSUME TaskInv, NEW t \in Tasks, NEW e \in Employees, Submit(t, e, TRUE, TRUE)
    PROVE  TaskNext /\ Running' \subseteq Running
  <1>1. TaskTypeOK /\ task[t] \in TaskRecord
    BY RowExists DEF TaskInv, Submit
  <1>2. Running' \subseteq Running
    BY <1>1, WriteKeepsRunning DEF Submit, TaskRecord
  <1>. QED BY <1>2 DEF TaskNext, Operation

LEMMA RetryStep ==
    ASSUME TaskInv, NEW t \in Tasks, NEW e \in Employees, Retry(t, e)
    PROVE  TaskNext /\ Running' \subseteq Running
  <1>1. TaskTypeOK /\ task[t] \in TaskRecord
    BY RowExists DEF TaskInv, Retry
  <1>2. Running' \subseteq Running
    BY <1>1, WriteKeepsRunning DEF Retry, TaskRecord
  <1>. QED BY <1>2 DEF TaskNext, Operation

LEMMA RejectStep ==
    ASSUME TaskInv, NEW t \in Tasks, NEW e \in Employees, Reject(t, e)
    PROVE  TaskNext /\ Running' \subseteq Running
  <1>1. TaskTypeOK /\ task[t] \in TaskRecord
    BY RowExists DEF TaskInv, Reject
  <1>2. Running' \subseteq Running
    BY <1>1, WriteKeepsRunning DEF Reject, TaskRecord
  <1>. QED BY <1>2 DEF TaskNext, Operation

-----------------------------------------------------------------------------
(* Stacks of frames.                                                        *)

LEMMA FrontAndLast ==
    ASSUME NEW F, NEW s \in Seq(F), Len(s) > 0
    PROVE  Front(s) \in Seq(F) /\ Last(s) \in F
  <1>1. Len(s) - 1 \in Nat /\ Len(s) \in 1..Len(s)
    OBVIOUS
  <1>2. Last(s) \in F
    BY <1>1 DEF Last
  <1>3. SubSeq(s, 1, Len(s) - 1) \in Seq(F)
    BY <1>1
  <1>. QED BY <1>2, <1>3 DEF Front

LEMMA TopIsFrame ==
    ASSUME CallsOK, NEW th \in Threads, Active(th)
    PROVE  Top(th) \in Frames /\ Top(th) \in CallFrame /\ thread[th].stack \in Seq(Frames)
  <1>1. thread[th].stack \in Seq(Frames)
    BY DEF CallsOK, Calls
  <1>2. Top(th) \in Frames
    BY <1>1, FrontAndLast DEF Active, Depth, Top
  <1>. QED BY <1>1, <1>2 DEF Frames

\* What replaces the top frame is a frame again, and the call goes on.
LEMMA WithTopKeeps ==
    ASSUME CallsOK, NEW th \in Threads, Active(th), NEW f \in Frames
    PROVE  /\ WithTop(th, f) \in Calls(Frames)
           /\ Len(WithTop(th, f)[th].stack) > 0
  <1>1. thread[th].stack \in Seq(Frames) /\ Len(thread[th].stack) > 0
    BY TopIsFrame DEF Active, Depth
  <1>2. Front(thread[th].stack) \in Seq(Frames)
    BY <1>1, FrontAndLast
  <1>3. Append(Front(thread[th].stack), f) \in Seq(Frames)
    BY <1>2
  <1>4. Len(Append(Front(thread[th].stack), f)) > 0
    BY <1>2
  <1>5. WithTop(th, f)[th].stack = Append(Front(thread[th].stack), f)
    BY DEF WithTop, CallsOK, Calls
  <1>. QED BY <1>3, <1>4, <1>5 DEF WithTop, CallsOK, Calls

LEMMA FrameIsNew ==
    ASSUME CallsOK, accepting, NEW op \in {"send", "review", "message"},
           NEW t \in Tasks, NEW e \in Employees
    PROVE  Frame(op, t, e) \in Frames
  BY DEF Frame, Frames, CallFrame, CallsOK

LEMMA FrameGoesOn ==
    ASSUME NEW f \in Frames, NEW d \in BOOLEAN,
           NEW pc \in {"chain", "lock", "stream", "dispatch", "failed", "resume", "rebuild"}
    PROVE  /\ [f EXCEPT !.pc = pc] \in Frames
           /\ [f EXCEPT !.pc = pc, !.decided = @ \/ d] \in Frames
  BY DEF Frames, CallFrame

LEMMA EndKeeps ==
    ASSUME CallsOK, NEW th \in Threads, End(th)
    PROVE  thread' \in Calls(Frames)
  <1>1. Idle \in [kind : {"idle", "flight", "client", "review"}, task : Tasks \cup {"none"},
                  stack : Seq(Frames)]
    BY DEF Idle
  <1>. QED BY <1>1 DEF End, CallsOK, Calls

LEMMA PopKeeps ==
    ASSUME CallsOK, NEW th \in Threads, Active(th), NEW outcome, Pop(th, outcome)
    PROVE  thread' \in Calls(Frames)
  <1>0. thread[th].stack \in Seq(Frames)
    BY TopIsFrame
  <1>1. CASE Depth(th) = 1
    BY <1>1, EndKeeps DEF Pop
  <1>2. CASE Depth(th) # 1
    <2>0. Len(thread[th].stack) > 1 /\ Depth(th) = Len(thread[th].stack)
      <3>1. Len(thread[th].stack) \in Nat /\ Len(thread[th].stack) > 0
        BY <1>0 DEF Active, Depth
      <3>2. Len(thread[th].stack) # 1
        BY <1>2 DEF Depth
      <3>3. \A n \in Nat : n > 0 /\ n # 1 => n > 1
        OBVIOUS
      <3>. QED BY <3>1, <3>2, <3>3 DEF Depth
    <2> DEFINE s == thread[th].stack
               pc == IF outcome = "ok" THEN "stream" ELSE "failed"
               f == [s[Depth(th) - 1] EXCEPT !.pc = pc]
    <2>1. s \in Seq(Frames) /\ Len(s) > 1 /\ Depth(th) = Len(s)
      BY <1>0, <2>0
    <2>2. f \in Frames
      <3>1. s[Len(s) - 1] \in Frames
        BY <2>1
      <3>. QED BY <2>1, <3>1, FrameGoesOn
    <2>3. SubSeq(s, 1, Len(s) - 2) \in Seq(Frames)
      BY <2>1
    <2>4. thread' = [thread EXCEPT ![th].stack = Append(SubSeq(@, 1, Depth(th) - 2), f)]
      BY <1>2 DEF Pop
    <2> HIDE DEF f
    <2>5. Append(SubSeq(s, 1, Len(s) - 2), f) \in Seq(Frames)
      BY <2>2, <2>3
    <2>. QED BY <2>1, <2>4, <2>5 DEF CallsOK, Calls
  <1>. QED BY <1>1, <1>2

Caller(c) == c \in Threads \cup {Client} /\ (c # Client => Active(c))

LEMMA OutcomeKeeps ==
    ASSUME CallsOK, NEW c, Caller(c), NEW d \in BOOLEAN
    PROVE  Succeeded(c, d) \in Calls(Frames) /\ Failed(c) \in Calls(Frames)
  <1>1. CASE c = Client
    BY <1>1 DEF Succeeded, Failed, CallsOK
  <1>2. CASE c # Client
    <2>1. c \in Threads /\ Active(c)
      BY <1>2 DEF Caller
    <2>2. Top(c) \in Frames
      BY <2>1, TopIsFrame
    <2>3. /\ [Top(c) EXCEPT !.pc = "stream", !.decided = @ \/ d] \in Frames
          /\ [Top(c) EXCEPT !.pc = "failed"] \in Frames
      BY <2>2, FrameGoesOn
    <2>. QED BY <1>2, <2>1, <2>3, WithTopKeeps DEF Succeeded, Failed
  <1>. QED BY <1>1, <1>2

LEMMA CallsStay ==
    ASSUME CallsOK, UNCHANGED <<accepting, epoch>>, thread' \in Calls(Frames)
    PROVE  CallsOK'
  BY DEF CallsOK, Calls, Frames, CallFrame

LEMMA StartNextKeeps ==
    ASSUME CallsOK, accepting, UNCHANGED accepting, NEW c, Caller(c), NEW t \in Tasks,
           NEW actor \in Employees, NEW d \in BOOLEAN, StartNext(c, t, actor, d)
    PROVE  thread' \in Calls(Frames) /\ PendingOK'
  <1>1. pending' = [step |-> "start", caller |-> c, task |-> t, actor |-> actor]
    BY DEF StartNext
  <1>2. thread' \in Calls(Frames) /\ (c # Client => Active(c)')
    <2>1. CASE c = Client
      BY <2>1 DEF StartNext, CallsOK
    <2>2. CASE c # Client
      <3>1. c \in Threads /\ Active(c)
        BY <2>2 DEF Caller
      <3>2. [Top(c) EXCEPT !.pc = "dispatch", !.decided = @ \/ d] \in Frames
        BY <3>1, TopIsFrame, FrameGoesOn
      <3>3. thread' = WithTop(c, [Top(c) EXCEPT !.pc = "dispatch", !.decided = @ \/ d])
        BY <2>2 DEF StartNext
      <3>. QED BY <3>1, <3>2, <3>3, WithTopKeeps DEF Active, Depth
    <2>. QED BY <2>1, <2>2
  <1>. QED BY <1>1, <1>2 DEF PendingOK, Caller

LEMMA EnterKeeps ==
    ASSUME CallsOK, NEW c, Caller(c), NEW f \in Frames, NEW d \in BOOLEAN, Enter(c, f, d)
    PROVE  thread' \in Calls(Frames)
  <1>1. CASE c = Client
    <2>1. <<f>> \in Seq(Frames) /\ f.task \in Tasks
      BY DEF Frames, CallFrame
    <2>2. thread' = [thread EXCEPT ![NextFree] =
                       [kind |-> "client", task |-> f.task, stack |-> <<f>>]]
      BY <1>1 DEF Enter
    <2>. QED BY <2>1, <2>2 DEF CallsOK, Calls
  <1>2. CASE c # Client
    <2> DEFINE g == [Top(c) EXCEPT !.pc = "dispatch", !.decided = @ \/ d]
               s == thread[c].stack
    <2>1. c \in Threads /\ Active(c)
      BY <1>2 DEF Caller
    <2>2. g \in Frames /\ s \in Seq(Frames)
      BY <2>1, TopIsFrame, FrameGoesOn
    <2>3. Len(s) > 0
      BY <2>1 DEF Active, Depth
    <2>4. Front(s) \in Seq(Frames)
      BY <2>2, <2>3, FrontAndLast
    <2>5. thread' = [thread EXCEPT ![c].stack = Append(Append(Front(@), g), f)]
      BY <1>2 DEF Enter
    <2> HIDE DEF g
    <2>6. Append(Append(Front(s), g), f) \in Seq(Frames)
      BY <2>2, <2>4
    <2>. QED BY <2>1, <2>5, <2>6 DEF CallsOK, Calls
  <1>. QED BY <1>1, <1>2

\* Whatever an agent or a client proposes while actions are accepted is a step of the
\* table, and leaves the calls in order.
LEMMA DispatchKeeps ==
    ASSUME OrchInv, NEW c, Caller(c), NEW type, NEW t \in Tasks, NEW actor \in Employees,
           pending = Nothing, Dispatch(c, type, t, actor)
    PROVE  TaskStep /\ CallsOK' /\ PendingOK'
  <1>. USE DEF OrchInv
  <1>0. accepting
    BY DEF Dispatch
  <1>1. ASSUME UNCHANGED pending PROVE PendingOK'
    BY <1>1 DEF PendingOK
  <1>2. CASE \E deps \in SUBSET Tasks : CreateProposedTask(c, t, deps)
    <2> PICK deps \in SUBSET Tasks : CreateProposedTask(c, t, deps)
      BY <1>2
    <2>1. TaskNext /\ Running' \subseteq Running
      BY CreateStep DEF CreateProposedTask
    <2>2. thread' \in Calls(Frames)
      BY OutcomeKeeps DEF CreateProposedTask
    <2>. QED BY <1>0, <1>1, <2>1, <2>2, CallsStay DEF TaskStep, FillsOneSlot, CreateProposedTask
  <1>3. CASE \E e \in Employees : AssignAndSend(c, t, e)
    <2> PICK e \in Employees : AssignAndSend(c, t, e)
      BY <1>3
    <2>1. TaskNext /\ Running' \subseteq Running
      BY AssignStep DEF AssignAndSend
    <2>2. thread' \in Calls(Frames) /\ PendingOK'
      BY <1>0, StartNextKeeps DEF AssignAndSend
    <2>. QED BY <1>0, <2>1, <2>2, CallsStay DEF TaskStep, FillsOneSlot, AssignAndSend
  <1>4. CASE StartTask(c, t, actor)
    <2>1. thread' \in Calls(Frames) /\ PendingOK'
      BY <1>0, <1>4, StartNextKeeps DEF StartTask
    <2>. QED BY <1>4, <2>1, CallsStay DEF TaskStep, StartTask
  <1>5. CASE RecordSubmissionAndRequestReview(c, t, actor)
    <2>1. TaskNext /\ Running' \subseteq Running
      BY <1>5, SubmitStep DEF RecordSubmissionAndRequestReview
    <2>2. Frame("review", t, Reviewer) \in Frames
      BY <1>0, FrameIsNew, OrchestratorAssumption
    <2>3. thread' \in Calls(Frames)
      BY <1>5, <2>2, EnterKeeps DEF RecordSubmissionAndRequestReview
    <2>. QED BY <1>0, <1>1, <1>5, <2>1, <2>3, CallsStay
             DEF TaskStep, FillsOneSlot, RecordSubmissionAndRequestReview
  <1>6. CASE RequestReview(c, t)
    <2>1. Frame("review", t, Reviewer) \in Frames
      BY <1>0, FrameIsNew, OrchestratorAssumption
    <2>2. thread' \in Calls(Frames)
      BY <1>6, <2>1, EnterKeeps DEF RequestReview
    <2>. QED BY <1>1, <1>6, <2>2, CallsStay DEF TaskStep, RequestReview
  <1>7. CASE Approve(c, t, actor)
    <2>1. TaskNext /\ Running' \subseteq Running
      BY <1>7, TransitionStep DEF Approve, TaskStates
    <2>2. thread' \in Calls(Frames)
      BY <1>7, OutcomeKeeps DEF Approve
    <2>. QED BY <1>0, <1>1, <1>7, <2>1, <2>2, CallsStay DEF TaskStep, FillsOneSlot, Approve
  <1>8. CASE RejectAndMaybeRequeue(c, t, actor)
    <2>1. TaskNext /\ Running' \subseteq Running
      BY <1>8, RejectStep DEF RejectAndMaybeRequeue
    <2>2. thread' \in Calls(Frames) /\ PendingOK'
      <3>1. CASE task'[t].status = "blocked" \/ task[t].owner = Nobody
        BY <1>1, <1>8, <3>1, OutcomeKeeps DEF RejectAndMaybeRequeue
      <3>2. CASE task'[t].status # "blocked" /\ task[t].owner # Nobody
        <4>1. task[t].owner \in Employees
          BY <1>8, <3>2, RowExists DEF RejectAndMaybeRequeue, Reject, TaskRecord
        <4>2. StartNext(c, t, task[t].owner, TRUE) /\ UNCHANGED accepting
          BY <1>8, <3>2 DEF RejectAndMaybeRequeue
        <4>. QED BY <1>0, <4>1, <4>2, StartNextKeeps
      <3>. QED BY <3>1, <3>2
    <2>. QED BY <1>0, <1>8, <2>1, <2>2, CallsStay
             DEF TaskStep, FillsOneSlot, RejectAndMaybeRequeue
  <1>9. CASE BlockTask(c, t, actor)
    <2>1. TaskNext /\ Running' \subseteq Running
      BY <1>9, TransitionStep DEF BlockTask, TaskStates
    <2>2. thread' \in Calls(Frames)
      BY <1>9, OutcomeKeeps DEF BlockTask
    <2>. QED BY <1>0, <1>1, <1>9, <2>1, <2>2, CallsStay DEF TaskStep, FillsOneSlot, BlockTask
  <1>10. CASE \E e \in Employees : RouteEmployeeMessage(c, t, e)
    <2> PICK e \in Employees : RouteEmployeeMessage(c, t, e)
      BY <1>10
    <2>1. Frame("message", t, e) \in Frames
      BY <1>0, FrameIsNew
    <2>2. thread' \in Calls(Frames)
      BY <2>1, EnterKeeps DEF RouteEmployeeMessage
    <2>. QED BY <1>1, <2>2, CallsStay DEF TaskStep, RouteEmployeeMessage
  <1>. QED BY <1>2, <1>3, <1>4, <1>5, <1>6, <1>7, <1>8, <1>9, <1>10 DEF Dispatch

-----------------------------------------------------------------------------
(* The other actions.                                                       *)

LEMMA PendingStays ==
    ASSUME pending' = Nothing
    PROVE  PendingOK'
  BY DEF PendingOK, Nothing

\* A call that is not stale belongs to a dispatch that goes on.
LEMMA CurrentCallsAreAccepted ==
    ASSUME CallsOK, NEW th \in Threads, Active(th), ~Stale(th)
    PROVE  accepting
  <1>1. Top(th) \in Frames
    BY TopIsFrame
  <1>. QED BY <1>1 DEF Stale, Frames, CallFrame, CallsOK

LEMMA SettleKeeps ==
    ASSUME OrchInv, NEW th \in Threads, Active(th), SettleFlight(th), pending = Nothing,
           UNCHANGED <<accepting, epoch>>
    PROVE  TaskStep /\ CallsOK' /\ PendingOK'
  <1>. USE DEF OrchInv
  <1> DEFINE t == Top(th).task
  <1>1. CASE Stale(th) \/ task[t].status # "running"
    <2>1. End(th) /\ UNCHANGED <<task, pending>>
      BY <1>1 DEF SettleFlight
    <2>. QED BY <2>1, EndKeeps, CallsStay, PendingStays DEF TaskStep
  <1>2. CASE ~(Stale(th) \/ task[t].status # "running")
    <2>1. t \in Tasks /\ Top(th).emp \in Employees /\ accepting
      BY <1>2, TopIsFrame, CurrentCallsAreAccepted DEF CallFrame
    <2>2. /\ Transition(t, "failed", Top(th).emp)
          /\ pending' = [step |-> "retry", caller |-> th, task |-> t, actor |-> Leader]
          /\ UNCHANGED thread
      BY <1>2 DEF SettleFlight
    <2>3. TaskStep
      BY <2>1, <2>2, TransitionStep DEF TaskStep, FillsOneSlot, TaskStates
    <2>4. CallsOK'
      BY <2>2, CallsStay DEF CallsOK
    <2>5. PendingOK'
      <3>1. th # Client /\ Active(th)'
        BY <2>2, OrchestratorAssumption DEF Client, Active, Depth
      <3>. QED BY <2>1, <2>2, <3>1, EmployeesAssumption DEF PendingOK
    <2>. QED BY <2>3, <2>4, <2>5
  <1>. QED BY <1>1, <1>2

LEMMA PopStep ==
    ASSUME OrchInv, NEW th \in Threads, Active(th), NEW outcome, Pop(th, outcome),
           UNCHANGED <<accepting, epoch, task, pending>>, pending = Nothing
    PROVE  TaskStep /\ CallsOK' /\ PendingOK'
  BY PopKeeps, CallsStay, PendingStays DEF TaskStep, OrchInv

LEMMA WithTopStep ==
    ASSUME OrchInv, NEW th \in Threads, Active(th), NEW f \in Frames,
           thread' = WithTop(th, f), UNCHANGED <<accepting, epoch, task, pending>>,
           pending = Nothing
    PROVE  TaskStep /\ CallsOK' /\ PendingOK'
  BY WithTopKeeps, CallsStay, PendingStays DEF TaskStep, OrchInv

LEMMA EndStep ==
    ASSUME OrchInv, NEW th \in Threads, End(th),
           UNCHANGED <<accepting, epoch, task, pending>>, pending = Nothing
    PROVE  TaskStep /\ CallsOK' /\ PendingOK'
  BY EndKeeps, CallsStay, PendingStays DEF TaskStep, OrchInv

LEMMA StartAgainKeeps ==
    ASSUME OrchInv, NEW th \in Threads, Active(th), ~Stale(th), StartAgain(th),
           pending = Nothing, UNCHANGED <<accepting, epoch, pending>>
    PROVE  TaskStep /\ CallsOK' /\ PendingOK'
  <1>. USE DEF OrchInv
  <1> DEFINE t == Top(th).task
             e == Top(th).emp
  <1>1. t \in Tasks /\ e \in Employees /\ accepting
    BY TopIsFrame, CurrentCallsAreAccepted DEF CallFrame
  <1>2. CASE ~HasRunningCapacity \/ ~Startable(t, e)
    <2>1. End(th) /\ UNCHANGED task
      BY <1>2 DEF StartAgain
    <2>. QED BY <2>1, EndStep
  <1>3. CASE HasRunningCapacity /\ Startable(t, e)
    <2>1. Transition(t, "running", e) /\ thread' = WithTop(th, Frame("send", t, e))
      BY <1>3 DEF StartAgain
    <2>2. TaskStep
      BY <1>1, <1>3, <2>1, TransitionStep DEF TaskStep, FillsOneSlot, TaskStates
    <2>3. thread' \in Calls(Frames)
      BY <1>1, <2>1, FrameIsNew, WithTopKeeps
    <2>. QED BY <2>2, <2>3, CallsStay, PendingStays
  <1>. QED BY <1>2, <1>3

LEMMA ThreadKeeps ==
    ASSUME OrchInv, NEW th \in Threads, ThreadStep(th)
    PROVE  TaskStep /\ CallsOK' /\ PendingOK'
  <1>. USE DEF OrchInv
  <1>0. pending = Nothing
    BY DEF ThreadStep
  <1>1. ASSUME Active(th), NEW pc \in {"chain", "lock", "stream", "dispatch", "failed", "resume", "rebuild"}
        PROVE  [Top(th) EXCEPT !.pc = pc] \in Frames
    BY <1>1, TopIsFrame, FrameGoesOn
  <1>2. CASE Acquire(th)
    <2>1. CASE session[Top(th).emp]
      BY <1>0, <1>1, <1>2, <2>1, WithTopStep DEF Acquire
    <2>2. CASE ~session[Top(th).emp]
      BY <1>0, <1>2, <2>2, SettleKeeps, PopStep DEF Acquire
    <2>. QED BY <2>1, <2>2
  <1>3. CASE TurnEnds(th)
    BY <1>0, <1>3, SettleKeeps, PopStep DEF TurnEnds
  <1>4. CASE SessionExits(th)
    BY <1>0, <1>4, SettleKeeps, PopStep DEF SessionExits
  <1>5. CASE AgentProposes(th)
    <2>1. PICK type \in AgentActions, t \in Tasks : Dispatch(th, type, t, Top(th).emp)
      BY <1>5 DEF AgentProposes
    <2>2. Caller(th) /\ Top(th).emp \in Employees
      BY <1>5, TopIsFrame DEF AgentProposes, Caller, CallFrame
    <2>. QED BY <1>0, <2>1, <2>2, DispatchKeeps
  <1>6. CASE ProposalRefused(th)
    BY <1>0, <1>1, <1>6, WithTopStep DEF ProposalRefused
  <1>7. CASE HandleFailure(th)
    <2>1. Top(th).op \in {"send", "review", "message"}
      BY <1>7, TopIsFrame DEF HandleFailure, CallFrame
    <2>2. SettleFlight(th) \/ \E outcome : Pop(th, outcome) /\ UNCHANGED <<task, pending>>
      BY <1>7, <2>1 DEF HandleFailure
    <2>. QED BY <1>0, <1>7, <2>2, SettleKeeps, PopStep DEF HandleFailure
  <1>8. CASE SessionReplaced(th)
    BY <1>0, <1>8, StartAgainKeeps DEF SessionReplaced, Replacing
  <1>9. CASE ReplacementFails(th)
    BY <1>0, <1>1, <1>9, WithTopStep, EndStep DEF ReplacementFails, Replacing
  <1>10. CASE ReplacementAborted(th)
    BY <1>0, <1>10, EndStep DEF ReplacementAborted
  <1>11. CASE StartRecoveredReview(th)
    BY <1>0, <1>1, <1>11, WithTopStep, EndStep DEF StartRecoveredReview, At
  <1>. QED BY <1>2, <1>3, <1>4, <1>5, <1>6, <1>7, <1>8, <1>9, <1>10, <1>11 DEF ThreadStep

\* The second transactions.
LEMMA StartReadyKeeps ==
    ASSUME OrchInv, StartReady
    PROVE  TaskStep /\ CallsOK' /\ PendingOK'
  <1>. USE DEF OrchInv
  <1> DEFINE c == pending.caller
             t == pending.task
             e == pending.actor
  <1>0. pending # Nothing
    BY DEF StartReady, Nothing
  <1>1. accepting /\ Caller(c) /\ t \in Tasks /\ e \in Employees
    BY <1>0 DEF PendingOK, Caller
  <1>2. UNCHANGED <<accepting, epoch>> /\ PendingOK'
    BY PendingStays DEF StartReady
  <1>3. CASE ~HasRunningCapacity
    <2>1. thread' = Succeeded(c, FALSE) /\ UNCHANGED task
      BY <1>3 DEF StartReady
    <2>. QED BY <1>1, <1>2, <2>1, OutcomeKeeps, CallsStay DEF TaskStep
  <1>4. CASE HasRunningCapacity /\ Transition(t, "running", e)
             /\ LET frame == Frame("send", t, task[t].owner)
                IN thread' = [Succeeded(c, FALSE) EXCEPT ![NextFree] =
                                [kind |-> "flight", task |-> t, stack |-> <<frame>>]]
    <2> DEFINE frame == Frame("send", t, task[t].owner)
    <2>1. TaskStep
      BY <1>1, <1>4, TransitionStep DEF TaskStep, FillsOneSlot, TaskStates
    <2>2. task[t].owner = e
      BY <1>4 DEF Transition, StartPermitted
    <2>3. frame \in Frames
      BY <1>1, <2>2, FrameIsNew
    <2>4. Succeeded(c, FALSE) \in Calls(Frames)
      BY <1>1, OutcomeKeeps
    <2> HIDE DEF frame
    <2>5. thread' = [Succeeded(c, FALSE) EXCEPT ![NextFree] =
                       [kind |-> "flight", task |-> t, stack |-> <<frame>>]]
      BY <1>4 DEF frame
    <2>6. <<frame>> \in Seq(Frames)
      BY <2>3
    <2>7. thread' \in Calls(Frames)
      BY <1>1, <2>4, <2>5, <2>6 DEF Calls
    <2>. QED BY <1>2, <2>1, <2>7, CallsStay
  <1>5. CASE thread' = Failed(c) /\ UNCHANGED task
    BY <1>1, <1>2, <1>5, OutcomeKeeps, CallsStay DEF TaskStep
  <1>. QED BY <1>3, <1>4, <1>5 DEF StartReady

LEMMA RetryFlightKeeps ==
    ASSUME OrchInv, RetryFlight
    PROVE  TaskStep /\ CallsOK' /\ PendingOK'
  <1>. USE DEF OrchInv
  <1> DEFINE th == pending.caller
             t  == pending.task
  <1>0. pending # Nothing
    BY DEF RetryFlight, Nothing
  <1>1. /\ accepting /\ t \in Tasks /\ pending.actor \in Employees
        /\ th \in Threads /\ Active(th)
    BY <1>0 DEF PendingOK, RetryFlight
  <1>2. UNCHANGED <<accepting, epoch>> /\ PendingOK'
    BY PendingStays DEF RetryFlight
  <1>3. TaskStep
    BY <1>1, RetryStep DEF RetryFlight, TaskStep, FillsOneSlot
  <1>4. End(th) \/ thread' = WithTop(th, [Top(th) EXCEPT !.pc = "resume"])
    BY DEF RetryFlight
  <1>5. [Top(th) EXCEPT !.pc = "resume"] \in Frames
    BY <1>1, TopIsFrame, FrameGoesOn
  <1>6. thread' \in Calls(Frames)
    BY <1>1, <1>4, <1>5, EndKeeps, WithTopKeeps
  <1>. QED BY <1>2, <1>3, <1>6, CallsStay

LEMMA WiderCalls ==
    ASSUME NEW F, NEW G, F \subseteq G
    PROVE  Calls(F) \subseteq Calls(G)
  <1>1. Seq(F) \subseteq Seq(G)
    OBVIOUS
  <1>. QED BY <1>1 DEF Calls

LEMMA PauseKeeps ==
    ASSUME OrchInv, PauseBegin, pending = Nothing
    PROVE  TaskStep /\ CallsOK' /\ PendingOK'
  <1>1. Frames \subseteq Frames'
    BY DEF PauseBegin, Frames, CallFrame, OrchInv, CallsOK
  <1>2. thread' \in Calls(Frames')
    BY <1>1, WiderCalls DEF PauseBegin, OrchInv, CallsOK
  <1>3. epoch' \in Nat /\ accepting' \in BOOLEAN
    <2>1. epoch \in Nat /\ epoch' = epoch + 1 /\ accepting' = FALSE
      BY DEF PauseBegin, OrchInv, CallsOK
    <2>2. accepting' \in BOOLEAN
      BY <2>1, Zenon
    <2>3. epoch' \in Nat
      BY <2>1
    <2>. QED BY <2>2, <2>3
  <1>4. CallsOK'
    BY <1>2, <1>3 DEF CallsOK, Calls
  <1>. QED BY <1>4, PendingStays DEF PauseBegin, TaskStep

LEMMA RecoveredFrame ==
    ASSUME epoch \in Nat, epoch' = epoch + 1, accepting' = TRUE,
           NEW op \in {"send", "review", "message"}, NEW t \in Tasks, NEW e \in Employees
    PROVE  /\ [Frame(op, t, e) EXCEPT !.epoch = epoch + 1] \in Frames'
           /\ [[Frame(op, t, e) EXCEPT !.epoch = epoch + 1] EXCEPT !.pc = "chain"] \in Frames'
  <1> DEFINE f == Frame(op, t, e)
             g == [f EXCEPT !.epoch = epoch + 1]
             h == [g EXCEPT !.pc = "chain"]
  <1>1. f \in CallFrame
    BY DEF Frame, CallFrame
  <1>2. epoch + 1 \in Nat
    OBVIOUS
  <1> HIDE DEF f
  <1>3. g \in CallFrame /\ g.epoch = epoch + 1
    BY <1>1, <1>2 DEF CallFrame
  <1> HIDE DEF g
  <1>4. h \in CallFrame /\ h.epoch = epoch + 1
    BY <1>3 DEF CallFrame
  <1> HIDE DEF h
  <1>5. CallFrame' = CallFrame
    BY DEF CallFrame
  <1>6. g \in Frames' /\ h \in Frames'
    BY <1>2, <1>3, <1>4, <1>5 DEF Frames
  <1>. QED BY <1>6 DEF f, g, h

LEMMA RecoverKeeps ==
    ASSUME OrchInv, Recover, pending = Nothing
    PROVE  TaskStep /\ CallsOK' /\ PendingOK'
  <1> DEFINE running == {t \in Tasks : task[t].status = "running"}
             review == {t \in Tasks : task[t].status = "review"}
             slot == CHOOSE f \in [running \cup review -> Threads] : IsInjective(f)
             At1(frame) == [frame EXCEPT !.epoch = epoch + 1]
             Call == [kind : {"idle", "flight", "client", "review"},
                      task : Tasks \cup {"none"}, stack : Seq(Frames')]
  <1>1. epoch' = epoch + 1 /\ accepting' = TRUE /\ epoch \in Nat
    BY DEF Recover, OrchInv, CallsOK
  <1>2. \A t \in running : task[t].owner \in Employees
    BY DEF OrchInv, TaskInv, StartedWorkHasWorktree, StartedStates
  <1>3. \A t \in Tasks, e \in Employees, op \in {"send", "review", "message"} :
           /\ At1(Frame(op, t, e)) \in Frames'
           /\ [At1(Frame(op, t, e)) EXCEPT !.pc = "chain"] \in Frames'
    BY <1>1, RecoveredFrame
  <1> HIDE DEF slot, At1
  <1>5. ASSUME NEW th \in Threads
        PROVE  thread'[th] \in Call
    <2>1. CASE \E t \in running : slot[t] = th
      <3> DEFINE u == CHOOSE t \in running : slot[t] = th
      <3>1. u \in running
        BY <2>1
      <3>2. At1(Frame("send", u, task[u].owner)) \in Frames'
        BY <3>1, <1>2, <1>3
      <3>3. thread'[th] = [kind |-> "flight", task |-> u,
                           stack |-> <<At1(Frame("send", u, task[u].owner))>>]
        BY <2>1 DEF Recover, slot, At1
      <3> HIDE DEF u
      <3>. QED BY <3>1, <3>2, <3>3
    <2>2. CASE ~(\E t \in running : slot[t] = th) /\ \E t \in review : slot[t] = th
      <3> DEFINE u == CHOOSE t \in review : slot[t] = th
      <3>1. u \in review
        BY <2>2
      <3>2. [At1(Frame("review", u, Reviewer)) EXCEPT !.pc = "chain"] \in Frames'
        BY <3>1, <1>3, OrchestratorAssumption
      <3>3. thread'[th] = [kind |-> "review", task |-> u,
                stack |-> <<[At1(Frame("review", u, Reviewer)) EXCEPT !.pc = "chain"]>>]
        BY <2>2 DEF Recover, slot, At1
      <3> HIDE DEF u
      <3>. QED BY <3>1, <3>2, <3>3
    <2>3. CASE ~(\E t \in running : slot[t] = th) /\ ~(\E t \in review : slot[t] = th)
      <3>1. thread'[th] = Idle
        BY <2>3 DEF Recover, slot
      <3>. QED BY <3>1 DEF Idle
    <2>. QED BY <2>1, <2>2, <2>3
  <1>6. thread' = [th \in Threads |-> thread'[th]]
    BY DEF Recover
  <1>7. thread' \in Calls(Frames')
    BY <1>5, <1>6 DEF Calls
  <1>8. CallsOK'
    BY <1>1, <1>7 DEF CallsOK, Calls
  <1>. QED BY <1>8, PendingStays DEF Recover, TaskStep

\* A process that starts has no calls.
LEMMA IdleCalls ==
    ASSUME NEW F
    PROVE  [th \in Threads |-> Idle] \in Calls(F)
  <1>1. Idle \in [kind : {"idle", "flight", "client", "review"}, task : Tasks \cup {"none"},
                  stack : Seq(F)]
    BY DEF Idle
  <1>. QED BY <1>1 DEF Calls

LEMMA CrashKeeps ==
    ASSUME OrchInv, Crash
    PROVE  TaskStep /\ CallsOK' /\ PendingOK'
  <1>1. thread' \in Calls(Frames')
    BY IdleCalls DEF Crash
  <1>2. CallsOK'
    BY <1>1 DEF Crash, CallsOK, Calls
  <1>. QED BY <1>2, PendingStays DEF Crash, TaskStep

\* Every step of the orchestrator is a step of the table in this sense.
LEMMA EveryStepIsTaskStep ==
    ASSUME OrchInv, [Next]_vars
    PROVE  TaskStep /\ CallsOK' /\ PendingOK'
  <1>1. CASE StartReady \/ RetryFlight
    BY <1>1, StartReadyKeeps, RetryFlightKeeps
  <1>2. CASE \E th \in Threads : ThreadStep(th)
    BY <1>2, ThreadKeeps
  <1>3. CASE pending = Nothing /\ ClientDispatches
    <2>1. Caller(Client)
      BY DEF Caller
    <2>2. PICK type \in ClientActions, t \in Tasks, actor \in Employees :
             Dispatch(Client, type, t, actor)
      BY <1>3 DEF ClientDispatches
    <2>. QED BY <1>3, <2>1, <2>2, DispatchKeeps
  <1>4. CASE pending = Nothing /\ (PauseBegin \/ Recover)
    BY <1>4, PauseKeeps, RecoverKeeps
  <1>5. CASE pending = Nothing /\ PauseDone
    <2>1. UNCHANGED <<task, accepting, epoch, thread, pending>>
      BY <1>5 DEF PauseDone
    <2>2. CallsOK'
      BY <2>1, CallsStay DEF OrchInv, CallsOK
    <2>. QED BY <1>5, <2>1, <2>2, PendingStays DEF TaskStep
  <1>6. CASE Crash
    BY <1>6, CrashKeeps
  <1>7. CASE UNCHANGED vars
    <2>1. UNCHANGED <<task, accepting, epoch, thread, pending>>
      BY <1>7 DEF vars, core
    <2>2. CallsOK'
      BY <2>1, CallsStay DEF OrchInv, CallsOK
    <2>3. PendingOK'
      BY <2>1 DEF OrchInv, PendingOK, Active, Depth
    <2>. QED BY <2>1, <2>2, <2>3 DEF TaskStep
  <1>. QED BY <1>1, <1>2, <1>3, <1>4, <1>5, <1>6, <1>7 DEF Next

LEMMA OrchInitInv == Init => OrchInv
  <1> SUFFICES ASSUME Init PROVE OrchInv
    OBVIOUS
  <1>1. TaskInv
    BY TaskInitInv DEF Init
  <1>2. CallsOK
    BY IdleCalls DEF Init, CallsOK
  <1>. QED BY <1>1, <1>2 DEF Init, OrchInv, PendingOK

LEMMA OrchStepInv == OrchInv /\ [Next]_vars => OrchInv' /\ TaskStep
  <1> SUFFICES ASSUME OrchInv, [Next]_vars PROVE OrchInv' /\ TaskStep
    OBVIOUS
  <1>1. TaskStep /\ CallsOK' /\ PendingOK'
    BY EveryStepIsTaskStep
  <1>2. TaskInv'
    BY <1>1, EveryStepIsRowStep, RowStepKeepsInv, TaskInvStutters DEF OrchInv, TaskStep
  <1>. QED BY <1>1, <1>2 DEF OrchInv

-----------------------------------------------------------------------------
(* The theorems.                                                            *)

\* The calls, the table and the step under way stay consistent, whatever agents
\* propose, sessions do, and pauses, recoveries and crashes interrupt.
THEOREM OrchInvariant == Spec => []OrchInv
  <1>. QED BY OrchInitInv, OrchStepInv, PTL DEF Spec

\* The orchestrator is one of the callers TaskService is made for: every run of it is a
\* run of the task table, although its transactions interleave with turns, retries,
\* pauses and crashes (dispatch, sendTask, recoverWork).
THEOREM OrchestratorKeepsTaskRules == Spec => TaskSpec
  <1>1. Init => TaskInit
    BY DEF Init
  <1>2. OrchInv /\ [Next]_vars => [TaskNext]_task
    BY OrchStepInv DEF TaskStep
  <1>. QED BY <1>1, <1>2, OrchInvariant, PTL DEF Spec, TaskSpec

\* From stopDispatching to resumeDispatching, and after a crash, no call that is still
\* under way touches a task.
THEOREM StoppedDispatchTouchesNothing == Spec => NothingChangesWhileStopped
  <1>1. OrchInv /\ [Next]_vars => [~accepting => task' = task]_vars
    BY OrchStepInv DEF TaskStep
  <1>. QED BY <1>1, OrchInvariant, PTL DEF Spec, NothingChangesWhileStopped

\* The slots as counted: without the first part the number would mean nothing.
SlotsOK == IsFiniteSet(Running) /\ CapacityRespected

LEMMA SlotStep ==
    ASSUME SlotsOK, OrchInv, TaskStep
    PROVE  SlotsOK'
  <1>. USE DEF SlotsOK, CapacityRespected
  <1>1. Cardinality(Running) \in Nat /\ MaxParallelTasks \in Nat
    BY FS_CardinalityType, OrchestratorAssumption
  <1>2. CASE Running' \subseteq Running
    <2>1. IsFiniteSet(Running') /\ Cardinality(Running') <= Cardinality(Running)
      BY <1>2, FS_Subset
    <2>2. Cardinality(Running') \in Nat
      BY <2>1, FS_CardinalityType
    <2>. QED BY <1>1, <2>1, <2>2
  <1>3. CASE HasRunningCapacity /\ \E t \in Tasks : Running' \subseteq Running \cup {t}
    <2>1. PICK t \in Tasks : Running' \subseteq Running \cup {t}
      BY <1>3
    <2>2. /\ IsFiniteSet(Running \cup {t})
          /\ Cardinality(Running \cup {t}) <= Cardinality(Running) + 1
      <3>1. /\ IsFiniteSet(Running \cup {t})
            /\ \/ Cardinality(Running \cup {t}) = Cardinality(Running)
               \/ Cardinality(Running \cup {t}) = Cardinality(Running) + 1
        BY FS_AddElement
      <3>. QED BY <1>1, <3>1
    <2>3. IsFiniteSet(Running') /\ Cardinality(Running') <= Cardinality(Running \cup {t})
      BY <2>1, <2>2, FS_Subset
    <2>4. Cardinality(Running') \in Nat /\ Cardinality(Running \cup {t}) \in Nat
      BY <2>2, <2>3, FS_CardinalityType
    <2>5. Cardinality(Running) < MaxParallelTasks
      BY <1>3 DEF HasRunningCapacity, Running
    <2>. QED BY <1>1, <2>2, <2>3, <2>4, <2>5
  <1>4. CASE UNCHANGED task
    BY <1>4 DEF Running
  <1>. QED BY <1>2, <1>3, <1>4 DEF TaskStep, FillsOneSlot

\* The configured number of parallel tasks is never exceeded, for any number of tasks,
\* calls and employees: a slot that was free before an await is asked for again after it
\* (#hasRunningCapacity).
THEOREM CapacityHolds == Spec => []CapacityRespected
  <1>1. Init => SlotsOK
    <2> SUFFICES ASSUME Init PROVE SlotsOK
      OBVIOUS
    <2>1. Running = {}
      BY DEF Init, TaskInit, Running, NoTask
    <2>. QED BY <2>1, FS_EmptySet, OrchestratorAssumption DEF SlotsOK, CapacityRespected
  <1>2. SlotsOK /\ OrchInv /\ [Next]_vars => SlotsOK'
    BY SlotStep, OrchStepInv
  <1>3. SlotsOK => CapacityRespected
    BY DEF SlotsOK
  <1>. QED BY <1>1, <1>2, <1>3, OrchInvariant, PTL DEF Spec

-----------------------------------------------------------------------------
(***************************************************************************)
(* The calls of the orchestrator, the locks of the employees, and the work *)
(* that is running.                                                        *)
(*                                                                         *)
(* A line of callers waits for the lock of an employee, and every frame of *)
(* every call wants one lock, or wants none.  LinesOK says that the lines  *)
(* and the frames are the same thing seen from two sides: that is what     *)
(* makes Tail(queue[e]) the release of one's own lock and not of somebody  *)
(* else's.  Each change a step makes to a stack (a frame that goes on, is  *)
(* pushed, is popped; a call that opens, ends, queues again) has a lemma   *)
(* that says what it does to the lines and to what the call drives.  The   *)
(* actions are put together from these.                                    *)
(***************************************************************************)

-----------------------------------------------------------------------------
(* Lines: the callers of one lock, each of them once.                       *)

Places == Threads \X Nat
Queued(q, th, d) == \E i \in 1..Len(q) : q[i] = <<th, d>>
First(q, th, d) == Len(q) > 0 /\ q[1] = <<th, d>>

LEMMA LineAppend ==
    ASSUME NEW q \in Seq(Places), Distinct(q), NEW a \in Threads, NEW b \in Nat, ~Queued(q, a, b)
    PROVE  LET r == Append(q, <<a, b>>)
           IN /\ r \in Seq(Places) /\ Distinct(r)
              /\ \A th \in Threads, d \in Nat : Queued(r, th, d) <=> Queued(q, th, d) \/ (th = a /\ d = b)
              /\ \A th \in Threads, d \in Nat : First(q, th, d) => First(r, th, d)
  <1> DEFINE r == Append(q, <<a, b>>)
             n == Len(q) + 1
  <1>0. <<a, b>> \in Places
    BY DEF Places
  <1>1. /\ Len(q) \in Nat /\ r \in Seq(Places) /\ Len(r) = n /\ r[n] = <<a, b>>
        /\ \A i \in 1..Len(q) : r[i] = q[i]
    BY <1>0
  <1>2. /\ \A i \in 1..n : i \in 1..Len(q) \/ i = n
        /\ \A i \in 1..Len(q) : i \in 1..n
        /\ n \in 1..n
    BY <1>1
  <1> HIDE DEF r, n
  <1>3. Distinct(r)
    <2>1. ASSUME NEW i \in 1..n, NEW j \in 1..n, r[i] = r[j] PROVE i = j
      BY <1>1, <1>2, <2>1 DEF Distinct, Queued
    <2>. QED BY <1>1, <2>1 DEF Distinct
  <1>4. ASSUME NEW th \in Threads, NEW d \in Nat
        PROVE  /\ Queued(r, th, d) <=> Queued(q, th, d) \/ (th = a /\ d = b)
               /\ First(q, th, d) => First(r, th, d)
    <2>1. Queued(r, th, d) => Queued(q, th, d) \/ (th = a /\ d = b)
      <3> SUFFICES ASSUME NEW i \in 1..n, r[i] = <<th, d>> PROVE Queued(q, th, d) \/ (th = a /\ d = b)
        BY <1>1 DEF Queued
      <3>1. CASE i \in 1..Len(q)
        BY <1>1, <3>1 DEF Queued
      <3>2. CASE i = n
        BY <1>1, <3>2
      <3>. QED BY <1>2, <3>1, <3>2
    <2>2. Queued(q, th, d) => Queued(r, th, d)
      BY <1>1, <1>2 DEF Queued
    <2>3. th = a /\ d = b => Queued(r, th, d)
      BY <1>1, <1>2 DEF Queued
    <2>4. First(q, th, d) => First(r, th, d)
      <3> SUFFICES ASSUME First(q, th, d) PROVE First(r, th, d)
        OBVIOUS
      <3>1. Len(q) > 0 /\ 1 \in 1..Len(q)
        BY <1>1 DEF First
      <3>. QED BY <1>1, <3>1 DEF First, n
    <2>. QED BY <2>1, <2>2, <2>3, <2>4
  <1>. QED BY <1>1, <1>3, <1>4 DEF r

LEMMA LineTail ==
    ASSUME NEW q \in Seq(Places), Distinct(q), NEW a \in Threads, NEW b \in Nat, First(q, a, b)
    PROVE  /\ Tail(q) \in Seq(Places) /\ Distinct(Tail(q))
           /\ \A th \in Threads, d \in Nat :
                 Queued(Tail(q), th, d) <=> Queued(q, th, d) /\ ~(th = a /\ d = b)
  <1> DEFINE r == Tail(q)
             n == Len(q) - 1
  <1>1. /\ Len(q) \in Nat /\ Len(q) > 0 /\ r \in Seq(Places) /\ Len(r) = n /\ n \in Nat
        /\ q[1] = <<a, b>> /\ \A i \in 1..n : r[i] = q[i + 1]
    BY DEF First
  <1>2. /\ \A i \in 1..n : i + 1 \in 1..Len(q) /\ i + 1 # 1
        /\ \A i \in 1..Len(q) : i = 1 \/ (i - 1 \in 1..n /\ (i - 1) + 1 = i)
        /\ 1 \in 1..Len(q)
    BY <1>1
  <1> HIDE DEF r
  <1>3. Distinct(r)
    <2>1. ASSUME NEW i \in 1..n, NEW j \in 1..n, r[i] = r[j] PROVE i = j
      <3>1. i + 1 = j + 1
        BY <1>1, <1>2, <2>1 DEF Distinct
      <3>. QED BY <1>1, <3>1
    <2>. QED BY <1>1, <2>1 DEF Distinct
  <1>4. ASSUME NEW th \in Threads, NEW d \in Nat
        PROVE  Queued(r, th, d) <=> Queued(q, th, d) /\ ~(th = a /\ d = b)
    <2>1. ASSUME NEW i \in 1..n, r[i] = <<th, d>> PROVE Queued(q, th, d) /\ ~(th = a /\ d = b)
      <3>1. i + 1 \in 1..Len(q) /\ q[i + 1] = <<th, d>> /\ i + 1 # 1
        BY <1>1, <1>2, <2>1
      <3>2. q[1] # <<th, d>>
        BY <1>2, <3>1 DEF Distinct
      <3>. QED BY <1>1, <3>1, <3>2 DEF Queued
    <2>2. ASSUME NEW i \in 1..Len(q), q[i] = <<th, d>>, ~(th = a /\ d = b) PROVE Queued(r, th, d)
      <3>1. i # 1
        BY <1>1, <2>2
      <3>2. i - 1 \in 1..n /\ r[i - 1] = <<th, d>>
        BY <1>1, <1>2, <2>2, <3>1
      <3>. QED BY <1>1, <3>2 DEF Queued
    <2>. QED BY <1>1, <2>1, <2>2 DEF Queued
  <1>. QED BY <1>1, <1>3, <1>4 DEF r

-----------------------------------------------------------------------------
(* The calls and the locks agree.                                           *)

\* Frame d of call th wants the lock of employee e, or has it.  The lock of call o is
\* released although its frame is still there: that call is about to retry.
Wants(T, o, e, th, d) ==
    /\ th # o /\ d \in 1..Len(T[th].stack)
    /\ T[th].stack[d].emp = e /\ T[th].stack[d].pc # "chain"
Has(T, o, e, th, d) == Wants(T, o, e, th, d) /\ T[th].stack[d].pc \notin Waiting

LineOK(q, T, o, e) ==
    /\ q \in Seq(Places) /\ Distinct(q)
    /\ \A th \in Threads, d \in Nat : Queued(q, th, d) <=> Wants(T, o, e, th, d)
    /\ \A th \in Threads, d \in Nat : Has(T, o, e, th, d) => First(q, th, d)

LinesOK(T, Q, o) ==
    Q \in [Employees -> Seq(Places)] /\ \A e \in Employees : LineOK(Q[e], T, o, e)

\* Frames change, and the lines need not.
LEMMA LinesStay ==
    ASSUME NEW T, NEW Q, NEW o, LinesOK(T, Q, o), NEW T2, NEW o2,
           \A e \in Employees, th \in Threads, d \in Nat :
              /\ Wants(T2, o2, e, th, d) <=> Wants(T, o, e, th, d)
              /\ Has(T2, o2, e, th, d) => Has(T, o, e, th, d) \/ First(Q[e], th, d)
    PROVE  LinesOK(T2, Q, o2)
  BY DEF LinesOK, LineOK

\* Frame b of call a wants no lock; the other frames want and have what they did.
Absent(T, o, a, b) == \A e \in Employees : ~Wants(T, o, e, a, b)
OthersStay(T, o, T2, o2, a, b) ==
    \A e \in Employees, th \in Threads, d \in Nat : ~(th = a /\ d = b) =>
        /\ Wants(T2, o2, e, th, d) <=> Wants(T, o, e, th, d)
        /\ Has(T2, o2, e, th, d) => Has(T, o, e, th, d)

\* A frame joins a line.
LEMMA LinesEnter ==
    ASSUME NEW T, NEW Q, NEW o, LinesOK(T, Q, o), NEW T2, NEW o2,
           NEW a \in Threads, NEW b \in Nat, NEW emp \in Employees,
           Absent(T, o, a, b),
           \A e \in Employees : (Wants(T2, o2, e, a, b) <=> e = emp) /\ ~Has(T2, o2, e, a, b),
           OthersStay(T, o, T2, o2, a, b)
    PROVE  LinesOK(T2, [Q EXCEPT ![emp] = Append(@, <<a, b>>)], o2)
  <1> DEFINE Q2 == [Q EXCEPT ![emp] = Append(@, <<a, b>>)]
             r == Append(Q[emp], <<a, b>>)
  <1>1. /\ Q \in [Employees -> Seq(Places)]
        /\ \A e \in Employees : LineOK(Q[e], T, o, e)
    BY DEF LinesOK
  <1>2. ~Queued(Q[emp], a, b) /\ Q[emp] \in Seq(Places) /\ Distinct(Q[emp])
    BY <1>1 DEF LineOK, Absent
  <1>3. /\ r \in Seq(Places) /\ Distinct(r)
        /\ \A th \in Threads, d \in Nat : Queued(r, th, d) <=> Queued(Q[emp], th, d) \/ (th = a /\ d = b)
        /\ \A th \in Threads, d \in Nat : First(Q[emp], th, d) => First(r, th, d)
    BY <1>2, LineAppend
  <1>4. Q2[emp] = r /\ \A e \in Employees : e # emp => Q2[e] = Q[e]
    BY <1>1
  <1>5. Q2 \in [Employees -> Seq(Places)]
    BY <1>1, <1>3
  <1> HIDE DEF Q2, r
  <1>6. ASSUME NEW e \in Employees PROVE LineOK(Q2[e], T2, o2, e)
    <2>1. LineOK(Q[e], T, o, e)
      BY <1>1
    <2>2. CASE e = emp
      BY <1>3, <1>4, <2>1, <2>2 DEF LineOK, OthersStay
    <2>3. CASE e # emp
      BY <1>4, <2>1, <2>3 DEF LineOK, OthersStay, Absent
    <2>. QED BY <2>2, <2>3
  <1>. QED BY <1>5, <1>6 DEF LinesOK, Q2

\* The first of a line leaves it.
LEMMA LinesLeave ==
    ASSUME NEW T, NEW Q, NEW o, LinesOK(T, Q, o), NEW T2, NEW o2,
           NEW a \in Threads, NEW b \in Nat, NEW emp \in Employees,
           First(Q[emp], a, b),
           Absent(T2, o2, a, b),
           OthersStay(T, o, T2, o2, a, b)
    PROVE  LinesOK(T2, [Q EXCEPT ![emp] = Tail(@)], o2)
  <1> DEFINE Q2 == [Q EXCEPT ![emp] = Tail(@)]
             r == Tail(Q[emp])
  <1>1. /\ Q \in [Employees -> Seq(Places)]
        /\ \A e \in Employees : LineOK(Q[e], T, o, e)
    BY DEF LinesOK
  <1>2. Q[emp] \in Seq(Places) /\ Distinct(Q[emp])
    BY <1>1 DEF LineOK
  <1>3. /\ r \in Seq(Places) /\ Distinct(r)
        /\ \A th \in Threads, d \in Nat : Queued(r, th, d) <=> Queued(Q[emp], th, d) /\ ~(th = a /\ d = b)
    BY <1>2, LineTail
  <1>4. Q2[emp] = r /\ \A e \in Employees : e # emp => Q2[e] = Q[e]
    BY <1>1
  <1>5. Q2 \in [Employees -> Seq(Places)]
    BY <1>1, <1>3
  <1>6. \A th \in Threads, d \in Nat : First(Q[emp], th, d) => th = a /\ d = b
    BY DEF First
  <1>9. \A e \in Employees : e # emp => ~Wants(T, o, e, a, b)
    <2>1. Queued(Q[emp], a, b)
      BY <1>2 DEF First, Queued
    <2>2. Wants(T, o, emp, a, b)
      BY <1>1, <2>1 DEF LineOK
    <2>. QED BY <2>2 DEF Wants
  <1> HIDE DEF Q2, r
  <1>7. ASSUME NEW e \in Employees PROVE LineOK(Q2[e], T2, o2, e)
    <2>1. LineOK(Q[e], T, o, e)
      BY <1>1
    <2>2. CASE e = emp
      <3>1. \A th \in Threads, d \in Nat : Has(T2, o2, e, th, d) => First(r, th, d)
        <4> SUFFICES ASSUME NEW th \in Threads, NEW d \in Nat, Has(T2, o2, e, th, d) PROVE FALSE
          OBVIOUS
        <4>1. ~(th = a /\ d = b)
          BY DEF Has, Absent
        <4>. QED BY <1>6, <2>1, <2>2, <4>1 DEF LineOK, OthersStay
      <3>2. \A th \in Threads, d \in Nat : Queued(r, th, d) <=> Wants(T2, o2, e, th, d)
        BY <1>3, <2>1, <2>2 DEF LineOK, OthersStay, Absent
      <3>. QED BY <1>3, <1>4, <2>2, <3>1, <3>2 DEF LineOK
    <2>3. CASE e # emp
      <3>1. \A th \in Threads, d \in Nat : Has(T2, o2, e, th, d) => Has(T, o, e, th, d)
        BY DEF Has, Absent, OthersStay
      <3>. QED BY <1>4, <1>9, <2>1, <2>3, <3>1 DEF LineOK, OthersStay, Absent
    <2>. QED BY <2>2, <2>3
  <1>. QED BY <1>5, <1>7 DEF LinesOK, Q2

-----------------------------------------------------------------------------
(* Calls and their frames.                                                  *)

LEMMA StackPrefix ==
    ASSUME NEW F, NEW s \in Seq(F), NEW n \in Nat, n <= Len(s)
    PROVE  LET r == SubSeq(s, 1, n)
           IN r \in Seq(F) /\ Len(r) = n /\ \A d \in 1..n : r[d] = s[d]
  <1> DEFINE r == SubSeq(s, 1, n)
  <1>1. Len(s) \in Nat /\ \A i \in 1..n : s[i] \in F
    BY ElementOfSeq
  <1>2. /\ r \in Seq(F) /\ Len(r) = IF 1 <= n THEN n - 1 + 1 ELSE 0
        /\ \A i \in 1..n - 1 + 1 : r[i] = s[1 + i - 1]
    BY <1>1, SubSeqProperties
  <1> HIDE DEF r
  <1>3. n - 1 + 1 = n /\ \A i \in 1..n : 1 + i - 1 = i
    OBVIOUS
  <1>. QED BY <1>2, <1>3 DEF r

\* A stack whose top frame is replaced, taken away, or put below a new one.
LEMMA StackTop ==
    ASSUME NEW F, NEW s \in Seq(F), Len(s) > 0, NEW f
    PROVE  LET t == Append(Front(s), f)
           IN /\ Len(t) = Len(s) /\ t[Len(s)] = f /\ Last(s) = s[Len(s)] /\ Last(t) = f
              /\ \A d \in 1..Len(s) - 1 : t[d] = s[d]
  <1> DEFINE r == Front(s)
             t == Append(r, f)
  <1>1. Len(s) \in Nat /\ Len(s) - 1 \in Nat /\ Len(s) - 1 <= Len(s)
    OBVIOUS
  <1>2. r \in Seq(F) /\ Len(r) = Len(s) - 1 /\ \A d \in 1..Len(s) - 1 : r[d] = s[d]
    BY <1>1, StackPrefix DEF Front
  <1> HIDE DEF r
  <1>3. Len(t) = Len(s) /\ t[Len(s)] = f /\ \A d \in 1..Len(s) - 1 : t[d] = r[d]
    BY <1>1, <1>2
  <1>. QED BY <1>2, <1>3 DEF Last, r

LEMMA StackPush ==
    ASSUME NEW F, NEW s \in Seq(F), Len(s) > 0, NEW g \in F, NEW f
    PROVE  LET t == Append(Append(Front(s), g), f)
           IN /\ Len(t) = Len(s) + 1 /\ t[Len(s)] = g /\ t[Len(s) + 1] = f
              /\ \A d \in 1..Len(s) - 1 : t[d] = s[d]
  <1> DEFINE r == Append(Front(s), g)
             t == Append(r, f)
  <1>1. Len(s) \in Nat /\ Front(s) \in Seq(F)
    BY FrontAndLast
  <1>2. r \in Seq(F) /\ Len(r) = Len(s) /\ r[Len(s)] = g /\ \A d \in 1..Len(s) - 1 : r[d] = s[d]
    BY <1>1, StackTop
  <1> HIDE DEF r
  <1>3. /\ Len(t) = Len(s) + 1 /\ t[Len(s) + 1] = f
        /\ \A d \in 1..Len(s) : t[d] = r[d]
    BY <1>1, <1>2
  <1>. QED BY <1>1, <1>2, <1>3 DEF r

LEMMA StackPop ==
    ASSUME NEW F, NEW s \in Seq(F), Len(s) > 1, NEW g
    PROVE  LET t == Append(SubSeq(s, 1, Len(s) - 2), g)
           IN /\ Len(t) = Len(s) - 1 /\ t[Len(s) - 1] = g
              /\ \A d \in 1..Len(s) - 2 : t[d] = s[d]
  <1> DEFINE r == SubSeq(s, 1, Len(s) - 2)
             t == Append(r, g)
  <1>1. Len(s) \in Nat /\ Len(s) - 2 \in Nat /\ Len(s) - 2 <= Len(s)
    OBVIOUS
  <1>2. r \in Seq(F) /\ Len(r) = Len(s) - 2 /\ \A d \in 1..Len(s) - 2 : r[d] = s[d]
    BY <1>1, StackPrefix
  <1> HIDE DEF r
  <1>3. /\ Len(t) = Len(s) - 1 /\ t[Len(s) - 1] = g
        /\ \A d \in 1..Len(s) - 2 : t[d] = r[d]
    BY <1>1, <1>2
  <1>. QED BY <1>2, <1>3 DEF r

\* A call that is over has no frames.  Work that is sent, and a recovered review that
\* waits for its turn, are at the bottom; the frames below the top one wait for a dispatch.
CallShape(r) ==
    /\ (r.kind = "idle") <=> (Len(r.stack) = 0)
    /\ \A d \in 1..Len(r.stack) :
          /\ r.stack[d].op = "send" => d = 1
          /\ r.stack[d].pc \in {"resume", "rebuild"} => r.stack[d].op = "send"
          /\ r.stack[d].pc = "chain" => d = 1 /\ r.stack[d].emp = Reviewer
          /\ d < Len(r.stack) => r.stack[d].pc = "dispatch"

ShapeOK(T) == \A th \in Threads : CallShape(T[th])

\* Call th is the sendTask of task t in epoch ep, and its agent has not failed yet.
Drives(T, ep, th, t) ==
    /\ Len(T[th].stack) > 0
    /\ T[th].stack[1].op = "send" /\ T[th].stack[1].task = t /\ T[th].stack[1].epoch = ep
    /\ T[th].stack[1].pc \notin {"resume", "rebuild"}

\* The call whose lock was released before its retry.
Out == IF pending.step = "retry" THEN pending.caller ELSE NoThread

\* What the second transaction of a step relies on.
PendingShape ==
    /\ pending.step = "start" =>
          Free # {} /\ (pending.caller # Client => Top(pending.caller).pc = "dispatch")
    /\ pending.step = "retry" =>
          /\ Depth(pending.caller) = 1
          /\ Top(pending.caller).op = "send" /\ Top(pending.caller).task = pending.task

Connected == ShapeOK(thread) /\ LinesOK(thread, queue, Out) /\ PendingShape

\* What is running is driven by some call.
Driven == accepting => \A t \in Running : \E th \in Threads : Drives(thread, epoch, th, t)

\* The facts about the top of a call.
LEMMA TopFacts ==
    ASSUME CallsOK, NEW th \in Threads, Active(th)
    PROVE  /\ thread[th].stack \in Seq(Frames) /\ Len(thread[th].stack) > 0
           /\ Depth(th) = Len(thread[th].stack) /\ Depth(th) \in Nat /\ Depth(th) > 0
           /\ Top(th) = thread[th].stack[Depth(th)]
           /\ Top(th) \in Frames /\ Top(th) \in CallFrame /\ Top(th).emp \in Employees
           /\ Top(th).task \in Tasks
           /\ Depth(th) \in 1..Len(thread[th].stack)
  <1>1. Top(th) \in Frames /\ Top(th) \in CallFrame /\ thread[th].stack \in Seq(Frames)
    BY TopIsFrame
  <1>2. Len(thread[th].stack) > 0 /\ Depth(th) = Len(thread[th].stack) /\ Len(thread[th].stack) \in Nat
    BY <1>1 DEF Active, Depth
  <1>3. Top(th) = thread[th].stack[Depth(th)]
    BY <1>2 DEF Top, Last
  <1>4. Top(th).emp \in Employees /\ Top(th).task \in Tasks
    BY <1>1 DEF CallFrame
  <1>. QED BY <1>1, <1>2, <1>3, <1>4

\* What replaces the top frame, as it matters to the locks.
LEMMA WithTopIs ==
    ASSUME CallsOK, NEW a \in Threads, Active(a), NEW f
    PROVE  LET T2 == WithTop(a, f)
               n == Depth(a)
           IN /\ \A th \in Threads : th # a => T2[th] = thread[th]
              /\ T2[a].kind = thread[a].kind /\ Len(T2[a].stack) = n /\ T2[a].stack[n] = f
              /\ \A d \in 1..n - 1 : T2[a].stack[d] = thread[a].stack[d]
              /\ Last(T2[a].stack) = f
  <1> DEFINE s == thread[a].stack
             n == Depth(a)
             T2 == WithTop(a, f)
  <1>1. s \in Seq(Frames) /\ Len(s) > 0 /\ n = Len(s)
    BY TopFacts
  <1>2. T2[a].stack = Append(Front(s), f) /\ T2[a].kind = thread[a].kind
    BY DEF WithTop, CallsOK, Calls
  <1>3. \A th \in Threads : th # a => T2[th] = thread[th]
    BY DEF WithTop, CallsOK, Calls
  <1> DEFINE t == Append(Front(s), f)
  <1>4. /\ Len(t) = Len(s) /\ t[Len(s)] = f /\ Last(t) = f
        /\ \A d \in 1..Len(s) - 1 : t[d] = s[d]
    <2> HIDE DEF s
    <2>. QED BY <1>1, StackTop
  <1> HIDE DEF T2, n, t, s
  <1>5. T2[a].stack = t
    BY <1>2 DEF t, s
  <1>. QED BY <1>1, <1>2, <1>3, <1>4, <1>5 DEF T2, n, s

\* A frame that goes on where it is: its lock is its own.
Onward(f, g) == g.op = f.op /\ g.task = f.task /\ g.emp = f.emp /\ g.epoch = f.epoch

LEMMA AdvanceConnects ==
    ASSUME CallsOK, Connected, NEW a \in Threads, Active(a), a # Out,
           First(queue[Top(a).emp], a, Depth(a)), Top(a).pc \notin {"chain", "resume", "rebuild"},
           NEW f, Onward(Top(a), f), f.pc \in {"stream", "failed", "dispatch"}
    PROVE  /\ ShapeOK(WithTop(a, f)) /\ LinesOK(WithTop(a, f), queue, Out)
           /\ \A th \in Threads, t \in Tasks :
                 Drives(thread, epoch, th, t) => Drives(WithTop(a, f), epoch, th, t)
           /\ \A th \in Threads : WithTop(a, f)[th].kind = thread[th].kind
  <1> DEFINE T2 == WithTop(a, f)
             n == Depth(a)
             s == thread[a].stack
  <1>1. /\ n \in Nat /\ n > 0 /\ n = Len(s) /\ Top(a) = s[n] /\ Top(a).emp \in Employees
    BY TopFacts
  <1>2. /\ \A th \in Threads : th # a => T2[th] = thread[th]
        /\ T2[a].kind = thread[a].kind /\ Len(T2[a].stack) = n /\ T2[a].stack[n] = f
        /\ \A d \in 1..n - 1 : T2[a].stack[d] = s[d]
    BY WithTopIs
  <1>3. \A d \in 1..n : d = n \/ d \in 1..n - 1
    BY <1>1
  <1> HIDE DEF T2
  <1>4. ASSUME NEW th \in Threads PROVE CallShape(T2[th])
    <2>1. CallShape(thread[th])
      BY DEF Connected, ShapeOK
    <2>2. CASE th # a
      BY <1>2, <2>1, <2>2
    <2>3. CASE th = a
      <3>1. /\ f.op = "send" => n = 1
            /\ f.pc \notin {"resume", "rebuild", "chain"}
        <4>1. n \in 1..Len(thread[a].stack)
          BY <1>1
        <4>2. s[n].op = "send" => n = 1
          BY <2>1, <2>3, <4>1 DEF CallShape
        <4>. QED BY <1>1, <4>2 DEF Onward
      <3>2. n \in 1..n
        BY <1>1
      <3>3. Len(thread[a].stack) = n /\ n \in Nat /\ n > 0 /\ Len(T2[a].stack) = n
        BY <1>1, <1>2
      <3>4. T2[a].kind = "idle" <=> Len(T2[a].stack) = 0
        BY <1>2, <2>1, <2>3, <3>3 DEF CallShape
      <3>5. ASSUME NEW d \in 1..n
            PROVE  /\ T2[a].stack[d].op = "send" => d = 1
                   /\ T2[a].stack[d].pc \in {"resume", "rebuild"} => T2[a].stack[d].op = "send"
                   /\ T2[a].stack[d].pc = "chain" => d = 1 /\ T2[a].stack[d].emp = Reviewer
                   /\ d < n => T2[a].stack[d].pc = "dispatch"
        <4>1. CASE d = n
          BY <1>2, <3>1, <4>1
        <4>2. CASE d \in 1..n - 1
          <5>1. d < n /\ d \in 1..Len(thread[a].stack) /\ T2[a].stack[d] = thread[a].stack[d]
            BY <1>1, <1>2, <4>2
          <5>. QED BY <2>1, <2>3, <3>3, <5>1 DEF CallShape
        <4>. QED BY <1>3, <4>1, <4>2
      <3> HIDE DEF n, s
      <3>. QED BY <2>3, <3>3, <3>4, <3>5 DEF CallShape
    <2>. QED BY <2>2, <2>3
  <1>5. ASSUME NEW e \in Employees, NEW th \in Threads, NEW d \in Nat
        PROVE  /\ Wants(T2, Out, e, th, d) <=> Wants(thread, Out, e, th, d)
               /\ Has(T2, Out, e, th, d) => Has(thread, Out, e, th, d) \/ First(queue[e], th, d)
    <2>1. CASE th # a
      BY <1>2, <2>1 DEF Wants, Has
    <2>2. CASE th = a /\ d # n
      BY <1>1, <1>2, <1>3, <2>2 DEF Wants, Has
    <2>3. CASE th = a /\ d = n
      BY <1>1, <1>2, <2>3 DEF Wants, Has, Onward
    <2>. QED BY <2>1, <2>2, <2>3
  <1>6. LinesOK(T2, queue, Out)
    BY <1>5, LinesStay DEF Connected
  <1>7. ASSUME NEW th \in Threads, NEW t \in Tasks, Drives(thread, epoch, th, t)
        PROVE  Drives(T2, epoch, th, t)
    <2>1. CASE th # a
      BY <1>2, <1>7, <2>1 DEF Drives
    <2>2. CASE th = a /\ n = 1
      BY <1>1, <1>2, <1>7, <2>2 DEF Drives, Onward
    <2>3. CASE th = a /\ n # 1
      <3>1. 1 \in 1..n - 1
        <4>1. \A k \in Nat : k > 0 /\ k # 1 => 1 \in 1..k - 1
          OBVIOUS
        <4>. QED BY <1>1, <2>3, <4>1
      <3>2. T2[a].stack[1] = thread[a].stack[1] /\ Len(T2[a].stack) > 0
        BY <1>1, <1>2, <3>1
      <3>. QED BY <1>7, <2>3, <3>2 DEF Drives
    <2>. QED BY <2>1, <2>2, <2>3
  <1>. QED BY <1>2, <1>4, <1>6, <1>7 DEF ShapeOK, T2

LEMMA NoThreadIsNone == NoThread \notin Threads
  BY OrchestratorAssumption

\* A call that is over wants no lock.
LEMMA EndConnects ==
    ASSUME CallsOK, Connected, NEW a \in Threads, Depth(a) = 1, Active(a), NEW Q,
           \/ /\ Out = NoThread /\ First(queue[Top(a).emp], a, 1)
              /\ Q = [queue EXCEPT ![Top(a).emp] = Tail(@)]
           \/ Out = a /\ Q = queue
           \/ Out = NoThread /\ Top(a).pc = "chain" /\ Q = queue
    PROVE  LET T2 == [thread EXCEPT ![a] = Idle]
           IN /\ ShapeOK(T2) /\ LinesOK(T2, Q, NoThread)
              /\ \A th \in Threads, t \in Tasks :
                    th # a /\ Drives(thread, epoch, th, t) => Drives(T2, epoch, th, t)
  <1> DEFINE T2 == [thread EXCEPT ![a] = Idle]
  <1>1. /\ \A th \in Threads : th # a => T2[th] = thread[th]
        /\ T2[a].kind = "idle" /\ Len(T2[a].stack) = 0
    BY DEF CallsOK, Calls, Idle
  <1>2. Len(thread[a].stack) = 1 /\ Top(a) = thread[a].stack[1] /\ Top(a).emp \in Employees
    BY TopFacts
  <1> HIDE DEF T2
  <1>3. ASSUME NEW th \in Threads PROVE CallShape(T2[th])
    <2>1. CallShape(thread[th])
      BY DEF Connected, ShapeOK
    <2>2. CASE th # a
      BY <1>1, <2>1, <2>2
    <2>3. CASE th = a
      BY <1>1, <2>3 DEF CallShape
    <2>. QED BY <2>2, <2>3
  <1>4. ASSUME NEW e \in Employees, NEW d \in Nat PROVE ~Wants(T2, NoThread, e, a, d)
    BY <1>1 DEF Wants
  <1>5. ASSUME NEW e \in Employees, NEW th \in Threads, NEW d \in Nat, th # a, Out \in {a, NoThread}
        PROVE  /\ Wants(T2, NoThread, e, th, d) <=> Wants(thread, Out, e, th, d)
               /\ Has(T2, NoThread, e, th, d) => Has(thread, Out, e, th, d)
    BY <1>1, <1>5, NoThreadIsNone DEF Wants, Has
  <1>6. LinesOK(T2, Q, NoThread)
    <2>1. CASE First(queue[Top(a).emp], a, 1) /\ Out = NoThread /\ Q = [queue EXCEPT ![Top(a).emp] = Tail(@)]
      <3>1. ASSUME NEW e \in Employees, NEW th \in Threads, NEW d \in Nat, ~(th = a /\ d = 1)
            PROVE  /\ Wants(T2, NoThread, e, th, d) <=> Wants(thread, Out, e, th, d)
                   /\ Has(T2, NoThread, e, th, d) => Has(thread, Out, e, th, d)
        <4>1. CASE th # a
          BY <1>5, <2>1, <4>1
        <4>2. CASE th = a /\ d # 1
          <5>1. ~Wants(thread, Out, e, th, d) /\ ~Has(T2, NoThread, e, th, d)
            BY <1>1, <1>2, <4>2 DEF Wants, Has
          <5>. QED BY <1>4, <4>2, <5>1
        <4>. QED BY <3>1, <4>1, <4>2
      <3>2. \A e \in Employees : ~Wants(T2, NoThread, e, a, 1)
        BY <1>4
      <3>3. LinesOK(thread, queue, Out) /\ 1 \in Nat
        BY DEF Connected
      <3> DEFINE emp == Top(a).emp
      <3>4. emp \in Employees /\ First(queue[emp], a, 1) /\ Q = [queue EXCEPT ![emp] = Tail(@)]
        BY <1>2, <2>1
      <3> HIDE DEF emp
      <3>5. LinesOK(T2, [queue EXCEPT ![emp] = Tail(@)], NoThread)
        <4>1. OthersStay(thread, Out, T2, NoThread, a, 1) /\ Absent(T2, NoThread, a, 1)
          BY <3>1, <3>2 DEF OthersStay, Absent
        <4>. QED BY <3>3, <3>4, <4>1, LinesLeave
      <3>. QED BY <3>4, <3>5
    <2>2. CASE (Out = a \/ (Out = NoThread /\ Top(a).pc = "chain")) /\ Q = queue
      <3>1. ASSUME NEW e \in Employees, NEW th \in Threads, NEW d \in Nat
            PROVE  /\ Wants(T2, NoThread, e, th, d) <=> Wants(thread, Out, e, th, d)
                   /\ Has(T2, NoThread, e, th, d) => Has(thread, Out, e, th, d)
        <4>1. CASE th # a
          BY <1>5, <2>2, <4>1
        <4>2. CASE th = a
          <5>1. ~Wants(thread, Out, e, th, d) /\ ~Has(T2, NoThread, e, th, d)
            BY <1>1, <1>2, <2>2, <4>2 DEF Wants, Has
          <5>. QED BY <1>4, <4>2, <5>1
        <4>. QED BY <4>1, <4>2
      <3>2. LinesOK(thread, queue, Out)
        BY DEF Connected
      <3>. QED BY <2>2, <3>1, <3>2, LinesStay
    <2>. QED BY <2>1, <2>2
  <1>7. ASSUME NEW th \in Threads, NEW t \in Tasks, th # a, Drives(thread, epoch, th, t)
        PROVE  Drives(T2, epoch, th, t)
    BY <1>1, <1>7 DEF Drives
  <1>. QED BY <1>3, <1>6, <1>7 DEF ShapeOK, T2

\* A call whose lock is released, and that is about to retry.
LEMMA SuspendConnects ==
    ASSUME CallsOK, Connected, NEW a \in Threads, Depth(a) = 1, Active(a), Out = NoThread,
           First(queue[Top(a).emp], a, 1)
    PROVE  LinesOK(thread, [queue EXCEPT ![Top(a).emp] = Tail(@)], a)
  <1>1. Len(thread[a].stack) = 1 /\ Top(a) = thread[a].stack[1] /\ Top(a).emp \in Employees
    BY TopFacts
  <1>2. \A e \in Employees : ~Wants(thread, a, e, a, 1)
    BY DEF Wants
  <1>3. ASSUME NEW e \in Employees, NEW th \in Threads, NEW d \in Nat, ~(th = a /\ d = 1)
        PROVE  /\ Wants(thread, a, e, th, d) <=> Wants(thread, Out, e, th, d)
               /\ Has(thread, a, e, th, d) => Has(thread, Out, e, th, d)
    BY <1>1, <1>3, NoThreadIsNone DEF Wants, Has
  <1>4. LinesOK(thread, queue, Out) /\ 1 \in Nat
    BY DEF Connected
  <1> DEFINE emp == Top(a).emp
  <1>5. emp \in Employees /\ First(queue[emp], a, 1)
    BY <1>1
  <1> HIDE DEF emp
  <1>6. LinesOK(thread, [queue EXCEPT ![emp] = Tail(@)], a)
    <2>1. OthersStay(thread, Out, thread, a, a, 1) /\ Absent(thread, a, a, 1)
      BY <1>2, <1>3 DEF OthersStay, Absent
    <2>. QED BY <1>4, <1>5, <2>1, LinesLeave
  <1>. QED BY <1>6 DEF emp

\* It joins the line again.
LEMMA RequeueConnects ==
    ASSUME CallsOK, ShapeOK(thread), NEW a \in Threads, Depth(a) = 1, Active(a),
           NEW Q, LinesOK(thread, Q, a),
           NEW f, f.emp \in Employees, f.pc \in Waiting,
           f.pc = "lock" \/ f.op = "send"
    PROVE  /\ ShapeOK(WithTop(a, f))
           /\ LinesOK(WithTop(a, f), [Q EXCEPT ![f.emp] = Append(@, <<a, 1>>)], NoThread)
           /\ \A th \in Threads, t \in Tasks :
                 th # a /\ Drives(thread, epoch, th, t) => Drives(WithTop(a, f), epoch, th, t)
           /\ f.op = "send" /\ f.pc = "lock" => Drives(WithTop(a, f), f.epoch, a, f.task)
           /\ \A th \in Threads : WithTop(a, f)[th].kind = thread[th].kind
  <1> DEFINE T2 == WithTop(a, f)
  <1>1. /\ \A th \in Threads : th # a => T2[th] = thread[th]
        /\ T2[a].kind = thread[a].kind /\ Len(T2[a].stack) = 1 /\ T2[a].stack[1] = f
    <2>1. /\ \A th \in Threads : th # a => T2[th] = thread[th]
          /\ T2[a].kind = thread[a].kind /\ Len(T2[a].stack) = Depth(a)
          /\ T2[a].stack[Depth(a)] = f
      <3>1. /\ \A th \in Threads : th # a => WithTop(a, f)[th] = thread[th]
            /\ WithTop(a, f)[a].kind = thread[a].kind /\ Len(WithTop(a, f)[a].stack) = Depth(a)
            /\ WithTop(a, f)[a].stack[Depth(a)] = f
        BY ONLY CallsOK, a \in Threads, Active(a), WithTopIs
      <3>. QED BY <3>1
    <2> HIDE DEF T2
    <2>. QED BY <2>1
  <1>2. Len(thread[a].stack) = 1 /\ Top(a) = thread[a].stack[1]
    BY TopFacts
  <1> HIDE DEF T2
  <1>3. ASSUME NEW th \in Threads PROVE CallShape(T2[th])
    <2>1. CallShape(thread[th])
      BY DEF ShapeOK
    <2>2. CASE th # a
      BY <1>1, <2>1, <2>2
    <2>3. CASE th = a
      BY <1>1, <1>2, <2>1, <2>3 DEF CallShape, Waiting
    <2>. QED BY <2>2, <2>3
  <1>4. ASSUME NEW e \in Employees
        PROVE  /\ ~Wants(thread, a, e, a, 1)
               /\ Wants(T2, NoThread, e, a, 1) <=> e = f.emp
               /\ ~Has(T2, NoThread, e, a, 1)
    BY <1>1, NoThreadIsNone DEF Wants, Has, Waiting
  <1>5. ASSUME NEW e \in Employees, NEW th \in Threads, NEW d \in Nat, ~(th = a /\ d = 1)
        PROVE  /\ Wants(T2, NoThread, e, th, d) <=> Wants(thread, a, e, th, d)
               /\ Has(T2, NoThread, e, th, d) => Has(thread, a, e, th, d)
    BY <1>1, <1>5, NoThreadIsNone DEF Wants, Has
  <1>6. LinesOK(T2, [Q EXCEPT ![f.emp] = Append(@, <<a, 1>>)], NoThread)
    <2>1. 1 \in Nat
      OBVIOUS
    <2>2. OthersStay(thread, a, T2, NoThread, a, 1) /\ Absent(thread, a, a, 1)
      BY <1>4, <1>5 DEF OthersStay, Absent
    <2>. QED BY <1>4, <2>1, <2>2, LinesEnter
  <1>7. ASSUME NEW th \in Threads, NEW t \in Tasks, th # a, Drives(thread, epoch, th, t)
        PROVE  Drives(T2, epoch, th, t)
    BY <1>1, <1>7 DEF Drives
  <1>8. f.op = "send" /\ f.pc = "lock" => Drives(T2, f.epoch, a, f.task)
    BY <1>1 DEF Drives
  <1>. QED BY <1>1, <1>3, <1>6, <1>7, <1>8 DEF ShapeOK, T2

\* A call starts, with one frame that waits for its lock.
LEMMA OpenConnects ==
    ASSUME NEW F, NEW T \in Calls(F), ShapeOK(T), NEW Q, LinesOK(T, Q, NoThread),
           NEW a \in Threads, T[a].kind = "idle",
           NEW kind, kind # "idle", NEW u, NEW f, f.emp \in Employees, f.pc = "lock"
    PROVE  LET T2 == [T EXCEPT ![a] = [kind |-> kind, task |-> u, stack |-> <<f>>]]
           IN /\ ShapeOK(T2)
              /\ LinesOK(T2, [Q EXCEPT ![f.emp] = Append(@, <<a, 1>>)], NoThread)
              /\ \A th \in Threads : \A t, ep : Drives(T, ep, th, t) => Drives(T2, ep, th, t)
              /\ f.op = "send" => Drives(T2, f.epoch, a, f.task)
  <1> DEFINE r == [kind |-> kind, task |-> u, stack |-> <<f>>]
             T2 == [T EXCEPT ![a] = r]
  <1>0. r.kind = kind /\ Len(r.stack) = 1 /\ r.stack[1] = f
    OBVIOUS
  <1> HIDE DEF r
  <1>1. /\ \A th \in Threads : th # a => T2[th] = T[th]
        /\ T2[a].kind = kind /\ Len(T2[a].stack) = 1 /\ T2[a].stack[1] = f
    BY <1>0 DEF Calls
  <1>2. Len(T[a].stack) = 0
    BY DEF ShapeOK, CallShape
  <1> HIDE DEF T2
  <1>3. ASSUME NEW th \in Threads PROVE CallShape(T2[th])
    <2>1. CallShape(T[th])
      BY DEF ShapeOK
    <2>2. CASE th # a
      BY <1>1, <2>1, <2>2
    <2>3. CASE th = a
      <3>1. \A d \in 1..1 : d = 1
        OBVIOUS
      <3>2. /\ T2[th].kind # "idle" /\ Len(T2[th].stack) = 1 /\ T2[th].stack[1].pc = "lock"
        BY <1>1, <2>3
      <3>. QED BY <3>1, <3>2 DEF CallShape
    <2>. QED BY <2>2, <2>3
  <1>4. ASSUME NEW e \in Employees
        PROVE  /\ ~Wants(T, NoThread, e, a, 1)
               /\ Wants(T2, NoThread, e, a, 1) <=> e = f.emp
               /\ ~Has(T2, NoThread, e, a, 1)
    BY <1>1, <1>2, NoThreadIsNone DEF Wants, Has, Waiting
  <1>5. ASSUME NEW e \in Employees, NEW th \in Threads, NEW d \in Nat, ~(th = a /\ d = 1)
        PROVE  /\ Wants(T2, NoThread, e, th, d) <=> Wants(T, NoThread, e, th, d)
               /\ Has(T2, NoThread, e, th, d) => Has(T, NoThread, e, th, d)
    BY <1>1, <1>2, <1>5 DEF Wants, Has
  <1>6. LinesOK(T2, [Q EXCEPT ![f.emp] = Append(@, <<a, 1>>)], NoThread)
    <2>1. 1 \in Nat
      OBVIOUS
    <2>2. OthersStay(T, NoThread, T2, NoThread, a, 1) /\ Absent(T, NoThread, a, 1)
      BY <1>4, <1>5 DEF OthersStay, Absent
    <2>. QED BY <1>4, <2>1, <2>2, LinesEnter
  <1>7. ASSUME NEW th \in Threads, NEW t, NEW ep, Drives(T, ep, th, t)
        PROVE  Drives(T2, ep, th, t)
    <2>1. th # a
      BY <1>2, <1>7 DEF Drives
    <2>. QED BY <1>1, <1>7, <2>1 DEF Drives
  <1>8. f.op = "send" => Drives(T2, f.epoch, a, f.task)
    BY <1>1 DEF Drives
  <1>. QED BY <1>3, <1>6, <1>7, <1>8 DEF ShapeOK, T2, r

\* The dispatch of a frame enters another turn.
LEMMA NestedConnects ==
    ASSUME CallsOK, Connected, NEW a \in Threads, Active(a), Out = NoThread, Top(a).pc = "stream",
           NEW g \in Frames, Onward(Top(a), g), g.pc = "dispatch",
           NEW f, f.emp \in Employees, f.pc = "lock", f.op # "send"
    PROVE  LET T2 == [thread EXCEPT ![a].stack = Append(Append(Front(@), g), f)]
           IN /\ ShapeOK(T2)
              /\ LinesOK(T2, [queue EXCEPT ![f.emp] = Append(@, <<a, Depth(a) + 1>>)], NoThread)
              /\ \A th \in Threads, t \in Tasks :
                    Drives(thread, epoch, th, t) => Drives(T2, epoch, th, t)
  <1> DEFINE T2 == [thread EXCEPT ![a].stack = Append(Append(Front(@), g), f)]
             n == Depth(a)
             s == thread[a].stack
             t2 == Append(Append(Front(s), g), f)
  <1>1. /\ s \in Seq(Frames) /\ Len(s) > 0 /\ n \in Nat /\ n > 0 /\ n = Len(s) /\ Top(a) = s[n]
        /\ Top(a).emp \in Employees
    BY TopFacts
  <1>2. /\ Len(t2) = n + 1 /\ t2[n] = g /\ t2[n + 1] = f
        /\ \A d \in 1..n - 1 : t2[d] = s[d]
    <2> HIDE DEF n, s
    <2>. QED BY <1>1, StackPush
  <1>3. /\ \A th \in Threads : th # a => T2[th] = thread[th]
        /\ T2[a].kind = thread[a].kind /\ T2[a].stack = t2
    BY DEF CallsOK, Calls
  <1>4. /\ \A d \in 1..n + 1 : d = n + 1 \/ d = n \/ d \in 1..n - 1
        /\ \A d \in 1..n - 1 : d \in 1..n /\ d < n
        /\ n \in 1..n /\ n + 1 > n /\ n + 1 # 1 /\ n + 1 \in Nat /\ n + 1 > 0 /\ n + 1 # n
        /\ \A d \in 1..n : d \in 1..n + 1
        /\ n + 1 \in 1..n + 1 /\ n + 1 \notin 1..n
    BY <1>1
  <1>5. CallShape(thread[a]) /\ thread[a].kind # "idle"
    BY <1>1 DEF Connected, ShapeOK, CallShape
  <1> HIDE DEF T2, t2, n, s
  <1>6. /\ g.op = "send" => n = 1
        /\ n \in 1..n
    BY <1>1, <1>4, <1>5 DEF CallShape, Onward, s
  <1>7. ASSUME NEW th \in Threads PROVE CallShape(T2[th])
    <2>1. CallShape(thread[th])
      BY DEF Connected, ShapeOK
    <2>2. CASE th # a
      BY <1>3, <2>1, <2>2
    <2>3. CASE th = a
      <3>1. T2[a].kind # "idle" /\ Len(T2[a].stack) = n + 1 /\ n + 1 > 0
        BY <1>2, <1>3, <1>4, <1>5
      <3>2. ASSUME NEW d \in 1..n + 1
            PROVE  /\ t2[d].op = "send" => d = 1
                   /\ t2[d].pc \in {"resume", "rebuild"} => t2[d].op = "send"
                   /\ t2[d].pc = "chain" => d = 1 /\ t2[d].emp = Reviewer
                   /\ d < n + 1 => t2[d].pc = "dispatch"
        <4>1. CASE d = n + 1
          BY <1>2, <1>4, <4>1
        <4>2. CASE d = n
          BY <1>2, <1>6, <4>2
        <4>3. CASE d \in 1..n - 1
          <5>1. t2[d] = s[d] /\ d \in 1..n /\ d < n
            BY <1>2, <1>4, <4>3
          <5>. QED BY <1>1, <1>5, <5>1 DEF CallShape, s
        <4>. QED BY <1>4, <4>1, <4>2, <4>3
      <3>. QED BY <1>3, <2>3, <3>1, <3>2 DEF CallShape
    <2>. QED BY <2>2, <2>3
  <1>8. ASSUME NEW e \in Employees
        PROVE  /\ ~Wants(thread, Out, e, a, n + 1)
               /\ Wants(T2, NoThread, e, a, n + 1) <=> e = f.emp
               /\ ~Has(T2, NoThread, e, a, n + 1)
    BY <1>1, <1>2, <1>3, <1>4, NoThreadIsNone DEF Wants, Has, Waiting, s
  <1>9. ASSUME NEW e \in Employees, NEW th \in Threads, NEW d \in Nat, ~(th = a /\ d = n + 1)
        PROVE  /\ Wants(T2, NoThread, e, th, d) <=> Wants(thread, Out, e, th, d)
               /\ Has(T2, NoThread, e, th, d) => Has(thread, Out, e, th, d)
    <2>1. CASE th # a
      BY <1>3, <2>1, NoThreadIsNone DEF Wants, Has
    <2>2. CASE th = a /\ d \notin 1..n
      BY <1>1, <1>2, <1>3, <1>4, <1>9, <2>2 DEF Wants, Has, s
    <2>3. CASE th = a /\ d = n
      BY <1>1, <1>2, <1>3, <1>4, <2>3, NoThreadIsNone DEF Wants, Has, s, Onward, Waiting
    <2>4. CASE th = a /\ d \in 1..n - 1
      <3>1. t2[d] = thread[a].stack[d] /\ d \in 1..Len(thread[a].stack) /\ d \in 1..Len(t2)
        BY <1>1, <1>2, <1>4, <2>4 DEF s
      <3>. QED BY <1>3, <2>4, <3>1 DEF Wants, Has
    <2>. QED BY <1>4, <2>1, <2>2, <2>3, <2>4
  <1>10. LinesOK(T2, [queue EXCEPT ![f.emp] = Append(@, <<a, n + 1>>)], NoThread)
    <2>1. LinesOK(thread, queue, Out)
      BY DEF Connected
    <2>2. OthersStay(thread, Out, T2, NoThread, a, n + 1) /\ Absent(thread, Out, a, n + 1)
      BY <1>8, <1>9 DEF OthersStay, Absent
    <2>. QED BY <1>4, <1>8, <2>1, <2>2, LinesEnter
  <1>11. ASSUME NEW th \in Threads, NEW t \in Tasks, Drives(thread, epoch, th, t)
         PROVE  Drives(T2, epoch, th, t)
    <2>1. CASE th # a
      BY <1>3, <1>11, <2>1 DEF Drives
    <2>2. CASE th = a /\ n = 1
      BY <1>1, <1>2, <1>3, <1>4, <1>11, <2>2 DEF Drives, Onward, s
    <2>3. CASE th = a /\ n # 1
      <3>1. \A k \in Nat : k > 0 /\ k # 1 => 1 \in 1..k - 1
        OBVIOUS
      <3>2. 1 \in 1..n - 1
        BY <1>1, <2>3, <3>1
      <3>3. T2[a].stack[1] = thread[a].stack[1] /\ Len(T2[a].stack) > 0
        BY <1>2, <1>3, <1>4, <3>2 DEF s
      <3>. QED BY <1>11, <2>3, <3>3 DEF Drives
    <2>. QED BY <2>1, <2>2, <2>3
  <1>. QED BY <1>7, <1>10, <1>11 DEF ShapeOK, T2, n

\* The top frame returns to the dispatch of the frame below it.
LEMMA PopConnects ==
    ASSUME CallsOK, Connected, NEW a \in Threads, Active(a), Depth(a) # 1, Out = NoThread,
           First(queue[Top(a).emp], a, Depth(a)), NEW pc \in {"stream", "failed"}
    PROVE  LET T2 == [thread EXCEPT ![a].stack =
                         Append(SubSeq(@, 1, Depth(a) - 2), [thread[a].stack[Depth(a) - 1] EXCEPT !.pc = pc])]
           IN /\ ShapeOK(T2)
              /\ LinesOK(T2, [queue EXCEPT ![Top(a).emp] = Tail(@)], NoThread)
              /\ \A th \in Threads, t \in Tasks :
                    Drives(thread, epoch, th, t) => Drives(T2, epoch, th, t)
  <1> DEFINE n == Depth(a)
             s == thread[a].stack
             g == [s[n - 1] EXCEPT !.pc = pc]
             t2 == Append(SubSeq(s, 1, n - 2), g)
             T2 == [thread EXCEPT ![a].stack = Append(SubSeq(@, 1, n - 2), g)]
  <1>0. \A k \in Nat : k > 0 /\ k # 1 => /\ k > 1 /\ k - 1 \in 1..k /\ k - 1 < k /\ k - 1 > 0 /\ k - 1 # k
                                         /\ k - 1 \in Nat /\ k \notin 1..k - 1
                                         /\ \A d \in 1..k - 1 : d = k - 1 \/ d \in 1..k - 2
                                         /\ \A d \in 1..k - 2 : d \in 1..k /\ d \in 1..k - 1 /\ d < k /\ d < k - 1
                                         /\ \A d \in 1..k : d = k \/ d \in 1..k - 1
                                         /\ k - 1 # 1 => 1 \in 1..k - 2
    OBVIOUS
  <1>1. /\ s \in Seq(Frames) /\ n \in Nat /\ n > 0 /\ n = Len(s) /\ Top(a) = s[n]
        /\ Top(a).emp \in Employees
    BY TopFacts
  <1>2. /\ n > 1 /\ n - 1 \in 1..n /\ n - 1 < n /\ n - 1 > 0 /\ n - 1 # n
        /\ n - 1 \in Nat /\ n \notin 1..n - 1
        /\ \A d \in 1..n - 1 : d = n - 1 \/ d \in 1..n - 2
        /\ \A d \in 1..n - 2 : d \in 1..n /\ d \in 1..n - 1 /\ d < n /\ d < n - 1
        /\ \A d \in 1..n : d = n \/ d \in 1..n - 1
        /\ n - 1 # 1 => 1 \in 1..n - 2
    BY <1>0, <1>1
  <1>3. /\ s[n - 1] \in CallFrame /\ g.pc = pc /\ Onward(s[n - 1], g)
    <2>1. s[n - 1] \in CallFrame
      BY <1>1, <1>2 DEF Frames
    <2>. QED BY <2>1 DEF CallFrame, Onward
  <1>4. /\ \A th \in Threads : th # a => T2[th] = thread[th]
        /\ T2[a].kind = thread[a].kind /\ T2[a].stack = t2
    BY DEF CallsOK, Calls
  <1> HIDE DEF g, T2
  <1>5. /\ Len(t2) = n - 1 /\ t2[n - 1] = g
        /\ \A d \in 1..n - 2 : t2[d] = s[d]
    <2>1. Len(s) > 1 /\ s \in Seq(Frames)
      BY <1>1, <1>2
    <2>2. Len(s) = n
      BY <1>1
    <2> HIDE DEF s
    <2>3. LET t == Append(SubSeq(s, 1, Len(s) - 2), g)
          IN /\ Len(t) = Len(s) - 1 /\ t[Len(s) - 1] = g
             /\ \A d \in 1..Len(s) - 2 : t[d] = s[d]
      BY <2>1, StackPop
    <2> HIDE DEF n
    <2>. QED BY <2>2, <2>3
  <1>6. CallShape(thread[a]) /\ thread[a].kind # "idle"
    BY <1>1 DEF Connected, ShapeOK, CallShape
  <1> HIDE DEF t2, n, s
  <1>7. s[n - 1].pc = "dispatch" /\ (s[n - 1].op = "send" => n - 1 = 1)
    BY <1>1, <1>2, <1>6 DEF CallShape, s
  <1>8. ASSUME NEW th \in Threads PROVE CallShape(T2[th])
    <2>1. CallShape(thread[th])
      BY DEF Connected, ShapeOK
    <2>2. CASE th # a
      BY <1>4, <2>1, <2>2
    <2>3. CASE th = a
      <3>1. T2[a].kind # "idle" /\ Len(T2[a].stack) = n - 1 /\ n - 1 > 0
        BY <1>2, <1>4, <1>5, <1>6
      <3>2. ASSUME NEW d \in 1..n - 1
            PROVE  /\ t2[d].op = "send" => d = 1
                   /\ t2[d].pc \in {"resume", "rebuild"} => t2[d].op = "send"
                   /\ t2[d].pc = "chain" => d = 1 /\ t2[d].emp = Reviewer
                   /\ d < n - 1 => t2[d].pc = "dispatch"
        <4>1. CASE d = n - 1
          BY <1>3, <1>5, <1>7, <4>1, <1>2 DEF Onward
        <4>2. CASE d \in 1..n - 2
          <5>1. t2[d] = s[d] /\ d \in 1..n /\ d < n
            BY <1>2, <1>5, <4>2
          <5>. QED BY <1>1, <1>6, <5>1 DEF CallShape, s
        <4>. QED BY <1>2, <4>1, <4>2
      <3>. QED BY <1>4, <2>3, <3>1, <3>2 DEF CallShape
    <2>. QED BY <2>2, <2>3
  <1>9. \A e \in Employees : ~Wants(T2, NoThread, e, a, n)
    BY <1>2, <1>4, <1>5 DEF Wants
  <1>10. ASSUME NEW e \in Employees, NEW th \in Threads, NEW d \in Nat, ~(th = a /\ d = n)
        PROVE  /\ Wants(T2, NoThread, e, th, d) <=> Wants(thread, Out, e, th, d)
               /\ Has(T2, NoThread, e, th, d) => Has(thread, Out, e, th, d)
    <2>1. CASE th # a
      BY <1>4, <2>1 DEF Wants, Has
    <2>2. CASE th = a /\ d \notin 1..n
      <3>1. d \notin 1..n - 1
        BY <1>1, <2>2
      <3>. QED BY <1>1, <1>4, <1>5, <2>2, <3>1 DEF Wants, Has, s
    <2>3. CASE th = a /\ d = n - 1
      <3>1. /\ s[d].emp = t2[d].emp /\ s[d].pc = "dispatch" /\ t2[d].pc # "chain"
            /\ d \in 1..Len(t2) /\ d \in 1..Len(s)
        BY <1>1, <1>2, <1>3, <1>5, <1>7, <2>3 DEF Onward
      <3>. QED BY <1>4, <2>3, <3>1 DEF Wants, Has, s, Waiting
    <2>4. CASE th = a /\ d \in 1..n - 2
      <3>1. t2[d] = thread[a].stack[d] /\ d \in 1..Len(thread[a].stack) /\ d \in 1..Len(t2)
        BY <1>1, <1>2, <1>5, <2>4 DEF s
      <3>. QED BY <1>4, <2>4, <3>1 DEF Wants, Has
    <2>. QED BY <1>2, <1>10, <2>1, <2>2, <2>3, <2>4
  <1>11. LinesOK(T2, [queue EXCEPT ![Top(a).emp] = Tail(@)], NoThread)
    <2>1. LinesOK(thread, queue, Out) /\ First(queue[Top(a).emp], a, n)
      BY DEF Connected, n
    <2> DEFINE emp == Top(a).emp
    <2>2. emp \in Employees /\ First(queue[emp], a, n)
      BY <1>1, <2>1
    <2> HIDE DEF emp
    <2>3. LinesOK(T2, [queue EXCEPT ![emp] = Tail(@)], NoThread)
      <3>1. OthersStay(thread, Out, T2, NoThread, a, n) /\ Absent(T2, NoThread, a, n)
        BY <1>9, <1>10 DEF OthersStay, Absent
      <3>. QED BY <1>1, <2>1, <2>2, <3>1, LinesLeave
    <2>. QED BY <2>3 DEF emp
  <1>12. ASSUME NEW th \in Threads, NEW t \in Tasks, Drives(thread, epoch, th, t)
         PROVE  Drives(T2, epoch, th, t)
    <2>1. CASE th # a
      BY <1>4, <1>12, <2>1 DEF Drives
    <2>2. CASE th = a /\ n - 1 = 1
      <3>1. /\ thread[a].stack[1] = s[n - 1] /\ T2[a].stack[1] = g /\ Len(T2[a].stack) > 0
        BY <1>2, <1>4, <1>5, <2>2 DEF s
      <3>. QED BY <1>3, <1>12, <2>2, <3>1 DEF Drives, Onward
    <2>3. CASE th = a /\ n - 1 # 1
      <3>1. T2[a].stack[1] = thread[a].stack[1] /\ Len(T2[a].stack) > 0
        BY <1>2, <1>4, <1>5, <2>3 DEF s
      <3>. QED BY <1>12, <2>3, <3>1 DEF Drives
    <2>. QED BY <2>1, <2>2, <2>3
  <1>. QED BY <1>8, <1>11, <1>12 DEF ShapeOK, T2, n, g, s

-----------------------------------------------------------------------------
(* The actions.                                                             *)

LEMMA ConnectedNext ==
    ASSUME ShapeOK(thread'), NEW o, Out' = o, LinesOK(thread', queue', o), PendingShape'
    PROVE  Connected'
  <1>1. LinesOK(thread', queue', Out')
    OBVIOUS
  <1>. QED BY <1>1 DEF Connected, ShapeOK, CallShape, LinesOK, LineOK, Wants, Has, Queued, First,
                       Distinct, Places

LEMMA NothingPends ==
    ASSUME pending = Nothing
    PROVE  Out = NoThread /\ PendingShape
  BY DEF Out, PendingShape, Nothing

LEMMA NothingWillPend ==
    ASSUME pending' = Nothing
    PROVE  Out' = NoThread /\ PendingShape'
  BY DEF Out, PendingShape, Nothing

\* No step takes the driver of a task that goes on running.
LEMMA DrivenStays ==
    ASSUME Driven, accepting' => accepting, epoch' = epoch, Running' \subseteq Running,
           \A th \in Threads, t \in Tasks :
              t \in Running /\ t \in Running' /\ Drives(thread, epoch, th, t) => Drives(thread', epoch, th, t)
    PROVE  Driven'
  <1>1. ASSUME accepting', NEW t \in Running'
        PROVE  \E th \in Threads : Drives(thread', epoch', th, t)
    <2>1. t \in Running /\ t \in Tasks
      BY DEF Running
    <2>2. PICK th \in Threads : Drives(thread, epoch, th, t)
      BY <1>1, <2>1 DEF Driven
    <2>. QED BY <2>1, <2>2
  <1>. QED BY <1>1 DEF Driven, Drives

\* And the task that starts has one.
LEMMA DrivenStarts ==
    ASSUME Driven, accepting' => accepting, epoch' = epoch,
           NEW u \in Tasks, Running' \subseteq Running \cup {u},
           NEW a \in Threads, Drives(thread', epoch, a, u),
           \A th \in Threads, t \in Tasks : Drives(thread, epoch, th, t) => Drives(thread', epoch, th, t)
    PROVE  Driven'
  <1>1. ASSUME accepting', NEW t \in Running'
        PROVE  \E th \in Threads : Drives(thread', epoch', th, t)
    <2>1. t \in Tasks
      BY DEF Running
    <2>2. CASE t \in Running
      <3>1. PICK th \in Threads : Drives(thread, epoch, th, t)
        BY <1>1, <2>2 DEF Driven
      <3>. QED BY <2>1, <3>1
    <2>3. CASE t = u
      BY <2>3
    <2>. QED BY <2>2, <2>3
  <1>. QED BY <1>1 DEF Driven, Drives

LEMMA QueueType ==
    ASSUME Connected, NEW e \in Employees
    PROVE  queue[e] \in Seq(Places) /\ queue \in [Employees -> Seq(Places)]
  BY DEF Connected, LinesOK

\* Who has been granted its lock is the first of its line.
LEMMA HoldsIsFirst ==
    ASSUME CallsOK, Connected, NEW a \in Threads, Active(a), Holds(a)
    PROVE  First(queue[Top(a).emp], a, Depth(a))
  <1>1. queue[Top(a).emp] \in Seq(Places)
    BY TopFacts, QueueType
  <1>2. queue[Top(a).emp] # <<>> /\ Head(queue[Top(a).emp]) = <<a, Depth(a)>>
    BY DEF Holds
  <1>. QED BY <1>1, <1>2 DEF First

LEMMA BusyIsFirst ==
    ASSUME CallsOK, Connected, NEW a \in Threads, Active(a), a # Out,
           Top(a).pc \in {"stream", "dispatch", "failed"}
    PROVE  First(queue[Top(a).emp], a, Depth(a))
  <1>1. /\ Top(a).emp \in Employees /\ Depth(a) \in Nat /\ Depth(a) \in 1..Len(thread[a].stack)
        /\ Top(a) = thread[a].stack[Depth(a)]
    BY TopFacts
  <1>2. Has(thread, Out, Top(a).emp, a, Depth(a))
    BY <1>1 DEF Has, Wants, Waiting
  <1>. QED BY <1>1, <1>2 DEF Connected, LinesOK, LineOK

\* Sends, and what is under way to be retried or reviewed again, are at the bottom.
LEMMA BottomFrame ==
    ASSUME CallsOK, Connected, NEW a \in Threads, Active(a)
    PROVE  /\ Top(a).op = "send" => Depth(a) = 1
           /\ Top(a).pc \in {"resume", "rebuild"} => Top(a).op = "send"
           /\ Top(a).pc = "chain" => Depth(a) = 1 /\ Top(a).emp = Reviewer
  <1>1. Depth(a) \in 1..Len(thread[a].stack) /\ Top(a) = thread[a].stack[Depth(a)]
    BY TopFacts
  <1>2. CallShape(thread[a])
    BY DEF Connected, ShapeOK
  <1>. QED BY <1>1, <1>2 DEF CallShape

\* What the bottom frame drives.
LEMMA TopDrives ==
    ASSUME CallsOK, NEW a \in Threads, Active(a), Depth(a) = 1, NEW t, NEW ep,
           Drives(thread, ep, a, t)
    PROVE  Top(a).op = "send" /\ Top(a).task = t /\ Top(a).epoch = ep
           /\ Top(a).pc \notin {"resume", "rebuild"}
  BY TopFacts DEF Drives

-----------------------------------------------------------------------------
(* The end of a turn.                                                       *)

LEMMA TurnOver ==
    ASSUME OrchInv, Connected, Driven, pending = Nothing, NEW a \in Threads, Active(a),
           First(queue[Top(a).emp], a, Depth(a)), Top(a).pc \notin {"chain", "resume", "rebuild"},
           queue' = Released(a), UNCHANGED <<accepting, epoch>>,
           \/ Top(a).op = "send" /\ SettleFlight(a)
           \/ Top(a).op # "send" /\ (\E outcome : Pop(a, outcome)) /\ UNCHANGED <<task, pending>>
    PROVE  Connected' /\ Driven'
  <1>0. CallsOK /\ Out = NoThread /\ queue' = [queue EXCEPT ![Top(a).emp] = Tail(@)]
    BY NothingPends DEF OrchInv, Released
  <1>1. ASSUME Depth(a) = 1, End(a), UNCHANGED <<task, pending>>,
               Top(a).op = "send" => Stale(a) \/ task[Top(a).task].status # "running"
        PROVE  Connected' /\ Driven'
    <2>1. thread' = [thread EXCEPT ![a] = Idle]
      BY <1>1 DEF End
    <2>2. /\ ShapeOK(thread') /\ LinesOK(thread', queue', NoThread)
          /\ \A th \in Threads, t \in Tasks :
                th # a /\ Drives(thread, epoch, th, t) => Drives(thread', epoch, th, t)
      BY <1>0, <1>1, <2>1, EndConnects
    <2>3. Running' = Running
      BY <1>1 DEF Running
    <2>4. ASSUME NEW t \in Running, Drives(thread, epoch, a, t) PROVE FALSE
      BY <1>0, <1>1, <2>4, TopDrives DEF Stale, Running
    <2>5. Driven'
      BY <2>2, <2>3, <2>4, DrivenStays
    <2>6. Out' = NoThread /\ PendingShape'
      BY <1>1, NothingWillPend
    <2>. QED BY <2>2, <2>5, <2>6, ConnectedNext
  <1>2. CASE Top(a).op = "send" /\ SettleFlight(a)
    <2> DEFINE t == Top(a).task
    <2>0. Depth(a) = 1 /\ t \in Tasks /\ Top(a).emp \in Employees
      BY <1>0, <1>2, BottomFrame, TopFacts
    <2>1. CASE Stale(a) \/ task[t].status # "running"
      BY <1>1, <1>2, <2>0, <2>1 DEF SettleFlight
    <2>2. CASE ~(Stale(a) \/ task[t].status # "running")
      <3>1. /\ Transition(t, "failed", Top(a).emp) /\ UNCHANGED thread
            /\ pending' = [step |-> "retry", caller |-> a, task |-> t, actor |-> Leader]
        BY <1>2, <2>2 DEF SettleFlight
      <3>2. LinesOK(thread', queue', a) /\ ShapeOK(thread')
        BY <1>0, <2>0, <3>1, SuspendConnects DEF Connected
      <3>3. Out' = a /\ PendingShape'
        <4>1. pending'.step = "retry" /\ pending'.caller = a /\ pending'.task = t
          BY <3>1
        <4>2. Depth(a)' = 1 /\ Top(a)' = Top(a)
          BY <2>0, <3>1 DEF Depth, Top
        <4>. QED BY <1>2, <4>1, <4>2 DEF Out, PendingShape, Depth, Top
      <3>4. Running' \subseteq Running
        BY <2>0, <3>1, TransitionStep DEF TaskStates, OrchInv
      <3>5. Driven'
        BY <3>1, <3>4, DrivenStays
      <3>. QED BY <3>2, <3>3, <3>5, ConnectedNext
    <2>. QED BY <2>1, <2>2
  <1>3. CASE Top(a).op # "send" /\ (\E outcome : Pop(a, outcome)) /\ UNCHANGED <<task, pending>>
    <2>1. PICK outcome : Pop(a, outcome)
      BY <1>3
    <2>2. CASE Depth(a) = 1
      BY <1>1, <1>3, <2>1, <2>2 DEF Pop
    <2>3. CASE Depth(a) # 1
      <3> DEFINE pc == IF outcome = "ok" THEN "stream" ELSE "failed"
      <3>1. thread' = [thread EXCEPT ![a].stack =
                Append(SubSeq(@, 1, Depth(a) - 2), [thread[a].stack[Depth(a) - 1] EXCEPT !.pc = pc])]
        BY <2>1, <2>3 DEF Pop
      <3>2. pc \in {"stream", "failed"}
        OBVIOUS
      <3> HIDE DEF pc
      <3>3. /\ ShapeOK(thread') /\ LinesOK(thread', queue', NoThread)
            /\ \A th \in Threads, t \in Tasks :
                  Drives(thread, epoch, th, t) => Drives(thread', epoch, th, t)
        BY <1>0, <2>3, <3>1, <3>2, PopConnects
      <3>4. Running' = Running /\ Out' = NoThread /\ PendingShape'
        BY <1>3, NothingWillPend DEF Running
      <3>5. Driven'
        BY <3>3, <3>4, DrivenStays
      <3>. QED BY <3>3, <3>4, <3>5, ConnectedNext
    <2>. QED BY <2>2, <2>3
  <1>. QED BY <1>2, <1>3

\* A frame goes on with the same lock.
LEMMA FrameAdvances ==
    ASSUME OrchInv, Connected, Driven, pending = Nothing, NEW a \in Threads, Active(a),
           First(queue[Top(a).emp], a, Depth(a)), Top(a).pc \notin {"chain", "resume", "rebuild"},
           NEW pc \in {"stream", "failed"}, thread' = WithTop(a, [Top(a) EXCEPT !.pc = pc]),
           UNCHANGED <<accepting, epoch, task, queue, pending>>
    PROVE  Connected' /\ Driven'
  <1>0. CallsOK /\ Out = NoThread /\ a # Out
    BY NothingPends, NoThreadIsNone DEF OrchInv
  <1> DEFINE f == [Top(a) EXCEPT !.pc = pc]
  <1>1. Onward(Top(a), f) /\ f.pc = pc
    BY <1>0, TopFacts DEF CallFrame, Onward
  <1> HIDE DEF f
  <1>2. /\ ShapeOK(WithTop(a, f)) /\ LinesOK(WithTop(a, f), queue, Out)
        /\ \A th \in Threads, t \in Tasks :
              Drives(thread, epoch, th, t) => Drives(WithTop(a, f), epoch, th, t)
    BY <1>0, <1>1, AdvanceConnects
  <1>3. thread' = WithTop(a, f)
    BY DEF f
  <1>4. Running' = Running /\ Out' = NoThread /\ PendingShape'
    BY NothingWillPend DEF Running
  <1>5. Driven'
    BY <1>2, <1>3, <1>4, DrivenStays
  <1>. QED BY <1>0, <1>2, <1>3, <1>4, <1>5, ConnectedNext

-----------------------------------------------------------------------------
(* Dispatch.                                                                *)

LEMMA NextFreeIsFree ==
    ASSUME Free # {}
    PROVE  NextFree \in Threads /\ thread[NextFree].kind = "idle" /\ NextFree \in Nat
  <1>1. Free \in SUBSET Nat
    BY OrchestratorAssumption DEF Free
  <1>2. \E th \in Free : \A other \in Free : th <= other
    BY <1>1, LeastNumber
  <1>3. NextFree \in Free
    BY <1>2 DEF NextFree
  <1>. QED BY <1>1, <1>3 DEF Free

LEMMA ClientIsNoThread == Client \notin Threads
  BY OrchestratorAssumption DEF Client

\* The dispatch for caller c has an outcome.
LEMMA OutcomeConnects ==
    ASSUME CallsOK, Connected, NEW c, Caller(c),
           c # Client => c # Out /\ Top(c).pc \in {"stream", "dispatch"},
           NEW d \in BOOLEAN, NEW T2 \in {Succeeded(c, d), Failed(c)}
    PROVE  /\ ShapeOK(T2) /\ LinesOK(T2, queue, Out)
           /\ \A th \in Threads, t \in Tasks :
                 Drives(thread, epoch, th, t) => Drives(T2, epoch, th, t)
           /\ \A th \in Threads : T2[th].kind = thread[th].kind
  <1>1. CASE c = Client
    BY <1>1 DEF Succeeded, Failed, Connected
  <1>2. CASE c # Client
    <2>1. c \in Threads /\ Active(c)
      BY <1>2 DEF Caller
    <2>2. First(queue[Top(c).emp], c, Depth(c))
      BY <1>2, <2>1, BusyIsFirst
    <2>3. PICK f : T2 = WithTop(c, f) /\ Onward(Top(c), f) /\ f.pc \in {"stream", "failed"}
      <3> DEFINE g == [Top(c) EXCEPT !.pc = "stream", !.decided = @ \/ d]
                 h == [Top(c) EXCEPT !.pc = "failed"]
      <3>1. Top(c) \in CallFrame
        BY <2>1, TopFacts
      <3>2. /\ Onward(Top(c), g) /\ g.pc = "stream"
            /\ Onward(Top(c), h) /\ h.pc = "failed"
        BY <3>1 DEF CallFrame, Onward
      <3>3. T2 = WithTop(c, g) \/ T2 = WithTop(c, h)
        BY <1>2 DEF Succeeded, Failed
      <3> HIDE DEF g, h
      <3>. QED BY <3>2, <3>3
    <2>. QED BY <1>2, <2>1, <2>2, <2>3, AdvanceConnects
  <1>. QED BY <1>1, <1>2

LEMMA OutcomeStep ==
    ASSUME CallsOK, Connected, Driven, NEW c, Caller(c),
           c # Client => c # Out /\ Top(c).pc \in {"stream", "dispatch"},
           Out = NoThread,
           NEW d \in BOOLEAN, thread' \in {Succeeded(c, d), Failed(c)},
           UNCHANGED <<accepting, epoch, queue>>, pending' = Nothing, Running' \subseteq Running
    PROVE  Connected' /\ Driven'
  <1>1. /\ ShapeOK(thread') /\ LinesOK(thread', queue', Out)
        /\ \A th \in Threads, t \in Tasks :
              Drives(thread, epoch, th, t) => Drives(thread', epoch, th, t)
    BY OutcomeConnects
  <1>2. Driven'
    BY <1>1, DrivenStays
  <1>3. Out' = NoThread /\ PendingShape'
    BY NothingWillPend
  <1>. QED BY <1>1, <1>2, <1>3, ConnectedNext

\* The call that proposes is reading the stream of its agent.
Reading(c) == c # Client => Top(c).pc = "stream"

LEMMA StartNextConnects ==
    ASSUME CallsOK, Connected, Driven, pending = Nothing, NEW c, Caller(c), Reading(c),
           NEW t \in Tasks, NEW actor, NEW d \in BOOLEAN, StartNext(c, t, actor, d),
           UNCHANGED <<accepting, epoch, queue>>, Running' \subseteq Running
    PROVE  Connected' /\ Driven'
  <1>1. Out = NoThread
    BY NothingPends
  <1>2. /\ pending'.step = "start" /\ pending'.caller = c /\ Free # {}
    BY DEF StartNext
  <1>3. Out' = NoThread
    BY <1>2 DEF Out
  <1>4. CASE c = Client
    <2>1. thread' = thread
      BY <1>4 DEF StartNext
    <2>2. PendingShape'
      BY <1>2, <1>4, <2>1 DEF PendingShape, Free
    <2>3. Driven'
      BY <2>1, DrivenStays
    <2>4. ShapeOK(thread') /\ LinesOK(thread', queue', NoThread)
      BY <1>1, <2>1 DEF Connected
    <2>. QED BY <1>3, <2>2, <2>3, <2>4, ConnectedNext
  <1>5. CASE c # Client
    <2> DEFINE f == [Top(c) EXCEPT !.pc = "dispatch", !.decided = @ \/ d]
    <2>1. c \in Threads /\ Active(c) /\ c # Out /\ Top(c).pc = "stream"
      BY <1>1, <1>5, NoThreadIsNone DEF Caller, Reading
    <2>2. First(queue[Top(c).emp], c, Depth(c))
      BY <2>1, BusyIsFirst
    <2>3. Onward(Top(c), f) /\ f.pc = "dispatch"
      BY <2>1, TopFacts DEF CallFrame, Onward
    <2>4. thread' = WithTop(c, f)
      BY <1>5 DEF StartNext
    <2> HIDE DEF f
    <2>5. /\ ShapeOK(thread') /\ LinesOK(thread', queue', NoThread)
          /\ \A th \in Threads, u \in Tasks :
                Drives(thread, epoch, th, u) => Drives(thread', epoch, th, u)
          /\ \A th \in Threads : thread'[th].kind = thread[th].kind
      BY <1>1, <2>1, <2>2, <2>3, <2>4, AdvanceConnects
    <2>6. Free' = Free
      BY <2>5 DEF Free
    <2>7. Top(c)' = f
      BY <2>1, <2>4, WithTopIs DEF Top
    <2>8. PendingShape'
      <3>1. Top(pending.caller)' = Top(c)'
        BY <1>2 DEF Top
      <3>. QED BY <1>2, <2>3, <2>6, <2>7, <3>1 DEF PendingShape
    <2>9. Driven'
      BY <2>5, DrivenStays
    <2>. QED BY <1>3, <2>5, <2>8, <2>9, ConnectedNext
  <1>. QED BY <1>4, <1>5

LEMMA EnterConnects ==
    ASSUME CallsOK, Connected, Driven, pending = Nothing, pending' = Nothing,
           NEW c, Caller(c), Reading(c),
           NEW f \in Frames, f.pc = "lock", f.op # "send", NEW d \in BOOLEAN, Enter(c, f, d),
           UNCHANGED <<accepting, epoch>>, Running' \subseteq Running
    PROVE  Connected' /\ Driven'
  <1>1. Out = NoThread /\ Out' = NoThread /\ PendingShape'
    BY NothingPends, NothingWillPend
  <1>2. f.emp \in Employees
    BY DEF Frames, CallFrame
  <1>3. /\ ShapeOK(thread') /\ LinesOK(thread', queue', NoThread)
        /\ \A th \in Threads, t \in Tasks :
              Drives(thread, epoch, th, t) => Drives(thread', epoch, th, t)
    <2>1. CASE c = Client
      <3>1. NextFree \in Threads /\ thread[NextFree].kind = "idle"
        BY <2>1, NextFreeIsFree DEF Enter
      <3>2. /\ thread' = [thread EXCEPT ![NextFree] =
                             [kind |-> "client", task |-> f.task, stack |-> <<f>>]]
            /\ queue' = [queue EXCEPT ![f.emp] = Append(@, <<NextFree, 1>>)]
        BY <2>1 DEF Enter, Enqueued
      <3>3. thread \in Calls(Frames) /\ ShapeOK(thread) /\ LinesOK(thread, queue, NoThread)
        BY <1>1 DEF CallsOK, Connected
      <3> HIDE DEF NextFree
      <3>. QED BY <1>2, <3>1, <3>2, <3>3, OpenConnects
    <2>2. CASE c # Client
      <3> DEFINE g == [Top(c) EXCEPT !.pc = "dispatch", !.decided = @ \/ d]
      <3>1. c \in Threads /\ Active(c) /\ Top(c).pc = "stream"
        BY <2>2 DEF Caller, Reading
      <3>2. g \in Frames
        BY <3>1, TopFacts, FrameGoesOn
      <3>3. Onward(Top(c), g) /\ g.pc = "dispatch"
        BY <3>1, TopFacts DEF CallFrame, Onward
      <3>4. /\ thread' = [thread EXCEPT ![c].stack = Append(Append(Front(@), g), f)]
            /\ queue' = [queue EXCEPT ![f.emp] = Append(@, <<c, Depth(c) + 1>>)]
        BY <2>2 DEF Enter, Enqueued
      <3> HIDE DEF g
      <3>. QED BY <1>1, <1>2, <3>1, <3>2, <3>3, <3>4, NestedConnects
    <2>. QED BY <2>1, <2>2
  <1>4. Driven'
    BY <1>3, DrivenStays
  <1>. QED BY <1>1, <1>3, <1>4, ConnectedNext

\* Whatever is proposed, the calls and the locks agree, and what is running is driven.
LEMMA DispatchConnects ==
    ASSUME OrchInv, Connected, Driven, pending = Nothing, NEW c, Caller(c), Reading(c),
           NEW type, NEW t \in Tasks, NEW actor \in Employees, Dispatch(c, type, t, actor)
    PROVE  Connected' /\ Driven'
  <1>0. accepting /\ CallsOK /\ TaskInv /\ Out = NoThread
    BY NothingPends DEF Dispatch, OrchInv
  <1>1. c # Client => c # Out /\ Top(c).pc \in {"stream", "dispatch"}
    BY <1>0, NoThreadIsNone DEF Caller, Reading
  <1>2. ASSUME UNCHANGED <<accepting, epoch, queue, pending>>, Running' \subseteq Running,
               NEW d \in BOOLEAN, thread' \in {Succeeded(c, d), Failed(c)}
        PROVE  Connected' /\ Driven'
    <2>1. pending' = Nothing /\ UNCHANGED <<accepting, epoch, queue>>
      BY <1>2
    <2>. QED BY <1>0, <1>1, <1>2, <2>1, OutcomeStep
  <1>3. ASSUME UNCHANGED <<accepting, epoch, pending>>, Running' \subseteq Running,
               NEW op \in {"review", "message"}, NEW e \in Employees, NEW d \in BOOLEAN,
               Enter(c, Frame(op, t, e), d)
        PROVE  Connected' /\ Driven'
    <2> DEFINE f == Frame(op, t, e)
    <2>1. f \in Frames /\ f.pc = "lock" /\ f.op # "send"
      BY <1>0, FrameIsNew DEF Frame
    <2>2. pending' = Nothing
      BY <1>3
    <2>3. Enter(c, f, d)
      BY <1>3
    <2> HIDE DEF f
    <2>. QED BY <1>0, <1>3, <2>1, <2>2, <2>3, EnterConnects
  <1>4. CASE \E deps \in SUBSET Tasks : CreateProposedTask(c, t, deps)
    <2> PICK deps \in SUBSET Tasks : CreateProposedTask(c, t, deps)
      BY <1>4
    <2>1. Running' \subseteq Running
      BY <1>0, CreateStep DEF CreateProposedTask
    <2>. QED BY <1>2, <2>1 DEF CreateProposedTask
  <1>5. CASE \E e \in Employees : AssignAndSend(c, t, e)
    <2> PICK e \in Employees : AssignAndSend(c, t, e)
      BY <1>5
    <2>1. Running' \subseteq Running
      BY <1>0, AssignStep DEF AssignAndSend
    <2>. QED BY <1>0, <2>1, StartNextConnects DEF AssignAndSend
  <1>6. CASE StartTask(c, t, actor)
    <2>1. Running' \subseteq Running
      BY <1>6 DEF StartTask, Running
    <2>. QED BY <1>0, <1>6, <2>1, StartNextConnects DEF StartTask
  <1>7. CASE RecordSubmissionAndRequestReview(c, t, actor)
    <2>1. Running' \subseteq Running
      BY <1>0, <1>7, SubmitStep DEF RecordSubmissionAndRequestReview
    <2>. QED BY <1>3, <1>7, <2>1, OrchestratorAssumption DEF RecordSubmissionAndRequestReview
  <1>8. CASE RequestReview(c, t)
    <2>1. Running' \subseteq Running
      BY <1>8 DEF RequestReview, Running
    <2>. QED BY <1>3, <1>8, <2>1, OrchestratorAssumption DEF RequestReview
  <1>9. CASE Approve(c, t, actor)
    <2>1. Running' \subseteq Running
      BY <1>0, <1>9, TransitionStep DEF Approve, TaskStates
    <2>. QED BY <1>2, <1>9, <2>1 DEF Approve
  <1>10. CASE RejectAndMaybeRequeue(c, t, actor)
    <2>1. Running' \subseteq Running
      BY <1>0, <1>10, RejectStep DEF RejectAndMaybeRequeue
    <2>2. UNCHANGED <<accepting, epoch, queue>>
      BY <1>10 DEF RejectAndMaybeRequeue
    <2>3. CASE thread' \in {Succeeded(c, TRUE), Failed(c)} /\ UNCHANGED pending
      BY <1>2, <2>1, <2>2, <2>3
    <2>4. CASE StartNext(c, t, task[t].owner, TRUE)
      BY <1>0, <2>1, <2>2, <2>4, StartNextConnects
    <2>. QED BY <1>10, <2>3, <2>4 DEF RejectAndMaybeRequeue
  <1>11. CASE BlockTask(c, t, actor)
    <2>1. Running' \subseteq Running
      BY <1>0, <1>11, TransitionStep DEF BlockTask, TaskStates
    <2>. QED BY <1>2, <1>11, <2>1 DEF BlockTask
  <1>12. CASE \E e \in Employees : RouteEmployeeMessage(c, t, e)
    <2> PICK e \in Employees : RouteEmployeeMessage(c, t, e)
      BY <1>12
    <2>1. Running' \subseteq Running
      BY DEF RouteEmployeeMessage, Running
    <2>. QED BY <1>3, <2>1 DEF RouteEmployeeMessage
  <1>. QED BY <1>4, <1>5, <1>6, <1>7, <1>8, <1>9, <1>10, <1>11, <1>12 DEF Dispatch

-----------------------------------------------------------------------------
(* The second transactions.                                                 *)

LEMMA StartReadyConnects ==
    ASSUME OrchInv, Connected, Driven, StartReady
    PROVE  Connected' /\ Driven'
  <1> DEFINE c == pending.caller
             t == pending.task
             e == pending.actor
  <1>1. /\ accepting /\ Caller(c) /\ t \in Tasks /\ e \in Employees
        /\ CallsOK /\ TaskInv
    BY DEF OrchInv, PendingOK, Caller, StartReady, Nothing
  <1>2. /\ Out = NoThread /\ Free # {} /\ (c # Client => c # Out /\ Top(c).pc \in {"stream", "dispatch"})
    BY <1>1, NoThreadIsNone DEF StartReady, Out, Connected, PendingShape, Caller
  <1>3. UNCHANGED <<accepting, epoch>> /\ pending' = Nothing
    BY DEF StartReady
  <1> HIDE DEF c, t, e
  <1>4. CASE thread' \in {Succeeded(c, FALSE), Failed(c)} /\ UNCHANGED <<task, queue>>
    <2>1. Running' \subseteq Running
      BY <1>4 DEF Running
    <2>. QED BY <1>1, <1>2, <1>3, <1>4, <2>1, OutcomeStep
  <1>5. ASSUME Transition(t, "running", e),
               LET frame == Frame("send", t, task[t].owner)
               IN /\ thread' = [Succeeded(c, FALSE) EXCEPT ![NextFree] =
                                 [kind |-> "flight", task |-> t, stack |-> <<frame>>]]
                  /\ queue' = Enqueued(queue, frame.emp, NextFree, 1)
        PROVE  Connected' /\ Driven'
    <2> DEFINE f == Frame("send", t, task[t].owner)
               S == Succeeded(c, FALSE)
    <2>1. Running' \subseteq Running \cup {t}
      BY <1>1, <1>5, TransitionStep DEF TaskStates
    <2>2. task[t].owner = e
      BY <1>5 DEF Transition, StartPermitted
    <2>3. f.emp \in Employees /\ f.pc = "lock" /\ f.op = "send" /\ f.epoch = epoch /\ f.task = t
      BY <1>1, <2>2 DEF Frame
    <2>4. /\ ShapeOK(S) /\ LinesOK(S, queue, NoThread) /\ S \in Calls(Frames)
          /\ \A th \in Threads, u \in Tasks :
                Drives(thread, epoch, th, u) => Drives(S, epoch, th, u)
          /\ \A th \in Threads : S[th].kind = thread[th].kind
      BY <1>1, <1>2, OutcomeConnects, OutcomeKeeps
    <2>5. NextFree \in Threads /\ thread[NextFree].kind = "idle"
      BY <1>2, NextFreeIsFree
    <2>6. /\ thread' = [S EXCEPT ![NextFree] = [kind |-> "flight", task |-> t, stack |-> <<f>>]]
          /\ queue' = [queue EXCEPT ![f.emp] = Append(@, <<NextFree, 1>>)]
      BY <1>5 DEF Enqueued
    <2> HIDE DEF f, S
    <2>7. S[NextFree].kind = "idle" /\ "flight" # "idle"
      BY <2>4, <2>5
    <2>8. /\ ShapeOK(thread') /\ LinesOK(thread', queue', NoThread)
          /\ \A th \in Threads : \A u, ep : Drives(S, ep, th, u) => Drives(thread', ep, th, u)
          /\ Drives(thread', epoch, NextFree, t)
      BY <2>3, <2>4, <2>5, <2>6, <2>7, OpenConnects
    <2>9. \A th \in Threads, u \in Tasks :
             Drives(thread, epoch, th, u) => Drives(thread', epoch, th, u)
      BY <2>4, <2>8
    <2>10. Driven'
      BY <1>1, <1>3, <2>1, <2>5, <2>8, <2>9, DrivenStarts
    <2>11. Out' = NoThread /\ PendingShape'
      BY <1>3, NothingWillPend
    <2>. QED BY <2>8, <2>10, <2>11, ConnectedNext
  <1>. QED BY <1>4, <1>5 DEF StartReady, c, t, e

LEMMA RetryEnds ==
    ASSUME TaskInv, NEW t \in Tasks, NEW e, Retry(t, e)
    PROVE  t \notin Running'
  <1>1. task[t] \in TaskRecord
    BY RowExists DEF Retry
  <1>2. task \in [Tasks -> TaskRecord \cup {NoTask}]
    BY DEF TaskInv, TaskTypeOK
  <1>. QED BY <1>1, <1>2 DEF Retry, Write, Running, TaskRecord

LEMMA RetryFlightConnects ==
    ASSUME OrchInv, Connected, Driven, RetryFlight
    PROVE  Connected' /\ Driven'
  <1> DEFINE a == pending.caller
             t == pending.task
  <1>1. /\ accepting /\ a \in Threads /\ Active(a) /\ t \in Tasks /\ pending.actor \in Employees
        /\ CallsOK /\ TaskInv
    BY DEF OrchInv, PendingOK, RetryFlight, Nothing
  <1>2. /\ Out = a /\ Depth(a) = 1 /\ Top(a).op = "send" /\ Top(a).task = t
    BY <1>1 DEF RetryFlight, Out, Connected, PendingShape
  <1>3. UNCHANGED <<accepting, epoch>> /\ pending' = Nothing /\ Retry(t, pending.actor)
    BY DEF RetryFlight
  <1> HIDE DEF a, t
  <1>4. Running' \subseteq Running /\ t \notin Running'
    BY <1>1, <1>3, RetryStep, RetryEnds
  <1>5. Out' = NoThread /\ PendingShape'
    BY <1>3, NothingWillPend
  <1>6. /\ ShapeOK(thread') /\ LinesOK(thread', queue', NoThread)
        /\ \A th \in Threads, u \in Tasks :
              th # a /\ Drives(thread, epoch, th, u) => Drives(thread', epoch, th, u)
    <2>1. CASE End(a) /\ UNCHANGED queue
      <3>1. thread' = [thread EXCEPT ![a] = Idle]
        BY <2>1 DEF End
      <3>. QED BY <1>1, <1>2, <2>1, <3>1, EndConnects
    <2>2. CASE /\ thread' = WithTop(a, [Top(a) EXCEPT !.pc = "resume"])
               /\ queue' = Enqueued(queue, Top(a).emp, a, 1)
      <3> DEFINE f == [Top(a) EXCEPT !.pc = "resume"]
      <3>1. f.emp = Top(a).emp /\ f.emp \in Employees /\ f.pc = "resume" /\ f.pc \in Waiting /\ f.op = "send"
        BY <1>1, <1>2, TopFacts DEF CallFrame, Waiting
      <3>2. thread' = WithTop(a, f)
        BY <2>2
      <3> HIDE DEF f
      <3>3. queue' = [queue EXCEPT ![f.emp] = Append(@, <<a, 1>>)]
        BY <2>2, <3>1 DEF Enqueued
      <3>4. ShapeOK(thread) /\ LinesOK(thread, queue, a)
        BY <1>2 DEF Connected
      <3>. QED BY <1>1, <1>2, <3>1, <3>2, <3>3, <3>4, RequeueConnects
    <2>. QED BY <2>1, <2>2 DEF RetryFlight, a
  <1>7. ASSUME NEW th \in Threads, NEW u \in Tasks, u \in Running', Drives(thread, epoch, th, u)
        PROVE  Drives(thread', epoch, th, u)
    <2>1. th # a
      BY <1>1, <1>2, <1>4, <1>7, TopDrives
    <2>. QED BY <1>6, <1>7, <2>1
  <1>8. Driven'
    BY <1>3, <1>4, <1>7, DrivenStays
  <1>. QED BY <1>5, <1>6, <1>8, ConnectedNext

-----------------------------------------------------------------------------
(* The retry of sendTask, and recovered reviews.                            *)

\* A call that replaces the session of its employee drives nothing.
LEMMA ReplacingFacts ==
    ASSUME OrchInv, Connected, pending = Nothing, NEW a \in Threads, Replacing(a)
    PROVE  /\ CallsOK /\ Out = NoThread /\ Active(a) /\ Depth(a) = 1 /\ Top(a).op = "send"
           /\ Top(a).emp \in Employees /\ Top(a).task \in Tasks
           /\ First(queue[Top(a).emp], a, 1)
           /\ \A t, ep : ~Drives(thread, ep, a, t)
  <1>1. CallsOK /\ Out = NoThread /\ Active(a) /\ Top(a).pc \in {"resume", "rebuild"}
    BY NothingPends DEF OrchInv, Replacing
  <1>2. Depth(a) = 1 /\ Top(a).op = "send" /\ First(queue[Top(a).emp], a, Depth(a))
    BY <1>1, BottomFrame, HoldsIsFirst DEF Replacing
  <1>3. \A t, ep : ~Drives(thread, ep, a, t)
    BY <1>1, <1>2, TopDrives
  <1>. QED BY <1>1, <1>2, <1>3, TopFacts

LEMMA ReplacingEnds ==
    ASSUME OrchInv, Connected, Driven, pending = Nothing, NEW a \in Threads, Replacing(a),
           queue' = Released(a), End(a), UNCHANGED <<accepting, epoch, task, pending>>
    PROVE  Connected' /\ Driven'
  <1>1. /\ CallsOK /\ Out = NoThread /\ Active(a) /\ Depth(a) = 1
        /\ First(queue[Top(a).emp], a, 1)
        /\ \A t, ep : ~Drives(thread, ep, a, t)
    BY ReplacingFacts
  <1>2. thread' = [thread EXCEPT ![a] = Idle] /\ queue' = [queue EXCEPT ![Top(a).emp] = Tail(@)]
    BY DEF End, Released
  <1>3. /\ ShapeOK(thread') /\ LinesOK(thread', queue', NoThread)
        /\ \A th \in Threads, t \in Tasks :
              th # a /\ Drives(thread, epoch, th, t) => Drives(thread', epoch, th, t)
    BY <1>1, <1>2, EndConnects
  <1>4. Running' = Running /\ Out' = NoThread /\ PendingShape'
    BY NothingWillPend DEF Running
  <1>5. Driven'
    BY <1>1, <1>3, <1>4, DrivenStays
  <1>. QED BY <1>3, <1>4, <1>5, ConnectedNext

LEMMA ReplacingRequeues ==
    ASSUME OrchInv, Connected, pending = Nothing, NEW a \in Threads, Replacing(a),
           NEW f, f.emp = Top(a).emp, f.pc \in Waiting, f.op = "send",
           thread' = WithTop(a, f), queue' = Enqueued(Released(a), f.emp, a, 1)
    PROVE  /\ ShapeOK(thread') /\ LinesOK(thread', queue', NoThread)
           /\ \A th \in Threads, t \in Tasks :
                 Drives(thread, epoch, th, t) => Drives(thread', epoch, th, t)
           /\ f.pc = "lock" => Drives(thread', f.epoch, a, f.task)
  <1>1. /\ CallsOK /\ Out = NoThread /\ Active(a) /\ Depth(a) = 1
        /\ Top(a).emp \in Employees
        /\ First(queue[Top(a).emp], a, 1)
        /\ \A t, ep : ~Drives(thread, ep, a, t)
    BY ReplacingFacts
  <1> DEFINE Q == Released(a)
  <1>2. LinesOK(thread, Q, a)
    BY <1>1, SuspendConnects DEF Released
  <1> HIDE DEF Q
  <1>3. queue' = [Q EXCEPT ![f.emp] = Append(@, <<a, 1>>)]
    BY DEF Enqueued, Q
  <1>4. ShapeOK(thread)
    BY DEF Connected
  <1>5. f.emp \in Employees
    BY <1>1
  <1>6. /\ ShapeOK(thread') /\ LinesOK(thread', queue', NoThread)
        /\ \A th \in Threads, t \in Tasks :
              th # a /\ Drives(thread, epoch, th, t) => Drives(thread', epoch, th, t)
        /\ f.pc = "lock" => Drives(thread', f.epoch, a, f.task)
    <2>1. CallsOK /\ Active(a) /\ Depth(a) = 1
      BY <1>1
    <2>. QED BY <2>1, <1>2, <1>3, <1>4, <1>5, RequeueConnects
  <1>. QED BY <1>1, <1>6

LEMMA SessionReplacedConnects ==
    ASSUME OrchInv, Connected, Driven, pending = Nothing, NEW a \in Threads, SessionReplaced(a)
    PROVE  Connected' /\ Driven'
  <1> DEFINE t == Top(a).task
             e == Top(a).emp
  <1>1. /\ Replacing(a) /\ CallsOK /\ t \in Tasks /\ e \in Employees /\ TaskInv
        /\ UNCHANGED <<accepting, epoch, pending>>
    BY ReplacingFacts DEF SessionReplaced, OrchInv
  <1>2. CASE queue' = Released(a) /\ End(a) /\ UNCHANGED task
    BY <1>1, <1>2, ReplacingEnds
  <1>3. CASE /\ Transition(t, "running", e) /\ thread' = WithTop(a, Frame("send", t, e))
             /\ queue' = Enqueued(Released(a), e, a, 1)
    <2> DEFINE f == Frame("send", t, e)
    <2>1. /\ f.emp = Top(a).emp /\ f.pc = "lock" /\ f.pc \in Waiting /\ f.op = "send"
          /\ f.epoch = epoch /\ f.task = t
      BY DEF Frame, Waiting
    <2>2. thread' = WithTop(a, f) /\ queue' = Enqueued(Released(a), f.emp, a, 1)
      BY <1>3, <2>1
    <2> HIDE DEF f
    <2>3. /\ ShapeOK(thread') /\ LinesOK(thread', queue', NoThread)
          /\ \A th \in Threads, u \in Tasks :
                Drives(thread, epoch, th, u) => Drives(thread', epoch, th, u)
          /\ Drives(thread', epoch, a, t)
      BY <1>1, <2>1, <2>2, ReplacingRequeues
    <2>4. Running' \subseteq Running \cup {t}
      BY <1>1, <1>3, TransitionStep DEF TaskStates
    <2>5. Driven'
      BY <1>1, <2>3, <2>4, DrivenStarts
    <2>6. Out' = NoThread /\ PendingShape'
      BY <1>1, NothingWillPend
    <2>. QED BY <2>3, <2>5, <2>6, ConnectedNext
  <1>. QED BY <1>2, <1>3 DEF SessionReplaced, StartAgain

LEMMA ReplacementFailsConnects ==
    ASSUME OrchInv, Connected, Driven, pending = Nothing, NEW a \in Threads, ReplacementFails(a)
    PROVE  Connected' /\ Driven'
  <1>1. /\ Replacing(a) /\ CallsOK /\ UNCHANGED <<accepting, epoch, pending, task>>
    BY DEF ReplacementFails, OrchInv
  <1>2. CASE queue' = Released(a) /\ End(a)
    BY <1>1, <1>2, ReplacingEnds
  <1>3. CASE /\ thread' = WithTop(a, [Top(a) EXCEPT !.pc = "rebuild"])
             /\ queue' = Enqueued(Released(a), Top(a).emp, a, 1)
    <2> DEFINE f == [Top(a) EXCEPT !.pc = "rebuild"]
    <2>1. f.emp = Top(a).emp /\ f.pc \in Waiting /\ f.op = "send"
      BY <1>1, ReplacingFacts, TopFacts DEF CallFrame, Waiting
    <2>2. thread' = WithTop(a, f) /\ queue' = Enqueued(Released(a), f.emp, a, 1)
      BY <1>3, <2>1
    <2> HIDE DEF f
    <2>3. /\ ShapeOK(thread') /\ LinesOK(thread', queue', NoThread)
          /\ \A th \in Threads, u \in Tasks :
                Drives(thread, epoch, th, u) => Drives(thread', epoch, th, u)
      BY <1>1, <2>1, <2>2, ReplacingRequeues
    <2>4. Running' \subseteq Running
      BY <1>1 DEF Running
    <2>5. Driven'
      BY <1>1, <2>3, <2>4, DrivenStays
    <2>6. Out' = NoThread /\ PendingShape'
      BY <1>1, NothingWillPend
    <2>. QED BY <2>3, <2>5, <2>6, ConnectedNext
  <1>. QED BY <1>2, <1>3 DEF ReplacementFails

LEMMA RecoveredReviewConnects ==
    ASSUME OrchInv, Connected, Driven, pending = Nothing, NEW a \in Threads,
           StartRecoveredReview(a)
    PROVE  Connected' /\ Driven'
  <1>1. /\ CallsOK /\ Out = NoThread /\ Active(a) /\ Top(a).op = "review" /\ Top(a).pc = "chain"
        /\ UNCHANGED <<accepting, epoch, pending, task>>
    BY NothingPends DEF OrchInv, StartRecoveredReview, At
  <1>2. Depth(a) = 1 /\ Top(a).emp = Reviewer /\ Reviewer \in Employees
    BY <1>1, BottomFrame, OrchestratorAssumption
  <1>3. \A t, ep : ~Drives(thread, ep, a, t)
    BY <1>1, <1>2, TopDrives
  <1>4. Running' \subseteq Running /\ Out' = NoThread /\ PendingShape'
    BY <1>1, NothingWillPend DEF Running
  <1>5. /\ ShapeOK(thread') /\ LinesOK(thread', queue', NoThread)
        /\ \A th \in Threads, u \in Tasks :
              th # a /\ Drives(thread, epoch, th, u) => Drives(thread', epoch, th, u)
    <2>1. CASE End(a) /\ UNCHANGED queue
      <3>1. thread' = [thread EXCEPT ![a] = Idle]
        BY <2>1 DEF End
      <3>. QED BY <1>1, <1>2, <2>1, <3>1, EndConnects
    <2>2. CASE /\ thread' = WithTop(a, [Top(a) EXCEPT !.pc = "lock"])
               /\ queue' = Enqueued(queue, Reviewer, a, 1)
      <3> DEFINE f == [Top(a) EXCEPT !.pc = "lock"]
      <3>1. f.emp = Reviewer /\ f.pc = "lock" /\ f.pc \in Waiting
        BY <1>1, <1>2, TopFacts DEF CallFrame, Waiting
      <3>2. thread' = WithTop(a, f)
        BY <2>2
      <3> HIDE DEF f
      <3>3. queue' = [queue EXCEPT ![f.emp] = Append(@, <<a, 1>>)]
        BY <2>2, <3>1 DEF Enqueued
      <3>4. LinesOK(thread, queue, a)
        <4>1. /\ Depth(a) = Len(thread[a].stack) /\ Depth(a) = 1
              /\ Top(a) = thread[a].stack[Depth(a)]
          BY <1>1, <1>2, TopFacts
        <4>2. \A d \in 1..Len(thread[a].stack) : d = 1
          BY <4>1
        <4>3. thread[a].stack[1].pc = "chain"
          BY <1>1, <4>1
        <4>4. \A e \in Employees, th \in Threads, d \in Nat :
                 /\ Wants(thread, a, e, th, d) <=> Wants(thread, NoThread, e, th, d)
                 /\ Has(thread, a, e, th, d) => Has(thread, NoThread, e, th, d)
          BY <4>2, <4>3, NoThreadIsNone DEF Wants, Has
        <4>5. LinesOK(thread, queue, NoThread)
          BY <1>1 DEF Connected
        <4>. QED BY <4>4, <4>5, LinesStay
      <3>5. ShapeOK(thread) /\ f.emp \in Employees
        BY <1>2, <3>1 DEF Connected
      <3>. QED BY <1>1, <1>2, <3>1, <3>2, <3>3, <3>4, <3>5, RequeueConnects
    <2>. QED BY <2>1, <2>2 DEF StartRecoveredReview
  <1>6. Driven'
    BY <1>1, <1>3, <1>4, <1>5, DrivenStays
  <1>. QED BY <1>4, <1>5, <1>6, ConnectedNext

-----------------------------------------------------------------------------
(* Every step of a call.                                                    *)

LEMMA ThreadConnects ==
    ASSUME OrchInv, Connected, Driven, NEW a \in Threads, ThreadStep(a)
    PROVE  Connected' /\ Driven'
  <1>0. pending = Nothing /\ CallsOK /\ Out = NoThread /\ a # Out
    BY NothingPends, NoThreadIsNone DEF ThreadStep, OrchInv
  <1>1. ASSUME Active(a), Top(a).pc \in {"stream", "failed"}
        PROVE  First(queue[Top(a).emp], a, Depth(a)) /\ Top(a).pc \notin {"chain", "resume", "rebuild"}
    BY <1>0, <1>1, BusyIsFirst
  <1>2. CASE Acquire(a)
    <2>1. /\ Active(a) /\ First(queue[Top(a).emp], a, Depth(a))
          /\ Top(a).pc \notin {"chain", "resume", "rebuild"} /\ UNCHANGED <<accepting, epoch>>
      BY <1>0, <1>2, HoldsIsFirst DEF Acquire
    <2>2. CASE /\ thread' = WithTop(a, [Top(a) EXCEPT !.pc = "stream"])
               /\ UNCHANGED <<task, queue, pending>>
      BY <1>0, <2>1, <2>2, FrameAdvances
    <2>3. CASE /\ queue' = Released(a)
               /\ IF Top(a).op = "send" THEN SettleFlight(a)
                  ELSE Pop(a, "error") /\ UNCHANGED <<task, pending>>
      BY <1>0, <2>1, <2>3, TurnOver
    <2>. QED BY <1>2, <2>2, <2>3 DEF Acquire
  <1>3. CASE TurnEnds(a) \/ SessionExits(a)
    <2>1. /\ Active(a) /\ Top(a).pc = "stream" /\ queue' = Released(a)
          /\ UNCHANGED <<accepting, epoch>>
          /\ IF Top(a).op = "send" THEN SettleFlight(a)
             ELSE Pop(a, "ok") /\ UNCHANGED <<task, pending>>
      BY <1>3 DEF TurnEnds, SessionExits
    <2>. QED BY <1>0, <1>1, <2>1, TurnOver
  <1>4. CASE AgentProposes(a)
    <2>1. Active(a) /\ Top(a).pc = "stream" /\ Top(a).emp \in Employees
      BY <1>0, <1>4, TopFacts DEF AgentProposes
    <2>2. PICK type \in AgentActions, t \in Tasks : Dispatch(a, type, t, Top(a).emp)
      BY <1>4 DEF AgentProposes
    <2>3. Caller(a) /\ Reading(a)
      BY <2>1 DEF Caller, Reading
    <2>. QED BY <1>0, <2>1, <2>2, <2>3, DispatchConnects
  <1>5. CASE ProposalRefused(a)
    <2>1. /\ Active(a) /\ Top(a).pc = "stream"
          /\ thread' = WithTop(a, [Top(a) EXCEPT !.pc = "failed"])
          /\ UNCHANGED <<accepting, epoch, task, queue, pending>>
      BY <1>5 DEF ProposalRefused
    <2>. QED BY <1>0, <1>1, <2>1, FrameAdvances
  <1>6. CASE HandleFailure(a)
    <2>1. /\ Active(a) /\ Top(a).pc = "failed" /\ queue' = Released(a)
          /\ UNCHANGED <<accepting, epoch>> /\ Top(a).op \in {"send", "review", "message"}
      BY <1>0, <1>6, TopFacts DEF HandleFailure, CallFrame
    <2>2. \/ Top(a).op = "send" /\ SettleFlight(a)
          \/ Top(a).op # "send" /\ (\E outcome : Pop(a, outcome)) /\ UNCHANGED <<task, pending>>
      BY <1>6, <2>1 DEF HandleFailure
    <2>. QED BY <1>0, <1>1, <2>1, <2>2, TurnOver
  <1>7. CASE SessionReplaced(a)
    BY <1>0, <1>7, SessionReplacedConnects
  <1>8. CASE ReplacementFails(a)
    BY <1>0, <1>8, ReplacementFailsConnects
  <1>9. CASE ReplacementAborted(a)
    BY <1>0, <1>9, ReplacingEnds DEF ReplacementAborted
  <1>10. CASE StartRecoveredReview(a)
    BY <1>0, <1>10, RecoveredReviewConnects
  <1>. QED BY <1>2, <1>3, <1>4, <1>5, <1>6, <1>7, <1>8, <1>9, <1>10 DEF ThreadStep

-----------------------------------------------------------------------------
(* Pauses, recoveries and crashes.                                          *)

\* Only finitely many tasks have been proposed so far.
Made == {t \in Tasks : Exists(t)}
FinitelyMade == IsFiniteSet(Made)

LEMMA MadeStep ==
    ASSUME FinitelyMade, OrchInv, TaskStep
    PROVE  FinitelyMade'
  <1>1. CASE UNCHANGED task
    BY <1>1 DEF FinitelyMade, Made, Exists
  <1>2. CASE TaskNext
    <2>0. PICK t \in Tasks : \E r : RowStep(t, r)
      BY <1>2, EveryStepIsRowStep DEF OrchInv
    <2>1. PICK r : RowStep(t, r)
      BY <2>0
    <2>2. Made' \subseteq Made \cup {t}
      BY <2>1 DEF RowStep, Made, Exists, OrchInv, TaskInv, TaskTypeOK
    <2>3. IsFiniteSet(Made \cup {t})
      BY FS_AddElement DEF FinitelyMade
    <2>4. IsFiniteSet(Made')
      BY <2>2, <2>3, FS_Subset
    <2>. QED BY <2>4 DEF FinitelyMade
  <1>. QED BY <1>1, <1>2 DEF TaskStep

\* Without calls nothing waits for a lock.
LEMMA NoCallsConnect ==
    ASSUME NEW T, NEW Q, T = [th \in Threads |-> Idle], Q = [e \in Employees |-> <<>>]
    PROVE  ShapeOK(T) /\ LinesOK(T, Q, NoThread)
  <1>1. \A th \in Threads : T[th].kind = "idle" /\ T[th].stack = <<>>
    BY DEF Idle
  <1>2. Len(<<>>) = 0 /\ \A d : d \notin 1..0
    OBVIOUS
  <1>3. ShapeOK(T)
    BY <1>1, <1>2 DEF ShapeOK, CallShape
  <1>4. \A e \in Employees, th \in Threads, d \in Nat : ~Wants(T, NoThread, e, th, d)
    BY <1>1, <1>2 DEF Wants
  <1>5. <<>> \in Seq(Places) /\ Distinct(<<>>) /\ \A th, d : ~Queued(<<>>, th, d)
    BY <1>2 DEF Distinct, Queued
  <1>6. \A e \in Employees : LineOK(<<>>, T, NoThread, e)
    BY <1>4, <1>5 DEF LineOK, Has
  <1>7. \A e \in Employees : Q[e] = <<>>
    OBVIOUS
  <1>. QED BY <1>3, <1>5, <1>6, <1>7 DEF LinesOK

LEMMA CrashConnects ==
    ASSUME Crash
    PROVE  Connected' /\ Driven'
  <1>1. ShapeOK(thread') /\ LinesOK(thread', queue', NoThread)
    BY NoCallsConnect DEF Crash
  <1>2. Out' = NoThread /\ PendingShape'
    BY NothingWillPend DEF Crash
  <1>3. Driven'
    BY DEF Driven, Crash
  <1>. QED BY <1>1, <1>2, <1>3, ConnectedNext

LEMMA InitConnects ==
    ASSUME Init
    PROVE  Connected /\ Driven /\ FinitelyMade
  <1>1. ShapeOK(thread) /\ LinesOK(thread, queue, NoThread)
    BY NoCallsConnect DEF Init
  <1>2. Out = NoThread /\ PendingShape
    BY NothingPends DEF Init
  <1>3. Running = {} /\ Made = {}
    BY DEF Init, TaskInit, NoTask, Running, Made, Exists
  <1>. QED BY <1>1, <1>2, <1>3, FS_EmptySet DEF Connected, Driven, FinitelyMade

\* Steps that touch neither the calls nor their locks.
LEMMA QuietConnects ==
    ASSUME Connected, Driven, UNCHANGED <<thread, queue, pending, task>>,
           ~accepting' \/ UNCHANGED <<accepting, epoch>>
    PROVE  Connected' /\ Driven'
  <1>1. Running' = Running
    BY DEF Running
  <1>2. Driven'
    <2>1. CASE ~accepting'
      BY <2>1 DEF Driven
    <2>2. CASE UNCHANGED <<accepting, epoch>>
      BY <1>1, <2>2, DrivenStays
    <2>. QED BY <2>1, <2>2
  <1>3. Out' = Out /\ PendingShape'
    BY DEF Connected, PendingShape, Out, Free, Top, Depth
  <1>. QED BY <1>2, <1>3, ConnectedNext DEF Connected

\* A recovery gives every running task and every task under review a call of its own.
LEMMA RecoverConnects ==
    ASSUME OrchInv, FinitelyMade, Recover, pending = Nothing
    PROVE  Connected' /\ Driven'
  <1> DEFINE running == {t \in Tasks : task[t].status = "running"}
             review == {t \in Tasks : task[t].status = "review"}
             slot == CHOOSE f \in [running \cup review -> Threads] : IsInjective(f)
             At1(frame) == [frame EXCEPT !.epoch = epoch + 1]
             line(e) == {<<slot[t], 1>> : t \in {u \in running : task[u].owner = e}}
             sent(t) == At1(Frame("send", t, task[t].owner))
             chained(t) == [At1(Frame("review", t, Reviewer)) EXCEPT !.pc = "chain"]
  <1>1. \A t \in running : task[t].owner \in Employees
    BY DEF OrchInv, TaskInv, StartedWorkHasWorktree, StartedStates
  <1>2. IsFiniteSet(running \cup review) /\ IsFiniteSet(running)
    <2>1. running \cup review \in SUBSET Made /\ running \in SUBSET Made
      BY DEF Made, Exists
    <2>. QED BY <2>1, FS_Subset DEF FinitelyMade
  <1>3. /\ slot \in [running \cup review -> Threads]
        /\ \A t, u \in running \cup review : slot[t] = slot[u] => t = u
    <2>1. Cardinality(running \cup review) <= Cardinality(Threads) /\ IsFiniteSet(Threads)
      BY OrchestratorAssumption DEF Recover
    <2>2. \E f \in [running \cup review -> Threads] : IsInjective(f)
      BY <1>2, <2>1, SmallerSetFits
    <2> DEFINE D == running \cup review
    <2>3. slot \in [D -> Threads] /\ IsInjective(slot)
      BY <2>2
    <2> HIDE DEF D, slot
    <2>4. \A t, u \in D : slot[t] = slot[u] => t = u
      BY <2>3 DEF IsInjective
    <2>. QED BY <2>3, <2>4 DEF D
  <1>4. /\ epoch' = epoch + 1 /\ accepting' = TRUE /\ pending' = Nothing /\ epoch \in Nat
        /\ UNCHANGED task
        /\ queue' = [e \in Employees |-> SetToSeq(line(e))]
        /\ thread' = [th \in Threads |->
             IF \E t \in running : slot[t] = th
             THEN LET t == CHOOSE t \in running : slot[t] = th
                  IN [kind |-> "flight", task |-> t, stack |-> <<sent(t)>>]
             ELSE IF \E t \in review : slot[t] = th
             THEN LET t == CHOOSE t \in review : slot[t] = th
                  IN [kind |-> "review", task |-> t, stack |-> <<chained(t)>>]
             ELSE Idle]
    BY DEF Recover, OrchInv, CallsOK
  <1>5. /\ \A t \in running : /\ sent(t).op = "send" /\ sent(t).task = t /\ sent(t).pc = "lock"
                              /\ sent(t).emp = task[t].owner /\ sent(t).epoch = epoch'
        /\ \A t \in review : /\ chained(t).op = "review" /\ chained(t).pc = "chain"
                             /\ chained(t).emp = Reviewer
    BY <1>4 DEF Frame
  <1> HIDE DEF slot, At1, sent, chained
  <1>6. \A t \in running : thread'[slot[t]] = [kind |-> "flight", task |-> t, stack |-> <<sent(t)>>]
    <2> TAKE t \in running
    <2>1. slot[t] \in Threads
      BY <1>3
    <2>2. (CHOOSE u \in running : slot[u] = slot[t]) = t
      BY <1>3
    <2>. QED BY <1>4, <2>1, <2>2
  <1>7. \A t \in review : thread'[slot[t]] = [kind |-> "review", task |-> t, stack |-> <<chained(t)>>]
    <2> TAKE t \in review
    <2>1. slot[t] \in Threads
      BY <1>3
    <2>2. t \notin running
      OBVIOUS
    <2>3. ~\E u \in running : slot[u] = slot[t]
      BY <1>3, <2>2
    <2>4. (CHOOSE u \in review : slot[u] = slot[t]) = t
      BY <1>3
    <2>. QED BY <1>4, <2>1, <2>3, <2>4
  <1>8. \A th \in Threads : \/ \E t \in running : th = slot[t]
                            \/ \E t \in review : th = slot[t]
                            \/ thread'[th] = Idle
    BY <1>4
  <1> HIDE DEF running, review
  <1>9. ASSUME NEW th \in Threads
        PROVE  \/ \E t \in running : /\ th = slot[t] /\ thread'[th].kind = "flight"
                                     /\ thread'[th].stack = <<sent(t)>>
               \/ \E t \in review : /\ thread'[th].kind = "review"
                                    /\ thread'[th].stack = <<chained(t)>>
               \/ thread'[th].kind = "idle" /\ thread'[th].stack = <<>>
    <2>1. CASE \E t \in running : th = slot[t]
      <3>1. PICK t \in running : th = slot[t]
        BY <2>1
      <3>2. thread'[th] = [kind |-> "flight", task |-> t, stack |-> <<sent(t)>>]
        BY <1>6, <3>1
      <3>3. thread'[th].kind = "flight" /\ thread'[th].stack = <<sent(t)>>
        BY <3>2
      <3>. QED BY <3>1, <3>3
    <2>2. CASE \E t \in review : th = slot[t]
      <3>1. PICK t \in review : th = slot[t]
        BY <2>2
      <3>2. thread'[th] = [kind |-> "review", task |-> t, stack |-> <<chained(t)>>]
        BY <1>7, <3>1
      <3>3. thread'[th].kind = "review" /\ thread'[th].stack = <<chained(t)>>
        BY <3>2
      <3>. QED BY <3>3
    <2>3. CASE thread'[th] = Idle
      BY <2>3 DEF Idle
    <2>. QED BY <1>8, <2>1, <2>2, <2>3
  <1>10. ShapeOK(thread')
    <2> SUFFICES ASSUME NEW th \in Threads PROVE CallShape(thread'[th])
      BY DEF ShapeOK
    <2>1. CASE \E t \in running : /\ thread'[th].kind = "flight" /\ thread'[th].stack = <<sent(t)>>
      BY <1>5, <2>1 DEF CallShape
    <2>2. CASE \E t \in review : /\ thread'[th].kind = "review" /\ thread'[th].stack = <<chained(t)>>
      BY <1>5, <2>2 DEF CallShape
    <2>3. CASE thread'[th].kind = "idle" /\ thread'[th].stack = <<>>
      BY <2>3 DEF CallShape
    <2>. QED BY <1>9, <2>1, <2>2, <2>3
  <1>11. ASSUME NEW e \in Employees, NEW th \in Threads, NEW d \in Nat
         PROVE  /\ Wants(thread', NoThread, e, th, d) <=> <<th, d>> \in line(e)
                /\ ~Has(thread', NoThread, e, th, d)
    <2>1. th # NoThread
      BY NoThreadIsNone
    <2>2. CASE \E t \in running : th = slot[t] /\ thread'[th].stack = <<sent(t)>>
      <3>1. PICK t \in running : th = slot[t] /\ thread'[th].stack = <<sent(t)>>
        BY <2>2
      <3>2. Wants(thread', NoThread, e, th, d) <=> d = 1 /\ task[t].owner = e
        BY <1>5, <2>1, <3>1 DEF Wants
      <3>3. ~Has(thread', NoThread, e, th, d)
        BY <1>5, <2>1, <3>1 DEF Wants, Has, Waiting
      <3>4. <<th, d>> \in line(e) <=> d = 1 /\ task[t].owner = e
        BY <1>3, <3>1
      <3>. QED BY <3>2, <3>3, <3>4
    <2>3. CASE ~\E t \in running : th = slot[t]
      <3>1. <<th, d>> \notin line(e)
        BY <2>3
      <3>2. ~Wants(thread', NoThread, e, th, d)
        BY <1>5, <1>9, <2>3 DEF Wants
      <3>. QED BY <3>1, <3>2 DEF Has
    <2>4. CASE \E t \in running : th = slot[t]
      <3>1. PICK t \in running : th = slot[t]
        BY <2>4
      <3>2. thread'[th] = [kind |-> "flight", task |-> t, stack |-> <<sent(t)>>]
        BY <1>6, <3>1
      <3>3. thread'[th].stack = <<sent(t)>>
        BY <3>2
      <3>. QED BY <2>2, <3>1, <3>3
    <2>. QED BY <2>3, <2>4
  <1>12. ASSUME NEW e \in Employees
         PROVE  LineOK(queue'[e], thread', NoThread, e) /\ queue'[e] \in Seq(Places)
    <2> DEFINE s == queue'[e]
               own == {u \in running : task[u].owner = e}
    <2>1. s = SetToSeq(line(e))
      BY <1>4
    <2>2. IsFiniteSet(line(e))
      <3>1. IsFiniteSet(own)
        BY <1>2, FS_Subset
      <3> DEFINE f == [t \in own |-> <<slot[t], 1>>]
      <3>2. f \in Surjection(own, line(e))
        <4>1. f \in [own -> line(e)]
          OBVIOUS
        <4>2. \A x \in line(e) : \E t \in own : f[t] = x
          OBVIOUS
        <4>. QED BY <4>1, <4>2 DEF Surjection
      <3>. QED BY <3>1, <3>2, FS_Surjection
    <2>3. line(e) \subseteq Places
      BY <1>3 DEF Places
    <2> HIDE DEF line
    <2>4. /\ s \in Seq(line(e)) /\ Distinct(s)
          /\ \A x \in line(e) : \E i \in 1..Len(s) : s[i] = x
      BY <2>1, <2>2, SetToSeqIs
    <2> HIDE DEF s
    <2>5. s \in Seq(Places)
      BY <2>3, <2>4
    <2>6. \A i \in 1..Len(s) : s[i] \in line(e)
      BY <2>4, ElementOfSeq
    <2>7. \A th \in Threads, d \in Nat : Queued(s, th, d) <=> Wants(thread', NoThread, e, th, d)
      BY <1>11, <2>4, <2>6 DEF Queued
    <2>8. \A th \in Threads, d \in Nat : ~Has(thread', NoThread, e, th, d)
      BY <1>11
    <2>9. LineOK(s, thread', NoThread, e)
      BY <2>4, <2>5, <2>7, <2>8 DEF LineOK
    <2>. QED BY <2>5, <2>9 DEF s
  <1>13. LinesOK(thread', queue', NoThread)
    <2>1. queue' = [e \in Employees |-> queue'[e]]
      BY <1>4
    <2>2. queue' \in [Employees -> Seq(Places)]
      BY <1>12, <2>1
    <2>. QED BY <1>12, <2>2 DEF LinesOK
  <1>14. Driven'
    <2>1. ASSUME NEW t \in Running'
          PROVE  \E th \in Threads : Drives(thread', epoch', th, t)
      <3>1. t \in running
        BY <1>4 DEF Running, running
      <3>2. slot[t] \in Threads /\ thread'[slot[t]].stack = <<sent(t)>>
        <4>1. slot[t] \in Threads
          BY <1>3, <3>1
        <4>2. thread'[slot[t]] = [kind |-> "flight", task |-> t, stack |-> <<sent(t)>>]
          BY <1>6, <3>1
        <4>. QED BY <4>1, <4>2
      <3>3. Drives(thread', epoch', slot[t], t)
        BY <1>5, <3>1, <3>2 DEF Drives
      <3>. QED BY <3>2, <3>3
    <2>. QED BY <2>1 DEF Driven, Drives
  <1>15. Out' = NoThread /\ PendingShape'
    BY <1>4, NothingWillPend
  <1>. QED BY <1>10, <1>13, <1>14, <1>15, ConnectedNext

LEMMA EveryStepConnects ==
    ASSUME OrchInv, FinitelyMade, Connected, Driven, [Next]_vars
    PROVE  Connected' /\ Driven'
  <1>1. CASE StartReady \/ RetryFlight
    BY <1>1, StartReadyConnects, RetryFlightConnects
  <1>2. CASE \E th \in Threads : ThreadStep(th)
    BY <1>2, ThreadConnects
  <1>3. CASE pending = Nothing /\ ClientDispatches
    <2>1. Caller(Client) /\ Reading(Client)
      BY DEF Caller, Reading
    <2>2. PICK type \in ClientActions, t \in Tasks, actor \in Employees :
             Dispatch(Client, type, t, actor)
      BY <1>3 DEF ClientDispatches
    <2>. QED BY <1>3, <2>1, <2>2, DispatchConnects
  <1>4. CASE PauseBegin \/ PauseDone
    BY <1>4, QuietConnects DEF PauseBegin, PauseDone
  <1>5. CASE pending = Nothing /\ Recover
    BY <1>5, RecoverConnects
  <1>6. CASE Crash
    BY <1>6, CrashConnects
  <1>7. CASE UNCHANGED vars
    BY <1>7, QuietConnects DEF vars, core
  <1>. QED BY <1>1, <1>2, <1>3, <1>4, <1>5, <1>6, <1>7 DEF Next

-----------------------------------------------------------------------------
(* The other variables.                                                     *)

RestOK ==
    /\ epoch <= MaxEpoch
    /\ inFlight \in [Tasks -> Threads \cup {NoThread}]
    /\ reviewTail \in Seq(Threads) /\ Distinct(reviewTail)
    /\ session \in [Employees -> BOOLEAN]
    /\ asked \subseteq Tasks
    /\ lifecycle \in {"running", "pausing", "paused"}

LEMMA EndRest ==
    ASSUME RestOK, NEW a \in Threads, End(a)
    PROVE  /\ inFlight' \in [Tasks -> Threads \cup {NoThread}]
           /\ reviewTail' \in Seq(Threads) /\ Distinct(reviewTail')
  <1>1. inFlight' \in [Tasks -> Threads \cup {NoThread}]
    BY DEF RestOK, End
  <1>2. RemoveFirst(reviewTail, a) \in Seq(Threads) /\ Distinct(RemoveFirst(reviewTail, a))
    BY RemoveFirstIs DEF RestOK
  <1>. QED BY <1>1, <1>2 DEF End

LEMMA PopRest ==
    ASSUME RestOK, NEW a \in Threads, NEW outcome, Pop(a, outcome)
    PROVE  /\ inFlight' \in [Tasks -> Threads \cup {NoThread}]
           /\ reviewTail' \in Seq(Threads) /\ Distinct(reviewTail')
  BY EndRest DEF Pop, RestOK

\* The end of a turn: the call ends, goes back to the dispatch below, or stays.
LEMMA TurnRest ==
    ASSUME RestOK, NEW a \in Threads,
           SettleFlight(a) \/ (\E outcome : Pop(a, outcome)) \/ End(a)
              \/ UNCHANGED <<inFlight, reviewTail>>
    PROVE  /\ inFlight' \in [Tasks -> Threads \cup {NoThread}]
           /\ reviewTail' \in Seq(Threads) /\ Distinct(reviewTail')
  <1>1. End(a) \/ (\E outcome : Pop(a, outcome)) \/ UNCHANGED <<inFlight, reviewTail>>
    BY DEF SettleFlight
  <1>. QED BY <1>1, EndRest, PopRest DEF RestOK

LEMMA SessionRest ==
    ASSUME RestOK, NEW e \in Employees, NEW b \in BOOLEAN
    PROVE  [session EXCEPT ![e] = b] \in [Employees -> BOOLEAN]
  BY DEF RestOK

LEMMA DispatchRest ==
    ASSUME RestOK, NEW c, NEW type, NEW t \in Tasks, NEW actor, Dispatch(c, type, t, actor),
           UNCHANGED lifecycle
    PROVE  RestOK'
  <1>1. asked' \subseteq Tasks
    BY DEF Dispatch, CreateProposedTask, AssignAndSend, StartTask, RecordSubmissionAndRequestReview,
           RequestReview, Approve, RejectAndMaybeRequeue, BlockTask, RouteEmployeeMessage, Ask, RestOK
  <1>2. UNCHANGED <<epoch, inFlight, reviewTail, session>>
    BY DEF Dispatch, CreateProposedTask, AssignAndSend, StartTask, RecordSubmissionAndRequestReview,
           RequestReview, Approve, RejectAndMaybeRequeue, BlockTask, RouteEmployeeMessage
  <1>. QED BY <1>1, <1>2 DEF RestOK, Distinct

LEMMA ThreadRest ==
    ASSUME OrchInv, RestOK, NEW a \in Threads, ThreadStep(a)
    PROVE  RestOK'
  <1>0. CallsOK
    BY DEF OrchInv
  <1>1. CASE AgentProposes(a)
    <2>1. PICK type \in AgentActions, t \in Tasks : Dispatch(a, type, t, Top(a).emp)
      BY <1>1 DEF AgentProposes
    <2>. QED BY <1>1, <2>1, DispatchRest DEF AgentProposes
  <1>2. CASE ~AgentProposes(a)
    <2>1. UNCHANGED <<epoch, lifecycle>>
      BY <1>2 DEF ThreadStep, Acquire, TurnEnds, SessionExits, ProposalRefused, HandleFailure,
                  SessionReplaced, ReplacementFails, ReplacementAborted, StartRecoveredReview
    <2>2. Active(a)
      BY <1>2 DEF ThreadStep, Acquire, TurnEnds, SessionExits, ProposalRefused, HandleFailure,
                  SessionReplaced, ReplacementFails, ReplacementAborted, StartRecoveredReview,
                  Replacing, At
    <2>3. Top(a).emp \in Employees /\ Top(a).task \in Tasks
          /\ Top(a).op \in {"send", "review", "message"}
      BY <1>0, <2>2, TopFacts DEF CallFrame
    <2>4. /\ inFlight' \in [Tasks -> Threads \cup {NoThread}]
          /\ reviewTail' \in Seq(Threads) /\ Distinct(reviewTail')
      <3>1. SettleFlight(a) \/ (\E outcome : Pop(a, outcome)) \/ End(a)
               \/ UNCHANGED <<inFlight, reviewTail>>
        BY <1>2, <2>3 DEF ThreadStep, Acquire, TurnEnds, SessionExits, ProposalRefused, HandleFailure,
                  SessionReplaced, StartAgain, ReplacementFails, ReplacementAborted,
                  StartRecoveredReview
      <3>. QED BY <3>1, TurnRest
    <2>5. session' \in [Employees -> BOOLEAN]
      <3>1. \/ session' = session
            \/ \E b \in BOOLEAN : session' = [session EXCEPT ![Top(a).emp] = b]
        BY <1>2 DEF ThreadStep, Acquire, TurnEnds, SessionExits, ProposalRefused, HandleFailure,
                  SessionReplaced, ReplacementFails, ReplacementAborted, StartRecoveredReview
      <3>. QED BY <2>3, <3>1, SessionRest DEF RestOK
    <2>6. asked' \subseteq Tasks
      <3>1. \/ asked' = asked \/ asked' = asked \cup {Top(a).task}
            \/ asked' = asked \ {Top(a).task}
        BY <1>2 DEF ThreadStep, Acquire, TurnEnds, SessionExits, ProposalRefused, HandleFailure,
                  SessionReplaced, StartAgain, ReplacementFails, ReplacementAborted,
                  StartRecoveredReview, Ask
      <3>. QED BY <2>3, <3>1 DEF RestOK
    <2>. QED BY <2>1, <2>4, <2>5, <2>6 DEF RestOK, Distinct
  <1>. QED BY <1>1, <1>2

LEMMA RecoverRest ==
    ASSUME OrchInv, FinitelyMade, RestOK, Recover
    PROVE  RestOK'
  <1> DEFINE running == {t \in Tasks : task[t].status = "running"}
             review == {t \in Tasks : task[t].status = "review"}
             slot == CHOOSE f \in [running \cup review -> Threads] : IsInjective(f)
  <1>1. IsFiniteSet(running \cup review) /\ IsFiniteSet(review)
    <2>1. running \cup review \in SUBSET Made /\ review \in SUBSET Made
      BY DEF Made, Exists
    <2>. QED BY <2>1, FS_Subset DEF FinitelyMade
  <1>2. slot \in [running \cup review -> Threads]
    <2>1. Cardinality(running \cup review) <= Cardinality(Threads) /\ IsFiniteSet(Threads)
      BY OrchestratorAssumption DEF Recover
    <2>2. \E f \in [running \cup review -> Threads] : IsInjective(f)
      BY <1>1, <2>1, SmallerSetFits
    <2>. QED BY <2>2
  <1>3. /\ inFlight' = [t \in Tasks |-> IF t \in running \cup review THEN slot[t] ELSE NoThread]
        /\ reviewTail' = SetToSeq({slot[t] : t \in review})
        /\ epoch' = epoch + 1 /\ epoch < MaxEpoch /\ lifecycle' = "running"
        /\ session' = [e \in Employees |-> TRUE] /\ asked' = asked
    BY DEF Recover
  <1> HIDE DEF slot, running
  <1>4. inFlight' \in [Tasks -> Threads \cup {NoThread}]
    BY <1>2, <1>3
  <1> HIDE DEF review
  <1>5. reviewTail' \in Seq(Threads) /\ Distinct(reviewTail')
    <2> DEFINE S == {slot[t] : t \in review}
               f == [t \in review |-> slot[t]]
    <2>1. f \in Surjection(review, S)
      <3>1. f \in [review -> S] /\ \A x \in S : \E t \in review : f[t] = x
        OBVIOUS
      <3>. QED BY <3>1 DEF Surjection
    <2>2. IsFiniteSet(S)
      BY <1>1, <2>1, FS_Surjection
    <2>3. S \subseteq Threads
      BY <1>2
    <2> HIDE DEF S
    <2>4. SetToSeq(S) \in Seq(S) /\ Distinct(SetToSeq(S))
      BY <2>2, SetToSeqIs
    <2>5. reviewTail' = SetToSeq(S)
      BY <1>3 DEF S
    <2>. QED BY <2>3, <2>4, <2>5
  <1>6. epoch' <= MaxEpoch
    BY <1>3, OrchestratorAssumption DEF OrchInv, CallsOK
  <1>7. session' \in [Employees -> BOOLEAN]
    BY <1>3
  <1>. QED BY <1>3, <1>4, <1>5, <1>6, <1>7 DEF RestOK, Distinct

LEMMA RestStep ==
    ASSUME OrchInv, FinitelyMade, Connected, RestOK, [Next]_vars
    PROVE  RestOK'
  <1>1. CASE StartReady
    <2>1. pending.task \in Tasks /\ Free # {}
      BY <1>1 DEF OrchInv, PendingOK, StartReady, Nothing, Connected, PendingShape
    <2>2. UNCHANGED <<epoch, reviewTail, session, lifecycle>>
      BY <1>1 DEF StartReady
    <2>3. asked' \subseteq Tasks
      BY <1>1, <2>1 DEF StartReady, Ask, RestOK
    <2>4. NextFree \in Threads
      BY <2>1, NextFreeIsFree
    <2>5. UNCHANGED inFlight \/ inFlight' = [inFlight EXCEPT ![pending.task] = NextFree]
      BY <1>1 DEF StartReady
    <2>6. inFlight' \in [Tasks -> Threads \cup {NoThread}]
      BY <2>4, <2>5 DEF RestOK
    <2>. QED BY <2>2, <2>3, <2>6 DEF RestOK, Distinct
  <1>2. CASE RetryFlight
    <2>1. pending.task \in Tasks /\ pending.caller \in Threads
      BY <1>2 DEF OrchInv, PendingOK, RetryFlight, Nothing
    <2>2. UNCHANGED <<epoch, session, lifecycle>>
      BY <1>2 DEF RetryFlight
    <2>3. asked' \subseteq Tasks
      BY <1>2, <2>1 DEF RetryFlight, Ask, RestOK
    <2>4. End(pending.caller) \/ UNCHANGED <<inFlight, reviewTail>>
      BY <1>2 DEF RetryFlight
    <2>5. /\ inFlight' \in [Tasks -> Threads \cup {NoThread}]
          /\ reviewTail' \in Seq(Threads) /\ Distinct(reviewTail')
      BY <2>1, <2>4, TurnRest
    <2>. QED BY <2>2, <2>3, <2>5 DEF RestOK, Distinct
  <1>3. CASE \E th \in Threads : ThreadStep(th)
    BY <1>3, ThreadRest
  <1>4. CASE ClientDispatches
    BY <1>4, DispatchRest DEF ClientDispatches
  <1>5. CASE PauseBegin
    <2>1. epoch' <= MaxEpoch
      BY <1>5, OrchestratorAssumption DEF PauseBegin, OrchInv, CallsOK
    <2>. QED BY <1>5, <2>1 DEF PauseBegin, RestOK, Distinct
  <1>6. CASE PauseDone
    BY <1>6 DEF PauseDone, RestOK, Distinct
  <1>7. CASE Recover
    BY <1>7, RecoverRest
  <1>8. CASE Crash
    <2>1. epoch' <= MaxEpoch
      BY <1>8, OrchestratorAssumption DEF Crash
    <2>2. reviewTail' \in Seq(Threads) /\ Distinct(reviewTail')
      BY <1>8 DEF Crash, Distinct
    <2>3. /\ inFlight' \in [Tasks -> Threads \cup {NoThread}]
          /\ session' \in [Employees -> BOOLEAN]
      BY <1>8 DEF Crash
    <2>. QED BY <1>8, <2>1, <2>2, <2>3 DEF Crash, RestOK, Distinct
  <1>9. CASE UNCHANGED vars
    BY <1>9 DEF vars, core, RestOK, Distinct
  <1>. QED BY <1>1, <1>2, <1>3, <1>4, <1>5, <1>6, <1>7, <1>8, <1>9 DEF Next

LEMMA InitRest ==
    ASSUME Init
    PROVE  RestOK
  <1>1. epoch <= MaxEpoch
    BY OrchestratorAssumption DEF Init
  <1>2. reviewTail \in Seq(Threads) /\ Distinct(reviewTail)
    BY DEF Init, Distinct
  <1>3. inFlight \in [Tasks -> Threads \cup {NoThread}] /\ session \in [Employees -> BOOLEAN]
    BY DEF Init
  <1>. QED BY <1>1, <1>2, <1>3 DEF Init, RestOK

-----------------------------------------------------------------------------
(* The theorems.                                                            *)

\* The inductive invariant: the calls and their locks agree, what is running is driven,
\* and the other variables have their types.
CallsInv == OrchInv /\ FinitelyMade /\ Connected /\ Driven /\ RestOK

LEMMA CallsInvInit == Init => CallsInv
  BY OrchInitInv, InitConnects, InitRest DEF CallsInv

LEMMA CallsInvStep == CallsInv /\ [Next]_vars => CallsInv'
  <1> SUFFICES ASSUME CallsInv, [Next]_vars PROVE CallsInv'
    OBVIOUS
  <1>1. OrchInv /\ FinitelyMade /\ Connected /\ Driven /\ RestOK
    BY DEF CallsInv
  <1>2. OrchInv' /\ TaskStep
    BY <1>1, OrchStepInv
  <1>3. FinitelyMade'
    BY <1>1, <1>2, MadeStep
  <1>4. Connected' /\ Driven' /\ RestOK'
    BY <1>1, EveryStepConnects, RestStep
  <1>. QED BY <1>2, <1>3, <1>4 DEF CallsInv

\* Nothing the orchestrator does, in any order, separates the calls from their locks or
\* running work from the call that waits for it.
THEOREM CallsInvariant == Spec => []CallsInv
  BY CallsInvInit, CallsInvStep, PTL DEF Spec

\* While the Core dispatches, every running task is driven by a sendTask of the current
\* epoch, for any number of employees, tasks, calls and nested turns: no rejection, retry,
\* pause, recovery or crash leaves work that nobody waits for (startInFlight, sendTask,
\* recoverWork).
THEOREM RunningDriven == Spec => []RunningWorkIsDriven
  <1>1. CallsInv => RunningWorkIsDriven
    <2> SUFFICES ASSUME CallsInv, accepting, NEW t \in Running
                 PROVE  \E th \in Threads :
                           /\ Active(th)
                           /\ thread[th].stack[1].op = "send" /\ thread[th].stack[1].task = t
                           /\ thread[th].stack[1].epoch = epoch
      BY DEF RunningWorkIsDriven
    <2>1. PICK th \in Threads : Drives(thread, epoch, th, t)
      BY DEF CallsInv, Driven
    <2>. QED BY <2>1 DEF Drives, Active, Depth
  <1>. QED BY <1>1, CallsInvariant, PTL

\* The line of an employee and the frames that want its lock are the same thing.
LEMMA LocksMatch ==
    ASSUME CallsInv
    PROVE  LocksMatchCalls
  <1> SUFFICES ASSUME pending = Nothing PROVE LocksMatchCalls
    BY DEF LocksMatchCalls
  <1>1. /\ CallsOK /\ LinesOK(thread, queue, NoThread)
    BY NothingPends DEF CallsInv, OrchInv, Connected
  <1>2. ASSUME NEW e \in Employees, NEW i \in 1..Len(queue[e])
        PROVE  LET th == queue[e][i][1]
                   d  == queue[e][i][2]
               IN /\ d <= Depth(th) /\ thread[th].stack[d].emp = e
                  /\ \A j \in 1..Len(queue[e]) : queue[e][j] = queue[e][i] => j = i
    <2> DEFINE q == queue[e]
               th == q[i][1]
               d == q[i][2]
    <2>1. LineOK(q, thread, NoThread, e)
      BY <1>1 DEF LinesOK
    <2>2. q \in Seq(Places) /\ Distinct(q) /\ i \in 1..Len(q)
      BY <1>2, <2>1 DEF LineOK
    <2> HIDE DEF q
    <2>3. q[i] \in Threads \X Nat
      BY <2>2, ElementOfSeq DEF Places
    <2>4. q[i] = <<th, d>> /\ th \in Threads /\ d \in Nat
      BY <2>3
    <2>5. Queued(q, th, d)
      BY <2>2, <2>4 DEF Queued
    <2>6. Wants(thread, NoThread, e, th, d)
      BY <2>1, <2>4, <2>5 DEF LineOK
    <2>7. d <= Depth(th) /\ thread[th].stack[d].emp = e
      BY <2>6 DEF Wants, Depth
    <2>8. \A j \in 1..Len(q) : q[j] = q[i] => j = i
      BY <2>2 DEF Distinct
    <2>. QED BY <2>7, <2>8 DEF q
  <1>3. ASSUME NEW th \in Threads, NEW d \in 1..Depth(th)
        PROVE  LET frame == thread[th].stack[d]
                   line  == queue[frame.emp]
               IN CASE frame.pc = "chain"     -> TRUE
                    [] frame.pc \in Waiting -> Contains(line, <<th, d>>)
                    [] OTHER -> line # <<>> /\ Head(line) = <<th, d>>
    <2> DEFINE frame == thread[th].stack[d]
               e == frame.emp
    <2>1. thread[th].stack \in Seq(Frames)
      BY <1>1 DEF CallsOK, Calls
    <2>2. frame \in Frames /\ e \in Employees /\ d \in Nat /\ d \in 1..Len(thread[th].stack)
      <3>1. d \in 1..Len(thread[th].stack)
        BY <1>3 DEF Depth
      <3>2. frame \in Frames
        BY <2>1, <3>1, ElementOfSeq
      <3>3. d \in Nat
        <4>1. \A n \in Nat : \A k \in 1..n : k \in Nat
          OBVIOUS
        <4>2. Len(thread[th].stack) \in Nat
          BY <2>1
        <4>. QED BY <3>1, <4>1, <4>2
      <3>4. \A f \in Frames : f.emp \in Employees
        BY DEF Frames, CallFrame
      <3>. QED BY <3>1, <3>2, <3>3, <3>4
    <2>3. LineOK(queue[e], thread, NoThread, e) /\ queue[e] \in Seq(Places)
      <3>1. \A x \in Employees : LineOK(queue[x], thread, NoThread, x) /\ queue[x] \in Seq(Places)
        BY <1>1 DEF LinesOK
      <3>2. e \in Employees
        BY <2>2
      <3> HIDE DEF e
      <3>. QED BY <3>1, <3>2
    <2>4. CASE frame.pc = "chain"
      BY <2>4 DEF Waiting
    <2>5. CASE frame.pc # "chain" /\ frame.pc \in Waiting
      <3>1. Queued(queue[e], th, d)
        BY <2>2, <2>3, <2>5, NoThreadIsNone DEF LineOK, Wants
      <3>. QED BY <2>5, <3>1 DEF Queued, Contains
    <2>6. CASE frame.pc # "chain" /\ frame.pc \notin Waiting
      <3>1. First(queue[e], th, d)
        BY <2>2, <2>3, <2>6, NoThreadIsNone DEF LineOK, Wants, Has
      <3>2. queue[e] # <<>> /\ Head(queue[e]) = <<th, d>>
        BY <2>3, <3>1 DEF First
      <3>. QED BY <2>6, <3>2
    <2>. QED BY <2>4, <2>5, <2>6
  <1>. QED BY <1>2, <1>3 DEF LocksMatchCalls

\* Every variable keeps its type, and the locks agree with the calls, however turns,
\* messages and retries are nested: whoever is past its lock holds it, nobody waits
\* twice, and no finished call left its lock behind (#acquire, #sendTails).
THEOREM OrchTypesHold == Spec => []OrchTypeOK
  <1>1. CallsInv => OrchTypeOK
    <2> SUFFICES ASSUME CallsInv PROVE OrchTypeOK
      OBVIOUS
    <2>1. TaskTypeOK /\ CallsOK /\ ShapeOK(thread) /\ RestOK /\ PendingOK
      BY DEF CallsInv, OrchInv, TaskInv, Connected
    <2>2. accepting \in BOOLEAN /\ epoch \in 0..MaxEpoch
      BY <2>1, OrchestratorAssumption DEF CallsOK, RestOK
    <2>3. \A i \in 1..Len(reviewTail) : reviewTail[i] \in Threads
      BY <2>1, ElementOfSeq DEF RestOK
    <2>4. ASSUME NEW th \in Threads
          PROVE  /\ thread[th].kind \in {"idle", "flight", "client", "review"}
                 /\ thread[th].task \in Tasks \cup {"none"}
                 /\ (thread[th].kind = "idle") = (Depth(th) = 0)
                 /\ \A d \in 1..Depth(th) : thread[th].stack[d] \in FrameType
      <3>1. thread[th] \in [kind : {"idle", "flight", "client", "review"},
                            task : Tasks \cup {"none"}, stack : Seq(Frames)]
        BY <2>1 DEF CallsOK, Calls
      <3>2. (thread[th].kind = "idle") = (Depth(th) = 0)
        BY <2>1 DEF ShapeOK, CallShape, Depth
      <3>3. ASSUME NEW f \in Frames PROVE f \in FrameType
        <4>1. f \in CallFrame /\ f.epoch <= epoch /\ f.epoch \in Nat
          BY DEF Frames, CallFrame
        <4>2. f.epoch \in 0..MaxEpoch
          BY <2>2, <4>1, OrchestratorAssumption
        <4>. QED BY <4>1, <4>2 DEF CallFrame, FrameType
      <3>4. \A d \in 1..Depth(th) : thread[th].stack[d] \in Frames
        BY <3>1, ElementOfSeq DEF Depth
      <3>. QED BY <3>1, <3>2, <3>3, <3>4
    <2>5. DOMAIN queue = Employees
      BY DEF CallsInv, Connected, LinesOK
    <2>6. pending = Nothing \/ pending.step \in {"start", "retry"}
      BY <2>1 DEF PendingOK
    <2>7. LocksMatchCalls
      BY LocksMatch
    <2>. QED BY <2>1, <2>2, <2>3, <2>4, <2>5, <2>6, <2>7 DEF OrchTypeOK, RestOK
  <1>. QED BY <1>1, CallsInvariant, PTL

-----------------------------------------------------------------------------
(* Nothing waits in silence.                                                *)
(*                                                                          *)
(* A task under review that the user was not asked about has a review that  *)
(* is under way and has not decided.  The reviews that end without a word   *)
(* are those whose reviewer has no session, and only a recovery gives a     *)
(* reviewer a session again: it starts every review anew.                   *)

\* No task is assigned to the reviewer: assign demands a git worktree.
ReviewerOnlyReviews == Workspace[Reviewer] # "git_worktree"

\* Nobody dispatches task.block, after which the user is not asked.
NobodyBlocks == "task.block" \notin ClientActions \cup AgentActions

FrameOK(f) ==
    /\ f.op = "review" => f.emp = Reviewer
    /\ f.op = "send" => f.emp # Reviewer
    /\ accepting => f.epoch = epoch

FramesOK(T) == \A th \in Threads : \A d \in 1..Len(T[th].stack) : FrameOK(T[th].stack[d])

\* Frame f is a review of task t that has not decided.
Reviews(f, t) == f.op = "review" /\ f.task = t /\ ~f.decided

UnderReview(T, t) ==
    \E th \in Threads : \E d \in 1..Len(T[th].stack) : Reviews(T[th].stack[d], t)

ReviewsUnderWay ==
    accepting /\ session[Reviewer] =>
        \A t \in Tasks : task[t].status = "review" => t \in asked \/ UnderReview(thread, t)

BlockedAsked ==
    NobodyBlocks => \A t \in Tasks : task[t].status = "blocked" => t \in asked

SilenceInv == FramesOK(thread) /\ ReviewsUnderWay /\ BlockedAsked

\* No review of the calls T is lost in the calls T2, or only one of frame f.
StillReviewed(T, T2) == \A t \in Tasks : UnderReview(T, t) => UnderReview(T2, t)
LosesOnly(T, T2, f) ==
    \A t \in Tasks : UnderReview(T, t) => UnderReview(T2, t) \/ Reviews(f, t)

\* A frame that goes on with the same review.
Alike(f, g) == g.op = f.op /\ g.task = f.task /\ g.decided = f.decided

LEMMA KeepsTwice ==
    ASSUME NEW T, NEW T2, NEW T3, StillReviewed(T, T2), StillReviewed(T2, T3)
    PROVE  StillReviewed(T, T3)
  BY DEF StillReviewed

LEMMA TopReviews ==
    ASSUME CallsOK, FramesOK(thread), NEW a \in Threads, Active(a), NEW f, FrameOK(f)
    PROVE  /\ FramesOK(WithTop(a, f)) /\ LosesOnly(thread, WithTop(a, f), Top(a))
           /\ Alike(Top(a), f) => StillReviewed(thread, WithTop(a, f))
  <1> DEFINE T2 == WithTop(a, f)
             n == Depth(a)
  <1>1. /\ \A th \in Threads : th # a => T2[th] = thread[th]
        /\ Len(T2[a].stack) = n /\ T2[a].stack[n] = f
        /\ \A d \in 1..n - 1 : T2[a].stack[d] = thread[a].stack[d]
    BY WithTopIs
  <1>2. n \in Nat /\ n > 0 /\ n = Len(thread[a].stack) /\ Top(a) = thread[a].stack[n]
    BY TopFacts
  <1>3. \A d \in 1..n : d = n \/ d \in 1..n - 1
    BY <1>2
  <1> HIDE DEF T2, n
  <1>4. n \in 1..n /\ \A d \in 1..n - 1 : d \in 1..n
    BY <1>2
  <1>5. FramesOK(T2)
    BY <1>1, <1>2, <1>3, <1>4 DEF FramesOK
  <1>6. ASSUME NEW t \in Tasks, UnderReview(thread, t), ~UnderReview(T2, t)
        PROVE  Reviews(Top(a), t) /\ ~Reviews(f, t)
    <2>1. PICK th \in Threads : \E d \in 1..Len(thread[th].stack) : Reviews(thread[th].stack[d], t)
      BY <1>6 DEF UnderReview
    <2>2. PICK d \in 1..Len(thread[th].stack) : Reviews(thread[th].stack[d], t)
      BY <2>1
    <2>3. th = a
      BY <1>1, <1>6, <2>2 DEF UnderReview
    <2>4. d = n
      BY <1>1, <1>2, <1>3, <1>4, <1>6, <2>2, <2>3 DEF UnderReview
    <2>5. ~Reviews(T2[a].stack[n], t)
      BY <1>1, <1>4, <1>6 DEF UnderReview
    <2>. QED BY <1>1, <1>2, <2>2, <2>3, <2>4, <2>5
  <1>. QED BY <1>5, <1>6 DEF StillReviewed, LosesOnly, T2, Alike, Reviews

LEMMA EndReviews ==
    ASSUME CallsOK, FramesOK(thread), NEW a \in Threads, Active(a), Depth(a) = 1,
           thread' = [thread EXCEPT ![a] = Idle]
    PROVE  FramesOK(thread') /\ LosesOnly(thread, thread', Top(a))
  <1>1. 1 = Len(thread[a].stack) /\ Top(a) = thread[a].stack[1]
    BY TopFacts
  <1>2. /\ \A th \in Threads : th # a => thread'[th] = thread[th]
        /\ thread'[a].stack = <<>>
    BY DEF CallsOK, Calls, Idle
  <1>3. FramesOK(thread')
    BY <1>2 DEF FramesOK
  <1>4. ASSUME NEW t \in Tasks, UnderReview(thread, t), ~UnderReview(thread', t)
        PROVE  Reviews(Top(a), t)
    <2>1. PICK th \in Threads : \E d \in 1..Len(thread[th].stack) : Reviews(thread[th].stack[d], t)
      BY <1>4 DEF UnderReview
    <2>2. PICK d \in 1..Len(thread[th].stack) : Reviews(thread[th].stack[d], t)
      BY <2>1
    <2>3. th = a
      BY <1>2, <1>4, <2>2 DEF UnderReview
    <2>. QED BY <1>1, <2>2, <2>3
  <1>. QED BY <1>3, <1>4 DEF LosesOnly

LEMMA PopReviews ==
    ASSUME CallsOK, FramesOK(thread), NEW a \in Threads, Active(a), NEW outcome, Pop(a, outcome)
    PROVE  FramesOK(thread') /\ LosesOnly(thread, thread', Top(a))
  <1>1. CASE Depth(a) = 1
    BY <1>1, EndReviews DEF Pop, End
  <1>2. CASE Depth(a) # 1
    <2> DEFINE s == thread[a].stack
               n == Depth(a)
               pc == IF outcome = "ok" THEN "stream" ELSE "failed"
               g == [s[n - 1] EXCEPT !.pc = pc]
               t2 == Append(SubSeq(s, 1, n - 2), g)
    <2>1. /\ s \in Seq(Frames) /\ n \in Nat /\ n > 1 /\ n = Len(s) /\ Top(a) = s[n]
      BY <1>2, TopFacts
    <2>2. thread' = [thread EXCEPT ![a].stack = Append(SubSeq(@, 1, n - 2), g)]
      BY <1>2 DEF Pop
    <2>3. s[n - 1] \in CallFrame
      <3>1. n - 1 \in 1..Len(s)
        BY <2>1
      <3>2. s[n - 1] \in Frames
        BY <2>1, <3>1, ElementOfSeq
      <3>. QED BY <3>2 DEF Frames
    <2>4. Alike(s[n - 1], g) /\ (FrameOK(s[n - 1]) => FrameOK(g))
      BY <2>3 DEF CallFrame, Alike, FrameOK
    <2>5. /\ \A th \in Threads : th # a => thread'[th] = thread[th]
          /\ thread'[a].stack = t2
      BY <2>2 DEF CallsOK, Calls
    <2> HIDE DEF g, n, s
    <2>6. Len(t2) = n - 1 /\ t2[n - 1] = g /\ \A d \in 1..n - 2 : t2[d] = s[d]
      BY <2>1, StackPop
    <2> HIDE DEF t2
    <2>7. /\ \A d \in 1..n : d = n \/ d = n - 1 \/ d \in 1..n - 2
          /\ \A d \in 1..n - 1 : d = n - 1 \/ d \in 1..n - 2
          /\ \A d \in 1..n - 2 : d \in 1..n /\ d \in 1..n - 1
          /\ n - 1 \in 1..n - 1 /\ n - 1 \in 1..n
      BY <2>1
    <2>8. FramesOK(thread')
      BY <2>1, <2>4, <2>5, <2>6, <2>7 DEF FramesOK, s
    <2>9. ASSUME NEW t \in Tasks, UnderReview(thread, t), ~UnderReview(thread', t)
          PROVE  Reviews(Top(a), t)
      <3>1. PICK th \in Threads : \E d \in 1..Len(thread[th].stack) : Reviews(thread[th].stack[d], t)
        BY <2>9 DEF UnderReview
      <3>2. PICK d \in 1..Len(thread[th].stack) : Reviews(thread[th].stack[d], t)
        BY <3>1
      <3>3. th = a
        BY <2>5, <2>9, <3>2 DEF UnderReview
      <3>4. d \in 1..n /\ Reviews(s[d], t)
        BY <2>1, <3>2, <3>3 DEF s
      <3>5. \A k \in 1..n - 1 : ~Reviews(t2[k], t)
        BY <2>5, <2>6, <2>9 DEF UnderReview
      <3>6. d # n - 1
        BY <2>4, <2>6, <2>7, <3>4, <3>5 DEF Alike, Reviews
      <3>7. d \notin 1..n - 2
        BY <2>6, <2>7, <3>4, <3>5
      <3>. QED BY <2>1, <2>7, <3>4, <3>6, <3>7
    <2>. QED BY <2>8, <2>9 DEF LosesOnly
  <1>. QED BY <1>1, <1>2

\* A review is entered from another call; the call opens on calls T.
LEMMA OpenReviews ==
    ASSUME NEW F, NEW T \in Calls(F), FramesOK(T), NEW a \in Threads, T[a].stack = <<>>,
           NEW kind, NEW u, NEW f, FrameOK(f)
    PROVE  LET T2 == [T EXCEPT ![a] = [kind |-> kind, task |-> u, stack |-> <<f>>]]
           IN FramesOK(T2) /\ StillReviewed(T, T2) /\ \A t : Reviews(f, t) => UnderReview(T2, t)
  <1> DEFINE T2 == [T EXCEPT ![a] = [kind |-> kind, task |-> u, stack |-> <<f>>]]
  <1>1. /\ \A th \in Threads : th # a => T2[th] = T[th]
        /\ T2[a].stack = <<f>>
    BY DEF Calls
  <1> HIDE DEF T2
  <1>2. Len(T2[a].stack) = 1 /\ T2[a].stack[1] = f /\ 1 \in 1..Len(T2[a].stack)
    BY <1>1
  <1>3. FramesOK(T2)
    BY <1>1, <1>2 DEF FramesOK
  <1>4. StillReviewed(T, T2)
    BY <1>1 DEF StillReviewed, UnderReview
  <1>5. \A t : Reviews(f, t) => UnderReview(T2, t)
    BY <1>2 DEF UnderReview
  <1>. QED BY <1>3, <1>4, <1>5 DEF T2

LEMMA PushReviews ==
    ASSUME CallsOK, FramesOK(thread), NEW a \in Threads, Active(a),
           NEW g \in Frames, FrameOK(g), NEW f, FrameOK(f),
           thread' = [thread EXCEPT ![a].stack = Append(Append(Front(@), g), f)]
    PROVE  /\ FramesOK(thread') /\ LosesOnly(thread, thread', Top(a))
           /\ Alike(Top(a), g) => StillReviewed(thread, thread')
           /\ \A t : Reviews(f, t) => UnderReview(thread', t)
  <1> DEFINE s == thread[a].stack
             n == Depth(a)
             t2 == Append(Append(Front(s), g), f)
  <1>1. s \in Seq(Frames) /\ n \in Nat /\ n > 0 /\ n = Len(s) /\ Top(a) = s[n]
    BY TopFacts
  <1>2. /\ \A th \in Threads : th # a => thread'[th] = thread[th]
        /\ thread'[a].stack = t2
    BY DEF CallsOK, Calls
  <1> HIDE DEF n, s
  <1>3. Len(t2) = n + 1 /\ t2[n] = g /\ t2[n + 1] = f /\ \A d \in 1..n - 1 : t2[d] = s[d]
    BY <1>1, StackPush
  <1> HIDE DEF t2
  <1>4. /\ \A d \in 1..n + 1 : d = n + 1 \/ d = n \/ d \in 1..n - 1
        /\ \A d \in 1..n : d = n \/ d \in 1..n - 1
        /\ \A d \in 1..n - 1 : d \in 1..n + 1 /\ d \in 1..n
        /\ n + 1 \in 1..n + 1 /\ n \in 1..n + 1
    BY <1>1
  <1>5. FramesOK(thread')
    BY <1>1, <1>2, <1>3, <1>4 DEF FramesOK, s
  <1>6. ASSUME NEW t \in Tasks, UnderReview(thread, t), ~UnderReview(thread', t)
        PROVE  Reviews(Top(a), t) /\ ~Reviews(g, t)
    <2>1. PICK th \in Threads : \E d \in 1..Len(thread[th].stack) : Reviews(thread[th].stack[d], t)
      BY <1>6 DEF UnderReview
    <2>2. PICK d \in 1..Len(thread[th].stack) : Reviews(thread[th].stack[d], t)
      BY <2>1
    <2>3. th = a
      BY <1>2, <1>6, <2>2 DEF UnderReview
    <2>4. d \in 1..n /\ Reviews(s[d], t)
      BY <1>1, <2>2, <2>3 DEF s
    <2>5. \A k \in 1..n + 1 : ~Reviews(t2[k], t)
      BY <1>2, <1>3, <1>6 DEF UnderReview
    <2>6. d = n
      BY <1>3, <1>4, <2>4, <2>5
    <2>. QED BY <1>1, <1>3, <1>4, <2>4, <2>5, <2>6
  <1>7. \A t : Reviews(f, t) => UnderReview(thread', t)
    BY <1>2, <1>3, <1>4 DEF UnderReview
  <1>. QED BY <1>5, <1>6, <1>7 DEF StillReviewed, LosesOnly, Alike, Reviews
\* Every review of another task than t goes on.
OthersReviewed(T, T2, t) ==
    \A u \in Tasks : u # t /\ UnderReview(T, u) => UnderReview(T2, u)

LEMMA OnlyThatReview ==
    ASSUME NEW T, NEW T2, NEW f, LosesOnly(T, T2, f)
    PROVE  /\ f.op # "review" => StillReviewed(T, T2)
           /\ \A t : (f.op = "review" => f.task = t) => OthersReviewed(T, T2, t)
  BY DEF LosesOnly, StillReviewed, OthersReviewed, Reviews

LEMMA FrameIsOK ==
    ASSUME FramesOK(thread), CallsOK, NEW a \in Threads, Active(a)
    PROVE  FrameOK(Top(a)) /\ (accepting => ~Stale(a))
  BY TopFacts DEF FramesOK, FrameOK, Stale

LEMMA NewFrameIsOK ==
    ASSUME NEW t, NEW e
    PROVE  /\ FrameOK(Frame("review", t, Reviewer)) /\ Reviews(Frame("review", t, Reviewer), t)
           /\ FrameOK(Frame("message", t, e))
           /\ e # Reviewer => FrameOK(Frame("send", t, e))
  BY DEF FrameOK, Frame, Reviews

\* A frame that goes on is all right as it was.
LEMMA GoesOnAlike ==
    ASSUME NEW f \in CallFrame, FrameOK(f), NEW pc, NEW d \in BOOLEAN
    PROVE  /\ FrameOK([f EXCEPT !.pc = pc]) /\ Alike(f, [f EXCEPT !.pc = pc])
           /\ FrameOK([f EXCEPT !.pc = pc, !.decided = @ \/ d])
           /\ ~d => Alike(f, [f EXCEPT !.pc = pc, !.decided = @ \/ d])
  <1> DEFINE g == [f EXCEPT !.pc = pc]
             h == [f EXCEPT !.pc = pc, !.decided = @ \/ d]
  <1>1. g.op = f.op /\ g.emp = f.emp /\ g.epoch = f.epoch /\ g.task = f.task /\ g.decided = f.decided
    BY DEF CallFrame
  <1>2. h.op = f.op /\ h.emp = f.emp /\ h.epoch = f.epoch /\ h.task = f.task
    BY DEF CallFrame
  <1>3. h.decided = (f.decided \/ d) /\ f.decided \in BOOLEAN
    BY DEF CallFrame
  <1> HIDE DEF g, h
  <1>4. ~d => h.decided = f.decided
    BY <1>3
  <1>. QED BY <1>1, <1>2, <1>4 DEF FrameOK, Alike, g, h

\* A step that changes no status and loses no review.
LEMMA SilenceStays ==
    ASSUME SilenceInv, UNCHANGED <<accepting, epoch>>, session'[Reviewer] => session[Reviewer],
           FramesOK(thread'), StillReviewed(thread, thread'), asked \subseteq asked',
           UNCHANGED task
    PROVE  SilenceInv'
  <1>1. FramesOK(thread)'
    BY DEF FramesOK, FrameOK
  <1>2. ReviewsUnderWay'
    <2> SUFFICES ASSUME accepting, session[Reviewer], NEW t \in Tasks, task[t].status = "review"
                 PROVE  t \in asked' \/ UnderReview(thread', t)
      BY DEF ReviewsUnderWay, UnderReview, Reviews
    <2>. QED BY DEF SilenceInv, ReviewsUnderWay, StillReviewed
  <1>3. BlockedAsked'
    BY DEF SilenceInv, BlockedAsked, NobodyBlocks
  <1>. QED BY <1>1, <1>2, <1>3 DEF SilenceInv

\* A step about task t.
LEMMA SilenceStep ==
    ASSUME SilenceInv, UNCHANGED <<accepting, epoch>>, session'[Reviewer] => session[Reviewer],
           FramesOK(thread'), NEW t \in Tasks, OthersReviewed(thread, thread', t),
           \A u \in Tasks : u # t => task'[u] = task[u] /\ (u \in asked => u \in asked'),
           accepting /\ session'[Reviewer] /\ task'[t].status = "review" =>
               t \in asked' \/ UnderReview(thread', t),
           NobodyBlocks /\ task'[t].status = "blocked" => t \in asked'
    PROVE  SilenceInv'
  <1>1. FramesOK(thread)'
    BY DEF FramesOK, FrameOK
  <1>2. ReviewsUnderWay'
    <2> SUFFICES ASSUME accepting, session'[Reviewer], NEW u \in Tasks, task'[u].status = "review"
                 PROVE  u \in asked' \/ UnderReview(thread', u)
      BY DEF ReviewsUnderWay, UnderReview, Reviews
    <2>. QED BY DEF SilenceInv, ReviewsUnderWay, OthersReviewed
  <1>3. BlockedAsked'
    BY DEF SilenceInv, BlockedAsked, NobodyBlocks
  <1>. QED BY <1>1, <1>2, <1>3 DEF SilenceInv

LEMMA WriteRow ==
    ASSUME TaskTypeOK, NEW t \in Tasks, NEW r, Write(t, r)
    PROVE  task'[t] = r /\ \A u \in Tasks : u # t => task'[u] = task[u]
  BY DEF TaskTypeOK, Write

-----------------------------------------------------------------------------
(* What each action leaves to the user or to a review.                      *)

LEMMA TransitionRow ==
    ASSUME TaskInv, NEW t \in Tasks, NEW next, NEW e, Transition(t, next, e)
    PROVE  /\ task'[t].status = next /\ task'[t].owner = task[t].owner
           /\ \A u \in Tasks : u # t => task'[u] = task[u]
  <1>1. task[t] \in TaskRecord /\ TaskTypeOK
    BY RowExists DEF Transition, TaskInv
  <1>2. /\ task'[t] = [task[t] EXCEPT !.status = next, !.updatedBy = e]
        /\ \A u \in Tasks : u # t => task'[u] = task[u]
    BY <1>1, WriteRow DEF Transition
  <1>. QED BY <1>1, <1>2 DEF TaskRecord

LEMMA AssignRow ==
    ASSUME TaskInv, NEW t \in Tasks, NEW e, Assign(t, e)
    PROVE  task'[t].status = "ready" /\ \A u \in Tasks : u # t => task'[u] = task[u]
  <1>1. task[t] \in TaskRecord /\ TaskTypeOK
    BY RowExists DEF Assign, Assignable, TaskInv
  <1>2. /\ task'[t] = [task[t] EXCEPT !.owner = e, !.status = "ready", !.updatedBy = "core"]
        /\ \A u \in Tasks : u # t => task'[u] = task[u]
    BY <1>1, WriteRow DEF Assign
  <1>. QED BY <1>1, <1>2 DEF TaskRecord

LEMMA SubmitRow ==
    ASSUME TaskInv, NEW t \in Tasks, NEW e, Submit(t, e, TRUE, TRUE)
    PROVE  task'[t].status = "review" /\ \A u \in Tasks : u # t => task'[u] = task[u]
  <1>1. task[t] \in TaskRecord /\ TaskTypeOK
    BY RowExists DEF Submit, TaskInv
  <1>2. /\ task'[t] = [task[t] EXCEPT !.status = "review", !.artifacts = TRUE,
                                      !.evidence = TRUE, !.updatedBy = e]
        /\ \A u \in Tasks : u # t => task'[u] = task[u]
    BY <1>1, WriteRow DEF Submit
  <1>. QED BY <1>1, <1>2 DEF TaskRecord

LEMMA ReworkRow ==
    ASSUME TaskInv, NEW t \in Tasks, NEW e, Reject(t, e) \/ Retry(t, e)
    PROVE  /\ task'[t].status \in {"ready", "blocked"}
           /\ \A u \in Tasks : u # t => task'[u] = task[u]
  <1>1. task[t] \in TaskRecord /\ TaskTypeOK
    BY RowExists DEF Reject, Retry, TaskInv
  <1>2. ASSUME NEW next \in {"ready", "blocked"}, NEW r, Write(t, r), r.status = next
        PROVE  /\ task'[t].status \in {"ready", "blocked"}
               /\ \A u \in Tasks : u # t => task'[u] = task[u]
    BY <1>1, <1>2, WriteRow
  <1>3. CASE Reject(t, e)
    <2> DEFINE n == task[t].reviewLoopCount + 1
    <2>1. PICK next \in {"ready", "blocked"} :
             Write(t, [task[t] EXCEPT !.status = next, !.reviewLoopCount = n, !.updatedBy = e])
      BY <1>3 DEF Reject
    <2> HIDE DEF n
    <2>2. [task[t] EXCEPT !.status = next, !.reviewLoopCount = n, !.updatedBy = e].status = next
      BY <1>1 DEF TaskRecord
    <2>. QED BY <1>2, <2>1, <2>2
  <1>4. CASE Retry(t, e)
    <2> DEFINE next == IF RetryRemaining(t) THEN "ready" ELSE "blocked"
               n == IF RetryRemaining(t) THEN task[t].retryCount + 1 ELSE task[t].retryCount
    <2>1. Write(t, [task[t] EXCEPT !.status = next, !.updatedBy = e, !.retryCount = n])
      BY <1>4 DEF Retry
    <2>3. next \in {"ready", "blocked"}
      OBVIOUS
    <2> HIDE DEF next, n
    <2>2. [task[t] EXCEPT !.status = next, !.updatedBy = e, !.retryCount = n].status = next
      BY <1>1 DEF TaskRecord
    <2>. QED BY <1>2, <2>1, <2>2, <2>3
  <1>. QED BY <1>3, <1>4

\* The end of a turn: a review that ends undecided asks the user, or has no session.
LEMMA TurnSilence ==
    ASSUME OrchInv, Connected, SilenceInv, NEW a \in Threads, Active(a),
           UNCHANGED <<accepting, epoch>>, session'[Reviewer] => session[Reviewer],
           asked \subseteq asked',
           \/ Top(a).op = "send" /\ SettleFlight(a)
           \/ Top(a).op # "send" /\ (\E outcome : Pop(a, outcome)) /\ UNCHANGED <<task, pending>>,
           accepting /\ session'[Reviewer] /\ Top(a).op = "review" /\ ~Top(a).decided
               /\ task[Top(a).task].status = "review" => Top(a).task \in asked'
    PROVE  SilenceInv'
  <1> DEFINE t == Top(a).task
  <1>0. CallsOK /\ TaskInv /\ FramesOK(thread) /\ t \in Tasks /\ Top(a).emp \in Employees
    BY TopFacts DEF OrchInv, SilenceInv
  <1>1. CASE Top(a).op = "send" /\ SettleFlight(a)
    <2>1. Depth(a) = 1
      BY <1>0, <1>1, BottomFrame
    <2>2. CASE End(a) /\ UNCHANGED <<task, pending>>
      <3>1. FramesOK(thread') /\ LosesOnly(thread, thread', Top(a))
        BY <1>0, <2>1, <2>2, EndReviews DEF End
      <3>. QED BY <1>1, <2>2, <3>1, OnlyThatReview, SilenceStays
    <2>3. CASE Transition(t, "failed", Top(a).emp) /\ UNCHANGED thread
      <3>1. task'[t].status = "failed" /\ \A u \in Tasks : u # t => task'[u] = task[u]
        BY <1>0, <2>3, TransitionRow
      <3>2. FramesOK(thread') /\ OthersReviewed(thread, thread', t)
        BY <1>0, <2>3 DEF OthersReviewed
      <3> HIDE DEF t
      <3>. QED BY <1>0, <3>1, <3>2, SilenceStep
    <2>. QED BY <1>1, <2>2, <2>3 DEF SettleFlight
  <1>2. CASE Top(a).op # "send" /\ (\E outcome : Pop(a, outcome)) /\ UNCHANGED <<task, pending>>
    <2>1. FramesOK(thread') /\ LosesOnly(thread, thread', Top(a))
      BY <1>0, <1>2, PopReviews
    <2>2. CASE Top(a).op # "review"
      BY <1>2, <2>1, <2>2, OnlyThatReview, SilenceStays
    <2>3. CASE Top(a).op = "review"
      <3>1. OthersReviewed(thread, thread', t)
        BY <2>1, OnlyThatReview
      <3>2. ASSUME accepting, session'[Reviewer], task'[t].status = "review"
            PROVE  t \in asked' \/ UnderReview(thread', t)
        <4>1. t \in asked \/ UnderReview(thread, t)
          BY <1>0, <1>2, <3>2 DEF SilenceInv, ReviewsUnderWay
        <4>2. UnderReview(thread, t) => UnderReview(thread', t) \/ ~Top(a).decided
          BY <1>0, <2>1 DEF LosesOnly, Reviews
        <4>. QED BY <1>2, <2>3, <3>2, <4>1, <4>2
      <3>3. NobodyBlocks /\ task'[t].status = "blocked" => t \in asked'
        BY <1>0, <1>2 DEF SilenceInv, BlockedAsked
      <3>4. \A u \in Tasks : u # t => task'[u] = task[u] /\ (u \in asked => u \in asked')
        BY <1>2
      <3> HIDE DEF t
      <3>. QED BY <1>0, <2>1, <3>1, <3>2, <3>3, <3>4, SilenceStep
    <2>. QED BY <2>2, <2>3
  <1>. QED BY <1>1, <1>2

\* The outcome of a dispatch: only the review that decided is over.
LEMMA OutcomeReviews ==
    ASSUME CallsOK, FramesOK(thread), NEW c, Caller(c), NEW d \in BOOLEAN
    PROVE  /\ FramesOK(Succeeded(c, d)) /\ FramesOK(Failed(c))
           /\ StillReviewed(thread, Failed(c))
           /\ ~d \/ c = Client => StillReviewed(thread, Succeeded(c, d))
           /\ LosesOnly(thread, Succeeded(c, d), Top(c))
  <1>1. CASE c = Client
    <2>1. Succeeded(c, d) = thread /\ Failed(c) = thread
      BY <1>1 DEF Succeeded, Failed
    <2>. QED BY <2>1 DEF StillReviewed, LosesOnly
  <1>2. CASE c # Client
    <2> DEFINE g == [Top(c) EXCEPT !.pc = "stream", !.decided = @ \/ d]
               h == [Top(c) EXCEPT !.pc = "failed"]
    <2>1. c \in Threads /\ Active(c)
      BY <1>2 DEF Caller
    <2>2. Top(c) \in CallFrame /\ FrameOK(Top(c))
      BY <2>1, TopFacts, FrameIsOK
    <2>3. FrameOK(g) /\ (~d => Alike(Top(c), g)) /\ FrameOK(h) /\ Alike(Top(c), h)
      BY <2>2, GoesOnAlike
    <2>4. Succeeded(c, d) = WithTop(c, g) /\ Failed(c) = WithTop(c, h)
      BY <1>2 DEF Succeeded, Failed
    <2> HIDE DEF g, h
    <2>. QED BY <1>2, <2>1, <2>3, <2>4, TopReviews
  <1>. QED BY <1>1, <1>2

LEMMA StartNextReviews ==
    ASSUME CallsOK, FramesOK(thread), NEW c, Caller(c), NEW t, NEW actor, NEW d \in BOOLEAN,
           StartNext(c, t, actor, d)
    PROVE  /\ FramesOK(thread') /\ LosesOnly(thread, thread', Top(c))
           /\ ~d \/ c = Client => StillReviewed(thread, thread')
  <1>1. CASE c = Client
    BY <1>1 DEF StartNext, StillReviewed, LosesOnly
  <1>2. CASE c # Client
    <2> DEFINE g == [Top(c) EXCEPT !.pc = "dispatch", !.decided = @ \/ d]
    <2>1. c \in Threads /\ Active(c)
      BY <1>2 DEF Caller
    <2>2. Top(c) \in CallFrame /\ FrameOK(Top(c))
      BY <2>1, TopFacts, FrameIsOK
    <2>3. FrameOK(g) /\ (~d => Alike(Top(c), g))
      BY <2>2, GoesOnAlike
    <2>4. thread' = WithTop(c, g)
      BY <1>2 DEF StartNext
    <2> HIDE DEF g
    <2>. QED BY <1>2, <2>1, <2>3, <2>4, TopReviews
  <1>. QED BY <1>1, <1>2

LEMMA IdleIsEmpty ==
    ASSUME NEW F, NEW T \in Calls(F), ShapeOK(T), NEW a \in Threads, T[a].kind = "idle"
    PROVE  T[a].stack = <<>>
  <1>1. T[a].stack \in Seq(F) /\ Len(T[a].stack) = 0
    BY DEF Calls, ShapeOK, CallShape
  <1>. QED BY <1>1, EmptySeq

LEMMA EnterReviews ==
    ASSUME CallsOK, ShapeOK(thread), FramesOK(thread), NEW c, Caller(c), NEW f, FrameOK(f),
           NEW d \in BOOLEAN, Enter(c, f, d)
    PROVE  /\ FramesOK(thread') /\ LosesOnly(thread, thread', Top(c))
           /\ ~d \/ c = Client => StillReviewed(thread, thread')
           /\ \A t : Reviews(f, t) => UnderReview(thread', t)
  <1>1. CASE c = Client
    <2>1. NextFree \in Threads /\ thread[NextFree].kind = "idle" /\ thread \in Calls(Frames)
      BY <1>1, NextFreeIsFree DEF Enter, CallsOK
    <2>2. thread[NextFree].stack = <<>>
      BY <2>1, IdleIsEmpty
    <2>3. thread' = [thread EXCEPT ![NextFree] =
                       [kind |-> "client", task |-> f.task, stack |-> <<f>>]]
      BY <1>1 DEF Enter
    <2> HIDE DEF NextFree
    <2>4. /\ FramesOK(thread') /\ StillReviewed(thread, thread')
          /\ \A t : Reviews(f, t) => UnderReview(thread', t)
      BY <2>1, <2>2, <2>3, OpenReviews
    <2>. QED BY <2>4 DEF StillReviewed, LosesOnly
  <1>2. CASE c # Client
    <2> DEFINE g == [Top(c) EXCEPT !.pc = "dispatch", !.decided = @ \/ d]
    <2>1. c \in Threads /\ Active(c)
      BY <1>2 DEF Caller
    <2>2. Top(c) \in CallFrame /\ Top(c) \in Frames /\ FrameOK(Top(c))
      BY <2>1, TopFacts, FrameIsOK
    <2>3. FrameOK(g) /\ (~d => Alike(Top(c), g)) /\ g \in Frames
      BY <2>2, GoesOnAlike, FrameGoesOn
    <2>4. thread' = [thread EXCEPT ![c].stack = Append(Append(Front(@), g), f)]
      BY <1>2 DEF Enter
    <2> HIDE DEF g
    <2>. QED BY <1>2, <2>1, <2>3, <2>4, PushReviews
  <1>. QED BY <1>1, <1>2
\* What a reviewing agent proposes: a decision on the task it reviews.
Decides(c, type, t) ==
    c # Client /\ Top(c).op = "review" => t = Top(c).task /\ type \in {"task.approve", "task.reject"}

LEMMA DispatchSilence ==
    ASSUME OrchInv, Connected, SilenceInv, NEW c, Caller(c), NEW type, NEW t \in Tasks,
           NEW actor \in Employees, Dispatch(c, type, t, actor), Decides(c, type, t),
           NobodyBlocks => type # "task.block"
    PROVE  SilenceInv'
  <1>0. /\ CallsOK /\ TaskInv /\ TaskTypeOK /\ FramesOK(thread) /\ ShapeOK(thread)
        /\ task[t] \in TaskRecord \cup {NoTask}
    BY DEF OrchInv, SilenceInv, Connected, TaskInv, TaskTypeOK
  <1>1. \A T2 : LosesOnly(thread, T2, Top(c)) /\ (c = Client => StillReviewed(thread, T2))
                   => OthersReviewed(thread, T2, t)
    BY OnlyThatReview DEF Decides, StillReviewed, OthersReviewed
  <1>2. ASSUME UNCHANGED <<accepting, epoch, session>>, FramesOK(thread'),
               LosesOnly(thread, thread', Top(c)), c = Client => StillReviewed(thread, thread'),
               \A u \in Tasks : u # t => task'[u] = task[u] /\ (u \in asked => u \in asked'),
               task'[t].status = "review" => UnderReview(thread', t),
               NobodyBlocks /\ task'[t].status = "blocked" => t \in asked'
        PROVE  SilenceInv'
    BY <1>1, <1>2, SilenceStep
  <1>3. CASE \E deps \in SUBSET Tasks : CreateProposedTask(c, t, deps)
    <2> PICK deps \in SUBSET Tasks : CreateProposedTask(c, t, deps)
      BY <1>3
    <2>1. task'[t].status = "draft" /\ \A u \in Tasks : u # t => task'[u] = task[u]
      BY <1>0, WriteRow DEF CreateProposedTask, Create, Draft
    <2>2. /\ FramesOK(thread') /\ LosesOnly(thread, thread', Top(c))
          /\ StillReviewed(thread, thread')
      BY <1>0, OutcomeReviews DEF CreateProposedTask
    <2>. QED BY <1>2, <2>1, <2>2 DEF CreateProposedTask
  <1>4. CASE \E e \in Employees : AssignAndSend(c, t, e)
    <2> PICK e \in Employees : AssignAndSend(c, t, e)
      BY <1>4
    <2>1. task'[t].status = "ready" /\ \A u \in Tasks : u # t => task'[u] = task[u]
      BY <1>0, AssignRow DEF AssignAndSend
    <2>2. /\ FramesOK(thread') /\ LosesOnly(thread, thread', Top(c))
          /\ StillReviewed(thread, thread')
      BY <1>0, StartNextReviews DEF AssignAndSend
    <2>. QED BY <1>2, <2>1, <2>2 DEF AssignAndSend
  <1>5. CASE StartTask(c, t, actor)
    <2>1. FramesOK(thread') /\ StillReviewed(thread, thread')
      BY <1>0, <1>5, StartNextReviews DEF StartTask
    <2>. QED BY <1>5, <2>1, SilenceStays DEF StartTask
  <1>6. CASE type = "task.submit" /\ RecordSubmissionAndRequestReview(c, t, actor)
    <2>1. task'[t].status = "review" /\ \A u \in Tasks : u # t => task'[u] = task[u]
      BY <1>0, <1>6, SubmitRow DEF RecordSubmissionAndRequestReview
    <2>2. /\ FramesOK(thread') /\ LosesOnly(thread, thread', Top(c))
          /\ (c = Client => StillReviewed(thread, thread')) /\ UnderReview(thread', t)
      BY <1>0, <1>6, NewFrameIsOK, EnterReviews DEF RecordSubmissionAndRequestReview
    <2>. QED BY <1>2, <1>6, <2>1, <2>2 DEF RecordSubmissionAndRequestReview
  <1>7. CASE RequestReview(c, t)
    <2>1. FramesOK(thread') /\ StillReviewed(thread, thread')
      BY <1>0, <1>7, NewFrameIsOK, EnterReviews DEF RequestReview
    <2>. QED BY <1>7, <2>1, SilenceStays DEF RequestReview
  <1>8. CASE Approve(c, t, actor)
    <2>1. task'[t].status = "completed" /\ \A u \in Tasks : u # t => task'[u] = task[u]
      BY <1>0, <1>8, TransitionRow DEF Approve
    <2>2. /\ FramesOK(thread') /\ LosesOnly(thread, thread', Top(c))
          /\ (c = Client => StillReviewed(thread, thread'))
      BY <1>0, <1>8, OutcomeReviews DEF Approve
    <2>. QED BY <1>2, <1>8, <2>1, <2>2 DEF Approve
  <1>9. CASE RejectAndMaybeRequeue(c, t, actor)
    <2>1. /\ task'[t].status \in {"ready", "blocked"}
          /\ \A u \in Tasks : u # t => task'[u] = task[u]
      BY <1>0, <1>9, ReworkRow DEF RejectAndMaybeRequeue
    <2>2. /\ FramesOK(thread') /\ LosesOnly(thread, thread', Top(c))
          /\ (c = Client => StillReviewed(thread, thread'))
      <3>1. CASE thread' \in {Succeeded(c, TRUE), Failed(c)}
        BY <1>0, <3>1, OutcomeReviews DEF StillReviewed, LosesOnly
      <3>2. CASE StartNext(c, t, task[t].owner, TRUE)
        BY <1>0, <3>2, StartNextReviews
      <3>. QED BY <1>9, <3>1, <3>2 DEF RejectAndMaybeRequeue
    <2>3. asked \subseteq asked' /\ (task'[t].status = "blocked" => t \in asked')
      BY <1>9 DEF RejectAndMaybeRequeue, Ask
    <2>. QED BY <1>2, <1>9, <2>1, <2>2, <2>3 DEF RejectAndMaybeRequeue
  <1>10. CASE type = "task.block" /\ BlockTask(c, t, actor)
    <2>1. task'[t].status = "blocked" /\ \A u \in Tasks : u # t => task'[u] = task[u]
      BY <1>0, <1>10, TransitionRow DEF BlockTask
    <2>2. /\ FramesOK(thread') /\ LosesOnly(thread, thread', Top(c))
          /\ (c = Client => StillReviewed(thread, thread'))
      BY <1>0, <1>10, OutcomeReviews DEF BlockTask
    <2>. QED BY <1>2, <1>10, <2>1, <2>2 DEF BlockTask
  <1>11. CASE \E e \in Employees : RouteEmployeeMessage(c, t, e)
    <2> PICK e \in Employees : RouteEmployeeMessage(c, t, e)
      BY <1>11
    <2>1. FramesOK(thread') /\ StillReviewed(thread, thread')
      BY <1>0, NewFrameIsOK, EnterReviews DEF RouteEmployeeMessage
    <2>. QED BY <2>1, SilenceStays DEF RouteEmployeeMessage
  <1>. QED BY <1>3, <1>4, <1>5, <1>6, <1>7, <1>8, <1>9, <1>10, <1>11 DEF Dispatch

\* Work that started has an owner with a git worktree, who is not the reviewer.
LEMMA OwnerIsNoReviewer ==
    ASSUME ReviewerOnlyReviews, TaskInv, NEW t \in Tasks, task[t].status = "running"
    PROVE  task[t].owner # Reviewer
  BY DEF ReviewerOnlyReviews, TaskInv, StartedWorkHasWorktree, StartedStates

LEMMA StartReadySilence ==
    ASSUME ReviewerOnlyReviews, OrchInv, TaskInv', Connected, SilenceInv, StartReady
    PROVE  SilenceInv'
  <1> DEFINE c == pending.caller
             t == pending.task
  <1>0. /\ CallsOK /\ TaskInv /\ TaskTypeOK /\ FramesOK(thread) /\ ShapeOK(thread)
        /\ Caller(c) /\ t \in Tasks /\ UNCHANGED <<accepting, epoch, session>>
    BY DEF OrchInv, SilenceInv, Connected, TaskInv, PendingOK, Caller, StartReady, Nothing
  <1>1. /\ Out = NoThread /\ Free # {} /\ (c # Client => c # Out /\ Top(c).pc \in {"stream", "dispatch"})
    BY <1>0, NoThreadIsNone DEF StartReady, Out, Connected, PendingShape, Caller
  <1>2. /\ FramesOK(Succeeded(c, FALSE)) /\ FramesOK(Failed(c))
        /\ StillReviewed(thread, Succeeded(c, FALSE)) /\ StillReviewed(thread, Failed(c))
    BY <1>0, OutcomeReviews
  <1>3. CASE thread' \in {Succeeded(c, FALSE), Failed(c)} /\ UNCHANGED task /\ asked \subseteq asked'
    <2>1. FramesOK(thread') /\ StillReviewed(thread, thread')
      BY <1>2, <1>3
    <2>. QED BY <1>0, <1>3, <2>1, SilenceStays
  <1> HIDE DEF c, t
  <1>4. ASSUME Transition(t, "running", pending.actor), asked' = asked \ {t},
               thread' = [Succeeded(c, FALSE) EXCEPT ![NextFree] =
                            [kind |-> "flight", task |-> t,
                             stack |-> <<Frame("send", t, task[t].owner)>>]]
        PROVE  SilenceInv'
    <2> DEFINE S == Succeeded(c, FALSE)
               f == Frame("send", t, task[t].owner)
    <2>1. /\ task'[t].status = "running" /\ task'[t].owner = task[t].owner
          /\ \A u \in Tasks : u # t => task'[u] = task[u]
      BY <1>0, <1>4, TransitionRow
    <2>2. task[t].owner # Reviewer
      <3>1. task'[t].owner # Reviewer
        BY <1>0, <2>1 DEF ReviewerOnlyReviews, TaskInv, StartedWorkHasWorktree, StartedStates
      <3>. QED BY <2>1, <3>1
    <2>3. FrameOK(f)
      BY <2>2, NewFrameIsOK
    <2>4. ShapeOK(S) /\ S \in Calls(Frames) /\ \A th \in Threads : S[th].kind = thread[th].kind
      BY <1>0, <1>1, OutcomeConnects, OutcomeKeeps
    <2>5. NextFree \in Threads /\ S[NextFree].kind = "idle"
      BY <1>1, <2>4, NextFreeIsFree
    <2> HIDE DEF S, f, NextFree
    <2>6. S[NextFree].stack = <<>>
      BY <2>4, <2>5, IdleIsEmpty
    <2>7. thread' = [S EXCEPT ![NextFree] = [kind |-> "flight", task |-> t, stack |-> <<f>>]]
      BY <1>4 DEF S, f
    <2>8. FramesOK(S) /\ StillReviewed(thread, S)
      BY <1>2 DEF S
    <2>9. FramesOK(thread') /\ StillReviewed(S, thread')
      BY <2>3, <2>4, <2>5, <2>6, <2>7, <2>8, OpenReviews
    <2>10. OthersReviewed(thread, thread', t)
      BY <2>8, <2>9, KeepsTwice DEF OthersReviewed, StillReviewed
    <2>. QED BY <1>0, <1>4, <2>1, <2>9, <2>10, SilenceStep
  <1>. QED BY <1>3, <1>4 DEF StartReady, Ask, c, t

LEMMA RetryFlightSilence ==
    ASSUME OrchInv, Connected, SilenceInv, RetryFlight
    PROVE  SilenceInv'
  <1> DEFINE a == pending.caller
             t == pending.task
  <1>0. /\ CallsOK /\ TaskInv /\ TaskTypeOK /\ FramesOK(thread)
        /\ a \in Threads /\ Active(a) /\ t \in Tasks /\ UNCHANGED <<accepting, epoch, session>>
    BY DEF OrchInv, SilenceInv, TaskInv, PendingOK, RetryFlight, Nothing
  <1>1. Depth(a) = 1 /\ Top(a).op = "send"
    BY <1>0 DEF RetryFlight, Connected, PendingShape
  <1>3. /\ task'[t].status \in {"ready", "blocked"}
        /\ \A u \in Tasks : u # t => task'[u] = task[u]
    BY <1>0, ReworkRow DEF RetryFlight
  <1>4. asked \subseteq asked' /\ (task'[t].status = "blocked" => t \in asked')
    BY DEF RetryFlight, Ask
  <1>5. FramesOK(thread') /\ LosesOnly(thread, thread', Top(a))
    <2>1. CASE End(a)
      BY <1>0, <1>1, <2>1, EndReviews DEF End
    <2>2. CASE thread' = WithTop(a, [Top(a) EXCEPT !.pc = "resume"])
      <3> DEFINE f == [Top(a) EXCEPT !.pc = "resume"]
      <3>1. FrameOK(f)
        BY <1>0, TopFacts, FrameIsOK, GoesOnAlike
      <3> HIDE DEF f
      <3>2. thread' = WithTop(a, f)
        BY <2>2 DEF f
      <3>. QED BY <1>0, <3>1, <3>2, TopReviews
    <2>. QED BY <2>1, <2>2 DEF RetryFlight
  <1> HIDE DEF a, t
  <1>6. OthersReviewed(thread, thread', t)
    BY <1>1, <1>5, OnlyThatReview
  <1>. QED BY <1>0, <1>3, <1>4, <1>5, <1>6, SilenceStep

\* The retry of sendTask is no review, and its employee is no reviewer.
LEMMA ReplacingSilence ==
    ASSUME OrchInv, Connected, RestOK, SilenceInv, pending = Nothing, NEW a \in Threads,
           SessionReplaced(a) \/ ReplacementFails(a) \/ ReplacementAborted(a)
    PROVE  SilenceInv'
  <1> DEFINE t == Top(a).task
             e == Top(a).emp
  <1>0. Replacing(a)
    BY DEF SessionReplaced, ReplacementFails, ReplacementAborted
  <1>1. /\ CallsOK /\ TaskInv /\ TaskTypeOK /\ FramesOK(thread) /\ Active(a) /\ Depth(a) = 1
        /\ Top(a).op = "send" /\ t \in Tasks /\ UNCHANGED <<accepting, epoch>>
    BY <1>0, ReplacingFacts DEF OrchInv, SilenceInv, TaskInv, SessionReplaced, ReplacementFails,
                                ReplacementAborted
  <1>2. FrameOK(Top(a)) /\ e # Reviewer
    BY <1>1, FrameIsOK DEF FrameOK
  <1>3. session'[Reviewer] => session[Reviewer]
    <2>1. session \in [Employees -> BOOLEAN] /\ Reviewer \in Employees
      BY OrchestratorAssumption DEF RestOK
    <2>2. session' = session \/ session' = [session EXCEPT ![e] = TRUE]
      BY DEF SessionReplaced, ReplacementFails, ReplacementAborted
    <2>. QED BY <1>2, <2>1, <2>2
  <1>4. ASSUME End(a) \/ \E f : FrameOK(f) /\ thread' = WithTop(a, f)
        PROVE  FramesOK(thread') /\ StillReviewed(thread, thread')
    <2>1. CASE End(a)
      BY <1>1, <2>1, EndReviews, OnlyThatReview DEF End
    <2>2. CASE \E f : FrameOK(f) /\ thread' = WithTop(a, f)
      BY <1>1, <2>2, TopReviews, OnlyThatReview
    <2>. QED BY <1>4, <2>1, <2>2
  <1>5. ASSUME UNCHANGED task, asked \subseteq asked', End(a)
        PROVE  SilenceInv'
    BY <1>1, <1>3, <1>4, <1>5, SilenceStays
  <1>6. CASE SessionReplaced(a)
    <2>1. CASE Transition(t, "running", e) /\ asked' = asked \ {t}
               /\ thread' = WithTop(a, Frame("send", t, e))
      <3>1. FrameOK(Frame("send", t, e))
        BY <1>2, NewFrameIsOK
      <3>2. FramesOK(thread') /\ StillReviewed(thread, thread')
        BY <1>4, <2>1, <3>1
      <3>3. task'[t].status = "running" /\ \A u \in Tasks : u # t => task'[u] = task[u]
        BY <1>1, <2>1, TransitionRow
      <3>4. OthersReviewed(thread, thread', t)
        BY <3>2 DEF StillReviewed, OthersReviewed
      <3> HIDE DEF t
      <3>. QED BY <1>1, <1>3, <2>1, <3>2, <3>3, <3>4, SilenceStep
    <2>. QED BY <1>5, <1>6, <2>1 DEF SessionReplaced, StartAgain, Ask
  <1>7. CASE ReplacementFails(a)
    <2>1. CASE thread' = WithTop(a, [Top(a) EXCEPT !.pc = "rebuild"]) /\ UNCHANGED asked
      <3>1. FrameOK([Top(a) EXCEPT !.pc = "rebuild"])
        BY <1>1, <1>2, TopFacts, GoesOnAlike
      <3>2. FramesOK(thread') /\ StillReviewed(thread, thread')
        BY <1>4, <2>1, <3>1
      <3>. QED BY <1>1, <1>3, <1>7, <2>1, <3>2, SilenceStays DEF ReplacementFails
    <2>. QED BY <1>5, <1>7, <2>1 DEF ReplacementFails, Ask
  <1>8. CASE ReplacementAborted(a)
    BY <1>5, <1>8 DEF ReplacementAborted
  <1>. QED BY <1>6, <1>7, <1>8

LEMMA RecoveredReviewSilence ==
    ASSUME OrchInv, Connected, SilenceInv, NEW a \in Threads, StartRecoveredReview(a)
    PROVE  SilenceInv'
  <1> DEFINE t == Top(a).task
  <1>0. /\ CallsOK /\ FramesOK(thread) /\ Active(a) /\ Top(a).op = "review" /\ Top(a).pc = "chain"
        /\ UNCHANGED <<accepting, epoch, session, task, asked>>
    BY DEF OrchInv, SilenceInv, StartRecoveredReview, At
  <1>1. Depth(a) = 1 /\ t \in Tasks /\ Top(a) \in CallFrame
    BY <1>0, BottomFrame, TopFacts
  <1>2. FrameOK(Top(a)) /\ (accepting => ~Stale(a))
    BY <1>0, FrameIsOK
  <1>3. CASE Stale(a) /\ End(a)
    <2>1. FramesOK(thread') /\ LosesOnly(thread, thread', Top(a)) /\ ~accepting
      BY <1>0, <1>1, <1>2, <1>3, EndReviews DEF End
    <2>2. OthersReviewed(thread, thread', t)
      BY <2>1, OnlyThatReview
    <2>3. NobodyBlocks /\ task'[t].status = "blocked" => t \in asked'
      BY <1>0, <1>1 DEF SilenceInv, BlockedAsked
    <2> HIDE DEF t
    <2>. QED BY <1>0, <1>1, <2>1, <2>2, <2>3, SilenceStep
  <1>4. CASE thread' = WithTop(a, [Top(a) EXCEPT !.pc = "lock"])
    <2> DEFINE f == [Top(a) EXCEPT !.pc = "lock"]
    <2>1. FrameOK(f) /\ Alike(Top(a), f)
      BY <1>1, <1>2, GoesOnAlike
    <2>2. thread' = WithTop(a, f)
      BY <1>4
    <2> HIDE DEF f
    <2>. QED BY <1>0, <2>1, <2>2, TopReviews, SilenceStays
  <1>. QED BY <1>3, <1>4 DEF StartRecoveredReview
LEMMA ThreadSilence ==
    ASSUME OrchInv, Connected, RestOK, SilenceInv, NEW a \in Threads, ThreadStep(a)
    PROVE  SilenceInv'
  <1>0. /\ pending = Nothing /\ CallsOK /\ FramesOK(thread)
        /\ session \in [Employees -> BOOLEAN] /\ Reviewer \in Employees
    BY OrchestratorAssumption DEF ThreadStep, OrchInv, SilenceInv, RestOK
  <1>1. ASSUME Active(a)
        PROVE  /\ FrameOK(Top(a)) /\ (accepting => ~Stale(a)) /\ Top(a).emp \in Employees
               /\ Top(a) \in CallFrame
    BY <1>0, <1>1, FrameIsOK, TopFacts
  <1>2. CASE Acquire(a)
    <2>0. Active(a) /\ UNCHANGED <<accepting, epoch, session, asked>>
      BY <1>2 DEF Acquire
    <2>1. CASE thread' = WithTop(a, [Top(a) EXCEPT !.pc = "stream"]) /\ UNCHANGED task
      <3> DEFINE f == [Top(a) EXCEPT !.pc = "stream"]
      <3>1. FrameOK(f) /\ Alike(Top(a), f)
        BY <1>1, <2>0, GoesOnAlike
      <3>2. thread' = WithTop(a, f)
        BY <2>1
      <3> HIDE DEF f
      <3>3. FramesOK(thread') /\ StillReviewed(thread, thread')
        BY <1>0, <2>0, <3>1, <3>2, TopReviews
      <3>. QED BY <2>0, <2>1, <3>3, SilenceStays
    <2>2. CASE /\ ~session[Top(a).emp]
               /\ IF Top(a).op = "send" THEN SettleFlight(a)
                  ELSE Pop(a, "error") /\ UNCHANGED <<task, pending>>
      <3>1. Top(a).op = "review" => ~session[Reviewer]
        BY <1>1, <2>0, <2>2 DEF FrameOK
      <3>. QED BY <2>0, <2>2, <3>1, TurnSilence
    <2>. QED BY <1>2, <2>1, <2>2 DEF Acquire
  <1>3. CASE TurnEnds(a)
    <2>1. Active(a) /\ UNCHANGED <<accepting, epoch, session>> /\ asked \subseteq asked'
      BY <1>3 DEF TurnEnds, Ask
    <2>2. accepting /\ Top(a).op = "review" /\ ~Top(a).decided
             /\ task[Top(a).task].status = "review" => Top(a).task \in asked'
      BY <1>1, <1>3, <2>1 DEF TurnEnds, Ask
    <2>. QED BY <1>3, <2>1, <2>2, TurnSilence DEF TurnEnds
  <1>4. CASE SessionExits(a)
    <2>1. Active(a) /\ UNCHANGED <<accepting, epoch>> /\ asked \subseteq asked'
      BY <1>4 DEF SessionExits, Ask
    <2>2. Top(a).op = "review" => Top(a).task \in asked'
      BY <1>4 DEF SessionExits, Ask
    <2>3. session'[Reviewer] => session[Reviewer]
      BY <1>0, <1>4 DEF SessionExits
    <2>. QED BY <1>4, <2>1, <2>2, <2>3, TurnSilence DEF SessionExits
  <1>5. CASE AgentProposes(a)
    <2>1. Active(a) /\ Caller(a) /\ Top(a).emp \in Employees
      BY <1>1, <1>5 DEF AgentProposes, Caller
    <2>2. PICK type \in AgentActions, t \in Tasks :
             /\ Top(a).op \in {"send", "review"} => t = Top(a).task
             /\ Top(a).op = "review" => type \in {"task.approve", "task.reject"}
             /\ Dispatch(a, type, t, Top(a).emp)
      BY <1>5 DEF AgentProposes
    <2>3. Decides(a, type, t) /\ (NobodyBlocks => type # "task.block")
      BY <2>2 DEF Decides, NobodyBlocks
    <2>. QED BY <2>1, <2>2, <2>3, DispatchSilence
  <1>6. CASE ProposalRefused(a)
    <2> DEFINE f == [Top(a) EXCEPT !.pc = "failed"]
    <2>1. Active(a) /\ FrameOK(f) /\ Alike(Top(a), f) /\ thread' = WithTop(a, f)
      BY <1>1, <1>6, GoesOnAlike DEF ProposalRefused
    <2> HIDE DEF f
    <2>2. FramesOK(thread') /\ StillReviewed(thread, thread')
      BY <1>0, <2>1, TopReviews
    <2>. QED BY <1>6, <2>2, SilenceStays DEF ProposalRefused
  <1>7. CASE HandleFailure(a)
    <2>1. Active(a) /\ UNCHANGED <<accepting, epoch, session>> /\ asked \subseteq asked'
      BY <1>7 DEF HandleFailure, Ask
    <2>2. accepting /\ Top(a).op = "review" => Top(a).task \in asked'
      BY <1>1, <1>7, <2>1 DEF HandleFailure, Ask
    <2>3. \/ Top(a).op = "send" /\ SettleFlight(a)
          \/ Top(a).op # "send" /\ (\E outcome : Pop(a, outcome)) /\ UNCHANGED <<task, pending>>
      BY <1>1, <1>7, <2>1 DEF HandleFailure, CallFrame
    <2>. QED BY <2>1, <2>2, <2>3, TurnSilence
  <1>8. CASE SessionReplaced(a) \/ ReplacementFails(a) \/ ReplacementAborted(a)
    BY <1>0, <1>8, ReplacingSilence
  <1>9. CASE StartRecoveredReview(a)
    BY <1>9, RecoveredReviewSilence
  <1>. QED BY <1>2, <1>3, <1>4, <1>5, <1>6, <1>7, <1>8, <1>9 DEF ThreadStep

\* A recovery starts the review of every task that waits for one.
LEMMA RecoverSilence ==
    ASSUME ReviewerOnlyReviews, OrchInv, FinitelyMade, SilenceInv, Recover
    PROVE  SilenceInv'
  <1> DEFINE running == {t \in Tasks : task[t].status = "running"}
             review == {t \in Tasks : task[t].status = "review"}
             slot == CHOOSE f \in [running \cup review -> Threads] : IsInjective(f)
             At1(frame) == [frame EXCEPT !.epoch = epoch + 1]
             sent(t) == At1(Frame("send", t, task[t].owner))
             chained(t) == [At1(Frame("review", t, Reviewer)) EXCEPT !.pc = "chain"]
  <1>1. /\ slot \in [running \cup review -> Threads]
        /\ \A t, u \in running \cup review : slot[t] = slot[u] => t = u
    <2> DEFINE D == running \cup review
    <2>1. IsFiniteSet(D)
      <3>1. D \in SUBSET Made
        BY DEF Made, Exists
      <3>. QED BY <3>1, FS_Subset DEF FinitelyMade
    <2>2. Cardinality(D) <= Cardinality(Threads) /\ IsFiniteSet(Threads)
      BY OrchestratorAssumption DEF Recover
    <2>3. \E f \in [D -> Threads] : IsInjective(f)
      BY <2>1, <2>2, SmallerSetFits
    <2>4. slot \in [D -> Threads] /\ IsInjective(slot)
      BY <2>3
    <2> HIDE DEF D, slot
    <2>5. \A t, u \in D : slot[t] = slot[u] => t = u
      BY <2>4 DEF IsInjective
    <2>. QED BY <2>4, <2>5 DEF D
  <1>2. /\ epoch' = epoch + 1 /\ UNCHANGED <<task, asked>>
        /\ thread' = [th \in Threads |->
             IF \E t \in running : slot[t] = th
             THEN LET t == CHOOSE t \in running : slot[t] = th
                  IN [kind |-> "flight", task |-> t, stack |-> <<sent(t)>>]
             ELSE IF \E t \in review : slot[t] = th
             THEN LET t == CHOOSE t \in review : slot[t] = th
                  IN [kind |-> "review", task |-> t, stack |-> <<chained(t)>>]
             ELSE Idle]
    BY DEF Recover
  <1>3. /\ \A t \in running : /\ sent(t).op = "send" /\ sent(t).emp = task[t].owner
                              /\ sent(t).epoch = epoch'
        /\ \A t \in review : /\ chained(t).op = "review" /\ chained(t).emp = Reviewer
                             /\ chained(t).epoch = epoch' /\ Reviews(chained(t), t)
    BY <1>2 DEF Frame, Reviews
  <1>4. \A t \in running : task[t].owner # Reviewer
    BY OwnerIsNoReviewer DEF OrchInv
  <1> HIDE DEF slot, At1, sent, chained
  <1>5. ASSUME NEW t \in review
        PROVE  /\ slot[t] \in Threads
               /\ thread'[slot[t]] = [kind |-> "review", task |-> t, stack |-> <<chained(t)>>]
    <2>1. slot[t] \in Threads
      BY <1>1
    <2>2. ~\E u \in running : slot[u] = slot[t]
      BY <1>1
    <2>3. (CHOOSE u \in review : slot[u] = slot[t]) = t
      BY <1>1
    <2>. QED BY <1>2, <2>1, <2>2, <2>3
  <1>6. ASSUME NEW th \in Threads
        PROVE  \/ \E t \in running : thread'[th].stack = <<sent(t)>>
               \/ \E t \in review : thread'[th].stack = <<chained(t)>>
               \/ thread'[th].stack = <<>>
    <2>1. CASE \E t \in running : slot[t] = th
      <3> DEFINE u == CHOOSE t \in running : slot[t] = th
      <3>1. u \in running
        BY <2>1
      <3>2. thread'[th] = [kind |-> "flight", task |-> u, stack |-> <<sent(u)>>]
        BY <1>2, <2>1
      <3> HIDE DEF u
      <3>. QED BY <3>1, <3>2
    <2>2. CASE (\E t \in review : slot[t] = th) /\ ~\E t \in running : slot[t] = th
      <3> DEFINE u == CHOOSE t \in review : slot[t] = th
      <3>1. u \in review
        BY <2>2
      <3>2. thread'[th] = [kind |-> "review", task |-> u, stack |-> <<chained(u)>>]
        BY <1>2, <2>2
      <3> HIDE DEF u
      <3>. QED BY <3>1, <3>2
    <2>3. CASE ~(\E t \in review : slot[t] = th) /\ ~\E t \in running : slot[t] = th
      BY <1>2, <2>3 DEF Idle
    <2>. QED BY <2>1, <2>2, <2>3
  <1> HIDE DEF running
  <1>7. FramesOK(thread)'
    <2> SUFFICES ASSUME NEW th \in Threads, NEW d \in 1..Len(thread'[th].stack)
                 PROVE  LET f == thread'[th].stack[d]
                        IN /\ f.op = "review" => f.emp = Reviewer
                           /\ f.op = "send" => f.emp # Reviewer
                           /\ f.epoch = epoch'
      BY DEF FramesOK, FrameOK
    <2>1. CASE \E t \in running : thread'[th].stack = <<sent(t)>>
      BY <1>3, <1>4, <2>1
    <2>2. CASE \E t \in review : thread'[th].stack = <<chained(t)>>
      BY <1>3, <2>2
    <2>3. CASE thread'[th].stack = <<>>
      BY <2>3
    <2>. QED BY <1>6, <2>1, <2>2, <2>3
  <1>8. ReviewsUnderWay'
    <2> SUFFICES ASSUME NEW t \in Tasks, task'[t].status = "review"
                 PROVE  UnderReview(thread', t)
      BY DEF ReviewsUnderWay, UnderReview, Reviews
    <2>1. t \in review
      BY <1>2
    <2> HIDE DEF review
    <2> DEFINE a == slot[t]
    <2>2. thread'[a].stack = <<chained(t)>> /\ a \in Threads
      <3>1. a \in Threads /\ thread'[a] = [kind |-> "review", task |-> t, stack |-> <<chained(t)>>]
        BY <1>5, <2>1
      <3>. QED BY <3>1
    <2>3. Reviews(chained(t), t)
      BY <1>3, <2>1
    <2> HIDE DEF a
    <2>4. 1 \in 1..Len(thread'[a].stack) /\ thread'[a].stack[1] = chained(t)
      BY <2>2
    <2>. QED BY <2>2, <2>3, <2>4 DEF UnderReview
  <1>9. BlockedAsked'
    BY <1>2 DEF SilenceInv, BlockedAsked, NobodyBlocks
  <1>. QED BY <1>7, <1>8, <1>9 DEF SilenceInv

LEMMA SilenceInvInit == Init => SilenceInv
  <1> SUFFICES ASSUME Init PROVE SilenceInv
    OBVIOUS
  <1>1. \A t \in Tasks : task[t].status = "none"
    BY DEF Init, TaskInit, NoTask
  <1>2. FramesOK(thread)
    BY DEF Init, Idle, FramesOK
  <1>. QED BY <1>1, <1>2 DEF SilenceInv, ReviewsUnderWay, BlockedAsked

LEMMA SilenceInvStep ==
    ASSUME ReviewerOnlyReviews, CallsInv, CallsInv', SilenceInv, [Next]_vars
    PROVE  SilenceInv'
  <1>0. /\ OrchInv /\ FinitelyMade /\ Connected /\ RestOK /\ FramesOK(thread) /\ TaskInv'
    BY DEF CallsInv, OrchInv, SilenceInv
  <1>1. CASE StartReady \/ RetryFlight
    BY <1>0, <1>1, StartReadySilence, RetryFlightSilence
  <1>2. CASE \E th \in Threads : ThreadStep(th)
    BY <1>0, <1>2, ThreadSilence
  <1>3. CASE ClientDispatches
    <2>1. PICK type \in ClientActions, t \in Tasks, actor \in Employees :
             Dispatch(Client, type, t, actor)
      BY <1>3 DEF ClientDispatches
    <2>2. Caller(Client) /\ Decides(Client, type, t) /\ (NobodyBlocks => type # "task.block")
      BY DEF Caller, Decides, NobodyBlocks
    <2>. QED BY <1>0, <2>1, <2>2, DispatchSilence
  <1>4. CASE PauseBegin
    <2>1. UNCHANGED <<task, thread, asked>> /\ accepting' = FALSE
      BY <1>4 DEF PauseBegin
    <2>2. FramesOK(thread)' /\ BlockedAsked'
      BY <2>1 DEF SilenceInv, FramesOK, FrameOK, BlockedAsked, NobodyBlocks
    <2>3. ReviewsUnderWay'
      BY <2>1 DEF ReviewsUnderWay
    <2>. QED BY <2>2, <2>3 DEF SilenceInv
  <1>5. CASE PauseDone
    <2>1. UNCHANGED <<task, thread, asked, accepting, epoch>> /\ session' = [e \in Employees |-> FALSE]
      BY <1>5 DEF PauseDone
    <2>2. FramesOK(thread)' /\ BlockedAsked'
      BY <2>1 DEF SilenceInv, FramesOK, FrameOK, BlockedAsked, NobodyBlocks
    <2>3. ReviewsUnderWay'
      BY <2>1, OrchestratorAssumption DEF ReviewsUnderWay
    <2>. QED BY <2>2, <2>3 DEF SilenceInv
  <1>6. CASE Recover
    BY <1>0, <1>6, RecoverSilence
  <1>7. CASE Crash
    <2>1. /\ UNCHANGED <<task, asked>> /\ accepting' = FALSE
          /\ thread' = [th \in Threads |-> Idle]
      BY <1>7 DEF Crash
    <2>2. FramesOK(thread)'
      BY <2>1 DEF FramesOK, Idle
    <2>3. ReviewsUnderWay' /\ BlockedAsked'
      BY <2>1 DEF SilenceInv, ReviewsUnderWay, BlockedAsked, NobodyBlocks
    <2>. QED BY <2>2, <2>3 DEF SilenceInv
  <1>8. CASE UNCHANGED vars
    <2>1. FramesOK(thread') /\ StillReviewed(thread, thread')
      BY <1>0, <1>8 DEF vars, core, StillReviewed
    <2>. QED BY <1>8, <2>1, SilenceStays DEF vars, core
  <1>. QED BY <1>1, <1>2, <1>3, <1>4, <1>5, <1>6, <1>7, <1>8 DEF Next

\* At rest no call is under way, and so no review.
LEMMA NoReviewAtRest ==
    ASSUME OrchInv, Connected, AtRest, NEW t
    PROVE  ~UnderReview(thread, t)
  <1>1. ASSUME NEW th \in Threads PROVE Len(thread[th].stack) = 0
    BY DEF AtRest, Free, Connected, ShapeOK, CallShape
  <1>. QED BY <1>1 DEF UnderReview

\* The reviews never stop without a word: once nothing is in flight and the reviewer has a
\* session, the user was asked about every task that waits for a review, whatever exits,
\* refusals, rejections, pauses, recoveries and crashes came before, and whatever the other
\* sessions do (requestReview, recoverWork and the approval requests).
THEOREM ReviewsAreNotForgotten ==
    ASSUME ReviewerOnlyReviews
    PROVE  Spec => [](AtRest /\ session[Reviewer] =>
                        \A t \in Tasks : task[t].status = "review" => t \in asked)
  <1>1. CallsInv /\ SilenceInv /\ AtRest /\ session[Reviewer] =>
            \A t \in Tasks : task[t].status = "review" => t \in asked
    BY NoReviewAtRest DEF CallsInv, SilenceInv, ReviewsUnderWay, AtRest
  <1>2. CallsInv /\ CallsInv' /\ SilenceInv /\ [Next]_vars => SilenceInv'
    BY SilenceInvStep
  <1>. QED BY <1>1, <1>2, SilenceInvInit, CallsInvariant, PTL DEF Spec

\* And as long as nobody dispatches task.block, which asks nobody, the user was asked about
\* every blocked task too: the retries and the review loops that were spent, for any number
\* of employees, tasks and nested calls (sendTask, rejectAndMaybeRequeue).
THEOREM SilenceNeverWaits ==
    ASSUME ReviewerOnlyReviews, NobodyBlocks
    PROVE  Spec => []NothingWaitsInSilence
  <1>1. CallsInv /\ SilenceInv => NothingWaitsInSilence
    <2> SUFFICES ASSUME CallsInv, SilenceInv, AtRest, \A e \in Employees : session[e],
                        NEW t \in Tasks, task[t].status \in {"review", "blocked"}
                 PROVE  t \in asked
      BY DEF NothingWaitsInSilence
    <2>1. CASE task[t].status = "review"
      BY <2>1, NoReviewAtRest, OrchestratorAssumption
         DEF CallsInv, SilenceInv, ReviewsUnderWay, AtRest
    <2>2. CASE task[t].status = "blocked"
      BY <2>2 DEF SilenceInv, BlockedAsked
    <2>. QED BY <2>1, <2>2
  <1>2. CallsInv /\ CallsInv' /\ SilenceInv /\ [Next]_vars => SilenceInv'
    BY SilenceInvStep
  <1>. QED BY <1>1, <1>2, SilenceInvInit, CallsInvariant, PTL DEF Spec

-----------------------------------------------------------------------------
(* The dispatch gate.                                                       *)

\* Only a running company accepts actions; a crash leaves its row as it was.
GateInv == accepting \in BOOLEAN /\ (accepting => lifecycle = "running")

\* What changes the row of the company, or whether actions are accepted
LEMMA GateSteps ==
    ASSUME [Next]_vars
    PROVE  \/ UNCHANGED <<accepting, lifecycle>>
           \/ PauseBegin \/ PauseDone \/ Recover \/ Crash
  <1>1. ASSUME NEW c, NEW type, NEW t \in Tasks, NEW actor, Dispatch(c, type, t, actor)
        PROVE  UNCHANGED accepting
    BY <1>1 DEF Dispatch, CreateProposedTask, AssignAndSend, StartTask, StartNext,
          RecordSubmissionAndRequestReview, RequestReview, Approve, RejectAndMaybeRequeue,
          BlockTask, RouteEmployeeMessage, Enter
  <1>2. ASSUME NEW th \in Threads, ThreadStep(th) PROVE UNCHANGED <<accepting, lifecycle>>
    <2>1. CASE AgentProposes(th)
      BY <1>1, <2>1 DEF AgentProposes
    <2>2. CASE ~AgentProposes(th)
      BY <1>2, <2>2 DEF ThreadStep, Acquire, TurnEnds, SessionExits, ProposalRefused, HandleFailure,
            SessionReplaced, ReplacementFails, ReplacementAborted, StartRecoveredReview
    <2>. QED BY <2>1, <2>2
  <1>3. CASE ClientDispatches
    BY <1>1, <1>3 DEF ClientDispatches
  <1>4. CASE StartReady \/ RetryFlight
    BY <1>4 DEF StartReady, RetryFlight
  <1>5. CASE UNCHANGED vars
    BY <1>5 DEF vars, core
  <1>. QED BY <1>2, <1>3, <1>4, <1>5 DEF Next

\* The orchestrator opens and closes the dispatch as the gate allows.
THEOREM OrchestratorKeepsGate == Spec => GateSpec
  <1>1. Init => GateInv /\ Gate!Init
    BY DEF Init, GateInv, Gate!Init
  <1>2. GateInv /\ [Next]_vars => GateInv' /\ [Gate!Next]_<<accepting, lifecycle>>
    <2> SUFFICES ASSUME GateInv, [Next]_vars
                 PROVE  GateInv' /\ [Gate!Next]_<<accepting, lifecycle>>
      OBVIOUS
    <2>1. CASE UNCHANGED <<accepting, lifecycle>>
      BY <2>1 DEF GateInv
    <2>2. CASE PauseBegin
      BY <2>2 DEF PauseBegin, GateInv, Gate!Next, Gate!Suspend
    <2>3. CASE PauseDone
      BY <2>3 DEF PauseDone, GateInv, Gate!Next, Gate!Rest
    <2>4. CASE Recover
      BY <2>4 DEF Recover, GateInv, Gate!Next, Gate!Open
    <2>5. CASE Crash
      BY <2>5 DEF Crash, GateInv, Gate!Next, Gate!Close
    <2>. QED BY <2>1, <2>2, <2>3, <2>4, <2>5, GateSteps
  <1>. QED BY <1>1, <1>2, PTL DEF Spec, GateSpec, Gate!Spec
=============================================================================
