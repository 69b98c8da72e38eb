-------------------------- MODULE Lifecycle_proofs --------------------------
(***************************************************************************)
(* Proofs about Lifecycle for every number of employees, clients and       *)
(* processes.  At most one thing that changes the company is in flight: a  *)
(* start, an operation of CheckpointService, or neither (StartInv,         *)
(* OperationInv).  So a suspension sees every process it has to end, in    *)
(* #sessions, in #cleanupHandles or as a replacement that is being         *)
(* created; and when it finds none, none is left.                          *)
(*                                                                         *)
(* What the lifecycle does to the dispatch is what DispatchGate allows,    *)
(* which the orchestrator is shown to implement too.                       *)
(***************************************************************************)
EXTENDS Lifecycle, TLAPS

\* What the results need: nothing of the lifecycle happens while a start is in flight,
\* and a resume that fails has stopped the process it was to replace.
Orderly == ~Overlap /\ "resumeStop" \notin Faults

Replacements ==
    [pc : {"none", "creating", "rejecting"}, by : {"none", "retry", "recover"},
     mode : {"resume", "rebuild"}, handle : Handles \cup {NoHandle},
     aborted : BOOLEAN, cancelled : BOOLEAN]

Operations ==
    [kind : {"none", "pause", "stop", "recover"},
     pc : {"none", "transition", "interrupt", "cleanup", "graceful", "force", "employees"},
     user : BOOLEAN, failed : BOOLEAN, targets : SUBSET (Handles \cup Employees),
     pending : BOOLEAN]

\* The types of the variables the proofs are about.
TypeInv ==
    /\ LifeTypeOK
    /\ repl \in [Employees -> Replacements]
    /\ op \in Operations
    /\ closing \in BOOLEAN /\ draining \in BOOLEAN

\* One process for each employee
OneEach(created) ==
    \E h \in [Employees -> Handles] :
       created = {h[e] : e \in Employees} /\ \A e \in Employees : h[e][1] = e

\* A start is alone: nothing else of the lifecycle is in flight.
StartInv ==
    \A s \in Starts : starting[s] # {} =>
       /\ OneEach(starting[s])
       /\ \A other \in Starts : other # s => starting[other] = {}
       /\ ~Busy /\ status \in {"active", "stopped"}
       /\ \A e \in Employees : active[e] = NoHandle

\* Where an operation is tells what it is, and what it has written.
OperationInv ==
    /\ At("none") <=> ~Busy
    /\ op.pc \in {"interrupt", "cleanup"} => op.kind \in {"pause", "stop"}
    /\ op.pc \in {"cleanup", "graceful", "force"} /\ ~op.failed =>
          /\ op.kind = "pause" => status = "paused"
          /\ op.kind = "stop" => status = "stopped"
    /\ At("transition") => op.targets = {}
    /\ At("employees") =>
          /\ op.kind = "recover" /\ status = "starting"
          /\ op.targets \subseteq Employees
          /\ \A e \in op.targets : active[e] # NoHandle

\* Nothing comes up in a company at rest but what a start creates.
RestInv ==
    /\ status = "active" \/ (status \in {"paused", "stopped"} /\ ~Busy) => Pending = {}
    /\ RestHasNoProcesses

\* A replacement of a recovery belongs to the one employee the recovery is at; a rebuild
\* comes after a resume that has stopped the old process; what is rejected is a process.
ReplacementInv ==
    \A e \in Employees :
       /\ repl[e].by = "recover" =>
             /\ repl[e].pc = "creating" /\ At("employees") /\ e \notin op.targets
             /\ ~repl[e].aborted /\ ~repl[e].cancelled
             /\ \A other \in Employees : repl[other].by = "recover" => other = e
       /\ repl[e].pc = "creating" /\ repl[e].mode = "rebuild" => active[e] \notin alive
       /\ repl[e].pc = "rejecting" => repl[e].handle \in Handles

\* What the shutdown coordinator waits for
ShutdownInv ==
    /\ leases \subseteq connected
    /\ shutdown = "pausing" => op.kind = "pause"
    /\ shutdown = "closing" => status = "paused" /\ ~Busy /\ draining

\* The inductive invariant
LifeInv ==
    /\ TypeInv /\ StartInv /\ OperationInv /\ RestInv /\ ReplacementInv /\ ShutdownInv
    /\ NoProcessIsForgotten /\ DispatchNeedsCompany

-----------------------------------------------------------------------------
(* Processes and steps around the company.                                  *)

LEMMA NoHandleIsNoHandle == NoHandle \notin Handles
  BY LifecycleAssumption DEF NoHandle, Handles

LEMMA FreshIsUnused ==
    ASSUME NEW e \in Employees, CanSpawn(e)
    PROVE  Fresh(e) \in Unused(e)
  BY DEF CanSpawn, Fresh

\* While anything else is in flight, and in a running or paused company, there is no start.
LEMMA NoStart ==
    ASSUME TypeInv, StartInv, Busy \/ status \notin {"active", "stopped"}
    PROVE  ~StartInFlight
  BY DEF StartInv, StartInFlight

\* The types after a step of an operation
LEMMA TypesKept ==
    ASSUME TypeInv, status' \in Statuses, op' \in Operations,
           repl' \in [Employees -> Replacements],
           UNCHANGED <<sessions, accepting, callers, connected, leases, trigger, closing, draining>>
    PROVE  TypeInv'
  <1>1. accepting' \in BOOLEAN /\ closing' \in BOOLEAN /\ draining' \in BOOLEAN
    BY DEF TypeInv, LifeTypeOK
  <1>2. LifeTypeOK'
    BY <1>1 DEF TypeInv, LifeTypeOK, Operations, Replacements, sessions, callers
  <1>. QED BY <1>1, <1>2 DEF TypeInv

\* Steps of the registry and of the transport
LEMMA OuterStep ==
    ASSUME LifeInv, UNCHANGED <<sessions, company, repl, starting>>,
           connected' \subseteq Clients, leases' \subseteq Clients,
           trigger' \in {"none", "called", "waiting", "closing"},
           shutdown' \in {"none", "pausing", "closing", "failed", "exit 0", "exit 1", "exit 130"},
           closing' \in BOOLEAN, draining' \in BOOLEAN, ShutdownInv'
    PROVE  LifeInv'
  <1>. USE DEF sessions, company
  <1>1. TypeInv'
    BY DEF LifeInv, TypeInv, LifeTypeOK
  <1>2. StartInv'
    BY DEF LifeInv, StartInv, Busy
  <1>3. OperationInv'
    BY DEF LifeInv, OperationInv, Busy, At
  <1>4. RestInv'
    BY DEF LifeInv, RestInv, RestHasNoProcesses, Busy, Pending, StartInFlight
  <1>5. ReplacementInv'
    BY DEF LifeInv, ReplacementInv, At
  <1>6. NoProcessIsForgotten' /\ DispatchNeedsCompany'
    BY DEF LifeInv, NoProcessIsForgotten, DispatchNeedsCompany, Owned, Busy
  <1>. QED BY <1>1, <1>2, <1>3, <1>4, <1>5, <1>6 DEF LifeInv

\* The lease triggers of a step that leaves the company alone
LEMMA TriggerType ==
    ASSUME TypeInv, NEW left, TriggerIfEmpty(left)
    PROVE  trigger' \in {"none", "called", "waiting", "closing"}
  BY DEF TypeInv, LifeTypeOK, TriggerIfEmpty

LEMMA LeaseSteps ==
    ASSUME LifeInv,
           \/ \E c \in Clients : Heartbeat(c) \/ Disconnect(c)
           \/ \E expired \in SUBSET leases : Sweep(expired)
           \/ TriggerSettles \/ CloseTransport \/ CoreStarts
    PROVE  LifeInv'
  <1>. USE DEF LifeInv, TypeInv, LifeTypeOK, ShutdownInv, transport, callers, registry
  <1>1. ASSUME NEW c \in Clients, Heartbeat(c) PROVE LifeInv'
    BY <1>1, OuterStep DEF Heartbeat, Busy, company
  <1>2. ASSUME NEW c \in Clients, Disconnect(c) PROVE LifeInv'
    BY <1>2, OuterStep, TriggerType DEF Disconnect, Busy, company
  <1>3. ASSUME NEW expired \in SUBSET leases, Sweep(expired) PROVE LifeInv'
    BY <1>3, OuterStep, TriggerType DEF Sweep, Busy, company
  <1>4. CASE TriggerSettles
    BY <1>4, OuterStep DEF TriggerSettles, Busy, company
  <1>5. CASE CloseTransport
    BY <1>5, OuterStep DEF CloseTransport, Busy, company
  <1>6. CASE CoreStarts
    BY <1>6, OuterStep DEF CoreStarts, Busy, company
  <1>. QED BY <1>1, <1>2, <1>3, <1>4, <1>5, <1>6

-----------------------------------------------------------------------------
(* The operations.                                                          *)

LEMMA AbortKeeps ==
    ASSUME TypeInv, AbortReplacements
    PROVE  /\ repl' \in [Employees -> Replacements]
           /\ Pending' = Pending
           /\ \A e \in Employees : /\ repl'[e].by = repl[e].by /\ repl'[e].pc = repl[e].pc
                                   /\ repl'[e].mode = repl[e].mode
                                   /\ repl'[e].handle = repl[e].handle
                                   /\ repl[e].by = "recover" => repl'[e] = repl[e]
  <1>1. \A e \in Employees : repl[e] \in Replacements
    BY DEF TypeInv
  <1>2. repl' = [e \in Employees |-> repl'[e]]
    BY DEF AbortReplacements
  <1>3. ASSUME NEW e \in Employees
        PROVE  /\ repl'[e] \in Replacements
               /\ repl'[e].by = repl[e].by /\ repl'[e].pc = repl[e].pc
               /\ repl'[e].mode = repl[e].mode /\ repl'[e].handle = repl[e].handle
               /\ repl[e].by = "recover" => repl'[e] = repl[e]
    <2>1. \/ repl'[e] = repl[e]
          \/ repl[e].by # "recover" /\ repl'[e] = [repl[e] EXCEPT !.aborted = TRUE]
      BY DEF AbortReplacements
    <2>. QED BY <1>1, <2>1 DEF Replacements
  <1>. QED BY <1>2, <1>3 DEF Pending

LEMMA CancelKeeps ==
    ASSUME TypeInv, CancelPending
    PROVE  /\ repl' \in [Employees -> Replacements]
           /\ Pending' = Pending
           /\ \A e \in Employees : /\ repl'[e].by = repl[e].by /\ repl'[e].pc = repl[e].pc
                                   /\ repl'[e].mode = repl[e].mode
                                   /\ repl'[e].handle = repl[e].handle
  <1>1. \A e \in Employees : repl[e] \in Replacements
    BY DEF TypeInv
  <1>2. repl' = [e \in Employees |-> repl'[e]]
    BY DEF CancelPending
  <1>3. ASSUME NEW e \in Employees
        PROVE  /\ repl'[e] \in Replacements
               /\ repl'[e].by = repl[e].by /\ repl'[e].pc = repl[e].pc
               /\ repl'[e].mode = repl[e].mode /\ repl'[e].handle = repl[e].handle
    <2>1. repl'[e] = repl[e] \/ repl'[e] = [repl[e] EXCEPT !.cancelled = TRUE]
      BY DEF CancelPending
    <2>. QED BY <1>1, <2>1 DEF Replacements
  <1>. QED BY <1>2, <1>3 DEF Pending

\* While no recovery is at its employees, no replacement belongs to one.
LEMMA NoRecovery ==
    ASSUME ReplacementInv, ~At("employees"), NEW e \in Employees
    PROVE  repl[e].by # "recover"
  BY DEF ReplacementInv

\* An operation begins.
LEMMA BeginStep ==
    ASSUME Orderly, LifeInv, ~Busy, NEW kind \in {"pause", "stop", "recover"},
           NEW user \in BOOLEAN, Begin(kind, user),
           UNCHANGED <<connected, leases>>,
           trigger' \in {"none", "called", "waiting", "closing"},
           shutdown' = shutdown \/ (shutdown' = "pausing" /\ kind = "pause"),
           shutdown = "closing" => status # "paused",
           closing' \in BOOLEAN, draining' \in BOOLEAN
    PROVE  LifeInv'
  <1>. USE DEF sessions
  <1>1. TypeInv /\ StartInv /\ OperationInv /\ RestInv /\ ReplacementInv /\ ShutdownInv
        /\ NoProcessIsForgotten /\ DispatchNeedsCompany
    BY DEF LifeInv
  <1>2. /\ op' = [kind |-> kind, pc |-> "transition", user |-> user, failed |-> FALSE,
                  targets |-> {}, pending |-> FALSE]
        /\ op' \in Operations
    <2>1. op' = [kind |-> kind, pc |-> "transition", user |-> user, failed |-> FALSE,
                  targets |-> {}, pending |-> FALSE]
      BY DEF Begin, NoOperation
    <2>. QED BY <2>1 DEF Operations
  <1>3. ~StartInFlight /\ starting' = starting
    BY DEF Orderly, Begin, NothingOverlaps
  <1>4. AbortReplacements
    BY DEF Begin
  <1>5. repl' \in [Employees -> Replacements]
    BY <1>1, <1>4, AbortKeeps
  <1>6. TypeInv'
    BY <1>1, <1>2, <1>3, <1>5 DEF Begin, TypeInv, LifeTypeOK, Replacements, Operations
  <1>7. StartInv'
    BY <1>3 DEF StartInv, StartInFlight
  <1>8. OperationInv'
    BY <1>2 DEF OperationInv, At, Busy
  <1>9. RestInv'
    BY <1>1, <1>2, <1>4, AbortKeeps DEF RestInv, RestHasNoProcesses, Busy, Begin
  <1>10. ReplacementInv'
    <2>1. \A e \in Employees : repl[e].by # "recover"
      BY <1>1, NoRecovery DEF OperationInv, At
    <2>2. \A e \in Employees : repl'[e].by # "recover"
      BY <1>1, <1>4, <2>1, AbortKeeps
    <2>. QED BY <1>1, <1>4, <2>2, AbortKeeps DEF ReplacementInv, Begin
  <1>11. ShutdownInv'
    BY <1>1, <1>2 DEF ShutdownInv, Busy
  <1>12. NoProcessIsForgotten' /\ DispatchNeedsCompany'
    BY <1>1, <1>3 DEF NoProcessIsForgotten, DispatchNeedsCompany, Owned, Begin
  <1>. QED BY <1>1, <1>6, <1>7, <1>8, <1>9, <1>10, <1>11, <1>12 DEF LifeInv

\* Somebody else asks for the operation in flight.
LEMMA JoinStep ==
    ASSUME LifeInv, Busy, NEW user \in BOOLEAN, op' = [op EXCEPT !.user = @ \/ user],
           UNCHANGED <<sessions, status, accepting, repl, starting, connected, leases>>,
           trigger' \in {"none", "called", "waiting", "closing"},
           shutdown' = shutdown \/ (shutdown' = "pausing" /\ op.kind = "pause"),
           closing' \in BOOLEAN, draining' = draining
    PROVE  LifeInv'
  <1>. USE DEF sessions
  <1>1. /\ op' \in Operations /\ op'.kind = op.kind /\ op'.pc = op.pc
        /\ op'.failed = op.failed /\ op'.targets = op.targets
    <2>1. op \in Operations
      BY DEF LifeInv, TypeInv
    <2>2. (op.user \/ user) \in BOOLEAN
      OBVIOUS
    <2>. QED BY <2>1, <2>2 DEF Operations
  <1>2. TypeInv'
    BY <1>1 DEF LifeInv, TypeInv, LifeTypeOK
  <1>3. StartInv' /\ OperationInv'
    BY <1>1 DEF LifeInv, StartInv, OperationInv, Busy, At
  <1>4. RestInv'
    BY <1>1 DEF LifeInv, RestInv, RestHasNoProcesses, Busy, Pending, StartInFlight
  <1>5. ReplacementInv' /\ ShutdownInv'
    BY <1>1 DEF LifeInv, ReplacementInv, ShutdownInv, At, Busy
  <1>6. NoProcessIsForgotten' /\ DispatchNeedsCompany'
    BY <1>1 DEF LifeInv, NoProcessIsForgotten, DispatchNeedsCompany, Owned, Busy
  <1>. QED BY <1>1, <1>2, <1>3, <1>4, <1>5, <1>6 DEF LifeInv

\* pause is asked for, by a client, the registry or a signal.
LEMMA PauseStep ==
    ASSUME Orderly, LifeInv, NEW user \in BOOLEAN, Pause(user),
           UNCHANGED <<connected, leases, draining>>,
           trigger' \in {"none", "called", "waiting", "closing"},
           shutdown' = shutdown \/ shutdown' = "pausing",
           closing' \in BOOLEAN
    PROVE  LifeInv'
  <1>1. CASE op.kind = "pause"
    BY <1>1, JoinStep DEF Pause, Busy, sessions, Begin, LifeInv, TypeInv
  <1>2. CASE op.kind # "pause"
    <2>1. ~Busy /\ status # "paused" /\ Begin("pause", user)
      BY <1>2 DEF Pause
    <2>. QED BY <2>1, BeginStep DEF LifeInv, TypeInv
  <1>. QED BY <1>1, <1>2

LEMMA RequestSteps ==
    ASSUME Orderly, LifeInv,
           LastClientExpired \/ Signal
             \/ \E c \in Clients : RequestPause(c) \/ RequestStop(c) \/ RequestResume(c)
    PROVE  LifeInv'
  <1>. USE DEF LifeInv, TypeInv, LifeTypeOK
  <1>1. CASE LastClientExpired
    <2>1. trigger' \in {"none", "called", "waiting", "closing"}
      BY <1>1 DEF LastClientExpired, TriggerFailed
    <2>2. CASE Pause(FALSE) /\ UNCHANGED draining
      BY <1>1, <2>1, <2>2, PauseStep DEF LastClientExpired
    <2>3. CASE UNCHANGED <<sessions, company, repl, starting, draining>>
      BY <1>1, <2>1, <2>3, OuterStep DEF LastClientExpired, ShutdownInv, Busy, company
    <2>4. CASE /\ ~Busy /\ status = "paused" /\ draining'
               /\ UNCHANGED <<sessions, company, repl, starting>>
      <3>1. draining' \in BOOLEAN /\ ShutdownInv'
        BY <1>1, <2>4 DEF LastClientExpired, ShutdownInv, Busy, company
      <3>. QED BY <1>1, <2>1, <2>4, <3>1, OuterStep DEF LastClientExpired
    <2>. QED BY <1>1, <2>2, <2>3, <2>4 DEF LastClientExpired
  <1>2. CASE Signal
    <2>1. CASE Pause(FALSE) /\ shutdown' = "pausing" /\ UNCHANGED draining
      BY <1>2, <2>1, PauseStep DEF Signal, registry
    <2>2. CASE shutdown' = "failed" /\ UNCHANGED <<company, repl, sessions, starting, draining>>
      BY <1>2, <2>2, OuterStep DEF Signal, ShutdownInv, Busy, company, registry
    <2>3. CASE /\ ~Busy /\ status = "paused" /\ shutdown' = "closing" /\ draining' = TRUE
               /\ UNCHANGED <<company, repl, sessions, starting>>
      BY <1>2, <2>3, OuterStep DEF Signal, ShutdownInv, Busy, company, registry
    <2>. QED BY <1>2, <2>1, <2>2, <2>3 DEF Signal
  <1>3. ASSUME NEW c \in Clients, RequestPause(c) PROVE LifeInv'
    <2>1. CASE closing' = TRUE /\ UNCHANGED <<sessions, company, repl, starting>>
      BY <1>3, <2>1, OuterStep DEF RequestPause, ShutdownInv, Busy, company, registry
    <2>2. CASE Pause(TRUE) /\ UNCHANGED closing
      BY <1>3, <2>2, PauseStep DEF RequestPause, registry
    <2>. QED BY <1>3, <2>1, <2>2 DEF RequestPause
  <1>4. ASSUME NEW c \in Clients, RequestStop(c) PROVE LifeInv'
    <2>1. CASE closing' = TRUE /\ UNCHANGED <<sessions, company, repl, starting>>
      BY <1>4, <2>1, OuterStep DEF RequestStop, ShutdownInv, Busy, company, registry
    <2>2. CASE ~Busy /\ Begin("stop", TRUE) /\ UNCHANGED closing
      BY <1>4, <2>2, BeginStep DEF RequestStop, ShutdownInv, registry, CanAsk
    <2>3. CASE /\ op.kind = "stop" /\ op' = [op EXCEPT !.user = TRUE]
               /\ UNCHANGED <<sessions, status, accepting, repl, starting, closing>>
      <3>1. op' = [op EXCEPT !.user = @ \/ TRUE] /\ Busy
        BY <2>3 DEF Busy
      <3>. QED BY <1>4, <2>3, <3>1, JoinStep DEF RequestStop, registry
    <2>. QED BY <1>4, <2>1, <2>2, <2>3 DEF RequestStop
  <1>5. ASSUME NEW c \in Clients, RequestResume(c) PROVE LifeInv'
    BY <1>5, BeginStep DEF RequestResume, ShutdownInv, registry, CanAsk, transport
  <1>. QED BY <1>1, <1>2, <1>3, <1>4, <1>5

LEMMA BusyFacts ==
    ASSUME LifeInv, Busy
    PROVE  ~StartInFlight /\ ~accepting /\ shutdown # "closing"
  BY NoStart DEF LifeInv, DispatchNeedsCompany, ShutdownInv

LEMMA TransitionSteps ==
    ASSUME LifeInv, SuspendTransition \/ RecoverTransition
    PROVE  LifeInv'
  <1>. USE DEF LifeInv, sessions, callers, registry, transport
  <1>1. /\ Busy /\ Busy' /\ op'.kind = op.kind /\ op'.failed = op.failed
        /\ op' \in Operations /\ op'.targets = op.targets
        /\ \/ op'.pc = "interrupt" /\ op.kind \in {"pause", "stop"}
           \/ op'.pc = "employees" /\ op.kind = "recover" /\ status' = "starting"
    BY DEF SuspendTransition, RecoverTransition, Busy, TypeInv, Operations
  <1>2. TypeInv'
    BY <1>1 DEF SuspendTransition, RecoverTransition, TypeInv, LifeTypeOK, Statuses
  <1>3. StartInv'
    BY <1>1, BusyFacts DEF SuspendTransition, RecoverTransition, StartInv, StartInFlight
  <1>4. OperationInv'
    BY <1>1 DEF SuspendTransition, RecoverTransition, OperationInv, Busy, At
  <1>5. RestInv'
    BY <1>1 DEF SuspendTransition, RecoverTransition, RestInv, RestHasNoProcesses
  <1>6. ReplacementInv'
    BY <1>1, NoRecovery DEF SuspendTransition, RecoverTransition, ReplacementInv, At
  <1>7. ShutdownInv'
    BY <1>1, BusyFacts DEF SuspendTransition, RecoverTransition, ShutdownInv
  <1>8. NoProcessIsForgotten' /\ DispatchNeedsCompany'
    BY <1>1, BusyFacts DEF SuspendTransition, RecoverTransition, NoProcessIsForgotten,
          DispatchNeedsCompany, Owned
  <1>. QED BY <1>2, <1>3, <1>4, <1>5, <1>6, <1>7, <1>8

LEMMA SuspendCommitStep ==
    ASSUME LifeInv, SuspendCommit
    PROVE  LifeInv'
  <1>. USE DEF LifeInv, SuspendCommit, sessions, callers, registry, transport
  <1>1. /\ Busy /\ Busy' /\ op.kind \in {"pause", "stop"} /\ op'.kind = op.kind
        /\ op'.pc = "cleanup" /\ op' \in Operations /\ ~At("employees")
        /\ op'.failed = (rows # Employees)
    <2>1. op \in Operations /\ At("interrupt") /\ op.kind \in {"pause", "stop"}
      BY DEF TypeInv, OperationInv, At
    <2>2. (rows # Employees) \in BOOLEAN
      OBVIOUS
    <2>3. op' \in Operations
      BY <2>1, <2>2 DEF Operations
    <2>. QED BY <2>1, <2>3 DEF Operations, Busy, At
  <1>2. TypeInv'
    BY <1>1, CancelKeeps DEF TypeInv, LifeTypeOK, Statuses, Replacements
  <1>3. StartInv'
    BY <1>1, BusyFacts DEF StartInv, StartInFlight
  <1>4. OperationInv'
    BY <1>1 DEF OperationInv, Busy, At
  <1>5. RestInv'
    BY <1>1, CancelKeeps DEF RestInv, RestHasNoProcesses
  <1>6. ReplacementInv'
    BY <1>1, NoRecovery, CancelKeeps DEF ReplacementInv, At
  <1>7. ShutdownInv'
    BY <1>1, BusyFacts DEF ShutdownInv
  <1>8. NoProcessIsForgotten' /\ DispatchNeedsCompany'
    BY <1>1, BusyFacts DEF NoProcessIsForgotten, DispatchNeedsCompany, Owned
  <1>. QED BY <1>2, <1>3, <1>4, <1>5, <1>6, <1>7, <1>8

\* A suspension or a failed recovery gives up.
LEMMA BlockTypes ==
    ASSUME TypeInv, Block
    PROVE  /\ op' \in Operations /\ op'.kind = "none" /\ op'.pc = "none" /\ status' = "blocked"
           /\ ~Busy' /\ status' \in Statuses
           /\ trigger' \in {"none", "called", "waiting", "closing"}
           /\ shutdown' = shutdown \/ shutdown' = "failed"
           /\ shutdown' # "pausing"
           /\ UNCHANGED <<accepting, closing, draining>>
  BY DEF TypeInv, LifeTypeOK, Block, NoOperation, Operations, Busy, Statuses, TriggerFailed

\* A pause or stop is done.
LEMMA SucceedTypes ==
    ASSUME LifeInv, Succeed, Busy
    PROVE  /\ op' \in Operations /\ op'.kind = "none" /\ op'.pc = "none" /\ ~Busy'
           /\ trigger' \in {"none", "called", "waiting", "closing"}
           /\ \/ shutdown' = shutdown /\ shutdown' # "pausing"
              \/ shutdown = "pausing" /\ shutdown' = "closing" /\ draining'
           /\ closing' \in BOOLEAN /\ draining' \in BOOLEAN
           /\ UNCHANGED <<status, accepting>>
  <1>1. op' \in Operations /\ op'.kind = "none" /\ op'.pc = "none" /\ ~Busy'
    BY DEF Succeed, NoOperation, Operations, Busy
  <1>2. trigger' \in {"none", "called", "waiting", "closing"}
    BY DEF LifeInv, TypeInv, LifeTypeOK, Succeed
  <1>3. closing' \in BOOLEAN /\ draining' \in BOOLEAN
    BY DEF Succeed
  <1>4. shutdown = "pausing" => draining'
    BY DEF Succeed
  <1>5. shutdown' = IF shutdown = "pausing" THEN "closing" ELSE shutdown
    BY DEF Succeed
  <1>6. UNCHANGED <<status, accepting>>
    BY DEF Succeed
  <1>. QED BY <1>1, <1>2, <1>3, <1>4, <1>5, <1>6

\* A step that ends the operation in flight, and may end processes but none of a
\* replacement that is being created
LEMMA EndStep ==
    ASSUME LifeInv, Busy, op' \in Operations, op'.kind = "none", op'.pc = "none",
           ~At("employees"),
           status' \in {"paused", "stopped"} => Pending = {} /\ alive' = {},
           status' \in Statuses, status' # "active",
           active' \in [Employees -> Handles \cup {NoHandle}],
           cleanup' \subseteq Handles, alive' \subseteq alive,
           \A e \in Employees : active'[e] \in {active[e], NoHandle},
           NoProcessIsForgotten',
           shutdown' # "closing" \/ (status' = "paused" /\ draining'),
           shutdown' \in {"none", "closing", "failed", "exit 0", "exit 1", "exit 130"},
           trigger' \in {"none", "called", "waiting", "closing"},
           closing' \in BOOLEAN, draining' \in BOOLEAN,
           UNCHANGED <<rows, accepting, repl, starting, hadLease, connected, leases>>
    PROVE  LifeInv'
  <1>. USE DEF LifeInv
  <1>1. ~Busy'
    BY DEF Busy
  <1>2. TypeInv'
    BY DEF TypeInv, LifeTypeOK
  <1>3. StartInv'
    BY BusyFacts DEF StartInv, StartInFlight
  <1>4. OperationInv'
    BY <1>1 DEF OperationInv, At
  <1>5. RestInv'
    BY DEF RestInv, RestHasNoProcesses, Pending
  <1>6. ReplacementInv'
    BY NoHandleIsNoHandle, NoRecovery DEF ReplacementInv, TypeInv, LifeTypeOK
  <1>7. ShutdownInv'
    BY <1>1 DEF ShutdownInv
  <1>8. DispatchNeedsCompany'
    BY BusyFacts DEF DispatchNeedsCompany
  <1>. QED BY <1>2, <1>3, <1>4, <1>5, <1>6, <1>7, <1>8

\* The next round of stops
LEMMA RoundStep ==
    ASSUME LifeInv, Busy, ~At("employees"), UNCHANGED status,
           op' \in Operations, op'.kind = op.kind, op'.failed = op.failed,
           op.pc \in {"cleanup", "graceful", "force"},
           \/ op'.pc \in {"graceful", "force"}
           \/ op'.pc = "cleanup" /\ op.kind # "recover",
           CancelPending \/ UNCHANGED repl,
           active' \in [Employees -> Handles \cup {NoHandle}],
           cleanup' \subseteq Handles, alive' \subseteq alive,
           \A e \in Employees : active'[e] \in {active[e], NoHandle},
           NoProcessIsForgotten',
           UNCHANGED <<rows, accepting, starting, trigger, shutdown, closing, draining>>,
           UNCHANGED <<hadLease, connected, leases>>
    PROVE  LifeInv'
  <1>. USE DEF LifeInv
  <1>1. Busy' /\ op'.pc \notin {"none", "transition", "interrupt", "employees"}
    BY DEF Busy
  <1>2. /\ repl' \in [Employees -> Replacements] /\ Pending' = Pending
        /\ \A e \in Employees : /\ repl'[e].by = repl[e].by /\ repl'[e].pc = repl[e].pc
                                /\ repl'[e].mode = repl[e].mode
                                /\ repl'[e].handle = repl[e].handle
    BY CancelKeeps DEF TypeInv, Pending
  <1>3. TypeInv'
    BY <1>2 DEF TypeInv, LifeTypeOK, Replacements
  <1>4. StartInv'
    BY BusyFacts DEF StartInv, StartInFlight
  <1>5. OperationInv'
    BY <1>1 DEF OperationInv, At, Busy, TypeInv, Operations
  <1>6. RestInv'
    BY <1>1, <1>2 DEF RestInv, RestHasNoProcesses
  <1>7. ReplacementInv'
    BY <1>2, NoHandleIsNoHandle, NoRecovery DEF ReplacementInv, TypeInv, LifeTypeOK
  <1>8. ShutdownInv' /\ DispatchNeedsCompany'
    BY <1>1, BusyFacts DEF ShutdownInv, DispatchNeedsCompany
  <1>. QED BY <1>3, <1>4, <1>5, <1>6, <1>7, <1>8

LEMMA CandidateType ==
    ASSUME TypeInv
    PROVE  Candidates \subseteq Handles
  BY DEF TypeInv, LifeTypeOK, Candidates, Owned

LEMMA CleanupRoundStep ==
    ASSUME LifeInv, CleanupRound
    PROVE  LifeInv'
  <1>. USE DEF LifeInv, sessions
  <1>1. Busy /\ ~At("employees") /\ op.kind \in {"pause", "stop"} /\ op.pc = "cleanup"
    BY DEF CleanupRound, OperationInv, At, Busy
  <1>2. UNCHANGED <<rows, active, cleanup, alive, starting, hadLease, connected, leases>>
    BY DEF CleanupRound
  <1>3. NoProcessIsForgotten' /\ ~StartInFlight
    BY <1>1, <1>2, BusyFacts DEF NoProcessIsForgotten, Owned
  <1>4. CASE Candidates = {} /\ ~PendingOwners /\ UNCHANGED repl
    <2>1. alive = {} /\ Pending = {}
      <3>1. UNION {starting[s] : s \in Starts} = {}
        BY <1>3 DEF StartInFlight
      <3>2. alive \subseteq Owned
        BY <3>1 DEF NoProcessIsForgotten
      <3>3. NoHandle \notin alive
        BY NoHandleIsNoHandle DEF TypeInv, LifeTypeOK
      <3>. QED BY <1>4, <3>2, <3>3 DEF Candidates, PendingOwners
    <2>2. CASE Block
      BY <1>1, <1>2, <1>3, <1>4, <2>1, <2>2, BlockTypes, EndStep, BusyFacts
         DEF TypeInv, LifeTypeOK
    <2>3. CASE Succeed /\ ~op.failed
      <3>1. status \in {"paused", "stopped"}
        BY <1>1, <2>3 DEF OperationInv
      <3>2. shutdown' # "closing" \/ (status' = "paused" /\ draining')
        BY <1>1, <2>3, SucceedTypes, BusyFacts DEF OperationInv, ShutdownInv
      <3>. QED BY <1>1, <1>2, <1>3, <1>4, <2>1, <2>3, <3>1, <3>2, SucceedTypes, EndStep
               DEF TypeInv, LifeTypeOK
    <2>. QED BY <1>4, <2>2, <2>3 DEF CleanupRound
  <1>5. CASE /\ op' = [op EXCEPT !.pc = "graceful", !.targets = Candidates,
                                 !.pending = PendingOwners]
             /\ CancelPending
             /\ UNCHANGED <<status, accepting, trigger, pauseTriggered, chained, closing, draining,
                            shutdown>>
    <2>1. PendingOwners \in BOOLEAN
      BY DEF PendingOwners
    <2>2. /\ op' \in Operations /\ op'.kind = op.kind /\ op'.failed = op.failed
          /\ op'.pc = "graceful"
      BY <1>5, <2>1, CandidateType DEF TypeInv, Operations
    <2>. QED BY <1>1, <1>2, <1>3, <1>5, <2>2, RoundStep DEF TypeInv, LifeTypeOK
  <1>. QED BY <1>4, <1>5 DEF CleanupRound

LEMMA StopsSettleStep ==
    ASSUME LifeInv, StopsSettle
    PROVE  LifeInv'
  <1>. USE DEF LifeInv
  <1>1. /\ op.pc \in {"graceful", "force"} /\ Busy /\ ~At("employees")
        /\ UNCHANGED <<rows, starting, hadLease, connected, leases>>
    BY DEF StopsSettle, OperationInv, At, Busy, StoppedHandles
  <1>2. PICK stopped \in SUBSET op.targets :
          /\ StoppedHandles(stopped)
          /\ \/ /\ op.kind # "recover" /\ op' = [op EXCEPT !.pc = "cleanup"]
                /\ UNCHANGED <<repl, status, accepting, trigger, closing, draining, shutdown>>
             \/ /\ op' = [op EXCEPT !.pc = "force", !.targets = Candidates \ stopped,
                                    !.pending = PendingOwners]
                /\ CancelPending
                /\ UNCHANGED <<status, accepting, trigger, closing, draining, shutdown>>
             \/ Block /\ UNCHANGED repl
    BY DEF StopsSettle
  <1>3. /\ active' \in [Employees -> Handles \cup {NoHandle}]
        /\ cleanup' \subseteq Handles /\ alive' \subseteq alive
        /\ \A e \in Employees : active'[e] \in {active[e], NoHandle}
    BY <1>2 DEF StoppedHandles, TypeInv, LifeTypeOK
  <1>4. NoProcessIsForgotten'
    BY <1>1, <1>2 DEF StoppedHandles, NoProcessIsForgotten, Owned
  <1>5. CASE op' = [op EXCEPT !.pc = "cleanup"] /\ op.kind # "recover" /\ UNCHANGED repl
             /\ UNCHANGED <<status, accepting, trigger, closing, draining, shutdown>>
    <2>1. /\ op' \in Operations /\ op'.kind = op.kind /\ op'.failed = op.failed
          /\ op'.pc = "cleanup"
      BY <1>5 DEF TypeInv, Operations
    <2>. QED BY <1>1, <1>3, <1>4, <1>5, <2>1, RoundStep
  <1>6. CASE /\ op' = [op EXCEPT !.pc = "force", !.targets = Candidates \ stopped,
                                 !.pending = PendingOwners]
             /\ CancelPending
             /\ UNCHANGED <<status, accepting, trigger, closing, draining, shutdown>>
    <2>1. PendingOwners \in BOOLEAN
      BY DEF PendingOwners
    <2>2. /\ op' \in Operations /\ op'.kind = op.kind /\ op'.failed = op.failed
          /\ op'.pc = "force"
      BY <1>6, <2>1, CandidateType DEF TypeInv, Operations
    <2>. QED BY <1>1, <1>3, <1>4, <1>6, <2>2, RoundStep
  <1>7. CASE Block /\ UNCHANGED repl
    BY <1>1, <1>3, <1>4, <1>7, BlockTypes, EndStep, BusyFacts DEF TypeInv, LifeTypeOK
  <1>. QED BY <1>2, <1>5, <1>6, <1>7

LEMMA RecoverySteps ==
    ASSUME LifeInv, RecoverRefused \/ Recovered
    PROVE  LifeInv'
  <1>. USE DEF LifeInv, sessions, callers, registry, transport
  <1>1. CASE RecoverRefused
    <2>1. ~StartInFlight /\ ~accepting /\ ~Busy /\ ~At("employees")
      <3>1. status = "paused" /\ ~Busy
        BY <1>1 DEF RecoverRefused
      <3>2. ~StartInFlight /\ ~accepting
        BY <3>1, NoStart DEF DispatchNeedsCompany
      <3>3. ~At("employees")
        BY <3>1 DEF OperationInv, At
      <3>. QED BY <3>1, <3>2, <3>3
    <2>2. /\ status' = "blocked"
          /\ UNCHANGED <<sessions, accepting, op, repl, callers, registry, transport>>
      BY <1>1 DEF RecoverRefused
    <2>3. TypeInv'
      BY <2>2, TypesKept DEF TypeInv, Statuses
    <2>4. StartInv'
      BY <1>1, <2>1 DEF RecoverRefused, StartInv, StartInFlight
    <2>5. OperationInv'
      BY <1>1, <2>1 DEF RecoverRefused, OperationInv, Busy, At
    <2>6. RestInv'
      BY <1>1 DEF RecoverRefused, RestInv, RestHasNoProcesses
    <2>7. ReplacementInv' /\ ShutdownInv'
      BY <1>1, <2>1 DEF RecoverRefused, ReplacementInv, ShutdownInv, At
    <2>8. NoProcessIsForgotten' /\ DispatchNeedsCompany'
      BY <1>1, <2>1 DEF RecoverRefused, NoProcessIsForgotten, DispatchNeedsCompany, Owned
    <2>. QED BY <2>3, <2>4, <2>5, <2>6, <2>7, <2>8
  <1>2. CASE Recovered
    <2>1. /\ Busy /\ ~StartInFlight /\ shutdown # "closing" /\ op.kind = "recover"
          /\ \A e \in Employees : active[e] # NoHandle
      BY <1>2, BusyFacts DEF Recovered, OperationInv, At, Busy
    <2>2. /\ op' \in Operations /\ op'.kind = "none" /\ op'.pc = "none" /\ ~Busy'
          /\ status' = "running"
      BY <1>2 DEF Recovered, NoOperation, Operations, Busy
    <2>3. TypeInv'
      BY <1>2, <2>2 DEF Recovered, TypeInv, LifeTypeOK, Statuses
    <2>4. StartInv'
      BY <1>2, <2>1 DEF Recovered, StartInv, StartInFlight
    <2>5. OperationInv' /\ RestInv'
      BY <2>2 DEF OperationInv, At, RestInv, RestHasNoProcesses
    <2>6. \A e \in Employees : repl[e].by # "recover"
      BY <1>2 DEF Recovered, ReplacementInv
    <2>7. ReplacementInv'
      BY <1>2, <2>6 DEF Recovered, ReplacementInv
    <2>8. ShutdownInv'
      BY <1>2, <2>1 DEF Recovered, ShutdownInv
    <2>9. NoProcessIsForgotten' /\ DispatchNeedsCompany'
      BY <1>2, <2>1, <2>2 DEF Recovered, NoProcessIsForgotten, DispatchNeedsCompany, Owned
    <2>. QED BY <2>2, <2>3, <2>4, <2>5, <2>7, <2>8, <2>9
  <1>. QED BY <1>1, <1>2

-----------------------------------------------------------------------------
(* Replacements.                                                            *)

LEMMA ReplacementStarts ==
    ASSUME LifeInv, NEW e \in Employees, RecoverEmployee(e) \/ ReplacementBegins(e)
    PROVE  LifeInv'
  <1>. USE DEF LifeInv, sessions, company, callers, registry, transport
  <1>1. PICK by \in {"retry", "recover"} :
          /\ repl' = [repl EXCEPT ![e] = [NoReplacement EXCEPT !.pc = "creating", !.by = by]]
          /\ \/ /\ by = "recover" /\ At("employees") /\ e \notin op.targets
                /\ \A other \in Employees : repl[other].by # "recover"
             \/ by = "retry" /\ accepting
    BY DEF RecoverEmployee, ReplacementBegins
  <1>2. repl \in [Employees -> Replacements]
    BY DEF TypeInv
  <1>3. /\ UNCHANGED <<sessions, company, callers, registry, transport>>
        /\ repl' \in [Employees -> Replacements]
        /\ repl'[e].pc = "creating" /\ repl'[e].mode = "resume"
        /\ ~repl'[e].aborted /\ ~repl'[e].cancelled
        /\ \/ /\ repl'[e].by = "recover" /\ At("employees") /\ e \notin op.targets
              /\ \A other \in Employees : repl[other].by # "recover"
           \/ repl'[e].by = "retry" /\ accepting
    BY <1>1, <1>2, NoHandleIsNoHandle DEF RecoverEmployee, ReplacementBegins, NoReplacement,
          Replacements
  <1>4. UNCHANGED <<sessions, company, callers, registry, transport>>
    BY <1>3
  <1>5. repl' \in [Employees -> Replacements]
    BY <1>3
  <1>6. TypeInv'
    BY <1>4, <1>5, TypesKept DEF TypeInv, LifeTypeOK
  <1>7. StartInv' /\ OperationInv'
    BY <1>3 DEF StartInv, OperationInv, Busy, At
  <1>8. /\ status # "active" /\ ~(status \in {"paused", "stopped"} /\ ~Busy)
    BY <1>3 DEF OperationInv, DispatchNeedsCompany
  <1>9. RestInv'
    BY <1>3, <1>8 DEF RestInv, RestHasNoProcesses, Busy
  <1>10. \A other \in Employees : other # e => repl'[other] = repl[other]
    BY <1>1, <1>2
  <1>11. ReplacementInv'
    <2>1. ASSUME NEW other \in Employees, repl'[other].by = "recover"
          PROVE  /\ repl'[other].pc = "creating" /\ At("employees") /\ other \notin op.targets
                 /\ ~repl'[other].aborted /\ ~repl'[other].cancelled
      BY <1>3, <1>10, <2>1 DEF ReplacementInv
    <2>2. ASSUME NEW one \in Employees, NEW other \in Employees,
                 repl'[one].by = "recover", repl'[other].by = "recover"
          PROVE  other = one
      BY <1>3, <1>10, <2>2 DEF ReplacementInv, DispatchNeedsCompany, OperationInv, Busy
    <2>3. ASSUME NEW other \in Employees, repl'[other].pc = "creating",
                 repl'[other].mode = "rebuild"
          PROVE  active[other] \notin alive
      BY <1>3, <1>10, <2>3 DEF ReplacementInv
    <2>4. ASSUME NEW other \in Employees, repl'[other].pc = "rejecting"
          PROVE  repl'[other].handle \in Handles
      BY <1>3, <1>10, <2>4 DEF ReplacementInv
    <2>. QED BY <1>3, <2>1, <2>2, <2>3, <2>4 DEF ReplacementInv, At
  <1>12. ShutdownInv' /\ NoProcessIsForgotten' /\ DispatchNeedsCompany'
    BY <1>3 DEF ShutdownInv, NoProcessIsForgotten, DispatchNeedsCompany, Owned, Busy
  <1>. QED BY <1>6, <1>7, <1>9, <1>11, <1>12

\* While a replacement is created, no start is in flight and the company is not at rest.
LEMMA CreatingFacts ==
    ASSUME LifeInv, NEW e \in Employees, e \in Pending
    PROVE  /\ ~StartInFlight /\ status # "active"
           /\ ~(status \in {"paused", "stopped"} /\ ~Busy)
           /\ shutdown # "closing"
  <1>1. status # "active" /\ ~(status \in {"paused", "stopped"} /\ ~Busy)
    BY DEF LifeInv, RestInv
  <1>2. shutdown # "closing"
    BY <1>1 DEF LifeInv, ShutdownInv
  <1>3. ~StartInFlight
    BY <1>1, NoStart DEF LifeInv
  <1>. QED BY <1>1, <1>2, <1>3

\* The replacement of one employee ends or is begun anew, in a recovery or not.
LEMMA ReplacementSettles ==
    ASSUME LifeInv, NEW e \in Employees, repl[e].pc \in {"creating", "rejecting"},
           repl' \in [Employees -> Replacements],
           \A other \in Employees : other # e => repl'[other] = repl[other],
           repl'[e].by # "recover", repl'[e].pc = "creating" => repl[e].pc = "creating",
           repl'[e].pc = "rejecting" => repl'[e].handle \in Handles,
           active' \in [Employees -> Handles \cup {NoHandle}],
           \A other \in Employees :
              /\ active[other] # NoHandle => active'[other] # NoHandle
              /\ repl'[other].pc = "creating" /\ repl'[other].mode = "rebuild" =>
                    active'[other] \notin alive',
           cleanup' \subseteq Handles, alive' \subseteq Handles, rows' \subseteq Employees,
           \/ repl[e].pc = "creating"
           \/ active' = active /\ alive' \ cleanup' \subseteq alive \ cleanup,
           repl[e].pc = "creating" \/ alive' \subseteq alive,
           NoProcessIsForgotten',
           \/ /\ UNCHANGED op /\ repl[e].by # "recover"
           \/ /\ repl[e].by = "recover" /\ op' \in Operations /\ op'.kind = op.kind
              /\ \/ /\ op'.pc = "employees" /\ op'.targets = op.targets \cup {e}
                    /\ active'[e] # NoHandle
                 \/ op'.pc = "graceful" /\ op'.failed = op.failed,
           UNCHANGED <<status, accepting, callers, registry, transport>>
    PROVE  LifeInv'
  <1>. USE DEF LifeInv, callers, registry, transport
  <1>1. repl[e].by = "recover" => /\ At("employees") /\ op.kind = "recover" /\ Busy
                                  /\ status = "starting" /\ op.targets \subseteq Employees
                                  /\ \A d \in op.targets : active[d] # NoHandle
                                  /\ \A d \in Employees : repl[d].by = "recover" => d = e
    BY DEF ReplacementInv, OperationInv, Busy
  <1>2. Busy' = Busy /\ op'.kind = op.kind /\ op' \in Operations
    BY DEF Busy, TypeInv
  <1>3. TypeInv'
    BY <1>2 DEF TypeInv, LifeTypeOK, Replacements
  <1>4. Pending' \subseteq Pending
    BY DEF Pending
  <1>5. StartInv'
    BY <1>2, CreatingFacts DEF StartInv, StartInFlight, Pending
  <1>6. OperationInv'
    BY <1>1, <1>2 DEF OperationInv, At, Busy
  <1>7. RestInv'
    BY <1>2, <1>4, CreatingFacts DEF RestInv, RestHasNoProcesses, Pending, StartInFlight, Busy
  <1>8. ReplacementInv'
    BY <1>1, <1>2 DEF ReplacementInv, At
  <1>9. ShutdownInv' /\ DispatchNeedsCompany'
    BY <1>2 DEF ShutdownInv, DispatchNeedsCompany, Busy
  <1>. QED BY <1>3, <1>5, <1>6, <1>7, <1>8, <1>9

LEMMA UnusedHandle ==
    ASSUME NEW e \in Employees, CanSpawn(e)
    PROVE  /\ Fresh(e) \in Handles /\ Fresh(e)[1] = e /\ Fresh(e) \notin alive \cup Owned
           /\ \A s \in Starts : Fresh(e) \notin starting[s]
  BY FreshIsUnused DEF Unused

LEMMA CreatedStep ==
    ASSUME LifeInv, NEW e \in Employees, Created(e)
    PROVE  LifeInv'
  <1>. USE DEF LifeInv
  <1>1. /\ repl[e].pc = "creating" /\ CanSpawn(e) /\ repl \in [Employees -> Replacements]
        /\ alive' = (alive \ Replaced(e)) \cup {Fresh(e)}
        /\ UNCHANGED <<status, accepting, callers, registry, transport>>
    BY DEF Created, TypeInv
  <1>2. /\ Fresh(e) \in Handles /\ Fresh(e) \notin alive \cup Owned
        /\ Fresh(e) # NoHandle
    BY <1>1, UnusedHandle, NoHandleIsNoHandle
  <1>3. alive' \subseteq Handles /\ active[e] \notin alive' \ {Fresh(e)}
    BY <1>1, <1>2 DEF Replaced, ReplacementInv, TypeInv, LifeTypeOK, Replacements
  <1>4. ~StartInFlight /\ UNCHANGED starting
    BY <1>1, CreatingFacts DEF Pending, callers
  <1>5. ASSUME Abandoned(e) PROVE LifeInv'
    <2>1. /\ cleanup' = cleanup \cup {Fresh(e)} /\ UNCHANGED <<rows, active, op>>
          /\ repl' = [repl EXCEPT ![e].pc = "rejecting", ![e].handle = Fresh(e)]
      BY <1>5 DEF Created
    <2>2. repl[e].by # "recover"
      BY <1>5 DEF Abandoned, ReplacementInv
    <2>3. /\ repl'[e].pc = "rejecting" /\ repl'[e].by = repl[e].by /\ repl'[e].handle = Fresh(e)
          /\ repl' \in [Employees -> Replacements]
          /\ \A other \in Employees : other # e => repl'[other] = repl[other]
      BY <1>1, <1>2, <2>1 DEF Replacements
    <2>4. ASSUME NEW other \in Employees, repl'[other].pc = "creating",
                 repl'[other].mode = "rebuild"
          PROVE  active'[other] \notin alive'
      BY <1>1, <1>2, <2>1, <2>3, <2>4 DEF ReplacementInv, Owned
    <2>5. NoProcessIsForgotten'
      BY <1>1, <1>4, <2>1 DEF NoProcessIsForgotten, Owned
    <2>6. cleanup' \subseteq Handles /\ active' \in [Employees -> Handles \cup {NoHandle}]
      BY <1>2, <2>1 DEF TypeInv, LifeTypeOK
    <2>7. rows' \subseteq Employees
      BY <2>1 DEF TypeInv, LifeTypeOK
    <2>. QED BY <1>1, <1>3, <2>1, <2>2, <2>3, <2>4, <2>5, <2>6, <2>7, ReplacementSettles
  <1>6. ASSUME ~Abandoned(e) PROVE LifeInv'
    <2>1. /\ rows' = rows \cup {e} /\ active' = [active EXCEPT ![e] = Fresh(e)]
          /\ repl' = [repl EXCEPT ![e] = NoReplacement] /\ UNCHANGED cleanup
          /\ op' = IF repl[e].by = "recover" THEN [op EXCEPT !.targets = @ \cup {e}] ELSE op
      BY <1>6 DEF Created
    <2>2. active' \in [Employees -> Handles \cup {NoHandle}] /\ active'[e] = Fresh(e)
          /\ \A other \in Employees : other # e => active'[other] = active[other]
      BY <1>2, <2>1 DEF TypeInv, LifeTypeOK
    <2>3. /\ repl'[e].pc = "none" /\ repl'[e].by = "none"
          /\ repl' \in [Employees -> Replacements]
          /\ \A other \in Employees : other # e => repl'[other] = repl[other]
      BY <1>1, <2>1 DEF Replacements, NoReplacement
    <2>4. ASSUME NEW other \in Employees, repl'[other].pc = "creating",
                 repl'[other].mode = "rebuild"
          PROVE  active'[other] \notin alive'
      BY <1>1, <1>2, <2>2, <2>3, <2>4 DEF ReplacementInv, Owned
    <2>5. NoProcessIsForgotten'
      <3>1. alive \subseteq Owned
        BY <1>4 DEF NoProcessIsForgotten, StartInFlight
      <3>2. ASSUME NEW h \in alive' PROVE h \in Owned'
        BY <1>1, <1>3, <2>1, <2>2, <3>1, <3>2 DEF Owned
      <3>. QED BY <3>2 DEF NoProcessIsForgotten
    <2>6. cleanup' \subseteq Handles /\ rows' \subseteq Employees
      BY <2>1 DEF TypeInv, LifeTypeOK
    <2>7. repl[e].by = "recover" =>
             /\ op' \in Operations /\ op'.kind = op.kind /\ op'.pc = "employees"
             /\ op'.targets = op.targets \cup {e}
      BY <2>1 DEF ReplacementInv, TypeInv, Operations, At
    <2>. QED BY <1>1, <1>2, <1>3, <2>1, <2>2, <2>3, <2>4, <2>5, <2>6, <2>7, ReplacementSettles
  <1>. QED BY <1>5, <1>6

LEMMA CreationFailsStep ==
    ASSUME Orderly, LifeInv, NEW e \in Employees, CreationFails(e)
    PROVE  LifeInv'
  <1>. USE DEF LifeInv
  <1>1. /\ repl[e].pc = "creating" /\ repl \in [Employees -> Replacements]
        /\ alive' = alive \ Replaced(e)
        /\ UNCHANGED <<rows, active, cleanup, status, accepting, callers, registry, transport>>
    BY DEF CreationFails, TypeInv, Orderly
  <1>2. /\ active' \in [Employees -> Handles \cup {NoHandle}] /\ cleanup' \subseteq Handles
        /\ alive' \subseteq Handles /\ rows' \subseteq Employees /\ active[e] \notin alive'
    BY <1>1 DEF Replaced, ReplacementInv, TypeInv, LifeTypeOK, Replacements
  <1>3. PICK next \in {NoReplacement, [NoReplacement EXCEPT !.pc = "creating", !.by = "retry",
                                                            !.mode = "rebuild"]} :
          repl' = [repl EXCEPT ![e] = next]
    BY DEF CreationFails
  <1>4. next \in Replacements /\ next.by # "recover" /\ next.pc # "rejecting"
    <2>1. CASE next = NoReplacement
      BY <2>1 DEF NoReplacement, Replacements
    <2>2. CASE next = [NoReplacement EXCEPT !.pc = "creating", !.by = "retry", !.mode = "rebuild"]
      BY <2>2 DEF NoReplacement, Replacements
    <2>. QED BY <1>3, <2>1, <2>2
  <1>5. /\ repl' \in [Employees -> Replacements] /\ repl'[e].by # "recover"
        /\ repl'[e].pc # "rejecting"
        /\ \A other \in Employees : other # e => repl'[other] = repl[other]
    BY <1>1, <1>3, <1>4
  <1>6. ASSUME NEW other \in Employees, repl'[other].pc = "creating",
               repl'[other].mode = "rebuild"
        PROVE  active'[other] \notin alive'
    BY <1>1, <1>2, <1>5, <1>6 DEF ReplacementInv
  <1>7. NoProcessIsForgotten'
    BY <1>1 DEF NoProcessIsForgotten, Owned, callers
  <1>8. op' = IF repl[e].by = "recover"
              THEN [op EXCEPT !.pc = "graceful", !.targets = Candidates] ELSE op
    BY DEF CreationFails
  <1>9. repl[e].by = "recover" =>
           /\ op' \in Operations /\ op'.kind = op.kind /\ op'.pc = "graceful"
           /\ op'.failed = op.failed
    BY <1>8, CandidateType DEF TypeInv, Operations
  <1>. QED BY <1>1, <1>2, <1>5, <1>6, <1>7, <1>8, <1>9, ReplacementSettles

LEMMA RejectionEndsStep ==
    ASSUME LifeInv, NEW e \in Employees, RejectionEnds(e)
    PROVE  LifeInv'
  <1>. USE DEF LifeInv
  <1>1. /\ repl[e].pc = "rejecting" /\ repl \in [Employees -> Replacements]
        /\ repl' = [repl EXCEPT ![e] = NoReplacement]
        /\ UNCHANGED <<rows, active, status, accepting, callers, registry, transport>>
        /\ \/ alive' = alive \ {repl[e].handle} /\ cleanup' = cleanup \ {repl[e].handle}
           \/ cleanup' = cleanup \cup {repl[e].handle} /\ UNCHANGED alive
    BY DEF RejectionEnds, TypeInv
  <1>2. repl[e].by # "recover" /\ UNCHANGED op
    BY <1>1 DEF ReplacementInv, RejectionEnds
  <1>3. /\ repl' \in [Employees -> Replacements] /\ repl'[e].by = "none" /\ repl'[e].pc = "none"
        /\ \A other \in Employees : other # e => repl'[other] = repl[other]
    BY <1>1 DEF NoReplacement, Replacements
  <1>4. /\ active' = active /\ active \in [Employees -> Handles \cup {NoHandle}]
        /\ alive' \subseteq alive /\ alive \subseteq Handles /\ rows' \subseteq Employees
        /\ alive' \ cleanup' \subseteq alive \ cleanup
    BY <1>1 DEF TypeInv, LifeTypeOK
  <1>5. cleanup' \subseteq Handles
    <2>1. repl[e].handle \in Handles
      BY <1>1 DEF ReplacementInv
    <2>. QED BY <1>1, <2>1 DEF TypeInv, LifeTypeOK
  <1>6. ASSUME NEW other \in Employees, repl'[other].pc = "creating",
               repl'[other].mode = "rebuild"
        PROVE  active'[other] \notin alive'
    BY <1>3, <1>4, <1>6 DEF ReplacementInv
  <1>7. NoProcessIsForgotten'
    BY <1>1 DEF NoProcessIsForgotten, Owned, callers
  <1>. QED BY <1>1, <1>2, <1>3, <1>4, <1>5, <1>6, <1>7, ReplacementSettles

LEMMA ProcessExitsStep ==
    ASSUME LifeInv, NEW h \in Handles, ProcessExits(h)
    PROVE  LifeInv'
  <1>. USE DEF LifeInv, ProcessExits
  <1>1. /\ alive' \subseteq alive
        /\ UNCHANGED <<rows, active, cleanup, company, repl, callers, registry, transport>>
    OBVIOUS
  <1>2. TypeInv'
    BY <1>1 DEF TypeInv, LifeTypeOK, company, callers, registry, transport
  <1>3. StartInv' /\ OperationInv'
    BY <1>1 DEF StartInv, OperationInv, Busy, At, company, callers
  <1>4. RestInv' /\ ReplacementInv'
    BY <1>1 DEF RestInv, RestHasNoProcesses, ReplacementInv, Busy, At, Pending, StartInFlight,
          company, callers
  <1>5. ShutdownInv' /\ NoProcessIsForgotten' /\ DispatchNeedsCompany'
    BY <1>1 DEF ShutdownInv, NoProcessIsForgotten, DispatchNeedsCompany, Owned, Busy, company,
          callers, transport
  <1>. QED BY <1>2, <1>3, <1>4, <1>5

-----------------------------------------------------------------------------
(* company.start.                                                           *)

LEMMA RequestStartStep ==
    ASSUME Orderly, LifeInv, NEW c \in Clients, RequestStart(c)
    PROVE  LifeInv'
  <1>. USE DEF LifeInv
  <1>. DEFINE created == {Fresh(e) : e \in Employees}
  <1>1. PICK s \in Starts :
          /\ starting' = [starting EXCEPT ![s] = created]
          /\ alive' = alive \cup created
    BY DEF RequestStart
  <1>2. /\ ~draining /\ status \in {"active", "stopped"} /\ ~Busy /\ ~StartInFlight
        /\ \A e \in Employees : active[e] = NoHandle /\ CanSpawn(e)
        /\ UNCHANGED <<rows, active, cleanup, company, repl, registry, transport, shutdown>>
    BY DEF RequestStart, Orderly
  <1>3. OneEach(created) /\ created \subseteq Handles /\ created # {}
    <2>1. [e \in Employees |-> Fresh(e)] \in [Employees -> Handles]
      BY <1>2, UnusedHandle
    <2>2. \A e \in Employees : Fresh(e) \in Handles /\ Fresh(e)[1] = e
      BY <1>2, UnusedHandle
    <2>3. created # {}
      BY LifecycleAssumption
    <2>. QED BY <2>1, <2>2, <2>3 DEF OneEach
  <1>4. /\ starting \in [Starts -> SUBSET Handles]
        /\ \A one \in Starts : starting[one] = {}
    BY <1>2 DEF TypeInv, LifeTypeOK, StartInFlight
  <1>5. /\ starting' \in [Starts -> SUBSET Handles] /\ starting'[s] = created
        /\ \A other \in Starts : other # s => starting'[other] = {}
    BY <1>1, <1>3, <1>4
  <1>6. TypeInv'
    <2>1. alive' \subseteq Handles
      BY <1>1, <1>3 DEF TypeInv, LifeTypeOK
    <2>2. UNCHANGED <<rows, active, cleanup, company, repl, registry, transport, shutdown>>
      BY <1>2
    <2>3. accepting' \in BOOLEAN /\ closing' \in BOOLEAN /\ draining' \in BOOLEAN
      BY <2>2 DEF TypeInv, LifeTypeOK, company, transport
    <2>4. LifeTypeOK'
      BY <2>1, <2>2, <2>3, <1>5 DEF TypeInv, LifeTypeOK, company, registry, transport
    <2>. QED BY <2>2, <2>3, <2>4 DEF TypeInv, company
  <1>7. StartInv'
    BY <1>2, <1>3, <1>5 DEF StartInv, Busy, company
  <1>8. OperationInv'
    BY <1>2 DEF OperationInv, Busy, At, company
  <1>9. RestInv'
    BY <1>2, <1>3, <1>5 DEF RestInv, RestHasNoProcesses, Pending, Busy, company, StartInFlight
  <1>10. Pending = {} /\ ~At("employees")
    BY <1>2 DEF RestInv, OperationInv, At
  <1>11. ReplacementInv'
    BY <1>2, <1>10 DEF ReplacementInv, At, company, Pending
  <1>12. ShutdownInv'
    BY <1>2 DEF ShutdownInv, Busy, company, transport
  <1>13. NoProcessIsForgotten'
    <2>1. alive \subseteq Owned
      BY <1>4 DEF NoProcessIsForgotten
    <2>. QED BY <1>1, <1>2, <1>5, <2>1 DEF NoProcessIsForgotten, Owned
  <1>14. DispatchNeedsCompany'
    BY <1>2 DEF DispatchNeedsCompany, Busy, company
  <1>. QED BY <1>6, <1>7, <1>8, <1>9, <1>11, <1>12, <1>13, <1>14

\* What holds while a start is in flight
LEMMA StartFacts ==
    ASSUME LifeInv, NEW s \in Starts, starting[s] # {}
    PROVE  /\ OneEach(starting[s]) /\ starting[s] \subseteq Handles
           /\ ~Busy /\ status \in {"active", "stopped"}
           /\ \A e \in Employees : active[e] = NoHandle
           /\ Pending = {} /\ ~At("employees") /\ ~accepting /\ shutdown # "closing"
           /\ alive \subseteq cleanup \cup starting[s]
           /\ \A other \in Starts : other # s => starting[other] = {}
  <1>. USE DEF LifeInv
  <1>1. /\ OneEach(starting[s]) /\ starting[s] \subseteq Handles
        /\ ~Busy /\ status \in {"active", "stopped"}
        /\ \A e \in Employees : active[e] = NoHandle
        /\ \A other \in Starts : other # s => starting[other] = {}
    BY DEF StartInv, TypeInv, LifeTypeOK
  <1>2. Pending = {} /\ ~At("employees") /\ shutdown # "closing"
    BY <1>1 DEF RestInv, OperationInv, At, ShutdownInv
  <1>3. ~accepting
    BY <1>1 DEF DispatchNeedsCompany
  <1>4. alive \subseteq cleanup \cup starting[s]
    <2>1. NoHandle \notin alive
      BY NoHandleIsNoHandle DEF TypeInv, LifeTypeOK
    <2>2. Owned \subseteq cleanup \cup {NoHandle}
      BY <1>1 DEF Owned
    <2>3. UNION {starting[one] : one \in Starts} = starting[s]
      BY <1>1
    <2>. QED BY <2>1, <2>2, <2>3 DEF NoProcessIsForgotten
  <1>. QED BY <1>1, <1>2, <1>3, <1>4

LEMMA StartSucceedsStep ==
    ASSUME LifeInv, NEW s \in Starts, StartSucceeds(s)
    PROVE  LifeInv'
  <1>. USE DEF LifeInv
  <1>1. /\ starting[s] # {} /\ rows' = Employees /\ status' = "running" /\ accepting' = TRUE
        /\ active' = [e \in Employees |-> CHOOSE h \in starting[s] : h[1] = e]
        /\ starting' = [starting EXCEPT ![s] = {}]
        /\ UNCHANGED <<cleanup, alive, op, repl, registry, transport, shutdown>>
    BY DEF StartSucceeds
  <1>2. PICK h \in [Employees -> Handles] :
          starting[s] = {h[e] : e \in Employees} /\ \A e \in Employees : h[e][1] = e
    BY <1>1, StartFacts DEF OneEach
  <1>3. ASSUME NEW e \in Employees PROVE active'[e] = h[e]
    <2>1. h[e] \in starting[s] /\ h[e][1] = e
      BY <1>2
    <2>2. \A other \in starting[s] : other[1] = e => other = h[e]
      BY <1>2
    <2>. QED BY <1>1, <2>1, <2>2
  <1>4. /\ active' \in [Employees -> Handles \cup {NoHandle}]
        /\ \A e \in Employees : active'[e] # NoHandle
    BY <1>1, <1>2, <1>3, NoHandleIsNoHandle
  <1>5. /\ starting' \in [Starts -> SUBSET Handles]
        /\ \A one \in Starts : starting'[one] = {}
    BY <1>1, StartFacts DEF TypeInv, LifeTypeOK
  <1>6. TypeInv'
    <2>1. UNCHANGED <<cleanup, alive, op, repl, registry, transport, shutdown>>
      BY <1>1
    <2>2. rows' \subseteq Employees /\ status' \in Statuses /\ accepting' \in BOOLEAN
      BY <1>1 DEF Statuses
    <2>. QED BY <1>4, <1>5, <2>1, <2>2 DEF TypeInv, LifeTypeOK, registry, transport
  <1>7. StartInv'
    BY <1>5 DEF StartInv
  <1>8. OperationInv'
    BY <1>1, StartFacts DEF OperationInv, Busy, At
  <1>9. RestInv'
    BY <1>1 DEF RestInv, RestHasNoProcesses
  <1>10. ReplacementInv'
    BY <1>1, StartFacts DEF ReplacementInv, At, Pending
  <1>11. ShutdownInv'
    BY <1>1, StartFacts DEF ShutdownInv, transport
  <1>12. NoProcessIsForgotten'
    <2>1. starting[s] \subseteq {active'[e] : e \in Employees}
      BY <1>2, <1>3
    <2>. QED BY <1>1, <2>1, StartFacts DEF NoProcessIsForgotten, Owned
  <1>13. DispatchNeedsCompany'
    BY <1>1, <1>4, StartFacts DEF DispatchNeedsCompany, Busy
  <1>. QED BY <1>6, <1>7, <1>8, <1>9, <1>10, <1>11, <1>12, <1>13

LEMMA StartFailsStep ==
    ASSUME LifeInv, NEW s \in Starts, StartFails(s)
    PROVE  LifeInv'
  <1>. USE DEF LifeInv
  <1>1. /\ starting[s] # {} /\ CancelPending /\ starting' = [starting EXCEPT ![s] = {}]
        /\ UNCHANGED <<rows, company, registry, transport, shutdown>>
    BY DEF StartFails
  <1>2. PICK kept \in SUBSET (Candidates \cup starting[s]) :
          /\ alive' = alive \ ((Candidates \cup starting[s]) \ kept)
          /\ cleanup' = (cleanup \cup starting[s]) \cap kept
          /\ active' = [e \in Employees |-> IF active[e] \in kept THEN active[e] ELSE NoHandle]
    BY DEF StartFails
  <1>3. /\ active' = active /\ active \in [Employees -> Handles \cup {NoHandle}]
        /\ cleanup' \subseteq Handles /\ alive' \subseteq alive /\ alive \subseteq Handles
    BY <1>1, <1>2, StartFacts DEF TypeInv, LifeTypeOK
  <1>4. alive' \subseteq cleanup'
    <2>1. cleanup \subseteq Candidates
      BY NoHandleIsNoHandle DEF Candidates, Owned, TypeInv, LifeTypeOK
    <2>. QED BY <1>1, <1>2, <2>1, StartFacts
  <1>5. /\ starting' \in [Starts -> SUBSET Handles]
        /\ \A one \in Starts : starting'[one] = {}
    BY <1>1, StartFacts DEF TypeInv, LifeTypeOK
  <1>6. /\ repl' \in [Employees -> Replacements] /\ Pending' = {}
        /\ \A e \in Employees : /\ repl'[e].by = repl[e].by /\ repl'[e].pc = repl[e].pc
                                /\ repl'[e].handle = repl[e].handle
    BY <1>1, CancelKeeps, StartFacts
  <1>7. UNCHANGED <<rows, company, registry, transport, shutdown>>
    BY <1>1
  <1>8. TypeInv'
    <2>1. accepting' \in BOOLEAN /\ closing' \in BOOLEAN /\ draining' \in BOOLEAN
      BY <1>7 DEF TypeInv, LifeTypeOK, company, transport
    <2>2. repl' \in [Employees -> Replacements]
      BY <1>6
    <2>3. LifeTypeOK'
      BY <1>3, <1>5, <1>7, <2>1, <2>2
         DEF TypeInv, LifeTypeOK, Replacements, company, registry, transport
    <2>. QED BY <1>7, <2>1, <2>2, <2>3 DEF TypeInv, company
  <1>9. StartInv'
    BY <1>5 DEF StartInv
  <1>10. OperationInv'
    BY <1>3, <1>7 DEF OperationInv, Busy, At, company
  <1>11. RestInv'
    BY <1>1, <1>4, <1>6, <1>7, StartFacts DEF RestInv, RestHasNoProcesses, company
  <1>12. ReplacementInv'
    BY <1>1, <1>6, <1>7, StartFacts DEF ReplacementInv, At, Pending
  <1>13. ShutdownInv'
    BY <1>7 DEF ShutdownInv, Busy, company, transport
  <1>14. NoProcessIsForgotten'
    BY <1>4 DEF NoProcessIsForgotten, Owned
  <1>15. DispatchNeedsCompany'
    BY <1>1, <1>7, StartFacts DEF DispatchNeedsCompany, company
  <1>. QED BY <1>8, <1>9, <1>10, <1>11, <1>12, <1>13, <1>14, <1>15

-----------------------------------------------------------------------------
(* The end of a Core, and the beginning.                                    *)

LEMMA ProcessEndsStep ==
    ASSUME LifeInv, NEW how \in {"none", "exit 0", "exit 1", "exit 130"}, ProcessEnds(how)
    PROVE  LifeInv'
  <1>. USE DEF LifeInv
  <1>1. /\ accepting' = FALSE /\ op' = NoOperation
        /\ active' = [e \in Employees |-> NoHandle] /\ cleanup' = {} /\ alive' = {}
        /\ repl' = [e \in Employees |-> NoReplacement] /\ starting' = [s \in Starts |-> {}]
        /\ connected' = {} /\ leases' = {} /\ trigger' = "none" /\ shutdown' = how
        /\ UNCHANGED <<status, rows>>
    BY DEF ProcessEnds
  <1>2. closing' \in BOOLEAN /\ draining' \in BOOLEAN
    BY DEF ProcessEnds
  <1>3. NoOperation \in Operations /\ NoReplacement \in Replacements
    BY DEF NoOperation, NoReplacement, Operations, Replacements
  <1>4. TypeInv'
    <2>1. repl' \in [Employees -> Replacements] /\ op' \in Operations
      BY <1>1, <1>3
    <2>2. UNCHANGED <<status, rows>>
      BY <1>1
    <2>3. starting' \in [Starts -> SUBSET Handles]
      BY <1>1
    <2>4. active' \in [Employees -> Handles \cup {NoHandle}]
      BY <1>1
    <2>5. LifeTypeOK'
      BY <1>1, <2>1, <2>2, <2>3, <2>4 DEF TypeInv, LifeTypeOK, Operations, Replacements
    <2>. QED BY <1>2, <2>1, <2>5 DEF TypeInv
  <1>5. StartInv'
    BY <1>1 DEF StartInv
  <1>6. OperationInv'
    BY <1>1 DEF OperationInv, Busy, At, NoOperation
  <1>7. RestInv' /\ ReplacementInv'
    BY <1>1 DEF RestInv, RestHasNoProcesses, Pending, ReplacementInv, NoReplacement
  <1>8. ShutdownInv' /\ NoProcessIsForgotten' /\ DispatchNeedsCompany'
    BY <1>1 DEF ShutdownInv, NoProcessIsForgotten, DispatchNeedsCompany
  <1>. QED BY <1>4, <1>5, <1>6, <1>7, <1>8

LEMMA InitHolds == Init => LifeInv
  <1>. SUFFICES ASSUME Init PROVE LifeInv
    OBVIOUS
  <1>. USE DEF Init
  <1>1. NoOperation \in Operations /\ NoReplacement \in Replacements
    BY DEF NoOperation, NoReplacement, Operations, Replacements
  <1>2. TypeInv
    <2>1. repl \in [Employees -> Replacements] /\ op \in Operations
      BY <1>1
    <2>2. starting \in [Starts -> SUBSET Handles]
      OBVIOUS
    <2>3. active \in [Employees -> Handles \cup {NoHandle}]
      OBVIOUS
    <2>4. LifeTypeOK
      BY <2>1, <2>2, <2>3 DEF LifeTypeOK, Operations, Replacements, Statuses
    <2>. QED BY <2>1, <2>4 DEF TypeInv
  <1>3. StartInv
    BY DEF StartInv
  <1>4. OperationInv
    BY DEF OperationInv, Busy, At, NoOperation
  <1>5. RestInv /\ ReplacementInv
    BY DEF RestInv, RestHasNoProcesses, Pending, ReplacementInv, NoReplacement
  <1>6. ShutdownInv /\ NoProcessIsForgotten /\ DispatchNeedsCompany
    BY DEF ShutdownInv, NoProcessIsForgotten, DispatchNeedsCompany
  <1>. QED BY <1>2, <1>3, <1>4, <1>5, <1>6 DEF LifeInv

LEMMA NextHolds ==
    ASSUME Orderly, LifeInv, [Next]_vars
    PROVE  LifeInv'
  <1>1. CASE UNCHANGED vars
    BY <1>1, OuterStep DEF vars, LifeInv, TypeInv, LifeTypeOK, ShutdownInv, Busy, callers, registry,
          transport, company
  <1>2. CASE Next
    <2>1. CASE OperationStep
      BY <2>1, TransitionSteps, SuspendCommitStep, CleanupRoundStep, StopsSettleStep,
            RecoverySteps, ReplacementStarts DEF OperationStep
    <2>2. CASE LeaseStep \/ CloseTransport \/ CoreStarts \/ RecoverRefused \/ Signal
      BY <2>2, LeaseSteps, RequestSteps, RecoverySteps DEF LeaseStep
    <2>3. ASSUME NEW e \in Employees, ReplacementBegins(e) \/ Replacement(e) PROVE LifeInv'
      BY <2>3, ReplacementStarts, CreatedStep, CreationFailsStep, RejectionEndsStep
         DEF Replacement
    <2>4. ASSUME NEW s \in Starts, StartEnds(s) PROVE LifeInv'
      BY <2>4, StartSucceedsStep, StartFailsStep DEF StartEnds
    <2>5. ASSUME NEW c \in Clients, ClientStep(c) PROVE LifeInv'
      BY <2>5, LeaseSteps, RequestSteps, RequestStartStep DEF ClientStep
    <2>6. ASSUME NEW expired \in SUBSET leases, Sweep(expired) PROVE LifeInv'
      BY <2>6, LeaseSteps
    <2>7. ASSUME NEW h \in Handles, ProcessExits(h) PROVE LifeInv'
      BY <2>7, ProcessExitsStep
    <2>8. CASE CoreExits \/ Crash \/ SecondSignal \/ ShutdownTimeout \/ ShutdownStep
      BY <2>8, ProcessEndsStep DEF CoreExits, Crash, SecondSignal, ShutdownTimeout, ShutdownStep,
            ShutdownDone, ShutdownFails
    <2>. QED BY <1>2, <2>1, <2>2, <2>3, <2>4, <2>5, <2>6, <2>7, <2>8 DEF Next, CoreRuns
  <1>. QED BY <1>1, <1>2

\* The inductive invariant holds.
THEOREM LifeInvariant ==
    ASSUME Orderly
    PROVE  Spec => []LifeInv
  <1>1. LifeInv /\ [Next]_vars => LifeInv'
    BY NextHolds
  <1>. QED BY <1>1, InitHolds, PTL DEF Spec

-----------------------------------------------------------------------------
(* The properties.                                                          *)

\* Every variable has its type.
THEOREM LifeTypesHold ==
    ASSUME Orderly
    PROVE  Spec => []LifeTypeOK
  <1>1. LifeInv => LifeTypeOK
    BY DEF LifeInv, TypeInv
  <1>. QED BY <1>1, LifeInvariant, PTL

\* No process is forgotten while it runs: a pause or stop always knows whom to end.
THEOREM OwnershipHolds ==
    ASSUME Orderly
    PROVE  Spec => []NoProcessIsForgotten
  <1>1. LifeInv => NoProcessIsForgotten
    BY DEF LifeInv
  <1>. QED BY <1>1, LifeInvariant, PTL

\* Actions are accepted by a running company only, and all its employees have sessions.
THEOREM DispatchIsGuarded ==
    ASSUME Orderly
    PROVE  Spec => []DispatchNeedsCompany
  <1>1. LifeInv => DispatchNeedsCompany
    BY DEF LifeInv
  <1>. QED BY <1>1, LifeInvariant, PTL

\* A paused or stopped company runs nothing but what a failed start could not stop.
THEOREM RestIsQuiet ==
    ASSUME Orderly
    PROVE  Spec => []RestHasNoProcesses
  <1>1. LifeInv => RestHasNoProcesses
    BY DEF LifeInv, RestInv
  <1>. QED BY <1>1, LifeInvariant, PTL

\* What may end an operation
LEMMA OperationEnds ==
    ASSUME LifeInv, [Next]_vars, Busy, ~Busy'
    PROVE  \/ CleanupRound \/ StopsSettle \/ Recovered
           \/ \E how \in {"none", "exit 0", "exit 1", "exit 130"} : ProcessEnds(how)
  <1>. USE DEF Busy
  <1>1. op \in Operations
    BY DEF LifeInv, TypeInv
  <1>2. CASE UNCHANGED vars
    BY <1>2 DEF vars, company
  <1>3. ASSUME SuspendTransition \/ SuspendCommit \/ RecoverTransition PROVE FALSE
    BY <1>1, <1>3 DEF SuspendTransition, SuspendCommit, RecoverTransition, Operations
  <1>4. ASSUME NEW e \in Employees, RecoverEmployee(e) \/ ReplacementBegins(e) PROVE FALSE
    BY <1>4 DEF RecoverEmployee, ReplacementBegins, company
  <1>5. ASSUME NEW e \in Employees, Replacement(e) PROVE FALSE
    BY <1>1, <1>5 DEF Replacement, Created, CreationFails, RejectionEnds, Operations
  <1>6. ASSUME NEW user \in BOOLEAN, Pause(user) PROVE FALSE
    BY <1>1, <1>6 DEF Pause, Begin, NoOperation, Operations
  <1>7. ASSUME LastClientExpired PROVE FALSE
    BY <1>6, <1>7 DEF LastClientExpired, company
  <1>8. ASSUME Signal PROVE FALSE
    BY <1>6, <1>8 DEF Signal, company
  <1>9. ASSUME TriggerSettles \/ CloseTransport \/ CoreStarts PROVE FALSE
    BY <1>9 DEF TriggerSettles, CloseTransport, CoreStarts, company
  <1>10. ASSUME NEW c \in Clients, Heartbeat(c) \/ Disconnect(c) \/ RequestStart(c) PROVE FALSE
    BY <1>10 DEF Heartbeat, Disconnect, RequestStart, company
  <1>11. ASSUME NEW c \in Clients, RequestPause(c) PROVE FALSE
    BY <1>6, <1>11 DEF RequestPause, company
  <1>12. ASSUME NEW c \in Clients, RequestStop(c) PROVE FALSE
    BY <1>1, <1>12 DEF RequestStop, Begin, NoOperation, Operations, company
  <1>13. ASSUME NEW c \in Clients, RequestResume(c) PROVE FALSE
    BY <1>13 DEF RequestResume
  <1>14. ASSUME NEW s \in Starts, StartEnds(s) PROVE FALSE
    BY <1>14 DEF StartEnds, StartSucceeds, StartFails, company
  <1>15. ASSUME NEW h \in Handles, ProcessExits(h) PROVE FALSE
    BY <1>15 DEF ProcessExits, company
  <1>16. ASSUME NEW expired \in SUBSET leases, Sweep(expired) PROVE FALSE
    BY <1>16 DEF Sweep, company
  <1>17. ASSUME RecoverRefused PROVE FALSE
    BY <1>17 DEF RecoverRefused
  <1>18. CASE CoreExits \/ Crash \/ SecondSignal \/ ShutdownTimeout \/ ShutdownStep
    BY <1>18 DEF CoreExits, Crash, SecondSignal, ShutdownTimeout, ShutdownStep, ShutdownDone,
          ShutdownFails
  <1>. QED
    BY <1>2, <1>3, <1>4, <1>5, <1>7, <1>8, <1>9, <1>10, <1>11, <1>12, <1>13, <1>14, <1>15, <1>16,
       <1>17, <1>18 DEF Next, CoreRuns, OperationStep, LeaseStep, ClientStep

\* A pause or stop that is done has found no process.
LEMMA SuccessIsEmpty ==
    ASSUME LifeInv, [Next]_vars, op.kind \in {"pause", "stop"}, op'.kind = "none",
           status' \in {"paused", "stopped"}
    PROVE  alive' = {}
  <1>1. op \in Operations /\ Busy /\ ~Busy'
    BY DEF LifeInv, TypeInv, Busy
  <1>2. CASE CleanupRound
    <2>1. Candidates = {} /\ UNCHANGED alive
      BY <1>1, <1>2 DEF CleanupRound, sessions, Operations
    <2>2. ~StartInFlight /\ NoHandle \notin alive
      BY <1>1, BusyFacts, NoHandleIsNoHandle DEF LifeInv, TypeInv, LifeTypeOK
    <2>3. UNION {starting[s] : s \in Starts} = {}
      BY <2>2 DEF StartInFlight
    <2>4. alive \subseteq Owned
      BY <2>3 DEF LifeInv, NoProcessIsForgotten
    <2>. QED BY <2>1, <2>2, <2>4 DEF Candidates
  <1>3. CASE \E how \in {"none", "exit 0", "exit 1", "exit 130"} : ProcessEnds(how)
    BY <1>3 DEF ProcessEnds
  <1>4. CASE StopsSettle
    <2>1. op'.kind = op.kind \/ Block
      BY <1>1, <1>4 DEF StopsSettle, Operations
    <2>. QED BY <2>1, BlockTypes DEF LifeInv
  <1>5. CASE Recovered
    BY <1>5 DEF Recovered
  <1>. QED BY <1>1, <1>2, <1>3, <1>4, <1>5, OperationEnds

\* A pause or stop reports success only when no process runs any more.
THEOREM SuspensionIsComplete ==
    ASSUME Orderly
    PROVE  Spec => SuspensionEndsProcesses
  <1>1. LifeInv /\ [Next]_vars =>
           [op.kind \in {"pause", "stop"} /\ op'.kind = "none" /\ status' \in {"paused", "stopped"}
              => alive' = {}]_vars
    BY SuccessIsEmpty
  <1>. QED BY <1>1, LifeInvariant, PTL DEF Spec, SuspensionEndsProcesses

\* What a Core that is told to end has reached when it reports success
LEMMA ExitIsClean ==
    ASSUME LifeInv, [Next]_vars, shutdown' = "exit 0", shutdown # "exit 0"
    PROVE  status = "paused" /\ alive = {} /\ Pending = {} /\ ~Busy /\ leases = {}
  <1>1. ShutdownDone
    <2>1. \/ shutdown' = shutdown
          \/ shutdown' \in {"pausing", "failed", "closing", "none", "exit 1", "exit 130"}
          \/ ShutdownDone
      BY DEF Next, CoreRuns, OperationStep, LeaseStep, ClientStep, ShutdownStep, Replacement,
            StartEnds, vars, callers, transport,
            SuspendTransition, SuspendCommit, CleanupRound, StopsSettle, RecoverTransition,
            Recovered, RecoverEmployee, Block, Succeed, LastClientExpired, TriggerSettles,
            CloseTransport, CoreStarts, ReplacementBegins, Created, CreationFails, RejectionEnds,
            StartSucceeds, StartFails, Heartbeat, Disconnect, Sweep, RequestStart, RequestPause,
            RequestStop, RequestResume, ProcessExits, RecoverRefused, CoreExits, Crash, Signal,
            SecondSignal, ShutdownTimeout, ShutdownFails, ProcessEnds
    <2>. QED BY <2>1
  <1>2. status = "paused" /\ ~Busy /\ leases = {}
    BY <1>1 DEF ShutdownDone, LifeInv, ShutdownInv
  <1>3. ~StartInFlight
    BY <1>2, NoStart DEF LifeInv
  <1>4. alive = {} /\ Pending = {}
    BY <1>2, <1>3 DEF LifeInv, RestInv, RestHasNoProcesses
  <1>. QED BY <1>2, <1>4

\* A Core that was told to end reports success only with a company at rest.
THEOREM CleanExitHolds ==
    ASSUME Orderly
    PROVE  Spec => CleanExit
  <1>1. LifeInv /\ [Next]_vars =>
           [shutdown' = "exit 0" /\ shutdown # "exit 0" =>
              status = "paused" /\ alive = {} /\ Pending = {} /\ ~Busy /\ leases = {}]_vars
    BY ExitIsClean
  <1>. QED BY <1>1, LifeInvariant, PTL DEF Spec, CleanExit

-----------------------------------------------------------------------------
(* The dispatch gate.                                                       *)

\* What a suspension or a recovery finds in the row it is about to write
RowInv ==
    /\ op.kind = "recover" /\ At("transition") => status = "paused"
    /\ At("interrupt") => status = IF op.kind = "pause" THEN "pausing" ELSE "stopping"

\* What changes the row of the company, or what its operation is at
LEMMA RowSteps ==
    ASSUME Orderly, LifeInv, [Next]_vars
    PROVE  \/ UNCHANGED <<accepting, status>> /\ op'.kind = op.kind /\ op'.pc \in {op.pc, "graceful"}
           \/ \E kind \in {"pause", "stop", "recover"}, user \in BOOLEAN :
                 ~Busy /\ (kind = "recover" => status = "paused") /\ Begin(kind, user)
           \/ SuspendTransition \/ SuspendCommit \/ CleanupRound \/ StopsSettle
           \/ RecoverTransition \/ Recovered \/ (RecoverRefused /\ UNCHANGED op)
           \/ \E s \in Starts : StartSucceeds(s)
           \/ accepting' = FALSE /\ status' = status /\ op' = NoOperation
  <1>. DEFINE Begins == \E kind \in {"pause", "stop", "recover"}, user \in BOOLEAN :
                 ~Busy /\ (kind = "recover" => status = "paused") /\ Begin(kind, user)
              Same == UNCHANGED <<accepting, status>> /\ op'.kind = op.kind
                        /\ op'.pc \in {op.pc, "graceful"}
              Ends == accepting' = FALSE /\ status' = status /\ op' = NoOperation
  <1>1. op \in Operations
    BY DEF LifeInv, TypeInv
  <1>2. CASE UNCHANGED vars
    BY <1>2 DEF vars, company
  <1>3. ASSUME NEW e \in Employees, RecoverEmployee(e) \/ ReplacementBegins(e) PROVE Same
    BY <1>3 DEF RecoverEmployee, ReplacementBegins, company
  <1>4. ASSUME NEW e \in Employees, Replacement(e) PROVE Same
    BY <1>1, <1>4 DEF Replacement, Created, CreationFails, RejectionEnds, Operations
  <1>5. ASSUME NEW user \in BOOLEAN, Pause(user) PROVE Same \/ Begins
    BY <1>1, <1>5 DEF Pause, Operations
  <1>6. CASE LastClientExpired
    BY <1>5, <1>6 DEF LastClientExpired, company
  <1>7. CASE Signal
    BY <1>5, <1>7 DEF Signal, company
  <1>8. CASE TriggerSettles \/ CloseTransport \/ CoreStarts
    BY <1>8 DEF TriggerSettles, CloseTransport, CoreStarts, company
  <1>9. ASSUME NEW c \in Clients, Heartbeat(c) \/ Disconnect(c) \/ RequestStart(c) PROVE Same
    BY <1>9 DEF Heartbeat, Disconnect, RequestStart, company
  <1>10. ASSUME NEW c \in Clients, RequestPause(c) PROVE Same \/ Begins
    BY <1>5, <1>10 DEF RequestPause, company
  <1>11. ASSUME NEW c \in Clients, RequestStop(c) PROVE Same \/ Begins
    BY <1>1, <1>11 DEF RequestStop, Operations, company
  <1>12. ASSUME NEW c \in Clients, RequestResume(c) PROVE Begins
    BY <1>12 DEF RequestResume
  <1>13. ASSUME NEW s \in Starts, StartFails(s) PROVE Same
    BY <1>13 DEF StartFails, company
  <1>14. ASSUME NEW h \in Handles, ProcessExits(h) PROVE Same
    BY <1>14 DEF ProcessExits, company
  <1>15. ASSUME NEW expired \in SUBSET leases, Sweep(expired) PROVE Same
    BY <1>15 DEF Sweep, company
  <1>16. CASE RecoverRefused
    BY <1>16 DEF RecoverRefused
  <1>17. CASE CoreExits \/ Crash \/ SecondSignal \/ ShutdownTimeout \/ ShutdownStep
    BY <1>17 DEF CoreExits, Crash, SecondSignal, ShutdownTimeout, ShutdownStep, ShutdownDone,
          ShutdownFails, ProcessEnds
  <1>. QED
    BY <1>2, <1>3, <1>4, <1>6, <1>7, <1>8, <1>9, <1>10, <1>11, <1>12, <1>13, <1>14, <1>15, <1>16,
       <1>17 DEF Next, CoreRuns, OperationStep, LeaseStep, ClientStep, StartEnds

\* While an operation is in flight, and in a company that does not run, nothing is accepted.
LEMMA Closed ==
    ASSUME LifeInv, Busy \/ status # "running"
    PROVE  accepting = FALSE
  BY DEF LifeInv, TypeInv, LifeTypeOK, DispatchNeedsCompany

LEMMA RowKept ==
    ASSUME Orderly, LifeInv, RowInv, [Next]_vars
    PROVE  RowInv' /\ [Gate!Next]_<<accepting, status>>
  <1>. USE DEF At, Busy
  <1>1. op \in Operations /\ OperationInv /\ StartInv /\ status \in Statuses
    BY DEF LifeInv, TypeInv, LifeTypeOK
  <1>2. CASE UNCHANGED <<accepting, status>> /\ op'.kind = op.kind /\ op'.pc \in {op.pc, "graceful"}
    BY <1>2 DEF RowInv
  <1>3. ASSUME NEW kind \in {"pause", "stop", "recover"}, NEW user \in BOOLEAN,
               kind = "recover" => status = "paused", Begin(kind, user)
        PROVE  RowInv' /\ [Gate!Next]_<<accepting, status>>
    <2>1. op'.kind = kind /\ op'.pc = "transition" /\ accepting' = FALSE /\ status' = status
      BY <1>3 DEF Begin, NoOperation
    <2>. QED BY <1>3, <2>1 DEF RowInv, Gate!Next, Gate!Close
  <1>4. CASE SuspendTransition
    <2>1. accepting = FALSE
      BY <1>1, <1>4, Closed DEF SuspendTransition
    <2>2. op'.kind = op.kind /\ op'.pc = "interrupt"
      BY <1>1, <1>4 DEF SuspendTransition, Operations
    <2>. QED BY <1>4, <2>1, <2>2 DEF SuspendTransition, RowInv, Gate!Next, Gate!Suspend
  <1>5. CASE SuspendCommit
    <2>1. accepting = FALSE /\ op.kind \in {"pause", "stop"}
      BY <1>1, <1>5, Closed DEF SuspendCommit, OperationInv
    <2>2. op'.pc = "cleanup"
      BY <1>1, <1>5 DEF SuspendCommit, Operations
    <2>. QED BY <1>5, <2>1, <2>2 DEF SuspendCommit, RowInv, Gate!Next, Gate!Rest
  <1>6. CASE CleanupRound \/ StopsSettle
    <2>1. accepting = FALSE /\ UNCHANGED accepting /\ op.pc \notin {"transition", "interrupt"}
      BY <1>1, <1>6, Closed DEF CleanupRound, StopsSettle, OperationInv, Block, Succeed
    <2>2. UNCHANGED status \/ status' = "blocked"
      BY <1>6 DEF CleanupRound, StopsSettle, Block, Succeed
    <2>3. op'.pc \in {"none", "cleanup", "graceful", "force"}
      <3>1. CASE CleanupRound
        <4>1. \/ op' = NoOperation
              \/ op' = [op EXCEPT !.pc = "graceful", !.targets = Candidates, !.pending = PendingOwners]
          BY <3>1 DEF CleanupRound, Block, Succeed
        <4>2. CASE op' = NoOperation
          BY <4>2 DEF NoOperation
        <4>3. CASE op' # NoOperation
          <5> DEFINE targets == Candidates
                     waiting == PendingOwners
          <5>1. op' = [op EXCEPT !.pc = "graceful", !.targets = targets, !.pending = waiting]
            BY <4>1, <4>3
          <5> HIDE DEF targets, waiting
          <5>. QED BY <1>1, <5>1 DEF Operations
        <4>. QED BY <4>2, <4>3
      <3>2. CASE StopsSettle
        <4>1. \/ op' = [op EXCEPT !.pc = "cleanup"] \/ op' = NoOperation
              \/ \E targets, waiting :
                    op' = [op EXCEPT !.pc = "force", !.targets = targets, !.pending = waiting]
          BY <3>2 DEF StopsSettle, Block
        <4>2. CASE op' = NoOperation
          BY <4>2 DEF NoOperation
        <4>. QED BY <1>1, <4>1, <4>2 DEF Operations
      <3>. QED BY <1>6, <3>1, <3>2
    <2>. QED BY <2>1, <2>2, <2>3 DEF RowInv, Gate!Next, Gate!Fail
  <1>7. CASE RecoverTransition
    <2>1. accepting = FALSE /\ status = "paused"
      BY <1>1, <1>7, Closed DEF RecoverTransition, RowInv
    <2>2. op'.pc = "employees"
      BY <1>1, <1>7 DEF RecoverTransition, Operations
    <2>. QED BY <1>7, <2>1, <2>2 DEF RecoverTransition, RowInv, Gate!Next, Gate!Restart
  <1>8. CASE Recovered
    <2>1. accepting = FALSE /\ status = "starting"
      BY <1>1, <1>8, Closed DEF Recovered, OperationInv
    <2>. QED BY <1>8, <2>1 DEF Recovered, NoOperation, RowInv, Gate!Next, Gate!Open
  <1>9. CASE RecoverRefused /\ UNCHANGED op
    <2>1. accepting = FALSE
      BY <1>9, Closed DEF RecoverRefused
    <2>. QED BY <1>1, <1>9, <2>1 DEF RecoverRefused, OperationInv, RowInv, Gate!Next, Gate!Fail
  <1>10. ASSUME NEW s \in Starts, StartSucceeds(s)
         PROVE  RowInv' /\ [Gate!Next]_<<accepting, status>>
    <2>1. status \in {"active", "stopped"} /\ ~Busy
      BY <1>1, <1>10 DEF StartSucceeds, StartInv
    <2>2. accepting = FALSE /\ op.pc = "none"
      BY <1>1, <2>1, Closed DEF OperationInv
    <2>. QED BY <1>10, <2>1, <2>2 DEF StartSucceeds, RowInv, Gate!Next, Gate!Open
  <1>11. CASE accepting' = FALSE /\ status' = status /\ op' = NoOperation
    BY <1>11 DEF NoOperation, RowInv, Gate!Next, Gate!Close
  <1>. QED BY <1>2, <1>3, <1>4, <1>5, <1>6, <1>7, <1>8, <1>9, <1>10, <1>11, RowSteps

\* The lifecycle opens and closes the dispatch as the orchestrator expects it: whatever
\* fails, an end of the dispatch is followed by a rest of the company before it is opened.
THEOREM LifecycleKeepsGate ==
    ASSUME Orderly
    PROVE  Spec => GateSpec
  <1>1. Init => RowInv /\ Gate!Init
    BY DEF Init, RowInv, At, NoOperation, Gate!Init
  <1>2. LifeInv /\ RowInv /\ [Next]_vars => RowInv' /\ [Gate!Next]_<<accepting, status>>
    BY RowKept
  <1>. QED BY <1>1, <1>2, LifeInvariant, PTL DEF Spec, GateSpec, Gate!Spec
=============================================================================
