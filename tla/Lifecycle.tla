------------------------------ MODULE Lifecycle ------------------------------
(***************************************************************************)
(* The life of a company: start, pause, stop and recovery                  *)
(* (CheckpointService, CompanyOrchestrator.start), the employee processes  *)
(* SessionManager owns while they are created, replaced and stopped, the   *)
(* leases of the clients (LeaseRegistry), the transport of the Core        *)
(* (CoreServer), whose last client takes the company down with it, and the *)
(* end of the Core by a signal (createShutdownCoordinator).                *)
(*                                                                         *)
(* An action runs from one await to the next.  Clients, agents' processes  *)
(* and timers act in between.  Writing a row is one transaction and is     *)
(* assumed to succeed.                                                     *)
(***************************************************************************)
EXTENDS Naturals, FiniteSets

CONSTANTS
    Employees,  \* ids of the employees
    Clients,    \* ids of the clients
    MaxProcs,   \* bound of the model: processes of one employee at a time
    MaxStarts,  \* bound of the model: calls of start at a time
    Overlap,    \* does anything of the lifecycle happen while a start is in flight?
    Faults      \* what goes wrong, see FaultKinds

\* spawn: a process does not come up; stop: it does not stop; deadline: the time of a
\* suspension is over; retry: sendTask replaces the session of a failed turn;
\* resumeStop: resume fails because the old process does not stop; exit: a process
\* ends by itself; checkpoint: the stored checkpoint is invalid; crash: the Core dies;
\* signal: it is asked to end by SIGINT or SIGTERM.
FaultKinds ==
    {"spawn", "stop", "deadline", "retry", "resumeStop", "exit", "checkpoint", "crash", "signal"}

ASSUME LifecycleAssumption ==
    /\ IsFiniteSet(Employees) /\ Employees # {}
    /\ MaxProcs \in Nat \ {0} /\ MaxStarts \in Nat \ {0}
    /\ Overlap \in BOOLEAN /\ Faults \subseteq FaultKinds

Handles == Employees \X (1..MaxProcs)   \* SessionHandle, and the process behind it
NoHandle == <<"none", 0>>
Starts == 1..MaxStarts

VARIABLES
    status,          \* status of the company's row
    rows,            \* employees with a row in agent_sessions
    accepting,       \* #acceptingActions
    active,          \* #sessions
    cleanup,         \* #cleanupHandles
    repl,            \* #pendingReplacements, and what resumeOne or rebuildOne is at
    alive,           \* processes that run
    starting,        \* handles created by the calls of startAll in flight
    op,              \* #operation
    connected,       \* #connections, by client
    leases,          \* rows of client_leases
    hadLease, pauseTriggered, trigger, chained,   \* LeaseRegistry
    closing,         \* a setImmediate of pause or stop will close the transport
    draining,        \* #draining
    shutdown         \* the shutdown coordinator of the Core, and how the process ended

sessions == <<rows, active, cleanup, alive>>
company == <<status, accepting, op>>
registry == <<hadLease, pauseTriggered, trigger, chained>>
transport == <<connected, leases, closing, draining>>
callers == <<starting, shutdown>>
vars == <<sessions, company, repl, callers, registry, transport>>

NoOperation == [kind |-> "none", pc |-> "none", user |-> FALSE, failed |-> FALSE,
                targets |-> {}, pending |-> FALSE]
NoReplacement == [pc |-> "none", by |-> "none", mode |-> "resume", handle |-> NoHandle,
                  aborted |-> FALSE, cancelled |-> FALSE]

Busy == op.kind # "none"
Ended == shutdown \in {"exit 0", "exit 1", "exit 130"}
At(pc) == op.pc = pc
StartInFlight == \E s \in Starts : starting[s] # {}
NothingOverlaps == Overlap \/ ~StartInFlight
Pending == {e \in Employees : repl[e].pc = "creating"}
Owned == {active[e] : e \in Employees} \cup cleanup
CandidatesMutant == {active[e] : e \in Employees} \ {NoHandle}

\* the processes the next pause or stop would end
Candidates == Owned \ {NoHandle}

\* A process that nothing remembers from before; CHOOSE, for they are all alike.
Unused(e) == {h \in Handles : /\ h[1] = e /\ h # repl[e].handle
                             /\ h \notin alive \cup Owned \cup UNION {starting[s] : s \in Starts}}
Fresh(e) == CHOOSE h \in Unused(e) : TRUE
CanSpawn(e) == Unused(e) # {}

-----------------------------------------------------------------------------
(* LeaseRegistry.                                                           *)

\* #triggerIfEmpty, when "left" are the leases that are left
TriggerIfEmpty(left) ==
    IF trigger # "none"
    THEN chained' = TRUE /\ UNCHANGED <<trigger, pauseTriggered>>
    ELSE IF hadLease /\ ~pauseTriggered /\ left = {}
    THEN trigger' = "called" /\ pauseTriggered' = TRUE /\ UNCHANGED chained
    ELSE UNCHANGED <<trigger, pauseTriggered, chained>>

TriggerFailedMutant ==
    trigger' = "none" /\ chained' = FALSE /\ UNCHANGED pauseTriggered

\* The callback threw: the next disconnect or sweep tries again.
TriggerFailed ==
    trigger' = "none" /\ pauseTriggered' = FALSE /\ chained' = FALSE

\* heartbeat, of a handshake or by itself
Heartbeat(c) ==
    /\ ~draining
    /\ connected' = connected \cup {c}
    /\ leases' = leases \cup {c}
    /\ hadLease' = TRUE /\ pauseTriggered' = FALSE
    /\ UNCHANGED <<sessions, company, repl, callers, trigger, chained, closing, draining>>

\* disconnect, when the last connection of the client is gone
Disconnect(c) ==
    /\ c \in connected
    /\ connected' = connected \ {c}
    /\ leases' = leases \ {c}
    /\ TriggerIfEmpty(leases \ {c})
    /\ UNCHANGED <<sessions, company, repl, callers, hadLease, closing, draining>>

\* sweep, of the leases that were not renewed in time
Sweep(expired) ==
    /\ ~draining
    /\ leases' = leases \ expired
    /\ TriggerIfEmpty(leases \ expired)
    /\ UNCHANGED <<sessions, company, repl, callers, hadLease, connected, closing, draining>>

-----------------------------------------------------------------------------
(* The operations of CheckpointService; only one is in flight at a time.    *)

AbortReplacements == repl' = [e \in Employees |->
    IF repl[e].pc = "none" \/ repl[e].by = "recover" THEN repl[e]
    ELSE [repl[e] EXCEPT !.aborted = TRUE]]
CancelPending == repl' = [e \in Employees |->
    IF e \in Pending THEN [repl[e] EXCEPT !.cancelled = TRUE] ELSE repl[e]]

BeginMutant(kind, user) ==
    /\ NothingOverlaps
    /\ op' = [NoOperation EXCEPT !.kind = kind, !.pc = "transition", !.user = user]
    /\ accepting' = (accepting /\ kind = "stop")
    /\ AbortReplacements
    /\ UNCHANGED <<sessions, status, starting>>

\* #runOperation up to the first await: stopDispatching
Begin(kind, user) ==
    /\ NothingOverlaps
    /\ op' = [NoOperation EXCEPT !.kind = kind, !.pc = "transition", !.user = user]
    /\ accepting' = FALSE
    /\ AbortReplacements
    /\ UNCHANGED <<sessions, status, starting>>

\* The callers of the operation hear of its end.  A user's pause or stop closes the
\* transport with the next setImmediate, the lease callback and a shutdown at once.
Succeed ==
    /\ op' = NoOperation
    /\ closing' = (closing \/ op.user)
    /\ trigger' = IF trigger = "waiting" THEN "closing" ELSE trigger
    /\ shutdown' = IF shutdown = "pausing" THEN "closing" ELSE shutdown
    /\ draining' = (draining \/ trigger = "waiting" \/ shutdown = "pausing")
    /\ UNCHANGED <<pauseTriggered, chained, status, accepting>>

BlockMutant ==
    /\ op' = NoOperation
    /\ status' = "blocked"
    /\ IF trigger = "waiting" THEN TriggerFailed
       ELSE UNCHANGED <<trigger, pauseTriggered, chained>>
    /\ UNCHANGED <<accepting, closing, draining, shutdown>>

\* #commitSuspensionFailure, #commitRecoveryBlocked
Block ==
    /\ op' = NoOperation
    /\ status' = "blocked"
    /\ IF trigger = "waiting" THEN TriggerFailed
       ELSE UNCHANGED <<trigger, pauseTriggered, chained>>
    /\ shutdown' = IF shutdown = "pausing" THEN "failed" ELSE shutdown
    /\ UNCHANGED <<accepting, closing, draining>>

\* pause, as far as it does not throw at once; "user" tells the request of a client
Pause(user) ==
    \/ /\ op.kind = "pause"
       /\ op' = [op EXCEPT !.user = @ \/ user]
       /\ UNCHANGED <<sessions, status, accepting, repl, starting>>
    \/ ~Busy /\ status # "paused" /\ Begin("pause", user)

\* onLastClientExpired of the Core
LastClientExpired ==
    /\ trigger = "called" /\ NothingOverlaps
    /\ CASE op.kind \in {"stop", "recover"} ->
               TriggerFailed /\ UNCHANGED <<company, repl, sessions, starting, draining>>
         [] ~Busy /\ status = "paused" ->
               /\ trigger' = "closing" /\ draining' = TRUE
               /\ UNCHANGED <<company, repl, sessions, starting, pauseTriggered, chained>>
         [] OTHER ->
               /\ Pause(FALSE) /\ trigger' = "waiting"
               /\ UNCHANGED <<pauseTriggered, chained, draining>>
    /\ UNCHANGED <<hadLease, connected, leases, closing, shutdown>>

\* The transport is closed, the promise of the trigger settles; whoever waited for it
\* looks once more.
TriggerSettles ==
    /\ trigger = "closing" /\ connected = {}
    /\ chained' = FALSE
    /\ IF chained /\ ~pauseTriggered /\ leases = {}
       THEN trigger' = "called" /\ pauseTriggered' = TRUE
       ELSE trigger' = "none" /\ UNCHANGED pauseTriggered
    /\ UNCHANGED <<sessions, company, repl, callers, hadLease, transport>>

\* #suspend after stopDispatching
SuspendTransition ==
    /\ op.kind \in {"pause", "stop"} /\ At("transition")
    /\ status' = IF op.kind = "pause" THEN "pausing" ELSE "stopping"
    /\ op' = [op EXCEPT !.pc = "interrupt"]
    /\ UNCHANGED <<sessions, accepting, repl, callers, registry, transport>>

\* interruptAll and quiesce are over, or their time is.  #buildCheckpoint throws when
\* an employee never had a session; otherwise the checkpoint and the final status are
\* one transaction.
SuspendCommit ==
    /\ At("interrupt")
    /\ IF rows = Employees
       THEN status' = (IF op.kind = "pause" THEN "paused" ELSE "stopped")
       ELSE UNCHANGED status
    /\ op' = [op EXCEPT !.pc = "cleanup", !.failed = (rows # Employees)]
    /\ CancelPending
    /\ UNCHANGED <<sessions, accepting, callers, registry, transport>>

PendingOwnersMutant == FALSE

\* does an owner of kind "pending_replacement" exist?
PendingOwners == Pending # {}

\* #cleanupWithinDeadline looks who owns a process, and stops it
CleanupRound ==
    /\ At("cleanup")
    /\ IF Candidates = {} /\ ~PendingOwners
       THEN /\ (IF op.failed THEN Block ELSE Succeed)
            /\ UNCHANGED repl
       ELSE /\ op' = [op EXCEPT !.pc = "graceful", !.targets = Candidates,
                                !.pending = PendingOwners]
            /\ CancelPending
            /\ UNCHANGED <<status, accepting, trigger, pauseTriggered, chained, closing, draining,
                            shutdown>>
    /\ UNCHANGED <<sessions, starting, hadLease, connected, leases>>

StoppedHandlesMutant(stopped) ==
    /\ alive' = alive \ stopped
    /\ active' = [e \in Employees |-> IF active[e] \in stopped THEN NoHandle ELSE active[e]]
    /\ cleanup' = Owned \ stopped
    /\ UNCHANGED rows

\* stopAllBounded: "stopped" are the handles whose stop came back in time
StoppedHandles(stopped) ==
    /\ alive' = alive \ stopped
    /\ active' = [e \in Employees |-> IF active[e] \in stopped THEN NoHandle ELSE active[e]]
    /\ cleanup' = cleanup \ stopped
    /\ UNCHANGED rows

\* A graceful round that does not stop them all is followed by a forced one; a forced
\* one that fails, or a round that ends too late, leaves the company blocked.  A failed
\* recovery ends in "blocked" whatever the rounds achieve.
StopsSettle ==
    /\ op.pc \in {"graceful", "force"}
    /\ \E stopped \in SUBSET op.targets :
          /\ stopped # op.targets => Faults \cap {"stop", "deadline"} # {}
          /\ StoppedHandles(stopped)
          /\ LET all == stopped = op.targets /\ ~op.pending
             IN \/ /\ all /\ op.kind # "recover"
                   /\ op' = [op EXCEPT !.pc = "cleanup"]
                   /\ UNCHANGED <<repl, status, accepting, trigger, pauseTriggered, chained,
                                  closing, draining, shutdown>>
                \/ /\ ~all /\ At("graceful")
                   /\ op' = [op EXCEPT !.pc = "force", !.targets = Candidates \ stopped,
                                       !.pending = PendingOwners]
                   /\ CancelPending
                   /\ UNCHANGED <<status, accepting, trigger, pauseTriggered, chained,
                                  closing, draining, shutdown>>
                \/ /\ \/ ~all /\ At("force")
                      \/ all /\ op.kind = "recover"
                      \/ "deadline" \in Faults
                   /\ Block /\ UNCHANGED repl
    /\ UNCHANGED <<starting, hadLease, connected, leases>>

\* recoverLatest, when its checkpoint is missing or invalid
RecoverRefused ==
    /\ "checkpoint" \in Faults
    /\ ~Busy /\ status = "paused" /\ connected # {} /\ ~draining
    /\ status' = "blocked"
    /\ UNCHANGED <<sessions, accepting, op, repl, callers, registry, transport>>

\* #recover: the employees are started in turn
RecoverTransition ==
    /\ op.kind = "recover" /\ At("transition")
    /\ status' = "starting"
    /\ op' = [op EXCEPT !.pc = "employees"]
    /\ UNCHANGED <<sessions, accepting, repl, callers, registry, transport>>

RecoverEmployee(e) ==
    /\ At("employees")
    /\ e \notin op.targets /\ repl[e].pc = "none"
    /\ \A other \in Employees : repl[other].by # "recover"
    /\ repl' = [repl EXCEPT ![e] = [NoReplacement EXCEPT !.pc = "creating", !.by = "recover"]]
    /\ UNCHANGED <<sessions, company, callers, registry, transport>>

RecoveredMutant ==
    /\ At("employees") /\ op.targets = Employees
    /\ \A e \in Employees : active[e] \in alive
    /\ status' = "running"
    /\ accepting' = TRUE
    /\ op' = NoOperation
    /\ UNCHANGED <<sessions, repl, callers, registry, transport>>

\* All employees are back: "running", resumeDispatching and recoverWork
Recovered ==
    /\ At("employees") /\ op.targets = Employees
    /\ status' = "running"
    /\ accepting' = TRUE
    /\ op' = NoOperation
    /\ UNCHANGED <<sessions, repl, callers, registry, transport>>

-----------------------------------------------------------------------------
(* Processes come up in the place of others: resumeOne, rebuildOne.         *)

\* sendTask replaces the session of a failed turn; nobody else holds the lock.
ReplacementBegins(e) ==
    /\ "retry" \in Faults
    /\ accepting /\ active[e] # NoHandle /\ repl[e].pc = "none"
    /\ repl' = [repl EXCEPT ![e] = [NoReplacement EXCEPT !.pc = "creating", !.by = "retry"]]
    /\ UNCHANGED <<sessions, company, callers, registry, transport>>

\* resume stops the process it replaces; rebuild only forgets it
Replaced(e) == IF repl[e].mode = "resume" THEN {active[e]} ELSE {}

\* Was the dispatch stopped, or the replacement cancelled, while it was created?
Abandoned(e) == repl[e].aborted \/ repl[e].cancelled

\* The new process is retained for cleanup until its row is written; one that comes too
\* late is stopped again.
Created(e) ==
    /\ repl[e].pc = "creating" /\ CanSpawn(e)
    /\ alive' = (alive \ Replaced(e)) \cup {Fresh(e)}
    /\ IF Abandoned(e)
       THEN /\ cleanup' = cleanup \cup {Fresh(e)}
            /\ repl' = [repl EXCEPT ![e].pc = "rejecting", ![e].handle = Fresh(e)]
            /\ UNCHANGED <<rows, active, op>>
       ELSE /\ rows' = rows \cup {e}
            /\ active' = [active EXCEPT ![e] = Fresh(e)]
            /\ repl' = [repl EXCEPT ![e] = NoReplacement]
            /\ op' = IF repl[e].by = "recover" THEN [op EXCEPT !.targets = @ \cup {e}] ELSE op
            /\ UNCHANGED cleanup
    /\ UNCHANGED <<status, accepting, callers, registry, transport>>

\* A failed resume of the current dispatch is followed by a rebuild; a failed recovery
\* stops the employees it has started.
CreationFails(e) ==
    /\ Faults \cap {"spawn", "resumeStop"} # {}
    /\ repl[e].pc = "creating"
    /\ alive' \in {alive \ Replaced(e)} \cup (IF "resumeStop" \in Faults THEN {alive} ELSE {})
    /\ repl' = [repl EXCEPT ![e] =
         IF repl[e].by = "retry" /\ repl[e].mode = "resume" /\ ~repl[e].aborted
         THEN [NoReplacement EXCEPT !.pc = "creating", !.by = "retry", !.mode = "rebuild"]
         ELSE NoReplacement]
    /\ op' = IF repl[e].by = "recover"
             THEN [op EXCEPT !.pc = "graceful", !.targets = Candidates] ELSE op
    /\ UNCHANGED <<rows, active, cleanup, status, accepting, callers, registry, transport>>

RejectionEndsMutant(e) ==
    /\ repl[e].pc = "rejecting"
    /\ cleanup' = cleanup \ {repl[e].handle}
    /\ \/ alive' = alive \ {repl[e].handle}
       \/ "stop" \in Faults /\ UNCHANGED alive
    /\ repl' = [repl EXCEPT ![e] = NoReplacement]
    /\ UNCHANGED <<rows, active, company, callers, registry, transport>>

\* #rejectAbortedReplacement; it fails the recovery it belongs to
RejectionEnds(e) ==
    /\ repl[e].pc = "rejecting"
    /\ \/ alive' = alive \ {repl[e].handle} /\ cleanup' = cleanup \ {repl[e].handle}
       \/ "stop" \in Faults /\ cleanup' = cleanup \cup {repl[e].handle} /\ UNCHANGED alive
    /\ UNCHANGED <<rows, active, status, accepting, callers, registry, transport>>
    /\ repl' = [repl EXCEPT ![e] = NoReplacement]
    /\ op' = IF repl[e].by = "recover"
             THEN [op EXCEPT !.pc = "graceful", !.targets = Candidates'] ELSE op

ProcessExits(h) ==
    /\ "exit" \in Faults
    /\ h \in alive
    /\ alive' = alive \ {h}
    /\ UNCHANGED <<rows, active, cleanup, company, repl, callers, registry, transport>>

-----------------------------------------------------------------------------
(* company.start, company.pause, company.stop and company.resume.           *)

\* start looks at the status and at #sessions before its first await
RequestStart(c) ==
    /\ c \in connected /\ ~draining
    /\ status \in {"active", "stopped"} /\ \A e \in Employees : active[e] = NoHandle
    /\ Overlap \/ (~Busy /\ ~StartInFlight /\ trigger # "called")
    /\ \A e \in Employees : CanSpawn(e)
    /\ LET created == {Fresh(e) : e \in Employees}
       IN \E s \in Starts :
            /\ starting[s] = {} /\ \A other \in Starts : starting[other] = {} => s <= other
            /\ starting' = [starting EXCEPT ![s] = created]
            /\ alive' = alive \cup created
    /\ UNCHANGED <<rows, active, cleanup, company, repl, registry, transport, shutdown>>

\* Every employee came up: rows, #sessions, "running", and the dispatch is open.
StartSucceeds(s) ==
    /\ starting[s] # {}
    /\ rows' = Employees
    /\ active' = [e \in Employees |-> CHOOSE h \in starting[s] : h[1] = e]
    /\ starting' = [starting EXCEPT ![s] = {}]
    /\ status' = "running"
    /\ accepting' = TRUE
    /\ UNCHANGED <<cleanup, alive, op, repl, registry, transport, shutdown>>

\* Some did not: #stopStartedHandles stops the others, then stopAll whatever is left;
\* "kept" are the processes neither could stop.
StartFails(s) ==
    /\ "spawn" \in Faults
    /\ starting[s] # {}
    /\ \E kept \in SUBSET (Candidates \cup starting[s]) :
          /\ ~(starting[s] \subseteq kept) /\ ("stop" \in Faults \/ kept = {})
          /\ alive' = alive \ ((Candidates \cup starting[s]) \ kept)
          /\ cleanup' = (cleanup \cup starting[s]) \cap kept
          /\ active' = [e \in Employees |-> IF active[e] \in kept THEN active[e] ELSE NoHandle]
    /\ CancelPending
    /\ starting' = [starting EXCEPT ![s] = {}]
    /\ UNCHANGED <<rows, company, registry, transport, shutdown>>

CanAsk(c) == c \in connected /\ ~draining

RequestPause(c) ==
    /\ CanAsk(c)
    /\ IF ~Busy /\ status = "paused"
       THEN closing' = TRUE /\ UNCHANGED <<sessions, company, repl, starting>>
       ELSE Pause(TRUE) /\ UNCHANGED closing
    /\ UNCHANGED <<registry, connected, leases, draining, shutdown>>

RequestStop(c) ==
    /\ CanAsk(c)
    /\ \/ /\ ~Busy /\ status = "stopped"
          /\ closing' = TRUE /\ UNCHANGED <<sessions, company, repl, starting>>
       \/ ~Busy /\ status # "stopped" /\ Begin("stop", TRUE) /\ UNCHANGED closing
       \/ /\ op.kind = "stop"
          /\ op' = [op EXCEPT !.user = TRUE]
          /\ UNCHANGED <<sessions, status, accepting, repl, starting, closing>>
    /\ UNCHANGED <<registry, connected, leases, draining, shutdown>>

RequestResume(c) ==
    /\ CanAsk(c)
    /\ ~Busy /\ status = "paused"
    /\ Begin("recover", FALSE)
    /\ UNCHANGED <<registry, transport, shutdown>>

\* closeTransportAfterResponses: from now on nobody connects and no timer sweeps
CloseTransport ==
    /\ closing
    /\ closing' = FALSE /\ draining' = TRUE
    /\ UNCHANGED <<sessions, company, repl, callers, registry, connected, leases>>

\* The process is over: its memory is gone, the employees' processes died with their
\* pipes, and the next Core starts on the old tables.
ProcessEnds(how) ==
    /\ accepting' = FALSE /\ op' = NoOperation
    /\ active' = [e \in Employees |-> NoHandle] /\ cleanup' = {} /\ alive' = {}
    /\ repl' = [e \in Employees |-> NoReplacement]
    /\ starting' = [s \in Starts |-> {}]
    /\ connected' = {} /\ leases' = {}
    /\ hadLease' = FALSE /\ pauseTriggered' = FALSE /\ trigger' = "none" /\ chained' = FALSE
    /\ closing' = FALSE /\ draining' = FALSE
    /\ shutdown' = how
    /\ UNCHANGED <<status, rows>>

Crash == "crash" \in Faults /\ ProcessEnds("none")

\* Nothing is left that keeps the event loop alive.
CoreExits ==
    /\ draining /\ ~closing /\ connected = {} /\ trigger = "none" /\ shutdown = "none"
    /\ ~Busy /\ ~StartInFlight /\ alive = {}
    /\ \A e \in Employees : repl[e].pc = "none"
    /\ ProcessEnds("none")

-----------------------------------------------------------------------------
(* The shutdown coordinator of the Core (main.ts).                          *)

SignalMutant ==
    /\ "signal" \in Faults /\ NothingOverlaps
    /\ shutdown = "none"
    /\ IF op.kind \in {"stop", "recover"} \/ (~Busy /\ status = "paused")
       THEN /\ shutdown' = "closing" /\ draining' = TRUE
            /\ UNCHANGED <<company, repl, sessions, starting>>
       ELSE Pause(FALSE) /\ shutdown' = "pausing" /\ UNCHANGED draining
    /\ UNCHANGED <<registry, connected, leases, closing>>

\* The first SIGINT or SIGTERM: pause, as far as it does not throw at once.
Signal ==
    /\ "signal" \in Faults /\ NothingOverlaps
    /\ shutdown = "none"
    /\ CASE op.kind \in {"stop", "recover"} ->
               shutdown' = "failed" /\ UNCHANGED <<company, repl, sessions, starting, draining>>
         [] ~Busy /\ status = "paused" ->
               /\ shutdown' = "closing" /\ draining' = TRUE
               /\ UNCHANGED <<company, repl, sessions, starting>>
         [] OTHER ->
               Pause(FALSE) /\ shutdown' = "pausing" /\ UNCHANGED draining
    /\ UNCHANGED <<registry, connected, leases, closing>>

\* A second signal does not wait.
SecondSignal ==
    /\ "signal" \in Faults
    /\ shutdown \in {"pausing", "closing"}
    /\ ProcessEnds("exit 130")

\* The company is paused and close has settled: the connections are gone, and the callback
\* of the last client, which went with them, is over.
ShutdownDone ==
    /\ shutdown = "closing" /\ connected = {} /\ trigger = "none"
    /\ ProcessEnds("exit 0")

\* The pause was refused or has failed.
ShutdownFails == shutdown = "failed" /\ ProcessEnds("exit 1")

\* SHUTDOWN_TIMEOUT_MS is over.
ShutdownTimeout ==
    /\ "deadline" \in Faults
    /\ shutdown \in {"pausing", "closing"}
    /\ ProcessEnds("exit 1")

\* main.ts is run again.
CoreStarts ==
    /\ Ended
    /\ shutdown' = "none"
    /\ UNCHANGED <<sessions, company, repl, starting, registry, transport>>

-----------------------------------------------------------------------------
Init ==
    /\ status = "active" /\ rows = {}
    /\ accepting = FALSE /\ op = NoOperation
    /\ active = [e \in Employees |-> NoHandle] /\ cleanup = {} /\ alive = {}
    /\ repl = [e \in Employees |-> NoReplacement]
    /\ starting = [s \in Starts |-> {}]
    /\ connected = {} /\ leases = {}
    /\ hadLease = FALSE /\ pauseTriggered = FALSE /\ trigger = "none" /\ chained = FALSE
    /\ closing = FALSE /\ draining = FALSE /\ shutdown = "none"

\* What the Core does once it is called; every await of it ends, for adapters answer or
\* time out (START_TIMEOUT_MS, STOP_TIMEOUT_MS, the deadline of the suspension).
OperationStep ==
    \/ SuspendTransition \/ SuspendCommit \/ CleanupRound \/ StopsSettle
    \/ RecoverTransition \/ Recovered
    \/ \E e \in Employees : RecoverEmployee(e)

LeaseStep == LastClientExpired \/ TriggerSettles
Replacement(e) == Created(e) \/ CreationFails(e) \/ RejectionEnds(e)
StartEnds(s) == StartSucceeds(s) \/ StartFails(s)

ClientStep(c) ==
    \/ Heartbeat(c) \/ Disconnect(c)
    \/ RequestStart(c) \/ RequestPause(c) \/ RequestStop(c) \/ RequestResume(c)

ShutdownStep == ShutdownDone \/ ShutdownFails

CoreRuns ==
    \/ OperationStep \/ LeaseStep \/ CloseTransport
    \/ \E e \in Employees : ReplacementBegins(e) \/ Replacement(e)
    \/ \E s \in Starts : StartEnds(s)
    \/ \E c \in Clients : ClientStep(c)
    \/ \E expired \in SUBSET leases : Sweep(expired)
    \/ \E h \in Handles : ProcessExits(h)
    \/ RecoverRefused \/ CoreExits \/ Crash
    \/ Signal \/ SecondSignal \/ ShutdownTimeout \/ ShutdownStep

Next == (~Ended /\ CoreRuns) \/ CoreStarts

Spec == Init /\ [][Next]_vars

\* The sweep timer fires again and again, and a client that is gone loses its lease.
SweepTimer == Sweep(leases \ connected)

Fairness ==
    /\ WF_vars(OperationStep) /\ WF_vars(LeaseStep) /\ WF_vars(CloseTransport)
    /\ WF_vars(~Ended /\ SweepTimer) /\ WF_vars(ShutdownStep)
    /\ \A e \in Employees : WF_vars(Replacement(e))
    /\ \A s \in Starts : WF_vars(StartEnds(s))
    /\ \A c \in Clients : WF_vars(draining /\ Disconnect(c))

FairSpec == Spec /\ Fairness

-----------------------------------------------------------------------------
(* Properties.                                                              *)

Statuses ==
    {"active", "starting", "running", "pausing", "paused", "stopping", "stopped", "blocked"}

\* Every variable has its type.
LifeTypeOK ==
    /\ status \in Statuses /\ rows \subseteq Employees /\ accepting \in BOOLEAN
    /\ active \in [Employees -> Handles \cup {NoHandle}]
    /\ cleanup \subseteq Handles /\ alive \subseteq Handles
    /\ \A e \in Employees :
          /\ repl[e].pc \in {"none", "creating", "rejecting"}
          /\ repl[e].by \in {"none", "retry", "recover"}
          /\ repl[e].handle \in Handles \cup {NoHandle}
    /\ starting \in [Starts -> SUBSET Handles]
    /\ op.kind \in {"none", "pause", "stop", "recover"}
    /\ op.pc \in {"none", "transition", "interrupt", "cleanup", "graceful", "force", "employees"}
    /\ connected \subseteq Clients /\ leases \subseteq Clients
    /\ trigger \in {"none", "called", "waiting", "closing"}
    /\ shutdown \in {"none", "pausing", "closing", "failed", "exit 0", "exit 1", "exit 130"}

\* A paused company runs no process and none is about to come up, not even a
\* replacement that was being created when it was suspended.  A stopped one may be
\* left with processes a failed start did not get rid of: they wait in #cleanupHandles
\* (SuspendCommit, #cleanupWithinDeadline, #rejectAbortedReplacement).
RestHasNoProcesses ==
    status \in {"paused", "stopped"} /\ ~Busy /\ ~StartInFlight =>
        /\ Pending = {}
        /\ alive \subseteq (IF status = "stopped" THEN cleanup ELSE {})

\* A pause or stop reports success only when no process runs any more, whatever
\* happened to its first attempts to stop them (#cleanupWithinDeadline).
SuspensionEndsProcesses ==
    [][op.kind \in {"pause", "stop"} /\ op'.kind = "none" /\ status' \in {"paused", "stopped"}
         => alive' = {}]_vars

\* No process is forgotten while it runs, so that the next pause or stop can end it:
\* also after failed starts, failed replacements and failed cleanups (#sessions and
\* #cleanupHandles of SessionManager).
NoProcessIsForgotten ==
    alive \subseteq Owned \cup UNION {starting[s] : s \in Starts}

\* Actions are accepted only by a running company all of whose employees have a
\* session, and by no company that is being suspended or recovered.
DispatchNeedsCompany ==
    accepting => /\ status = "running" /\ ~Busy
                 /\ \A e \in Employees : active[e] # NoHandle

\* A stop is final: unless a user asks for it, a stopped company is not turned into a
\* paused one, which could be resumed
\* (docs/superpowers/plans/2026-07-29-p1a-release-hardening.md:25).
StopIsFinal ==
    [][status = "stopped" /\ status' \in {"pausing", "paused"} => op.user]_vars

\* When the last lease is gone the company does not go on: it is suspended, or asks the
\* user, even if the first attempt met another operation and was refused
\* (LeaseRegistry.#triggerIfEmpty and its retry).
LastClientSuspends ==
    leases = {} /\ hadLease /\ ~draining ~>
        leases # {} \/ draining \/ ~hadLease \/ status \notin {"active", "starting", "running"}

\* Every pause, stop and recovery ends.
OperationsEnd == Busy ~> ~Busy

\* A Core that was told to end reports success only with a paused company that has no
\* process, no client and nothing in flight, whatever else was going on
\* (createShutdownCoordinator).
CleanExit ==
    [][shutdown' = "exit 0" /\ shutdown # "exit 0" =>
         status = "paused" /\ alive = {} /\ Pending = {} /\ ~Busy /\ leases = {}]_vars

\* A Core that was told to end does so, without the help of its timer or a second signal:
\* no pause, connection or callback of the last client keeps it for ever.
ShutdownEnds == shutdown # "none" ~> shutdown = "none" \/ Ended

\* The dispatch opens and closes as the orchestrator expects it, whatever fails in between
\* (DispatchGate; stopDispatching, resumeDispatching and start of the orchestrator).
Gate == INSTANCE DispatchGate WITH open <- accepting
GateSpec == Gate!Spec
=============================================================================
