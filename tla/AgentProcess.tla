----------------------------- MODULE AgentProcess -----------------------------
(***************************************************************************)
(* FakeAgentAdapter and the child processes of one employee: starting,     *)
(* the turns of its sessions, interrupts, and the ways to stop them, with  *)
(* the agent program (company-cli.ts) at the other end of two pipes.       *)
(*                                                                         *)
(* The adapter runs from one await to the next.  The agents, the operating *)
(* system and the timers act in between.  SessionManager gives the adapter *)
(* one turn of the employee at a time; pauses and stops come at any time.  *)
(* An agent may hang at any point: nothing of it is fair.                  *)
(***************************************************************************)
EXTENDS Integers, Sequences, FiniteSets

CONSTANTS
    MaxProcs,       \* bound of the model: child processes, each used once
    MaxCalls        \* bound of the model: messages and interrupts

ASSUME AgentAssumption ==
    MaxProcs \in Nat \ {0} /\ MaxCalls \in Nat

VARIABLES
    proc,        \* child process and LiveFakeSession, by process
    dispatching, \* the orchestrator has not aborted its dispatch
    turn,        \* the send in flight
    sent,        \* messages sent so far
    interrupts   \* calls of interrupt so far

vars == <<proc, dispatching, turn, sent, interrupts>>

Procs == 1..MaxProcs

\* Lines on the pipes, and events in the queue of a session; "of" is the message of a turn.
Line(type) == [type |-> type, of |-> 0]
LineOf(type, m) == [type |-> type, of |-> m]

NoProcess ==
    [os |-> "none", killed |-> FALSE, stdin |-> <<>>, stdout |-> <<>>,
     start |-> "none", lines |-> <<>>, registered |-> FALSE, waiters |-> 0,
     stopping |-> "none", forced |-> "none", refused |-> FALSE]

NoTurn == [proc |-> 0, message |-> 0, aborted |-> FALSE]
InTurn == turn # NoTurn

Update(p, record) == proc' = [proc EXCEPT ![p] = record]

\* child.exitCode === null && child.signalCode === null
Live(c) == c.os \in {"spawned", "running"}

-----------------------------------------------------------------------------
(* The agent program, and the operating system.                             *)

AgentBoots(p) ==
    /\ proc[p].os = "spawned"
    /\ Update(p, [proc[p] EXCEPT !.os = "running", !.stdout = Append(@, Line("session.started"))])
    /\ UNCHANGED <<dispatching, turn, sent, interrupts>>

\* What the scenarios answer to a message.
Answers(m) ==
    {<<>>, <<LineOf("not-json", m)>>, <<LineOf("output.completed", m), LineOf("usage.updated", m)>>}

\* One line of its input.  What it wrote last may get lost when it exits.
AgentReads(p) ==
    /\ proc[p].os = "running" /\ proc[p].stdin # <<>>
    /\ LET line == Head(proc[p].stdin)
           rest == [proc[p] EXCEPT !.stdin = Tail(@)]
       IN \/ /\ line.type = "message"
             /\ \E answer \in Answers(line.of) : Update(p, [rest EXCEPT !.stdout = @ \o answer])
          \/ /\ line.type = "interrupt"
             /\ Update(p, [rest EXCEPT !.stdout = Append(@, Line("session.interrupted"))])
          \/ /\ line.type = "stop"
             /\ \E n \in 0..Len(rest.stdout) :
                   Update(p, [rest EXCEPT !.os = "exited", !.stdout = SubSeq(@, 1, n)])
    /\ UNCHANGED <<dispatching, turn, sent, interrupts>>

Exits(p) ==
    /\ Live(proc[p])
    /\ Update(p, [proc[p] EXCEPT !.os = "exited"])
    /\ UNCHANGED <<dispatching, turn, sent, interrupts>>

\* It exits by itself.
AgentExits(p) == ~proc[p].killed /\ Exits(p)

\* The signal arrives.
AgentDies(p) == proc[p].killed /\ Exits(p)

-----------------------------------------------------------------------------
(* FakeAgentAdapter: the events of a child process.                         *)

\* push: an event for who reads the queue.
Pushed(c, event) == [c EXCEPT !.lines = Append(@, event)]

InterruptedMutant(c) == [c EXCEPT !.stdout = Tail(@), !.waiters = @ - 1]

\* The oldest caller of interrupt gets its answer, which is no event of the turn.
Interrupted(c) == [c EXCEPT !.stdout = Tail(@), !.waiters = IF @ = 0 THEN 0 ELSE @ - 1]

\* One line of the data event, which only a start that is aborted does not listen to.
ChildData(p) ==
    /\ proc[p].stdout # <<>> /\ proc[p].start \notin {"aborting", "abandoned"}
    /\ LET line  == Head(proc[p].stdout)
           event == IF line.type = "not-json" THEN LineOf("adapter.error", line.of) ELSE line
       IN Update(p, IF line.type = "session.interrupted" THEN Interrupted(proc[p])
                    ELSE Pushed([proc[p] EXCEPT !.stdout = Tail(@)], event))
    /\ UNCHANGED <<dispatching, turn, sent, interrupts>>

\* The close event: the process is gone and its pipes are empty.
ChildCloses(p) ==
    /\ proc[p].os = "exited"
    /\ proc[p].stdout = <<>> \/ proc[p].start \in {"aborting", "abandoned"}
    /\ Update(p, Pushed([proc[p] EXCEPT !.os = "closed", !.stdin = <<>>, !.stdout = <<>>,
                                         !.waiters = 0],
                        Line("session.exited")))
    /\ UNCHANGED <<dispatching, turn, sent, interrupts>>

-----------------------------------------------------------------------------
(* FakeAgentAdapter: #start, and resume.                                    *)

Kill(c) == [c EXCEPT !.killed = @ \/ Live(c)]

\* The session the employee has got last.
Current(p) == proc[p].start = "started" /\ \A q \in Procs : q > p => proc[q].start # "started"

\* What is left of a process nobody knows any more.
Replaced(c) == [NoProcess EXCEPT !.os = c.os, !.start = c.start, !.killed = Live(c)]

\* Both stop and forceStop await the close event, and go on when it has come.
Ending(c) == c.stopping \in {"asked", "closing"} \/ c.forced = "closing"

\* A process is spawned and read; one without a PID, or whose log cannot be written, is
\* aborted (SIGKILL).
Spawned ==
    {[NoProcess EXCEPT !.os = "spawned", !.start = "first line"],
     [NoProcess EXCEPT !.os = "exited", !.start = "aborting"],
     [NoProcess EXCEPT !.os = "spawned", !.start = "aborting", !.killed = TRUE]}

\* start and resume up to the first await of #start that follows the spawn.
\* SessionManager awaits one start of the employee before the next, with the lock of the
\* turns; the session it replaces has been stopped, by resume at the latest.
Start(p) ==
    /\ proc[p].os = "none" /\ ~InTurn
    /\ \A q \in 1..(p - 1) : proc[q].start \in {"started", "rejected", "abandoned"}
    /\ \A q \in Procs :
          Current(q) => ~dispatching /\ ~proc[q].registered /\ ~Ending(proc[q])
    /\ \E c \in Spawned : proc' = [q \in Procs |-> IF q = p THEN c ELSE Replaced(proc[q])]
    /\ UNCHANGED <<dispatching, turn, sent, interrupts>>

\* The first line: the session is registered, and the dispatch may go on with it; or the
\* process is ended.
FirstLine(p) ==
    /\ proc[p].start = "first line" /\ proc[p].lines # <<>>
    /\ LET c       == [proc[p] EXCEPT !.lines = Tail(@)]
           started == Head(proc[p].lines).type = "session.started"
       IN /\ Update(p, IF started THEN [c EXCEPT !.start = "started", !.registered = TRUE]
                       ELSE [Kill(c) EXCEPT !.start = "reaping"])
          /\ dispatching' = (dispatching \/ started)
    /\ UNCHANGED <<turn, sent, interrupts>>

\* START_TIMEOUT_MS is over.
StartTimeout(p) ==
    /\ proc[p].start = "first line" /\ proc[p].lines = <<>>
    /\ Update(p, [Kill(proc[p]) EXCEPT !.start = "reaping"])
    /\ UNCHANGED <<dispatching, turn, sent, interrupts>>

StartRejectedMutant(p) ==
    /\ \/ /\ proc[p].start \in {"reaping", "aborting"}
          /\ Update(p, [proc[p] EXCEPT !.start = "rejected"])
       \/ /\ proc[p].start = "aborting"
          /\ Update(p, [proc[p] EXCEPT !.start = "abandoned"])
    /\ UNCHANGED <<dispatching, turn, sent, interrupts>>

\* The start is rejected when the process is closed, an aborted one also when that takes
\* longer than STOP_TIMEOUT_MS.
StartRejected(p) ==
    /\ \/ /\ proc[p].start \in {"reaping", "aborting"} /\ proc[p].os = "closed"
          /\ Update(p, [proc[p] EXCEPT !.start = "rejected"])
       \/ /\ proc[p].start = "aborting" /\ proc[p].os # "closed"
          /\ Update(p, [proc[p] EXCEPT !.start = "abandoned"])
    /\ UNCHANGED <<dispatching, turn, sent, interrupts>>

-----------------------------------------------------------------------------
(* FakeAgentAdapter: send.                                                  *)

\* writeJsonLine.  The pipe takes the line in any case; when that fills its buffer, write
\* returns false and the caller is told that the input is unavailable.
Written(c, line, ok) == [c EXCEPT !.stdin = Append(@, line), !.refused = @ \/ ~ok]

\* send up to its first await.  A turn that waited for the lock while the dispatch was
\* aborted is sent all the same.
Send(p) ==
    /\ ~InTurn /\ sent + interrupts < MaxCalls
    /\ Current(p) /\ proc[p].registered
    /\ sent' = sent + 1
    /\ LET new == [proc |-> p, message |-> sent + 1, aborted |-> ~dispatching]
       IN \/ /\ Live(proc[p])
             /\ \E ok \in BOOLEAN :
                   /\ Update(p, Written(proc[p], LineOf("message", sent + 1), ok))
                   /\ turn' = IF ok THEN new ELSE turn
          \/ ~Live(proc[p]) /\ turn' = new /\ UNCHANGED proc
    /\ UNCHANGED <<dispatching, interrupts>>

Ends(type) == type \in {"usage.updated", "adapter.error", "session.exited"}

YieldMutant ==
    /\ InTurn /\ proc[turn.proc].lines # <<>>
    /\ LET c     == proc[turn.proc]
           event == Head(c.lines)
       IN /\ Update(turn.proc, [c EXCEPT
                !.lines = Tail(@),
                !.registered = @ /\ (turn.aborted \/ event.type # "session.exited")])
          /\ turn' = IF turn.aborted \/ event.type = "output.completed" THEN NoTurn ELSE turn
    /\ UNCHANGED <<dispatching, sent, interrupts>>

\* The next event of the queue.  SessionManager leaves an aborted turn with it; the
\* generator then ends where it stands.
Yield ==
    /\ InTurn /\ proc[turn.proc].lines # <<>>
    /\ LET c     == proc[turn.proc]
           event == Head(c.lines)
       IN /\ Update(turn.proc, [c EXCEPT
                !.lines = Tail(@),
                !.registered = @ /\ (turn.aborted \/ event.type # "session.exited")])
          /\ turn' = IF turn.aborted \/ Ends(event.type) THEN NoTurn ELSE turn
    /\ UNCHANGED <<dispatching, sent, interrupts>>

\* The queue is closed and empty.
TurnEnds ==
    /\ InTurn /\ proc[turn.proc].os = "closed" /\ proc[turn.proc].lines = <<>>
    /\ turn' = NoTurn
    /\ UNCHANGED <<proc, dispatching, sent, interrupts>>

\* The orchestrator stops dispatching, before it interrupts or stops a session.
StopDispatching ==
    /\ dispatching /\ dispatching' = FALSE
    /\ turn' = IF InTurn THEN [turn EXCEPT !.aborted = TRUE] ELSE turn
    /\ UNCHANGED <<proc, sent, interrupts>>

-----------------------------------------------------------------------------
(* FakeAgentAdapter: interrupt, stop and forceStop.                         *)

InterruptMutant(p) ==
    /\ ~dispatching /\ proc[p].registered /\ Live(proc[p]) /\ sent + interrupts < MaxCalls
    /\ interrupts' = interrupts + 1
    /\ \E ok \in BOOLEAN :
          Update(p, [Written(proc[p], Line("interrupt"), ok) EXCEPT !.waiters = IF ok THEN 1 ELSE @])
    /\ UNCHANGED <<dispatching, turn, sent>>

\* interrupt of a process that runs; one that has exited declines at once.
Interrupt(p) ==
    /\ ~dispatching /\ proc[p].registered /\ Live(proc[p]) /\ sent + interrupts < MaxCalls
    /\ interrupts' = interrupts + 1
    /\ \E ok \in BOOLEAN :
          Update(p, [Written(proc[p], Line("interrupt"), ok) EXCEPT
                       !.waiters = IF ok THEN @ + 1 ELSE @])
    /\ UNCHANGED <<dispatching, turn, sent>>

\* stop up to its first await.  A later call gets the promise of the first, a failed one
\* included.
Stop(p) ==
    /\ ~dispatching /\ proc[p].registered /\ proc[p].stopping = "none"
    /\ \/ /\ Live(proc[p])
          /\ \E ok \in BOOLEAN :
                Update(p, [Written(proc[p], Line("stop"), ok) EXCEPT
                             !.stopping = IF ok THEN "asked" ELSE "failed"])
       \/ /\ ~Live(proc[p])
          /\ Update(p, [proc[p] EXCEPT !.stopping = "closing"])
    /\ UNCHANGED <<dispatching, turn, sent, interrupts>>

StopTimeoutMutant(p) ==
    /\ proc[p].stopping = "asked" /\ proc[p].os # "closed"
    /\ Update(p, [proc[p] EXCEPT !.stopping = "closing"])
    /\ UNCHANGED <<dispatching, turn, sent, interrupts>>

\* STOP_TIMEOUT_MS is over.
StopTimeout(p) ==
    /\ proc[p].stopping = "asked" /\ proc[p].os # "closed"
    /\ Update(p, [Kill(proc[p]) EXCEPT !.stopping = "closing"])
    /\ UNCHANGED <<dispatching, turn, sent, interrupts>>

StopDoneMutant(p) ==
    /\ proc[p].stopping \in {"asked", "closing"} /\ ~Live(proc[p])
    /\ Update(p, [proc[p] EXCEPT !.stopping = "done", !.registered = FALSE])
    /\ UNCHANGED <<dispatching, turn, sent, interrupts>>

StopDone(p) ==
    /\ proc[p].stopping \in {"asked", "closing"} /\ proc[p].os = "closed"
    /\ Update(p, [proc[p] EXCEPT !.stopping = "done", !.registered = FALSE])
    /\ UNCHANGED <<dispatching, turn, sent, interrupts>>

\* forceStop, which may overtake a stop.
ForceStop(p) ==
    /\ ~dispatching /\ proc[p].registered /\ proc[p].forced = "none"
    /\ Update(p, [Kill(proc[p]) EXCEPT !.forced = "closing"])
    /\ UNCHANGED <<dispatching, turn, sent, interrupts>>

ForceStopDone(p) ==
    /\ proc[p].forced = "closing" /\ proc[p].os = "closed"
    /\ Update(p, [proc[p] EXCEPT !.forced = "done", !.registered = FALSE])
    /\ UNCHANGED <<dispatching, turn, sent, interrupts>>

-----------------------------------------------------------------------------

Init ==
    /\ proc = [p \in Procs |-> NoProcess]
    /\ dispatching = TRUE /\ turn = NoTurn /\ sent = 0 /\ interrupts = 0

Agent(p) == AgentBoots(p) \/ AgentReads(p) \/ AgentExits(p)

Events(p) == AgentDies(p) \/ ChildData(p) \/ ChildCloses(p)

Starting(p) == FirstLine(p) \/ StartTimeout(p) \/ StartRejected(p)

Stopping(p) == StopTimeout(p) \/ StopDone(p)

Calls(p) ==
    Start(p) \/ Send(p) \/ Interrupt(p) \/ Stop(p) \/ ForceStop(p)

Next ==
    \/ \E p \in Procs : Agent(p) \/ Events(p) \/ Starting(p) \/ Stopping(p) \/ ForceStopDone(p) \/ Calls(p)
    \/ Yield \/ TurnEnds \/ StopDispatching

\* The Core's event loop takes every turn, its timers run out, and a signal ends the
\* process.  Nobody need call the adapter, and the agent need not do anything.
Fairness ==
    /\ WF_vars(\E p \in Procs : Events(p))
    /\ WF_vars(\E p \in Procs : Starting(p))
    /\ WF_vars(\E p \in Procs : Stopping(p))
    /\ WF_vars(\E p \in Procs : ForceStopDone(p))
    /\ WF_vars(Yield \/ TurnEnds)

Spec == Init /\ [][Next]_vars /\ Fairness

-----------------------------------------------------------------------------
(* Properties.                                                              *)

Types == {"session.started", "message", "interrupt", "stop", "session.interrupted",
          "not-json", "adapter.error", "output.completed", "usage.updated", "session.exited"}
Lines == Seq([type : Types, of : 0..MaxCalls])

Sessions ==
    [os : {"none", "spawned", "running", "exited", "closed"}, killed : BOOLEAN,
     stdin : Lines, stdout : Lines,
     start : {"none", "first line", "started", "reaping", "aborting", "rejected", "abandoned"},
     lines : Lines, registered : BOOLEAN, waiters : 0..MaxCalls,
     stopping : {"none", "asked", "closing", "done", "failed"},
     forced : {"none", "closing", "done"}, refused : BOOLEAN]

\* Types of the variables (LiveFakeSession and the child process it holds).  Nobody waits
\* for an interrupt that was not called.
AgentTypeOK ==
    /\ proc \in [Procs -> Sessions]
    /\ dispatching \in BOOLEAN
    /\ turn \in [proc : Procs, message : 1..MaxCalls, aborted : BOOLEAN] \cup {NoTurn}
    /\ sent \in Nat /\ interrupts \in Nat /\ sent + interrupts <= MaxCalls
    /\ \A p \in Procs : proc[p].waiters <= interrupts

\* A start that fails leaves no process behind: when start rejects, the process is closed,
\* or the abort was given up after it had been killed.
RejectedStartLeavesNothing ==
    \A p \in Procs :
       /\ proc[p].start = "rejected" => proc[p].os = "closed"
       /\ proc[p].start \in {"reaping", "aborting", "abandoned"} => ~Live(proc[p]) \/ proc[p].killed

\* A session the adapter forgets has no process any more, whichever of stop, forceStop and
\* a turn's last event forgot it: what is deleted from #sessions can never be stopped.
ForgottenSessionIsClosed ==
    \A p \in Procs : proc[p].start = "started" /\ ~proc[p].registered => proc[p].os = "closed"

\* The employee never has two processes at work, whatever stops and replaces its session:
\* only one that was killed when its start was abandoned may still be there.
OneProcess ==
    \A p, q \in Procs :
       p # q /\ proc[p].os \notin {"none", "closed"} /\ proc[q].os \notin {"none", "closed"}
       => "abandoned" \in {proc[p].start, proc[q].start}

PendingLines(c) ==
    {line \in {c.stdin[i] : i \in DOMAIN c.stdin} \cup {c.stdout[i] : i \in DOMAIN c.stdout}
              \cup {c.lines[i] : i \in DOMAIN c.lines} : line.of # 0}

\* A turn sees the events of its own message: while the dispatch goes on, what an agent
\* has still to read or to say is about the message of the turn in flight, and nothing is
\* left between two turns, unless a write was refused.
TurnSeesItsOwnEvents ==
    \A p \in Procs :
       dispatching /\ Current(p) /\ ~proc[p].refused =>
          \A line \in PendingLines(proc[p]) : turn.proc = p /\ line.of = turn.message

CountOf(type, lines) == Cardinality({i \in DOMAIN lines : lines[i].type = type})

\* Every interrupt a running agent has not answered has its caller waiting, and no answer
\* goes to the caller of another; a closed process has no callers left.
WaitersMatchInterrupts ==
    \A p \in Procs :
       LET c == proc[p]
       IN /\ Live(c) /\ ~c.refused =>
                c.waiters = CountOf("interrupt", c.stdin) + CountOf("session.interrupted", c.stdout)
          /\ c.os = "closed" => c.waiters = 0

\* A start, a stop or a forced stop that has not come back.
Pending(c) ==
    c.start \in {"first line", "reaping", "aborting"} \/ c.stopping \in {"asked", "closing"}
    \/ c.forced = "closing"

\* A turn, or a caller of interrupt, that waits for a session which is being stopped or has
\* been.
WaitsForStopped(p) ==
    /\ proc[p].stopping \in {"asked", "closing", "done"} \/ proc[p].forced # "none"
    /\ turn.proc = p \/ proc[p].waiters > 0

\* Every start and stop comes back, and stopping a session frees its turn and those who
\* wait for an interrupt, although an agent may hang and answer nothing.
CallersAreAnswered == []<>(\A p \in Procs : ~Pending(proc[p]) /\ ~WaitsForStopped(p))
=============================================================================
