------------------------- MODULE AgentProcess_proofs -------------------------
(***************************************************************************)
(* Proofs about AgentProcess, for any number of processes, messages and    *)
(* interrupts.                                                             *)
(***************************************************************************)
EXTENDS AgentProcess, SequenceTheorems, FiniteSetTheorems, TLAPS

-----------------------------------------------------------------------------
(* Lines and sessions.                                                      *)

LineSet == [type : Types, of : 0..MaxCalls]

\* One more line at the end.
LEMMA AppendLine == \A s \in Lines, line \in LineSet : Append(s, line) \in Lines
BY AppendProperties DEF Lines, LineSet

\* A line without a message is a line.
LEMMA LineType == \A type \in Types : Line(type) \in LineSet
BY AgentAssumption DEF Line, LineSet

LEMMA LineOfType == \A type \in Types, m \in 0..MaxCalls : LineOf(type, m) \in LineSet
BY DEF LineOf, LineSet

\* One line less at the front.
LEMMA TailLine == \A s \in Lines : s # <<>> => Tail(s) \in Lines /\ Head(s) \in LineSet
BY HeadTailProperties DEF Lines, LineSet

LEMMA ConcatLines == \A s, t \in Lines : s \o t \in Lines
BY ConcatProperties DEF Lines

\* The lines that got out before the process was gone.
LEMMA FirstLines == ASSUME NEW s \in Lines, NEW n \in 0..Len(s) PROVE SubSeq(s, 1, n) \in Lines
<1>1. s \in Seq(LineSet) /\ Len(s) \in Nat
  BY LenProperties DEF Lines, LineSet
<1>2. ASSUME NEW i \in 1..n PROVE s[i] \in LineSet
  <2>1. i \in 1..Len(s)
    BY <1>1
  <2> QED
    BY <1>1, <2>1, ElementOfSeq
<1> QED
  BY <1>1, <1>2, SubSeqProperties DEF Lines, LineSet

\* A process that was not used yet is a session without a process.
LEMMA NoProcessType == NoProcess \in Sessions
BY AgentAssumption DEF NoProcess, Sessions, Lines

\* The fields of a session that is somewhere in proc.
LEMMA SessionType ==
    ASSUME AgentTypeOK, NEW p \in Procs
    PROVE  /\ proc[p] \in Sessions
           /\ proc[p].stdin \in Lines /\ proc[p].stdout \in Lines /\ proc[p].lines \in Lines
           /\ proc[p].waiters \in 0..MaxCalls /\ proc[p].waiters <= interrupts
           /\ interrupts \in 0..MaxCalls /\ MaxCalls \in Nat
<1>1. proc[p] \in Sessions /\ proc[p].waiters <= interrupts
  BY DEF AgentTypeOK
<1>2. interrupts \in 0..MaxCalls
  BY AgentAssumption DEF AgentTypeOK
<1> QED
  BY <1>1, <1>2, AgentAssumption DEF Sessions

\* Replacing one record by another of its type, with no more waiters than interrupts.
LEMMA UpdateType ==
    ASSUME AgentTypeOK, NEW p \in Procs, NEW c \in Sessions, Update(p, c),
           c.waiters <= interrupts', interrupts' \in Nat, interrupts <= interrupts'
    PROVE  proc' \in [Procs -> Sessions] /\ \A q \in Procs : proc'[q].waiters <= interrupts'
<1>1. proc \in [Procs -> Sessions]
  BY DEF AgentTypeOK
<1>2. proc' \in [Procs -> Sessions]
  BY <1>1 DEF Update
<1>3. ASSUME NEW q \in Procs PROVE proc'[q].waiters <= interrupts'
  <2>1. CASE q = p
    <3>1. proc'[q] = c
      BY <1>1, <2>1 DEF Update
    <3> QED
      BY <3>1
  <2>2. CASE q # p
    <3>1. proc'[q] = proc[q]
      BY <1>1, <2>2 DEF Update
    <3> QED
      BY <3>1, SessionType
  <2> QED
    BY <2>1, <2>2
<1> QED
  BY <1>2, <1>3

\* The record of one process changes, and nothing is called.
LEMMA QuietType ==
    ASSUME AgentTypeOK, NEW p \in Procs, NEW c \in Sessions, Update(p, c),
           c.waiters <= interrupts, UNCHANGED <<sent, interrupts>>,
           dispatching' \in BOOLEAN, turn' \in {turn, NoTurn}
    PROVE  AgentTypeOK'
<1>1. interrupts' = interrupts /\ interrupts \in Nat /\ interrupts <= interrupts'
  BY SessionType
<1>2. proc' \in [Procs -> Sessions] /\ \A q \in Procs : proc'[q].waiters <= interrupts'
  BY <1>1, UpdateType
<1> QED
  BY <1>1, <1>2 DEF AgentTypeOK

LEMMA InitType == Init => AgentTypeOK
<1> SUFFICES ASSUME Init PROVE AgentTypeOK
  OBVIOUS
<1>1. proc \in [Procs -> Sessions] /\ \A p \in Procs : proc[p].waiters = 0
  BY NoProcessType DEF Init, NoProcess
<1> QED
  BY <1>1, AgentAssumption DEF Init, AgentTypeOK

-----------------------------------------------------------------------------
(* Every step keeps the types.                                              *)

\* What the agent and the operating system do to a process.
LEMMA AgentStepType ==
    ASSUME AgentTypeOK, NEW p \in Procs, Agent(p) \/ AgentDies(p) PROVE AgentTypeOK'
<1> DEFINE c == proc[p]
<1>1. /\ c \in Sessions /\ c.stdin \in Lines /\ c.stdout \in Lines /\ c.lines \in Lines
      /\ c.waiters \in 0..MaxCalls /\ c.waiters <= interrupts
  BY SessionType
<1> USE DEF AgentTypeOK
<1>2. CASE AgentBoots(p)
  <2> DEFINE d == [c EXCEPT !.os = "running", !.stdout = Append(@, Line("session.started"))]
  <2>1. Append(c.stdout, Line("session.started")) \in Lines
    BY <1>1, LineType, AppendLine DEF Types
  <2>2. d \in Sessions /\ d.waiters <= interrupts
    BY <1>1, <2>1 DEF Sessions
  <2> QED
    BY <1>2, <2>2, QuietType DEF AgentBoots
<1>3. CASE AgentReads(p)
  <2> DEFINE line == Head(c.stdin)
             rest == [c EXCEPT !.stdin = Tail(@)]
             With(os, out) == [rest EXCEPT !.os = os, !.stdout = out]
  <2>1. c.os = "running" /\ Tail(c.stdin) \in Lines /\ line.of \in 0..MaxCalls
    BY <1>1, <1>3, TailLine DEF AgentReads, LineSet
  <2>2. rest \in Sessions /\ rest.stdout = c.stdout /\ rest.os = "running"
    BY <1>1, <2>1 DEF Sessions
  <2>3. ASSUME NEW os \in {"running", "exited"}, NEW out \in Lines
        PROVE  With(os, out) \in Sessions /\ With(os, out).waiters <= interrupts
    BY <1>1, <2>1 DEF Sessions
  <2>4. ASSUME NEW answer \in Answers(line.of) PROVE c.stdout \o answer \in Lines
    <3>1. \A type \in Types : LineOf(type, line.of) \in LineSet
      BY <2>1, LineOfType
    <3>2. \A a, b \in LineSet : <<>> \in Lines /\ <<a>> \in Lines /\ <<a, b>> \in Lines
      BY DEF Lines, LineSet
    <3>3. answer \in Lines
      BY <3>1, <3>2 DEF Answers, Types
    <3> QED
      BY <1>1, <3>3, ConcatLines
  <2>5. Append(c.stdout, Line("session.interrupted")) \in Lines
    BY <1>1, LineType, AppendLine DEF Types
  <2>6. ASSUME NEW n \in 0..Len(c.stdout) PROVE SubSeq(c.stdout, 1, n) \in Lines
    BY <1>1, FirstLines
  <2>7. PICK os \in {"running", "exited"}, out \in Lines : Update(p, With(os, out))
    <3>1. ASSUME NEW out \in Lines
          PROVE  [rest EXCEPT !.stdout = out] = With("running", out)
      BY <2>2 DEF Sessions
    <3>2. CASE \E answer \in Answers(line.of) : Update(p, [rest EXCEPT !.stdout = @ \o answer])
      BY <2>2, <2>4, <3>1, <3>2
    <3>3. CASE Update(p, [rest EXCEPT !.stdout = Append(@, Line("session.interrupted"))])
      BY <2>2, <2>5, <3>1, <3>3
    <3>4. CASE \E n \in 0..Len(rest.stdout) :
                  Update(p, [rest EXCEPT !.os = "exited", !.stdout = SubSeq(@, 1, n)])
      BY <2>2, <2>6, <3>4
    <3> QED
      BY <1>3, <3>2, <3>3, <3>4 DEF AgentReads
  <2> QED
    BY <1>3, <2>3, <2>7, QuietType DEF AgentReads
<1>4. CASE AgentExits(p) \/ AgentDies(p)
  <2>1. [c EXCEPT !.os = "exited"] \in Sessions /\ [c EXCEPT !.os = "exited"].waiters <= interrupts
    BY <1>1 DEF Sessions
  <2> QED
    BY <1>4, <2>1, QuietType DEF AgentExits, AgentDies, Exits
<1> QED
  BY <1>2, <1>3, <1>4 DEF Agent

\* What the adapter does with what it reads.
LEMMA EventStepType ==
    ASSUME AgentTypeOK, NEW p \in Procs, ChildData(p) \/ ChildCloses(p) PROVE AgentTypeOK'
<1> DEFINE c == proc[p]
<1>1. /\ c \in Sessions /\ c.stdin \in Lines /\ c.stdout \in Lines /\ c.lines \in Lines
      /\ c.waiters \in 0..MaxCalls /\ c.waiters <= interrupts /\ interrupts \in 0..MaxCalls
      /\ dispatching \in BOOLEAN
  BY SessionType DEF AgentTypeOK
<1>2. CASE ChildData(p)
  <2> DEFINE line  == Head(c.stdout)
             event == IF line.type = "not-json" THEN LineOf("adapter.error", line.of) ELSE line
             d     == Pushed([c EXCEPT !.stdout = Tail(@)], event)
  <2>1. Tail(c.stdout) \in Lines /\ line \in LineSet
    BY <1>1, <1>2, TailLine DEF ChildData
  <2>2. event \in LineSet
    BY <2>1, LineOfType DEF LineSet, Types
  <2>3. Append(c.lines, event) \in Lines
    BY <1>1, <2>2, AppendLine
  <2>4. d \in Sessions /\ d.waiters <= interrupts
    BY <1>1, <2>1, <2>3 DEF Pushed, Sessions
  <2>5. Interrupted(c) \in Sessions /\ Interrupted(c).waiters <= interrupts
    <3>1. (IF c.waiters = 0 THEN 0 ELSE c.waiters - 1) \in 0..MaxCalls
      BY <1>1, AgentAssumption
    <3>2. (IF c.waiters = 0 THEN 0 ELSE c.waiters - 1) <= interrupts
      BY <1>1, AgentAssumption
    <3> QED
      BY <1>1, <2>1, <3>1, <3>2 DEF Interrupted, Sessions
  <2>6. Update(p, d) \/ Update(p, Interrupted(c))
    BY <1>2 DEF ChildData
  <2> QED
    BY <1>1, <1>2, <2>4, <2>5, <2>6, QuietType DEF ChildData
<1>3. CASE ChildCloses(p)
  <2> DEFINE e == [c EXCEPT !.os = "closed", !.stdin = <<>>, !.stdout = <<>>, !.waiters = 0]
             d == Pushed(e, Line("session.exited"))
  <2>1. Append(c.lines, Line("session.exited")) \in Lines /\ <<>> \in Lines
    <3>1. Append(c.lines, Line("session.exited")) \in Lines
      BY <1>1, LineType, AppendLine DEF Types
    <3>2. <<>> \in Lines
      BY DEF Lines
    <3> QED
      BY <3>1, <3>2
  <2>2. e \in Sessions /\ e.lines = c.lines /\ e.waiters = 0
    <3>1. 0 \in 0..MaxCalls
      BY AgentAssumption
    <3> HIDE DEF c
    <3> QED
      BY <1>1, <2>1, <3>1 DEF Sessions
  <2> HIDE DEF e
  <2>3. d \in Sessions /\ d.waiters = 0
    BY <2>1, <2>2 DEF Pushed, Sessions
  <2>4. d.waiters <= interrupts
    BY <1>1, <2>3
  <2> QED
    BY <1>1, <1>3, <2>3, <2>4, QuietType DEF ChildCloses, e
<1> QED
  BY <1>2, <1>3

\* Starts and what becomes of them.
LEMMA StartStepType ==
    ASSUME AgentTypeOK, NEW p \in Procs, Start(p) \/ Starting(p) PROVE AgentTypeOK'
<1> DEFINE c == proc[p]
<1>1. /\ c \in Sessions /\ c.lines \in Lines
      /\ c.waiters \in 0..MaxCalls /\ c.waiters <= interrupts /\ interrupts \in 0..MaxCalls
      /\ dispatching \in BOOLEAN
  BY SessionType DEF AgentTypeOK
<1>2. CASE Start(p)
  <2>1. PICK first \in Spawned :
           proc' = [q \in Procs |-> IF q = p THEN first ELSE Replaced(proc[q])]
    BY <1>2 DEF Start
  <2>2. ASSUME NEW q \in Procs PROVE Replaced(proc[q]) \in Sessions /\ Replaced(proc[q]).waiters = 0
    <3>1. proc[q].os \in {"none", "spawned", "running", "exited", "closed"}
      BY SessionType DEF Sessions
    <3>2. proc[q].start \in {"none", "first line", "started", "reaping", "aborting",
                             "rejected", "abandoned"}
      BY SessionType DEF Sessions
    <3>3. Live(proc[q]) \in BOOLEAN
      BY DEF Live
    <3> QED
      BY <3>1, <3>2, <3>3, NoProcessType DEF Replaced, NoProcess, Sessions
  <2>3. first \in Sessions /\ first.waiters = 0
    BY NoProcessType DEF Spawned, NoProcess, Sessions
  <2>4. proc' \in [Procs -> Sessions] /\ \A q \in Procs : proc'[q].waiters = 0
    BY <2>1, <2>2, <2>3
  <2> QED
    BY <1>1, <1>2, <2>4 DEF Start, AgentTypeOK
<1>3. CASE FirstLine(p)
  <2> DEFINE d == [c EXCEPT !.lines = Tail(@)]
             started == [d EXCEPT !.start = "started", !.registered = TRUE]
             reaping == [Kill(d) EXCEPT !.start = "reaping"]
  <2>1. Tail(c.lines) \in Lines
    BY <1>1, <1>3, TailLine DEF FirstLine
  <2>2. started \in Sessions /\ started.waiters <= interrupts
    BY <1>1, <2>1 DEF Sessions
  <2>3. reaping \in Sessions /\ reaping.waiters <= interrupts
    BY <1>1, <2>1 DEF Kill, Live, Sessions
  <2>4. Update(p, started) \/ Update(p, reaping)
    BY <1>3 DEF FirstLine
  <2>5. dispatching' \in BOOLEAN
    BY <1>1, <1>3 DEF FirstLine
  <2> QED
    BY <1>3, <2>2, <2>3, <2>4, <2>5, QuietType DEF FirstLine
<1>4. CASE StartTimeout(p)
  <2> DEFINE d == [Kill(c) EXCEPT !.start = "reaping"]
  <2>1. d \in Sessions /\ d.waiters <= interrupts
    BY <1>1 DEF Kill, Live, Sessions
  <2> QED
    BY <1>1, <1>4, <2>1, QuietType DEF StartTimeout
<1>5. CASE StartRejected(p)
  <2>1. ASSUME NEW start \in {"rejected", "abandoned"}
        PROVE  [c EXCEPT !.start = start] \in Sessions /\ [c EXCEPT !.start = start].waiters <= interrupts
    BY <1>1 DEF Sessions
  <2> QED
    BY <1>1, <1>5, <2>1, QuietType DEF StartRejected
<1> QED
  BY <1>2, <1>3, <1>4, <1>5 DEF Starting

\* Stops, by any of the two ways.
LEMMA StopStepType ==
    ASSUME AgentTypeOK, NEW p \in Procs,
           Stop(p) \/ ForceStop(p) \/ Stopping(p) \/ ForceStopDone(p)
    PROVE  AgentTypeOK'
<1> DEFINE c == proc[p]
<1>1. /\ c \in Sessions /\ c.stdin \in Lines /\ c.waiters <= interrupts /\ dispatching \in BOOLEAN
  BY SessionType DEF AgentTypeOK
<1>2. CASE Stop(p)
  <2> DEFINE d(ok) == [Written(c, Line("stop"), ok) EXCEPT
                         !.stopping = IF ok THEN "asked" ELSE "failed"]
             e == [c EXCEPT !.stopping = "closing"]
  <2>1. Append(c.stdin, Line("stop")) \in Lines
    BY <1>1, LineType, AppendLine DEF Types
  <2>2. ASSUME NEW ok \in BOOLEAN PROVE d(ok) \in Sessions /\ d(ok).waiters <= interrupts
    BY <1>1, <2>1 DEF Written, Sessions
  <2>3. e \in Sessions /\ e.waiters <= interrupts
    BY <1>1 DEF Sessions
  <2>4. (\E ok \in BOOLEAN : Update(p, d(ok))) \/ Update(p, e)
    BY <1>2 DEF Stop
  <2> QED
    BY <1>1, <1>2, <2>2, <2>3, <2>4, QuietType DEF Stop
<1>3. CASE StopTimeout(p) \/ ForceStop(p)
  <2> DEFINE d == [Kill(c) EXCEPT !.stopping = "closing"]
             e == [Kill(c) EXCEPT !.forced = "closing"]
  <2>1. d \in Sessions /\ d.waiters <= interrupts
    BY <1>1 DEF Kill, Live, Sessions
  <2>2. e \in Sessions /\ e.waiters <= interrupts
    BY <1>1 DEF Kill, Live, Sessions
  <2>3. Update(p, d) \/ Update(p, e)
    BY <1>3 DEF StopTimeout, ForceStop
  <2> QED
    BY <1>1, <1>3, <2>1, <2>2, <2>3, QuietType DEF StopTimeout, ForceStop
<1>4. CASE StopDone(p) \/ ForceStopDone(p)
  <2> DEFINE d == [c EXCEPT !.stopping = "done", !.registered = FALSE]
             e == [c EXCEPT !.forced = "done", !.registered = FALSE]
  <2>1. d \in Sessions /\ d.waiters <= interrupts
    BY <1>1 DEF Sessions
  <2>2. e \in Sessions /\ e.waiters <= interrupts
    BY <1>1 DEF Sessions
  <2>3. Update(p, d) \/ Update(p, e)
    BY <1>4 DEF StopDone, ForceStopDone
  <2> QED
    BY <1>1, <1>4, <2>1, <2>2, <2>3, QuietType DEF StopDone, ForceStopDone
<1> QED
  BY <1>2, <1>3, <1>4 DEF Stopping

\* The turns and the interrupts, which are counted.
LEMMA CallStepType ==
    ASSUME AgentTypeOK, NEW p \in Procs, Send(p) \/ Interrupt(p) PROVE AgentTypeOK'
<1> DEFINE c == proc[p]
<1>1. /\ c \in Sessions /\ c.stdin \in Lines /\ c.waiters \in 0..MaxCalls
      /\ c.waiters <= interrupts /\ interrupts \in 0..MaxCalls /\ MaxCalls \in Nat
      /\ dispatching \in BOOLEAN /\ sent \in Nat /\ sent + interrupts <= MaxCalls
      /\ turn \in [proc : Procs, message : 1..MaxCalls, aborted : BOOLEAN] \cup {NoTurn}
      /\ proc \in [Procs -> Sessions]
  BY SessionType DEF AgentTypeOK
<1>2. CASE Send(p)
  <2> DEFINE new == [proc |-> p, message |-> sent + 1, aborted |-> ~dispatching]
             d(ok) == Written(c, LineOf("message", sent + 1), ok)
  <2>1. sent + 1 \in 1..MaxCalls /\ sent' = sent + 1 /\ interrupts' = interrupts
        /\ sent' + interrupts' <= MaxCalls /\ sent' \in Nat
    BY <1>1, <1>2 DEF Send
  <2>2. Append(c.stdin, LineOf("message", sent + 1)) \in Lines
    BY <1>1, <2>1, LineOfType, AppendLine DEF Types
  <2>3. ASSUME NEW ok \in BOOLEAN PROVE d(ok) \in Sessions /\ d(ok).waiters <= interrupts
    BY <1>1, <2>2 DEF Written, Sessions
  <2>4. new \in [proc : Procs, message : 1..MaxCalls, aborted : BOOLEAN]
    BY <1>1, <2>1
  <2>5. turn' \in [proc : Procs, message : 1..MaxCalls, aborted : BOOLEAN] \cup {NoTurn}
    BY <1>1, <1>2, <2>4 DEF Send
  <2>6. (\E ok \in BOOLEAN : Update(p, d(ok))) \/ proc' = proc
    BY <1>2 DEF Send
  <2>7. proc' \in [Procs -> Sessions] /\ \A q \in Procs : proc'[q].waiters <= interrupts'
    BY <1>1, <2>1, <2>3, <2>6, UpdateType, SessionType
  <2> QED
    BY <1>1, <1>2, <2>1, <2>5, <2>7 DEF Send, AgentTypeOK
<1>3. CASE Interrupt(p)
  <2> DEFINE d(ok) == [Written(c, Line("interrupt"), ok) EXCEPT
                         !.waiters = IF ok THEN @ + 1 ELSE @]
  <2>1. interrupts' = interrupts + 1 /\ interrupts' \in 0..MaxCalls /\ sent' = sent
        /\ sent' + interrupts' <= MaxCalls
    BY <1>1, <1>3 DEF Interrupt
  <2>2. Append(c.stdin, Line("interrupt")) \in Lines
    BY <1>1, LineType, AppendLine DEF Types
  <2>3. ASSUME NEW ok \in BOOLEAN PROVE d(ok) \in Sessions /\ d(ok).waiters <= interrupts'
    <3>1. Written(c, Line("interrupt"), ok) \in Sessions
      BY <1>1, <2>2 DEF Written, Sessions
    <3>2. Written(c, Line("interrupt"), ok).waiters = c.waiters
      BY <1>1 DEF Written, Sessions
    <3>3. /\ c.waiters + 1 \in 0..MaxCalls /\ c.waiters + 1 <= interrupts'
          /\ c.waiters <= interrupts'
      BY <1>1, <2>1
    <3> QED
      BY <3>1, <3>2, <3>3 DEF Sessions
  <2>4. PICK ok \in BOOLEAN : Update(p, d(ok))
    BY <1>3 DEF Interrupt
  <2> HIDE DEF d
  <2>5. proc' \in [Procs -> Sessions] /\ \A q \in Procs : proc'[q].waiters <= interrupts'
    <3>1. interrupts' \in Nat /\ interrupts <= interrupts'
      BY <1>1, <2>1
    <3> QED
      BY <2>3, <2>4, <3>1, UpdateType
  <2> QED
    BY <1>1, <1>3, <2>1, <2>5 DEF Interrupt, AgentTypeOK
<1> QED
  BY <1>2, <1>3

\* The consumer of a turn, and the stop of the dispatch.
LEMMA TurnStepType ==
    ASSUME AgentTypeOK, Yield \/ TurnEnds \/ StopDispatching PROVE AgentTypeOK'
<1> DEFINE Turns == [proc : Procs, message : 1..MaxCalls, aborted : BOOLEAN]
<1>1. turn \in Turns \cup {NoTurn} /\ dispatching \in BOOLEAN
  BY DEF AgentTypeOK
<1>2. CASE Yield
  <2> DEFINE p == turn.proc
             c == proc[p]
             d == [c EXCEPT !.lines = Tail(@),
                            !.registered = @ /\ (turn.aborted \/ Head(c.lines).type # "session.exited")]
  <2>1. p \in Procs
    BY <1>1, <1>2 DEF Yield, InTurn
  <2>2. c \in Sessions /\ c.waiters <= interrupts /\ Tail(c.lines) \in Lines
    BY <1>2, <2>1, SessionType, TailLine DEF Yield
  <2>3. (c.registered /\ (turn.aborted \/ Head(c.lines).type # "session.exited")) \in BOOLEAN
    OBVIOUS
  <2>4. d \in Sessions /\ d.waiters <= interrupts
    BY <2>2, <2>3 DEF Sessions
  <2>5. Update(p, d) /\ turn' \in {turn, NoTurn} /\ UNCHANGED <<dispatching, sent, interrupts>>
    BY <1>2 DEF Yield
  <2> HIDE DEF d, c, p
  <2> QED
    BY <1>1, <2>1, <2>4, <2>5, QuietType
<1>3. CASE TurnEnds
  BY <1>3 DEF TurnEnds, AgentTypeOK
<1>4. CASE StopDispatching
  <2>1. turn' \in Turns \cup {NoTurn}
    BY <1>1, <1>4 DEF StopDispatching, InTurn
  <2> QED
    BY <1>1, <1>4, <2>1 DEF StopDispatching, AgentTypeOK
<1> QED
  BY <1>2, <1>3, <1>4

LEMMA NextType == AgentTypeOK /\ [Next]_vars => AgentTypeOK'
<1> SUFFICES ASSUME AgentTypeOK, [Next]_vars PROVE AgentTypeOK'
  OBVIOUS
<1>1. CASE UNCHANGED vars
  BY <1>1 DEF AgentTypeOK, vars
<1>2. ASSUME NEW p \in Procs, Agent(p) \/ Events(p) PROVE AgentTypeOK'
  BY <1>2, AgentStepType, EventStepType DEF Events
<1>3. ASSUME NEW p \in Procs, Starting(p) \/ Stopping(p) \/ ForceStopDone(p) PROVE AgentTypeOK'
  BY <1>3, StartStepType, StopStepType
<1>4. ASSUME NEW p \in Procs, Calls(p) PROVE AgentTypeOK'
  BY <1>4, StartStepType, CallStepType, StopStepType DEF Calls
<1>5. CASE Yield \/ TurnEnds \/ StopDispatching
  BY <1>5, TurnStepType
<1> QED
  BY <1>1, <1>2, <1>3, <1>4, <1>5 DEF Next

\* Type correctness (FakeAgentAdapter and SessionManager's use of it): in particular nobody
\* waits for an interrupt that was not called.
THEOREM TypeCorrect == Spec => []AgentTypeOK
<1>1. Init => AgentTypeOK
  BY InitType
<1>2. AgentTypeOK /\ [Next]_vars => AgentTypeOK'
  BY NextType
<1> QED
  BY <1>1, <1>2, PTL DEF Spec

-----------------------------------------------------------------------------
(* Processes and their sessions.                                            *)

\* What an agent may say.  That it has exited is the adapter's word.
AgentLines == {line \in LineSet : line.type # "session.exited"}

\* A process exists once it is started, it is closed when its start was rejected or its
\* session was forgotten, it is about to die when its start failed, and its exit is not
\* announced before it is closed.
SessionOK(c) ==
    /\ c.os = "none" <=> c.start = "none"
    /\ c.start = "rejected" => c.os = "closed"
    /\ c.start \in {"reaping", "aborting", "abandoned"} => ~Live(c) \/ c.killed
    /\ c.registered => c.start = "started"
    /\ c.start = "started" /\ ~c.registered => c.os = "closed"
    /\ c.os # "closed" => c.lines \in Seq(AgentLines) /\ c.stdout \in Seq(AgentLines)

Settled == {"started", "rejected", "abandoned"}

\* A process is used when the starts of all before it are settled, and their sessions
\* forgotten.
InOrder ==
    \A p, q \in Procs : p < q /\ proc[q].os # "none" =>
       proc[p].start \in Settled /\ ~proc[p].registered

SafeInv == (\A p \in Procs : SessionOK(proc[p])) /\ InOrder

LEMMA InitSafe == Init => SafeInv
<1> SUFFICES ASSUME Init PROVE SafeInv
  OBVIOUS
<1>1. ASSUME NEW p \in Procs PROVE proc[p] = NoProcess
  BY DEF Init
<1>2. SessionOK(NoProcess)
  BY DEF SessionOK, NoProcess, Live
<1>3. InOrder
  BY <1>1 DEF InOrder, NoProcess
<1> QED
  BY <1>1, <1>2, <1>3 DEF SafeInv

\* A step that changes the record of one process, keeps it right and does not take back
\* what the later processes rely on.
LEMMA SafeUpdate ==
    ASSUME AgentTypeOK, SafeInv, NEW p \in Procs, NEW d, Update(p, d), SessionOK(d),
           proc[p].os = "none" <=> d.os = "none",
           proc[p].start \in Settled => d.start = proc[p].start,
           d.registered => proc[p].registered \/ proc[p].start = "first line"
    PROVE  SafeInv'
<1>1. ASSUME NEW q \in Procs PROVE proc'[q] = IF q = p THEN d ELSE proc[q]
  BY DEF Update, AgentTypeOK
<1>2. ASSUME NEW q \in Procs PROVE SessionOK(proc'[q])
  BY <1>1 DEF SafeInv
<1>3. ASSUME NEW q \in Procs, NEW r \in Procs, q < r, proc'[r].os # "none"
      PROVE  proc'[q].start \in Settled /\ ~proc'[q].registered
  <2>1. proc[r].os # "none"
    BY <1>1, <1>3
  <2>2. proc[q].start \in Settled /\ ~proc[q].registered
    BY <1>3, <2>1 DEF SafeInv, InOrder
  <2> QED
    BY <1>1, <2>2 DEF Settled
<1> QED
  BY <1>2, <1>3 DEF SafeInv, InOrder, SessionOK, Live

\* Lines of an agent stay lines of an agent.
LEMMA AgentLinesType ==
    /\ <<>> \in Seq(AgentLines)
    /\ \A s \in Seq(AgentLines), line \in AgentLines : Append(s, line) \in Seq(AgentLines)
    /\ \A s \in Seq(AgentLines) :
          s # <<>> => Tail(s) \in Seq(AgentLines) /\ Head(s) \in AgentLines
    /\ \A s, t \in Seq(AgentLines) : s \o t \in Seq(AgentLines)
    /\ \A s \in Seq(AgentLines) : \A n \in 0..Len(s) : SubSeq(s, 1, n) \in Seq(AgentLines)
<1>1. \A s \in Seq(AgentLines) :
          s # <<>> => Tail(s) \in Seq(AgentLines) /\ Head(s) \in AgentLines
  BY HeadTailProperties
<1>2. \A s, t \in Seq(AgentLines) : s \o t \in Seq(AgentLines)
  BY ConcatProperties
<1>3. ASSUME NEW s \in Seq(AgentLines), NEW n \in 0..Len(s)
      PROVE  SubSeq(s, 1, n) \in Seq(AgentLines)
  <2>1. Len(s) \in Nat
    BY LenProperties
  <2>2. ASSUME NEW i \in 1..n PROVE s[i] \in AgentLines
    <3>1. i \in 1..Len(s)
      BY <2>1
    <3> QED
      BY <3>1, ElementOfSeq
  <2> QED
    BY <2>1, <2>2, SubSeqProperties
<1> QED
  BY <1>1, <1>2, <1>3, AppendProperties

\* The agent and the operating system.
LEMMA AgentStepSafe ==
    ASSUME AgentTypeOK, SafeInv, NEW p \in Procs, Agent(p) \/ AgentDies(p) PROVE SafeInv'
<1> DEFINE c == proc[p]
<1>1. SessionOK(c) /\ c \in Sessions
  BY SessionType DEF SafeInv
<1>2. Live(c) /\ c.start # "rejected"
  BY <1>1 DEF Agent, AgentBoots, AgentReads, AgentExits, AgentDies, Exits, Live, SessionOK
<1>3. c.lines \in Seq(AgentLines) /\ c.stdout \in Seq(AgentLines) /\ c.os \notin {"none", "closed"}
  BY <1>1, <1>2 DEF SessionOK, Live
<1>4. ASSUME NEW os \in {"running", "exited"}, NEW in, NEW out \in Seq(AgentLines),
             Update(p, [c EXCEPT !.os = os, !.stdin = in, !.stdout = out])
      PROVE  SafeInv'
  <2> DEFINE d == [c EXCEPT !.os = os, !.stdin = in, !.stdout = out]
  <2>1. /\ d.os = os /\ d.start = c.start /\ d.registered = c.registered /\ d.killed = c.killed
        /\ d.lines = c.lines /\ d.stdout = out
    BY <1>1 DEF Sessions
  <2> HIDE DEF d
  <2>2. SessionOK(d)
    BY <1>1, <1>2, <1>3, <2>1 DEF SessionOK, Live
  <2>3. Update(p, d)
    BY <1>4 DEF d
  <2> QED
    BY <1>3, <2>1, <2>2, <2>3, SafeUpdate
<1>5. \A type \in Types \ {"session.exited"} : Line(type) \in AgentLines
  BY LineType DEF AgentLines, Line
<1>6. CASE AgentBoots(p)
  <2>1. Append(c.stdout, Line("session.started")) \in Seq(AgentLines)
    BY <1>3, <1>5, AgentLinesType DEF Types
  <2>2. [c EXCEPT !.os = "running", !.stdout = Append(@, Line("session.started"))]
          = [c EXCEPT !.os = "running", !.stdin = c.stdin,
                      !.stdout = Append(c.stdout, Line("session.started"))]
    BY <1>1 DEF Sessions
  <2> QED
    BY <1>4, <1>6, <2>1, <2>2 DEF AgentBoots
<1>7. CASE AgentReads(p)
  <2> DEFINE line == Head(c.stdin)
             rest == [c EXCEPT !.stdin = Tail(@)]
             With(os, out) == [c EXCEPT !.os = os, !.stdin = Tail(c.stdin), !.stdout = out]
  <2>1. c.os = "running" /\ line.of \in 0..MaxCalls
    BY <1>7, SessionType, TailLine DEF AgentReads, LineSet
  <2>2. rest.stdout = c.stdout
    BY <1>1 DEF Sessions
  <2>3. ASSUME NEW out
        PROVE  /\ [rest EXCEPT !.stdout = out] = With("running", out)
               /\ [rest EXCEPT !.os = "exited", !.stdout = out] = With("exited", out)
    BY <1>1, <2>1 DEF Sessions
  <2>4. ASSUME NEW answer \in Answers(line.of) PROVE c.stdout \o answer \in Seq(AgentLines)
    <3>1. \A type \in Types \ {"session.exited"} : LineOf(type, line.of) \in AgentLines
      BY <2>1, LineOfType DEF AgentLines, LineOf
    <3>2. {LineOf("not-json", line.of), LineOf("output.completed", line.of),
           LineOf("usage.updated", line.of)} \subseteq AgentLines
      BY <3>1 DEF Types
    <3>3. answer \in Seq(AgentLines)
      <4> DEFINE a == LineOf("not-json", line.of)
                 b == LineOf("output.completed", line.of)
                 u == LineOf("usage.updated", line.of)
      <4>1. answer \in {<<>>, <<a>>, <<b, u>>}
        BY DEF Answers
      <4>2. a \in AgentLines /\ b \in AgentLines /\ u \in AgentLines
        BY <3>2
      <4> HIDE DEF a, b, u
      <4>3. <<>> \in Seq(AgentLines) /\ <<a>> \in Seq(AgentLines) /\ <<b, u>> \in Seq(AgentLines)
        BY <4>2
      <4> QED
        BY <4>1, <4>3, Zenon
    <3> QED
      BY <1>3, <3>3, AgentLinesType
  <2>5. Append(c.stdout, Line("session.interrupted")) \in Seq(AgentLines)
    BY <1>3, <1>5, AgentLinesType DEF Types
  <2>6. ASSUME NEW n \in 0..Len(c.stdout) PROVE SubSeq(c.stdout, 1, n) \in Seq(AgentLines)
    BY <1>3, AgentLinesType
  <2>7. ASSUME NEW os \in {"running", "exited"}, NEW out \in Seq(AgentLines),
               Update(p, With(os, out)), UNCHANGED <<dispatching, turn, sent, interrupts>>
        PROVE  SafeInv'
    BY <1>4, <2>7
  <2>8. CASE \E answer \in Answers(line.of) : Update(p, [rest EXCEPT !.stdout = @ \o answer])
    <3>1. PICK answer \in Answers(line.of) : Update(p, [rest EXCEPT !.stdout = @ \o answer])
      BY <2>8
    <3>2. Update(p, With("running", c.stdout \o answer))
      BY <2>2, <2>3, <3>1
    <3> QED
      BY <1>7, <2>4, <2>7, <3>2 DEF AgentReads
  <2>9. CASE Update(p, [rest EXCEPT !.stdout = Append(@, Line("session.interrupted"))])
    <3>1. Update(p, With("running", Append(c.stdout, Line("session.interrupted"))))
      BY <2>2, <2>3, <2>9
    <3> QED
      BY <1>7, <2>5, <2>7, <3>1 DEF AgentReads
  <2>10. CASE \E n \in 0..Len(rest.stdout) :
                 Update(p, [rest EXCEPT !.os = "exited", !.stdout = SubSeq(@, 1, n)])
    <3>1. PICK n \in 0..Len(c.stdout) : Update(p, With("exited", SubSeq(c.stdout, 1, n)))
      BY <2>2, <2>3, <2>10
    <3> QED
      BY <1>7, <2>6, <2>7, <3>1 DEF AgentReads
  <2> QED
    BY <1>7, <2>8, <2>9, <2>10 DEF AgentReads
<1>8. CASE AgentExits(p) \/ AgentDies(p)
  <2>1. [c EXCEPT !.os = "exited"] = [c EXCEPT !.os = "exited", !.stdin = c.stdin, !.stdout = c.stdout]
    BY <1>1 DEF Sessions
  <2> QED
    BY <1>3, <1>4, <1>8, <2>1 DEF AgentExits, AgentDies, Exits
<1> QED
  BY <1>6, <1>7, <1>8 DEF Agent

\* What the adapter reads.
LEMMA EventStepSafe ==
    ASSUME AgentTypeOK, SafeInv, NEW p \in Procs, ChildData(p) \/ ChildCloses(p)
    PROVE  SafeInv'
<1> DEFINE c == proc[p]
<1>1. SessionOK(c) /\ c \in Sessions
  BY SessionType DEF SafeInv
<1>2. CASE ChildData(p)
  <2> DEFINE line  == Head(c.stdout)
             event == IF line.type = "not-json" THEN LineOf("adapter.error", line.of) ELSE line
             d     == Pushed([c EXCEPT !.stdout = Tail(@)], event)
  <2>1. /\ d.os = c.os /\ d.start = c.start /\ d.registered = c.registered
        /\ d.killed = c.killed /\ d.stdout = Tail(c.stdout) /\ d.lines = Append(c.lines, event)
    BY <1>1 DEF Pushed, Sessions
  <2>2. /\ Interrupted(c).os = c.os /\ Interrupted(c).start = c.start
        /\ Interrupted(c).registered = c.registered /\ Interrupted(c).killed = c.killed
        /\ Interrupted(c).stdout = Tail(c.stdout) /\ Interrupted(c).lines = c.lines
    BY <1>1 DEF Interrupted, Sessions
  <2>3. c.os # "closed" =>
           Tail(c.stdout) \in Seq(AgentLines) /\ Append(c.lines, event) \in Seq(AgentLines)
    <3>1. SUFFICES ASSUME c.os # "closed"
                   PROVE  Tail(c.stdout) \in Seq(AgentLines)
                          /\ Append(c.lines, event) \in Seq(AgentLines)
      OBVIOUS
    <3>2. Tail(c.stdout) \in Seq(AgentLines) /\ line \in AgentLines /\ c.lines \in Seq(AgentLines)
      BY <1>1, <1>2, <3>1, AgentLinesType DEF SessionOK, ChildData
    <3>3. event \in AgentLines
      BY <3>2, LineOfType DEF AgentLines, LineSet, LineOf, Types
    <3> QED
      BY <3>2, <3>3, AgentLinesType
  <2> HIDE DEF d, event
  <2>4. SessionOK(d) /\ SessionOK(Interrupted(c))
    BY <1>1, <2>1, <2>2, <2>3 DEF SessionOK, Live
  <2>5. Update(p, d) \/ Update(p, Interrupted(c))
    BY <1>2 DEF ChildData, d, event
  <2>6. CASE Update(p, d)
    BY <2>1, <2>4, <2>6, SafeUpdate
  <2>7. CASE Update(p, Interrupted(c))
    BY <2>2, <2>4, <2>7, SafeUpdate
  <2> QED
    BY <2>5, <2>6, <2>7
<1>3. CASE ChildCloses(p)
  <2> DEFINE d == Pushed([c EXCEPT !.os = "closed", !.stdin = <<>>, !.stdout = <<>>,
                                   !.waiters = 0], Line("session.exited"))
  <2>1. d.os = "closed" /\ d.start = c.start /\ d.registered = c.registered
    BY <1>1 DEF Pushed, Sessions
  <2>2. Update(p, d) /\ c.os = "exited"
    BY <1>3 DEF ChildCloses
  <2> HIDE DEF d
  <2>3. SessionOK(d)
    BY <1>1, <2>1, <2>2 DEF SessionOK, Live
  <2> QED
    BY <2>1, <2>2, <2>3, SafeUpdate
<1> QED
  BY <1>2, <1>3

\* A start is the next process of its employee.
LEMMA StartSafe == ASSUME AgentTypeOK, SafeInv, NEW p \in Procs, Start(p) PROVE SafeInv'
<1>1. PICK first \in Spawned :
         proc' = [q \in Procs |-> IF q = p THEN first ELSE Replaced(proc[q])]
  BY DEF Start
<1>2. ASSUME NEW q \in Procs PROVE SessionOK(proc[q])
  BY DEF SafeInv
<1>3. ASSUME NEW q \in Procs, proc[q].start = "started" PROVE ~proc[q].registered
  <2>1. CASE Current(q)
    BY <2>1 DEF Start
  <2>2. CASE ~Current(q)
    <3>1. PICK r \in Procs : q < r /\ proc[r].start = "started"
      BY <1>3, <2>2 DEF Current, Procs
    <3>2. proc[r].os # "none"
      BY <1>2, <3>1 DEF SessionOK
    <3> QED
      BY <3>1, <3>2 DEF SafeInv, InOrder
  <2> QED
    BY <2>1, <2>2
<1>4. ASSUME NEW q \in Procs
      PROVE  LET d == Replaced(proc[q])
             IN d.os = proc[q].os /\ d.start = proc[q].start /\ ~d.registered /\ SessionOK(d)
  <2> DEFINE d == Replaced(proc[q])
  <2>1. /\ d.os = proc[q].os /\ d.start = proc[q].start /\ d.killed = Live(proc[q])
        /\ d.registered = FALSE /\ d.lines = <<>> /\ d.stdout = <<>>
    BY DEF Replaced, NoProcess
  <2>2. Live(d) = Live(proc[q]) /\ Live(proc[q]) \in BOOLEAN
    BY <2>1 DEF Live
  <2> HIDE DEF d
  <2>3. SessionOK(d)
    BY <1>2, <1>3, <2>1, <2>2, AgentLinesType DEF SessionOK
  <2> QED
    BY <2>1, <2>3 DEF d
<1>5. SessionOK(first)
  BY AgentLinesType DEF Spawned, NoProcess, SessionOK, Live
<1>6. ASSUME NEW q \in Procs PROVE SessionOK(proc'[q])
  BY <1>1, <1>4, <1>5
<1>7. ASSUME NEW q \in Procs, NEW r \in Procs, q < r, proc'[r].os # "none"
      PROVE  proc'[q].start \in Settled /\ ~proc'[q].registered
  <2>1. proc[p].os = "none" /\ \A s \in Procs : s < p => proc[s].start \in Settled
    BY DEF Start, Procs, Settled
  <2>2. proc[p].start \notin Settled
    BY <1>2, <2>1 DEF SessionOK, Settled
  <2>3. q # p
    <3>1. SUFFICES ASSUME q = p PROVE FALSE
      OBVIOUS
    <3>2. r # p
      BY <1>7, <3>1 DEF Procs
    <3>3. proc[r].os # "none"
      BY <1>1, <1>4, <1>7, <3>2
    <3> QED
      BY <1>7, <2>2, <3>1, <3>3 DEF SafeInv, InOrder
  <2>4. proc[q].start \in Settled
    <3>1. CASE r = p
      BY <1>7, <2>1, <3>1
    <3>2. CASE r # p
      <4>1. proc[r].os # "none"
        BY <1>1, <1>4, <1>7, <3>2
      <4> QED
        BY <1>7, <4>1 DEF SafeInv, InOrder
    <3> QED
      BY <3>1, <3>2
  <2> QED
    BY <1>1, <1>4, <2>3, <2>4
<1> QED
  BY <1>6, <1>7 DEF SafeInv, InOrder, SessionOK, Live

\* What becomes of a start.
LEMMA StartingStepSafe ==
    ASSUME AgentTypeOK, SafeInv, NEW p \in Procs, Starting(p) PROVE SafeInv'
<1> DEFINE c == proc[p]
<1>1. SessionOK(c) /\ c \in Sessions
  BY SessionType DEF SafeInv
<1>2. CASE FirstLine(p)
  <2> DEFINE d == [c EXCEPT !.lines = Tail(@)]
             started == [d EXCEPT !.start = "started", !.registered = TRUE]
             reaping == [Kill(d) EXCEPT !.start = "reaping"]
  <2>1. /\ started.os = c.os /\ started.start = "started" /\ started.registered
        /\ started.lines = Tail(c.lines) /\ started.stdout = c.stdout
        /\ reaping.os = c.os /\ reaping.start = "reaping" /\ reaping.registered = c.registered
        /\ reaping.lines = Tail(c.lines) /\ reaping.stdout = c.stdout
        /\ Live(c) => reaping.killed
    BY <1>1 DEF Kill, Live, Sessions
  <2>2. Update(p, started) \/ Update(p, reaping)
    BY <1>2 DEF FirstLine
  <2>3. c.os # "closed" => Tail(c.lines) \in Seq(AgentLines) /\ c.stdout \in Seq(AgentLines)
    BY <1>1, <1>2, AgentLinesType DEF FirstLine, SessionOK
  <2>4. c.start = "first line"
    BY <1>2 DEF FirstLine
  <2> HIDE DEF d, started, reaping
  <2>5. SessionOK(started) /\ SessionOK(reaping)
    BY <1>1, <2>1, <2>3, <2>4 DEF SessionOK, Live
  <2>6. CASE Update(p, started)
    BY <2>1, <2>4, <2>5, <2>6, SafeUpdate DEF Settled
  <2>7. CASE Update(p, reaping)
    BY <2>1, <2>4, <2>5, <2>7, SafeUpdate DEF Settled
  <2> QED
    BY <2>2, <2>6, <2>7
<1>3. CASE StartTimeout(p)
  <2> DEFINE d == [Kill(c) EXCEPT !.start = "reaping"]
  <2>1. /\ d.os = c.os /\ d.start = "reaping" /\ d.registered = c.registered
        /\ d.lines = c.lines /\ d.stdout = c.stdout
        /\ Live(c) => d.killed
    BY <1>1 DEF Kill, Live, Sessions
  <2>2. Update(p, d) /\ c.start = "first line"
    BY <1>3 DEF StartTimeout
  <2> HIDE DEF d
  <2>3. SessionOK(d)
    BY <1>1, <2>1, <2>2 DEF SessionOK, Live
  <2> QED
    BY <2>1, <2>2, <2>3, SafeUpdate DEF Settled
<1>4. CASE StartRejected(p)
  <2> DEFINE d(start) == [c EXCEPT !.start = start]
  <2>1. ASSUME NEW start
        PROVE  /\ d(start).os = c.os /\ d(start).start = start /\ d(start).killed = c.killed
               /\ d(start).registered = c.registered
               /\ d(start).lines = c.lines /\ d(start).stdout = c.stdout
    BY <1>1 DEF Sessions
  <2>2. PICK start \in {"rejected", "abandoned"} :
           Update(p, d(start)) /\ (start = "rejected" => c.os = "closed")
    BY <1>4 DEF StartRejected
  <2>3. c.start \in {"reaping", "aborting"}
    BY <1>4 DEF StartRejected
  <2> HIDE DEF d
  <2>4. SessionOK(d(start))
    BY <1>1, <2>1, <2>2, <2>3 DEF SessionOK, Live
  <2> QED
    BY <2>1, <2>2, <2>3, <2>4, SafeUpdate DEF Settled
<1> QED
  BY <1>2, <1>3, <1>4 DEF Starting

\* Steps that neither start nor end anything.
LEMMA SameSafe ==
    ASSUME AgentTypeOK, SafeInv, NEW p \in Procs, NEW d, Update(p, d),
           d.os = proc[p].os, d.start = proc[p].start, d.registered = proc[p].registered,
           proc[p].killed => d.killed, d.lines = proc[p].lines, d.stdout = proc[p].stdout
    PROVE  SafeInv'
<1>1. SessionOK(d)
  BY DEF SafeInv, SessionOK, Live
<1> QED
  BY <1>1, SafeUpdate

LEMMA CallStepSafe ==
    ASSUME AgentTypeOK, SafeInv, NEW p \in Procs,
           Send(p) \/ Interrupt(p) \/ Stop(p) \/ StopTimeout(p) \/ ForceStop(p)
    PROVE  SafeInv'
<1> DEFINE c == proc[p]
<1>1. c \in Sessions
  BY SessionType
<1>2. CASE Send(p)
  <2>1. CASE proc' = proc
    BY <2>1 DEF SafeInv, InOrder, SessionOK, Live
  <2>2. ASSUME NEW ok \in BOOLEAN, Update(p, Written(c, LineOf("message", sent + 1), ok))
        PROVE  SafeInv'
    BY <1>1, <2>2, SameSafe DEF Written, Sessions
  <2> QED
    BY <1>2, <2>1, <2>2 DEF Send
<1>3. CASE Interrupt(p)
  <2> DEFINE d(ok) == [Written(c, Line("interrupt"), ok) EXCEPT
                         !.waiters = IF ok THEN @ + 1 ELSE @]
  <2>1. PICK ok \in BOOLEAN : Update(p, d(ok))
    BY <1>3 DEF Interrupt
  <2>2. /\ d(ok).os = c.os /\ d(ok).start = c.start /\ d(ok).registered = c.registered
        /\ d(ok).killed = c.killed /\ d(ok).lines = c.lines /\ d(ok).stdout = c.stdout
    BY <1>1 DEF Written, Sessions
  <2> HIDE DEF d
  <2> QED
    BY <2>1, <2>2, SameSafe
<1>4. CASE Stop(p)
  <2> DEFINE d(ok) == [Written(c, Line("stop"), ok) EXCEPT
                         !.stopping = IF ok THEN "asked" ELSE "failed"]
             e == [c EXCEPT !.stopping = "closing"]
  <2>1. ASSUME NEW ok \in BOOLEAN
        PROVE  /\ d(ok).os = c.os /\ d(ok).start = c.start /\ d(ok).registered = c.registered
               /\ d(ok).killed = c.killed /\ d(ok).lines = c.lines /\ d(ok).stdout = c.stdout
    BY <1>1 DEF Written, Sessions
  <2>2. /\ e.os = c.os /\ e.start = c.start /\ e.registered = c.registered
        /\ e.killed = c.killed /\ e.lines = c.lines /\ e.stdout = c.stdout
    BY <1>1 DEF Sessions
  <2>3. (\E ok \in BOOLEAN : Update(p, d(ok))) \/ Update(p, e)
    BY <1>4 DEF Stop
  <2> HIDE DEF d, e
  <2> QED
    BY <2>1, <2>2, <2>3, SameSafe
<1>5. CASE StopTimeout(p) \/ ForceStop(p)
  <2> DEFINE d == [Kill(c) EXCEPT !.stopping = "closing"]
             e == [Kill(c) EXCEPT !.forced = "closing"]
  <2>1. /\ d.os = c.os /\ d.start = c.start /\ d.registered = c.registered
        /\ c.killed => d.killed
        /\ d.lines = c.lines /\ d.stdout = c.stdout
    BY <1>1 DEF Kill, Sessions
  <2>2. /\ e.os = c.os /\ e.start = c.start /\ e.registered = c.registered
        /\ c.killed => e.killed
        /\ e.lines = c.lines /\ e.stdout = c.stdout
    BY <1>1 DEF Kill, Sessions
  <2>3. Update(p, d) \/ Update(p, e)
    BY <1>5 DEF StopTimeout, ForceStop
  <2> HIDE DEF d, e
  <2> QED
    BY <2>1, <2>2, <2>3, SameSafe
<1> QED
  BY <1>2, <1>3, <1>4, <1>5

\* A session is forgotten by who has seen its process close.
LEMMA ForgetSafe ==
    ASSUME AgentTypeOK, SafeInv, NEW p \in Procs, NEW d, Update(p, d),
           proc[p].os = "closed", ~d.registered, d.os = proc[p].os, d.start = proc[p].start
    PROVE  SafeInv'
<1>1. SessionOK(d)
  BY DEF SafeInv, SessionOK, Live
<1> QED
  BY <1>1, SafeUpdate

LEMMA EndStepSafe ==
    ASSUME AgentTypeOK, SafeInv, Yield \/ (\E p \in Procs : StopDone(p) \/ ForceStopDone(p))
    PROVE  SafeInv'
<1>1. CASE Yield
  <2> DEFINE p == turn.proc
             c == proc[p]
             d == [c EXCEPT !.lines = Tail(@),
                            !.registered = @ /\ (turn.aborted \/ Head(c.lines).type # "session.exited")]
  <2>1. p \in Procs
    BY <1>1 DEF Yield, InTurn, AgentTypeOK
  <2>2. c \in Sessions /\ SessionOK(c) /\ c.lines # <<>> /\ Update(p, d)
    BY <1>1, <2>1, SessionType DEF Yield, SafeInv
  <2>3. /\ d.os = c.os /\ d.start = c.start /\ d.killed = c.killed /\ d.stdout = c.stdout
        /\ d.lines = Tail(c.lines)
        /\ d.registered = (c.registered /\ (turn.aborted \/ Head(c.lines).type # "session.exited"))
    BY <2>2 DEF Sessions
  <2>4. d.registered => c.registered
    BY <2>3
  <2>5. c.os # "closed" =>
           Tail(c.lines) \in Seq(AgentLines) /\ (c.registered => d.registered)
    BY <2>2, <2>3, AgentLinesType DEF SessionOK, AgentLines
  <2> HIDE DEF d, c, p
  <2>6. SessionOK(d)
    BY <2>2, <2>3, <2>4, <2>5 DEF SessionOK, Live
  <2> QED
    BY <2>1, <2>2, <2>3, <2>4, <2>6, SafeUpdate DEF c
<1>2. ASSUME NEW p \in Procs, StopDone(p) \/ ForceStopDone(p) PROVE SafeInv'
  <2> DEFINE c == proc[p]
             d == [c EXCEPT !.stopping = "done", !.registered = FALSE]
             e == [c EXCEPT !.forced = "done", !.registered = FALSE]
  <2>1. c \in Sessions
    BY SessionType
  <2>2. /\ d.os = c.os /\ d.start = c.start /\ ~d.registered
        /\ e.os = c.os /\ e.start = c.start /\ ~e.registered
    BY <2>1 DEF Sessions
  <2>3. c.os = "closed" /\ (Update(p, d) \/ Update(p, e))
    BY <1>2 DEF StopDone, ForceStopDone
  <2> HIDE DEF d, e
  <2>4. CASE Update(p, d)
    BY <2>2, <2>3, <2>4, ForgetSafe
  <2>5. CASE Update(p, e)
    BY <2>2, <2>3, <2>5, ForgetSafe
  <2> QED
    BY <2>3, <2>4, <2>5
<1> QED
  BY <1>1, <1>2

LEMMA NextSafe == AgentTypeOK /\ SafeInv /\ [Next]_vars => SafeInv'
<1> SUFFICES ASSUME AgentTypeOK, SafeInv, [Next]_vars PROVE SafeInv'
  OBVIOUS
<1>1. CASE UNCHANGED proc
  BY <1>1 DEF SafeInv, InOrder, SessionOK, Live
<1>2. ASSUME NEW p \in Procs, Agent(p) \/ Events(p) PROVE SafeInv'
  BY <1>2, AgentStepSafe, EventStepSafe DEF Events
<1>3. ASSUME NEW p \in Procs, Starting(p) \/ Stopping(p) \/ ForceStopDone(p) PROVE SafeInv'
  BY <1>3, StartingStepSafe, CallStepSafe, EndStepSafe DEF Stopping
<1>4. ASSUME NEW p \in Procs, Calls(p) PROVE SafeInv'
  BY <1>4, StartSafe, CallStepSafe DEF Calls
<1>5. CASE Yield
  BY <1>5, EndStepSafe
<1>6. TurnEnds \/ StopDispatching \/ UNCHANGED vars => UNCHANGED proc
  BY DEF TurnEnds, StopDispatching, vars
<1> QED
  BY <1>1, <1>2, <1>3, <1>4, <1>5, <1>6 DEF Next

\* The invariant holds in every state.
LEMMA SafeAlways == Spec => [](AgentTypeOK /\ SafeInv)
<1>1. Init => AgentTypeOK /\ SafeInv
  BY InitType, InitSafe
<1>2. AgentTypeOK /\ SafeInv /\ [Next]_vars => (AgentTypeOK /\ SafeInv)'
  BY NextType, NextSafe
<1> QED
  BY <1>1, <1>2, PTL DEF Spec

\* A start that is rejected leaves no process behind (#start, #abortFailedStart).
THEOREM RejectedStart == Spec => []RejectedStartLeavesNothing
<1>1. SafeInv => RejectedStartLeavesNothing
  BY DEF SafeInv, SessionOK, RejectedStartLeavesNothing
<1> QED
  BY <1>1, SafeAlways, PTL

\* A session that stop, forceStop or the last event of a turn has forgotten is closed.
THEOREM ForgottenSession == Spec => []ForgottenSessionIsClosed
<1>1. SafeInv => ForgottenSessionIsClosed
  BY DEF SafeInv, SessionOK, ForgottenSessionIsClosed
<1> QED
  BY <1>1, SafeAlways, PTL

\* Two processes of an employee are never at work at once, except one that was abandoned
\* when it had been killed.
THEOREM SingleProcess == Spec => []OneProcess
<1>1. ASSUME SafeInv, NEW p \in Procs, NEW q \in Procs, p < q,
             proc[p].os \notin {"none", "closed"}, proc[q].os \notin {"none", "closed"}
      PROVE  proc[p].start = "abandoned"
  <2>1. proc[p].start \in Settled /\ ~proc[p].registered /\ SessionOK(proc[p])
    BY <1>1 DEF SafeInv, InOrder
  <2> QED
    BY <1>1, <2>1 DEF SessionOK, Settled
<1>2. SafeInv => OneProcess
  <2> SUFFICES ASSUME SafeInv, NEW p \in Procs, NEW q \in Procs, p # q,
                      proc[p].os \notin {"none", "closed"}, proc[q].os \notin {"none", "closed"}
               PROVE  "abandoned" \in {proc[p].start, proc[q].start}
    BY DEF OneProcess
  <2>1. p < q \/ q < p
    BY DEF Procs
  <2> QED
    BY <1>1, <2>1
<1> QED
  BY <1>2, SafeAlways, PTL

-----------------------------------------------------------------------------
(* Lines about a message.                                                   *)

\* The session.* lines and the orders to an agent belong to no message.
Plain == {"session.started", "interrupt", "stop", "session.interrupted", "session.exited"}
TurnLineSet == {line \in LineSet : line.of = 0 => line.type \in Plain}
OkLines(s) == \A i \in DOMAIN s : s[i] \in TurnLineSet

\* Is a line about a message among s, and one after which nothing more of it comes
Busy(s) == \E i \in DOMAIN s : s[i].of # 0
Final(line) == line.of # 0 /\ line.type # "output.completed"
HasFinal(s) == \E i \in DOMAIN s : Final(s[i])
Ordered(s) == \A i, j \in DOMAIN s : i < j /\ Final(s[i]) => s[j].of = 0
Of(s, m) == \A i \in DOMAIN s : s[i].of \in {0, m}

LEMMA NoLine == /\ ~Busy(<<>>) /\ ~HasFinal(<<>>) /\ Ordered(<<>>) /\ OkLines(<<>>)
                /\ \A m : Of(<<>>, m)
BY DEF Busy, HasFinal, Ordered, OkLines, Of

LEMMA OneMoreLine ==
    ASSUME NEW s \in Lines, NEW line \in LineSet
    PROVE  /\ Append(s, line) \in Lines
           /\ Busy(Append(s, line)) <=> Busy(s) \/ line.of # 0
           /\ HasFinal(Append(s, line)) <=> HasFinal(s) \/ Final(line)
           /\ Ordered(Append(s, line)) <=> Ordered(s) /\ (HasFinal(s) => line.of = 0)
           /\ OkLines(Append(s, line)) <=> OkLines(s) /\ line \in TurnLineSet
           /\ \A m : Of(Append(s, line), m) <=> Of(s, m) /\ line.of \in {0, m}
<1> DEFINE t == Append(s, line)
           n == Len(s) + 1
<1>1. /\ Len(s) \in Nat /\ DOMAIN s = 1..Len(s) /\ DOMAIN t = 1..n /\ t \in Lines
      /\ t[n] = line /\ \A i \in 1..Len(s) : t[i] = s[i]
  BY AppendLine DEF Lines, LineSet
<1>2. \A i \in 1..n : i \in 1..Len(s) \/ i = n
  BY <1>1
<1>3. \A i \in 1..Len(s) : i \in 1..n /\ i < n
  BY <1>1
<1>4. n \in 1..n /\ n \notin 1..Len(s)
  BY <1>1
<1> HIDE DEF t, n
<1>5. Busy(t) <=> Busy(s) \/ line.of # 0
  BY <1>1, <1>2, <1>3, <1>4 DEF Busy
<1>6. HasFinal(t) <=> HasFinal(s) \/ Final(line)
  BY <1>1, <1>2, <1>3, <1>4 DEF HasFinal
<1>7. Ordered(t) <=> Ordered(s) /\ (HasFinal(s) => line.of = 0)
  <2>1. ASSUME Ordered(t) PROVE Ordered(s) /\ (HasFinal(s) => line.of = 0)
    BY <1>1, <1>3, <1>4, <2>1 DEF Ordered, HasFinal
  <2>2. ASSUME Ordered(s), HasFinal(s) => line.of = 0 PROVE Ordered(t)
    <3> SUFFICES ASSUME NEW i \in 1..n, NEW j \in 1..n, i < j, Final(t[i]) PROVE t[j].of = 0
      BY <1>1 DEF Ordered
    <3>1. i \in 1..Len(s)
      BY <1>1, <1>2, <1>3
    <3>2. CASE j = n
      BY <1>1, <2>2, <3>1, <3>2 DEF HasFinal
    <3>3. CASE j \in 1..Len(s)
      BY <1>1, <2>2, <3>1, <3>3 DEF Ordered
    <3> QED
      BY <1>2, <3>2, <3>3
  <2> QED
    BY <2>1, <2>2
<1>8. OkLines(t) <=> OkLines(s) /\ line \in TurnLineSet
  BY <1>1, <1>2, <1>3, <1>4 DEF OkLines
<1>9. \A m : Of(t, m) <=> Of(s, m) /\ line.of \in {0, m}
  BY <1>1, <1>2, <1>3, <1>4 DEF Of
<1> QED
  BY <1>1, <1>5, <1>6, <1>7, <1>8, <1>9 DEF t

LEMMA OneLineLess ==
    ASSUME NEW s \in Lines, s # <<>>
    PROVE  /\ Tail(s) \in Lines /\ Head(s) \in LineSet
           /\ Busy(s) <=> Head(s).of # 0 \/ Busy(Tail(s))
           /\ HasFinal(s) <=> Final(Head(s)) \/ HasFinal(Tail(s))
           /\ Ordered(s) => Ordered(Tail(s)) /\ (Final(Head(s)) => ~Busy(Tail(s)))
           /\ OkLines(s) <=> OkLines(Tail(s)) /\ Head(s) \in TurnLineSet
           /\ \A m : Of(s, m) <=> Of(Tail(s), m) /\ Head(s).of \in {0, m}
<1> DEFINE t == Tail(s)
           line == Head(s)
<1>1. /\ Len(s) \in Nat /\ DOMAIN s = 1..Len(s) /\ DOMAIN t = 1..(Len(s) - 1) /\ t \in Lines
      /\ line \in LineSet /\ s[1] = line /\ \A i \in 1..(Len(s) - 1) : t[i] = s[i + 1]
  <2>1. s \in Seq(LineSet)
    BY DEF Lines, LineSet
  <2> QED
    BY <2>1, TailLine
<1>2. \A i \in 1..Len(s) : i = 1 \/ (i - 1 \in 1..(Len(s) - 1) /\ t[i - 1] = s[i])
  BY <1>1
<1>3. \A i \in 1..(Len(s) - 1) : i + 1 \in 1..Len(s) /\ 1 < i + 1
  BY <1>1
<1>4. 1 \in 1..Len(s)
  <2>1. s \in Seq(LineSet)
    BY DEF Lines, LineSet
  <2> QED
    BY <2>1
<1> HIDE DEF t, line
<1>5. Busy(s) <=> line.of # 0 \/ Busy(t)
  <2>1. ASSUME Busy(s) PROVE line.of # 0 \/ Busy(t)
    <3>1. PICK i \in 1..Len(s) : s[i].of # 0
      BY <1>1, <2>1 DEF Busy
    <3>2. i = 1 \/ (i - 1 \in 1..(Len(s) - 1) /\ t[i - 1] = s[i])
      BY <1>2
    <3> QED
      BY <1>1, <3>1, <3>2 DEF Busy
  <2>2. ASSUME line.of # 0 \/ Busy(t) PROVE Busy(s)
    <3>1. CASE line.of # 0
      BY <1>1, <1>4, <3>1 DEF Busy
    <3>2. CASE Busy(t)
      <4>1. PICK i \in 1..(Len(s) - 1) : t[i].of # 0
        BY <1>1, <3>2 DEF Busy
      <4>2. s[i + 1].of # 0 /\ i + 1 \in 1..Len(s)
        BY <1>1, <1>3, <4>1
      <4> QED
        BY <1>1, <4>2 DEF Busy
    <3> QED
      BY <2>2, <3>1, <3>2
  <2> QED
    BY <2>1, <2>2
<1>6. HasFinal(s) <=> Final(line) \/ HasFinal(t)
  BY <1>1, <1>2, <1>3, <1>4 DEF HasFinal
<1>7. ASSUME Ordered(s) PROVE Ordered(t) /\ (Final(line) => ~Busy(t))
  <2>1. Ordered(t)
    <3> SUFFICES ASSUME NEW i \in 1..(Len(s) - 1), NEW j \in 1..(Len(s) - 1), i < j, Final(t[i])
                 PROVE  t[j].of = 0
      BY <1>1 DEF Ordered
    <3>1. i + 1 < j + 1
      OBVIOUS
    <3> QED
      BY <1>1, <1>3, <1>7, <3>1 DEF Ordered
  <2>2. ASSUME Final(line), Busy(t) PROVE FALSE
    BY <1>1, <1>3, <1>4, <1>7, <2>2 DEF Ordered, Busy
  <2> QED
    BY <2>1, <2>2
<1>8. OkLines(s) <=> OkLines(t) /\ line \in TurnLineSet
  BY <1>1, <1>2, <1>3, <1>4 DEF OkLines
<1>9. \A m : Of(s, m) <=> Of(t, m) /\ line.of \in {0, m}
  BY <1>1, <1>2, <1>3, <1>4 DEF Of
<1> QED
  BY <1>1, <1>5, <1>6, <1>7, <1>8, <1>9 DEF t, line

\* The exit of a process stays the last thing that is said about it.
ExitIsLast(s) == \A i \in DOMAIN s : s[i].type = "session.exited" => i = Len(s)

LEMMA ExitStaysLast ==
    ASSUME NEW s \in Lines, s # <<>>, ExitIsLast(s)
    PROVE  ExitIsLast(Tail(s)) /\ (Head(s).type = "session.exited" => Tail(s) = <<>>)
<1> DEFINE t == Tail(s)
<1>1. /\ Len(s) \in Nat /\ DOMAIN s = 1..Len(s) /\ DOMAIN t = 1..(Len(s) - 1) /\ t \in Seq(LineSet)
      /\ Len(t) = Len(s) - 1 /\ s[1] = Head(s) /\ \A i \in 1..(Len(s) - 1) : t[i] = s[i + 1]
  <2>1. s \in Seq(LineSet)
    BY DEF Lines, LineSet
  <2> QED
    BY <2>1
<1>2. 1 \in 1..Len(s)
  <2>1. s \in Seq(LineSet)
    BY DEF Lines, LineSet
  <2> QED
    BY <2>1
<1> HIDE DEF t
<1>3. ExitIsLast(t)
  BY <1>1 DEF ExitIsLast
<1>4. ASSUME Head(s).type = "session.exited" PROVE t = <<>>
  <2>1. Len(s) = 1
    BY <1>1, <1>2, <1>4 DEF ExitIsLast
  <2> QED
    BY <1>1, <2>1
<1> QED
  BY <1>3, <1>4 DEF t

LEMMA SomeLines ==
    ASSUME NEW s \in Lines, NEW n \in 0..Len(s)
    PROVE  /\ SubSeq(s, 1, n) \in Lines
           /\ Busy(SubSeq(s, 1, n)) => Busy(s)
           /\ HasFinal(SubSeq(s, 1, n)) => HasFinal(s)
           /\ Ordered(s) => Ordered(SubSeq(s, 1, n))
           /\ OkLines(s) => OkLines(SubSeq(s, 1, n))
           /\ \A m : Of(s, m) => Of(SubSeq(s, 1, n), m)
<1> DEFINE t == SubSeq(s, 1, n)
<1>1. /\ t \in Lines /\ DOMAIN t = 1..n /\ DOMAIN s = 1..Len(s)
      /\ \A i \in 1..n : i \in 1..Len(s) /\ t[i] = s[i]
  <2>1. s \in Seq(LineSet) /\ Len(s) \in Nat
    BY DEF Lines, LineSet
  <2> QED
    BY <2>1, FirstLines
<1> HIDE DEF t
<1> QED
  BY <1>1 DEF Busy, HasFinal, Ordered, OkLines, Of, t

-----------------------------------------------------------------------------
(* A turn and its lines.                                                    *)

Quiet(c) == ~Busy(c.stdin) /\ ~Busy(c.stdout) /\ ~Busy(c.lines)

\* What c has of a turn is about its message, and what ends the turn comes last.
OwnTurn(c, m) ==
    /\ Of(c.stdin, m) /\ Of(c.stdout, m) /\ Of(c.lines, m)
    /\ Ordered(c.stdin) /\ Ordered(c.stdout) /\ Ordered(c.lines)
    /\ HasFinal(c.lines) => ~Busy(c.stdout) /\ ~Busy(c.stdin)
    /\ HasFinal(c.stdout) => ~Busy(c.stdin)

\* A session gets messages once it is started; behind the exit of its process is nothing.
LinesOK(c) ==
    /\ OkLines(c.stdin) /\ OkLines(c.stdout) /\ OkLines(c.lines)
    /\ c.start # "started" => Quiet(c)
    /\ c.os = "closed" =>
          /\ c.stdin = <<>> /\ c.stdout = <<>>
          /\ ExitIsLast(c.lines)

TurnOK(p) ==
    dispatching /\ Current(p) =>
       /\ turn.proc = p => ~turn.aborted
       /\ ~proc[p].refused =>
             IF turn.proc = p THEN OwnTurn(proc[p], turn.message) ELSE Quiet(proc[p])

TurnInv ==
    /\ \A p \in Procs : LinesOK(proc[p]) /\ TurnOK(p)
    /\ InTurn => proc[turn.proc].start = "started"

\* A step of d from c takes no message to the session.
Keeps(c, d) == (Quiet(c) => Quiet(d)) /\ \A m : OwnTurn(c, m) => OwnTurn(d, m)

LEMMA SameKeeps ==
    ASSUME NEW c, NEW d, d.stdin = c.stdin, d.stdout = c.stdout, d.lines = c.lines
    PROVE  Keeps(c, d)
BY DEF Keeps, Quiet, OwnTurn

LEMMA QuietOwns ==
    ASSUME NEW c, c.stdin \in Lines, c.stdout \in Lines, c.lines \in Lines, Quiet(c), NEW m
    PROVE  OwnTurn(c, m)
BY DEF Quiet, OwnTurn, Busy, Of, Ordered, HasFinal, Final

LEMMA InitTurn == Init => TurnInv
<1> SUFFICES ASSUME Init PROVE TurnInv
  OBVIOUS
<1>1. ASSUME NEW p \in Procs PROVE proc[p] = NoProcess
  BY DEF Init
<1>2. LinesOK(NoProcess)
  BY NoLine DEF LinesOK, NoProcess, Quiet
<1>3. \A p \in Procs : ~Current(p)
  BY <1>1 DEF Current, NoProcess
<1> QED
  BY <1>1, <1>2, <1>3 DEF TurnInv, TurnOK, Init, InTurn

\* The record of one process changes, but neither the turn nor what is started.
LEMMA TurnUpdate ==
    ASSUME AgentTypeOK, TurnInv, NEW p \in Procs, NEW d, Update(p, d),
           UNCHANGED <<dispatching, turn>>, LinesOK(d), Keeps(proc[p], d),
           d.start = "started" <=> proc[p].start = "started",
           proc[p].refused => d.refused
    PROVE  TurnInv'
<1>1. ASSUME NEW q \in Procs PROVE proc'[q] = IF q = p THEN d ELSE proc[q]
  BY DEF Update, AgentTypeOK
<1>2. ASSUME NEW q \in Procs
      PROVE  proc'[q].start = "started" <=> proc[q].start = "started"
  BY <1>1
<1>3. ASSUME NEW q \in Procs, Current(q)' PROVE Current(q)
  BY <1>2, <1>3 DEF Current
<1>4. ASSUME NEW q \in Procs PROVE LinesOK(proc[q])'
  BY <1>1 DEF TurnInv, LinesOK, Quiet, Busy, OkLines
<1>5. ASSUME NEW q \in Procs PROVE TurnOK(q)'
  <2> SUFFICES ASSUME dispatching, Current(q)
               PROVE  /\ turn.proc = q => ~turn.aborted
                      /\ ~proc'[q].refused =>
                            IF turn.proc = q THEN OwnTurn(proc'[q], turn.message)
                            ELSE Quiet(proc'[q])
    BY <1>3 DEF TurnOK, OwnTurn, Quiet, Of, Busy, Ordered, HasFinal, Final
  <2>1. TurnOK(q)
    BY DEF TurnInv
  <2>2. CASE q = p
    BY <1>1, <2>1, <2>2 DEF TurnOK, Keeps
  <2>3. CASE q # p
    BY <1>1, <2>1, <2>3 DEF TurnOK
  <2> QED
    BY <2>2, <2>3
<1>6. (InTurn => proc[turn.proc].start = "started")'
  <2> SUFFICES ASSUME InTurn PROVE proc'[turn.proc].start = "started"
    BY DEF InTurn
  <2>1. turn.proc \in Procs
    BY DEF InTurn, AgentTypeOK
  <2> QED
    BY <1>2, <2>1 DEF TurnInv
<1> QED
  BY <1>4, <1>5, <1>6 DEF TurnInv

\* The fields of a session, with its lines.
LEMMA LinesType ==
    ASSUME AgentTypeOK, TurnInv, NEW p \in Procs
    PROVE  /\ proc[p] \in Sessions /\ LinesOK(proc[p])
           /\ proc[p].stdin \in Lines /\ proc[p].stdout \in Lines /\ proc[p].lines \in Lines
BY SessionType DEF TurnInv

\* Lines of every kind are lines about a message or plain ones.
LEMMA KindOfLine ==
    /\ \A type \in Plain : Line(type) \in TurnLineSet /\ Line(type) \in LineSet
                           /\ Line(type).of = 0 /\ Line(type).type = type
    /\ \A type \in Types, m \in 1..MaxCalls :
          LineOf(type, m) \in TurnLineSet /\ LineOf(type, m) \in LineSet
          /\ LineOf(type, m).of = m /\ LineOf(type, m).type = type
<1>1. Plain \subseteq Types
  BY DEF Plain, Types
<1>2. ASSUME NEW type \in Plain PROVE Line(type) \in LineSet
  BY <1>1, LineType
<1>3. ASSUME NEW type \in Types, NEW m \in 1..MaxCalls PROVE LineOf(type, m) \in LineSet
  BY AgentAssumption, LineOfType
<1> QED
  BY <1>2, <1>3 DEF Line, LineOf, TurnLineSet

\* A line of no message more at the end of one of the pipes.
LEMMA PlainAppend ==
    ASSUME NEW c, NEW d, c.stdin \in Lines, c.stdout \in Lines, c.lines \in Lines, LinesOK(c),
           NEW type \in Plain,
           \/ /\ d.stdin = Append(c.stdin, Line(type)) /\ d.stdout = c.stdout /\ d.lines = c.lines
           \/ /\ d.stdout = Append(c.stdout, Line(type)) /\ d.stdin = c.stdin /\ d.lines = c.lines,
           d.start = c.start, d.os # "closed"
    PROVE  LinesOK(d) /\ Keeps(c, d)
<1> DEFINE line == Line(type)
<1>1. line \in LineSet /\ line \in TurnLineSet /\ line.of = 0 /\ ~Final(line)
  BY KindOfLine DEF Final
<1> HIDE DEF line
<1>2. CASE d.stdin = Append(c.stdin, line) /\ d.stdout = c.stdout /\ d.lines = c.lines
  <2>1. /\ Busy(d.stdin) <=> Busy(c.stdin)
        /\ HasFinal(d.stdin) <=> HasFinal(c.stdin)
        /\ Ordered(d.stdin) <=> Ordered(c.stdin)
        /\ OkLines(d.stdin) <=> OkLines(c.stdin)
        /\ \A m : Of(d.stdin, m) <=> Of(c.stdin, m)
    BY <1>1, <1>2, OneMoreLine
  <2> QED
    BY <1>2, <2>1 DEF LinesOK, Keeps, Quiet, OwnTurn
<1>3. CASE d.stdout = Append(c.stdout, line) /\ d.stdin = c.stdin /\ d.lines = c.lines
  <2>1. /\ Busy(d.stdout) <=> Busy(c.stdout)
        /\ HasFinal(d.stdout) <=> HasFinal(c.stdout)
        /\ Ordered(d.stdout) <=> Ordered(c.stdout)
        /\ OkLines(d.stdout) <=> OkLines(c.stdout)
        /\ \A m : Of(d.stdout, m) <=> Of(c.stdout, m)
    BY <1>1, <1>3, OneMoreLine
  <2> QED
    BY <1>3, <2>1 DEF LinesOK, Keeps, Quiet, OwnTurn
<1> QED
  BY <1>2, <1>3 DEF line

\* What a message is answered with, behind what the agent wrote before.
LEMMA Answered ==
    ASSUME NEW s \in Lines, NEW m \in 1..MaxCalls, NEW answer \in Answers(m)
    PROVE  /\ s \o answer \in Lines
           /\ OkLines(s) => OkLines(s \o answer)
           /\ Of(s, m) => Of(s \o answer, m)
           /\ Ordered(s) /\ ~HasFinal(s) => Ordered(s \o answer)
<1> DEFINE a == LineOf("not-json", m)
           b == LineOf("output.completed", m)
           u == LineOf("usage.updated", m)
<1>1. /\ a \in LineSet /\ b \in LineSet /\ u \in LineSet
      /\ a \in TurnLineSet /\ b \in TurnLineSet /\ u \in TurnLineSet
      /\ a.of = m /\ b.of = m /\ u.of = m /\ ~Final(b)
  BY KindOfLine DEF Types, Final
<1>2. answer \in {<<>>, <<a>>, <<b, u>>}
  BY DEF Answers
<1> HIDE DEF a, b, u
<1>3. s \in Seq(LineSet)
  BY DEF Lines, LineSet
<1>4. s \o <<>> = s /\ s \o <<a>> = Append(s, a) /\ s \o <<b, u>> = Append(Append(s, b), u)
  <2>1. s \o <<>> = s
    BY <1>3
  <2>2. s \o <<a>> = Append(s, a)
    BY <1>1, <1>3
  <2>3. s \o <<b, u>> = Append(Append(s, b), u)
    BY <1>1, <1>3
  <2> QED
    BY <2>1, <2>2, <2>3
<1>5. Append(s, b) \in Lines
  BY <1>1, OneMoreLine
<1>6. CASE answer = <<>>
  BY <1>4, <1>6
<1>7. CASE answer = <<a>>
  <2>1. /\ Append(s, a) \in Lines
        /\ Ordered(Append(s, a)) <=> Ordered(s) /\ (HasFinal(s) => a.of = 0)
        /\ OkLines(Append(s, a)) <=> OkLines(s) /\ a \in TurnLineSet
        /\ \A k : Of(Append(s, a), k) <=> Of(s, k) /\ a.of \in {0, k}
    BY <1>1, OneMoreLine
  <2> QED
    BY <1>1, <1>4, <1>7, <2>1
<1>8. CASE answer = <<b, u>>
  <2> DEFINE t == Append(s, b)
  <2>1. /\ HasFinal(t) <=> HasFinal(s)
        /\ Ordered(t) <=> Ordered(s) /\ (HasFinal(s) => b.of = 0)
        /\ OkLines(t) <=> OkLines(s) /\ b \in TurnLineSet
        /\ \A k : Of(t, k) <=> Of(s, k) /\ b.of \in {0, k}
    BY <1>1, OneMoreLine
  <2>2. /\ Append(t, u) \in Lines
        /\ Ordered(Append(t, u)) <=> Ordered(t) /\ (HasFinal(t) => u.of = 0)
        /\ OkLines(Append(t, u)) <=> OkLines(t) /\ u \in TurnLineSet
        /\ \A k : Of(Append(t, u), k) <=> Of(t, k) /\ u.of \in {0, k}
    BY <1>1, <1>5, OneMoreLine
  <2> HIDE DEF t
  <2> QED
    BY <1>1, <1>4, <1>8, <2>1, <2>2 DEF t
<1> QED
  BY <1>2, <1>6, <1>7, <1>8

LEMMA AgentStepTurn ==
    ASSUME AgentTypeOK, SafeInv, TurnInv, NEW p \in Procs, Agent(p) \/ AgentDies(p) PROVE TurnInv'
<1> DEFINE c == proc[p]
<1>1. /\ c \in Sessions /\ LinesOK(c)
      /\ c.stdin \in Lines /\ c.stdout \in Lines /\ c.lines \in Lines
  BY LinesType
<1>2. CASE AgentBoots(p)
  <2> DEFINE d == [c EXCEPT !.os = "running", !.stdout = Append(@, Line("session.started"))]
  <2>1. /\ d.stdout = Append(c.stdout, Line("session.started")) /\ d.stdin = c.stdin
        /\ d.lines = c.lines /\ d.start = c.start /\ d.os = "running" /\ d.refused = c.refused
    BY <1>1 DEF Sessions
  <2>2. Update(p, d) /\ UNCHANGED <<dispatching, turn>>
    BY <1>2 DEF AgentBoots
  <2> HIDE DEF d
  <2>3. LinesOK(d) /\ Keeps(c, d)
    BY <1>1, <2>1, PlainAppend DEF Plain
  <2> QED
    BY <2>1, <2>2, <2>3, TurnUpdate
<1>3. CASE AgentReads(p)
  <2> DEFINE line == Head(c.stdin)
             rest == [c EXCEPT !.stdin = Tail(@)]
             With(os, out) == [rest EXCEPT !.os = os, !.stdout = out]
  <2>1. /\ c.stdin # <<>> /\ c.os = "running" /\ UNCHANGED <<dispatching, turn>>
    BY <1>3 DEF AgentReads
  <2>2. /\ rest.stdout = c.stdout /\ rest.stdin = Tail(c.stdin) /\ rest.lines = c.lines
        /\ rest.start = c.start /\ rest.refused = c.refused /\ rest.os = "running"
        /\ rest \in Sessions /\ Tail(c.stdin) \in Lines
    BY <1>1, <2>1, TailLine DEF Sessions
  <2>3. ASSUME NEW os \in {"running", "exited"}, NEW out
        PROVE  LET d == With(os, out)
               IN /\ d.stdout = out /\ d.stdin = Tail(c.stdin) /\ d.lines = c.lines
                  /\ d.start = c.start /\ d.refused = c.refused /\ d.os = os
    BY <2>2 DEF Sessions
  <2>4. ASSUME NEW out PROVE [rest EXCEPT !.stdout = out] = With("running", out)
    BY <2>2 DEF Sessions
  <2>5. /\ Busy(c.stdin) <=> line.of # 0 \/ Busy(Tail(c.stdin))
        /\ HasFinal(c.stdin) <=> Final(line) \/ HasFinal(Tail(c.stdin))
        /\ Ordered(c.stdin) => Ordered(Tail(c.stdin)) /\ (Final(line) => ~Busy(Tail(c.stdin)))
        /\ OkLines(c.stdin) <=> OkLines(Tail(c.stdin)) /\ line \in TurnLineSet
        /\ \A m : Of(c.stdin, m) <=> Of(Tail(c.stdin), m) /\ line.of \in {0, m}
        /\ line \in LineSet
    BY <1>1, <2>1, OneLineLess
  <2>6. ASSUME line.type = "message", NEW answer \in Answers(line.of),
               Update(p, [rest EXCEPT !.stdout = @ \o answer])
        PROVE  TurnInv'
    <3> DEFINE out == c.stdout \o answer
               d == With("running", out)
    <3>1. line.of \in 1..MaxCalls /\ Final(line)
      <4>1. line.of # 0
        BY <1>1, <2>5, <2>6 DEF LinesOK, TurnLineSet, Plain
      <4>2. line.of \in 0..MaxCalls
        BY <2>5 DEF LineSet
      <4> QED
        BY <2>6, <4>1, <4>2, AgentAssumption DEF Final
    <3>2. /\ OkLines(c.stdout) => OkLines(out)
          /\ Of(c.stdout, line.of) => Of(out, line.of)
          /\ Ordered(c.stdout) /\ ~HasFinal(c.stdout) => Ordered(out)
      BY <1>1, <2>6, <3>1, Answered
    <3>3. /\ d.stdout = out /\ d.stdin = Tail(c.stdin) /\ d.lines = c.lines
          /\ d.start = c.start /\ d.refused = c.refused /\ d.os = "running" /\ Update(p, d)
      BY <2>2, <2>3, <2>4, <2>6
    <3> HIDE DEF line, out, d
    <3>4. Busy(c.stdin) /\ ~Quiet(c)
      BY <2>5, <3>1 DEF Quiet, Final
    <3>5. LinesOK(d)
      BY <1>1, <2>5, <3>2, <3>3, <3>4 DEF LinesOK
    <3>6. ASSUME NEW m, OwnTurn(c, m) PROVE OwnTurn(d, m)
      <4>1. m = line.of /\ ~HasFinal(c.stdout) /\ ~HasFinal(c.lines) /\ ~Busy(Tail(c.stdin))
        BY <2>5, <3>1, <3>4, <3>6 DEF OwnTurn, Final
      <4> QED
        BY <2>5, <3>2, <3>3, <3>6, <4>1 DEF OwnTurn
    <3>7. Keeps(c, d)
      BY <3>4, <3>6 DEF Keeps
    <3> QED
      BY <2>1, <3>3, <3>5, <3>7, TurnUpdate
  <2>7. ASSUME Update(p, [rest EXCEPT !.stdout = Append(@, Line("session.interrupted"))])
        PROVE  TurnInv'
    <3> DEFINE l == Line("session.interrupted")
               out == Append(c.stdout, l)
               d == With("running", out)
    <3>1. l \in LineSet /\ l \in TurnLineSet /\ l.of = 0 /\ ~Final(l)
      BY KindOfLine DEF Final, Plain
    <3>2. /\ d.stdout = out /\ d.stdin = Tail(c.stdin) /\ d.lines = c.lines
          /\ d.start = c.start /\ d.refused = c.refused /\ d.os = "running" /\ Update(p, d)
      BY <2>2, <2>3, <2>4, <2>7
    <3> HIDE DEF line, l, d
    <3>3. /\ Busy(out) <=> Busy(c.stdout)
          /\ HasFinal(out) <=> HasFinal(c.stdout)
          /\ Ordered(out) <=> Ordered(c.stdout)
          /\ OkLines(out) <=> OkLines(c.stdout)
          /\ \A m : Of(out, m) <=> Of(c.stdout, m)
      BY <1>1, <3>1, OneMoreLine
    <3> HIDE DEF out
    <3>4. LinesOK(d) /\ Keeps(c, d)
      BY <1>1, <2>5, <3>2, <3>3 DEF LinesOK, Keeps, Quiet, OwnTurn
    <3> QED
      BY <2>1, <3>2, <3>4, TurnUpdate
  <2>8. ASSUME NEW n \in 0..Len(rest.stdout),
               Update(p, [rest EXCEPT !.os = "exited", !.stdout = SubSeq(@, 1, n)])
        PROVE  TurnInv'
    <3> DEFINE out == SubSeq(c.stdout, 1, n)
               d == With("exited", out)
    <3>1. /\ d.stdout = out /\ d.stdin = Tail(c.stdin) /\ d.lines = c.lines
          /\ d.start = c.start /\ d.refused = c.refused /\ d.os = "exited" /\ Update(p, d)
      BY <2>2, <2>3, <2>8
    <3>2. /\ Busy(out) => Busy(c.stdout)
          /\ HasFinal(out) => HasFinal(c.stdout)
          /\ Ordered(c.stdout) => Ordered(out)
          /\ OkLines(c.stdout) => OkLines(out)
          /\ \A m : Of(c.stdout, m) => Of(out, m)
      BY <1>1, <2>2, <2>8, SomeLines
    <3> HIDE DEF line, d, out
    <3>3. LinesOK(d) /\ Keeps(c, d)
      BY <1>1, <2>5, <3>1, <3>2 DEF LinesOK, Keeps, Quiet, OwnTurn
    <3> QED
      BY <2>1, <3>1, <3>3, TurnUpdate
  <2> QED
    BY <1>3, <2>6, <2>7, <2>8 DEF AgentReads
<1>4. CASE AgentExits(p) \/ AgentDies(p)
  <2> DEFINE d == [c EXCEPT !.os = "exited"]
  <2>1. /\ d.stdout = c.stdout /\ d.stdin = c.stdin /\ d.lines = c.lines
        /\ d.start = c.start /\ d.refused = c.refused /\ d.os = "exited"
    BY <1>1 DEF Sessions
  <2>2. Update(p, d) /\ UNCHANGED <<dispatching, turn>>
    BY <1>4 DEF AgentExits, AgentDies, Exits
  <2> HIDE DEF d
  <2>3. LinesOK(d) /\ Keeps(c, d)
    BY <1>1, <2>1, SameKeeps DEF LinesOK, Quiet
  <2> QED
    BY <2>1, <2>2, <2>3, TurnUpdate
<1> QED
  BY <1>2, <1>3, <1>4 DEF Agent

LEMMA EventStepTurn ==
    ASSUME AgentTypeOK, SafeInv, TurnInv, NEW p \in Procs, ChildData(p) \/ ChildCloses(p)
    PROVE  TurnInv'
<1> DEFINE c == proc[p]
<1>1. /\ c \in Sessions /\ LinesOK(c) /\ SessionOK(c)
      /\ c.stdin \in Lines /\ c.stdout \in Lines /\ c.lines \in Lines
  BY LinesType DEF SafeInv
<1>2. CASE ChildData(p)
  <2> DEFINE line  == Head(c.stdout)
             event == IF line.type = "not-json" THEN LineOf("adapter.error", line.of) ELSE line
             d     == Pushed([c EXCEPT !.stdout = Tail(@)], event)
  <2>1. c.stdout # <<>> /\ UNCHANGED <<dispatching, turn>> /\ c.os # "closed"
    BY <1>1, <1>2 DEF ChildData, LinesOK
  <2>2. /\ Busy(c.stdout) <=> line.of # 0 \/ Busy(Tail(c.stdout))
        /\ HasFinal(c.stdout) <=> Final(line) \/ HasFinal(Tail(c.stdout))
        /\ Ordered(c.stdout) => Ordered(Tail(c.stdout)) /\ (Final(line) => ~Busy(Tail(c.stdout)))
        /\ OkLines(c.stdout) <=> OkLines(Tail(c.stdout)) /\ line \in TurnLineSet
        /\ \A m : Of(c.stdout, m) <=> Of(Tail(c.stdout), m) /\ line.of \in {0, m}
        /\ line \in LineSet /\ line \in TurnLineSet
    BY <1>1, <2>1, OneLineLess DEF LinesOK
  <2>3. CASE line.type = "session.interrupted"
    <3> DEFINE e == Interrupted(c)
    <3>1. /\ e.stdout = Tail(c.stdout) /\ e.stdin = c.stdin /\ e.lines = c.lines
          /\ e.start = c.start /\ e.refused = c.refused /\ e.os = c.os
      BY <1>1 DEF Interrupted, Sessions
    <3>2. Update(p, e)
      BY <1>2, <2>3 DEF ChildData
    <3> HIDE DEF e, line
    <3>3. LinesOK(e) /\ Keeps(c, e)
      BY <1>1, <2>1, <2>2, <3>1 DEF LinesOK, Keeps, Quiet, OwnTurn
    <3> QED
      BY <2>1, <3>1, <3>2, <3>3, TurnUpdate
  <2>4. CASE line.type # "session.interrupted"
    <3>1. event \in LineSet /\ event \in TurnLineSet /\ event.of = line.of /\ (Final(event) <=> Final(line))
      <4>1. CASE line.type = "not-json"
        <5>1. line.of \in 1..MaxCalls
          BY <2>2, <4>1, AgentAssumption DEF TurnLineSet, LineSet, Plain
        <5> QED
          BY <4>1, <5>1, KindOfLine DEF Types, Final
      <4>2. CASE line.type # "not-json"
        BY <2>2, <4>2
      <4> QED
        BY <4>1, <4>2
    <3>2. /\ d.stdout = Tail(c.stdout) /\ d.stdin = c.stdin /\ d.lines = Append(c.lines, event)
          /\ d.start = c.start /\ d.refused = c.refused /\ d.os = c.os
      BY <1>1 DEF Pushed, Sessions
    <3>3. Update(p, d)
      BY <1>2, <2>4 DEF ChildData
    <3> HIDE DEF d, event, line
    <3>4. /\ Busy(d.lines) <=> Busy(c.lines) \/ line.of # 0
          /\ HasFinal(d.lines) <=> HasFinal(c.lines) \/ Final(line)
          /\ Ordered(d.lines) <=> Ordered(c.lines) /\ (HasFinal(c.lines) => line.of = 0)
          /\ OkLines(d.lines) <=> OkLines(c.lines)
          /\ \A m : Of(d.lines, m) <=> Of(c.lines, m) /\ line.of \in {0, m}
      BY <1>1, <3>1, <3>2, OneMoreLine
    <3>5. LinesOK(d)
      BY <1>1, <2>1, <2>2, <3>2, <3>4 DEF LinesOK, Quiet
    <3>6. ASSUME Quiet(c) PROVE Quiet(d)
      BY <2>2, <3>2, <3>4, <3>6 DEF Quiet
    <3>7. ASSUME NEW m, OwnTurn(c, m) PROVE OwnTurn(d, m)
      BY <2>2, <3>2, <3>4, <3>7 DEF OwnTurn
    <3> QED
      BY <2>1, <3>2, <3>3, <3>5, <3>6, <3>7, TurnUpdate DEF Keeps
  <2> QED
    BY <2>3, <2>4
<1>3. CASE ChildCloses(p)
  <2> DEFINE line == Line("session.exited")
             d == Pushed([c EXCEPT !.os = "closed", !.stdin = <<>>, !.stdout = <<>>,
                                   !.waiters = 0], line)
  <2>1. /\ d.os = "closed" /\ d.start = c.start /\ d.refused = c.refused
        /\ d.stdin = <<>> /\ d.stdout = <<>> /\ d.lines = Append(c.lines, line)
    BY <1>1 DEF Pushed, Sessions
  <2>2. Update(p, d) /\ c.os = "exited" /\ UNCHANGED <<dispatching, turn>>
    BY <1>3 DEF ChildCloses
  <2>3. line \in LineSet /\ line \in TurnLineSet /\ line.of = 0 /\ ~Final(line)
    BY KindOfLine DEF Plain, Final
  <2> HIDE DEF d, line
  <2>4. /\ Busy(d.lines) <=> Busy(c.lines)
        /\ HasFinal(d.lines) <=> HasFinal(c.lines)
        /\ Ordered(d.lines) <=> Ordered(c.lines)
        /\ OkLines(d.lines) <=> OkLines(c.lines)
        /\ \A m : Of(d.lines, m) <=> Of(c.lines, m)
    BY <1>1, <2>1, <2>3, OneMoreLine
  <2>5. ExitIsLast(d.lines)
    <3>1. c.lines \in Seq(AgentLines)
      BY <1>1, <2>2 DEF SessionOK
    <3>2. c.lines \in Seq(LineSet)
      BY <1>1 DEF Lines, LineSet
    <3>3. /\ Len(c.lines) \in Nat /\ DOMAIN d.lines = 1..(Len(c.lines) + 1)
          /\ Len(d.lines) = Len(c.lines) + 1
          /\ \A i \in 1..Len(c.lines) : d.lines[i] = c.lines[i]
      BY <2>1, <2>3, <3>2
    <3>4. \A i \in 1..Len(c.lines) : c.lines[i] \in AgentLines
      BY <3>1
    <3>5. \A i \in 1..Len(c.lines) : c.lines[i].type # "session.exited"
      BY <3>4 DEF AgentLines
    <3>6. \A i \in 1..(Len(c.lines) + 1) : i \in 1..Len(c.lines) \/ i = Len(c.lines) + 1
      BY <3>3
    <3> QED
      BY <3>3, <3>5, <3>6 DEF ExitIsLast
  <2>6. LinesOK(d)
    BY <1>1, <2>1, <2>4, <2>5, NoLine DEF LinesOK, Quiet
  <2>7. Keeps(c, d)
    BY <2>1, <2>4, NoLine DEF Keeps, Quiet, OwnTurn
  <2> QED
    BY <2>1, <2>2, <2>6, <2>7, TurnUpdate
<1> QED
  BY <1>2, <1>3

LEMMA StartingStepTurn ==
    ASSUME AgentTypeOK, SafeInv, TurnInv, NEW p \in Procs, Start(p) \/ Starting(p) PROVE TurnInv'
<1> DEFINE c == proc[p]
<1>1. /\ c \in Sessions /\ LinesOK(c) /\ SessionOK(c)
      /\ c.stdin \in Lines /\ c.stdout \in Lines /\ c.lines \in Lines
  BY LinesType DEF SafeInv
<1>2. CASE Start(p)
  <2>1. PICK first \in Spawned :
           proc' = [q \in Procs |-> IF q = p THEN first ELSE Replaced(proc[q])]
    BY <1>2 DEF Start
  <2>2. /\ UNCHANGED <<dispatching, turn>> /\ ~InTurn
        /\ \A q \in Procs : Current(q) => ~dispatching
        /\ c.os = "none"
    BY <1>2 DEF Start
  <2>3. c.start # "started" /\ first.start # "started"
    BY <1>1, <2>1, <2>2 DEF SessionOK, Spawned, NoProcess
  <2>4. ASSUME NEW q \in Procs PROVE proc'[q].start = "started" <=> proc[q].start = "started"
    BY <2>1, <2>3 DEF Replaced, NoProcess
  <2>5. ASSUME NEW q \in Procs PROVE ~(dispatching /\ Current(q))'
    <3>1. Current(q)' => Current(q)
      BY <2>4 DEF Current
    <3> QED
      BY <2>2, <3>1
  <2>6. ASSUME NEW q \in Procs PROVE LinesOK(proc'[q])
    <3>1. proc'[q].stdin = <<>> /\ proc'[q].stdout = <<>> /\ proc'[q].lines = <<>>
      BY <2>1 DEF Replaced, NoProcess, Spawned
    <3> QED
      BY <3>1, NoLine DEF LinesOK, Quiet, ExitIsLast
  <2> QED
    BY <2>2, <2>5, <2>6 DEF TurnInv, TurnOK, InTurn, LinesOK, Quiet, OkLines, Busy
<1>3. CASE FirstLine(p) /\ Head(c.lines).type = "session.started"
  <2> DEFINE d == [[c EXCEPT !.lines = Tail(@)] EXCEPT !.start = "started", !.registered = TRUE]
  <2>1. /\ Update(p, d) /\ UNCHANGED turn /\ c.start = "first line" /\ c.lines # <<>>
    BY <1>3 DEF FirstLine
  <2>2. /\ d.stdin = c.stdin /\ d.stdout = c.stdout /\ d.lines = Tail(c.lines)
        /\ d.start = "started" /\ d.refused = c.refused /\ d.os = c.os
    BY <1>1 DEF Sessions
  <2> HIDE DEF d
  <2>3. ASSUME NEW q \in Procs PROVE proc'[q] = IF q = p THEN d ELSE proc[q]
    BY <2>1 DEF Update, AgentTypeOK
  <2>4. /\ Busy(c.lines) <=> Head(c.lines).of # 0 \/ Busy(Tail(c.lines))
        /\ OkLines(c.lines) <=> OkLines(Tail(c.lines)) /\ Head(c.lines) \in TurnLineSet
    BY <1>1, <2>1, OneLineLess
  <2>5. Quiet(d)
    BY <1>1, <2>1, <2>2, <2>4 DEF LinesOK, Quiet
  <2>6. LinesOK(d)
    <3>1. c.os = "closed" => ExitIsLast(Tail(c.lines))
      BY <1>1, <2>1, ExitStaysLast DEF LinesOK
    <3> QED
      BY <1>1, <2>2, <2>4, <3>1 DEF LinesOK
  <2>7. ASSUME NEW q \in Procs, Current(q)' PROVE q = p
    <3>1. SUFFICES ASSUME q # p PROVE FALSE
      OBVIOUS
    <3>2. proc[q].start = "started" /\ proc'[p].start = "started"
      BY <1>3, <2>2, <2>3, <3>1, <2>7 DEF Current
    <3>3. ~(p > q)
      BY <2>7, <3>2 DEF Current
    <3>4. p < q
      BY <3>1, <3>3 DEF Procs
    <3>5. proc[q].os # "none"
      BY <3>2 DEF SafeInv, SessionOK
    <3>6. c.start \in Settled
      BY <3>4, <3>5 DEF SafeInv, InOrder
    <3> QED
      BY <2>1, <3>6 DEF Settled
  <2>8. turn.proc # p
    <3>1. CASE InTurn
      BY <2>1, <3>1 DEF TurnInv
    <3>2. CASE ~InTurn
      BY <3>2 DEF InTurn, NoTurn, Procs
    <3> QED
      BY <3>1, <3>2
  <2>9. ASSUME NEW q \in Procs PROVE TurnOK(q)'
    <3> SUFFICES ASSUME Current(q)'
                 PROVE  /\ turn.proc = q => ~turn.aborted
                        /\ IF turn.proc = q THEN OwnTurn(proc'[q], turn.message) ELSE Quiet(proc'[q])
      BY <2>1 DEF TurnOK, OwnTurn, Quiet, Of, Busy, Ordered, HasFinal, Final
    <3> QED
      BY <2>3, <2>5, <2>7, <2>8
  <2>10. ASSUME NEW q \in Procs PROVE LinesOK(proc[q])'
    BY <2>3, <2>6 DEF TurnInv, LinesOK, Quiet, OkLines, Busy
  <2>11. (InTurn => proc[turn.proc].start = "started")'
    <3> SUFFICES ASSUME InTurn PROVE proc'[turn.proc].start = "started"
      BY <2>1 DEF InTurn
    <3>1. turn.proc \in Procs
      BY DEF InTurn, AgentTypeOK
    <3> QED
      BY <2>3, <2>8, <3>1 DEF TurnInv
  <2> QED
    BY <2>9, <2>10, <2>11 DEF TurnInv
<1>4. CASE FirstLine(p) /\ Head(c.lines).type # "session.started"
  <2> DEFINE d == [Kill([c EXCEPT !.lines = Tail(@)]) EXCEPT !.start = "reaping"]
  <2>1. /\ Update(p, d) /\ UNCHANGED <<dispatching, turn>> /\ c.start = "first line" /\ c.lines # <<>>
    BY <1>4 DEF FirstLine, AgentTypeOK
  <2>2. /\ d.stdin = c.stdin /\ d.stdout = c.stdout /\ d.lines = Tail(c.lines)
        /\ d.start = "reaping" /\ d.refused = c.refused /\ d.os = c.os
    BY <1>1 DEF Sessions, Kill
  <2> HIDE DEF d
  <2>3. /\ Busy(c.lines) <=> Head(c.lines).of # 0 \/ Busy(Tail(c.lines))
        /\ OkLines(c.lines) <=> OkLines(Tail(c.lines)) /\ Head(c.lines) \in TurnLineSet
    BY <1>1, <2>1, OneLineLess
  <2>4. Quiet(c) /\ Quiet(d)
    BY <1>1, <2>1, <2>2, <2>3 DEF LinesOK, Quiet
  <2>5. LinesOK(d)
    <3>1. c.os = "closed" => ExitIsLast(Tail(c.lines))
      BY <1>1, <2>1, ExitStaysLast DEF LinesOK
    <3> QED
      BY <1>1, <2>2, <2>3, <2>4, <3>1 DEF LinesOK
  <2>6. d.stdin \in Lines /\ d.stdout \in Lines /\ d.lines \in Lines
    BY <1>1, <2>1, <2>2, TailLine
  <2>7. Keeps(c, d)
    BY <2>4, <2>6, QuietOwns DEF Keeps
  <2> QED
    BY <2>1, <2>2, <2>5, <2>7, TurnUpdate
<1>5. CASE StartTimeout(p) \/ StartRejected(p)
  <2>1. PICK d : /\ Update(p, d) /\ UNCHANGED <<dispatching, turn>> /\ c.start # "started"
                 /\ d.stdin = c.stdin /\ d.stdout = c.stdout /\ d.lines = c.lines
                 /\ d.start # "started" /\ d.refused = c.refused /\ d.os = c.os
    <3>1. CASE StartTimeout(p)
      <4> DEFINE d == [Kill(c) EXCEPT !.start = "reaping"]
      <4>1. /\ d.stdin = c.stdin /\ d.stdout = c.stdout /\ d.lines = c.lines
            /\ d.start # "started" /\ d.refused = c.refused /\ d.os = c.os
        BY <1>1 DEF Sessions, Kill
      <4>2. Update(p, d) /\ UNCHANGED <<dispatching, turn>> /\ c.start # "started"
        BY <3>1 DEF StartTimeout
      <4> QED
        BY <4>1, <4>2
    <3>2. CASE StartRejected(p)
      <4> DEFINE d(start) == [c EXCEPT !.start = start]
      <4>1. \A start \in {"rejected", "abandoned"} :
               /\ d(start).stdin = c.stdin /\ d(start).stdout = c.stdout /\ d(start).lines = c.lines
               /\ d(start).start # "started" /\ d(start).refused = c.refused /\ d(start).os = c.os
        BY <1>1 DEF Sessions
      <4>2. /\ UNCHANGED <<dispatching, turn>> /\ c.start # "started"
            /\ \E start \in {"rejected", "abandoned"} : Update(p, d(start))
        BY <3>2 DEF StartRejected
      <4> QED
        BY <4>1, <4>2
    <3> QED
      BY <1>5, <3>1, <3>2
  <2>2. LinesOK(d) /\ Keeps(c, d)
    BY <1>1, <2>1, SameKeeps DEF LinesOK, Quiet
  <2> QED
    BY <2>1, <2>2, TurnUpdate
<1> QED
  BY <1>2, <1>3, <1>4, <1>5 DEF Starting

\* Interrupts and stops send no message.
LEMMA QuietCallsTurn ==
    ASSUME AgentTypeOK, SafeInv, TurnInv, NEW p \in Procs,
           Interrupt(p) \/ Stop(p) \/ Stopping(p) \/ ForceStop(p) \/ ForceStopDone(p)
    PROVE  TurnInv'
<1> DEFINE c == proc[p]
<1>1. /\ c \in Sessions /\ LinesOK(c)
      /\ c.stdin \in Lines /\ c.stdout \in Lines /\ c.lines \in Lines
  BY LinesType
<1>2. ASSUME NEW d, Update(p, d), UNCHANGED <<dispatching, turn>>,
             d.stdin = c.stdin, d.stdout = c.stdout, d.lines = c.lines,
             d.start = c.start, d.refused = c.refused, d.os = c.os
      PROVE  TurnInv'
  <2>1. LinesOK(d) /\ Keeps(c, d)
    BY <1>1, <1>2, SameKeeps DEF LinesOK, Quiet
  <2> QED
    BY <1>2, <2>1, TurnUpdate
<1>4. CASE Interrupt(p)
  <2> DEFINE d(ok) == [Written(c, Line("interrupt"), ok) EXCEPT !.waiters = IF ok THEN @ + 1 ELSE @]
  <2>1. PICK ok \in BOOLEAN : Update(p, d(ok))
    BY <1>4 DEF Interrupt
  <2>2. /\ d(ok).stdin = Append(c.stdin, Line("interrupt")) /\ d(ok).stdout = c.stdout
        /\ d(ok).lines = c.lines /\ d(ok).start = c.start /\ (c.refused => d(ok).refused)
        /\ d(ok).os = c.os
    BY <1>1 DEF Written, Sessions
  <2>3. UNCHANGED <<dispatching, turn>> /\ Live(c)
    BY <1>4 DEF Interrupt
  <2>4. LinesOK(d(ok)) /\ Keeps(c, d(ok))
    BY <1>1, <2>2, <2>3, PlainAppend DEF Plain, Live
  <2> HIDE DEF d
  <2> QED
    BY <2>1, <2>2, <2>3, <2>4, TurnUpdate
<1>5. CASE Stop(p)
  <2>1. UNCHANGED <<dispatching, turn>>
    BY <1>5 DEF Stop
  <2>2. ASSUME Live(c), NEW ok \in BOOLEAN,
               Update(p, [Written(c, Line("stop"), ok) EXCEPT
                            !.stopping = IF ok THEN "asked" ELSE "failed"])
        PROVE  TurnInv'
    <3> DEFINE d == [Written(c, Line("stop"), ok) EXCEPT !.stopping = IF ok THEN "asked" ELSE "failed"]
    <3>1. /\ d.stdin = Append(c.stdin, Line("stop")) /\ d.stdout = c.stdout
          /\ d.lines = c.lines /\ d.start = c.start /\ (c.refused => d.refused)
          /\ d.os = c.os
      BY <1>1 DEF Written, Sessions
    <3>2. Update(p, d)
      BY <2>2
    <3>3. LinesOK(d) /\ Keeps(c, d)
      BY <1>1, <2>2, <3>1, PlainAppend DEF Plain, Live
    <3> HIDE DEF d
    <3> QED
      BY <2>1, <3>1, <3>2, <3>3, TurnUpdate
  <2>3. ASSUME Update(p, [c EXCEPT !.stopping = "closing"]) PROVE TurnInv'
    <3> DEFINE d == [c EXCEPT !.stopping = "closing"]
    <3>1. /\ d.stdin = c.stdin /\ d.stdout = c.stdout /\ d.lines = c.lines
          /\ d.start = c.start /\ d.refused = c.refused /\ d.os = c.os
      BY <1>1 DEF Sessions
    <3> HIDE DEF d
    <3>2. Update(p, d)
      BY <2>3 DEF d
    <3> QED
      BY <1>2, <2>1, <3>1, <3>2
  <2> QED
    BY <1>5, <2>2, <2>3 DEF Stop
<1>6. CASE Stopping(p) \/ ForceStop(p) \/ ForceStopDone(p)
  <2>1. PICK d : /\ Update(p, d) /\ UNCHANGED <<dispatching, turn>>
                 /\ d.stdin = c.stdin /\ d.stdout = c.stdout /\ d.lines = c.lines
                 /\ d.start = c.start /\ d.refused = c.refused /\ d.os = c.os
    <3>1. LET d == [Kill(c) EXCEPT !.stopping = "closing"]
              e == [Kill(c) EXCEPT !.forced = "closing"]
          IN /\ d.stdin = c.stdin /\ d.stdout = c.stdout /\ d.lines = c.lines
             /\ d.start = c.start /\ d.refused = c.refused /\ d.os = c.os
             /\ e.stdin = c.stdin /\ e.stdout = c.stdout /\ e.lines = c.lines
             /\ e.start = c.start /\ e.refused = c.refused /\ e.os = c.os
      BY <1>1 DEF Kill, Sessions
    <3>2. LET d == [c EXCEPT !.stopping = "done", !.registered = FALSE]
              e == [c EXCEPT !.forced = "done", !.registered = FALSE]
          IN /\ d.stdin = c.stdin /\ d.stdout = c.stdout /\ d.lines = c.lines
             /\ d.start = c.start /\ d.refused = c.refused /\ d.os = c.os
             /\ e.stdin = c.stdin /\ e.stdout = c.stdout /\ e.lines = c.lines
             /\ e.start = c.start /\ e.refused = c.refused /\ e.os = c.os
      BY <1>1 DEF Sessions
    <3>3. UNCHANGED <<dispatching, turn>>
      BY <1>6 DEF Stopping, StopTimeout, StopDone, ForceStop, ForceStopDone
    <3>4. \/ Update(p, [Kill(c) EXCEPT !.stopping = "closing"])
          \/ Update(p, [Kill(c) EXCEPT !.forced = "closing"])
          \/ Update(p, [c EXCEPT !.stopping = "done", !.registered = FALSE])
          \/ Update(p, [c EXCEPT !.forced = "done", !.registered = FALSE])
      BY <1>6 DEF Stopping, StopTimeout, StopDone, ForceStop, ForceStopDone
    <3> QED
      BY <3>1, <3>2, <3>3, <3>4
  <2> QED
    BY <1>2, <2>1
<1> QED
  BY <1>4, <1>5, <1>6

\* A message goes to a session that has nothing left of the turn before.
LEMMA SendTurn == ASSUME AgentTypeOK, SafeInv, TurnInv, NEW p \in Procs, Send(p) PROVE TurnInv'
<1> DEFINE c == proc[p]
           m == sent + 1
           line == LineOf("message", m)
           new == [proc |-> p, message |-> m, aborted |-> ~dispatching]
<1>1. /\ c \in Sessions /\ LinesOK(c)
      /\ c.stdin \in Lines /\ c.stdout \in Lines /\ c.lines \in Lines
  BY LinesType
<1>2. /\ m \in 1..MaxCalls /\ Current(p) /\ ~InTurn /\ UNCHANGED dispatching /\ turn = NoTurn
      /\ c.start = "started"
  BY AgentAssumption DEF Send, AgentTypeOK, InTurn, Current
<1>3. line \in LineSet /\ line \in TurnLineSet /\ line.of = m
  BY <1>2, KindOfLine DEF Types
<1> HIDE DEF line, m
<1>4. turn.proc # p
  BY <1>2 DEF NoTurn, Procs
<1>5. TurnOK(p) /\ TurnInv
  BY DEF TurnInv
<1>6. dispatching /\ ~c.refused => Quiet(c)
  BY <1>2, <1>4, <1>5 DEF TurnOK
<1>7. ASSUME NEW ok \in BOOLEAN, Live(c), Update(p, Written(c, line, ok)),
             turn' = IF ok THEN new ELSE turn
      PROVE  TurnInv'
  <2> DEFINE d == Written(c, line, ok)
  <2>1. /\ d.stdin = Append(c.stdin, line) /\ d.stdout = c.stdout /\ d.lines = c.lines
        /\ d.start = c.start /\ d.os = c.os /\ d.refused = (c.refused \/ ~ok)
    BY <1>1 DEF Written, Sessions
  <2>2. ASSUME NEW q \in Procs PROVE proc'[q] = IF q = p THEN d ELSE proc[q]
    BY <1>7 DEF Update, AgentTypeOK
  <2> HIDE DEF d
  <2>3. /\ Busy(d.stdin)
        /\ Ordered(d.stdin) <=> Ordered(c.stdin) /\ (HasFinal(c.stdin) => line.of = 0)
        /\ OkLines(d.stdin) <=> OkLines(c.stdin)
        /\ \A k : Of(d.stdin, k) <=> Of(c.stdin, k) /\ line.of \in {0, k}
    BY <1>1, <1>2, <1>3, <2>1, OneMoreLine
  <2>4. LinesOK(d)
    BY <1>1, <1>2, <1>7, <2>1, <2>3 DEF LinesOK, Live
  <2>5. ASSUME Quiet(c) PROVE OwnTurn(d, m)
    <3>1. OwnTurn(c, m) /\ ~HasFinal(c.stdin) /\ ~HasFinal(c.stdout) /\ ~HasFinal(c.lines)
      BY <1>1, <2>5, QuietOwns DEF Quiet, Busy, HasFinal, Final
    <3> QED
      BY <1>3, <2>1, <2>3, <3>1 DEF OwnTurn
  <2>6. ASSUME NEW q \in Procs PROVE Current(q)' => Current(q)
    BY <2>1, <2>2 DEF Current
  <2>7. ASSUME NEW q \in Procs PROVE LinesOK(proc[q])'
    BY <2>2, <2>4 DEF TurnInv, LinesOK, Quiet, OkLines, Busy, ExitIsLast
  <2>8. ASSUME NEW q \in Procs PROVE TurnOK(q)'
    <3> SUFFICES ASSUME dispatching, Current(q)
                 PROVE  /\ turn'.proc = q => ~turn'.aborted
                        /\ ~proc'[q].refused =>
                              IF turn'.proc = q THEN OwnTurn(proc'[q], turn'.message)
                              ELSE Quiet(proc'[q])
      BY <1>2, <2>6 DEF TurnOK, OwnTurn, Quiet, Of, Busy, Ordered, HasFinal, Final
    <3>1. q = p
      <4>1. ~(q > p) /\ ~(p > q)
        BY <1>2 DEF Current
      <4> QED
        BY <4>1 DEF Procs
    <3>2. CASE ok
      <4>1. turn' = new /\ new.proc = p /\ new.message = m /\ new.aborted = FALSE
        BY <1>7, <3>2
      <4>2. ~d.refused => ~c.refused
        BY <2>1
      <4> QED
        BY <1>6, <2>2, <2>5, <3>1, <4>1, <4>2
    <3>3. CASE ~ok
      BY <1>4, <1>7, <2>1, <2>2, <3>1, <3>3
    <3> QED
      BY <3>2, <3>3
  <2>9. (InTurn => proc[turn.proc].start = "started")'
    <3>1. turn' = NoTurn \/ turn'.proc = p
      BY <1>2, <1>7
    <3> QED
      BY <1>2, <2>1, <2>2, <3>1 DEF InTurn
  <2> QED
    BY <2>7, <2>8, <2>9 DEF TurnInv
<1>8. CASE ~Live(c) /\ turn' = new /\ UNCHANGED proc
  <2>1. new.proc = p /\ new.message = m /\ new.aborted = ~dispatching
    OBVIOUS
  <2>2. ASSUME NEW q \in Procs PROVE TurnOK(q)'
    <3> SUFFICES ASSUME dispatching, Current(q)
                 PROVE  /\ new.proc = q => ~new.aborted
                        /\ ~proc[q].refused =>
                              IF new.proc = q THEN OwnTurn(proc[q], new.message) ELSE Quiet(proc[q])
      BY <1>2, <1>8 DEF TurnOK, OwnTurn, Quiet, Of, Busy, Ordered, HasFinal, Final, Current
    <3>1. q = p
      <4>1. ~(q > p) /\ ~(p > q)
        BY <1>2 DEF Current
      <4> QED
        BY <4>1 DEF Procs
    <3>2. ~c.refused => OwnTurn(c, m)
      BY <1>1, <1>6, QuietOwns
    <3> QED
      BY <2>1, <3>1, <3>2
  <2>3. ASSUME NEW q \in Procs PROVE LinesOK(proc[q])'
    BY <1>8 DEF TurnInv, LinesOK, Quiet, OkLines, Busy, ExitIsLast
  <2>4. (InTurn => proc[turn.proc].start = "started")'
    BY <1>2, <1>8, <2>1
  <2> QED
    BY <2>2, <2>3, <2>4 DEF TurnInv
<1> QED
  BY <1>7, <1>8 DEF Send, line, m

\* What ends a turn is the last thing of it.
LEMMA TurnEndsTurn ==
    ASSUME AgentTypeOK, SafeInv, TurnInv, Yield \/ TurnEnds \/ StopDispatching PROVE TurnInv'
<1>1. CASE StopDispatching
  BY <1>1 DEF StopDispatching, TurnInv, TurnOK, InTurn, NoTurn, LinesOK, Quiet, OkLines, Busy, ExitIsLast, AgentTypeOK
<1> DEFINE p == turn.proc
           c == proc[p]
<1>2. ASSUME Yield \/ TurnEnds
      PROVE  /\ p \in Procs /\ c \in Sessions /\ LinesOK(c) /\ SessionOK(c) /\ InTurn
             /\ c.stdin \in Lines /\ c.stdout \in Lines /\ c.lines \in Lines
  <2>1. p \in Procs /\ InTurn
    BY <1>2 DEF Yield, TurnEnds, InTurn, AgentTypeOK
  <2> QED
    BY <2>1, LinesType DEF SafeInv
<1>3. CASE TurnEnds
  <2>1. UNCHANGED <<proc, dispatching>> /\ turn' = NoTurn /\ c.os = "closed" /\ c.lines = <<>>
    BY <1>3 DEF TurnEnds
  <2>2. Quiet(c)
    BY <1>2, <1>3, <2>1, NoLine DEF LinesOK, Quiet
  <2>3. ASSUME NEW q \in Procs PROVE TurnOK(q)'
    <3> SUFFICES ASSUME dispatching, Current(q), ~proc[q].refused PROVE Quiet(proc[q])
      BY <2>1 DEF TurnOK, NoTurn, Procs, Quiet, Busy, Current
    <3> QED
      BY <2>2 DEF TurnInv, TurnOK
  <2> QED
    BY <2>1, <2>3 DEF TurnInv, InTurn, LinesOK, Quiet, OkLines, Busy, ExitIsLast
<1>4. CASE Yield
  <2> DEFINE event == Head(c.lines)
             d == [c EXCEPT !.lines = Tail(@),
                            !.registered = @ /\ (turn.aborted \/ event.type # "session.exited")]
  <2>1. /\ c.lines # <<>> /\ UNCHANGED dispatching /\ Update(p, d)
        /\ turn' = IF turn.aborted \/ Ends(event.type) THEN NoTurn ELSE turn
    BY <1>4 DEF Yield
  <2>2. /\ d.stdin = c.stdin /\ d.stdout = c.stdout /\ d.lines = Tail(c.lines)
        /\ d.start = c.start /\ d.os = c.os /\ d.refused = c.refused
    BY <1>2, <1>4 DEF Sessions
  <2>3. ASSUME NEW q \in Procs PROVE proc'[q] = IF q = p THEN d ELSE proc[q]
    BY <1>2, <1>4, <2>1 DEF Update, AgentTypeOK
  <2>4. /\ Tail(c.lines) \in Lines
        /\ Busy(c.lines) <=> event.of # 0 \/ Busy(Tail(c.lines))
        /\ HasFinal(c.lines) <=> Final(event) \/ HasFinal(Tail(c.lines))
        /\ Ordered(c.lines) => Ordered(Tail(c.lines)) /\ (Final(event) => ~Busy(Tail(c.lines)))
        /\ OkLines(c.lines) <=> OkLines(Tail(c.lines)) /\ event \in TurnLineSet
        /\ \A k : Of(c.lines, k) <=> Of(Tail(c.lines), k) /\ event.of \in {0, k}
    BY <1>2, <1>4, <2>1, OneLineLess
  <2>5. c.os = "closed" => ExitIsLast(Tail(c.lines)) /\ (event.type = "session.exited" => Tail(c.lines) = <<>>)
    BY <1>2, <1>4, <2>1, ExitStaysLast DEF LinesOK
  <2>6. event.type = "session.exited" => c.os = "closed"
    BY <1>2, <1>4, <2>1, AgentLinesType DEF SessionOK, AgentLines
  <2>7. event \in TurnLineSet
    BY <1>2, <1>4, <2>4 DEF LinesOK
  <2> HIDE DEF event, d
  <2>8. LinesOK(d)
    BY <1>2, <1>4, <2>2, <2>4, <2>5 DEF LinesOK, Quiet
  <2>9. Quiet(c) => Quiet(d)
    BY <2>2, <2>4 DEF Quiet
  <2>10. ASSUME OwnTurn(c, turn.message) PROVE OwnTurn(d, turn.message)
    BY <2>2, <2>4, <2>10 DEF OwnTurn
  <2>11. ASSUME OwnTurn(c, turn.message), Ends(event.type) PROVE Quiet(d)
    <3>1. CASE event.type = "session.exited"
      BY <1>2, <1>4, <2>2, <2>5, <2>6, <3>1, NoLine DEF LinesOK, Quiet
    <3>2. CASE event.type # "session.exited"
      <4>1. Final(event)
        BY <2>7, <2>11, <3>2 DEF Ends, Final, TurnLineSet, Plain
      <4> QED
        BY <2>2, <2>4, <2>11, <4>1 DEF OwnTurn, Quiet
    <3> QED
      BY <3>1, <3>2
  <2>12. ASSUME NEW q \in Procs PROVE Current(q)' => Current(q)
    BY <2>2, <2>3 DEF Current
  <2>13. ASSUME NEW q \in Procs PROVE TurnOK(q)'
    <3> SUFFICES ASSUME dispatching, Current(q)
                 PROVE  /\ turn'.proc = q => ~turn'.aborted
                        /\ ~proc'[q].refused =>
                              IF turn'.proc = q THEN OwnTurn(proc'[q], turn'.message)
                              ELSE Quiet(proc'[q])
      BY <2>1, <2>12 DEF TurnOK, OwnTurn, Quiet, Of, Busy, Ordered, HasFinal, Final
    <3>1. TurnOK(q) /\ NoTurn.proc # q
      BY DEF TurnInv, NoTurn, Procs
    <3>2. CASE q # p
      <4>1. turn'.proc # q /\ proc'[q] = proc[q]
        BY <2>1, <2>3, <3>1, <3>2
      <4> QED
        BY <3>1, <3>2, <4>1 DEF TurnOK
    <3>3. CASE q = p
      <4>1. /\ ~turn.aborted /\ (~c.refused => OwnTurn(c, turn.message))
            /\ proc'[q] = d
        BY <2>3, <3>1, <3>3 DEF TurnOK
      <4>2. CASE Ends(event.type)
        BY <2>1, <2>2, <2>11, <3>1, <3>3, <4>1, <4>2
      <4>3. CASE ~Ends(event.type)
        BY <2>1, <2>2, <2>10, <3>3, <4>1, <4>3
      <4> QED
        BY <4>2, <4>3
    <3> QED
      BY <3>2, <3>3
  <2>14. ASSUME NEW q \in Procs PROVE LinesOK(proc[q])'
    BY <2>3, <2>8 DEF TurnInv, LinesOK, Quiet, OkLines, Busy, ExitIsLast
  <2>15. (InTurn => proc[turn.proc].start = "started")'
    <3>1. turn' = turn \/ turn' = NoTurn
      BY <2>1
    <3>2. c.start = "started"
      BY <1>2, <1>4 DEF TurnInv
    <3> QED
      BY <1>2, <1>4, <2>2, <2>3, <3>1, <3>2 DEF InTurn
  <2> QED
    BY <2>13, <2>14, <2>15 DEF TurnInv
<1> QED
  BY <1>1, <1>3, <1>4

LEMMA NextTurn == AgentTypeOK /\ SafeInv /\ TurnInv /\ [Next]_vars => TurnInv'
<1> SUFFICES ASSUME AgentTypeOK, SafeInv, TurnInv, [Next]_vars PROVE TurnInv'
  OBVIOUS
<1>1. CASE UNCHANGED vars
  BY <1>1 DEF vars, TurnInv, TurnOK, InTurn, LinesOK, Quiet, OwnTurn, OkLines, Busy, Of, Ordered,
              HasFinal, Final, ExitIsLast, Current
<1>2. ASSUME NEW p \in Procs, Agent(p) \/ Events(p) PROVE TurnInv'
  BY <1>2, AgentStepTurn, EventStepTurn DEF Events
<1>3. ASSUME NEW p \in Procs, Starting(p) \/ Stopping(p) \/ ForceStopDone(p) PROVE TurnInv'
  BY <1>3, StartingStepTurn, QuietCallsTurn
<1>4. ASSUME NEW p \in Procs, Calls(p) PROVE TurnInv'
  BY <1>4, StartingStepTurn, SendTurn, QuietCallsTurn DEF Calls
<1>5. CASE Yield \/ TurnEnds \/ StopDispatching
  BY <1>5, TurnEndsTurn
<1> QED
  BY <1>1, <1>2, <1>3, <1>4, <1>5 DEF Next

LEMMA OwnLines == ASSUME AgentTypeOK, TurnInv PROVE TurnSeesItsOwnEvents
<1> SUFFICES ASSUME NEW p \in Procs, dispatching, Current(p), ~proc[p].refused,
                    NEW line \in PendingLines(proc[p])
             PROVE  turn.proc = p /\ line.of = turn.message
  BY DEF TurnSeesItsOwnEvents
<1> DEFINE c == proc[p]
<1>1. PICK s \in {c.stdin, c.stdout, c.lines} : \E i \in DOMAIN s : line = s[i] /\ line.of # 0
  BY DEF PendingLines
<1>2. ~Quiet(c)
  BY <1>1 DEF Quiet, Busy
<1>3. turn.proc = p /\ OwnTurn(c, turn.message)
  BY <1>2 DEF TurnInv, TurnOK
<1> QED
  BY <1>1, <1>3 DEF OwnTurn, Of

\* For any number of processes and messages: while the dispatch goes on, the session of the
\* employee has lines of no message but that of the turn in flight, and none between two
\* turns, unless a write was refused (send, #onData).
THEOREM TurnSeesOwn == Spec => []TurnSeesItsOwnEvents
<1>1. Init => TurnInv
  BY InitTurn
<1>2. AgentTypeOK /\ SafeInv /\ TurnInv /\ [Next]_vars => TurnInv'
  BY NextTurn
<1>3. AgentTypeOK /\ TurnInv => TurnSeesItsOwnEvents
  BY OwnLines
<1> QED
  BY <1>1, <1>2, <1>3, SafeAlways, PTL DEF Spec

-----------------------------------------------------------------------------
(* How many lines of a kind a pipe holds.                                   *)

Places(type, s) == {i \in DOMAIN s : s[i].type = type}

LEMMA CountIs ==
    ASSUME NEW s \in Lines, NEW type
    PROVE  /\ CountOf(type, s) = Cardinality(Places(type, s)) /\ CountOf(type, s) \in Nat
           /\ IsFiniteSet(Places(type, s)) /\ Places(type, s) \in SUBSET (1..Len(s))
           /\ Len(s) \in Nat /\ DOMAIN s = 1..Len(s)
<1>1. Len(s) \in Nat /\ DOMAIN s = 1..Len(s)
  BY DEF Lines
<1>2. IsFiniteSet(1..Len(s)) /\ Places(type, s) \in SUBSET (1..Len(s))
  BY <1>1, FS_Interval DEF Places
<1>3. IsFiniteSet(Places(type, s))
  BY <1>2, FS_Subset
<1> QED
  BY <1>1, <1>2, <1>3, FS_CardinalityType DEF CountOf, Places

LEMMA CountNone == ASSUME NEW type PROVE CountOf(type, <<>>) = 0
<1>1. {i \in DOMAIN <<>> : <<>>[i].type = type} = {}
  OBVIOUS
<1> QED
  BY <1>1, FS_EmptySet DEF CountOf

LEMMA CountMore ==
    ASSUME NEW s \in Lines, NEW line \in LineSet, NEW type
    PROVE  CountOf(type, Append(s, line)) = CountOf(type, s) + (IF line.type = type THEN 1 ELSE 0)
<1> DEFINE t == Append(s, line)
           n == Len(s) + 1
<1>1. /\ t \in Lines /\ Len(s) \in Nat /\ DOMAIN s = 1..Len(s) /\ DOMAIN t = 1..n
      /\ t[n] = line /\ \A i \in 1..Len(s) : t[i] = s[i]
  BY AppendLine DEF Lines, LineSet
<1>2. 1..n = (1..Len(s)) \cup {n} /\ n \notin 1..Len(s)
  BY <1>1
<1> HIDE DEF t, n
<1>3. Places(type, t) = IF line.type = type THEN Places(type, s) \cup {n} ELSE Places(type, s)
  BY <1>1, <1>2 DEF Places
<1>4. n \notin Places(type, s)
  BY <1>1, <1>2 DEF Places
<1>5. /\ CountOf(type, s) = Cardinality(Places(type, s)) /\ CountOf(type, s) \in Nat
      /\ IsFiniteSet(Places(type, s))
      /\ CountOf(type, t) = Cardinality(Places(type, t))
  BY <1>1, CountIs
<1>6. Cardinality(Places(type, s) \cup {n}) = Cardinality(Places(type, s)) + 1
  BY <1>4, <1>5, FS_AddElement
<1> QED
  BY <1>3, <1>5, <1>6 DEF t

LEMMA CountLess ==
    ASSUME NEW s \in Lines, s # <<>>, NEW type
    PROVE  /\ CountOf(type, Tail(s)) = CountOf(type, s) - (IF Head(s).type = type THEN 1 ELSE 0)
           /\ Head(s).type = type => CountOf(type, s) > 0
<1> DEFINE t == Tail(s)
           rest == Places(type, s) \ {1}
           f == [i \in Places(type, t) |-> i + 1]
<1>1. /\ t \in Lines /\ Len(s) \in Nat /\ Len(s) > 0 /\ DOMAIN s = 1..Len(s)
      /\ DOMAIN t = 1..(Len(s) - 1) /\ Head(s) = s[1] /\ \A i \in 1..(Len(s) - 1) : t[i] = s[i + 1]
  BY TailLine DEF Lines
<1>2. /\ CountOf(type, s) = Cardinality(Places(type, s)) /\ CountOf(type, s) \in Nat
      /\ IsFiniteSet(Places(type, s))
      /\ CountOf(type, t) = Cardinality(Places(type, t)) /\ IsFiniteSet(Places(type, t))
  BY <1>1, CountIs
<1> HIDE DEF t
<1>3. f \in Bijection(Places(type, t), rest)
  <2>1. \A i \in Places(type, t) : i \in 1..(Len(s) - 1) /\ i + 1 \in rest
    BY <1>1 DEF Places
  <2>2. \A j \in rest : j - 1 \in Places(type, t) /\ (j - 1) + 1 = j
    <3> TAKE j \in rest
    <3>1. j \in 1..Len(s) /\ j # 1 /\ s[j].type = type
      BY <1>1 DEF Places
    <3>2. j - 1 \in 1..(Len(s) - 1) /\ (j - 1) + 1 = j
      BY <1>1, <3>1
    <3> QED
      BY <1>1, <3>1, <3>2 DEF Places
  <2>3. f \in [Places(type, t) -> rest]
    BY <2>1
  <2>4. \A i, j \in Places(type, t) : f[i] = f[j] => i = j
    BY <1>1, <2>1
  <2>5. \A j \in rest : \E i \in Places(type, t) : f[i] = j
    BY <2>2
  <2> HIDE DEF f, rest
  <2> QED
    BY <2>3, <2>4, <2>5 DEF Bijection, Injection, Surjection, IsInjective
<1>4. CountOf(type, t) = Cardinality(rest)
  BY <1>2, <1>3, FS_Bijection DEF ExistsBijection
<1>5. 1 \in Places(type, s) <=> Head(s).type = type
  BY <1>1 DEF Places
<1>6. Cardinality(rest) = IF 1 \in Places(type, s) THEN Cardinality(Places(type, s)) - 1
                                                   ELSE Cardinality(Places(type, s))
  BY <1>2, FS_RemoveElement
<1>7. Cardinality(rest) \in Nat
  BY <1>2, FS_RemoveElement, FS_CardinalityType
<1> QED
  BY <1>2, <1>4, <1>5, <1>6, <1>7 DEF t

LEMMA CountSame ==
    ASSUME NEW s \in Lines, NEW t \in Lines, NEW type, \A i \in DOMAIN t : t[i].type # type
    PROVE  CountOf(type, s \o t) = CountOf(type, s)
<1>1. /\ Len(s) \in Nat /\ Len(t) \in Nat /\ DOMAIN s = 1..Len(s) /\ DOMAIN t = 1..Len(t)
      /\ DOMAIN (s \o t) = 1..(Len(s) + Len(t))
      /\ \A i \in 1..Len(s) : (s \o t)[i] = s[i]
      /\ \A i \in 1..(Len(s) + Len(t)) : i \notin 1..Len(s) =>
             i - Len(s) \in DOMAIN t /\ (s \o t)[i] = t[i - Len(s)]
      /\ \A i \in 1..Len(s) : i \in 1..(Len(s) + Len(t))
  BY DEF Lines
<1>2. Places(type, s \o t) = Places(type, s)
  BY <1>1 DEF Places
<1> QED
  BY <1>2 DEF CountOf, Places

-----------------------------------------------------------------------------
(* The callers of interrupt.                                                *)

Owed(c) == CountOf("interrupt", c.stdin) + CountOf("session.interrupted", c.stdout)

Waited(c) ==
    /\ Live(c) /\ ~c.refused => c.waiters = Owed(c)
    /\ c.os = "closed" => c.waiters = 0

LEMMA WaitedIs == WaitersMatchInterrupts <=> \A p \in Procs : Waited(proc[p])
BY DEF WaitersMatchInterrupts, Waited, Owed

LEMMA WaitedUpdate ==
    ASSUME AgentTypeOK, WaitersMatchInterrupts, NEW p \in Procs, NEW d, Update(p, d), Waited(d)
    PROVE  WaitersMatchInterrupts'
<1>1. \A q \in Procs : proc'[q] = IF q = p THEN d ELSE proc[q]
  BY DEF Update, AgentTypeOK
<1>2. \A q \in Procs : Waited(proc[q])
  BY WaitedIs
<1>3. \A q \in Procs : Waited(proc'[q])
  BY <1>1, <1>2
<1> QED
  BY <1>3 DEF WaitersMatchInterrupts, Waited, Owed

\* A step that leaves the pipes and the callers alone, and does not close the process.
LEMMA WaitedSame ==
    ASSUME NEW c, NEW d, Waited(c), d.stdin = c.stdin, d.stdout = c.stdout,
           d.waiters = c.waiters, d.refused = c.refused,
           d.os = c.os \/ (~Live(d) /\ d.os # "closed")
    PROVE  Waited(d)
BY DEF Waited, Owed, Live

\* One more line that nobody waits for.
LEMMA WaitedAppend ==
    ASSUME NEW c, NEW d, Waited(c), c.stdin \in Lines, c.stdout \in Lines,
           NEW line \in LineSet, line.type \notin {"interrupt", "session.interrupted"},
           \/ d.stdin = Append(c.stdin, line) /\ d.stdout = c.stdout
           \/ d.stdin = c.stdin /\ d.stdout = Append(c.stdout, line),
           d.waiters = c.waiters, c.refused => d.refused, Live(c), Live(d)
    PROVE  Waited(d)
<1>1. Owed(d) = Owed(c)
  <2>1. /\ CountOf("interrupt", Append(c.stdin, line)) = CountOf("interrupt", c.stdin) + 0
        /\ CountOf("session.interrupted", Append(c.stdout, line)) =
              CountOf("session.interrupted", c.stdout) + 0
    BY CountMore
  <2>2. CountOf("interrupt", c.stdin) \in Nat /\ CountOf("session.interrupted", c.stdout) \in Nat
    BY CountIs
  <2>3. CASE d.stdin = Append(c.stdin, line) /\ d.stdout = c.stdout
    BY <2>1, <2>2, <2>3 DEF Owed
  <2>4. CASE d.stdin = c.stdin /\ d.stdout = Append(c.stdout, line)
    BY <2>1, <2>2, <2>4 DEF Owed
  <2> QED
    BY <2>3, <2>4
<1> QED
  BY <1>1 DEF Waited, Live

LEMMA InitWaited == Init => WaitersMatchInterrupts
<1> SUFFICES ASSUME Init, NEW p \in Procs PROVE Waited(proc[p])
  BY WaitedIs
<1> QED
  BY DEF Init, NoProcess, Waited, Live

LEMMA AgentStepWaited ==
    ASSUME AgentTypeOK, WaitersMatchInterrupts, NEW p \in Procs, Agent(p) \/ AgentDies(p)
    PROVE  WaitersMatchInterrupts'
<1> DEFINE c == proc[p]
<1>1. /\ c \in Sessions /\ Waited(c) /\ c.stdin \in Lines /\ c.stdout \in Lines
      /\ c.waiters \in Nat
  BY SessionType, WaitedIs
<1>2. CASE AgentBoots(p)
  <2> DEFINE d == [c EXCEPT !.os = "running", !.stdout = Append(@, Line("session.started"))]
  <2>1. Update(p, d) /\ c.os = "spawned"
    BY <1>2 DEF AgentBoots
  <2>2. /\ d.os = "running" /\ d.stdout = Append(c.stdout, Line("session.started"))
        /\ d.stdin = c.stdin /\ d.waiters = c.waiters /\ d.refused = c.refused
    BY <1>1 DEF Sessions
  <2>3. /\ Line("session.started") \in LineSet
        /\ Line("session.started").type \notin {"interrupt", "session.interrupted"}
    BY LineType DEF Types, Line
  <2>4. Live(c) /\ Live(d)
    BY <2>1, <2>2 DEF Live
  <2> HIDE DEF c, d
  <2>5. Waited(d)
    BY <1>1, <2>2, <2>3, <2>4, WaitedAppend
  <2> QED
    BY <2>1, <2>5, WaitedUpdate
<1>3. CASE AgentReads(p)
  <2> DEFINE line == Head(c.stdin)
             rest == [c EXCEPT !.stdin = Tail(@)]
  <2>1. c.os = "running" /\ c.stdin # <<>> /\ line \in LineSet /\ Tail(c.stdin) \in Lines
    BY <1>1, <1>3, TailLine DEF AgentReads
  <2>2. /\ rest \in Sessions /\ rest.stdin = Tail(c.stdin) /\ rest.stdout = c.stdout /\ rest.os = c.os
        /\ rest.waiters = c.waiters /\ rest.refused = c.refused
    BY <1>1, <2>1 DEF Sessions
  <2>3. CountOf("interrupt", c.stdin) \in Nat /\ CountOf("session.interrupted", c.stdout) \in Nat
    BY <1>1, CountIs
  <2>4. CountOf("interrupt", Tail(c.stdin)) =
           CountOf("interrupt", c.stdin) - (IF line.type = "interrupt" THEN 1 ELSE 0)
    BY <1>1, <2>1, CountLess
  <2>5. ASSUME line.type = "message", NEW answer \in Answers(line.of),
               Update(p, [rest EXCEPT !.stdout = @ \o answer])
        PROVE  WaitersMatchInterrupts'
    <3> DEFINE d == [rest EXCEPT !.stdout = @ \o answer]
    <3>1. /\ d.stdin = Tail(c.stdin) /\ d.stdout = c.stdout \o answer /\ d.os = c.os
          /\ d.waiters = c.waiters /\ d.refused = c.refused
      BY <2>2 DEF Sessions
    <3>2. /\ answer \in Lines
          /\ \A i \in DOMAIN answer : answer[i].type # "session.interrupted"
      <4>1. line.of \in 0..MaxCalls
        BY <2>1 DEF LineSet
      <4>2. /\ LineOf("not-json", line.of) \in LineSet /\ LineOf("usage.updated", line.of) \in LineSet
            /\ LineOf("output.completed", line.of) \in LineSet
        BY <4>1, LineOfType DEF Types
      <4>3. /\ LineOf("not-json", line.of).type = "not-json"
            /\ LineOf("usage.updated", line.of).type = "usage.updated"
            /\ LineOf("output.completed", line.of).type = "output.completed"
        BY DEF LineOf
      <4>4. \/ answer = <<>> \/ answer = <<LineOf("not-json", line.of)>>
            \/ answer = <<LineOf("output.completed", line.of), LineOf("usage.updated", line.of)>>
        BY <2>5 DEF Answers
      <4> DEFINE l1 == LineOf("not-json", line.of)
                 l2 == LineOf("output.completed", line.of)
                 l3 == LineOf("usage.updated", line.of)
      <4> HIDE DEF line, l1, l2, l3
      <4>5. answer \in Seq(LineSet)
        <5>1. l1 \in LineSet /\ l2 \in LineSet /\ l3 \in LineSet
          BY <4>2 DEF l1, l2, l3
        <5>2. answer = <<>> \/ answer = <<l1>> \/ answer = <<l2, l3>>
          BY <4>4 DEF l1, l2, l3
        <5>3. <<>> \in Seq(LineSet) /\ <<l1>> \in Seq(LineSet) /\ <<l2, l3>> \in Seq(LineSet)
          BY <5>1
        <5> QED
          BY <5>2, <5>3
      <4>6. \A i \in DOMAIN answer : answer[i].type # "session.interrupted"
        <5>1. CASE answer = <<>>
          BY <5>1
        <5>2. CASE answer = <<l1>>
          <6>1. DOMAIN answer = {1} /\ answer[1] = l1
            BY <5>2
          <6> QED
            BY <4>3, <6>1 DEF l1
        <5>3. CASE answer = <<l2, l3>>
          <6>1. DOMAIN answer = {1, 2} /\ answer[1] = l2 /\ answer[2] = l3
            BY <5>3
          <6> QED
            BY <4>3, <6>1 DEF l2, l3
        <5> QED
          BY <4>4, <5>1, <5>2, <5>3 DEF l1, l2, l3
      <4> QED
        BY <4>5, <4>6 DEF Lines, LineSet
    <3>3. CountOf("session.interrupted", c.stdout \o answer) = CountOf("session.interrupted", c.stdout)
      BY <1>1, <3>2, CountSame
    <3> HIDE DEF d
    <3>4. Owed(d) = Owed(c)
      BY <2>3, <2>4, <2>5, <3>1, <3>3 DEF Owed
    <3>5. Waited(d)
      BY <1>1, <2>1, <3>1, <3>4 DEF Waited, Live
    <3> QED
      BY <2>5, <3>5, WaitedUpdate DEF d
  <2>6. ASSUME line.type = "interrupt",
               Update(p, [rest EXCEPT !.stdout = Append(@, Line("session.interrupted"))])
        PROVE  WaitersMatchInterrupts'
    <3> DEFINE d == [rest EXCEPT !.stdout = Append(@, Line("session.interrupted"))]
    <3>1. /\ d.stdin = Tail(c.stdin) /\ d.stdout = Append(c.stdout, Line("session.interrupted"))
          /\ d.waiters = c.waiters /\ d.refused = c.refused /\ d.os = c.os
      BY <2>2 DEF Sessions
    <3>2. Line("session.interrupted") \in LineSet /\ Line("session.interrupted").type = "session.interrupted"
      BY LineType DEF Types, Line
    <3>3. CountOf("session.interrupted", Append(c.stdout, Line("session.interrupted"))) =
             CountOf("session.interrupted", c.stdout) + 1
      BY <1>1, <3>2, CountMore
    <3> HIDE DEF d
    <3>4. Owed(d) = Owed(c)
      BY <2>3, <2>4, <2>6, <3>1, <3>3 DEF Owed
    <3>5. Waited(d)
      BY <1>1, <2>1, <3>1, <3>4 DEF Waited, Live
    <3> QED
      BY <2>6, <3>5, WaitedUpdate DEF d
  <2>7. ASSUME NEW n \in 0..Len(rest.stdout),
               Update(p, [rest EXCEPT !.os = "exited", !.stdout = SubSeq(@, 1, n)])
        PROVE  WaitersMatchInterrupts'
    <3>1. Waited([rest EXCEPT !.os = "exited", !.stdout = SubSeq(@, 1, n)])
      BY <2>2 DEF Waited, Live, Sessions
    <3> QED
      BY <2>7, <3>1, WaitedUpdate
  <2> QED
    BY <1>3, <2>5, <2>6, <2>7 DEF AgentReads
<1>4. CASE AgentExits(p) \/ AgentDies(p)
  <2>1. Update(p, [c EXCEPT !.os = "exited"])
    BY <1>4 DEF AgentExits, AgentDies, Exits
  <2>2. Waited([c EXCEPT !.os = "exited"])
    BY <1>1 DEF Waited, Live, Sessions
  <2> QED
    BY <2>1, <2>2, WaitedUpdate
<1> QED
  BY <1>2, <1>3, <1>4 DEF Agent

LEMMA EventStepWaited ==
    ASSUME AgentTypeOK, WaitersMatchInterrupts, NEW p \in Procs, ChildData(p) \/ ChildCloses(p)
    PROVE  WaitersMatchInterrupts'
<1> DEFINE c == proc[p]
<1>1. /\ c \in Sessions /\ Waited(c) /\ c.stdin \in Lines /\ c.stdout \in Lines
      /\ c.waiters \in Nat
  BY SessionType, WaitedIs
<1>2. CASE ChildData(p)
  <2> DEFINE line == Head(c.stdout)
             event == IF line.type = "not-json" THEN LineOf("adapter.error", line.of) ELSE line
             d == IF line.type = "session.interrupted" THEN Interrupted(c)
                  ELSE Pushed([c EXCEPT !.stdout = Tail(@)], event)
  <2>1. c.stdout # <<>> /\ Update(p, d)
    BY <1>2 DEF ChildData
  <2>2. /\ d.stdin = c.stdin /\ d.stdout = Tail(c.stdout) /\ d.os = c.os /\ d.refused = c.refused
        /\ d.waiters = IF line.type = "session.interrupted" /\ c.waiters # 0 THEN c.waiters - 1 ELSE c.waiters
    BY <1>1 DEF Interrupted, Pushed, Sessions
  <2>3. /\ CountOf("session.interrupted", Tail(c.stdout)) = CountOf("session.interrupted", c.stdout)
              - (IF line.type = "session.interrupted" THEN 1 ELSE 0)
        /\ line.type = "session.interrupted" => CountOf("session.interrupted", c.stdout) > 0
    BY <1>1, <2>1, CountLess
  <2>4. CountOf("interrupt", c.stdin) \in Nat /\ CountOf("session.interrupted", c.stdout) \in Nat
    BY <1>1, CountIs
  <2> HIDE DEF line, d
  <2>5. ASSUME Live(c), ~c.refused PROVE d.waiters = Owed(d)
    BY <1>1, <2>2, <2>3, <2>4, <2>5 DEF Waited, Owed
  <2>6. ASSUME c.os = "closed" PROVE d.waiters = 0
    BY <1>1, <2>2, <2>6 DEF Waited
  <2>7. Waited(d)
    BY <2>2, <2>5, <2>6 DEF Waited, Live
  <2> QED
    BY <2>1, <2>7, WaitedUpdate
<1>3. CASE ChildCloses(p)
  <2> DEFINE d == Pushed([c EXCEPT !.os = "closed", !.stdin = <<>>, !.stdout = <<>>, !.waiters = 0],
                         Line("session.exited"))
  <2>1. Update(p, d)
    BY <1>3 DEF ChildCloses
  <2>2. d.os = "closed" /\ d.waiters = 0
    BY <1>1 DEF Pushed, Sessions
  <2> HIDE DEF d
  <2> QED
    BY <2>1, <2>2, WaitedUpdate DEF Waited, Live
<1> QED
  BY <1>2, <1>3

\* Starts, and what a stop or a timeout does to a session, leave its pipes alone.
LEMMA StartingWaited ==
    ASSUME AgentTypeOK, WaitersMatchInterrupts, NEW p \in Procs,
           Start(p) \/ Starting(p) \/ Stopping(p) \/ ForceStop(p) \/ ForceStopDone(p)
    PROVE  WaitersMatchInterrupts'
<1> DEFINE c == proc[p]
<1>1. \A q \in Procs : Waited(proc[q]) /\ proc[q] \in Sessions
  BY SessionType, WaitedIs
<1>2. ASSUME NEW d, Update(p, d), d.stdin = c.stdin, d.stdout = c.stdout,
             d.waiters = c.waiters, d.refused = c.refused, d.os = c.os
      PROVE  WaitersMatchInterrupts'
  BY <1>1, <1>2, WaitedSame, WaitedUpdate
<1>3. CASE Start(p)
  <2>1. PICK new \in Spawned : proc' = [q \in Procs |-> IF q = p THEN new ELSE Replaced(proc[q])]
    BY <1>3 DEF Start
  <2>2. /\ new.waiters = 0 /\ new.stdin = <<>> /\ new.stdout = <<>>
    BY <2>1 DEF Spawned, NoProcess
  <2>3. ASSUME NEW q \in Procs
        PROVE  proc'[q].waiters = 0 /\ proc'[q].stdin = <<>> /\ proc'[q].stdout = <<>>
    BY <2>1, <2>2 DEF Replaced, NoProcess
  <2>4. ASSUME NEW q \in Procs PROVE Waited(proc'[q])
    BY <2>3, CountNone DEF Waited, Owed
  <2> QED
    BY <2>4 DEF WaitersMatchInterrupts, Waited, Owed
<1>4. CASE FirstLine(p)
  <2> DEFINE rest == [c EXCEPT !.lines = Tail(@)]
             d == IF Head(c.lines).type = "session.started"
                  THEN [rest EXCEPT !.start = "started", !.registered = TRUE]
                  ELSE [Kill(rest) EXCEPT !.start = "reaping"]
  <2>1. Update(p, d)
    BY <1>4 DEF FirstLine
  <2>2. /\ d.stdin = c.stdin /\ d.stdout = c.stdout
        /\ d.waiters = c.waiters /\ d.refused = c.refused /\ d.os = c.os
    BY <1>1 DEF Kill, Live, Sessions
  <2> HIDE DEF d, c
  <2> QED
    BY <1>2, <2>1, <2>2
<1>5. CASE StartTimeout(p) \/ StartRejected(p) \/ Stopping(p) \/ ForceStop(p) \/ ForceStopDone(p)
  <2>1. PICK d : /\ Update(p, d)
                 /\ \/ d = [Kill(c) EXCEPT !.start = "reaping"]
                    \/ \E start \in {"rejected", "abandoned"} : d = [c EXCEPT !.start = start]
                    \/ d = [Kill(c) EXCEPT !.stopping = "closing"]
                    \/ d = [c EXCEPT !.stopping = "done", !.registered = FALSE]
                    \/ d = [Kill(c) EXCEPT !.forced = "closing"]
                    \/ d = [c EXCEPT !.forced = "done", !.registered = FALSE]
    BY <1>5 DEF StartTimeout, StartRejected, Stopping, StopTimeout, StopDone, ForceStop, ForceStopDone
  <2>2. /\ d.stdin = c.stdin /\ d.stdout = c.stdout
        /\ d.waiters = c.waiters /\ d.refused = c.refused /\ d.os = c.os
    BY <1>1, <2>1 DEF Kill, Sessions
  <2> HIDE DEF c
  <2> QED
    BY <1>2, <2>1, <2>2
<1> QED
  BY <1>3, <1>4, <1>5 DEF Starting

LEMMA CallsWaited ==
    ASSUME AgentTypeOK, WaitersMatchInterrupts, NEW p \in Procs,
           Send(p) \/ Interrupt(p) \/ Stop(p)
    PROVE  WaitersMatchInterrupts'
<1> DEFINE c == proc[p]
<1>1. /\ c \in Sessions /\ Waited(c) /\ c.stdin \in Lines /\ c.stdout \in Lines
      /\ c.waiters \in Nat
  BY SessionType, WaitedIs
<1>2. CASE Send(p)
  <2> DEFINE line == LineOf("message", sent + 1)
  <2>1. ASSUME NEW ok \in BOOLEAN, Live(c), Update(p, Written(c, line, ok))
        PROVE  WaitersMatchInterrupts'
    <3> DEFINE d == Written(c, line, ok)
    <3>1. /\ d.stdin = Append(c.stdin, line) /\ d.stdout = c.stdout /\ d.waiters = c.waiters
          /\ (c.refused => d.refused) /\ d.os = c.os
      BY <1>1 DEF Written, Sessions
    <3>2. line \in LineSet /\ line.type \notin {"interrupt", "session.interrupted"}
      <4>1. sent + 1 \in 0..MaxCalls
        BY <1>2, AgentAssumption DEF Send, AgentTypeOK
      <4> QED
        BY <4>1, LineOfType DEF Types, LineOf
    <3>3. Live(d)
      BY <2>1, <3>1 DEF Live
    <3> HIDE DEF line, d, c
    <3>4. Waited(d)
      BY <1>1, <2>1, <3>1, <3>2, <3>3, WaitedAppend
    <3> QED
      BY <2>1, <3>4, WaitedUpdate DEF d
  <2>2. CASE UNCHANGED proc
    BY <2>2 DEF WaitersMatchInterrupts, Live, CountOf
  <2> QED
    BY <1>2, <2>1, <2>2 DEF Send
<1>3. CASE Interrupt(p)
  <2> DEFINE d(ok) == [Written(c, Line("interrupt"), ok) EXCEPT !.waiters = IF ok THEN @ + 1 ELSE @]
  <2>1. PICK ok \in BOOLEAN : Update(p, d(ok))
    BY <1>3 DEF Interrupt
  <2>2. /\ d(ok).stdin = Append(c.stdin, Line("interrupt")) /\ d(ok).stdout = c.stdout
        /\ d(ok).waiters = (IF ok THEN c.waiters + 1 ELSE c.waiters)
        /\ (c.refused => d(ok).refused) /\ (~ok => d(ok).refused) /\ d(ok).os = c.os
    BY <1>1 DEF Written, Sessions
  <2>3. Live(c) /\ Line("interrupt") \in LineSet /\ Line("interrupt").type = "interrupt"
    BY <1>3, LineType DEF Interrupt, Types, Line
  <2>4. CountOf("interrupt", Append(c.stdin, Line("interrupt"))) = CountOf("interrupt", c.stdin) + 1
    BY <1>1, <2>3, CountMore
  <2>5. CountOf("interrupt", c.stdin) \in Nat /\ CountOf("session.interrupted", c.stdout) \in Nat
    BY <1>1, CountIs
  <2> HIDE DEF d
  <2>6. ASSUME ~d(ok).refused PROVE d(ok).waiters = Owed(d(ok))
    BY <1>1, <2>2, <2>3, <2>4, <2>5, <2>6 DEF Waited, Owed
  <2>7. Waited(d(ok))
    BY <2>2, <2>3, <2>6 DEF Waited, Live
  <2> QED
    BY <2>1, <2>7, WaitedUpdate
<1>4. CASE Stop(p)
  <2>1. ASSUME NEW ok \in BOOLEAN, Live(c),
               Update(p, [Written(c, Line("stop"), ok) EXCEPT
                            !.stopping = IF ok THEN "asked" ELSE "failed"])
        PROVE  WaitersMatchInterrupts'
    <3> DEFINE d == [Written(c, Line("stop"), ok) EXCEPT !.stopping = IF ok THEN "asked" ELSE "failed"]
    <3>1. /\ d.stdin = Append(c.stdin, Line("stop")) /\ d.stdout = c.stdout /\ d.waiters = c.waiters
          /\ (c.refused => d.refused) /\ d.os = c.os
      BY <1>1 DEF Written, Sessions
    <3>2. /\ Line("stop") \in LineSet
          /\ Line("stop").type \notin {"interrupt", "session.interrupted"}
      BY LineType DEF Types, Line
    <3>3. Live(d)
      BY <2>1, <3>1 DEF Live
    <3> HIDE DEF d, c
    <3>4. Waited(d)
      BY <1>1, <2>1, <3>1, <3>2, <3>3, WaitedAppend
    <3> QED
      BY <2>1, <3>4, WaitedUpdate DEF d
  <2>2. ASSUME Update(p, [c EXCEPT !.stopping = "closing"]) PROVE WaitersMatchInterrupts'
    <3>1. Waited([c EXCEPT !.stopping = "closing"])
      BY <1>1, WaitedSame DEF Sessions
    <3> QED
      BY <2>2, <3>1, WaitedUpdate
  <2> QED
    BY <1>4, <2>1, <2>2 DEF Stop
<1> QED
  BY <1>2, <1>3, <1>4

LEMMA NextWaited ==
    ASSUME AgentTypeOK, WaitersMatchInterrupts, [Next]_vars
    PROVE  WaitersMatchInterrupts'
<1>1. CASE Yield
  <2> DEFINE p == turn.proc
             c == proc[p]
             d == [c EXCEPT !.lines = Tail(@),
                            !.registered = @ /\ (turn.aborted \/ Head(c.lines).type # "session.exited")]
  <2>1. p \in Procs /\ Update(p, d)
    BY <1>1 DEF Yield, InTurn, AgentTypeOK
  <2>2. c \in Sessions /\ Waited(c)
    BY <2>1, SessionType, WaitedIs
  <2>3. /\ d.stdin = c.stdin /\ d.stdout = c.stdout
        /\ d.waiters = c.waiters /\ d.refused = c.refused /\ d.os = c.os
    BY <2>2 DEF Sessions
  <2> HIDE DEF p, c, d
  <2>4. Waited(d)
    BY <2>2, <2>3, WaitedSame
  <2> QED
    BY <2>1, <2>4, WaitedUpdate
<1>2. CASE TurnEnds \/ StopDispatching \/ UNCHANGED vars
  <2>1. UNCHANGED proc
    BY <1>2 DEF TurnEnds, StopDispatching, vars
  <2> QED
    BY <2>1 DEF WaitersMatchInterrupts, Live, CountOf
<1>3. ASSUME NEW p \in Procs,
             \/ Agent(p) \/ Events(p) \/ Starting(p) \/ Stopping(p)
             \/ ForceStopDone(p) \/ Calls(p)
      PROVE  WaitersMatchInterrupts'
  BY <1>3, AgentStepWaited, EventStepWaited, StartingWaited, CallsWaited DEF Events, Calls
<1> QED
  BY <1>1, <1>2, <1>3 DEF Next

\* Whoever called interrupt of a process that runs is answered by the answer to his own
\* call: the waiters of #interruptWaiters are as many as the interrupts on their way, and
\* none is left behind by a process that closes.
THEOREM WaitersMatch == Spec => []WaitersMatchInterrupts
<1>1. AgentTypeOK /\ WaitersMatchInterrupts /\ [Next]_vars => WaitersMatchInterrupts'
  BY NextWaited
<1> QED
  BY <1>1, InitWaited, TypeCorrect, PTL DEF Spec

=============================================================================
