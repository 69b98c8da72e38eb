----------------------------- MODULE EventStream -----------------------------
(***************************************************************************)
(* The events of a company on their way from the table of CoreStore to the *)
(* consumer of a client: the subscription and the outbound queue of one    *)
(* connection (CoreServer), the pipe, and AgentTownClient with its queue.  *)
(*                                                                         *)
(* Both processes are single threads of JavaScript.  A loop without an     *)
(* await is walked in steps during which nothing else of its process runs: *)
(* the Core's "replaying", the client's "consuming".  The two processes,   *)
(* the pipe and the consumer interleave freely.                            *)
(*                                                                         *)
(* Sizes stand for bytes.  One connection is followed at a time; when it   *)
(* is over the client may connect again from the last event it has seen.   *)
(***************************************************************************)
EXTENDS Integers, FiniteSets, Sequences, SequencesExt

CONSTANTS
    EventSizes,      \* sizes an event may have
    OutboundLimit,   \* maxOutboundQueuedBytes
    InboundLimit,    \* maxInboundQueuedBytes, in requests
    QueueLimit,      \* MAX_EVENT_QUEUE
    QueueBytes,      \* MAX_EVENT_QUEUE_BYTES
    Watermark,       \* EVENT_RESUME_WATERMARK
    MaxPending,      \* MAX_PENDING_REQUESTS
    PipeSize,        \* bound of the model: messages the pipe holds
    MaxEvents,       \* bound of the model: events committed
    MaxRequests,     \* bound of the model: requests of one connection
    MaxBeats,        \* bound of the model: heartbeats of one connection
    MaxConnections   \* bound of the model: connections one after the other

ASSUME StreamAssumption ==
    /\ EventSizes \subseteq Nat \ {0}
    /\ OutboundLimit \in Nat \ {0} /\ InboundLimit \in Nat \ {0}
    /\ QueueLimit \in Nat \ {0} /\ Watermark \in 0..(QueueLimit - 1)
    /\ QueueBytes \in Nat /\ OutboundLimit <= QueueBytes /\ MaxPending \in Nat \ {0}
    /\ PipeSize \in Nat \ {0} /\ MaxEvents \in Nat /\ MaxConnections \in Nat
    /\ MaxRequests \in Nat /\ MaxBeats \in Nat

VARIABLES
    log,      \* sizes of the rows of "events", by sequence number
    conn,     \* the ClientConnection of the Core
    pipe,     \* messages the operating system took from the Core's socket
    client,   \* AgentTownClient and its EventQueue
    seen,     \* cursor of the consumer: the last event it was given
    end       \* how the iteration of the consumer ended: "no", "done" or "error"

vars == <<log, conn, pipe, client, seen, end>>

Committed == Len(log)
Event(n, bytes) == [kind |-> "event", sequence |-> n, bytes |-> bytes]
StreamError(n) == [kind |-> "terminal", sequence |-> n, bytes |-> 1]
Response(id) == [kind |-> "response", id |-> id, bytes |-> 1]

Handshake == 0   \* request id of the handshake
Heartbeat == -1  \* of any heartbeat: its answer finds no pending request
LiveOnly == -1   \* LIVE_ONLY_AFTER_SEQUENCE
NotBegun == -1   \* the consumer has no cursor yet
Ids == 1..MaxRequests

Sum(messages) == FoldSeq(LAMBDA m, sum : m.bytes + sum, 0, messages)
OutboundBytes(c) == Sum(c.outbound)

NoConnection ==
    [socket |-> "closed", accepting |-> FALSE, closing |-> FALSE, after |-> 0,
     subscribed |-> FALSE, terminal |-> FALSE, outbound |-> <<>>, inbound |-> <<>>,
     step |-> "idle"]

NoClient ==
    [state |-> "closed", failed |-> FALSE, buffer |-> <<>>, queue |-> <<>>, waiting |-> FALSE,
     paused |-> FALSE, consuming |-> FALSE, pending |-> {}, writes |-> <<>>,
     sent |-> {}, beats |-> 0, number |-> 0]

Connected == client.state \in {"connecting", "open"}

\* The Core, and the client, are inside a loop that nothing interrupts.
CoreBusy == conn.step = "replaying"
ClientBusy == client.consuming

-----------------------------------------------------------------------------
(* CoreServer: writing to one connection.                                   *)

StopReading(c) == [c EXCEPT !.accepting = FALSE]

\* socket.destroy(): what was not flushed is lost, the close event comes later
Destroyed(c) == [StopReading(c) EXCEPT !.socket = "destroyed", !.outbound = <<>>]

SentMutant(c, message) ==
    IF c.socket \in {"destroyed", "closed"} THEN c
    ELSE IF c.socket = "ended" \/ OutboundBytes(c) > OutboundLimit
    THEN Destroyed(c)
    ELSE [c EXCEPT !.outbound = Append(@, message)]

\* #send of a message that is not too big by itself.  Writing after end() is an error
\* of the socket, which destroys it.
Sent(c, message) ==
    IF c.socket \in {"destroyed", "closed"} THEN c
    ELSE IF c.socket = "ended" \/ OutboundBytes(c) + message.bytes > OutboundLimit
    THEN Destroyed(c)
    ELSE [c EXCEPT !.outbound = Append(@, message)]

\* #terminateEventStream: the terminal event is reserved beyond the budget
Terminated(c, n) ==
    IF c.socket \in {"destroyed", "closed"} THEN c
    ELSE [StopReading(c) EXCEPT !.terminal = TRUE, !.subscribed = FALSE,
                                !.outbound = Append(@, StreamError(n))]

\* #forwardEvent
Forwarded(c, n, bytes) ==
    IF c.terminal \/ n <= c.after THEN c
    ELSE IF bytes > OutboundLimit THEN Terminated(c, n)
    ELSE LET s == Sent(c, Event(n, bytes))
         IN IF s.socket = "open" THEN [s EXCEPT !.after = n] ELSE s

\* The write callback: the message left the queue.  After the terminal event the
\* socket is ended.
Flush ==
    /\ ~CoreBusy /\ Connected
    /\ conn.socket \in {"open", "ended"}
    /\ conn.outbound # <<>> /\ Len(pipe) < PipeSize
    /\ pipe' = Append(pipe, Head(conn.outbound))
    /\ conn' = [conn EXCEPT
         !.outbound = Tail(@),
         !.socket = IF Head(conn.outbound).kind = "terminal" THEN "ended" ELSE @]
    /\ UNCHANGED <<log, client, seen, end>>

-----------------------------------------------------------------------------
(* CoreStore and CoreServer: events and requests.                           *)

\* insertEvent, and #publishEvents after the transaction
Publish(bytes) ==
    /\ ~CoreBusy
    /\ Committed < MaxEvents
    /\ log' = Append(log, bytes)
    /\ conn' = IF conn.subscribed THEN Forwarded(conn, Committed + 1, bytes) ELSE conn
    /\ UNCHANGED <<pipe, client, seen, end>>

\* #processLine up to its await.  #handshake sets the cursor, which for a live-only
\* client is the last event committed.
Dispatch ==
    /\ conn.step = "idle" /\ conn.inbound # <<>> /\ conn.accepting
    /\ LET request == Head(conn.inbound)
           after   == IF request.after = LiveOnly THEN Committed ELSE request.after
       IN IF request.id = Handshake
          THEN /\ conn' = [conn EXCEPT !.step = "answering", !.after = after]
               /\ seen' = after
          ELSE conn' = [conn EXCEPT !.step = "answering"] /\ UNCHANGED seen
    /\ UNCHANGED <<log, pipe, client, end>>

\* A chunk that comes to its turn when the connection does not read any more.
Discard ==
    /\ conn.step = "idle" /\ conn.inbound # <<>> /\ ~conn.accepting
    /\ conn' = [conn EXCEPT !.inbound = Tail(@)]
    /\ UNCHANGED <<log, pipe, client, seen, end>>

AnswerMutant ==
    /\ conn.step = "answering"
    /\ LET request == Head(conn.inbound)
           sent    == Sent(conn, Response(request.id))
       IN conn' = [sent EXCEPT !.step = "idle", !.inbound = Tail(@),
                               !.subscribed = @ \/ request.id = Handshake]
    /\ UNCHANGED <<log, pipe, client, seen, end>>

\* #processLine after its await: the response, and the subscription of a handshake
Answer ==
    /\ conn.step = "answering"
    /\ LET request == Head(conn.inbound)
           sent    == Sent(conn, Response(request.id))
       IN conn' = IF request.id = Handshake
                  THEN [sent EXCEPT !.step = "replaying", !.subscribed = TRUE]
                  ELSE [sent EXCEPT !.step = "idle", !.inbound = Tail(@)]
    /\ UNCHANGED <<log, pipe, client, seen, end>>

\* listEvents: the rows after a sequence number
ListEvents(after) == SubSeq(log, after + 1, Committed)

\* #startEventSubscription: one event of listEvents(afterSequence), until all are
\* forwarded or the connection takes no more.
Replay ==
    /\ conn.step = "replaying"
    /\ conn' = IF ListEvents(conn.after) # <<>> /\ conn.socket = "open" /\ ~conn.terminal
               THEN Forwarded(conn, conn.after + 1, Head(ListEvents(conn.after)))
               ELSE [conn EXCEPT !.step = "idle", !.inbound = Tail(@)]
    /\ UNCHANGED <<log, pipe, client, seen, end>>

-----------------------------------------------------------------------------
(* CoreServer: the end of a connection.                                     *)

\* #ensureTransportClosing, of a pause, a stop or the last client of the company
CloseGracefully ==
    /\ ~CoreBusy /\ conn.socket = "open" /\ ~conn.closing
    /\ conn' = [StopReading(conn) EXCEPT !.closing = TRUE]
    /\ UNCHANGED <<log, pipe, client, seen, end>>

\* #runGracefulClose: the requests are processed and the queue is empty
EndGracefully ==
    /\ conn.closing /\ conn.socket = "open" /\ conn.step = "idle"
    /\ conn.inbound = <<>> /\ conn.outbound = <<>>
    /\ conn' = [conn EXCEPT !.socket = "ended"]
    /\ UNCHANGED <<log, pipe, client, seen, end>>

\* #forceTransportClose
CloseHard ==
    /\ ~CoreBusy /\ conn.socket \in {"open", "ended"}
    /\ conn' = Destroyed(conn)
    /\ UNCHANGED <<log, pipe, client, seen, end>>

\* The close event of the socket: #detachConnection.  A graceful close destroys the socket
\* once everything is written and ended.  A handshake is answered in the
\* same turn of the event loop it arrives in.
Detach ==
    /\ ~CoreBusy /\ conn.socket # "closed"
    /\ conn.socket = "destroyed" \/ (conn.closing /\ conn.socket = "ended") \/ ~Connected
    /\ conn.inbound # <<>> => Head(conn.inbound).id # Handshake
    /\ conn' = [conn EXCEPT !.socket = "closed", !.subscribed = FALSE, !.outbound = <<>>]
    /\ UNCHANGED <<log, pipe, client, seen, end>>

\* What the pipe still holds may get lost with the socket of the Core.
LosePipe ==
    /\ conn.socket = "destroyed" /\ pipe # <<>>
    /\ pipe' = <<>>
    /\ UNCHANGED <<log, conn, client, seen, end>>

-----------------------------------------------------------------------------
(* AgentTownClient: the connection and its requests.                        *)

\* connect, once the socket is connected
Connect(after) ==
    /\ client.state = "closed" /\ conn.socket = "closed"
    /\ conn.inbound = <<>>
    /\ client.number < MaxConnections
    /\ client' = [NoClient EXCEPT
         !.state = "connecting", !.number = client.number + 1, !.pending = {Handshake},
         !.writes = <<[id |-> Handshake, after |-> after]>>]
    /\ conn' = [NoConnection EXCEPT !.socket = "open", !.accepting = TRUE]
    /\ pipe' = <<>> /\ end' = "no"
    /\ UNCHANGED <<log, seen>>

\* request, when neither limit rejects it
Request(id) ==
    /\ client.state = "open" /\ ~ClientBusy
    /\ Cardinality(client.pending) < MaxPending
    /\ id \notin client.sent
    /\ client' = [client EXCEPT !.pending = @ \cup {id}, !.sent = @ \cup {id},
                                !.writes = Append(@, [id |-> id, after |-> 0])]
    /\ UNCHANGED <<log, conn, pipe, seen, end>>

\* the timer of #startHeartbeat, unless a heartbeat still waits to be written
Beat ==
    /\ client.state = "open" /\ ~ClientBusy /\ client.beats < MaxBeats
    /\ \A i \in DOMAIN client.writes : client.writes[i].id # Heartbeat
    /\ client' = [client EXCEPT !.beats = @ + 1,
                                !.writes = Append(@, [id |-> Heartbeat, after |-> 0])]
    /\ UNCHANGED <<log, conn, pipe, seen, end>>

\* #writeLine, and the data event of the Core's socket
WriteLine ==
    /\ Connected /\ ~ClientBusy /\ client.writes # <<>>
    /\ conn.socket # "closed"
    /\ LET request == Head(client.writes)
       IN /\ client' = [client EXCEPT !.writes = Tail(@)]
          /\ conn' = IF ~conn.accepting THEN conn
                     ELSE IF Len(conn.inbound) >= InboundLimit THEN Destroyed(conn)
                     ELSE [conn EXCEPT !.inbound = Append(@, request)]
    /\ UNCHANGED <<log, pipe, seen, end>>

-----------------------------------------------------------------------------
(* AgentTownClient: input, and the queue of events.                         *)

\* the data event: #buffer += chunk
Receive(n) ==
    /\ Connected /\ ~ClientBusy /\ ~client.paused
    /\ n \in 1..Len(pipe)
    /\ client' = [client EXCEPT !.buffer = @ \o SubSeq(pipe, 1, n), !.consuming = TRUE]
    /\ pipe' = SubSeq(pipe, n + 1, Len(pipe))
    /\ UNCHANGED <<log, conn, seen, end>>

\* does push take the event into the queue
Fits(message) ==
    /\ Len(client.queue) < QueueLimit
    /\ Sum(client.queue) + message.bytes <= QueueBytes

\* the cursor once the consumer has the message
SeenWith(message) == IF message.kind = "event" THEN message.sequence ELSE seen

\* #consume, one line: a response settles its request
ConsumeResponse ==
    /\ client.consuming /\ Head(client.buffer).kind = "response"
    /\ LET id == Head(client.buffer).id
       IN client' = [client EXCEPT
            !.buffer = Tail(@), !.consuming = Len(client.buffer) > 1,
            !.pending = @ \ {id}, !.state = IF id = Handshake THEN "open" ELSE @]
    /\ UNCHANGED <<log, conn, pipe, seen, end>>

ConsumeEventMutant ==
    /\ client.consuming /\ Head(client.buffer).kind # "response"
    /\ LET message == Head(client.buffer)
       IN \/ /\ client.waiting
             /\ client' = [client EXCEPT !.buffer = Tail(@), !.waiting = FALSE,
                                         !.consuming = Len(client.buffer) > 1]
             /\ seen' = SeenWith(message)
          \/ /\ ~client.waiting /\ Fits(message)
             /\ client' = [client EXCEPT !.buffer = Tail(@), !.queue = Append(@, message),
                                         !.consuming = Len(client.buffer) > 1]
             /\ UNCHANGED seen
          \/ /\ ~client.waiting /\ ~Fits(message)
             /\ client' = [client EXCEPT !.buffer = Tail(@), !.paused = TRUE, !.consuming = FALSE]
             /\ UNCHANGED seen
    /\ UNCHANGED <<log, conn, pipe, end>>

\* #consume, one line: an event goes to the waiting consumer or into the queue; when
\* there is no room it is put back and the input is paused.
ConsumeEvent ==
    /\ client.consuming /\ Head(client.buffer).kind # "response"
    /\ LET message == Head(client.buffer)
       IN \/ /\ client.waiting
             /\ client' = [client EXCEPT !.buffer = Tail(@), !.waiting = FALSE,
                                         !.consuming = Len(client.buffer) > 1]
             /\ seen' = SeenWith(message)
          \/ /\ ~client.waiting /\ Fits(message)
             /\ client' = [client EXCEPT !.buffer = Tail(@), !.queue = Append(@, message),
                                         !.consuming = Len(client.buffer) > 1]
             /\ UNCHANGED seen
          \/ /\ ~client.waiting /\ ~Fits(message)
             /\ client' = [client EXCEPT !.paused = TRUE, !.consuming = FALSE]
             /\ UNCHANGED seen
    /\ UNCHANGED <<log, conn, pipe, end>>

Reading == end = "no" /\ client.state \in {"open", "closed"} /\ ~ClientBusy /\ ~client.waiting

\* #resumeInputIfPossible, when "left" stays in the queue
Resumes(left) == client.paused /\ Len(left) <= Watermark

NextQueuedOnlyResumes ==
    /\ Reading /\ client.queue # <<>>
    /\ client' = [client EXCEPT !.queue = Tail(@), !.paused = @ /\ ~Resumes(Tail(client.queue))]
    /\ seen' = SeenWith(Head(client.queue))
    /\ UNCHANGED <<log, conn, pipe, end>>

\* next: an event of the queue, after which the input may go on
NextQueued ==
    /\ Reading /\ client.queue # <<>>
    /\ LET resumes == Resumes(Tail(client.queue))
       IN client' = [client EXCEPT !.queue = Tail(@), !.paused = @ /\ ~resumes,
                                   !.consuming = resumes /\ client.buffer # <<>>]
    /\ seen' = SeenWith(Head(client.queue))
    /\ UNCHANGED <<log, conn, pipe, end>>

\* next: nothing is queued
NextWaits ==
    /\ Reading /\ client.queue = <<>> /\ client.state = "open"
    /\ client' = [client EXCEPT !.waiting = TRUE]
    /\ UNCHANGED <<log, conn, pipe, seen, end>>

\* next: the queue is closed
NextEnds ==
    /\ Reading /\ client.queue = <<>> /\ client.state = "closed" /\ client.number > 0
    /\ end' = IF client.failed THEN "error" ELSE "done"
    /\ UNCHANGED <<log, conn, pipe, client, seen>>

-----------------------------------------------------------------------------
(* AgentTownClient: the end of a connection.                                *)

\* #events.close and the rejection of every pending request
Over(failed) ==
    /\ client' = [NoClient EXCEPT !.number = client.number, !.failed = failed]
    /\ end' = IF client.waiting THEN IF failed THEN "error" ELSE "done" ELSE end
    /\ UNCHANGED <<log, conn, pipe, seen>>

FinishMutant ==
    /\ Connected /\ ~ClientBusy /\ ~client.paused
    /\ conn.socket # "open" /\ (conn.socket = "ended" => conn.outbound = <<>>)
    /\ pipe = <<>>
    /\ client' = [NoClient EXCEPT !.number = client.number, !.pending = client.pending]
    /\ end' = IF client.waiting THEN "done" ELSE end
    /\ UNCHANGED <<log, conn, pipe, seen>>

\* #finish: the close event, which comes when everything in the pipe was read
Finish ==
    /\ Connected /\ ~ClientBusy /\ ~client.paused
    /\ conn.socket # "open" /\ (conn.socket = "ended" => conn.outbound = <<>>)
    /\ pipe = <<>>
    /\ Over(FALSE)

\* #fail: an error of the socket, whose other end is gone
Fail ==
    /\ Connected /\ ~ClientBusy
    /\ conn.socket \in {"destroyed", "closed"}
    /\ Over(TRUE)

\* #fail of connect: the handshake was not answered in time
HandshakeTimeout ==
    /\ client.state = "connecting" /\ ~ClientBusy
    /\ Over(TRUE)

\* close, of a command that is done or interrupted
Close ==
    /\ client.state = "open" /\ ~ClientBusy
    /\ Over(FALSE)

-----------------------------------------------------------------------------

Init ==
    /\ log \in {<<>>} \cup {<<s>> : s \in EventSizes}
    /\ conn = NoConnection
    /\ pipe = <<>>
    /\ client = NoClient
    /\ seen = NotBegun
    /\ end = "no"

\* A consumer begins live-only or with the whole history, and goes on where it is.
ConnectAgain == \E after \in IF seen = NotBegun THEN {0, LiveOnly} ELSE {seen} : Connect(after)

CoreStep == Dispatch \/ Discard \/ Answer \/ Replay
ConsumeLine == ConsumeResponse \/ ConsumeEvent
ConsumerStep == NextQueued \/ NextWaits \/ NextEnds
Ending == CloseGracefully \/ CloseHard \/ LosePipe \/ HandshakeTimeout \/ Close

Next ==
    \/ CoreStep \/ Flush \/ (\E s \in EventSizes : Publish(s))
    \/ EndGracefully \/ Detach
    \/ ConnectAgain \/ (\E id \in Ids : Request(id)) \/ Beat \/ WriteLine
    \/ (\E n \in 1..PipeSize : Receive(n)) \/ ConsumeLine \/ ConsumerStep
    \/ Finish \/ Fail
    \/ Ending

Spec == Init /\ [][Next]_vars

\* Both event loops go on, the operating system moves what is written, and the consumer
\* asks for the next event when it has dealt with the last one (for await in "start").
\* Nobody has to publish, to ask, to beat or to close.
Fairness ==
    /\ WF_vars(CoreStep \/ Flush \/ EndGracefully \/ Detach)
    /\ WF_vars(WriteLine \/ (\E n \in 1..PipeSize : Receive(n)) \/ ConsumeLine
               \/ ConsumerStep \/ Finish)

FairSpec == Spec /\ Fairness

-----------------------------------------------------------------------------
(* Properties.                                                              *)

Kinds == {"event", "terminal", "response"}
IsMessage(m) == m.kind \in Kinds /\ m.bytes \in Nat

\* The bytes that count against maxOutboundQueuedBytes
BudgetedBytes(messages) ==
    FoldSeq(LAMBDA m, sum : (IF m.kind = "terminal" THEN 0 ELSE m.bytes) + sum, 0, messages)

\* The limits hold whatever arrives in which order: the bytes queued for the client but
\* for the reserved terminal event, the requests, and the events queued in the client.
WithinLimits ==
    /\ BudgetedBytes(conn.outbound) <= OutboundLimit
    /\ Len(conn.inbound) <= InboundLimit
    /\ Len(client.queue) <= QueueLimit /\ Sum(client.queue) <= QueueBytes

\* Every variable has its type and no queue is above its limits; what is closed holds
\* nothing (#send, #onData, EventQueue.push).
StreamTypeOK ==
    /\ log \in Seq(EventSizes)
    /\ conn.socket \in {"open", "ended", "destroyed", "closed"}
    /\ conn.step \in {"idle", "answering", "replaying"}
    /\ conn.after \in 0..Committed /\ seen \in -1..Committed
    /\ conn.step # "idle" => conn.inbound # <<>>
    /\ \A s \in {conn.outbound, pipe, client.buffer, client.queue} : \A i \in DOMAIN s : IsMessage(s[i])
    /\ client.state \in {"connecting", "open", "closed"}
    /\ client.pending \subseteq Ids \cup {Handshake}
    /\ ~Connected => client = [NoClient EXCEPT !.number = client.number, !.failed = client.failed]
    /\ end \in {"no", "done", "error"}
    /\ WithinLimits

IsEvent(m) == m.kind = "event"

\* How many of the first n messages are events, and whether the events among the messages
\* are numbered from "last" on
EventsIn(messages, n) == Cardinality({i \in 1..n : IsEvent(messages[i])})
Follows(messages, last) ==
    \A i \in DOMAIN messages :
       IsEvent(messages[i]) => messages[i].sequence = last + EventsIn(messages, i)

\* What is under way between the Core and the consumer, the oldest first
UnderWay == client.queue \o client.buffer \o pipe \o conn.outbound

\* What is under way continues what the consumer has, without a gap, a repetition or a
\* change of order, through replay, live events, queues, put-back lines and a paused
\* input; and until the socket is lost it reaches as far as the Core's cursor, which on a
\* subscribed connection is never behind the table between two turns of the Core: replay
\* and live events leave nothing out (#startEventSubscription).
StreamIsContiguous ==
    Connected =>
        /\ Follows(UnderWay, seen)
        /\ conn.socket \in {"open", "ended"} /\ Handshake \notin client.pending
              => conn.after = seen + EventsIn(UnderWay, Len(UnderWay))
        /\ conn.subscribed /\ conn.socket = "open" /\ conn.step # "replaying"
              => conn.after = Committed

\* The consumer gets the events one after the other (EventFeed), whatever connections
\* come and go.
Feed == INSTANCE EventFeed WITH committed <- Committed, cursor <- seen
FeedSpec == Feed!Spec

Streaming == conn.subscribed /\ conn.socket = "open" /\ client.state = "open"

\* A consumer that keeps reading gets every event, or its connection comes to an end: a
\* paused input is resumed in time.
EventsArrive == Streaming ~> seen = Committed \/ ~Streaming

\* Every request of a client whose events are read is answered or rejected, although the
\* responses wait behind the events.
RequestsSettle == \A id \in Ids : id \in client.pending ~> id \notin client.pending
=============================================================================
