---------------------------- MODULE DispatchGate ----------------------------
(***************************************************************************)
(* What the orchestrator and the lifecycle have to agree on: when actions  *)
(* are accepted (#acceptingActions), and what the company's row says.  A   *)
(* dispatch that was closed is opened again only by the start of a company *)
(* that does not run, or after the company was paused; nothing opens it    *)
(* while a suspension goes on, after one has failed, or when a Core starts *)
(* with the row of a company that was running.                             *)
(***************************************************************************)

VARIABLES
    open,    \* are actions accepted?
    status   \* status of the company

Init == open => status = "running"

\* stopDispatching, or the end of the Core
Close == open' = FALSE /\ UNCHANGED status

\* the operation that closed the dispatch says what it is for
Suspend == open' = FALSE /\ status' \in {"pausing", "stopping"}

\* the checkpoint is committed
Rest ==
    /\ ~open
    /\ \/ status = "pausing" /\ status' = "paused"
       \/ status = "stopping" /\ status' = "stopped"
    /\ UNCHANGED open

\* a suspension or a recovery failed
Fail == ~open /\ status' = "blocked" /\ UNCHANGED open

\* a recovery begins to start the employees
Restart == ~open /\ status = "paused" /\ status' = "starting" /\ UNCHANGED open

\* start and resumeDispatching
Open ==
    /\ ~open
    /\ status \in {"active", "stopped", "paused", "starting"}
    /\ open' = TRUE /\ status' = "running"

Next == Close \/ Suspend \/ Rest \/ Fail \/ Restart \/ Open

Spec == Init /\ [][Next]_<<open, status>>
=============================================================================
