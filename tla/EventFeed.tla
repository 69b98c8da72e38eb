------------------------------ MODULE EventFeed ------------------------------
(***************************************************************************)
(* What the event stream promises to a consumer: events are committed one  *)
(* after the other, and the consumer is given the event after the last one *)
(* it has, each of them once.  Where it begins is chosen once, no later    *)
(* than the last event committed.                                          *)
(***************************************************************************)
EXTENDS Integers

VARIABLES
    committed,  \* sequence number of the last event
    cursor      \* sequence number of the last event the consumer has, or of its start

NotBegun == -1

Init == committed \in Nat /\ cursor = NotBegun

Begin == cursor = NotBegun /\ cursor' \in 0..committed /\ UNCHANGED committed
Commit == committed' = committed + 1 /\ UNCHANGED cursor
Deliver == cursor # NotBegun /\ cursor < committed /\ cursor' = cursor + 1 /\ UNCHANGED committed

Next == Begin \/ Commit \/ Deliver
Spec == Init /\ [][Next]_<<committed, cursor>>
=============================================================================
