----------------------------- MODULE MutationLog -----------------------------
(***************************************************************************)
(* What the Core promises about a mutating request: under an id it accepts *)
(* one request and performs it at most once, for ever.                     *)
(***************************************************************************)
EXTENDS Naturals

CONSTANTS Keys, Mutations, None

VARIABLES
    accepted,   \* the request accepted under an id, or None
    performed   \* how often it was performed

Init ==
    /\ accepted = [k \in Keys |-> None]
    /\ performed = [k \in Keys |-> 0]

Accept(k, m) ==
    /\ accepted[k] = None
    /\ accepted' = [accepted EXCEPT ![k] = m]
    /\ UNCHANGED performed

Perform(k) ==
    /\ accepted[k] # None /\ performed[k] = 0
    /\ performed' = [performed EXCEPT ![k] = 1]
    /\ UNCHANGED accepted

Next == \E k \in Keys : Perform(k) \/ \E m \in Mutations : Accept(k, m)

Spec == Init /\ [][Next]_<<accepted, performed>>
=============================================================================
