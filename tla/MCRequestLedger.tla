--------------------------- MODULE MCRequestLedger ---------------------------
(* TLC instance of RequestLedger.                                           *)
EXTENDS RequestLedger, TLC

\* Any two of these are too much for a cache of four bytes, one of them is by itself.
SomeResponses == {<<"ok", 3>>, <<"ok", 5>>, <<"failed", 3>>}

Symmetry == Permutations(Keys) \cup Permutations(Connections) \cup Permutations(Mutations)
=============================================================================
