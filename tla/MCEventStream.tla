---------------------------- MODULE MCEventStream ----------------------------
(* TLC instance of EventStream. *)
EXTENDS EventStream
=============================================================================
