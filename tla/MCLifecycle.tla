---------------------------- MODULE MCLifecycle ----------------------------
(* TLC instance of Lifecycle.                                               *)
EXTENDS Lifecycle, TLC

ClientSymmetry == Permutations(Clients)
EmployeeSymmetry == Permutations(Employees)
BothSymmetry == ClientSymmetry \cup EmployeeSymmetry
=============================================================================
