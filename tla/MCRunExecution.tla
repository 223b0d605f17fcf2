-------------------------- MODULE MCRunExecution --------------------------
(***************************************************************************)
(* RunExecution for TLC: see README.md for the bounds.                     *)
(***************************************************************************)
EXTENDS RunExecution

CONSTANTS p1, p2

MCProcs == {p1, p2}
=============================================================================
