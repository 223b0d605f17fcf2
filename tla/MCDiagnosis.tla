---------------------------- MODULE MCDiagnosis ----------------------------
(***************************************************************************)
(* Diagnosis for TLC: see README.md for the bounds.                        *)
(***************************************************************************)
EXTENDS Diagnosis, TLC

CONSTANTS p1, p2, r1, r2

MCProcs == {p1, p2}
MCRows == {r1, r2}

\* Processes and rows are interchangeable.
Symmetry == Permutations(MCProcs) \cup Permutations(MCRows)
=============================================================================
