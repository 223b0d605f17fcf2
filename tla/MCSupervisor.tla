---------------------------- MODULE MCSupervisor ----------------------------
(***************************************************************************)
(* Supervisor for TLC: see README.md for the bounds.                       *)
(***************************************************************************)
EXTENDS Supervisor, TLC

CONSTANTS c1, c2, a, b, i1, i2

MCCommands == {c1, c2}
MCProfiles == {a, b, Bench}
MCPids == {i1, i2}

\* Commands, pids and the profiles of the configuration are interchangeable.
Symmetry ==
  Permutations(MCCommands) \cup Permutations(MCPids) \cup Permutations({a, b})
=============================================================================
